------------------------- MODULE Housekeeping_proofs -------------------------
(***************************************************************************)
(* Proofs about Housekeeping: type correctness, and that every close has   *)
(* the reason its job is there for, for any number of overlapping runs.    *)
(***************************************************************************)
EXTENDS Housekeeping, WellFoundedInduction, TLAPS

-------------------------------------------------------------------------------
(* The inductive invariant: what a run that has listed knows.              *)

Listed(r) == run[r].step # "list"

Deciding(r) == run[r].step \in {"keep", "close"}

\* The candidate being decided on is one of the listed ones.
CurIsListed(r) == Deciding(r) => run[r].cur \in run[r].todo

\* A run that has not started, or is over, holds nothing.
JoblessIsIdle(r) == run[r].job = "none" => ~Listed(r)

\* Only the budget and the stale job look at the labels once more.
KeepIsAsked(r) == run[r].step = "keep" => run[r].job \in {"budget", "stale"}

\* A candidate had no keep label at the listing, and who has none is loose.
LooseIsSeen(r) ==
    \A p \in PRs : Listed(r) /\ (p \in run[r].todo \/ ~has_label(p, "keep"))
                     => "loose" \in seen[r][p]

\* What the last look at a candidate found still holds, or "late" says why not.
LookHolds(r) ==
    run[r].step = "close" /\ run[r].job # "dedup" =>
      \/ "late" \in seen[r][run[r].cur]
      \/ /\ ~has_label(run[r].cur, "keep")
         /\ run[r].job = "empty" =>
              run[r].cur \in empty /\ run[r].cur \notin touched[r]

\* The listed heads are the heads, where nobody has pushed.
HeadIsListed(r) ==
    \A p \in PRs : Listed(r) /\ run[r].job = "budget" =>
                     "pushed" \in seen[r][p] \/ run[r].head[p] = head[p]

SpentIsSeen(r) ==
    \A p \in PRs : Listed(r) /\ Spent(board[p], head[p]) =>
                     "spent" \in seen[r][p] \/ "pushed" \in seen[r][p]

\* The candidate of the budget job has been spent, pushed to or labelled.
SpentIsRead(r) ==
    Deciding(r) /\ run[r].job = "budget" =>
      \/ run[r].cur \in run[r].forced
      \/ "spent" \in seen[r][run[r].cur]
      \/ "pushed" \in seen[r][run[r].cur]

\* q is an older twin of p that the run found open and will not close itself: it
\* is open still, or somebody else has seen to that.
Keeps(r, p, q) ==
    /\ q < p /\ "live" \in seen[r][q] /\ q \notin run[r].todo
    /\ Open(q) \/ "gone" \in seen[r][q]

\* Each duplicate has such a twin: the oldest one.
TwinIsSeen(r) ==
    Listed(r) /\ run[r].job = "dedup" =>
      \A p \in run[r].todo : \E q \in Twins(p) : Keeps(r, p, q)

RInv(r) ==
    /\ JoblessIsIdle(r)
    /\ CurIsListed(r)
    /\ KeepIsAsked(r)
    /\ LooseIsSeen(r)
    /\ LookHolds(r)
    /\ HeadIsListed(r)
    /\ SpentIsSeen(r)
    /\ SpentIsRead(r)
    /\ TwinIsSeen(r)

IInv == TypeOK /\ \A r \in Runs : RInv(r)

-------------------------------------------------------------------------------
(* Types                                                                   *)

\* What Idle, Leave and Touch are, type by type.
LEMMA IdleType == Idle \in Local /\ Idle.step = "list" /\ Idle.job = "none"
BY DEF Idle, Local, NoHeads, Jobs

LEMMA TouchByType ==
  ASSUME TypeOK, NEW by, NEW p \in PRs, NEW facts \in SUBSET Facts, TouchBy(by, p, facts)
  PROVE  /\ age' \in [PRs -> Ages]
         /\ touched' \in [Runs -> SUBSET PRs]
         /\ seen' \in [Runs -> [PRs -> SUBSET Facts]]
<1>1. age' \in [PRs -> Ages]
  BY DEF TypeOK, TouchBy, Ages
<1>2. touched' \in [Runs -> SUBSET PRs]
  BY DEF TypeOK, TouchBy
<1>3. \A r \in Runs : [seen[r] EXCEPT ![p] = @ \cup (IF r \in by THEN {} ELSE facts)
                          \cup (IF LookedAt(r, p) THEN {"late"} ELSE {})]
                       \in [PRs -> SUBSET Facts]
  <2> TAKE r \in Runs
  <2> DEFINE l == IF LookedAt(r, p) THEN {"late"} ELSE {}
             f == IF r \in by THEN {} ELSE facts
  <2>1. l \in SUBSET Facts /\ f \in SUBSET Facts
    BY DEF Facts
  <2>2. seen[r] \in [PRs -> SUBSET Facts]
    BY DEF TypeOK
  <2> HIDE DEF l, f
  <2>3. [seen[r] EXCEPT ![p] = @ \cup f \cup l] \in [PRs -> SUBSET Facts]
    BY <2>1, <2>2
  <2> QED BY <2>3 DEF l, f
<1>4. seen' \in [Runs -> [PRs -> SUBSET Facts]]
  BY <1>3 DEF TypeOK, TouchBy
<1> QED BY <1>1, <1>2, <1>4

LEMMA TouchType ==
  ASSUME TypeOK, NEW p \in PRs, NEW facts \in SUBSET Facts, Touch(p, facts)
  PROVE  /\ age' \in [PRs -> Ages]
         /\ touched' \in [Runs -> SUBSET PRs]
         /\ seen' \in [Runs -> [PRs -> SUBSET Facts]]
BY TouchByType DEF Touch

\* The local state of a run that is well formed.
LocalOK(x) == x \in Local /\ (x.step \in {"keep", "close"} => x.cur \in PRs)

LEMMA RunType ==
  ASSUME TypeOK, NEW r \in Runs, NEW x, LocalOK(x), run' = [run EXCEPT ![r] = x]
  PROVE  /\ run' \in [Runs -> Local]
         /\ \A s \in Runs : run'[s].step \in {"keep", "close"} => run'[s].cur \in PRs
BY DEF TypeOK, LocalOK

LEMMA ForgetType ==
  ASSUME TypeOK, NEW r \in Runs, Forget(r)
  PROVE  touched' \in [Runs -> SUBSET PRs] /\ seen' \in [Runs -> [PRs -> SUBSET Facts]]
<1>1. touched' \in [Runs -> SUBSET PRs]
  BY DEF TypeOK, Forget
<1>2. [p \in PRs |-> {}] \in [PRs -> SUBSET Facts]
  OBVIOUS
<1>3. seen' \in [Runs -> [PRs -> SUBSET Facts]]
  BY <1>2 DEF TypeOK, Forget
<1> QED BY <1>1, <1>3

LEMMA LeaveType ==
  ASSUME TypeOK, NEW r \in Runs, Leave(r)
  PROVE  /\ run' \in [Runs -> Local]
         /\ \A s \in Runs : run'[s].step \in {"keep", "close"} => run'[s].cur \in PRs
<1> DEFINE x == [run[r] EXCEPT !.todo = @ \ {run[r].cur}, !.cur = NoPR, !.step = "next"]
<1>1. LocalOK(x)
  <2>1. run[r] \in Local
    BY DEF TypeOK
  <2>2. x \in Local /\ x.step = "next"
    BY <2>1 DEF Local
  <2> HIDE DEF x
  <2> QED BY <2>2 DEF LocalOK
<1>2. run' = [run EXCEPT ![r] = x]
  BY DEF Leave, TypeOK
<1> QED BY <1>1, <1>2, RunType

LEMMA LookAtType ==
  ASSUME TypeOK, NEW r \in Runs, NEW p \in PRs, NEW c,
         NEW step \in {"keep", "close"}, LookAt(r, p, c, step)
  PROVE  TypeOK'
<1>1. CASE c
  <2> DEFINE x == [run[r] EXCEPT !.cur = p, !.step = step]
  <2>0. run[r] \in Local
    BY DEF TypeOK
  <2>1. LocalOK(x)
    BY <2>0 DEF Local, LocalOK
  <2>2. run' = [run EXCEPT ![r] = x]
    BY <1>1 DEF LookAt, TypeOK
  <2> HIDE DEF x
  <2> QED BY <2>1, <2>2, RunType DEF TypeOK, LookAt, github
<1>2. CASE ~c
  <2> DEFINE x == [run[r] EXCEPT !.todo = @ \ {p}]
  <2>0. run[r] \in Local /\ run[r].step = "next"
    BY DEF TypeOK, LookAt
  <2>1. x \in Local /\ x.step = "next"
    BY <2>0 DEF Local
  <2>2. run' = [run EXCEPT ![r] = x]
    BY <1>2 DEF LookAt, TypeOK
  <2>3. LocalOK(x)
    BY <2>1 DEF LocalOK
  <2> HIDE DEF x
  <2> QED BY <2>3, <2>2, RunType DEF TypeOK, LookAt, github
<1> QED BY <1>1, <1>2

LEMMA TypeInit == Init => TypeOK
BY IdleType, HeadsAssumption, BoundsAssumption
   DEF Init, TypeOK, Flags, Ages

LEMMA TypeStep == TypeOK /\ [Next]_vars => TypeOK'
<1> SUFFICES ASSUME TypeOK, [Next]_vars PROVE TypeOK'
  OBVIOUS
<1> USE BoundsAssumption
<1>1. ASSUME NEW p \in PRs, People(p) PROVE TypeOK'
  <2>1. ASSUME NEW h \in Heads, NEW e \in BOOLEAN, Push(p, h, e) PROVE TypeOK'
    <3>1. {"pushed"} \in SUBSET Facts
      BY DEF Facts
    <3> QED BY <2>1, <3>1, TouchType DEF Push, Move, TypeOK
  <2>2. ASSUME NEW b \in Boards, Review(p, b) PROVE TypeOK'
    <3>1. PICK facts \in SUBSET Facts : Touch(p, facts)
      BY <2>2 DEF Facts, Review
    <3> QED BY <2>2, <3>1, TouchType DEF Review, Move, TypeOK
  <2>3. ASSUME NEW f \in UsedFlags, SetFlag(p, f) PROVE TypeOK'
    <3>1. f \in Flags
      BY UsedAssumption
    <3>2. flags' \in [PRs -> SUBSET Flags]
      BY <2>3, <3>1 DEF SetFlag, TypeOK
    <3> QED BY <2>3, <3>2, TouchType DEF SetFlag, Move, TypeOK
  <2>4. ASSUME NEW f \in UsedFlags, ClearFlag(p, f) PROVE TypeOK'
    <3>1. PICK facts \in SUBSET Facts : Touch(p, facts)
      BY <2>4 DEF Facts, ClearFlag
    <3>2. flags' \in [PRs -> SUBSET Flags]
      BY <2>4 DEF ClearFlag, TypeOK
    <3> QED BY <2>4, <3>1, <3>2, TouchType DEF ClearFlag, Move, TypeOK
  <2>5. ASSUME CloseByHand(p) PROVE TypeOK'
    <3>1. {"gone"} \in SUBSET Facts
      BY DEF Facts
    <3> QED BY <2>5, <3>1, TouchType DEF CloseByHand, Move, TypeOK
  <2>6. ASSUME Reopen(p) PROVE TypeOK'
    <3> QED BY <2>6, TouchType DEF Reopen, Move, TypeOK
  <2>7. ASSUME NEW landed \in SUBSET Twins(p), Merge(p, landed) PROVE TypeOK'
    <3>1. {"gone"} \in SUBSET Facts
      BY DEF Facts
    <3>2. landed \in SUBSET PRs
      BY DEF Twins
    <3> QED BY <2>7, <3>1, <3>2, TouchType DEF Merge, Move, TypeOK
  <2> QED BY <1>1, <2>1, <2>2, <2>3, <2>4, <2>5, <2>6, <2>7 DEF People
<1>2. ASSUME NEW p \in PRs, GrowOld(p) PROVE TypeOK'
  BY <1>2 DEF GrowOld, TypeOK, Ages
<1>3. ASSUME NEW r \in Runs, Step(r) PROVE TypeOK'
  <2>1. CASE Start(r)
    <3> DEFINE x == [run[r] EXCEPT !.job = "empty"]
    <3>1. run[r] \in Local /\ (run[r].step \in {"keep", "close"} => run[r].cur \in PRs)
      BY DEF TypeOK
    <3>2. LocalOK(x)
      BY <3>1 DEF Local, LocalOK, Jobs
    <3>3. run' = [run EXCEPT ![r] = x]
      BY <2>1 DEF Start, TypeOK
    <3> HIDE DEF x
    <3> QED BY <2>1, <3>2, <3>3, RunType DEF Start, TypeOK, github
  <2>2. CASE List(r)
    <3> DEFINE x == [job |-> run[r].job, step |-> "next",
                     todo |-> {p \in PRs : Candidate(run[r].job, p)},
                     cur |-> NoPR,
                     head |-> IF run[r].job = "budget" THEN head ELSE NoHeads,
                     forced |-> {p \in PRs : run[r].job = "budget" /\ has_label(p, "budget")}]
    <3>1. run[r] \in Local /\ head \in [PRs -> Heads]
      BY DEF TypeOK
    <3>2. LocalOK(x)
      <4>1. x.head \in [PRs -> Heads \cup {NoHead}]
        BY <3>1 DEF NoHeads
      <4>2. run[r].job \in Jobs \cup {"none"}
        BY <3>1 DEF Local
      <4> QED BY <4>1, <4>2 DEF Local, LocalOK
    <3>3. run' = [run EXCEPT ![r] = x]
      BY <2>2 DEF List, TypeOK
    <3>4. touched' \in [Runs -> SUBSET PRs]
      BY <2>2 DEF List, TypeOK
    <3>5. [p \in PRs |-> (IF has_label(p, "keep") THEN {} ELSE {"loose"})
                         \cup (IF Spent(board[p], head[p]) THEN {"spent"} ELSE {})
                         \cup (IF run[r].job = "dedup" /\ Counts(p) THEN {"live"} ELSE {})]
            \in [PRs -> SUBSET Facts]
      BY DEF Facts
    <3>6. seen' \in [Runs -> [PRs -> SUBSET Facts]]
      BY <2>2, <3>5 DEF List, TypeOK
    <3> HIDE DEF x
    <3> QED BY <2>2, <3>2, <3>3, <3>4, <3>6, RunType DEF List, TypeOK, github
  <2>3. CASE EndJob(r)
    <3> DEFINE x == [Idle EXCEPT !.job = JobAfter[run[r].job]]
    <3>1. JobAfter[run[r].job] \in Jobs \cup {"none"}
      <4>1. run[r] \in Local /\ run[r].job # "none"
        BY <2>3 DEF TypeOK, EndJob
      <4> QED BY <4>1 DEF Local, JobAfter, Jobs
    <3>2. x \in Local /\ x.step = "list"
      BY IdleType, <3>1 DEF Local
    <3>3. run' = [run EXCEPT ![r] = x]
      BY <2>3 DEF EndJob
    <3> HIDE DEF x
    <3>4. LocalOK(x)
      BY <3>2 DEF LocalOK
    <3> QED BY <2>3, <3>3, <3>4, RunType, ForgetType DEF EndJob, TypeOK, github
  <2>4. ASSUME NEW p \in PRs, View(r, p) \/ ReadSpent(r, p) \/ ReadBlocking(r, p) \/ Decide(r, p)
        PROVE  TypeOK'
    BY <2>4, LookAtType DEF View, ReadSpent, ReadBlocking, Decide
  <2>5. CASE keep_label_live(r)
    <3>1. CASE has_label(run[r].cur, "keep")
      BY <2>5, <3>1, LeaveType DEF keep_label_live, TypeOK, github
    <3>2. CASE ~has_label(run[r].cur, "keep")
      <4> DEFINE x == [run[r] EXCEPT !.step = "close"]
      <4>1. run[r] \in Local /\ run[r].cur \in PRs
        BY <2>5 DEF TypeOK, keep_label_live
      <4>2. LocalOK(x)
        BY <4>1 DEF Local, LocalOK
      <4>3. run' = [run EXCEPT ![r] = x]
        BY <2>5, <3>2 DEF keep_label_live
      <4> HIDE DEF x
      <4> QED BY <2>5, <4>2, <4>3, RunType DEF keep_label_live, TypeOK, github
    <3> QED BY <3>1, <3>2
  <2>6. CASE Close(r)
    <3> DEFINE p == run[r].cur
    <3>1. p \in PRs /\ {"gone"} \in SUBSET Facts
      BY <2>6 DEF TypeOK, Close, Facts
    <3>2. /\ state' \in [PRs -> {"open", "closed", "merged"}]
          /\ age' \in [PRs -> Ages]
          /\ touched' \in [Runs -> SUBSET PRs]
          /\ seen' \in [Runs -> [PRs -> SUBSET Facts]]
      <4>1. CASE Open(p)
        BY <2>6, <3>1, <4>1, TouchByType DEF Close, TypeOK
      <4>2. CASE ~Open(p)
        BY <2>6, <4>2 DEF Close, TypeOK
      <4> QED BY <4>1, <4>2
    <3>3. Leave(r)
      BY <2>6 DEF Close
    <3> QED BY <2>6, <3>2, <3>3, LeaveType DEF Close, TypeOK
  <2> QED BY <1>3, <2>1, <2>2, <2>3, <2>4, <2>5, <2>6 DEF Step
<1>4. ASSUME NEW r \in Runs, CloseFails(r) PROVE TypeOK'
  <2>1. Leave(r)
    BY <1>4 DEF CloseFails
  <2> QED BY <1>4, <2>1, LeaveType DEF CloseFails, TypeOK, github
<1>5. ASSUME NEW r \in Runs, Die(r) PROVE TypeOK'
  <2>1. LocalOK(Idle)
    BY IdleType DEF LocalOK
  <2>2. /\ run' \in [Runs -> Local]
        /\ \A t \in Runs : run'[t].step \in {"keep", "close"} => run'[t].cur \in PRs
    BY <1>5, <2>1, RunType DEF Die
  <2>3. faults' \in 0..MaxFaults
    BY <1>5 DEF Die, TypeOK
  <2>4. touched' \in [Runs -> SUBSET PRs] /\ seen' \in [Runs -> [PRs -> SUBSET Facts]]
    BY <1>5, ForgetType DEF Die
  <2> QED BY <1>5, <2>2, <2>3, <2>4 DEF Die, TypeOK, github
<1>6. ASSUME NEW r \in Runs, NEW p \in PRs, ReadFails(r, p) PROVE TypeOK'
  <2> DEFINE x == [run[r] EXCEPT !.todo = @ \ {p}]
  <2>1. run[r] \in Local /\ run[r].step = "next"
    BY <1>6 DEF TypeOK, ReadFails
  <2>2. x \in Local /\ x.step = "next"
    BY <2>1 DEF Local
  <2>3. run' = [run EXCEPT ![r] = x]
    BY <1>6 DEF ReadFails, TypeOK
  <2> HIDE DEF x
  <2>4. LocalOK(x)
    BY <2>2 DEF LocalOK
  <2>5. /\ run' \in [Runs -> Local]
        /\ \A t \in Runs : run'[t].step \in {"keep", "close"} => run'[t].cur \in PRs
    BY <2>3, <2>4, RunType
  <2>6. faults' \in 0..MaxFaults
    BY <1>6 DEF ReadFails, TypeOK
  <2> QED BY <1>6, <2>5, <2>6 DEF ReadFails, TypeOK, github
<1>7. CASE UNCHANGED vars
  BY <1>7 DEF vars, github, TypeOK
<1> QED BY <1>1, <1>2, <1>3, <1>4, <1>5, <1>6, <1>7 DEF Next

\* Every variable keeps its type, whatever people do and however runs overlap.
THEOREM TypeCorrect == Spec => []TypeOK
BY TypeInit, TypeStep, PTL DEF Spec

-------------------------------------------------------------------------------
(* Steps that a run does not take part in, or in which it drops candidates.*)

\* The run r stays as it is, or leaves candidates.
Shrinks(r) ==
    \/ run'[r] = run[r]
    \/ /\ Listed(r)
       /\ run'[r].step = "next"
       /\ run'[r].job = run[r].job
       /\ run'[r].head = run[r].head
       /\ run'[r].todo \subseteq run[r].todo

\* What happens to q in this step is seen.
Noted(r, q) ==
    /\ seen[r][q] \subseteq seen'[r][q]
    /\ ~has_label(q, "keep")' => ~has_label(q, "keep") \/ "loose" \in seen'[r][q]
    /\ head'[q] = head[q] \/ "pushed" \in seen'[r][q]
    /\ Spent(board'[q], head'[q]) =>
         \/ Spent(board[q], head[q])
         \/ "spent" \in seen'[r][q] \/ "pushed" \in seen'[r][q]
    /\ Open(q) => Open(q)' \/ "gone" \in seen'[r][q] \/ q \in run[r].todo
    /\ LookedAt(r, q) =>
         \/ "late" \in seen'[r][q]
         \/ /\ has_label(q, "keep")' => has_label(q, "keep")
            /\ q \in empty => q \in empty'
            /\ q \notin touched[r] => q \notin touched'[r]

LEMMA NotedKeeps ==
  ASSUME TypeOK, TypeOK', NEW r \in Runs, RInv(r), Shrinks(r),
         Listed(r) => \A q \in PRs : Noted(r, q)
  PROVE  RInv(r)'
<1>1. CASE ~Listed(r)
  <2>1. run'[r] = run[r] /\ run[r].step = "list"
    BY <1>1 DEF Shrinks, Listed
  <2> QED BY <2>1 DEF RInv, JoblessIsIdle, CurIsListed, KeepIsAsked, LooseIsSeen, LookHolds,
                      HeadIsListed, SpentIsSeen,
                      SpentIsRead, TwinIsSeen, Listed, Deciding
<1>2. CASE Listed(r)
  <2>0. /\ \A q \in PRs : Noted(r, q)
        /\ run'[r].todo \subseteq run[r].todo
        /\ run'[r].job = run[r].job /\ run'[r].head = run[r].head
        /\ run'[r].step # "next" => run'[r] = run[r]
        /\ run[r].todo \subseteq PRs /\ (Deciding(r) => run[r].cur \in PRs)
    <3>1. run[r] \in Local /\ (Deciding(r) => run[r].cur \in PRs)
      BY DEF TypeOK, Deciding
    <3>2. run[r].todo \subseteq PRs
      BY <3>1 DEF Local
    <3> QED BY <1>2, <3>1, <3>2 DEF Shrinks
  <2>1. CurIsListed(r)'
    BY <2>0 DEF RInv, CurIsListed, Deciding
  <2>2. LooseIsSeen(r)'
    BY <1>2, <2>0 DEF RInv, LooseIsSeen, Noted
  <2>3. LookHolds(r)'
    <3> SUFFICES ASSUME run'[r].step = "close", run'[r].job # "dedup"
                 PROVE  \/ "late" \in seen'[r][run'[r].cur]
                        \/ /\ ~has_label(run[r].cur, "keep")'
                           /\ run'[r].job = "empty" =>
                                run'[r].cur \in empty' /\ run'[r].cur \notin touched'[r]
      BY DEF LookHolds
    <3> DEFINE q == run[r].cur
    <3>1. run'[r] = run[r] /\ q \in PRs /\ LookedAt(r, q)
      BY <2>0 DEF LookedAt, Deciding
    <3>2. \/ "late" \in seen[r][q]
          \/ /\ ~has_label(q, "keep")
             /\ run[r].job = "empty" => q \in empty /\ q \notin touched[r]
      BY <3>1 DEF RInv, LookHolds
    <3>3. Noted(r, q)
      BY <2>0, <3>1
    <3> QED BY <3>1, <3>2, <3>3 DEF Noted
  <2>4. HeadIsListed(r)'
    BY <1>2, <2>0 DEF RInv, HeadIsListed, Noted
  <2>5. SpentIsSeen(r)'
    BY <1>2, <2>0 DEF RInv, SpentIsSeen, Noted
  <2>6. SpentIsRead(r)'
    BY <2>0 DEF RInv, SpentIsRead, Deciding, Noted
  <2>7. TwinIsSeen(r)'
    <3> SUFFICES ASSUME run'[r].job = "dedup", NEW p \in run'[r].todo
                 PROVE  \E q \in Twins(p) : Keeps(r, p, q)'
      BY DEF TwinIsSeen, Twins
    <3>1. PICK q \in Twins(p) : Keeps(r, p, q)
      BY <1>2, <2>0 DEF RInv, TwinIsSeen
    <3>2. Noted(r, q)
      BY <2>0 DEF Twins
    <3>3. Keeps(r, p, q)'
      BY <2>0, <3>1, <3>2 DEF Noted, Keeps
    <3> QED BY <3>3
  <2>8. KeepIsAsked(r)' /\ JoblessIsIdle(r)'
    BY <1>2, <2>0 DEF RInv, KeepIsAsked, JoblessIsIdle
  <2> QED BY <2>1, <2>2, <2>3, <2>4, <2>5, <2>6, <2>7, <2>8 DEF RInv
<1> QED BY <1>1, <1>2

\* Nothing happens that a run could see.
LEMMA StillIsNoted ==
  ASSUME NEW r \in Runs, NEW q \in PRs,
         UNCHANGED <<state, flags, head, board, empty>>,
         seen'[r] = seen[r], touched'[r] = touched[r]
  PROVE  Noted(r, q)
BY DEF Noted, has_label, Open, Spent

\* Touch records what is done to p, provided it is told what matters.
LEMMA TouchByIsNoted ==
  ASSUME TypeOK, TypeOK', NEW r \in Runs, Listed(r),
         NEW by, NEW p \in PRs, NEW given \in SUBSET Facts, TouchBy(by, p, given),
         NEW facts, facts = IF r \in by THEN {} ELSE given,
         \A q \in PRs \ {p} :
            /\ flags'[q] = flags[q] /\ head'[q] = head[q] /\ board'[q] = board[q]
            /\ Open(q) => Open(q)'
            /\ q \in empty => q \in empty',
         has_label(p, "keep") => has_label(p, "keep")' \/ "loose" \in facts,
         head'[p] = head[p] \/ "pushed" \in facts,
         Spent(board'[p], head'[p]) =>
            Spent(board[p], head[p]) \/ "spent" \in facts \/ "pushed" \in facts,
         Open(p) => Open(p)' \/ "gone" \in facts \/ p \in run[r].todo,
         NEW q \in PRs
  PROVE  Noted(r, q)
<1>1. /\ seen'[r] = [seen[r] EXCEPT ![p] = @ \cup facts \cup
                                  (IF LookedAt(r, p) THEN {"late"} ELSE {})]
      /\ touched'[r] = touched[r] \cup {p}
  BY DEF TouchBy, Listed
<1>2. seen[r] \in [PRs -> SUBSET Facts]
  BY DEF TypeOK
<1>3. CASE q = p
  <2>1. seen'[r][p] = seen[r][p] \cup facts \cup
                        (IF LookedAt(r, p) THEN {"late"} ELSE {})
    BY <1>1, <1>2
  <2>2. LookedAt(r, p) => "late" \in seen'[r][p]
    BY <2>1
  <2>3. seen[r][p] \cup facts \subseteq seen'[r][p]
    BY <2>1
  <2> QED BY <1>3, <2>2, <2>3 DEF Noted
<1>4. CASE q # p
  <2>1. seen'[r][q] = seen[r][q]
    BY <1>1, <1>2, <1>4
  <2> QED BY <1>1, <1>4, <2>1 DEF Noted, has_label
<1> QED BY <1>3, <1>4

LEMMA TouchIsNoted ==
  ASSUME TypeOK, TypeOK', NEW r \in Runs, Listed(r),
         NEW p \in PRs, NEW facts \in SUBSET Facts, Touch(p, facts),
         \A q \in PRs \ {p} :
            /\ flags'[q] = flags[q] /\ head'[q] = head[q] /\ board'[q] = board[q]
            /\ Open(q) => Open(q)'
            /\ q \in empty => q \in empty',
         has_label(p, "keep") => has_label(p, "keep")' \/ "loose" \in facts,
         head'[p] = head[p] \/ "pushed" \in facts,
         Spent(board'[p], head'[p]) =>
            Spent(board[p], head[p]) \/ "spent" \in facts \/ "pushed" \in facts,
         Open(p) => Open(p)' \/ "gone" \in facts,
         NEW q \in PRs
  PROVE  Noted(r, q)
<1>1. facts = IF r \in {} THEN {} ELSE facts
  OBVIOUS
<1>2. TouchBy({}, p, facts)
  BY DEF Touch
<1> QED BY <1>1, <1>2, TouchByIsNoted

LEMMA PeopleKeep ==
  ASSUME TypeOK, TypeOK', NEW p \in PRs, People(p), NEW r \in Runs, RInv(r)
  PROVE  RInv(r)'
<1>1. run'[r] = run[r]
  BY DEF People, Push, Review, SetFlag, ClearFlag, CloseByHand, Reopen, Merge, Move
<1>2. Shrinks(r)
  BY <1>1 DEF Shrinks
<1> SUFFICES ASSUME Listed(r), NEW q \in PRs PROVE Noted(r, q)
  BY <1>2, NotedKeeps
<1>3. {} \in SUBSET Facts /\ {"pushed"} \in SUBSET Facts /\ {"gone"} \in SUBSET Facts
      /\ {"spent"} \in SUBSET Facts /\ {"loose"} \in SUBSET Facts
  BY DEF Facts
<1> USE DEF TypeOK
<1>4. ASSUME NEW h \in Heads, NEW e \in BOOLEAN, Push(p, h, e) PROVE Noted(r, q)
  <2>1. /\ Touch(p, {"pushed"}) /\ head' = [head EXCEPT ![p] = h]
        /\ UNCHANGED <<state, flags, board>>
        /\ \A t \in PRs \ {p} : t \in empty => t \in empty'
    BY <1>4 DEF Push
  <2> QED BY <1>3, <2>1, TouchIsNoted DEF has_label, Open
<1>5. ASSUME NEW b \in Boards, Review(p, b) PROVE Noted(r, q)
  <2> DEFINE facts == IF Spent(b, head[p]) THEN {"spent"} ELSE {}
  <2>1. facts \in SUBSET Facts
    BY DEF Facts
  <2>2. /\ Touch(p, facts) /\ board' = [board EXCEPT ![p] = b]
        /\ UNCHANGED <<state, flags, head, empty>>
    BY <1>5 DEF Review
  <2>3. Spent(board'[p], head'[p]) => "spent" \in facts
    BY <2>2
  <2> HIDE DEF facts
  <2> QED BY <2>1, <2>2, <2>3, TouchIsNoted DEF has_label, Open
<1>6. ASSUME NEW f \in UsedFlags, SetFlag(p, f) PROVE Noted(r, q)
  <2>1. /\ Touch(p, {}) /\ UNCHANGED <<state, head, board, empty>>
        /\ \A t \in PRs \ {p} : flags'[t] = flags[t]
        /\ flags[p] \subseteq flags'[p]
    BY <1>6 DEF SetFlag
  <2> QED BY <1>3, <2>1, TouchIsNoted DEF has_label, Open
<1>7. ASSUME NEW f \in UsedFlags, ClearFlag(p, f) PROVE Noted(r, q)
  <2> DEFINE facts == IF f = "keep" THEN {"loose"} ELSE {}
  <2>1. facts \in SUBSET Facts
    BY DEF Facts
  <2>2. /\ Touch(p, facts) /\ UNCHANGED <<state, head, board, empty>>
        /\ \A t \in PRs \ {p} : flags'[t] = flags[t]
        /\ flags'[p] = flags[p] \ {f}
    BY <1>7 DEF ClearFlag
  <2>3. has_label(p, "keep") => has_label(p, "keep")' \/ "loose" \in facts
    BY <2>2 DEF has_label
  <2> HIDE DEF facts
  <2> QED BY <2>1, <2>2, <2>3, TouchIsNoted DEF has_label, Open
<1>8. ASSUME CloseByHand(p) PROVE Noted(r, q)
  <2>1. /\ Touch(p, {"gone"}) /\ UNCHANGED <<flags, head, board, empty>>
        /\ \A t \in PRs \ {p} : state'[t] = state[t]
    BY <1>8 DEF CloseByHand
  <2> QED BY <1>3, <2>1, TouchIsNoted DEF has_label, Open
<1>9. ASSUME Reopen(p) PROVE Noted(r, q)
  <2>1. /\ Touch(p, {}) /\ UNCHANGED <<flags, head, board, empty>>
        /\ \A t \in PRs \ {p} : state'[t] = state[t]
        /\ state'[p] = "open"
    BY <1>9 DEF Reopen
  <2> QED BY <1>3, <2>1, TouchIsNoted DEF has_label, Open
<1>10. ASSUME NEW landed \in SUBSET Twins(p), Merge(p, landed) PROVE Noted(r, q)
  <2>1. /\ Touch(p, {"gone"}) /\ UNCHANGED <<flags, head, board>>
        /\ \A t \in PRs \ {p} : state'[t] = state[t]
        /\ empty \subseteq empty'
    BY <1>10 DEF Merge
  <2> QED BY <1>3, <2>1, TouchIsNoted DEF has_label, Open
<1> QED BY <1>4, <1>5, <1>6, <1>7, <1>8, <1>9, <1>10 DEF People

-------------------------------------------------------------------------------
(* The steps of a run                                                      *)

\* A run that is not listing goes back to its candidates, one fewer.
LEMMA LeaveShrinks ==
  ASSUME TypeOK, NEW r \in Runs, Listed(r), Leave(r)
  PROVE  /\ Shrinks(r) /\ run'[r].cur = NoPR
         /\ \A s \in Runs \ {r} : run'[s] = run[s]
<1>1. run[r] \in Local
  BY DEF TypeOK
<1>2. run'[r] = [run[r] EXCEPT !.todo = @ \ {run[r].cur}, !.cur = NoPR, !.step = "next"]
  BY DEF Leave, TypeOK
<1>3. /\ run'[r].step = "next" /\ run'[r].job = run[r].job /\ run'[r].head = run[r].head
      /\ run'[r].todo \subseteq run[r].todo /\ run'[r].cur = NoPR
  BY <1>1, <1>2 DEF Local
<1> QED BY <1>3 DEF Shrinks, Leave, TypeOK

\* What the close does to the pull request is seen by every run.
LEMMA CloseIsNoted ==
  ASSUME TypeOK, TypeOK', NEW r \in Runs, Close(r), NEW s \in Runs, Listed(s),
         RInv(s), NEW q \in PRs
  PROVE  Noted(s, q)
<1> DEFINE p == run[r].cur
<1>1. p \in PRs /\ {"gone"} \in SUBSET Facts
  BY DEF TypeOK, Close, Facts
<1>2. UNCHANGED <<flags, head, board, empty>>
  BY DEF Close
<1>3. CASE Open(p)
  <2>1. TouchBy({r}, p, {"gone"}) /\ state' = [state EXCEPT ![p] = "closed"]
    BY <1>3 DEF Close
  <2>2. \A t \in PRs \ {p} : state'[t] = state[t]
    BY <2>1 DEF TypeOK
  <2>3. s = r => p \in run[r].todo
    BY DEF RInv, CurIsListed, Deciding, Close
  <2>4. s # r => "gone" \in (IF s \in {r} THEN {} ELSE {"gone"})
    OBVIOUS
  <2> HIDE DEF p
  <2> QED BY <1>1, <1>2, <2>1, <2>2, <2>3, <2>4, TouchByIsNoted DEF has_label, Open
<1>4. CASE ~Open(p)
  <2>1. UNCHANGED <<state, touched, seen>>
    BY <1>4 DEF Close
  <2> QED BY <1>2, <2>1, StillIsNoted
<1> QED BY <1>3, <1>4

\* A step in which GitHub stays as it is, and so do r and what r has seen.
LEMMA StillKeeps ==
  ASSUME TypeOK, TypeOK', NEW r \in Runs, RInv(r),
         UNCHANGED <<state, flags, head, board, empty>>,
         Shrinks(r), seen'[r] = seen[r], touched'[r] = touched[r]
  PROVE  RInv(r)'
BY StillIsNoted, NotedKeeps

\* A run that is between jobs knows nothing.
LEMMA IdleKeeps ==
  ASSUME NEW r \in Runs, run'[r].step = "list" PROVE RInv(r)'
BY DEF RInv, JoblessIsIdle, CurIsListed, KeepIsAsked, LooseIsSeen, LookHolds,
                      HeadIsListed, SpentIsSeen,
       SpentIsRead, TwinIsSeen, Listed, Deciding

\* The oldest of some duplicates is none itself.
LEMMA OldestIsNone ==
  ASSUME NEW p \in PRs, Duplicate(p)
  PROVE  \E q \in Twins(p) : q < p /\ Counts(q) /\ ~Duplicate(q)
<1> DEFINE S == {q \in Twins(p) : q < p /\ Counts(q)}
           R == OpToRel(<, Nat)
<1>1. S # {} /\ S \subseteq Nat
  BY NumbersAssumption DEF Duplicate, Twins
<1>2. PICK q \in S : \A y \in S : <<y, q>> \notin R
  <2>1. IsWellFoundedOn(R, Nat)
    BY NatLessThanWellFounded
  <2> HIDE DEF R, S
  <2> QED BY <1>1, <2>1, WFMin
<1>3. ASSUME NEW y \in Twins(q), y < q, Counts(y) PROVE FALSE
  <2>1. y \in Twins(p) /\ y < p
    <3>1. /\ q \in Twins(p) /\ q < p /\ p \in Nat /\ q \in Nat /\ y \in Nat
          /\ y \in Twins(q) /\ y < q
      BY <1>2, <1>3, NumbersAssumption DEF Twins
    <3>2. y < p /\ y # p
      BY <3>1
    <3>3. y \in PRs /\ target[y] = target[p] /\ target[p] # NoTarget
      BY <3>1 DEF Twins
    <3> QED BY <3>2, <3>3 DEF Twins
  <2>2. y \in S /\ q \in Nat /\ y \in Nat
    BY <1>1, <1>3, <2>1
  <2>3. <<y, q>> \in R
    BY <1>3, <2>2 DEF OpToRel
  <2> QED BY <1>2, <2>2, <2>3
<1> QED BY <1>2, <1>3 DEF Duplicate

LEMMA ListKeeps ==
  ASSUME TypeOK, TypeOK', NEW r \in Runs, List(r)
  PROVE  RInv(r)'
<1>1. /\ run'[r].job = run[r].job /\ run'[r].step = "next"
      /\ run'[r].todo = {p \in PRs : Candidate(run[r].job, p)}
      /\ run[r].job = "budget" => run'[r].head = head
  BY DEF List, TypeOK
<1>2. /\ run[r].job \in Jobs
      /\ UNCHANGED <<state, flags, head, board, empty>>
  BY DEF List, TypeOK, Local, github
<1>3. \A p \in PRs : seen'[r][p] =
          (IF has_label(p, "keep") THEN {} ELSE {"loose"})
          \cup (IF Spent(board[p], head[p]) THEN {"spent"} ELSE {})
          \cup (IF run[r].job = "dedup" /\ Counts(p) THEN {"live"} ELSE {})
  BY DEF List, TypeOK
<1>4. \A p \in run'[r].todo : p \in PRs /\ Unheld(p)
  BY <1>1, <1>2 DEF Candidate, Jobs
<1>5. JoblessIsIdle(r)' /\ CurIsListed(r)' /\ KeepIsAsked(r)' /\ LookHolds(r)' /\ SpentIsRead(r)'
  BY <1>1, <1>2 DEF Jobs, JoblessIsIdle, CurIsListed, KeepIsAsked, LookHolds, SpentIsRead, Deciding
<1>6. LooseIsSeen(r)'
  <2> SUFFICES ASSUME NEW p \in PRs, p \in run'[r].todo \/ ~has_label(p, "keep")'
               PROVE  "loose" \in seen'[r][p]
    BY DEF LooseIsSeen
  <2>1. ~has_label(p, "keep")
    BY <1>2, <1>4 DEF Unheld, has_label
  <2> QED BY <1>3, <2>1
<1>7. HeadIsListed(r)'
  BY <1>1, <1>2 DEF HeadIsListed
<1>8. SpentIsSeen(r)'
  <2> SUFFICES ASSUME NEW p \in PRs, Spent(board'[p], head'[p])
               PROVE  "spent" \in seen'[r][p]
    BY DEF SpentIsSeen
  <2>1. Spent(board[p], head[p])
    BY <1>2
  <2> QED BY <1>3, <2>1
<1>9. TwinIsSeen(r)'
  <2> SUFFICES ASSUME run[r].job = "dedup", NEW p \in run'[r].todo
               PROVE  \E q \in Twins(p) : Keeps(r, p, q)'
    BY <1>1 DEF TwinIsSeen, Twins
  <2>1. p \in PRs /\ Candidate("dedup", p)
    BY <1>1
  <2>2. PICK q \in Twins(p) : q < p /\ Counts(q) /\ ~Duplicate(q)
    BY <2>1, OldestIsNone DEF Candidate
  <2>3. q \in PRs /\ Open(q)' /\ "live" \in seen'[r][q]
    <3>1. q \in PRs /\ Open(q) /\ Open(q)'
      BY <1>2, <2>2 DEF Twins, Counts, Open
    <3>2. (IF run[r].job = "dedup" /\ Counts(q) THEN {"live"} ELSE {}) = {"live"}
      BY <2>2
    <3> QED BY <1>3, <3>1, <3>2
  <2>4. q \notin run'[r].todo
    BY <1>1, <2>2 DEF Candidate
  <2> QED BY <2>2, <2>3, <2>4 DEF Keeps
<1> QED BY <1>5, <1>6, <1>7, <1>8, <1>9 DEF RInv

\* A look at p that passes, in a job that knows enough to go on.
LEMMA LookKeeps ==
  ASSUME TypeOK, TypeOK', NEW r \in Runs, RInv(r), NEW p \in PRs, NEW c,
         NEW step \in {"keep", "close"}, LookAt(r, p, c, step),
         step = "keep" => run[r].job \in {"budget", "stale"},
         step = "close" /\ run[r].job # "dedup" /\ c =>
            ~has_label(p, "keep") /\ p \in empty /\ p \notin touched[r],
         run[r].job = "budget" /\ c =>
            p \in run[r].forced \/ Spent(board[p], run[r].head[p])
  PROVE  RInv(r)'
<1>0. run[r] \in Local /\ run[r].step = "next" /\ p \in run[r].todo /\ Listed(r)
  BY DEF LookAt, TypeOK, Listed
<1>1. /\ UNCHANGED <<state, flags, head, board, empty>>
      /\ seen' = seen /\ touched' = touched
  BY DEF LookAt, github
<1>2. CASE ~c
  <2>1. run'[r] = [run[r] EXCEPT !.todo = @ \ {p}]
    BY <1>2 DEF LookAt, TypeOK
  <2>2. /\ run'[r].step = "next" /\ run'[r].job = run[r].job /\ run'[r].head = run[r].head
        /\ run'[r].todo \subseteq run[r].todo
    BY <1>0, <2>1 DEF Local
  <2>3. Shrinks(r)
    BY <1>0, <2>2 DEF Shrinks
  <2> QED BY <1>1, <2>3, StillKeeps
<1>3. CASE c
  <2>1. run'[r] = [run[r] EXCEPT !.cur = p, !.step = step]
    BY <1>3 DEF LookAt, TypeOK
  <2>2. /\ run'[r].cur = p /\ run'[r].step = step /\ run'[r].job = run[r].job
        /\ run'[r].todo = run[r].todo /\ run'[r].head = run[r].head
        /\ run'[r].forced = run[r].forced
    BY <1>0, <2>1 DEF Local
  <2>3. JoblessIsIdle(r)' /\ CurIsListed(r)' /\ KeepIsAsked(r)'
    BY <1>0, <2>2 DEF RInv, JoblessIsIdle, CurIsListed, KeepIsAsked
  <2>4. LooseIsSeen(r)' /\ HeadIsListed(r)' /\ SpentIsSeen(r)'
    BY <1>0, <1>1, <2>2 DEF RInv, LooseIsSeen, HeadIsListed, SpentIsSeen, Listed, has_label
  <2>5. LookHolds(r)'
    BY <1>1, <1>3, <2>2 DEF LookHolds, has_label
  <2>6. SpentIsRead(r)'
    <3> SUFFICES ASSUME run[r].job = "budget", p \notin run[r].forced
                 PROVE  "spent" \in seen[r][p] \/ "pushed" \in seen[r][p]
      BY <1>1, <2>2 DEF SpentIsRead
    <3>1. Spent(board[p], run[r].head[p])
      BY <1>3
    <3>2. "pushed" \in seen[r][p] \/ run[r].head[p] = head[p]
      BY <1>0 DEF RInv, HeadIsListed
    <3> QED BY <1>0, <3>1, <3>2 DEF RInv, SpentIsSeen
  <2>7. TwinIsSeen(r)'
    <3> SUFFICES ASSUME run[r].job = "dedup", NEW t \in run[r].todo
                 PROVE  \E q \in Twins(t) : Keeps(r, t, q)'
      BY <2>2 DEF TwinIsSeen, Twins
    <3> QED BY <1>0, <1>1, <2>2 DEF RInv, TwinIsSeen, Keeps, Open
  <2> QED BY <2>3, <2>4, <2>5, <2>6, <2>7 DEF RInv
<1> QED BY <1>2, <1>3

\* What a run does keeps what it knows itself.
LEMMA OwnStepKeeps ==
  ASSUME TypeOK, TypeOK', NEW r \in Runs, RInv(r), Step(r)
  PROVE  RInv(r)'
<1>1. CASE Start(r)
  <2>1. run[r] \in Local /\ run'[r] = [run[r] EXCEPT !.job = "empty"]
    BY <1>1 DEF Start, TypeOK
  <2>2. run'[r].step = run[r].step /\ run'[r].cur = run[r].cur
        /\ run'[r].todo = run[r].todo /\ run'[r].job = "empty" /\ run[r].job = "none"
    BY <1>1, <2>1 DEF Local, Start
  <2> QED BY <2>2, IdleKeeps DEF RInv, JoblessIsIdle, Listed
<1>2. CASE List(r)
  BY <1>2, ListKeeps
<1>3. CASE EndJob(r)
  BY <1>3, IdleKeeps, IdleType DEF EndJob, TypeOK, Idle
<1>4. ASSUME NEW p \in PRs, View(r, p) PROVE RInv(r)'
  BY <1>4, LookKeeps DEF View
<1>5. ASSUME NEW p \in PRs, ReadSpent(r, p) PROVE RInv(r)'
  BY <1>5, LookKeeps DEF ReadSpent
<1>6. ASSUME NEW p \in PRs, ReadBlocking(r, p) PROVE RInv(r)'
  BY <1>6, LookKeeps DEF ReadBlocking
<1>7. ASSUME NEW p \in PRs, Decide(r, p) PROVE RInv(r)'
  BY <1>7, LookKeeps DEF Decide
<1>8. CASE keep_label_live(r)
  <2>0. /\ UNCHANGED <<state, flags, head, board, empty>>
        /\ seen' = seen /\ touched' = touched /\ run[r].step = "keep"
    BY <1>8 DEF keep_label_live, github
  <2>1. CASE has_label(run[r].cur, "keep")
    <3>1. Shrinks(r)
      BY <1>8, <2>0, <2>1, LeaveShrinks DEF keep_label_live, Listed
    <3> QED BY <2>0, <3>1, StillKeeps
  <2>2. CASE ~has_label(run[r].cur, "keep")
    <3>1. run[r] \in Local /\ run'[r] = [run[r] EXCEPT !.step = "close"]
      BY <1>8, <2>2 DEF keep_label_live, TypeOK
    <3>2. /\ run'[r].step = "close" /\ run'[r].cur = run[r].cur
          /\ run'[r].job = run[r].job /\ run'[r].todo = run[r].todo
          /\ run'[r].head = run[r].head /\ run'[r].forced = run[r].forced
      BY <3>1 DEF Local
    <3>3. JoblessIsIdle(r)' /\ CurIsListed(r)' /\ KeepIsAsked(r)'
      BY <2>0, <3>2 DEF RInv, JoblessIsIdle, Listed, CurIsListed, KeepIsAsked, Deciding
    <3>4. LooseIsSeen(r)' /\ HeadIsListed(r)' /\ SpentIsSeen(r)'
      BY <2>0, <3>2 DEF RInv, LooseIsSeen, HeadIsListed, SpentIsSeen, Listed, has_label
    <3>5. LookHolds(r)' /\ SpentIsRead(r)'
      BY <2>0, <2>2, <3>2 DEF RInv, KeepIsAsked, LookHolds, SpentIsRead, Deciding, has_label
    <3>6. TwinIsSeen(r)'
      BY <2>0, <3>2 DEF RInv, KeepIsAsked, TwinIsSeen
    <3> QED BY <3>3, <3>4, <3>5, <3>6 DEF RInv
  <2> QED BY <2>1, <2>2
<1>9. CASE Close(r)
  <2>1. Listed(r) /\ Shrinks(r)
    BY <1>9, LeaveShrinks DEF Close, Listed
  <2> QED BY <1>9, <2>1, CloseIsNoted, NotedKeeps
<1> QED BY <1>1, <1>2, <1>3, <1>4, <1>5, <1>6, <1>7, <1>8, <1>9 DEF Step

\* What a run does keeps what the others know.
LEMMA OtherStepKeeps ==
  ASSUME TypeOK, TypeOK', NEW r \in Runs, Step(r), NEW s \in Runs \ {r}, RInv(s)
  PROVE  RInv(s)'
<1>1. CASE Close(r)
  <2>1. Shrinks(s)
    BY <1>1, LeaveShrinks DEF Close, Listed, Shrinks
  <2> QED BY <1>1, <2>1, CloseIsNoted, NotedKeeps
<1>2. CASE ~Close(r)
  <2>1. /\ UNCHANGED <<state, flags, head, board, empty>>
        /\ run'[s] = run[s] /\ seen'[s] = seen[s] /\ touched'[s] = touched[s]
    <3>1. CASE Start(r) \/ List(r) \/ EndJob(r)
      BY <3>1 DEF Start, List, EndJob, Forget, TypeOK, github
    <3>2. ASSUME NEW p \in PRs,
                 View(r, p) \/ ReadSpent(r, p) \/ ReadBlocking(r, p) \/ Decide(r, p)
          PROVE  /\ UNCHANGED <<state, flags, head, board, empty>>
                 /\ run'[s] = run[s] /\ seen'[s] = seen[s] /\ touched'[s] = touched[s]
      BY <3>2 DEF View, ReadSpent, ReadBlocking, Decide, LookAt, TypeOK, github
    <3>3. CASE keep_label_live(r)
      BY <3>3 DEF keep_label_live, Leave, TypeOK, github
    <3> QED BY <1>2, <3>1, <3>2, <3>3 DEF Step
  <2> QED BY <2>1, StillKeeps DEF Shrinks
<1> QED BY <1>1, <1>2

-------------------------------------------------------------------------------
(* The invariant                                                           *)

LEMMA IInvInit == Init => IInv
BY TypeInit, IdleType
   DEF Init, IInv, RInv, JoblessIsIdle, CurIsListed, KeepIsAsked, LooseIsSeen, LookHolds,
       HeadIsListed, SpentIsSeen, SpentIsRead, TwinIsSeen, Listed, Deciding

LEMMA IInvStep == IInv /\ [Next]_vars => IInv'
<1> SUFFICES ASSUME IInv, [Next]_vars, NEW s \in Runs PROVE RInv(s)'
  BY TypeStep DEF IInv
<1>0. TypeOK /\ TypeOK' /\ RInv(s)
  BY TypeStep DEF IInv
<1>1. ASSUME NEW p \in PRs, People(p) PROVE RInv(s)'
  BY <1>0, <1>1, PeopleKeep
<1>2. ASSUME NEW p \in PRs, GrowOld(p) PROVE RInv(s)'
  BY <1>0, <1>2, StillKeeps DEF GrowOld, Shrinks
<1>3. ASSUME NEW r \in Runs, Step(r) PROVE RInv(s)'
  BY <1>0, <1>3, OwnStepKeeps, OtherStepKeeps
<1>4. ASSUME NEW r \in Runs, CloseFails(r) PROVE RInv(s)'
  <2>1. Listed(r) /\ Leave(r) /\ UNCHANGED <<state, flags, head, board, empty>>
        /\ seen' = seen /\ touched' = touched
    BY <1>4 DEF CloseFails, Listed, github
  <2>2. Shrinks(s)
    BY <1>0, <2>1, LeaveShrinks DEF Shrinks
  <2> QED BY <1>0, <2>1, <2>2, StillKeeps
<1>5. ASSUME NEW r \in Runs, Die(r) PROVE RInv(s)'
  <2>1. CASE s = r
    BY <1>0, <1>5, <2>1, IdleKeeps, IdleType DEF Die, TypeOK
  <2>2. CASE s # r
    <3>1. /\ UNCHANGED <<state, flags, head, board, empty>>
          /\ run'[s] = run[s] /\ seen'[s] = seen[s] /\ touched'[s] = touched[s]
      BY <1>0, <1>5, <2>2 DEF Die, Forget, TypeOK, github
    <3> QED BY <1>0, <3>1, StillKeeps DEF Shrinks
  <2> QED BY <2>1, <2>2
<1>6. ASSUME NEW r \in Runs, NEW p \in PRs, ReadFails(r, p) PROVE RInv(s)'
  <2>1. /\ UNCHANGED <<state, flags, head, board, empty>>
        /\ seen' = seen /\ touched' = touched /\ run[r].step = "next" /\ run[r] \in Local
    BY <1>0, <1>6 DEF ReadFails, github, TypeOK
  <2>2. CASE s = r
    <3>1. run'[r] = [run[r] EXCEPT !.todo = @ \ {p}]
      BY <1>0, <1>6 DEF ReadFails, TypeOK
    <3>2. /\ run'[r].step = "next" /\ run'[r].job = run[r].job
          /\ run'[r].head = run[r].head /\ run'[r].todo \subseteq run[r].todo
      BY <2>1, <3>1 DEF Local
    <3>3. Shrinks(s)
      BY <2>1, <2>2, <3>2 DEF Shrinks, Listed
    <3> QED BY <1>0, <2>1, <3>3, StillKeeps
  <2>3. CASE s # r
    <3>1. run'[s] = run[s]
      BY <1>0, <1>6, <2>3 DEF ReadFails, TypeOK
    <3> QED BY <1>0, <2>1, <3>1, StillKeeps DEF Shrinks
  <2> QED BY <2>2, <2>3
<1>7. CASE UNCHANGED vars
  BY <1>0, <1>7, StillKeeps DEF vars, github, Shrinks
<1> QED BY <1>1, <1>2, <1>3, <1>4, <1>5, <1>6, <1>7 DEF Next, IInv

\* The inductive invariant: each run's records and what was seen since.
THEOREM IInvHolds == Spec => []IInv
BY IInvInit, IInvStep, PTL DEF Spec

-------------------------------------------------------------------------------
(* Every close has its reason                                              *)

\* A run closes a pull request in no other step than Close.
LEMMA ClosesByClose ==
  ASSUME TypeOK, Next, NEW r \in Runs, NEW p \in PRs, Closes(r, p)
  PROVE  run[r].step = "close" /\ run[r].cur = p
<1>1. state' # state /\ run'[r] # run[r] /\ run[r].cur = p
  BY DEF Closes, Open
<1>2. ASSUME NEW q \in PRs, People(q) \/ GrowOld(q) PROVE FALSE
  BY <1>1, <1>2 DEF People, Push, Review, SetFlag, ClearFlag, CloseByHand, Reopen, Merge,
                    Move, GrowOld
<1>3. ASSUME NEW s \in Runs, Step(s) PROVE run[r].step = "close"
  <2>1. Close(s)
    <3>1. ASSUME Start(s) \/ List(s) \/ EndJob(s) \/ keep_label_live(s) PROVE FALSE
      BY <1>1, <3>1 DEF Start, List, EndJob, keep_label_live, github
    <3>2. ASSUME NEW q \in PRs,
                 View(s, q) \/ ReadSpent(s, q) \/ ReadBlocking(s, q) \/ Decide(s, q)
          PROVE  FALSE
      BY <1>1, <3>2 DEF View, ReadSpent, ReadBlocking, Decide, LookAt, github
    <3> QED BY <1>3, <3>1, <3>2 DEF Step
  <2>2. s = r
    BY <1>1, <2>1, LeaveShrinks DEF Close, Listed
  <2> QED BY <2>1, <2>2 DEF Close
<1>4. ASSUME NEW s \in Runs, CloseFails(s) \/ Die(s) \/ (\E q \in PRs : ReadFails(s, q))
      PROVE  FALSE
  BY <1>1, <1>4 DEF CloseFails, Die, ReadFails, github
<1> QED BY <1>1, <1>2, <1>3, <1>4 DEF Next

LEMMA ClosesWithReason ==
  ASSUME IInv, [Next]_vars, NEW r \in Runs, NEW p \in PRs, Closes(r, p)
  PROVE  /\ run[r].step = "close" /\ run[r].cur = p /\ p \in run[r].todo
         /\ RInv(r)
<1>1. Next
  BY DEF Closes, Open, vars, github
<1> QED BY <1>1, ClosesByClose DEF IInv, RInv, CurIsListed, Deciding

\* A keep label that comes in time spares a pull request, whatever job looks at it.
THEOREM KeptIsSpared == Spec => KeepSpares
<1>1. IInv /\ [Next]_vars =>
        [\A r \in Runs, p \in PRs :
           Closes(r, p) /\ has_label(p, "keep") =>
             IF run[r].job = "dedup" THEN "loose" \in seen[r][p]
                                     ELSE "late" \in seen[r][p]]_vars
  <2> SUFFICES ASSUME IInv, [Next]_vars, NEW r \in Runs, NEW p \in PRs,
                      Closes(r, p), has_label(p, "keep")
               PROVE  IF run[r].job = "dedup" THEN "loose" \in seen[r][p]
                                              ELSE "late" \in seen[r][p]
    OBVIOUS
  <2> QED BY ClosesWithReason DEF RInv, LookHolds, LooseIsSeen, Listed
<1> QED BY <1>1, IInvHolds, PTL DEF Spec, KeepSpares

\* Work that goes on is not raced by the empty job, but for its last call.
THEOREM WorkIsNotRacedHolds == Spec => WorkIsNotRaced
<1>1. IInv /\ [Next]_vars =>
        [\A r \in Runs, p \in PRs :
           Closes(r, p) /\ run[r].job = "empty" =>
             \/ p \in empty /\ p \notin touched[r]
             \/ "late" \in seen[r][p]]_vars
  <2> SUFFICES ASSUME IInv, [Next]_vars, NEW r \in Runs, NEW p \in PRs,
                      Closes(r, p), run[r].job = "empty"
               PROVE  \/ p \in empty /\ p \notin touched[r]
                      \/ "late" \in seen[r][p]
    OBVIOUS
  <2> QED BY ClosesWithReason DEF RInv, LookHolds
<1> QED BY <1>1, IInvHolds, PTL DEF Spec, WorkIsNotRaced

\* The budget job closes what was reviewed to the cap, or pushed to since.
THEOREM SpentIsReviewedHolds == Spec => SpentIsReviewed
<1>1. IInv /\ [Next]_vars =>
        [\A r \in Runs, p \in PRs :
           Closes(r, p) /\ run[r].job = "budget" /\ p \notin run[r].forced =>
             seen[r][p] \cap {"spent", "pushed"} # {}]_vars
  <2> SUFFICES ASSUME IInv, [Next]_vars, NEW r \in Runs, NEW p \in PRs,
                      Closes(r, p), run[r].job = "budget", p \notin run[r].forced
               PROVE  seen[r][p] \cap {"spent", "pushed"} # {}
    OBVIOUS
  <2>1. "spent" \in seen[r][p] \/ "pushed" \in seen[r][p]
    BY ClosesWithReason DEF RInv, SpentIsRead, Deciding
  <2> QED BY <2>1
<1> QED BY <1>1, IInvHolds, PTL DEF Spec, SpentIsReviewed

\* For any number of runs that overlap and whatever people do: deduplication
\* spares the oldest of the duplicates that it listed, and every close of a
\* younger one has a listed older twin that others may have ended since, but
\* not the run itself (housekeeping.py 219-247).
THEOREM OlderTwinStaysHolds == Spec => OlderTwinStays
<1>1. IInv /\ [Next]_vars =>
        [\A r \in Runs, p \in PRs :
           Closes(r, p) /\ run[r].job = "dedup" =>
             \E q \in Twins(p) : /\ q < p /\ "live" \in seen[r][q]
                                 /\ Open(q) \/ "gone" \in seen[r][q]]_vars
  <2> SUFFICES ASSUME IInv, [Next]_vars, NEW r \in Runs, NEW p \in PRs,
                      Closes(r, p), run[r].job = "dedup"
               PROVE  \E q \in Twins(p) : /\ q < p /\ "live" \in seen[r][q]
                                          /\ Open(q) \/ "gone" \in seen[r][q]
    OBVIOUS
  <2> QED BY ClosesWithReason DEF RInv, TwinIsSeen, Keeps, Listed
<1> QED BY <1>1, IInvHolds, PTL DEF Spec, OlderTwinStays
===============================================================================
