------------------------- MODULE ToolchainTags_proofs -------------------------
(***************************************************************************)
(* For any releases, any history of main and any interleaving of the calls *)
(* of the runs with everybody else's: a tag that `--create` makes is what  *)
(* its message says, a report that waited for CI knows how it ended, and a *)
(* report without news repeats the last one.  What a row of an audit says  *)
(* stays true while main only grows and verdicts of CI only go when CI is  *)
(* run again; what an audit comes to changes only with the news.           *)
(***************************************************************************)
EXTENDS ToolchainTags, WellFoundedInduction, TLAPS

\* c starts an era of main on the release r.
Era(r, c, m) ==
    r >= Earliest /\ c \in 1..Len(m) /\ m[c] = r /\ (c = 1 \/ m[c - 1] # r)

\* What an audit says of r, by main, CI, the cache, and what was run again
RowOk(r, row, sha, m, v, o, again) ==
    /\ row.status \in {"asked", "green", "ready"} => Era(r, row.commit, m)
    /\ row.status \in {"green", "ready"} => v[row.commit] = "success" \/ row.commit \in again
    /\ row.status = "ready" => row.commit \in o
    /\ row.status = "pending" /\ row.commit = sha /\ sha # NoCommit => sha \in again

Begins(m, n) == Len(m) <= Len(n) /\ \A i \in 1..Len(m) : m[i] = n[i]

LocalOk(l, m, v, o, again) ==
    /\ l \in Local
    /\ Begins(l.main, m)
    /\ l.sha # NoCommit /\ l.step \notin {"idle", "wait"} =>
          v[l.sha] # "none" \/ l.sha \in again
    /\ \A r \in Releases : RowOk(r, l.rows[r], l.sha, m, v, o, again)

WorldTypes ==
    /\ main \in Seq(Pins) /\ Len(main) \in Commits
    /\ mathlib \in SUBSET Releases
    /\ ci \in [Commits -> Conclusions]
    /\ cache \in SUBSET Places
    /\ tags \in [Releases -> Places \cup {NoCommit}]
    /\ topic \in Topics
    /\ queue \in SUBSET Jobs
    /\ rerun \in [Runs -> SUBSET Commits]
    /\ news \in [last : BOOLEAN, audit : BOOLEAN]
    /\ moves \in 0..MaxMoves
    /\ faults \in 0..MaxFaults

IInv ==
    /\ WorldTypes
    /\ run \in [Runs -> Local]
    /\ \A k \in Runs : LocalOk(run[k], main, ci, cache, rerun[k])

-------------------------------------------------------------------------------
(* Facts about eras and audits                                             *)

\* A set of commits has a newest one.
LEMMA Newest ==
  ASSUME NEW n \in Nat, NEW T \in SUBSET (1..n), T # {}
  PROVE  \E i \in T : \A j \in T : j <= i
<1> DEFINE S == {n - i : i \in T}
           R == OpToRel(<, Nat)
<1>1. S \subseteq Nat
  <2>1. \A i \in T : n - i \in Nat
    OBVIOUS
  <2> QED BY <2>1
<1>2. S # {}
  OBVIOUS
<1>3. PICK x \in S : \A y \in S : <<y, x>> \notin R
  <2> HIDE DEF S, R
  <2>1. IsWellFoundedOn(R, Nat)
    BY NatLessThanWellFounded DEF R
  <2> QED BY <1>1, <1>2, <2>1, WFMin
<1>4. \A y \in S : ~(y < x)
  BY <1>1, <1>3 DEF OpToRel
<1>5. PICK i \in T : x = n - i
  OBVIOUS
<1>6. ASSUME NEW j \in T PROVE j <= i
  <2>1. n - j \in S
    OBVIOUS
  <2>2. ~(n - j < n - i)
    BY <1>4, <1>5, <2>1
  <2>3. i \in 1..n /\ j \in 1..n
    OBVIOUS
  <2> QED BY <2>2, <2>3
<1> QED BY <1>6

\* RuleCommit is the last era's.
LEMMA RuleCommitIsLast ==
  ASSUME NEW m \in Seq(Pins), NEW r \in Ran(m)
  PROVE  /\ RuleCommit(m, r) \in EraStarts(m) /\ m[RuleCommit(m, r)] = r
         /\ \A j \in EraStarts(m) : m[j] = r => j <= RuleCommit(m, r)
<1> DEFINE T == {i \in EraStarts(m) : m[i] = r}
<1>1. Len(m) \in Nat /\ EraStarts(m) \subseteq 1..Len(m)
  BY DEF EraStarts
<1>2. T \in SUBSET (1..Len(m)) /\ T # {}
  BY <1>1 DEF Ran
<1>3. \E i \in T : \A j \in T : j <= i
  <2> HIDE DEF T
  <2> QED BY <1>1, <1>2, Newest
<1>4. \E i \in EraStarts(m) : m[i] = r /\ \A j \in EraStarts(m) : m[j] = r => j <= i
  BY <1>3
<1> QED BY <1>4 DEF RuleCommit

LEMMA RuleCommitIsEra ==
  ASSUME NEW m \in Seq(Pins), NEW r \in Ran(m)
  PROVE  /\ RuleCommit(m, r) \in 1..Len(m) /\ m[RuleCommit(m, r)] = r
         /\ RuleCommit(m, r) = 1 \/ m[RuleCommit(m, r) - 1] # r
BY RuleCommitIsLast DEF EraStarts

LEMMA NoRowType == NoRow \in Rows /\ NoRow.status = "none" /\ NoRow.commit = NoCommit
BY DEF NoRow, Rows, Statuses, Conclusions

\* What is said before CI is asked
LEMMA FirstRowOk ==
  ASSUME NEW l \in Local, NEW r \in Releases, NEW m, NEW v, NEW o, NEW again,
         Begins(l.main, m), Len(l.main) <= MaxCommits, NEW sha
  PROVE  FirstRow(l, r) \in Rows /\ RowOk(r, FirstRow(l, r), sha, m, v, o, again)
<1>1. l.main \in Seq(Pins) /\ l.tags \in [Releases -> Places \cup {NoCommit}]
  BY DEF Local
<1>2. l.tags[r] \in Places \cup {NoCommit}
  BY <1>1
<1>3. CASE r \notin InScope(l)
  <2>1. FirstRow(l, r) = NoRow
    BY <1>3 DEF FirstRow
  <2> QED BY <2>1, NoRowType DEF RowOk
<1>4. CASE r \in InScope(l) /\ r \notin Ran(l.main)
  <2> DEFINE s == IF l.tags[r] # NoCommit THEN "tagged"
                  ELSE IF r < Earliest THEN "out-of-scope"
                  ELSE IF Below(r, Ran(l.main)) THEN "unreachable" ELSE "ahead"
             row == FirstRow(l, r)
  <2>1. row = [NoRow EXCEPT !.status = s, !.commit = l.tags[r]]
    BY <1>4 DEF FirstRow, UnreachableRow
  <2>2. s \in {"tagged", "out-of-scope", "unreachable", "ahead"}
    OBVIOUS
  <2> HIDE DEF s
  <2>3. row \in Rows /\ row.status = s
    BY <1>2, <2>1, <2>2 DEF NoRow, Rows, Statuses, Conclusions
  <2> HIDE DEF row
  <2>4. RowOk(r, row, sha, m, v, o, again)
    BY <2>2, <2>3 DEF RowOk
  <2> QED BY <2>3, <2>4 DEF row
<1>5. CASE r \in InScope(l) /\ r \in Ran(l.main)
  <2> DEFINE c == RuleCommit(l.main, r)
             s == IF r < Earliest THEN "out-of-scope"
                  ELSE IF l.tags[r] = c THEN "tagged"
                  ELSE IF l.tags[r] # NoCommit THEN "blocked" ELSE "asked"
             row == FirstRow(l, r)
  <2>1. row = [status |-> s, commit |-> c, ci |-> "none"]
    BY <1>5 DEF FirstRow
  <2>2. s \in {"out-of-scope", "tagged", "blocked", "asked"} /\ (s = "asked" => ~(r < Earliest))
    OBVIOUS
  <2>3. c \in 1..Len(l.main) /\ l.main[c] = r /\ (c = 1 \/ l.main[c - 1] # r)
    BY <1>1, <1>5, RuleCommitIsEra
  <2>4. r \in Nat /\ Earliest \in Nat /\ MaxCommits \in Nat /\ Len(l.main) \in Nat
    BY <1>1, ReleasesAssumption, CommitsAssumption
  <2> HIDE DEF s, c
  <2>5. c \in Commits
    BY <2>3, <2>4 DEF Commits
  <2>6. row \in Rows /\ row.status = s /\ row.commit = c
    BY <2>1, <2>2, <2>5 DEF Rows, Statuses, Conclusions, Places
  <2>7. s = "asked" => Era(r, c, m)
    <3>1. c \in 1..Len(m) /\ m[c] = l.main[c]
      BY <2>3, <2>4 DEF Begins
    <3>2. c = 1 \/ (c - 1 \in 1..Len(l.main) /\ m[c - 1] = l.main[c - 1])
      BY <2>3, <2>4 DEF Begins
    <3> QED BY <2>2, <2>3, <2>4, <3>1, <3>2 DEF Era
  <2> HIDE DEF row
  <2>8. RowOk(r, row, sha, m, v, o, again)
    BY <2>2, <2>6, <2>7 DEF RowOk
  <2> QED BY <2>6, <2>8 DEF row
<1> QED BY <1>3, <1>4, <1>5

\* An audit outlives what goes on around it.
LEMMA Stays ==
  ASSUME NEW l, NEW m \in Seq(Pins), NEW n \in Seq(Pins), Len(m) \in Commits, Begins(m, n),
         NEW v, NEW w, NEW o, NEW q, o \subseteq q, NEW again, NEW more, again \subseteq more,
         \A c \in Commits : v[c] # "none" => w[c] = v[c] \/ c \in more,
         LocalOk(l, m, v, o, again)
  PROVE  LocalOk(l, n, w, q, more)
<1>1. l \in Local /\ l.main \in Seq(Pins) /\ l.sha \in Commits \cup {NoCommit}
  BY DEF LocalOk, Local
<1>2. Len(m) \in Nat /\ Len(n) \in Nat /\ Len(l.main) \in Nat /\ MaxCommits \in Nat
      /\ Len(m) <= MaxCommits
  BY <1>1, CommitsAssumption DEF Commits
<1>3. Begins(l.main, n)
  <2>1. Begins(l.main, m)
    BY DEF LocalOk
  <2>2. Len(l.main) <= Len(m) /\ Len(m) <= Len(n)
    BY <2>1 DEF Begins
  <2>3. \A i \in 1..Len(l.main) : i \in 1..Len(m)
    BY <1>2, <2>2
  <2>4. Len(l.main) <= Len(n)
    BY <1>2, <2>2
  <2> QED BY <2>1, <2>3, <2>4 DEF Begins
<1>4. l.sha # NoCommit /\ l.step \notin {"idle", "wait"} => w[l.sha] # "none" \/ l.sha \in more
  BY <1>1 DEF LocalOk
<1>5. ASSUME NEW r \in Releases PROVE RowOk(r, l.rows[r], l.sha, n, w, q, more)
  <2> DEFINE row == l.rows[r]
             c == row.commit
  <2>1. RowOk(r, row, l.sha, m, v, o, again)
    BY DEF LocalOk
  <2>2. Era(r, c, m) => Era(r, c, n) /\ c \in Commits
    <3>1. ASSUME Era(r, c, m) PROVE Era(r, c, n) /\ c \in Commits
      <4>1. c \in 1..Len(m) /\ m[c] = r /\ (c = 1 \/ m[c - 1] # r) /\ r >= Earliest
        BY <3>1 DEF Era
      <4> HIDE DEF c
      <4>2. c \in 1..Len(n) /\ n[c] = r /\ c \in Commits
        BY <1>2, <4>1 DEF Begins, Commits
      <4>3. c = 1 \/ (c - 1 \in 1..Len(m) /\ n[c - 1] = m[c - 1])
        BY <1>2, <4>1 DEF Begins
      <4> QED BY <4>1, <4>2, <4>3 DEF Era
    <3> QED BY <3>1
  <2>3. c \in Commits /\ v[c] = "success" => w[c] = "success" \/ c \in more
    OBVIOUS
  <2> HIDE DEF row
  <2>4. c = row.commit
    OBVIOUS
  <2> HIDE DEF c
  <2>5. row.status \in {"asked", "green", "ready"} => Era(r, row.commit, n)
    BY <2>1, <2>2, <2>4 DEF RowOk
  <2>6. row.status \in {"green", "ready"} =>
           w[row.commit] = "success" \/ row.commit \in more
    BY <2>1, <2>2, <2>3, <2>4 DEF RowOk
  <2>7. row.status = "ready" => row.commit \in q
    BY <2>1 DEF RowOk
  <2>8. row.status = "pending" /\ row.commit = l.sha /\ l.sha # NoCommit => l.sha \in more
    BY <2>1 DEF RowOk
  <2>9. RowOk(r, row, l.sha, n, w, q, more)
    BY <2>5, <2>6, <2>7, <2>8 DEF RowOk
  <2> QED BY <2>9 DEF row
<1> QED BY <1>1, <1>3, <1>4, <1>5 DEF LocalOk

LEMMA RunsAre == Runs = {"report", "create"}
BY DEF Runs

LEMMA MoveType ==
  ASSUME moves \in 0..MaxMoves, moves < MaxMoves, moves' = moves + 1
  PROVE  moves' \in 0..MaxMoves
<1>1. moves \in Nat /\ MaxMoves \in Nat
  BY BoundsAssumption
<1> QED BY <1>1

-------------------------------------------------------------------------------
(* What goes on around the runs                                            *)

LEMMA WorldStep ==
  ASSUME IInv, WorldTypes', UNCHANGED run, Begins(main, main'), cache \subseteq cache',
         \A k \in Runs : rerun[k] \subseteq rerun'[k],
         \A k \in Runs : \A c \in Commits :
            ci[c] # "none" => ci'[c] = ci[c] \/ c \in rerun'[k]
  PROVE  IInv'
<1>1. ASSUME NEW k \in Runs PROVE LocalOk(run[k], main', ci', cache', rerun'[k])
  <2>1. LocalOk(run[k], main, ci, cache, rerun[k])
    BY DEF IInv
  <2>2. main \in Seq(Pins) /\ main' \in Seq(Pins) /\ Len(main) \in Commits
    BY DEF IInv, WorldTypes
  <2>3. rerun[k] \subseteq rerun'[k]
        /\ \A c \in Commits : ci[c] # "none" => ci'[c] = ci[c] \/ c \in rerun'[k]
    OBVIOUS
  <2> DEFINE n == main'
             w == ci'
             q == cache'
             more == rerun'[k]
             again == rerun[k]
  <2>4. n \in Seq(Pins) /\ Begins(main, n) /\ cache \subseteq q /\ again \subseteq more
        /\ \A c \in Commits : ci[c] # "none" => w[c] = ci[c] \/ c \in more
    BY <2>2, <2>3
  <2>5. LocalOk(run[k], main, ci, cache, again)
    BY <2>1
  <2> HIDE DEF n, w, q, more, again
  <2>6. LocalOk(run[k], n, w, q, more)
    BY <2>2, <2>4, <2>5, Stays
  <2> QED BY <2>6 DEF n, w, q, more
<1> QED BY <1>1 DEF IInv

LEMMA BeginsItself == ASSUME NEW m \in Seq(Pins) PROVE Begins(m, m)
<1>1. Len(m) \in Nat
  OBVIOUS
<1> QED BY <1>1 DEF Begins

LEMMA CommitStep ==
  ASSUME IInv, NEW t \in Pins, Commit(t)
  PROVE  IInv'
<1> DEFINE n == main'
           len == Len(main)
<1>1. /\ main \in Seq(Pins) /\ len \in Nat /\ len < MaxCommits /\ MaxCommits \in Nat
      /\ n = Append(main, t)
  BY CommitsAssumption DEF IInv, WorldTypes, Commit
<1>2. n \in Seq(Pins) /\ Len(n) = len + 1 /\ \A i \in 1..len : n[i] = main[i]
  BY <1>1
<1>3. len + 1 \in Commits /\ len <= len + 1
  BY <1>1 DEF Commits
<1>4. Begins(main, n)
  BY <1>2, <1>3 DEF Begins
<1>5. queue' \in SUBSET Jobs
  BY <1>3 DEF IInv, WorldTypes, Commit, Request, Jobs
<1>6. news' \in [last : BOOLEAN, audit : BOOLEAN]
  <2> DEFINE b == Strays(t)
  <2>1. news' = news \/ news' = [last |-> news.last \/ b, audit |-> news.audit \/ b]
    BY DEF Commit, News
  <2>2. news \in [last : BOOLEAN, audit : BOOLEAN]
    BY DEF IInv, WorldTypes
  <2>3. b \in BOOLEAN
    BY Zenon DEF Strays
  <2> HIDE DEF b
  <2> QED BY <2>1, <2>2, <2>3
<1>7. moves' \in 0..MaxMoves
  BY MoveType DEF IInv, WorldTypes, Commit, Move
<1>8. WorldTypes'
  BY <1>2, <1>3, <1>5, <1>6, <1>7 DEF IInv, WorldTypes, Commit, Move
<1> HIDE DEF n
<1>9. Begins(main, main')
  BY <1>4 DEF n
<1> QED BY <1>8, <1>9, WorldStep DEF Commit, Move

\* What changes neither main nor what was verified
LEMMA BystanderStep ==
  ASSUME IInv, UNCHANGED <<main, ci, run, rerun>>, cache \subseteq cache', WorldTypes'
  PROVE  IInv'
<1>1. Begins(main, main')
  BY BeginsItself DEF IInv, WorldTypes
<1> QED BY <1>1, WorldStep

LEMMA PeopleStep ==
  ASSUME IInv, World
  PROVE  IInv'
<1>1. ASSUME NEW t \in Pins, Commit(t) PROVE IInv'
  BY <1>1, CommitStep
<1>2. ASSUME NEW r \in Releases, MathlibTags(r) PROVE IInv'
  <2>1. news' \in [last : BOOLEAN, audit : BOOLEAN] /\ moves' \in 0..MaxMoves
    BY <1>2, MoveType DEF IInv, WorldTypes, MathlibTags, News, Move
  <2>2. WorldTypes'
    BY <1>2, <2>1 DEF IInv, WorldTypes, MathlibTags, Move
  <2> QED BY <1>2, <2>2, BystanderStep DEF MathlibTags, Move
<1>3. ASSUME NEW r \in Releases, NEW c \in Places, TagByHand(r, c) PROVE IInv'
  <2>1. news' \in [last : BOOLEAN, audit : BOOLEAN] /\ moves' \in 0..MaxMoves
    BY <1>3, MoveType DEF IInv, WorldTypes, TagByHand, News, Move
  <2>2. WorldTypes'
    BY <1>3, <2>1 DEF IInv, WorldTypes, TagByHand, Move
  <2> QED BY <1>3, <2>2, BystanderStep DEF TagByHand, Move
<1>4. ASSUME NEW c \in Commits, NEW conclusion \in Conclusions \ {"none"},
             Conclude(c, conclusion)
      PROVE  IInv'
  <2>1. news' \in [last : BOOLEAN, audit : BOOLEAN] /\ moves' \in 0..MaxMoves
    BY <1>4, MoveType DEF IInv, WorldTypes, Conclude, News, Move
  <2>2. WorldTypes'
    BY <1>4, <2>1 DEF IInv, WorldTypes, Conclude, Move
  <2>3. \A d \in Commits : ci[d] # "none" => ci'[d] = ci[d]
    BY <1>4 DEF IInv, WorldTypes, Conclude
  <2>4. Begins(main, main')
    BY <1>4, BeginsItself DEF IInv, WorldTypes, Conclude
  <2> QED BY <1>4, <2>2, <2>3, <2>4, WorldStep DEF Conclude, Move
<1>5. ASSUME NEW c \in Commits, RunAgain(c) PROVE IInv'
  <2>1. news' \in [last : BOOLEAN, audit : BOOLEAN] /\ moves' \in 0..MaxMoves
    BY <1>5, MoveType DEF IInv, WorldTypes, RunAgain, News, Move
  <2>2. ci' \in [Commits -> Conclusions] /\ rerun' \in [Runs -> SUBSET Commits]
    BY <1>5 DEF IInv, WorldTypes, RunAgain, Conclusions
  <2>3. WorldTypes'
    BY <1>5, <2>1, <2>2 DEF IInv, WorldTypes, RunAgain, Move
  <2>4. \A k \in Runs : rerun'[k] = rerun[k] \cup {c}
    BY <1>5 DEF RunAgain
  <2>5. \A d \in Commits : d # c => ci'[d] = ci[d]
    BY <1>5 DEF IInv, WorldTypes, RunAgain
  <2>6. Begins(main, main')
    BY <1>5, BeginsItself DEF IInv, WorldTypes, RunAgain
  <2> QED BY <1>5, <2>3, <2>4, <2>5, <2>6, WorldStep DEF RunAgain, Move
<1>6. ASSUME NEW c \in Commits, Publish(c) PROVE IInv'
  <2>1. news' \in [last : BOOLEAN, audit : BOOLEAN] /\ moves' \in 0..MaxMoves
    BY <1>6, MoveType DEF IInv, WorldTypes, Publish, News, Move
  <2>2. cache' \in SUBSET Places /\ cache \subseteq cache'
    BY <1>6 DEF IInv, WorldTypes, Publish, Places
  <2>3. WorldTypes'
    BY <1>6, <2>1, <2>2 DEF IInv, WorldTypes, Publish, Move
  <2> QED BY <1>6, <2>2, <2>3, BystanderStep DEF Publish, Move
<1>7. ASSUME NEW wait \in BOOLEAN, Dispatch(wait) PROVE IInv'
  <2>1. moves' \in 0..MaxMoves /\ queue' \in SUBSET Jobs
    BY <1>7, MoveType DEF IInv, WorldTypes, Dispatch, Move, Request, Jobs
  <2>2. WorldTypes'
    BY <1>7, <2>1 DEF IInv, WorldTypes, Dispatch, Move, world
  <2> QED BY <1>7, <2>2, BystanderStep DEF Dispatch, Move, world
<1> QED BY <1>1, <1>2, <1>3, <1>4, <1>5, <1>6, <1>7 DEF World

-------------------------------------------------------------------------------
(* The steps of a run                                                      *)

\* What a run's step must do: leave the run a faithful audit.
LEMMA RunStep ==
  ASSUME IInv, NEW k \in Runs, NEW l, Set(k, l), UNCHANGED <<main, ci, cache, rerun>>,
         WorldTypes', LocalOk(l, main, ci, cache, rerun[k])
  PROVE  IInv'
<1>1. l \in Local
  BY DEF LocalOk
<1>2. run' \in [Runs -> Local]
  BY <1>1 DEF IInv, Set
<1>3. ASSUME NEW j \in Runs PROVE LocalOk(run'[j], main, ci, cache, rerun[j])
  <2>1. run'[j] = IF j = k THEN l ELSE run[j]
    BY DEF IInv, Set
  <2> QED BY <2>1 DEF IInv
<1>4. \A j \in Runs : LocalOk(run'[j], main', ci', cache', rerun'[j])
  BY <1>3
<1> QED BY <1>2, <1>4 DEF IInv

LEMMA RunOk ==
  ASSUME IInv, NEW k \in Runs
  PROVE  run[k] \in Local /\ LocalOk(run[k], main, ci, cache, rerun[k])
BY DEF IInv

LEMMA Unseen ==
  ASSUME NEW rows, NEW sha, NEW again, \A r \in Releases : rows[r] = NoRow
  PROVE  \A r \in Releases : RowOk(r, rows[r], sha, main, ci, cache, again)
BY NoRowType, CommitsAssumption DEF RowOk

LEMMA IdleOk ==
  ASSUME main \in Seq(Pins), NEW again
  PROVE  LocalOk(Idle, main, ci, cache, again)
<1>1. Idle \in Local
  <2>1. NoTags \in [Releases -> Places \cup {NoCommit}]
    BY DEF NoTags
  <2>2. [r \in Releases |-> NoRow] \in [Releases -> Rows]
    BY NoRowType
  <2>3. <<>> \in Seq(Pins)
    OBVIOUS
  <2> QED BY <2>1, <2>2, <2>3 DEF Idle, Local, Steps
<1>2. Idle.main = <<>> /\ Idle.sha = NoCommit /\ \A r \in Releases : Idle.rows[r] = NoRow
  BY DEF Idle
<1>3. Begins(<<>>, main)
  BY DEF Begins
<1> HIDE DEF Idle
<1>4. \A r \in Releases : RowOk(r, Idle.rows[r], Idle.sha, main, ci, cache, again)
  BY <1>2, Unseen
<1> QED BY <1>1, <1>2, <1>3, <1>4 DEF LocalOk

LEMMA StopStep ==
  ASSUME IInv, NEW k \in Runs, Set(k, Idle), UNCHANGED <<main, ci, cache, rerun>>, WorldTypes'
  PROVE  IInv'
<1>1. LocalOk(Idle, main, ci, cache, rerun[k])
  BY IdleOk DEF IInv, WorldTypes
<1> QED BY <1>1, RunStep

LEMMA BeginStep ==
  ASSUME IInv, NEW k \in Runs, NEW sha \in Jobs, NEW wanted \in SUBSET Releases,
         Begin(k, sha, wanted), UNCHANGED <<main, ci, cache>>, WorldTypes'
  PROVE  IInv'
<1> DEFINE l == [Idle EXCEPT !.step = IF sha = NoCommit THEN "fetch" ELSE "wait",
                             !.sha = sha, !.wanted = wanted]
<1>1. main \in Seq(Pins)
  BY DEF IInv, WorldTypes
<1>2. Idle \in Local /\ Begins(Idle.main, main)
  BY <1>1, IdleOk DEF LocalOk
<1>3. /\ l \in Local /\ l.main = Idle.main /\ l.rows = Idle.rows /\ l.sha = sha
      /\ l.step = IF sha = NoCommit THEN "fetch" ELSE "wait"
  BY <1>2 DEF Local, Jobs, Steps
<1>4. \A r \in Releases : l.rows[r] = NoRow
  BY <1>3 DEF Idle
<1>5. run' = [run EXCEPT ![k] = l] /\ rerun' = [rerun EXCEPT ![k] = {}]
  BY DEF Begin, Set
<1> HIDE DEF l
<1>6. \A r \in Releases : RowOk(r, l.rows[r], l.sha, main, ci, cache, {})
  BY <1>4, Unseen
<1>7. LocalOk(l, main, ci, cache, {})
  BY <1>2, <1>3, <1>6 DEF LocalOk
<1>8. run' \in [Runs -> Local]
  BY <1>3, <1>5 DEF IInv
<1>9. ASSUME NEW j \in Runs PROVE LocalOk(run'[j], main, ci, cache, rerun'[j])
  <2>1. run'[j] = (IF j = k THEN l ELSE run[j])
    BY <1>5 DEF IInv
  <2>2. rerun'[j] = (IF j = k THEN {} ELSE rerun[j])
    BY <1>5 DEF IInv, WorldTypes
  <2> QED BY <1>7, <2>1, <2>2 DEF IInv
<1>10. \A j \in Runs : LocalOk(run'[j], main', ci', cache', rerun'[j])
  BY <1>9
<1> QED BY <1>8, <1>10 DEF IInv

\* What a run changes only in itself
LEMMA StillTypes ==
  ASSUME IInv, UNCHANGED <<world, topic, queue, rerun, moves, faults>>,
         news' \in [last : BOOLEAN, audit : BOOLEAN]
  PROVE  WorldTypes' /\ UNCHANGED <<main, ci, cache, rerun>>
BY DEF IInv, WorldTypes, world

LEMMA QuietTypes ==
  ASSUME IInv, UNCHANGED <<world, topic, queue, rerun, news, moves, faults>>
  PROVE  WorldTypes' /\ UNCHANGED <<main, ci, cache, rerun>>
BY DEF IInv, WorldTypes, world

LEMMA WaitStep ==
  ASSUME IInv, NEW k \in Runs, wait_for_ci(k) \/ TimeOut(k)
  PROVE  IInv'
<1>1. WorldTypes' /\ UNCHANGED <<main, ci, cache, rerun>>
  BY QuietTypes DEF wait_for_ci, TimeOut
<1>2. ASSUME wait_for_ci(k) PROVE IInv'
  <2> DEFINE o == run[k]
             l == [o EXCEPT !.step = "fetch"]
  <2>1. o \in Local /\ LocalOk(o, main, ci, cache, rerun[k])
    BY RunOk
  <2>2. ci[o.sha] # "none" /\ Set(k, l)
    BY <1>2 DEF wait_for_ci
  <2> HIDE DEF o
  <2>3. /\ l \in Local /\ l.main = o.main /\ l.rows = o.rows /\ l.sha = o.sha
    BY <2>1 DEF Local, Steps
  <2> HIDE DEF l
  <2>4. LocalOk(l, main, ci, cache, rerun[k])
    BY <2>1, <2>2, <2>3 DEF LocalOk
  <2> QED BY <1>1, <2>2, <2>4, RunStep
<1>3. ASSUME TimeOut(k) PROVE IInv'
  BY <1>1, <1>3, StopStep DEF TimeOut
<1> QED BY <1>2, <1>3

LEMMA FetchStep ==
  ASSUME IInv, NEW k \in Runs, fetch_main(k)
  PROVE  IInv'
<1>1. WorldTypes' /\ UNCHANGED <<main, ci, cache, rerun>>
  <2>1. news' \in [last : BOOLEAN, audit : BOOLEAN]
    BY DEF fetch_main, IInv, WorldTypes
  <2> QED BY <2>1, StillTypes DEF fetch_main
<1> DEFINE o == run[k]
           l == [o EXCEPT !.step = "tags", !.main = main]
<1>2. o \in Local /\ LocalOk(o, main, ci, cache, rerun[k]) /\ o.step = "fetch"
  BY RunOk DEF fetch_main
<1>3. Set(k, l) /\ main \in Seq(Pins)
  BY DEF fetch_main, IInv, WorldTypes
<1> HIDE DEF o
<1>4. l \in Local /\ l.main = main /\ l.rows = o.rows /\ l.sha = o.sha
  BY <1>2, <1>3 DEF Local, Steps
<1>5. Begins(l.main, main)
  BY <1>3, <1>4, BeginsItself
<1> HIDE DEF l
<1>6. LocalOk(l, main, ci, cache, rerun[k])
  BY <1>2, <1>4, <1>5 DEF LocalOk
<1> QED BY <1>1, <1>3, <1>6, RunStep

LEMMA TagsStep ==
  ASSUME IInv, NEW k \in Runs, existing_tags(k)
  PROVE  IInv'
<1>1. WorldTypes' /\ UNCHANGED <<main, ci, cache, rerun>>
  BY QuietTypes DEF existing_tags
<1>2. CASE Ran(run[k].main) = {}
  BY <1>1, <1>2, StopStep DEF existing_tags
<1>3. CASE Ran(run[k].main) # {}
  <2> DEFINE o == run[k]
             l == [o EXCEPT !.step = "mathlib", !.tags = tags]
  <2>1. o \in Local /\ LocalOk(o, main, ci, cache, rerun[k]) /\ o.step = "tags"
    BY RunOk DEF existing_tags
  <2>2. Set(k, l) /\ tags \in [Releases -> Places \cup {NoCommit}]
    BY <1>3 DEF existing_tags, IInv, WorldTypes
  <2> HIDE DEF o
  <2>3. l \in Local /\ l.main = o.main /\ l.rows = o.rows /\ l.sha = o.sha
    BY <2>1, <2>2 DEF Local, Steps
  <2> HIDE DEF l
  <2>4. LocalOk(l, main, ci, cache, rerun[k])
    BY <2>1, <2>3 DEF LocalOk
  <2> QED BY <1>1, <2>2, <2>4, RunStep
<1> QED BY <1>2, <1>3

LEMMA AuditStep ==
  ASSUME IInv, NEW k \in Runs, mathlib_releases(k)
  PROVE  IInv'
<1>1. WorldTypes' /\ UNCHANGED <<main, ci, cache, rerun>>
  BY QuietTypes DEF mathlib_releases
<1> DEFINE o == run[k]
           rows == [r \in Releases |-> FirstRow(o, r)]
           l == [o EXCEPT !.step = "judge", !.main = <<>>, !.tags = NoTags, !.rows = rows]
<1>2. o \in Local /\ LocalOk(o, main, ci, cache, rerun[k]) /\ o.step = "mathlib"
  BY RunOk DEF mathlib_releases
<1>3. Set(k, l) /\ main \in Seq(Pins) /\ Len(main) \in Commits
  BY DEF mathlib_releases, IInv, WorldTypes
<1> HIDE DEF o
<1>4. Begins(o.main, main) /\ Len(o.main) <= MaxCommits
  <2>1. Begins(o.main, main)
    BY <1>2 DEF LocalOk
  <2>2. Len(o.main) \in Nat /\ Len(main) \in Nat /\ MaxCommits \in Nat
        /\ Len(main) <= MaxCommits /\ Len(o.main) <= Len(main)
    BY <1>2, <1>3, <2>1, CommitsAssumption DEF Local, Commits, Begins
  <2> QED BY <2>1, <2>2
<1>5. \A r \in Releases :
         FirstRow(o, r) \in Rows /\ RowOk(r, FirstRow(o, r), o.sha, main, ci, cache, rerun[k])
  BY <1>2, <1>4, FirstRowOk
<1>6. rows \in [Releases -> Rows] /\ \A r \in Releases : rows[r] = FirstRow(o, r)
  BY <1>5
<1>7. NoTags \in [Releases -> Places \cup {NoCommit}] /\ <<>> \in Seq(Pins)
  BY DEF NoTags
<1> HIDE DEF rows
<1>8. l \in Local /\ l.main = <<>> /\ l.rows = rows /\ l.sha = o.sha
  BY <1>2, <1>6, <1>7 DEF Local, Steps
<1>9. Begins(<<>>, main)
  BY DEF Begins
<1> HIDE DEF l
<1>10. \A r \in Releases : RowOk(r, l.rows[r], l.sha, main, ci, cache, rerun[k])
  BY <1>5, <1>6, <1>8
<1>11. l.sha # NoCommit => ci[l.sha] # "none" \/ l.sha \in rerun[k]
  BY <1>2, <1>8 DEF LocalOk
<1>12. LocalOk(l, main, ci, cache, rerun[k])
  BY <1>8, <1>9, <1>10, <1>11 DEF LocalOk
<1> QED BY <1>1, <1>3, <1>12, RunStep

\* A verdict on one release
LEMMA VerdictStep ==
  ASSUME IInv, NEW k \in Runs, NEW r \in Releases, NEW row \in Rows,
         UNCHANGED <<main, ci, cache, rerun>>, WorldTypes',
         Set(k, [run[k] EXCEPT !.rows[r] = row]),
         RowOk(r, row, run[k].sha, main, ci, cache, rerun[k])
  PROVE  IInv'
<1> DEFINE o == run[k]
           l == [o EXCEPT !.rows[r] = row]
<1>1. o \in Local /\ LocalOk(o, main, ci, cache, rerun[k])
  BY RunOk
<1>2. Set(k, l) /\ RowOk(r, row, o.sha, main, ci, cache, rerun[k])
  OBVIOUS
<1> HIDE DEF o
<1>3. /\ l \in Local /\ l.main = o.main /\ l.sha = o.sha /\ l.step = o.step
      /\ l.rows = [o.rows EXCEPT ![r] = row] /\ o.rows \in [Releases -> Rows]
  BY <1>1 DEF Local
<1>4. \A s \in Releases : l.rows[s] = IF s = r THEN row ELSE o.rows[s]
  BY <1>3
<1> HIDE DEF l
<1>5. \A s \in Releases : RowOk(s, l.rows[s], l.sha, main, ci, cache, rerun[k])
  BY <1>1, <1>2, <1>3, <1>4 DEF LocalOk
<1>6. LocalOk(l, main, ci, cache, rerun[k])
  BY <1>1, <1>3, <1>5 DEF LocalOk
<1> QED BY <1>2, <1>6, RunStep

LEMMA CiStep ==
  ASSUME IInv, NEW k \in Runs, NEW r \in Releases, ci_passed(k, r)
  PROVE  IInv'
<1> DEFINE row == run[k].rows[r]
           c == row.commit
           n == [row EXCEPT !.ci = ci[c], !.status = CiVerdict(c)]
<1>1. WorldTypes' /\ UNCHANGED <<main, ci, cache, rerun>>
  BY QuietTypes DEF ci_passed, SetStatus
<1>2. row \in Rows /\ RowOk(r, row, run[k].sha, main, ci, cache, rerun[k])
  BY RunOk DEF LocalOk, Local
<1>3. row.status = "asked" /\ run[k].step = "judge"
  BY DEF ci_passed, Judging
<1>4. Set(k, [run[k] EXCEPT !.rows[r] = [[row EXCEPT !.ci = ci[c]] EXCEPT !.status = CiVerdict(c)]])
  BY DEF ci_passed, SetStatus
<1>5. Era(r, c, main) /\ c \in Commits /\ ci[c] \in Conclusions
  <2>1. Era(r, c, main)
    BY <1>2, <1>3 DEF RowOk
  <2>2. Len(main) \in Nat /\ Len(main) <= MaxCommits /\ MaxCommits \in Nat
    BY CommitsAssumption DEF IInv, WorldTypes, Commits
  <2>3. c \in 1..Len(main)
    BY <2>1 DEF Era
  <2>4. c \in Commits
    BY <2>2, <2>3 DEF Commits
  <2> QED BY <2>1, <2>4 DEF IInv, WorldTypes
<1>6. /\ CiVerdict(c) \in {"pending", "blocked", "green"}
      /\ CiVerdict(c) = "pending" => ci[c] = "none"
      /\ CiVerdict(c) = "green" => ci[c] = "success"
  BY <1>5 DEF CiVerdict, Conclusions
<1>7. run[k].sha # NoCommit => ci[run[k].sha] # "none" \/ run[k].sha \in rerun[k]
  BY <1>3, RunOk DEF LocalOk
<1>8. [[row EXCEPT !.ci = ci[c]] EXCEPT !.status = CiVerdict(c)] = n
  BY <1>2 DEF Rows
<1>9. Set(k, [run[k] EXCEPT !.rows[r] = n])
  BY <1>4, <1>8
<1> DEFINE verdict == CiVerdict(c)
<1>10. verdict \in {"pending", "blocked", "green"} /\ n = [row EXCEPT !.ci = ci[c], !.status = verdict]
  BY <1>6
<1>11. verdict = "pending" => ci[c] = "none"
  BY <1>6
<1>12. verdict = "green" => ci[c] = "success"
  BY <1>6
<1> HIDE DEF verdict, row, n
<1>13. n \in Rows /\ n.status = verdict /\ n.commit = c
  BY <1>2, <1>5, <1>10 DEF Rows, Statuses
<1> HIDE DEF c
<1>14. RowOk(r, n, run[k].sha, main, ci, cache, rerun[k])
  BY <1>5, <1>7, <1>10, <1>11, <1>12, <1>13 DEF RowOk
<1> QED BY <1>1, <1>9, <1>13, <1>14, VerdictStep

LEMMA CacheStep ==
  ASSUME IInv, NEW k \in Runs, NEW r \in Releases, cache_published(k, r)
  PROVE  IInv'
<1> DEFINE row == run[k].rows[r]
           verdict == IF row.commit \in cache THEN "ready" ELSE "blocked"
           n == [row EXCEPT !.status = verdict]
<1>1. WorldTypes' /\ UNCHANGED <<main, ci, cache, rerun>>
  BY QuietTypes DEF cache_published, SetStatus
<1>2. row \in Rows /\ RowOk(r, row, run[k].sha, main, ci, cache, rerun[k])
  BY RunOk DEF LocalOk, Local
<1>3. row.status = "green" /\ Set(k, [run[k] EXCEPT !.rows[r] = n])
  BY DEF cache_published, SetStatus
<1>4. verdict \in {"ready", "blocked"} /\ (verdict = "ready" => row.commit \in cache)
  OBVIOUS
<1> HIDE DEF row, verdict
<1>5. n \in Rows /\ n.status = verdict /\ n.commit = row.commit
  BY <1>2, <1>4 DEF Rows, Statuses
<1> HIDE DEF n
<1>6. RowOk(r, n, run[k].sha, main, ci, cache, rerun[k])
  BY <1>2, <1>3, <1>4, <1>5 DEF RowOk
<1> QED BY <1>1, <1>3, <1>5, <1>6, VerdictStep

LEMMA CreateStep ==
  ASSUME IInv, NEW r \in Releases, create_tag(r)
  PROVE  IInv'
<1>1. UNCHANGED <<main, ci, cache, rerun, mathlib, topic, queue, moves, faults>>
  BY DEF create_tag
<1>2. "create" \in Runs
  BY RunsAre
<1>3. CASE tags[r] = NoCommit
  <2> DEFINE row == run["create"].rows[r]
             n == [row EXCEPT !.status = "tagged"]
  <2>1. row \in Rows
    BY <1>2, RunOk DEF Local
  <2>2. tags' = [tags EXCEPT ![r] = row.commit] /\ News(TRUE)
    BY <1>3 DEF create_tag
  <2>3. Set("create", [run["create"] EXCEPT !.rows[r].status = "tagged"])
    BY <1>3 DEF create_tag
  <2>4. Set("create", [run["create"] EXCEPT !.rows[r] = n])
    BY <2>3
  <2>5. WorldTypes'
    <3>1. tags' \in [Releases -> Places \cup {NoCommit}]
      BY <2>1, <2>2 DEF IInv, WorldTypes, Rows
    <3>2. news' \in [last : BOOLEAN, audit : BOOLEAN]
      BY <2>2 DEF News, IInv, WorldTypes
    <3> QED BY <1>1, <3>1, <3>2 DEF IInv, WorldTypes
  <2> HIDE DEF row
  <2>6. n \in Rows /\ n.status = "tagged"
    BY <2>1 DEF Rows, Statuses
  <2> HIDE DEF n
  <2>7. RowOk(r, n, run["create"].sha, main, ci, cache, rerun["create"])
    BY <2>6 DEF RowOk
  <2> QED BY <1>1, <1>2, <2>4, <2>5, <2>6, <2>7, VerdictStep
<1>4. CASE tags[r] # NoCommit
  <2>1. Set("create", Idle) /\ UNCHANGED <<tags, news>>
    BY <1>4 DEF create_tag
  <2>2. WorldTypes'
    BY <1>1, <2>1 DEF IInv, WorldTypes
  <2> QED BY <1>1, <1>2, <2>1, <2>2, StopStep
<1> QED BY <1>3, <1>4

LEMMA DigestType ==
  ASSUME NEW rows \in [Releases -> Rows]
  PROVE  state_digest(rows) \in SUBSET (Releases \X Rows)
BY DEF state_digest

\* Whether a report is posted or not, the topic then shows the digest; a report
\* that is posted says something else than the one before.
LEMMA Posting ==
  ASSUME topic \in Topics, NEW d \in SUBSET (Releases \X Rows), PostIfChanged(d)
  PROVE  /\ topic' \in Topics
         /\ topic'.digest = d
         /\ topic' # topic => topic.digest # d
<1>1. CASE topic.digest = d
  BY <1>1 DEF PostIfChanged
<1>2. CASE topic.digest # d
  <2>1. topic' = [digest |-> d, odd |-> ~topic.odd]
    BY <1>2 DEF PostIfChanged, send_message
  <2> QED BY <1>2, <2>1 DEF Topics
<1> QED BY <1>1, <1>2

\* A run's end, with a report or without
LEMMA EndStep ==
  ASSUME IInv, NEW k \in Runs,
         (post_if_changed /\ k = "report") \/ (EndCreate /\ k = "create") \/ Fail(k)
  PROVE  IInv'
<1>1. Set(k, Idle) /\ UNCHANGED <<world, queue, rerun, moves>>
  BY DEF post_if_changed, EndCreate, Fail
<1>2. topic' = topic \/ PostIfChanged(state_digest(run[k].rows))
  BY DEF post_if_changed, EndCreate, Fail
<1>3. state_digest(run[k].rows) \in SUBSET (Releases \X Rows)
  BY RunOk, DigestType DEF Local
<1>4. topic' \in Topics
  BY <1>2, <1>3, Posting DEF IInv, WorldTypes
<1>5. news' = news \/ news' = [news EXCEPT !.last = news.audit]
  BY DEF post_if_changed, EndCreate, Fail
<1>6. news' \in [last : BOOLEAN, audit : BOOLEAN]
  BY <1>5 DEF IInv, WorldTypes
<1>7. faults' \in 0..MaxFaults
  <2>1. faults \in 0..MaxFaults
    BY DEF IInv, WorldTypes
  <2>2. faults' = faults \/ (faults < MaxFaults /\ faults' = faults + 1)
    BY DEF post_if_changed, EndCreate, Fail
  <2>3. MaxFaults \in Nat
    BY BoundsAssumption
  <2> DEFINE f == faults'
  <2>4. f = faults \/ (faults < MaxFaults /\ f = faults + 1)
    BY <2>2
  <2> HIDE DEF f
  <2>5. f \in 0..MaxFaults
    BY <2>1, <2>3, <2>4
  <2> QED BY <2>5 DEF f
<1>8. WorldTypes'
  BY <1>1, <1>4, <1>6, <1>7 DEF IInv, WorldTypes, world
<1> QED BY <1>1, <1>8, StopStep DEF world

LEMMA StartStep ==
  ASSUME IInv, StartReport \/ StartCreate
  PROVE  IInv'
<1>1. ASSUME StartReport PROVE IInv'
  <2>1. PICK sha \in queue : Begin("report", sha, {})
    BY <1>1 DEF StartReport
  <2>2. sha \in Jobs /\ "report" \in Runs
    BY RunsAre DEF IInv, WorldTypes
  <2>3. rerun' \in [Runs -> SUBSET Commits]
    BY <2>1 DEF Begin, IInv, WorldTypes
  <2>4. WorldTypes' /\ UNCHANGED <<main, ci, cache>>
    BY <1>1, <2>3 DEF StartReport, IInv, WorldTypes, world
  <2> QED BY <2>1, <2>2, <2>4, BeginStep
<1>2. ASSUME StartCreate PROVE IInv'
  <2>1. PICK w \in {Releases} \cup {{r} : r \in Releases} : Begin("create", NoCommit, w)
    BY <1>2 DEF StartCreate
  <2>2. NoCommit \in Jobs /\ "create" \in Runs /\ w \in SUBSET Releases
    BY RunsAre DEF Jobs
  <2>3. rerun' \in [Runs -> SUBSET Commits]
    BY <2>1 DEF Begin, IInv, WorldTypes
  <2>5. WorldTypes' /\ UNCHANGED <<main, ci, cache>>
    BY <1>2, <2>3 DEF StartCreate, IInv, WorldTypes, world
  <2> QED BY <2>1, <2>2, <2>5, BeginStep
<1> QED BY <1>1, <1>2

LEMMA StepStep ==
  ASSUME IInv, NEW k \in Runs, Step(k)
  PROVE  IInv'
BY WaitStep, FetchStep, TagsStep, AuditStep, CiStep, CacheStep DEF Step

-------------------------------------------------------------------------------
(* The inductive invariant                                                 *)

LEMMA IInvInit == Init => IInv
<1> SUFFICES ASSUME Init PROVE IInv
  OBVIOUS
<1>1. main \in Seq(Pins) /\ Len(main) \in Commits
  <2>1. PICK n \in Commits : main \in [1..n -> Pins]
    BY DEF Init
  <2>2. n \in Nat
    BY CommitsAssumption DEF Commits
  <2> QED BY <2>1, <2>2
<1>2. mathlib \in SUBSET Releases
  BY DEF Init, Ran
<1>3. /\ ci \in [Commits -> Conclusions] /\ cache \in SUBSET Places
      /\ tags \in [Releases -> Places \cup {NoCommit}]
      /\ topic \in Topics /\ queue \in SUBSET Jobs
      /\ rerun \in [Runs -> SUBSET Commits] /\ news \in [last : BOOLEAN, audit : BOOLEAN]
  <2>1. /\ ci \in [Commits -> Conclusions] /\ cache \in SUBSET Places
        /\ tags \in [Releases -> Places \cup {NoCommit}]
    BY DEF Init, Conclusions, NoTags
  <2>2. topic \in Topics
    BY DEF Init, Topics
  <2>4. queue \in SUBSET Jobs
    BY DEF Init
  <2>3. rerun \in [Runs -> SUBSET Commits] /\ news \in [last : BOOLEAN, audit : BOOLEAN]
    BY DEF Init
  <2> QED BY <2>1, <2>2, <2>3, <2>4
<1>4. moves \in 0..MaxMoves /\ faults \in 0..MaxFaults
  BY BoundsAssumption DEF Init
<1>5. \A k \in Runs : run[k] = Idle
  BY DEF Init
<1>6. LocalOk(Idle, main, ci, cache, {})
  BY <1>1, IdleOk
<1>7. \A k \in Runs : LocalOk(run[k], main, ci, cache, rerun[k])
  BY <1>5, <1>6 DEF Init
<1>8. run \in [Runs -> Local]
  BY <1>6 DEF Init, LocalOk
<1> QED BY <1>1, <1>2, <1>3, <1>4, <1>7, <1>8 DEF IInv, WorldTypes

LEMMA StutterStep == ASSUME IInv, UNCHANGED vars PROVE IInv'
<1>1. /\ main' = main /\ mathlib' = mathlib /\ ci' = ci /\ cache' = cache /\ tags' = tags
      /\ topic' = topic /\ queue' = queue /\ run' = run /\ rerun' = rerun /\ news' = news
      /\ moves' = moves /\ faults' = faults
  BY DEF vars, world
<1> QED BY <1>1 DEF IInv, WorldTypes

LEMMA IInvStep == IInv /\ [Next]_vars => IInv'
<1> SUFFICES ASSUME IInv, [Next]_vars PROVE IInv'
  OBVIOUS
<1>1. ASSUME World PROVE IInv'
  BY <1>1, PeopleStep
<1>2. ASSUME Report PROVE IInv'
  <2>1. "report" \in Runs
    BY RunsAre
  <2>2. ASSUME Step("report") PROVE IInv'
    BY <2>1, <2>2, StepStep
  <2>3. ASSUME post_if_changed PROVE IInv'
    BY <2>1, <2>3, EndStep
  <2> QED BY <1>2, <2>2, <2>3, StartStep DEF Report
<1>3. ASSUME Create PROVE IInv'
  BY <1>3, CreateStep, StepStep, EndStep, RunsAre DEF Create
<1>4. ASSUME StartCreate PROVE IInv'
  BY <1>4, StartStep
<1>5. ASSUME NEW k \in Runs, Fail(k) PROVE IInv'
  BY <1>5, EndStep
<1>6. ASSUME UNCHANGED vars PROVE IInv'
  BY <1>6, StutterStep
<1> QED BY <1>1, <1>2, <1>3, <1>4, <1>5, <1>6 DEF Next

\* Every reachable state of the audits is faithful to main, CI and the cache.
THEOREM Faithful == Spec => []IInv
<1>1. Init => IInv
  BY IInvInit
<1>2. IInv /\ [Next]_vars => IInv'
  BY IInvStep
<1> QED BY <1>1, <1>2, PTL DEF Spec

\* Every variable keeps its type: a report's rows are rows, also after a failure
\* half-way through an audit.
THEOREM Typed == Spec => []TypeOK
<1>1. IInv => TypeOK
  BY DEF IInv, WorldTypes, TypeOK
<1> QED BY <1>1, Faithful, PTL

\* For any releases and any history: what `--create` tags is the first commit of an
\* era on that release, in the cache and green, unless that CI was run again.
THEOREM TagKept == Spec => TagIsPromise
<1>1. ASSUME IInv, [Next]_vars, NEW r \in Releases, tags'[r] # tags[r],
             run'["create"] # run["create"]
      PROVE  LET c == tags'[r] IN
             /\ r >= Earliest
             /\ c \in DOMAIN main /\ main[c] = r /\ (c = 1 \/ main[c - 1] # r)
             /\ c \in cache
             /\ ci[c] = "success" \/ c \in rerun["create"]
  <2>1. \E s \in Releases : create_tag(s)
    <3>1. World => run' = run
      BY DEF World, Commit, MathlibTags, TagByHand, Conclude, RunAgain, Publish, Dispatch, Move
    <3>2. ASSUME NEW k \in Runs, Step(k) PROVE tags' = tags
      BY <3>2 DEF Step, wait_for_ci, TimeOut, fetch_main, existing_tags, mathlib_releases,
                  ci_passed, cache_published, SetStatus, world
    <3>3. StartReport \/ StartCreate \/ post_if_changed \/ EndCreate => tags' = tags
      BY DEF StartReport, StartCreate, post_if_changed, EndCreate, world
    <3>4. ASSUME NEW k \in Runs, Fail(k) PROVE tags' = tags
      BY <3>4 DEF Fail, world
    <3>5. UNCHANGED vars => tags' = tags
      BY DEF vars, world
    <3> QED BY <1>1, <3>1, <3>2, <3>3, <3>4, <3>5, RunsAre DEF Next, Report, Create
  <2>2. PICK s \in Releases : create_tag(s)
    BY <2>1
  <2> DEFINE row == run["create"].rows[s]
  <2>3. tags' = [tags EXCEPT ![s] = row.commit] /\ row.status = "ready"
    BY <1>1, <2>2 DEF create_tag, Wanted
  <2>4. s = r /\ tags'[r] = row.commit
    BY <1>1, <2>3 DEF IInv, WorldTypes
  <2>5. RowOk(r, row, run["create"].sha, main, ci, cache, rerun["create"])
    BY <1>1, <2>4, RunsAre DEF IInv, LocalOk
  <2> HIDE DEF row
  <2>6. /\ Era(r, row.commit, main) /\ row.commit \in cache
        /\ ci[row.commit] = "success" \/ row.commit \in rerun["create"]
    BY <2>3, <2>5 DEF RowOk
  <2>7. DOMAIN main = 1..Len(main)
    BY <1>1 DEF IInv, WorldTypes
  <2> QED BY <2>4, <2>6, <2>7 DEF Era
<1>2. IInv /\ [Next]_vars =>
         [\A r \in Releases :
            tags'[r] # tags[r] /\ run'["create"] # run["create"] =>
              LET c == tags'[r] IN
              /\ r >= Earliest
              /\ c \in DOMAIN main /\ main[c] = r /\ (c = 1 \/ main[c - 1] # r)
              /\ c \in cache
              /\ ci[c] = "success" \/ c \in rerun["create"]]_vars
  BY <1>1
<1> QED BY <1>2, Faithful, PTL DEF Spec, TagIsPromise

\* A report that waited for a bump's CI never leaves the bump out as pending, unless
\* that CI was run again meanwhile.
THEOREM WaitedForKnown == Spec => WaitedForIsReported
<1>1. ASSUME IInv, run["report"].sha # NoCommit, NEW r \in Releases,
             run["report"].rows[r].commit = run["report"].sha,
             run["report"].sha \notin rerun["report"]
      PROVE  run["report"].rows[r].status # "pending"
  <2>1. RowOk(r, run["report"].rows[r], run["report"].sha, main, ci, cache, rerun["report"])
    BY <1>1, RunsAre DEF IInv, LocalOk
  <2> QED BY <1>1, <2>1 DEF RowOk
<1>2. IInv =>
         LET l == run["report"] IN
         Audited("report") /\ topic'.digest = state_digest(l.rows) /\ l.sha # NoCommit =>
            \A r \in Releases :
               l.rows[r].commit = l.sha /\ l.sha \notin rerun["report"] =>
                  l.rows[r].status # "pending"
  BY <1>1
<1> QED BY <1>2, Faithful, PTL DEF Spec, WaitedForIsReported

-------------------------------------------------------------------------------
(* What an audit would come to, if everything stayed as it is              *)

\* The first row of r on the line m, with the tags t and mathlib's releases b
Row0(m, t, b, r) ==
    IF r \notin b \cup Ran(m) \/ ~(\E s \in Ran(m) : s <= r) THEN NoRow
    ELSE IF r \notin Ran(m)
    THEN [status |-> IF t[r] # NoCommit THEN "tagged"
                     ELSE IF r < Earliest THEN "out-of-scope"
                     ELSE IF Below(r, Ran(m)) THEN "unreachable" ELSE "ahead",
          commit |-> t[r], ci |-> "none"]
    ELSE [status |-> IF r < Earliest THEN "out-of-scope"
                     ELSE IF t[r] = RuleCommit(m, r) THEN "tagged"
                     ELSE IF t[r] # NoCommit THEN "blocked" ELSE "asked",
          commit |-> RuleCommit(m, r), ci |-> "none"]

CiSays(v, c) == CASE v[c] = "none"    -> "pending"
                  [] v[c] = "failure" -> "blocked"
                  [] v[c] = "success" -> "green"

CacheSays(o, c) == IF c \in o THEN "ready" ELSE "blocked"

\* What becomes of a row when CI says v and the cache holds o
Verdict(row, v, o) ==
    IF row.status = "asked"
    THEN [status |-> IF CiSays(v, row.commit) = "green" THEN CacheSays(o, row.commit)
                     ELSE CiSays(v, row.commit),
          commit |-> row.commit, ci |-> v[row.commit]]
    ELSE IF row.status = "green"
    THEN [status |-> CacheSays(o, row.commit), commit |-> row.commit, ci |-> row.ci]
    ELSE row

Reads(rows, v, o) == state_digest([r \in Releases |-> Verdict(rows[r], v, o)])

Says(m, t, b, v, o) == Reads([r \in Releases |-> Row0(m, t, b, r)], v, o)

\* A row that the digest leaves out
Silent(row) == row.status \in {"none", "pending", "ahead", "out-of-scope"}

LEMMA FirstRowIs ==
  ASSUME NEW l, NEW r
  PROVE  r \in Releases => FirstRow(l, r) = Row0(l.main, l.tags, mathlib, r)
<1> SUFFICES ASSUME r \in Releases PROVE FirstRow(l, r) = Row0(l.main, l.tags, mathlib, r)
  OBVIOUS
<1>1. r \in InScope(l) <=> r \in mathlib \cup Ran(l.main) /\ \E s \in Ran(l.main) : s <= r
  BY DEF InScope
<1>2. CASE r \notin InScope(l)
  BY <1>1, <1>2 DEF FirstRow, Row0
<1>3. CASE r \in InScope(l) /\ r \notin Ran(l.main)
  <2> DEFINE s == IF l.tags[r] # NoCommit THEN "tagged"
                  ELSE IF r < Earliest THEN "out-of-scope"
                  ELSE IF Below(r, Ran(l.main)) THEN "unreachable" ELSE "ahead"
  <2>1. FirstRow(l, r) = [NoRow EXCEPT !.status = s, !.commit = l.tags[r]]
    BY <1>3 DEF FirstRow, UnreachableRow
  <2>2. Row0(l.main, l.tags, mathlib, r) = [status |-> s, commit |-> l.tags[r], ci |-> "none"]
    BY <1>1, <1>3 DEF Row0
  <2> HIDE DEF s
  <2> QED BY <2>1, <2>2 DEF NoRow
<1>4. CASE r \in InScope(l) /\ r \in Ran(l.main)
  <2>1. Row0(l.main, l.tags, mathlib, r) =
           [status |-> IF r < Earliest THEN "out-of-scope"
                       ELSE IF l.tags[r] = RuleCommit(l.main, r) THEN "tagged"
                       ELSE IF l.tags[r] # NoCommit THEN "blocked" ELSE "asked",
            commit |-> RuleCommit(l.main, r), ci |-> "none"]
    BY <1>1, <1>4 DEF Row0
  <2> QED BY <1>4, <2>1 DEF FirstRow
<1> QED BY <1>2, <1>3, <1>4

\* Two audits have one digest if they differ only in rows that it leaves out.
LEMMA SameDigest ==
  ASSUME NEW f, NEW g,
         \A r \in Releases : f[r] = g[r] \/ (Silent(f[r]) /\ Silent(g[r]))
  PROVE  state_digest(f) = state_digest(g)
<1> DEFINE Loud(h) == {s \in Releases : h[s].status \notin
                          {"none", "pending", "ahead", "out-of-scope"}}
<1>1. Loud(f) = Loud(g)
  BY DEF Silent
<1>2. \A r \in Loud(f) : f[r] = g[r]
  BY DEF Silent
<1>3. state_digest(f) = {<<r, f[r]>> : r \in Loud(f)}
      /\ state_digest(g) = {<<r, g[r]>> : r \in Loud(g)}
  BY DEF state_digest
<1> HIDE DEF Loud
<1> QED BY <1>1, <1>2, <1>3

LEMMA SameReads ==
  ASSUME NEW f, NEW g, NEW v, NEW o, NEW w, NEW q,
         \A r \in Releases : \/ Verdict(f[r], v, o) = Verdict(g[r], w, q)
                             \/ Silent(Verdict(f[r], v, o)) /\ Silent(Verdict(g[r], w, q))
  PROVE  Reads(f, v, o) = Reads(g, w, q)
<1> DEFINE a == [r \in Releases |-> Verdict(f[r], v, o)]
           b == [r \in Releases |-> Verdict(g[r], w, q)]
<1>1. \A r \in Releases : a[r] = b[r] \/ (Silent(a[r]) /\ Silent(b[r]))
  OBVIOUS
<1> HIDE DEF a, b
<1>2. state_digest(a) = state_digest(b)
  BY <1>1, SameDigest
<1> QED BY <1>2 DEF Reads, a, b

\* A row that CI is not asked about is what it is.
LEMMA Settled ==
  ASSUME NEW row, NEW v, NEW o, row.status \notin {"asked", "green"}
  PROVE  Verdict(row, v, o) = row
BY DEF Verdict

LEMMA RowFields ==
  ASSUME NEW row \in Rows, NEW x, NEW s
  PROVE  [row EXCEPT !.ci = x, !.status = s] = [status |-> s, commit |-> row.commit, ci |-> x]
<1> DEFINE k == [row EXCEPT !.ci = x]
<1>1. k = [status |-> row.status, commit |-> row.commit, ci |-> x]
  BY DEF Rows
<1> HIDE DEF k
<1>2. [k EXCEPT !.status = s] = [status |-> s, commit |-> row.commit, ci |-> x]
  BY <1>1
<1> QED BY <1>2 DEF k

\* Asking CI, or looking into the cache, does not change what it comes to.
LEMMA CiSettles ==
  ASSUME NEW row \in Rows, NEW v, NEW o, row.status = "asked",
         v[row.commit] \in Conclusions
  PROVE  Verdict([row EXCEPT !.ci = v[row.commit], !.status = CiSays(v, row.commit)], v, o)
            = Verdict(row, v, o)
<1> DEFINE s == CiSays(v, row.commit)
           c == row.commit
           x == v[c]
           n == [row EXCEPT !.ci = x, !.status = s]
<1>1. s \in {"pending", "blocked", "green"}
  BY DEF CiSays, Conclusions
<1>2. Verdict(row, v, o) = [status |-> IF s = "green" THEN CacheSays(o, c) ELSE s,
                            commit |-> c, ci |-> x]
  BY DEF Verdict
<1> HIDE DEF s, x
<1>3. n = [status |-> s, commit |-> c, ci |-> x]
  BY RowFields
<1>4. n.status = s /\ n.commit = c /\ n.ci = x
  BY <1>3
<1> HIDE DEF n, c
<1>5. CASE s = "green"
  <2>1. Verdict(n, v, o) = [status |-> CacheSays(o, c), commit |-> c, ci |-> x]
    BY <1>4, <1>5 DEF Verdict
  <2> QED BY <1>2, <1>5, <2>1 DEF n, x, s, c
<1>6. CASE s # "green"
  <2>1. Verdict(n, v, o) = n
    BY <1>1, <1>4, <1>6 DEF Verdict
  <2> QED BY <1>2, <1>3, <1>6, <2>1 DEF n, x, s, c
<1> QED BY <1>5, <1>6

LEMMA CacheSettles ==
  ASSUME NEW row \in Rows, NEW v, NEW o, row.status = "green"
  PROVE  Verdict([row EXCEPT !.status = CacheSays(o, row.commit)], v, o) = Verdict(row, v, o)
<1> DEFINE s == CacheSays(o, row.commit)
           n == [row EXCEPT !.status = s]
<1>1. s \in {"ready", "blocked"}
  BY DEF CacheSays
<1>2. Verdict(row, v, o) = [status |-> s, commit |-> row.commit, ci |-> row.ci]
  BY DEF Verdict
<1> HIDE DEF s
<1>3. n = [status |-> s, commit |-> row.commit, ci |-> row.ci] /\ n.status = s
  BY DEF Rows
<1>4. Verdict(n, v, o) = n
  BY <1>1, <1>3, Settled
<1> QED BY <1>2, <1>3, <1>4 DEF s

-------------------------------------------------------------------------------
(* What is no news                                                         *)

LEMMA ErasBegin ==
  ASSUME NEW m \in Seq(Pins), NEW n \in Seq(Pins), Begins(m, n)
  PROVE  EraStarts(m) \subseteq EraStarts(n) /\ Ran(m) \subseteq Ran(n)
<1>1. Len(m) \in Nat /\ Len(n) \in Nat /\ DOMAIN m = 1..Len(m) /\ DOMAIN n = 1..Len(n)
  OBVIOUS
<1>2. ASSUME NEW i \in EraStarts(m) PROVE i \in EraStarts(n) /\ n[i] = m[i]
  <2>1. i \in 1..Len(m) /\ (i = 1 \/ m[i] # m[i - 1])
    BY <1>1 DEF EraStarts
  <2>2. i \in 1..Len(n) /\ n[i] = m[i]
    BY <1>1, <2>1 DEF Begins
  <2>3. i = 1 \/ (i - 1 \in 1..Len(m) /\ n[i - 1] = m[i - 1])
    BY <1>1, <2>1 DEF Begins
  <2> QED BY <1>1, <2>1, <2>2, <2>3 DEF EraStarts
<1> QED BY <1>2 DEF Ran

\* A commit starts an era, or none.
LEMMA ErasAppend ==
  ASSUME NEW m \in Seq(Pins), m # <<>>, NEW t \in Pins
  PROVE  EraStarts(Append(m, t)) = EraStarts(m) \cup (IF t = m[Len(m)] THEN {} ELSE {Len(m) + 1})
<1> DEFINE n == Append(m, t)
           k == Len(m)
<1>1. k \in Nat /\ k # 0 /\ DOMAIN m = 1..k
  OBVIOUS
<1>2. DOMAIN n = 1..(k + 1) /\ n[k + 1] = t /\ \A i \in 1..k : n[i] = m[i]
  OBVIOUS
<1> HIDE DEF n, k
<1>3. ASSUME NEW i \in 1..k PROVE i \in EraStarts(n) <=> i \in EraStarts(m)
  <2>1. i \in 1..(k + 1) /\ n[i] = m[i]
    BY <1>1, <1>2
  <2>2. i = 1 \/ (i - 1 \in 1..k /\ n[i - 1] = m[i - 1])
    BY <1>1, <1>2
  <2> QED BY <1>1, <1>2, <2>1, <2>2 DEF EraStarts
<1>4. k + 1 \in EraStarts(n) <=> t # m[k]
  <2>1. k + 1 \in 1..(k + 1) /\ k + 1 # 1 /\ (k + 1) - 1 = k /\ k \in 1..k
    BY <1>1
  <2> QED BY <1>2, <2>1 DEF EraStarts
<1>5. \A i \in 1..(k + 1) : i \in 1..k \/ i = k + 1
  BY <1>1
<1>6. EraStarts(n) \subseteq 1..(k + 1) /\ EraStarts(m) \subseteq 1..k
  BY <1>1, <1>2 DEF EraStarts
<1>7. EraStarts(n) = EraStarts(m) \cup (IF t = m[k] THEN {} ELSE {k + 1})
  <2>1. ASSUME NEW i \in EraStarts(n)
        PROVE  i \in EraStarts(m) \cup (IF t = m[k] THEN {} ELSE {k + 1})
    BY <1>3, <1>4, <1>5, <1>6
  <2>2. ASSUME NEW i \in EraStarts(m) PROVE i \in EraStarts(n)
    BY <1>3, <1>6
  <2>3. t # m[k] => k + 1 \in EraStarts(n)
    BY <1>4
  <2> QED BY <2>1, <2>2, <2>3
<1> QED BY <1>7 DEF n, k

\* The line m with one more commit, and the old one's rule commits
LEMMA RanAppend ==
  ASSUME NEW m \in Seq(Pins), m # <<>>, NEW t \in Pins
  PROVE  /\ Ran(Append(m, t)) = Ran(m) \cup (IF t = m[Len(m)] THEN {} ELSE {t} \cap Releases)
         /\ \A r \in Ran(m) : t = m[Len(m)] \/ r # t
              => RuleCommit(Append(m, t), r) = RuleCommit(m, r)
<1> DEFINE n == Append(m, t)
           k == Len(m)
<1>1. k \in Nat /\ n \in Seq(Pins) /\ n[k + 1] = t /\ \A i \in 1..k : n[i] = m[i]
  OBVIOUS
<1>2. EraStarts(m) \subseteq 1..k
  BY DEF EraStarts
<1>3. EraStarts(n) = EraStarts(m) \cup (IF t = m[k] THEN {} ELSE {k + 1})
  BY ErasAppend
<1> HIDE DEF n, k
<1>4. \A i \in EraStarts(m) : n[i] = m[i] /\ i \in EraStarts(n)
  BY <1>1, <1>2, <1>3
<1>5. \A i \in EraStarts(n) : i \in EraStarts(m) \/ (i = k + 1 /\ t # m[k])
  BY <1>3
<1>6. Ran(n) = Ran(m) \cup (IF t = m[k] THEN {} ELSE {t} \cap Releases)
  <2>1. Ran(m) \subseteq Ran(n)
    BY <1>4 DEF Ran
  <2>2. t # m[k] /\ t \in Releases => t \in Ran(n)
    BY <1>1, <1>3 DEF Ran
  <2>3. ASSUME NEW r \in Ran(n) PROVE r \in Ran(m) \/ (r = t /\ t # m[k] /\ t \in Releases)
    BY <1>1, <1>4, <1>5 DEF Ran
  <2> QED BY <2>1, <2>2, <2>3
<1>7. ASSUME NEW r \in Ran(m), t = m[k] \/ r # t PROVE RuleCommit(n, r) = RuleCommit(m, r)
  <2> DEFINE a == RuleCommit(m, r)
             b == RuleCommit(n, r)
  <2>1. a \in EraStarts(m) /\ m[a] = r /\ \A j \in EraStarts(m) : m[j] = r => j <= a
    BY RuleCommitIsLast
  <2>2. b \in EraStarts(n) /\ n[b] = r /\ \A j \in EraStarts(n) : n[j] = r => j <= b
    BY <1>1, <1>6, RuleCommitIsLast
  <2> HIDE DEF a, b
  <2>3. a <= b
    BY <1>4, <2>1, <2>2
  <2>4. b \in EraStarts(m)
    BY <1>1, <1>5, <1>7, <2>2
  <2>5. b <= a
    BY <1>4, <2>1, <2>2, <2>4
  <2>6. a \in Nat /\ b \in Nat
    BY <1>1, <1>2, <2>1, <2>4
  <2> QED BY <2>3, <2>5, <2>6 DEF a, b
<1> QED BY <1>6, <1>7 DEF n, k

\* A release above those that main ran on, without a tag, is left out.
LEMMA AheadIsSilent ==
  ASSUME NEW m, NEW t, NEW b, NEW r, r \notin Ran(m), t[r] = NoCommit, ~Below(r, Ran(m))
  PROVE  Silent(Row0(m, t, b, r)) /\ Row0(m, t, b, r).status \notin {"asked", "green"}
<1>1. CASE r \notin b \cup Ran(m) \/ ~(\E s \in Ran(m) : s <= r)
  <2>1. Row0(m, t, b, r) = NoRow
    BY <1>1 DEF Row0
  <2> QED BY <2>1, NoRowType DEF Silent
<1>2. CASE ~(r \notin b \cup Ran(m) \/ ~(\E s \in Ran(m) : s <= r))
  <2>1. Row0(m, t, b, r) = [status |-> IF r < Earliest THEN "out-of-scope" ELSE "ahead",
                            commit |-> t[r], ci |-> "none"]
    BY <1>2 DEF Row0
  <2> QED BY <2>1 DEF Silent
<1> QED BY <1>1, <1>2

\* A commit that is no stray bump tells nothing new: one on the same release, one
\* on a toolchain that is none, or one on a newer release whose CI has not run.
LEMMA QuietCommit ==
  ASSUME NEW m \in Seq(Pins), m # <<>>, NEW p \in Pins, NEW t, NEW b \in SUBSET Releases,
         NEW v, NEW o, Ran(m) # {}, v[Len(m) + 1] = "none",
         p # m[Len(m)] /\ p \in Releases =>
            /\ t[p] = NoCommit
            /\ \A r \in Ran(m) : ~(p <= r)
            /\ \A r \in b : r < p => Below(r, Ran(m)) \/ r \in Ran(m)
  PROVE  Says(Append(m, p), t, b, v, o) = Says(m, t, b, v, o)
<1> DEFINE n == Append(m, p)
           k == Len(m)
<1>1. /\ Ran(n) = Ran(m) \cup (IF p = m[k] THEN {} ELSE {p} \cap Releases)
      /\ \A r \in Ran(m) : p = m[k] \/ r # p => RuleCommit(n, r) = RuleCommit(m, r)
  BY RanAppend
<1>2. n \in Seq(Pins) /\ k \in Nat /\ n[k + 1] = p
  OBVIOUS
<1>3. k + 1 \in EraStarts(n) \/ p = m[k]
  BY ErasAppend
<1>4. EraStarts(m) \subseteq 1..k /\ Ran(m) \subseteq Releases
  <2>1. EraStarts(m) \subseteq 1..k
    BY DEF EraStarts, k
  <2>2. Ran(m) \subseteq Releases
    BY DEF Ran
  <2> QED BY <2>1, <2>2
<1>5. \A i \in EraStarts(m) : n[i] = m[i]
  BY <1>4
<1>6. \A i \in EraStarts(n) : i \in EraStarts(m) \/ i = k + 1
  BY ErasAppend
<1>7. \A r \in Releases : r \in Nat
  BY ReleasesAssumption
<1> DEFINE new(r) == Row0(n, t, b, r)
           old(r) == Row0(m, t, b, r)
<1> HIDE DEF n, k
<1>8. ASSUME NEW r \in Releases
      PROVE  \/ new(r) = old(r)
             \/ Silent(Verdict(new(r), v, o)) /\ Silent(Verdict(old(r), v, o))
  <2>1. CASE Ran(n) = Ran(m) /\ (p = m[k] \/ p \notin Releases)
    <3>1. r \in Ran(m) => RuleCommit(n, r) = RuleCommit(m, r)
      BY <1>1, <1>4, <2>1
    <3> QED BY <2>1, <3>1 DEF Row0
  <2>2. CASE p # m[k] /\ p \in Releases
    <3>1. /\ t[p] = NoCommit
          /\ \A s \in Ran(m) : ~(p <= s)
          /\ \A s \in b : s < p => Below(s, Ran(m)) \/ s \in Ran(m)
      BY <2>2 DEF k
    <3>2. p \in Nat /\ r \in Nat /\ \A s \in Ran(m) : s \in Nat /\ s < p
      BY <1>4, <1>7, <2>2, <3>1
    <3>3. p \notin Ran(m) /\ ~Below(p, Ran(m))
      BY <3>2 DEF Below
    <3>4. Ran(n) = Ran(m) \cup {p}
      BY <1>1, <2>2
    <3>5. CASE r = p
      <4>1. Silent(old(r)) /\ old(r).status \notin {"asked", "green"}
        BY <3>1, <3>3, <3>5, AheadIsSilent
      <4>2. Silent(Verdict(old(r), v, o))
        BY <4>1, Settled
      <4>3. RuleCommit(n, p) = k + 1
        <5> DEFINE c == RuleCommit(n, p)
        <5>1. c \in EraStarts(n) /\ n[c] = p
          BY <1>2, <3>4, RuleCommitIsLast
        <5> HIDE DEF c
        <5>2. c \notin EraStarts(m)
          BY <1>5, <2>2, <3>3, <5>1 DEF Ran
        <5> QED BY <1>6, <5>1, <5>2 DEF c
      <4>4. k + 1 # NoCommit
        BY <1>2, CommitsAssumption
      <4>5. \E s \in Ran(n) : s <= r
        BY <3>2, <3>4, <3>5
      <4>6. new(r) = [status |-> IF p < Earliest THEN "out-of-scope" ELSE "asked",
                      commit |-> k + 1, ci |-> "none"]
        BY <3>1, <3>4, <3>5, <4>3, <4>4, <4>5 DEF Row0
      <4>7. Silent(Verdict(new(r), v, o))
        <5>1. CASE p < Earliest
          <6>1. new(r).status = "out-of-scope"
            BY <4>6, <5>1
          <6> HIDE DEF new
          <6>2. Verdict(new(r), v, o) = new(r)
            BY <6>1, Settled
          <6> QED BY <6>1, <6>2 DEF Silent
        <5>2. CASE ~(p < Earliest)
          <6>1. new(r).status = "asked" /\ new(r).commit = k + 1
            BY <4>6, <5>2
          <6> HIDE DEF new
          <6>2. CiSays(v, k + 1) = "pending"
            BY DEF CiSays, k
          <6>3. Verdict(new(r), v, o) = [status |-> "pending", commit |-> k + 1,
                                         ci |-> v[k + 1]]
            BY <6>1, <6>2 DEF Verdict
          <6> QED BY <6>3 DEF Silent
        <5> QED BY <5>1, <5>2
      <4> QED BY <4>2, <4>7
    <3>6. CASE r # p
      <4>1. r \in Ran(n) <=> r \in Ran(m)
        BY <3>4, <3>6
      <4>2. (\E s \in Ran(n) : s <= r) <=> (\E s \in Ran(m) : s <= r)
        <5>1. ASSUME p <= r PROVE \E s \in Ran(m) : s <= r
          <6>1. PICK s \in Ran(m) : TRUE
            OBVIOUS
          <6>2. s < p /\ s \in Nat
            BY <3>2
          <6>3. s <= r
            BY <3>2, <5>1, <6>2
          <6> QED BY <6>3
        <5> QED BY <3>4, <5>1
      <4>3. CASE r \in Ran(m)
        <5>1. RuleCommit(n, r) = RuleCommit(m, r)
          BY <1>1, <3>6, <4>3
        <5> QED BY <4>1, <4>2, <4>3, <5>1 DEF Row0
      <4>4. CASE r \notin Ran(m) /\ r \notin b
        <5>1. new(r) = NoRow /\ old(r) = NoRow
          BY <4>1, <4>4 DEF Row0
        <5> QED BY <5>1
      <4>5. CASE r \notin Ran(m) /\ r \in b
        <5>1. Below(r, Ran(n)) <=> Below(r, Ran(m))
          BY <3>1, <3>4, <4>5 DEF Below
        <5> QED BY <4>1, <4>2, <4>5, <5>1 DEF Row0
      <4> QED BY <4>3, <4>4, <4>5
    <3> QED BY <3>5, <3>6
  <2> QED BY <1>1, <2>1, <2>2
<1> DEFINE f == [r \in Releases |-> new(r)]
           g == [r \in Releases |-> old(r)]
<1>9. \A r \in Releases : f[r] = new(r) /\ g[r] = old(r)
  OBVIOUS
<1>10. Says(n, t, b, v, o) = Reads(f, v, o) /\ Says(m, t, b, v, o) = Reads(g, v, o)
  BY DEF Says
<1> HIDE DEF f, g, new, old
<1>11. \A r \in Releases : \/ Verdict(f[r], v, o) = Verdict(g[r], v, o)
                           \/ Silent(Verdict(f[r], v, o)) /\ Silent(Verdict(g[r], v, o))
  BY <1>8, <1>9
<1>12. Reads(f, v, o) = Reads(g, v, o)
  BY <1>11, SameReads
<1> QED BY <1>10, <1>12 DEF n

\* Mathlib's tag of a release ahead of main tells nothing new.
LEMMA QuietMathlib ==
  ASSUME NEW m, NEW t, NEW b \in SUBSET Releases, NEW v, NEW o, NEW q \in Releases,
         ~Below(q, Ran(m)), t[q] = NoCommit
  PROVE  Says(m, t, b \cup {q}, v, o) = Says(m, t, b, v, o)
<1> DEFINE c == b \cup {q}
           new(r) == Row0(m, t, c, r)
           old(r) == Row0(m, t, b, r)
           f == [r \in Releases |-> new(r)]
           g == [r \in Releases |-> old(r)]
<1>1. ASSUME NEW r \in Releases
      PROVE  \/ new(r) = old(r)
             \/ Silent(Verdict(new(r), v, o)) /\ Silent(Verdict(old(r), v, o))
  <2>1. CASE r # q \/ r \in Ran(m)
    <3>1. r \in c \cup Ran(m) <=> r \in b \cup Ran(m)
      BY <2>1
    <3> HIDE DEF c
    <3> QED BY <3>1 DEF Row0
  <2>2. CASE r = q /\ r \notin Ran(m)
    <3> HIDE DEF c
    <3>1. /\ Silent(new(r)) /\ new(r).status \notin {"asked", "green"}
          /\ Silent(old(r)) /\ old(r).status \notin {"asked", "green"}
      BY <2>2, AheadIsSilent
    <3> HIDE DEF new, old
    <3> QED BY <3>1, Settled
  <2> QED BY <2>1, <2>2
<1>2. \A r \in Releases : f[r] = new(r) /\ g[r] = old(r)
  OBVIOUS
<1>3. Says(m, t, c, v, o) = Reads(f, v, o) /\ Says(m, t, b, v, o) = Reads(g, v, o)
  BY DEF Says
<1> HIDE DEF f, g, new, old
<1>4. \A r \in Releases : \/ Verdict(f[r], v, o) = Verdict(g[r], v, o)
                          \/ Silent(Verdict(f[r], v, o)) /\ Silent(Verdict(g[r], v, o))
  BY <1>1, <1>2
<1>5. Reads(f, v, o) = Reads(g, v, o)
  BY <1>4, SameReads
<1> QED BY <1>3, <1>5

\* What is known of an undisturbed report: what it has read so far comes to what an
\* audit of the present would, and so does the topic's.
TopicInv ==
    /\ \A c \in Commits \ DOMAIN main : ci[c] = "none"
    /\ news.audit => news.last
    /\ topic.digest # Nothing => Ran(main) # {}
    /\ topic.digest # Nothing /\ ~news.last =>
          topic.digest = Says(main, tags, mathlib, ci, cache)

ReportInv ==
    LET l == run["report"]
        now == Says(main, tags, mathlib, ci, cache) IN
    /\ l.step \in {"mathlib", "judge"} => Ran(main) # {}
    /\ l.step = "mathlib" => Ran(l.main) # {}
    /\ ~news.audit =>
          /\ l.step = "tags" /\ Ran(l.main) # {} =>
                Says(l.main, tags, mathlib, ci, cache) = now
          /\ l.step = "mathlib" =>
                l.tags = tags /\ Says(l.main, tags, mathlib, ci, cache) = now
          /\ l.step = "judge" => Reads(l.rows, ci, cache) = now

NewsInv == TopicInv /\ ReportInv

\* Whatever is news leaves nothing to be known but where CI has run.
LEMMA NewsIsNews ==
  ASSUME NewsInv, IInv, News(TRUE), topic' = topic, run'["report"] = run["report"],
         Ran(main) \subseteq Ran(main'), \A c \in Commits \ DOMAIN main' : ci'[c] = "none"
  PROVE  NewsInv'
<1>1. news'.last /\ news'.audit
  BY DEF News
<1>2. TopicInv'
  BY <1>1 DEF NewsInv, TopicInv
<1>3. ReportInv'
  BY <1>1 DEF NewsInv, ReportInv
<1> QED BY <1>2, <1>3 DEF NewsInv

\* The report is as far as it was, and what there is to say has not changed.
LEMMA NothingNew ==
  ASSUME NewsInv, run'["report"] = run["report"], topic' = topic,
         news'.last = news.last, news'.audit = news.audit,
         \A c \in Commits \ DOMAIN main' : ci'[c] = "none",
         Ran(main) # {} => Ran(main') # {},
         UNCHANGED <<tags, ci, cache>>,
         Ran(main) # {} =>
            Says(main', tags, mathlib', ci, cache) = Says(main, tags, mathlib, ci, cache),
         Ran(run["report"].main) # {} =>
            /\ Ran(main) # {}
            /\ Says(run["report"].main, tags, mathlib', ci, cache) =
                  Says(run["report"].main, tags, mathlib, ci, cache)
  PROVE  NewsInv'
<1> DEFINE l == run["report"]
           now == Says(main, tags, mathlib, ci, cache)
           then == Says(main', tags', mathlib', ci', cache')
           mine == Says(l.main, tags, mathlib, ci, cache)
           mine2 == Says(l.main, tags', mathlib', ci', cache')
<1>1. Ran(main) # {} => then = now
  OBVIOUS
<1>2. Ran(l.main) # {} => Ran(main) # {} /\ mine2 = mine
  OBVIOUS
<1>3. TopicInv'
  BY DEF NewsInv, TopicInv
<1>4. run'["report"] = l /\ tags' = tags /\ ci' = ci /\ cache' = cache
      /\ Reads(l.rows, ci', cache') = Reads(l.rows, ci, cache)
  OBVIOUS
<1>5. /\ l.step \in {"mathlib", "judge"} => Ran(main) # {}
      /\ ~news.audit =>
            /\ l.step = "tags" /\ Ran(l.main) # {} => mine = now
            /\ l.step = "mathlib" => l.tags = tags /\ mine = now
            /\ l.step = "judge" => Reads(l.rows, ci, cache) = now
  BY DEF NewsInv, ReportInv
<1>6. l.step = "mathlib" => Ran(l.main) # {}
  BY DEF NewsInv, ReportInv
<1> HIDE DEF now, then, mine, mine2, l
<1>7. /\ l.step \in {"mathlib", "judge"} => Ran(main') # {}
      /\ ~news'.audit =>
            /\ l.step = "tags" /\ Ran(l.main) # {} => mine2 = then
            /\ l.step = "mathlib" => l.tags = tags' /\ mine2 = then
            /\ l.step = "judge" => Reads(l.rows, ci', cache') = then
  BY <1>1, <1>2, <1>4, <1>5, <1>6
<1>8. ReportInv'
  BY <1>4, <1>6, <1>7 DEF ReportInv, then, mine2
<1> QED BY <1>3, <1>8 DEF NewsInv

LEMMA BeginsMain ==
  ASSUME IInv
  PROVE  /\ run["report"].main \in Seq(Pins) /\ Begins(run["report"].main, main)
         /\ Ran(run["report"].main) \subseteq Ran(main)
<1>1. /\ run["report"].main \in Seq(Pins) /\ Begins(run["report"].main, main)
      /\ main \in Seq(Pins)
  BY RunOk, RunsAre DEF Local, LocalOk, IInv, WorldTypes
<1> QED BY <1>1, ErasBegin

\* A step that touches neither the world nor the report
LEMMA Elsewhere ==
  ASSUME NewsInv, IInv, UNCHANGED <<main, mathlib, ci, cache, tags, topic, news>>,
         run'["report"] = run["report"]
  PROVE  NewsInv'
<1>1. Ran(run["report"].main) # {} => Ran(main) # {}
  BY BeginsMain
<1>2. \A c \in Commits \ DOMAIN main' : ci'[c] = "none"
  BY DEF NewsInv, TopicInv
<1> QED BY <1>1, <1>2, NothingNew

\* A report that has not begun to read
LEMMA Unread ==
  ASSUME NewsInv, UNCHANGED <<main, mathlib, ci, cache, tags, topic, news>>,
         run'["report"].step \in {"idle", "wait", "fetch"}
  PROVE  NewsInv'
<1>1. TopicInv'
  BY DEF NewsInv, TopicInv
<1>2. ReportInv'
  BY DEF ReportInv
<1> QED BY <1>1, <1>2 DEF NewsInv

LEMMA CommitNews ==
  ASSUME NewsInv, IInv, NEW t \in Pins, Commit(t)
  PROVE  NewsInv'
<1> DEFINE k == Len(main)
<1>1. /\ main \in Seq(Pins) /\ k \in 1..MaxCommits /\ MaxCommits \in Nat /\ k < MaxCommits
      /\ main' = Append(main, t) /\ news \in [last : BOOLEAN, audit : BOOLEAN]
      /\ mathlib \in SUBSET Releases
  BY CommitsAssumption DEF IInv, WorldTypes, Commit, Commits
<1>2. main # <<>> /\ k + 1 \in Commits /\ k + 1 \notin DOMAIN main
      /\ DOMAIN main \subseteq DOMAIN main'
  BY <1>1 DEF Commits
<1>3. Ran(main) \subseteq Ran(main')
  BY <1>1, <1>2, RanAppend
<1>4. UNCHANGED <<topic, run, mathlib, ci, cache, tags>>
  BY DEF Commit, Move
<1>5. \A c \in Commits \ DOMAIN main' : ci'[c] = "none"
  BY <1>2, <1>4 DEF NewsInv, TopicInv
<1>6. CASE t # main[k] /\ Strays(t)
  <2>1. News(TRUE)
    BY <1>6 DEF Commit, News
  <2> QED BY <1>3, <1>4, <1>5, <2>1, NewsIsNews
<1>7. CASE ~(t # main[k] /\ Strays(t))
  <2>1. news'.last = news.last /\ news'.audit = news.audit
    BY <1>1, <1>7 DEF Commit, News
  <2>2. ci[k + 1] = "none"
    BY <1>2 DEF NewsInv, TopicInv
  <2>3. t # main[k] /\ t \in Releases =>
           /\ tags[t] = NoCommit
           /\ \A r \in Ran(main) : ~(t <= r)
           /\ \A r \in mathlib : r < t => Below(r, Ran(main)) \/ r \in Ran(main)
    BY <1>7 DEF Strays
  <2>4. Ran(main) # {} =>
           Says(main', tags, mathlib', ci, cache) = Says(main, tags, mathlib, ci, cache)
    <3>1. ASSUME Ran(main) # {}
          PROVE  Says(Append(main, t), tags, mathlib, ci, cache) =
                    Says(main, tags, mathlib, ci, cache)
      BY <1>1, <1>2, <2>2, <2>3, <3>1, QuietCommit
    <3> QED BY <1>1, <1>4, <3>1
  <2>5. Ran(run["report"].main) # {} => Ran(main) # {}
    BY BeginsMain
  <2>6. Ran(main) # {} => Ran(main') # {}
    BY <1>3
  <2> QED BY <1>4, <1>5, <2>1, <2>4, <2>5, <2>6, NothingNew
<1> QED BY <1>6, <1>7

LEMMA MathlibNews ==
  ASSUME NewsInv, IInv, NEW q \in Releases, MathlibTags(q)
  PROVE  NewsInv'
<1>1. /\ UNCHANGED <<main, ci, cache, tags, topic, run>> /\ mathlib' = mathlib \cup {q}
      /\ mathlib \in SUBSET Releases /\ news \in [last : BOOLEAN, audit : BOOLEAN]
  BY DEF IInv, WorldTypes, MathlibTags, Move
<1>2. \A c \in Commits \ DOMAIN main' : ci'[c] = "none"
  BY <1>1 DEF NewsInv, TopicInv
<1>3. CASE Below(q, Ran(main)) \/ tags[q] # NoCommit
  <2>1. News(TRUE)
    BY <1>3 DEF MathlibTags, News
  <2> QED BY <1>1, <1>2, <2>1, NewsIsNews
<1>4. CASE ~(Below(q, Ran(main)) \/ tags[q] # NoCommit)
  <2>1. news'.last = news.last /\ news'.audit = news.audit
    BY <1>1, <1>4 DEF MathlibTags, News
  <2>2. Says(main, tags, mathlib \cup {q}, ci, cache) = Says(main, tags, mathlib, ci, cache)
    BY <1>1, <1>4, QuietMathlib
  <2> DEFINE m == run["report"].main
  <2>3. Ran(m) \subseteq Ran(main)
    BY BeginsMain
  <2>4. ~Below(q, Ran(m))
    BY <1>4, <2>3 DEF Below
  <2> HIDE DEF m
  <2>5. Says(m, tags, mathlib \cup {q}, ci, cache) = Says(m, tags, mathlib, ci, cache)
    BY <1>1, <1>4, <2>4, QuietMathlib
  <2>6. Says(m, tags, mathlib', ci, cache) = Says(m, tags, mathlib, ci, cache)
        /\ Says(main', tags, mathlib', ci, cache) = Says(main, tags, mathlib, ci, cache)
    BY <1>1, <2>2, <2>5
  <2> QED BY <1>1, <1>2, <2>1, <2>3, <2>6, NothingNew DEF m
<1> QED BY <1>3, <1>4

LEMMA WorldNews ==
  ASSUME NewsInv, IInv, World
  PROVE  NewsInv'
<1>1. ASSUME NEW r \in Releases, NEW c \in Places, TagByHand(r, c) PROVE NewsInv'
  <2>1. UNCHANGED <<main, ci, topic, run>> /\ News(TRUE)
    BY <1>1 DEF TagByHand, Move
  <2> QED BY <2>1, NewsIsNews DEF NewsInv, TopicInv
<1>2. ASSUME NEW c \in Commits, NEW conclusion \in Conclusions \ {"none"},
             Conclude(c, conclusion)
      PROVE  NewsInv'
  <2>1. UNCHANGED <<main, topic, run>> /\ News(TRUE) /\ c \in DOMAIN main
        /\ ci' = [ci EXCEPT ![c] = conclusion]
    BY <1>2 DEF Conclude, Move
  <2>2. \A d \in Commits \ DOMAIN main' : ci'[d] = "none"
    BY <2>1 DEF NewsInv, TopicInv, IInv, WorldTypes
  <2> QED BY <2>1, <2>2, NewsIsNews
<1>3. ASSUME NEW c \in Commits, RunAgain(c) PROVE NewsInv'
  <2>1. UNCHANGED <<main, topic, run>> /\ News(TRUE) /\ ci' = [ci EXCEPT ![c] = "none"]
    BY <1>3 DEF RunAgain, Move
  <2>2. \A d \in Commits \ DOMAIN main' : ci'[d] = "none"
    BY <2>1 DEF NewsInv, TopicInv, IInv, WorldTypes
  <2> QED BY <2>1, <2>2, NewsIsNews
<1>4. ASSUME NEW c \in Commits, Publish(c) PROVE NewsInv'
  <2>1. UNCHANGED <<main, ci, topic, run>> /\ News(TRUE)
    BY <1>4 DEF Publish, Move
  <2> QED BY <2>1, NewsIsNews DEF NewsInv, TopicInv
<1>5. ASSUME NEW wait \in BOOLEAN, Dispatch(wait) PROVE NewsInv'
  BY <1>5, Elsewhere DEF Dispatch, Move, world
<1> QED BY <1>1, <1>2, <1>3, <1>4, <1>5, CommitNews, MathlibNews DEF World

-------------------------------------------------------------------------------
(* An undisturbed report repeats the last one                              *)

\* The report goes a step on, to l.
LEMMA ReadOn ==
  ASSUME NewsInv, UNCHANGED <<main, mathlib, ci, cache, tags, topic>>, NEW l,
         run'["report"] = l, l.step \in {"tags", "mathlib", "judge"},
         news'.last = news.last, news'.audit => news.audit,
         l.step \in {"mathlib", "judge"} => Ran(main) # {},
         l.step = "mathlib" => Ran(l.main) # {},
         ~news'.audit =>
            /\ l.step = "tags" =>
                  Says(l.main, tags, mathlib, ci, cache) = Says(main, tags, mathlib, ci, cache)
            /\ l.step = "mathlib" =>
                  /\ l.tags = tags
                  /\ Says(l.main, tags, mathlib, ci, cache) =
                        Says(main, tags, mathlib, ci, cache)
            /\ l.step = "judge" =>
                  Reads(l.rows, ci, cache) = Says(main, tags, mathlib, ci, cache)
  PROVE  NewsInv'
<1>1. TopicInv'
  BY DEF NewsInv, TopicInv
<1> DEFINE now == Says(main, tags, mathlib, ci, cache)
           mine == Says(l.main, tags, mathlib, ci, cache)
           then == Says(main', tags', mathlib', ci', cache')
           mine2 == Says(l.main, tags', mathlib', ci', cache')
<1>2. then = now /\ mine2 = mine
  OBVIOUS
<1>3. ~news'.audit =>
         /\ l.step = "tags" => mine = now
         /\ l.step = "mathlib" => l.tags = tags /\ mine = now
         /\ l.step = "judge" => Reads(l.rows, ci, cache) = now
  OBVIOUS
<1>4. Reads(l.rows, ci', cache') = Reads(l.rows, ci, cache)
  OBVIOUS
<1> HIDE DEF now, mine, then, mine2
<1>5. ~news'.audit =>
         /\ l.step = "tags" /\ Ran(l.main) # {} => mine2 = then
         /\ l.step = "mathlib" => l.tags = tags' /\ mine2 = then
         /\ l.step = "judge" => Reads(l.rows, ci', cache') = then
  BY <1>2, <1>3, <1>4
<1>6. ReportInv'
  BY <1>5 DEF ReportInv, then, mine2
<1> QED BY <1>1, <1>6 DEF NewsInv

\* An audit starts with main as it is: what was news before is known to it.
LEMMA FetchNews ==
  ASSUME NewsInv, IInv, fetch_main("report")
  PROVE  NewsInv'
<1> DEFINE o == run["report"]
           l == [o EXCEPT !.step = "tags", !.main = main]
<1>1. o \in Local /\ run \in [Runs -> Local] /\ news \in [last : BOOLEAN, audit : BOOLEAN]
  BY RunOk, RunsAre DEF IInv, WorldTypes
<1>2. run'["report"] = l /\ UNCHANGED <<main, mathlib, ci, cache, tags, topic>>
      /\ news' = [news EXCEPT !.audit = FALSE]
  BY <1>1, RunsAre DEF fetch_main, Set, world
<1>3. news'.last = news.last /\ ~news'.audit
  BY <1>1, <1>2
<1> HIDE DEF o
<1>4. l.step = "tags" /\ l.main = main
  BY <1>1 DEF Local
<1> HIDE DEF l
<1> QED BY <1>2, <1>3, <1>4, ReadOn

LEMMA TagsNews ==
  ASSUME NewsInv, IInv, existing_tags("report")
  PROVE  NewsInv'
<1> DEFINE o == run["report"]
           l == [o EXCEPT !.step = "mathlib", !.tags = tags]
<1>1. o \in Local /\ run \in [Runs -> Local] /\ o.step = "tags"
  BY RunOk, RunsAre DEF existing_tags, IInv
<1>2. UNCHANGED <<main, mathlib, ci, cache, tags, topic, news>>
  BY DEF existing_tags, world
<1>3. CASE Ran(o.main) = {}
  <2>1. run'["report"] = Idle
    BY <1>1, <1>3, RunsAre DEF existing_tags, Set
  <2> QED BY <1>2, <2>1, Unread DEF Idle
<1>4. CASE Ran(o.main) # {}
  <2>1. run'["report"] = l
    BY <1>1, <1>4, RunsAre DEF existing_tags, Set
  <2>2. Ran(main) # {}
    BY <1>4, BeginsMain
  <2>3. ~news.audit => Says(o.main, tags, mathlib, ci, cache) =
                          Says(main, tags, mathlib, ci, cache)
    BY <1>1, <1>4 DEF NewsInv, ReportInv
  <2> HIDE DEF o
  <2>4. l.step = "mathlib" /\ l.main = o.main /\ l.tags = tags
    BY <1>1 DEF Local
  <2> HIDE DEF l
  <2> QED BY <1>2, <1>4, <2>1, <2>2, <2>3, <2>4, ReadOn
<1> QED BY <1>3, <1>4

LEMMA AuditNews ==
  ASSUME NewsInv, IInv, mathlib_releases("report")
  PROVE  NewsInv'
<1> DEFINE o == run["report"]
           rows == [r \in Releases |-> FirstRow(o, r)]
           l == [o EXCEPT !.step = "judge", !.main = <<>>, !.tags = NoTags, !.rows = rows]
<1>1. o \in Local /\ run \in [Runs -> Local] /\ o.step = "mathlib"
  BY RunOk, RunsAre DEF mathlib_releases, IInv
<1>2. UNCHANGED <<main, mathlib, ci, cache, tags, topic, news>>
  BY DEF mathlib_releases, world
<1>3. run'["report"] = l
  BY <1>1, RunsAre DEF mathlib_releases, Set
<1>4. Ran(main) # {}
  BY <1>1 DEF NewsInv, ReportInv
<1>5. ~news.audit => o.tags = tags /\ Says(o.main, tags, mathlib, ci, cache) =
                                         Says(main, tags, mathlib, ci, cache)
  BY <1>1 DEF NewsInv, ReportInv
<1> HIDE DEF o
<1>6. rows = [r \in Releases |-> Row0(o.main, o.tags, mathlib, r)]
  BY FirstRowIs
<1>7. Reads(rows, ci, cache) = Says(o.main, o.tags, mathlib, ci, cache)
  BY <1>6 DEF Says
<1> HIDE DEF rows
<1>8. l.step = "judge" /\ l.rows = rows
  BY <1>1 DEF Local
<1> HIDE DEF l
<1> QED BY <1>2, <1>3, <1>4, <1>5, <1>7, <1>8, ReadOn

\* A verdict that is what it would come to
LEMMA VerdictNews ==
  ASSUME NewsInv, IInv, NEW r \in Releases, NEW row \in Rows,
         UNCHANGED <<main, mathlib, ci, cache, tags, topic, news>>,
         run["report"].step = "judge",
         Set("report", [run["report"] EXCEPT !.rows[r] = row]),
         Verdict(row, ci, cache) = Verdict(run["report"].rows[r], ci, cache)
  PROVE  NewsInv'
<1> DEFINE o == run["report"]
           l == [o EXCEPT !.rows[r] = row]
<1>1. o \in Local /\ run \in [Runs -> Local] /\ o.step = "judge"
  BY RunOk, RunsAre DEF IInv
<1>2. run'["report"] = l
  BY <1>1, RunsAre DEF Set
<1>3. Ran(main) # {}
      /\ (~news.audit => Reads(o.rows, ci, cache) = Says(main, tags, mathlib, ci, cache))
  BY <1>1 DEF NewsInv, ReportInv
<1>4. Verdict(row, ci, cache) = Verdict(o.rows[r], ci, cache)
  OBVIOUS
<1> HIDE DEF o
<1>5. /\ l.step = "judge" /\ l.rows = [o.rows EXCEPT ![r] = row]
      /\ o.rows \in [Releases -> Rows]
  BY <1>1 DEF Local
<1> HIDE DEF l
<1>6. \A s \in Releases : Verdict(l.rows[s], ci, cache) = Verdict(o.rows[s], ci, cache)
  BY <1>4, <1>5
<1>7. Reads(l.rows, ci, cache) = Reads(o.rows, ci, cache)
  BY <1>6, SameReads
<1> QED BY <1>2, <1>3, <1>5, <1>7, ReadOn

LEMMA CiNews ==
  ASSUME NewsInv, IInv, NEW r \in Releases, ci_passed("report", r)
  PROVE  NewsInv'
<1> DEFINE row == run["report"].rows[r]
           c == row.commit
           n == [row EXCEPT !.ci = ci[c], !.status = CiVerdict(c)]
<1>1. UNCHANGED <<main, mathlib, ci, cache, tags, topic, news>>
  BY DEF ci_passed, SetStatus, world
<1>2. row \in Rows /\ RowOk(r, row, run["report"].sha, main, ci, cache, rerun["report"])
  BY RunOk, RunsAre DEF LocalOk, Local
<1>3. row.status = "asked" /\ run["report"].step = "judge"
  BY DEF ci_passed, Judging
<1>4. Set("report", [run["report"] EXCEPT
                       !.rows[r] = [[row EXCEPT !.ci = ci[c]] EXCEPT !.status = CiVerdict(c)]])
  BY DEF ci_passed, SetStatus
<1>5. ci[c] \in Conclusions
  <2>1. Len(main) \in Nat /\ Len(main) <= MaxCommits /\ MaxCommits \in Nat
    BY CommitsAssumption DEF IInv, WorldTypes, Commits
  <2>2. c \in 1..Len(main)
    BY <1>2, <1>3 DEF RowOk, Era
  <2>3. c \in Commits
    BY <2>1, <2>2 DEF Commits
  <2> QED BY <2>3 DEF IInv, WorldTypes
<1>6. [[row EXCEPT !.ci = ci[c]] EXCEPT !.status = CiVerdict(c)] = n
  BY <1>2 DEF Rows
<1>7. Set("report", [run["report"] EXCEPT !.rows[r] = n])
  BY <1>4, <1>6
<1> DEFINE verdict == CiVerdict(c)
           x == ci[c]
<1>8. verdict \in Statuses /\ x \in Conclusions
  <2>1. verdict \in {"pending", "blocked", "green"}
    BY <1>5 DEF CiVerdict, Conclusions
  <2> QED BY <1>5, <2>1 DEF Statuses
<1>9. n = [row EXCEPT !.ci = ci[c], !.status = CiSays(ci, c)]
  BY DEF CiVerdict, CiSays
<1>10. Verdict(n, ci, cache) = Verdict(row, ci, cache)
  <2> DEFINE q == [row EXCEPT !.ci = ci[row.commit], !.status = CiSays(ci, row.commit)]
  <2>1. n = q
    BY <1>9
  <2> HIDE DEF n, row
  <2>2. Verdict(q, ci, cache) = Verdict(row, ci, cache)
    BY <1>2, <1>3, <1>5, CiSettles
  <2> HIDE DEF q
  <2> QED BY <2>1, <2>2
<1>11. n = [row EXCEPT !.ci = x, !.status = verdict]
  OBVIOUS
<1> HIDE DEF verdict, row, n, x
<1>12. n \in Rows
  BY <1>2, <1>8, <1>11 DEF Rows
<1> QED BY <1>1, <1>3, <1>7, <1>10, <1>12, VerdictNews DEF row

LEMMA CacheNews ==
  ASSUME NewsInv, IInv, NEW r \in Releases, cache_published("report", r)
  PROVE  NewsInv'
<1> DEFINE row == run["report"].rows[r]
           verdict == CacheSays(cache, row.commit)
           n == [row EXCEPT !.status = verdict]
<1>1. UNCHANGED <<main, mathlib, ci, cache, tags, topic, news>>
  BY DEF cache_published, SetStatus, world
<1>2. row \in Rows
  BY RunOk, RunsAre DEF Local
<1>3. row.status = "green" /\ run["report"].step = "judge"
      /\ Set("report", [run["report"] EXCEPT !.rows[r] = n])
  BY DEF cache_published, SetStatus, Judging, CacheSays
<1>4. verdict \in Statuses
  BY DEF CacheSays, Statuses
<1>5. Verdict(n, ci, cache) = Verdict(row, ci, cache)
  BY <1>2, <1>3, CacheSettles
<1> HIDE DEF row, verdict
<1>6. n \in Rows
  BY <1>2, <1>4 DEF Rows
<1> HIDE DEF n
<1> QED BY <1>1, <1>3, <1>5, <1>6, VerdictNews DEF row

\* What an audit without open rows posts is what it comes to.
LEMMA AuditedReads ==
  ASSUME NewsInv, IInv, Audited("report")
  PROVE  /\ Ran(main) # {}
         /\ ~news.audit => state_digest(run["report"].rows) =
                              Says(main, tags, mathlib, ci, cache)
<1> DEFINE rows == run["report"].rows
           f == [r \in Releases |-> Verdict(rows[r], ci, cache)]
<1>1. rows \in [Releases -> Rows]
  BY RunOk, RunsAre DEF Local
<1>2. \A r \in Releases : rows[r].status \notin {"asked", "green"}
  BY DEF Audited, Open
<1>3. \A r \in Releases : f[r] = rows[r]
  BY <1>2, Settled
<1>4. Reads(rows, ci, cache) = state_digest(f)
  BY DEF Reads
<1>5. Ran(main) # {}
      /\ (~news.audit => Reads(rows, ci, cache) = Says(main, tags, mathlib, ci, cache))
  BY DEF NewsInv, ReportInv, Audited
<1> HIDE DEF f, rows
<1>6. state_digest(f) = state_digest(rows)
  BY <1>3, SameDigest
<1> QED BY <1>4, <1>5, <1>6 DEF rows

\* The end of a report, posted or not
LEMMA EndNews ==
  ASSUME NewsInv, IInv, Set("report", Idle), UNCHANGED world,
         \/ UNCHANGED <<topic, news>>
         \/ /\ Audited("report")
            /\ PostIfChanged(state_digest(run["report"].rows))
            /\ news' = [news EXCEPT !.last = news.audit]
  PROVE  NewsInv'
<1>1. UNCHANGED <<main, mathlib, ci, cache, tags>> /\ news \in [last : BOOLEAN, audit : BOOLEAN]
  BY DEF world, IInv, WorldTypes
<1>2. run'["report"].step = "idle"
  BY RunsAre DEF IInv, Set, Idle
<1>3. CASE UNCHANGED <<topic, news>>
  BY <1>1, <1>2, <1>3, Unread
<1>4. CASE /\ Audited("report")
           /\ PostIfChanged(state_digest(run["report"].rows))
           /\ news' = [news EXCEPT !.last = news.audit]
  <2>1. news'.last = news.audit /\ news'.audit = news.audit
    BY <1>1, <1>4
  <2>5. state_digest(run["report"].rows) \in SUBSET (Releases \X Rows)
    BY RunsAre, RunOk, DigestType DEF Local
  <2>6. topic'.digest = state_digest(run["report"].rows)
    BY <1>4, <2>5, Posting DEF IInv, WorldTypes
  <2>2. /\ Ran(main) # {}
        /\ ~news.audit => topic'.digest = Says(main, tags, mathlib, ci, cache)
    BY <1>4, <2>6, AuditedReads
  <2>3. TopicInv'
    BY <1>1, <2>1, <2>2 DEF NewsInv, TopicInv
  <2>4. ReportInv'
    BY <1>2 DEF ReportInv
  <2> QED BY <2>3, <2>4 DEF NewsInv
<1> QED BY <1>3, <1>4

LEMMA ReportNews ==
  ASSUME NewsInv, IInv, Report
  PROVE  NewsInv'
<1>1. ASSUME StartReport PROVE NewsInv'
  <2>1. PICK sha \in queue : Begin("report", sha, {})
    BY <1>1 DEF StartReport
  <2> DEFINE s == IF sha = NoCommit THEN "fetch" ELSE "wait"
  <2>2. run'["report"] = [Idle EXCEPT !.step = s, !.sha = sha, !.wanted = {}]
    BY <2>1, RunsAre DEF Begin, Set, IInv
  <2>3. s \in {"fetch", "wait"}
    OBVIOUS
  <2> HIDE DEF s
  <2>4. run'["report"].step = s
    BY <2>2 DEF Idle
  <2> QED BY <1>1, <2>3, <2>4, Unread DEF StartReport, world
<1>2. ASSUME wait_for_ci("report") PROVE NewsInv'
  <2>1. run'["report"].step = "fetch"
    BY <1>2, RunsAre DEF wait_for_ci, Set, IInv, Local
  <2> QED BY <1>2, <2>1, Unread DEF wait_for_ci, world
<1>3. ASSUME TimeOut("report") PROVE NewsInv'
  BY <1>3, EndNews DEF TimeOut
<1>4. ASSUME post_if_changed PROVE NewsInv'
  BY <1>4, EndNews DEF post_if_changed
<1> QED BY <1>1, <1>2, <1>3, <1>4, FetchNews, TagsNews, AuditNews, CiNews, CacheNews
        DEF Report, Step

\* What `--create` does is news when it has made a tag.
LEMMA CreateNews ==
  ASSUME NewsInv, IInv, StartCreate \/ Create
  PROVE  NewsInv'
<1>1. ASSUME NEW l, Set("create", l) PROVE run'["report"] = run["report"]
  BY <1>1, RunsAre DEF IInv, Set
<1>2. ASSUME StartCreate \/ EndCreate \/ Step("create") PROVE NewsInv'
  <2>1. UNCHANGED <<main, mathlib, ci, cache, tags, topic, news>>
    BY <1>2 DEF StartCreate, EndCreate, Step, wait_for_ci, TimeOut, fetch_main, existing_tags,
                mathlib_releases, ci_passed, cache_published, SetStatus, world
  <2>2. \E l : Set("create", l)
    BY <1>2 DEF StartCreate, EndCreate, Step, wait_for_ci, TimeOut, fetch_main, existing_tags,
                mathlib_releases, ci_passed, cache_published, SetStatus, Begin
  <2>3. run'["report"] = run["report"]
    BY <1>1, <2>2
  <2> QED BY <2>1, <2>3, Elsewhere
<1>3. ASSUME NEW r \in Releases, create_tag(r) PROVE NewsInv'
  <2>1. UNCHANGED <<main, mathlib, ci, cache, topic>>
    BY <1>3 DEF create_tag
  <2>2. run'["report"] = run["report"]
    <3>1. \E l : Set("create", l)
      BY <1>3 DEF create_tag
    <3> QED BY <1>1, <3>1
  <2>3. CASE News(TRUE)
    BY <2>1, <2>2, <2>3, NewsIsNews DEF NewsInv, TopicInv
  <2>4. CASE UNCHANGED <<tags, news>>
    BY <2>1, <2>2, <2>4, Elsewhere
  <2> QED BY <1>3, <2>3, <2>4 DEF create_tag
<1> QED BY <1>2, <1>3 DEF Create

LEMMA FailNews ==
  ASSUME NewsInv, IInv, NEW k \in Runs, Fail(k)
  PROVE  NewsInv'
<1>1. CASE k = "report"
  BY <1>1, EndNews DEF Fail
<1>2. CASE k = "create"
  <2>1. UNCHANGED <<main, mathlib, ci, cache, tags, topic, news>>
    BY <1>2 DEF Fail, world
  <2>2. run'["report"] = run["report"]
    BY <1>2, RunsAre DEF Fail, Set, IInv
  <2> QED BY <2>1, <2>2, Elsewhere
<1> QED BY <1>1, <1>2, RunsAre

LEMMA NewsInit == Init => NewsInv
<1> SUFFICES ASSUME Init PROVE NewsInv
  OBVIOUS
<1>1. TopicInv
  BY DEF Init, TopicInv
<1>2. run["report"].step = "idle"
  BY RunsAre DEF Init, Idle
<1>3. ReportInv
  BY <1>2 DEF ReportInv
<1> QED BY <1>1, <1>3 DEF NewsInv

LEMMA NewsStep == NewsInv /\ IInv /\ [Next]_vars => NewsInv'
<1> SUFFICES ASSUME NewsInv, IInv, [Next]_vars PROVE NewsInv'
  OBVIOUS
<1>1. ASSUME UNCHANGED vars PROVE NewsInv'
  BY <1>1, Elsewhere DEF vars, world
<1> QED BY <1>1, WorldNews, ReportNews, CreateNews, FailNews DEF Next

\* A report is posted only if it differs from the newest one, and without news since
\* the audit behind that one it does not differ, whatever main, mathlib and the runs
\* of CI did meanwhile.
THEOREM OnlyNews == Spec => OnlyNewsIsPosted
<1>1. ASSUME NewsInv, IInv, [Next]_vars, topic' # topic
      PROVE  /\ topic'.digest # topic.digest
             /\ news.last \/ topic.digest = Nothing
  <2> DEFINE d == state_digest(run["report"].rows)
  <2>1. Audited("report") /\ PostIfChanged(d)
    <3>1. World \/ UNCHANGED vars => topic' = topic
      BY DEF World, Commit, MathlibTags, TagByHand, Conclude, RunAgain, Publish, Dispatch,
             Move, vars, world
    <3>2. ASSUME NEW k \in Runs, Step(k) PROVE topic' = topic
      BY <3>2 DEF Step, wait_for_ci, TimeOut, fetch_main, existing_tags, mathlib_releases,
                  ci_passed, cache_published, SetStatus
    <3>3. StartReport \/ StartCreate \/ EndCreate \/ (\E r \in Releases : create_tag(r))
             => topic' = topic
      BY DEF StartReport, StartCreate, EndCreate, create_tag
    <3>4. ASSUME NEW k \in Runs, Fail(k)
          PROVE  topic' = topic \/ (Audited("report") /\ PostIfChanged(d))
      BY <3>4 DEF Fail
    <3> QED BY <1>1, <3>1, <3>2, <3>3, <3>4, RunsAre DEF Next, Report, Create, post_if_changed
  <2>2. d \in SUBSET (Releases \X Rows)
    BY RunsAre, <1>1, RunOk, DigestType DEF Local
  <2>3. topic'.digest = d /\ topic.digest # d
    BY <1>1, <2>1, <2>2, Posting DEF IInv, WorldTypes
  <2>4. ASSUME ~news.last, topic.digest # Nothing PROVE FALSE
    <3>1. ~news.audit /\ topic.digest = Says(main, tags, mathlib, ci, cache)
      BY <1>1, <2>4 DEF NewsInv, TopicInv
    <3> QED BY <1>1, <2>1, <2>3, <3>1, AuditedReads
  <2> QED BY <2>3, <2>4
<1>2. NewsInv /\ IInv /\ [Next]_vars =>
         [topic' # topic =>
             /\ topic'.digest # topic.digest
             /\ news.last \/ topic.digest = Nothing]_vars
  BY <1>1
<1> QED BY <1>2, NewsInit, NewsStep, Faithful, PTL DEF Spec, OnlyNewsIsPosted

===============================================================================
