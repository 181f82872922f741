------------------------- MODULE RoadmapLabels_proofs -------------------------
(***************************************************************************)
(* However runs of roadmap_label.py cancel each other, overlap and fail, a *)
(* pull request whose last run ended carries the right label, no backfill  *)
(* leaves a silent gap, and only runs that were under way at the first     *)
(* nudge can post another: for any roadmaps, pull requests, people and     *)
(* tries.  Every run knows what is still to be added and dropped, and      *)
(* whoever else writes to the same pull request with the same goal brings  *)
(* it nearer; and every post uses up one of finitely many chances.         *)
(***************************************************************************)
EXTENDS RoadmapLabels, FiniteSetTheorems, TLAPS

Prs == [body : Body, files : Files, labels : SUBSET Labels, nudges : Nat]

JobSteps == {"idle", "view", "labels", "edit", "comments", "post"}

JobTypes == [step : JobSteps, pr : PRs \cup {NoPR}, goal : Labels \cup {NoLabel},
             add : SUBSET Labels, drop : SUBSET Labels, nudge : BOOLEAN,
             done : SUBSET {"add", "drop", "post"}, tries : 0..(Tries - 1)]

Entries == [goal : Labels \cup {NoLabel}, current : SUBSET Labels]

Backfills == [step : {"none", "plan", "retry", "over"}, plan : [PRs -> Entries],
              queue : SUBSET PRs, failed : SUBSET PRs, allow : BOOLEAN, moved : SUBSET PRs]

\* A job is about a pull request, only adds and never drops its goal, and looks at
\* the comments only if it was told to nudge.
Sane(j) ==
    /\ j \in JobTypes
    /\ j.step # "idle" => j.pr \in PRs
    /\ j.step \notin {"idle", "view"} => j.goal \in Labels
    /\ j.step = "edit" => j.add \subseteq {j.goal} /\ j.goal \notin j.drop
    /\ j.step \in {"comments", "post"} => j.nudge = TRUE
    /\ j.step \in {"view", "labels"} => j.done = {}

\* What the current try of an edit has still to do
Adds(j) == IF "add" \in j.done THEN {} ELSE j.add
Drops(j) == IF "drop" \in j.done THEN {} ELSE j.drop

\* What a job j has left to do gives a pull request its one label.
Underway(j, labels) ==
    /\ j.goal \in labels \/ j.goal \in Adds(j)
    /\ labels \ {j.goal} \subseteq Drops(j)

\* The run that p's last event started, on the record r of p
Own(p, j, r, w) ==
    /\ j.step \notin {"comments", "post"} /\ j.nudge = FALSE
    /\ j.step # "idle" => j.pr = p
    /\ p \notin w =>
          LET right == classify(r.body, r.files) IN
          /\ j.step \in {"labels", "edit"} => j.goal = right
          /\ j.step = "edit" => Underway(j, r.labels)
          /\ j.step = "idle" => r.labels = {right}

\* A run by hand j, as part of a backfill b or with a nudge
Hand(j, b, s) ==
    /\ b.step \in {"plan", "retry"} /\ j.step # "idle" =>
          /\ j.step \in {"labels", "edit"} /\ j.nudge = FALSE
          /\ j.goal = b.plan[j.pr].goal
          /\ j.pr \notin b.moved /\ j.step = "edit" => Underway(j, s[j.pr].labels)
    /\ b.step = "over" => j.step = "idle" /\ b.queue = {}

\* What a backfill b, which runs j, has done or will do about p, whose own job is
\* `own`
Covered(p, b, own, j, r) ==
    b.step # "none" =>
        /\ b.plan[p].goal \in Labels
        /\ p \notin b.moved =>
              /\ own.step = "idle"
              /\ b.plan[p].goal = classify(r.body, r.files)
              /\ \/ p \in b.queue \/ p \in b.failed
                 \/ j.step # "idle" /\ j.pr = p
                 \/ Skipped(b.plan[p], b.allow)
                 \/ r.labels = {b.plan[p].goal}

Types ==
    /\ prs \in [PRs -> Prs]
    /\ jobs \in [Runners -> JobTypes]
    /\ backfill \in [People -> Backfills]
    /\ wronged \in SUBSET PRs
    /\ rivals \in [PRs -> SUBSET People]

IInv ==
    /\ Types
    /\ \A c \in Runners : Sane(jobs[c])
    /\ \A p \in PRs : Own(p, jobs[p], prs[p], wronged)
    /\ \A h \in People :
          /\ Hand(jobs[h], backfill[h], prs)
          /\ \A p \in PRs : Covered(p, backfill[h], jobs[p], jobs[h], prs[p])

LEMMA RunnersAre ==
  /\ Runners = PRs \cup People
  /\ \A p \in PRs : p \notin People /\ p \in Runners
  /\ \A h \in People : h \notin PRs /\ h \in Runners
BY PeopleAssumption DEF Runners

LEMMA NoTries == 0 \in 0..(Tries - 1)
BY BoundsAssumption

-------------------------------------------------------------------------------
(* The classifier                                                          *)

\* Whatever a description says, the classifier gives it a label.
LEMMA ClassifyType ==
  ASSUME NEW body \in Body, NEW files \in Files
  PROVE  classify(body, files) \in Labels
<1> DEFINE declared == parse_declared_area(body)
           indirect == body.targets \cup body.cited
<1>1. body.declared \subseteq Areas \cup {"none", "invalid"} /\ indirect \subseteq Areas
  BY DEF Body
<1>2. declared \in Areas \cup {"none", "invalid", "absent"}
  <2>1. Cardinality(body.declared) = 1 => \E d \in body.declared : TRUE
    <3>1. CASE body.declared = {}
      BY <3>1, FS_EmptySet
    <3>2. CASE body.declared # {}
      BY <3>2
    <3> QED BY <3>1, <3>2
  <2> QED BY <1>1, <2>1 DEF parse_declared_area
<1>3. Cardinality(indirect) = 1 => (CHOOSE a \in indirect : TRUE) \in Areas
  <2>1. CASE indirect = {}
    BY <2>1, FS_EmptySet
  <2>2. CASE indirect # {}
    BY <1>1, <2>2
  <2> QED BY <2>1, <2>2
<1>4. NONE_LABEL \in Labels /\ UNKNOWN_LABEL \in Labels /\ Areas \subseteq Labels
  BY DEF Labels
<1>5. CASE is_infra(files) \/ is_pin_only(files)
  BY <1>4, <1>5 DEF classify
<1>6. CASE ~(is_infra(files) \/ is_pin_only(files))
  <2>1. classify(body, files) =
          CASE declared = "invalid" -> UNKNOWN_LABEL
            [] declared = "none" -> IF indirect = {} THEN NONE_LABEL ELSE UNKNOWN_LABEL
            [] declared \in Areas ->
                 IF indirect \subseteq {declared} THEN declared ELSE UNKNOWN_LABEL
            [] declared = "absent" ->
                 IF Cardinality(indirect) = 1 THEN CHOOSE a \in indirect : TRUE
                 ELSE UNKNOWN_LABEL
    BY <1>6 DEF classify
  <2> HIDE DEF declared, indirect
  <2>2. CASE declared = "invalid"
    BY <1>4, <2>1, <2>2, LabelsAssumption
  <2>3. CASE declared = "none"
    BY <1>4, <2>1, <2>3, LabelsAssumption
  <2>4. CASE declared \in Areas
    BY <1>4, <2>1, <2>4, LabelsAssumption
  <2>5. CASE declared = "absent"
    BY <1>3, <1>4, <2>1, <2>5, LabelsAssumption
  <2> QED BY <1>2, <2>2, <2>3, <2>4, <2>5
<1> QED BY <1>5, <1>6

LEMMA IdleSane == Sane(Idle) /\ Idle.step = "idle" /\ Idle.nudge = FALSE
BY NoTries DEF Idle, Sane, JobTypes, JobSteps

-------------------------------------------------------------------------------
(* Steps that leave the pull requests alone                                *)

\* A run of an event goes on.
LEMMA OwnStep ==
  ASSUME IInv, NEW p \in PRs, NEW k, jobs' = [jobs EXCEPT ![p] = k],
         UNCHANGED <<prs, backfill, rivals>>, wronged' \in SUBSET PRs, wronged \subseteq wronged',
         jobs[p].step # "idle", Sane(k), Own(p, k, prs[p], wronged')
  PROVE  IInv'
<1>1. k \in JobTypes /\ p \notin People
  BY RunnersAre DEF Sane
<1>2. Types'
  BY <1>1 DEF IInv, Types
<1>3. jobs'[p] = k /\ \A c \in Runners \ {p} : jobs'[c] = jobs[c]
  BY RunnersAre DEF IInv, Types
<1>4. \A h \in People : jobs'[h] = jobs[h]
  BY <1>1, <1>3, RunnersAre
<1>5. \A c \in Runners : Sane(jobs'[c])
  BY <1>3 DEF IInv
<1>6. \A q \in PRs : Own(q, jobs'[q], prs[q], wronged')
  <2> SUFFICES ASSUME NEW q \in PRs PROVE Own(q, jobs'[q], prs[q], wronged')
    OBVIOUS
  <2>1. CASE q = p
    BY <1>3, <2>1
  <2>2. CASE q # p
    <3>1. jobs'[q] = jobs[q] /\ Own(q, jobs[q], prs[q], wronged)
      BY <1>3, <2>2, RunnersAre DEF IInv
    <3>2. Own(q, jobs[q], prs[q], wronged')
      BY <3>1 DEF Own
    <3> QED BY <3>1, <3>2
  <2> QED BY <2>1, <2>2
<1>7. ASSUME NEW h \in People, NEW q \in PRs
      PROVE  Covered(q, backfill[h], jobs'[q], jobs[h], prs[q])
  <2>1. Covered(q, backfill[h], jobs[q], jobs[h], prs[q])
    BY DEF IInv
  <2>2. CASE q = p
    BY <2>1, <2>2 DEF Covered
  <2>3. CASE q # p
    <3>1. jobs'[q] = jobs[q]
      BY <1>3, <2>3, RunnersAre
    <3> QED BY <2>1, <3>1
  <2> QED BY <2>2, <2>3
<1> QED BY <1>2, <1>4, <1>5, <1>6, <1>7 DEF IInv

\* A run by hand goes on as k, or its backfill as b.
LEMMA HandStep ==
  ASSUME IInv, NEW h \in People, NEW k, NEW b \in Backfills,
         jobs' = [jobs EXCEPT ![h] = k], backfill' = [backfill EXCEPT ![h] = b],
         UNCHANGED <<prs, wronged, rivals>>, Sane(k), Hand(k, b, prs),
         \A q \in PRs : Covered(q, b, jobs[q], k, prs[q])
  PROVE  IInv'
<1>1. k \in JobTypes /\ h \notin PRs
  BY RunnersAre DEF Sane
<1>2. Types'
  BY <1>1 DEF IInv, Types
<1>3. jobs'[h] = k /\ \A c \in Runners \ {h} : jobs'[c] = jobs[c]
  BY RunnersAre DEF IInv, Types
<1>4. \A q \in PRs : jobs'[q] = jobs[q]
  BY <1>1, <1>3, RunnersAre
<1>5. \A c \in Runners : Sane(jobs'[c])
  BY <1>3 DEF IInv
<1>6. backfill'[h] = b /\ \A g \in People \ {h} : backfill'[g] = backfill[g]
  BY DEF IInv, Types
<1>7. ASSUME NEW g \in People
      PROVE  /\ Hand(jobs'[g], backfill'[g], prs)
             /\ \A q \in PRs : Covered(q, backfill'[g], jobs[q], jobs'[g], prs[q])
  <2>1. CASE g = h
    BY <1>3, <1>6, <2>1
  <2>2. CASE g # h
    <3>1. jobs'[g] = jobs[g] /\ backfill'[g] = backfill[g]
      BY <1>3, <1>6, <2>2, RunnersAre
    <3> QED BY <3>1 DEF IInv
  <2> QED BY <2>1, <2>2
<1> QED BY <1>2, <1>4, <1>5, <1>7 DEF IInv

\* A run by hand goes on as k, whatever backfill it is part of.
LEMMA HandGoesOn ==
  ASSUME IInv, NEW h \in People, NEW k, jobs' = [jobs EXCEPT ![h] = k],
         UNCHANGED <<prs, backfill, wronged, rivals>>, jobs[h].step # "idle",
         Sane(k), Hand(k, backfill[h], prs),
         LET p == jobs[h].pr IN Covered(p, backfill[h], jobs[p], k, prs[p])
  PROVE  IInv'
<1> DEFINE p == jobs[h].pr
           b == backfill[h]
<1>1. b \in Backfills /\ backfill' = [backfill EXCEPT ![h] = b]
  BY DEF IInv, Types
<1>2. ASSUME NEW q \in PRs PROVE Covered(q, b, jobs[q], k, prs[q])
  <2>1. Covered(q, b, jobs[q], jobs[h], prs[q])
    BY DEF IInv
  <2>2. CASE q = p
    BY <2>2
  <2>3. CASE q # p
    BY <2>1, <2>3 DEF Covered
  <2> QED BY <2>2, <2>3
<1> HIDE DEF b
<1> QED BY <1>1, <1>2, HandStep DEF b

\* The description is read.
LEMMA ViewStep ==
  ASSUME IInv, NEW c \in Runners, _pr_fields(c)
  PROVE  IInv'
<1> DEFINE j == jobs[c]
           k == [j EXCEPT !.step = "labels", !.goal = Right(j.pr)]
<1>1. /\ Sane(j) /\ j.step = "view" /\ jobs' = [jobs EXCEPT ![c] = k]
      /\ UNCHANGED <<prs, backfill, wronged, rivals>>
  BY DEF IInv, _pr_fields
<1>2. j.pr \in PRs /\ j \in JobTypes
  BY <1>1 DEF Sane
<1>3. prs[j.pr].body \in Body /\ prs[j.pr].files \in Files
  BY <1>2 DEF IInv, Types, Prs
<1>4. Right(j.pr) \in Labels
  BY <1>3, ClassifyType DEF Right
<1>5. /\ k \in JobTypes /\ k.step = "labels" /\ k.goal = Right(j.pr) /\ k.pr = j.pr
      /\ k.nudge = j.nudge /\ k.done = j.done
  BY <1>2, <1>4 DEF JobTypes, JobSteps
<1> HIDE DEF k
<1>6. Sane(k)
  <2>1. j.done = {}
    BY <1>1 DEF Sane
  <2> QED BY <1>2, <1>4, <1>5, <2>1 DEF Sane
<1>7. CASE c \in PRs
  <2>1. Own(c, j, prs[c], wronged)
    BY <1>7 DEF IInv
  <2>2. Own(c, k, prs[c], wronged)
    BY <1>1, <1>5, <2>1 DEF Own, Right
  <2>3. wronged \in SUBSET PRs
    BY DEF IInv, Types
  <2> QED BY <1>1, <1>6, <1>7, <2>2, <2>3, OwnStep
<1>8. CASE c \in People
  <2>1. Hand(j, backfill[c], prs) /\ Covered(j.pr, backfill[c], jobs[j.pr], j, prs[j.pr])
    BY <1>2, <1>8 DEF IInv
  <2>2. Hand(k, backfill[c], prs)
    BY <1>1, <1>5, <2>1 DEF Hand
  <2>3. Covered(j.pr, backfill[c], jobs[j.pr], k, prs[j.pr])
    BY <1>1, <1>5, <2>1 DEF Covered
  <2> QED BY <1>1, <1>6, <1>8, <2>2, <2>3, HandGoesOn
<1> QED BY <1>7, <1>8, RunnersAre

\* After the edit a run ends, or looks at the comments if it was told to nudge.
LEMMA AfterApplySane ==
  ASSUME NEW j, Sane(j), j.step \notin {"idle", "view"}
  PROVE  /\ Sane(AfterApply(j)) /\ AfterApply(j).step \in {"idle", "comments"}
         /\ AfterApply(j).step = "comments" => AfterApply(j).pr = j.pr /\ j.nudge = TRUE
         /\ j.nudge = FALSE => AfterApply(j).nudge = FALSE
<1>1. CASE j.nudge /\ j.goal = UNKNOWN_LABEL
  <2> DEFINE k == [j EXCEPT !.step = "comments", !.add = {}, !.drop = {}, !.done = {}, !.tries = 0]
  <2>1. j \in JobTypes
    BY DEF Sane
  <2>2. /\ k \in JobTypes /\ k.step = "comments" /\ k.pr = j.pr /\ k.goal = j.goal
        /\ k.nudge = j.nudge
    BY <2>1, NoTries DEF JobTypes, JobSteps
  <2>3. AfterApply(j) = k
    BY <1>1 DEF AfterApply
  <2> HIDE DEF k
  <2>4. j.nudge = TRUE
    BY <1>1, <2>1 DEF JobTypes
  <2>5. Sane(k)
    BY <2>2, <2>4 DEF Sane
  <2> QED BY <2>2, <2>3, <2>4, <2>5
<1>2. CASE ~(j.nudge /\ j.goal = UNKNOWN_LABEL)
  <2>1. AfterApply(j) = Idle
    BY <1>2 DEF AfterApply
  <2> QED BY <2>1, IdleSane
<1> QED BY <1>1, <1>2

\* A run by hand ends its work on its pull request, which carries its label.
LEMMA HandApplied ==
  ASSUME IInv, NEW h \in People, NEW k, jobs' = [jobs EXCEPT ![h] = k],
         UNCHANGED <<prs, backfill, wronged, rivals>>, jobs[h].step # "idle",
         Sane(k), k.step \in {"idle", "comments"}, k.step = "comments" => jobs[h].nudge = TRUE,
         LET j == jobs[h] IN
         backfill[h].step \in {"plan", "retry"} /\ j.pr \notin backfill[h].moved =>
            prs[j.pr].labels = {j.goal}
  PROVE  IInv'
<1> DEFINE j == jobs[h]
           b == backfill[h]
<1>1. Hand(j, b, prs) /\ Covered(j.pr, b, jobs[j.pr], j, prs[j.pr])
      /\ b.step \in {"none", "plan", "retry", "over"}
  BY RunnersAre DEF IInv, Sane, Types, Backfills
<1>2. Hand(k, b, prs)
  BY <1>1 DEF Hand
<1>3. Covered(j.pr, b, jobs[j.pr], k, prs[j.pr])
  <2>1. CASE b.step \in {"plan", "retry"}
    BY <1>1, <2>1 DEF Covered, Hand
  <2>2. CASE b.step = "over"
    BY <1>1, <2>2 DEF Hand
  <2>3. CASE b.step = "none"
    BY <2>3 DEF Covered
  <2> QED BY <1>1, <2>1, <2>2, <2>3
<1> QED BY <1>2, <1>3, HandGoesOn

LEMMA ReadLabelsStep ==
  ASSUME IInv, NEW c \in Runners, ReadLabels(c)
  PROVE  IInv'
<1> DEFINE j == jobs[c]
           have == prs[j.pr].labels
           a == {j.goal} \ have
           d == have \ {j.goal}
           k == [j EXCEPT !.step = "edit", !.add = a, !.drop = d]
<1>1. /\ Sane(j) /\ j.step = "labels"
      /\ jobs' = [jobs EXCEPT ![c] = IF have = {j.goal} THEN AfterApply(j) ELSE k]
      /\ UNCHANGED <<prs, backfill, wronged, rivals>>
  BY DEF IInv, ReadLabels, Types
<1>2. j.pr \in PRs /\ j \in JobTypes /\ j.goal \in Labels
  BY <1>1 DEF Sane
<1>3. have \in SUBSET Labels
  BY <1>2 DEF IInv, Types, Prs
<1>4. wronged \in SUBSET PRs
  BY DEF IInv, Types
<1>5. CASE have = {j.goal}
  <2>1. /\ jobs' = [jobs EXCEPT ![c] = AfterApply(j)]
        /\ Sane(AfterApply(j)) /\ AfterApply(j).step \in {"idle", "comments"}
        /\ AfterApply(j).step = "comments" => j.nudge = TRUE
        /\ j.nudge = FALSE => AfterApply(j).nudge = FALSE
    BY <1>1, <1>5, AfterApplySane
  <2>2. CASE c \in PRs
    <3>1. Own(c, j, prs[c], wronged) /\ j.pr = c
      BY <1>1, <2>2 DEF IInv, Own
    <3>2. Own(c, AfterApply(j), prs[c], wronged)
      BY <1>1, <1>5, <2>1, <3>1 DEF Own
    <3> QED BY <1>1, <1>4, <2>1, <2>2, <3>2, OwnStep
  <2>3. CASE c \in People
    BY <1>1, <1>5, <2>1, <2>3, HandApplied
  <2> QED BY <2>2, <2>3, RunnersAre
<1>6. CASE have # {j.goal}
  <2>1. a \in SUBSET Labels /\ d \in SUBSET Labels
    BY <1>2, <1>3
  <2>2. a \subseteq {j.goal} /\ j.goal \notin d /\ (j.goal \in have \/ j.goal \in a)
        /\ have \ {j.goal} \subseteq d
    OBVIOUS
  <2>3. jobs' = [jobs EXCEPT ![c] = k]
    BY <1>1, <1>6
  <2> HIDE DEF a, d
  <2>4. /\ k \in JobTypes /\ k.step = "edit" /\ k.add = a /\ k.drop = d /\ k.goal = j.goal
        /\ k.pr = j.pr /\ k.nudge = j.nudge /\ k.done = j.done
    BY <1>2, <2>1 DEF JobTypes, JobSteps
  <2> HIDE DEF k
  <2>5. Sane(k)
    BY <1>2, <2>2, <2>4 DEF Sane
  <2>6. j.done = {}
    BY <1>1 DEF Sane
  <2>7. Underway(k, have)
    BY <2>2, <2>4, <2>6 DEF Underway, Adds, Drops
  <2>8. CASE c \in PRs
    <3>1. Own(c, j, prs[c], wronged) /\ j.pr = c
      BY <1>1, <2>8 DEF IInv, Own
    <3>2. Own(c, k, prs[c], wronged)
      BY <1>1, <2>4, <2>7, <3>1 DEF Own
    <3> QED BY <1>1, <1>4, <2>3, <2>5, <2>8, <3>2, OwnStep
  <2>9. CASE c \in People
    <3>1. Hand(j, backfill[c], prs) /\ Covered(j.pr, backfill[c], jobs[j.pr], j, prs[j.pr])
      BY <1>2, <2>9 DEF IInv
    <3>2. Hand(k, backfill[c], prs)
      BY <1>1, <2>4, <2>7, <3>1 DEF Hand
    <3>3. Covered(j.pr, backfill[c], jobs[j.pr], k, prs[j.pr])
      BY <1>1, <2>4, <3>1 DEF Covered
    <3> QED BY <1>1, <2>3, <2>5, <2>9, <3>2, <3>3, HandGoesOn
  <2> QED BY <2>8, <2>9, RunnersAre
<1> QED BY <1>5, <1>6
\* A run looks for an earlier nudge.
LEMMA CommentsStep ==
  ASSUME IInv, NEW c \in Runners, ReadComments(c)
  PROVE  IInv'
<1> DEFINE j == jobs[c]
           k == IF _already_nudged(j.pr) THEN Idle ELSE [j EXCEPT !.step = "post"]
<1>1. c \in People
  BY RunnersAre DEF IInv, Own, ReadComments
<1>2. /\ Sane(j) /\ j.step = "comments" /\ jobs' = [jobs EXCEPT ![c] = k]
      /\ UNCHANGED <<prs, backfill, wronged, rivals>>
  BY DEF IInv, ReadComments, Types
<1>3. j.pr \in PRs /\ j \in JobTypes /\ j.nudge = TRUE
  BY <1>2 DEF Sane
<1>4. Sane(k)
  <2>1. CASE _already_nudged(j.pr)
    BY <2>1, IdleSane
  <2>2. CASE ~_already_nudged(j.pr)
    <3>1. k = [j EXCEPT !.step = "post"]
      BY <2>2
    <3> HIDE DEF k
    <3>2. k \in JobTypes /\ k.step = "post" /\ k.pr = j.pr /\ k.goal = j.goal /\ k.nudge = TRUE
      BY <1>3, <3>1 DEF JobTypes, JobSteps
    <3> QED BY <1>2, <1>3, <3>2 DEF Sane
  <2> QED BY <2>1, <2>2
<1> HIDE DEF k
<1>5. backfill[c].step = "none"
  BY <1>1, <1>2 DEF IInv, Hand, Types, Backfills
<1>6. Hand(k, backfill[c], prs) /\ Covered(j.pr, backfill[c], jobs[j.pr], k, prs[j.pr])
  BY <1>5 DEF Hand, Covered
<1> QED BY <1>1, <1>2, <1>4, <1>6, HandGoesOn

\* gh has done what it was asked.
LEMMA AnsweredStep ==
  ASSUME IInv, NEW c \in Runners, Answered(c)
  PROVE  IInv'
<1> DEFINE j == jobs[c]
<1>1. /\ Sane(j) /\ j \in JobTypes /\ UNCHANGED <<prs, backfill, wronged, rivals>>
      /\ wronged \in SUBSET PRs
  BY DEF IInv, Answered, Sane, Types
<1>2. CASE j.step = "edit" /\ j.done = Calls(j) /\ jobs' = [jobs EXCEPT ![c] = AfterApply(j)]
  <2>1. /\ Sane(AfterApply(j)) /\ AfterApply(j).step \in {"idle", "comments"}
        /\ AfterApply(j).step = "comments" => j.nudge = TRUE
        /\ j.nudge = FALSE => AfterApply(j).nudge = FALSE
    BY <1>1, <1>2, AfterApplySane
  <2>2. Adds(j) = {} /\ Drops(j) = {}
    BY <1>2 DEF Calls, Adds, Drops
  <2>3. \A have : Underway(j, have) => have = {j.goal}
    BY <2>2 DEF Underway
  <2>4. CASE c \in PRs
    <3>1. Own(c, j, prs[c], wronged)
      BY <2>4 DEF IInv
    <3>2. Own(c, AfterApply(j), prs[c], wronged)
      BY <1>2, <2>1, <2>3, <3>1 DEF Own
    <3> QED BY <1>1, <1>2, <2>1, <2>4, <3>2, OwnStep
  <2>5. CASE c \in People
    <3>1. Hand(j, backfill[c], prs)
      BY <2>5 DEF IInv
    <3>2. backfill[c].step \in {"plan", "retry"} /\ j.pr \notin backfill[c].moved =>
             prs[j.pr].labels = {j.goal}
      BY <1>2, <2>3, <3>1 DEF Hand
    <3> QED BY <1>1, <1>2, <2>1, <2>5, <3>2, HandApplied
  <2> QED BY <2>4, <2>5, RunnersAre
<1>3. CASE j.step = "post" /\ jobs' = [jobs EXCEPT ![c] = Idle]
  <2>1. c \in People
    BY <1>3, RunnersAre DEF IInv, Own
  <2>2. backfill[c].step = "none"
    BY <1>3, <2>1 DEF IInv, Hand, Types, Backfills
  <2> QED BY <1>1, <1>3, <2>1, <2>2, IdleSane, HandApplied
<1> QED BY <1>2, <1>3 DEF Answered

\* A try seems to have failed; the next one starts over, but goes on from there.
LEMMA RetryStep ==
  ASSUME IInv, NEW c \in Runners, Retry(c)
  PROVE  IInv'
<1> DEFINE j == jobs[c]
           n == j.tries + 1
           k == [j EXCEPT !.tries = n, !.done = {}]
<1>1. /\ Sane(j) /\ j \in JobTypes /\ UNCHANGED <<prs, backfill, wronged, rivals>>
      /\ wronged \in SUBSET PRs /\ j.step \in {"edit", "post"} /\ n < Tries
  BY DEF IInv, Retry, Sane, Types
<1>2. jobs' = [jobs EXCEPT ![c] = k]
  BY DEF Retry, IInv, Types
<1>3. n \in 0..(Tries - 1)
  <2>1. j.tries \in 0..(Tries - 1) /\ Tries \in Nat
    BY <1>1, BoundsAssumption DEF JobTypes
  <2> QED BY <1>1, <2>1
<1> HIDE DEF n
<1>4. /\ k \in JobTypes /\ k.step = j.step /\ k.pr = j.pr /\ k.goal = j.goal
      /\ k.nudge = j.nudge /\ k.add = j.add /\ k.drop = j.drop /\ k.done = {}
  BY <1>1, <1>3 DEF JobTypes
<1> HIDE DEF k
<1>5. Sane(k)
  BY <1>1, <1>4 DEF Sane
<1>6. \A have : Underway(j, have) => Underway(k, have)
  BY <1>4 DEF Underway, Adds, Drops
<1>7. CASE c \in PRs
  <2>1. Own(c, j, prs[c], wronged)
    BY <1>7 DEF IInv
  <2>2. Own(c, k, prs[c], wronged)
    BY <1>4, <1>6, <2>1 DEF Own
  <2> QED BY <1>1, <1>2, <1>5, <1>7, <2>2, OwnStep
<1>8. CASE c \in People
  <2>1. Hand(j, backfill[c], prs) /\ Covered(j.pr, backfill[c], jobs[j.pr], j, prs[j.pr])
    BY <1>1, <1>8 DEF IInv, Sane
  <2>2. Hand(k, backfill[c], prs)
    BY <1>1, <1>4, <1>6, <2>1 DEF Hand
  <2>3. Covered(j.pr, backfill[c], jobs[j.pr], k, prs[j.pr])
    BY <1>4, <2>1 DEF Covered
  <2> QED BY <1>1, <1>2, <1>5, <1>8, <2>2, <2>3, HandGoesOn
<1> QED BY <1>7, <1>8, RunnersAre

LEMMA FailStep ==
  ASSUME IInv, NEW c \in Runners, Fail(c)
  PROVE  IInv'
<1>1. jobs[c].step # "idle" /\ jobs' = [jobs EXCEPT ![c] = Idle] /\ UNCHANGED <<prs, rivals>>
  BY DEF Fail
<1>2. CASE c \in PRs
  <2>1. UNCHANGED backfill /\ wronged' = wronged \cup {c}
    BY <1>2, RunnersAre DEF Fail
  <2>2. wronged' \in SUBSET PRs /\ wronged \subseteq wronged'
    BY <1>2, <2>1 DEF IInv, Types
  <2>3. Own(c, Idle, prs[c], wronged')
    BY <2>1, IdleSane DEF Own
  <2> QED BY <1>1, <1>2, <2>1, <2>2, <2>3, IdleSane, OwnStep
<1>3. CASE c \in People
  <2> DEFINE j == jobs[c]
             p == j.pr
             old == backfill[c]
             b == IF old.step \in {"plan", "retry"} THEN [old EXCEPT !.failed = @ \cup {p}]
                  ELSE old
  <2>1. p \in PRs /\ old \in Backfills /\ Hand(j, old, prs)
    BY <1>1, <1>3 DEF IInv, Sane, Types
  <2>2. UNCHANGED wronged /\ backfill' = [backfill EXCEPT ![c] = b]
    BY <1>3, <2>1, RunnersAre DEF Fail, Noted, IInv, Types
  <2>3. /\ b \in Backfills /\ b.step = old.step /\ b.plan = old.plan
        /\ b.queue = old.queue /\ b.allow = old.allow /\ b.moved = old.moved
        /\ old.failed \subseteq b.failed
        /\ old.step \in {"plan", "retry"} => p \in b.failed
    BY <2>1 DEF Backfills
  <2> HIDE DEF b
  <2>4. old.step \in {"none", "plan", "retry"}
    BY <1>1, <2>1 DEF Hand, Backfills
  <2>5. ASSUME NEW q \in PRs PROVE Covered(q, b, jobs[q], Idle, prs[q])
    <3>1. Covered(q, old, jobs[q], j, prs[q])
      BY <1>3 DEF IInv
    <3> QED BY <2>3, <2>4, <3>1 DEF Covered
  <2>6. Hand(Idle, b, prs)
    BY <2>3, <2>4, IdleSane DEF Hand
  <2> QED BY <1>1, <1>3, <2>2, <2>3, <2>5, <2>6, IdleSane, HandStep
<1> QED BY <1>2, <1>3, RunnersAre
-------------------------------------------------------------------------------
(* Steps that change a pull request                                        *)

\* The record of p becomes r, and no backfill counts on it any more.
LEMMA Disturbed ==
  ASSUME IInv, NEW p \in PRs, NEW r \in Prs, prs' = [prs EXCEPT ![p] = r], Moves(p),
         UNCHANGED rivals, jobs' \in [Runners -> JobTypes],
         \A c \in Runners : Sane(jobs'[c]),
         \A q \in PRs \ {p} : jobs'[q] = jobs[q] /\ (q \in wronged' <=> q \in wronged),
         \A h \in People :
            \/ jobs'[h] = jobs[h]
            \/ /\ jobs'[h].step = jobs[h].step /\ jobs'[h].pr = jobs[h].pr
               /\ jobs'[h].goal = jobs[h].goal /\ jobs'[h].nudge = jobs[h].nudge
               /\ jobs[h].pr = p,
         wronged' \in SUBSET PRs, Own(p, jobs'[p], r, wronged')
  PROVE  IInv'
<1>1. prs'[p] = r /\ \A q \in PRs \ {p} : prs'[q] = prs[q]
  BY DEF IInv, Types
<1>2. ASSUME NEW h \in People
      PROVE  /\ backfill'[h] = [backfill[h] EXCEPT !.moved = @ \cup {p}]
             /\ backfill'[h] \in Backfills
             /\ backfill'[h].moved = backfill[h].moved \cup {p}
             /\ backfill'[h].step = backfill[h].step /\ backfill'[h].plan = backfill[h].plan
             /\ backfill'[h].queue = backfill[h].queue
             /\ backfill'[h].failed = backfill[h].failed
             /\ backfill'[h].allow = backfill[h].allow
  <2>1. backfill[h] \in Backfills
    BY DEF IInv, Types
  <2>2. backfill'[h] = [backfill[h] EXCEPT !.moved = @ \cup {p}]
    BY DEF Moves
  <2> QED BY <2>1, <2>2 DEF Backfills
<1>3. Types'
  <2>1. backfill' \in [People -> Backfills]
    BY <1>2 DEF Moves
  <2>2. prs' \in [PRs -> Prs]
    BY DEF IInv, Types
  <2> QED BY <2>1, <2>2 DEF IInv, Types
<1>4. ASSUME NEW q \in PRs PROVE Own(q, jobs'[q], prs'[q], wronged')
  <2>1. CASE q = p
    BY <1>1, <2>1
  <2>2. CASE q # p
    <3>1. Own(q, jobs[q], prs[q], wronged) /\ jobs'[q] = jobs[q] /\ prs'[q] = prs[q]
          /\ (q \in wronged' <=> q \in wronged)
      BY <1>1, <2>2 DEF IInv
    <3> QED BY <3>1 DEF Own
  <2> QED BY <2>1, <2>2
<1>5. ASSUME NEW h \in People
      PROVE  /\ Hand(jobs'[h], backfill'[h], prs')
             /\ \A q \in PRs : Covered(q, backfill'[h], jobs'[q], jobs'[h], prs'[q])
  <2> DEFINE j == jobs[h]
             k == jobs'[h]
             old == backfill[h]
             b == backfill'[h]
  <2>1. /\ Hand(j, old, prs) /\ Sane(j)
        /\ \A q \in PRs : Covered(q, old, jobs[q], j, prs[q])
    BY RunnersAre DEF IInv
  <2>2. /\ k.step = j.step /\ k.pr = j.pr /\ k.goal = j.goal /\ k.nudge = j.nudge
        /\ k = j \/ j.pr = p
    OBVIOUS
  <2>3. /\ b.moved = old.moved \cup {p} /\ b.step = old.step /\ b.plan = old.plan
        /\ b.queue = old.queue /\ b.failed = old.failed /\ b.allow = old.allow
    BY <1>2
  <2> HIDE DEF j, k, old, b
  <2>4. j.step # "idle" => j.pr \in PRs
    BY <2>1 DEF Sane
  <2>5. Hand(k, b, prs')
    <3>1. k.step = "edit" /\ k.pr \notin b.moved => k = j /\ prs'[k.pr].labels = prs[j.pr].labels
      BY <1>1, <2>2, <2>3, <2>4
    <3> QED BY <2>1, <2>2, <2>3, <3>1 DEF Hand
  <2>6. ASSUME NEW q \in PRs PROVE Covered(q, b, jobs'[q], k, prs'[q])
    <3>1. Covered(q, old, jobs[q], j, prs[q])
      BY <2>1
    <3>2. CASE q = p
      BY <2>3, <3>1, <3>2 DEF Covered
    <3>3. CASE q # p
      <4>1. jobs'[q] = jobs[q] /\ prs'[q] = prs[q]
        BY <1>1, <3>3
      <4> QED BY <2>2, <2>3, <3>1, <4>1 DEF Covered
    <3> QED BY <3>2, <3>3
  <2> QED BY <2>5, <2>6 DEF j, k, old, b
<1> QED BY <1>3, <1>4, <1>5 DEF IInv

LEMMA EventStep ==
  ASSUME IInv, NEW p \in PRs, NEW input \in UsedInputs, Event(p, input)
  PROVE  IInv'
<1> DEFINE r == [prs[p] EXCEPT !.body = input.body, !.files = input.files]
           k == Restarted(jobs[p], p)
<1>1. /\ prs' = [prs EXCEPT ![p] = r] /\ jobs' = [jobs EXCEPT ![p] = k]
      /\ Moves(p) /\ UNCHANGED rivals /\ wronged' = wronged \ {p}
  BY DEF Event, IInv, Types
<1>2. input.body \in Body /\ input.files \in Files
  BY InputsAssumption
<1>3. prs[p] \in Prs /\ wronged \in SUBSET PRs /\ jobs \in [Runners -> JobTypes]
  BY DEF IInv, Types
<1>4. r \in Prs
  BY <1>2, <1>3 DEF Prs
<1>5. k \in JobTypes /\ k.step = "view" /\ k.pr = p /\ k.nudge = FALSE /\ k.done = {}
  BY NoTries DEF Restarted, Idle, JobTypes, JobSteps
<1> HIDE DEF r, k
<1>6. Sane(k) /\ Own(p, k, r, wronged')
  BY <1>5 DEF Sane, Own
<1>7. jobs' \in [Runners -> JobTypes] /\ jobs'[p] = k
      /\ \A c \in Runners \ {p} : jobs'[c] = jobs[c]
  BY <1>1, <1>3, <1>5, RunnersAre
<1>8. \A c \in Runners : Sane(jobs'[c])
  BY <1>6, <1>7 DEF IInv
<1>9. \A h \in People : jobs'[h] = jobs[h]
  BY <1>7, RunnersAre
<1>10. \A q \in PRs \ {p} : jobs'[q] = jobs[q] /\ (q \in wronged' <=> q \in wronged)
  BY <1>1, <1>7, RunnersAre
<1>11. wronged' \in SUBSET PRs
  BY <1>1, <1>3
<1> QED BY <1>1, <1>4, <1>6, <1>7, <1>8, <1>9, <1>10, <1>11, Disturbed

LEMMA LabelByHandStep ==
  ASSUME IInv, NEW p \in PRs, NEW l \in HandLabels, LabelByHand(p, l)
  PROVE  IInv'
<1> DEFINE have == prs[p].labels
           labels == IF l \in have THEN have \ {l} ELSE have \cup {l}
           r == [prs[p] EXCEPT !.labels = labels]
<1>1. /\ prs' = [prs EXCEPT ![p] = r] /\ Moves(p)
      /\ UNCHANGED <<jobs, rivals>> /\ wronged' = wronged \cup {p}
  BY DEF LabelByHand, IInv, Types
<1>2. l \in Labels
  BY InputsAssumption DEF Labels
<1>3. prs[p] \in Prs /\ wronged \in SUBSET PRs /\ jobs \in [Runners -> JobTypes]
  BY DEF IInv, Types
<1>4. labels \in SUBSET Labels
  BY <1>2, <1>3 DEF Prs
<1> HIDE DEF labels
<1>5. r \in Prs
  BY <1>3, <1>4 DEF Prs
<1> HIDE DEF r
<1>6. Own(p, jobs[p], prs[p], wronged)
  BY DEF IInv
<1>7. Own(p, jobs'[p], r, wronged')
  BY <1>1, <1>6 DEF Own
<1>8. \A c \in Runners : Sane(jobs'[c])
  BY <1>1 DEF IInv
<1>9. wronged' \in SUBSET PRs /\ jobs' \in [Runners -> JobTypes]
  BY <1>1, <1>3
<1>10. \A q \in PRs \ {p} : jobs'[q] = jobs[q] /\ (q \in wronged' <=> q \in wronged)
  BY <1>1
<1>11. \A h \in People : jobs'[h] = jobs[h]
  BY <1>1
<1> QED BY <1>1, <1>5, <1>7, <1>8, <1>9, <1>10, <1>11, Disturbed

\* What one call of an edit makes of the labels
After(j, call, have) == IF call = "add" THEN have \cup j.add ELSE have \ j.drop

\* A call of one run helps all runs of the same goal.
LEMMA Helps ==
  ASSUME NEW g, Sane(g), g.step = "edit", NEW call \in {"add", "drop"}, NEW have
  PROVE  /\ \A j : j.goal = g.goal /\ Underway(j, have) => Underway(j, After(g, call, have))
         /\ have = {g.goal} => After(g, call, have) = {g.goal}
<1>1. g.add \subseteq {g.goal} /\ g.goal \notin g.drop
  BY DEF Sane
<1> QED BY <1>1 DEF After, Underway

LEMMA GetsOn ==
  ASSUME NEW g, NEW k, NEW call \in {"add", "drop"}, NEW have, Sane(g), g.step = "edit",
         k.goal = g.goal, k.add = g.add, k.drop = g.drop, k.done = g.done \cup {call},
         Underway(g, have)
  PROVE  Underway(k, After(g, call, have))
<1>1. g.add \subseteq {g.goal} /\ g.goal \notin g.drop
  BY DEF Sane
<1> QED BY <1>1 DEF After, Underway, Adds, Drops

\* A call of an edit is made, by whoever goes by the description as it is.
LEMMA GoodEdit ==
  ASSUME IInv, NEW c \in Runners, NEW call \in {"add", "drop"}, NEW r \in Prs,
         NEW k, jobs[c].step = "edit",
         c \in PRs \/ jobs[c].goal = Right(jobs[c].pr),
         jobs' = [jobs EXCEPT ![c] = k], Sane(k),
         k.step = "edit", k.pr = jobs[c].pr, k.goal = jobs[c].goal, k.nudge = jobs[c].nudge,
         k.add = jobs[c].add, k.drop = jobs[c].drop, k.done = jobs[c].done \cup {call},
         LET p == jobs[c].pr IN
         /\ prs' = [prs EXCEPT ![p] = r]
         /\ r.body = prs[p].body /\ r.files = prs[p].files
         /\ r.labels = After(jobs[c], call, prs[p].labels),
         UNCHANGED <<backfill, wronged, rivals>>
  PROVE  IInv'
<1> DEFINE g == jobs[c]
           p == g.pr
           have == prs[p].labels
           got == After(g, call, have)
           right == classify(r.body, r.files)
<1>1. Sane(g) /\ g.step = "edit" /\ p \in PRs /\ k \in JobTypes
  BY DEF IInv, Sane
<1>2. Types'
  <2>1. prs' \in [PRs -> Prs]
    BY <1>1 DEF IInv, Types
  <2>2. jobs' \in [Runners -> JobTypes]
    BY <1>1 DEF IInv, Types
  <2> QED BY <2>1, <2>2 DEF IInv, Types
<1>3. /\ prs'[p] = r /\ \A q \in PRs \ {p} : prs'[q] = prs[q]
      /\ jobs'[c] = k /\ \A d \in Runners \ {c} : jobs'[d] = jobs[d]
  BY <1>1 DEF IInv, Types
<1>4. \A d \in Runners : Sane(jobs'[d])
  BY <1>3 DEF IInv
<1>5. /\ \A j : j.goal = g.goal /\ Underway(j, have) => Underway(j, got)
      /\ have = {g.goal} => got = {g.goal}
      /\ Underway(g, have) => Underway(k, got)
  <2>1. Underway(g, have) => Underway(k, got)
    BY <1>1, GetsOn
  <2> QED BY <1>1, <2>1, Helps
<1>6. right = Right(p) /\ r.labels = got
  BY DEF Right
<1> HIDE DEF have, got, right
<1>7. c \in PRs => c = p
  BY <1>1 DEF IInv, Own
<1>8. Own(p, jobs[p], prs[p], wronged)
  BY <1>1 DEF IInv
<1>9. p \notin wronged => g.goal = right
  <2>1. CASE c \in PRs
    BY <1>1, <1>6, <1>7, <1>8, <2>1 DEF Own, Right
  <2>2. CASE c \notin PRs
    BY <1>6, <2>2
  <2> QED BY <2>1, <2>2
<1>10. Own(p, jobs'[p], r, wronged)
  <2>1. CASE c = p
    <3>1. Own(p, g, prs[p], wronged)
      BY <1>8, <2>1
    <3>2. p \notin wronged => Underway(g, have)
      BY <1>1, <3>1 DEF Own, have
    <3>3. Own(p, k, r, wronged)
      BY <1>1, <1>5, <1>6, <1>9, <3>1, <3>2 DEF Own, right
    <3> QED BY <1>3, <2>1, <3>3
  <2>2. CASE c # p
    <3>1. jobs'[p] = jobs[p]
      BY <1>1, <1>3, <2>2, RunnersAre
    <3>2. p \notin wronged =>
            /\ jobs[p].step \in {"labels", "edit"} => jobs[p].goal = right
            /\ jobs[p].step = "edit" => Underway(jobs[p], have)
            /\ jobs[p].step = "idle" => have = {right}
      BY <1>6, <1>8 DEF Own, Right, have
    <3>3. p \notin wronged =>
            /\ jobs[p].step = "edit" => Underway(jobs[p], got)
            /\ jobs[p].step = "idle" => got = {right}
      BY <1>5, <1>9, <3>2
    <3> QED BY <1>6, <1>8, <3>1, <3>2, <3>3 DEF Own, right
  <2> QED BY <2>1, <2>2
<1>11. ASSUME NEW q \in PRs PROVE Own(q, jobs'[q], prs'[q], wronged')
  <2>1. CASE q = p
    BY <1>3, <1>10, <2>1
  <2>2. CASE q # p
    <3>1. jobs'[q] = jobs[q] /\ prs'[q] = prs[q]
      BY <1>3, <1>7, <2>2, RunnersAre
    <3> QED BY <3>1 DEF IInv
  <2> QED BY <2>1, <2>2
<1>12. ASSUME NEW h \in People, backfill[h].step # "none", p \notin backfill[h].moved
       PROVE  /\ backfill[h].plan[p].goal = g.goal /\ g.goal = right
              /\ jobs[p].step = "idle" /\ c \in People
  <2>1. Covered(p, backfill[h], jobs[p], jobs[h], prs[p])
    BY <1>1 DEF IInv
  <2>2. jobs[p].step = "idle" /\ backfill[h].plan[p].goal = Right(p)
    BY <1>12, <2>1 DEF Covered, Right
  <2>3. c \notin PRs
    BY <1>1, <1>7, <2>2
  <2> QED BY <1>6, <2>2, <2>3, RunnersAre
<1>13. ASSUME NEW h \in People
       PROVE  /\ Hand(jobs'[h], backfill[h], prs')
              /\ \A q \in PRs : Covered(q, backfill[h], jobs'[q], jobs'[h], prs'[q])
  <2> DEFINE j == jobs[h]
             l == jobs'[h]
             b == backfill[h]
  <2>1. /\ Hand(j, b, prs) /\ Sane(j) /\ b \in Backfills
        /\ \A q \in PRs : Covered(q, b, jobs[q], j, prs[q])
    BY RunnersAre DEF IInv, Types
  <2>2. /\ l.step = j.step /\ l.pr = j.pr /\ l.goal = j.goal /\ l.nudge = j.nudge
        /\ l = j \/ (l = k /\ j = g)
    BY <1>1, <1>3, RunnersAre
  <2>3. b.step # "none" /\ p \notin b.moved =>
           b.plan[p].goal = g.goal /\ g.goal = right /\ jobs[p].step = "idle" /\ c # p
    BY <1>1, <1>12, RunnersAre
  <2> HIDE DEF j, l, b
  <2>4. j.step # "idle" => j.pr \in PRs
    BY <2>1 DEF Sane
  <2>5. Hand(l, b, prs')
    <3>1. ASSUME b.step \in {"plan", "retry"}, j.step = "edit", j.pr \notin b.moved
          PROVE  Underway(l, prs'[j.pr].labels)
      <4>1. Underway(j, prs[j.pr].labels) /\ j.goal = b.plan[j.pr].goal /\ j.pr \in PRs
        BY <2>1, <2>4, <3>1 DEF Hand
      <4>2. CASE j.pr # p
        <5>1. prs'[j.pr].labels = prs[j.pr].labels
          BY <1>3, <4>1, <4>2
        <5>2. j # g
          BY <4>2 
        <5> QED BY <2>2, <4>1, <5>1, <5>2
      <4>3. CASE j.pr = p
        <5>1. Underway(j, have) /\ j.goal = g.goal
          BY <2>3, <3>1, <4>1, <4>3 DEF have
        <5>2. prs'[j.pr].labels = got
          BY <1>3, <1>6, <4>3
        <5> QED BY <1>5, <2>2, <5>1, <5>2
      <4> QED BY <4>2, <4>3
    <3> QED BY <2>1, <2>2, <3>1 DEF Hand
  <2>6. ASSUME NEW q \in PRs PROVE Covered(q, b, jobs'[q], l, prs'[q])
    <3>1. Covered(q, b, jobs[q], j, prs[q])
      BY <2>1
    <3>2. CASE q = p
      <4>1. Covered(p, b, jobs[p], j, prs[p])
        BY <3>1, <3>2
      <4>2. c # p => jobs'[p] = jobs[p]
        BY <1>1, <1>3, RunnersAre
      <4>3. b.step # "none" /\ p \notin b.moved /\ have = {b.plan[p].goal} =>
               got = {b.plan[p].goal}
        BY <1>5, <2>3
      <4>4. Covered(p, b, jobs'[p], l, r)
        BY <1>6, <2>2, <2>3, <4>1, <4>2, <4>3 DEF Covered, have, right
      <4> QED BY <1>3, <3>2, <4>4
    <3>3. CASE q # p
      <4>1. jobs'[q] = jobs[q] /\ prs'[q] = prs[q]
        BY <1>3, <1>7, <3>3, RunnersAre
      <4> QED BY <2>2, <3>1, <4>1 DEF Covered
    <3> QED BY <3>2, <3>3
  <2> QED BY <2>5, <2>6 DEF j, l, b
<1> QED BY <1>2, <1>4, <1>11, <1>13 DEF IInv

LEMMA EditStep ==
  ASSUME IInv, NEW c \in Runners, NEW call \in {"add", "drop"},
         Edited(c, call, After(jobs[c], call, prs[jobs[c].pr].labels))
  PROVE  IInv'
<1> DEFINE g == jobs[c]
           p == g.pr
           labels == After(g, call, prs[p].labels)
           r == [prs[p] EXCEPT !.labels = labels]
           done == g.done \cup {call}
           k == [g EXCEPT !.done = done]
<1>1. Sane(g) /\ g.step = "edit" /\ p \in PRs /\ g \in JobTypes /\ wronged \in SUBSET PRs
      /\ jobs \in [Runners -> JobTypes] /\ prs[p] \in Prs
  BY DEF Edited, IInv, Types, Sane
<1>2. prs' = [prs EXCEPT ![p] = r] /\ jobs' = [jobs EXCEPT ![c] = k] /\ UNCHANGED rivals
  BY DEF Edited, IInv, Types
<1>3. labels \in SUBSET Labels
  BY <1>1 DEF After, Prs, JobTypes
<1> HIDE DEF labels
<1>4. r \in Prs /\ r.labels = labels /\ r.body = prs[p].body /\ r.files = prs[p].files
  BY <1>1, <1>3 DEF Prs
<1> HIDE DEF r
<1>5. done \in SUBSET {"add", "drop", "post"}
  BY <1>1 DEF JobTypes
<1> HIDE DEF done
<1>6. /\ k \in JobTypes /\ k.step = "edit" /\ k.pr = p /\ k.goal = g.goal /\ k.nudge = g.nudge
      /\ k.add = g.add /\ k.drop = g.drop /\ k.done = done
  BY <1>1, <1>5 DEF JobTypes
<1> HIDE DEF k
<1>7. Sane(k)
  BY <1>1, <1>6 DEF Sane
<1>8. CASE c \in PRs \/ g.goal = Right(p)
  <2>1. UNCHANGED <<backfill, wronged>>
    BY <1>8, RunnersAre DEF Edited
  <2> QED BY <1>1, <1>2, <1>4, <1>6, <1>7, <1>8, <2>1, GoodEdit DEF labels, done
<1>9. CASE c \in People /\ g.goal # Right(p)
  <2>1. Moves(p) /\ wronged' = wronged \cup {p}
    BY <1>9 DEF Edited
  <2>2. jobs'[c] = k /\ \A d \in Runners \ {c} : jobs'[d] = jobs[d]
    BY <1>1, <1>2
  <2>3. \A d \in Runners : Sane(jobs'[d])
    BY <1>7, <2>2 DEF IInv
  <2>4. jobs' \in [Runners -> JobTypes]
    BY <1>1, <1>2, <1>6
  <2>5. \A q \in PRs : jobs'[q] = jobs[q]
    BY <1>9, <2>2, RunnersAre
  <2>6. Own(p, jobs[p], prs[p], wronged)
    BY <1>1 DEF IInv
  <2>7. Own(p, jobs'[p], r, wronged')
    BY <1>1, <2>1, <2>5, <2>6 DEF Own
  <2>8. ASSUME NEW h \in People
        PROVE  \/ jobs'[h] = jobs[h]
               \/ /\ jobs'[h].step = jobs[h].step /\ jobs'[h].pr = jobs[h].pr
                  /\ jobs'[h].goal = jobs[h].goal /\ jobs'[h].nudge = jobs[h].nudge
                  /\ jobs[h].pr = p
    BY <1>1, <1>6, <2>2, RunnersAre
  <2>9. \A q \in PRs \ {p} : jobs'[q] = jobs[q] /\ (q \in wronged' <=> q \in wronged)
    BY <2>1, <2>5
  <2>10. wronged' \in SUBSET PRs
    BY <1>1, <2>1
  <2> HIDE DEF p
  <2> QED BY <1>1, <1>2, <1>4, <2>1, <2>3, <2>4, <2>7, <2>8, <2>9, <2>10, Disturbed
<1> QED BY <1>8, <1>9, RunnersAre

LEMMA EditsStep ==
  ASSUME IInv, NEW c \in Runners, EditAdds(c) \/ EditDrops(c)
  PROVE  IInv'
BY EditStep DEF EditAdds, EditDrops, After

\* A nudge changes no label.
LEMMA NudgeStep ==
  ASSUME IInv, NEW c \in Runners, nudge(c)
  PROVE  IInv'
<1> DEFINE j == jobs[c]
           p == j.pr
           n == prs[p].nudges + 1
           r == [prs[p] EXCEPT !.nudges = n]
           k == [j EXCEPT !.done = {"post"}]
<1>1. c \in People /\ c \notin PRs
  BY RunnersAre DEF IInv, Own, nudge
<1>2. /\ Sane(j) /\ j \in JobTypes /\ j.step = "post" /\ p \in PRs /\ prs[p] \in Prs
      /\ wronged \in SUBSET PRs /\ jobs \in [Runners -> JobTypes]
      /\ prs \in [PRs -> Prs]
  BY DEF IInv, Types, Sane, nudge
<1>3. /\ prs' = [prs EXCEPT ![p] = r] /\ jobs' = [jobs EXCEPT ![c] = k]
      /\ UNCHANGED <<backfill, wronged>>
  BY DEF nudge, IInv, Types
<1>4. n \in Nat
  BY <1>2 DEF Prs
<1> HIDE DEF n
<1>5. r \in Prs /\ r.body = prs[p].body /\ r.files = prs[p].files /\ r.labels = prs[p].labels
  BY <1>2, <1>4 DEF Prs
<1> HIDE DEF r
<1>6. /\ k \in JobTypes /\ k.step = "post" /\ k.pr = p /\ k.goal = j.goal /\ k.nudge = j.nudge
  BY <1>2 DEF JobTypes
<1> HIDE DEF k
<1>7. Sane(k)
  BY <1>2, <1>6 DEF Sane
<1>8. rivals' \in [PRs -> SUBSET People]
  BY DEF nudge, IInv, Types, Nudging
<1>9. Types'
  BY <1>2, <1>3, <1>5, <1>6, <1>8 DEF IInv, Types
<1>10. /\ jobs'[c] = k /\ \A d \in Runners \ {c} : jobs'[d] = jobs[d]
       /\ \A q \in PRs : jobs'[q] = jobs[q]
  BY <1>1, <1>2, <1>3, RunnersAre
<1>11. \A d \in Runners : Sane(jobs'[d])
  BY <1>7, <1>10 DEF IInv
<1>12. \A q \in PRs : /\ prs'[q].body = prs[q].body /\ prs'[q].files = prs[q].files
                      /\ prs'[q].labels = prs[q].labels
  BY <1>2, <1>3, <1>5
<1>13. \A q \in PRs : Own(q, jobs'[q], prs'[q], wronged')
  BY <1>3, <1>10, <1>12 DEF IInv, Own
<1>14. backfill[c].step = "none"
  BY <1>1, <1>2 DEF IInv, Hand, Types, Backfills
<1>15. ASSUME NEW h \in People
       PROVE  /\ Hand(jobs'[h], backfill[h], prs')
              /\ \A q \in PRs : Covered(q, backfill[h], jobs'[q], jobs'[h], prs'[q])
  <2>1. CASE h = c
    BY <1>14, <2>1 DEF Hand, Covered
  <2>2. CASE h # c
    <3> DEFINE o == jobs[h]
    <3>1. jobs'[h] = o
      BY <1>10, <2>2, RunnersAre
    <3>2. Hand(o, backfill[h], prs) /\ Sane(o)
      BY RunnersAre DEF IInv
    <3>3. \A q \in PRs : Covered(q, backfill[h], jobs[q], o, prs[q])
      BY DEF IInv
    <3> HIDE DEF o
    <3>4. Hand(o, backfill[h], prs')
      BY <1>12, <3>2 DEF Hand, Sane
    <3>5. \A q \in PRs : Covered(q, backfill[h], jobs'[q], o, prs'[q])
      BY <1>10, <1>12, <3>3 DEF Covered
    <3> QED BY <3>1, <3>4, <3>5
  <2> QED BY <2>1, <2>2
<1> QED BY <1>3, <1>9, <1>11, <1>13, <1>15 DEF IInv

-------------------------------------------------------------------------------
(* Runs by hand                                                            *)

LEMMA NoBackfillType == NoBackfill \in Backfills /\ NoBackfill.step = "none"
BY DEF NoBackfill, NoPlan, Backfills, Entries

LEMMA RunOneStep ==
  ASSUME IInv, NEW h \in People, NEW p \in PRs, RunOne(h, p)
  PROVE  IInv'
<1> DEFINE k == [Idle EXCEPT !.step = "view", !.pr = p, !.nudge = TRUE]
<1>1. /\ jobs' = [jobs EXCEPT ![h] = k] /\ backfill' = [backfill EXCEPT ![h] = NoBackfill]
      /\ UNCHANGED <<prs, wronged, rivals>>
  BY DEF RunOne
<1>2. k \in JobTypes /\ k.step = "view" /\ k.pr = p /\ k.done = {}
  BY NoTries DEF Idle, JobTypes, JobSteps
<1> HIDE DEF k
<1>3. Sane(k)
  BY <1>2 DEF Sane
<1>4. Hand(k, NoBackfill, prs)
  BY NoBackfillType DEF Hand
<1>5. \A q \in PRs : Covered(q, NoBackfill, jobs[q], k, prs[q])
  BY NoBackfillType DEF Covered
<1> QED BY <1>1, <1>3, <1>4, <1>5, NoBackfillType, HandStep

\* A step of a backfill itself, between two of its pull requests
LEMMA BackfillStep ==
  ASSUME IInv, NEW h \in People, NEW b \in Backfills, backfill' = [backfill EXCEPT ![h] = b],
         UNCHANGED <<prs, jobs, wronged, rivals>>, jobs[h].step = "idle",
         b.step = "over" => b.queue = {},
         \A q \in PRs : Covered(q, b, jobs[q], jobs[h], prs[q])
  PROVE  IInv'
<1>1. Hand(jobs[h], b, prs)
  BY DEF Hand
<1>2. jobs' = [jobs EXCEPT ![h] = jobs[h]] /\ Sane(jobs[h])
  BY RunnersAre DEF IInv, Types
<1> QED BY <1>1, <1>2, HandStep

LEMMA BackfillListStep ==
  ASSUME IInv, NEW h \in People, NEW allow \in BOOLEAN, BackfillList(h, allow)
  PROVE  IInv'
<1> DEFINE plan == [p \in PRs |-> [goal |-> Right(p), current |-> prs[p].labels]]
           moved == {p \in PRs : jobs[p].step # "idle"}
           b == [step |-> "plan", queue |-> PRs, failed |-> {}, allow |-> allow,
                 plan |-> plan, moved |-> moved]
<1>1. /\ backfill' = [backfill EXCEPT ![h] = b] /\ UNCHANGED <<prs, jobs, wronged, rivals>>
      /\ jobs[h].step = "idle"
  BY DEF BackfillList, Command
<1>2. \A p \in PRs : Right(p) \in Labels /\ prs[p].labels \in SUBSET Labels
  BY ClassifyType DEF Right, IInv, Types, Prs
<1>3. plan \in [PRs -> Entries]
  BY <1>2 DEF Entries
<1>4. moved \in SUBSET PRs
  OBVIOUS
<1>5. \A q \in PRs : /\ q \notin moved => jobs[q].step = "idle"
                     /\ plan[q].goal \in Labels
                     /\ plan[q].goal = classify(prs[q].body, prs[q].files)
  BY <1>2 DEF Right
<1> HIDE DEF plan, moved
<1>6. b \in Backfills /\ b.step = "plan" /\ b.queue = PRs /\ b.moved = moved /\ b.plan = plan
  BY <1>3, <1>4 DEF Backfills
<1> HIDE DEF b
<1>7. \A q \in PRs : Covered(q, b, jobs[q], jobs[h], prs[q])
  BY <1>5, <1>6 DEF Covered
<1> QED BY <1>1, <1>6, <1>7, BackfillStep

LEMMA BackfillNextStep ==
  ASSUME IInv, NEW h \in People, NEW p \in PRs, BackfillNext(h, p)
  PROVE  IInv'
<1> DEFINE old == backfill[h]
           b == [old EXCEPT !.queue = @ \ {p}, !.failed = @ \ {p}]
           goal == old.plan[p].goal
           k == [Idle EXCEPT !.step = "labels", !.pr = p, !.goal = goal]
<1>1. /\ old.step \in {"plan", "retry"} /\ jobs[h].step = "idle" /\ old \in Backfills
      /\ backfill' = [backfill EXCEPT ![h] = b]
      /\ jobs' = IF Skipped(old.plan[p], old.allow) THEN jobs ELSE [jobs EXCEPT ![h] = k]
      /\ UNCHANGED <<prs, wronged, rivals>>
  BY DEF BackfillNext, IInv, Types
<1>2. /\ b \in Backfills /\ b.step = old.step /\ b.plan = old.plan
      /\ b.queue = old.queue \ {p} /\ b.failed = old.failed \ {p}
      /\ b.allow = old.allow /\ b.moved = old.moved
  BY <1>1 DEF Backfills
<1>3. \A q \in PRs : Covered(q, old, jobs[q], jobs[h], prs[q])
  BY DEF IInv
<1> HIDE DEF b, old
<1>4. ASSUME NEW q \in PRs \ {p}, NEW j
      PROVE  Covered(q, b, jobs[q], j, prs[q])
  <2>1. Covered(q, old, jobs[q], jobs[h], prs[q])
    BY <1>3
  <2> QED BY <1>1, <1>2, <2>1 DEF Covered
<1>5. Covered(p, old, jobs[p], jobs[h], prs[p])
  BY <1>3
<1>6. CASE Skipped(old.plan[p], old.allow)
  <2>1. jobs' = jobs
    BY <1>1, <1>6
  <2>2. Covered(p, b, jobs[p], jobs[h], prs[p])
    BY <1>1, <1>2, <1>5, <1>6 DEF Covered
  <2>3. \A q \in PRs : Covered(q, b, jobs[q], jobs[h], prs[q])
    BY <1>4, <2>2
  <2>4. b.step # "over"
    BY <1>1, <1>2
  <2> QED BY <1>1, <1>2, <2>1, <2>3, <2>4, BackfillStep
<1>7. CASE ~Skipped(old.plan[p], old.allow)
  <2>1. goal \in Labels
    BY <1>1, <1>5 DEF Covered
  <2> HIDE DEF goal
  <2>2. /\ k \in JobTypes /\ k.step = "labels" /\ k.pr = p /\ k.goal = goal /\ k.nudge = FALSE
        /\ k.done = {}
    BY <2>1, NoTries DEF Idle, JobTypes, JobSteps
  <2>3. jobs' = [jobs EXCEPT ![h] = k]
    BY <1>1, <1>7
  <2> HIDE DEF k
  <2>4. Sane(k)
    BY <2>1, <2>2 DEF Sane
  <2>5. Hand(k, b, prs)
    BY <1>1, <1>2, <2>2 DEF Hand, goal
  <2>6. Covered(p, b, jobs[p], k, prs[p])
    BY <1>1, <1>2, <1>5, <2>2 DEF Covered
  <2>7. \A q \in PRs : Covered(q, b, jobs[q], k, prs[q])
    BY <1>4, <2>6
  <2> QED BY <1>1, <1>2, <2>3, <2>4, <2>5, <2>7, HandStep
<1> QED BY <1>6, <1>7

LEMMA BackfillTurnsStep ==
  ASSUME IInv, NEW h \in People, BackfillTurns(h)
  PROVE  IInv'
<1> DEFINE old == backfill[h]
<1>1. /\ jobs[h].step = "idle" /\ old.queue = {} /\ old \in Backfills
      /\ UNCHANGED <<prs, jobs, wronged, rivals>>
      /\ \/ /\ old.step = "plan"
            /\ backfill' = [backfill EXCEPT ![h] =
                              [old EXCEPT !.step = "retry", !.queue = old.failed]]
         \/ /\ old.step = "retry"
            /\ backfill' = [backfill EXCEPT ![h] = [old EXCEPT !.step = "over"]]
  BY DEF BackfillTurns, IInv, Types
<1>2. \A q \in PRs : Covered(q, old, jobs[q], jobs[h], prs[q])
  BY DEF IInv
<1> HIDE DEF old
<1>3. ASSUME NEW b, old.step \in {"plan", "retry"}, b.step \in {"retry", "over"},
             b.plan = old.plan, b.failed = old.failed, b.allow = old.allow, b.moved = old.moved
      PROVE  \A q \in PRs : Covered(q, b, jobs[q], jobs[h], prs[q])
  BY <1>1, <1>2, <1>3 DEF Covered
<1>4. CASE old.step = "plan"
  <2> DEFINE b == [old EXCEPT !.step = "retry", !.queue = old.failed]
  <2>1. /\ b \in Backfills /\ b.step = "retry" /\ b.plan = old.plan /\ b.failed = old.failed
        /\ b.allow = old.allow /\ b.moved = old.moved
    BY <1>1 DEF Backfills
  <2>2. backfill' = [backfill EXCEPT ![h] = b]
    BY <1>1, <1>4
  <2> HIDE DEF b
  <2>3. \A q \in PRs : Covered(q, b, jobs[q], jobs[h], prs[q])
    BY <1>3, <1>4, <2>1
  <2> QED BY <1>1, <2>1, <2>2, <2>3, BackfillStep
<1>5. CASE old.step = "retry"
  <2> DEFINE b == [old EXCEPT !.step = "over"]
  <2>1. /\ b \in Backfills /\ b.step = "over" /\ b.plan = old.plan /\ b.failed = old.failed
        /\ b.allow = old.allow /\ b.moved = old.moved /\ b.queue = {}
    BY <1>1 DEF Backfills
  <2>2. backfill' = [backfill EXCEPT ![h] = b]
    BY <1>1, <1>5
  <2> HIDE DEF b
  <2>3. \A q \in PRs : Covered(q, b, jobs[q], jobs[h], prs[q])
    BY <1>3, <1>5, <2>1
  <2> QED BY <1>1, <2>1, <2>2, <2>3, BackfillStep
<1> QED BY <1>1, <1>4, <1>5

-------------------------------------------------------------------------------
(* The invariant                                                           *)

LEMMA IInvInit == Init => IInv
<1> SUFFICES ASSUME Init PROVE IInv
  OBVIOUS
<1>1. /\ jobs = [c \in Runners |-> Idle] /\ backfill = [h \in People |-> NoBackfill]
      /\ wronged = PRs /\ rivals = [p \in PRs |-> {}]
  BY DEF Init
<1>2. prs \in [PRs -> Prs]
  <2>1. PICK input \in [PRs -> UsedInputs] :
          prs = [p \in PRs |-> [body |-> input[p].body, files |-> input[p].files,
                               labels |-> {}, nudges |-> 0]]
    BY DEF Init
  <2>2. \A p \in PRs : input[p].body \in Body /\ input[p].files \in Files
    BY InputsAssumption
  <2> QED BY <2>1, <2>2 DEF Prs
<1>3. (\A c \in Runners : jobs[c] = Idle) /\ \A h \in People : backfill[h] = NoBackfill
  BY <1>1
<1>4. Idle \in JobTypes
  BY IdleSane DEF Sane
<1>5. Types
  BY <1>1, <1>2, <1>4, NoBackfillType DEF Types
<1>6. \A p \in PRs : Own(p, Idle, prs[p], wronged)
  BY <1>1, IdleSane DEF Own
<1>7. Hand(Idle, NoBackfill, prs) /\ \A p \in PRs : Covered(p, NoBackfill, Idle, Idle, prs[p])
  BY IdleSane, NoBackfillType DEF Hand, Covered
<1> QED BY <1>3, <1>5, <1>6, <1>7, IdleSane, RunnersAre DEF IInv

LEMMA IInvStep == IInv /\ [Next]_vars => IInv'
<1> SUFFICES ASSUME IInv, [Next]_vars PROVE IInv'
  OBVIOUS
<1>1. ASSUME NEW p \in PRs, NEW input \in UsedInputs, Event(p, input) PROVE IInv'
  BY <1>1, EventStep
<1>2. ASSUME NEW p \in PRs, NEW l \in HandLabels, LabelByHand(p, l) PROVE IInv'
  BY <1>2, LabelByHandStep
<1>3. ASSUME NEW c \in Runners, Run(c) PROVE IInv'
  BY <1>3, ViewStep, ReadLabelsStep, EditsStep, CommentsStep, NudgeStep, AnsweredStep,
     RetryStep, FailStep DEF Run
<1>4. ASSUME NEW h \in People, ByHand(h) PROVE IInv'
  BY <1>4, RunOneStep, BackfillNextStep, BackfillListStep, BackfillTurnsStep DEF ByHand
<1>5. CASE UNCHANGED vars
  BY <1>5 DEF vars, IInv, Types
<1> QED BY <1>1, <1>2, <1>3, <1>4, <1>5 DEF Next

LEMMA Invariance == Spec => []IInv
BY IInvInit, IInvStep, PTL DEF Spec

-------------------------------------------------------------------------------
(* The nudges                                                              *)

\* A run j has made its tries before this one, and this one if it has posted.
Used(j) == IF j.done = {} THEN j.tries ELSE j.tries + 1

Posters(p, js) == {h \in People : js[h].step = "post" /\ js[h].pr = p}

\* Every try of one of the runs `who` is a chance to post once.
Chances(who) == who \X (1..Tries)

Left(p, js) == {x \in Chances(Posters(p, js)) : Used(js[x[1]]) < x[2]}

\* After the first of n nudges, only the runs `who` are going to post, and the
\* nudges and the chances they have left are together no more than they had.
Counted(p, js, n, who) ==
    n # 0 => /\ Posters(p, js) \subseteq who
             /\ n + Cardinality(Left(p, js)) <= Cardinality(Chances(who))

Counts == \A p \in PRs : Counted(p, jobs, prs[p].nudges, rivals[p])

LEMMA ChancesAre ==
  ASSUME NEW who \in SUBSET People
  PROVE  /\ IsFiniteSet(Chances(who)) /\ IsFiniteSet(who)
         /\ Cardinality(Chances(who)) = Cardinality(who) * Tries
<1>1. IsFiniteSet(who)
  BY PeopleAssumption, FS_Subset
<1>2. 1 \in Int /\ Tries \in Int /\ 1 <= Tries
  BY BoundsAssumption
<1>3. IsFiniteSet(1..Tries) /\ Cardinality(1..Tries) = Tries
  <2>1. Cardinality(1..Tries) = Tries - 1 + 1
    BY <1>2, FS_Interval
  <2> QED BY <1>2, <2>1, FS_Interval
<1> QED BY <1>1, <1>3, FS_Product DEF Chances

LEMMA UsedType ==
  ASSUME NEW j \in JobTypes
  PROVE  Used(j) \in Nat /\ j.tries \in Nat /\ j.tries + 1 \in 1..Tries
BY BoundsAssumption DEF Used, JobTypes

\* Whoever does not count among the chances left makes one chance less.
LEMMA OneLess ==
  ASSUME NEW S, IsFiniteSet(S), NEW R \in SUBSET S, NEW x \in S, x \notin R
  PROVE  Cardinality(R) \in Nat /\ Cardinality(S) \in Nat /\ Cardinality(R) + 1 <= Cardinality(S)
<1>1. IsFiniteSet(R)
  BY FS_Subset
<1>2. R \cup {x} \in SUBSET S
  OBVIOUS
<1>3. Cardinality(R \cup {x}) <= Cardinality(S)
  BY <1>2, FS_Subset
<1>4. Cardinality(R \cup {x}) = Cardinality(R) + 1
  BY <1>1, FS_AddElement
<1> QED BY <1>1, <1>3, <1>4, FS_CardinalityType

LEMMA LeftAre ==
  ASSUME NEW p \in PRs, NEW js, NEW who, Posters(p, js) \subseteq who
  PROVE  /\ Left(p, js) \subseteq Chances(who)
         /\ \A x \in Left(p, js) : x[1] \in Posters(p, js) /\ Used(js[x[1]]) < x[2]
BY DEF Left, Chances

\* A step that posts nothing gives nobody a new chance.
LEMMA Kept ==
  ASSUME NEW p \in PRs, NEW js \in [Runners -> JobTypes], NEW ks \in [Runners -> JobTypes],
         NEW n \in Nat, NEW who \in SUBSET People, Counted(p, js, n, who),
         n # 0 => \A h \in Posters(p, ks) :
                     h \in Posters(p, js) /\ Used(js[h]) <= Used(ks[h])
  PROVE  Counted(p, ks, n, who)
<1> SUFFICES ASSUME n # 0 PROVE Counted(p, ks, n, who)
  BY DEF Counted
<1>1. Posters(p, ks) \subseteq Posters(p, js) /\ Posters(p, js) \subseteq who
      /\ Posters(p, js) \subseteq People
  BY DEF Counted, Posters
<1>2. ASSUME NEW x \in Left(p, ks) PROVE x \in Left(p, js)
  <2>1. x \in Posters(p, js) \X (1..Tries) /\ x[1] \in Posters(p, ks)
        /\ Used(ks[x[1]]) < x[2] /\ x[2] \in 1..Tries
    BY <1>1 DEF Left, Chances
  <2>2. x[1] \in Runners
    BY <1>1, <2>1, RunnersAre
  <2>3. Used(js[x[1]]) \in Nat /\ Used(ks[x[1]]) \in Nat
    BY <2>2, UsedType
  <2>4. Used(js[x[1]]) <= Used(ks[x[1]])
    BY <2>1
  <2>5. Used(js[x[1]]) < x[2]
    BY <2>1, <2>3, <2>4
  <2> QED BY <2>1, <2>5 DEF Left, Chances
<1>3. IsFiniteSet(Left(p, js))
  BY <1>1, LeftAre, ChancesAre, FS_Subset
<1>4. Left(p, ks) \in SUBSET Left(p, js)
  BY <1>2
<1>5. /\ Cardinality(Left(p, ks)) <= Cardinality(Left(p, js))
      /\ Cardinality(Left(p, ks)) \in Nat /\ Cardinality(Left(p, js)) \in Nat
  BY <1>3, <1>4, FS_Subset, FS_CardinalityType
<1>6. Cardinality(Chances(who)) \in Nat
  BY ChancesAre, FS_CardinalityType
<1>7. n + Cardinality(Left(p, ks)) <= Cardinality(Chances(who))
  BY <1>5, <1>6 DEF Counted
<1> QED BY <1>1, <1>7 DEF Counted

\* A post uses up the chance of this try of the run c.
LEMMA Posted ==
  ASSUME NEW p \in PRs, NEW js \in [Runners -> JobTypes], NEW k \in JobTypes,
         NEW c \in People, NEW n \in Nat, NEW who \in SUBSET People, NEW old \in SUBSET People,
         js[c].step = "post", js[c].pr = p, js[c].done = {},
         k.step = "post", k.pr = p, k.done # {}, k.tries = js[c].tries,
         Counted(p, js, n, old),
         IF n = 0 THEN Posters(p, js) \subseteq who ELSE who = old
  PROVE  Counted(p, [js EXCEPT ![c] = k], n + 1, who)
<1> DEFINE ks == [js EXCEPT ![c] = k]
           t == js[c].tries + 1
           x == <<c, t>>
<1>1. /\ ks \in [Runners -> JobTypes] /\ ks[c] = k /\ \A h \in People \ {c} : ks[h] = js[h]
      /\ c \in Posters(p, js)
  BY RunnersAre DEF Posters
<1>2. t \in 1..Tries /\ Used(js[c]) = js[c].tries /\ Used(k) = t /\ js[c].tries \in Nat
  BY RunnersAre, UsedType DEF Used
<1> HIDE DEF ks
<1>3. Posters(p, ks) = Posters(p, js)
  BY <1>1 DEF Posters
<1>4. Posters(p, js) \subseteq who
  BY DEF Counted
<1>5. x \in Chances(who) /\ x \in Left(p, js)
  BY <1>1, <1>2, <1>4 DEF Chances, Left
<1>6. x \notin Left(p, ks)
  <2>1. ~(Used(ks[c]) < t)
    BY <1>1, <1>2
  <2> QED BY <2>1 DEF Left
<1>7. Left(p, ks) \subseteq Left(p, js)
  <2> SUFFICES ASSUME NEW y \in Left(p, ks) PROVE y \in Left(p, js)
    OBVIOUS
  <2>1. y \in Chances(Posters(p, js)) /\ Used(ks[y[1]]) < y[2] /\ y[1] \in People
        /\ y[2] \in 1..Tries
    BY <1>3 DEF Left, Chances, Posters
  <2>2. CASE y[1] = c
    BY <1>1, <1>2, <2>1, <2>2 DEF Left
  <2>3. CASE y[1] # c
    BY <1>1, <2>1, <2>3 DEF Left
  <2> QED BY <2>2, <2>3
<1>8. Left(p, ks) \in SUBSET Chances(who) /\ IsFiniteSet(Chances(who))
      /\ Left(p, ks) \in SUBSET Left(p, js) /\ IsFiniteSet(Left(p, js))
  <2>1. Left(p, js) \in SUBSET Chances(who) /\ IsFiniteSet(Chances(who))
    BY <1>4, LeftAre, ChancesAre
  <2> QED BY <1>7, <2>1, FS_Subset
<1> DEFINE l == Cardinality(Left(p, ks))
           m == Cardinality(Left(p, js))
           s == Cardinality(Chances(who))
<1>9. l \in Nat /\ s \in Nat /\ l + 1 <= s
  BY <1>5, <1>6, <1>8, OneLess
<1>10. m \in Nat /\ l + 1 <= m
  BY <1>5, <1>6, <1>8, OneLess
<1>11. n # 0 => n + m <= s
  BY DEF Counted
<1> HIDE DEF l, m, s
<1>12. n + 1 + l <= s
  BY <1>9, <1>10, <1>11
<1> QED BY <1>3, <1>4, <1>12 DEF Counted, ks, l, s

\* Steps that post nothing: whoever is going to post was going to, or no nudge
\* is there yet.
LEMMA CountsKept ==
  ASSUME IInv, IInv', Counts, UNCHANGED rivals,
         \A p \in PRs : prs'[p].nudges = prs[p].nudges,
         \A h \in People :
            jobs'[h].step = "post" =>
               \/ prs[jobs'[h].pr].nudges = 0
               \/ /\ jobs[h].step = "post" /\ jobs[h].pr = jobs'[h].pr
                  /\ Used(jobs[h]) <= Used(jobs'[h])
  PROVE  Counts'
<1>1. jobs \in [Runners -> JobTypes] /\ jobs' \in [Runners -> JobTypes]
      /\ prs \in [PRs -> Prs] /\ rivals \in [PRs -> SUBSET People]
  BY DEF IInv, Types
<1> SUFFICES ASSUME NEW p \in PRs PROVE Counted(p, jobs', prs'[p].nudges, rivals'[p])
  BY DEF Counts
<1>2. prs[p].nudges \in Nat /\ rivals[p] \in SUBSET People
      /\ Counted(p, jobs, prs[p].nudges, rivals[p])
  BY <1>1 DEF Counts, Prs
<1>3. prs[p].nudges # 0 => \A h \in Posters(p, jobs') :
         h \in Posters(p, jobs) /\ Used(jobs[h]) <= Used(jobs'[h])
  BY DEF Posters
<1> DEFINE ks == jobs'
<1>4. ks \in [Runners -> JobTypes] /\ ks = jobs'
  BY <1>1
<1> HIDE DEF ks
<1>5. Counted(p, ks, prs[p].nudges, rivals[p])
  BY <1>1, <1>2, <1>3, <1>4, Kept
<1> QED BY <1>4, <1>5

\* A run that goes on as k, and is not going to post
LEMMA CountsQuiet ==
  ASSUME IInv, IInv', Counts, NEW c \in Runners, NEW k, jobs' = [jobs EXCEPT ![c] = k],
         k.step # "post", UNCHANGED rivals, \A p \in PRs : prs'[p].nudges = prs[p].nudges
  PROVE  Counts'
<1>1. \A h \in People : jobs'[h].step = "post" => jobs'[h] = jobs[h]
  BY RunnersAre DEF IInv, Types
<1>2. \A h \in People : Used(jobs[h]) \in Nat
  BY RunnersAre, UsedType DEF IInv, Types
<1>3. \A h \in People : jobs'[h] = jobs[h] => Used(jobs[h]) <= Used(jobs'[h])
  BY <1>2
<1> QED BY <1>1, <1>3, CountsKept

LEMMA CountsSame ==
  ASSUME IInv, IInv', Counts, UNCHANGED <<jobs, rivals>>,
         \A p \in PRs : prs'[p].nudges = prs[p].nudges
  PROVE  Counts'
<1>1. \A h \in People : Used(jobs[h]) \in Nat
  BY RunnersAre, UsedType DEF IInv, Types
<1>2. \A h \in People : Used(jobs[h]) <= Used(jobs'[h])
  BY <1>1
<1> QED BY <1>2, CountsKept

LEMMA CountsNudge ==
  ASSUME IInv, Counts, NEW c \in Runners, nudge(c)
  PROVE  Counts'
<1> DEFINE j == jobs[c]
           p == j.pr
           k == [j EXCEPT !.done = {"post"}]
           n == prs[p].nudges
           who == IF n = 0 THEN Nudging(p) ELSE rivals[p]
<1>1. c \in People
  BY RunnersAre DEF IInv, Own, nudge
<1>2. /\ j \in JobTypes /\ j.step = "post" /\ p \in PRs /\ j.done = {}
      /\ jobs \in [Runners -> JobTypes] /\ prs \in [PRs -> Prs] /\ n \in Nat
      /\ rivals \in [PRs -> SUBSET People]
  BY DEF IInv, Types, Sane, nudge, Prs
<1>3. /\ prs' = [prs EXCEPT ![p].nudges = n + 1] /\ jobs' = [jobs EXCEPT ![c] = k]
      /\ rivals' = IF n = 0 THEN [rivals EXCEPT ![p] = Nudging(p)] ELSE rivals
  BY <1>2 DEF nudge
<1>4. k \in JobTypes /\ k.step = "post" /\ k.pr = p /\ k.done # {} /\ k.tries = j.tries
  BY <1>2 DEF JobTypes
<1>5. who \in SUBSET People /\ rivals'[p] = who
      /\ \A q \in PRs \ {p} : rivals'[q] = rivals[q]
  BY <1>2, <1>3 DEF Nudging
<1>6. prs'[p].nudges = n + 1 /\ \A q \in PRs \ {p} : prs'[q].nudges = prs[q].nudges
  BY <1>2, <1>3
<1>7. Posters(p, jobs) \subseteq Nudging(p)
  BY RunnersAre DEF Posters, Nudging, IInv, Sane
<1>8. Counted(p, jobs, n, rivals[p]) /\ rivals[p] \in SUBSET People
  BY <1>2 DEF Counts
<1>9. IF n = 0 THEN Posters(p, jobs) \subseteq who ELSE who = rivals[p]
  BY <1>7
<1> HIDE DEF k, n, who
<1>10. Counted(p, [jobs EXCEPT ![c] = k], n + 1, who)
  BY <1>1, <1>2, <1>4, <1>5, <1>8, <1>9, Posted
<1>11. ASSUME NEW q \in PRs \ {p} PROVE Counted(q, jobs', prs[q].nudges, rivals[q])
  <2> DEFINE ks == [jobs EXCEPT ![c] = k]
  <2>1. ks \in [Runners -> JobTypes] /\ ks[c] = k /\ \A h \in Runners \ {c} : ks[h] = jobs[h]
    BY <1>2, <1>4
  <2> HIDE DEF ks
  <2>2. \A h \in Posters(q, ks) : h \in Posters(q, jobs) /\ ks[h] = jobs[h]
    BY <1>4, <2>1, RunnersAre DEF Posters
  <2>3. \A h \in People : Used(jobs[h]) \in Nat
    BY <1>2, RunnersAre, UsedType
  <2>4. \A h \in Posters(q, ks) : h \in Posters(q, jobs) /\ Used(jobs[h]) <= Used(ks[h])
    BY <2>2, <2>3 DEF Posters
  <2>5. prs[q].nudges \in Nat /\ rivals[q] \in SUBSET People
        /\ Counted(q, jobs, prs[q].nudges, rivals[q])
    BY <1>2 DEF Counts, Prs
  <2>6. Counted(q, ks, prs[q].nudges, rivals[q])
    BY <1>2, <2>1, <2>4, <2>5, Kept
  <2> QED BY <1>3, <2>6 DEF ks
<1>12. ASSUME NEW q \in PRs PROVE Counted(q, jobs', prs'[q].nudges, rivals'[q])
  <2>1. CASE q = p
    BY <1>3, <1>5, <1>6, <1>10, <2>1
  <2>2. CASE q # p
    BY <1>5, <1>6, <1>11, <2>2
  <2> QED BY <2>1, <2>2
<1> QED BY <1>12 DEF Counts

LEMMA CountsRun ==
  ASSUME IInv, IInv', Counts, NEW c \in Runners, Run(c)
  PROVE  Counts'
<1> DEFINE j == jobs[c]
<1>1. j \in JobTypes /\ Sane(j) /\ jobs \in [Runners -> JobTypes] /\ prs \in [PRs -> Prs]
  BY DEF IInv, Types
<1>2. CASE _pr_fields(c)
  <2> DEFINE k == [j EXCEPT !.step = "labels", !.goal = Right(j.pr)]
  <2>1. k.step = "labels" /\ jobs' = [jobs EXCEPT ![c] = k] /\ UNCHANGED <<prs, rivals>>
    BY <1>1, <1>2 DEF _pr_fields, JobTypes
  <2> HIDE DEF k
  <2> QED BY <2>1, CountsQuiet
<1>3. CASE ReadLabels(c)
  <2> DEFINE have == prs[j.pr].labels
             e == [j EXCEPT !.step = "edit", !.add = {j.goal} \ have, !.drop = have \ {j.goal}]
             k == IF have = {j.goal} THEN AfterApply(j) ELSE e
  <2>1. jobs' = [jobs EXCEPT ![c] = k] /\ UNCHANGED <<prs, rivals>> /\ j.step = "labels"
    BY <1>1, <1>3 DEF ReadLabels
  <2>2. e.step = "edit"
    BY <1>1 DEF JobTypes
  <2>3. AfterApply(j).step # "post"
    BY <1>1, <2>1, AfterApplySane
  <2> HIDE DEF e
  <2>4. k.step # "post"
    BY <2>2, <2>3
  <2> HIDE DEF k
  <2> QED BY <2>1, <2>4, CountsQuiet
<1>4. CASE EditAdds(c) \/ EditDrops(c)
  <2>0. PICK call \in {"add", "drop"} : \E labels : Edited(c, call, labels)
    BY <1>4 DEF EditAdds, EditDrops
  <2>1. PICK labels : Edited(c, call, labels)
    BY <2>0
  <2> DEFINE p == j.pr
             done == j.done \cup {call}
             k == [j EXCEPT !.done = done]
  <2>2. /\ j.step = "edit" /\ jobs' = [jobs EXCEPT ![c] = k] /\ UNCHANGED rivals
        /\ prs' = [prs EXCEPT ![p].labels = labels]
    BY <1>1, <2>1 DEF Edited
  <2>3. k.step = "edit" /\ p \in PRs
    BY <1>1, <2>2 DEF JobTypes, Sane
  <2>4. \A q \in PRs : prs'[q].nudges = prs[q].nudges
    BY <1>1, <2>2, <2>3 DEF Prs
  <2> HIDE DEF k
  <2> QED BY <2>2, <2>3, <2>4, CountsQuiet
<1>5. CASE ReadComments(c)
  <2>1. CASE _already_nudged(j.pr)
    <3>1. jobs' = [jobs EXCEPT ![c] = Idle] /\ UNCHANGED <<prs, rivals>>
      BY <1>1, <1>5, <2>1 DEF ReadComments
    <3> QED BY <3>1, IdleSane, CountsQuiet
  <2>2. CASE ~_already_nudged(j.pr)
    <3> DEFINE k == [j EXCEPT !.step = "post"]
    <3>1. jobs' = [jobs EXCEPT ![c] = k] /\ UNCHANGED <<prs, rivals>> /\ j.step = "comments"
      BY <1>1, <1>5, <2>2 DEF ReadComments
    <3>2. k.pr = j.pr /\ prs[j.pr].nudges = 0
      <4>1. j.pr \in PRs
        BY <1>1, <3>1 DEF Sane
      <4> QED BY <1>1, <2>2, <4>1 DEF _already_nudged, JobTypes, Prs
    <3> HIDE DEF k
    <3>3. jobs'[c] = k /\ \A h \in Runners \ {c} : jobs'[h] = jobs[h]
      BY <1>1, <3>1
    <3>4. \A h \in People : Used(jobs[h]) \in Nat
      BY <1>1, RunnersAre, UsedType
    <3>5. \A h \in People : jobs'[h] = jobs[h] => Used(jobs[h]) <= Used(jobs'[h])
      BY <3>4
    <3>6. ASSUME NEW h \in People, jobs'[h].step = "post"
          PROVE  \/ prs[jobs'[h].pr].nudges = 0
                 \/ /\ jobs[h].step = "post" /\ jobs[h].pr = jobs'[h].pr
                    /\ Used(jobs[h]) <= Used(jobs'[h])
      BY <3>2, <3>3, <3>5, <3>6, RunnersAre
    <3> QED BY <3>1, <3>6, CountsKept
  <2> QED BY <2>1, <2>2
<1>6. CASE nudge(c)
  BY <1>6, CountsNudge
<1>7. CASE Answered(c)
  <2>1. UNCHANGED <<prs, rivals>> /\ (jobs' = [jobs EXCEPT ![c] = Idle]
          \/ (j.step = "edit" /\ jobs' = [jobs EXCEPT ![c] = AfterApply(j)]))
    BY <1>1, <1>7 DEF Answered
  <2>2. j.step = "edit" => AfterApply(j).step # "post"
    BY <1>1, AfterApplySane
  <2> QED BY <2>1, <2>2, IdleSane, CountsQuiet
<1>8. CASE Retry(c)
  <2> DEFINE n == j.tries + 1
             k == [j EXCEPT !.tries = n, !.done = {}]
  <2>1. jobs' = [jobs EXCEPT ![c] = k] /\ UNCHANGED <<prs, rivals>>
    BY <1>1, <1>8 DEF Retry
  <2>2. k.step = j.step /\ k.pr = j.pr /\ k.tries = n /\ k.done = {}
    BY <1>1 DEF JobTypes
  <2>3. Used(j) <= Used(k)
    <3>1. j.tries \in Nat
      BY <1>1, UsedType
    <3> QED BY <2>2, <3>1 DEF Used
  <2> HIDE DEF k
  <2>4. jobs'[c] = k /\ \A h \in Runners \ {c} : jobs'[h] = jobs[h]
    BY <1>1, <2>1
  <2>5. \A h \in People : Used(jobs[h]) \in Nat
    BY <1>1, RunnersAre, UsedType
  <2>6. \A h \in People : jobs'[h] = jobs[h] => Used(jobs[h]) <= Used(jobs'[h])
    BY <2>5
  <2>7. ASSUME NEW h \in People, jobs'[h].step = "post"
        PROVE  /\ jobs[h].step = "post" /\ jobs[h].pr = jobs'[h].pr
               /\ Used(jobs[h]) <= Used(jobs'[h])
    BY <2>2, <2>3, <2>4, <2>6, <2>7, RunnersAre
  <2> QED BY <2>1, <2>7, CountsKept
<1>9. CASE Fail(c)
  <2>1. jobs' = [jobs EXCEPT ![c] = Idle] /\ UNCHANGED <<prs, rivals>>
    BY <1>9 DEF Fail
  <2> QED BY <2>1, IdleSane, CountsQuiet
<1> QED BY <1>2, <1>3, <1>4, <1>5, <1>6, <1>7, <1>8, <1>9 DEF Run

LEMMA CountsStep == IInv /\ IInv' /\ Counts /\ [Next]_vars => Counts'
<1> SUFFICES ASSUME IInv, IInv', Counts, [Next]_vars PROVE Counts'
  OBVIOUS
<1>1. prs \in [PRs -> Prs] /\ jobs \in [Runners -> JobTypes]
  BY DEF IInv, Types
<1>2. ASSUME NEW p \in PRs, NEW input \in UsedInputs, Event(p, input) PROVE Counts'
  <2> DEFINE k == Restarted(jobs[p], p)
  <2>1. jobs' = [jobs EXCEPT ![p] = k] /\ UNCHANGED rivals /\ p \in Runners
        /\ prs' = [prs EXCEPT ![p].body = input.body, ![p].files = input.files]
    BY <1>2, RunnersAre DEF Event
  <2>2. k.step = "view"
    BY DEF Restarted, Idle
  <2>3. \A q \in PRs : prs'[q].nudges = prs[q].nudges
    BY <1>1, <2>1 DEF Prs
  <2> HIDE DEF k
  <2> QED BY <2>1, <2>2, <2>3, CountsQuiet
<1>3. ASSUME NEW p \in PRs, NEW l \in HandLabels, LabelByHand(p, l) PROVE Counts'
  <2>1. UNCHANGED <<jobs, rivals>> /\ \A q \in PRs : prs'[q].nudges = prs[q].nudges
    BY <1>1, <1>3 DEF LabelByHand, Prs
  <2> QED BY <2>1, CountsSame
<1>4. ASSUME NEW c \in Runners, Run(c) PROVE Counts'
  BY <1>4, CountsRun
<1>5. ASSUME NEW h \in People, NEW p \in PRs, RunOne(h, p) PROVE Counts'
  <2> DEFINE k == [Idle EXCEPT !.step = "view", !.pr = p, !.nudge = TRUE]
  <2>1. jobs' = [jobs EXCEPT ![h] = k] /\ UNCHANGED <<prs, rivals>> /\ h \in Runners
    BY <1>5, RunnersAre DEF RunOne
  <2>2. k.step = "view"
    BY DEF Idle
  <2> HIDE DEF k
  <2> QED BY <2>1, <2>2, CountsQuiet
<1>6. ASSUME NEW h \in People, NEW p \in PRs, BackfillNext(h, p) PROVE Counts'
  <2> DEFINE k == [Idle EXCEPT !.step = "labels", !.pr = p, !.goal = backfill[h].plan[p].goal]
  <2>1. (UNCHANGED jobs \/ jobs' = [jobs EXCEPT ![h] = k]) /\ UNCHANGED <<prs, rivals>>
        /\ h \in Runners
    BY <1>6, RunnersAre DEF BackfillNext
  <2>2. k.step = "labels"
    BY DEF Idle
  <2> HIDE DEF k
  <2> QED BY <2>1, <2>2, CountsQuiet, CountsSame
<1>7. ASSUME NEW h \in People, (\E allow \in BOOLEAN : BackfillList(h, allow)) \/ BackfillTurns(h)
      PROVE  Counts'
  <2>1. UNCHANGED <<prs, jobs, rivals>>
    BY <1>7 DEF BackfillList, BackfillTurns
  <2> QED BY <2>1, CountsSame
<1>8. CASE UNCHANGED vars
  BY <1>8, CountsSame DEF vars
<1> QED BY <1>2, <1>3, <1>4, <1>5, <1>6, <1>7, <1>8 DEF Next, ByHand

LEMMA CountsHold == Spec => []Counts
<1>1. Init => Counts
  BY DEF Init, Counts, Counted
<1> QED BY <1>1, CountsStep, Invariance, PTL DEF Spec

-------------------------------------------------------------------------------
(* What the script promises                                                *)

\* Every variable has its type.
THEOREM Typed == Spec => []TypeOK
<1>1. IInv => TypeOK
  BY DEF IInv, Types, TypeOK, Prs, JobTypes, JobSteps, Backfills
<1> QED BY <1>1, Invariance, PTL

\* When the run of its last event has ended, a pull request carries one roadmap
\* label and the right one (roadmap-label.yml 25-28, roadmap_label.py 277-292).
THEOREM LabelledRight == Spec => []SettledIsRight
<1>1. IInv => SettledIsRight
  BY DEF IInv, Own, SettledIsRight, Right
<1> QED BY <1>1, Invariance, PTL

\* A backfill that ends and reports nothing has labelled whatever it did not
\* skip (roadmap_label.py 356-389).
THEOREM NoSilentGap == Spec => []BackfillLeavesNoGap
<1>1. IInv => BackfillLeavesNoGap
  <2> SUFFICES ASSUME IInv, NEW h \in People, backfill[h].step = "over",
                      backfill[h].failed = {}, NEW p \in PRs \ backfill[h].moved
               PROVE  \/ Skipped(backfill[h].plan[p], backfill[h].allow)
                      \/ prs[p].labels = {backfill[h].plan[p].goal}
    BY DEF BackfillLeavesNoGap
  <2>1. Covered(p, backfill[h], jobs[p], jobs[h], prs[p]) /\ backfill[h].queue = {}
        /\ jobs[h].step = "idle"
    BY DEF IInv, Hand
  <2> QED BY <2>1 DEF Covered
<1> QED BY <1>1, Invariance, PTL

\* Whoever runs the script how often, only runs that were under way at the first
\* nudge can post another, each once at every try (roadmap_label.py 225-242,
\* 295-306).
THEOREM Nudged == Spec => []NudgesAreFew
<1>1. IInv /\ Counts => NudgesAreFew
  <2> SUFFICES ASSUME IInv, Counts, NEW p \in PRs
               PROVE  prs[p].nudges <= Cardinality(rivals[p]) * Tries
    BY DEF NudgesAreFew
  <2> DEFINE n == prs[p].nudges
             who == rivals[p]
  <2>1. n \in Nat /\ who \in SUBSET People /\ Counted(p, jobs, n, who)
    BY DEF IInv, Types, Prs, Counts
  <2> HIDE DEF n, who
  <2>2. /\ Cardinality(Chances(who)) = Cardinality(who) * Tries
        /\ Cardinality(Chances(who)) \in Nat
    BY <2>1, ChancesAre, FS_CardinalityType
  <2>3. n # 0 => Cardinality(Left(p, jobs)) \in Nat
    <3>1. n # 0 => Left(p, jobs) \in SUBSET Chances(who)
      BY <2>1, LeftAre DEF Counted
    <3> QED BY <2>1, <3>1, ChancesAre, FS_Subset, FS_CardinalityType
  <2>4. n <= Cardinality(Chances(who))
    BY <2>1, <2>2, <2>3 DEF Counted
  <2> QED BY <2>2, <2>4 DEF n, who
<1> QED BY <1>1, Invariance, CountsHold, PTL
===============================================================================
