-------------------------- MODULE ZulipMirror_proofs --------------------------
(***************************************************************************)
(* The jobs of one head never post twice about a pull request, and a label *)
(* event does not announce one that is not open, for any heads, contents,  *)
(* overlaps and failures: a job that may post has searched since the last  *)
(* job of its group ended, and what it goes by is what GitHub holds unless *)
(* that changed under its eyes.  Whatever they leave behind, the post is   *)
(* right after a job that ran alone and saw the last change.               *)
(***************************************************************************)
EXTENDS ZulipMirror, TLAPS

\* What a job j of group g has found out about the pull request p and the
\* posts s.
Sound(g, j, p, s) ==
    /\ j \in Jobs
    /\ j.step # "idle" => j.req \in Requests /\ (g = "backfill" => j.req.create = "no")
    /\ j.step \in {"post", "derive", "review", "ci"} \/ (g # "backfill" /\ j.step = "find")
          => j.st \in PullRequests
    /\ j.post <= Len(s)
    /\ j.step \in {"derive", "review", "ci"} => j.post # 0
    /\ j.step = "post" /\ j.post = 0 => \A i \in 1..Len(s) : s[i].by # g
    /\ j.ok /\ j.st # NoRequest => j.st = p

\* What a pending job q of group g is asked to do.
Due(g, q, p) ==
    q # NoRequest =>
        /\ q \in Requests
        /\ g = "backfill" => q.create = "no"
        /\ q.ok /\ q.payload # NoRequest => q.payload = p

\* One post of each head at most, and none of the backfill.
Distinct(s) ==
    /\ \A i \in 1..Len(s) : s[i].by # "backfill"
    /\ \A i, k \in 1..Len(s) : s[i].by = s[k].by => i = k

GitHubTypes ==
    /\ pr \in PullRequests
    /\ build \in [Heads -> BuildStates \ {"running"}]
    /\ building \in SUBSET Heads
    /\ review \in [Heads -> ReviewStates]
    /\ changes \in 0..MaxChanges

HistoryTypes == settled \in BOOLEAN /\ lost \in BOOLEAN /\ faults \in 0..MaxFaults

MirrorInv ==
    /\ queue \in [Groups -> Requests \cup {NoRequest}]
    /\ job \in [Groups -> Jobs]
    /\ posts \in Seq(Posts)
    /\ Distinct(posts)
    /\ \A g \in Groups : Sound(g, job[g], pr, posts) /\ Due(g, queue[g], pr)

IInv == GitHubTypes /\ HistoryTypes /\ MirrorInv

-------------------------------------------------------------------------------
(* Facts about jobs, requests and posts                                    *)

LEMMA IdleType == Idle \in Jobs /\ Idle.step = "idle" /\ Idle.post = 0 /\ Idle.ok = FALSE
BY DEF Idle, Jobs, Steps

LEMMA IdleSound ==
  ASSUME NEW g \in Groups, NEW p, NEW s \in Seq(Posts)
  PROVE  Sound(g, Idle, p, s)
<1>1. Len(s) \in Nat
  OBVIOUS
<1> QED BY <1>1, IdleType DEF Sound

\* A job that no longer claims to have seen the truth
LEMMA Forgetful ==
  ASSUME NEW g \in Groups, NEW j, NEW p, NEW r, NEW s \in Seq(Posts), Sound(g, j, p, s)
  PROVE  Sound(g, [j EXCEPT !.ok = FALSE], r, s)
<1> DEFINE k == [j EXCEPT !.ok = FALSE]
<1>1. j \in Jobs
  BY DEF Sound
<1>2. /\ k \in Jobs /\ k.step = j.step /\ k.req = j.req /\ k.st = j.st /\ k.post = j.post
      /\ k.ok = FALSE
  BY <1>1 DEF Jobs
<1> HIDE DEF k
<1>3. Sound(g, k, r, s)
  BY <1>2 DEF Sound
<1> QED BY <1>3 DEF k

LEMMA ForgetfulRequest ==
  ASSUME NEW g \in Groups, NEW q \in Requests, NEW p, NEW r, Due(g, q, p), q # NoRequest
  PROVE  Due(g, [q EXCEPT !.ok = FALSE], r) /\ [q EXCEPT !.ok = FALSE] \in Requests
<1> DEFINE k == [q EXCEPT !.ok = FALSE]
<1>1. k \in Requests /\ k.create = q.create /\ k.ok = FALSE
  BY DEF Requests
<1> HIDE DEF k
<1>2. Due(g, k, r) /\ k \in Requests
  BY <1>1 DEF Due
<1> QED BY <1>2 DEF k

\* Posts that were reworded or got other reactions
LEMMA SameAuthors ==
  ASSUME NEW g \in Groups, NEW j, NEW p, NEW s \in Seq(Posts), NEW t \in Seq(Posts),
         Len(t) = Len(s), \A i \in 1..Len(s) : t[i].by = s[i].by
  PROVE  /\ Sound(g, j, p, s) => Sound(g, j, p, t)
         /\ Distinct(s) => Distinct(t)
BY DEF Sound, Distinct

\* Another group's job posts.
LEMMA OneMore ==
  ASSUME NEW g \in Groups, NEW h \in Groups \ {g}, NEW j, NEW p, NEW s \in Seq(Posts),
         NEW m \in Posts, m.by = h, Sound(g, j, p, s)
  PROVE  Sound(g, j, p, Append(s, m))
<1> DEFINE t == Append(s, m)
           n == Len(s)
<1>1. n \in Nat /\ Len(t) = n + 1 /\ t[n + 1] = m /\ \A i \in 1..n : t[i] = s[i]
  OBVIOUS
<1>2. j.post \in Nat
  BY DEF Sound, Jobs
<1> HIDE DEF t, n
<1>3. \A i \in 1..(n + 1) : i \in 1..n \/ i = n + 1
  BY <1>1
<1>4. j.post <= n
  BY DEF Sound, n
<1>5. j.post <= n + 1
  BY <1>1, <1>2, <1>4
<1>6. (j.step = "post" /\ j.post = 0) => \A i \in 1..n : s[i].by # g
  BY DEF Sound, n
<1>7. (j.step = "post" /\ j.post = 0) => \A i \in 1..(n + 1) : t[i].by # g
  BY <1>1, <1>3, <1>6
<1> QED BY <1>1, <1>5, <1>7 DEF Sound, t, n

LEMMA Distincter ==
  ASSUME NEW g \in Heads, NEW s \in Seq(Posts), NEW m \in Posts, m.by = g, Distinct(s),
         \A i \in 1..Len(s) : s[i].by # g
  PROVE  Distinct(Append(s, m))
<1> DEFINE t == Append(s, m)
           n == Len(s)
<1>1. n \in Nat /\ Len(t) = n + 1 /\ t[n + 1] = m /\ \A i \in 1..n : t[i] = s[i]
  OBVIOUS
<1>2. g # "backfill"
  BY HeadsAssumption
<1> HIDE DEF t, n
<1>3. \A i \in 1..(n + 1) : i \in 1..n \/ i = n + 1
  BY <1>1
<1>4. /\ \A i \in 1..n : s[i].by # g /\ s[i].by # "backfill"
      /\ \A i, k \in 1..n : s[i].by = s[k].by => i = k
  BY DEF n, Distinct
<1>5. \A i \in 1..(n + 1) : t[i].by # "backfill"
  BY <1>1, <1>2, <1>3, <1>4
<1>6. \A i, k \in 1..(n + 1) : t[i].by = t[k].by => i = k
  BY <1>1, <1>3, <1>4
<1> QED BY <1>1, <1>5, <1>6 DEF Distinct, t

-------------------------------------------------------------------------------
(* What happens on GitHub                                                  *)

LEMMA EverybodyForgets ==
  ASSUME MirrorInv, job' = [h \in Groups |-> [job[h] EXCEPT !.ok = FALSE]],
         UNCHANGED posts
  PROVE  job' \in [Groups -> Jobs] /\ \A h \in Groups : Sound(h, job'[h], pr', posts')
<1>1. ASSUME NEW h \in Groups PROVE Sound(h, [job[h] EXCEPT !.ok = FALSE], pr', posts)
  BY Forgetful DEF MirrorInv
<1>2. \A h \in Groups : [job[h] EXCEPT !.ok = FALSE] \in Jobs
  BY <1>1 DEF Sound
<1> QED BY <1>1, <1>2

LEMMA AskStep ==
  ASSUME MirrorInv, NEW g \in Groups, NEW q \in Requests, Ask(g, q), UNCHANGED posts,
         g = "backfill" => q.create = "no",
         q.payload # NoRequest => q.payload = pr'
  PROVE  MirrorInv' /\ settled' \in BOOLEAN
<1>1. job' \in [Groups -> Jobs] /\ \A h \in Groups : Sound(h, job'[h], pr', posts')
  BY EverybodyForgets DEF Ask
<1>2. ASSUME NEW h \in Groups
      PROVE  queue'[h] \in Requests \cup {NoRequest} /\ Due(h, queue'[h], pr')
  <2>1. CASE h = g
    BY <2>1 DEF Ask, Due
  <2>2. CASE h # g /\ queue[h] = NoRequest
    BY <2>2 DEF Ask, Due
  <2>3. CASE h # g /\ queue[h] # NoRequest
    <3>1. queue'[h] = [queue[h] EXCEPT !.ok = FALSE]
      BY <2>3 DEF Ask
    <3>2. queue[h] \in Requests /\ Due(h, queue[h], pr)
      BY <2>3 DEF MirrorInv
    <3> QED BY <2>3, <3>1, <3>2, ForgetfulRequest
  <2> QED BY <2>1, <2>2, <2>3
<1>3. queue' \in [Groups -> Requests \cup {NoRequest}]
  <2>1. \A h \in Groups : queue'[h] \in Requests \cup {NoRequest}
    BY <1>2
  <2> DEFINE f == queue'
  <2>2. f = [h \in Groups |-> f[h]]
    BY DEF Ask
  <2> HIDE DEF f
  <2> QED BY <2>1, <2>2 DEF f
<1> QED BY <1>1, <1>2, <1>3 DEF MirrorInv, Ask

\* What the events ask of the jobs of a head
LEMMA EventStep ==
  ASSUME MirrorInv, UNCHANGED posts, NEW g \in Heads,
         NEW create \in {"no", "open", "yes"}, NEW running \in BOOLEAN,
         NEW payload \in PullRequests \cup {NoRequest}, NEW resolve \in BOOLEAN,
         payload # NoRequest => payload = pr',
         Ask(g, Request(create, running, payload, resolve))
  PROVE  MirrorInv' /\ settled' \in BOOLEAN
<1> DEFINE q == Request(create, running, payload, resolve)
<1>1. q \in Requests /\ q.payload = payload
  BY DEF Request, Requests
<1>2. g \in Groups /\ g # "backfill"
  BY HeadsAssumption DEF Groups
<1>3. Ask(g, q)
  OBVIOUS
<1> HIDE DEF q
<1> QED BY <1>1, <1>2, <1>3, AskStep

LEMMA ForgetStep ==
  ASSUME MirrorInv, Forget(queue), UNCHANGED posts
  PROVE  MirrorInv' /\ settled' \in BOOLEAN
<1>1. job' \in [Groups -> Jobs] /\ \A h \in Groups : Sound(h, job'[h], pr', posts')
  BY EverybodyForgets DEF Forget
<1>2. ASSUME NEW h \in Groups
      PROVE  queue'[h] \in Requests \cup {NoRequest} /\ Due(h, queue'[h], pr')
  <2>1. CASE queue[h] = NoRequest
    BY <2>1 DEF Forget, Due
  <2>2. CASE queue[h] # NoRequest
    <3>1. queue'[h] = [queue[h] EXCEPT !.ok = FALSE]
      BY <2>2 DEF Forget
    <3>2. queue[h] \in Requests /\ Due(h, queue[h], pr)
      BY <2>2 DEF MirrorInv
    <3> QED BY <2>2, <3>1, <3>2, ForgetfulRequest
  <2> QED BY <2>1, <2>2
<1>3. queue' \in [Groups -> Requests \cup {NoRequest}]
  <2>1. \A h \in Groups : queue'[h] \in Requests \cup {NoRequest}
    BY <1>2
  <2> DEFINE f == queue'
  <2>2. f = [h \in Groups |-> f[h]]
    BY DEF Forget
  <2> HIDE DEF f
  <2> QED BY <2>1, <2>2 DEF f
<1> QED BY <1>1, <1>2, <1>3 DEF MirrorInv, Forget

\* A change of the pull request that an event reports, or not.
LEMMA ChangeTypes ==
  ASSUME GitHubTypes, changes' = changes + 1, changes < MaxChanges
  PROVE  changes' \in 0..MaxChanges
<1>1. changes \in Nat /\ MaxChanges \in Nat
  BY BoundsAssumption DEF GitHubTypes
<1> QED BY <1>1

LEMMA GitHubStep ==
  ASSUME IInv, GitHub
  PROVE  IInv'
<1> USE DEF IInv
<1>1. ASSUME NEW h \in Heads, Push(h) PROVE IInv'
  <2>1. MirrorInv' /\ settled' \in BOOLEAN
    BY <1>1, ForgetStep DEF Push, Change
  <2>2. GitHubTypes'
    BY <1>1, ChangeTypes DEF Push, Change, GitHubTypes, PullRequests
  <2> QED BY <1>1, <2>1, <2>2 DEF Push, Change, HistoryTypes
<1>2. ASSUME NEW h \in Heads, BuildStarts(h) PROVE IInv'
  <2>1. MirrorInv' /\ settled' \in BOOLEAN
    <3>1. Ask(h, Request("no", TRUE, NoRequest, TRUE)) /\ UNCHANGED posts
      BY <1>2 DEF BuildStarts, Change
    <3> QED BY <3>1, EventStep
  <2>2. GitHubTypes'
    BY <1>2, ChangeTypes DEF BuildStarts, Change, GitHubTypes
  <2>3. lost' \in BOOLEAN /\ faults' = faults
    BY <1>2 DEF BuildStarts, Change, Ask, HistoryTypes, Creates
  <2> QED BY <2>1, <2>2, <2>3 DEF HistoryTypes
<1>3. ASSUME NEW h \in Heads, NEW state \in {"success", "failure"}, BuildEnds(h, state)
      PROVE  IInv'
  <2>1. MirrorInv' /\ settled' \in BOOLEAN
    <3>1. Ask(h, Request("no", FALSE, NoRequest, TRUE)) /\ UNCHANGED posts
      BY <1>3 DEF BuildEnds, Change
    <3> QED BY <3>1, EventStep
  <2>2. GitHubTypes'
    BY <1>3, ChangeTypes DEF BuildEnds, Change, GitHubTypes, BuildStates
  <2>3. lost' \in BOOLEAN /\ faults' = faults
    BY <1>3 DEF BuildEnds, Change, Ask, HistoryTypes, Creates
  <2> QED BY <2>1, <2>2, <2>3 DEF HistoryTypes
<1>4. ASSUME NEW v \in UsedReviews, Review(v) PROVE IInv'
  <2>1. MirrorInv' /\ settled' \in BOOLEAN
    BY <1>4, ForgetStep DEF Review, Change
  <2>2. GitHubTypes'
    BY <1>4, ChangeTypes, ReviewsAssumption DEF Review, Change, GitHubTypes
  <2> QED BY <1>4, <2>1, <2>2 DEF Review, Change, HistoryTypes
<1>5. ASSUME NEW c \in Contents, Relabel(c) PROVE IInv'
  <2>1. pr.head \in Heads
    BY DEF GitHubTypes, PullRequests
  <2>2. MirrorInv' /\ settled' \in BOOLEAN
    <3>1. Ask(pr.head, Request("open", FALSE, NoRequest, FALSE)) /\ UNCHANGED posts
      BY <1>5 DEF Relabel, Change
    <3> QED BY <2>1, <3>1, EventStep
  <2>3. GitHubTypes'
    BY <1>5, ChangeTypes DEF Relabel, Change, GitHubTypes, PullRequests
  <2>4. lost' \in BOOLEAN /\ faults' = faults
    BY <1>5 DEF Relabel, Change, Ask, HistoryTypes, Creates
  <2> QED BY <2>2, <2>3, <2>4 DEF HistoryTypes
<1>6. ASSUME Reopen \/ \E life \in {"closed", "merged"} : Close(life) PROVE IInv'
  <2>1. PICK life \in {"open", "closed", "merged"}, create \in {"no", "yes"} :
          /\ pr' = [pr EXCEPT !.life = life]
          /\ Ask(pr.head, Request(create, FALSE, pr', FALSE))
    BY <1>6 DEF Reopen, Close
  <2>2. pr.head \in Heads /\ pr' \in PullRequests
    BY <2>1 DEF GitHubTypes, PullRequests
  <2>3. changes' = changes + 1 /\ changes < MaxChanges
        /\ UNCHANGED <<posts, faults, build, building, review>>
    BY <1>6 DEF Reopen, Close, Change
  <2>4. MirrorInv' /\ settled' \in BOOLEAN
    BY <2>1, <2>2, <2>3, EventStep
  <2>5. GitHubTypes'
    BY <2>2, <2>3, ChangeTypes DEF GitHubTypes
  <2>6. lost' \in BOOLEAN
    BY <2>1 DEF Ask, HistoryTypes, Creates
  <2> QED BY <2>3, <2>4, <2>5, <2>6 DEF HistoryTypes
<1>7. CASE DispatchBackfill
  <2>1. Request("no", FALSE, NoRequest, FALSE) \in Requests
        /\ Request("no", FALSE, NoRequest, FALSE).create = "no"
        /\ Request("no", FALSE, NoRequest, FALSE).payload = NoRequest
    BY DEF Request, Requests
  <2>2. MirrorInv'
    BY <1>7, <2>1 DEF DispatchBackfill, truth, MirrorInv, Due
  <2>3. GitHubTypes' /\ HistoryTypes'
    BY <1>7, ChangeTypes DEF DispatchBackfill, truth, GitHubTypes, HistoryTypes
  <2> QED BY <2>2, <2>3
<1> QED BY <1>1, <1>2, <1>3, <1>4, <1>5, <1>6, <1>7 DEF GitHub
-------------------------------------------------------------------------------
(* What a job does                                                         *)

\* It is enough that the job's own record is sound, and the others' posts kept.
LEMMA JobStep ==
  ASSUME MirrorInv, NEW g \in Groups, NEW k, Set(g, k), UNCHANGED <<pr, queue>>,
         posts' \in Seq(Posts), Distinct(posts'), Sound(g, k, pr, posts'),
         \A h \in Groups \ {g} : Sound(h, job[h], pr, posts')
  PROVE  MirrorInv'
<1>1. k \in Jobs
  BY DEF Sound
<1>2. job' \in [Groups -> Jobs]
  BY <1>1 DEF MirrorInv, Set
<1>3. ASSUME NEW h \in Groups PROVE Sound(h, job'[h], pr, posts')
  <2>1. CASE h = g
    BY <2>1 DEF MirrorInv, Set
  <2>2. CASE h # g
    BY <2>2 DEF MirrorInv, Set
  <2> QED BY <2>1, <2>2
<1> QED BY <1>2, <1>3 DEF MirrorInv

\* A job that leaves the posts alone
LEMMA QuietStep ==
  ASSUME MirrorInv, NEW g \in Groups, NEW k, Set(g, k), UNCHANGED <<pr, queue, posts>>,
         Sound(g, k, pr, posts)
  PROVE  MirrorInv'
BY JobStep DEF MirrorInv

\* A job that rewords a post or changes its reactions
LEMMA EditStep ==
  ASSUME MirrorInv, NEW g \in Groups, NEW k, Set(g, k), UNCHANGED <<pr, queue>>,
         posts' \in Seq(Posts), Len(posts') = Len(posts),
         \A i \in 1..Len(posts) : posts'[i].by = posts[i].by,
         Sound(g, k, pr, posts)
  PROVE  MirrorInv'
<1>1. \A h \in Groups : Sound(h, job[h], pr, posts')
  BY SameAuthors DEF MirrorInv
<1>2. Sound(g, k, pr, posts') /\ Distinct(posts')
  BY SameAuthors DEF MirrorInv
<1> QED BY <1>1, <1>2, JobStep

LEMMA StartStep ==
  ASSUME MirrorInv, NEW g \in Groups, Start(g)
  PROVE  MirrorInv' /\ settled' \in BOOLEAN
<1> DEFINE q == queue[g]
           k == [Idle EXCEPT
                  !.step = IF q.resolve THEN "resolve"
                           ELSE IF q.payload = NoRequest THEN "read" ELSE "find",
                  !.req = q, !.st = q.payload,
                  !.ok = (Others(g) = {}) /\ (q.payload # NoRequest => q.ok)]
<1>1. q \in Requests /\ Due(g, q, pr) /\ q # NoRequest
  BY DEF MirrorInv, Start
<1>2. q.payload \in PullRequests \cup {NoRequest} /\ q.ok \in BOOLEAN
  BY <1>1 DEF Requests
<1>3. /\ job' = [h \in Groups |-> IF h # g THEN [job[h] EXCEPT !.ok = FALSE] ELSE k]
      /\ queue' = [queue EXCEPT ![g] = NoRequest]
      /\ settled' = FALSE
      /\ UNCHANGED <<pr, posts>>
  BY DEF Start, truth
<1> DEFINE first == IF q.resolve THEN "resolve"
                    ELSE IF q.payload = NoRequest THEN "read" ELSE "find"
           sees == (Others(g) = {}) /\ (q.payload # NoRequest => q.ok)
<1>4. /\ first \in {"resolve", "read", "find"}
      /\ first = "find" => q.payload # NoRequest
  BY <1>2
<1>5. sees \in BOOLEAN /\ (sees /\ q.payload # NoRequest => q.ok)
  OBVIOUS
<1>6. k = [Idle EXCEPT !.step = first, !.req = q, !.st = q.payload, !.ok = sees]
  OBVIOUS
<1> HIDE DEF k, first, sees
<1>7. k = [step |-> first, req |-> q, st |-> q.payload, post |-> 0, text |-> NoRequest,
           mine |-> {}, want |-> [review |-> {}, ci |-> {}], ok |-> sees]
  BY <1>6 DEF Idle
<1>8. k.step = first /\ k.req = q /\ k.st = q.payload /\ k.post = 0 /\ k.ok = sees
  BY <1>7
<1>9. k \in Jobs
  <2>1. first \in Steps
    BY <1>4 DEF Steps
  <2>2. [review |-> {}, ci |-> {}] \in [review : SUBSET EMOJI, ci : SUBSET EMOJI]
    OBVIOUS
  <2> QED BY <1>1, <1>2, <1>5, <1>7, <2>1, <2>2 DEF Jobs
<1>10. Len(posts) \in Nat
  BY DEF MirrorInv
<1>11. Sound(g, k, pr, posts)
  <2>1. q.payload # NoRequest => q.payload \in PullRequests
    BY <1>2
  <2>2. sees /\ q.payload # NoRequest => q.payload = pr
    BY <1>1, <1>5 DEF Due
  <2>3. g = "backfill" => q.create = "no"
    BY <1>1 DEF Due
  <2> QED BY <1>1, <1>4, <1>9, <1>10, <1>8, <2>1, <2>2, <2>3 DEF Sound
<1>12. ASSUME NEW h \in Groups \ {g} PROVE Sound(h, [job[h] EXCEPT !.ok = FALSE], pr, posts)
  BY Forgetful DEF MirrorInv
<1>13. \A h \in Groups \ {g} : [job[h] EXCEPT !.ok = FALSE] \in Jobs
  BY <1>12 DEF Sound
<1>14. job' \in [Groups -> Jobs]
  BY <1>3, <1>9, <1>13
<1>15. \A h \in Groups : Sound(h, job'[h], pr', posts')
  BY <1>3, <1>11, <1>12
<1>16. queue' \in [Groups -> Requests \cup {NoRequest}]
  BY <1>3 DEF MirrorInv
<1>17. \A h \in Groups : Due(h, queue'[h], pr')
  BY <1>3 DEF MirrorInv, Due
<1> QED BY <1>3, <1>14, <1>15, <1>16, <1>17 DEF MirrorInv

LEMMA IdleStep ==
  ASSUME MirrorInv, NEW g \in Groups, Set(g, Idle), UNCHANGED <<pr, queue, posts>>
  PROVE  MirrorInv'
<1>1. Sound(g, Idle, pr, posts)
  BY IdleSound DEF MirrorInv
<1> QED BY <1>1, QuietStep

LEMMA ResolveStep ==
  ASSUME IInv, NEW g \in Groups \ {"backfill"}, Resolve(g) \/ pr_state(g)
  PROVE  MirrorInv'
<1> DEFINE j == job[g]
<1>1. j \in Jobs /\ Sound(g, j, pr, posts) /\ pr \in PullRequests
  BY DEF IInv, MirrorInv, GitHubTypes
<1>2. Len(posts) \in Nat
  BY DEF IInv, MirrorInv
<1>3. UNCHANGED <<pr, queue, posts>>
  BY DEF Resolve, pr_state, truth
<1>4. CASE j.step = "resolve" /\ Set(g, [j EXCEPT !.step = "read"])
  <2> DEFINE k == [j EXCEPT !.step = "read"]
  <2>1. /\ k \in Jobs /\ k.step = "read" /\ k.req = j.req /\ k.st = j.st /\ k.post = j.post
        /\ k.ok = j.ok
    BY <1>1 DEF Jobs, Steps
  <2>2. Set(g, k)
    BY <1>4
  <2> HIDE DEF k
  <2>3. Sound(g, k, pr, posts)
    BY <1>1, <1>4, <2>1 DEF Sound
  <2> QED BY <1>3, <2>2, <2>3, QuietStep DEF IInv
<1>5. CASE Set(g, Idle)
  BY <1>3, <1>5, IdleStep DEF IInv
<1>6. CASE j.step = "read" /\ Set(g, [j EXCEPT !.step = "find", !.st = pr])
  <2> DEFINE k == [j EXCEPT !.step = "find", !.st = pr]
  <2>1. /\ k \in Jobs /\ k.step = "find" /\ k.req = j.req /\ k.st = pr /\ k.post = j.post
        /\ k.ok = j.ok
    BY <1>1 DEF Jobs, Steps
  <2>2. Set(g, k)
    BY <1>6
  <2> HIDE DEF k
  <2>3. Sound(g, k, pr, posts)
    BY <1>1, <1>6, <2>1 DEF Sound
  <2> QED BY <1>3, <2>2, <2>3, QuietStep DEF IInv
<1> QED BY <1>4, <1>5, <1>6 DEF Resolve, pr_state

\* What a search finds is the bot's, and there, and if there is none, none is g's.
LEMMA FoundSound ==
  ASSUME NEW g \in Groups, NEW j \in Jobs, posts \in Seq(Posts), j.post <= Len(posts)
  PROVE  /\ Found(j) \in Jobs
         /\ Found(j).step = j.step /\ Found(j).req = j.req /\ Found(j).st = j.st
         /\ Found(j).ok = j.ok
         /\ Found(j).post <= Len(posts)
         /\ Found(j).post = 0 => posts = <<>>
<1>1. CASE posts = <<>>
  BY <1>1 DEF Found
<1>2. CASE posts # <<>>
  <2>1. posts[1] \in Posts /\ 1 <= Len(posts)
    BY <1>2
  <2>2. posts[1].content \in Contents /\ posts[1].reactions \in SUBSET EMOJI
    BY <2>1 DEF Posts
  <2>3. Found(j) = [j EXCEPT !.post = 1, !.text = posts[1].content, !.mine = posts[1].reactions]
    BY <1>2 DEF Found
  <2> DEFINE f == Found(j)
             c == posts[1].content
             r == posts[1].reactions
  <2>4. f = [j EXCEPT !.post = 1, !.text = c, !.mine = r]
    BY <2>3
  <2>5. c \in Contents /\ r \in SUBSET EMOJI
    BY <2>2
  <2> HIDE DEF f, c, r
  <2>6. /\ f.step = j.step /\ f.req = j.req /\ f.st = j.st /\ f.ok = j.ok /\ f.post = 1
        /\ f \in Jobs
    BY <2>4, <2>5 DEF Jobs
  <2>7. f.post <= Len(posts) /\ f.post # 0
    BY <2>1, <2>6
  <2> QED BY <2>6, <2>7 DEF f
<1> QED BY <1>1, <1>2

LEMMA FindStep ==
  ASSUME IInv, NEW g \in Groups \ {"backfill"}, find_message(g)
  PROVE  MirrorInv'
<1> DEFINE j == job[g]
           f == Found(j)
           k == [f EXCEPT !.step = "post"]
<1>1. j \in Jobs /\ Sound(g, j, pr, posts) /\ posts \in Seq(Posts) /\ Len(posts) \in Nat
  BY DEF IInv, MirrorInv
<1>2. j.step = "find" /\ Set(g, k) /\ UNCHANGED <<pr, queue, posts>>
  BY DEF find_message, truth
<1>3. /\ f \in Jobs /\ f.step = j.step /\ f.req = j.req /\ f.st = j.st /\ f.ok = j.ok
      /\ f.post <= Len(posts) /\ (f.post = 0 => posts = <<>>)
  BY <1>1, FoundSound DEF Sound
<1> HIDE DEF f
<1>4. /\ k \in Jobs /\ k.step = "post" /\ k.req = f.req /\ k.st = f.st /\ k.post = f.post
      /\ k.ok = f.ok
  BY <1>3 DEF Jobs, Steps
<1> HIDE DEF k
<1>5. k.post = 0 => \A i \in 1..Len(posts) : posts[i].by # g
  BY <1>3, <1>4
<1>6. Sound(g, k, pr, posts)
  BY <1>1, <1>2, <1>3, <1>4, <1>5 DEF Sound
<1> QED BY <1>2, <1>6, QuietStep DEF IInv

LEMMA BackfillStep ==
  ASSUME IInv, Backfill
  PROVE  MirrorInv'
<1> DEFINE g == "backfill"
           j == job[g]
<1>1. g \in Groups
  BY DEF Groups
<1>2. /\ j \in Jobs /\ Sound(g, j, pr, posts) /\ posts \in Seq(Posts) /\ Len(posts) \in Nat
      /\ Distinct(posts) /\ pr \in PullRequests
  BY <1>1 DEF IInv, MirrorInv, GitHubTypes
<1>3. UNCHANGED <<pr, queue, posts>> /\ j.step \in {"read", "find"}
  BY DEF Backfill, topic_message_index, ListedState, truth
<1>4. \A i \in 1..Len(posts) : posts[i].by # g
  BY <1>2 DEF Distinct
<1>5. PICK e \in Jobs, step \in {"find", "post"} :
        /\ Set(g, [e EXCEPT !.step = step])
        /\ e.req = j.req /\ e.ok = j.ok /\ e.post <= Len(posts)
        /\ e.st \in {j.st, pr}
        /\ step = "post" => e.st \in PullRequests
  <2>1. CASE topic_message_index
    <3> DEFINE f == Found(j)
               step == IF j.step = "read" THEN "find" ELSE "post"
    <3>1. f \in Jobs /\ f.req = j.req /\ f.ok = j.ok /\ f.st = j.st /\ f.post <= Len(posts)
      BY <1>1, <1>2, FoundSound DEF Sound
    <3>2. step = "post" => j.st # NoRequest
      BY <2>1 DEF topic_message_index
    <3>3. j.st \in PullRequests \cup {NoRequest}
      BY <1>2 DEF Jobs
    <3>4. Set(g, [f EXCEPT !.step = step])
      BY <2>1 DEF topic_message_index
    <3>5. step \in {"find", "post"}
      OBVIOUS
    <3> HIDE DEF f, step
    <3> QED BY <3>1, <3>2, <3>3, <3>4, <3>5
  <2>2. CASE ListedState
    <3> DEFINE f == [j EXCEPT !.st = pr]
               step == IF j.step = "read" THEN "find" ELSE "post"
    <3>1. f \in Jobs /\ f.req = j.req /\ f.ok = j.ok /\ f.st = pr /\ f.post = j.post
      BY <1>2 DEF Jobs
    <3>2. [f EXCEPT !.step = step] = [j EXCEPT !.step = step, !.st = pr]
      BY <1>2 DEF Jobs
    <3>3. Set(g, [j EXCEPT !.step = step, !.st = pr])
      BY <2>2 DEF ListedState
    <3>4. step \in {"find", "post"}
      OBVIOUS
    <3>5. j.post <= Len(posts)
      BY <1>2 DEF Sound
    <3> HIDE DEF f, step
    <3> QED BY <1>2, <3>1, <3>2, <3>3, <3>4, <3>5
  <2> QED BY <2>1, <2>2 DEF Backfill
<1> DEFINE k == [e EXCEPT !.step = step]
<1>6. /\ k \in Jobs /\ k.step = step /\ k.req = e.req /\ k.st = e.st /\ k.post = e.post
      /\ k.ok = e.ok
  BY <1>5 DEF Jobs, Steps
<1>7. Set(g, k)
  BY <1>5
<1> HIDE DEF k
<1>8. Sound(g, k, pr, posts)
  BY <1>2, <1>3, <1>4, <1>5, <1>6 DEF Sound
<1> QED BY <1>1, <1>3, <1>7, <1>8, QuietStep DEF IInv

LEMMA SendStep ==
  ASSUME IInv, NEW g \in Groups, send_message(g)
  PROVE  MirrorInv'
<1> DEFINE j == job[g]
           m == Sent(g)
           n == Len(posts)
           k == [j EXCEPT !.step = "derive", !.post = n + 1]
<1>1. /\ j \in Jobs /\ Sound(g, j, pr, posts) /\ posts \in Seq(Posts) /\ n \in Nat
      /\ Distinct(posts)
  BY DEF IInv, MirrorInv
<1>2. /\ j.step = "post" /\ j.post = 0 /\ MayCreate(j) /\ posts' = Append(posts, m)
      /\ Set(g, [j EXCEPT !.step = "derive", !.post = Len(posts')])
      /\ UNCHANGED <<pr, queue>>
  BY DEF send_message, truth
<1>3. /\ posts' \in Seq(Posts) => Len(posts') = n + 1
  BY <1>1, <1>2
<1>4. j.req.create # "no"
  BY <1>2 DEF MayCreate
<1>5. g \in Heads /\ g # "backfill"
  BY <1>1, <1>2, <1>4, HeadsAssumption DEF Sound, Groups
<1>6. j.st \in PullRequests
  BY <1>1, <1>2 DEF Sound
<1>7. m \in Posts /\ m.by = g
  BY <1>6 DEF Sent, Posts, PullRequests
<1>8. posts' \in Seq(Posts) /\ Len(posts') = n + 1
  BY <1>1, <1>2, <1>7
<1>9. Set(g, k)
  BY <1>2, <1>8
<1>10. \A i \in 1..Len(posts) : posts[i].by # g
  BY <1>1, <1>2 DEF Sound
<1>11. Distinct(posts')
  BY <1>1, <1>2, <1>5, <1>7, <1>10, Distincter
<1>12. \A h \in Groups \ {g} : Sound(h, job[h], pr, posts')
  BY <1>1, <1>2, <1>7, OneMore DEF IInv, MirrorInv
<1>13. n + 1 \in Nat /\ n + 1 # 0 /\ n + 1 <= n + 1
  BY <1>1
<1> HIDE DEF n
<1>14. /\ k \in Jobs /\ k.step = "derive" /\ k.req = j.req /\ k.st = j.st /\ k.post = n + 1
       /\ k.ok = j.ok
  BY <1>1, <1>13 DEF Jobs, Steps
<1> HIDE DEF k
<1>15. Sound(g, k, pr, posts')
  BY <1>1, <1>2, <1>8, <1>13, <1>14 DEF Sound
<1> QED BY <1>2, <1>8, <1>9, <1>11, <1>12, <1>15, JobStep DEF IInv

\* Only who sent a post does not change.
LEMMA Edited ==
  ASSUME NEW s \in Seq(Posts), NEW n \in 1..Len(s), NEW m \in Posts, m.by = s[n].by
  PROVE  /\ [s EXCEPT ![n] = m] \in Seq(Posts)
         /\ Len([s EXCEPT ![n] = m]) = Len(s)
         /\ \A i \in 1..Len(s) : [s EXCEPT ![n] = m][i].by = s[i].by
<1> DEFINE t == [s EXCEPT ![n] = m]
<1>1. t \in Seq(Posts) /\ Len(t) = Len(s)
  OBVIOUS
<1>2. ASSUME NEW i \in 1..Len(s) PROVE t[i].by = s[i].by
  <2>1. CASE i = n
    BY <2>1
  <2>2. CASE i # n
    BY <2>2
  <2> QED BY <2>1, <2>2
<1> QED BY <1>1, <1>2

LEMMA UpdateStep ==
  ASSUME IInv, NEW g \in Groups, update_message(g)
  PROVE  MirrorInv'
<1> DEFINE j == job[g]
           k == [j EXCEPT !.step = "derive"]
<1>1. /\ j \in Jobs /\ Sound(g, j, pr, posts) /\ posts \in Seq(Posts) /\ Len(posts) \in Nat
  BY DEF IInv, MirrorInv
<1>2. /\ j.step = "post" /\ j.post # 0 /\ Set(g, k)
      /\ posts' = IF j.text = j.st.content THEN posts
                  ELSE [posts EXCEPT ![j.post].content = j.st.content]
      /\ UNCHANGED <<pr, queue>>
  BY DEF update_message, truth
<1>3. j.st.content \in Contents
  BY <1>1, <1>2 DEF Sound, PullRequests
<1>4. /\ posts' \in Seq(Posts) /\ Len(posts') = Len(posts)
      /\ \A i \in 1..Len(posts) : posts'[i].by = posts[i].by
  <2> DEFINE c == j.st.content
             n == j.post
  <2>1. CASE j.text = j.st.content
    BY <1>1, <1>2, <2>1
  <2>2. CASE j.text # j.st.content
    <3>1. posts' = [posts EXCEPT ![n].content = c] /\ c \in Contents
      BY <1>2, <1>3, <2>2
    <3>2. n \in 1..Len(posts) /\ posts[n] \in Posts
      BY <1>1, <1>2 DEF Sound, Jobs
    <3>3. [posts[n] EXCEPT !.content = c] \in Posts
          /\ [posts[n] EXCEPT !.content = c].by = posts[n].by
      BY <3>1, <3>2 DEF Posts
    <3> HIDE DEF c, n
    <3> QED BY <1>1, <3>1, <3>2, <3>3, Edited
  <2> QED BY <2>1, <2>2
<1>5. /\ k \in Jobs /\ k.step = "derive" /\ k.req = j.req /\ k.st = j.st /\ k.post = j.post
      /\ k.ok = j.ok
  BY <1>1 DEF Jobs, Steps
<1> HIDE DEF k
<1>6. Sound(g, k, pr, posts)
  BY <1>1, <1>2, <1>5 DEF Sound
<1> QED BY <1>2, <1>4, <1>6, EditStep DEF IInv

\* What core.derive may come to
LEMMA DeriveType ==
  ASSUME NEW st \in PullRequests, NEW ci \in BuildStates, NEW rev \in ReviewStates
  PROVE  derive(st, ci, rev) \in [review : SUBSET EMOJI, ci : SUBSET EMOJI]
<1>1. REVIEW_GROUP[1] = "eyes" /\ REVIEW_GROUP[3] = "writing" /\ REVIEW_GROUP[4] = "check"
      /\ REVIEW_GROUP[5] = "merge" /\ REVIEW_GROUP[6] = "closed-pr"
      /\ DOMAIN REVIEW_GROUP = 1..6 /\ DOMAIN CI_GROUP = 1..3
      /\ CI_GROUP[1] = "yellow" /\ CI_GROUP[2] = "green_circle" /\ CI_GROUP[3] = "red_circle"
  BY DEF REVIEW_GROUP, CI_GROUP
<1>2. /\ {"eyes", "writing", "check", "merge", "closed-pr"} \subseteq EMOJI
      /\ {"yellow", "green_circle", "red_circle"} \subseteq EMOJI
  BY <1>1 DEF EMOJI, InGroup
<1>3. review_emoji[rev] \in SUBSET EMOJI
  BY <1>2 DEF review_emoji, ReviewStates
<1>4. CI_EMOJI[ci] \in EMOJI
  BY <1>2 DEF CI_EMOJI, BuildStates
<1>5. {CI_EMOJI[ci]} \in SUBSET EMOJI /\ {"merge"} \in SUBSET EMOJI
      /\ {"closed-pr"} \in SUBSET EMOJI
  BY <1>2, <1>4
<1>6. st.life \in {"open", "closed", "merged"}
  BY DEF PullRequests
<1>7. CASE st.life = "merged"
  BY <1>5, <1>7 DEF derive
<1>8. CASE st.life = "closed"
  BY <1>5, <1>8 DEF derive
<1>9. CASE st.life = "open"
  BY <1>3, <1>5, <1>9 DEF derive
<1> QED BY <1>6, <1>7, <1>8, <1>9

LEMMA DeriveStep ==
  ASSUME IInv, NEW g \in Groups, Derive(g)
  PROVE  MirrorInv'
<1> DEFINE j == job[g]
           ci == IF j.req.running THEN "running" ELSE build[j.st.head]
           want == derive(j.st, ci, review[j.st.head])
           k == [j EXCEPT !.step = "review", !.want = want]
<1>1. j \in Jobs /\ Sound(g, j, pr, posts) /\ j.step = "derive" /\ Set(g, k)
      /\ UNCHANGED <<pr, queue, posts>>
  BY DEF IInv, MirrorInv, Derive, truth
<1>2. j.st \in PullRequests /\ j.st.head \in Heads
  BY <1>1 DEF Sound, PullRequests
<1>3. ci \in BuildStates /\ review[j.st.head] \in ReviewStates
  BY <1>2 DEF IInv, GitHubTypes, BuildStates
<1> HIDE DEF ci
<1>4. want \in [review : SUBSET EMOJI, ci : SUBSET EMOJI]
  BY <1>2, <1>3, DeriveType
<1> HIDE DEF want
<1>5. /\ k \in Jobs /\ k.step = "review" /\ k.req = j.req /\ k.st = j.st /\ k.post = j.post
      /\ k.ok = j.ok
  BY <1>1, <1>4 DEF Jobs, Steps
<1> HIDE DEF k
<1>6. Sound(g, k, pr, posts)
  BY <1>1, <1>5 DEF Sound
<1> QED BY <1>1, <1>6, QuietStep DEF IInv

\* One more reaction on the post, or one less, and the job's own record of them
LEMMA ReactStep ==
  ASSUME IInv, NEW g \in Groups, job[g].step \in {"review", "ci"},
         NEW there \in SUBSET EMOJI, NEW mine \in SUBSET EMOJI,
         posts' = [posts EXCEPT ![job[g].post].reactions = there],
         Set(g, [job[g] EXCEPT !.mine = mine]), UNCHANGED <<pr, queue>>
  PROVE  MirrorInv'
<1> DEFINE j == job[g]
           n == j.post
           k == [j EXCEPT !.mine = mine]
<1>1. /\ j \in Jobs /\ Sound(g, j, pr, posts) /\ posts \in Seq(Posts) /\ Len(posts) \in Nat
      /\ Set(g, k)
  BY DEF IInv, MirrorInv
<1>2. posts' = [posts EXCEPT ![n].reactions = there] /\ n \in 1..Len(posts)
  BY <1>1 DEF Sound, Jobs
<1> DEFINE m == [posts[n] EXCEPT !.reactions = there]
           r == [posts EXCEPT ![n] = m]
<1>3. m \in Posts /\ m.by = posts[n].by
  <2> DEFINE old == posts[n]
  <2>1. old \in Posts
    BY <1>1, <1>2
  <2> HIDE DEF old, n
  <2>2. [old EXCEPT !.reactions = there] \in Posts /\ [old EXCEPT !.reactions = there].by = old.by
    BY <2>1 DEF Posts
  <2> QED BY <2>2 DEF old
<1>4. /\ k \in Jobs /\ k.step = j.step /\ k.req = j.req /\ k.st = j.st /\ k.post = j.post
      /\ k.ok = j.ok
  BY <1>1 DEF Jobs
<1>5. posts' = r
  BY <1>2
<1>6. posts \in Seq(Posts) /\ n \in 1..Len(posts)
  BY <1>1, <1>2
<1> HIDE DEF n, k, m
<1>7. /\ r \in Seq(Posts) /\ Len(r) = Len(posts)
      /\ \A i \in 1..Len(posts) : r[i].by = posts[i].by
  BY <1>3, <1>6, Edited
<1> HIDE DEF r
<1>8. /\ posts' \in Seq(Posts) /\ Len(posts') = Len(posts)
      /\ \A i \in 1..Len(posts) : posts'[i].by = posts[i].by
  BY <1>5, <1>7, Zenon
<1>9. Sound(g, k, pr, posts)
  BY <1>1, <1>4 DEF Sound
<1> QED BY <1>1, <1>8, <1>9, EditStep DEF IInv

LEMMA GroupStep ==
  ASSUME IInv, NEW g \in Groups, job[g].step \in {"review", "ci"}, NEW group,
         NEW want \in SUBSET EMOJI,
         remove_reaction(g, group, want) \/ add_reaction(g, group, want)
  PROVE  MirrorInv'
<1> DEFINE j == job[g]
           n == j.post
           has == posts[n].reactions
<1>1. /\ j \in Jobs /\ Sound(g, j, pr, posts) /\ posts \in Seq(Posts) /\ Len(posts) \in Nat
  BY DEF IInv, MirrorInv
<1>2. n \in 1..Len(posts)
  BY <1>1 DEF Sound, Jobs
<1>3. posts[n] \in Posts
  BY <1>1, <1>2
<1>4. has \in SUBSET EMOJI /\ j.mine \in SUBSET EMOJI
  BY <1>1, <1>3 DEF Posts, Jobs
<1>5. CASE remove_reaction(g, group, want)
  <2> DEFINE name == First(group, Superfluous(group, j, want))
             there == has \ {name}
             mine == j.mine \ {name}
  <2>1. there \in SUBSET EMOJI /\ mine \in SUBSET EMOJI
    BY <1>4
  <2>2. /\ posts' = [posts EXCEPT ![n].reactions = there]
        /\ Set(g, [j EXCEPT !.mine = mine]) /\ UNCHANGED <<pr, queue>>
    BY <1>5 DEF remove_reaction, truth
  <2> HIDE DEF there, mine
  <2> QED BY <2>1, <2>2, ReactStep
<1>6. CASE add_reaction(g, group, want)
  <2> DEFINE there == has \cup want
             mine == j.mine \cup want
  <2>1. there \in SUBSET EMOJI /\ mine \in SUBSET EMOJI
    BY <1>4
  <2>2. /\ posts' = [posts EXCEPT ![n].reactions = there]
        /\ Set(g, [j EXCEPT !.mine = mine]) /\ UNCHANGED <<pr, queue>>
    BY <1>6 DEF add_reaction, truth
  <2> HIDE DEF there, mine
  <2> QED BY <2>1, <2>2, ReactStep
<1> QED BY <1>5, <1>6

LEMMA ReactionsStep ==
  ASSUME IInv, NEW g \in Groups, set_review_group(g) \/ set_ci_group(g)
  PROVE  MirrorInv' /\ settled' \in BOOLEAN /\ UNCHANGED <<lost, changes, faults>>
<1> DEFINE j == job[g]
<1>1. /\ j \in Jobs /\ Sound(g, j, pr, posts) /\ settled \in BOOLEAN
      /\ j.want.review \in SUBSET EMOJI /\ j.want.ci \in SUBSET EMOJI /\ j.ok \in BOOLEAN
  BY DEF IInv, MirrorInv, HistoryTypes, Jobs
<1>2. CASE set_review_group(g)
  <2>1. CASE remove_reaction(g, REVIEW_GROUP, j.want.review)
             \/ add_reaction(g, REVIEW_GROUP, j.want.review)
    <3>1. MirrorInv'
      BY <1>1, <1>2, <2>1, GroupStep DEF set_review_group
    <3> QED BY <1>1, <2>1, <3>1 DEF remove_reaction, add_reaction, history
  <2>2. CASE /\ Set(g, [j EXCEPT !.step = "ci"])
             /\ UNCHANGED <<truth, posts, queue, history>>
    <3> DEFINE k == [j EXCEPT !.step = "ci"]
    <3>1. /\ k \in Jobs /\ k.step = "ci" /\ k.req = j.req /\ k.st = j.st /\ k.post = j.post
          /\ k.ok = j.ok
      BY <1>1 DEF Jobs, Steps
    <3>2. Set(g, k) /\ UNCHANGED <<pr, posts, queue, settled, lost, changes, faults>>
      BY <2>2 DEF truth, history
    <3>3. j.step = "review"
      BY <1>2 DEF set_review_group
    <3> HIDE DEF k
    <3>4. Sound(g, k, pr, posts)
      BY <1>1, <3>1, <3>3 DEF Sound
    <3>5. MirrorInv'
      BY <3>2, <3>4, QuietStep DEF IInv
    <3> QED BY <1>1, <3>2, <3>5
  <2> QED BY <1>2, <2>1, <2>2 DEF set_review_group
<1>3. CASE set_ci_group(g)
  <2>1. CASE remove_reaction(g, CI_GROUP, j.want.ci) \/ add_reaction(g, CI_GROUP, j.want.ci)
    <3>1. MirrorInv'
      BY <1>1, <1>3, <2>1, GroupStep DEF set_ci_group
    <3> QED BY <1>1, <2>1, <3>1 DEF remove_reaction, add_reaction, history
  <2>2. CASE /\ Set(g, Idle) /\ settled' = Saw(j)
             /\ UNCHANGED <<truth, posts, queue, lost, changes, faults>>
    <3>1. MirrorInv'
      BY <2>2, IdleStep DEF IInv, truth
    <3>2. Saw(j) \in BOOLEAN
      BY DEF Saw
    <3> QED BY <2>2, <3>1, <3>2
  <2> QED BY <1>3, <2>1, <2>2 DEF set_ci_group
<1> QED BY <1>2, <1>3

LEMMA FailStep ==
  ASSUME IInv, NEW g \in Groups, Fail(g)
  PROVE  IInv'
<1>1. MirrorInv'
  BY IdleStep DEF Fail, truth, IInv
<1>2. faults' \in 0..MaxFaults
  <2>1. faults \in Nat /\ faults < MaxFaults /\ faults' = faults + 1 /\ MaxFaults \in Nat
    BY BoundsAssumption DEF IInv, HistoryTypes, Fail
  <2> QED BY <2>1
<1>3. HistoryTypes'
  BY <1>2 DEF IInv, HistoryTypes, Fail
<1>4. GitHubTypes'
  BY DEF IInv, GitHubTypes, Fail, truth
<1> QED BY <1>1, <1>3, <1>4 DEF IInv

-------------------------------------------------------------------------------
(* The invariant                                                           *)

LEMMA IInvInit == Init => IInv
<1> SUFFICES ASSUME Init PROVE IInv
  OBVIOUS
<1>1. GitHubTypes
  <2>1. pr \in PullRequests
    BY HeadsAssumption, ContentsAssumption DEF Init, PullRequests
  <2>2. "none" \in BuildStates \ {"running"} /\ "pending" \in ReviewStates
    BY DEF BuildStates, ReviewStates
  <2>3. build \in [Heads -> BuildStates \ {"running"}] /\ review \in [Heads -> ReviewStates]
    BY <2>2 DEF Init
  <2>4. building \in SUBSET Heads /\ changes \in 0..MaxChanges
    BY BoundsAssumption DEF Init
  <2> QED BY <2>1, <2>3, <2>4 DEF GitHubTypes
<1>2. HistoryTypes
  <2>1. settled = FALSE /\ lost = FALSE /\ faults = 0
    BY DEF Init
  <2>2. faults \in 0..MaxFaults
    BY <2>1, BoundsAssumption
  <2> QED BY <2>1, <2>2 DEF HistoryTypes
<1>3. FirstHead \in Groups /\ FirstHead # "backfill"
  BY HeadsAssumption DEF Groups
<1>4. pr \in PullRequests
  BY <1>1 DEF GitHubTypes
<1>5. posts \in Seq(Posts) /\ Distinct(posts)
  <2>1. CASE posts = <<>>
    BY <2>1 DEF Distinct
  <2>2. CASE posts # <<>>
    <3>1. PICK c \in Contents :
            posts = <<[content |-> c, reactions |-> {"play"}, by |-> FirstHead]>>
      BY <2>2 DEF Init
    <3>2. "play" \in EMOJI
      <4>1. REVIEW_GROUP[2] = "play" /\ 2 \in DOMAIN REVIEW_GROUP
        BY DEF REVIEW_GROUP
      <4> QED BY <4>1 DEF EMOJI, InGroup
    <3>3. [content |-> c, reactions |-> {"play"}, by |-> FirstHead] \in Posts
      BY <1>3, <3>2 DEF Posts
    <3> DEFINE m == [content |-> c, reactions |-> {"play"}, by |-> FirstHead]
    <3>4. m \in Posts /\ m.by # "backfill" /\ posts = <<m>>
      BY <1>3, <3>1, <3>3
    <3> HIDE DEF m
    <3> QED BY <3>4 DEF Distinct
  <2> QED BY <2>1, <2>2
<1>6. job \in [Groups -> Jobs] /\ \A g \in Groups : Sound(g, job[g], pr, posts)
  <2>1. \A g \in Groups : job[g] = Idle
    BY DEF Init
  <2>2. job = [g \in Groups |-> Idle]
    BY DEF Init
  <2> QED BY <1>5, <2>1, <2>2, IdleType, IdleSound
<1>7. queue \in [Groups -> Requests \cup {NoRequest}]
      /\ \A g \in Groups : Due(g, queue[g], pr)
  <2>1. CASE queue = [g \in Groups |-> NoRequest]
    BY <2>1 DEF Due
  <2>2. CASE queue # [g \in Groups |-> NoRequest]
    <3> DEFINE q == Request("yes", FALSE, pr, FALSE)
    <3>1. q \in Requests /\ q.payload = pr
      BY <1>4 DEF Request, Requests
    <3>2. queue = [[g \in Groups |-> NoRequest] EXCEPT ![FirstHead] = q]
      BY <2>2 DEF Init
    <3> HIDE DEF q
    <3> QED BY <1>3, <3>1, <3>2 DEF Due
  <2> QED BY <2>1, <2>2
<1> QED BY <1>1, <1>2, <1>5, <1>6, <1>7 DEF IInv, MirrorInv

LEMMA IInvStep == IInv /\ [Next]_vars => IInv'
<1> SUFFICES ASSUME IInv, [Next]_vars PROVE IInv'
  OBVIOUS
<1>1. CASE GitHub
  BY <1>1, GitHubStep
<1>2. ASSUME NEW g \in Groups, Reconcile(g) PROVE IInv'
  <2>1. MirrorInv' /\ settled' \in BOOLEAN /\ UNCHANGED <<lost, changes, faults>>
    <3>1. CASE Start(g)
      BY <3>1, StartStep DEF IInv, Start
    <3>2. CASE Nothing(g)
      <4>1. Set(g, Idle) /\ UNCHANGED <<pr, queue, posts, lost, changes, faults>>
            /\ settled' = job[g].ok
        BY <3>2 DEF Nothing, truth
      <4>2. job[g].ok \in BOOLEAN
        BY DEF IInv, MirrorInv, Jobs
      <4> QED BY <4>1, <4>2, IdleStep DEF IInv
    <3>3. CASE g # "backfill" /\ (Resolve(g) \/ pr_state(g))
      <4>1. UNCHANGED <<settled, lost, changes, faults>>
        BY <3>3 DEF Resolve, pr_state, history
      <4> QED BY <3>3, <4>1, ResolveStep DEF IInv, HistoryTypes
    <3>4. CASE g # "backfill" /\ find_message(g)
      <4>1. UNCHANGED <<settled, lost, changes, faults>>
        BY <3>4 DEF find_message, history
      <4> QED BY <3>4, <4>1, FindStep DEF IInv, HistoryTypes
    <3>5. CASE Backfill
      <4>1. UNCHANGED <<settled, lost, changes, faults>>
        BY <3>5 DEF Backfill, topic_message_index, ListedState, history
      <4> QED BY <3>5, <4>1, BackfillStep DEF IInv, HistoryTypes
    <3>6. CASE send_message(g)
      <4>1. UNCHANGED <<settled, lost, changes, faults>>
        BY <3>6 DEF send_message, history
      <4> QED BY <3>6, <4>1, SendStep DEF IInv, HistoryTypes
    <3>7. CASE update_message(g)
      <4>1. UNCHANGED <<settled, lost, changes, faults>>
        BY <3>7 DEF update_message, history
      <4> QED BY <3>7, <4>1, UpdateStep DEF IInv, HistoryTypes
    <3>8. CASE Derive(g)
      <4>1. UNCHANGED <<settled, lost, changes, faults>>
        BY <3>8 DEF Derive, history
      <4> QED BY <3>8, <4>1, DeriveStep DEF IInv, HistoryTypes
    <3>9. CASE set_review_group(g) \/ set_ci_group(g)
      BY <3>9, ReactionsStep
    <3> QED BY <1>2, <3>1, <3>2, <3>3, <3>4, <3>5, <3>6, <3>7, <3>8, <3>9 DEF Reconcile
  <2>2. UNCHANGED truth
    BY <1>2 DEF Reconcile, Start, Nothing, Resolve, pr_state, find_message, Backfill,
                topic_message_index, ListedState, send_message, update_message, Derive,
                set_review_group, set_ci_group, remove_reaction, add_reaction
  <2> QED BY <2>1, <2>2 DEF IInv, GitHubTypes, HistoryTypes, truth
<1>3. ASSUME NEW g \in Groups, Fail(g) PROVE IInv'
  BY <1>3, FailStep
<1>4. CASE UNCHANGED vars
  <2>1. UNCHANGED <<pr, build, building, review, posts, queue, job, settled, lost, changes, faults>>
    BY <1>4 DEF vars, truth, history
  <2> QED BY <2>1 DEF IInv, GitHubTypes, HistoryTypes, MirrorInv
<1> QED BY <1>1, <1>2, <1>3, <1>4 DEF Next

LEMMA Invariance == Spec => []IInv
BY IInvInit, IInvStep, PTL DEF Spec

-------------------------------------------------------------------------------
(* What the mirror promises                                                *)

\* Every variable has its type.
THEOREM Typed == Spec => []TypeOK
<1>1. IInv => TypeOK
  BY DEF IInv, GitHubTypes, HistoryTypes, MirrorInv, TypeOK
<1> QED BY <1>1, Invariance, PTL

\* The jobs of one head never post twice about a pull request, whatever fails
\* (zulip.py:237-243).
THEOREM PostedOncePerHead == Spec => []OnePostPerHead
<1>1. IInv => OnePostPerHead
  <2> SUFFICES ASSUME IInv PROVE OnePostPerHead
    OBVIOUS
  <2>1. posts \in Seq(Posts) /\ Distinct(posts)
    BY DEF IInv, MirrorInv
  <2>2. DOMAIN posts = 1..Len(posts)
    BY <2>1
  <2> QED BY <2>1, <2>2 DEF Distinct, OnePostPerHead
<1> QED BY <1>1, Invariance, PTL

\* A label event announces only a pull request that is open, unless it was closed
\* while the job ran (zulip-pr.yml:81-89).
THEOREM AnnouncedWhileOpen == Spec => NoLatePost
<1> DEFINE Late(g) ==
      /\ Len(posts') > Len(posts) /\ job'[g] # job[g] /\ job[g].req.create = "open"
      /\ ~(pr.life = "open" \/ ~job[g].ok)
<1>1. ASSUME IInv, Next, NEW g \in Groups, Late(g) PROVE FALSE
  <2>1. posts \in Seq(Posts) /\ Len(posts) \in Nat /\ job \in [Groups -> Jobs]
    BY <1>1 DEF IInv, MirrorInv
  <2>2. posts' # posts
    BY <1>1, <2>1
  <2>3. PICK h \in Groups : send_message(h)
    <3>1. ~GitHub
      BY <2>2 DEF GitHub, Push, BuildStarts, BuildEnds, Review, Relabel, Reopen, Close, Change,
                  DispatchBackfill
    <3>2. PICK h \in Groups : Reconcile(h) \/ Fail(h)
      BY <1>1, <3>1 DEF Next
    <3>3. send_message(h) \/ Len(posts') = Len(posts)
      <4>1. CASE send_message(h) \/ UNCHANGED posts
        BY <4>1
      <4>2. CASE update_message(h)
        BY <2>1, <2>2, <4>2 DEF update_message
      <4>3. CASE set_review_group(h) \/ set_ci_group(h)
        BY <2>1, <2>2, <4>3 DEF set_review_group, set_ci_group, remove_reaction, add_reaction
      <4> QED BY <3>2, <4>1, <4>2, <4>3 DEF Reconcile, Start, Nothing, Resolve, pr_state,
                find_message, Backfill, topic_message_index, ListedState, Derive, Fail
    <3> QED BY <1>1, <2>1, <3>3
  <2>4. g = h
    BY <1>1, <2>1, <2>3 DEF send_message, Set
  <2>5. job[g].st.life = "open"
    BY <1>1, <2>3, <2>4 DEF send_message, MayCreate
  <2>6. job[g].st = pr
    <3>1. Sound(g, job[g], pr, posts) /\ job[g].step = "post"
      BY <1>1, <2>3, <2>4 DEF IInv, MirrorInv, send_message
    <3>2. job[g].st \in PullRequests /\ job[g].ok
      BY <1>1, <3>1 DEF Sound
    <3> QED BY <3>1, <3>2, NoRequestAssumption DEF Sound
  <2> QED BY <1>1, <2>5, <2>6
<1>2. IInv /\ [Next]_vars => [\A g \in Groups : ~Late(g)]_vars
  BY <1>1
<1>3. [\A g \in Groups : ~Late(g)]_vars => [\A g \in Groups :
          Len(posts') > Len(posts) /\ job'[g] # job[g] /\ job[g].req.create = "open"
             => pr.life = "open" \/ ~job[g].ok]_vars
  OBVIOUS
<1> HIDE DEF Late
<1> QED BY <1>2, <1>3, Invariance, PTL DEF Spec, NoLatePost

-------------------------------------------------------------------------------
(* What an undisturbed job knows                                           *)

\* Before it has looked, a job knows of no post; it wants reactions of the two
\* groups; and those of the review are in place when it comes to those of CI.
Own(j) ==
    /\ j.step = "idle" => ~j.ok
    /\ j.post = 0 => j.mine = {}
    /\ j.step \in {"resolve", "read"} => j.post = 0 /\ j.st = NoRequest
    /\ j.step = "find" /\ j.st # NoRequest => j.post = 0
    /\ j.step \in {"review", "ci"} =>
          j.want.review \subseteq InGroup(REVIEW_GROUP) /\ j.want.ci \subseteq InGroup(CI_GROUP)
    /\ j.step = "ci" => j.mine \cap InGroup(REVIEW_GROUP) = j.want.review

\* It has searched the topic, and not yet edited the post.
Looked(j) == j.step = "post" \/ (j.step = "find" /\ j.st = NoRequest)

\* An undisturbed job j knows the oldest of the posts s as it is.
Knows(j, s) ==
    j.ok =>
        /\ Looked(j) => IF s = <<>> THEN j.post = 0
                        ELSE j.post = 1 /\ j.text = s[1].content /\ j.mine = s[1].reactions
        /\ j.step \in {"derive", "review", "ci"} =>
              j.post = 1 /\ s # <<>> /\ s[1].content = j.st.content /\ s[1].reactions = j.mine

\* A request that says that the build runs is true while nothing changes; one
\* whose number has to be found brings no pull request along.
Told(q) ==
    q # NoRequest => /\ q.running /\ q.ok => pr.head \in building
                     /\ q.resolve => q.payload = NoRequest

Right(want) == \E ci \in RightCi : want = derive(pr, ci, review[pr.head])

Judged(j) ==
    Saw(j) => /\ j.step # "idle" => j.req # NoRequest /\ Told(j.req)
              /\ j.step \in {"review", "ci"} => Right(j.want)

Shown ==
    /\ posts[1].content = pr.content
    /\ \E ci \in RightCi :
          posts[1].reactions = derive(pr, ci, review[pr.head]).review
                               \cup derive(pr, ci, review[pr.head]).ci

Quiet == \A g \in Groups : job[g].step = "idle"

SeenInv ==
    /\ \A g \in Groups : Own(job[g]) /\ Knows(job[g], posts) /\ Judged(job[g])
    /\ \A g \in Groups : Told(queue[g])
    /\ \A g \in Groups : \A h \in Groups \ {g} : job[g].ok => job[h].step = "idle"
    /\ settled => Quiet /\ (posts # <<>> => Shown)

LEMMA Emojis ==
  /\ InGroup(CI_GROUP) = {"yellow", "green_circle", "red_circle"}
  /\ InGroup(REVIEW_GROUP) = {"eyes", "play", "writing", "check", "merge", "closed-pr"}
  /\ InGroup(CI_GROUP) \cap InGroup(REVIEW_GROUP) = {}
  /\ EMOJI = InGroup(CI_GROUP) \cup InGroup(REVIEW_GROUP)
<1>1. DOMAIN CI_GROUP = 1..3 /\ CI_GROUP[1] = "yellow" /\ CI_GROUP[2] = "green_circle"
      /\ CI_GROUP[3] = "red_circle"
  BY DEF CI_GROUP
<1>2. /\ DOMAIN REVIEW_GROUP = 1..6
      /\ REVIEW_GROUP[1] = "eyes" /\ REVIEW_GROUP[2] = "play" /\ REVIEW_GROUP[3] = "writing"
      /\ REVIEW_GROUP[4] = "check" /\ REVIEW_GROUP[5] = "merge"
      /\ REVIEW_GROUP[6] = "closed-pr"
  BY DEF REVIEW_GROUP
<1>3. InGroup(CI_GROUP) = {"yellow", "green_circle", "red_circle"}
  <2>1. \A i \in 1..3 : i = 1 \/ i = 2 \/ i = 3
    OBVIOUS
  <2>2. 1 \in 1..3 /\ 2 \in 1..3 /\ 3 \in 1..3
    OBVIOUS
  <2> QED BY <1>1, <2>1, <2>2 DEF InGroup
<1>4. InGroup(REVIEW_GROUP) = {"eyes", "play", "writing", "check", "merge", "closed-pr"}
  <2>1. \A i \in 1..6 : i = 1 \/ i = 2 \/ i = 3 \/ i = 4 \/ i = 5 \/ i = 6
    OBVIOUS
  <2>2. 1 \in 1..6 /\ 2 \in 1..6 /\ 3 \in 1..6 /\ 4 \in 1..6 /\ 5 \in 1..6 /\ 6 \in 1..6
    OBVIOUS
  <2> QED BY <1>2, <2>1, <2>2 DEF InGroup
<1>5. InGroup(CI_GROUP) \cap InGroup(REVIEW_GROUP) = {}
  BY <1>3, <1>4
<1> QED BY <1>3, <1>4, <1>5 DEF EMOJI

\* The first of a group's emoji in a set is one of them.
LEMMA FirstInGroup ==
  ASSUME NEW S, S # {}, S \subseteq InGroup(CI_GROUP)
  PROVE  First(CI_GROUP, S) \in S
<1>1. DOMAIN CI_GROUP = 1..3
  BY DEF CI_GROUP
<1> DEFINE Least(i) == CI_GROUP[i] \in S /\ \A k \in 1..(i - 1) : CI_GROUP[k] \notin S
<1>2. \E i \in 1..3 : Least(i)
  <2>1. PICK n \in 1..3 : CI_GROUP[n] \in S
    BY <1>1 DEF InGroup
  <2>2. CASE CI_GROUP[1] \in S
    <3>1. Least(1)
      BY <2>2
    <3> QED BY <3>1
  <2>3. CASE CI_GROUP[1] \notin S /\ CI_GROUP[2] \in S
    <3>1. \A k \in 1..(2 - 1) : k = 1
      OBVIOUS
    <3>2. Least(2)
      BY <2>3, <3>1
    <3> QED BY <3>2
  <2>4. CASE CI_GROUP[1] \notin S /\ CI_GROUP[2] \notin S
    <3>1. n = 3
      BY <2>1, <2>4
    <3>2. \A k \in 1..(3 - 1) : k = 1 \/ k = 2
      OBVIOUS
    <3>3. Least(3)
      BY <2>1, <2>4, <3>1, <3>2
    <3> QED BY <3>3
  <2> QED BY <2>2, <2>3, <2>4
<1> DEFINE c == CHOOSE i \in DOMAIN CI_GROUP : Least(i)
<1>3. c \in 1..3 /\ Least(c)
  BY <1>1, <1>2, Zenon
<1>4. First(CI_GROUP, S) = CI_GROUP[c]
  BY DEF First
<1> QED BY <1>3, <1>4

\* What core.derive wants, by group
LEMMA DeriveGroups ==
  ASSUME NEW st \in PullRequests, NEW ci \in BuildStates, NEW rev \in ReviewStates
  PROVE  /\ derive(st, ci, rev).review \subseteq InGroup(REVIEW_GROUP)
         /\ derive(st, ci, rev).ci \subseteq InGroup(CI_GROUP)
<1>1. st.life \in {"open", "closed", "merged"}
  BY DEF PullRequests
<1>2. review_emoji[rev] \subseteq InGroup(REVIEW_GROUP)
  BY Emojis DEF review_emoji, ReviewStates
<1>3. CI_EMOJI[ci] \in InGroup(CI_GROUP)
  BY Emojis DEF CI_EMOJI, BuildStates
<1>4. CASE st.life = "merged"
  BY <1>4, Emojis DEF derive
<1>5. CASE st.life = "closed"
  BY <1>5, Emojis DEF derive
<1>6. CASE st.life = "open"
  BY <1>2, <1>3, <1>6 DEF derive
<1> QED BY <1>1, <1>4, <1>5, <1>6

\* What a change on GitHub makes of jobs, and a new request, if any
LEMMA AllForget ==
  ASSUME IInv, SeenInv, job' = [h \in Groups |-> [job[h] EXCEPT !.ok = FALSE]],
         settled' = FALSE, \A g \in Groups : Told(queue[g])'
  PROVE  SeenInv'
<1>1. ASSUME NEW g \in Groups
      PROVE  /\ Own(job'[g]) /\ Knows(job'[g], posts') /\ Judged(job[g])'
             /\ ~job'[g].ok
  <2> DEFINE j == job[g]
             k == [j EXCEPT !.ok = FALSE]
  <2>1. j \in Jobs /\ Own(j) /\ job'[g] = k
    BY DEF IInv, MirrorInv, SeenInv
  <2>2. /\ k.step = j.step /\ k.post = j.post /\ k.mine = j.mine /\ k.st = j.st
        /\ k.want = j.want /\ k.ok = FALSE
    BY <2>1 DEF Jobs
  <2> HIDE DEF k
  <2>3. Own(k)
    BY <2>1, <2>2 DEF Own
  <2>4. Knows(k, posts')
    BY <2>2 DEF Knows
  <2>5. ~job'[g].ok
    BY <2>1, <2>2
  <2>6. Judged(job[g])'
    BY <2>5 DEF Judged, Saw
  <2> QED BY <2>1, <2>3, <2>4, <2>5, <2>6
<1>2. \A g \in Groups : \A h \in Groups \ {g} : job'[g].ok => job'[h].step = "idle"
  BY <1>1
<1> QED BY <1>1, <1>2 DEF SeenInv

LEMMA Forgotten ==
  ASSUME NEW q \in Requests
  PROVE  /\ ~[q EXCEPT !.ok = FALSE].ok
         /\ [q EXCEPT !.ok = FALSE].resolve = q.resolve
         /\ [q EXCEPT !.ok = FALSE].payload = q.payload
BY DEF Requests

LEMMA ForgetSees ==
  ASSUME IInv, SeenInv, Forget(queue)
  PROVE  SeenInv'
<1>1. ASSUME NEW g \in Groups PROVE Told(queue[g])'
  <2>1. CASE queue[g] = NoRequest
    BY <2>1 DEF Forget, Told
  <2>2. CASE queue[g] # NoRequest
    <3>1. queue'[g] = [queue[g] EXCEPT !.ok = FALSE] /\ queue[g] \in Requests
      BY <2>2 DEF Forget, IInv, MirrorInv
    <3> QED BY <2>2, <3>1, Forgotten DEF Told, SeenInv
  <2> QED BY <2>1, <2>2
<1> QED BY <1>1, AllForget DEF Forget

LEMMA AskSees ==
  ASSUME IInv, SeenInv, NEW g \in Groups, NEW create, NEW running, NEW payload, NEW resolve,
         Ask(g, Request(create, running, payload, resolve)),
         running => pr'.head \in building', resolve => payload = NoRequest
  PROVE  SeenInv'
<1> DEFINE q == Request(create, running, payload, resolve)
<1>1. q.running = running /\ q.resolve = resolve /\ q.payload = payload
  BY DEF Request
<1>2. Ask(g, q)
  OBVIOUS
<1> HIDE DEF q
<1>3. ASSUME NEW h \in Groups PROVE Told(queue[h])'
  <2>1. CASE h = g
    BY <1>1, <1>2, <2>1 DEF Ask, Told
  <2>2. CASE h # g /\ queue[h] = NoRequest
    BY <1>2, <2>2 DEF Ask, Told
  <2>3. CASE h # g /\ queue[h] # NoRequest
    <3>1. queue'[h] = [queue[h] EXCEPT !.ok = FALSE] /\ queue[h] \in Requests
      BY <1>2, <2>3 DEF Ask, IInv, MirrorInv
    <3> QED BY <2>3, <3>1, Forgotten DEF Told, SeenInv
  <2> QED BY <2>1, <2>2, <2>3
<1> QED BY <1>2, <1>3, AllForget DEF Ask

LEMMA GitHubSees ==
  ASSUME IInv, SeenInv, GitHub
  PROVE  SeenInv'
<1>1. \A h \in Heads : h \in Groups
  BY DEF Groups
<1>2. pr.head \in Groups
  BY <1>1 DEF IInv, GitHubTypes, PullRequests
<1>3. ASSUME NEW h \in Heads, Push(h) PROVE SeenInv'
  BY <1>3, ForgetSees DEF Push
<1>4. ASSUME NEW h \in Heads, BuildStarts(h) PROVE SeenInv'
  <2>1. Ask(h, Request("no", TRUE, NoRequest, TRUE)) /\ pr'.head \in building'
    BY <1>4 DEF BuildStarts
  <2> QED BY <1>1, <2>1, AskSees
<1>5. ASSUME NEW h \in Heads, NEW state \in {"success", "failure"}, BuildEnds(h, state)
      PROVE  SeenInv'
  BY <1>1, <1>5, AskSees DEF BuildEnds
<1>6. ASSUME NEW v \in UsedReviews, Review(v) PROVE SeenInv'
  BY <1>6, ForgetSees DEF Review
<1>7. ASSUME NEW c \in Contents, Relabel(c) PROVE SeenInv'
  BY <1>2, <1>7, AskSees DEF Relabel
<1>8. CASE Reopen
  <2>1. Ask(pr.head, Request("yes", FALSE, pr', FALSE))
    BY <1>8 DEF Reopen
  <2> QED BY <1>2, <2>1, AskSees
<1>9. ASSUME NEW life \in {"closed", "merged"}, Close(life) PROVE SeenInv'
  <2>1. Ask(pr.head, Request("no", FALSE, pr', FALSE))
    BY <1>9 DEF Close
  <2> QED BY <1>2, <2>1, AskSees
<1>10. CASE DispatchBackfill
  <2> DEFINE q == Request("no", FALSE, NoRequest, FALSE)
  <2>1. ~q.running /\ ~q.resolve
    BY DEF Request
  <2>2. /\ queue' = [queue EXCEPT !["backfill"] = q]
        /\ UNCHANGED <<pr, build, building, review, posts, job, settled>>
    BY <1>10 DEF DispatchBackfill, truth
  <2> HIDE DEF q
  <2>3. ASSUME NEW g \in Groups PROVE Told(queue[g])'
    <3>1. queue'[g] = q \/ queue'[g] = queue[g]
      BY <2>2 DEF IInv, MirrorInv
    <3> QED BY <2>1, <2>2, <3>1 DEF Told, SeenInv
  <2>4. \A g \in Groups : Judged(job[g])'
    BY <2>2 DEF SeenInv, Judged, Told, Right, RightCi
  <2>5. (settled => Quiet /\ (posts # <<>> => Shown))'
    BY <2>2 DEF SeenInv, Quiet, Shown, RightCi
  <2> QED BY <2>2, <2>3, <2>4, <2>5 DEF SeenInv
<1> QED BY <1>3, <1>4, <1>5, <1>6, <1>7, <1>8, <1>9, <1>10 DEF GitHub

-------------------------------------------------------------------------------

LEMMA StartSees ==
  ASSUME IInv, SeenInv, NEW g \in Groups, Start(g)
  PROVE  SeenInv'
<1> DEFINE q == queue[g]
           first == IF q.resolve THEN "resolve"
                    ELSE IF q.payload = NoRequest THEN "read" ELSE "find"
           sees == (Others(g) = {}) /\ (q.payload # NoRequest => q.ok)
           k == [Idle EXCEPT !.step = first, !.req = q, !.st = q.payload, !.ok = sees]
<1>1. q \in Requests /\ q # NoRequest /\ Told(q)
  BY DEF Start, IInv, MirrorInv, SeenInv
<1>2. /\ job' = [h \in Groups |-> IF h # g THEN [job[h] EXCEPT !.ok = FALSE] ELSE k]
      /\ queue' = [queue EXCEPT ![g] = NoRequest]
      /\ settled' = FALSE
      /\ UNCHANGED <<pr, build, building, review, posts>>
  BY DEF Start, truth
<1>3. first \in {"resolve", "read", "find"}
      /\ IF first = "find" THEN q.payload # NoRequest ELSE q.payload = NoRequest
  BY <1>1 DEF Told
<1>4. sees => Others(g) = {}
  OBVIOUS
<1>14. k = [Idle EXCEPT !.step = first, !.req = q, !.st = q.payload, !.ok = sees]
  OBVIOUS
<1> HIDE DEF first, sees, k
<1>5. k = [step |-> first, req |-> q, st |-> q.payload, post |-> 0, text |-> NoRequest,
           mine |-> {}, want |-> [review |-> {}, ci |-> {}], ok |-> sees]
  BY <1>14 DEF Idle
<1>6. /\ k.step = first /\ k.req = q /\ k.st = q.payload /\ k.post = 0 /\ k.mine = {}
      /\ k.ok = sees
  BY <1>5
<1> HIDE DEF q
<1>7. Own(k) /\ Knows(k, posts')
  BY <1>3, <1>6 DEF Own, Knows, Looked
<1>8. /\ q.running /\ q.ok => pr'.head \in building'
      /\ q.resolve => q.payload = NoRequest
  BY <1>1, <1>2 DEF Told
<1>9. ASSUME NEW h \in Groups \ {g}
      PROVE  /\ Own(job'[h]) /\ ~job'[h].ok /\ job'[h].step = job[h].step
  <2> DEFINE j == job[h]
             i == [j EXCEPT !.ok = FALSE]
  <2>1. j \in Jobs /\ Own(j) /\ job'[h] = i
    BY <1>2 DEF IInv, MirrorInv, SeenInv
  <2>2. /\ i.step = j.step /\ i.post = j.post /\ i.mine = j.mine /\ i.st = j.st
        /\ i.want = j.want /\ i.ok = FALSE
    BY <2>1 DEF Jobs
  <2> HIDE DEF i
  <2>3. Own(i)
    BY <2>1, <2>2 DEF Own
  <2> QED BY <2>1, <2>2, <2>3
<1>10. job'[g] = k
  BY <1>2
<1>11. ASSUME NEW h \in Groups
       PROVE  Own(job'[h]) /\ Knows(job'[h], posts') /\ Judged(job[h])'
  <2>1. CASE h = g
    <3>1. Judged(job[g])'
      <4>1. job'[g].step \notin {"review", "ci"} /\ job'[g].req = q
        BY <1>3, <1>6, <1>10
      <4> QED BY <1>1, <1>8, <4>1 DEF Judged, Saw, Told
    <3> QED BY <1>7, <1>10, <2>1, <3>1
  <2>2. CASE h # g
    <3>1. h \in Groups \ {g}
      BY <2>2
    <3>2. Own(job'[h]) /\ ~job'[h].ok
      BY <1>9, <3>1
    <3> QED BY <3>2 DEF Knows, Judged, Saw
  <2> QED BY <2>1, <2>2
<1>12. \A h \in Groups : Told(queue[h])'
  <2>1. ASSUME NEW h \in Groups PROVE Told(queue[h])'
    <3>1. queue'[h] = NoRequest \/ queue'[h] = queue[h]
      BY <1>2 DEF IInv, MirrorInv
    <3> QED BY <1>2, <3>1 DEF Told, SeenInv
  <2> QED BY <2>1
<1>13. ASSUME NEW h \in Groups, NEW i \in Groups \ {h}, job'[h].ok
       PROVE  job'[i].step = "idle"
  <2>1. h = g
    BY <1>9, <1>13
  <2>2. Others(g) = {}
    BY <1>4, <1>6, <1>10, <1>13, <2>1
  <2>3. job[i].step = "idle"
    BY <2>1, <2>2 DEF Others
  <2> QED BY <1>9, <2>1, <2>3
<1> QED BY <1>2, <1>11, <1>12, <1>13 DEF SeenInv

\* A step of one running job is judged by what it makes of that job's record k.
LEMMA OneMoves ==
  ASSUME IInv, SeenInv, NEW g \in Groups, job[g].step # "idle",
         NEW k, Set(g, k), UNCHANGED <<pr, build, building, review, queue>>,
         Own(k), Knows(k, posts'), Judged(k), k.ok => job[g].ok,
         settled' => /\ settled' # settled /\ job[g].ok /\ k.step = "idle"
                     /\ posts' # <<>> => Shown'
  PROVE  SeenInv'
<1>1. job' = [job EXCEPT ![g] = k] /\ job \in [Groups -> Jobs]
  BY DEF Set, IInv, MirrorInv
<1>2. job'[g] = k /\ \A h \in Groups \ {g} : job'[h] = job[h]
  BY <1>1
<1>3. ASSUME NEW h \in Groups \ {g} PROVE ~job[h].ok
  BY <1>3 DEF SeenInv
<1>4. Judged(job[g])'
  BY <1>2 DEF Judged, Told, Right, RightCi
<1>5. ASSUME NEW h \in Groups
      PROVE  Own(job'[h]) /\ Knows(job'[h], posts') /\ Judged(job[h])'
  <2>1. CASE h = g
    BY <1>2, <1>4, <2>1
  <2>2. CASE h # g
    <3>1. job'[h] = job[h] /\ ~job[h].ok /\ Own(job[h])
      BY <1>2, <1>3, <2>2 DEF SeenInv
    <3> QED BY <3>1 DEF Knows, Judged, Saw
  <2> QED BY <2>1, <2>2
<1>6. \A h \in Groups : Told(queue[h])'
  BY DEF SeenInv, Told
<1>7. ASSUME NEW h \in Groups, NEW i \in Groups \ {h}, job'[h].ok
      PROVE  job'[i].step = "idle"
  <2>1. h = g
    BY <1>2, <1>3, <1>7
  <2>2. job[g].ok
    BY <1>2, <1>7, <2>1
  <2> QED BY <1>2, <2>1, <2>2 DEF SeenInv
<1>8. ASSUME settled' PROVE Quiet' /\ (posts' # <<>> => Shown')
  <2>1. \A h \in Groups \ {g} : job[h].step = "idle"
    BY <1>8 DEF SeenInv
  <2>2. \A h \in Groups : job'[h].step = "idle"
    BY <1>2, <1>8, <2>1
  <2> QED BY <1>8, <2>2 DEF Quiet
<1> QED BY <1>5, <1>6, <1>7, <1>8 DEF SeenInv

LEMMA IdleKnows ==
  Own(Idle) /\ (\A s : Knows(Idle, s)) /\ Judged(Idle) /\ Idle.ok = FALSE /\ Idle.step = "idle"
BY DEF Idle, Own, Knows, Judged, Saw

\* A job that has not derived anything yet has nothing to be judged by but what
\* it was told.
LEMMA StillJudged ==
  ASSUME NEW j, NEW k, Judged(j), k.ok = j.ok, k.req = j.req, j.step # "idle",
         k.step \notin {"review", "ci"}
  PROVE  Judged(k)
BY DEF Judged, Saw

LEMMA SearchSees ==
  ASSUME IInv, SeenInv, NEW g \in Groups,
         \/ g # "backfill" /\ (Resolve(g) \/ pr_state(g) \/ find_message(g))
         \/ g = "backfill" /\ Backfill
  PROVE  SeenInv'
<1> DEFINE j == job[g]
<1>1. j \in Jobs /\ Own(j) /\ Knows(j, posts) /\ Judged(j) /\ Sound(g, j, pr, posts)
      /\ pr \in PullRequests
  BY DEF IInv, MirrorInv, GitHubTypes, SeenInv
<1>2. UNCHANGED <<pr, build, building, review, queue, posts, settled>>
  BY DEF Resolve, pr_state, find_message, Backfill, topic_message_index, ListedState, truth,
         history
<1>3. j.step \in {"resolve", "read", "find"}
  BY DEF Resolve, pr_state, find_message, Backfill, topic_message_index, ListedState
<1>4. ~settled
  BY <1>3 DEF SeenInv, Quiet
<1>5. PICK k : /\ Set(g, k)
               /\ \/ k = Idle
                  \/ /\ k.step \in {"read", "find", "post"} /\ k.ok = j.ok /\ k.req = j.req
                     /\ Own(k) /\ Knows(k, posts)
  <2>1. CASE g # "backfill" /\ Resolve(g)
    <3>1. CASE Set(g, Idle)
      BY <3>1
    <3>2. CASE Set(g, [j EXCEPT !.step = "read"]) /\ j.step = "resolve"
      <4> DEFINE k == [j EXCEPT !.step = "read"]
      <4>1. /\ k.step = "read" /\ k.req = j.req /\ k.st = j.st /\ k.post = j.post
            /\ k.mine = j.mine /\ k.ok = j.ok
        BY <1>1 DEF Jobs
      <4>2. Set(g, k)
        BY <3>2
      <4> HIDE DEF k
      <4>3. Own(k) /\ Knows(k, posts)
        BY <1>1, <3>2, <4>1 DEF Own, Knows, Looked
      <4> QED BY <4>1, <4>2, <4>3
    <3> QED BY <2>1, <3>1, <3>2 DEF Resolve
  <2>2. CASE (g # "backfill" /\ pr_state(g)) \/ (g = "backfill" /\ ListedState)
    <3> DEFINE step == IF g = "backfill" /\ j.step = "find" THEN "post" ELSE "find"
               k == [j EXCEPT !.step = step, !.st = pr]
    <3>1. /\ Set(g, k)
          /\ j.step = "read" \/ (j.step = "find" /\ j.st = NoRequest /\ g = "backfill")
      BY <2>2 DEF pr_state, ListedState
    <3>2. step \in {"find", "post"} /\ (step = "post" <=> g = "backfill" /\ j.step = "find")
      OBVIOUS
    <3> HIDE DEF step
    <3>3. /\ k.step = step /\ k.req = j.req /\ k.st = pr /\ k.post = j.post
          /\ k.mine = j.mine /\ k.ok = j.ok /\ k.text = j.text
      BY <1>1 DEF Jobs
    <3> HIDE DEF k
    <3>4. pr # NoRequest
      BY <1>1, NoRequestAssumption
    <3>5. Own(k)
      BY <1>1, <3>1, <3>2, <3>3 DEF Own
    <3>6. Knows(k, posts)
      BY <1>1, <3>1, <3>2, <3>3, <3>4 DEF Knows, Looked
    <3> QED BY <3>1, <3>2, <3>3, <3>5, <3>6
  <2>3. CASE (g # "backfill" /\ find_message(g)) \/ (g = "backfill" /\ topic_message_index)
    <3> DEFINE step == IF g = "backfill" /\ j.step = "read" THEN "find" ELSE "post"
               f == Found(j)
               k == [f EXCEPT !.step = step]
    <3>1. Set(g, k)
      BY <2>3 DEF find_message, topic_message_index
    <3>2. \/ j.step = "find" /\ j.st # NoRequest
          \/ j.step = "read" /\ g = "backfill"
      BY <1>1, <2>3, NoRequestAssumption DEF find_message, topic_message_index, Sound
    <3>3. step \in {"find", "post"}
      OBVIOUS
    <3>4. f \in Jobs /\ f.step = j.step /\ f.req = j.req /\ f.st = j.st /\ f.ok = j.ok
      BY <1>1, FoundSound DEF Sound, IInv, MirrorInv
    <3>5. j.post = 0 /\ j.mine = {}
      BY <1>1, <3>2 DEF Own
    <3>6. IF posts = <<>> THEN f = j
          ELSE f.post = 1 /\ f.text = posts[1].content /\ f.mine = posts[1].reactions
      BY <1>1 DEF Found, Jobs
    <3>7. step = "find" => j.step = "read"
      BY <3>2
    <3>8. j.step = "find" => step = "post"
      BY <3>2
    <3> HIDE DEF step, f
    <3>9. /\ k.step = step /\ k.req = f.req /\ k.st = f.st /\ k.post = f.post
          /\ k.mine = f.mine /\ k.ok = f.ok /\ k.text = f.text
      BY <3>4 DEF Jobs
    <3> HIDE DEF k
    <3>10. step = "find" => k.st = NoRequest
      BY <1>1, <3>4, <3>7, <3>9 DEF Own
    <3>11. IF posts = <<>> THEN k.post = 0 /\ k.mine = {}
           ELSE k.post = 1 /\ k.text = posts[1].content /\ k.mine = posts[1].reactions
      BY <3>5, <3>6, <3>9
    <3>12. Own(k)
      BY <3>3, <3>9, <3>10, <3>11 DEF Own
    <3>13. Knows(k, posts)
      BY <3>3, <3>9, <3>11 DEF Knows, Looked
    <3> QED BY <3>1, <3>3, <3>4, <3>9, <3>12, <3>13
  <2> QED BY <2>1, <2>2, <2>3 DEF Backfill
<1>6. Own(k) /\ Knows(k, posts') /\ Judged(k) /\ (k.ok => j.ok)
  <2>1. CASE k = Idle
    BY <2>1, IdleKnows
  <2>2. CASE k # Idle
    BY <1>1, <1>2, <1>3, <1>5, <2>2, StillJudged
  <2> QED BY <2>1, <2>2
<1> QED BY <1>2, <1>3, <1>4, <1>5, <1>6, OneMoves

\* A job that does not exist yet has sent nothing: of the first post.
LEMMA SendSees ==
  ASSUME IInv, SeenInv, NEW g \in Groups, send_message(g)
  PROVE  SeenInv'
<1> DEFINE j == job[g]
           m == Sent(g)
           k == [j EXCEPT !.step = "derive", !.post = Len(posts')]
<1>1. /\ j \in Jobs /\ Own(j) /\ Knows(j, posts) /\ Judged(j) /\ Sound(g, j, pr, posts)
      /\ posts \in Seq(Posts)
  BY DEF IInv, MirrorInv, SeenInv
<1>2. /\ j.step = "post" /\ j.post = 0 /\ posts' = Append(posts, m) /\ Set(g, k)
      /\ UNCHANGED <<pr, build, building, review, queue, settled>>
  BY DEF send_message, truth, history
<1>3. ~settled
  BY <1>2 DEF SeenInv, Quiet
<1>4. m.content = j.st.content /\ m.reactions = {}
  BY DEF Sent
<1> HIDE DEF m
<1>5. /\ k.step = "derive" /\ k.req = j.req /\ k.st = j.st /\ k.post = Len(posts')
      /\ k.mine = j.mine /\ k.ok = j.ok
  BY <1>1 DEF Jobs
<1> HIDE DEF k
<1>6. posts' # <<>> /\ Len(posts') # 0
  BY <1>1, <1>2
<1>7. Own(k)
  BY <1>1, <1>2, <1>5, <1>6 DEF Own
<1>8. Knows(k, posts')
  <2>1. ASSUME j.ok PROVE posts = <<>>
    BY <1>1, <1>2, <2>1 DEF Knows, Looked
  <2>2. ASSUME posts = <<>> PROVE Len(posts') = 1 /\ posts'[1] = m
    BY <1>2, <2>2
  <2>3. j.mine = {}
    BY <1>1, <1>2 DEF Own
  <2> QED BY <1>4, <1>5, <1>6, <2>1, <2>2, <2>3 DEF Knows, Looked
<1>9. Judged(k)
  BY <1>1, <1>2, <1>5, StillJudged
<1> QED BY <1>2, <1>3, <1>5, <1>7, <1>8, <1>9, OneMoves

LEMMA UpdateSees ==
  ASSUME IInv, SeenInv, NEW g \in Groups, update_message(g)
  PROVE  SeenInv'
<1> DEFINE j == job[g]
           c == j.st.content
           k == [j EXCEPT !.step = "derive"]
<1>1. /\ j \in Jobs /\ Own(j) /\ Knows(j, posts) /\ Judged(j) /\ Sound(g, j, pr, posts)
      /\ posts \in Seq(Posts)
  BY DEF IInv, MirrorInv, SeenInv
<1>2. /\ j.step = "post" /\ j.post # 0 /\ Set(g, k)
      /\ posts' = IF j.text = c THEN posts ELSE [posts EXCEPT ![j.post].content = c]
      /\ UNCHANGED <<pr, build, building, review, queue, settled>>
  BY DEF update_message, truth, history
<1>3. ~settled
  BY <1>2 DEF SeenInv, Quiet
<1>4. /\ k.step = "derive" /\ k.req = j.req /\ k.st = j.st /\ k.post = j.post
      /\ k.mine = j.mine /\ k.ok = j.ok
  BY <1>1 DEF Jobs
<1> HIDE DEF k
<1>5. Own(k)
  BY <1>1, <1>2, <1>4 DEF Own
<1>6. Knows(k, posts')
  <2>1. ASSUME j.ok
        PROVE  posts' # <<>> /\ posts'[1].content = c /\ posts'[1].reactions = j.mine
    <3>1. /\ posts # <<>> /\ j.post = 1 /\ j.text = posts[1].content
          /\ j.mine = posts[1].reactions
      BY <1>1, <1>2, <2>1 DEF Knows, Looked
    <3>2. posts[1] \in Posts /\ 1 \in DOMAIN posts
      BY <1>1, <3>1
    <3>3. CASE j.text = c
      BY <1>2, <3>1, <3>3
    <3>4. CASE j.text # c
      <4>1. posts' = [posts EXCEPT ![1].content = c]
        BY <1>2, <3>1, <3>4
      <4> HIDE DEF c
      <4>2. posts'[1] = [posts[1] EXCEPT !.content = c] /\ DOMAIN posts' = DOMAIN posts
        BY <3>2, <4>1
      <4>3. posts'[1].content = c /\ posts'[1].reactions = posts[1].reactions
        BY <3>2, <4>2 DEF Posts
      <4> QED BY <3>1, <3>2, <4>2, <4>3
    <3> QED BY <3>3, <3>4
  <2>2. ASSUME j.ok PROVE j.post = 1
    BY <1>1, <1>2, <2>2 DEF Knows, Looked
  <2> QED BY <1>4, <2>1, <2>2 DEF Knows, Looked
<1>7. Judged(k)
  BY <1>1, <1>2, <1>4, StillJudged
<1> QED BY <1>2, <1>3, <1>4, <1>5, <1>6, <1>7, OneMoves

\* An undisturbed job derives what is the case.
LEMMA DeriveSees ==
  ASSUME IInv, SeenInv, NEW g \in Groups, Derive(g)
  PROVE  SeenInv'
<1> DEFINE j == job[g]
           ci == IF j.req.running THEN "running" ELSE build[j.st.head]
           want == derive(j.st, ci, review[j.st.head])
           k == [j EXCEPT !.step = "review", !.want = want]
<1>1. /\ j \in Jobs /\ Own(j) /\ Knows(j, posts) /\ Judged(j) /\ Sound(g, j, pr, posts)
  BY DEF IInv, MirrorInv, SeenInv
<1>2. /\ j.step = "derive" /\ Set(g, k)
      /\ UNCHANGED <<pr, build, building, review, queue, posts, settled>>
  BY DEF Derive, truth, history
<1>3. ~settled
  BY <1>2 DEF SeenInv, Quiet
<1>4. j.st \in PullRequests /\ j.st.head \in Heads /\ j.st # NoRequest
  BY <1>1, <1>2, NoRequestAssumption DEF Sound, PullRequests
<1>5. ci \in BuildStates /\ review[j.st.head] \in ReviewStates
  BY <1>4 DEF IInv, GitHubTypes, BuildStates
<1>6. ASSUME Saw(j) PROVE j.st = pr /\ ci \in RightCi
  <2>1. j.st = pr
    BY <1>1, <1>4, <1>6 DEF Saw, Sound
  <2>2. j.req.running => pr.head \in building
    BY <1>1, <1>2, <1>6 DEF Judged, Saw, Told
  <2> QED BY <2>1, <2>2 DEF RightCi
<1> HIDE DEF ci
<1>7. /\ want.review \subseteq InGroup(REVIEW_GROUP) /\ want.ci \subseteq InGroup(CI_GROUP)
  BY <1>4, <1>5, DeriveGroups
<1>8. Saw(j) => Right(want)
  BY <1>6 DEF Right
<1> HIDE DEF want
<1>9. /\ k.step = "review" /\ k.req = j.req /\ k.st = j.st /\ k.post = j.post
      /\ k.mine = j.mine /\ k.ok = j.ok /\ k.want = want
  BY <1>1 DEF Jobs
<1> HIDE DEF k
<1>10. Own(k)
  BY <1>1, <1>2, <1>7, <1>9 DEF Own
<1>11. Knows(k, posts')
  BY <1>1, <1>2, <1>9 DEF Knows, Looked
<1>12. Judged(k)
  BY <1>1, <1>2, <1>8, <1>9 DEF Judged, Saw
<1> QED BY <1>2, <1>3, <1>9, <1>10, <1>11, <1>12, OneMoves
\* A reaction more or less, on the post and in the job's record of it, that
\* leaves those of the review alone once they are in place
LEMMA ReactSees ==
  ASSUME IInv, SeenInv, NEW g \in Groups, job[g].step \in {"review", "ci"},
         NEW there, NEW mine,
         posts' = [posts EXCEPT ![job[g].post].reactions = there],
         Set(g, [job[g] EXCEPT !.mine = mine]),
         UNCHANGED <<pr, build, building, review, queue, settled>>,
         posts[job[g].post].reactions = job[g].mine => there = mine,
         job[g].step = "ci" =>
            mine \cap InGroup(REVIEW_GROUP) = job[g].mine \cap InGroup(REVIEW_GROUP)
  PROVE  SeenInv'
<1> DEFINE j == job[g]
           n == j.post
           k == [j EXCEPT !.mine = mine]
<1>1. /\ j \in Jobs /\ Own(j) /\ Knows(j, posts) /\ Judged(j) /\ Sound(g, j, pr, posts)
      /\ posts \in Seq(Posts) /\ j.step \in {"review", "ci"}
  BY DEF IInv, MirrorInv, SeenInv
<1>2. ~settled
  BY <1>1 DEF SeenInv, Quiet
<1>3. /\ k.step = j.step /\ k.req = j.req /\ k.st = j.st /\ k.post = n
      /\ k.mine = mine /\ k.ok = j.ok /\ k.want = j.want
  BY <1>1 DEF Jobs
<1>4. Set(g, k) /\ posts' = [posts EXCEPT ![n].reactions = there]
  OBVIOUS
<1>5. n # 0 /\ n \in 1..Len(posts)
  BY <1>1 DEF Sound, Jobs
<1> HIDE DEF k
<1>6. Own(k)
  BY <1>1, <1>3, <1>5 DEF Own
<1>7. Knows(k, posts')
  <2>1. ASSUME j.ok
        PROVE  /\ n = 1 /\ posts' # <<>>
               /\ posts'[1].content = j.st.content /\ posts'[1].reactions = mine
    <3>1. n = 1 /\ posts # <<>> /\ posts[1].content = j.st.content
          /\ posts[1].reactions = j.mine
      BY <1>1, <2>1 DEF Knows
    <3>2. posts[1] \in Posts /\ 1 \in DOMAIN posts
      BY <1>1, <3>1
    <3>3. there = mine
      BY <3>1
    <3>4. posts' = [posts EXCEPT ![1].reactions = there]
      BY <1>4, <3>1
    <3>5. posts'[1] = [posts[1] EXCEPT !.reactions = there] /\ DOMAIN posts' = DOMAIN posts
      BY <3>2, <3>4
    <3>6. posts'[1].content = posts[1].content /\ posts'[1].reactions = there
      BY <3>2, <3>5 DEF Posts
    <3> QED BY <3>1, <3>2, <3>3, <3>5, <3>6
  <2> QED BY <1>1, <1>3, <2>1 DEF Knows, Looked
<1>8. Judged(k)
  BY <1>1, <1>3 DEF Judged, Saw
<1> QED BY <1>1, <1>2, <1>3, <1>4, <1>6, <1>7, <1>8, OneMoves

LEMMA GroupSees ==
  ASSUME IInv, SeenInv, NEW g \in Groups, job[g].step \in {"review", "ci"}, NEW group,
         NEW want, remove_reaction(g, group, want) \/ add_reaction(g, group, want),
         job[g].step = "ci" => group = CI_GROUP /\ want \subseteq InGroup(CI_GROUP)
  PROVE  SeenInv'
<1> DEFINE j == job[g]
           has == posts[j.post].reactions
<1>1. UNCHANGED <<pr, build, building, review, queue, settled>>
  BY DEF remove_reaction, add_reaction, truth, history
<1>2. CASE remove_reaction(g, group, want)
  <2> DEFINE name == First(group, Superfluous(group, j, want))
             there == has \ {name}
             mine == j.mine \ {name}
  <2>1. /\ posts' = [posts EXCEPT ![j.post].reactions = there]
        /\ Set(g, [j EXCEPT !.mine = mine]) /\ Superfluous(group, j, want) # {}
    BY <1>2 DEF remove_reaction
  <2>2. ASSUME j.step = "ci" PROVE name \notin InGroup(REVIEW_GROUP)
    <3>1. Superfluous(CI_GROUP, j, want) \subseteq InGroup(CI_GROUP)
      BY DEF Superfluous
    <3>2. group = CI_GROUP
      BY <2>2
    <3>3. name \in InGroup(CI_GROUP)
      BY <2>1, <3>1, <3>2, FirstInGroup
    <3> QED BY <3>3, Emojis
  <2> HIDE DEF name
  <2>3. j.step = "ci" => mine \cap InGroup(REVIEW_GROUP) = j.mine \cap InGroup(REVIEW_GROUP)
    BY <2>2
  <2>4. has = j.mine => there = mine
    OBVIOUS
  <2> HIDE DEF there, mine
  <2> QED BY <1>1, <2>1, <2>3, <2>4, ReactSees
<1>3. CASE add_reaction(g, group, want)
  <2> DEFINE there == has \cup want
             mine == j.mine \cup want
  <2>1. /\ posts' = [posts EXCEPT ![j.post].reactions = there]
        /\ Set(g, [j EXCEPT !.mine = mine])
    BY <1>3 DEF add_reaction
  <2>2. j.step = "ci" => mine \cap InGroup(REVIEW_GROUP) = j.mine \cap InGroup(REVIEW_GROUP)
    <3>1. InGroup(CI_GROUP) \cap InGroup(REVIEW_GROUP) = {}
      BY Emojis
    <3> QED BY <3>1
  <2>3. has = j.mine => there = mine
    OBVIOUS
  <2> HIDE DEF there, mine
  <2> QED BY <1>1, <2>1, <2>2, <2>3, ReactSees
<1> QED BY <1>2, <1>3

\* What is in place is all that is wanted of the group, and nothing else.
LEMMA AllInPlace ==
  ASSUME NEW group, NEW j, NEW want, InPlace(group, j, want), want \subseteq InGroup(group)
  PROVE  j.mine \cap InGroup(group) = want
BY DEF InPlace, Superfluous

LEMMA ReactionsSee ==
  ASSUME IInv, SeenInv, NEW g \in Groups, set_review_group(g) \/ set_ci_group(g)
  PROVE  SeenInv'
<1> DEFINE j == job[g]
<1>1. /\ j \in Jobs /\ Own(j) /\ Knows(j, posts) /\ Judged(j) /\ Sound(g, j, pr, posts)
      /\ j.step \in {"review", "ci"} /\ j.mine \in SUBSET EMOJI
  BY DEF IInv, MirrorInv, SeenInv, set_review_group, set_ci_group, Jobs
<1>2. ~settled
  BY <1>1 DEF SeenInv, Quiet
<1>3. /\ j.want.review \subseteq InGroup(REVIEW_GROUP)
      /\ j.want.ci \subseteq InGroup(CI_GROUP)
  BY <1>1 DEF Own
<1>4. CASE set_review_group(g)
  <2>1. CASE remove_reaction(g, REVIEW_GROUP, j.want.review)
             \/ add_reaction(g, REVIEW_GROUP, j.want.review)
    <3>1. j.step # "ci"
      BY <1>4 DEF set_review_group
    <3> QED BY <1>1, <2>1, <3>1, GroupSees
  <2>2. CASE /\ InPlace(REVIEW_GROUP, j, j.want.review)
             /\ Set(g, [j EXCEPT !.step = "ci"])
             /\ UNCHANGED <<truth, posts, queue, history>>
    <3> DEFINE k == [j EXCEPT !.step = "ci"]
    <3>1. /\ k.step = "ci" /\ k.req = j.req /\ k.st = j.st /\ k.post = j.post
          /\ k.mine = j.mine /\ k.ok = j.ok /\ k.want = j.want
      BY <1>1 DEF Jobs
    <3>2. Set(g, k) /\ UNCHANGED <<pr, build, building, review, posts, queue, settled>>
      BY <2>2 DEF truth, history
    <3>3. j.mine \cap InGroup(REVIEW_GROUP) = j.want.review
      BY <1>3, <2>2, AllInPlace
    <3> HIDE DEF k
    <3>4. Own(k)
      BY <1>1, <3>1, <3>3 DEF Own
    <3>5. Knows(k, posts') /\ Judged(k)
      BY <1>1, <3>1, <3>2 DEF Knows, Looked, Judged, Saw
    <3> QED BY <1>1, <1>2, <3>1, <3>2, <3>4, <3>5, OneMoves
  <2> QED BY <1>4, <2>1, <2>2 DEF set_review_group
<1>5. CASE set_ci_group(g)
  <2>1. CASE remove_reaction(g, CI_GROUP, j.want.ci) \/ add_reaction(g, CI_GROUP, j.want.ci)
    BY <1>1, <1>3, <2>1, GroupSees
  <2>2. CASE /\ InPlace(CI_GROUP, j, j.want.ci)
             /\ Set(g, Idle) /\ settled' = Saw(j)
             /\ UNCHANGED <<truth, posts, queue, lost, changes, faults>>
    <3>1. UNCHANGED <<pr, build, building, review, posts, queue>>
      BY <2>2 DEF truth
    <3>2. ASSUME settled' PROVE j.ok /\ (posts' # <<>> => Shown')
      <4>1. Saw(j) /\ j.ok /\ j.step = "ci"
        BY <1>5, <2>2, <3>2 DEF Saw, set_ci_group
      <4>2. /\ posts[1].content = j.st.content /\ posts[1].reactions = j.mine
            /\ Right(j.want)
        BY <1>1, <4>1 DEF Knows, Judged
      <4>3. j.st = pr
        BY <1>1, <4>1, NoRequestAssumption DEF Sound
      <4>4. j.mine \cap InGroup(CI_GROUP) = j.want.ci
        BY <1>3, <2>2, AllInPlace
      <4>5. j.mine \cap InGroup(REVIEW_GROUP) = j.want.review
        BY <1>1, <4>1 DEF Own
      <4>6. j.mine = j.want.review \cup j.want.ci
        BY <1>1, <4>4, <4>5, Emojis
      <4>7. Shown
        BY <4>2, <4>3, <4>6 DEF Right, Shown
      <4> QED BY <3>1, <4>1, <4>7 DEF Shown, RightCi
    <3> QED BY <1>1, <1>2, <2>2, <3>1, <3>2, IdleKnows, OneMoves
  <2> QED BY <1>5, <2>1, <2>2 DEF set_ci_group
<1> QED BY <1>4, <1>5

\* A job that finds no post and may not create one is right to leave it at that.
LEMMA NothingSees ==
  ASSUME IInv, SeenInv, NEW g \in Groups, Nothing(g)
  PROVE  SeenInv'
<1> DEFINE j == job[g]
<1>1. /\ Knows(j, posts) /\ j.step = "post" /\ j.post = 0 /\ Set(g, Idle)
      /\ settled' = j.ok /\ UNCHANGED <<pr, build, building, review, posts, queue>>
  BY DEF SeenInv, Nothing, truth
<1>2. ~settled
  BY <1>1 DEF SeenInv, Quiet
<1>3. ASSUME settled' PROVE j.ok /\ posts' = <<>>
  BY <1>1, <1>3 DEF Knows, Looked
<1> QED BY <1>1, <1>2, <1>3, IdleKnows, OneMoves

LEMMA SeenInit == Init => SeenInv
<1> SUFFICES ASSUME Init PROVE SeenInv
  OBVIOUS
<1>1. \A g \in Groups : job[g] = Idle
  BY DEF Init
<1>2. ~settled
  BY DEF Init
<1>3. ASSUME NEW g \in Groups PROVE Told(queue[g])
  <2> DEFINE q == Request("yes", FALSE, pr, FALSE)
  <2>1. ~q.running /\ ~q.resolve
    BY DEF Request
  <2>2. queue[g] = NoRequest \/ queue[g] = q
    BY DEF Init
  <2> HIDE DEF q
  <2> QED BY <2>1, <2>2 DEF Told
<1> QED BY <1>1, <1>2, <1>3, IdleKnows DEF SeenInv

LEMMA SeenStep == IInv /\ SeenInv /\ [Next]_vars => SeenInv'
<1> SUFFICES ASSUME IInv, SeenInv, [Next]_vars PROVE SeenInv'
  OBVIOUS
<1>1. CASE GitHub
  BY <1>1, GitHubSees
<1>2. ASSUME NEW g \in Groups, Reconcile(g) PROVE SeenInv'
  BY <1>2, StartSees, NothingSees, SearchSees, SendSees, UpdateSees, DeriveSees, ReactionsSee
     DEF Reconcile
<1>3. ASSUME NEW g \in Groups, Fail(g) PROVE SeenInv'
  <2>1. /\ job[g].step # "idle" /\ Set(g, Idle)
        /\ UNCHANGED <<pr, build, building, review, posts, queue, settled>>
    BY <1>3 DEF Fail, truth
  <2>2. ~settled
    BY <2>1 DEF SeenInv, Quiet
  <2> QED BY <2>1, <2>2, IdleKnows, OneMoves
<1>4. CASE UNCHANGED vars
  <2>1. UNCHANGED <<pr, build, building, review, posts, queue, job, settled>>
    BY <1>4 DEF vars, truth, history
  <2> QED BY <2>1 DEF SeenInv, Judged, Told, Right, RightCi, Quiet, Shown
<1> QED BY <1>1, <1>2, <1>3, <1>4 DEF Next

\* After a job that ran alone and saw the last change, the oldest post shows the
\* pull request as it is, whatever went before (zulip.py:19-20).
THEOREM PostIsRight == Spec => []SettledIsRight
<1>1. SeenInv => SettledIsRight
  BY DEF SeenInv, SettledIsRight, Shown
<1> QED BY <1>1, IInvInit, IInvStep, SeenInit, SeenStep, PTL DEF Spec
===============================================================================
