------------------------- MODULE PrStatistics_proofs -------------------------
(***************************************************************************)
(* The statistics and the health report, for any pull requests, labels,    *)
(* sizes of pages, windows and histories.                                  *)
(***************************************************************************)
EXTENDS PrStatistics, FiniteSetTheorems, SequenceTheorems, WellFoundedInduction, TLAPS

\* What can be read of a pull request at time t, with all or none of its events.
Sound(pr, t) ==
    /\ pr.state = "none" => pr.merged = Never /\ pr.closed = Never /\ pr.events = <<>>
    /\ pr.state = "OPEN" => pr.closed = Never
    /\ pr.state \in {"CLOSED", "MERGED"} => pr.closed # Never /\ pr.closed <= t
    /\ \A i \in DOMAIN pr.events : pr.events[i].at <= t

Explained(pr) == pr.labels \subseteq {pr.events[i].label : i \in DOMAIN pr.events}

\* The pages read so far are the beginning of a timeline, which only grows.
Begins(page, events) ==
    Len(page) <= Len(events) /\ \A i \in 1..Len(page) : page[i] = events[i]

WorldInv == \A p \in PRs : Sound(prs[p], now) /\ Explained(prs[p])

\* A snapshot is sound as of the time it was stamped with.
SnapshotInv ==
    /\ job.step \in {"timelines", "comments"} => \A p \in PRs : Sound(job.prs[p], now)
    /\ Taken => job.fetched_at \in Nat /\ \A p \in PRs : Sound(job.prs[p], job.fetched_at)

\* An open pull request whose timeline has been read came with its events, and
\* the one that is being read with those up to some moment.
ReadInv ==
    /\ job.step \in {"idle", "list"} => job.page = <<>>
    /\ job.step = "timelines" =>
          /\ \A p \in PRs \ job.todo : job.prs[p].state = "OPEN" => Explained(job.prs[p])
          /\ \A p \in job.todo :
                (\A q \in job.todo : p <= q) => Begins(job.page, prs[p].events)
    /\ ~job.accused

\* The data comes last.
Described(assets) ==
    assets["pr-stats.json"] # Never
        => \A i \in DOMAIN ASSET_NAMES : assets[ASSET_NAMES[i]] = assets["pr-stats.json"]

AssetsInv ==
    /\ Described(static) /\ Described(site)
    /\ job.step \in {"idle", "list", "timelines", "comments", "generate"} =>
          job.asset = 1 /\ static["pr-stats.json"] = Never
    /\ job.step = "replace" =>
          /\ static["pr-stats.json"] = Never
          /\ \A i \in DOMAIN ASSET_NAMES : i < job.asset => static[ASSET_NAMES[i]] = job.fetched_at

IInv == TypeOK /\ WorldInv /\ SnapshotInv /\ ReadInv /\ AssetsInv

-------------------------------------------------------------------------------
(* Types                                                                   *)

LEMMA TypeInit == Init => TypeOK
BY PRsAssumption
   DEF Init, TypeOK, Unopened, PullRequests, States, Fallback, NoJob, Jobs, ASSET_NAMES, Assets

LEMMA JobTypes ==
  ASSUME job \in Jobs
  PROVE  /\ job.prs \in [PRs -> PullRequests] /\ job.todo \subseteq PRs
         /\ job.page \in Seq(Events) /\ job.asset \in 1..6 /\ job.fetched_at \in Nat \cup {Never}
         /\ job.disturbed \in Nat /\ job.accused \in BOOLEAN
BY DEF Jobs, ASSET_NAMES

LEMMA DisturbTypes == ASSUME job \in Jobs, Disturb PROVE job' \in Jobs
BY DEF Disturb, Jobs

LEMMA BecomesTypes ==
  ASSUME TypeOK, NEW p \in PRs, NEW pr \in PullRequests, Becomes(p, pr)
  PROVE  TypeOK'
BY DisturbTypes DEF TypeOK, Becomes

LEMMA UnopenedType == Unopened \in PullRequests
BY DEF Unopened, PullRequests, States

\* What happens to a pull request is one of these.
Moves(p) ==
    \/ /\ prs[p].state = "none"
       /\ \E draft \in BOOLEAN :
             Becomes(p, [Unopened EXCEPT !.state = "OPEN", !.draft = draft, !.created = now])
    \/ \E l \in UsedLabels, labels \in SUBSET UsedLabels :
          /\ labels \subseteq prs[p].labels
          /\ Labelled(p, l, labels)
    \/ \E l \in UsedLabels : TakeOff(p, l)
    \/ ReadyForReview(p) \/ Close(p) \/ Merge(p) \/ Reopen(p)

LEMMA MovesCovers ==
  ASSUME TypeOK, NEW p \in PRs, PullRequestMoves(p)
  PROVE  Moves(p)
<1> USE DEF Moves
<1>1. prs[p].labels \in SUBSET UsedLabels
  BY DEF TypeOK, PullRequests
<1>2. ASSUME NEW l \in UsedLabels, MoveTo(p, l) PROVE Moves(p)
  BY <1>2 DEF MoveTo
<1>3. ASSUME NEW l \in UsedLabels, PutBeside(p, l) PROVE Moves(p)
  BY <1>1, <1>3 DEF PutBeside
<1> QED BY <1>2, <1>3 DEF PullRequestMoves, OpenPR

LEMMA MovesTypes ==
  ASSUME TypeOK, NEW p \in PRs, Moves(p)
  PROVE  TypeOK'
<1>1. prs[p] \in PullRequests /\ now \in Nat
  BY DEF TypeOK
<1>2. ASSUME NEW draft \in BOOLEAN
      PROVE  [Unopened EXCEPT !.state = "OPEN", !.draft = draft, !.created = now] \in PullRequests
  <2>1. /\ Unopened \in PullRequests /\ "OPEN" \in States /\ draft \in BOOLEAN
        /\ now \in Nat \cup {Never}
    BY <1>1, UnopenedType DEF States
  <2> QED BY <2>1 DEF PullRequests
<1>3. ASSUME NEW l \in UsedLabels, NEW labels \in SUBSET UsedLabels, Labelled(p, l, labels)
      PROVE  TypeOK'
  <2> DEFINE pr == [prs[p] EXCEPT !.labels = labels \cup {l},
                                  !.events = Append(@, [label |-> l, at |-> now])]
  <2>1. [label |-> l, at |-> now] \in Events /\ prs[p].events \in Seq(Events)
    BY <1>1 DEF Events, PullRequests
  <2>2. Append(prs[p].events, [label |-> l, at |-> now]) \in Seq(Events)
    BY <2>1
  <2>3. pr \in PullRequests
    BY <1>1, <2>2 DEF PullRequests
  <2>4. Becomes(p, pr)
    BY <1>3 DEF Labelled
  <2> QED BY <2>3, <2>4, BecomesTypes
<1>4. /\ \A l \in UsedLabels : [prs[p] EXCEPT !.labels = @ \ {l}] \in PullRequests
      /\ [prs[p] EXCEPT !.draft = FALSE] \in PullRequests
      /\ [prs[p] EXCEPT !.state = "CLOSED", !.closed = now] \in PullRequests
      /\ [prs[p] EXCEPT !.state = "MERGED", !.merged = now, !.closed = now] \in PullRequests
      /\ [prs[p] EXCEPT !.state = "OPEN", !.closed = Never] \in PullRequests
  BY <1>1 DEF PullRequests, States
<1> QED BY <1>2, <1>3, <1>4, BecomesTypes
        DEF Moves, TakeOff, ReadyForReview, Close, Merge, Reopen

LEMMA PageTypes ==
  ASSUME TypeOK, NEW p \in job.todo, fetch_timeline(p)
  PROVE  job' \in Jobs
<1>1. /\ job \in Jobs /\ job.page \in Seq(Events) /\ p \in PRs /\ prs[p] \in PullRequests
      /\ prs[p].events \in Seq(Events) /\ PageSize \in Nat
  BY JobTypes, ScaleAssumption DEF TypeOK, PullRequests
<1> DEFINE from == Len(job.page)
           events == prs[p].events
<1>2. from \in Nat /\ Len(events) \in Nat
  BY <1>1
<1>3. /\ SubSeq(events, from + 1, Len(events)) \in Seq(Events)
      /\ Len(events) > from + PageSize => SubSeq(events, from + 1, from + PageSize) \in Seq(Events)
  BY <1>1, <1>2, SubSeqProperties
<1>4. PICK more \in BOOLEAN, page \in Seq(Events) :
        job' = IF more THEN [job EXCEPT !.page = @ \o page]
               ELSE [job EXCEPT !.page = <<>>, !.todo = @ \ {p},
                                !.prs[p] = [prs[p] EXCEPT !.events = AllPages(job.page, page)]]
  BY <1>3 DEF fetch_timeline
<1>5. job.page \o page \in Seq(Events)
  BY <1>1
<1>6. [prs[p] EXCEPT !.events = AllPages(job.page, page)] \in PullRequests
  BY <1>1, <1>5 DEF PullRequests, AllPages
<1>7. CASE more
  BY <1>1, <1>4, <1>5, <1>7 DEF Jobs
<1>8. CASE ~more
  <2> DEFINE ps == [job.prs EXCEPT ![p] = [prs[p] EXCEPT !.events = AllPages(job.page, page)]]
  <2>1. ps \in [PRs -> PullRequests]
    BY <1>1, <1>6, JobTypes
  <2>2. job' = [job EXCEPT !.page = <<>>, !.todo = @ \ {p}, !.prs = ps]
    BY <1>1, <1>4, <1>8 DEF Jobs
  <2>3. job.todo \ {p} \in SUBSET PRs /\ <<>> \in Seq(Events)
    BY <1>1, JobTypes
  <2> HIDE DEF ps
  <2> QED BY <1>1, <2>1, <2>2, <2>3 DEF Jobs
<1> QED BY <1>7, <1>8

LEMMA TypeStep == TypeOK /\ [Next]_vars => TypeOK'
<1> SUFFICES ASSUME TypeOK, [Next]_vars PROVE TypeOK'
  OBVIOUS
<1>0. job \in Jobs /\ now \in Nat /\ prs \in [PRs -> PullRequests]
  BY DEF TypeOK
<1>1. ASSUME NEW p \in PRs, PullRequestMoves(p) PROVE TypeOK'
  BY <1>1, MovesCovers, MovesTypes
<1>2. CASE Tick
  BY <1>2, DisturbTypes DEF Tick, TypeOK
<1>3. CASE Checkout
  <2>1. static' \in [Assets -> Nat \cup {Never}]
    BY <1>3 DEF Checkout, Fallback
  <2>2. NoJob \in Jobs
    BY UnopenedType DEF NoJob, Jobs, ASSET_NAMES
  <2>3. job' \in Jobs
    BY <1>0, <1>3, <2>2 DEF Checkout, Jobs
  <2> QED BY <1>3, <2>1, <2>3 DEF Checkout, TypeOK
<1>4. CASE fetch_prs
  <2>1. \A p \in PRs : [prs[p] EXCEPT !.events = <<>>] \in PullRequests
    <3>1. <<>> \in Seq(Events)
      OBVIOUS
    <3> QED BY <1>0, <3>1 DEF PullRequests
  <2> DEFINE ps == [p \in PRs |-> [prs[p] EXCEPT !.events = <<>>]]
             todo == {p \in Known(prs) : prs[p].closed = Never \/ prs[p].closed >= EPOCH}
  <2>2. ps \in [PRs -> PullRequests] /\ todo \in SUBSET PRs
    BY <2>1 DEF Known
  <2>3. job' = [job EXCEPT !.step = "timelines", !.prs = ps, !.todo = todo]
    BY <1>4 DEF fetch_prs
  <2> HIDE DEF ps, todo
  <2>4. job' \in Jobs
    BY <1>0, <2>2, <2>3 DEF Jobs
  <2> QED BY <1>4, <2>4 DEF fetch_prs, TypeOK
<1>5. ASSUME NEW p \in PRs, fetch_timeline(p) PROVE TypeOK'
  BY <1>5, PageTypes DEF fetch_timeline, TypeOK
<1>6. CASE CheckTransitions
  <2>1. job' \in Jobs
    BY <1>0, <1>6 DEF CheckTransitions, Jobs
  <2> QED BY <1>6, <2>1 DEF CheckTransitions, TypeOK
<1>7. CASE fetch_snapshot
  <2>1. job' \in Jobs
    BY <1>0, <1>7 DEF fetch_snapshot, Stamp, Jobs
  <2> QED BY <1>7, <2>1 DEF fetch_snapshot, TypeOK
<1>8. CASE FetchFails
  <2>1. job' \in Jobs
    BY <1>0, <1>8 DEF FetchFails, Jobs
  <2> QED BY <1>8, <2>1 DEF FetchFails, TypeOK
<1>9. CASE generate
  <2>1. job' \in Jobs
    BY <1>0, <1>9 DEF generate, Jobs
  <2> QED BY <1>9, <2>1 DEF generate, TypeOK
<1>10. CASE ReplaceAsset
  <2>1. \/ job' = IF job.asset = Len(ASSET_NAMES) THEN [job EXCEPT !.step = "health"]
                   ELSE [job EXCEPT !.asset = @ + 1]
        \/ job' = [job EXCEPT !.step = "health"]
    BY <1>10 DEF ReplaceAsset
  <2>2. Len(ASSET_NAMES) = 6 /\ job.asset \in 1..6 /\ DOMAIN ASSET_NAMES = 1..6
    BY <1>0, JobTypes DEF ASSET_NAMES
  <2>3. job' \in Jobs
    <3>1. job.asset # 6 => job.asset + 1 \in 1..6
      BY <2>2
    <3> QED BY <1>0, <2>1, <2>2, <3>1 DEF Jobs
  <2>4. static' \in [Assets -> Nat \cup {Never}]
    <3>1. job.fetched_at \in Nat \cup {Never} /\ static \in [Assets -> Nat \cup {Never}]
      BY <1>0, JobTypes DEF TypeOK
    <3> QED BY <1>10, <3>1 DEF ReplaceAsset
  <2> QED BY <1>10, <2>3, <2>4 DEF ReplaceAsset, TypeOK
<1>11. CASE pipeline_health
  <2>1. job' \in Jobs
    BY <1>0, <1>11 DEF pipeline_health, Jobs
  <2>2. static' \in [Assets -> Nat \cup {Never}]
    <3>1. job.fetched_at \in Nat \cup {Never} /\ static \in [Assets -> Nat \cup {Never}]
      BY <1>0, JobTypes DEF TypeOK
    <3> QED BY <1>11, <3>1 DEF pipeline_health
  <2> QED BY <1>11, <2>1, <2>2 DEF pipeline_health, TypeOK
<1>12. CASE Deploy
  <2>1. job' \in Jobs
    BY <1>0, <1>12 DEF Deploy, Jobs
  <2> QED BY <1>12, <2>1 DEF Deploy, TypeOK
<1>13. CASE UNCHANGED vars
  BY <1>13 DEF vars, TypeOK
<1> QED BY <1>1, <1>2, <1>3, <1>4, <1>5, <1>6, <1>7, <1>8, <1>9, <1>10, <1>11, <1>12, <1>13 DEF Next

-------------------------------------------------------------------------------
(* The pull requests                                                       *)

LEMMA SoundLater ==
  ASSUME NEW pr \in PullRequests, NEW m \in Nat, NEW n \in Nat, m <= n, Sound(pr, m)
  PROVE  Sound(pr, n)
<1>1. /\ pr.closed \in Nat \cup {Never}
      /\ \A i \in DOMAIN pr.events : pr.events[i].at \in Nat
  <2>1. pr.closed \in Nat \cup {Never} /\ pr.events \in Seq(Events)
    BY DEF PullRequests
  <2>2. \A i \in DOMAIN pr.events : pr.events[i] \in Events
    BY <2>1
  <2> QED BY <2>1, <2>2 DEF Events
<1>2. \A t \in Nat : t <= m => t <= n
  OBVIOUS
<1> QED BY <1>1, <1>2 DEF Sound

LEMMA RunFrame ==
  ASSUME Next, ~Tick, ~\E p \in PRs : PullRequestMoves(p)
  PROVE  UNCHANGED <<now, prs>>
BY DEF Next, Checkout, fetch_prs, fetch_timeline, CheckTransitions, fetch_snapshot, FetchFails,
       generate, ReplaceAsset, pipeline_health, Deploy

\* A label that is added comes with its event.
LEMMA LabelledIsSound ==
  ASSUME NEW pr \in PullRequests, NEW t \in Nat, Sound(pr, t), Explained(pr),
         pr.state # "none", NEW l \in UsedLabels, NEW labels, labels \subseteq pr.labels,
         NEW new, new = [pr EXCEPT !.labels = labels \cup {l},
                                   !.events = Append(@, [label |-> l, at |-> t])]
  PROVE  Sound(new, t) /\ Explained(new)
<1> DEFINE e == [label |-> l, at |-> t]
           ev == pr.events
           ev2 == Append(ev, e)
<1>1. ev \in Seq(Events) /\ e \in Events
  BY DEF PullRequests, Events
<1>2. /\ DOMAIN ev = 1..Len(ev) /\ DOMAIN ev2 = 1..(Len(ev) + 1) /\ Len(ev) \in Nat
      /\ \A i \in 1..Len(ev) : ev2[i] = ev[i]
      /\ ev2[Len(ev) + 1] = e
  BY <1>1
<1>3. /\ new.events = ev2 /\ new.labels = labels \cup {l} /\ new.state = pr.state
      /\ new.closed = pr.closed /\ new.merged = pr.merged
  BY DEF PullRequests
<1>4. e.at = t /\ e.label = l /\ t <= t
  OBVIOUS
<1> HIDE DEF e, ev2
<1>5. \A i \in DOMAIN ev2 : ev2[i].at <= t
  BY <1>2, <1>4 DEF Sound
<1>6. Len(ev) + 1 \in DOMAIN ev2 /\ \A i \in DOMAIN ev : i \in DOMAIN ev2
  BY <1>2
<1>7. Sound(new, t)
  BY <1>3, <1>5 DEF Sound
<1>8. \A k \in labels : \E i \in DOMAIN ev2 : ev2[i].label = k
  <2> TAKE k \in labels
  <2>1. PICK i \in DOMAIN ev : ev[i].label = k
    BY DEF Explained
  <2> QED BY <2>1, <1>2, <1>6
<1>9. Explained(new)
  BY <1>2, <1>3, <1>4, <1>6, <1>8 DEF Explained
<1> QED BY <1>7, <1>9

LEMMA BecomesSound ==
  ASSUME TypeOK, WorldInv, NEW p \in PRs, NEW pr, Becomes(p, pr),
         Sound(pr, now), Explained(pr)
  PROVE  WorldInv'
<1>1. now' = now /\ prs' = [prs EXCEPT ![p] = pr] /\ prs \in [PRs -> PullRequests]
  BY DEF Becomes, TypeOK
<1> QED BY <1>1 DEF WorldInv

LEMMA MovesSound ==
  ASSUME TypeOK, WorldInv, NEW p \in PRs, Moves(p)
  PROVE  WorldInv'
<1> DEFINE pr == prs[p]
<1>1. pr \in PullRequests /\ now \in Nat /\ Sound(pr, now) /\ Explained(pr) /\ now # Never
  BY NeverAssumption DEF TypeOK, WorldInv
<1>2. ASSUME NEW draft \in BOOLEAN,
             Becomes(p, [Unopened EXCEPT !.state = "OPEN", !.draft = draft, !.created = now])
      PROVE  WorldInv'
  <2> DEFINE new == [Unopened EXCEPT !.state = "OPEN", !.draft = draft, !.created = now]
  <2>1. /\ new.state = "OPEN" /\ new.closed = Never /\ new.events = <<>> /\ new.labels = {}
        /\ DOMAIN new.events = {}
    BY DEF Unopened
  <2> HIDE DEF new
  <2>2. Sound(new, now) /\ Explained(new)
    BY <2>1 DEF Sound, Explained
  <2> QED BY <1>2, <2>2, BecomesSound DEF new
<1>3. ASSUME NEW l \in UsedLabels, NEW labels \in SUBSET UsedLabels, labels \subseteq pr.labels,
             Labelled(p, l, labels)
      PROVE  WorldInv'
  <2> DEFINE new == [pr EXCEPT !.labels = labels \cup {l},
                               !.events = Append(@, [label |-> l, at |-> now])]
  <2>1. Becomes(p, new) /\ pr.state # "none"
    BY <1>3 DEF Labelled
  <2>2. Sound(new, now) /\ Explained(new)
    BY <1>1, <1>3, <2>1, LabelledIsSound
  <2> QED BY <2>1, <2>2, BecomesSound
<1>4. ASSUME NEW l \in UsedLabels, TakeOff(p, l) PROVE WorldInv'
  <2> DEFINE new == [pr EXCEPT !.labels = @ \ {l}]
  <2>1. /\ Becomes(p, new)
        /\ new.labels \subseteq pr.labels /\ new.events = pr.events /\ new.state = pr.state
        /\ new.closed = pr.closed /\ new.merged = pr.merged
    BY <1>1, <1>4 DEF TakeOff, PullRequests
  <2> HIDE DEF new
  <2>2. Sound(new, now) /\ Explained(new)
    BY <1>1, <2>1 DEF Sound, Explained
  <2> QED BY <2>1, <2>2, BecomesSound
<1>5. CASE ReadyForReview(p)
  <2> DEFINE new == [pr EXCEPT !.draft = FALSE]
  <2>1. /\ Becomes(p, new)
        /\ new.labels = pr.labels /\ new.events = pr.events /\ new.state = pr.state
        /\ new.closed = pr.closed /\ new.merged = pr.merged
    BY <1>1, <1>5 DEF ReadyForReview, PullRequests
  <2> HIDE DEF new
  <2>2. Sound(new, now) /\ Explained(new)
    BY <1>1, <2>1 DEF Sound, Explained
  <2> QED BY <2>1, <2>2, BecomesSound
<1>6. CASE Close(p)
  <2> DEFINE new == [pr EXCEPT !.state = "CLOSED", !.closed = now]
  <2>1. /\ Becomes(p, new)
        /\ new.labels = pr.labels /\ new.events = pr.events /\ new.state = "CLOSED"
        /\ new.closed = now
    BY <1>1, <1>6 DEF Close, PullRequests
  <2> HIDE DEF new
  <2>2. Sound(new, now) /\ Explained(new)
    BY <1>1, <2>1 DEF Sound, Explained
  <2> QED BY <2>1, <2>2, BecomesSound
<1>7. CASE Merge(p)
  <2> DEFINE new == [pr EXCEPT !.state = "MERGED", !.merged = now, !.closed = now]
  <2>1. /\ Becomes(p, new)
        /\ new.labels = pr.labels /\ new.events = pr.events /\ new.state = "MERGED"
        /\ new.closed = now
    BY <1>1, <1>7 DEF Merge, PullRequests
  <2> HIDE DEF new
  <2>2. Sound(new, now) /\ Explained(new)
    BY <1>1, <2>1 DEF Sound, Explained
  <2> QED BY <2>1, <2>2, BecomesSound
<1>8. CASE Reopen(p)
  <2> DEFINE new == [pr EXCEPT !.state = "OPEN", !.closed = Never]
  <2>1. /\ Becomes(p, new)
        /\ new.labels = pr.labels /\ new.events = pr.events /\ new.state = "OPEN"
        /\ new.closed = Never
    BY <1>1, <1>8 DEF Reopen, PullRequests
  <2> HIDE DEF new
  <2>2. Sound(new, now) /\ Explained(new)
    BY <1>1, <2>1 DEF Sound, Explained
  <2> QED BY <2>1, <2>2, BecomesSound
<1> QED BY <1>2, <1>3, <1>4, <1>5, <1>6, <1>7, <1>8 DEF Moves

LEMMA WorldStep == TypeOK /\ WorldInv /\ [Next]_vars => WorldInv'
<1> SUFFICES ASSUME TypeOK, WorldInv, [Next]_vars PROVE WorldInv'
  OBVIOUS
<1>1. ASSUME NEW p \in PRs, PullRequestMoves(p) PROVE WorldInv'
  BY <1>1, MovesCovers, MovesSound
<1>2. CASE Tick
  <2>1. now \in Nat /\ now + 1 \in Nat /\ now <= now + 1 /\ \A p \in PRs : prs[p] \in PullRequests
    BY DEF TypeOK
  <2>2. \A p \in PRs : Sound(prs[p], now + 1)
    BY <2>1, SoundLater DEF WorldInv
  <2>3. now' = now + 1 /\ prs' = prs
    BY <1>2 DEF Tick
  <2> QED BY <2>2, <2>3 DEF WorldInv
<1>3. CASE UNCHANGED <<now, prs>>
  BY <1>3 DEF WorldInv
<1> QED BY <1>1, <1>2, <1>3, RunFrame DEF vars
-------------------------------------------------------------------------------
(* A run                                                                   *)

\* What other people do leaves the run alone and the snapshot as it was; a
\* timeline gets longer.
LEMMA MovesFrame ==
  ASSUME TypeOK, WorldInv, NEW p \in PRs, Moves(p)
  PROVE  /\ UNCHANGED <<now, static, site>> /\ Disturb
         /\ \A q \in PRs : prs'[q].events = prs[q].events
              \/ \E e \in Events : prs'[q].events = Append(prs[q].events, e)
<1> DEFINE Grows(ev) == \/ ev = prs[p].events
                        \/ \E e \in Events : ev = Append(prs[p].events, e)
<1>1. ASSUME NEW pr, Becomes(p, pr), Grows(pr.events)
      PROVE  /\ UNCHANGED <<now, static, site>> /\ Disturb
             /\ \A q \in PRs : prs'[q].events = prs[q].events
                  \/ \E e \in Events : prs'[q].events = Append(prs[q].events, e)
  <2>1. /\ UNCHANGED <<now, static, site>> /\ Disturb
        /\ prs' = [prs EXCEPT ![p] = pr] /\ prs \in [PRs -> PullRequests]
    BY <1>1 DEF Becomes, TypeOK
  <2> QED BY <1>1, <2>1
<1>2. prs[p] \in PullRequests /\ now \in Nat
  BY DEF TypeOK
<1>3. ASSUME NEW draft \in BOOLEAN, prs[p].state = "none"
      PROVE  Grows([Unopened EXCEPT !.state = "OPEN", !.draft = draft, !.created = now].events)
  BY <1>3 DEF Unopened, WorldInv, Sound
<1>4. ASSUME NEW l \in UsedLabels, NEW labels
      PROVE  Grows([prs[p] EXCEPT !.labels = labels \cup {l},
                                  !.events = Append(@, [label |-> l, at |-> now])].events)
  BY <1>2, <1>4 DEF PullRequests, Events
<1>5. /\ \A l \in UsedLabels : Grows([prs[p] EXCEPT !.labels = @ \ {l}].events)
      /\ Grows([prs[p] EXCEPT !.draft = FALSE].events)
      /\ Grows([prs[p] EXCEPT !.state = "CLOSED", !.closed = now].events)
      /\ Grows([prs[p] EXCEPT !.state = "MERGED", !.merged = now, !.closed = now].events)
      /\ Grows([prs[p] EXCEPT !.state = "OPEN", !.closed = Never].events)
  BY <1>2 DEF PullRequests
<1> HIDE DEF Grows
<1> QED BY <1>1, <1>3, <1>4, <1>5
        DEF Moves, Labelled, TakeOff, ReadyForReview, Close, Merge, Reopen

\* A disturbed run knows what it knew, and it is at the same step.
LEMMA DisturbFrame ==
  ASSUME job \in Jobs, Disturb
  PROVE  /\ job'.step = job.step /\ job'.prs = job.prs /\ job'.todo = job.todo
         /\ job'.page = job.page /\ job'.asset = job.asset /\ job'.fetched_at = job.fetched_at
         /\ job'.accused = job.accused
         /\ job.step \in {"idle", "list", "timelines", "comments"}
BY DEF Disturb, Jobs

LEMMA BeginsLonger ==
  ASSUME NEW page \in Seq(Events), NEW ev \in Seq(Events), NEW e \in Events, Begins(page, ev)
  PROVE  Begins(page, Append(ev, e))
<1>1. /\ Len(page) \in Nat /\ Len(ev) \in Nat /\ Len(Append(ev, e)) = Len(ev) + 1
      /\ \A i \in 1..Len(ev) : Append(ev, e)[i] = ev[i]
  OBVIOUS
<1>2. Len(page) <= Len(ev) + 1 /\ \A i \in 1..Len(page) : i \in 1..Len(ev)
  BY <1>1 DEF Begins
<1> QED BY <1>1, <1>2 DEF Begins

LEMMA OthersKeep ==
  ASSUME IInv, Disturb, UNCHANGED <<static, site>>, now' \in Nat, now <= now',
         \A q \in PRs : prs'[q].events = prs[q].events
              \/ \E e \in Events : prs'[q].events = Append(prs[q].events, e)
  PROVE  SnapshotInv' /\ ReadInv' /\ AssetsInv'
<1>1. /\ job'.step = job.step /\ job'.prs = job.prs /\ job'.todo = job.todo
      /\ job'.page = job.page /\ job'.asset = job.asset /\ job'.fetched_at = job.fetched_at
      /\ job'.accused = job.accused
      /\ job.step \in {"idle", "list", "timelines", "comments"} /\ job \in Jobs
  BY DisturbFrame DEF IInv, TypeOK
<1>2. /\ job.prs \in [PRs -> PullRequests] /\ job.todo \subseteq PRs /\ job.page \in Seq(Events)
      /\ \A q \in PRs : prs[q].events \in Seq(Events)
      /\ now \in Nat
  BY <1>1, JobTypes DEF IInv, TypeOK, PullRequests
<1>3. \A pr \in PullRequests : Sound(pr, now) => Sound(pr, now')
  BY <1>2, SoundLater
<1>4. SnapshotInv'
  <2>1. \A p \in PRs : job.prs[p] \in PullRequests
    BY <1>2
  <2> QED BY <1>1, <1>3, <2>1 DEF IInv, SnapshotInv, Taken
<1>5. ReadInv'
  <2>1. ASSUME NEW p \in job.todo, Begins(job.page, prs[p].events)
        PROVE  Begins(job.page, prs'[p].events)
    BY <1>2, <2>1, BeginsLonger
  <2> QED BY <1>1, <2>1 DEF IInv, ReadInv
<1>6. AssetsInv'
  BY <1>1 DEF IInv, AssetsInv
<1> QED BY <1>4, <1>5, <1>6
UpTo(page, ev, n) == page \o SubSeq(ev, Len(page) + 1, n)

LEMMA NextPage ==
  ASSUME NEW page \in Seq(Events), NEW ev \in Seq(Events), Begins(page, ev),
         NEW n \in Nat, Len(page) <= n, n <= Len(ev)
  PROVE  /\ Begins(UpTo(page, ev, n), ev) /\ Len(UpTo(page, ev, n)) = n
         /\ UpTo(page, ev, n) \in Seq(Events)
<1> DEFINE more == UpTo(page, ev, n)
           from == Len(page)
           next == SubSeq(ev, from + 1, n)
<1>1. from \in Nat /\ Len(ev) \in Nat
  OBVIOUS
<1>2. /\ next \in Seq(Events) /\ Len(next) = n - from
      /\ \A i \in 1..(n - from) : next[i] = ev[from + i]
  <2>1. \A i \in (from + 1)..n : i \in 1..Len(ev)
    BY <1>1
  <2>2. \A i \in (from + 1)..n : ev[i] \in Events
    BY <2>1
  <2>3. /\ next \in Seq(Events)
        /\ Len(next) = IF from + 1 <= n THEN n - (from + 1) + 1 ELSE 0
        /\ \A i \in 1..(n - (from + 1) + 1) : next[i] = ev[(from + 1) + i - 1]
    BY <1>1, <2>2, SubSeqProperties
  <2>4. n - (from + 1) + 1 = n - from /\ \A i \in Int : (from + 1) + i - 1 = from + i
    BY <1>1
  <2>5. (IF from + 1 <= n THEN n - (from + 1) + 1 ELSE 0) = n - from
    BY <1>1
  <2> HIDE DEF next
  <2> QED BY <2>3, <2>4, <2>5
<1> HIDE DEF next
<1>3. /\ more = page \o next /\ more \in Seq(Events) /\ Len(more) = n
      /\ \A i \in 1..n : more[i] = IF i <= from THEN page[i] ELSE next[i - from]
  BY <1>1, <1>2, ConcatProperties DEF next, UpTo
<1> HIDE DEF more
<1>4. ASSUME NEW i \in 1..n PROVE more[i] = ev[i]
  <2>1. CASE i <= from
    BY <1>1, <1>3, <2>1 DEF Begins
  <2>2. CASE ~(i <= from)
    <3>1. i - from \in 1..(n - from) /\ from + (i - from) = i
      BY <1>1, <2>2
    <3> QED BY <1>2, <1>3, <2>2, <3>1
  <2> QED BY <2>1, <2>2
<1>5. Begins(more, ev)
  BY <1>3, <1>4 DEF Begins
<1> QED BY <1>3, <1>5 DEF more

LEMMA LastPage ==
  ASSUME NEW page \in Seq(Events), NEW ev \in Seq(Events), Begins(page, ev), Len(page) = Len(ev)
  PROVE  page = ev
BY SeqEqual DEF Begins

LEMMA BeginsEmpty == \A ev \in Seq(Events) : Begins(<<>>, ev)
BY DEF Begins

\* A page is the next piece of the timeline; after the last one the pull
\* request is kept as it is at that moment.
LEMMA PageStep ==
  ASSUME IInv, NEW p \in PRs, fetch_timeline(p)
  PROVE  \/ \E page \in Seq(Events) :
               job' = [job EXCEPT !.page = page] /\ Begins(page, prs[p].events)
         \/ \E ps \in [PRs -> PullRequests] :
               /\ job' = [job EXCEPT !.page = <<>>, !.todo = @ \ {p}, !.prs = ps]
               /\ ps = [job.prs EXCEPT ![p] = prs[p]]
<1> DEFINE ev == prs[p].events
           from == Len(job.page)
           more == Len(ev) > from + PageSize
<1>1. /\ job \in Jobs /\ job.page \in Seq(Events) /\ prs[p] \in PullRequests /\ ev \in Seq(Events)
      /\ job.prs \in [PRs -> PullRequests] /\ PageSize \in Nat
  BY JobTypes, ScaleAssumption DEF IInv, TypeOK, PullRequests
<1>2. Begins(job.page, ev) /\ p \in job.todo
  BY DEF fetch_timeline, IInv, ReadInv
<1>3. from \in Nat /\ Len(ev) \in Nat /\ from <= Len(ev) /\ Len(ev) <= Len(ev)
  BY <1>1, <1>2 DEF Begins
<1>4. CASE more
  <2>1. from + PageSize \in Nat /\ from <= from + PageSize /\ from + PageSize <= Len(ev)
    BY <1>1, <1>3, <1>4
  <2> DEFINE page == job.page \o SubSeq(ev, from + 1, from + PageSize)
  <2>2. Begins(page, ev) /\ page \in Seq(Events)
    <3> DEFINE n == from + PageSize
    <3>1. n \in Nat /\ Len(job.page) <= n /\ n <= Len(ev)
      BY <2>1
    <3>2. page = UpTo(job.page, ev, n)
      BY DEF UpTo
    <3> HIDE DEF page, n, ev, from, more
    <3> QED BY <1>1, <1>2, <3>1, <3>2, NextPage
  <2>3. job' = [job EXCEPT !.page = page]
    BY <1>4 DEF fetch_timeline
  <2> QED BY <2>2, <2>3
<1>5. CASE ~more
  <2> DEFINE page == job.page \o SubSeq(ev, from + 1, Len(ev))
  <2>1. Begins(page, ev) /\ page \in Seq(Events) /\ Len(page) = Len(ev)
    <3> DEFINE n == Len(ev)
    <3>1. n \in Nat /\ Len(job.page) <= n /\ n <= Len(ev)
      BY <1>3
    <3>2. page = UpTo(job.page, ev, n)
      BY DEF UpTo
    <3> HIDE DEF page, n, ev, from, more
    <3>3. Begins(page, ev) /\ Len(page) = n /\ page \in Seq(Events)
      BY <1>1, <1>2, <3>1, <3>2, NextPage
    <3> QED BY <3>3 DEF n
  <2>2. page = ev
    BY <1>1, <2>1, LastPage
  <2>3. job' = [job EXCEPT !.page = <<>>, !.todo = @ \ {p},
                           !.prs[p] = [prs[p] EXCEPT !.events = page]]
    BY <1>5 DEF fetch_timeline, AllPages
  <2> HIDE DEF page
  <2>4. [prs[p] EXCEPT !.events = page] = prs[p]
    BY <1>1, <2>2 DEF PullRequests
  <2> DEFINE ps == [job.prs EXCEPT ![p] = prs[p]]
  <2>5. ps \in [PRs -> PullRequests]
    BY <1>1
  <2>6. job' = [job EXCEPT !.page = <<>>, !.todo = @ \ {p}, !.prs = ps]
    BY <1>1, <2>3, <2>4 DEF Jobs
  <2> QED BY <2>5, <2>6
<1> QED BY <1>4, <1>5
Kept == SnapshotInv /\ ReadInv /\ AssetsInv

LEMMA CheckoutKeeps == IInv /\ Checkout => Kept'
<1> SUFFICES ASSUME IInv, Checkout PROVE Kept'
  OBVIOUS
<1>1. /\ job'.step = "list" /\ job'.page = <<>> /\ job'.accused = FALSE /\ job'.asset = 1
      /\ static' = Fallback /\ site' = site
  BY DEF Checkout, NoJob
<1>2. static'["pr-stats.json"] = Never
  BY <1>1 DEF Fallback, Assets, ASSET_NAMES
<1> QED BY <1>1, <1>2 DEF IInv, Kept, SnapshotInv, ReadInv, AssetsInv, Described, Taken

LEMMA FetchPrsKeeps == IInv /\ fetch_prs => Kept'
<1> SUFFICES ASSUME IInv, fetch_prs PROVE Kept'
  OBVIOUS
<1> DEFINE ps == [p \in PRs |-> [prs[p] EXCEPT !.events = <<>>]]
           todo == {p \in Known(prs) : prs[p].closed = Never \/ prs[p].closed >= EPOCH}
<1>1. /\ job' = [job EXCEPT !.step = "timelines", !.prs = ps, !.todo = todo]
      /\ job.step = "list" /\ UNCHANGED <<now, prs, static, site>>
  BY DEF fetch_prs
<1>2. job \in Jobs /\ \A p \in PRs : prs[p] \in PullRequests
  BY DEF IInv, TypeOK
<1>3. ASSUME NEW p \in PRs
      PROVE  /\ ps[p].state = prs[p].state
             /\ Sound(ps[p], now)
             /\ p \notin todo => ps[p].state # "OPEN"
  <2>1. /\ ps[p].state = prs[p].state /\ ps[p].merged = prs[p].merged
        /\ ps[p].closed = prs[p].closed /\ ps[p].events = <<>>
    BY <1>2 DEF PullRequests
  <2>2. DOMAIN ps[p].events = {}
    BY <2>1
  <2>3. Sound(prs[p], now)
    BY DEF IInv, WorldInv
  <2> HIDE DEF ps
  <2>4. Sound(ps[p], now)
    BY <2>1, <2>2, <2>3 DEF Sound
  <2>5. prs[p].state = "OPEN" => p \in todo
    BY <2>3 DEF Sound, Known
  <2> QED BY <2>1, <2>4, <2>5
<1>4. todo \subseteq PRs
  BY DEF Known
<1> HIDE DEF ps, todo
<1>5. /\ job'.step = "timelines" /\ job'.prs = ps /\ job'.todo = todo /\ job'.page = job.page
      /\ job'.accused = job.accused /\ job'.asset = job.asset /\ job'.fetched_at = job.fetched_at
  BY <1>1, <1>2 DEF Jobs
<1>6. job.page = <<>> /\ ~job.accused /\ AssetsInv
  BY <1>1 DEF IInv, ReadInv
<1>7. SnapshotInv'
  BY <1>1, <1>3, <1>5 DEF SnapshotInv, Taken
<1>8. \A p \in PRs : Begins(<<>>, prs[p].events)
  BY <1>2, BeginsEmpty DEF PullRequests
<1>9. ReadInv'
  BY <1>1, <1>3, <1>4, <1>5, <1>6, <1>8 DEF ReadInv
<1>10. AssetsInv'
  BY <1>1, <1>5, <1>6 DEF AssetsInv
<1> QED BY <1>7, <1>9, <1>10 DEF Kept

LEMMA PageKeeps == ASSUME IInv, NEW p \in PRs, fetch_timeline(p) PROVE Kept'
<1>1. /\ job.step = "timelines" /\ UNCHANGED <<now, prs, static, site>>
      /\ p \in job.todo /\ \A q \in job.todo : p <= q
  BY DEF fetch_timeline
<1>2. /\ job \in Jobs /\ job.prs \in [PRs -> PullRequests] /\ job.todo \subseteq PRs
      /\ \A q \in PRs : q \in Nat
      /\ \A q \in PRs : prs[q].events \in Seq(Events)
  BY JobTypes, PRsAssumption DEF IInv, TypeOK, PullRequests
<1>3. /\ \A q \in PRs : Sound(job.prs[q], now)
      /\ \A q \in PRs \ job.todo : job.prs[q].state = "OPEN" => Explained(job.prs[q])
      /\ ~job.accused /\ AssetsInv
  BY <1>1 DEF IInv, SnapshotInv, ReadInv
<1>4. ASSUME NEW page \in Seq(Events), job' = [job EXCEPT !.page = page], Begins(page, prs[p].events)
      PROVE  Kept'
  <2>1. /\ job'.step = "timelines" /\ job'.prs = job.prs /\ job'.todo = job.todo /\ job'.page = page
        /\ job'.accused = job.accused /\ job'.asset = job.asset
    BY <1>1, <1>2, <1>4 DEF Jobs
  <2>2. ASSUME NEW q \in job.todo, \A r \in job.todo : q <= r PROVE q = p
    <3>1. q <= p /\ p <= q /\ p \in Nat /\ q \in Nat
      BY <1>1, <1>2, <2>2
    <3> QED BY <3>1
  <2>3. ReadInv'
    BY <1>1, <1>3, <1>4, <2>1, <2>2 DEF ReadInv
  <2>4. SnapshotInv' /\ AssetsInv'
    BY <1>1, <1>3, <2>1 DEF SnapshotInv, Taken, AssetsInv
  <2> QED BY <2>3, <2>4 DEF Kept
<1>5. ASSUME NEW ps \in [PRs -> PullRequests], ps = [job.prs EXCEPT ![p] = prs[p]],
             job' = [job EXCEPT !.page = <<>>, !.todo = @ \ {p}, !.prs = ps]
      PROVE  Kept'
  <2>1. /\ job'.step = "timelines" /\ job'.prs = ps /\ job'.todo = job.todo \ {p} /\ job'.page = <<>>
        /\ job'.accused = job.accused /\ job'.asset = job.asset
    BY <1>1, <1>2, <1>5 DEF Jobs
  <2>2. ps[p] = prs[p] /\ \A q \in PRs : q # p => ps[q] = job.prs[q]
    BY <1>2, <1>5
  <2>3. Sound(prs[p], now) /\ Explained(prs[p])
    BY DEF IInv, WorldInv
  <2>4. \A q \in PRs : Sound(ps[q], now)
    BY <1>3, <2>2, <2>3
  <2>5. \A q \in PRs \ (job.todo \ {p}) : ps[q].state = "OPEN" => Explained(ps[q])
    BY <1>3, <2>2, <2>3
  <2>6. \A q \in PRs : Begins(<<>>, prs[q].events)
    BY <1>2, BeginsEmpty
  <2>7. ReadInv'
    BY <1>1, <1>2, <1>3, <2>1, <2>5, <2>6 DEF ReadInv
  <2>8. SnapshotInv' /\ AssetsInv'
    BY <1>1, <1>3, <2>1, <2>4 DEF SnapshotInv, Taken, AssetsInv
  <2> QED BY <2>7, <2>8 DEF Kept
<1> QED BY <1>4, <1>5, PageStep

LEMMA CheckKeeps == IInv /\ CheckTransitions => Kept'
<1> SUFFICES ASSUME IInv, CheckTransitions PROVE Kept'
  OBVIOUS
<1>1. /\ job.step = "timelines" /\ job.todo = {} /\ UNCHANGED <<now, prs, static, site>>
      /\ job \in Jobs
  BY DEF CheckTransitions, IInv, TypeOK
<1>2. /\ \A q \in PRs : Sound(job.prs[q], now)
      /\ \A q \in PRs : job.prs[q].state = "OPEN" => Explained(job.prs[q])
      /\ ~job.accused /\ AssetsInv
  BY <1>1 DEF IInv, SnapshotInv, ReadInv
<1>3. ~\E p \in PRs : Unexplained(job.prs[p])
  BY <1>2 DEF Unexplained, Explained
<1>4. job' = [job EXCEPT !.step = "comments"]
  BY <1>3 DEF CheckTransitions
<1>5. /\ job'.step = "comments" /\ job'.prs = job.prs /\ job'.accused = job.accused
      /\ job'.asset = job.asset
  BY <1>1, <1>4 DEF Jobs
<1> QED BY <1>1, <1>2, <1>5 DEF Kept, SnapshotInv, ReadInv, AssetsInv, Taken

LEMMA SnapshotKeeps == IInv /\ fetch_snapshot => Kept'
<1> SUFFICES ASSUME IInv, fetch_snapshot PROVE Kept'
  OBVIOUS
<1>1. /\ job.step = "comments" /\ UNCHANGED <<now, prs, static, site>>
      /\ job \in Jobs /\ now \in Nat
      /\ job' = [job EXCEPT !.step = "generate", !.fetched_at = now]
  BY DEF fetch_snapshot, Stamp, IInv, TypeOK
<1>2. /\ \A q \in PRs : Sound(job.prs[q], now)
      /\ ~job.accused /\ AssetsInv
  BY <1>1 DEF IInv, SnapshotInv, ReadInv
<1>3. /\ job'.step = "generate" /\ job'.prs = job.prs /\ job'.accused = job.accused
      /\ job'.asset = job.asset /\ job'.fetched_at = now
  BY <1>1 DEF Jobs
<1> QED BY <1>1, <1>2, <1>3 DEF Kept, SnapshotInv, ReadInv, AssetsInv, Taken

\* The snapshot is what it was while it is made use of.
LEMMA LaterKeeps ==
  ASSUME IInv, NEW step \in {"replace", "health", "deploy", "deployed"},
         job' = [job EXCEPT !.step = step],
         step \in {"replace", "health"} => Taken,
         AssetsInv'
  PROVE  Kept'
<1>1. /\ job'.step = step /\ job'.prs = job.prs /\ job'.accused = job.accused
      /\ job'.fetched_at = job.fetched_at
  BY DEF IInv, TypeOK, Jobs
<1> QED BY <1>1 DEF Kept, IInv, SnapshotInv, ReadInv, Taken

LEMMA FetchFailsKeeps == IInv /\ FetchFails => Kept'
<1> SUFFICES ASSUME IInv, FetchFails PROVE Kept'
  OBVIOUS
<1>1. job' = [job EXCEPT !.step = "deploy"] /\ UNCHANGED <<static, site>> /\ job'.step = "deploy"
  BY DEF FetchFails, IInv, TypeOK, Jobs
<1>2. AssetsInv'
  BY <1>1 DEF IInv, AssetsInv
<1> QED BY <1>1, <1>2, LaterKeeps

LEMMA GenerateKeeps == IInv /\ generate => Kept'
<1> SUFFICES ASSUME IInv, generate PROVE Kept'
  OBVIOUS
<1>1. PICK step \in {"replace", "health"} : job' = [job EXCEPT !.step = step]
  BY DEF generate
<1>2. /\ job'.step = step /\ job'.asset = job.asset /\ job'.fetched_at = job.fetched_at
      /\ UNCHANGED <<static, site>> /\ Taken
      /\ job.step = "generate"
  BY <1>1 DEF generate, Taken, IInv, TypeOK, Jobs
<1>3. \A i \in DOMAIN ASSET_NAMES : ~(i < 1)
  BY DEF ASSET_NAMES
<1>4. AssetsInv'
  BY <1>2, <1>3 DEF IInv, AssetsInv
<1> QED BY <1>1, <1>2, <1>4, LaterKeeps

LEMMA Names ==
  /\ DOMAIN ASSET_NAMES = 1..6 /\ Len(ASSET_NAMES) = 6 /\ ASSET_NAMES[6] = "pr-stats.json"
  /\ \A i \in 1..6 : /\ ASSET_NAMES[i] \in Assets /\ ASSET_NAMES[i] # "pipeline-health.json"
                     /\ i # 6 => ASSET_NAMES[i] # "pr-stats.json"
  /\ \A i \in 1..6, k \in 1..6 : ASSET_NAMES[i] = ASSET_NAMES[k] => i = k
  /\ "pr-stats.json" \in Assets
<1>1. /\ ASSET_NAMES[1] = "pr-queue-age.svg" /\ ASSET_NAMES[2] = "review-cycles-reached.svg"
      /\ ASSET_NAMES[3] = "rolling-seven-day-history.svg"
      /\ ASSET_NAMES[4] = "cumulative-merges-by-contributor.svg"
      /\ ASSET_NAMES[5] = "cumulative-reviews-by-contributor.svg"
      /\ ASSET_NAMES[6] = "pr-stats.json" /\ DOMAIN ASSET_NAMES = 1..6 /\ Len(ASSET_NAMES) = 6
  BY DEF ASSET_NAMES
<1>2. \A i \in 1..6 : i = 1 \/ i = 2 \/ i = 3 \/ i = 4 \/ i = 5 \/ i = 6
  OBVIOUS
<1>3. \A i \in 1..6 : ASSET_NAMES[i] \in Assets
  BY <1>1 DEF Assets
<1> HIDE DEF ASSET_NAMES
<1>4. \A i \in 1..6 : /\ ASSET_NAMES[i] # "pipeline-health.json"
                     /\ i # 6 => ASSET_NAMES[i] # "pr-stats.json"
  BY <1>1, <1>2
<1>5. \A i \in 1..6, k \in 1..6 : ASSET_NAMES[i] = ASSET_NAMES[k] => i = k
  BY <1>1, <1>2
<1> QED BY <1>1, <1>3, <1>4, <1>5

LEMMA ReplaceKeeps == IInv /\ ReplaceAsset => Kept'
<1> SUFFICES ASSUME IInv, ReplaceAsset PROVE Kept'
  OBVIOUS
<1>1. /\ job.step = "replace" /\ UNCHANGED <<now, prs, site>> /\ job \in Jobs
      /\ job.asset \in 1..6 /\ static \in [Assets -> Nat \cup {Never}]
  BY JobTypes DEF ReplaceAsset, IInv, TypeOK
<1>2. /\ static["pr-stats.json"] = Never /\ Taken /\ Described(site)
      /\ job.fetched_at \in Nat
      /\ \A i \in 1..6 : i < job.asset => static[ASSET_NAMES[i]] = job.fetched_at
  BY <1>1, Names DEF IInv, AssetsInv, SnapshotInv, Taken
<1>3. CASE job' = [job EXCEPT !.step = "health"] /\ UNCHANGED static
  <2>1. job'.step = "health"
    BY <1>1, <1>3 DEF Jobs
  <2>2. AssetsInv'
    BY <1>1, <1>2, <1>3, <2>1 DEF AssetsInv, Described
  <2> QED BY <1>2, <1>3, <2>2, LaterKeeps
<1>4. CASE static' = [static EXCEPT ![NthAsset(job.asset)] = job.fetched_at]
  <2>1. /\ static'[ASSET_NAMES[job.asset]] = job.fetched_at
        /\ \A i \in 1..6 : i # job.asset => static'[ASSET_NAMES[i]] = static[ASSET_NAMES[i]]
    <3> DEFINE a == ASSET_NAMES[job.asset]
    <3>1. a \in Assets /\ static' = [static EXCEPT ![a] = job.fetched_at]
      BY <1>1, <1>4, Names DEF NthAsset
    <3>2. \A i \in 1..6 : i # job.asset => ASSET_NAMES[i] # a /\ ASSET_NAMES[i] \in Assets
      BY <1>1, Names
    <3> HIDE DEF a
    <3>3. /\ static'[a] = job.fetched_at
          /\ \A b \in Assets : b # a => static'[b] = static[b]
      BY <1>1, <3>1
    <3> QED BY <3>2, <3>3 DEF a
  <2>2. CASE job.asset = 6
    <3>1. job' = [job EXCEPT !.step = "health"] /\ job'.step = "health"
      <4>1. static' # static
        BY <1>2, <2>1, <2>2, Names, NeverAssumption
      <4> QED BY <1>1, <2>2, <4>1, Names DEF ReplaceAsset, Jobs
    <3>2. \A i \in 1..6 : static'[ASSET_NAMES[i]] = job.fetched_at
      <4> TAKE i \in 1..6
      <4>1. i # 6 => i < 6
        OBVIOUS
      <4> QED BY <1>2, <2>1, <2>2, <4>1
    <3>3. Described(static')
      BY <3>2, Names DEF Described
    <3>4. AssetsInv'
      BY <1>1, <1>2, <3>1, <3>3 DEF AssetsInv
    <3> QED BY <1>2, <3>1, <3>4, LaterKeeps
  <2>3. CASE job.asset # 6
    <3>1. \/ job' = [job EXCEPT !.asset = @ + 1]
          \/ job' = [job EXCEPT !.step = "health"]
      BY <2>3, Names DEF ReplaceAsset
    <3>2. static'["pr-stats.json"] = Never
      <4>1. 6 # job.asset /\ 6 \in 1..6
        BY <2>3
      <4> QED BY <1>2, <2>1, <4>1, Names
    <3>3. CASE job' = [job EXCEPT !.step = "health"]
      <4>1. job'.step = "health"
        BY <1>1, <3>3 DEF Jobs
      <4>2. AssetsInv'
        BY <1>1, <1>2, <3>2, <4>1 DEF AssetsInv, Described
      <4> QED BY <1>2, <3>3, <4>2, LaterKeeps
    <3>4. CASE job' = [job EXCEPT !.asset = @ + 1]
      <4>1. /\ job'.step = "replace" /\ job'.prs = job.prs /\ job'.accused = job.accused
            /\ job'.fetched_at = job.fetched_at /\ job'.asset = job.asset + 1
        BY <1>1, <3>4 DEF Jobs
      <4>2. \A i \in 1..6 : i < job.asset + 1 => static'[ASSET_NAMES[i]] = job.fetched_at
        <5> TAKE i \in 1..6
        <5>1. i < job.asset + 1 => i = job.asset \/ (i # job.asset /\ i < job.asset)
          BY <1>1
        <5> QED BY <1>2, <2>1, <5>1
      <4>3. AssetsInv'
        BY <1>1, <1>2, <3>2, <4>1, <4>2, Names DEF AssetsInv, Described
      <4> QED BY <1>1, <1>2, <4>1, <4>3 DEF Kept, IInv, SnapshotInv, ReadInv, Taken
    <3> QED BY <3>1, <3>3, <3>4
  <2> QED BY <2>2, <2>3
<1> QED BY <1>3, <1>4 DEF ReplaceAsset

LEMMA HealthKeeps == IInv /\ pipeline_health => Kept'
<1> SUFFICES ASSUME IInv, pipeline_health PROVE Kept'
  OBVIOUS
<1>1. /\ job' = [job EXCEPT !.step = "deploy"] /\ job'.step = "deploy" /\ site' = site
      /\ static \in [Assets -> Nat \cup {Never}]
  BY DEF pipeline_health, IInv, TypeOK, Jobs
<1>2. \A i \in 1..6 : static'[ASSET_NAMES[i]] = static[ASSET_NAMES[i]]
  <2>1. \A a \in Assets : a # "pipeline-health.json" => static'[a] = static[a]
    BY <1>1 DEF pipeline_health
  <2> QED BY <2>1, Names
<1>3. static'["pr-stats.json"] = static["pr-stats.json"]
  BY <1>2, Names
<1>4. AssetsInv'
  BY <1>1, <1>2, <1>3, Names DEF IInv, AssetsInv, Described
<1> QED BY <1>1, <1>4, LaterKeeps

LEMMA DeployKeeps == IInv /\ Deploy => Kept'
<1> SUFFICES ASSUME IInv, Deploy PROVE Kept'
  OBVIOUS
<1>1. /\ job' = [job EXCEPT !.step = "deployed"] /\ job'.step = "deployed" /\ site' = static
      /\ static' = static
  BY DEF Deploy, IInv, TypeOK, Jobs
<1>2. AssetsInv'
  BY <1>1 DEF IInv, AssetsInv
<1> QED BY <1>1, <1>2, LaterKeeps

LEMMA IInvInit == Init => IInv
<1> SUFFICES ASSUME Init PROVE IInv
  OBVIOUS
<1>1. /\ job.step = "idle" /\ job.page = <<>> /\ job.accused = FALSE /\ job.asset = 1
      /\ static["pr-stats.json"] = Never /\ site["pr-stats.json"] = Never
  BY Names DEF Init, NoJob, Fallback
<1>2. WorldInv
  BY DEF Init, WorldInv, Sound, Explained, Unopened
<1> QED BY <1>1, <1>2, TypeInit DEF IInv, SnapshotInv, ReadInv, AssetsInv, Described, Taken

LEMMA IInvStep == IInv /\ [Next]_vars => IInv'
<1> SUFFICES ASSUME IInv, [Next]_vars PROVE IInv'
  OBVIOUS
<1>1. TypeOK' /\ WorldInv'
  BY TypeStep, WorldStep DEF IInv
<1>2. ASSUME NEW p \in PRs, PullRequestMoves(p) PROVE Kept'
  <2>1. TypeOK /\ WorldInv /\ now \in Nat /\ now <= now
    BY DEF IInv, TypeOK
  <2>2. Moves(p)
    BY <1>2, <2>1, MovesCovers
  <2>3. /\ UNCHANGED <<now, static, site>> /\ Disturb
        /\ \A q \in PRs : prs'[q].events = prs[q].events
             \/ \E e \in Events : prs'[q].events = Append(prs[q].events, e)
    BY <2>1, <2>2, MovesFrame
  <2> QED BY <2>1, <2>3, OthersKeep DEF Kept
<1>3. ASSUME Tick PROVE Kept'
  <2>1. now \in Nat /\ now' = now + 1 /\ UNCHANGED <<prs, static, site>> /\ Disturb
    BY <1>3 DEF Tick, IInv, TypeOK
  <2>2. now' \in Nat /\ now <= now'
    <3> DEFINE n == now'
    <3>1. n = now + 1 /\ now \in Nat
      BY <2>1
    <3> HIDE DEF n
    <3>2. n \in Nat /\ now <= n
      BY <3>1
    <3> QED BY <3>2 DEF n
  <2>3. \A q \in PRs : prs'[q].events = prs[q].events
    BY <2>1
  <2> QED BY <2>1, <2>2, <2>3, OthersKeep DEF Kept
<1>4. ASSUME UNCHANGED vars PROVE Kept'
  <2>1. UNCHANGED <<now, prs, static, site, job>>
    BY <1>4 DEF vars
  <2>2. SnapshotInv'
    BY <2>1 DEF IInv, SnapshotInv, Taken
  <2>3. ReadInv'
    BY <2>1 DEF IInv, ReadInv
  <2>4. AssetsInv'
    BY <2>1 DEF IInv, AssetsInv
  <2> QED BY <2>2, <2>3, <2>4 DEF Kept
<1>5. ASSUME NEW p \in PRs, fetch_timeline(p) PROVE Kept'
  BY <1>5, PageKeeps
<1>6. Kept'
  BY <1>2, <1>3, <1>4, <1>5, CheckoutKeeps, FetchPrsKeeps, CheckKeeps, SnapshotKeeps,
     FetchFailsKeeps, GenerateKeeps, ReplaceKeeps, HealthKeeps, DeployKeeps DEF Next
<1> QED BY <1>1, <1>6 DEF IInv, Kept

LEMMA Invariant == Spec => []IInv
BY IInvInit, IInvStep, PTL DEF Spec

\* Every variable keeps its type.
THEOREM Typed == Spec => []TypeOK
<1>1. IInv => TypeOK
  BY DEF IInv
<1> QED BY <1>1, Invariant, PTL

\* However a pull request is labelled between two calls, its timeline explains
\* the labels that are read with it.
THEOREM NeverAccused == Spec => []FetchNeverAccuses
<1>1. IInv => FetchNeverAccuses
  BY DEF IInv, ReadInv, FetchNeverAccuses
<1> QED BY <1>1, Invariant, PTL

\* Whatever fails, a deployed pr-stats.json is of the snapshot of the charts.
THEOREM ChartsDescribed == Spec => []StatsDescribeCharts
<1>1. IInv => StatsDescribeCharts
  BY DEF IInv, AssetsInv, Described, StatsDescribeCharts
<1> QED BY <1>1, Invariant, PTL

-------------------------------------------------------------------------------
(* Throughput                                                              *)

\* The number of merges in a span, as find_cause counts it.
LEMMA CountsMerges ==
  ASSUME NEW s \in [PRs -> PullRequests], NEW from \in Int, NEW to \in Int,
         \A p \in PRs : s[p].state = "none" => s[p].merged = Never
  PROVE  counted(s, "merged", from, to) = Cardinality({p \in PRs : s[p].merged \in from..(to - 1)})
<1>1. \A p \in PRs : s[p].merged \in Nat \cup {Never}
  BY DEF PullRequests
<1>2. Never \notin Int
  BY NeverAssumption
<1>3. ASSUME NEW p \in PRs
      PROVE  /\ s[p].state # "none" /\ s[p]["merged"] # Never /\ Within(from, to, s[p]["merged"])
             <=> s[p].merged \in from..(to - 1)
  <2>1. CASE s[p].merged = Never
    BY <1>2, <2>1
  <2>2. CASE s[p].merged # Never
    <3> DEFINE m == s[p].merged
    <3>1. m \in Nat /\ s[p].state # "none" /\ s[p]["merged"] = m
      BY <1>1, <2>2
    <3> HIDE DEF m
    <3>2. from <= m /\ m < to <=> m \in from..(to - 1)
      BY <3>1
    <3> QED BY <2>2, <3>1, <3>2 DEF Within, m
  <2> QED BY <2>1, <2>2
<1>4. {p \in Known(s) : s[p]["merged"] # Never /\ Within(from, to, s[p]["merged"])}
        = {p \in PRs : s[p].merged \in from..(to - 1)}
  BY <1>3 DEF Known
<1> QED BY <1>4 DEF counted

LEMMA CauseNeedsFall ==
  ASSUME NEW s, NEW t, find_cause(s, t) \notin {"none", "insufficient_data"}
  PROVE  FellShort(counted(s, "merged", WindowStart(t), t), observable_hours(WindowStart(t), t),
                   counted(s, "merged", BaselineStart(t), BaselineEnd(t)),
                   observable_hours(BaselineStart(t), BaselineEnd(t)))
BY DEF find_cause

LEMMA AllObserved ==
  ASSUME NEW t \in Nat, t >= EPOCH + WINDOW + BASELINE
  PROVE  /\ observable_hours(WindowStart(t), t) = WINDOW
         /\ observable_hours(BaselineStart(t), BaselineEnd(t)) = BASELINE
         /\ WindowStart(t) \in Int /\ BaselineStart(t) \in Int /\ BaselineEnd(t) \in Int
         /\ WindowStart(t) = t - WINDOW /\ BaselineEnd(t) = t - WINDOW
         /\ BaselineStart(t) = (t - WINDOW) - BASELINE
<1>1. /\ WINDOW \in Nat /\ WINDOW > 0 /\ BASELINE \in Nat /\ BASELINE > 0 /\ EPOCH \in Nat
  BY WindowsAssumption, ScaleAssumption
<1>2. /\ WindowStart(t) = t - WINDOW /\ BaselineEnd(t) = t - WINDOW
      /\ BaselineStart(t) = (t - WINDOW) - BASELINE
  BY DEF WindowStart, BaselineEnd, BaselineStart
<1> DEFINE w == t - WINDOW
           b == w - BASELINE
<1>3. /\ w \in Int /\ b \in Int /\ ~(w < EPOCH) /\ ~(b < EPOCH) /\ t > w /\ w > b
      /\ t - w = WINDOW /\ w - b = BASELINE
  BY <1>1
<1> HIDE DEF w, b
<1>4. observable_hours(w, t) = WINDOW /\ observable_hours(b, w) = BASELINE
  BY <1>3 DEF observable_hours
<1> QED BY <1>2, <1>3, <1>4 DEF w, b

LEMMA FallHolds == IInv => FallIsReal
<1> SUFFICES ASSUME IInv, Taken, job.fetched_at >= EPOCH + WINDOW + BASELINE,
                    find_cause(job.prs, job.fetched_at) \notin {"none", "insufficient_data"}
             PROVE  CauseMeansFall
  BY DEF FallIsReal, CauseMeansFall
<1> DEFINE t == job.fetched_at
           s == job.prs
           w == t - WINDOW
           Merged(S) == Cardinality({p \in PRs : s[p].merged \in S})
           recent == Merged(w..(t - 1))
           before == Merged((w - BASELINE)..(w - 1))
<1>1. t \in Nat /\ s \in [PRs -> PullRequests] /\ \A p \in PRs : s[p].state = "none" => s[p].merged = Never
  BY JobTypes DEF IInv, TypeOK, SnapshotInv, Sound
<1>2. t \in Int /\ w \in Int /\ w - BASELINE \in Int
  BY <1>1, WindowsAssumption
<1>3. recent = counted(s, "merged", w, t) /\ before = counted(s, "merged", w - BASELINE, w)
  BY <1>1, <1>2, CountsMerges
<1>4. FellShort(counted(s, "merged", WindowStart(t), t), observable_hours(WindowStart(t), t),
                counted(s, "merged", BaselineStart(t), BaselineEnd(t)),
                observable_hours(BaselineStart(t), BaselineEnd(t)))
  BY CauseNeedsFall
<1>5. /\ observable_hours(WindowStart(t), t) = WINDOW
      /\ observable_hours(BaselineStart(t), BaselineEnd(t)) = BASELINE
      /\ WindowStart(t) = w /\ BaselineEnd(t) = w /\ BaselineStart(t) = w - BASELINE
  BY <1>1, AllObserved
<1> HIDE DEF recent, before, w
<1>6. FellShort(recent, WINDOW, before, BASELINE)
  BY <1>3, <1>4, <1>5
<1>7. 4 * recent * BASELINE < 3 * before * WINDOW
  BY <1>6 DEF FellShort
<1> QED BY <1>7 DEF CauseMeansFall, recent, before, w

\* Once there is a baseline, a cause is given only for a throughput that fell.
THEOREM FallReal == Spec => []FallIsReal
BY FallHolds, Invariant, PTL
-------------------------------------------------------------------------------
(* Reading a timeline event by event                                       *)

LEMMA LeastOf ==
  ASSUME NEW T, T \subseteq Nat, T # {}
  PROVE  \E n \in T : \A m \in T : n <= m
<1> DEFINE R == OpToRel(<, Nat)
<1>1. PICK n \in T : \A m \in T : <<m, n>> \notin R
  <2>1. IsWellFoundedOn(R, Nat)
    BY NatLessThanWellFounded
  <2> HIDE DEF R
  <2> QED BY <2>1, WFMin
<1>2. \A m \in T : m \in Nat
  OBVIOUS
<1>3. \A m \in T : ~(m < n)
  BY <1>1, <1>2 DEF OpToRel
<1>4. \A m \in T : n <= m
  <2> TAKE m \in T
  <2>1. m \in Nat /\ n \in Nat /\ ~(m < n)
    BY <1>2, <1>3
  <2> QED BY <2>1
<1> QED BY <1>4

\* What is so of no event read, and of one more than it was so of, is so of all.
LEMMA EventByEvent ==
  ASSUME NEW N \in Nat, NEW P, 0 \in P, \A n \in 1..N : n - 1 \in P => n \in P
  PROVE  \A n \in 0..N : n \in P
<1> DEFINE T == {n \in 0..N : n \notin P}
<1> SUFFICES ASSUME T # {} PROVE FALSE
  OBVIOUS
<1>1. T \subseteq Nat
  OBVIOUS
<1>2. PICK n \in T : \A m \in T : n <= m
  <2> HIDE DEF T
  <2> QED BY <1>1, LeastOf
<1>3. n \in 1..N /\ n - 1 \in 0..N /\ ~(n <= n - 1)
  OBVIOUS
<1> QED BY <1>2, <1>3

Steps(N, S) == [1..N -> [S -> S]]

\* f has what a loop over the first N events keeps after each of them.
IsLoop(f, N, S, base, step) ==
    /\ f \in [0..N -> S] /\ f[0] = base
    /\ \A n \in 1..N : f[n] = step[n][f[n - 1]]

LEMMA Loops ==
  ASSUME NEW N \in Nat, NEW S, NEW base \in S, NEW step \in Steps(N, S)
  PROVE  \E f : IsLoop(f, N, S, base, step)
<1> USE DEF Steps
<1> DEFINE P == {k \in 0..N : \E f \in [0..k -> S] :
                    f[0] = base /\ \A n \in 1..k : f[n] = step[n][f[n - 1]]}
<1>1. 0 \in P
  <2> DEFINE g == [k \in 0..0 |-> base]
  <2>1. g \in [0..0 -> S] /\ g[0] = base
    OBVIOUS
  <2>2. 1..0 = {} /\ 0 \in 0..N
    OBVIOUS
  <2> HIDE DEF g
  <2>3. \A n \in 1..0 : g[n] = step[n][g[n - 1]]
    BY <2>2
  <2> QED BY <2>1, <2>2, <2>3
<1>2. ASSUME NEW k \in 1..N, k - 1 \in P PROVE k \in P
  <2>1. PICK f \in [0..(k - 1) -> S] :
               f[0] = base /\ \A n \in 1..(k - 1) : f[n] = step[n][f[n - 1]]
    BY <1>2
  <2> DEFINE g == [n \in 0..k |-> IF n = k THEN step[k][f[k - 1]] ELSE f[n]]
  <2>2. k - 1 \in 0..(k - 1) /\ \A n \in 0..k : n # k => n \in 0..(k - 1)
    OBVIOUS
  <2>3. step[k][f[k - 1]] \in S
    BY <2>2
  <2>4. g \in [0..k -> S]
    BY <2>2, <2>3
  <2>5. g[0] = base
    BY <2>1
  <2>6. ASSUME NEW n \in 1..k PROVE g[n] = step[n][g[n - 1]]
    <3>1. n - 1 \in 0..(k - 1) /\ n - 1 # k /\ n - 1 \in 0..k /\ n \in 0..k
          /\ (n # k => n \in 1..(k - 1))
      OBVIOUS
    <3>2. g[n - 1] = f[n - 1]
      BY <3>1
    <3>3. CASE n = k
      BY <3>1, <3>2, <3>3
    <3>4. CASE n # k
      BY <2>1, <3>1, <3>2, <3>4
    <3> QED BY <3>3, <3>4
  <2> HIDE DEF g
  <2>7. \E h \in [0..k -> S] : h[0] = base /\ \A n \in 1..k : h[n] = step[n][h[n - 1]]
    BY <2>4, <2>5, <2>6
  <2> QED BY <2>7
<1>3. N \in P
  <2> HIDE DEF P
  <2>1. \A n \in 0..N : n \in P
    BY <1>1, <1>2, EventByEvent
  <2> QED BY <2>1
<1> QED BY <1>3 DEF IsLoop

\* Only lifecycle labels come up, so all events are on the timeline.
LEMMA TimelineIsEvents ==
  ASSUME NEW pr \in PullRequests
  PROVE  timeline(pr) = pr.events
<1> DEFINE ev == pr.events
           N == Len(ev)
           R(f) == f = [n \in 0..N |-> IF n = 0 THEN <<>>
                                     ELSE IF ev[n].label \in LIFECYCLE_LABELS
                                     THEN Append(f[n - 1], ev[n]) ELSE f[n - 1]]
           g == [n \in 0..N |-> SubSeq(ev, 1, n)]
           h == CHOOSE f : R(f)
<1>1. ev \in Seq(Events) /\ N \in Nat
  BY DEF PullRequests
<1>2. \A n \in 1..N : ev[n].label \in LIFECYCLE_LABELS
  <2>1. \A n \in 1..N : ev[n] \in Events
    BY <1>1
  <2> QED BY <2>1, PRsAssumption DEF Events
<1>3. g[0] = <<>> /\ g[N] = ev
  <2>1. SubSeq(ev, 1, 0) = <<>> /\ SubSeq(ev, 1, N) = ev
    BY <1>1, SubSeqEmpty, SubSeqFull
  <2>2. 0 \in 0..N /\ N \in 0..N
    BY <1>1
  <2> HIDE DEF ev, N
  <2> QED BY <2>1, <2>2
<1>4. ASSUME NEW n \in 1..N PROVE g[n] = Append(g[n - 1], ev[n])
  <2>1. SubSeq(ev, 1, n) = Append(SubSeq(ev, 1, n - 1), ev[n])
    BY <1>1, <1>4, SubSeqRecursiveSecond
  <2>2. n \in 0..N /\ n - 1 \in 0..N
    BY <1>4
  <2> QED BY <2>1, <2>2
<1> HIDE DEF g
<1>5. g = [n \in 0..N |-> g[n]]
  BY DEF g
<1>6. R(g)
  <2>1. \A n \in 0..N : g[n] = IF n = 0 THEN <<>>
                              ELSE IF ev[n].label \in LIFECYCLE_LABELS
                              THEN Append(g[n - 1], ev[n]) ELSE g[n - 1]
    <3> TAKE n \in 0..N
    <3> HIDE DEF ev, N
    <3>1. CASE n = 0
      BY <1>3, <3>1
    <3>2. CASE n # 0
      <4>1. n \in 1..N
        BY <3>2
      <4> QED BY <1>2, <1>4, <3>2, <4>1
    <3> QED BY <3>1, <3>2
  <2> QED BY <1>5, <2>1
<1>7. timeline(pr) = h[N]
  BY DEF timeline
<1>8. R(h)
  BY <1>6
<1> HIDE DEF h
<1>9. h[0] = <<>> /\ \A n \in 1..N : h[n] = Append(h[n - 1], ev[n])
  <2> HIDE DEF ev, N
  <2>1. \A n \in 0..N : h[n] = IF n = 0 THEN <<>>
                              ELSE IF ev[n].label \in LIFECYCLE_LABELS
                              THEN Append(h[n - 1], ev[n]) ELSE h[n - 1]
    <3>1. ASSUME NEW F, R(F) PROVE \A n \in 0..N : F[n] = IF n = 0 THEN <<>>
                              ELSE IF ev[n].label \in LIFECYCLE_LABELS
                              THEN Append(F[n - 1], ev[n]) ELSE F[n - 1]
      BY <3>1
    <3> QED BY <1>8, <3>1
  <2>2. 0 \in 0..N /\ \A n \in 1..N : n \in 0..N /\ n # 0
    BY <1>1
  <2> QED BY <1>2, <2>1, <2>2
<1>10. h[N] = g[N]
  <2> HIDE DEF ev, N
  <2> DEFINE P == {n \in 0..N : h[n] = g[n]}
  <2>1. 0 \in P
    BY <1>1, <1>3, <1>9
  <2>2. \A n \in 1..N : n - 1 \in P => n \in P
    <3>1. \A n \in 1..N : n \in 0..N
      OBVIOUS
    <3> QED BY <1>4, <1>9, <3>1
  <2> HIDE DEF P
  <2>3. \A n \in 0..N : n \in P
    BY <1>1, <2>1, <2>2, EventByEvent
  <2> QED BY <1>1, <2>3 DEF P
<1> QED BY <1>3, <1>7, <1>10
-------------------------------------------------------------------------------
(* Depths and flows                                                        *)

\* The interval of the n-th event.
Interval(pr, n) ==
    [label |-> pr.events[n].label, applied |-> pr.events[n].at, nth |-> n,
     replaced |-> IF n < Len(pr.events) THEN pr.events[n + 1].at
                  ELSE IF pr.state = "OPEN" THEN Never ELSE pr.closed]

SeenEvents(pr) == {n \in 1..Len(pr.events) : n < Len(pr.events) \/ LastIsSeen(pr)}

LEMMA IntervalsOfEvents ==
  ASSUME NEW pr \in PullRequests
  PROVE  label_intervals(pr) = {Interval(pr, n) : n \in SeenEvents(pr)}
<1>1. timeline(pr) = pr.events /\ DOMAIN pr.events = 1..Len(pr.events)
  BY TimelineIsEvents DEF PullRequests
<1> QED BY <1>1 DEF label_intervals, Interval, SeenEvents

\* The events that an interval of the label l begins with, as pairs.
Entries(s, l) ==
    {x \in PRs \X Nat : /\ s[x[1]].state # "none" /\ x[2] \in SeenEvents(s[x[1]])
                        /\ s[x[1]].events[x[2]].label = l}

LEMMA IntervalsOfEntries ==
  ASSUME NEW s \in [PRs -> PullRequests], NEW l
  PROVE  IntervalsOf(s, l) =
            {[pr |-> x[1], i |-> Interval(s[x[1]], x[2])] : x \in Entries(s, l)}
<1>1. ASSUME NEW y
      PROVE  y \in IntervalsOf(s, l)
             <=> \E p \in Known(s) : \E i \in label_intervals(s[p]) :
                    i.label = l /\ y = [pr |-> p, i |-> i]
  BY DEF IntervalsOf
<1>2. ASSUME NEW p \in PRs, NEW i
      PROVE  i \in label_intervals(s[p])
             <=> \E n \in SeenEvents(s[p]) : i = Interval(s[p], n)
  <2>1. s[p] \in PullRequests
    OBVIOUS
  <2> QED BY <2>1, IntervalsOfEvents
<1>3. \A pr : \A n \in SeenEvents(pr) : n \in Nat /\ Interval(pr, n).label = pr.events[n].label
  BY DEF SeenEvents, Interval
<1>4. ASSUME NEW y, y \in IntervalsOf(s, l)
      PROVE  \E x \in Entries(s, l) : y = [pr |-> x[1], i |-> Interval(s[x[1]], x[2])]
  <2>0. PICK p \in Known(s) : \E i \in label_intervals(s[p]) : i.label = l /\ y = [pr |-> p, i |-> i]
    BY <1>1, <1>4
  <2>1. PICK i \in label_intervals(s[p]) : i.label = l /\ y = [pr |-> p, i |-> i]
    BY <2>0
  <2>2. p \in PRs /\ s[p].state # "none"
    BY DEF Known
  <2>3. PICK n \in SeenEvents(s[p]) : i = Interval(s[p], n)
    BY <1>2, <2>2
  <2>4. <<p, n>> \in Entries(s, l)
    BY <1>3, <2>1, <2>2, <2>3 DEF Entries
  <2> QED BY <2>1, <2>3, <2>4
<1>5. ASSUME NEW x \in Entries(s, l)
      PROVE  [pr |-> x[1], i |-> Interval(s[x[1]], x[2])] \in IntervalsOf(s, l)
  <2>1. x[1] \in Known(s) /\ x[1] \in PRs /\ x[2] \in SeenEvents(s[x[1]])
        /\ s[x[1]].events[x[2]].label = l
    BY DEF Entries, Known
  <2>2. Interval(s[x[1]], x[2]) \in label_intervals(s[x[1]])
    BY <1>2, <2>1
  <2> QED BY <1>1, <1>3, <2>1, <2>2
<1> QED BY <1>4, <1>5

ImageOf(f, S) == {f[x] : x \in S}

LEMMA ImageFinite ==
  ASSUME NEW S, IsFiniteSet(S), NEW f, DOMAIN f = S
  PROVE  IsFiniteSet(ImageOf(f, S))
<1> DEFINE g == [x \in S |-> f[x]]
           T == ImageOf(f, S)
<1>1. \A x \in S : f[x] \in T
  BY DEF ImageOf
<1>2. \A y \in T : \E x \in S : f[x] = y
  BY DEF ImageOf
<1> HIDE DEF T
<1>3. g \in [S -> T] /\ \A y \in T : \E x \in S : g[x] = y
  BY <1>1, <1>2
<1> HIDE DEF g
<1>4. g \in Surjection(S, T)
  BY <1>3 DEF Surjection
<1>5. IsFiniteSet(T)
  BY <1>4, FS_Surjection
<1> QED BY <1>5 DEF T

LEMMA EntriesFinite ==
  ASSUME NEW s \in [PRs -> PullRequests], NEW l
  PROVE  IsFiniteSet(Entries(s, l))
<1> DEFINE f == [p \in PRs |-> {p} \X (1..Len(s[p].events))]
           C == {f[p] : p \in PRs}
<1>1. /\ DOMAIN f = PRs
      /\ \A p \in PRs : f[p] = {p} \X (1..Len(s[p].events))
  OBVIOUS
<1> HIDE DEF f
<1>2. IsFiniteSet(C)
  <2>1. C = ImageOf(f, PRs)
    BY DEF ImageOf
  <2> HIDE DEF C
  <2> QED BY <1>1, <2>1, PRsAssumption, ImageFinite
<1>3. \A c \in C : IsFiniteSet(c)
  <2> TAKE c \in C
  <2>0. PICK p \in PRs : c = f[p]
    BY <1>1
  <2>1. c = {p} \X (1..Len(s[p].events))
    BY <1>1, <2>0
  <2>2. Len(s[p].events) \in Nat
    BY DEF PullRequests
  <2> DEFINE N == Len(s[p].events)
             K == 1..N
  <2>3. IsFiniteSet({p}) /\ IsFiniteSet(K)
    <3>1. IsFiniteSet(K)
      <4>1. 1 \in Int /\ N \in Int
        BY <2>2 DEF N
      <4> HIDE DEF N
      <4> QED BY <4>1, FS_Interval
    <3>2. IsFiniteSet({p})
      BY FS_Singleton
    <3> QED BY <3>1, <3>2
  <2> HIDE DEF K
  <2>4. IsFiniteSet({p} \X K)
    BY <2>3, FS_Product
  <2> QED BY <2>1, <2>4 DEF K
<1>4. IsFiniteSet(UNION C)
  <2> HIDE DEF C
  <2> QED BY <1>2, <1>3, FS_UNION
<1>5. Entries(s, l) \subseteq UNION C
  <2> SUFFICES ASSUME NEW x \in Entries(s, l) PROVE x \in UNION C
    OBVIOUS
  <2>0. x[2] \in SeenEvents(s[x[1]])
    BY DEF Entries
  <2>1. x[1] \in PRs /\ x = <<x[1], x[2]>>
    BY DEF Entries
  <2>3. x[2] \in 1..Len(s[x[1]].events)
    BY <2>0 DEF SeenEvents
  <2>2. x \in {x[1]} \X (1..Len(s[x[1]].events))
    BY <2>1, <2>3
  <2> QED BY <1>1, <2>1, <2>2
<1> QED BY <1>4, <1>5, FS_Subset

LEMMA IntervalsFinite ==
  ASSUME NEW s \in [PRs -> PullRequests], NEW l
  PROVE  IsFiniteSet(IntervalsOf(s, l))
<1> DEFINE f == [x \in Entries(s, l) |-> [pr |-> x[1], i |-> Interval(s[x[1]], x[2])]]
<1>1. /\ DOMAIN f = Entries(s, l)
      /\ \A x \in Entries(s, l) : f[x] = [pr |-> x[1], i |-> Interval(s[x[1]], x[2])]
  OBVIOUS
<1> HIDE DEF f
<1>2. IntervalsOf(s, l) = ImageOf(f, Entries(s, l))
  BY <1>1, IntervalsOfEntries DEF ImageOf
<1> QED BY <1>1, <1>2, EntriesFinite, ImageFinite

\* Counting a set by its parts.
LEMMA InTwoParts ==
  ASSUME NEW S, IsFiniteSet(S), NEW A, NEW B, A \cup B = S, A \cap B = {}
  PROVE  /\ IsFiniteSet(A) /\ IsFiniteSet(B)
         /\ Cardinality(A) \in Nat /\ Cardinality(B) \in Nat
         /\ Cardinality(S) = Cardinality(A) + Cardinality(B)
<1>1. IsFiniteSet(A) /\ IsFiniteSet(B)
  BY FS_Subset
<1>2. Cardinality(A) \in Nat /\ Cardinality(B) \in Nat
  BY <1>1, FS_CardinalityType
<1>3. Cardinality(A \cup B) = Cardinality(A) + Cardinality(B) - Cardinality(A \cap B)
  BY <1>1, FS_Union
<1>4. Cardinality(A \cap B) = 0
  BY FS_EmptySet
<1> QED BY <1>1, <1>2, <1>3, <1>4
\* At the time t of a snapshot s, an interval began and ended between 0 and t,
\* and one that has not ended is that of the last event of an open pull request.
LEMMA IntervalTimes ==
  ASSUME NEW s \in [PRs -> PullRequests], NEW t \in Nat, \A p \in PRs : Sound(s[p], t),
         NEW l, NEW x \in Entries(s, l)
  PROVE  LET pr == s[x[1]]
             i == Interval(pr, x[2])
         IN /\ i.applied \in 0..t
            /\ i.replaced \in (0..t) \cup {Never}
            /\ i.replaced = Never <=> pr.state = "OPEN" /\ x[2] = Len(pr.events)
<1> DEFINE pr == s[x[1]]
           n == x[2]
           ev == pr.events
           i == Interval(pr, n)
<1>1. pr \in PullRequests /\ Sound(pr, t) /\ pr.state # "none" /\ n \in SeenEvents(pr)
  BY DEF Entries
<1>2. ev \in Seq(Events) /\ pr.state \in States /\ pr.closed \in Nat \cup {Never}
  BY <1>1 DEF PullRequests
<1>3. n \in 1..Len(ev) /\ Len(ev) \in Nat
  BY <1>1, <1>2 DEF SeenEvents
<1>4. \A k \in 1..Len(ev) : ev[k].at \in 0..t
  <2> TAKE k \in 1..Len(ev)
  <2>1. ev[k] \in Events /\ k \in DOMAIN ev
    BY <1>2
  <2>2. ev[k].at \in Nat /\ ev[k].at <= t
    BY <1>1, <2>1 DEF Events, Sound
  <2> QED BY <2>2
<1>5. i.applied = ev[n].at
      /\ i.replaced = IF n < Len(ev) THEN ev[n + 1].at
                      ELSE IF pr.state = "OPEN" THEN Never ELSE pr.closed
  BY DEF Interval
<1>6. \A y \in 0..t : y # Never
  BY NeverAssumption
<1> HIDE DEF i, ev, pr, n
<1>7. CASE n < Len(ev)
  <2>1. n + 1 \in 1..Len(ev) /\ n # Len(ev)
    BY <1>3, <1>7
  <2>2. i.replaced \in 0..t
    BY <1>4, <1>5, <1>7, <2>1
  <2> QED BY <1>3, <1>4, <1>5, <1>6, <2>1, <2>2 DEF i, ev, pr, n
<1>8. CASE ~(n < Len(ev)) /\ pr.state = "OPEN"
  <2>1. n = Len(ev) /\ i.replaced = Never
    BY <1>3, <1>5, <1>8
  <2> QED BY <1>3, <1>4, <1>5, <1>8, <2>1 DEF i, ev, pr, n
<1>9. CASE ~(n < Len(ev)) /\ pr.state # "OPEN"
  <2>1. pr.closed # Never /\ pr.closed <= t
    BY <1>1, <1>2, <1>9 DEF Sound, States
  <2>2. i.replaced \in 0..t
    BY <1>2, <1>5, <1>9, <2>1
  <2> QED BY <1>3, <1>4, <1>5, <1>6, <1>9, <2>2 DEF i, ev, pr, n
<1> QED BY <1>7, <1>8, <1>9

\* The label of the last event, once all of them are on the timeline.
LEMMA LatestLabel ==
  ASSUME NEW pr \in PullRequests
  PROVE  latest_lifecycle_label(pr)
            = IF Len(pr.events) = 0 THEN "none" ELSE pr.events[Len(pr.events)].label
<1>1. timeline(pr) = pr.events /\ pr.events \in Seq(Events)
  BY TimelineIsEvents DEF PullRequests
<1>2. pr.events = <<>> <=> Len(pr.events) = 0
  BY <1>1
<1> QED BY <1>1, <1>2 DEF latest_lifecycle_label, Last

LEMMA NoneIsNoLabel == "none" \notin LIFECYCLE_LABELS
BY DEF LIFECYCLE_LABELS, STATE_REVIEW, STATE_AUTHOR, STATE_AUTHOR_ACTION

\* The pull requests that carry the stage l in a snapshot s, as DepthIsExplained
\* has them.
Holding(s, l) == {p \in Open(s) : current_stage(s[p]) = l /\ LastIsSeen(s[p])}

\* They have the one interval of l that has not ended.
LEMMA HoldingIsLast ==
  ASSUME NEW s \in [PRs -> PullRequests], NEW l \in UsedLabels, NEW p \in PRs,
         s[p].state = "OPEN"
  PROVE  p \in Holding(s, l) <=> <<p, Len(s[p].events)>> \in Entries(s, l)
<1> DEFINE N == Len(s[p].events)
<1>1. s[p] \in PullRequests /\ N \in Nat
  BY DEF PullRequests
<1>2. l # "none"
  BY PRsAssumption, NoneIsNoLabel
<1>3. <<p, N>> \in Entries(s, l)
      <=> N # 0 /\ LastIsSeen(s[p]) /\ s[p].events[N].label = l
  <2>1. <<p, N>>[1] = p /\ <<p, N>>[2] = N /\ <<p, N>> \in PRs \X Nat
    BY <1>1
  <2>2. N \in SeenEvents(s[p]) <=> N # 0 /\ LastIsSeen(s[p])
    BY <1>1 DEF SeenEvents
  <2> HIDE DEF N
  <2> QED BY <2>1, <2>2 DEF Entries
<1>4. p \in Holding(s, l) <=> current_stage(s[p]) = l /\ LastIsSeen(s[p])
  BY DEF Holding, Open
<1>5. LastIsSeen(s[p]) <=> current_stage(s[p]) = latest_lifecycle_label(s[p])
  BY DEF LastIsSeen
<1>6. latest_lifecycle_label(s[p]) = IF N = 0 THEN "none" ELSE s[p].events[N].label
  BY <1>1, LatestLabel
<1> HIDE DEF N
<1>7. ASSUME p \in Holding(s, l) PROVE <<p, N>> \in Entries(s, l)
  BY <1>2, <1>3, <1>4, <1>5, <1>6, <1>7
<1>8. ASSUME <<p, N>> \in Entries(s, l) PROVE p \in Holding(s, l)
  BY <1>2, <1>3, <1>4, <1>5, <1>6, <1>8
<1> QED BY <1>7, <1>8 DEF N

LEMMA HoldingCounted ==
  ASSUME NEW s \in [PRs -> PullRequests], NEW t \in Nat, \A p \in PRs : Sound(s[p], t),
         NEW l \in UsedLabels
  PROVE  Cardinality(Holding(s, l))
            = Cardinality({x \in IntervalsOf(s, l) : x.i.replaced = Never})
<1> DEFINE Standing == {x \in IntervalsOf(s, l) : x.i.replaced = Never}
           f == [x \in Standing |-> x.pr]
           Of(p) == [pr |-> p, i |-> Interval(s[p], Len(s[p].events))]
<1>1. ASSUME NEW y \in Standing
      PROVE  y.pr \in Holding(s, l) /\ y = Of(y.pr)
  <2>1. PICK x \in Entries(s, l) : y = [pr |-> x[1], i |-> Interval(s[x[1]], x[2])]
    BY IntervalsOfEntries
  <2>2. y.pr = x[1] /\ y.i = Interval(s[x[1]], x[2]) /\ y.i.replaced = Never
    BY <2>1
  <2>3. s[x[1]].state = "OPEN" /\ x[2] = Len(s[x[1]].events)
    BY <2>2, IntervalTimes
  <2>4. x[1] \in PRs /\ x = <<x[1], x[2]>>
    BY DEF Entries
  <2>5. <<x[1], Len(s[x[1]].events)>> \in Entries(s, l)
    BY <2>3, <2>4
  <2>6. x[1] \in Holding(s, l)
    BY <2>3, <2>4, <2>5, HoldingIsLast
  <2> QED BY <2>1, <2>2, <2>3, <2>6
<1>2. ASSUME NEW p \in Holding(s, l)
      PROVE  Of(p) \in Standing /\ Of(p).pr = p
  <2>1. p \in PRs /\ s[p].state = "OPEN"
    BY DEF Holding, Open
  <2> DEFINE x == <<p, Len(s[p].events)>>
  <2>2. x \in Entries(s, l) /\ x[1] = p /\ x[2] = Len(s[p].events)
    BY <2>1, HoldingIsLast
  <2> HIDE DEF x
  <2>3. Of(p) \in IntervalsOf(s, l)
    BY <2>2, IntervalsOfEntries
  <2>4. Of(p).i.replaced = Never
    BY <2>1, <2>2, IntervalTimes
  <2> QED BY <2>3, <2>4
<1>3. f \in Bijection(Standing, Holding(s, l))
  <2> HIDE DEF Standing
  <2>1. f \in [Standing -> Holding(s, l)]
    BY <1>1
  <2>2. \A p \in Holding(s, l) : \E y \in Standing : f[y] = p
    BY <1>2
  <2>3. \A y, z \in Standing : f[y] = f[z] => y = z
    BY <1>1
  <2> QED BY <2>1, <2>2, <2>3 DEF Bijection, Injection, Surjection, IsInjective
<1>4. IsFiniteSet(Standing)
  BY IntervalsFinite, FS_Subset
<1> HIDE DEF f, Standing
<1>5. ExistsBijection(Standing, Holding(s, l))
  BY <1>3 DEF ExistsBijection
<1>6. Cardinality(Holding(s, l)) = Cardinality(Standing)
  BY <1>4, <1>5, FS_Bijection
<1> QED BY <1>6 DEF Standing

LEMMA DepthHolds == IInv => DepthIsExplained
<1> SUFFICES ASSUME IInv, Taken, BaselineStart(job.fetched_at) <= 0, NEW l \in UsedLabels
             PROVE  LET s == job.prs
                        t == job.fetched_at
                        In == Entered(s, l, BaselineStart(t), BaselineEnd(t))
                              + Entered(s, l, WindowStart(t), t + 1)
                        Out == Left(s, l, BaselineStart(t), BaselineEnd(t))
                               + Left(s, l, WindowStart(t), t + 1)
                    IN Cardinality(Holding(s, l)) = In - Out
  BY DEF DepthIsExplained, Holding
<1> DEFINE s == job.prs
           t == job.fetched_at
           a == BaselineStart(t)
           b == BaselineEnd(t)
           I == IntervalsOf(s, l)
           Before == {x \in I : Within(a, b, x.i.applied)}
           Since == {x \in I : Within(b, t + 1, x.i.applied)}
           Went == {x \in I : x.i.replaced # Never}
           Standing == {x \in I : x.i.replaced = Never}
<1>1. s \in [PRs -> PullRequests] /\ t \in Nat /\ \A p \in PRs : Sound(s[p], t)
  BY JobTypes DEF IInv, TypeOK, SnapshotInv
<1>2. a \in Int /\ b \in Int /\ a <= 0 /\ b <= t /\ a <= b /\ WindowStart(t) = b
  BY <1>1, WindowsAssumption DEF BaselineStart, BaselineEnd, WindowStart
<1>3. ASSUME NEW y \in I
      PROVE  y.i.applied \in 0..t /\ y.i.replaced \in (0..t) \cup {Never}
  <2>1. PICK x \in Entries(s, l) : y = [pr |-> x[1], i |-> Interval(s[x[1]], x[2])]
    BY <1>1, IntervalsOfEntries
  <2> QED BY <1>1, <2>1, IntervalTimes
<1>4. IsFiniteSet(I)
  BY <1>1, IntervalsFinite
<1>5. Entered(s, l, a, b) = Cardinality(Before)
      /\ Entered(s, l, WindowStart(t), t + 1) = Cardinality(Since)
  BY <1>2 DEF Entered
<1>6. Left(s, l, a, b) = Cardinality(LeftOf(s, l, a, b))
      /\ Left(s, l, WindowStart(t), t + 1) = Cardinality(LeftOf(s, l, b, t + 1))
  BY <1>2 DEF Left
<1> HIDE DEF s, t, a, b, I
<1>7. \A y \in 0..t : (Within(a, b, y) \/ Within(b, t + 1, y))
                        /\ ~(Within(a, b, y) /\ Within(b, t + 1, y))
  BY <1>1, <1>2 DEF Within
<1>8. Cardinality(I) = Cardinality(Before) + Cardinality(Since)
      /\ Cardinality(Before) \in Nat /\ Cardinality(Since) \in Nat
  <2>1. Before \cup Since = I /\ Before \cap Since = {}
    BY <1>3, <1>7
  <2> HIDE DEF Before, Since
  <2> QED BY <1>4, <2>1, InTwoParts
<1>9. Cardinality(I) = Cardinality(Went) + Cardinality(Standing)
      /\ Cardinality(Went) \in Nat /\ Cardinality(Standing) \in Nat /\ IsFiniteSet(Went)
  <2>1. Went \cup Standing = I
    OBVIOUS
  <2>2. Went \cap Standing = {}
    OBVIOUS
  <2> HIDE DEF Went, Standing
  <2>3. /\ IsFiniteSet(Went)
        /\ Cardinality(Went) \in Nat /\ Cardinality(Standing) \in Nat
        /\ Cardinality(I) = Cardinality(Went) + Cardinality(Standing)
    BY ONLY <1>4, <2>1, <2>2, InTwoParts
  <2> QED BY <2>3
<1>10. Cardinality(Went) = Cardinality(LeftOf(s, l, a, b)) + Cardinality(LeftOf(s, l, b, t + 1))
       /\ Cardinality(LeftOf(s, l, a, b)) \in Nat
       /\ Cardinality(LeftOf(s, l, b, t + 1)) \in Nat
  <2>1. \A from, to : LeftOf(s, l, from, to) = {x \in Went : Within(from, to, x.i.replaced)}
    BY DEF LeftOf, I
  <2>2. LeftOf(s, l, a, b) \cup LeftOf(s, l, b, t + 1) = Went
        /\ LeftOf(s, l, a, b) \cap LeftOf(s, l, b, t + 1) = {}
    BY <1>3, <1>7, <2>1
  <2> HIDE DEF Went
  <2> QED BY <1>9, <2>2, InTwoParts
<1>11. Cardinality(Holding(s, l)) = Cardinality(Standing)
  BY <1>1, HoldingCounted DEF I
<1> HIDE DEF Before, Since, Went, Standing
<1>12. Cardinality(Holding(s, l))
         = (Entered(s, l, a, b) + Entered(s, l, WindowStart(t), t + 1))
           - (Left(s, l, a, b) + Left(s, l, WindowStart(t), t + 1))
  BY <1>5, <1>6, <1>8, <1>9, <1>10, <1>11
<1> QED BY <1>12 DEF s, t, a, b

\* The report's flows explain its depths, for any pull requests, labels and
\* windows that cover all that happened: an event is counted in one span, and a
\* pull request that carries a stage entered it once more than it left it
\* (pipeline_health.py, label_intervals in pr_lifecycle.py).
THEOREM DepthsExplained == Spec => []DepthIsExplained
BY DepthHolds, Invariant, PTL
-------------------------------------------------------------------------------
(* Charts and report                                                       *)

Group(pr, n) == group_of(pr.events[n].label)

\* The events that a spell of waiting for the same people begins with.
SpellStarts(pr) == {i \in 1..Len(pr.events) : i = 1 \/ Group(pr, i) # Group(pr, i - 1)}

\* m is where the spell of the n-th event began.
BeganAt(pr, m, n) ==
    /\ m \in SpellStarts(pr) /\ m <= n
    /\ \A k \in SpellStarts(pr) : k <= n => k <= m
    /\ \A k \in m..n : Group(pr, k) = Group(pr, m)

LEMMA Groups ==
  ASSUME NEW l \in LIFECYCLE_LABELS
  PROVE  /\ group_of(l) = "author-action" <=> l \in STATE_AUTHOR_ACTION
         /\ group_of(l) = "review" <=> l \in STATE_REVIEW
<1>1. CASE l \in STATE_AUTHOR_ACTION
  BY <1>1 DEF group_of, STATE_AUTHOR_ACTION, STATE_REVIEW
<1>2. CASE l \in STATE_REVIEW
  BY <1>2 DEF group_of, STATE_AUTHOR_ACTION, STATE_REVIEW
<1>3. CASE l \notin STATE_AUTHOR_ACTION /\ l \notin STATE_REVIEW
  <2>1. group_of(l) = l
    BY <1>3 DEF group_of
  <2> QED BY <1>3, <2>1 DEF LIFECYCLE_LABELS, STATE_AUTHOR, STATE_AUTHOR_ACTION, STATE_REVIEW
<1> QED BY <1>1, <1>2, <1>3

LEMMA EventTypes ==
  ASSUME NEW pr \in PullRequests
  PROVE  /\ Len(pr.events) \in Nat
         /\ \A n \in 1..Len(pr.events) :
               pr.events[n].label \in LIFECYCLE_LABELS /\ pr.events[n].at \in Nat
<1>1. pr.events \in Seq(Events)
  BY DEF PullRequests
<1>2. \A n \in 1..Len(pr.events) : pr.events[n] \in Events
  BY <1>1
<1>3. Len(pr.events) \in Nat
  BY <1>1
<1> QED BY <1>2, <1>3, PRsAssumption DEF Events

LEMMA SpellOfFirst ==
  ASSUME NEW pr, NEW n \in SpellStarts(pr)
  PROVE  BeganAt(pr, n, n)
<1>1. n \in Nat /\ \A k \in n..n : k = n
  BY DEF SpellStarts
<1> QED BY <1>1 DEF BeganAt

LEMMA SpellGoesOn ==
  ASSUME NEW pr, NEW n \in 1..Len(pr.events), n \notin SpellStarts(pr),
         NEW m, BeganAt(pr, m, n - 1)
  PROVE  BeganAt(pr, m, n)
<1>1. \A k \in SpellStarts(pr) : k \in Nat
  BY DEF SpellStarts
<1>2. m \in SpellStarts(pr) /\ m \in Nat /\ m <= n - 1
  BY <1>1 DEF BeganAt
<1>3. Group(pr, n) = Group(pr, n - 1)
  BY DEF SpellStarts
<1>4. n - 1 \in m..(n - 1) /\ m <= n
  BY <1>2
<1>5. \A k \in m..n : k # n => k \in m..(n - 1)
  BY <1>2
<1>6. ASSUME NEW k \in m..n PROVE Group(pr, k) = Group(pr, m)
  BY <1>3, <1>4, <1>5 DEF BeganAt
<1>7. ASSUME NEW k \in SpellStarts(pr), k <= n PROVE k <= m
  <2>1. k \in Nat /\ k # n
    BY <1>1
  <2>2. k <= n - 1
    BY <1>7, <2>1
  <2> QED BY <2>2 DEF BeganAt
<1> QED BY <1>2, <1>4, <1>6, <1>7 DEF BeganAt

LEMMA SpellExists ==
  ASSUME NEW pr \in PullRequests, NEW n \in 1..Len(pr.events)
  PROVE  \E m : BeganAt(pr, m, n)
<1> DEFINE N == Len(pr.events)
           P == {k \in 0..N : k = 0 \/ \E m : BeganAt(pr, m, k)}
<1>1. N \in Nat
  BY EventTypes
<1>2. 0 \in P
  BY <1>1
<1>3. ASSUME NEW k \in 1..N, k - 1 \in P PROVE k \in P
  <2>1. CASE k \in SpellStarts(pr)
    BY <2>1, SpellOfFirst
  <2>2. CASE k \notin SpellStarts(pr)
    <3>1. k # 1
      BY <2>2 DEF SpellStarts
    <3>2. k - 1 # 0
      BY <3>1
    <3>3. PICK m : BeganAt(pr, m, k - 1)
      BY <1>3, <3>2
    <3>4. BeganAt(pr, m, k)
      BY <2>2, <3>3, SpellGoesOn
    <3> QED BY <3>4
  <2> QED BY <2>1, <2>2
<1> HIDE DEF P
<1>4. \A k \in 0..N : k \in P
  BY <1>1, <1>2, <1>3, EventByEvent
<1>5. n \in P /\ n # 0
  BY <1>4
<1> QED BY <1>5 DEF P

LEMMA SpellIsOne ==
  ASSUME NEW pr, NEW n \in Nat, NEW m, NEW k, BeganAt(pr, m, n), BeganAt(pr, k, n)
  PROVE  m = k
<1>1. m \in Nat /\ k \in Nat
  BY DEF BeganAt, SpellStarts
<1>2. m <= k /\ k <= m
  BY DEF BeganAt
<1> QED BY <1>1, <1>2

SpellOf(pr, n) == CHOOSE m : BeganAt(pr, m, n)

LEMMA SpellIs ==
  ASSUME NEW pr, NEW n \in Nat, NEW m, BeganAt(pr, m, n)
  PROVE  SpellOf(pr, n) = m
BY SpellIsOne DEF SpellOf

\* The author's clock began with the spell of the last event.
LEMMA AuthorStart ==
  ASSUME NEW pr \in PullRequests
  PROVE  LET N == Len(pr.events) IN
         author_episode_start(pr) =
            IF N = 0 \/ pr.events[N].label \notin STATE_AUTHOR_ACTION THEN Never
            ELSE pr.events[SpellOf(pr, N)].at
<1> DEFINE ev == pr.events
           N == Len(ev)
           Step(n, v) == IF ev[n].label \in STATE_AUTHOR_ACTION
                         THEN IF v = Never THEN ev[n].at ELSE v
                         ELSE IF ev[n].label \in LIFECYCLE_LABELS THEN Never ELSE v
           R(f) == f = [n \in 0..N |->
                          IF n = 0 THEN Never
                          ELSE IF ev[n].label \in STATE_AUTHOR_ACTION
                          THEN IF f[n - 1] = Never THEN ev[n].at ELSE f[n - 1]
                          ELSE IF ev[n].label \in LIFECYCLE_LABELS THEN Never ELSE f[n - 1]]
           g == [n \in 0..N |-> IF n = 0 \/ ev[n].label \notin STATE_AUTHOR_ACTION THEN Never
                                ELSE ev[SpellOf(pr, n)].at]
           h == CHOOSE f : R(f)
<1>1. N \in Nat /\ \A n \in 1..N : ev[n].label \in LIFECYCLE_LABELS /\ ev[n].at \in Nat
  BY EventTypes
<1>2. \A n \in 0..N : g[n] = IF n = 0 \/ ev[n].label \notin STATE_AUTHOR_ACTION THEN Never
                             ELSE ev[SpellOf(pr, n)].at
  OBVIOUS
<1>3. g = [n \in 0..N |-> g[n]]
  OBVIOUS
<1> HIDE DEF g
<1>4. ASSUME NEW n \in 1..N PROVE g[n] = Step(n, g[n - 1])
  <2>1. n \in 0..N /\ n - 1 \in 0..N /\ n # 0 /\ n \in Nat /\ n - 1 \in Nat
    BY <1>1
  <2>2. Group(pr, n) = "author-action" <=> ev[n].label \in STATE_AUTHOR_ACTION
    BY <1>1, Groups DEF Group
  <2>3. CASE ev[n].label \notin STATE_AUTHOR_ACTION
    BY <1>1, <1>2, <2>1, <2>3
  <2>4. CASE ev[n].label \in STATE_AUTHOR_ACTION /\ n \in SpellStarts(pr)
    <3>1. SpellOf(pr, n) = n
      BY <2>1, <2>4, SpellOfFirst, SpellIs
    <3>2. g[n] = ev[n].at
      BY <1>2, <2>1, <2>4, <3>1
    <3>3. g[n - 1] = Never
      <4>1. CASE n = 1
        BY <1>2, <2>1, <4>1
      <4>2. CASE n # 1
        <5>1. n - 1 \in 1..N
          BY <4>2
        <5>2. Group(pr, n - 1) # "author-action"
          BY <2>2, <2>4, <4>2 DEF SpellStarts
        <5>3. ev[n - 1].label \notin STATE_AUTHOR_ACTION
          BY <1>1, <5>1, <5>2, Groups DEF Group
        <5> QED BY <1>2, <2>1, <5>3
      <4> QED BY <4>1, <4>2
    <3> QED BY <2>4, <3>2, <3>3
  <2>5. CASE ev[n].label \in STATE_AUTHOR_ACTION /\ n \notin SpellStarts(pr)
    <3>1. n # 1 /\ Group(pr, n) = Group(pr, n - 1)
      BY <2>5 DEF SpellStarts
    <3>2. n - 1 \in 1..N /\ n - 1 # 0
      BY <3>1
    <3>3. ev[n - 1].label \in STATE_AUTHOR_ACTION
      BY <1>1, <2>2, <2>5, <3>1, <3>2, Groups DEF Group
    <3>4. PICK m : BeganAt(pr, m, n - 1)
      BY <3>2, SpellExists
    <3>5. BeganAt(pr, m, n)
      BY <2>5, <3>4, SpellGoesOn
    <3>6. SpellOf(pr, n) = m /\ SpellOf(pr, n - 1) = m
      BY <2>1, <3>4, <3>5, SpellIs
    <3>7. m \in 1..N
      BY <3>4 DEF BeganAt, SpellStarts
    <3>8. g[n] = ev[m].at /\ g[n - 1] = ev[m].at
      BY <1>2, <2>1, <2>5, <3>2, <3>3, <3>6
    <3>9. ev[m].at # Never
      BY <1>1, <3>7, NeverAssumption
    <3> QED BY <2>5, <3>8, <3>9
  <2> QED BY <2>3, <2>4, <2>5
<1>5. R(g)
  <2>1. \A n \in 0..N : g[n] = IF n = 0 THEN Never ELSE Step(n, g[n - 1])
    <3> TAKE n \in 0..N
    <3>1. CASE n = 0
      BY <1>2, <3>1
    <3>2. CASE n # 0
      <4>1. n \in 1..N
        BY <3>2
      <4> HIDE DEF Step
      <4> QED BY <1>4, <3>2, <4>1
    <3> QED BY <3>1, <3>2
  <2> QED BY <1>3, <2>1
<1>6. author_episode_start(pr) = h[N]
  BY DEF author_episode_start
<1>7. R(h)
  BY <1>5
<1> HIDE DEF h
<1>8. h[0] = Never /\ \A n \in 1..N : h[n] = Step(n, h[n - 1])
  <2> HIDE DEF ev, N
  <2>1. \A n \in 0..N : h[n] = IF n = 0 THEN Never ELSE Step(n, h[n - 1])
    <3>1. ASSUME NEW F, R(F)
          PROVE  \A n \in 0..N : F[n] = IF n = 0 THEN Never ELSE Step(n, F[n - 1])
      BY <3>1
    <3> QED BY <1>7, <3>1
  <2>2. 0 \in 0..N /\ \A n \in 1..N : n \in 0..N /\ n # 0
    BY <1>1
  <2> HIDE DEF Step
  <2> QED BY <2>1, <2>2
<1>9. h[N] = g[N]
  <2> HIDE DEF ev, N, Step
  <2> DEFINE P == {n \in 0..N : h[n] = g[n]}
  <2>1. 0 \in P
    BY <1>1, <1>2, <1>8
  <2>2. \A n \in 1..N : n - 1 \in P => n \in P
    <3>1. \A n \in 1..N : n \in 0..N
      OBVIOUS
    <3> QED BY <1>4, <1>8, <3>1
  <2> HIDE DEF P
  <2>3. \A n \in 0..N : n \in P
    BY <1>1, <2>1, <2>2, EventByEvent
  <2> QED BY <1>1, <2>3 DEF P
<1>10. N \in 0..N
  BY <1>1
<1> QED BY <1>2, <1>6, <1>9, <1>10
LaterStarts(pr, i) == {k \in SpellStarts(pr) : k > i}

\* When the spell that began with the event i ended.
SpellEnd(pr, i) ==
    IF LaterStarts(pr, i) # {}
    THEN pr.events[CHOOSE k \in LaterStarts(pr, i) : \A j \in LaterStarts(pr, i) : k <= j].at
    ELSE IF pr.state = "OPEN" THEN Never ELSE pr.closed

\* Where an episode begins: at each spell, except the last of an open pull
\* request that carries a label of another group, or none.
EpisodeStarts(pr) ==
    {i \in SpellStarts(pr) :
        \/ LaterStarts(pr, i) # {} \/ pr.state # "OPEN"
        \/ current_stage(pr) # "none" /\ group_of(current_stage(pr)) = Group(pr, i)}

Episode(pr, i) ==
    [group |-> Group(pr, i), entered |-> pr.events[i].at, left |-> SpellEnd(pr, i), nth |-> i]

LEMMA EpisodesOfSpells ==
  ASSUME NEW pr \in PullRequests
  PROVE  episodes(pr) = {Episode(pr, i) : i \in EpisodeStarts(pr)}
<1>1. timeline(pr) = pr.events /\ DOMAIN pr.events = 1..Len(pr.events)
  BY TimelineIsEvents DEF PullRequests
<1> QED BY <1>1 DEF episodes, Episode, EpisodeStarts, SpellEnd, LaterStarts, SpellStarts, Group

LEMMA LaterEnds ==
  ASSUME NEW pr \in PullRequests, NEW i \in SpellStarts(pr), LaterStarts(pr, i) # {}
  PROVE  SpellEnd(pr, i) # Never
<1> DEFINE L == LaterStarts(pr, i)
           k == CHOOSE k \in L : \A j \in L : k <= j
<1>1. L \subseteq 1..Len(pr.events) /\ L \subseteq Nat
  BY EventTypes DEF LaterStarts, SpellStarts
<1>2. SpellEnd(pr, i) = pr.events[k].at
  BY DEF SpellEnd
<1>3. L # {}
  OBVIOUS
<1> HIDE DEF L
<1>4. \E m \in L : \A j \in L : m <= j
  BY <1>1, <1>3, LeastOf
<1>5. k \in L
  BY <1>4
<1> HIDE DEF k
<1>6. pr.events[k].at \in Nat
  BY <1>1, <1>5, EventTypes
<1> QED BY <1>2, <1>6, NeverAssumption

\* The spell of the last event is the only one that may be going on.
LEMMA LastSpell ==
  ASSUME NEW pr \in PullRequests, NEW m, BeganAt(pr, m, Len(pr.events)),
         NEW i \in SpellStarts(pr)
  PROVE  LaterStarts(pr, i) = {} <=> i = m
<1> DEFINE N == Len(pr.events)
<1>1. N \in Nat /\ \A k \in SpellStarts(pr) : k \in Nat /\ k <= N
  BY EventTypes DEF SpellStarts
<1>2. m \in SpellStarts(pr) /\ \A k \in SpellStarts(pr) : k <= m
  BY <1>1 DEF BeganAt
<1>3. CASE i = m
  <2>1. \A k \in SpellStarts(pr) : ~(k > m)
    BY <1>1, <1>2
  <2> QED BY <1>3, <2>1 DEF LaterStarts
<1>4. CASE i # m
  <2>1. m > i
    BY <1>1, <1>2, <1>4
  <2> QED BY <1>2, <1>4, <2>1 DEF LaterStarts
<1> QED BY <1>3, <1>4

LEMMA SameWait ==
  ASSUME NEW pr \in PullRequests, pr.state = "OPEN", current_stage(pr) \in STATE_AUTHOR_ACTION
  PROVE  author_episode_start(pr) = waiting_since(pr)
<1> DEFINE N == Len(pr.events)
           running == {e \in episodes(pr) : e.left = Never}
<1>1. N \in Nat
  BY EventTypes
<1>2. /\ current_stage(pr) \in LIFECYCLE_LABELS /\ current_stage(pr) # "none"
      /\ group_of(current_stage(pr)) = "author-action"
  <2>1. current_stage(pr) \in LIFECYCLE_LABELS
    BY DEF LIFECYCLE_LABELS, STATE_AUTHOR
  <2> QED BY <2>1, Groups, NoneIsNoLabel
<1>3. CASE N = 0
  <2>1. EpisodeStarts(pr) = {}
    BY <1>3 DEF EpisodeStarts, SpellStarts
  <2>2. running = {}
    BY <2>1, EpisodesOfSpells
  <2>3. waiting_since(pr) = Never
    BY <2>2 DEF waiting_since
  <2>4. author_episode_start(pr) = Never
    BY <1>3, AuthorStart
  <2> QED BY <2>3, <2>4
<1>4. CASE N # 0
  <2>1. N \in 1..N
    BY <1>1, <1>4
  <2>2. PICK m : BeganAt(pr, m, N)
    BY <2>1, SpellExists
  <2>3. SpellOf(pr, N) = m /\ m \in SpellStarts(pr)
    BY <1>1, <2>2, SpellIs DEF BeganAt
  <2>3a. LaterStarts(pr, m) = {}
    <3>1. \A i \in SpellStarts(pr) : LaterStarts(pr, i) = {} <=> i = m
      BY <2>2, LastSpell
    <3> QED BY <2>3, <3>1
  <2>4. Group(pr, N) = Group(pr, m)
    <3>1. N \in m..N
      BY <1>1, <2>2 DEF BeganAt, SpellStarts
    <3> QED BY <2>2, <3>1 DEF BeganAt
  <2>5. pr.events[N].label \in STATE_AUTHOR_ACTION <=> Group(pr, m) = "author-action"
    BY <2>1, <2>4, EventTypes, Groups DEF Group
  <2>6. m \in EpisodeStarts(pr) <=> Group(pr, m) = "author-action"
    <3>1. LaterStarts(pr, m) = {}
      BY <2>3a
    <3>2. m \in EpisodeStarts(pr) <=> group_of(current_stage(pr)) = Group(pr, m)
      BY <1>2, <2>3, <3>1 DEF EpisodeStarts
    <3> QED BY <1>2, <3>2
  <2>7. /\ \A i \in EpisodeStarts(pr) : i # m => Episode(pr, i).left # Never
        /\ Episode(pr, m).left = Never /\ Episode(pr, m).entered = pr.events[m].at
    <3>1. \A i : Episode(pr, i).left = SpellEnd(pr, i) /\ Episode(pr, i).entered = pr.events[i].at
      BY DEF Episode
    <3>2. ASSUME NEW i \in EpisodeStarts(pr), i # m PROVE SpellEnd(pr, i) # Never
      <4>1. i \in SpellStarts(pr)
        BY DEF EpisodeStarts
      <4>2. LaterStarts(pr, i) # {}
        BY <2>2, <3>2, <4>1, LastSpell
      <4> QED BY <4>1, <4>2, LaterEnds
    <3>3. SpellEnd(pr, m) = Never
      <4>1. LaterStarts(pr, m) = {}
        BY <2>3a
      <4> QED BY <4>1 DEF SpellEnd
    <3> QED BY <3>1, <3>2, <3>3
  <2>8. running = {e \in {Episode(pr, i) : i \in EpisodeStarts(pr)} : e.left = Never}
    BY EpisodesOfSpells
  <2>9. waiting_since(pr) = IF running = {} THEN Never ELSE (CHOOSE e \in running : TRUE).entered
    BY DEF waiting_since
  <2>10. author_episode_start(pr)
           = IF pr.events[N].label \notin STATE_AUTHOR_ACTION THEN Never ELSE pr.events[m].at
    BY <1>4, <2>3, AuthorStart
  <2> HIDE DEF N, running
  <2>11. CASE m \in EpisodeStarts(pr)
    <3>1. running = {Episode(pr, m)}
      BY <2>7, <2>8, <2>11
    <3>2. (CHOOSE e \in running : TRUE) = Episode(pr, m)
      BY <3>1
    <3> QED BY <2>5, <2>6, <2>7, <2>9, <2>10, <2>11, <3>1, <3>2
  <2>12. CASE m \notin EpisodeStarts(pr)
    <3>1. running = {}
      BY <2>7, <2>8, <2>12
    <3> QED BY <2>5, <2>6, <2>9, <2>10, <2>12, <3>1
  <2> QED BY <2>11, <2>12
<1> QED BY <1>3, <1>4
\* How review_cycle_starts goes on from c at the n-th event.
Read(pr, n, c) ==
    IF pr.events[n].label \in STATE_REVIEW
    THEN [starts |-> IF c.in_review THEN c.starts ELSE Append(c.starts, pr.events[n].at),
          in_review |-> TRUE]
    ELSE [c EXCEPT !.in_review = c.in_review /\ pr.events[n].label \notin STATE_AUTHOR]

Reading == [starts : Seq(Nat), in_review : BOOLEAN]

\* What has been read once the n-th event has.
ReadUpTo(pr, f) ==
    /\ f[0] = [starts |-> <<>>, in_review |-> FALSE]
    /\ \A n \in 1..Len(pr.events) : f[n] = Read(pr, n, f[n - 1])

LEMMA ReadTypes ==
  ASSUME NEW pr \in PullRequests, NEW n \in 1..Len(pr.events), NEW c \in Reading
  PROVE  Read(pr, n, c) \in Reading
<1>1. pr.events[n].at \in Nat
  BY EventTypes
<1>2. c.starts \in Seq(Nat) /\ c.in_review \in BOOLEAN
  BY DEF Reading
<1>3. Append(c.starts, pr.events[n].at) \in Seq(Nat)
  BY <1>1, <1>2
<1>4. CASE pr.events[n].label \in STATE_REVIEW
  BY <1>2, <1>3, <1>4 DEF Read, Reading
<1>5. CASE pr.events[n].label \notin STATE_REVIEW
  <2>1. (c.in_review /\ pr.events[n].label \notin STATE_AUTHOR) \in BOOLEAN
    OBVIOUS
  <2> QED BY <1>5, <2>1 DEF Read, Reading
<1> QED BY <1>4, <1>5

LEMMA CyclesAreRead ==
  ASSUME NEW pr \in PullRequests
  PROVE  \E f : /\ ReadUpTo(pr, f) /\ \A n \in 0..Len(pr.events) : f[n] \in Reading
                /\ review_cycle_starts(pr) = f[Len(pr.events)].starts
<1> DEFINE ev == pr.events
           N == Len(ev)
           base == [starts |-> <<>>, in_review |-> FALSE]
           R(f) == f = [n \in 0..N |->
                 IF n = 0 THEN [starts |-> <<>>, in_review |-> FALSE]
                 ELSE LET c == f[n - 1]
                          e == ev[n] IN
                      IF e.label \in STATE_REVIEW
                      THEN [starts |-> IF c.in_review THEN c.starts ELSE Append(c.starts, e.at),
                            in_review |-> TRUE]
                      ELSE [c EXCEPT !.in_review = c.in_review /\ e.label \notin STATE_AUTHOR]]
           h == CHOOSE f : R(f)
           step == [n \in 1..N |-> [c \in Reading |-> Read(pr, n, c)]]
<1>1. N \in Nat
  BY EventTypes
<1>2. base \in Reading
  <2>1. <<>> \in Seq(Nat)
    OBVIOUS
  <2> QED BY <2>1 DEF Reading
<1>3. step \in [1..N -> [Reading -> Reading]]
  <2>1. \A n \in 1..N : \A c \in Reading : Read(pr, n, c) \in Reading
    BY ReadTypes
  <2> QED BY <2>1
<1>4. \A n \in 1..N : \A c \in Reading : step[n][c] = Read(pr, n, c)
  OBVIOUS
<1> HIDE DEF step, base
<1>4a. PICK g : IsLoop(g, N, Reading, base, step)
  <2> HIDE DEF N
  <2>1. step \in Steps(N, Reading)
    BY <1>3 DEF Steps
  <2> QED BY <1>1, <1>2, <2>1, Loops
<1>5. g \in [0..N -> Reading] /\ g[0] = base /\ \A n \in 1..N : g[n] = step[n][g[n - 1]]
  BY <1>4a DEF IsLoop
<1>6. \A n \in 1..N : g[n] = Read(pr, n, g[n - 1])
  <2> TAKE n \in 1..N
  <2>1. n - 1 \in 0..N
    BY <1>1
  <2>2. g[n - 1] \in Reading
    <3> HIDE DEF N
    <3> QED BY <1>5, <2>1
  <2> QED BY <1>4, <1>5, <2>2
<1>7. R(g)
  <2>1. \A n \in 0..N : g[n] = IF n = 0 THEN [starts |-> <<>>, in_review |-> FALSE]
                               ELSE Read(pr, n, g[n - 1])
    <3> TAKE n \in 0..N
    <3>1. CASE n = 0
      BY <1>5, <3>1 DEF base
    <3>2. CASE n # 0
      <4>1. n \in 1..N
        BY <3>2
      <4> QED BY <1>6, <3>2, <4>1
    <3> QED BY <3>1, <3>2
  <2>2. g = [n \in 0..N |-> g[n]]
    BY <1>5
  <2>3. g = [n \in 0..N |-> IF n = 0 THEN [starts |-> <<>>, in_review |-> FALSE]
                            ELSE Read(pr, n, g[n - 1])]
    BY <2>1, <2>2
  <2> QED BY <2>3 DEF Read
<1>8. review_cycle_starts(pr) = h[N].starts
  BY DEF review_cycle_starts
<1>9. R(h)
  BY <1>7
<1> HIDE DEF h
<1>10. ReadUpTo(pr, h)
  <2>1. ASSUME NEW F, R(F)
        PROVE  \A n \in 0..N : F[n] = IF n = 0 THEN [starts |-> <<>>, in_review |-> FALSE]
                                      ELSE Read(pr, n, F[n - 1])
    BY <2>1 DEF Read
  <2>2. 0 \in 0..N /\ \A n \in 1..N : n \in 0..N /\ n # 0
    BY <1>1
  <2>3. \A n \in 0..N : h[n] = IF n = 0 THEN [starts |-> <<>>, in_review |-> FALSE]
                               ELSE Read(pr, n, h[n - 1])
    BY <1>9, <2>1
  <2> QED BY <2>2, <2>3 DEF ReadUpTo
<1>11. \A n \in 0..N : h[n] \in Reading
  <2> DEFINE P == {n \in 0..N : h[n] \in Reading}
  <2>1. 0 \in P
    BY <1>1, <1>2, <1>10 DEF ReadUpTo, base
  <2>2. ASSUME NEW n \in 1..N, n - 1 \in P PROVE n \in P
    <3>1. n \in 0..N /\ h[n] = Read(pr, n, h[n - 1]) /\ h[n - 1] \in Reading
      BY <1>10, <2>2 DEF ReadUpTo
    <3> QED BY <3>1, ReadTypes
  <2> HIDE DEF P
  <2>3. \A n \in 0..N : n \in P
    BY <1>1, <2>1, <2>2, EventByEvent
  <2> QED BY <2>3 DEF P
<1> QED BY <1>8, <1>10, <1>11
\* Among the first n events a spell of review began at that time, and it is over
\* or may not be.
Cycle(pr, n, at, over) ==
    \E j \in SpellStarts(pr) :
        /\ j <= n /\ pr.events[j].label \in STATE_REVIEW /\ pr.events[j].at = at
        /\ over => \E k \in SpellStarts(pr) : j < k /\ k <= n

\* Each cycle that has been read began with such a spell.
CyclesInv(pr, n, c) ==
    /\ \A i \in 1..Len(c.starts) :
          Cycle(pr, n, c.starts[i], i < Len(c.starts) \/ ~c.in_review)
    /\ n # 0 /\ pr.events[n].label \in STATE_REVIEW => c.in_review

LEMMA CycleLater ==
  ASSUME NEW pr, NEW n \in 1..Len(pr.events), NEW at, NEW over, Cycle(pr, n - 1, at, over)
  PROVE  Cycle(pr, n, at, over)
<1>1. \A k \in SpellStarts(pr) : k <= n - 1 => k <= n
  BY DEF SpellStarts
<1> QED BY <1>1 DEF Cycle

LEMMA CycleIsOver ==
  ASSUME NEW pr \in PullRequests, NEW n \in 1..Len(pr.events), NEW at, NEW over,
         Cycle(pr, n, at, over), pr.events[n].label \notin STATE_REVIEW
  PROVE  Cycle(pr, n, at, TRUE)
<1>1. PICK j \in SpellStarts(pr) :
             j <= n /\ pr.events[j].label \in STATE_REVIEW /\ pr.events[j].at = at
  BY DEF Cycle
<1>2. PICK m : BeganAt(pr, m, n)
  BY SpellExists
<1>3. j \in 1..Len(pr.events) /\ m \in 1..Len(pr.events) /\ n \in Nat /\ m <= n
  BY <1>2 DEF SpellStarts, BeganAt
<1>4. Group(pr, j) = "review" /\ Group(pr, n) # "review"
  BY <1>1, <1>3, EventTypes, Groups DEF Group
<1>5. j < m
  <2> SUFFICES ASSUME ~(j < m) PROVE FALSE
    OBVIOUS
  <2>1. j \in m..n /\ n \in m..n
    BY <1>1, <1>3
  <2>2. Group(pr, j) = Group(pr, m) /\ Group(pr, n) = Group(pr, m)
    BY <1>2, <2>1 DEF BeganAt
  <2> QED BY <1>4, <2>2
<1>6. m \in SpellStarts(pr)
  BY <1>2 DEF BeganAt
<1> QED BY <1>1, <1>3, <1>5, <1>6 DEF Cycle

LEMMA CyclesStep ==
  ASSUME NEW pr \in PullRequests, NEW n \in 1..Len(pr.events), NEW c \in Reading,
         CyclesInv(pr, n - 1, c)
  PROVE  CyclesInv(pr, n, Read(pr, n, c))
<1> DEFINE d == Read(pr, n, c)
           L == Len(c.starts)
<1>1. c.starts \in Seq(Nat) /\ L \in Nat /\ c.in_review \in BOOLEAN
  BY DEF Reading
<1>2. /\ n \in Nat /\ n # 0
      /\ pr.events[n].at \in Nat /\ pr.events[n].label \in LIFECYCLE_LABELS
  BY EventTypes
<1>3. \A i \in 1..L : Cycle(pr, n, c.starts[i], i < L \/ ~c.in_review)
  BY CycleLater DEF CyclesInv
<1>4. CASE pr.events[n].label \in STATE_REVIEW /\ c.in_review
  <2>1. d.starts = c.starts /\ d.in_review = TRUE
    BY <1>4 DEF Read
  <2>2. ASSUME NEW i \in 1..L PROVE Cycle(pr, n, c.starts[i], i < L \/ ~TRUE)
    <3>1. Cycle(pr, n, c.starts[i], i < L \/ ~c.in_review)
      BY <1>3
    <3> QED BY <1>4, <3>1 DEF Cycle
  <2> HIDE DEF d
  <2>3. \A i \in 1..Len(d.starts) :
           Cycle(pr, n, d.starts[i], i < Len(d.starts) \/ ~d.in_review)
    BY <2>1, <2>2
  <2>4. d.in_review
    BY <2>1
  <2>5. CyclesInv(pr, n, d)
    BY <2>3, <2>4 DEF CyclesInv
  <2> QED BY <2>5 DEF d
<1>5. CASE pr.events[n].label \in STATE_REVIEW /\ ~c.in_review
  <2> DEFINE s == Append(c.starts, pr.events[n].at)
  <2>1. d.starts = s /\ d.in_review = TRUE
    BY <1>5 DEF Read
  <2>2. Len(s) = L + 1 /\ s[L + 1] = pr.events[n].at /\ \A i \in 1..L : s[i] = c.starts[i]
    BY <1>1, <1>2
  <2>3. n \in SpellStarts(pr)
    <3>1. CASE n = 1
      BY <3>1 DEF SpellStarts
    <3>2. CASE n # 1
      <4>1. n - 1 \in 1..Len(pr.events) /\ n - 1 # 0
        BY <3>2
      <4>2. pr.events[n - 1].label \notin STATE_REVIEW
        BY <1>5, <4>1 DEF CyclesInv
      <4>3. pr.events[n - 1].label \in LIFECYCLE_LABELS
        BY <4>1, EventTypes
      <4>4. Group(pr, n - 1) # "review"
        BY <4>2, <4>3, Groups DEF Group
      <4>5. Group(pr, n) = "review"
        BY <1>2, <1>5, Groups DEF Group
      <4> QED BY <4>4, <4>5 DEF SpellStarts
    <3> QED BY <3>1, <3>2
  <2> HIDE DEF d, s, L
  <2>4. ASSUME NEW i \in 1..(L + 1)
        PROVE  Cycle(pr, n, s[i], i < L + 1 \/ ~TRUE)
    <3>1. CASE i = L + 1
      <4>1. ~(i < L + 1) /\ s[i] = pr.events[n].at
        BY <1>1, <2>2, <3>1
      <4>2. Cycle(pr, n, pr.events[n].at, FALSE)
        BY <1>2, <1>5, <2>3 DEF Cycle
      <4> QED BY <4>1, <4>2
    <3>2. CASE i # L + 1
      <4>1. i \in 1..L /\ i < L + 1
        BY <1>1, <3>2
      <4>2. Cycle(pr, n, c.starts[i], i < L \/ ~c.in_review) /\ s[i] = c.starts[i]
        BY <1>3, <2>2, <4>1
      <4>3. Cycle(pr, n, s[i], TRUE)
        BY <1>5, <4>2 DEF Cycle
      <4> QED BY <4>1, <4>3
    <3> QED BY <3>1, <3>2
  <2>5. \A i \in 1..Len(d.starts) :
           Cycle(pr, n, d.starts[i], i < Len(d.starts) \/ ~d.in_review)
    BY <2>1, <2>2, <2>4
  <2>6. d.in_review
    BY <2>1
  <2>7. CyclesInv(pr, n, d)
    BY <2>5, <2>6 DEF CyclesInv
  <2> QED BY <2>7 DEF d
<1>6. CASE pr.events[n].label \notin STATE_REVIEW
  <2>1. d.starts = c.starts
    BY <1>6 DEF Read, Reading
  <2> HIDE DEF d
  <2>2. ASSUME NEW i \in 1..L, NEW over \in BOOLEAN
        PROVE  Cycle(pr, n, c.starts[i], over)
    <3>1. Cycle(pr, n, c.starts[i], TRUE)
      BY <1>3, <1>6, CycleIsOver
    <3> QED BY <3>1 DEF Cycle
  <2>3. \A i \in 1..Len(d.starts) :
           Cycle(pr, n, d.starts[i], i < Len(d.starts) \/ ~d.in_review)
    BY <2>1, <2>2
  <2>4. CyclesInv(pr, n, d)
    BY <1>6, <2>3 DEF CyclesInv
  <2> QED BY <2>4 DEF d
<1> QED BY <1>1, <1>4, <1>5, <1>6

LEMMA CyclesHold ==
  ASSUME NEW pr \in PullRequests, NEW i \in DOMAIN review_cycle_starts(pr)
  PROVE  LET cycles == review_cycle_starts(pr) IN
         Cycle(pr, Len(pr.events), cycles[i], i < Len(cycles))
<1> DEFINE N == Len(pr.events)
<1>1. N \in Nat
  BY EventTypes
<1>2. PICK f : /\ ReadUpTo(pr, f) /\ \A n \in 0..N : f[n] \in Reading
               /\ review_cycle_starts(pr) = f[N].starts
  BY CyclesAreRead
<1> DEFINE P == {n \in 0..N : CyclesInv(pr, n, f[n])}
<1>3. 0 \in P
  <2>1. f[0].starts = <<>> /\ 0 \in 0..N
    BY <1>1, <1>2 DEF ReadUpTo
  <2>2. 1..Len(f[0].starts) = {}
    BY <2>1
  <2>3. CyclesInv(pr, 0, f[0])
    BY <2>2 DEF CyclesInv
  <2> QED BY <2>1, <2>3
<1>4. ASSUME NEW n \in 1..N, n - 1 \in P PROVE n \in P
  <2>1. n \in 0..N /\ f[n - 1] \in Reading /\ f[n] = Read(pr, n, f[n - 1])
    BY <1>2, <1>4 DEF ReadUpTo
  <2>2. CyclesInv(pr, n, f[n])
    BY <1>4, <2>1, CyclesStep
  <2> QED BY <2>1, <2>2
<1> HIDE DEF P
<1>5. \A n \in 0..N : n \in P
  BY <1>1, <1>3, <1>4, EventByEvent
<1>6. CyclesInv(pr, N, f[N]) /\ f[N] \in Reading
  BY <1>1, <1>2, <1>5 DEF P
<1> HIDE DEF N
<1> DEFINE cycles == f[N].starts
<1>7. cycles \in Seq(Nat) /\ i \in 1..Len(cycles)
  BY <1>2, <1>6 DEF Reading
<1>8. Cycle(pr, N, cycles[i], i < Len(cycles) \/ ~f[N].in_review)
  BY <1>6, <1>7 DEF CyclesInv
<1>9. Cycle(pr, N, cycles[i], i < Len(cycles))
  <2> HIDE DEF cycles
  <2> QED BY <1>8 DEF Cycle
<1> QED BY <1>2, <1>9 DEF N
LEMMA SameReviews ==
  ASSUME NEW pr \in PullRequests, NEW i \in DOMAIN review_cycle_starts(pr)
  PROVE  LET spells == {e.entered : e \in {e \in episodes(pr) : e.group = "review"}}
             cycles == review_cycle_starts(pr)
         IN \/ cycles[i] \in spells
            \/ i = Len(cycles) /\ pr.state = "OPEN" /\ ~LastIsSeen(pr)
<1> DEFINE cycles == review_cycle_starts(pr)
           N == Len(pr.events)
           reviews == {e \in episodes(pr) : e.group = "review"}
           spells == {e.entered : e \in reviews}
<1>1. Cycle(pr, N, cycles[i], i < Len(cycles))
  BY CyclesHold
<1>2. PICK j \in SpellStarts(pr) :
             /\ j <= N /\ pr.events[j].label \in STATE_REVIEW /\ pr.events[j].at = cycles[i]
             /\ i < Len(cycles) => \E k \in SpellStarts(pr) : j < k /\ k <= N
  BY <1>1 DEF Cycle
<1>3. j \in 1..N /\ N \in Nat /\ N \in 1..N
  BY EventTypes DEF SpellStarts
<1>4. Group(pr, j) = "review"
  BY <1>2, <1>3, EventTypes, Groups DEF Group
<1>5. ASSUME j \in EpisodeStarts(pr) PROVE cycles[i] \in spells
  <2>1. Episode(pr, j) \in episodes(pr)
    BY <1>5, EpisodesOfSpells
  <2>2. Episode(pr, j).group = "review" /\ Episode(pr, j).entered = cycles[i]
    BY <1>2, <1>4 DEF Episode
  <2> HIDE DEF cycles
  <2> QED BY <2>1, <2>2
<1>6. ASSUME j \notin EpisodeStarts(pr)
      PROVE  i = Len(cycles) /\ pr.state = "OPEN" /\ ~LastIsSeen(pr)
  <2>1. /\ LaterStarts(pr, j) = {} /\ pr.state = "OPEN"
        /\ ~(current_stage(pr) # "none" /\ group_of(current_stage(pr)) = Group(pr, j))
    BY <1>6 DEF EpisodeStarts
  <2>2. ~(i < Len(cycles))
    <3> HIDE DEF cycles
    <3>1. \A k \in SpellStarts(pr) : k \in Nat
      BY DEF SpellStarts
    <3>2. \A k \in SpellStarts(pr) : ~(j < k)
      BY <1>3, <2>1, <3>1 DEF LaterStarts
    <3> QED BY <1>2, <3>2
  <2>3. i = Len(cycles)
    <3>1. PICK f : (\A n \in 0..N : f[n] \in Reading) /\ cycles = f[N].starts
      BY CyclesAreRead
    <3>2. N \in 0..N
      BY <1>3
    <3>3. cycles \in Seq(Nat)
      BY <3>1, <3>2 DEF Reading
    <3>4. i \in DOMAIN cycles
      OBVIOUS
    <3> HIDE DEF cycles
    <3>5. i \in 1..Len(cycles) /\ Len(cycles) \in Nat
      BY <3>3, <3>4
    <3> QED BY <2>2, <3>5
  <2>4. Group(pr, N) = "review"
    <3>1. PICK m : BeganAt(pr, m, N)
      BY <1>3, SpellExists
    <3>2. j = m
      BY <2>1, <3>1, LastSpell
    <3> QED BY <1>3, <1>4, <3>1, <3>2 DEF BeganAt
  <2>5. ASSUME LastIsSeen(pr) PROVE FALSE
    <3>1. current_stage(pr) = latest_lifecycle_label(pr)
      BY <2>1, <2>5 DEF LastIsSeen
    <3>2. current_stage(pr) = pr.events[N].label
      BY <1>3, <3>1, LatestLabel
    <3>3. current_stage(pr) # "none"
      BY <1>3, <3>2, EventTypes, NoneIsNoLabel
    <3> QED BY <1>4, <2>1, <2>4, <3>2, <3>3 DEF Group
  <2> QED BY <2>1, <2>3, <2>5
<1> QED BY <1>5, <1>6

LEMMA AnswersHold == IInv => AnswersAgree
<1> SUFFICES ASSUME IInv, NEW p \in Known(job.prs)
             PROVE  LET pr == job.prs[p]
                        spells == {e.entered : e \in {e \in episodes(pr) : e.group = "review"}}
                        cycles == review_cycle_starts(pr)
                    IN /\ pr.state = "OPEN" /\ current_stage(pr) \in STATE_AUTHOR_ACTION
                             => author_episode_start(pr) = waiting_since(pr)
                       /\ \A i \in DOMAIN cycles :
                             \/ cycles[i] \in spells
                             \/ i = Len(cycles) /\ pr.state = "OPEN" /\ ~LastIsSeen(pr)
  BY DEF AnswersAgree
<1>1. job.prs[p] \in PullRequests
  BY JobTypes DEF IInv, TypeOK, Known
<1> QED BY <1>1, SameWait, SameReviews

\* The charts and the report answer alike, for any pull requests and histories
\* of labels: since when a pull request waits for its author, and when its
\* review cycles began (author_episode_start and review_cycle_starts against
\* episodes in pr_lifecycle.py).
THEOREM AnswersAlike == Spec => []AnswersAgree
BY AnswersHold, Invariant, PTL
=============================================================================
