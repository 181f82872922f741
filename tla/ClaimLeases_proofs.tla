-------------------------- MODULE ClaimLeases_proofs --------------------------
(***************************************************************************)
(* Mutual exclusion of task claims, for any workers, claims, clocks within *)
(* Skew and running times.  The invariant behind it: a worker that goes by *)
(* a claim finds its own lease in the ref, so two of them are the same;    *)
(* only the deletion by name can break that, and it is remembered in       *)
(* `clobbered`.                                                            *)
(***************************************************************************)
EXTENDS ClaimLeases, TLAPS

\* A worker's claim carries its name.
OwnLeases ==
    \A w \in Workers, k \in Keys :
        mine[w][k] # NoLease => mine[w][k].owner = w

\* A claim a worker goes by is the one in the ref.
HeldInRef ==
    \A k \in Keys \ clobbered, w \in Workers :
        Believes(w, k) => ref[k] = mine[w][k]

\* The sweep's clock was no further ahead than Skew when it set the limit,
\* and what it condemned is a lease past it.
SweepIsLate ==
    /\ pc \in {"loop", "delete"} => cutoff + Grace <= now + Skew
    /\ doomed # {} => pc = "delete"
    /\ \A k \in doomed : is_sweepable(listed[k], cutoff)

IInv == TypeOK /\ OwnLeases /\ HeldInRef /\ SweepIsLate

LEMMA ClockType ==
  ASSUME TypeOK, NEW w \in Workers
  PROVE  Clock(w) \in Nat /\ now <= Clock(w) /\ Clock(w) <= now + Skew
BY TimesAssumption DEF TypeOK, Clock

LEMMA NewLeaseType ==
  ASSUME TypeOK, NEW w \in Workers
  PROVE  /\ NewLease(w) \in Lease
         /\ NewLease(w).owner = w
         /\ NewLease(w).expires = Clock(w) + TTL
BY ClockType, TimesAssumption DEF NewLease, Lease

LEMMA TypeInit == Init => TypeOK
BY TimesAssumption DEF Init, TypeOK

LEMMA TypeStep == TypeOK /\ [Next]_vars => TypeOK'
<1> SUFFICES ASSUME TypeOK, [Next]_vars PROVE TypeOK'
  OBVIOUS
<1> USE TimesAssumption DEF TypeOK, world, sweep
<1>1. CASE Tick
  BY <1>1 DEF Tick
<1>2. ASSUME NEW w \in Workers, NEW k \in Keys, WorkerStep(w, k) PROVE TypeOK'
  <2>1. ASSUME Claim(w, k) PROVE TypeOK'
    BY <2>1, NewLeaseType DEF Claim
  <2>2. CASE RenewFails(w, k)
    BY <2>2 DEF RenewFails
  <2>3. CASE Release(w, k)
    BY <2>3 DEF Release
  <2> QED BY <1>2, <2>1, <2>2, <2>3 DEF WorkerStep, Acquire, TakeOver, Renew
<1>3. ASSUME NEW w \in Workers, Crash(w) PROVE TypeOK'
  BY <1>3 DEF Crash
<1>6. ASSUME NEW k \in Keys, ForeignPush(k) \/ ForeignWithdraw(k) PROVE TypeOK'
  BY <1>6 DEF ForeignPush, ForeignWithdraw
<1>4. CASE SweepStep
  BY <1>4 DEF SweepStep, SweepList, SweepCutoff, SweepCondemn, SweepPassOver,
              SweepDelete, SweepDeleteFails, SweepEnd
<1>5. CASE UNCHANGED vars
  BY <1>5 DEF vars
<1> QED BY <1>1, <1>2, <1>3, <1>4, <1>5, <1>6 DEF Next

\* All variables of ClaimLeases keep their types.
THEOREM LeaseTypes == Spec => []TypeOK
BY TypeInit, TypeStep, PTL DEF Spec

\* A push that is accepted leaves no other worker believing: the ref held
\* nothing, the worker's own lease, or one that every clock calls expired.
LEMMA ClaimStep ==
  ASSUME IInv, NEW w \in Workers, NEW k \in Keys, Claim(w, k),
         \A x \in Workers \ {w} : k \notin clobbered => ~Believes(x, k)
  PROVE  OwnLeases' /\ HeldInRef'
<1> USE DEF IInv, TypeOK, world, sweep
<1>1. /\ mine'[w][k] = NewLease(w) /\ ref'[k] = NewLease(w)
      /\ \A x \in Workers, j \in Keys :
            x # w \/ j # k => mine'[x][j] = mine[x][j]
      /\ \A j \in Keys \ {k} : ref'[j] = ref[j]
      /\ UNCHANGED <<now, off, clobbered>>
  BY DEF Claim
<1>2. OwnLeases'
  BY <1>1, NewLeaseType DEF OwnLeases
<1>3. ASSUME NEW j \in Keys \ clobbered, NEW x \in Workers, Believes(x, j)'
      PROVE  ref'[j] = mine'[x][j]
  <2>1. CASE x = w /\ j = k
    BY <1>1, <2>1
  <2>2. CASE x # w /\ j = k
    BY <1>1, <1>3, <2>2 DEF Believes, Clock
  <2>3. CASE j # k
    BY <1>1, <1>3, <2>3 DEF Believes, Clock, HeldInRef
  <2> QED BY <2>1, <2>2, <2>3
<1> QED BY <1>1, <1>2, <1>3 DEF HeldInRef

\* A step that lets no ref change and no worker believe more.
LEMMA QuietStep ==
  ASSUME IInv, TypeOK', now <= now', UNCHANGED <<off, ref, clobbered>>,
         \A w \in Workers, k \in Keys : mine'[w][k] \in {mine[w][k], NoLease}
  PROVE  OwnLeases' /\ HeldInRef'
<1>1. OwnLeases'
  BY DEF IInv, OwnLeases
<1>2. ASSUME NEW w \in Workers, NEW k \in Keys, Believes(w, k)'
      PROVE  Believes(w, k) /\ mine'[w][k] = mine[w][k]
  <2>1. mine'[w][k] = mine[w][k] /\ mine[w][k] \in Lease
    BY <1>2 DEF Believes, IInv, TypeOK
  <2>2. Clock(w) <= Clock(w)' /\ Clock(w) \in Nat /\ Clock(w)' \in Nat
    BY TimesAssumption DEF Clock, IInv, TypeOK
  <2>3. mine[w][k].expires \in Nat
    BY <2>1 DEF Lease
  <2> QED BY <1>2, <2>1, <2>2, <2>3 DEF Believes
<1>3. HeldInRef'
  BY <1>2 DEF IInv, HeldInRef
<1> QED BY <1>1, <1>3

LEMMA WorkerStepKeeps ==
  ASSUME IInv, TypeOK', NEW w \in Workers, NEW k \in Keys, WorkerStep(w, k)
  PROVE  OwnLeases' /\ HeldInRef'
<1>1. CASE Acquire(w, k)
  <2>1. \A x \in Workers \ {w} : k \notin clobbered => ~Believes(x, k)
    BY <1>1 DEF Acquire, IInv, HeldInRef, Believes
  <2> QED BY <1>1, <2>1, ClaimStep DEF Acquire
<1>2. CASE TakeOver(w, k)
  <2>1. ASSUME NEW x \in Workers \ {w}, k \notin clobbered, Believes(x, k)
        PROVE  FALSE
    <3>1. Clock(x) < ref[k].expires
      BY <2>1 DEF IInv, HeldInRef, Believes
    <3>2. Clock(w) >= ref[k].expires + Margin /\ ref[k].expires \in Nat
      BY <1>2 DEF TakeOver, Lease
    <3>3. Clock(w) <= Clock(x) + Skew /\ Clock(x) \in Nat /\ Clock(w) \in Nat
      BY ClockType, TimesAssumption DEF IInv, TypeOK
    <3> QED BY <3>1, <3>2, <3>3, TimesAssumption, SkewAssumption
  <2> QED BY <1>2, <2>1, ClaimStep DEF TakeOver
<1>3. CASE Renew(w, k)
  <2>1. ASSUME NEW x \in Workers \ {w}, k \notin clobbered, Believes(x, k)
        PROVE  FALSE
    <3>1. mine[x][k] = ref[k] /\ mine[x][k] # NoLease
      BY <2>1 DEF IInv, HeldInRef, Believes
    <3> QED BY <1>3, <3>1 DEF Renew, IInv, OwnLeases
  <2> QED BY <1>3, <2>1, ClaimStep DEF Renew
<1>4. CASE RenewFails(w, k)
  BY <1>4, QuietStep DEF RenewFails, IInv, TypeOK, world
<1>5. CASE Release(w, k)
  <2>1. /\ ref'[k] = NoLease /\ (\A j \in Keys \ {k} : ref'[j] = ref[j])
        /\ \A x \in Workers, j \in Keys : mine'[x][j] \in {mine[x][j], NoLease}
        /\ UNCHANGED <<now, off, clobbered>> /\ mine'[w][k] = NoLease
        /\ \A x \in Workers \ {w} : mine'[x] = mine[x]
    BY <1>5 DEF Release, IInv, TypeOK, world
  <2>2. OwnLeases'
    BY <2>1 DEF IInv, OwnLeases
  <2>3. ASSUME NEW j \in Keys \ clobbered, NEW x \in Workers, Believes(x, j)'
        PROVE  ref'[j] = mine'[x][j]
    <3>1. mine'[x][j] = mine[x][j] /\ Believes(x, j)
      BY <2>1, <2>3 DEF Believes, Clock
    <3>2. ref[j] = mine[x][j] /\ mine[x][j] # NoLease
      BY <3>1 DEF IInv, HeldInRef, Believes
    <3>3. j # k
      BY <1>5, <2>1, <2>3, <3>1, <3>2 DEF Release, IInv, OwnLeases, Believes
    <3> QED BY <2>1, <3>1, <3>2, <3>3
  <2> QED BY <2>1, <2>2, <2>3 DEF HeldInRef
<1> QED BY <1>1, <1>2, <1>3, <1>4, <1>5 DEF WorkerStep

\* A push of something else leads from or to a free name, which nobody goes by.
LEMMA ForeignKeeps ==
  ASSUME IInv, NEW k \in Keys, ForeignPush(k) \/ ForeignWithdraw(k)
  PROVE  OwnLeases' /\ HeldInRef'
<1>1. /\ ref[k] \in {NoLease, Foreign} /\ (\A j \in Keys \ {k} : ref'[j] = ref[j])
      /\ UNCHANGED <<now, off, mine, clobbered>>
  BY DEF ForeignPush, ForeignWithdraw, IInv, TypeOK, world
<1>2. ASSUME NEW j \in Keys \ clobbered, NEW x \in Workers, Believes(x, j)'
      PROVE  ref'[j] = mine'[x][j]
  <2>1. Believes(x, j) /\ mine[x][j] # NoLease
    BY <1>1, <1>2 DEF Believes, Clock
  <2>2. ref[j] = mine[x][j] /\ mine[x][j] \in Lease
    BY <2>1 DEF IInv, HeldInRef, TypeOK
  <2>3. j # k
    BY <1>1, <2>1, <2>2, ValuesAssumption
  <2> QED BY <1>1, <2>2, <2>3
<1>3. OwnLeases'
  BY <1>1 DEF IInv, OwnLeases
<1> QED BY <1>1, <1>2, <1>3 DEF HeldInRef

\* The deletion breaks HeldInRef only for a ref it clobbers.
LEMMA DeleteKeeps ==
  ASSUME IInv, NEW k \in Keys, SweepDelete(k)
  PROVE  OwnLeases' /\ HeldInRef'
<1> USE DEF SweepDelete, world, IInv, TypeOK
<1>1. OwnLeases'
  BY DEF OwnLeases
<1>2. ASSUME NEW j \in Keys \ clobbered', NEW x \in Workers, Believes(x, j)'
      PROVE  ref'[j] = mine'[x][j]
  <2>1. Believes(x, j) /\ j \notin clobbered /\ mine' = mine
    BY <1>2 DEF Believes, Clock
  <2>2. ref[j] = mine[x][j] /\ mine[x][j] \in Lease /\ mine[x][j] # NoLease
    BY <2>1 DEF HeldInRef, Believes
  <2>3. CASE j = k
    <3>1. ref[k] = listed[k]
      BY <1>2, <2>2, <2>3
    <3>2. ref[k].expires \in Nat /\ ref[k].expires <= now
      BY <3>1, TimesAssumption, SkewAssumption
         DEF SweepIsLate, is_sweepable, Lease
    <3> QED BY <2>1, <2>2, <2>3, <3>2, ClockType DEF Believes
  <2>4. CASE j # k
    BY <2>1, <2>2, <2>4
  <2> QED BY <2>3, <2>4
<1> QED BY <1>1, <1>2 DEF HeldInRef

\* The provers do this arithmetic on rigid variables only.
LEMMA Later ==
  ASSUME NEW m \in Nat, NEW n \in Nat, NEW a \in Int, NEW b \in Int,
         m <= n, a <= m + b
  PROVE  a <= n + b
OBVIOUS

LEMMA SweepIsLateStep ==
  ASSUME IInv, TypeOK', [Next]_vars
  PROVE  SweepIsLate'
<1>1. ASSUME UNCHANGED <<sweepOff, sweep>>, now <= now' PROVE SweepIsLate'
  <2>1. pc' = pc /\ listed' = listed /\ cutoff' = cutoff /\ doomed' = doomed
    BY <1>1 DEF sweep
  <2>2. pc \in {"loop", "delete"} => cutoff + Grace <= now' + Skew
    <3>1. /\ now \in Nat /\ now' \in Nat /\ now <= now'
          /\ cutoff + Grace \in Int /\ Skew \in Int
      BY <1>1, TimesAssumption DEF IInv, TypeOK
    <3>2. pc \in {"loop", "delete"} => cutoff + Grace <= now + Skew
      BY DEF IInv, SweepIsLate
    <3> QED BY <3>1, <3>2, Later
  <2> QED BY <2>1, <2>2 DEF IInv, SweepIsLate, is_sweepable
<1>2. CASE Tick
  BY <1>1, <1>2 DEF Tick, IInv, TypeOK
<1>3. ASSUME NEW w \in Workers, Crash(w) \/ \E k \in Keys : WorkerStep(w, k)
      PROVE  SweepIsLate'
  BY <1>1, <1>3 DEF Crash, WorkerStep, Acquire, TakeOver, Renew, Claim,
                    RenewFails, Release, world, IInv, TypeOK
<1>4. CASE SweepStep
  <2> USE DEF SweepIsLate, IInv, world
  <2>1. CASE SweepList
    BY <2>1 DEF SweepList
  <2>2. CASE SweepCutoff
    <3>1. cutoff' + Grace <= now' + Skew
      BY <2>2, TimesAssumption DEF SweepCutoff, TypeOK
    <3>2. doomed' = {}
      BY <2>2 DEF SweepCutoff
    <3> QED BY <3>1, <3>2
  <2>3. ASSUME NEW k \in Keys, SweepCondemn(k) PROVE SweepIsLate'
    <3>1. is_sweepable(listed'[k], cutoff')
      BY <2>3 DEF SweepCondemn
    <3> QED BY <2>3, <3>1 DEF SweepCondemn
  <2>4. ASSUME NEW k \in Keys, SweepPassOver(k) PROVE SweepIsLate'
    BY <2>4 DEF SweepPassOver
  <2>5. ASSUME NEW k \in Keys, SweepDelete(k) \/ SweepDeleteFails(k)
        PROVE  SweepIsLate'
    BY <2>5 DEF SweepDelete, SweepDeleteFails
  <2>6. CASE SweepEnd
    BY <2>6 DEF SweepEnd
  <2> QED BY <1>4, <2>1, <2>2, <2>3, <2>4, <2>5, <2>6 DEF SweepStep
<1>5. CASE UNCHANGED vars
  BY <1>1, <1>5 DEF vars, world, IInv, TypeOK
<1>6. ASSUME NEW k \in Keys, ForeignPush(k) \/ ForeignWithdraw(k) PROVE SweepIsLate'
  BY <1>1, <1>6 DEF ForeignPush, ForeignWithdraw, world, IInv, TypeOK
<1> QED BY <1>2, <1>3, <1>4, <1>5, <1>6 DEF Next

LEMMA HeldStep ==
  ASSUME IInv, [Next]_vars
  PROVE  OwnLeases' /\ HeldInRef'
<1>1. TypeOK'
  BY TypeStep DEF IInv
<1>2. ASSUME now <= now', UNCHANGED <<off, ref, clobbered>>, mine' = mine
      PROVE  OwnLeases' /\ HeldInRef'
  <2>1. \A w \in Workers, k \in Keys : mine'[w][k] \in {mine[w][k], NoLease}
    BY <1>2
  <2> QED BY <1>1, <1>2, <2>1, QuietStep
<1>3. CASE Tick
  BY <1>2, <1>3 DEF Tick, IInv, TypeOK
<1>4. ASSUME NEW w \in Workers, Crash(w) PROVE OwnLeases' /\ HeldInRef'
  <2>1. \A x \in Workers, k \in Keys : mine'[x][k] \in {mine[x][k], NoLease}
    BY <1>4 DEF Crash, IInv, TypeOK
  <2>2. now <= now' /\ UNCHANGED <<off, ref, clobbered>>
    BY <1>4 DEF Crash, world, IInv, TypeOK
  <2> QED BY <1>1, <2>1, <2>2, QuietStep
<1>5. CASE SweepStep
  <2>1. ASSUME NEW k \in Keys, SweepDelete(k) PROVE OwnLeases' /\ HeldInRef'
    BY <2>1, DeleteKeeps
  <2>2. ASSUME UNCHANGED <<world, ref, mine, clobbered>>
        PROVE  OwnLeases' /\ HeldInRef'
    BY <1>2, <2>2 DEF world, IInv, TypeOK
  <2>3. SweepList \/ SweepCutoff \/ SweepEnd => OwnLeases' /\ HeldInRef'
    BY <2>2 DEF SweepList, SweepCutoff, SweepEnd
  <2>4. ASSUME NEW k \in Keys,
               SweepCondemn(k) \/ SweepPassOver(k) \/ SweepDeleteFails(k)
        PROVE  OwnLeases' /\ HeldInRef'
    BY <2>2, <2>4 DEF SweepCondemn, SweepPassOver, SweepDeleteFails
  <2> QED BY <1>5, <2>1, <2>3, <2>4 DEF SweepStep
<1>6. CASE UNCHANGED vars
  BY <1>2, <1>6 DEF vars, world, IInv, TypeOK
<1> QED BY <1>1, <1>3, <1>4, <1>5, <1>6, WorkerStepKeeps, ForeignKeeps DEF Next

LEMMA IInvStep == IInv /\ [Next]_vars => IInv'
BY TypeStep, HeldStep, SweepIsLateStep DEF IInv

LEMMA IInvInit == Init => IInv
BY TypeInit, ValuesAssumption DEF Init, IInv, OwnLeases, HeldInRef, Believes, SweepIsLate

\* For any workers and clocks within Skew: no two workers go by one claim,
\* unless a sweep deleted a lease other than the one it had judged.
THEOREM MutualExclusion == Spec => []OneHolder
<1>1. IInv => OneHolder
  BY DEF IInv, OneHolder, OwnLeases, HeldInRef, Believes
<1> QED BY <1>1, IInvInit, IInvStep, PTL DEF Spec

\* For any such clocks: a lease the sweep has condemned is held by nobody.
THEOREM GraceCoversSkew == Spec => []CondemnedIsUnheld
<1>1. IInv => CondemnedIsUnheld
  <2> SUFFICES ASSUME IInv, NEW k \in doomed, NEW w \in Workers,
                      Believes(w, k), mine[w][k] = listed[k]
               PROVE  FALSE
    BY DEF CondemnedIsUnheld
  <2>1. /\ listed[k].expires \in Nat /\ listed[k].expires <= cutoff
        /\ cutoff + Grace <= now + Skew
    BY DEF IInv, SweepIsLate, is_sweepable, Lease
  <2>2. now <= Clock(w) /\ Clock(w) \in Nat
    BY ClockType DEF IInv
  <2> QED BY <2>1, <2>2, TimesAssumption, SkewAssumption
          DEF Believes, IInv, TypeOK
<1> QED BY <1>1, IInvInit, IInvStep, PTL DEF Spec

\* What the sweep has condemned is over, by every clock.
LEMMA DoomedIsDead ==
  ASSUME IInv, NEW k \in doomed
  PROVE  FoundDead(k)
<1>1. k \in Keys /\ pc = "delete"
  BY DEF IInv, TypeOK, SweepIsLate
<1>2. /\ listed[k] \in Lease /\ listed[k].expires \in Nat
      /\ listed[k].expires <= cutoff /\ cutoff + Grace <= now + Skew
  BY <1>1 DEF IInv, SweepIsLate, is_sweepable, Lease
<1>3. listed[k].expires <= now
  BY <1>2, TimesAssumption, SkewAssumption DEF IInv, TypeOK
<1>4. ASSUME NEW w \in Workers PROVE listed[k].expires <= Clock(w)
  BY <1>2, <1>3, ClockType DEF IInv, TypeOK
<1> QED BY <1>2, <1>4 DEF FoundDead

\* No worker's step leads from a ref that is no lease.
LEMMA WorkerSparesForeign ==
  ASSUME TypeOK, NEW w \in Workers, NEW k \in Keys, WorkerStep(w, k)
  PROVE  \A j \in Keys : ref[j] = Foreign => ref'[j] = Foreign
<1> USE ValuesAssumption DEF TypeOK
<1>1. ref[k] # Foreign \/ UNCHANGED ref
  BY DEF WorkerStep, Acquire, TakeOver, Renew, RenewFails, Release
<1>2. \A j \in Keys \ {k} : ref'[j] = ref[j]
  BY DEF WorkerStep, Acquire, TakeOver, Renew, RenewFails, Release, Claim
<1> QED BY <1>1, <1>2

LEMMA ForeignStep ==
  ASSUME IInv, [Next]_vars, NEW j \in Keys, ref[j] = Foreign, ref'[j] # Foreign
  PROVE  ForeignWithdraw(j) \/ (j \in clobbered' /\ FoundDead(j))
<1> USE DEF IInv, TypeOK
<1>1. ASSUME UNCHANGED ref PROVE FALSE
  BY <1>1
<1>2. CASE Tick
  BY <1>1, <1>2 DEF Tick
<1>3. ASSUME NEW w \in Workers, Crash(w) PROVE FALSE
  BY <1>1, <1>3 DEF Crash
<1>4. ASSUME NEW w \in Workers, NEW k \in Keys, WorkerStep(w, k) PROVE FALSE
  BY <1>4, WorkerSparesForeign
<1>5. ASSUME NEW k \in Keys, ForeignPush(k) \/ ForeignWithdraw(k) PROVE ForeignWithdraw(j)
  <2>1. CASE ForeignPush(k)
    BY <2>1 DEF ForeignPush
  <2>2. CASE ForeignWithdraw(k)
    BY <2>2 DEF ForeignWithdraw
  <2> QED BY <1>5, <2>1, <2>2
<1>6. CASE SweepStep
  <2>1. CASE SweepList \/ SweepCutoff \/ SweepEnd
    BY <1>1, <2>1 DEF SweepList, SweepCutoff, SweepEnd
  <2>2. ASSUME NEW k \in Keys,
               SweepCondemn(k) \/ SweepPassOver(k) \/ SweepDeleteFails(k)
        PROVE  FALSE
    BY <1>1, <2>2 DEF SweepCondemn, SweepPassOver, SweepDeleteFails
  <2>3. ASSUME NEW k \in Keys, SweepDelete(k)
        PROVE  j \in clobbered' /\ FoundDead(j)
    <3>1. j = k
      BY <2>3 DEF SweepDelete
    <3>2. j \in doomed /\ FoundDead(j)
      BY <2>3, <3>1, DoomedIsDead DEF SweepDelete
    <3>3. ref[j] \notin {listed[j], NoLease}
      BY <3>2, ValuesAssumption DEF FoundDead
    <3> QED BY <2>3, <3>1, <3>2, <3>3 DEF SweepDelete
  <2> QED BY <1>6, <2>1, <2>2, <2>3 DEF SweepStep
<1>7. CASE UNCHANGED vars
  BY <1>1, <1>7 DEF vars
<1> QED BY <1>2, <1>3, <1>4, <1>5, <1>6, <1>7 DEF Next

\* In every step of every behaviour, for any claims and clocks within Skew, while
\* anybody pushes and withdraws refs that are no leases: the sweep loses none that
\* it listed, and no other one before the lease it listed under that name was over
\* by every worker's clock (claims_access.py 78-87, 172-183).
THEOREM ForeignRefsAreSpared == Spec => ForeignSpared
<1>1. IInv /\ [Next]_vars
        => [\A k \in Keys : ref[k] = Foreign /\ ref'[k] # Foreign
               => ForeignWithdraw(k) \/ (k \in clobbered' /\ FoundDead(k))]_vars
  BY ForeignStep
<1> QED BY <1>1, IInvInit, IInvStep, PTL DEF Spec, ForeignSpared
-------------------------------------------------------------------------------
(* The abstract locks                                                      *)

AbsHolders == [k \in Keys |-> Holders(k)]

\* Whoever goes by a claim that is not clobbered is the owner of what is in the ref.
LEMMA HolderOwns ==
  ASSUME IInv, NEW k \in Keys, NEW x \in Holders(k)
  PROVE  /\ x \in Workers /\ k \notin clobbered /\ Believes(x, k)
         /\ ref[k] \in Lease /\ ref[k] = mine[x][k] /\ ref[k].owner = x /\ Clock(x) < ref[k].expires
<1>1. x \in Workers /\ k \notin clobbered /\ Believes(x, k)
  BY DEF Holders
<1>2. ref[k] = mine[x][k] /\ mine[x][k] # NoLease
  BY <1>1 DEF IInv, HeldInRef, Believes
<1>3. mine[x][k] \in Lease
  BY <1>1, <1>2 DEF IInv, TypeOK
<1> QED BY <1>1, <1>2, <1>3 DEF IInv, OwnLeases, Believes

\* What a worker can claim, somebody else does not go by.
LEMMA NobodyElse ==
  ASSUME IInv, NEW w \in Workers, NEW k \in Keys, Acquire(w, k) \/ TakeOver(w, k) \/ Renew(w, k)
  PROVE  Holders(k) \subseteq {w}
<1> SUFFICES ASSUME NEW x \in Holders(k), x # w PROVE FALSE
  OBVIOUS
<1>1. /\ x \in Workers /\ ref[k] \in Lease /\ ref[k].owner = x /\ Clock(x) < ref[k].expires
      /\ ref[k] = mine[x][k]
  BY HolderOwns
<1>2. CASE Acquire(w, k)
  BY <1>1, <1>2, ValuesAssumption DEF Acquire
<1>3. CASE TakeOver(w, k)
  <2>1. Clock(w) >= ref[k].expires + Margin /\ ref[k].expires \in Nat
    BY <1>1, <1>3 DEF TakeOver, Lease
  <2>2. Clock(w) <= Clock(x) + Skew /\ Clock(x) \in Nat /\ Clock(w) \in Nat
    BY <1>1, ClockType, TimesAssumption DEF IInv, TypeOK
  <2> QED BY <1>1, <2>1, <2>2, TimesAssumption, SkewAssumption
<1>4. CASE Renew(w, k)
  BY <1>1, <1>4 DEF Renew, IInv, OwnLeases
<1> QED BY <1>2, <1>3, <1>4

LEMMA ClaimIsGet ==
  ASSUME IInv, NEW w \in Workers, NEW k \in Keys, Claim(w, k), Holders(k) \subseteq {w}
  PROVE  Locks!Get(w, k) \/ UNCHANGED <<AbsHolders, clobbered>>
<1>1. /\ UNCHANGED <<now, off, clobbered>>
      /\ mine' = [mine EXCEPT ![w][k] = NewLease(w)]
  BY DEF Claim, world
<1>2. \A x \in Workers, j \in Keys : x # w \/ j # k => mine'[x][j] = mine[x][j]
  BY <1>1 DEF IInv, TypeOK
<1>3. \A x \in Workers, j \in Keys : x # w \/ j # k => (Believes(x, j)' <=> Believes(x, j))
  BY <1>1, <1>2 DEF Believes, Clock
<1>4. Believes(w, k)'
  <2>1. mine'[w][k] = NewLease(w) /\ Clock(w)' = Clock(w)
    BY <1>1 DEF IInv, TypeOK, Clock
  <2>2. NewLease(w) \in Lease /\ NewLease(w).expires = Clock(w) + TTL /\ Clock(w) \in Nat
    BY NewLeaseType, ClockType DEF IInv
  <2>3. NewLease(w) # NoLease /\ Clock(w) < NewLease(w).expires
    BY <2>2, TimesAssumption, ValuesAssumption
  <2> QED BY <2>1, <2>3 DEF Believes
<1>5. \A j \in Keys \ {k} : Holders(j)' = Holders(j)
  BY <1>1, <1>3 DEF Holders
<1>6. CASE k \in clobbered
  <2>1. Holders(k) = {} /\ Holders(k)' = {}
    BY <1>1, <1>6 DEF Holders
  <2>2. \A j \in Keys : Holders(j)' = Holders(j)
    BY <1>5, <2>1
  <2> QED BY <1>1, <2>2 DEF AbsHolders
<1>7. CASE k \notin clobbered
  <2>1. Holders(k)' = {w}
    <3>1. \A x \in Workers : Believes(x, k)' => x \in {w}
      BY <1>3, <1>7 DEF Holders
    <3> QED BY <1>1, <1>4, <1>7, <3>1 DEF Holders
  <2>2. CASE Holders(k) = {w}
    <3>1. \A j \in Keys : Holders(j)' = Holders(j)
      BY <1>5, <2>1, <2>2
    <3> QED BY <1>1, <3>1 DEF AbsHolders
  <2>3. CASE Holders(k) = {}
    <3>1. AbsHolders' = [AbsHolders EXCEPT ![k] = {w}]
      BY <1>5, <2>1 DEF AbsHolders
    <3>2. AbsHolders[k] = {}
      BY <2>3 DEF AbsHolders
    <3> QED BY <1>1, <1>7, <3>1, <3>2 DEF Locks!Get, AbsHolders
  <2> QED BY <2>2, <2>3
<1> QED BY <1>6, <1>7

\* A step after which nobody goes by more than before.
LEMMA QuietIsLose ==
  ASSUME IInv, TypeOK', now <= now', UNCHANGED <<off, clobbered>>,
         \A w \in Workers, k \in Keys : mine'[w][k] \in {mine[w][k], NoLease}
  PROVE  Locks!Lose
<1>1. ASSUME NEW w \in Workers, NEW k \in Keys, Believes(w, k)'
      PROVE  Believes(w, k)
  <2>1. mine'[w][k] = mine[w][k] /\ mine[w][k] \in Lease
    BY <1>1 DEF Believes, IInv, TypeOK
  <2>2. Clock(w) <= Clock(w)' /\ Clock(w) \in Nat /\ Clock(w)' \in Nat
    BY TimesAssumption DEF Clock, IInv, TypeOK
  <2>3. mine[w][k].expires \in Nat
    BY <2>1 DEF Lease
  <2> QED BY <1>1, <2>1, <2>2, <2>3 DEF Believes
<1>2. \A k \in Keys : Holders(k)' \subseteq Holders(k)
  BY <1>1 DEF Holders
<1>3. \A k \in Keys : Holders(k)' \in SUBSET Workers
  BY DEF Holders
<1>4. AbsHolders' = [k \in Keys |-> Holders(k)'] /\ clobbered' = clobbered
  BY DEF AbsHolders
<1>5. AbsHolders' \in [Keys -> SUBSET Workers]
      /\ \A k \in Keys : AbsHolders'[k] \subseteq AbsHolders[k]
  BY <1>2, <1>3, <1>4 DEF AbsHolders
<1> QED BY <1>4, <1>5 DEF Locks!Lose, AbsHolders

LEMMA DeleteIsSpoil ==
  ASSUME IInv, NEW k \in Keys, SweepDelete(k)
  PROVE  Locks!Spoil(k) \/ UNCHANGED <<AbsHolders, clobbered>>
<1>1. UNCHANGED <<now, off, mine>> /\ clobbered' \in {clobbered, clobbered \cup {k}}
  BY DEF SweepDelete, world
<1>2. \A w \in Workers, j \in Keys : Believes(w, j)' <=> Believes(w, j)
  BY <1>1 DEF Believes, Clock
<1>3. CASE clobbered' = clobbered
  <2>1. \A j \in Keys : Holders(j)' = Holders(j)
    BY <1>2, <1>3 DEF Holders
  <2> QED BY <1>3, <2>1 DEF AbsHolders
<1>4. CASE clobbered' = clobbered \cup {k}
  <2>1. Holders(k)' = {} /\ \A j \in Keys \ {k} : Holders(j)' = Holders(j)
    BY <1>2, <1>4 DEF Holders
  <2>2. AbsHolders' = [AbsHolders EXCEPT ![k] = {}]
    BY <2>1 DEF AbsHolders
  <2> QED BY <1>4, <2>2 DEF Locks!Spoil, AbsHolders
<1> QED BY <1>1, <1>3, <1>4

LEMMA LockStep ==
  ASSUME IInv, [Next]_vars
  PROVE  Locks!LockNext \/ UNCHANGED <<AbsHolders, clobbered>>
<1>1. TypeOK'
  BY TypeStep DEF IInv
<1>2. ASSUME now <= now', UNCHANGED <<off, clobbered>>, mine' = mine PROVE Locks!Lose
  <2>1. \A w \in Workers, k \in Keys : mine'[w][k] \in {mine[w][k], NoLease}
    BY <1>2
  <2> QED BY <1>1, <1>2, <2>1, QuietIsLose
<1>3. CASE Tick
  BY <1>2, <1>3 DEF Tick, IInv, TypeOK, Locks!LockNext
<1>4. ASSUME NEW w \in Workers, Crash(w) PROVE Locks!Lose
  <2>1. \A x \in Workers, k \in Keys : mine'[x][k] \in {mine[x][k], NoLease}
    BY <1>4 DEF Crash, IInv, TypeOK
  <2>2. now <= now' /\ UNCHANGED <<off, clobbered>>
    BY <1>4 DEF Crash, world, IInv, TypeOK
  <2> QED BY <1>1, <2>1, <2>2, QuietIsLose
<1>5. ASSUME NEW w \in Workers, NEW k \in Keys, WorkerStep(w, k)
      PROVE  Locks!LockNext \/ UNCHANGED <<AbsHolders, clobbered>>
  <2>1. CASE Acquire(w, k) \/ TakeOver(w, k) \/ Renew(w, k)
    <3>1. Claim(w, k) /\ Holders(k) \subseteq {w}
      BY <2>1, NobodyElse DEF Acquire, TakeOver, Renew
    <3> QED BY <3>1, ClaimIsGet DEF Locks!LockNext
  <2>2. CASE RenewFails(w, k) \/ Release(w, k)
    <3>1. \A x \in Workers, j \in Keys : mine'[x][j] \in {mine[x][j], NoLease}
      BY <2>2 DEF RenewFails, Release, IInv, TypeOK
    <3>2. now <= now' /\ UNCHANGED <<off, clobbered>>
      BY <2>2 DEF RenewFails, Release, world, IInv, TypeOK
    <3> QED BY <1>1, <3>1, <3>2, QuietIsLose DEF Locks!LockNext
  <2> QED BY <1>5, <2>1, <2>2 DEF WorkerStep
<1>6. CASE SweepStep
  <2>1. ASSUME NEW k \in Keys, SweepDelete(k)
        PROVE  Locks!LockNext \/ UNCHANGED <<AbsHolders, clobbered>>
    BY <2>1, DeleteIsSpoil DEF Locks!LockNext
  <2>2. ASSUME UNCHANGED <<world, mine, clobbered>> PROVE Locks!LockNext
    BY <1>2, <2>2 DEF world, IInv, TypeOK, Locks!LockNext
  <2>3. SweepList \/ SweepCutoff \/ SweepEnd => Locks!LockNext
    BY <2>2 DEF SweepList, SweepCutoff, SweepEnd
  <2>4. ASSUME NEW k \in Keys, SweepCondemn(k) \/ SweepPassOver(k) \/ SweepDeleteFails(k)
        PROVE  Locks!LockNext
    BY <2>2, <2>4 DEF SweepCondemn, SweepPassOver, SweepDeleteFails
  <2> QED BY <1>6, <2>1, <2>3, <2>4 DEF SweepStep
<1>7. CASE UNCHANGED vars
  BY <1>2, <1>7 DEF vars, world, IInv, TypeOK, Locks!LockNext
<1>8. ASSUME NEW w \in Workers, Crash(w) PROVE Locks!LockNext
  BY <1>4, <1>8 DEF Locks!LockNext
<1>9. ASSUME NEW k \in Keys, ForeignPush(k) \/ ForeignWithdraw(k) PROVE Locks!LockNext
  BY <1>2, <1>9 DEF ForeignPush, ForeignWithdraw, world, IInv, TypeOK, Locks!LockNext
<1> QED BY <1>3, <1>5, <1>6, <1>7, <1>8, <1>9 DEF Next

\* Leases and sweep implement locks, for any workers, claims and clocks within
\* Skew: a worker comes to go by a claim only when nobody does (COORDINATION.md
\* 76-92, claims_access.py 173-183).
THEOREM LeasesAreLocks == Spec => ImplementsLocks
<1>1. Init => Locks!LockInit
  BY DEF Init, Locks!LockInit, Holders, Believes
<1>2. IInv /\ [Next]_vars => [Locks!LockNext]_(Locks!abs)
  BY LockStep DEF Locks!abs, AbsHolders
<1> QED BY <1>1, <1>2, IInvInit, IInvStep, PTL DEF Spec, ImplementsLocks, Locks!LockSpec
================================================================================
