----------------------------- MODULE ClaimLeases -----------------------------
(***************************************************************************)
(* Task claims: leases on refs of a repository that every worker can push  *)
(* to (COORDINATION.md, section 3), next to the hourly sweep that deletes  *)
(* the leavings of dead workers (scripts/claims_access.py).                *)
(*                                                                         *)
(* A worker writes a ref by compare-and-swap, so its read of the old lease *)
(* and its write are one action here.  The sweep is not: it lists the refs,*)
(* reads the lease each pointed at, and deletes the ref by name, whatever  *)
(* the ref points at by then.                                              *)
(***************************************************************************)
EXTENDS Integers

CONSTANTS
    Workers,
    Keys,       \* names of claims
    NoLease,    \* the ref does not exist
    Foreign,    \* a ref whose message is not a lease
    TTL,        \* how long a claim lasts
    Margin,     \* how long after its expiry other workers still honour it
    Skew,       \* bound on the difference of two clocks
    Grace,      \* SWEEP_GRACE_MINUTES
    MaxTime     \* bound on the time modelled

ASSUME TimesAssumption ==
    /\ TTL \in Nat \ {0}
    /\ Margin \in Nat /\ Skew \in Nat /\ Grace \in Nat /\ MaxTime \in Nat

\* The margin and the grace period are there for clocks that differ.
ASSUME SkewAssumption == Skew <= Margin /\ Skew <= Grace

Lease == [owner : Workers, expires : Nat]

ASSUME ValuesAssumption ==
    NoLease # Foreign /\ NoLease \notin Lease /\ Foreign \notin Lease

VARIABLES
    now,        \* the time
    off,        \* how far each worker's clock is ahead of it
    sweepOff,   \* the same of the runner the sweep is on
    ref,        \* GitHub: the lease each ref points at
    mine,       \* each worker's record of the claims it holds
    pc,         \* where the sweep is
    listed,     \* the refs it listed
    todo,       \* those it has yet to look at
    cutoff,     \* leases that expired by then are dead to it
    doomed,     \* the ref it is about to delete
    clobbered   \* history: refs that no longer held the lease it condemned

world == <<now, off, sweepOff>>
sweep == <<pc, listed, todo, cutoff, doomed>>
vars == <<world, ref, mine, sweep, clobbered>>

Clock(w) == now + off[w]

\* What a worker goes by: its record of the claim, and its own clock.
Believes(w, k) == mine[w][k] # NoLease /\ Clock(w) < mine[w][k].expires

TypeOK ==
    /\ now \in Nat
    /\ off \in [Workers -> 0..Skew]
    /\ sweepOff \in 0..Skew
    /\ ref \in [Keys -> Lease \cup {NoLease, Foreign}]
    /\ mine \in [Workers -> [Keys -> Lease \cup {NoLease}]]
    /\ pc \in {"idle", "listed", "loop", "delete"}
    /\ listed \in [Keys -> Lease \cup {NoLease, Foreign}]
    /\ todo \in SUBSET Keys
    /\ cutoff \in Int
    /\ doomed \in SUBSET Keys
    /\ clobbered \in SUBSET Keys

Init ==
    /\ now = 0
    /\ off \in [Workers -> 0..Skew]
    /\ sweepOff \in 0..Skew
    /\ ref \in [Keys -> {NoLease, Foreign}]
    /\ mine = [w \in Workers |-> [k \in Keys |-> NoLease]]
    /\ pc = "idle"
    /\ listed = [k \in Keys |-> NoLease]
    /\ todo = {}
    /\ cutoff = 0
    /\ doomed = {}
    /\ clobbered = {}

Tick ==
    /\ now < MaxTime
    /\ now' = now + 1
    /\ UNCHANGED <<off, sweepOff, ref, mine, sweep, clobbered>>

-------------------------------------------------------------------------------
(* The workers' side.                                                      *)

NewLease(w) == [owner |-> w, expires |-> Clock(w) + TTL]

\* A push that GitHub accepted: the ref and the worker's record agree.
Claim(w, k) ==
    /\ ref' = [ref EXCEPT ![k] = NewLease(w)]
    /\ mine' = [mine EXCEPT ![w][k] = NewLease(w)]
    /\ UNCHANGED <<world, sweep, clobbered>>

\* Create-only push
Acquire(w, k) ==
    /\ ref[k] = NoLease
    /\ Claim(w, k)

\* Compare-and-swap of a lease past its expiry and the margin
TakeOver(w, k) ==
    /\ ref[k] \in Lease
    /\ Clock(w) >= ref[k].expires + Margin
    /\ Claim(w, k)

\* Compare-and-swap of the worker's own lease, expired or not
Renew(w, k) ==
    /\ mine[w][k] # NoLease
    /\ ref[k] = mine[w][k]
    /\ Claim(w, k)

\* The swap fails: the claim is someone else's, or gone.
RenewFails(w, k) ==
    /\ mine[w][k] # NoLease
    /\ ref[k] # mine[w][k]
    /\ mine' = [mine EXCEPT ![w][k] = NoLease]
    /\ UNCHANGED <<world, ref, sweep, clobbered>>

Release(w, k) ==
    /\ mine[w][k] # NoLease
    /\ ref[k] = mine[w][k]
    /\ ref' = [ref EXCEPT ![k] = NoLease]
    /\ mine' = [mine EXCEPT ![w][k] = NoLease]
    /\ UNCHANGED <<world, sweep, clobbered>>

\* The worker dies, or never hears that a push of its was accepted.
Crash(w) ==
    /\ \E k \in Keys : mine[w][k] # NoLease
    /\ mine' = [mine EXCEPT ![w] = [k \in Keys |-> NoLease]]
    /\ UNCHANGED <<world, ref, sweep, clobbered>>

\* Somebody else pushes a ref of that name, which is no lease, or withdraws it:
\* whoever can write leases can write any ref.
ForeignPush(k) ==
    /\ ref[k] = NoLease
    /\ ref' = [ref EXCEPT ![k] = Foreign]
    /\ UNCHANGED <<world, mine, sweep, clobbered>>

ForeignWithdraw(k) ==
    /\ ref[k] = Foreign
    /\ ref' = [ref EXCEPT ![k] = NoLease]
    /\ UNCHANGED <<world, mine, sweep, clobbered>>

-------------------------------------------------------------------------------
(* claims_access.sweep                                                     *)

\* One listing of the refs and the commits they point at
SweepList ==
    /\ pc = "idle"
    /\ pc' = "listed"
    /\ listed' = ref
    /\ todo' = {k \in Keys : ref[k] # NoLease}
    /\ UNCHANGED <<world, ref, mine, cutoff, doomed, clobbered>>

\* Wrong on purpose: no grace period.
SweepCutoffNow ==
    /\ pc = "listed"
    /\ pc' = "loop"
    /\ cutoff' = now + sweepOff
    /\ UNCHANGED <<world, ref, mine, listed, todo, doomed, clobbered>>

\* Wrong on purpose: the grace period is added where it is to be taken off.
SweepCutoffLater ==
    /\ pc = "listed"
    /\ pc' = "loop"
    /\ cutoff' = now + sweepOff + Grace
    /\ UNCHANGED <<world, ref, mine, listed, todo, doomed, clobbered>>

SweepCutoff ==
    /\ pc = "listed"
    /\ pc' = "loop"
    /\ cutoff' = now + sweepOff - Grace
    /\ UNCHANGED <<world, ref, mine, listed, todo, doomed, clobbered>>

\* Wrong on purpose: a message without an expiry counts as expired.
is_sweepable_unread(lease, limit) == lease \in Lease => lease.expires <= limit

\* Wrong on purpose: off by one.
is_sweepable_strict(lease, limit) ==
    lease \in Lease /\ 0 < lease.expires /\ lease.expires < limit

\* What is not a lease with a positive expiry is not the sweep's to delete.
is_sweepable(lease, limit) ==
    lease \in Lease /\ 0 < lease.expires /\ lease.expires <= limit

\* Reads the lease of the listed commit, which is what it was.
SweepCondemn(k) ==
    /\ pc = "loop"
    /\ k \in todo
    /\ is_sweepable(listed[k], cutoff)
    /\ todo' = todo \ {k}
    /\ pc' = "delete"
    /\ doomed' = {k}
    /\ UNCHANGED <<world, ref, mine, listed, cutoff, clobbered>>

\* The lease is not dead, is no lease, or cannot be read this time.
SweepPassOver(k) ==
    /\ pc = "loop"
    /\ k \in todo
    /\ todo' = todo \ {k}
    /\ UNCHANGED <<world, ref, mine, pc, listed, cutoff, doomed, clobbered>>

\* Deletes the ref by its name.  A ref that is gone is a counted failure.
SweepDelete(k) ==
    /\ pc = "delete"
    /\ k \in doomed
    /\ pc' = "loop"
    /\ doomed' = {}
    /\ ref' = [ref EXCEPT ![k] = NoLease]
    /\ clobbered' = IF ref[k] \in {listed[k], NoLease}
                    THEN clobbered ELSE clobbered \cup {k}
    /\ UNCHANGED <<world, mine, listed, todo, cutoff>>

\* The call fails: the ref stays, the next run will see it again.
SweepDeleteFails(k) ==
    /\ pc = "delete"
    /\ k \in doomed
    /\ pc' = "loop"
    /\ doomed' = {}
    /\ UNCHANGED <<world, ref, mine, listed, todo, cutoff, clobbered>>

SweepEnd ==
    /\ pc = "loop"
    /\ todo = {}
    /\ pc' = "idle"
    /\ listed' = [k \in Keys |-> NoLease]
    /\ cutoff' = 0
    /\ UNCHANGED <<world, ref, mine, todo, doomed, clobbered>>

-------------------------------------------------------------------------------

WorkerStep(w, k) ==
    Acquire(w, k) \/ TakeOver(w, k) \/ Renew(w, k) \/ RenewFails(w, k) \/ Release(w, k)

SweepStep ==
    \/ SweepList
    \/ SweepCutoff
    \/ \E k \in Keys : \/ SweepCondemn(k) \/ SweepPassOver(k)
                      \/ SweepDelete(k) \/ SweepDeleteFails(k)
    \/ SweepEnd

Next ==
    \/ Tick
    \/ \E w \in Workers : Crash(w) \/ (\E k \in Keys : WorkerStep(w, k))
    \/ \E k \in Keys : ForeignPush(k) \/ ForeignWithdraw(k)
    \/ SweepStep

Spec == Init /\ [][Next]_vars

\* Time passes, the cron fires and a run goes on; an API call that keeps
\* being tried does not fail every time.  Workers owe nobody a step.
Fairness ==
    /\ WF_vars(Tick)
    /\ WF_vars(SweepStep)
    /\ \A k \in Keys : SF_vars(SweepCondemn(k)) /\ SF_vars(SweepDelete(k))

FairSpec == Spec /\ Fairness

-------------------------------------------------------------------------------
(* Properties                                                              *)

\* Two workers never both go by the same claim, however far apart their clocks
\* are within Skew, and whoever crashed or swept in between, as long as no
\* sweep deleted a lease it had not judged (COORDINATION.md 76-92,
\* claims_access.py 173-183).
OneHolder ==
    \A k \in Keys \ clobbered : \A w, x \in Workers :
        Believes(w, k) /\ Believes(x, k) => w = x

\* Who goes by a claim, as long as no sweep deleted a lease it had not judged.
Holders(k) == IF k \in clobbered THEN {} ELSE {w \in Workers : Believes(w, k)}

Locks == INSTANCE TaskLocks WITH holders <- [k \in Keys |-> Holders(k)], void <- clobbered

\* Leases and sweep make locks: a worker comes to go by a claim only when nobody
\* does, by any clock, so that a claim is never handed over in one step
\* (COORDINATION.md 76-92).
ImplementsLocks == Locks!LockSpec

\* Nobody goes by a lease the sweep has condemned: the grace period outlasts
\* the difference of the clocks (claims_access.py 43-46, 78-87, 172).
CondemnedIsUnheld ==
    \A k \in doomed, w \in Workers : Believes(w, k) => mine[w][k] # listed[k]

\* The lease the sweep found under a name, if it found one, is over for everybody.
FoundDead(k) == listed[k] \in Lease /\ \A w \in Workers : listed[k].expires <= Clock(w)

\* "an unfamiliar ref in this namespace is not ours to delete"
\* (claims_access.py 79-80).  A ref that is no lease, and is gone without being
\* withdrawn, was not there when the sweep listed the refs: it took the name of
\* a lease that was, and that no clock calls alive any more.  That much is lost,
\* because the deletion goes by the ref's name (182).
ForeignSpared ==
    [][\A k \in Keys : ref[k] = Foreign /\ ref'[k] # Foreign
          => ForeignWithdraw(k) \/ (k \in clobbered' /\ FoundDead(k))]_vars

\* A lease whose worker died is cleared away if nobody takes it over, and
\* whatever calls fail in a run (claims_access.py 21-28).
DeadLeaseIsSwept ==
    \A k \in Keys, w \in Workers, e \in 1..(MaxTime - Grace) :
        (ref[k] = [owner |-> w, expires |-> e])
            ~> (ref[k] # [owner |-> w, expires |-> e])

-------------------------------------------------------------------------------
(* What a comment in the script says, and the code does not do.            *)

\* "the grace period means the sweep cannot race that and delete a lease
\* somebody is actively holding" (claims_access.py 44-45): the ref of a claim a
\* worker goes by changes only when that worker itself changes it.
SweepSparesHolders ==
    [][\A k \in Keys, w \in Workers :
         Believes(w, k) /\ ref[k] = mine[w][k] /\ ref'[k] # ref[k]
            => mine'[w][k] # mine[w][k]]_vars

===============================================================================
