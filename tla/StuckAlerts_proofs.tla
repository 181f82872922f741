-------------------------- MODULE StuckAlerts_proofs --------------------------
(***************************************************************************)
(* scripts/pr_status/stuck_alerts.py: the watchdog and its detectors.      *)
(*                                                                         *)
(* StuckAlerts, for any alerts, detectors and failures.  It fails closed:  *)
(* when a run resolves a message, the detector ran without an error after  *)
(* the run began and saw no emergency.  It keeps its promise to the readers*)
(* of the topic: StuckAlerts implements AlertBoard, and an emergency is    *)
(* announced once.                                                         *)
(*                                                                         *)
(* Detectors, for any thresholds and any history of GitHub: what a         *)
(* detector reads of a pull request, of main and of the schedules is a     *)
(* sufficient trace of what happened to them.                              *)
(***************************************************************************)
EXTENDS StuckAlerts, Detectors, FiniteSetTheorems, FunctionTheorems, SequenceTheorems, TLAPS

-------------------------------------------------------------------------------
(* The watchdog                                                            *)

\* What a run without an alert for k, and without an error, has seen.
Looked ==
    pc # "idle" =>
      \A k \in Keys :
        /\ firing[k] = Quiet => k \in calm
        /\ key_prefix[k] \notin Swallowing \cup todo \cup failed /\ alerts[k] = Quiet
             => k \in calm

\* The detectors are done once the topic has been fetched, messages are only
\* added to it, and what is still to be shown is an alert.
Fetched ==
    /\ pc \in {"fetch", "show", "clear"} => todo = {}
    /\ pc # "show" => active = {}
    /\ \A k \in active : alerts[k] # Quiet
    /\ \A k \in Keys : Len(existing[k]) <= Len(topic[k])

IInv == TypeOK /\ Looked /\ Fetched

LEMMA Reworded ==
  ASSUME NEW s \in Seq(Message), NEW i \in 1..Len(s), NEW m \in Message
  PROVE  /\ [s EXCEPT ![i] = m] \in Seq(Message)
         /\ Len([s EXCEPT ![i] = m]) = Len(s)
         /\ [s EXCEPT ![i] = m][i] = m
OBVIOUS

LEMMA IInvInit == Init => IInv
<1> SUFFICES ASSUME Init PROVE IInv
  OBVIOUS
<1>1. \A k \in Keys : topic[k] = << >> /\ existing[k] = << >>
  BY DEF Init, NoRun, NoMessage
<1>2. TypeOK
  <2>1. << >> \in Seq(Message)
    OBVIOUS
  <2>2. 0 \in 0..MaxChanges /\ 0 \in 0..MaxFaults
    BY BoundsAssumption
  <2> QED BY <2>1, <2>2 DEF Init, NoRun, NoMessage, TypeOK
<1>3. Fetched
  BY <1>1 DEF Init, NoRun, Fetched
<1>4. Looked
  BY DEF Init, Looked
<1> QED BY <1>2, <1>3, <1>4 DEF IInv

\* What a message step of the run does to the topic: a new message is added,
\* or the one that was newest when the topic was fetched is changed.
LEMMA PostStep ==
  ASSUME IInv, NEW k \in Keys, Post(k)
  PROVE  /\ topic' \in [Keys -> Seq(Message)]
         /\ \A j \in Keys : Len(topic[j]) <= Len(topic'[j])
         /\ \A j \in Keys : ~AllClear(j)
<1>1. topic[k] \in Seq(Message) /\ topic \in [Keys -> Seq(Message)]
  BY DEF IInv, TypeOK
<1>2. [red |-> TRUE, body |-> alerts[k]] \in Message
  BY DEF Post, IInv, TypeOK, Fetched, Message
<1>3. /\ topic'[k] = Append(topic[k], [red |-> TRUE, body |-> alerts[k]])
      /\ \A j \in Keys \ {k} : topic'[j] = topic[j]
  BY <1>1 DEF Post
<1>4. topic'[k] \in Seq(Message) /\ Len(topic'[k]) = Len(topic[k]) + 1
  BY <1>1, <1>2, <1>3
<1>5. topic' \in [Keys -> Seq(Message)]
  BY <1>1, <1>2 DEF Post
<1>6. \A j \in Keys : topic[j] \in Seq(Message) /\ Len(topic[j]) \in Nat
  BY <1>1
<1>7. ~AllClear(k)
  BY <1>4, <1>6 DEF AllClear
<1>8. ASSUME NEW j \in Keys \ {k} PROVE ~AllClear(j)
  BY <1>3 DEF AllClear
<1>9. \A j \in Keys : Len(topic[j]) <= Len(topic'[j])
  BY <1>3, <1>4, <1>6
<1> QED BY <1>5, <1>7, <1>8, <1>9

LEMMA EditStep ==
  ASSUME IInv, NEW k \in Keys, IsRed(existing[k]), NEW m \in Message,
         topic' = [topic EXCEPT ![k][Len(existing[k])] = m]
  PROVE  /\ topic' \in [Keys -> Seq(Message)]
         /\ \A j \in Keys : Len(topic'[j]) = Len(topic[j])
         /\ \A j \in Keys \ {k} : topic'[j] = topic[j]
         /\ m.red => ~AllClear(k)
<1> DEFINE n == Len(existing[k])
           s == [topic[k] EXCEPT ![n] = m]
<1>1. topic \in [Keys -> Seq(Message)] /\ topic[k] \in Seq(Message)
  BY DEF IInv, TypeOK
<1>2. n \in 1..Len(topic[k])
  <2>1. existing[k] \in Seq(Message) /\ existing[k] # << >>
    BY DEF IInv, TypeOK, IsRed
  <2>2. n \in Nat \ {0} /\ Len(topic[k]) \in Nat /\ n <= Len(topic[k])
    BY <1>1, <2>1 DEF IInv, Fetched
  <2> QED BY <2>2
<1>3. s \in Seq(Message) /\ Len(s) = Len(topic[k]) /\ s[n] = m
  BY <1>1, <1>2, Reworded
<1>4. topic' = [topic EXCEPT ![k] = s]
  OBVIOUS
<1>5. topic' \in [Keys -> Seq(Message)] /\ topic'[k] = s
      /\ \A j \in Keys \ {k} : topic'[j] = topic[j]
  BY <1>1, <1>3, <1>4
<1>6. ASSUME m.red, AllClear(k) PROVE FALSE
  <2>1. n = Len(topic[k]) \/ n # Len(topic[k])
    OBVIOUS
  <2>2. s # << >> /\ ~Newest(s).red /\ topic[k] # << >> /\ Newest(topic[k]).red
    BY <1>1, <1>2, <1>3, <1>5, <1>6 DEF AllClear, IsRed
  <2>3. CASE n = Len(topic[k])
    BY <1>3, <1>6, <2>2, <2>3 DEF Newest
  <2>4. CASE n # Len(topic[k])
    <3>1. s[Len(s)] = topic[k][Len(topic[k])]
      BY <1>1, <1>2, <1>3, <2>4
    <3> QED BY <2>2, <3>1 DEF Newest
  <2> QED BY <2>3, <2>4
<1> QED BY <1>3, <1>5, <1>6

LEMMA RefreshStep ==
  ASSUME IInv, NEW k \in Keys, Refresh(k)
  PROVE  /\ topic' \in [Keys -> Seq(Message)]
         /\ \A j \in Keys : Len(topic[j]) <= Len(topic'[j])
         /\ \A j \in Keys : ~AllClear(j)
<1>1. [red |-> TRUE, body |-> alerts[k]] \in Message
  BY DEF Refresh, IInv, TypeOK, Fetched, Message
<1>2. /\ topic' \in [Keys -> Seq(Message)]
      /\ \A j \in Keys : Len(topic'[j]) = Len(topic[j])
      /\ \A j \in Keys \ {k} : topic'[j] = topic[j]
      /\ ~AllClear(k)
  BY <1>1, EditStep DEF Refresh
<1>3. \A j \in Keys : Len(topic[j]) \in Nat
  BY DEF IInv, TypeOK
<1>4. \A j \in Keys : Len(topic[j]) <= Len(topic'[j])
  BY <1>2, <1>3
<1>5. ASSUME NEW j \in Keys PROVE ~AllClear(j)
  BY <1>2 DEF AllClear
<1> QED BY <1>2, <1>4, <1>5

LEMMA ResolveStep ==
  ASSUME IInv, NEW k \in Keys, Resolve(k)
  PROVE  /\ topic' \in [Keys -> Seq(Message)]
         /\ \A j \in Keys : Len(topic[j]) <= Len(topic'[j])
         /\ \A j \in Keys \ {k} : ~AllClear(j)
<1> DEFINE n == Len(existing[k])
           m == [topic[k][n] EXCEPT !.red = FALSE]
<1>1. IsRed(existing[k])
  BY DEF Resolve, Keeps
<1>2. m \in Message
  <2>1. topic[k] \in Seq(Message) /\ existing[k] \in Seq(Message)
    BY DEF IInv, TypeOK
  <2>2. n \in 1..Len(topic[k])
    BY <1>1, <2>1 DEF IInv, Fetched, IsRed
  <2>3. topic[k][n] \in Message
    BY <2>1, <2>2
  <2> QED BY <2>3 DEF Message
<1>3. topic' = [topic EXCEPT ![k][n] = m]
  BY DEF Resolve
<1> HIDE DEF m
<1>4. /\ topic' \in [Keys -> Seq(Message)]
      /\ \A j \in Keys : Len(topic'[j]) = Len(topic[j])
      /\ \A j \in Keys \ {k} : topic'[j] = topic[j]
  BY <1>1, <1>2, <1>3, EditStep
<1>5. \A j \in Keys : Len(topic[j]) \in Nat
  BY DEF IInv, TypeOK
<1>6. \A j \in Keys : Len(topic[j]) <= Len(topic'[j])
  BY <1>4, <1>5
<1>7. ASSUME NEW j \in Keys \ {k} PROVE ~AllClear(j)
  BY <1>4 DEF AllClear
<1> QED BY <1>4, <1>6, <1>7

LEMMA DetectedStep ==
  ASSUME IInv, NEW p \in Prefixes, NEW found \in [Keys -> Bodies \cup {Quiet}],
         Detected(p, found), faults' \in 0..MaxFaults, failed' \in {failed, failed \cup {p}},
         \A k \in KeysOf(p) : found[k] = Quiet /\ p \notin Swallowing \cup failed'
                              => firing[k] = Quiet
  PROVE  IInv'
<1>1. TypeOK'
  BY DEF Detected, IInv, TypeOK
<1>2. Fetched'
  BY DEF Detected, IInv, Fetched, TypeOK
<1>3. Looked'
  <2>1. pc = "detect" /\ pc' = "detect" /\ todo' = todo \ {p} /\ firing' = firing
        /\ calm' = calm
        /\ alerts' = [k \in Keys |-> IF key_prefix[k] = p THEN found[k] ELSE alerts[k]]
    BY DEF Detected
  <2>2. ASSUME NEW k \in Keys, key_prefix[k] = p,
               key_prefix[k] \notin Swallowing \cup todo' \cup failed', alerts'[k] = Quiet
        PROVE  k \in calm
    <3>1. found[k] = Quiet /\ k \in KeysOf(p)
      BY <2>1, <2>2 DEF KeysOf
    <3>2. firing[k] = Quiet
      BY <2>2, <3>1
    <3> QED BY <2>1, <3>2 DEF IInv, Looked
  <2>3. ASSUME NEW k \in Keys, key_prefix[k] # p,
               key_prefix[k] \notin Swallowing \cup todo' \cup failed', alerts'[k] = Quiet
        PROVE  k \in calm
    <3>1. alerts[k] = Quiet /\ key_prefix[k] \notin Swallowing \cup todo \cup failed
      BY <2>1, <2>3
    <3> QED BY <2>1, <3>1 DEF IInv, Looked
  <2> QED BY <2>1, <2>2, <2>3 DEF IInv, Looked
<1> QED BY <1>1, <1>2, <1>3 DEF IInv

LEMMA DetectorStep ==
  ASSUME IInv, NEW p \in Prefixes, Detector(p)
  PROVE  IInv'
<1> DEFINE none == [k \in Keys |-> Quiet]
<1>1. firing \in [Keys -> Bodies \cup {Quiet}] /\ none \in [Keys -> Bodies \cup {Quiet}]
      /\ faults \in 0..MaxFaults
  BY DEF IInv, TypeOK
<1>2. Fault => faults' \in 0..MaxFaults
  BY <1>1, BoundsAssumption DEF Fault
<1>3. CASE Detect(p)
  BY <1>1, <1>3, DetectedStep DEF Detect
<1>4. CASE DetectorRaises(p)
  BY <1>1, <1>2, <1>4, DetectedStep DEF DetectorRaises
<1>5. CASE ItemSwallowed(p)
  <2>1. PICK skipped \in SUBSET KeysOf(p) \ {{}} :
          Detected(p, [k \in Keys |-> IF k \in skipped THEN Quiet ELSE firing[k]])
    BY <1>5 DEF ItemSwallowed
  <2> DEFINE found == [k \in Keys |-> IF k \in skipped THEN Quiet ELSE firing[k]]
  <2>2. found \in [Keys -> Bodies \cup {Quiet}]
    BY <1>1
  <2>3. p \in Swallowing /\ failed' = failed /\ faults' \in 0..MaxFaults
    BY <1>2, <1>5 DEF ItemSwallowed
  <2> HIDE DEF found
  <2> QED BY <2>1, <2>2, <2>3, DetectedStep DEF found
<1>6. CASE ItemAssumed(p)
  <2>1. PICK assumed \in SUBSET KeysOf(p) \ {{}}, b \in Bodies :
          Detected(p, [k \in Keys |-> IF k \in assumed /\ firing[k] = Quiet
                                      THEN b ELSE firing[k]])
    BY <1>6 DEF ItemAssumed
  <2> DEFINE found == [k \in Keys |-> IF k \in assumed /\ firing[k] = Quiet
                                      THEN b ELSE firing[k]]
  <2>2. found \in [Keys -> Bodies \cup {Quiet}]
    BY <1>1
  <2>3. \A k \in KeysOf(p) : found[k] = Quiet => firing[k] = Quiet
    BY PrefixAssumption DEF KeysOf
  <2>4. failed' = failed /\ faults' \in 0..MaxFaults /\ Detected(p, found)
    BY <1>2, <1>6, <2>1 DEF ItemAssumed
  <2> HIDE DEF found
  <2> QED BY <2>2, <2>3, <2>4, DetectedStep
<1> QED BY <1>3, <1>4, <1>5, <1>6 DEF Detector

LEMMA ReconcileStep ==
  ASSUME IInv, NEW k \in Keys, Reconcile(k)
  PROVE  IInv'
<1>1. topic' \in [Keys -> Seq(Message)] /\ \A j \in Keys : Len(topic[j]) <= Len(topic'[j])
  <2>1. CASE Post(k)
    BY <2>1, PostStep
  <2>2. CASE Refresh(k)
    BY <2>2, RefreshStep
  <2>3. CASE Resolve(k)
    BY <2>3, ResolveStep
  <2>4. CASE Keep(k)
    BY <2>4 DEF Keep, IInv, TypeOK
  <2> QED BY <2>1, <2>2, <2>3, <2>4 DEF Reconcile
<1>2. /\ UNCHANGED <<firing, pc, todo, alerts, failed, existing, calm, changes, faults>>
      /\ active' \subseteq active /\ stale' \subseteq stale /\ news' \subseteq news \cup {k}
  BY DEF Reconcile, Post, Refresh, Keep, Resolve
<1>3. TypeOK'
  BY <1>1, <1>2 DEF IInv, TypeOK
<1>4. Looked'
  BY <1>2 DEF IInv, Looked
<1>5. Fetched'
  <2>1. \A j \in Keys : Len(existing[j]) \in Nat /\ Len(topic[j]) \in Nat /\ Len(topic'[j]) \in Nat
    BY <1>1 DEF IInv, TypeOK
  <2>2. \A j \in Keys : Len(existing'[j]) <= Len(topic'[j])
    BY <1>1, <1>2, <2>1 DEF IInv, Fetched
  <2> QED BY <1>2, <2>2 DEF IInv, Fetched
<1> QED BY <1>3, <1>4, <1>5 DEF IInv

LEMMA EndRunStep ==
  ASSUME IInv, EndRun, faults' \in 0..MaxFaults
  PROVE  IInv'
<1>1. TypeOK'
  BY DEF EndRun, IInv, TypeOK, NoMessage
<1>2. Looked'
  BY DEF EndRun, Looked
<1>3. \A k \in Keys : existing'[k] = << >> /\ topic' = topic /\ Len(topic[k]) \in Nat
  BY DEF EndRun, NoMessage, IInv, TypeOK
<1>4. Fetched'
  BY <1>3 DEF EndRun, Fetched
<1> QED BY <1>1, <1>2, <1>4 DEF IInv

LEMMA IInvStep == IInv /\ [Next]_vars => IInv'
<1> SUFFICES ASSUME IInv, [Next]_vars PROVE IInv'
  OBVIOUS
<1>1. ASSUME NEW k \in Keys, NEW b \in Bodies \cup {Quiet}, Change(k, b) PROVE IInv'
  <2>1. TypeOK'
    BY <1>1, BoundsAssumption DEF Change, run, IInv, TypeOK
  <2>2. Looked'
    BY <1>1 DEF Change, run, IInv, TypeOK, Looked
  <2>3. Fetched'
    BY <1>1 DEF Change, run, IInv, Fetched
  <2> QED BY <2>1, <2>2, <2>3 DEF IInv
<1>2. CASE StartRun
  <2>1. TypeOK'
    BY <1>2 DEF StartRun, IInv, TypeOK
  <2>2. Looked'
    BY <1>2, PrefixAssumption DEF StartRun, Looked
  <2>3. Fetched'
    BY <1>2 DEF StartRun, IInv, Fetched
  <2> QED BY <2>1, <2>2, <2>3 DEF IInv
<1>3. CASE Collected
  <2>1. TypeOK' /\ Fetched'
    BY <1>3 DEF Collected, run, IInv, TypeOK, Fetched
  <2>2. Looked'
    BY <1>3 DEF Collected, run, IInv, Looked
  <2> QED BY <2>1, <2>2 DEF IInv
<1>4. CASE Fetch
  <2>1. TypeOK'
    BY <1>4 DEF Fetch, IInv, TypeOK
  <2>2. Looked'
    BY <1>4 DEF Fetch, IInv, Looked
  <2>3. \A k \in Keys : Len(topic[k]) \in Nat
    BY DEF IInv, TypeOK
  <2>4. Fetched'
    BY <1>4, <2>3 DEF Fetch, IInv, Fetched
  <2> QED BY <2>1, <2>2, <2>4 DEF IInv
<1>5. CASE Shown
  <2>1. TypeOK' /\ Fetched'
    BY <1>5 DEF Shown, run, IInv, TypeOK, Fetched
  <2>2. Looked'
    BY <1>5 DEF Shown, run, IInv, Looked
  <2> QED BY <2>1, <2>2 DEF IInv
<1>6. CASE Finish
  BY <1>6, EndRunStep DEF Finish, IInv, TypeOK
<1>7. CASE Die
  <2>1. faults' \in 0..MaxFaults
    BY <1>7, BoundsAssumption DEF Die, Fault, IInv, TypeOK
  <2> QED BY <1>7, <2>1, EndRunStep DEF Die
<1>8. CASE UNCHANGED vars
  <2>1. TypeOK' /\ Fetched'
    BY <1>8 DEF vars, run, IInv, TypeOK, Fetched
  <2>2. Looked'
    BY <1>8 DEF vars, run, IInv, Looked
  <2> QED BY <2>1, <2>2 DEF IInv
<1> QED BY <1>1, <1>2, <1>3, <1>4, <1>5, <1>6, <1>7, <1>8, DetectorStep, ReconcileStep
        DEF Next, Run

\* For any alerts and detectors, and whatever fails: all variables keep their types.
THEOREM AlertTypes == Spec => []TypeOK
<1>1. IInv => TypeOK
  BY DEF IInv
<1> QED BY <1>1, IInvInit, IInvStep, PTL DEF Spec

LEMMA AllClearIsResolve ==
  ASSUME IInv, [Next]_vars, NEW k \in Keys, AllClear(k)
  PROVE  Resolve(k)
<1>1. topic' # topic
  BY DEF AllClear
<1>2. PICK j \in Keys : Reconcile(j)
  BY <1>1 DEF Next, Run, Change, StartRun, Detector, Detect, DetectorRaises, ItemSwallowed,
              ItemAssumed, Detected, Collected, Fetch, Shown, Finish, Die, EndRun, vars
<1>3. ~Post(j) /\ ~Refresh(j)
  BY PostStep, RefreshStep
<1>4. Resolve(j)
  BY <1>1, <1>2, <1>3 DEF Reconcile, Keep
<1> QED BY <1>4, ResolveStep

\* For any alerts and detectors, and whatever fails: no emergency that was on
\* all through a run is declared over by it.
THEOREM NoFalseAllClear == Spec => FailsClosed
<1>1. ASSUME IInv, [Next]_vars, NEW k \in Keys, AllClear(k), key_prefix[k] \notin Swallowing
      PROVE  k \in calm
  <2>1. pc = "clear" /\ alerts[k] = Quiet /\ key_prefix[k] \notin failed
    BY <1>1, AllClearIsResolve DEF Resolve, Keeps
  <2> QED BY <1>1, <2>1 DEF IInv, Looked, Fetched
<1>2. IInv /\ [Next]_vars
        => [\A k \in Keys : AllClear(k) /\ key_prefix[k] \notin Swallowing => k \in calm]_vars
  BY <1>1
<1> QED BY <1>2, IInvInit, IInvStep, PTL DEF Spec, FailsClosed

-------------------------------------------------------------------------------
(* What stands in the topic, and what a second message is for.             *)

\* Nobody but the run writes to the topic, and it has not yet come to k: what
\* it fetched is what the topic holds.
Untouched(k) ==
    /\ pc = "show" /\ (k \in active \/ alerts[k] = Quiet) => existing[k] = topic[k]
    /\ pc = "clear" /\ k \in stale /\ alerts[k] = Quiet => existing[k] = topic[k]

\* Only the newest message about an emergency can stand.
OneStanding(k) == \A i \in 1..Len(topic[k]) : topic[k][i].red => i = Len(topic[k])

BoardInv == \A k \in Keys : Untouched(k) /\ OneStanding(k)

\* What is off, or was off in this run that will not report it, may be posted
\* again; what may not be has a message that stands.
Announced(k) ==
    /\ firing[k] = Quiet => k \in news
    /\ k \in calm /\ (pc = "detect" \/ alerts[k] = Quiet) => k \in news
    /\ key_prefix[k] \notin Swallowing /\ k \notin news => IsRed(topic[k])

-------------------------------------------------------------------------------
(* What the messages about one key become.                                 *)

LEMMA Lengths ==
  ASSUME IInv, NEW k \in Keys
  PROVE  topic[k] \in Seq(Message) /\ existing[k] \in Seq(Message) /\ Len(topic[k]) \in Nat
BY DEF IInv, TypeOK

LEMMA PostedRed ==
  ASSUME IInv, NEW k \in Keys, Post(k), Untouched(k), OneStanding(k)
  PROVE  /\ Standing(topic[k]) = {}
         /\ Standing(topic'[k]) = {Len(topic'[k])}
         /\ IsRed(topic'[k])
         /\ \A j \in Keys \ {k} : topic'[j] = topic[j]
<1> DEFINE m == [red |-> TRUE, body |-> alerts[k]]
           s == topic[k]
           n == Len(s)
<1>1. m \in Message /\ m.red
  BY DEF Post, IInv, TypeOK, Fetched, Message
<1>2. s \in Seq(Message) /\ topic \in [Keys -> Seq(Message)] /\ n \in Nat
  BY DEF IInv, TypeOK
<1>3. topic'[k] = Append(s, m) /\ \A j \in Keys \ {k} : topic'[j] = topic[j]
  BY <1>2 DEF Post
<1>4. ~IsRed(s)
  BY DEF Post, Untouched
<1>5. \A i \in 1..n : ~s[i].red
  <2> SUFFICES ASSUME NEW i \in 1..n, s[i].red PROVE FALSE
    OBVIOUS
  <2>1. i = n
    BY DEF OneStanding
  <2>2. s # << >>
    BY <1>2, <2>1
  <2> QED BY <1>4, <2>1, <2>2 DEF IsRed, Newest
<1> HIDE DEF m, s
<1>6. /\ Len(Append(s, m)) = n + 1 /\ Append(s, m)[n + 1] = m
      /\ \A i \in 1..n : Append(s, m)[i] = s[i]
  BY <1>1, <1>2
<1>7. \A i \in 1..(n + 1) : i \in 1..n \/ i = n + 1
  BY <1>2
<1>8. Standing(Append(s, m)) = {n + 1}
  BY <1>1, <1>2, <1>5, <1>6, <1>7 DEF Standing
<1>9. IsRed(Append(s, m))
  BY <1>1, <1>2, <1>6 DEF IsRed, Newest
<1>10. Standing(s) = {}
  BY <1>5 DEF Standing
<1> QED BY <1>3, <1>6, <1>8, <1>9, <1>10 DEF s

LEMMA RefreshedRed ==
  ASSUME IInv, NEW k \in Keys, Refresh(k), Untouched(k), OneStanding(k)
  PROVE  /\ Standing(topic'[k]) = Standing(topic[k])
         /\ OneStanding(k)'
         /\ IsRed(topic'[k])
         /\ \A j \in Keys \ {k} : topic'[j] = topic[j]
<1> DEFINE m == [red |-> TRUE, body |-> alerts[k]]
           s == topic[k]
           n == Len(s)
           t == [s EXCEPT ![n] = m]
<1>1. m \in Message /\ m.red
  BY DEF Refresh, IInv, TypeOK, Fetched, Message
<1>2. s \in Seq(Message) /\ topic \in [Keys -> Seq(Message)] /\ n \in Nat
  BY DEF IInv, TypeOK
<1>3. existing[k] = s /\ IsRed(s)
  BY DEF Refresh, Untouched
<1>4. n \in 1..n
  BY <1>2, <1>3 DEF IsRed
<1>5. topic' = [topic EXCEPT ![k] = t]
  BY <1>3 DEF Refresh
<1>6. topic'[k] = t /\ \A j \in Keys \ {k} : topic'[j] = topic[j]
  BY <1>2, <1>5
<1>7. s[n].red /\ \A i \in 1..n : s[i].red => i = n
  BY <1>3 DEF IsRed, Newest, OneStanding
<1> HIDE DEF m, s, t
<1>8. Len(t) = n /\ t[n] = m /\ \A i \in 1..n : i # n => t[i] = s[i]
  BY <1>1, <1>2, <1>4 DEF t
<1>9. \A i \in 1..n : t[i].red <=> s[i].red
  BY <1>1, <1>7, <1>8
<1>10. Standing(t) = Standing(s) /\ \A i \in 1..Len(t) : t[i].red => i = Len(t)
  BY <1>7, <1>8, <1>9 DEF Standing
<1>11. IsRed(t)
  BY <1>1, <1>2, <1>4, <1>8 DEF IsRed, Newest
<1> QED BY <1>6, <1>10, <1>11 DEF OneStanding, s

LEMMA ResolvedQuiet ==
  ASSUME IInv, NEW k \in Keys, Resolve(k), Untouched(k), OneStanding(k)
  PROVE  /\ Standing(topic'[k]) = {}
         /\ OneStanding(k)'
         /\ \A j \in Keys \ {k} : topic'[j] = topic[j]
<1> DEFINE s == topic[k]
           n == Len(s)
           m == [s[n] EXCEPT !.red = FALSE]
           t == [s EXCEPT ![n] = m]
<1>1. s \in Seq(Message) /\ topic \in [Keys -> Seq(Message)] /\ n \in Nat
  BY DEF IInv, TypeOK
<1>2. existing[k] = s /\ IsRed(s)
  BY DEF Resolve, Keeps, Untouched
<1>3. n \in 1..n
  BY <1>1, <1>2 DEF IsRed
<1>4. s[n] \in Message
  BY <1>1, <1>3
<1>5. m \in Message /\ ~m.red
  BY <1>4 DEF Message
<1>6. topic' = [topic EXCEPT ![k] = t]
  BY <1>2 DEF Resolve
<1>7. topic'[k] = t /\ \A j \in Keys \ {k} : topic'[j] = topic[j]
  BY <1>1, <1>6
<1>8. \A i \in 1..n : s[i].red => i = n
  BY DEF OneStanding
<1> HIDE DEF m, s, t
<1>9. Len(t) = n /\ t[n] = m /\ \A i \in 1..n : i # n => t[i] = s[i]
  BY <1>1, <1>3, <1>5 DEF t
<1>10. \A i \in 1..Len(t) : ~t[i].red
  BY <1>5, <1>8, <1>9
<1> QED BY <1>7, <1>10 DEF Standing, OneStanding

-------------------------------------------------------------------------------
(* The invariant.                                                          *)

\* Steps that leave the topic alone and what the run knows of it.
LEMMA Aside ==
  ASSUME BoardInv, UNCHANGED <<topic, pc, alerts, existing>>,
         active' \subseteq active, stale' \subseteq stale
  PROVE  BoardInv'
BY DEF BoardInv, Untouched, OneStanding

\* Steps outside the two loops.
LEMMA Outside ==
  ASSUME BoardInv, UNCHANGED topic, pc' \notin {"show", "clear"}
  PROVE  BoardInv'
BY DEF BoardInv, Untouched, OneStanding

LEMMA ReconcileKeepsBoard ==
  ASSUME IInv, BoardInv, NEW k \in Keys, Reconcile(k)
  PROVE  BoardInv'
<1> USE DEF BoardInv
<1>1. UNCHANGED <<pc, alerts, existing>> /\ active' \subseteq active /\ stale' \subseteq stale
  BY DEF Reconcile, Post, Refresh, Keep, Resolve
<1>2. CASE Keep(k)
  BY <1>1, <1>2, Aside DEF Keep
<1>3. ASSUME NEW j \in Keys, j # k, ~Keep(k) PROVE Untouched(j)' /\ OneStanding(j)'
  <2>1. topic'[j] = topic[j]
    BY <1>3, PostedRed, RefreshedRed, ResolvedQuiet DEF Reconcile
  <2> QED BY <1>1, <2>1 DEF Untouched, OneStanding
<1>4. ASSUME ~Keep(k) PROVE Untouched(k)'
  <2>1. CASE Post(k) \/ Refresh(k)
    BY <1>1, <2>1 DEF Untouched, Post, Refresh, IInv, Fetched
  <2>2. CASE Resolve(k)
    BY <1>1, <2>2 DEF Untouched, Resolve
  <2> QED BY <1>4, <2>1, <2>2 DEF Reconcile
<1>5. ASSUME ~Keep(k) PROVE OneStanding(k)'
  <2>1. CASE Post(k)
    BY <2>1, PostedRed DEF Standing, OneStanding
  <2>2. CASE Refresh(k)
    BY <2>2, RefreshedRed
  <2>3. CASE Resolve(k)
    BY <2>3, ResolvedQuiet
  <2> QED BY <1>5, <2>1, <2>2, <2>3 DEF Reconcile
<1> QED BY <1>2, <1>3, <1>4, <1>5

\* Before there is a message none stands.
LEMMA BlankTopic ==
  ASSUME Init, NEW k \in Keys
  PROVE  Standing(topic[k]) = {} /\ OneStanding(k)
<1>1. topic[k] = << >>
  BY DEF Init, NoMessage
<1>2. Len(<< >>) = 0 /\ 1..0 = {}
  OBVIOUS
<1>3. 1..Len(topic[k]) = {}
  BY <1>1, <1>2
<1> QED BY <1>3 DEF Standing, OneStanding

LEMMA BoardInvInit == Init => BoardInv
<1> SUFFICES ASSUME Init PROVE BoardInv
  OBVIOUS
<1> QED BY BlankTopic DEF Init, BoardInv, Untouched

LEMMA BoardInvStep == IInv /\ BoardInv /\ [Next]_vars => BoardInv'
<1> SUFFICES ASSUME IInv, BoardInv, [Next]_vars PROVE BoardInv'
  OBVIOUS
<1>1. ASSUME NEW k \in Keys, NEW b \in Bodies \cup {Quiet}, Change(k, b) PROVE BoardInv'
  BY <1>1, Aside DEF Change, run
<1>2. CASE StartRun
  BY <1>2, Outside DEF StartRun
<1>3. ASSUME NEW p \in Prefixes, Detector(p) PROVE BoardInv'
  <2>1. UNCHANGED topic /\ pc' = "detect"
    BY <1>3 DEF Detector, Detect, DetectorRaises, ItemSwallowed, ItemAssumed, Detected
  <2> QED BY <2>1, Outside
<1>4. CASE Collected
  BY <1>4, Outside DEF Collected, run
<1>5. CASE Fetch
  BY <1>5 DEF Fetch, BoardInv, Untouched, OneStanding
<1>6. CASE Shown
  <2>1. \A k \in Keys : alerts[k] = Quiet => existing[k] = topic[k]
    BY <1>6 DEF Shown, BoardInv, Untouched
  <2> QED BY <1>6, <2>1 DEF Shown, run, BoardInv, Untouched, OneStanding
<1>7. CASE Finish \/ Die
  BY <1>7, Outside DEF Finish, Die, EndRun
<1>8. CASE UNCHANGED vars
  BY <1>8, Aside DEF vars, run
<1> QED BY <1>1, <1>2, <1>3, <1>4, <1>5, <1>6, <1>7, <1>8, ReconcileKeepsBoard DEF Next, Run

-------------------------------------------------------------------------------
(* StuckAlerts implements AlertBoard.                                      *)

\* What the topic shows, as AlertBoard has it.
LEMMA ShownAs ==
  ASSUME IInv, NEW k \in Keys, NEW S,
         Standing(topic'[k]) = S, \A j \in Keys \ {k} : topic'[j] = topic[j]
  PROVE  [j \in Keys |-> Standing(topic[j])]'
            = [[j \in Keys |-> Standing(topic[j])] EXCEPT ![k] = S]
OBVIOUS

LEMMA StepsAreBoardSteps ==
  ASSUME IInv, IInv', BoardInv, [Next]_vars
  PROVE  [Board!AbsNext]_(Board!abs)
<1> DEFINE on == {k \in Keys : firing[k] # Quiet}
           board == [k \in Keys |-> Standing(topic[k])]
<1> USE DEF Board!AbsNext, Board!abs
<1>1. ASSUME NEW k \in Keys, NEW b \in Bodies \cup {Quiet}, Change(k, b)
      PROVE  [Board!AbsNext]_(Board!abs)
  <2>1. firing \in [Keys -> Bodies \cup {Quiet}] /\ topic' = topic
        /\ firing' = [firing EXCEPT ![k] = b]
        /\ calm' = IF b = Quiet THEN calm \cup {k} ELSE calm
    BY <1>1 DEF Change, IInv, TypeOK
  <2>2. CASE b = Quiet
    <3>1. on' = on \ {k}
      BY <2>1, <2>2
    <3> QED BY <2>1, <2>2, <3>1 DEF Board!Ends
  <2>3. CASE b # Quiet
    <3>1. on' = on \cup {k}
      BY <2>1, <2>3
    <3> QED BY <2>1, <2>3, <3>1 DEF Board!Begins
  <2> QED BY <2>2, <2>3
<1>2. CASE StartRun
  <2>1. on' = on /\ board' = board /\ calm' = Keys \ on
    BY <1>2 DEF StartRun
  <2> QED BY <2>1 DEF Board!Look
<1>3. CASE Finish \/ Die
  <2>1. on' = on /\ board' = board /\ calm' = {}
    BY <1>3 DEF Finish, Die, EndRun
  <2> QED BY <2>1 DEF Board!LookAway
<1>4. ASSUME UNCHANGED <<firing, topic, calm>> PROVE [Board!AbsNext]_(Board!abs)
  BY <1>4
<1>5. ASSUME NEW p \in Prefixes, Detector(p) PROVE UNCHANGED <<firing, topic, calm>>
  BY <1>5 DEF Detector, Detect, DetectorRaises, ItemSwallowed, ItemAssumed, Detected
<1>6. CASE Collected \/ Fetch \/ Shown \/ UNCHANGED vars
  BY <1>4, <1>6 DEF Collected, Fetch, Shown, vars
<1>7. ASSUME NEW k \in Keys, Reconcile(k) PROVE [Board!AbsNext]_(Board!abs)
  <2>1. on' = on /\ calm' = calm
    BY <1>7 DEF Reconcile, Post, Refresh, Keep, Resolve
  <2>2. Untouched(k) /\ OneStanding(k) /\ board[k] = Standing(topic[k])
    BY DEF BoardInv
  <2>3. CASE Post(k)
    <3> DEFINE n == Len(topic'[k])
    <3>1. board[k] = {} /\ board' = [board EXCEPT ![k] = {n}]
      BY <2>2, <2>3, PostedRed, ShownAs
    <3>2. n \in board'[k]
      BY <3>1
    <3> HIDE DEF n
    <3>3. Board!PutUp(k)
      BY <2>1, <3>1, <3>2 DEF Board!PutUp
    <3> QED BY <3>3
  <2>4. CASE Refresh(k)
    <3>1. board' = board
      BY <2>2, <2>4, RefreshedRed
    <3> QED BY <2>1, <3>1
  <2>5. CASE Keep(k)
    BY <1>4, <2>5 DEF Keep
  <2>6. CASE Resolve(k)
    <3>1. board' = [board EXCEPT ![k] = {}]
      BY <2>2, <2>6, ResolvedQuiet, ShownAs
    <3>2. k \in calm \cup {j \in Keys : key_prefix[j] \in Swallowing}
      BY <2>6 DEF Resolve, Keeps, IInv, Looked, Fetched
    <3>3. Board!TakeDown(k)
      BY <2>1, <3>1, <3>2 DEF Board!TakeDown
    <3> QED BY <3>3
  <2> QED BY <1>7, <2>3, <2>4, <2>5, <2>6 DEF Reconcile
<1> QED BY <1>1, <1>2, <1>3, <1>4, <1>5, <1>6, <1>7 DEF Next, Run

\* For any alerts and detectors, and whatever fails: the topic changes only as
\* AlertBoard allows, with one notice at most about each emergency, taken down
\* only by a run that could see it over.
THEOREM WatchdogImplementsBoard == Spec => ImplementsBoard
<1>1. Init => Board!AbsInit
  <2> SUFFICES ASSUME Init PROVE Board!AbsInit
    OBVIOUS
  <2> QED BY BlankTopic DEF Init, Board!AbsInit
<1>2. IInv /\ IInv' /\ BoardInv /\ [Next]_vars => [Board!AbsNext]_(Board!abs)
  BY StepsAreBoardSteps
<1> QED
  BY <1>1, <1>2, IInvInit, IInvStep, BoardInvInit, BoardInvStep, PTL
  DEF Spec, ImplementsBoard, Board!BoardSpec

-------------------------------------------------------------------------------
(* An emergency is announced once.                                         *)

AnnouncedInv == \A k \in Keys : Announced(k)

\* Steps that take nobody's right to be posted away, and no message.
LEMMA NothingTaken ==
  ASSUME AnnouncedInv, UNCHANGED <<firing, topic, news>>,
         \/ calm' = {}
         \/ calm' = calm /\ (pc' = "detect" => pc = "detect")
              /\ (alerts' = alerts \/ pc = "detect")
         \/ calm' = {k \in Keys : firing[k] = Quiet}
  PROVE  AnnouncedInv'
BY DEF AnnouncedInv, Announced

LEMMA ReconcileAnnounces ==
  ASSUME IInv, BoardInv, AnnouncedInv, NEW k \in Keys, Reconcile(k)
  PROVE  AnnouncedInv'
<1>1. UNCHANGED <<firing, pc, alerts, calm>> /\ pc \in {"show", "clear"}
  BY DEF Reconcile, Post, Refresh, Keep, Resolve
<1>2. CASE Keep(k)
  BY <1>2, NothingTaken DEF Keep
<1>3. Untouched(k) /\ OneStanding(k) /\ Announced(k)
  BY DEF BoardInv, AnnouncedInv
<1>4. ASSUME ~Keep(k) PROVE \A j \in Keys \ {k} : topic'[j] = topic[j]
  BY <1>3, <1>4, PostedRed, RefreshedRed, ResolvedQuiet DEF Reconcile
<1>5. \A j \in Keys \ {k} : j \in news' <=> j \in news
  BY DEF Reconcile, Post, Refresh, Keep, Resolve
<1>6. ASSUME ~Keep(k), NEW j \in Keys \ {k} PROVE Announced(j)'
  BY <1>1, <1>4, <1>5, <1>6 DEF AnnouncedInv, Announced
<1>7. ASSUME Post(k) PROVE Announced(k)'
  BY <1>1, <1>3, <1>7, PostedRed DEF Announced, Post, IInv, Fetched
<1>8. ASSUME Refresh(k) PROVE Announced(k)'
  BY <1>1, <1>3, <1>8, RefreshedRed DEF Announced, Refresh
<1>9. ASSUME Resolve(k) PROVE Announced(k)'
  <2>1. key_prefix[k] \notin Swallowing => k \in news
    BY <1>3, <1>9 DEF Resolve, Keeps, IInv, Looked, Fetched, Announced
  <2> QED BY <1>1, <1>3, <1>9, <2>1, ResolvedQuiet DEF Announced, Resolve
<1> QED BY <1>2, <1>6, <1>7, <1>8, <1>9 DEF AnnouncedInv, Reconcile

LEMMA AnnouncedStep == IInv /\ BoardInv /\ AnnouncedInv /\ [Next]_vars => AnnouncedInv'
<1> SUFFICES ASSUME IInv, BoardInv, AnnouncedInv, [Next]_vars PROVE AnnouncedInv'
  OBVIOUS
<1>1. ASSUME NEW k \in Keys, NEW b \in Bodies \cup {Quiet}, Change(k, b)
      PROVE  AnnouncedInv'
  BY <1>1 DEF Change, run, IInv, TypeOK, AnnouncedInv, Announced
<1>2. CASE StartRun
  BY <1>2, NothingTaken DEF StartRun
<1>3. ASSUME NEW p \in Prefixes, Detector(p) PROVE AnnouncedInv'
  <2>1. UNCHANGED <<firing, topic, news, calm, pc>> /\ pc = "detect"
    BY <1>3 DEF Detector, Detect, DetectorRaises, ItemSwallowed, ItemAssumed, Detected
  <2> QED BY <2>1, NothingTaken
<1>4. CASE Collected \/ Fetch \/ Shown \/ UNCHANGED vars
  BY <1>4, NothingTaken DEF Collected, Fetch, Shown, vars, run
<1>5. CASE Finish \/ Die
  BY <1>5, NothingTaken DEF Finish, Die, EndRun
<1> QED BY <1>1, <1>2, <1>3, <1>4, <1>5, ReconcileAnnounces DEF Next, Run

\* For any alerts and detectors, and whatever fails: a second message about an
\* emergency is posted only if it was over in between.
THEOREM AnnouncedOnce == Spec => OneNoticePerEmergency
<1>1. Init => AnnouncedInv
  BY DEF Init, AnnouncedInv, Announced
<1>2. ASSUME IInv, BoardInv, AnnouncedInv, [Next]_vars, NEW k \in Keys,
             topic'[k] # topic[k], Len(topic'[k]) > Len(topic[k]),
             key_prefix[k] \notin Swallowing
      PROVE  k \in news
  <2>1. PICK j \in Keys : Reconcile(j)
    BY <1>2 DEF Next, Run, Change, StartRun, Detector, Detect, DetectorRaises,
                ItemSwallowed, ItemAssumed, Detected, Collected, Fetch, Shown, Finish,
                Die, EndRun, vars
  <2>2. Untouched(j) /\ OneStanding(j)
    BY <1>2 DEF BoardInv
  <2>3. j = k
    BY <1>2, <2>1, <2>2, PostedRed, RefreshedRed, ResolvedQuiet DEF Reconcile, Keep
  <2>4. ASSUME ~Post(k) PROVE FALSE
    <3> DEFINE n == Len(existing[k])
    <3>1. PICK m : topic' = [topic EXCEPT ![k][n] = m]
      BY <1>2, <2>1, <2>3, <2>4 DEF Reconcile, Refresh, Keep, Resolve
    <3>2. topic \in [Keys -> Seq(Message)] /\ topic[k] \in Seq(Message)
      BY <1>2 DEF IInv, TypeOK
    <3>3. topic'[k] = [topic[k] EXCEPT ![n] = m]
      BY <3>1, <3>2
    <3>4. Len(topic'[k]) = Len(topic[k]) /\ Len(topic[k]) \in Nat
      BY <3>2, <3>3
    <3> QED BY <1>2, <3>4
  <2>5. ~IsRed(topic[k])
    BY <2>2, <2>3, <2>4 DEF Post, Untouched
  <2> QED BY <1>2, <2>5 DEF AnnouncedInv, Announced
<1>3. IInv /\ BoardInv /\ AnnouncedInv /\ [Next]_vars
        => [\A k \in Keys : topic'[k] # topic[k] /\ Len(topic'[k]) > Len(topic[k])
                              /\ key_prefix[k] \notin Swallowing => k \in news]_vars
  BY <1>2
<1> QED
  BY <1>1, <1>3, IInvInit, IInvStep, BoardInvInit, BoardInvStep, AnnouncedStep, PTL
  DEF Spec, OneNoticePerEmergency

-------------------------------------------------------------------------------
(* The detectors                                                           *)

\* Nothing is dated in the future.
Dated ==
    /\ \A h \in Heads : status[h].at <= now
    /\ \A i \in DOMAIN label : label[i].at <= now
    /\ \A i \in DOMAIN evicted : evicted[i] <= now
    /\ watch.bump # Never => watch.bump <= now

\* A commit that has not been a head has neither runs nor a status.
Unborn ==
    /\ pr.head <= pr.tip
    /\ \A h \in Heads : pr.head < h =>
          status[h].state = "none" /\ reported[h] = "none" /\ runs[h] = <<>>

\* The newer of the label and the status is what made the pull request ready.
ReadySince ==
    IF Ready
    THEN /\ status[pr.head].at <= ready /\ ready_label_applied_at <= ready
         /\ ready \in {status[pr.head].at, ready_label_applied_at}
    ELSE ready = Never

\* The evictions of the label's cycle are the last ones, and the others are no
\* younger than the cycle.
LastOnes(all, cycle, labels) ==
    LET d == Len(all) - Len(cycle) IN
    /\ 0 <= d
    /\ \A i \in 1..Len(cycle) : cycle[i] = all[i + d]
    /\ \A i \in 1..d : labels # <<>> /\ all[i] <= Last(labels).at

Bounced == LastOnes(evicted, ghost.bounces, label)

NewestRun(i, S) == i \in S /\ \A k \in S : i <= k

\* Where there is no status, the newest verdict is the one whose report was lost.
Traced(rs, state, lost) ==
    /\ \A i \in DOMAIN rs : ~rs[i].completed => rs[i].conclusion = "none"
    /\ state = "none" =>
          IF lost = Never THEN Verdicts(rs) = {}
          ELSE \E i \in DOMAIN rs : NewestRun(i, Verdicts(rs)) /\ rs[i].at = lost

\* What has been posted stays posted.
Reported(h) ==
    /\ reported[h] # "none" => status[h].state # "none"
    /\ Traced(runs[h], status[h].state, ghost.lost[h])

AllReported == \A h \in Heads : Reported(h)

\* No run of main that is newer than one that goes on has a verdict.
MainInOrder ==
    \A i \in DOMAIN ci : ci[i].going =>
        /\ ci[i].conclusion = "none"
        /\ \A k \in 1..(i - 1) : ci[k].conclusion \in {"none", "cancelled"}

RedRun(i) ==
    ci[i].conclusion = "failure" /\ \A k \in 1..(i - 1) : ci[k].conclusion # "success"

RedHasARun == ghost.red => \E i \in DOMAIN ci : RedRun(i)

\* A bump was opened before it failed.
WedgeIsYounger ==
    ghost.wedged # Never => watch.bump # Never /\ watch.bump <= ghost.wedged

CronFired ==
    /\ ghost.fired <= now
    /\ \A i \in Scheduled : watch.cron[i].at <= ghost.fired

-------------------------------------------------------------------------------
(* Who changes what                                                        *)

PrStep ==
    \/ Push \/ MoveBranch \/ Edit \/ BuildStarts \/ GuardReports \/ Evict
    \/ \E h \in Heads :
          \/ \E state \in {"success", "failure"} : BuildReports(h, state)
          \/ \E c \in Conclusions \ {"none"} : BuildConcludes(h, c)
    \/ \E event \in {"labeled", "unlabeled"} : Label(event)

MainStep ==
    \/ MainPush \/ MainRunsAgain
    \/ \E c \in Conclusions \ {"none"} : MainConcludes(c)

WatchStep ==
    \/ PushBump \/ Issues \/ CronFires \/ OtherRun \/ Switch
    \/ \E state \in {"success", "failure"} : BumpBuilds(state)
    \/ \E merged \in BOOLEAN : EndBump(merged)

LEMMA Steps == Happens <=> PrStep \/ MainStep \/ WatchStep \/ Tick
BY DEF Happens, PrStep, MainStep, WatchStep

LEMMA PrFrame == PrStep => UNCHANGED <<now, scene, ci, watch>>
BY DEF PrStep, Push, MoveBranch, Edit, BuildStarts, GuardReports, Evict, BuildReports,
       BuildConcludes, Label, PrEvent, Event

LEMMA MainFrame == MainStep => UNCHANGED <<now, scene, prWorld, watch>>
BY DEF MainStep, MainPush, MainRunsAgain, MainConcludes, MainEvent, Event

LEMMA WatchFrame == WatchStep => UNCHANGED <<now, scene, prWorld, ci>>
BY DEF WatchStep, PushBump, Issues, CronFires, OtherRun, Switch, BumpBuilds, EndBump,
       WatchEvent, Event
-------------------------------------------------------------------------------
(* Types                                                                   *)

Runs == [completed : BOOLEAN, conclusion : Conclusions, at : Times]
Statuses == [state : {"none", "success", "failure"}, at : Times]
LabelEvents == [event : {"labeled", "unlabeled"}, at : Times]
MainRuns == [going : BOOLEAN, conclusion : Conclusions]
CronRuns == [event : {"schedule", "push"}, at : Times]
Watches ==
    [bump : Times \cup {Never}, build : {"none", "success", "failure"},
     built : Times, pin : Times, fkb : Times \cup {Never}, flagged : BOOLEAN,
     finished : BOOLEAN, active : BOOLEAN, cron : Seq(CronRuns)]
Ghosts ==
    [lost : [Heads -> Times \cup {Never}], bounces : Seq(Times), red : BOOLEAN,
     wedged : Times \cup {Never}, fired : Times]

PrTypes ==
    /\ pr \in PullRequests
    /\ status \in [Heads -> Statuses]
    /\ runs \in [Heads -> Seq(Runs)]
    /\ reported \in [Heads -> {"none", "success", "failure"}]
    /\ label \in Seq(LabelEvents)
    /\ evicted \in Seq(Times)

TypeParts ==
    /\ now \in Times /\ events \in 0..MaxEvents /\ scene \in Scenes
    /\ PrTypes
    /\ ci \in Seq(MainRuns)
    /\ watch \in Watches
    /\ ready \in Times \cup {Never}
    /\ ghost \in Ghosts

LEMMA Typed == (WorldTypeOK <=> TypeParts) /\ (WorldTypeOK' <=> TypeParts')
<1> USE DEF WorldTypeOK, TypeParts, PrTypes, Runs, Statuses, LabelEvents, MainRuns,
            CronRuns, Watches, Ghosts
<1>1. WorldTypeOK <=> TypeParts
  OBVIOUS
<1>2. WorldTypeOK' <=> TypeParts'
  OBVIOUS
<1> QED BY <1>1, <1>2

\* Sequences that grow at the front
LEMMA Prepended ==
  ASSUME NEW S, NEW s \in Seq(S), NEW e \in S
  PROVE  /\ <<e>> \o s \in Seq(S)
         /\ Len(<<e>> \o s) = Len(s) + 1
         /\ DOMAIN (<<e>> \o s) = 1..(Len(s) + 1)
         /\ (<<e>> \o s)[1] = e
         /\ \A i \in 1..Len(s) : (<<e>> \o s)[i + 1] = s[i]
<1>1. <<e>> \in Seq(S) /\ Len(<<e>>) = 1 /\ <<e>>[1] = e
  OBVIOUS
<1>2. Len(s) \in Nat
  BY LenProperties
<1>3. /\ <<e>> \o s \in Seq(S)
      /\ Len(<<e>> \o s) = 1 + Len(s)
      /\ \A i \in 1..(1 + Len(s)) :
            (<<e>> \o s)[i] = IF i <= 1 THEN <<e>>[i] ELSE s[i - 1]
  BY <1>1, ConcatProperties
<1> HIDE <1>1
<1> DEFINE t == <<e>> \o s
<1> HIDE DEF t
<1>4. t \in Seq(S) /\ Len(t) = Len(s) + 1 /\ t[1] = e
  BY <1>1, <1>2, <1>3 DEF t
<1>5. ASSUME NEW i \in 1..Len(s) PROVE t[i + 1] = s[i]
  <2>1. i + 1 \in 1..(1 + Len(s)) /\ ~(i + 1 <= 1) /\ (i + 1) - 1 = i
    BY <1>2
  <2> QED BY <1>3, <2>1 DEF t
<1>6. DOMAIN t = 1..(Len(s) + 1)
  BY <1>4, LenProperties
<1> QED BY <1>4, <1>5, <1>6 DEF t

LEMMA Numbers ==
  /\ Times \subseteq Nat /\ Heads \subseteq Nat /\ 1 \in Heads
  /\ (\A t \in Times : t \in Nat) /\ (\A h \in Heads : h \in Nat)
  /\ 0 \in Times
  /\ Never \notin Times
  /\ STRANDED_HOURS \in Nat /\ EVICTION_WINDOW_HOURS \in Nat
  /\ MISSING_STATUS_HOURS \in Nat /\ BUMP_STUCK_HOURS \in Nat
  /\ PIN_STALE_HOURS \in Nat /\ FKB_STALE_HOURS \in Nat /\ SCHEDULER_HOURS \in Nat
  /\ 0 < MISSING_STATUS_HOURS
  /\ EVICTION_LOOP_MIN \in Nat /\ MAIN_CI_WINDOW \in Nat /\ 0 < MAIN_CI_WINDOW
BY ThresholdsAssumption, WorldAssumption DEF Thresholds, Times, Heads

LEMMA Replaced ==
  ASSUME NEW S, NEW s \in Seq(S), NEW i \in DOMAIN s, NEW e \in S
  PROVE  /\ [s EXCEPT ![i] = e] \in Seq(S)
         /\ DOMAIN [s EXCEPT ![i] = e] = DOMAIN s
         /\ Len([s EXCEPT ![i] = e]) = Len(s)
<1>1. DOMAIN s = 1..Len(s)
  OBVIOUS
<1>2. i \in 1..Len(s)
  BY <1>1
<1> QED BY <1>2, ExceptSeq

LEMMA Nonempty ==
  ASSUME NEW S, NEW s \in Seq(S), s # <<>>
  PROVE  1 \in DOMAIN s /\ DOMAIN s = 1..Len(s) /\ Len(s) \in Nat /\ Head(s) = s[1]
OBVIOUS

LEMMA PrFields ==
  ASSUME NEW r \in PullRequests, now \in Times
  PROVE  [r EXCEPT !.updated_at = now] \in PullRequests
BY DEF PullRequests

LEMMA GhostFields ==
  ASSUME ghost \in Ghosts
  PROVE  /\ \A b \in BOOLEAN : [ghost EXCEPT !.red = b] \in Ghosts
         /\ \A s \in Seq(Times) : [ghost EXCEPT !.bounces = s] \in Ghosts
         /\ \A h \in Heads, t \in Times : [ghost EXCEPT !.lost[h] = t] \in Ghosts
         /\ \A t \in Times \cup {Never} : [ghost EXCEPT !.wedged = t] \in Ghosts
         /\ \A t \in Times : [ghost EXCEPT !.fired = t] \in Ghosts
         /\ ghost.bounces \in Seq(Times)
         /\ ghost.wedged \in Times \cup {Never}
<1> USE DEF Ghosts
<1>1. \A h \in Heads, t \in Times : [ghost EXCEPT !.lost[h] = t] \in Ghosts
  OBVIOUS
<1>2. \A s \in Seq(Times) : [ghost EXCEPT !.bounces = s] \in Ghosts
  OBVIOUS
<1>3. /\ \A b \in BOOLEAN : [ghost EXCEPT !.red = b] \in Ghosts
      /\ \A t \in Times : [ghost EXCEPT !.fired = t] \in Ghosts
  OBVIOUS
<1>4. \A t \in Times \cup {Never} : [ghost EXCEPT !.wedged = t] \in Ghosts
  OBVIOUS
<1> QED BY <1>1, <1>2, <1>3, <1>4

LEMMA SamePr == UNCHANGED prWorld => (PrTypes' <=> PrTypes)
BY DEF prWorld, PrTypes

LEMMA TypeInit == WorldInit => WorldTypeOK
<1> SUFFICES ASSUME WorldInit PROVE WorldTypeOK
  OBVIOUS
<1>1. Started(0) \in Runs
  BY Numbers DEF Started, Runs, Conclusions
<1>2. pr \in PullRequests
  BY Numbers DEF WorldInit, PullRequests
<1>3. runs \in [Heads -> Seq(Runs)]
  BY <1>1 DEF WorldInit
<1>4. watch \in Watches
  BY Numbers DEF WorldInit, Watches, CronRuns
<1>5. ghost \in Ghosts
  BY Numbers DEF WorldInit, Ghosts
<1> QED BY <1>2, <1>3, <1>4, <1>5, Typed, Numbers, WorldAssumption
        DEF WorldInit, TypeParts, PrTypes, Statuses

LEMMA PrTypesStep ==
  ASSUME WorldTypeOK, PrStep
  PROVE  PrTypes' /\ ghost' \in Ghosts
<1> USE Typed DEF TypeParts, PrTypes
<1>0. Times \subseteq Nat /\ Heads \subseteq Nat /\ now \in Times
  BY Numbers
<1>1. CASE Push
  <2>1. pr.tip \in Nat /\ pr.tip + 1 \in Heads
    BY <1>0, <1>1, WorldAssumption DEF Push, PullRequests, Heads
  <2>2. pr' \in PullRequests
    BY <1>0, <1>1, <2>1 DEF Push, Update, PullRequests
  <2> QED BY <1>1, <2>2 DEF Push
<1>2. CASE MoveBranch
  <2>1. pr.tip \in Nat /\ pr.tip + 1 \in Heads
    BY <1>0, <1>2, WorldAssumption DEF MoveBranch, PullRequests, Heads
  <2>2. pr' \in PullRequests
    BY <1>0, <1>2, <2>1 DEF MoveBranch, PullRequests
  <2> QED BY <1>2, <2>2 DEF MoveBranch
<1>3. CASE Edit
  BY <1>0, <1>3 DEF Edit, Update, PullRequests
<1>4. CASE BuildStarts
  <2>1. Started(now) \in Runs
    BY <1>0 DEF Started, Runs, Conclusions
  <2>2. \A h \in Heads : <<Started(now)>> \o runs[h] \in Seq(Runs)
    BY <2>1
  <2> QED BY <1>4, <2>2 DEF BuildStarts
<1>5. CASE Evict
  <2>1. Append(evicted, now) \in Seq(Times) /\ Append(ghost.bounces, now) \in Seq(Times)
    BY <1>0, GhostFields
  <2> QED BY <1>0, <1>5, <2>1, PrFields, GhostFields DEF Evict, Update
<1>6. ASSUME NEW h \in Heads, NEW state \in {"success", "failure"}, BuildReports(h, state)
      PROVE  PrTypes' /\ ghost' \in Ghosts
  <2>1. [state |-> state, at |-> now] \in Statuses
    BY <1>0 DEF Statuses
  <2> QED BY <1>6, <2>1 DEF BuildReports
<1>7. ASSUME NEW h \in Heads, NEW c \in Conclusions \ {"none"}, BuildConcludes(h, c)
      PROVE  PrTypes' /\ ghost' \in Ghosts
  <2> DEFINE r == [completed |-> TRUE, conclusion |-> c, at |-> now]
  <2>1. r \in Runs
    BY <1>0 DEF Runs
  <2>2. runs' = [runs EXCEPT ![h][1] = r] /\ runs[h] # <<>>
    BY <1>7 DEF BuildConcludes, Builds
  <2> HIDE DEF r
  <2>3. [runs[h] EXCEPT ![1] = r] \in Seq(Runs)
    <3>1. 1 \in DOMAIN runs[h]
      BY <2>2, Nonempty
    <3> QED BY <2>1, <3>1, Replaced
  <2>4. runs' \in [Heads -> Seq(Runs)]
    BY <2>2, <2>3
  <2>5. ghost' \in Ghosts
    BY <1>0, <1>7, GhostFields DEF BuildConcludes
  <2>6. reported' \in [Heads -> {"none", "success", "failure"}]
    BY <1>7 DEF BuildConcludes
  <2> QED BY <1>7, <2>4, <2>5, <2>6 DEF BuildConcludes
<1>8. ASSUME NEW event \in {"labeled", "unlabeled"}, Label(event)
      PROVE  PrTypes' /\ ghost' \in Ghosts
  <2>1. [event |-> event, at |-> now] \in LabelEvents
    BY <1>0 DEF LabelEvents
  <2>2. label' \in Seq(LabelEvents)
    BY <1>8, <2>1 DEF Label
  <2>3. pr' \in PullRequests
    BY <1>0, <1>8, PrFields DEF Label, Update
  <2>4. <<>> \in Seq(Times) /\ ghost' = [ghost EXCEPT !.bounces = <<>>]
    BY <1>8 DEF Label
  <2>5. ghost' \in Ghosts
    BY <2>4, GhostFields
  <2> QED BY <1>8, <2>2, <2>3, <2>5 DEF Label
<1>9. CASE GuardReports
  BY <1>9 DEF GuardReports, PullRequests
<1> QED BY <1>1, <1>2, <1>3, <1>4, <1>5, <1>6, <1>7, <1>8, <1>9 DEF PrStep

LEMMA MainTypesStep ==
  ASSUME WorldTypeOK, MainStep
  PROVE  ci' \in Seq(MainRuns) /\ ghost' \in Ghosts
<1> USE Typed DEF TypeParts
<1>1. CASE MainPush
  <2> DEFINE older == [i \in DOMAIN ci |->
                         IF ci[i].going /\ \E k \in Going : i < k
                         THEN [going |-> FALSE, conclusion |-> "cancelled"] ELSE ci[i]]
  <2>0. /\ [going |-> TRUE, conclusion |-> "none"] \in MainRuns
        /\ [going |-> FALSE, conclusion |-> "cancelled"] \in MainRuns
    BY DEF Conclusions, MainRuns
  <2>1. older \in [1..Len(ci) -> MainRuns] /\ Len(ci) \in Nat
    <3>1. DOMAIN ci = 1..Len(ci) /\ Len(ci) \in Nat /\ \A i \in DOMAIN ci : ci[i] \in MainRuns
      OBVIOUS
    <3> HIDE Typed
    <3> QED BY <2>0, <3>1
  <2>2. ci' = <<[going |-> TRUE, conclusion |-> "none"]>> \o older /\ ghost' = ghost
    BY <1>1 DEF MainPush
  <2> HIDE DEF older
  <2>3. older \in Seq(MainRuns)
    BY <2>1
  <2> QED BY <2>0, <2>2, <2>3, Prepended
<1>2. CASE MainRunsAgain
  <2>1. [going |-> TRUE, conclusion |-> "none"] \in MainRuns
    BY DEF Conclusions, MainRuns
  <2>2. ci' \in Seq(MainRuns)
    <3>1. PICK i \in DOMAIN ci : ci' = [ci EXCEPT ![i] = [going |-> TRUE, conclusion |-> "none"]]
      BY <1>2 DEF MainRunsAgain
    <3> QED BY <2>1, <3>1, Replaced
  <2> QED BY <1>2, <2>2, GhostFields DEF MainRunsAgain
<1>3. ASSUME NEW c \in Conclusions \ {"none"}, MainConcludes(c)
      PROVE  ci' \in Seq(MainRuns) /\ ghost' \in Ghosts
  <2>1. [going |-> FALSE, conclusion |-> c] \in MainRuns
    BY DEF MainRuns
  <2>2. ci' \in Seq(MainRuns)
    <3>1. PICK i \in DOMAIN ci : ci' = [ci EXCEPT ![i] = [going |-> FALSE, conclusion |-> c]]
      BY <1>3 DEF MainConcludes, Going
    <3> QED BY <2>1, <3>1, Replaced
  <2>3. ghost' \in Ghosts
    BY <1>3, GhostFields DEF MainConcludes
  <2> QED BY <2>2, <2>3
<1> QED BY <1>1, <1>2, <1>3 DEF MainStep

LEMMA WatchTypesStep ==
  ASSUME WorldTypeOK, WatchStep
  PROVE  watch' \in Watches /\ ghost' \in Ghosts
<1> USE Typed DEF TypeParts, WatchEvent
<1>1. CASE PushBump
  BY <1>1 DEF PushBump, Watches
<1>2. CASE Issues
  BY <1>2 DEF Issues, Watches
<1>3. CASE CronFires
  <2>1. <<[event |-> "schedule", at |-> now]>> \o watch.cron \in Seq(CronRuns)
    BY DEF Watches, CronRuns
  <2> QED BY <1>3, <2>1 DEF CronFires, Watches, Ghosts
<1>4. CASE OtherRun
  <2>1. <<[event |-> "push", at |-> now]>> \o watch.cron \in Seq(CronRuns)
    BY DEF Watches, CronRuns
  <2> QED BY <1>4, <2>1 DEF OtherRun, Watches
<1>5. CASE Switch
  BY <1>5 DEF Switch, Watches
<1>6. ASSUME NEW state \in {"success", "failure"}, BumpBuilds(state)
      PROVE  watch' \in Watches /\ ghost' \in Ghosts
  BY <1>6 DEF BumpBuilds, Watches, Ghosts
<1>7. ASSUME NEW merged \in BOOLEAN, EndBump(merged)
      PROVE  watch' \in Watches /\ ghost' \in Ghosts
  BY <1>7 DEF EndBump, Watches, Ghosts
<1> QED BY <1>1, <1>2, <1>3, <1>4, <1>5, <1>6, <1>7 DEF WatchStep

LEMMA TypeStep == WorldTypeOK /\ [WorldNext]_worldVars => WorldTypeOK'
<1> SUFFICES ASSUME WorldTypeOK, [WorldNext]_worldVars PROVE WorldTypeOK'
  OBVIOUS
<1>1. CASE UNCHANGED worldVars
  BY <1>1 DEF worldVars, prWorld, WorldTypeOK
<1>2. CASE Happens /\ Noted
  <2>1. ready' \in Times \cup {Never} /\ now' \in Times
    <3>1. now' = now \/ Tick
      BY <1>2, Steps, PrFrame, MainFrame, WatchFrame
    <3>2. now' \in Times
      BY <3>1, WorldAssumption DEF Tick, WorldTypeOK, Times
    <3> QED BY <1>2, <3>2 DEF Noted, WorldTypeOK
  <2>2. events' \in 0..MaxEvents
    <3>1. ASSUME NEW s, Event(s) PROVE events' \in 0..MaxEvents
      BY <3>1, WorldAssumption DEF Event, WorldTypeOK
    <3>2. CASE PrStep
      BY <3>1, <3>2 DEF PrStep, Push, MoveBranch, Edit, BuildStarts, GuardReports, Evict,
                        BuildReports, BuildConcludes, Label, PrEvent, WorldTypeOK
    <3>3. CASE MainStep
      BY <3>1, <3>3 DEF MainStep, MainPush, MainRunsAgain, MainConcludes, MainEvent
    <3>4. CASE WatchStep
      BY <3>1, <3>4 DEF WatchStep, PushBump, Issues, CronFires, OtherRun, Switch,
                        BumpBuilds, EndBump, WatchEvent
    <3>5. CASE Tick
      BY <3>5 DEF Tick, WorldTypeOK
    <3> QED BY <1>2, <3>2, <3>3, <3>4, <3>5, Steps
  <2>3. CASE PrStep
    BY <2>1, <2>2, <2>3, PrFrame, PrTypesStep, Typed DEF TypeParts
  <2>4. CASE MainStep
    BY <2>1, <2>2, <2>4, MainFrame, MainTypesStep, SamePr, Typed DEF TypeParts
  <2>5. CASE WatchStep
    BY <2>1, <2>2, <2>5, WatchFrame, WatchTypesStep, SamePr, Typed DEF TypeParts
  <2>6. CASE Tick
    BY <2>1, <2>2, <2>6, SamePr, Typed DEF TypeParts, Tick
  <2> QED BY <1>2, <2>3, <2>4, <2>5, <2>6, Steps
<1> QED BY <1>1, <1>2 DEF WorldNext

\* All variables of Detectors keep their types.
THEOREM DetectorTypes == WorldSpec => []WorldTypeOK
BY TypeInit, TypeStep, PTL DEF WorldSpec
-------------------------------------------------------------------------------
(* The pull request                                                        *)

\* What a step that lets time pass at most leaves as it was
StandsStill == UNCHANGED <<prWorld, ci, watch, ghost>> /\ now <= now'

LEMMA TickIsQuiet == WorldTypeOK /\ Tick => StandsStill /\ now' = now + 1
BY Numbers DEF Tick, StandsStill, WorldTypeOK

LEMMA Appended ==
  ASSUME NEW S, NEW s \in Seq(S), NEW e \in S
  PROVE  /\ Append(s, e) \in Seq(S)
         /\ Len(Append(s, e)) = Len(s) + 1 /\ Len(s) \in Nat
         /\ DOMAIN Append(s, e) = 1..(Len(s) + 1) /\ DOMAIN s = 1..Len(s)
         /\ \A i \in 1..Len(s) : Append(s, e)[i] = s[i]
         /\ Append(s, e)[Len(s) + 1] = e
         /\ Last(Append(s, e)) = e /\ Append(s, e) # <<>>
BY DEF Last

LEMMA NoLater ==
  ASSUME NEW m \in Nat, NEW n \in Nat, m <= n, NEW T, \A t \in T : t \in Nat
  PROVE  \A t \in T : t <= m => t <= n
OBVIOUS

LEMMA DatedStep ==
  ASSUME WorldTypeOK, WorldTypeOK', Dated, [WorldNext]_worldVars
  PROVE  Dated'
<1> USE DEF Dated
<1>0. /\ Times \subseteq Nat /\ now \in Times /\ now' \in Times /\ now \in Nat /\ now' \in Nat
      /\ \A t \in Times : t \in Nat
      /\ PrTypes /\ watch \in Watches
  BY Numbers, Typed DEF TypeParts
<1>1. ASSUME StandsStill PROVE Dated'
  <2>1. UNCHANGED <<status, label, evicted, watch>>
    BY <1>1 DEF StandsStill, prWorld
  <2>2. \A t \in Times : t <= now => t <= now'
    <3>1. now <= now' /\ now \in Nat /\ now' \in Nat /\ \A t \in Times : t \in Nat
      BY <1>0, <1>1 DEF StandsStill
    <3> HIDE DEF Dated
    <3> QED BY ONLY <3>1, NoLater
  <2>3. \A h \in Heads : status[h].at \in Times
    BY <1>0 DEF PrTypes, Statuses
  <2>4. \A i \in DOMAIN label : label[i].at \in Times
    <3>1. \A i \in DOMAIN label : label[i] \in LabelEvents
      BY <1>0 DEF PrTypes
    <3> QED BY <3>1 DEF LabelEvents
  <2>5. \A i \in DOMAIN evicted : evicted[i] \in Times
    BY <1>0 DEF PrTypes
  <2>6. watch.bump \in Times \cup {Never}
    BY <1>0 DEF Watches
  <2> QED BY <2>1, <2>2, <2>3, <2>4, <2>5, <2>6
<1>2. CASE PrStep
  <2>1. UNCHANGED <<now, watch>>
    BY <1>2, PrFrame
  <2>2. \A h \in Heads : status'[h].at <= now
    <3>1. CASE UNCHANGED status
      BY <3>1
    <3>2. ASSUME NEW h \in Heads, NEW state \in {"success", "failure"}, BuildReports(h, state)
          PROVE  \A j \in Heads : status'[j].at <= now
      <4>1. status \in [Heads -> Statuses] /\ now <= now
        <5>1. now <= now
          BY <1>0
        <5> QED BY <1>0, <5>1 DEF PrTypes
      <4>2. /\ status'[h] = [state |-> state, at |-> now]
            /\ \A j \in Heads \ {h} : status'[j] = status[j]
        BY <3>2, <4>1 DEF BuildReports
      <4> QED BY <4>1, <4>2
    <3> QED BY <1>2, <3>1, <3>2 DEF PrStep, Push, MoveBranch, Edit, BuildStarts,
                                    GuardReports, Evict, BuildConcludes, Label
  <2>3. \A i \in DOMAIN label' : label'[i].at <= now
    <3>1. CASE UNCHANGED label
      BY <3>1
    <3>2. ASSUME NEW event \in {"labeled", "unlabeled"}, Label(event)
          PROVE  \A i \in DOMAIN label' : label'[i].at <= now
      <4> DEFINE e == [event |-> event, at |-> now]
      <4>1. e \in LabelEvents /\ e.at = now /\ label' = Append(label, e)
        BY <1>0, <3>2 DEF Label, LabelEvents
      <4> HIDE DEF e
      <4>2. label \in Seq(LabelEvents)
        BY <1>0 DEF PrTypes
      <4>3. ASSUME NEW i \in DOMAIN label' PROVE label'[i].at <= now
        <5>1. i \in 1..Len(label) \/ i = Len(label) + 1
          BY <4>1, <4>2, <4>3, Appended
        <5> QED BY <1>0, <4>1, <4>2, <5>1, Appended
      <4> QED BY <4>3
    <3> QED BY <1>2, <3>1, <3>2 DEF PrStep, Push, MoveBranch, Edit, BuildStarts,
                                    GuardReports, Evict, BuildConcludes, BuildReports
  <2>4. \A i \in DOMAIN evicted' : evicted'[i] <= now
    <3>1. CASE UNCHANGED evicted
      BY <3>1
    <3>2. CASE Evict
      <4>1. evicted \in Seq(Times) /\ evicted' = Append(evicted, now)
        BY <1>0, <3>2 DEF PrTypes, Evict
      <4>2. ASSUME NEW i \in DOMAIN evicted' PROVE evicted'[i] <= now
        <5>1. i \in 1..Len(evicted) \/ i = Len(evicted) + 1
          BY <1>0, <4>1, <4>2, Appended
        <5> QED BY <1>0, <4>1, <5>1, Appended
      <4> QED BY <4>2
    <3> QED BY <1>2, <3>1, <3>2 DEF PrStep, Push, MoveBranch, Edit, BuildStarts,
                                    GuardReports, Label, BuildConcludes, BuildReports
  <2> QED BY <2>1, <2>2, <2>3, <2>4
<1>3. CASE MainStep
  BY <1>3, MainFrame DEF prWorld
<1>4. CASE WatchStep
  <2>1. UNCHANGED <<now, status, label, evicted>>
    BY <1>4, WatchFrame DEF prWorld
  <2>2. watch'.bump \in {watch.bump, now, Never}
    <3>1. CASE PushBump
      BY <1>0, <3>1 DEF PushBump, WatchEvent, Watches
    <3>2. CASE Issues
      BY <1>0, <3>2 DEF Issues, WatchEvent, Watches
    <3>3. CASE CronFires \/ OtherRun \/ Switch
      BY <1>0, <3>3 DEF CronFires, OtherRun, Switch, WatchEvent, Watches
    <3>4. ASSUME NEW state \in {"success", "failure"}, BumpBuilds(state)
          PROVE  watch'.bump \in {watch.bump, now, Never}
      BY <1>0, <3>4 DEF BumpBuilds, WatchEvent, Watches
    <3>5. ASSUME NEW merged \in BOOLEAN, EndBump(merged)
          PROVE  watch'.bump \in {watch.bump, now, Never}
      BY <1>0, <3>5 DEF EndBump, WatchEvent, Watches
    <3> QED BY <1>4, <3>1, <3>2, <3>3, <3>4, <3>5 DEF WatchStep
  <2>3. watch'.bump # Never => watch'.bump <= now
    <3>1. now <= now /\ (watch.bump # Never => watch.bump <= now)
      BY <1>0
    <3> QED BY <2>2, <3>1
  <2> QED BY <2>1, <2>3
<1>5. CASE Tick
  BY <1>1, <1>5, TickIsQuiet
<1>6. CASE UNCHANGED worldVars
  BY <1>6 DEF worldVars, prWorld
<1> QED BY <1>2, <1>3, <1>4, <1>5, <1>6, Steps DEF WorldNext

LEMMA UnbornStep ==
  ASSUME WorldTypeOK, Unborn, [WorldNext]_worldVars
  PROVE  Unborn'
<1>0. /\ PrTypes /\ \A h \in Heads : h \in Nat
      /\ pr.head \in Heads /\ pr.tip \in Heads /\ pr.head \in Nat /\ pr.tip \in Nat
  BY Numbers, Typed DEF TypeParts, PrTypes, PullRequests
<1>1. ASSUME UNCHANGED <<status, reported, runs>>, pr.head <= pr'.head, pr'.head <= pr'.tip,
             pr'.head \in Heads
      PROVE  Unborn'
  <2>1. \A h \in Heads : pr'.head < h => pr.head < h
    <3> DEFINE m == pr'.head
    <3>1. m \in Nat /\ pr.head <= m
      BY <1>0, <1>1
    <3> HIDE DEF m
    <3>2. \A h \in Heads : m < h => pr.head < h
      BY <1>0, <3>1
    <3> QED BY <3>2 DEF m
  <2> QED BY <1>1, <2>1 DEF Unborn
<1>2. ASSUME UNCHANGED <<status, reported, runs, pr>> PROVE Unborn'
  BY <1>0, <1>2 DEF Unborn
<1>3. CASE PrStep
  <2>1. CASE Push
    <3>1. pr'.head = pr.tip + 1 /\ pr'.tip = pr.tip + 1 /\ pr.tip < MaxHeads
      BY <1>0, <2>1 DEF Push, Update, PrTypes, PullRequests
    <3>2. pr.tip + 1 \in Heads /\ pr.head <= pr.tip + 1 /\ pr.tip + 1 <= pr.tip + 1
      BY <1>0, <3>1, WorldAssumption DEF Unborn, Heads
    <3>3. UNCHANGED <<status, reported, runs>>
      BY <2>1 DEF Push
    <3> QED BY <1>1, <3>1, <3>2, <3>3
  <2>2. CASE MoveBranch
    <3>1. pr'.head = pr.head /\ pr'.tip = pr.tip + 1
      BY <1>0, <2>2 DEF MoveBranch, PrTypes, PullRequests
    <3>2. pr.head <= pr.tip + 1 /\ pr.head <= pr.head
      <4>1. pr.head <= pr.tip
        BY DEF Unborn
      <4> QED BY <1>0, <4>1
    <3>3. UNCHANGED <<status, reported, runs>>
      BY <2>2 DEF MoveBranch
    <3> QED BY <1>0, <1>1, <3>1, <3>2, <3>3
  <2>3. ASSUME UNCHANGED <<status, reported, runs>>, pr'.head = pr.head, pr'.tip = pr.tip
        PROVE  Unborn'
    BY <1>0, <1>1, <2>3 DEF Unborn
  <2>4. CASE Edit
    <3>1. pr'.head = pr.head /\ pr'.tip = pr.tip
      BY <1>0, <2>4 DEF Edit, Update, PrTypes, PullRequests
    <3> QED BY <2>3, <2>4, <3>1 DEF Edit
  <2>5. CASE Evict
    <3>1. pr'.head = pr.head /\ pr'.tip = pr.tip
      BY <1>0, <2>5 DEF Evict, Update, PrTypes, PullRequests
    <3> QED BY <2>3, <2>5, <3>1 DEF Evict
  <2>6. ASSUME NEW event \in {"labeled", "unlabeled"}, Label(event) PROVE Unborn'
    <3>1. pr'.head = pr.head /\ pr'.tip = pr.tip
      BY <1>0, <2>6 DEF Label, Update, PrTypes, PullRequests
    <3> QED BY <2>3, <2>6, <3>1 DEF Label
  <2>7. CASE BuildStarts
    BY <1>0, <2>7 DEF BuildStarts, Unborn, PrTypes
  <2>8. ASSUME NEW h \in Heads, NEW state \in {"success", "failure"}, BuildReports(h, state)
        PROVE  Unborn'
    <3>1. pr' = pr /\ runs' = runs /\ ~(pr.head < h)
      BY <2>8 DEF BuildReports, Builds, Unborn
    <3>2. \A j \in Heads \ {h} : status'[j] = status[j] /\ reported'[j] = reported[j]
      BY <1>0, <2>8 DEF BuildReports, PrTypes
    <3> QED BY <3>1, <3>2 DEF Unborn
  <2>9. ASSUME NEW h \in Heads, NEW c \in Conclusions \ {"none"}, BuildConcludes(h, c)
        PROVE  Unborn'
    <3>1. pr' = pr /\ status' = status /\ ~(pr.head < h)
      BY <2>9 DEF BuildConcludes, Builds, Unborn
    <3>2. \A j \in Heads \ {h} : runs'[j] = runs[j] /\ reported'[j] = reported[j]
      BY <1>0, <2>9 DEF BuildConcludes, PrTypes
    <3> QED BY <3>1, <3>2 DEF Unborn
  <2>10. CASE GuardReports
    <3>1. pr'.head = pr.head /\ pr'.tip = pr.tip
      BY <1>0, <2>10 DEF GuardReports, PrTypes, PullRequests
    <3> QED BY <2>3, <2>10, <3>1 DEF GuardReports
  <2> QED BY <1>3, <2>1, <2>2, <2>4, <2>5, <2>6, <2>7, <2>8, <2>9, <2>10 DEF PrStep
<1>4. CASE MainStep
  BY <1>2, <1>4, MainFrame DEF prWorld
<1>5. CASE WatchStep
  BY <1>2, <1>5, WatchFrame DEF prWorld
<1>6. CASE Tick
  BY <1>2, <1>6, TickIsQuiet DEF StandsStill, prWorld
<1>7. CASE UNCHANGED worldVars
  BY <1>2, <1>7 DEF worldVars, prWorld
<1> QED BY <1>3, <1>4, <1>5, <1>6, <1>7, Steps DEF WorldNext

LEMMA LastLabel ==
  ASSUME WorldTypeOK, Dated, label # <<>>
  PROVE  /\ Last(label) \in LabelEvents
         /\ Last(label).at \in Times /\ Last(label).at <= now
         /\ Last(label).event \in {"labeled", "unlabeled"}
<1>1. label \in Seq(LabelEvents)
  BY Typed DEF TypeParts, PrTypes
<1>2. Len(label) \in DOMAIN label
  BY <1>1
<1>3. label[Len(label)] \in LabelEvents
  BY <1>1, <1>2
<1>4. label[Len(label)].at <= now
  BY <1>2 DEF Dated
<1> QED BY <1>3, <1>4 DEF Last, LabelEvents

LEMMA Applied ==
  ASSUME WorldTypeOK, Dated
  PROVE  /\ ready_label_applied_at \in Times \cup {Never}
         /\ ready_label_applied_at # Never =>
               /\ label # <<>> /\ ready_label_applied_at = Last(label).at
               /\ ready_label_applied_at \in Times /\ ready_label_applied_at \in Nat
               /\ ready_label_applied_at <= now
BY LastLabel, Numbers DEF ready_label_applied_at

LEMMA HeadStatus ==
  ASSUME WorldTypeOK, Dated
  PROVE  /\ pr.head \in Heads
         /\ status[pr.head] \in Statuses
         /\ status[pr.head].at \in Nat /\ status[pr.head].at <= now
<1>1. pr.head \in Heads /\ status \in [Heads -> Statuses]
  BY Typed DEF TypeParts, PrTypes, PullRequests
<1>2. status[pr.head].at \in Times
  BY <1>1 DEF Statuses
<1> QED BY <1>1, <1>2, Numbers DEF Dated

LEMMA ReadySinceStep ==
  ASSUME WorldTypeOK, WorldTypeOK', Dated, Dated', Unborn, ReadySince, [WorldNext]_worldVars
  PROVE  ReadySince'
<1>0. /\ pr.head \in Heads /\ status \in [Heads -> Statuses] /\ now \in Nat
      /\ label \in Seq(LabelEvents) /\ now \in Times
  BY HeadStatus, Typed, Numbers DEF TypeParts, PrTypes
<1>1. ASSUME UNCHANGED label, pr'.head = pr.head, status'[pr.head] = status[pr.head],
             Noted \/ ready' = ready
      PROVE  ReadySince'
  <2>1. /\ ready_label_applied_at' = ready_label_applied_at
        /\ status'[pr'.head] = status[pr.head]
    BY <1>1 DEF ready_label_applied_at
  <2>2. Ready' <=> Ready
    BY <2>1 DEF Ready
  <2>3. ready' = ready
    BY <1>1, <2>2 DEF Noted, ReadySince
  <2> QED BY <2>1, <2>2, <2>3 DEF ReadySince
<1>2. ASSUME ~Ready', Noted PROVE ReadySince'
  BY <1>2 DEF Noted, ReadySince
<1>3. ASSUME PrStep, Noted PROVE ReadySince'
  <2>1. CASE Push
    <3>1. pr'.head = pr.tip + 1 /\ pr.tip + 1 \in Heads /\ pr.head < pr.tip + 1
      <4>1. pr \in PullRequests /\ pr' \in PullRequests
        BY Typed DEF TypeParts, PrTypes
      <4>2. pr'.head = pr.tip + 1
        BY <2>1, <4>1 DEF Push, Update, PullRequests
      <4>3. pr'.head \in Heads /\ pr.head \in Nat /\ pr.tip \in Nat /\ pr.head <= pr.tip
        BY <4>1, Numbers DEF PullRequests, Unborn
      <4> QED BY <4>2, <4>3
    <3>2. status[pr.tip + 1].state = "none" /\ status' = status
      BY <2>1, <3>1 DEF Unborn, Push
    <3> QED BY <1>2, <1>3, <3>1, <3>2 DEF Ready
  <2>2. ASSUME NEW event \in {"labeled", "unlabeled"}, Label(event) PROVE ReadySince'
    <3> DEFINE e == [event |-> event, at |-> now]
    <3>1. e \in LabelEvents /\ label' = Append(label, e)
      BY <1>0, <2>2 DEF Label, LabelEvents
    <3>2. Last(label') = e /\ label' # <<>>
      <4> HIDE DEF e
      <4> QED BY <1>0, <3>1, Appended
    <3>3. pr'.head = pr.head /\ status' = status
      BY <2>2, Typed DEF Label, Update, TypeParts, PrTypes, PullRequests
    <3>4. CASE ready_label_applied_at = Never
      <4>1. event = "labeled"
        BY <2>2, <3>4 DEF Label
      <4>2. ready_label_applied_at' = now
        BY <3>2, <4>1 DEF ready_label_applied_at
      <4>3. CASE Ready'
        <5>1. ready' = now
          BY <1>3, <3>4, <4>3 DEF Noted, Ready
        <5>2. status[pr.head].at <= now /\ now <= now
          BY <1>0, HeadStatus
        <5> QED BY <3>3, <4>2, <4>3, <5>1, <5>2 DEF ReadySince
      <4> QED BY <1>2, <1>3, <4>3
    <3>5. CASE ready_label_applied_at # Never
      <4>1. event = "unlabeled"
        BY <2>2, <3>5 DEF Label
      <4>2. ready_label_applied_at' = Never
        BY <3>2, <4>1 DEF ready_label_applied_at
      <4> QED BY <1>2, <1>3, <4>2 DEF Ready
    <3> QED BY <3>4, <3>5
  <2>3. ASSUME NEW h \in Heads, NEW state \in {"success", "failure"}, BuildReports(h, state)
        PROVE  ReadySince'
    <3>1. UNCHANGED <<pr, label>> /\ status' = [status EXCEPT ![h] = [state |-> state, at |-> now]]
      BY <2>3 DEF BuildReports
    <3>2. CASE h # pr.head
      <4>1. status'[pr.head] = status[pr.head]
        BY <1>0, <3>1, <3>2
      <4> QED BY <1>1, <1>3, <3>1, <4>1
    <3>3. CASE h = pr.head /\ ~(Ready /\ status'[pr.head] = status[pr.head]) /\ Ready'
      <4>1. ready' = now
        BY <1>3, <3>3 DEF Noted
      <4>2. status'[pr.head].at = now
        BY <1>0, <3>1, <3>3
      <4>3. ready_label_applied_at' = ready_label_applied_at
        BY <3>1 DEF ready_label_applied_at
      <4>4. ready_label_applied_at # Never
        BY <3>3, <4>3 DEF Ready
      <4>5. ready_label_applied_at <= now /\ now <= now
        BY <1>0, <4>4, Applied
      <4> QED BY <3>1, <3>3, <4>1, <4>2, <4>3, <4>5 DEF ReadySince
    <3> QED BY <1>1, <1>2, <1>3, <3>1, <3>2, <3>3
  <2>4. CASE BuildStarts \/ \E h \in Heads, c \in Conclusions \ {"none"} : BuildConcludes(h, c)
    BY <1>1, <1>3, <2>4 DEF BuildStarts, BuildConcludes
  <2>5. CASE MoveBranch \/ Edit \/ GuardReports \/ Evict
    <3>1. pr'.head = pr.head
      BY <2>5, Typed DEF MoveBranch, Edit, GuardReports, Evict, Update, TypeParts, PrTypes,
                         PullRequests
    <3> QED BY <1>1, <1>3, <2>5, <3>1 DEF MoveBranch, Edit, GuardReports, Evict
  <2> QED BY <1>3, <2>1, <2>2, <2>3, <2>4, <2>5 DEF PrStep
<1>4. ASSUME MainStep \/ WatchStep, Noted PROVE ReadySince'
  BY <1>1, <1>4, MainFrame, WatchFrame DEF prWorld
<1>5. ASSUME Tick, Noted PROVE ReadySince'
  BY <1>1, <1>5 DEF Tick, prWorld
<1>6. CASE UNCHANGED worldVars
  BY <1>1, <1>6 DEF worldVars, prWorld
<1> QED BY <1>3, <1>4, <1>5, <1>6, Steps DEF WorldNext

LEMMA Raising ==
  /\ "stuck_bump" \in Alerts <=> detect_stuck_bump
  /\ "stale_pin" \in Alerts <=> detect_stale_pin
  /\ "stranded_pr" \in Alerts <=> detect_stranded_prs
  /\ "eviction_loop" \in Alerts <=> detect_eviction_loops
  /\ "missing_status" \in Alerts <=> detect_missing_required_status
  /\ "diverged_head" \in Alerts <=> detect_diverged_head
  /\ "review_stuck" \in Alerts <=> detect_review_stuck
  /\ "dead_scheduler" \in Alerts <=> detect_dead_schedulers
  /\ "main_red" \in Alerts <=> detect_main_red = "red"
  /\ "stale_fkb" \in Alerts <=> detect_stale_fkb
BY DEF Alerts, DETECTORS, Raised

LEMMA Stranded ==
  ASSUME WorldTypeOK, Dated, ReadySince
  PROVE  StrandedIsRight
<1> DEFINE a == ready_label_applied_at
           b == status[pr.head].at
           H == STRANDED_HOURS
<1>1. now \in Nat /\ H \in Nat /\ b \in Nat /\ b <= now
  BY HeadStatus, Numbers, Typed DEF TypeParts
<1>2. a # Never => a \in Nat /\ a <= now
  BY Applied
<1>3. ASSUME Ready
      PROVE  /\ ready \in Nat /\ ready # Never
             /\ now - b >= H /\ now - a >= H <=> now - ready >= H
  <2>1. a \in Nat /\ a <= now
    BY <1>2, <1>3 DEF Ready
  <2>2. b <= ready /\ a <= ready /\ (ready = b \/ ready = a)
    BY <1>3 DEF ReadySince
  <2>3. Never \notin Nat
    BY WorldAssumption
  <2> HIDE DEF a, b, H
  <2> QED BY <1>1, <2>1, <2>2, <2>3
<1>4. detect_stranded_prs <=>
        /\ ~pr.draft /\ ~pr.held /\ pr.approved /\ Mergeable
        /\ Ready /\ now - b >= H /\ now - a >= H
  BY DEF detect_stranded_prs, Ready, hours_since
<1>5. ~Ready => ready = Never
  BY DEF ReadySince
<1> HIDE DEF a, b, H
<1> QED BY <1>3, <1>4, <1>5, Raising DEF StrandedIsRight, H

LEMMA OneMore ==
  ASSUME NEW all \in Seq(Times), NEW cycle \in Seq(Times), NEW labels, NEW t \in Times,
         LastOnes(all, cycle, labels)
  PROVE  LastOnes(Append(all, t), Append(cycle, t), labels)
<1> DEFINE m == Len(all)
           n == Len(cycle)
           d == m - n
           u == Append(all, t)
           v == Append(cycle, t)
<1>1. /\ m \in Nat /\ n \in Nat /\ Len(u) = m + 1 /\ Len(v) = n + 1
      /\ \A i \in 1..m : u[i] = all[i]
      /\ \A i \in 1..n : v[i] = cycle[i]
      /\ u[m + 1] = t /\ v[n + 1] = t
  BY Appended
<1>2. /\ 0 <= d
      /\ \A i \in 1..n : cycle[i] = all[i + d]
      /\ \A i \in 1..d : labels # <<>> /\ all[i] <= Last(labels).at
  BY DEF LastOnes
<1> HIDE DEF m, n, u, v
<1>3. Len(u) - Len(v) = d /\ d \in Nat
  BY <1>1, <1>2
<1>4. ASSUME NEW i \in 1..(n + 1) PROVE v[i] = u[i + d]
  <2>1. CASE i = n + 1
    <3>1. i + d = m + 1
      BY <1>1, <2>1
    <3> QED BY <1>1, <2>1, <3>1
  <2>2. CASE i # n + 1
    <3>1. i \in 1..n /\ i + d \in 1..m
      BY <1>1, <1>2, <2>2
    <3> QED BY <1>1, <1>2, <3>1
  <2> QED BY <2>1, <2>2
<1>5. ASSUME NEW i \in 1..d PROVE labels # <<>> /\ u[i] <= Last(labels).at
  <2>1. i \in 1..m
    BY <1>1, <1>2
  <2> QED BY <1>1, <1>2, <2>1
<1> QED BY <1>1, <1>2, <1>3, <1>4, <1>5 DEF LastOnes, u, v

LEMMA BouncedStep ==
  ASSUME WorldTypeOK, Dated, Bounced, [WorldNext]_worldVars
  PROVE  Bounced'
<1>0. /\ evicted \in Seq(Times) /\ ghost \in Ghosts /\ ghost.bounces \in Seq(Times)
      /\ now \in Times /\ label \in Seq(LabelEvents)
  BY GhostFields, Typed DEF TypeParts, PrTypes
<1>1. ASSUME UNCHANGED <<evicted, label>>, ghost'.bounces = ghost.bounces PROVE Bounced'
  BY <1>1 DEF Bounced
<1>2. CASE PrStep
  <2>1. CASE Evict
    <3>1. /\ evicted' = Append(evicted, now) /\ label' = label
          /\ ghost'.bounces = Append(ghost.bounces, now)
      BY <1>0, <2>1 DEF Evict, Ghosts
    <3> QED BY <1>0, <3>1, OneMore DEF Bounced
  <2>2. ASSUME NEW event \in {"labeled", "unlabeled"}, Label(event) PROVE Bounced'
    <3> DEFINE e == [event |-> event, at |-> now]
    <3>1. e \in LabelEvents /\ label' = Append(label, e) /\ e.at = now
      BY <1>0, <2>2 DEF Label, LabelEvents
    <3>2. evicted' = evicted /\ ghost'.bounces = <<>>
      BY <1>0, <2>2 DEF Label, Ghosts
    <3> HIDE DEF e
    <3>3. label' # <<>> /\ Last(label').at = now
      BY <1>0, <3>1, Appended
    <3>4. Len(evicted) \in Nat /\ Len(evicted) - 0 = Len(evicted) /\ DOMAIN evicted = 1..Len(evicted)
      BY <1>0
    <3>5. \A i \in 1..Len(evicted) : evicted[i] <= now
      BY <3>4 DEF Dated
    <3>6. Len(ghost'.bounces) = 0
      BY <3>2
    <3> QED BY <3>2, <3>3, <3>4, <3>5, <3>6 DEF Bounced, LastOnes
  <2>3. CASE \/ Push \/ MoveBranch \/ Edit \/ BuildStarts \/ GuardReports
             \/ \E h \in Heads, state \in {"success", "failure"} : BuildReports(h, state)
    BY <1>1, <2>3 DEF Push, MoveBranch, Edit, BuildStarts, GuardReports, BuildReports
  <2>4. ASSUME NEW h \in Heads, NEW c \in Conclusions \ {"none"}, BuildConcludes(h, c) PROVE Bounced'
    <3>1. ghost'.bounces = ghost.bounces
      BY <1>0, <2>4 DEF BuildConcludes, Ghosts
    <3> QED BY <1>1, <2>4, <3>1 DEF BuildConcludes
  <2> QED BY <1>2, <2>1, <2>2, <2>3, <2>4 DEF PrStep
<1>3. CASE MainStep
  <2>1. ghost'.bounces = ghost.bounces
    BY <1>0, <1>3 DEF MainStep, MainPush, MainRunsAgain, MainConcludes, Ghosts
  <2> QED BY <1>1, <1>3, <2>1, MainFrame DEF prWorld
<1>4. CASE WatchStep
  <2>1. ghost'.bounces = ghost.bounces
    BY <1>0, <1>4 DEF WatchStep, PushBump, Issues, CronFires, OtherRun, Switch, BumpBuilds,
                      EndBump, Ghosts
  <2> QED BY <1>1, <1>4, <2>1, WatchFrame DEF prWorld
<1>5. CASE Tick
  BY <1>1, <1>5 DEF Tick, prWorld
<1>6. CASE UNCHANGED worldVars
  BY <1>1, <1>6 DEF worldVars, prWorld
<1> QED BY <1>2, <1>3, <1>4, <1>5, <1>6, Steps DEF WorldNext

\* No set is larger than one it can be mapped into one to one.
LEMMA NotMore ==
  ASSUME NEW S, NEW T, IsFiniteSet(T), NEW f \in [S -> T],
         \A i, k \in S : f[i] = f[k] => i = k
  PROVE  Cardinality(S) <= Cardinality(T) /\ IsFiniteSet(S)
BY Fun_IsInj, FS_Injection

LEMMA PositionsAreFinite ==
  ASSUME NEW S, NEW s \in Seq(S), NEW P \in SUBSET DOMAIN s
  PROVE  IsFiniteSet(P) /\ Cardinality(P) \in Nat
<1>1. Len(s) \in Nat /\ P \in SUBSET (1..Len(s))
  OBVIOUS
<1>2. IsFiniteSet(1..Len(s))
  BY <1>1, FS_Interval
<1>3. IsFiniteSet(P)
  BY <1>1, <1>2, FS_Subset
<1> QED BY <1>3, FS_CardinalityType

EvictedSince(t) ==
    {i \in DOMAIN evicted :
        hours_since(evicted[i]) < EVICTION_WINDOW_HOURS /\ evicted[i] > t}

BouncedFrom(t) ==
    {i \in DOMAIN ghost.bounces :
        now - ghost.bounces[i] < EVICTION_WINDOW_HOURS /\ ghost.bounces[i] >= t}

LEMMA Counted ==
  ASSUME WorldTypeOK, Dated, Bounced
  PROVE  /\ \A t \in Nat : Cardinality(BouncedFrom(t)) \in Nat
         /\ \A t \in Nat : Cardinality(EvictedSince(t)) \in Nat
         /\ ready_label_applied_at # Never =>
               Cardinality(EvictedSince(ready_label_applied_at)) <= Cardinality(BouncedFrom(0))
         /\ \A t, r \in Nat : t <= r =>
               Cardinality(BouncedFrom(r + 1)) <= Cardinality(EvictedSince(t))
<1> DEFINE a == ready_label_applied_at
           e == evicted
           b == ghost.bounces
           d == Len(e) - Len(b)
<1>1. /\ e \in Seq(Times) /\ b \in Seq(Times) /\ now \in Nat
      /\ \A t \in Times : t \in Nat
  BY GhostFields, Numbers, Typed DEF TypeParts, PrTypes
<1>2. /\ Len(e) \in Nat /\ Len(b) \in Nat /\ d \in Nat
      /\ DOMAIN e = 1..Len(e) /\ DOMAIN b = 1..Len(b)
      /\ \A i \in DOMAIN b : b[i] = e[i + d]
      /\ \A i \in 1..d : label # <<>> /\ e[i] <= Last(label).at
  <2>1. Len(e) \in Nat /\ Len(b) \in Nat /\ DOMAIN e = 1..Len(e) /\ DOMAIN b = 1..Len(b)
    BY <1>1
  <2>2. /\ 0 <= d
        /\ \A i \in 1..Len(b) : b[i] = e[i + d]
        /\ \A i \in 1..d : label # <<>> /\ e[i] <= Last(label).at
    BY DEF Bounced, LastOnes
  <2> HIDE DEF e, b
  <2> QED BY <2>1, <2>2
<1>3. /\ \A i \in DOMAIN e : e[i] \in Nat
      /\ \A i \in DOMAIN b : b[i] \in Nat
  BY <1>1
<1>4. \A t : /\ IsFiniteSet(BouncedFrom(t)) /\ Cardinality(BouncedFrom(t)) \in Nat
             /\ IsFiniteSet(EvictedSince(t)) /\ Cardinality(EvictedSince(t)) \in Nat
  <2> TAKE t
  <2>1. BouncedFrom(t) \in SUBSET DOMAIN b /\ EvictedSince(t) \in SUBSET DOMAIN e
    BY DEF BouncedFrom, EvictedSince
  <2> HIDE DEF e, b
  <2> QED BY <1>1, <2>1, PositionsAreFinite
<1>5. ASSUME a # Never PROVE Cardinality(EvictedSince(a)) <= Cardinality(BouncedFrom(0))
  <2>1. a \in Nat /\ a = Last(label).at
    BY <1>5, Applied
  <2>2. ASSUME NEW i \in EvictedSince(a)
        PROVE  i \in Nat /\ i - d \in BouncedFrom(0)
    <3>1. i \in 1..Len(e) /\ e[i] \in Nat /\ now - e[i] < EVICTION_WINDOW_HOURS /\ e[i] > a
      BY <1>2, <1>3 DEF EvictedSince, hours_since
    <3>2. i \notin 1..d
      <4>1. ASSUME i \in 1..d PROVE FALSE
        <5>1. e[i] <= a
          BY <1>2, <2>1, <4>1
        <5> HIDE DEF e, a, d
        <5> QED BY <2>1, <3>1, <5>1
      <4> QED BY <4>1
    <3>3. i - d \in DOMAIN b /\ (i - d) + d = i /\ i \in Nat
      <4> HIDE DEF e, b
      <4> QED BY <1>2, <3>1, <3>2
    <3>4. b[i - d] = e[i]
      BY <1>2, <3>3
    <3> QED BY <3>1, <3>3, <3>4 DEF BouncedFrom
  <2> DEFINE f == [i \in EvictedSince(a) |-> i - d]
  <2>3. f \in [EvictedSince(a) -> BouncedFrom(0)]
    BY <2>2
  <2>4. \A i, k \in EvictedSince(a) : f[i] = f[k] => i = k
    <3>1. ASSUME NEW i \in EvictedSince(a), NEW k \in EvictedSince(a), i - d = k - d
          PROVE  i = k
      <4>1. i \in Nat /\ k \in Nat /\ d \in Nat
        BY <1>2, <2>2
      <4> HIDE DEF d
      <4> QED BY <3>1, <4>1
    <3> QED BY <3>1
  <2> HIDE DEF f
  <2> QED BY <1>4, <2>3, <2>4, NotMore
<1>6. ASSUME NEW t \in Nat, NEW r \in Nat, t <= r
      PROVE  Cardinality(BouncedFrom(r + 1)) <= Cardinality(EvictedSince(t))
  <2>1. ASSUME NEW i \in BouncedFrom(r + 1)
        PROVE  i \in Nat /\ i + d \in EvictedSince(t)
    <3>1. /\ i \in 1..Len(b) /\ b[i] = e[i + d] /\ b[i] \in Nat /\ i \in DOMAIN b
          /\ now - b[i] < EVICTION_WINDOW_HOURS /\ b[i] >= r + 1
      BY <1>2, <1>3 DEF BouncedFrom
    <3>2. i + d \in DOMAIN e /\ i \in Nat
      <4> HIDE DEF e, b
      <4> QED BY <1>2, <3>1
    <3>3. e[i + d] > t
      <4> HIDE DEF e, b, d
      <4> QED BY <1>6, <3>1
    <3> QED BY <3>1, <3>2, <3>3 DEF EvictedSince, hours_since
  <2> DEFINE f == [i \in BouncedFrom(r + 1) |-> i + d]
  <2>2. f \in [BouncedFrom(r + 1) -> EvictedSince(t)]
    BY <2>1
  <2>3. \A i, k \in BouncedFrom(r + 1) : f[i] = f[k] => i = k
    <3>1. ASSUME NEW i \in BouncedFrom(r + 1), NEW k \in BouncedFrom(r + 1), i + d = k + d
          PROVE  i = k
      <4>1. i \in Nat /\ k \in Nat /\ d \in Nat
        BY <1>2, <2>1
      <4> HIDE DEF d
      <4> QED BY <3>1, <4>1
    <3> QED BY <3>1
  <2> HIDE DEF f
  <2> QED BY <1>4, <2>2, <2>3, NotMore
<1> QED BY <1>4, <1>5, <1>6

LEMMA Evictions ==
  ASSUME WorldTypeOK, Dated, Bounced, ReadySince
  PROVE  EvictionsAreCounted
<1> DEFINE a == ready_label_applied_at
<1>1. EVICTION_LOOP_MIN \in Nat
  BY Numbers
<1>2. detect_eviction_loops <=>
        ~pr.draft /\ a # Never /\ EVICTION_LOOP_MIN <= Cardinality(EvictedSince(a))
  BY DEF detect_eviction_loops, EvictedSince
<1>3. ASSUME detect_eviction_loops PROVE Cardinality(BouncedFrom(0)) >= EVICTION_LOOP_MIN
  <2>1. /\ Cardinality(EvictedSince(a)) <= Cardinality(BouncedFrom(0))
        /\ EVICTION_LOOP_MIN <= Cardinality(EvictedSince(a))
        /\ Cardinality(EvictedSince(a)) \in Nat /\ Cardinality(BouncedFrom(0)) \in Nat
    BY <1>2, <1>3, Applied, Counted
  <2> QED BY <1>1, <2>1
<1>4. ASSUME ~pr.draft, ready # Never,
             Cardinality(BouncedFrom(ready + 1)) >= EVICTION_LOOP_MIN
      PROVE  detect_eviction_loops
  <2>1. Ready /\ a # Never /\ a <= ready
    BY <1>4 DEF ReadySince, Ready
  <2>2. ready \in Nat /\ a \in Nat
    BY <1>4, <2>1, Applied, Numbers, Typed DEF TypeParts
  <2>3. /\ Cardinality(BouncedFrom(ready + 1)) <= Cardinality(EvictedSince(a))
        /\ Cardinality(EvictedSince(a)) \in Nat
        /\ Cardinality(BouncedFrom(ready + 1)) \in Nat
    <3>1. ready + 1 \in Nat
      BY <2>2
    <3> QED BY <2>1, <2>2, <3>1, Counted
  <2>4. EVICTION_LOOP_MIN <= Cardinality(EvictedSince(a))
    BY <1>1, <1>4, <2>3
  <2> QED BY <1>2, <1>4, <2>1, <2>4
<1> QED BY <1>3, <1>4, Raising DEF EvictionsAreCounted, BouncedFrom

LEMMA BuildStarted ==
  ASSUME NEW rs \in Seq(Runs), NEW state, NEW lost, NEW t \in Times,
         Traced(rs, state, lost)
  PROVE  Traced(<<Started(t)>> \o rs, state, lost)
<1> DEFINE new == <<Started(t)>> \o rs
<1>1. Started(t) \in Runs /\ Started(t).conclusion = "none"
  BY DEF Started, Runs, Conclusions
<1>2. /\ DOMAIN new = 1..(Len(rs) + 1) /\ new[1] = Started(t)
      /\ \A i \in 1..Len(rs) : new[i + 1] = rs[i]
  BY <1>1, Prepended
<1>3. DOMAIN rs = 1..Len(rs) /\ Len(rs) \in Nat
  OBVIOUS
<1> HIDE DEF new
<1>4. ASSUME NEW i \in DOMAIN new PROVE i = 1 \/ (i - 1 \in DOMAIN rs /\ new[i] = rs[i - 1])
  <2>1. i = 1 \/ (i - 1 \in 1..Len(rs) /\ (i - 1) + 1 = i)
    BY <1>2, <1>3
  <2> QED BY <1>2, <1>3, <2>1
<1>5. \A i \in DOMAIN new : ~new[i].completed => new[i].conclusion = "none"
  BY <1>1, <1>2, <1>4 DEF Traced
<1>6. \A i \in Verdicts(new) : i - 1 \in Verdicts(rs)
  BY <1>1, <1>2, <1>4 DEF Verdicts
<1>7. ASSUME NEW i \in Verdicts(rs), NEW k \in Verdicts(new), \A j \in Verdicts(rs) : i <= j
      PROVE  i + 1 <= k
  <2>1. i \in Nat /\ k \in Nat /\ i <= k - 1
    BY <1>2, <1>3, <1>6, <1>7 DEF Verdicts
  <2> QED BY <2>1
<1>8. ASSUME NEW i \in Verdicts(rs) PROVE i + 1 \in Verdicts(new) /\ new[i + 1] = rs[i]
  <2>1. i \in 1..Len(rs) /\ i + 1 \in 1..(Len(rs) + 1)
    BY <1>3 DEF Verdicts
  <2> QED BY <1>2, <2>1 DEF Verdicts
<1>9. ASSUME state = "none"
      PROVE  IF lost = Never THEN Verdicts(new) = {}
             ELSE \E i \in DOMAIN new : NewestRun(i, Verdicts(new)) /\ new[i].at = lost
  <2>1. CASE lost = Never
    BY <1>6, <1>9, <2>1 DEF Traced
  <2>2. CASE lost # Never
    <3>1. PICK i \in DOMAIN rs : NewestRun(i, Verdicts(rs)) /\ rs[i].at = lost
      BY <1>9, <2>2 DEF Traced
    <3>2. i + 1 \in Verdicts(new) /\ new[i + 1].at = lost
      BY <1>8, <3>1 DEF NewestRun
    <3>3. \A k \in Verdicts(new) : i + 1 <= k
      BY <1>7, <3>1 DEF NewestRun
    <3> QED BY <2>2, <3>2, <3>3 DEF NewestRun, Verdicts
  <2> QED BY <2>1, <2>2
<1> QED BY <1>5, <1>9 DEF Traced, new

LEMMA BuildConcluded ==
  ASSUME NEW rs \in Seq(Runs), NEW state, NEW lost, NEW t \in Times,
         NEW c \in Conclusions \ {"none"}, 1 \in DOMAIN rs, ~rs[1].completed,
         Traced(rs, state, lost),
         NEW r, r = [completed |-> TRUE, conclusion |-> c, at |-> t],
         NEW new, new = [rs EXCEPT ![1] = r]
  PROVE  /\ c # "cancelled" => Traced(new, state, t)
         /\ c = "cancelled" => Traced(new, state, lost)
         /\ state # "none" => Traced(new, state, lost)
<1>1. r.completed /\ r.conclusion = c /\ r.at = t
  OBVIOUS
<1>2. /\ DOMAIN new = DOMAIN rs /\ new[1] = r
      /\ \A i \in DOMAIN rs \ {1} : new[i] = rs[i]
  OBVIOUS
<1>3. DOMAIN rs = 1..Len(rs) /\ Len(rs) \in Nat /\ \A i \in DOMAIN rs : 1 <= i
  OBVIOUS
<1>4. rs[1].conclusion = "none" /\ 1 \notin Verdicts(rs)
  BY DEF Traced, Verdicts
<1>5. \A i \in DOMAIN new : ~new[i].completed => new[i].conclusion = "none"
  BY <1>1, <1>2 DEF Traced
<1>6. ASSUME c # "cancelled" PROVE NewestRun(1, Verdicts(new))
  BY <1>1, <1>2, <1>3, <1>6 DEF Verdicts, NewestRun
<1>7. ASSUME c = "cancelled" PROVE Verdicts(new) = Verdicts(rs)
  BY <1>1, <1>2, <1>4, <1>7 DEF Verdicts
<1>8. Never \notin Times
  BY Numbers
<1>9. c # "cancelled" => Traced(new, state, t)
  BY <1>1, <1>2, <1>5, <1>6, <1>8 DEF Traced
<1>10. c = "cancelled" => Traced(new, state, lost)
  <2> SUFFICES ASSUME c = "cancelled" PROVE Traced(new, state, lost)
    OBVIOUS
  <2>1. \A i \in Verdicts(rs) : i \in DOMAIN rs /\ new[i] = rs[i]
    BY <1>2, <1>4 DEF Verdicts
  <2>2. state = "none" => IF lost = Never THEN Verdicts(new) = {}
          ELSE \E i \in DOMAIN new : NewestRun(i, Verdicts(new)) /\ new[i].at = lost
    BY <1>2, <1>7, <2>1 DEF Traced, NewestRun
  <2> QED BY <1>5, <2>2 DEF Traced
<1>11. state # "none" => Traced(new, state, lost)
  BY <1>5 DEF Traced
<1> QED BY <1>9, <1>10, <1>11

LEMMA ReportedStep ==
  ASSUME WorldTypeOK, AllReported, [WorldNext]_worldVars
  PROVE  AllReported'
<1>0. /\ PrTypes /\ runs \in [Heads -> Seq(Runs)] /\ now \in Times
      /\ reported \in [Heads -> {"none", "success", "failure"}]
      /\ status \in [Heads -> Statuses]
      /\ ghost \in Ghosts /\ pr.head \in Heads
  BY Typed DEF TypeParts, PrTypes, PullRequests
<1>1. ASSUME UNCHANGED <<status, reported, runs>>, ghost'.lost = ghost.lost
      PROVE  AllReported'
  BY <1>1 DEF AllReported, Reported
<1>2. CASE PrStep
  <2>1. CASE Push \/ MoveBranch \/ Edit \/ GuardReports
    BY <1>1, <2>1 DEF Push, MoveBranch, Edit, GuardReports
  <2>2. CASE Evict \/ \E event \in {"labeled", "unlabeled"} : Label(event)
    <3>1. ghost'.lost = ghost.lost
      BY <1>0, <2>2 DEF Evict, Label, Ghosts
    <3> QED BY <1>1, <2>2, <3>1 DEF Evict, Label
  <2>3. CASE BuildStarts
    <3>1. /\ UNCHANGED <<reported, status, ghost>>
          /\ runs' = [runs EXCEPT ![pr.head] = <<Started(now)>> \o @]
      BY <2>3 DEF BuildStarts
    <3>2. /\ runs'[pr.head] = <<Started(now)>> \o runs[pr.head]
          /\ \A h \in Heads \ {pr.head} : runs'[h] = runs[h]
      BY <1>0, <3>1
    <3>3. Traced(runs'[pr.head], status[pr.head].state, ghost.lost[pr.head])
      <4>1. runs[pr.head] \in Seq(Runs)
        BY <1>0
      <4>2. Traced(runs[pr.head], status[pr.head].state, ghost.lost[pr.head])
        BY <1>0 DEF AllReported, Reported
      <4> QED BY <1>0, <3>2, <4>1, <4>2, BuildStarted
    <3> QED BY <3>1, <3>2, <3>3 DEF AllReported, Reported
  <2>4. ASSUME NEW h \in Heads, NEW state \in {"success", "failure"}, BuildReports(h, state)
        PROVE  AllReported'
    <3>1. /\ UNCHANGED <<runs, ghost>> /\ status'[h].state # "none"
          /\ \A j \in Heads \ {h} : reported'[j] = reported[j] /\ status'[j] = status[j]
      BY <1>0, <2>4 DEF BuildReports
    <3>2. Reported(h)'
      BY <3>1 DEF AllReported, Reported, Traced
    <3> QED BY <3>1, <3>2 DEF AllReported, Reported
  <2>5. ASSUME NEW h \in Heads, NEW c \in Conclusions \ {"none"}, BuildConcludes(h, c)
        PROVE  AllReported'
    <3> DEFINE r == [completed |-> TRUE, conclusion |-> c, at |-> now]
    <3>1. /\ runs[h] # <<>> /\ ~Head(runs[h]).completed /\ status' = status
          /\ runs' = [runs EXCEPT ![h][1] = r]
          /\ reported' = [reported EXCEPT ![h] = "none"]
          /\ ghost' = IF c = "failure" /\ reported[h] = "none"
                      THEN [ghost EXCEPT !.lost[h] = now] ELSE ghost
          /\ c = "success" => reported[h] = "success"
      BY <2>5 DEF BuildConcludes, Builds
    <3> HIDE DEF r
    <3>2. /\ runs'[h] = [runs[h] EXCEPT ![1] = r] /\ reported'[h] = "none"
          /\ \A j \in Heads \ {h} : runs'[j] = runs[j] /\ reported'[j] = reported[j]
      BY <1>0, <3>1
    <3>3. runs[h] \in Seq(Runs) /\ 1 \in DOMAIN runs[h] /\ ~runs[h][1].completed
      BY <1>0, <3>1, Nonempty
    <3>4. Traced(runs[h], status[h].state, ghost.lost[h])
          /\ (reported[h] # "none" => status[h].state # "none")
      BY DEF AllReported, Reported
    <3>5. /\ c # "cancelled" => Traced(runs'[h], status[h].state, now)
          /\ c = "cancelled" => Traced(runs'[h], status[h].state, ghost.lost[h])
          /\ status[h].state # "none" => Traced(runs'[h], status[h].state, ghost.lost[h])
      BY <1>0, <3>2, <3>3, <3>4, BuildConcluded DEF r
    <3>6. CASE c = "failure" /\ reported[h] = "none"
      <4>1. ghost'.lost[h] = now /\ \A j \in Heads \ {h} : ghost'.lost[j] = ghost.lost[j]
        BY <1>0, <3>1, <3>6 DEF Ghosts
      <4> QED BY <3>1, <3>2, <3>5, <3>6, <4>1 DEF AllReported, Reported
    <3>7. CASE ~(c = "failure" /\ reported[h] = "none")
      <4>1. ghost' = ghost /\ (c = "cancelled" \/ reported[h] # "none")
        BY <3>1, <3>7 DEF Conclusions
      <4> QED BY <3>1, <3>2, <3>4, <3>5, <4>1 DEF AllReported, Reported
    <3> QED BY <3>6, <3>7
  <2> QED BY <1>2, <2>1, <2>2, <2>3, <2>4, <2>5 DEF PrStep
<1>3. CASE MainStep
  <2>1. ghost'.lost = ghost.lost
    BY <1>0, <1>3 DEF MainStep, MainPush, MainRunsAgain, MainConcludes, Ghosts
  <2> QED BY <1>1, <1>3, <2>1, MainFrame DEF prWorld
<1>4. CASE WatchStep
  <2>1. ghost'.lost = ghost.lost
    BY <1>0, <1>4 DEF WatchStep, PushBump, Issues, CronFires, OtherRun, Switch, BumpBuilds,
                      EndBump, Ghosts
  <2> QED BY <1>1, <1>4, <2>1, WatchFrame DEF prWorld
<1>5. CASE Tick
  BY <1>1, <1>5 DEF Tick, prWorld
<1>6. CASE UNCHANGED worldVars
  BY <1>1, <1>6 DEF worldVars, prWorld
<1> QED BY <1>2, <1>3, <1>4, <1>5, <1>6, Steps DEF WorldNext

LEMMA HasOldest ==
  ASSUME NEW S \in SUBSET Nat, S # {}
  PROVE  NewestRun(Oldest(S), S)
<1> DEFINE R == OpToRel(<, Nat)
<1>1. IsWellFoundedOn(R, Nat)
  BY NatLessThanWellFounded DEF R
<1>2. PICK i \in S : \A k \in S : <<k, i>> \notin R
  <2> HIDE DEF R
  <2> QED BY <1>1, WFMin
<1>3. ASSUME NEW k \in S PROVE i <= k
  <2>1. ~(k < i)
    BY <1>2 DEF OpToRel
  <2> QED BY <2>1
<1> QED BY <1>3 DEF NewestRun, Oldest

LEMMA OldestIs ==
  ASSUME NEW S \in SUBSET Nat, NEW i, NewestRun(i, S)
  PROVE  Oldest(S) = i
<1>1. NewestRun(Oldest(S), S)
  BY HasOldest DEF NewestRun
<1>2. Oldest(S) <= i /\ i <= Oldest(S) /\ i \in Nat /\ Oldest(S) \in Nat
  BY <1>1 DEF NewestRun
<1> QED BY <1>2

LEMMA Missing ==
  ASSUME WorldTypeOK, AllReported
  PROVE  MissingIsWedged
<1> DEFINE rs == runs[pr.head]
           lost == ghost.lost[pr.head]
           H == MISSING_STATUS_HOURS
<1>1. rs \in Seq(Runs) /\ now \in Nat /\ H \in Nat /\ DOMAIN rs \subseteq Nat
  <2>1. rs \in Seq(Runs) /\ now \in Times
    BY Typed DEF TypeParts, PrTypes, PullRequests
  <2>2. DOMAIN rs = 1..Len(rs) /\ Len(rs) \in Nat
    <3> HIDE DEF rs
    <3> QED BY <2>1
  <2>3. DOMAIN rs \subseteq Nat
    <3> HIDE DEF rs
    <3> QED BY <2>2
  <2> QED BY <2>1, <2>3, Numbers
<1>2. Traced(rs, status[pr.head].state, lost)
  BY Typed DEF AllReported, Reported, TypeParts, PrTypes, PullRequests
<1>3. detect_missing_required_status <=>
        /\ ~pr.draft /\ status[pr.head].state = "none"
        /\ \A i \in DOMAIN rs : rs[i].completed
        /\ Verdicts(rs) # {} /\ now - rs[Oldest(Verdicts(rs))].at >= H
  BY DEF detect_missing_required_status, hours_since
<1>4. Verdicts(rs) \in SUBSET Nat /\ \A i \in DOMAIN rs : rs[i].at \in Nat
  <2>1. \A i \in DOMAIN rs : rs[i] \in Runs
    BY <1>1
  <2>2. \A i \in DOMAIN rs : rs[i].at \in Nat
    BY <2>1, Numbers DEF Runs
  <2> QED BY <1>1, <2>2 DEF Verdicts
<1> HIDE DEF rs, lost, H
<1>5. CASE status[pr.head].state = "none"
  <2>1. CASE lost = Never
    <3>1. Verdicts(rs) = {}
      BY <1>2, <1>5, <2>1 DEF Traced
    <3> QED BY <1>3, <2>1, <3>1, Raising DEF MissingIsWedged, lost
  <2>2. CASE lost # Never
    <3>1. PICK i \in DOMAIN rs : NewestRun(i, Verdicts(rs)) /\ rs[i].at = lost
      BY <1>2, <1>5, <2>2 DEF Traced
    <3>2. Oldest(Verdicts(rs)) = i /\ Verdicts(rs) # {}
      BY <1>4, <3>1, OldestIs DEF NewestRun
    <3>3. detect_missing_required_status <=>
            ~pr.draft /\ (\A j \in DOMAIN rs : rs[j].completed) /\ now - lost >= H
      BY <1>3, <1>5, <3>1, <3>2
    <3> QED BY <1>5, <2>2, <3>3, Raising DEF MissingIsWedged, lost, rs, H
  <2> QED BY <2>1, <2>2
<1>6. CASE status[pr.head].state # "none"
  BY <1>3, <1>6, Raising DEF MissingIsWedged
<1> QED BY <1>5, <1>6

-------------------------------------------------------------------------------
(* Main                                                                    *)

LEMMA MainTypes ==
  ASSUME WorldTypeOK
  PROVE  /\ ci \in Seq(MainRuns) /\ DOMAIN ci = 1..Len(ci) /\ Len(ci) \in Nat
         /\ ghost \in Ghosts
BY Typed DEF TypeParts

LEMMA MainPushed ==
  ASSUME WorldTypeOK, MainInOrder, RedHasARun, MainPush
  PROVE  MainInOrder' /\ RedHasARun'
<1> DEFINE new == [going |-> TRUE, conclusion |-> "none"]
           gone == [going |-> FALSE, conclusion |-> "cancelled"]
           older == [i \in DOMAIN ci |->
                       IF ci[i].going /\ \E k \in Going : i < k THEN gone ELSE ci[i]]
<1>1. /\ DOMAIN ci = 1..Len(ci) /\ Len(ci) \in Nat
      /\ \A i \in DOMAIN ci : ci[i] \in MainRuns
  BY MainTypes
<1>2. ci' = <<new>> \o older /\ ghost' = ghost
  BY DEF MainPush
<1>3. new \in MainRuns /\ gone \in MainRuns /\ new.conclusion = "none"
      /\ ~gone.going /\ gone.conclusion = "cancelled"
  BY DEF MainRuns, Conclusions
<1> HIDE DEF new, gone
<1>4. older \in Seq(MainRuns) /\ Len(older) = Len(ci)
  <2>1. older \in [1..Len(ci) -> MainRuns]
    BY <1>1, <1>3
  <2> HIDE DEF older
  <2> QED BY <1>1, <2>1
<1>5. \A i \in DOMAIN ci : older[i] = ci[i] \/ (older[i] = gone /\ ci[i].going)
  OBVIOUS
<1> HIDE DEF older
<1>6. /\ DOMAIN ci' = 1..(Len(ci) + 1) /\ ci'[1] = new
      /\ \A i \in 1..Len(ci) : ci'[i + 1] = older[i]
  BY <1>2, <1>3, <1>4, Prepended
<1>7. ASSUME NEW j \in DOMAIN ci'
      PROVE  j = 1 \/ (j - 1 \in DOMAIN ci /\ ci'[j] = older[j - 1])
  <2>1. j = 1 \/ (j - 1 \in 1..Len(ci) /\ (j - 1) + 1 = j)
    BY <1>1, <1>6
  <2> QED BY <1>1, <1>6, <2>1
<1>8. MainInOrder'
  <2>1. ASSUME NEW j \in DOMAIN ci', ci'[j].going, NEW k \in 1..(j - 1)
        PROVE  ci'[k].conclusion \in {"none", "cancelled"}
    <3>1. j - 1 \in DOMAIN ci /\ ci'[j] = older[j - 1] /\ k \in DOMAIN ci'
      <4>1. j \in 1..(Len(ci) + 1) /\ j # 1
        BY <1>6, <2>1
      <4>2. k \in 1..(Len(ci) + 1)
        BY <1>1, <2>1, <4>1
      <4> QED BY <1>6, <1>7, <4>1, <4>2
    <3>2. ci[j - 1].going
      BY <1>3, <1>5, <2>1, <3>1
    <3>3. CASE k = 1
      BY <1>3, <1>6, <3>3
    <3>4. CASE k # 1
      <4>1. k - 1 \in DOMAIN ci /\ ci'[k] = older[k - 1]
        BY <1>7, <3>1, <3>4
      <4>2. k - 1 \in 1..((j - 1) - 1)
        BY <1>1, <1>6, <2>1, <3>1, <3>4, <4>1
      <4>3. ci[k - 1].conclusion \in {"none", "cancelled"}
        BY <3>1, <3>2, <4>2 DEF MainInOrder
      <4> QED BY <1>3, <1>5, <4>1, <4>3
    <3> QED BY <3>3, <3>4
  <2>2. ASSUME NEW j \in DOMAIN ci', ci'[j].going PROVE ci'[j].conclusion = "none"
    BY <1>3, <1>5, <1>6, <1>7, <2>2 DEF MainInOrder
  <2> QED BY <2>1, <2>2 DEF MainInOrder
<1>9. RedHasARun'
  <2> SUFFICES ASSUME ghost.red PROVE \E i \in DOMAIN ci' : RedRun(i)'
    BY <1>2 DEF RedHasARun
  <2>1. PICK i \in DOMAIN ci : RedRun(i)
    BY DEF RedHasARun
  <2>2. older[i] = ci[i] /\ i + 1 \in DOMAIN ci' /\ ci'[i + 1] = ci[i] /\ i \in Nat
    <3>1. ~ci[i].going
      BY <2>1 DEF RedRun, MainInOrder
    <3>2. i \in 1..Len(ci) /\ i + 1 \in 1..(Len(ci) + 1)
      BY <1>1
    <3> QED BY <1>5, <1>6, <3>1, <3>2
  <2>3. ASSUME NEW k \in 1..((i + 1) - 1) PROVE ci'[k].conclusion # "success"
    <3>1. k \in DOMAIN ci' /\ k \in Nat /\ k <= i
      BY <1>1, <1>6, <2>2
    <3>2. CASE k = 1
      BY <1>3, <1>6, <3>2
    <3>3. CASE k # 1
      <4>1. k - 1 \in DOMAIN ci /\ ci'[k] = older[k - 1] /\ k - 1 \in 1..(i - 1)
        BY <1>1, <1>7, <2>2, <3>1, <3>3
      <4> QED BY <1>3, <1>5, <2>1, <4>1 DEF RedRun
    <3> QED BY <3>2, <3>3
  <2> QED BY <2>1, <2>2, <2>3 DEF RedRun
<1> QED BY <1>8, <1>9

LEMMA MainConcluded ==
  ASSUME WorldTypeOK, MainInOrder, RedHasARun, NEW c \in Conclusions \ {"none"}, MainConcludes(c)
  PROVE  MainInOrder' /\ RedHasARun'
<1>1. PICK i \in Going : /\ \A k \in Going : k <= i
                         /\ ci' = [ci EXCEPT ![i] = [going |-> FALSE, conclusion |-> c]]
  BY DEF MainConcludes
<1>2. /\ DOMAIN ci = 1..Len(ci) /\ Len(ci) \in Nat /\ ghost \in Ghosts
      /\ i \in DOMAIN ci /\ ci[i].going /\ i \in Nat
  BY <1>1, MainTypes DEF Going
<1>3. /\ DOMAIN ci' = DOMAIN ci /\ ci'[i] = [going |-> FALSE, conclusion |-> c]
      /\ \A k \in DOMAIN ci \ {i} : ci'[k] = ci[k]
  BY <1>1, <1>2, MainTypes
<1>4. \A j \in DOMAIN ci : \A k \in 1..(j - 1) : k \in DOMAIN ci /\ k # j /\ k < j
  BY <1>2
<1>5. MainInOrder'
  <2> SUFFICES ASSUME NEW j \in DOMAIN ci, ci'[j].going
               PROVE  /\ ci'[j].conclusion = "none"
                      /\ \A k \in 1..(j - 1) : ci'[k].conclusion \in {"none", "cancelled"}
    BY <1>3 DEF MainInOrder
  <2>1. j # i /\ ci[j].going
    BY <1>3
  <2>2. j <= i /\ j \in Nat
    BY <1>1, <1>2, <2>1 DEF Going
  <2>3. \A k \in 1..(j - 1) : k # i
    BY <1>2, <2>2
  <2> QED BY <1>3, <1>4, <2>1, <2>3 DEF MainInOrder
<1>6. CASE c = "failure"
  <2>1. \A k \in 1..(i - 1) : ci'[k].conclusion # "success"
    BY <1>2, <1>3, <1>4 DEF MainInOrder
  <2>2. ci'[i].conclusion = "failure" /\ i \in DOMAIN ci'
    BY <1>2, <1>3, <1>6
  <2>3. RedRun(i)'
    BY <2>1, <2>2 DEF RedRun
  <2> QED BY <1>5, <2>2, <2>3 DEF RedHasARun
<1>7. CASE c = "success"
  <2>1. ghost' = [ghost EXCEPT !.red = FALSE]
    BY <1>7 DEF MainConcludes
  <2>2. ~ghost'.red
    BY <1>2, <2>1 DEF Ghosts
  <2> QED BY <1>5, <2>2 DEF RedHasARun
<1>8. CASE c = "cancelled"
  <2>1. ghost' = ghost
    BY <1>8 DEF MainConcludes
  <2> SUFFICES ASSUME ghost.red PROVE \E j \in DOMAIN ci' : RedRun(j)'
    BY <1>5, <2>1 DEF RedHasARun
  <2>2. PICK j \in DOMAIN ci : RedRun(j)
    BY DEF RedHasARun
  <2>3. j # i
    BY <1>2, <2>2 DEF RedRun, MainInOrder
  <2>4. ci'[j].conclusion = "failure"
    BY <1>3, <2>2, <2>3 DEF RedRun
  <2>5. \A k \in 1..(j - 1) : ci'[k].conclusion # "success"
    BY <1>3, <1>4, <1>8, <2>2 DEF RedRun
  <2> QED BY <1>3, <2>4, <2>5 DEF RedRun
<1> QED BY <1>6, <1>7, <1>8 DEF Conclusions

LEMMA MainRanAgain ==
  ASSUME WorldTypeOK, MainInOrder, MainRunsAgain
  PROVE  MainInOrder' /\ RedHasARun'
<1>1. PICK i \in DOMAIN ci :
          /\ \A k \in 1..(i - 1) : ci[k].conclusion = "cancelled"
          /\ ci' = [ci EXCEPT ![i] = [going |-> TRUE, conclusion |-> "none"]]
  BY DEF MainRunsAgain
<1>2. /\ DOMAIN ci = 1..Len(ci) /\ Len(ci) \in Nat /\ ghost \in Ghosts
      /\ \A k \in DOMAIN ci : ~ci[k].going
  BY MainTypes DEF MainRunsAgain, Going
<1>3. /\ DOMAIN ci' = DOMAIN ci /\ ci'[i] = [going |-> TRUE, conclusion |-> "none"]
      /\ \A k \in DOMAIN ci \ {i} : ci'[k] = ci[k]
  BY <1>1, <1>2, MainTypes
<1>4. \A k \in 1..(i - 1) : k \in DOMAIN ci /\ k # i
  BY <1>2
<1>5. \A j \in DOMAIN ci' : ci'[j].going => j = i
  BY <1>2, <1>3
<1>6. MainInOrder'
  BY <1>1, <1>3, <1>4, <1>5 DEF MainInOrder
<1>7. ghost' = [ghost EXCEPT !.red = FALSE]
  BY DEF MainRunsAgain
<1>8. ~ghost'.red
  BY <1>2, <1>7 DEF Ghosts
<1> QED BY <1>6, <1>8 DEF RedHasARun

LEMMA MainInvStep ==
  ASSUME WorldTypeOK, MainInOrder, RedHasARun, [WorldNext]_worldVars
  PROVE  MainInOrder' /\ RedHasARun'
<1>1. ASSUME UNCHANGED ci, ghost'.red = ghost.red PROVE MainInOrder' /\ RedHasARun'
  BY <1>1 DEF MainInOrder, RedHasARun, RedRun
<1>2. CASE PrStep
  <2>1. ghost'.red = ghost.red
    BY <1>2, MainTypes DEF PrStep, Push, MoveBranch, Edit, BuildStarts, GuardReports, Evict, BuildReports,
                           BuildConcludes, Label, Ghosts
  <2> QED BY <1>1, <1>2, <2>1, PrFrame
<1>3. CASE MainStep
  BY <1>3, MainPushed, MainConcluded, MainRanAgain DEF MainStep
<1>4. CASE WatchStep
  <2>1. ghost'.red = ghost.red
    BY <1>4, MainTypes DEF WatchStep, PushBump, Issues, CronFires, OtherRun, Switch,
                           BumpBuilds, EndBump, Ghosts
  <2> QED BY <1>1, <1>4, <2>1, WatchFrame
<1>5. CASE Tick
  BY <1>1, <1>5 DEF Tick
<1>6. CASE UNCHANGED worldVars
  BY <1>1, <1>6 DEF worldVars
<1> QED BY <1>2, <1>3, <1>4, <1>5, <1>6, Steps DEF WorldNext

LEMMA Red ==
  ASSUME WorldTypeOK, RedHasARun
  PROVE  RedIsKept
<1> SUFFICES ASSUME ghost.red PROVE detect_main_red # "clear"
  BY DEF RedIsKept
<1>1. PICK i \in DOMAIN ci : RedRun(i)
  BY DEF RedHasARun
<1>2. DOMAIN ci = 1..Len(ci) /\ Len(ci) \in Nat /\ i \in Nat /\ MAIN_CI_WINDOW \in Nat
  BY MainTypes, Numbers
<1>3. CASE Conclusive # {}
  <2> DEFINE j == Oldest(Conclusive)
  <2>1. Conclusive \in SUBSET Nat
    BY <1>2 DEF Conclusive, Window
  <2>2. j \in Conclusive /\ \A k \in Conclusive : j <= k
    BY <1>3, <2>1, HasOldest DEF NewestRun
  <2>3. j \in DOMAIN ci /\ j <= MAIN_CI_WINDOW /\ ci[j].conclusion \in {"success", "failure"}
    BY <2>2 DEF Conclusive, Window
  <2> HIDE DEF j
  <2>4. j <= i
    <3>1. CASE i <= MAIN_CI_WINDOW
      BY <1>1, <2>2, <3>1 DEF Conclusive, Window, RedRun
    <3>2. CASE ~(i <= MAIN_CI_WINDOW)
      BY <1>2, <2>3, <3>2
    <3> QED BY <3>1, <3>2
  <2>5. ci[j].conclusion = "failure"
    <3>1. j = i \/ j \in 1..(i - 1)
      BY <1>2, <2>3, <2>4
    <3> QED BY <1>1, <2>3, <3>1 DEF RedRun
  <2> QED BY <1>3, <2>5 DEF detect_main_red, j
<1>4. CASE Conclusive = {}
  <2>1. i > MAIN_CI_WINDOW
    BY <1>1, <1>2, <1>4 DEF Conclusive, Window, RedRun
  <2>2. Window = 1..MAIN_CI_WINDOW
    BY <1>2, <2>1 DEF Window
  <2>3. Cardinality(Window) = MAIN_CI_WINDOW
    BY <1>2, <2>2, FS_Interval, Numbers
  <2> QED BY <1>4, <2>3 DEF detect_main_red
<1> QED BY <1>3, <1>4

-------------------------------------------------------------------------------
(* The bump and the cron                                                   *)

LEMMA WatchTypes ==
  ASSUME WorldTypeOK
  PROVE  /\ watch \in Watches /\ ghost \in Ghosts
         /\ watch.cron \in Seq(CronRuns)
         /\ DOMAIN watch.cron = 1..Len(watch.cron) /\ Len(watch.cron) \in Nat
         /\ now \in Nat /\ ghost.fired \in Nat
         /\ watch.bump \in Times \cup {Never} /\ ghost.wedged \in Times \cup {Never}
<1>1. watch \in Watches /\ ghost \in Ghosts /\ now \in Times
  BY Typed DEF TypeParts
<1>2. watch.cron \in Seq(CronRuns) /\ watch.bump \in Times \cup {Never}
  BY <1>1 DEF Watches
<1>3. ghost.fired \in Times /\ ghost.wedged \in Times \cup {Never}
  BY <1>1 DEF Ghosts
<1>4. DOMAIN watch.cron = 1..Len(watch.cron) /\ Len(watch.cron) \in Nat
  BY <1>2, LenProperties
<1>5. now \in Nat /\ ghost.fired \in Nat
  BY <1>1, <1>3, Numbers
<1> QED BY <1>1, <1>2, <1>3, <1>4, <1>5

LEMMA WedgeStep ==
  ASSUME WorldTypeOK, Dated, WedgeIsYounger, [WorldNext]_worldVars
  PROVE  WedgeIsYounger'
<1> USE DEF WedgeIsYounger
<1>1. ASSUME watch'.bump = watch.bump, ghost'.wedged = ghost.wedged PROVE WedgeIsYounger'
  BY <1>1
<1>2. CASE PrStep
  <2>1. ghost'.wedged = ghost.wedged
    BY <1>2, WatchTypes DEF PrStep, Push, MoveBranch, Edit, BuildStarts, GuardReports, Evict, BuildReports,
                            BuildConcludes, Label, Ghosts
  <2> QED BY <1>1, <1>2, <2>1, PrFrame
<1>3. CASE MainStep
  <2>1. ghost'.wedged = ghost.wedged
    BY <1>3, WatchTypes DEF MainStep, MainPush, MainRunsAgain, MainConcludes, Ghosts
  <2> QED BY <1>1, <1>3, <2>1, MainFrame
<1>4. CASE WatchStep
  <2>1. CASE PushBump
    <3>1. ghost' = ghost /\ watch'.bump = IF watch.bump = Never THEN now ELSE watch.bump
      BY <2>1, WatchTypes DEF PushBump, WatchEvent, Watches
    <3> QED BY <3>1
  <2>2. CASE Issues
    <3>1. ghost' = ghost /\ watch'.bump = watch.bump
      BY <2>2, WatchTypes DEF Issues, WatchEvent, Watches
    <3> QED BY <1>1, <3>1
  <2>3. CASE CronFires \/ OtherRun \/ Switch
    <3>1. ghost'.wedged = ghost.wedged /\ watch'.bump = watch.bump
      BY <2>3, WatchTypes DEF CronFires, OtherRun, Switch, WatchEvent, Watches, Ghosts
    <3> QED BY <1>1, <3>1
  <2>4. ASSUME NEW state \in {"success", "failure"}, BumpBuilds(state)
        PROVE  WedgeIsYounger'
    <3>1. /\ watch.bump # Never /\ watch'.bump = watch.bump
          /\ ghost'.wedged = IF state = "success" THEN Never
                             ELSE IF ghost.wedged = Never THEN now ELSE ghost.wedged
      BY <2>4, WatchTypes DEF BumpBuilds, WatchEvent, Watches, Ghosts
    <3>2. watch.bump <= now
      BY <3>1 DEF Dated
    <3> QED BY <3>1, <3>2
  <2>5. ASSUME NEW merged \in BOOLEAN, EndBump(merged) PROVE WedgeIsYounger'
    <3>1. ghost'.wedged = Never
      BY <2>5, WatchTypes DEF EndBump, Ghosts
    <3> QED BY <3>1
  <2> QED BY <1>4, <2>1, <2>2, <2>3, <2>4, <2>5 DEF WatchStep
<1>5. CASE Tick
  BY <1>1, <1>5 DEF Tick
<1>6. CASE UNCHANGED worldVars
  BY <1>1, <1>6 DEF worldVars
<1> QED BY <1>2, <1>3, <1>4, <1>5, <1>6, Steps DEF WorldNext

LEMMA BumpWedge ==
  ASSUME WorldTypeOK, WedgeIsYounger
  PROVE  BumpWedgeIsSeen
<1> SUFFICES ASSUME watch.build = "failure", ghost.wedged # Never,
                    now - ghost.wedged >= BUMP_STUCK_HOURS
             PROVE  detect_stuck_bump
  BY Raising DEF BumpWedgeIsSeen
<1> DEFINE b == watch.bump
           w == ghost.wedged
           H == BUMP_STUCK_HOURS
<1>1. b # Never /\ b <= w
  BY DEF WedgeIsYounger
<1>2. b \in Nat /\ w \in Nat /\ now \in Nat /\ H \in Nat
  BY <1>1, WatchTypes, Numbers
<1>3. now - w >= H
  OBVIOUS
<1> HIDE DEF b, w, H
<1>4. now - b >= H
  BY <1>1, <1>2, <1>3
<1> QED BY <1>1, <1>4 DEF detect_stuck_bump, hours_since, b, H

LEMMA CronStep ==
  ASSUME WorldTypeOK, WorldTypeOK', CronFired, [WorldNext]_worldVars
  PROVE  CronFired'
<1>0. /\ watch \in Watches /\ ghost \in Ghosts /\ now \in Nat /\ ghost.fired \in Nat
      /\ now' \in Nat
  BY WatchTypes, Numbers, Typed DEF TypeParts
<1>1. ASSUME watch'.cron = watch.cron, ghost'.fired = ghost.fired, now' = now
      PROVE  CronFired'
  <2>1. Scheduled' = Scheduled
    BY <1>1 DEF Scheduled
  <2> QED BY <1>1, <2>1 DEF CronFired
<1>2. CASE PrStep
  <2>1. ghost'.fired = ghost.fired
    BY <1>0, <1>2 DEF PrStep, Push, MoveBranch, Edit, BuildStarts, GuardReports, Evict, BuildReports,
                      BuildConcludes, Label, Ghosts
  <2> QED BY <1>1, <1>2, <2>1, PrFrame
<1>3. CASE MainStep
  <2>1. ghost'.fired = ghost.fired
    BY <1>0, <1>3 DEF MainStep, MainPush, MainRunsAgain, MainConcludes, Ghosts
  <2> QED BY <1>1, <1>3, <2>1, MainFrame
<1>4. ASSUME NEW e \in CronRuns, watch'.cron = <<e>> \o watch.cron, now' = now,
             \/ e.event = "schedule" /\ e.at = now /\ ghost'.fired = now
             \/ e.event = "push" /\ ghost'.fired = ghost.fired
      PROVE  CronFired'
  <2> DEFINE s == watch.cron
             t == watch'.cron
             g == ghost.fired
             h == ghost'.fired
  <2>1. s \in Seq(CronRuns) /\ DOMAIN s = 1..Len(s) /\ Len(s) \in Nat
    BY WatchTypes
  <2>2. /\ DOMAIN t = 1..(Len(s) + 1) /\ t[1] = e
        /\ \A i \in 1..Len(s) : t[i + 1] = s[i]
    BY <1>4, <2>1, Prepended
  <2>3. /\ g <= now /\ g \in Nat /\ now \in Nat
        /\ \A i \in DOMAIN s : s[i].event = "schedule" => s[i].at <= g
    BY <1>0 DEF CronFired, Scheduled
  <2>4. \A i \in DOMAIN s : s[i].at \in Nat
    <3>1. \A i \in DOMAIN s : s[i] \in CronRuns
      BY <2>1
    <3> QED BY <3>1, Numbers DEF CronRuns
  <2>5. \/ e.event = "schedule" /\ e.at = now /\ h = now
        \/ e.event = "push" /\ h = g
    BY <1>4
  <2> HIDE DEF s, t, g, h
  <2>6. h <= now /\ g <= h /\ h \in Nat
    BY <2>3, <2>5
  <2>7. ASSUME NEW i \in DOMAIN t, t[i].event = "schedule" PROVE t[i].at <= h
    <3>1. CASE i = 1
      BY <2>2, <2>5, <2>6, <2>7, <3>1
    <3>2. CASE i # 1
      <4>1. i - 1 \in 1..Len(s) /\ (i - 1) + 1 = i
        BY <2>1, <2>2, <3>2
      <4>2. t[i] = s[i - 1]
        BY <2>2, <4>1
      <4>3. s[i - 1].at <= g /\ s[i - 1].at \in Nat
        BY <2>1, <2>3, <2>4, <2>7, <4>1, <4>2
      <4> QED BY <2>3, <2>6, <4>2, <4>3
    <3> QED BY <3>1, <3>2
  <2> QED BY <1>4, <2>6, <2>7 DEF CronFired, Scheduled, t, h
<1>5. CASE WatchStep
  <2>1. now' = now
    BY <1>5, WatchFrame
  <2>2. CASE CronFires
    <3> DEFINE e == [event |-> "schedule", at |-> now]
    <3>1. /\ e \in CronRuns /\ e.event = "schedule" /\ e.at = now
          /\ watch'.cron = <<e>> \o watch.cron
          /\ ghost'.fired = now
      BY <1>0, <2>2, Typed DEF CronFires, WatchEvent, Watches, Ghosts, CronRuns, TypeParts
    <3> HIDE DEF e
    <3> QED BY <1>4, <2>1, <3>1
  <2>3. CASE OtherRun
    <3> DEFINE e == [event |-> "push", at |-> now]
    <3>1. /\ e \in CronRuns /\ e.event = "push"
          /\ watch'.cron = <<e>> \o watch.cron
          /\ ghost'.fired = ghost.fired
      BY <1>0, <2>3, Typed DEF OtherRun, WatchEvent, Watches, Ghosts, CronRuns, TypeParts
    <3> HIDE DEF e
    <3> QED BY <1>4, <2>1, <3>1
  <2>4. CASE PushBump \/ Issues \/ Switch
    <3>1. watch'.cron = watch.cron /\ ghost' = ghost
      BY <1>0, <2>4 DEF PushBump, Issues, Switch, WatchEvent, Watches
    <3> QED BY <1>1, <2>1, <3>1
  <2>5. ASSUME NEW state \in {"success", "failure"}, BumpBuilds(state) PROVE CronFired'
    <3>1. watch'.cron = watch.cron /\ ghost'.fired = ghost.fired
      BY <1>0, <2>5 DEF BumpBuilds, WatchEvent, Watches, Ghosts
    <3> QED BY <1>1, <2>1, <3>1
  <2>6. ASSUME NEW merged \in BOOLEAN, EndBump(merged) PROVE CronFired'
    <3>1. watch'.cron = watch.cron /\ ghost'.fired = ghost.fired
      BY <1>0, <2>6 DEF EndBump, WatchEvent, Watches, Ghosts
    <3> QED BY <1>1, <2>1, <3>1
  <2> QED BY <1>5, <2>2, <2>3, <2>4, <2>5, <2>6 DEF WatchStep
<1>6. CASE Tick
  <2>1. watch' = watch /\ ghost' = ghost /\ now' = now + 1
    BY <1>6 DEF Tick
  <2>2. Scheduled' = Scheduled
    BY <2>1 DEF Scheduled
  <2>3. ghost.fired <= now + 1
    BY <1>0 DEF CronFired
  <2> QED BY <2>1, <2>2, <2>3 DEF CronFired
<1>7. CASE UNCHANGED worldVars
  BY <1>1, <1>7 DEF worldVars
<1> QED BY <1>2, <1>3, <1>5, <1>6, <1>7, Steps DEF WorldNext

LEMMA DeadCron ==
  ASSUME WorldTypeOK, CronFired
  PROVE  DeadCronIsSeen
<1> SUFFICES ASSUME now - ghost.fired >= SCHEDULER_HOURS, Scheduled # {}
             PROVE  hours_since(watch.cron[Oldest(Scheduled)].at) >= SCHEDULER_HOURS
  BY Raising DEF DeadCronIsSeen, detect_dead_schedulers
<1> DEFINE i == Oldest(Scheduled)
           t == watch.cron[i].at
           g == ghost.fired
           H == SCHEDULER_HOURS
<1>1. Scheduled \in SUBSET Nat
  BY WatchTypes DEF Scheduled
<1>2. i \in Scheduled
  BY <1>1, HasOldest DEF NewestRun
<1>3. t <= g
  BY <1>2 DEF CronFired
<1>4. t \in Nat /\ g \in Nat /\ now \in Nat /\ H \in Nat
  <2>1. i \in DOMAIN watch.cron
    BY <1>2 DEF Scheduled
  <2>2. watch.cron[i] \in CronRuns
    <3> HIDE DEF i
    <3> QED BY <2>1, WatchTypes
  <2>3. t \in Nat
    <3> HIDE DEF i
    <3> QED BY <2>2, Numbers DEF CronRuns
  <2> QED BY <2>3, WatchTypes, Numbers
<1>5. now - g >= H
  OBVIOUS
<1> HIDE DEF t, g, H
<1>6. now - t >= H
  BY <1>3, <1>4, <1>5
<1> QED BY <1>6 DEF hours_since, t, H

-------------------------------------------------------------------------------
(* The passing of time                                                     *)

LEMMA NextRaising ==
  /\ "stuck_bump" \in Alerts' <=> detect_stuck_bump'
  /\ "stale_pin" \in Alerts' <=> detect_stale_pin'
  /\ "stranded_pr" \in Alerts' <=> detect_stranded_prs'
  /\ "missing_status" \in Alerts' <=> detect_missing_required_status'
  /\ "diverged_head" \in Alerts' <=> detect_diverged_head'
  /\ "review_stuck" \in Alerts' <=> detect_review_stuck'
  /\ "dead_scheduler" \in Alerts' <=> detect_dead_schedulers'
  /\ "main_red" \in Alerts' <=> (detect_main_red = "red")'
  /\ "stale_fkb" \in Alerts' <=> detect_stale_fkb'
BY DEF Alerts, DETECTORS, Raised

LEMMA AlertNames ==
  Alerts \ {"eviction_loop"} \subseteq
    {"stuck_bump", "stale_pin", "stranded_pr", "missing_status", "diverged_head",
     "review_stuck", "dead_scheduler", "main_red", "stale_fkb"}
BY DEF Alerts, DETECTORS, Raised

LEMMA Older ==
  ASSUME WorldTypeOK, now' = now + 1, NEW t \in Times, NEW H \in Nat, hours_since(t) >= H
  PROVE  now' - t >= H
<1>1. now \in Nat /\ t \in Nat
  BY Numbers, Typed DEF TypeParts
<1> DEFINE n == now
<1>2. n - t >= H
  BY DEF hours_since
<1> HIDE DEF n
<1>3. (n + 1) - t >= H
  BY <1>1, <1>2 DEF n
<1> QED BY <1>3 DEF n

LEMMA NothingFades ==
  ASSUME WorldTypeOK, Dated, [WorldNext]_worldVars, now' # now
  PROVE  Alerts \ {"eviction_loop"} \subseteq Alerts'
<1>1. now' = now + 1 /\ UNCHANGED <<pr, status, runs, label, ci, watch>>
  <2>1. Tick
    BY Steps, PrFrame, MainFrame, WatchFrame DEF WorldNext, worldVars
  <2> QED BY <2>1 DEF Tick, prWorld
<1>2. detect_stuck_bump => detect_stuck_bump'
  <2>1. watch.bump # Never => watch.bump \in Times
    BY WatchTypes
  <2> QED BY <1>1, <2>1, Older, Numbers DEF detect_stuck_bump, hours_since
<1>3. detect_stale_pin => detect_stale_pin'
  <2>1. watch.pin \in Times
    BY WatchTypes DEF Watches
  <2> QED BY <1>1, <2>1, Older, Numbers DEF detect_stale_pin, hours_since
<1>4. detect_stale_fkb => detect_stale_fkb'
  <2>1. watch.fkb # Never => watch.fkb \in Times
    BY WatchTypes DEF Watches
  <2> QED BY <1>1, <2>1, Older, Numbers DEF detect_stale_fkb, hours_since
<1>5. ASSUME detect_stranded_prs PROVE detect_stranded_prs'
  <2> DEFINE a == ready_label_applied_at
             b == status[pr.head].at
  <2>1. a' = a /\ b' = b /\ (Mergeable' <=> Mergeable)
    BY <1>1 DEF ready_label_applied_at, Mergeable, is_automerge_scope
  <2>2. a \in Times /\ b \in Times
    BY <1>5, Applied, HeadStatus DEF detect_stranded_prs, Statuses
  <2>3. hours_since(a) >= STRANDED_HOURS /\ hours_since(b) >= STRANDED_HOURS
    BY <1>5 DEF detect_stranded_prs
  <2> HIDE DEF a, b
  <2>4. now' - a >= STRANDED_HOURS /\ now' - b >= STRANDED_HOURS
    BY <1>1, <2>2, <2>3, Older, Numbers
  <2> QED BY <1>1, <1>5, <2>1, <2>4 DEF detect_stranded_prs, hours_since, a, b
<1>6. ASSUME detect_missing_required_status PROVE detect_missing_required_status'
  <2> DEFINE rs == runs[pr.head]
             i == Oldest(Verdicts(rs))
             t == rs[i].at
  <2>1. rs \in Seq(Runs)
    BY Typed DEF TypeParts, PrTypes, PullRequests
  <2>2. rs' = rs
    BY <1>1
  <2>3. i \in DOMAIN rs
    <3>1. Verdicts(rs) # {}
      BY <1>6 DEF detect_missing_required_status
    <3>2. Verdicts(rs) \in SUBSET Nat
      <4> HIDE DEF rs
      <4>1. DOMAIN rs = 1..Len(rs) /\ Len(rs) \in Nat
        BY <2>1
      <4> QED BY <4>1 DEF Verdicts
    <3>3. i \in Verdicts(rs)
      <4> HIDE DEF rs
      <4> QED BY <3>1, <3>2, HasOldest DEF NewestRun
    <3> QED BY <3>3 DEF Verdicts
  <2>4. t \in Times
    <3>1. rs[i] \in Runs
      <4> HIDE DEF rs, i
      <4> QED BY <2>1, <2>3
    <3> QED BY <3>1 DEF Runs
  <2>5. hours_since(t) >= MISSING_STATUS_HOURS
    BY <1>6 DEF detect_missing_required_status
  <2>6. now' - t >= MISSING_STATUS_HOURS
    <3> HIDE DEF t
    <3> QED BY <1>1, <2>4, <2>5, Older, Numbers
  <2> QED BY <1>1, <1>6, <2>6 DEF detect_missing_required_status, hours_since
<1>7. ASSUME detect_dead_schedulers PROVE detect_dead_schedulers'
  <2> DEFINE i == Oldest(Scheduled)
             t == watch.cron[i].at
  <2>1. Scheduled' = Scheduled /\ watch' = watch
    BY <1>1 DEF Scheduled
  <2>2. CASE ~watch.active \/ Scheduled = {}
    BY <2>1, <2>2 DEF detect_dead_schedulers
  <2>3. CASE Scheduled # {} /\ hours_since(t) >= SCHEDULER_HOURS
    <3>1. i \in DOMAIN watch.cron
      <4>1. Scheduled \in SUBSET Nat
        BY WatchTypes DEF Scheduled
      <4>2. i \in Scheduled
        BY <2>3, <4>1, HasOldest DEF NewestRun
      <4> QED BY <4>2 DEF Scheduled
    <3>2. t \in Times
      <4>1. watch.cron[i] \in CronRuns
        <5> HIDE DEF i
        <5> QED BY <3>1, WatchTypes
      <4> QED BY <4>1 DEF CronRuns
    <3>3. now' - t >= SCHEDULER_HOURS
      <4> HIDE DEF t
      <4> QED BY <1>1, <2>3, <3>2, Older, Numbers
    <3> QED BY <2>1, <3>3 DEF detect_dead_schedulers, hours_since
  <2> QED BY <1>7, <2>2, <2>3 DEF detect_dead_schedulers
<1>8. detect_main_red' = detect_main_red
  BY <1>1 DEF detect_main_red, Conclusive, Window
<1>9. /\ detect_diverged_head => detect_diverged_head'
      /\ detect_review_stuck => detect_review_stuck'
  BY <1>1 DEF detect_diverged_head, detect_review_stuck
<1>10. ASSUME NEW d \in Alerts \ {"eviction_loop"} PROVE d \in Alerts'
  <2>1. d \in {"stuck_bump", "stale_pin", "stranded_pr", "missing_status", "diverged_head",
               "review_stuck", "dead_scheduler", "main_red", "stale_fkb"}
    BY AlertNames
  <2> QED BY <1>2, <1>3, <1>4, <1>5, <1>6, <1>7, <1>8, <1>9, <2>1, Raising, NextRaising
<1> QED BY <1>10

-------------------------------------------------------------------------------
(* The theorems                                                            *)

WorldInv ==
    /\ WorldTypeOK /\ Dated /\ Unborn
    /\ ReadySince /\ Bounced /\ AllReported
    /\ MainInOrder /\ RedHasARun
    /\ WedgeIsYounger /\ CronFired

LEMMA WorldInvInit == WorldInit => WorldInv
<1> SUFFICES ASSUME WorldInit PROVE WorldInv
  OBVIOUS
<1>1. WorldTypeOK
  BY TypeInit
<1>2. Dated /\ Unborn
  BY Numbers DEF WorldInit, Dated, Unborn, Heads
<1>3. ReadySince
  BY DEF WorldInit, ReadySince, Ready, ready_label_applied_at
<1>4. Bounced
  BY DEF WorldInit, Bounced, LastOnes
<1>5. AllReported
  <2>1. ASSUME NEW h \in Heads PROVE Reported(h)
    <3>1. /\ reported[h] = "none" /\ status[h].state = "none" /\ ghost.lost[h] = Never
          /\ runs[h] = <<Started(0)>> \/ runs[h] = <<>>
      BY DEF WorldInit
    <3>2. \A i \in DOMAIN runs[h] : runs[h][i].conclusion = "none"
      BY <3>1 DEF Started
    <3>3. Verdicts(runs[h]) = {}
      BY <3>2 DEF Verdicts
    <3> QED BY <3>1, <3>2, <3>3 DEF Reported, Traced
  <2> QED BY <2>1 DEF AllReported
<1>6. MainInOrder /\ RedHasARun /\ WedgeIsYounger
  BY DEF WorldInit, MainInOrder, RedHasARun, WedgeIsYounger
<1>7. CronFired
  <2>1. now = 0 /\ ghost.fired = 0 /\ watch.cron = <<[event |-> "schedule", at |-> 0]>>
    BY DEF WorldInit
  <2>2. \A i \in DOMAIN watch.cron : watch.cron[i].at = 0
    BY <2>1
  <2> QED BY <2>1, <2>2 DEF CronFired, Scheduled
<1> QED BY <1>1, <1>2, <1>3, <1>4, <1>5, <1>6, <1>7 DEF WorldInv

LEMMA WorldInvStep == WorldInv /\ [WorldNext]_worldVars => WorldInv'
<1> SUFFICES ASSUME WorldInv, [WorldNext]_worldVars PROVE WorldInv'
  OBVIOUS
<1> USE DEF WorldInv
<1>1. WorldTypeOK'
  BY TypeStep
<1>2. Dated'
  BY <1>1, DatedStep
<1>3. Unborn'
  BY UnbornStep
<1>4. ReadySince'
  BY <1>1, <1>2, ReadySinceStep
<1>5. Bounced'
  BY BouncedStep
<1>6. AllReported'
  BY ReportedStep
<1>7. MainInOrder' /\ RedHasARun'
  BY MainInvStep
<1>8. WedgeIsYounger'
  BY WedgeStep
<1>9. CronFired'
  BY <1>1, CronStep
<1> QED BY <1>1, <1>2, <1>3, <1>4, <1>5, <1>6, <1>7, <1>8, <1>9

\* For any thresholds and any history of the label, the heads, the builds and the
\* merge queue: a pull request that may be merged is called stranded exactly when
\* it has been labelled, with one green status of its head, for all of the window.
THEOREM StrandedExactly == WorldSpec => []StrandedIsRight
<1>1. WorldInv => StrandedIsRight
  BY Stranded DEF WorldInv
<1> QED BY <1>1, WorldInvInit, WorldInvStep, PTL DEF WorldSpec

\* For any threshold: only evictions of the label's present cycle are counted, and
\* all of those but the ones of the hour in which it began.
THEOREM EvictionsCounted == WorldSpec => []EvictionsAreCounted
<1>1. WorldInv => EvictionsAreCounted
  BY Evictions DEF WorldInv
<1> QED BY <1>1, WorldInvInit, WorldInvStep, PTL DEF WorldSpec

\* For any number of heads and runs: the alert for a missing status is raised
\* exactly when a report was lost, long enough ago, and none is to be expected.
THEOREM MissingExactly == WorldSpec => []MissingIsWedged
<1>1. WorldInv => MissingIsWedged
  BY Missing DEF WorldInv
<1> QED BY <1>1, WorldInvInit, WorldInvStep, PTL DEF WorldSpec

\* For any window and any number of cancelled runs: main is never called green
\* again before a newer run succeeds or the red one is run again.
THEOREM RedKept == WorldSpec => []RedIsKept
<1>1. WorldInv => RedIsKept
  BY Red DEF WorldInv
<1> QED BY <1>1, WorldInvInit, WorldInvStep, PTL DEF WorldSpec

\* However often it is pushed to, a bump that keeps failing for all of the window
\* is an alert.
THEOREM BumpSeen == WorldSpec => []BumpWedgeIsSeen
<1>1. WorldInv => BumpWedgeIsSeen
  BY BumpWedge DEF WorldInv
<1> QED BY <1>1, WorldInvInit, WorldInvStep, PTL DEF WorldSpec

\* A cron that has not fired is an alert, whatever else starts its workflow.
THEOREM CronSeen == WorldSpec => []DeadCronIsSeen
<1>1. WorldInv => DeadCronIsSeen
  BY DeadCron DEF WorldInv
<1> QED BY <1>1, WorldInvInit, WorldInvStep, PTL DEF WorldSpec

\* For any thresholds: time alone clears no alert but the one for evictions.
THEOREM AlertsStand == WorldSpec => NothingFadesAway
<1>1. WorldInv /\ [WorldNext]_worldVars
        => [now' # now => Alerts \ {"eviction_loop"} \subseteq Alerts']_worldVars
  BY NothingFades DEF WorldInv
<1> QED BY <1>1, WorldInvInit, WorldInvStep, PTL DEF WorldSpec, NothingFadesAway

==============================================================================
