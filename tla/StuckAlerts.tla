----------------------------- MODULE StuckAlerts -----------------------------
(***************************************************************************)
(* The watchdog scripts/pr_status/stuck_alerts.py: an hourly run asks each *)
(* detector which emergencies are on, and then makes the Zulip topic agree.*)
(* Emergencies come and go at any time; a detector may raise, a run may die*)
(* between any two calls, and a message may be posted although the call    *)
(* failed.  The workflow's concurrency group keeps two runs from           *)
(* overlapping.  What a detector looks at on GitHub is left out: it finds  *)
(* the emergencies of its prefix that are on when it runs, or it fails in  *)
(* one of the ways the code has.                                           *)
(***************************************************************************)
EXTENDS Sequences, Naturals

CONSTANTS
    Keys,       \* alert keys
    Prefixes,   \* one for each detector
    key_prefix, \* the detector each key belongs to
    Swallowing, \* detectors that log an error about one item and go on
    Assuming,   \* detectors that take an item they cannot check for an alert
    Bodies,     \* what a message may say
    Quiet,      \* no emergency
    MaxChanges, \* bound on the emergencies' comings and goings
    MaxFaults   \* bound on failures

ASSUME PrefixAssumption ==
    /\ key_prefix \in [Keys -> Prefixes]
    /\ Swallowing \subseteq Prefixes
    /\ Assuming \subseteq Prefixes
    /\ Quiet \notin Bodies

ASSUME BoundsAssumption == MaxChanges \in Nat /\ MaxFaults \in Nat

VARIABLES
    firing,     \* the truth: each emergency's body, or Quiet
    topic,      \* Zulip: the bot's messages about each key, oldest first
    pc,         \* where the run is
    todo,       \* detectors still to run
    alerts,     \* what the detectors returned
    failed,     \* the prefixes of those that raised
    existing,   \* the messages as the run fetched them
    active,     \* alerts it still has to show
    stale,      \* messages it still has to look at
    calm,       \* history: keys that were quiet at some time of this run
    news,       \* history: ... since the last message posted for them
    changes,    \* history: changes of `firing` so far
    faults      \* history: failures so far

run == <<todo, alerts, failed, existing, active, stale>>
vars == <<firing, topic, pc, run, calm, news, changes, faults>>

Message == [red : BOOLEAN, body : Bodies]

NoMessage == << >>

Newest(msgs) == msgs[Len(msgs)]

\* The key's alert stands: is_resolved is false of its newest message.
IsRed(msgs) == msgs # << >> /\ Newest(msgs).red

KeysOf(p) == {k \in Keys : key_prefix[k] = p}

TypeOK ==
    /\ firing \in [Keys -> Bodies \cup {Quiet}]
    /\ topic \in [Keys -> Seq(Message)]
    /\ pc \in {"idle", "detect", "fetch", "show", "clear"}
    /\ todo \in SUBSET Prefixes
    /\ alerts \in [Keys -> Bodies \cup {Quiet}]
    /\ failed \in SUBSET Prefixes
    /\ existing \in [Keys -> Seq(Message)]
    /\ active \in SUBSET Keys
    /\ stale \in SUBSET Keys
    /\ calm \in SUBSET Keys
    /\ news \in SUBSET Keys
    /\ changes \in 0..MaxChanges
    /\ faults \in 0..MaxFaults

NoRun ==
    /\ todo = {}
    /\ alerts = [k \in Keys |-> Quiet]
    /\ failed = {}
    /\ existing = [k \in Keys |-> NoMessage]
    /\ active = {}
    /\ stale = {}

Init ==
    /\ firing = [k \in Keys |-> Quiet]
    /\ topic = [k \in Keys |-> NoMessage]
    /\ pc = "idle"
    /\ NoRun
    /\ calm = {}
    /\ news = Keys
    /\ changes = 0
    /\ faults = 0

\* An emergency begins, ends, or is described differently.
Change(k, b) ==
    /\ changes < MaxChanges
    /\ changes' = changes + 1
    /\ firing[k] # b
    /\ firing' = [firing EXCEPT ![k] = b]
    /\ calm' = IF b = Quiet THEN calm \cup {k} ELSE calm
    /\ news' = IF b = Quiet THEN news \cup {k} ELSE news
    /\ UNCHANGED <<topic, pc, run, faults>>

-------------------------------------------------------------------------------
(* collect_alerts                                                          *)

StartRun ==
    /\ pc = "idle"
    /\ pc' = "detect"
    /\ todo' = Prefixes
    /\ calm' = {k \in Keys : firing[k] = Quiet}
    /\ UNCHANGED <<firing, topic, alerts, failed, existing, active, stale,
                   news, changes, faults>>

\* The detector p is done: what it found of its own keys is `found`.
Detected(p, found) ==
    /\ pc = "detect"
    /\ p \in todo
    /\ todo' = todo \ {p}
    /\ alerts' = [k \in Keys |-> IF key_prefix[k] = p THEN found[k] ELSE alerts[k]]
    /\ UNCHANGED <<firing, topic, pc, existing, active, stale, calm, news, changes>>

Fault ==
    /\ faults < MaxFaults
    /\ faults' = faults + 1

Detect(p) ==
    /\ Detected(p, firing)
    /\ UNCHANGED <<failed, faults>>

\* Wrong on purpose: an exception counts as "no alerts".
DetectorRaisesUnnoticed(p) ==
    /\ p \notin Swallowing
    /\ Fault
    /\ Detected(p, [k \in Keys |-> Quiet])
    /\ UNCHANGED failed

\* An exception that leaves the detector marks its prefix as unknown.
DetectorRaises(p) ==
    /\ p \notin Swallowing
    /\ Fault
    /\ Detected(p, [k \in Keys |-> Quiet])
    /\ failed' = failed \cup {p}

\* detect_dead_schedulers: an item that raises is logged and left out.
ItemSwallowed(p) ==
    /\ p \in Swallowing
    /\ Fault
    /\ \E skipped \in SUBSET KeysOf(p) \ {{}} :
         Detected(p, [k \in Keys |-> IF k \in skipped THEN Quiet ELSE firing[k]])
    /\ UNCHANGED failed

\* flagged_pr_is_finished: "alerting anyway"
ItemAssumed(p) ==
    /\ p \in Assuming
    /\ Fault
    /\ \E assumed \in SUBSET KeysOf(p) \ {{}}, b \in Bodies :
         Detected(p, [k \in Keys |-> IF k \in assumed /\ firing[k] = Quiet
                                     THEN b ELSE firing[k]])
    /\ UNCHANGED failed

Collected ==
    /\ pc = "detect"
    /\ todo = {}
    /\ pc' = "fetch"
    /\ UNCHANGED <<firing, topic, run, calm, news, changes, faults>>

-------------------------------------------------------------------------------
(* reconcile                                                               *)

\* newest_by_key of the messages the topic holds now
Fetch ==
    /\ pc = "fetch"
    /\ pc' = "show"
    /\ existing' = topic
    /\ active' = {k \in Keys : alerts[k] # Quiet}
    /\ stale' = {k \in Keys : topic[k] # NoMessage}
    /\ UNCHANGED <<firing, topic, todo, alerts, failed, calm, news, changes, faults>>

\* Wrong on purpose: an alert of other words is another message.
PostWhenDifferent(k) ==
    /\ pc = "show"
    /\ k \in active
    /\ IsRed(existing[k]) => Newest(existing[k]).body # alerts[k]
    /\ active' = active \ {k}
    /\ topic' = [topic EXCEPT ![k] = Append(@, [red |-> TRUE, body |-> alerts[k]])]
    /\ news' = IF firing[k] = Quiet THEN news \cup {k} ELSE news \ {k}
    /\ UNCHANGED <<firing, pc, todo, alerts, failed, existing, stale, calm,
                   changes, faults>>

\* A new alert, or one whose newest message is resolved
Post(k) ==
    /\ pc = "show"
    /\ k \in active
    /\ ~IsRed(existing[k])
    /\ active' = active \ {k}
    /\ topic' = [topic EXCEPT ![k] = Append(@, [red |-> TRUE, body |-> alerts[k]])]
    /\ news' = IF firing[k] = Quiet THEN news \cup {k} ELSE news \ {k}
    /\ UNCHANGED <<firing, pc, todo, alerts, failed, existing, stale, calm,
                   changes, faults>>

\* Wrong on purpose: an ongoing alert is never reworded.
RefreshNothing(k) ==
    /\ pc = "show"
    /\ k \in active
    /\ IsRed(existing[k])
    /\ active' = active \ {k}
    /\ UNCHANGED <<firing, topic, pc, todo, alerts, failed, existing, stale, calm,
                   news, changes, faults>>

\* An ongoing alert: its message is left alone, or says what it says now.
Refresh(k) ==
    /\ pc = "show"
    /\ k \in active
    /\ IsRed(existing[k])
    /\ active' = active \ {k}
    /\ topic' = [topic EXCEPT ![k][Len(existing[k])] =
                                [red |-> TRUE, body |-> alerts[k]]]
    /\ UNCHANGED <<firing, pc, todo, alerts, failed, existing, stale, calm, news,
                   changes, faults>>

Shown ==
    /\ pc = "show"
    /\ active = {}
    /\ pc' = "clear"
    /\ UNCHANGED <<firing, topic, run, calm, news, changes, faults>>

\* Wrong on purpose: an alert that was not found is over.
KeepsFound(k) == alerts[k] # Quiet \/ ~IsRed(existing[k])

Keeps(k) == \/ alerts[k] # Quiet
            \/ ~IsRed(existing[k])
            \/ key_prefix[k] \in failed

Keep(k) ==
    /\ pc = "clear"
    /\ k \in stale
    /\ Keeps(k)
    /\ stale' = stale \ {k}
    /\ UNCHANGED <<firing, topic, pc, todo, alerts, failed, existing, active,
                   calm, news, changes, faults>>

Resolve(k) ==
    /\ pc = "clear"
    /\ k \in stale
    /\ ~Keeps(k)
    /\ stale' = stale \ {k}
    /\ topic' = [topic EXCEPT ![k][Len(existing[k])].red = FALSE]
    /\ UNCHANGED <<firing, pc, todo, alerts, failed, existing, active, calm,
                   news, changes, faults>>

EndRun ==
    /\ todo' = {}
    /\ alerts' = [k \in Keys |-> Quiet]
    /\ failed' = {}
    /\ existing' = [k \in Keys |-> NoMessage]
    /\ active' = {}
    /\ stale' = {}
    /\ pc' = "idle"
    /\ calm' = {}
    /\ UNCHANGED <<firing, topic, news, changes>>

Finish ==
    /\ pc = "clear"
    /\ stale = {}
    /\ EndRun
    /\ UNCHANGED faults

\* A call raises, the answer to a call that took effect is lost, or the job
\* is cancelled or times out.
Die ==
    /\ pc # "idle"
    /\ Fault
    /\ EndRun

-------------------------------------------------------------------------------

Detector(p) ==
    Detect(p) \/ DetectorRaises(p) \/ ItemSwallowed(p) \/ ItemAssumed(p)

Reconcile(k) == Post(k) \/ Refresh(k) \/ Keep(k) \/ Resolve(k)

Run ==
    \/ StartRun
    \/ \E p \in Prefixes : Detector(p)
    \/ Collected
    \/ Fetch
    \/ \E k \in Keys : Reconcile(k)
    \/ Shown
    \/ Finish

Next ==
    \/ \E k \in Keys, b \in Bodies \cup {Quiet} : Change(k, b)
    \/ Run
    \/ Die

Spec == Init /\ [][Next]_vars

\* The cron fires and a run goes on.  Failures are bounded: no call fails
\* every hour.
FairSpec == Spec /\ WF_vars(Run)

-------------------------------------------------------------------------------
(* Properties                                                              *)

\* The positions of the messages that stand for a key.
Standing(msgs) == {i \in 1..Len(msgs) : msgs[i].red}

\* The topic as its readers see it.
Board == INSTANCE AlertBoard WITH
    Trusting  <- {k \in Keys : key_prefix[k] \in Swallowing},
    emergency <- {k \in Keys : firing[k] # Quiet},
    board     <- [k \in Keys |-> Standing(topic[k])],
    relieved  <- calm

\* One message at most stands for a key, even if a run died after a message
\* it does not know of, and it is put up, reworded and taken down by the calls
\* of runs that fail anywhere as AlertBoard promises it (stuck_alerts.py
\* 60-77, 731-783; zulip.py 237-243).
ImplementsBoard == Board!BoardSpec

\* The message of k is given the all-clear.
AllClear(k) ==
    /\ IsRed(topic[k])
    /\ Len(topic'[k]) = Len(topic[k])
    /\ ~IsRed(topic'[k])

\* Fail closed: no emergency that was on all through the run is declared over
\* by it, whichever detectors raised and whenever the run before it died
\* (stuck_alerts.py 71-77, 693-705, 775-783), except by a detector that
\* swallows errors.
FailsClosed ==
    [][\A k \in Keys : AllClear(k) /\ key_prefix[k] \notin Swallowing
                         => k \in calm]_vars

\* Watchers are notified once per emergency: a second message about it is
\* posted only if it was over in between (stuck_alerts.py 63-68), except by a
\* detector that swallows errors.
OneNoticePerEmergency ==
    [][\A k \in Keys : topic'[k] # topic[k] /\ Len(topic'[k]) > Len(topic[k])
                         /\ key_prefix[k] \notin Swallowing
                         => k \in news]_vars

\* The topic comes to show what is on: an emergency that lasts is reported in
\* its final words and one that is over for good is cleared, although runs die
\* half way and detectors fail (stuck_alerts.py 60-68, 749-783).
TopicConverges ==
    \A k \in Keys, b \in Bodies \cup {Quiet} :
        <>[](firing[k] = b) =>
            <>[](IF b = Quiet THEN ~IsRed(topic[k])
                 ELSE IsRed(topic[k]) /\ Newest(topic[k]).body = b)

-------------------------------------------------------------------------------
(* What the script's docstring says, and the code does not do.             *)

\* "FAIL CLOSED, never fail open. [...] Only a genuinely-absent alert from a
\* detector that ran cleanly is resolved" (stuck_alerts.py 71-77), of every
\* detector.
NeverFailsOpen ==
    [][\A k \in Keys : AllClear(k) => k \in calm]_vars
===============================================================================
