----------------------------- MODULE NightlyProofs -----------------------------
(***************************************************************************)
(* Proofs about Nightly: its types, that an alert recorded as sent was     *)
(* mailed if mails leave at all, that a mail is repeated only after a lost *)
(* attempt, that records are deleted together with their log, and that a   *)
(* run comes to its end, for any alerts, reports, organizations, policies  *)
(* and crashes.                                                            *)
(***************************************************************************)
EXTENDS Nightly, TLAPS

\* Between attempts nothing is at hand and nothing is pending.
Idle == phase # "runs" => at = NONE /\ left = {} /\ pend = Nothing

\* The alert at hand is still to be done.
AtHand ==
    /\ job = "alerts" /\ at # NONE => at \in todo
    /\ job = "retention" => at \in Orgs \cup {NONE}

\* What the attempt has not come to was mailed by lost attempts only.
Unsent(i) == phase = "due" \/ (phase = "runs" /\ i \in todo /\ (i # at \/ job = "alerts"))

MailsCounted ==
    /\ lost <= cuts
    /\ \A i \in Items : mails[i] <= 1 + lost /\ (Unsent(i) => mails[i] <= lost)

\* What the transaction is about to record.
PendingTrue ==
    /\ keyed => \A a \in ByMail : pend[a] = "sent" => mails[a] >= 1
    /\ \A p \in Policies : pend[p] \in {NONE, "completed"}

IInv == TypeOK /\ Idle /\ AtHand /\ MailsCounted /\ PendingTrue /\ SentWasMailed

-----------------------------------------------------------------------------
LEMMA NothingType == Nothing \in [Items -> Outcomes]
BY DEF Nothing, Outcomes

LEMMA MailTypes ==
    /\ ByMail \subseteq Items /\ Alerts \subseteq Items /\ Reports \subseteq Items
    /\ Policies \subseteq Items /\ NONE \notin Items /\ 0 \in 0 .. MaxCuts
BY MailAssumption, DistinctAssumption, MaxCutsAssumption DEF Items

\* Nothing is there at first.
LEMMA InitInv == Init => IInv
<1> SUFFICES ASSUME Init PROVE IInv
  OBVIOUS
<1>1. TypeOK
  <2>1. mails \in [Items -> 0 .. MaxCuts + 1] /\ row \in [Items -> {"new", "on", "off", "gone"}]
    BY MaxCutsAssumption DEF Init
  <2>2. lost \in 0 .. MaxCuts /\ cuts \in 0 .. MaxCuts
    BY MailTypes DEF Init
  <2> QED BY <2>1, <2>2, NothingType DEF Init, TypeOK
<1>2. Idle /\ AtHand /\ SentWasMailed
  BY MailTypes, DistinctAssumption DEF Init, Idle, AtHand, SentWasMailed, Nothing
<1>3. MailsCounted
  BY DEF Init, MailsCounted
<1>4. PendingTrue
  BY MailTypes, DistinctAssumption DEF Init, PendingTrue, Nothing
<1> QED BY <1>1, <1>2, <1>3, <1>4 DEF IInv

\* Nothing pending has nothing to keep.
LEMMA NothingPending == pend' = Nothing => PendingTrue'
<1> SUFFICES ASSUME pend' = Nothing PROVE PendingTrue'
  OBVIOUS
<1>1. \A i \in Items : pend'[i] = NONE
  BY DEF Nothing
<1> QED BY <1>1, MailTypes, DistinctAssumption DEF PendingTrue

\* A row is created, switched or deleted.
LEMMA SetRowStep ==
    ASSUME IInv, NEW i \in Items, NEW from, NEW to \in {"new", "on", "off", "gone"}, SetRow(i, from, to)
    PROVE  IInv'
<1>1. TypeOK'
  BY DEF SetRow, IInv, TypeOK, attempt
<1> QED BY <1>1
     DEF SetRow, IInv, Idle, AtHand, MailsCounted, Unsent, PendingTrue, SentWasMailed, attempt

LEMMA RunReportStep ==
    ASSUME IInv, NEW r \in Reports, RunReport(r) PROVE IInv'
<1>1. TypeOK'
  BY DEF RunReport, IInv, TypeOK, attempt, Items, Outcomes
<1>2. SentWasMailed'
  BY MailAssumption, DistinctAssumption DEF RunReport, IInv, TypeOK, SentWasMailed, Items
<1> QED BY <1>1, <1>2 DEF RunReport, IInv, Idle, AtHand, MailsCounted, Unsent, PendingTrue, attempt

-----------------------------------------------------------------------------
(* Attempts. *)

LEMMA StartStep ==
    ASSUME IInv, Start PROVE IInv'
<1>1. todo' \subseteq Alerts \cup Reports \cup Orgs
  <2>1. CASE job = "retention"
    BY <2>1, PolicyAssumption DEF Start, Active, Of
  <2>2. CASE job # "retention"
    BY <2>2 DEF Start, Active, Of, IInv, TypeOK, Jobs
  <2> QED BY <2>1, <2>2
<1>2. TypeOK'
  BY <1>1, NothingType DEF Start, IInv, TypeOK, tables
<1>3. PendingTrue'
  BY NothingPending DEF Start
<1> QED BY <1>2, <1>3 DEF Start, IInv, Idle, AtHand, MailsCounted, Unsent, SentWasMailed, tables

LEMMA CrashStep ==
    ASSUME IInv, Crash PROVE IInv'
<1>0. lost \in Nat /\ cuts \in Nat /\ lost + 1 <= cuts + 1 /\ cuts + 1 <= MaxCuts
  BY MaxCutsAssumption DEF Crash, IInv, TypeOK, MailsCounted
<1>1. TypeOK'
  <2>1. cuts' \in 0 .. MaxCuts /\ lost' \in 0 .. MaxCuts
    BY <1>0, MaxCutsAssumption DEF Crash
  <2> QED BY <2>1, NothingType DEF Crash, Discard, IInv, TypeOK, tables
<1>2. MailsCounted'
  <2>1. \A i \in Items : mails[i] \in Nat /\ mails[i] <= 1 + lost
    BY MaxCutsAssumption DEF IInv, TypeOK, MailsCounted
  <2> QED BY <1>0, <2>1 DEF Crash, IInv, TypeOK, MailsCounted
<1>3. PendingTrue'
  BY NothingPending DEF Crash, Discard
<1> QED BY <1>1, <1>2, <1>3 DEF Crash, Discard, IInv, Idle, AtHand, SentWasMailed, tables

\* The attempt is over, with or without its transaction.
LEMMA OverStep ==
    ASSUME IInv, phase' = "over", Discard, UNCHANGED <<job, keyed, row, aged, mails, lost>>,
           cuts' \in {cuts, cuts + 1}, cuts' <= MaxCuts, record' \in {record, Merge}
    PROVE  IInv'
<1>1. record' \in [Items -> Outcomes]
  BY DEF Merge, IInv, TypeOK
<1>2. cuts' \in 0 .. MaxCuts /\ lost <= cuts'
  BY MaxCutsAssumption DEF IInv, TypeOK, MailsCounted
<1>3. TypeOK'
  BY <1>1, <1>2, NothingType DEF Discard, IInv, TypeOK
<1>4. SentWasMailed'
  BY MailAssumption DEF IInv, SentWasMailed, PendingTrue, Merge, Items
<1>5. MailsCounted'
  BY <1>2 DEF IInv, MailsCounted, Unsent
<1>6. PendingTrue'
  BY NothingPending DEF Discard
<1> QED BY <1>3, <1>4, <1>5, <1>6 DEF Discard, IInv, Idle, AtHand

LEMMA NewDayStep ==
    ASSUME IInv, NewDay PROVE IInv'
<1>1. aged' \subseteq Policies
  BY DEF NewDay, IInv, TypeOK
<1>2. mails' \in [Items -> 0 .. MaxCuts + 1] /\ 0 \in 0 .. MaxCuts
  BY MaxCutsAssumption DEF NewDay
<1>3. TypeOK'
  BY <1>1, <1>2, NothingType DEF NewDay, IInv, TypeOK, attempt
<1>4. pend' = Nothing /\ left' = {} /\ at' = NONE
  BY DEF NewDay, IInv, Idle, attempt
<1>5. SentWasMailed'
  BY MailTypes, DistinctAssumption DEF NewDay, SentWasMailed, Nothing
<1>6. MailsCounted'
  BY DEF NewDay, IInv, TypeOK, MailsCounted
<1> QED BY <1>3, <1>4, <1>5, <1>6, NothingPending DEF IInv, Idle, AtHand

-----------------------------------------------------------------------------
(* Items. *)

\* A step on an item that mails nothing.
LEMMA QuietStep ==
    ASSUME IInv, phase = "runs", UNCHANGED <<job, keyed, tables, mails, phase, lost, cuts>>,
           todo' \subseteq todo, left' \subseteq Policies, broken' \in BOOLEAN,
           at' \in Alerts \cup Reports \cup Orgs \cup {NONE}, AtHand',
           \A i \in Items : Unsent(i)' => Unsent(i),
           pend' \in [Items -> Outcomes], PendingTrue'
    PROVE  IInv'
<1>1. TypeOK'
  BY DEF IInv, TypeOK, tables
<1>2. MailsCounted'
  BY DEF IInv, MailsCounted
<1>3. Idle' /\ SentWasMailed'
  BY DEF IInv, Idle, SentWasMailed, tables
<1> QED BY <1>1, <1>2, <1>3 DEF IInv

\* Flushing a row leaves it to the commit, or breaks the session.
LEMMA FlushStep ==
    ASSUME IInv, NEW a \in Alerts, NEW outcome \in Outcomes, Flush(a, outcome)
    PROVE  /\ broken' \in BOOLEAN /\ at' = NONE /\ todo' = todo \ {a}
           /\ pend' \in [Items -> Outcomes]
           /\ \A i \in Items : pend'[i] # NONE => (pend'[i] = pend[i] \/ (i = a /\ pend'[i] = outcome))
<1>1. CASE broken \/ row[a] = "gone"
  BY <1>1, NothingType, MailTypes DEF Flush, Leave, Nothing
<1>2. CASE ~(broken \/ row[a] = "gone")
  BY <1>2, MailTypes DEF Flush, Leave, IInv, TypeOK
<1> QED BY <1>1, <1>2

\* An alert, once mailed or not, is flushed and done with.
LEMMA MailStep ==
    ASSUME IInv, NEW a \in Alerts, NEW outcome \in Outcomes, job = "alerts", at = a,
           Sends(a) \/ UNCHANGED mails, outcome = "sent" /\ a \in ByMail => Sends(a),
           Flush(a, outcome), UNCHANGED <<job, keyed, tables, phase, left, lost, cuts>>
    PROVE  IInv'
<1>1. /\ broken' \in BOOLEAN /\ at' = NONE /\ todo' = todo \ {a}
      /\ pend' \in [Items -> Outcomes]
      /\ \A i \in Items : pend'[i] # NONE => (pend'[i] = pend[i] \/ (i = a /\ pend'[i] = outcome))
  BY FlushStep
<1>2. a \in Items /\ a # NONE /\ phase = "runs" /\ a \in todo /\ Unsent(a)
  BY MailTypes DEF IInv, Idle, AtHand, Unsent
<1>3. /\ lost \in Nat /\ lost <= MaxCuts /\ mails[a] \in Nat /\ mails[a] <= lost
      /\ mails \in [Items -> 0 .. MaxCuts + 1]
  BY <1>2, MaxCutsAssumption DEF IInv, TypeOK, MailsCounted
<1>4. /\ mails'[a] \in {mails[a], mails[a] + 1} /\ \A i \in Items \ {a} : mails'[i] = mails[i]
      /\ mails' \in [Items -> 0 .. MaxCuts + 1]
  BY <1>2, <1>3, MaxCutsAssumption DEF Sends
<1>5. TypeOK'
  BY <1>1, <1>4 DEF IInv, TypeOK, tables
<1>6. MailsCounted'
  <2>1. lost' <= cuts' /\ lost' = lost
    BY DEF IInv, MailsCounted
  <2>2. ASSUME NEW i \in Items PROVE mails'[i] <= 1 + lost /\ (Unsent(i)' => mails'[i] <= lost)
    <3>1. CASE i = a
      BY <1>1, <1>2, <1>3, <1>4, <3>1 DEF Unsent
    <3>2. CASE i # a
      BY <1>1, <1>2, <1>4, <3>2 DEF Unsent, IInv, MailsCounted
    <3> QED BY <3>1, <3>2
  <2> QED BY <2>1, <2>2 DEF MailsCounted
<1>7. PendingTrue'
  <2>1. ASSUME keyed', NEW b \in ByMail, pend'[b] = "sent" PROVE mails'[b] >= 1
    <3>0. keyed
      BY <2>1
    <3>1. CASE b = a /\ outcome = "sent"
      <4>1. mails'[a] = mails[a] + 1
        BY <1>2, <1>3, <3>0, <3>1 DEF Sends
      <4> QED BY <1>3, <3>1, <4>1
    <3>2. CASE ~(b = a /\ outcome = "sent")
      <4>1. b \in Items /\ pend[b] = "sent"
        BY <1>1, <2>1, <3>2, MailTypes, DistinctAssumption
      <4>2. mails[b] >= 1 /\ mails[b] \in Nat
        BY <3>0, <4>1, MaxCutsAssumption DEF IInv, TypeOK, PendingTrue
      <4> QED BY <1>3, <1>4, <4>1, <4>2
    <3> QED BY <3>1, <3>2
  <2>2. ASSUME NEW p \in Policies PROVE pend'[p] \in {NONE, "completed"}
    BY <1>1, MailTypes, DistinctAssumption DEF IInv, PendingTrue
  <2> QED BY <2>1, <2>2 DEF PendingTrue
<1>8. SentWasMailed'
  <2> SUFFICES ASSUME keyed, NEW b \in ByMail, record[b] = "sent" PROVE mails'[b] >= 1
    BY DEF SentWasMailed, tables
  <2>1. b \in Items /\ mails[b] >= 1 /\ mails[b] \in Nat
    BY MailTypes, MaxCutsAssumption DEF IInv, TypeOK, SentWasMailed
  <2> QED BY <1>3, <1>4, <2>1
<1>9. Idle' /\ AtHand'
  BY <1>1, <1>2 DEF Idle, AtHand
<1> QED BY <1>5, <1>6, <1>7, <1>8, <1>9 DEF IInv

LEMMA AlertStep ==
    ASSUME IInv, NEW a \in Alerts,
           \/ SearchFails(a) \/ FindsTooFew(a) \/ Finds(a) \/ Notify(a) \/ MailRefused(a)
    PROVE  IInv'
<1>0. {"skipped", "sent", "failed"} \subseteq Outcomes
  BY DEF Outcomes
<1>1. CASE SearchFails(a)
  <2>1. /\ broken' \in BOOLEAN /\ at' = NONE /\ todo' = todo \ {a} /\ pend' = pend
        /\ phase = "runs" /\ at = NONE
        /\ UNCHANGED <<job, keyed, tables, mails, phase, left, lost, cuts>>
    BY <1>1 DEF SearchFails, Leave
  <2>2. AtHand' /\ PendingTrue' /\ \A i \in Items : Unsent(i)' => Unsent(i)
    BY <2>1 DEF AtHand, PendingTrue, Unsent, IInv
  <2> QED BY <2>1, <2>2, QuietStep DEF IInv, TypeOK
<1>2. CASE FindsTooFew(a)
  <2>1. /\ broken' \in BOOLEAN /\ at' = NONE /\ todo' = todo \ {a}
        /\ pend' \in [Items -> Outcomes]
        /\ \A i \in Items : pend'[i] # NONE =>
                              (pend'[i] = pend[i] \/ (i = a /\ pend'[i] = "skipped"))
    BY <1>0, <1>2, FlushStep DEF FindsTooFew
  <2>2. phase = "runs" /\ at = NONE
                       /\ UNCHANGED <<job, keyed, tables, mails, phase, left, lost, cuts>>
    BY <1>2 DEF FindsTooFew
  <2>3. AtHand' /\ \A i \in Items : Unsent(i)' => Unsent(i)
    BY <2>1, <2>2 DEF AtHand, Unsent
  <2>4. PendingTrue'
    BY <2>1, <2>2, MailTypes, DistinctAssumption DEF PendingTrue, IInv
  <2> QED BY <2>1, <2>2, <2>3, <2>4, QuietStep DEF IInv, TypeOK
<1>3. CASE Finds(a)
  <2>1. /\ at' = a /\ phase = "runs" /\ a \in todo /\ job = "alerts" /\ at = NONE
        /\ UNCHANGED <<job, keyed, tables, mails, phase, todo, left, pend, broken, lost, cuts>>
    BY <1>3 DEF Finds
  <2>2. AtHand' /\ PendingTrue' /\ \A i \in Items : Unsent(i)' => Unsent(i)
    BY <2>1 DEF AtHand, PendingTrue, Unsent, IInv
  <2> QED BY <2>1, <2>2, QuietStep DEF IInv, TypeOK
<1>4. CASE Notify(a)
  BY <1>0, <1>4, MailStep DEF Notify
<1>5. CASE MailRefused(a)
  <2>1. "failed" # "sent"
    OBVIOUS
  <2> QED BY <1>0, <1>5, <2>1, MailStep DEF MailRefused
<1> QED BY <1>1, <1>2, <1>3, <1>4, <1>5

LEMMA ReportStep ==
    ASSUME IInv, NEW r \in Reports, GenerateFails(r) \/ SendReport(r) \/ CommitReport(r)
    PROVE  IInv'
<1>0. r \in Items /\ r # NONE /\ r \notin ByMail
  BY MailTypes, MailAssumption, DistinctAssumption
<1>1. CASE GenerateFails(r)
  <2>1. /\ broken' \in BOOLEAN /\ at' = NONE /\ todo' = todo \ {r} /\ pend' = pend
        /\ phase = "runs" /\ at = NONE
        /\ UNCHANGED <<job, keyed, tables, mails, phase, left, lost, cuts>>
    BY <1>1 DEF GenerateFails, Leave
  <2>2. AtHand' /\ PendingTrue' /\ \A i \in Items : Unsent(i)' => Unsent(i)
    BY <2>1 DEF AtHand, PendingTrue, Unsent, IInv
  <2> QED BY <2>1, <2>2, QuietStep DEF IInv, TypeOK
<1>2. CASE SendReport(r)
  <2>1. /\ at' = r /\ phase = "runs" /\ r \in todo /\ job = "reports" /\ at = NONE
        /\ (Sends(r) \/ UNCHANGED mails)
        /\ UNCHANGED <<job, keyed, tables, phase, todo, left, pend, broken, lost, cuts>>
    BY <1>2 DEF SendReport
  <2>2. Unsent(r)
    BY <1>0, <2>1 DEF Unsent
  <2>3. /\ lost \in Nat /\ lost <= MaxCuts /\ mails[r] \in Nat /\ mails[r] <= lost
        /\ mails \in [Items -> 0 .. MaxCuts + 1]
    BY <1>0, <2>2, MaxCutsAssumption DEF IInv, TypeOK, MailsCounted
  <2>4. /\ mails'[r] \in {mails[r], mails[r] + 1} /\ \A i \in Items \ {r} : mails'[i] = mails[i]
        /\ mails' \in [Items -> 0 .. MaxCuts + 1]
    BY <1>0, <2>1, <2>3, MaxCutsAssumption DEF Sends
  <2>5. TypeOK'
    BY <2>1, <2>4 DEF IInv, TypeOK, tables
  <2>6. ASSUME NEW i \in Items PROVE mails'[i] <= 1 + lost /\ (Unsent(i)' => mails'[i] <= lost)
    <3>1. CASE i = r
      BY <2>1, <2>3, <2>4, <3>1 DEF Unsent
    <3>2. CASE i # r
      <4>1. i \in todo => Unsent(i)
        BY <2>1, MailTypes DEF Unsent
      <4>2. mails'[i] = mails[i] /\ (Unsent(i)' => Unsent(i))
        BY <2>1, <2>4, <3>2, <4>1 DEF Unsent
      <4> QED BY <4>2 DEF IInv, MailsCounted
    <3> QED BY <3>1, <3>2
  <2>7. MailsCounted'
    BY <2>1, <2>6 DEF IInv, MailsCounted
  <2>8. PendingTrue' /\ SentWasMailed'
    BY <1>0, <2>1, <2>4, MailTypes DEF IInv, PendingTrue, SentWasMailed, tables
  <2>9. Idle' /\ AtHand'
    BY <2>1 DEF Idle, AtHand
  <2> QED BY <2>5, <2>7, <2>8, <2>9 DEF IInv
<1>3. CASE CommitReport(r)
  <2>1. /\ at' = NONE /\ todo' = todo \ {r} /\ pend' = pend /\ broken' \in BOOLEAN
        /\ record' \in {record, [record EXCEPT ![r] = "sent"]}
        /\ phase = "runs" /\ at = r
        /\ UNCHANGED <<job, keyed, row, aged, mails, phase, left, lost, cuts>>
    BY <1>0, <1>3 DEF CommitReport, Leave, IInv, Idle
  <2>2. record' \in [Items -> Outcomes]
    BY <2>1 DEF IInv, TypeOK, Outcomes
  <2>3. TypeOK'
    BY <2>1, <2>2 DEF IInv, TypeOK
  <2>4. SentWasMailed'
    BY <1>0, <2>1, MailTypes DEF IInv, TypeOK, SentWasMailed
  <2>5. MailsCounted'
    BY <2>1 DEF IInv, MailsCounted, Unsent
  <2>6. PendingTrue' /\ Idle' /\ AtHand'
    BY <2>1 DEF IInv, PendingTrue, Idle, AtHand
  <2> QED BY <2>3, <2>4, <2>5, <2>6 DEF IInv
<1> QED BY <1>1, <1>2, <1>3

-----------------------------------------------------------------------------
(* Organizations. *)

LEMMA OpenOrgStep ==
    ASSUME IInv, NEW o \in Orgs, OpenOrg(o) PROVE IInv'
<1>1. /\ at' = o /\ todo' = todo \ {o} /\ left' \subseteq Policies /\ phase = "runs" /\ at = NONE
      /\ job = "retention"
      /\ UNCHANGED <<job, keyed, tables, mails, phase, pend, broken, lost, cuts>>
  BY DEF OpenOrg, Active, Of
<1>2. AtHand' /\ PendingTrue' /\ \A i \in Items : Unsent(i)' => Unsent(i)
  BY <1>1, MailTypes DEF AtHand, PendingTrue, Unsent, IInv
<1> QED BY <1>1, <1>2, QuietStep DEF IInv, TypeOK

\* A policy is at hand only in an attempt.
LEMMA ApplyStep ==
    ASSUME IInv, NEW p \in Policies, Apply(p) \/ ApplyRaises(p) PROVE IInv'
<1>0. phase = "runs" /\ at \notin Items
  BY MailTypes, DistinctAssumption DEF Apply, ApplyRaises, IInv, Idle, AtHand
<1>1. CASE Apply(p)
  <2>1. /\ job = "retention" /\ pend' = [pend EXCEPT ![p] = "completed"] /\ left' \subseteq left
        /\ UNCHANGED <<job, keyed, tables, mails, phase, todo, at, broken, lost, cuts>>
    BY <1>1 DEF Apply
  <2>2. pend' \in [Items -> Outcomes]
    BY <2>1 DEF IInv, TypeOK, Outcomes
  <2>3. PendingTrue'
    BY <2>1, MailTypes, MailAssumption, DistinctAssumption DEF IInv, TypeOK, PendingTrue
  <2>4. AtHand' /\ \A i \in Items : Unsent(i)' => Unsent(i)
    BY <2>1 DEF AtHand, Unsent, IInv
  <2> QED BY <1>0, <2>1, <2>2, <2>3, <2>4, QuietStep DEF IInv, TypeOK
<1>2. CASE ApplyRaises(p)
  <2>1. /\ job = "retention" /\ pend' = Nothing /\ left' = {} /\ at' = NONE
        /\ UNCHANGED <<job, keyed, tables, mails, phase, todo, broken, lost, cuts>>
    BY <1>2 DEF ApplyRaises
  <2>2. PendingTrue' /\ pend' \in [Items -> Outcomes]
    BY <2>1, NothingPending, NothingType
  <2>3. AtHand' /\ \A i \in Items : Unsent(i)' => Unsent(i)
    BY <1>0, <2>1 DEF AtHand, Unsent
  <2> QED BY <1>0, <2>1, <2>2, <2>3, QuietStep DEF IInv, TypeOK
<1> QED BY <1>1, <1>2

LEMMA CommitOrgStep ==
    ASSUME IInv, CommitOrg PROVE IInv'
<1>1. /\ job = "retention" /\ at \in Orgs /\ at' = NONE /\ pend' = Nothing
      /\ aged' \subseteq aged /\ record' \in {record, Merge}
      /\ UNCHANGED <<job, keyed, row, mails, phase, todo, left, broken, lost, cuts>>
  BY DEF CommitOrg, Remaining
<1>2. at \notin Items
  BY <1>1, DistinctAssumption
<1>3. record' \in [Items -> Outcomes]
  BY <1>1 DEF Merge, IInv, TypeOK
<1>4. TypeOK'
  BY <1>1, <1>3, NothingType DEF IInv, TypeOK
<1>5. SentWasMailed'
  BY <1>1, MailTypes DEF IInv, SentWasMailed, PendingTrue, Merge
<1>6. MailsCounted'
  BY <1>1, <1>2 DEF IInv, MailsCounted, Unsent
<1>7. Idle' /\ AtHand' /\ PendingTrue'
  BY <1>1, NothingPending DEF IInv, Idle, AtHand
<1> QED BY <1>4, <1>5, <1>6, <1>7 DEF IInv

-----------------------------------------------------------------------------
LEMMA WorkStep ==
    ASSUME IInv, Work PROVE IInv'
<1>0. cuts <= MaxCuts /\ cuts \in {cuts, cuts + 1}
  BY MaxCutsAssumption DEF IInv, TypeOK
<1>1. CASE Start
  BY <1>1, StartStep
<1>2. CASE \E a \in Alerts :
             SearchFails(a) \/ FindsTooFew(a) \/ Finds(a) \/ Notify(a) \/ MailRefused(a)
  BY <1>2, AlertStep
<1>3. CASE \E r \in Reports : GenerateFails(r) \/ SendReport(r) \/ CommitReport(r)
  BY <1>3, ReportStep
<1>4. CASE \E o \in Orgs : OpenOrg(o)
  BY <1>4, OpenOrgStep
<1>5. CASE \E p \in Policies : Apply(p) \/ ApplyRaises(p)
  BY <1>5, ApplyStep
<1>6. CASE CommitOrg
  BY <1>6, CommitOrgStep
<1>7. CASE CommitAlerts
  BY <1>0, <1>7, OverStep DEF CommitAlerts
<1>8. CASE ReportsOver \/ RetentionOver
  BY <1>0, <1>8, OverStep DEF ReportsOver, RetentionOver, tables
<1> QED BY <1>1, <1>2, <1>3, <1>4, <1>5, <1>6, <1>7, <1>8 DEF Work

LEMMA NextStep ==
    ASSUME IInv, [Next]_vars PROVE IInv'
<1>1. ASSUME NEW i \in Items, Create(i) \/ Switch(i) \/ Delete(i) PROVE IInv'
  BY <1>1, SetRowStep DEF Create, Switch, Delete
<1>2. ASSUME NEW r \in Reports, RunReport(r) PROVE IInv'
  BY <1>2, RunReportStep
<1>3. CASE Work
  BY <1>3, WorkStep
<1>4. CASE Crash
  BY <1>4, CrashStep
<1>5. CASE Timeout
  <2>1. cuts' \in {cuts, cuts + 1} /\ cuts' <= MaxCuts
    BY <1>5, MaxCutsAssumption DEF Timeout, IInv, TypeOK
  <2> QED BY <1>5, <2>1, OverStep DEF Timeout, tables
<1>6. CASE NewDay
  BY <1>6, NewDayStep
<1>7. CASE UNCHANGED vars
  BY <1>7 DEF IInv, TypeOK, Idle, AtHand, MailsCounted, Unsent, PendingTrue, SentWasMailed,
              vars, tables, attempt
<1> QED BY <1>1, <1>2, <1>3, <1>4, <1>5, <1>6, <1>7 DEF Next

LEMMA Invariance == Spec => []IInv
<1>1. IInv /\ [Next]_vars => IInv'
  BY NextStep
<1> QED BY InitInv, <1>1, PTL DEF Spec

(* Rows, records and mails stay in their sets: no item is mailed more      *)
(* often than the worker can be cut short, and once more.                  *)
THEOREM TypeCorrect == Spec => []TypeOK
<1>1. IInv => TypeOK
  BY DEF IInv
<1> QED BY Invariance, <1>1, PTL

(* Where there is a key to mail with, an alert result that says SENT has   *)
(* its mail, whatever crashes, refused mails and deletions come between    *)
(* the mail and the commit.                                                *)
THEOREM SentAlertsWereMailed == Spec => []SentWasMailed
<1>1. IInv => SentWasMailed
  BY DEF IInv
<1> QED BY Invariance, <1>1, PTL

(* Each attempt of a day mails an item once at most, so that only attempts *)
(* the worker lost account for a second mail.                              *)
THEOREM RepeatedMailsAreLostAttempts == Spec => []MailedAgainOnlyIfLost
<1>1. IInv => MailedAgainOnlyIfLost
  BY DEF IInv, MailsCounted, MailedAgainOnlyIfLost
<1> QED BY Invariance, <1>1, PTL

(* The commit that deletes the records of a policy is the one that logs it *)
(* as completed.                                                           *)
THEOREM DeletionsAreLogged == Spec => DeletedIsLogged
<1>1. IInv /\ [Next]_vars => [\A p \in aged \ aged' : record'[p] = "completed"]_vars
  <2> SUFFICES ASSUME IInv, Next, NEW p \in aged \ aged' PROVE record'[p] = "completed"
    BY DEF vars, tables
  <2>1. CASE CommitOrg
    <3>1. p \in Applied /\ record' = Merge /\ p \in Items
      BY <2>1, MailTypes DEF CommitOrg, Remaining, IInv, TypeOK
    <3> QED BY <3>1 DEF Applied, Merge, IInv, PendingTrue
  <2>2. CASE ~CommitOrg
    BY <2>2
       DEF Next, Create, Switch, Delete, SetRow, RunReport, Work, Start, Crash, Timeout, NewDay,
       SearchFails, FindsTooFew, Finds, Notify, MailRefused, CommitAlerts, GenerateFails, SendReport,
       CommitReport, ReportsOver, OpenOrg, Apply, ApplyRaises, RetentionOver, tables
  <2> QED BY <2>1, <2>2
<1> QED BY Invariance, <1>1, PTL DEF Spec, DeletedIsLogged

-----------------------------------------------------------------------------
(* Why a run ends: each of its steps leaves fewer items, or fewer policies *)
(* of the organization at hand, or brings one item further.                *)

\* The report at hand is still to be done.
ReportAtHand == job = "reports" /\ at # NONE => at \in todo

Onward ==
    \/ phase' = "over"
    \/ todo' \subseteq todo /\ todo' # todo
    \/ todo' = todo /\ left' \subseteq left /\ left' # left
    \/ /\ todo' = todo /\ left' = left
       /\ IF job = "retention" THEN at # NONE /\ at' = NONE ELSE at = NONE /\ at' # NONE

\* The worker goes on in this order until the run is over, and whatever users do to the rows
\* takes nothing back; only crashes and timeouts end a run sooner (modules/alerts/service.py,
\* 403-413; jobs/reports.py, 186-204; jobs/retention.py, 78-109).
RunGoesOn ==
    [][phase = "runs" =>
          /\ Work => Onward
          /\ Onward \/ UNCHANGED <<phase, todo, at, left>> \/ cuts' = cuts + 1]_vars

LEMMA ReportAtHandStep ==
    ASSUME IInv, ReportAtHand, [Next]_vars
    PROVE  ReportAtHand'
<1> USE DEF ReportAtHand
<1>1. CASE UNCHANGED vars
  BY <1>1 DEF vars, attempt
<1>2. ASSUME NEW i \in Items, Create(i) \/ Switch(i) \/ Delete(i) PROVE ReportAtHand'
  BY <1>2 DEF Create, Switch, Delete, SetRow, attempt
<1>3. ASSUME NEW r \in Reports,
             RunReport(r) \/ GenerateFails(r) \/ SendReport(r) \/ CommitReport(r)
      PROVE  ReportAtHand'
  <2>1. CASE SendReport(r)
    BY <2>1 DEF SendReport
  <2>2. CASE RunReport(r)
    BY <2>2 DEF RunReport, attempt
  <2>3. CASE GenerateFails(r) \/ CommitReport(r)
    BY <2>3 DEF GenerateFails, CommitReport, Leave
  <2> QED BY <1>3, <2>1, <2>2, <2>3
<1>4. CASE Start \/ Crash \/ Timeout \/ NewDay \/ ReportsOver
  BY <1>4 DEF Start, Crash, Timeout, NewDay, ReportsOver, Discard, attempt
<1>5. ASSUME NEW a \in Alerts,
             SearchFails(a) \/ FindsTooFew(a) \/ Finds(a) \/ Notify(a) \/ MailRefused(a)
      PROVE  ReportAtHand'
  BY <1>5 DEF SearchFails, FindsTooFew, Finds, Notify, MailRefused
<1>6. CASE CommitAlerts \/ CommitOrg \/ RetentionOver
  BY <1>6 DEF CommitAlerts, CommitOrg, RetentionOver
<1>7. ASSUME NEW o \in Orgs, OpenOrg(o) PROVE ReportAtHand'
  BY <1>7 DEF OpenOrg
<1>8. ASSUME NEW p \in Policies, Apply(p) \/ ApplyRaises(p) PROVE ReportAtHand'
  BY <1>8 DEF Apply, ApplyRaises
<1>9. CASE Work
  BY <1>3, <1>4, <1>5, <1>6, <1>7, <1>8, <1>9 DEF Work
<1> QED BY <1>1, <1>2, <1>3, <1>4, <1>9 DEF Next

LEMMA WorkGoesOn ==
    ASSUME IInv, ReportAtHand, Work, phase = "runs"
    PROVE  Onward
<1> USE DEF Onward
<1>1. CASE CommitAlerts \/ ReportsOver \/ RetentionOver
  BY <1>1 DEF CommitAlerts, ReportsOver, RetentionOver
<1>2. ASSUME NEW a \in Alerts, SearchFails(a) \/ FindsTooFew(a) PROVE Onward
  BY <1>2 DEF SearchFails, FindsTooFew, Flush, Leave
<1>3. ASSUME NEW a \in Alerts, Finds(a) PROVE Onward
  BY <1>3, DistinctAssumption DEF Finds, Items
<1>4. ASSUME NEW a \in Alerts, Notify(a) \/ MailRefused(a) PROVE Onward
  <2>1. job = "alerts" /\ at = a /\ a # NONE /\ todo' = todo \ {a}
    BY <1>4, DistinctAssumption DEF Notify, MailRefused, Flush, Leave, Items
  <2> QED BY <2>1 DEF IInv, AtHand
<1>5. ASSUME NEW r \in Reports, GenerateFails(r) PROVE Onward
  BY <1>5 DEF GenerateFails, Leave
<1>6. ASSUME NEW r \in Reports, SendReport(r) PROVE Onward
  BY <1>6, DistinctAssumption DEF SendReport, Items
<1>7. ASSUME NEW r \in Reports, CommitReport(r) PROVE Onward
  <2>1. job = "reports" /\ at = r /\ r # NONE /\ todo' = todo \ {r}
    BY <1>7, DistinctAssumption DEF CommitReport, Leave, Items
  <2> QED BY <2>1 DEF ReportAtHand
<1>8. ASSUME NEW o \in Orgs, OpenOrg(o) PROVE Onward
  BY <1>8 DEF OpenOrg
<1>9. ASSUME NEW p \in Policies, Apply(p) \/ ApplyRaises(p) PROVE Onward
  BY <1>9 DEF Apply, ApplyRaises
<1>10. CASE CommitOrg
  <2>1. job = "retention" /\ at # NONE /\ at' = NONE /\ todo' = todo /\ left' = left
    BY <1>10, DistinctAssumption DEF CommitOrg
  <2> QED BY <2>1
<1>11. CASE Start
  BY <1>11 DEF Start
<1> QED BY <1>1, <1>2, <1>3, <1>4, <1>5, <1>6, <1>7, <1>8, <1>9, <1>10, <1>11 DEF Work

(* A nightly run is over after finitely many of its steps, whatever users  *)
(* create, switch and delete while it goes over their rows: it works from  *)
(* the lists it has read, and each step takes something off them.  Of      *)
(* OrgsAreIndependent, this is why an organization has its turn.           *)
THEOREM RunsEnd == Spec => RunGoesOn
<1>1. Init => ReportAtHand
  BY DEF Init, ReportAtHand
<1>2. IInv /\ ReportAtHand /\ [Next]_vars => ReportAtHand'
  BY ReportAtHandStep
<1> DEFINE Goes == phase = "runs" =>
          /\ Work => Onward
          /\ Onward \/ UNCHANGED <<phase, todo, at, left>> \/ cuts' = cuts + 1
<1>3. IInv /\ ReportAtHand /\ [Next]_vars => [Goes]_vars
  <2> SUFFICES ASSUME IInv, ReportAtHand, Next, phase = "runs"
               PROVE  /\ Work => Onward
                      /\ Onward \/ UNCHANGED <<phase, todo, at, left>> \/ cuts' = cuts + 1
    BY DEF vars
  <2>1. CASE Work
    BY <2>1, WorkGoesOn
  <2>2. CASE ~Work
    BY <2>2 DEF Next, Create, Switch, Delete, SetRow, RunReport, Crash, Timeout, NewDay, attempt
  <2> QED BY <2>1, <2>2
<1> QED BY Invariance, <1>1, <1>2, <1>3, PTL DEF Spec, RunGoesOn
===============================================================================
