-------------------------------- MODULE Nightly --------------------------------
(***************************************************************************)
(* The cron jobs that go over rows users edit meanwhile: the alerts of     *)
(* saved searches (jobs/alerts.py), the scheduled reports (jobs/reports.py)*)
(* and the retention policies (jobs/retention.py).                         *)
(*                                                                         *)
(* They share no row and run at different hours, so a behaviour follows    *)
(* one of them, chosen in Init, day after day.  What tells them apart is   *)
(* where a transaction ends: all alerts share one, a report ends its own,  *)
(* an organization has one for its policies.  Mail cannot be rolled back.  *)
(***************************************************************************)
EXTENDS Integers, FiniteSets

CONSTANTS
    Alerts, ByMail,     \* daily alerts; those whose channel is e-mail
    Reports,            \* daily reports
    Orgs, Policies, OrgOf,
    Inapplicable,       \* policies that always raise (conversations, submissions, anonymized papers)
    Deletes,            \* policies whose action is to delete
    MaxCuts,            \* bound on crashes and timeouts of the worker
    NONE

Items == Alerts \cup Reports \cup Policies

ASSUME DistinctAssumption ==
    /\ Alerts \cap Reports = {} /\ Policies \cap (Alerts \cup Reports) = {}
    /\ Orgs \cap Items = {} /\ NONE \notin Items \cup Orgs \cup {"sent", "completed"}
ASSUME PolicyAssumption ==
    OrgOf \in [Policies -> Orgs] /\ Inapplicable \subseteq Policies /\ Deletes \subseteq Policies
ASSUME MailAssumption == ByMail \subseteq Alerts
ASSUME MaxCutsAssumption == MaxCuts \in Nat

VARIABLES
    job,            \* the job that is followed
    keyed,          \* is RESEND_API_KEY set?
    row,            \* alerts, scheduled_reports, retention_policies
    aged,           \* the policies whose records are older than retention_days
    record,         \* alert_results, last_sent_at and retention_logs of today, as committed
    mails,          \* e-mails sent today
    phase,          \* of today's run
    todo,           \* the items, or organizations, left for this attempt
    at,             \* the item, or organization, at hand
    left,           \* the policies left of the organization at hand
    pend,           \* what the transaction will commit
    broken,         \* the session refuses every statement
    lost,           \* attempts of today cut short and started again
    cuts            \* crashes and timeouts so far

tables  == <<row, aged, record>>
attempt == <<todo, at, left, pend, broken>>
vars    == <<job, keyed, tables, mails, phase, attempt, lost, cuts>>

Jobs     == {"alerts", "reports", "retention"}
Outcomes == {NONE, "skipped", "failed", "sent", "completed"}

Of(j) == CASE j = "alerts" -> Alerts [] j = "reports" -> Reports [] j = "retention" -> Policies

TypeOK ==
    /\ job \in Jobs /\ keyed \in BOOLEAN
    /\ row \in [Items -> {"new", "on", "off", "gone"}]
    /\ aged \subseteq Policies
    /\ record \in [Items -> Outcomes]
    /\ mails \in [Items -> 0 .. MaxCuts + 1]
    /\ phase \in {"due", "runs", "over"}
    /\ todo \subseteq Alerts \cup Reports \cup Orgs
    /\ at \in Alerts \cup Reports \cup Orgs \cup {NONE}
    /\ left \subseteq Policies
    /\ pend \in [Items -> Outcomes]
    /\ broken \in BOOLEAN
    /\ lost \in 0 .. MaxCuts /\ cuts \in 0 .. MaxCuts

Nothing == [i \in Items |-> NONE]

Init ==
    /\ job \in Jobs /\ keyed \in BOOLEAN
    /\ row = [i \in Items |-> "new"]
    /\ aged = {}
    /\ record = Nothing
    /\ mails = [i \in Items |-> 0]
    /\ phase = "due"
    /\ todo = {} /\ at = NONE /\ left = {} /\ pend = Nothing /\ broken = FALSE
    /\ lost = 0 /\ cuts = 0

-----------------------------------------------------------------------------
(* Users. *)

SetRow(i, from, to) ==
    /\ i \in Of(job) /\ row[i] \in from
    /\ row' = [row EXCEPT ![i] = to]
    /\ UNCHANGED <<job, keyed, aged, record, mails, phase, attempt, lost, cuts>>

Create(i) == SetRow(i, {"new"}, "on")

\* PATCH of is_active; an alert whose delivery was flushed is locked
Switch(i) ==
    /\ ~(i \in Alerts /\ pend[i] = "sent")
    /\ SetRow(i, {"on"}, "off") \/ SetRow(i, {"off"}, "on")

\* an inserted alert result locks its alert against DELETE
Delete(i) ==
    /\ ~(i \in Alerts /\ pend[i] # NONE)
    /\ SetRow(i, {"on", "off"}, "gone")

\* POST /reports/{id}/run stamps the report and queues nothing
RunReport(r) ==
    /\ job = "reports" /\ row[r] \in {"on", "off"}
    /\ record' = [record EXCEPT ![r] = "sent"]
    /\ UNCHANGED <<job, keyed, row, aged, mails, phase, attempt, lost, cuts>>

-----------------------------------------------------------------------------
(* The worker. *)

Active == {i \in Of(job) : row[i] = "on"}

\* session.execute(select(...)) of the job
Start ==
    /\ phase = "due"
    /\ phase' = "runs"
    /\ todo' = IF job = "retention" THEN {OrgOf[p] : p \in Active} ELSE Active
    /\ at' = NONE /\ left' = {} /\ pend' = Nothing /\ broken' = FALSE
    /\ UNCHANGED <<job, keyed, tables, mails, lost, cuts>>

Discard == todo' = {} /\ at' = NONE /\ left' = {} /\ pend' = Nothing /\ broken' = FALSE

Ends == phase = "runs" /\ todo = {} /\ at = NONE

\* the item at hand is done with, and what is pending becomes p
Leave(i, p) == todo' = todo \ {i} /\ at' = NONE /\ pend' = p

\* arq runs the job again
Crash ==
    /\ phase = "runs" /\ cuts < MaxCuts
    /\ phase' = "due" /\ Discard
    /\ cuts' = cuts + 1 /\ lost' = lost + 1
    /\ UNCHANGED <<job, keyed, tables, mails>>

\* job_timeout: CancelledError passes every handler, and arq gives up
Timeout ==
    /\ phase = "runs" /\ cuts < MaxCuts
    /\ phase' = "over" /\ Discard
    /\ cuts' = cuts + 1
    /\ UNCHANGED <<job, keyed, tables, mails, lost>>

\* the next day: other records are old enough
NewDay ==
    /\ phase = "over"
    /\ phase' = "due"
    /\ \E older \in SUBSET (IF job = "retention" THEN Policies ELSE {}) : aged' = aged \cup older
    /\ record' = Nothing
    /\ mails' = [i \in Items |-> 0]
    /\ lost' = 0
    /\ UNCHANGED <<job, keyed, row, attempt, cuts>>

-----------------------------------------------------------------------------
(* process_alerts: one transaction. *)

\* a foreign key that fails rolls back what was flushed before
Flush(a, outcome) ==
    IF broken \/ row[a] = "gone"
    THEN broken' = TRUE /\ Leave(a, Nothing)
    ELSE broken' = FALSE /\ Leave(a, [pend EXCEPT ![a] = outcome])

\* the saved search is gone, or the search raises, in Python or in PostgreSQL
SearchFails(a) ==
    /\ job = "alerts" /\ phase = "runs" /\ at = NONE /\ a \in todo
    /\ broken' \in (IF broken THEN {TRUE} ELSE BOOLEAN)
    /\ Leave(a, pend)
    /\ UNCHANGED <<job, keyed, tables, mails, phase, left, lost, cuts>>

\* Mutant: the result keeps its default status.
FindsTooFewPending(a) ==
    /\ job = "alerts" /\ phase = "runs" /\ at = NONE /\ a \in todo /\ ~broken
    /\ Flush(a, "pending")
    /\ UNCHANGED <<job, keyed, tables, mails, phase, left, lost, cuts>>

FindsTooFew(a) ==
    /\ job = "alerts" /\ phase = "runs" /\ at = NONE /\ a \in todo /\ ~broken
    /\ Flush(a, "skipped")
    /\ UNCHANGED <<job, keyed, tables, mails, phase, left, lost, cuts>>

Finds(a) ==
    /\ job = "alerts" /\ phase = "runs" /\ at = NONE /\ a \in todo /\ ~broken
    /\ at' = a
    /\ UNCHANGED <<job, keyed, tables, mails, phase, todo, left, pend, broken, lost, cuts>>

\* send_email returns; without a key nothing leaves, and it returns all the same
Sends(i) == mails' = IF keyed THEN [mails EXCEPT ![i] = @ + 1] ELSE mails

\* Mutant: a refused mail is logged and passed over, as it is for reports.
NotifySwallows(a) ==
    /\ job = "alerts" /\ at = a
    /\ Sends(a) \/ UNCHANGED mails
    /\ Flush(a, "sent")
    /\ UNCHANGED <<job, keyed, tables, phase, left, lost, cuts>>

\* the mail, the notification, and the flush of both rows
Notify(a) ==
    /\ job = "alerts" /\ at = a
    /\ IF a \in ByMail THEN Sends(a) ELSE UNCHANGED mails
    /\ Flush(a, "sent")
    /\ UNCHANGED <<job, keyed, tables, phase, left, lost, cuts>>

\* the mail is refused, or only its answer is lost
MailRefused(a) ==
    /\ job = "alerts" /\ at = a /\ a \in ByMail /\ keyed
    /\ Sends(a) \/ UNCHANGED mails
    /\ Flush(a, "failed")
    /\ UNCHANGED <<job, keyed, tables, phase, left, lost, cuts>>

Merge == [i \in Items |-> IF pend[i] # NONE THEN pend[i] ELSE record[i]]

\* Mutant: the job asks to be run again when its transaction fails.
CommitAlertsRetry ==
    /\ job = "alerts" /\ Ends
    /\ phase' = IF broken THEN "due" ELSE "over"
    /\ record' = IF broken THEN record ELSE Merge
    /\ Discard
    /\ UNCHANGED <<job, keyed, row, aged, mails, lost, cuts>>

CommitAlerts ==
    /\ job = "alerts" /\ Ends
    /\ phase' = "over"
    /\ record' = IF broken THEN record ELSE Merge
    /\ Discard
    /\ UNCHANGED <<job, keyed, row, aged, mails, lost, cuts>>

-----------------------------------------------------------------------------
(* process_scheduled_reports_task: a commit after each report, no rollback. *)

\* the content raises, in Python or in PostgreSQL
GenerateFails(r) ==
    /\ job = "reports" /\ phase = "runs" /\ at = NONE /\ r \in todo
    /\ broken' \in (IF broken THEN {TRUE} ELSE BOOLEAN)
    /\ Leave(r, pend)
    /\ UNCHANGED <<job, keyed, tables, mails, phase, left, lost, cuts>>

\* send_report_email passes over a recipient whose mail is refused
SendReport(r) ==
    /\ job = "reports" /\ phase = "runs" /\ at = NONE /\ r \in todo /\ ~broken
    /\ at' = r
    /\ Sends(r) \/ UNCHANGED mails
    /\ UNCHANGED <<job, keyed, tables, phase, todo, left, pend, broken, lost, cuts>>

\* last_sent_at; the row of a deleted report is not there to be updated
CommitReport(r) ==
    /\ job = "reports" /\ at = r
    /\ broken' = (row[r] = "gone")
    /\ record' = IF row[r] = "gone" THEN record ELSE [record EXCEPT ![r] = "sent"]
    /\ Leave(r, pend)
    /\ UNCHANGED <<job, keyed, row, aged, mails, phase, left, lost, cuts>>

ReportsOver ==
    /\ job = "reports" /\ Ends
    /\ phase' = "over" /\ Discard
    /\ UNCHANGED <<job, keyed, tables, mails, lost, cuts>>

-----------------------------------------------------------------------------
(* apply_retention_policies_task: a session for each organization. *)

OpenOrg(o) ==
    /\ job = "retention" /\ phase = "runs" /\ at = NONE /\ o \in todo
    /\ at' = o /\ todo' = todo \ {o}
    /\ left' = {p \in Active : OrgOf[p] = o}
    /\ UNCHANGED <<job, keyed, tables, mails, phase, pend, broken, lost, cuts>>

\* the records are deleted and the log is added; nothing is committed
Apply(p) ==
    /\ job = "retention" /\ p \in left \ Inapplicable
    /\ pend' = [pend EXCEPT ![p] = "completed"]
    /\ left' = left \ {p}
    /\ UNCHANGED <<job, keyed, tables, mails, phase, todo, at, broken, lost, cuts>>

\* Mutant: the exception ends the loop over the organizations.
ApplyRaisesOut(p) ==
    /\ job = "retention" /\ p \in left \cap Inapplicable
    /\ phase' = "over" /\ Discard
    /\ UNCHANGED <<job, keyed, tables, mails, lost, cuts>>

\* the exception rolls back the organization, the log of the failure included
ApplyRaises(p) ==
    /\ job = "retention" /\ p \in left \cap Inapplicable
    /\ at' = NONE /\ left' = {} /\ pend' = Nothing
    /\ UNCHANGED <<job, keyed, tables, mails, phase, todo, broken, lost, cuts>>

Applied == {p \in Policies : pend[p] # NONE}

\* what the DELETEs of the policies applied leave of the old records
Remaining == aged \ (Applied \cap Deletes)

\* Mutant: the records are deleted in a transaction of their own.
CommitOrgApart ==
    LET refused == \E p \in Applied : row[p] = "gone"
    IN  /\ job = "retention" /\ at \in Orgs /\ left = {}
        /\ record' = IF refused THEN record ELSE Merge
        /\ aged' = Remaining
        /\ at' = NONE /\ pend' = Nothing
        /\ UNCHANGED <<job, keyed, row, mails, phase, todo, left, broken, lost, cuts>>

\* the commit flushes the logs, which refer to policies that may be gone
CommitOrg ==
    LET refused == \E p \in Applied : row[p] = "gone"
    IN  /\ job = "retention" /\ at \in Orgs /\ left = {}
        /\ record' = IF refused THEN record ELSE Merge
        /\ aged' = IF refused THEN aged ELSE Remaining
        /\ at' = NONE /\ pend' = Nothing
        /\ UNCHANGED <<job, keyed, row, mails, phase, todo, left, broken, lost, cuts>>

RetentionOver ==
    /\ job = "retention" /\ Ends
    /\ phase' = "over" /\ Discard
    /\ UNCHANGED <<job, keyed, tables, mails, lost, cuts>>

-----------------------------------------------------------------------------
Work ==
    \/ Start
    \/ \E a \in Alerts : SearchFails(a) \/ FindsTooFew(a) \/ Finds(a) \/ Notify(a) \/ MailRefused(a)
    \/ CommitAlerts
    \/ \E r \in Reports : GenerateFails(r) \/ SendReport(r) \/ CommitReport(r)
    \/ ReportsOver
    \/ \E o \in Orgs : OpenOrg(o)
    \/ \E p \in Policies : Apply(p) \/ ApplyRaises(p)
    \/ CommitOrg
    \/ RetentionOver

Next ==
    \/ \E i \in Items : Create(i) \/ Switch(i) \/ Delete(i)
    \/ \E r \in Reports : RunReport(r)
    \/ Work \/ Crash \/ Timeout \/ NewDay

Spec == Init /\ [][Next]_vars

\* the worker goes on, and the day ends
FairSpec == Spec /\ WF_vars(Work) /\ WF_vars(NewDay)

-----------------------------------------------------------------------------
(* Where mails leave at all, an alert result says SENT only if its mail    *)
(* was handed over today (modules/alerts/service.py, 508), whatever        *)
(* crashes, timeouts, refused mails and deletions came between the two.    *)
(* Without RESEND_API_KEY results say SENT of mails that were skipped      *)
(* (modules/alerts/email_service.py, 43-45).                               *)
SentWasMailed == keyed => \A a \in ByMail : record[a] = "sent" => mails[a] >= 1

(* Nothing is mailed twice in a day but for runs that a crash cut short,   *)
(* once for each: a transaction that fails after its mails is not retried  *)
(* (modules/alerts/service.py, 489; jobs/reports.py, 189).                 *)
MailedAgainOnlyIfLost == \A i \in Items : mails[i] <= 1 + lost

(* Records are never deleted without a committed log that says so          *)
(* (modules/compliance/service.py, 268): the two share a transaction.      *)
DeletedIsLogged ==
    [][\A p \in aged \ aged' : record'[p] = "completed"]_vars

(* "Retention failed for org" (jobs/retention.py, 103): the policies of an *)
(* organization that can be applied are applied, some day, whatever those  *)
(* of other organizations do and however users edit them.                  *)
OrgsAreIndependent ==
    job = "retention" =>
    \A p \in Deletes :
        (\A q \in Policies : OrgOf[q] = OrgOf[p] => q \notin Inapplicable)
        => []<>(p \notin aged \/ row[p] # "on")
===============================================================================
