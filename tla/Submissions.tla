----------------------------- MODULE Submissions -----------------------------
(***************************************************************************)
(* Research submissions (modules/submissions): a researcher writes a draft *)
(* and submits it, the technology transfer office reviews it and converts  *)
(* it into a paper.                                                        *)
(*                                                                         *)
(* A handler reads the row, checks its status, and later writes and        *)
(* commits; no row is locked in between.  From the first UPDATE to the     *)
(* commit PostgreSQL holds the row lock, so writing and committing are one *)
(* step.  The ORM writes the attributes that differ from what it read.     *)
(* The status "under_review" exists in the code but is never written.      *)
(***************************************************************************)
EXTENDS Integers, FiniteSets

CONSTANTS
    Subs,           \* submissions
    Requests,       \* HTTP requests
    Texts,          \* what a submission may say
    NoAbstract,     \* texts without an abstract
    Overlap,        \* bound: requests in flight at a time
    NONE            \* no submission, decision or paper

Status    == {"draft", "submitted", "approved", "rejected", "converted"}
Decisions == {"approved", "rejected"}
Kinds     == {"update", "submit", "attach", "review", "convert", "analyze"}
Row       == [status : Status, text : Texts, decision : Decisions \cup {NONE},
              linked : BOOLEAN]

ASSUME TextsAssumption == NoAbstract \subseteq Texts
ASSUME NoneAssumption == NONE \notin Texts \cup Subs \cup Decisions \cup Row
ASSUME OverlapAssumption == Overlap \in Nat

VARIABLES
    sub,        \* research_submissions; linked: converted_paper_id is set
    paper,      \* the text of the paper with source_id submission:<id>
    files,      \* objects in MinIO/S3, one per upload
    attached,   \* submission_attachments, each named by its upload
    scores,     \* submission_scores: the texts that were analysed
    phase,      \* where a request stands
    kind,       \* what it asks for
    about,      \* the submission it is about
    seen        \* the row it read

rows  == <<sub, paper, attached, scores>>
vars  == <<rows, files, phase, kind, about, seen>>

TypeOK ==
    /\ sub \in [Subs -> {NONE} \cup Row]
    /\ paper \in [Subs -> {NONE} \cup Texts]
    /\ files \subseteq Requests
    /\ attached \in [Subs -> SUBSET Requests]
    /\ scores \in [Subs -> SUBSET (Texts \ NoAbstract)]
    /\ phase \in [Requests -> {"idle", "stored", "checked", "done"}]
    /\ kind \in [Requests -> Kinds]
    /\ about \in [Requests -> Subs \cup {NONE}]
    /\ seen \in [Requests -> {NONE} \cup Row]

Init ==
    /\ sub = [s \in Subs |-> NONE]
    /\ paper = [s \in Subs |-> NONE]
    /\ files = {}
    /\ attached = [s \in Subs |-> {}]
    /\ scores = [s \in Subs |-> {}]
    /\ phase = [q \in Requests |-> "idle"]
    /\ kind \in [Requests -> Kinds]
    /\ about = [q \in Requests |-> NONE]
    /\ seen = [q \in Requests |-> NONE]

InFlight == {q \in Requests : phase[q] \in {"stored", "checked"}}

\* create_submission: nothing is read that another request may change.
CreateSubmission(s) ==
    /\ sub[s] = NONE
    /\ \E t \in Texts :
         sub' = [sub EXCEPT ![s] = [status |-> "draft", text |-> t, decision |-> NONE,
                                    linked |-> FALSE]]
    /\ UNCHANGED <<paper, attached, scores, files, phase, kind, about, seen>>

\* upload_attachment stores the file before it looks at the submission.
StoreFile(q) ==
    /\ phase[q] = "idle" /\ kind[q] = "attach"
    /\ Cardinality(InFlight) < Overlap
    /\ files' = files \cup {q}
    /\ phase' = [phase EXCEPT ![q] = "stored"]
    /\ UNCHANGED <<rows, kind, about, seen>>

\* Mutant: what was submitted can be converted.
OpenUnreviewed ==
    [update |-> {"draft"}, submit |-> {"draft"}, attach |-> {"draft", "submitted"},
     review |-> {"submitted"}, convert |-> {"submitted", "approved"}, analyze |-> Status]

\* The statuses in which a handler goes on.
Open ==
    [update |-> {"draft"}, submit |-> {"draft"}, attach |-> {"draft", "submitted"},
     review |-> {"submitted"}, convert |-> {"approved"}, analyze |-> Status]

\* Mutant: analyze_submission does not ask for an abstract.
PermittedUnread(k, r) ==
    /\ r.status \in Open[k]
    /\ k = "submit" => r.text \notin NoAbstract
    /\ k = "convert" => ~r.linked

\* What a handler requires of the row it reads.
Permitted(k, r) ==
    /\ r.status \in Open[k]
    /\ k \in {"submit", "analyze"} => r.text \notin NoAbstract
    /\ k = "convert" => ~r.linked

\* _get_submission and the checks that follow it.
Check(q, s) ==
    /\ IF kind[q] = "attach" THEN phase[q] = "stored"
       ELSE phase[q] = "idle" /\ Cardinality(InFlight) < Overlap
    /\ sub[s] # NONE
    /\ about' = [about EXCEPT ![q] = s]
    /\ IF Permitted(kind[q], sub[s])
       THEN /\ phase' = [phase EXCEPT ![q] = "checked"]
            /\ seen' = [seen EXCEPT ![q] = sub[s]]
       ELSE /\ phase' = [phase EXCEPT ![q] = "done"]
            /\ UNCHANGED seen
    /\ UNCHANGED <<rows, files, kind>>

\* The handler returns and get_db commits.
Finish(q, k) ==
    /\ phase[q] = "checked" /\ kind[q] = k
    /\ phase' = [phase EXCEPT ![q] = "done"]
    /\ seen' = [seen EXCEPT ![q] = NONE]
    /\ UNCHANGED <<kind, about>>

\* The UPDATE of the attributes that differ from what the request read.
Write(q, new) ==
    LET s == about[q]
        Now(f) == IF new[f] # seen[q][f] THEN new[f] ELSE sub[s][f]
    IN  sub' = [sub EXCEPT ![s] =
                  [status |-> Now("status"), text |-> Now("text"),
                   decision |-> Now("decision"), linked |-> Now("linked")]]

UpdateSubmission(q) ==
    /\ Finish(q, "update")
    /\ \E t \in Texts : Write(q, [seen[q] EXCEPT !.text = t])
    /\ UNCHANGED <<paper, attached, scores, files>>

SubmitForReview(q) ==
    /\ Finish(q, "submit")
    /\ Write(q, [seen[q] EXCEPT !.status = "submitted"])
    /\ UNCHANGED <<paper, attached, scores, files>>

AddAttachment(q) ==
    /\ Finish(q, "attach")
    /\ attached' = [attached EXCEPT ![about[q]] = @ \cup {q}]
    /\ UNCHANGED <<sub, paper, scores, files>>

\* Mutant: the decision is recorded, the status is not.
ReviewSubmissionForgetting(q) ==
    /\ Finish(q, "review")
    /\ \E d \in Decisions : Write(q, [seen[q] EXCEPT !.status = "approved", !.decision = d])
    /\ UNCHANGED <<paper, attached, scores, files>>

ReviewSubmission(q) ==
    /\ Finish(q, "review")
    /\ \E d \in Decisions : Write(q, [seen[q] EXCEPT !.status = d, !.decision = d])
    /\ UNCHANGED <<paper, attached, scores, files>>

AnalyzeSubmission(q) ==
    /\ Finish(q, "analyze")
    /\ scores' = [scores EXCEPT ![about[q]] = @ \cup {seen[q].text}]
    /\ UNCHANGED <<sub, paper, attached, files>>

\* Mutant: the paper is committed before the submission is marked.
ConvertToPaperSplit(q) ==
    LET s == about[q] IN
    /\ phase[q] = "checked" /\ kind[q] = "convert"
    /\ IF paper[s] = NONE
       THEN paper' = [paper EXCEPT ![s] = seen[q].text] /\ UNCHANGED <<sub, phase, seen>>
       ELSE /\ Write(q, [seen[q] EXCEPT !.status = "converted", !.linked = TRUE])
            /\ phase' = [phase EXCEPT ![q] = "done"]
            /\ seen' = [seen EXCEPT ![q] = NONE]
            /\ UNCHANGED paper
    /\ UNCHANGED <<attached, scores, files, kind, about>>

\* The unique index on (organization, source, source_id) refuses a second paper.
ConvertToPaper(q) ==
    LET s == about[q] IN
    /\ Finish(q, "convert")
    /\ paper[s] = NONE
    /\ paper' = [paper EXCEPT ![s] = seen[q].text]
    /\ Write(q, [seen[q] EXCEPT !.status = "converted", !.linked = TRUE])
    /\ UNCHANGED <<attached, scores, files>>

\* The handler raises, or its process dies: rollback, the stored file stays.
Fails(q) ==
    /\ phase[q] \in {"stored", "checked"}
    /\ phase' = [phase EXCEPT ![q] = "done"]
    /\ seen' = [seen EXCEPT ![q] = NONE]
    /\ UNCHANGED <<rows, files, kind, about>>

\* PaperService.delete_paper; converted_paper_id is set to NULL.
DeletePaper(s) ==
    /\ paper[s] # NONE
    /\ paper' = [paper EXCEPT ![s] = NONE]
    /\ sub' = [sub EXCEPT ![s].linked = FALSE]
    /\ UNCHANGED <<attached, scores, files, phase, kind, about, seen>>

Handle(q) ==
    \/ StoreFile(q) \/ (\E s \in Subs : Check(q, s))
    \/ UpdateSubmission(q) \/ SubmitForReview(q) \/ AddAttachment(q)
    \/ ReviewSubmission(q) \/ AnalyzeSubmission(q) \/ ConvertToPaper(q)
    \/ Fails(q)

Next ==
    \/ \E q \in Requests : Handle(q)
    \/ \E s \in Subs : CreateSubmission(s) \/ DeletePaper(s)

Spec == Init /\ [][Next]_vars

------------------------------------------------------------------------------
(* Whatever overlaps.                                                      *)

\* A submission points to a paper exactly when the paper made from it exists,
\* however many conversions, failures and deletions there were.
LinkedToItsPaper ==
    \A s \in Subs : paper[s] # NONE <=> sub[s] # NONE /\ sub[s].linked

\* No paper is made of a submission nobody has ever decided on.
PaperWasReviewed ==
    \A s \in Subs : paper[s] # NONE => sub[s].decision # NONE

\* Every attachment a user can see has its file.
AttachmentsAreStored == \A s \in Subs : attached[s] \subseteq files

------------------------------------------------------------------------------
(* What the error messages of the service promise.  It holds as long as no *)
(* request works on a row that has changed since it was read.              *)

NoneStale == \A q \in Requests : phase[q] = "checked" => seen[q] = sub[about[q]]

\* "Only draft submissions can be edited": what was submitted stays as it was.
OnlyDraftsAreEdited ==
    [][NoneStale => \A s \in Subs : sub[s] # NONE /\ sub[s].status # "draft"
            => sub'[s].text = sub[s].text]_vars

\* "Only draft submissions can be submitted": a decision is not taken back.
OnlyDraftsAreSubmitted ==
    [][NoneStale => \A s \in Subs : sub[s] # NONE /\ sub[s].status \in Decisions
            => sub'[s].status # "submitted"]_vars

\* The paper says what was approved, and the recorded decision is the one the
\* status shows.
PaperAsApproved ==
    \A s \in Subs : sub[s] # NONE =>
        /\ sub[s].status \in Decisions => sub[s].decision = sub[s].status
        /\ sub[s].status = "converted" => sub[s].decision = "approved"
        /\ paper[s] # NONE => sub[s].status = "converted" /\ paper[s] = sub[s].text

\* No step of a request that works on a current row breaks that agreement.
ApprovalIsKept == [][NoneStale /\ PaperAsApproved => PaperAsApproved']_vars
==============================================================================
