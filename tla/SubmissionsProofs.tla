-------------------------- MODULE SubmissionsProofs --------------------------
(***************************************************************************)
(* Proofs about Submissions, for every set of requests and any overlap:    *)
(* its type invariant, LinkedToItsPaper, PaperWasReviewed and              *)
(* AttachmentsAreStored, and what its error messages promise as long as no *)
(* request works on a stale row.                                           *)
(***************************************************************************)
EXTENDS Submissions, TLAPS

\* What a request that passed its checks may rely on when it writes, although
\* the row may have changed since: the row is there, a decision once made
\* does not disappear, and a conversion saw a decision and no link.
SessionKnows(q) ==
    /\ phase[q] = "stored" => q \in files
    /\ phase[q] = "checked" =>
        /\ about[q] \in Subs /\ sub[about[q]] # NONE /\ seen[q] \in Row
        /\ seen[q].status \in Open[kind[q]]
        /\ seen[q].decision # NONE => sub[about[q]].decision # NONE
        /\ kind[q] = "attach" => q \in files
        /\ kind[q] = "analyze" => seen[q].text \notin NoAbstract
        /\ kind[q] = "convert" => seen[q].decision # NONE /\ ~seen[q].linked

\* An approved row carries a decision.
ApprovedIsDecided ==
    \A s \in Subs : sub[s] # NONE /\ sub[s].status = "approved" => sub[s].decision # NONE

IInv ==
    /\ TypeOK
    /\ LinkedToItsPaper
    /\ PaperWasReviewed
    /\ AttachmentsAreStored
    /\ ApprovedIsDecided
    /\ \A q \in Requests : SessionKnows(q)

------------------------------------------------------------------------------
\* Nothing exists in the initial state.
LEMMA InitInv == Init => IInv
BY DEF Init, IInv, TypeOK, LinkedToItsPaper, PaperWasReviewed, AttachmentsAreStored,
       ApprovedIsDecided, SessionKnows

\* create_submission adds a draft without decision, link or paper.
LEMMA CreateStep ==
    ASSUME IInv, NEW s \in Subs, CreateSubmission(s)
    PROVE  IInv'
<1> USE NoneAssumption DEF IInv, CreateSubmission, rows
<1>1. PICK t \in Texts :
        sub' = [sub EXCEPT ![s] = [status |-> "draft", text |-> t, decision |-> NONE,
                                    linked |-> FALSE]]
  OBVIOUS
<1>2. [status |-> "draft", text |-> t, decision |-> NONE, linked |-> FALSE] \in Row
  BY DEF Row, Status
<1>3. TypeOK'
  BY <1>1, <1>2 DEF TypeOK
<1>4. LinkedToItsPaper' /\ PaperWasReviewed' /\ AttachmentsAreStored' /\ ApprovedIsDecided'
  BY <1>1, <1>2 DEF TypeOK, LinkedToItsPaper, PaperWasReviewed, AttachmentsAreStored,
                    ApprovedIsDecided
<1>5. \A q \in Requests : SessionKnows(q)'
  BY <1>1, <1>2 DEF TypeOK, SessionKnows
<1> QED BY <1>3, <1>4, <1>5

\* upload_attachment only adds a file.
LEMMA StoreFileStep ==
    ASSUME IInv, NEW q \in Requests, StoreFile(q)
    PROVE  IInv'
BY DEF IInv, StoreFile, rows, TypeOK, LinkedToItsPaper, PaperWasReviewed,
       AttachmentsAreStored, ApprovedIsDecided, SessionKnows

\* A request that reads the row learns what the row knows.
LEMMA CheckStep ==
    ASSUME IInv, NEW q \in Requests, NEW s \in Subs, Check(q, s)
    PROVE  IInv'
<1> USE NoneAssumption DEF IInv, Check, rows
<1>1. sub[s] \in Row
  BY DEF TypeOK
<1>2. TypeOK'
  BY <1>1 DEF TypeOK
<1>3. LinkedToItsPaper' /\ PaperWasReviewed' /\ AttachmentsAreStored' /\ ApprovedIsDecided'
  BY DEF LinkedToItsPaper, PaperWasReviewed, AttachmentsAreStored, ApprovedIsDecided
<1>4. ASSUME NEW p \in Requests PROVE SessionKnows(p)'
  <2>1. CASE p # q
    BY <2>1 DEF TypeOK, SessionKnows
  <2>2. CASE p = q
    BY <2>2, <1>1 DEF TypeOK, SessionKnows, Permitted, Open, ApprovedIsDecided
  <2> QED BY <2>1, <2>2
<1> QED BY <1>2, <1>3, <1>4

\* The request that ends, and the requests that go on.
LEMMA FinishStep ==
    ASSUME IInv, NEW q \in Requests, NEW k, Finish(q, k)
    PROVE  /\ phase[q] = "checked" /\ kind[q] = k
           /\ about[q] \in Subs /\ sub[about[q]] \in Row /\ seen[q] \in Row
           /\ phase' \in [Requests -> {"idle", "stored", "checked", "done"}]
           /\ seen' \in [Requests -> {NONE} \cup Row]
           /\ phase'[q] = "done" /\ kind' = kind /\ about' = about
           /\ \A p \in Requests \ {q} : phase'[p] = phase[p] /\ seen'[p] = seen[p]
BY NoneAssumption DEF IInv, Finish, SessionKnows, TypeOK

\* A step that ends a request and keeps rows and decisions keeps what the
\* other requests know.
LEMMA OthersKnow ==
    ASSUME IInv, NEW q \in Requests, NEW k, Finish(q, k), files' = files,
           \A s \in Subs : sub[s] # NONE =>
              /\ sub'[s] # NONE
              /\ sub[s].decision # NONE => sub'[s].decision # NONE
    PROVE  \A p \in Requests : SessionKnows(p)'
BY FinishStep DEF IInv, SessionKnows

\* The rows review_submission and convert_to_paper set out to write.
LEMMA NewRows ==
    ASSUME NEW r \in Row, NEW d \in Decisions
    PROVE  /\ [r EXCEPT !.status = d, !.decision = d] \in Row
           /\ [r EXCEPT !.status = d, !.decision = d].status = d
           /\ [r EXCEPT !.status = d, !.decision = d].decision = d
           /\ [r EXCEPT !.status = d, !.decision = d].linked = r.linked
           /\ [r EXCEPT !.status = d, !.decision = d].text = r.text
           /\ [r EXCEPT !.status = "converted", !.linked = TRUE] \in Row
           /\ [r EXCEPT !.status = "converted", !.linked = TRUE].status = "converted"
           /\ [r EXCEPT !.status = "converted", !.linked = TRUE].decision = r.decision
           /\ [r EXCEPT !.status = "converted", !.linked = TRUE].linked = TRUE
           /\ [r EXCEPT !.status = "converted", !.linked = TRUE].text = r.text
BY DEF Row, Status, Decisions

\* The attributes a request writes: those it changed, and the others as they are.
LEMMA WriteStep ==
    ASSUME IInv, NEW q \in Requests, NEW new \in Row, Write(q, new),
           about[q] \in Subs, sub[about[q]] \in Row
    PROVE  /\ sub' \in [Subs -> {NONE} \cup Row]
           /\ \A s \in Subs \ {about[q]} : sub'[s] = sub[s]
           /\ sub'[about[q]] \in Row
           /\ sub'[about[q]].status =
                IF new.status # seen[q].status THEN new.status ELSE sub[about[q]].status
           /\ sub'[about[q]].decision =
                IF new.decision # seen[q].decision THEN new.decision ELSE sub[about[q]].decision
           /\ sub'[about[q]].linked =
                IF new.linked # seen[q].linked THEN new.linked ELSE sub[about[q]].linked
<1> DEFINE s == about[q]
           Now(f) == IF new[f] # seen[q][f] THEN new[f] ELSE sub[s][f]
           row == [status |-> Now("status"), text |-> Now("text"),
                   decision |-> Now("decision"), linked |-> Now("linked")]
<1>1. row \in Row
  BY DEF Row
<1>2. sub' = [sub EXCEPT ![s] = row]
  BY DEF Write
<1>3. sub \in [Subs -> {NONE} \cup Row]
  BY DEF IInv, TypeOK
<1> HIDE DEF row
<1>4. sub' \in [Subs -> {NONE} \cup Row] /\ sub'[s] = row
      /\ \A x \in Subs \ {s} : sub'[x] = sub[x]
  BY <1>1, <1>2, <1>3
<1> QED BY <1>1, <1>4 DEF row

\* update_submission changes neither status nor decision nor link.
LEMMA UpdateStep ==
    ASSUME IInv, NEW q \in Requests, UpdateSubmission(q)
    PROVE  IInv'
<1> USE NoneAssumption DEF IInv
<1>1. Finish(q, "update") /\ UNCHANGED <<paper, attached, scores, files>>
  BY DEF UpdateSubmission
<1>2. PICK t \in Texts : Write(q, [seen[q] EXCEPT !.text = t])
  BY DEF UpdateSubmission
<1>3. [seen[q] EXCEPT !.text = t] \in Row
  BY <1>1, FinishStep DEF Row
<1>4. /\ sub'[about[q]].status = sub[about[q]].status
      /\ sub'[about[q]].decision = sub[about[q]].decision
      /\ sub'[about[q]].linked = sub[about[q]].linked
  BY <1>1, <1>2, <1>3, FinishStep, WriteStep DEF Row
<1>5. TypeOK'
  BY <1>1, <1>2, <1>3, FinishStep, WriteStep DEF TypeOK
<1>6. LinkedToItsPaper' /\ PaperWasReviewed' /\ AttachmentsAreStored' /\ ApprovedIsDecided'
  BY <1>1, <1>2, <1>3, <1>4, FinishStep, WriteStep
     DEF LinkedToItsPaper, PaperWasReviewed, AttachmentsAreStored, ApprovedIsDecided
<1>7. \A p \in Requests : SessionKnows(p)'
  <2>1. \A s \in Subs : sub[s] # NONE =>
            sub'[s] # NONE /\ (sub[s].decision # NONE => sub'[s].decision # NONE)
    BY <1>1, <1>2, <1>3, <1>4, FinishStep, WriteStep
  <2> QED BY <1>1, <2>1, OthersKnow
<1> QED BY <1>5, <1>6, <1>7

\* submit_for_review never writes "approved", a decision or a link.
LEMMA SubmitStep ==
    ASSUME IInv, NEW q \in Requests, SubmitForReview(q)
    PROVE  IInv'
<1> USE NoneAssumption DEF IInv
<1>1. Finish(q, "submit") /\ UNCHANGED <<paper, attached, scores, files>>
  BY DEF SubmitForReview
<1>2. Write(q, [seen[q] EXCEPT !.status = "submitted"])
  BY DEF SubmitForReview
<1>3. [seen[q] EXCEPT !.status = "submitted"] \in Row
  BY <1>1, FinishStep DEF Row, Status
<1>4. /\ sub'[about[q]].status \in {"submitted", sub[about[q]].status}
      /\ sub'[about[q]].decision = sub[about[q]].decision
      /\ sub'[about[q]].linked = sub[about[q]].linked
  BY <1>1, <1>2, <1>3, FinishStep, WriteStep DEF Row
<1>5. TypeOK'
  BY <1>1, <1>2, <1>3, FinishStep, WriteStep DEF TypeOK
<1>6. LinkedToItsPaper' /\ PaperWasReviewed' /\ AttachmentsAreStored' /\ ApprovedIsDecided'
  BY <1>1, <1>2, <1>3, <1>4, FinishStep, WriteStep
     DEF LinkedToItsPaper, PaperWasReviewed, AttachmentsAreStored, ApprovedIsDecided
<1>7. \A p \in Requests : SessionKnows(p)'
  <2>1. \A s \in Subs : sub[s] # NONE =>
            sub'[s] # NONE /\ (sub[s].decision # NONE => sub'[s].decision # NONE)
    BY <1>1, <1>2, <1>3, <1>4, FinishStep, WriteStep
  <2> QED BY <1>1, <2>1, OthersKnow
<1> QED BY <1>5, <1>6, <1>7

\* review_submission leaves a decision behind, its own or a later one.
LEMMA ReviewStep ==
    ASSUME IInv, NEW q \in Requests, ReviewSubmission(q)
    PROVE  IInv'
<1> USE NoneAssumption DEF IInv
<1>1. Finish(q, "review") /\ UNCHANGED <<paper, attached, scores, files>>
  BY DEF ReviewSubmission
<1>2. PICK d \in Decisions : Write(q, [seen[q] EXCEPT !.status = d, !.decision = d])
  BY DEF ReviewSubmission
<1>3. [seen[q] EXCEPT !.status = d, !.decision = d] \in Row
  BY <1>1, FinishStep, NewRows
<1>4. /\ sub'[about[q]].decision # NONE
      /\ sub'[about[q]].linked = sub[about[q]].linked
  <2> DEFINE new == [seen[q] EXCEPT !.status = d, !.decision = d]
  <2>. seen[q] \in Row
    BY <1>1, FinishStep
  <2>1. new.decision = d /\ new.linked = seen[q].linked /\ d # NONE
    <3>1. new.decision = d
      BY NewRows, Zenon
    <3>2. new.linked = seen[q].linked
      BY NewRows, Zenon
    <3> QED BY <3>1, <3>2
  <2> HIDE DEF new
  <2>2. about[q] \in Subs /\ sub[about[q]] \in Row /\ new \in Row /\ Write(q, new)
    BY <1>1, <1>2, <1>3, FinishStep DEF new
  <2>3. seen[q].decision # NONE => sub[about[q]].decision # NONE
    BY <1>1, FinishStep DEF SessionKnows
  <2> QED BY <2>1, <2>2, <2>3, WriteStep
<1>5. TypeOK'
  BY <1>1, <1>2, <1>3, FinishStep, WriteStep DEF TypeOK
<1>6. LinkedToItsPaper' /\ PaperWasReviewed' /\ AttachmentsAreStored' /\ ApprovedIsDecided'
  BY <1>1, <1>2, <1>3, <1>4, FinishStep, WriteStep
     DEF LinkedToItsPaper, PaperWasReviewed, AttachmentsAreStored, ApprovedIsDecided
<1>7. \A p \in Requests : SessionKnows(p)'
  <2>1. \A s \in Subs : sub[s] # NONE =>
            sub'[s] # NONE /\ (sub[s].decision # NONE => sub'[s].decision # NONE)
    BY <1>1, <1>2, <1>3, <1>4, FinishStep, WriteStep
  <2> QED BY <1>1, <2>1, OthersKnow
<1> QED BY <1>5, <1>6, <1>7

\* convert_to_paper commits the paper and the link together.
LEMMA ConvertStep ==
    ASSUME IInv, NEW q \in Requests, ConvertToPaper(q)
    PROVE  IInv'
<1> USE NoneAssumption DEF IInv
<1>1. /\ Finish(q, "convert")
      /\ paper' = [paper EXCEPT ![about[q]] = seen[q].text]
      /\ UNCHANGED <<attached, scores, files>>
  BY DEF ConvertToPaper
<1>2. Write(q, [seen[q] EXCEPT !.status = "converted", !.linked = TRUE])
  BY DEF ConvertToPaper
<1>3. [seen[q] EXCEPT !.status = "converted", !.linked = TRUE] \in Row
  BY <1>1, FinishStep, NewRows DEF Decisions
<1>4. /\ sub'[about[q]].decision = sub[about[q]].decision
      /\ sub'[about[q]].linked = TRUE
      /\ sub'[about[q]].status \in {"converted", sub[about[q]].status}
  <2> DEFINE new == [seen[q] EXCEPT !.status = "converted", !.linked = TRUE]
  <2>. seen[q] \in Row
    BY <1>1, FinishStep
  <2>1. /\ new.decision = seen[q].decision /\ new.linked = TRUE
        /\ new.status = "converted" /\ seen[q].linked = FALSE
    <3>1. "approved" \in Decisions
      BY DEF Decisions
    <3>2. new.decision = seen[q].decision
      BY <3>1, NewRows, Zenon
    <3>3. new.linked = TRUE
      BY <3>1, NewRows, Zenon
    <3>4. new.status = "converted"
      BY <3>1, NewRows, Zenon
    <3>5. seen[q].linked = FALSE
      BY <1>1, FinishStep DEF Row, SessionKnows
    <3> QED BY <3>2, <3>3, <3>4, <3>5
  <2> HIDE DEF new
  <2>2. about[q] \in Subs /\ sub[about[q]] \in Row /\ new \in Row /\ Write(q, new)
    BY <1>1, <1>2, <1>3, FinishStep DEF new
  <2> QED BY <2>1, <2>2, WriteStep
<1>5. seen[q].text \in Texts /\ sub[about[q]].decision # NONE
  BY <1>1, FinishStep DEF Row, SessionKnows
<1>6. TypeOK'
  BY <1>1, <1>2, <1>3, <1>5, FinishStep, WriteStep DEF TypeOK
<1>7. LinkedToItsPaper' /\ PaperWasReviewed' /\ AttachmentsAreStored' /\ ApprovedIsDecided'
  BY <1>1, <1>2, <1>3, <1>4, <1>5, FinishStep, WriteStep
     DEF TypeOK, LinkedToItsPaper, PaperWasReviewed, AttachmentsAreStored, ApprovedIsDecided
<1>8. \A p \in Requests : SessionKnows(p)'
  <2>1. \A s \in Subs : sub[s] # NONE =>
            sub'[s] # NONE /\ (sub[s].decision # NONE => sub'[s].decision # NONE)
    BY <1>1, <1>2, <1>3, <1>4, FinishStep, WriteStep
  <2> QED BY <1>1, <2>1, OthersKnow
<1> QED BY <1>6, <1>7, <1>8

\* Attachments and scores touch no submission.
LEMMA AddStep ==
    ASSUME IInv, NEW q \in Requests, AddAttachment(q) \/ AnalyzeSubmission(q)
    PROVE  IInv'
<1> USE NoneAssumption DEF IInv
<1>1. PICK k : Finish(q, k) /\ k \in {"attach", "analyze"}
  BY DEF AddAttachment, AnalyzeSubmission
<1>2. UNCHANGED <<sub, paper, files>>
  BY DEF AddAttachment, AnalyzeSubmission
<1>3. TypeOK'
  <2>1. attached' \in [Subs -> SUBSET Requests]
    BY DEF TypeOK, AddAttachment, AnalyzeSubmission
  <2>2. scores' \in [Subs -> SUBSET (Texts \ NoAbstract)]
    <3>1. CASE AddAttachment(q)
      BY <3>1 DEF TypeOK, AddAttachment
    <3>2. CASE AnalyzeSubmission(q)
      <4>1. Finish(q, "analyze") /\ scores' = [scores EXCEPT ![about[q]] = @ \cup {seen[q].text}]
        BY <3>2 DEF AnalyzeSubmission
      <4>2. seen[q].text \in Texts \ NoAbstract
        BY <4>1, FinishStep DEF SessionKnows, Row
      <4> QED BY <4>1, <4>2 DEF TypeOK
    <3> QED BY <3>1, <3>2
  <2> QED BY <1>1, <1>2, <2>1, <2>2, FinishStep DEF TypeOK
<1>4. LinkedToItsPaper' /\ PaperWasReviewed' /\ ApprovedIsDecided'
  BY <1>2 DEF LinkedToItsPaper, PaperWasReviewed, ApprovedIsDecided
<1>5. AttachmentsAreStored'
  BY <1>2 DEF TypeOK, AttachmentsAreStored, AddAttachment, AnalyzeSubmission, Finish,
              SessionKnows
<1>6. \A p \in Requests : SessionKnows(p)'
  BY <1>1, <1>2, OthersKnow
<1> QED BY <1>3, <1>4, <1>5, <1>6

\* A request that fails leaves the tables.
LEMMA FailsStep ==
    ASSUME IInv, NEW q \in Requests, Fails(q)
    PROVE  IInv'
BY NoneAssumption DEF IInv, Fails, rows, TypeOK, LinkedToItsPaper, PaperWasReviewed,
       AttachmentsAreStored, ApprovedIsDecided, SessionKnows

\* A deleted paper takes the link with it.
LEMMA DeletePaperStep ==
    ASSUME IInv, NEW s \in Subs, DeletePaper(s)
    PROVE  IInv'
<1> USE NoneAssumption DEF IInv, DeletePaper
<1>1. sub[s] \in Row
  BY DEF TypeOK, LinkedToItsPaper
<1>2. [sub[s] EXCEPT !.linked = FALSE] \in Row
  BY <1>1 DEF Row
<1>3. sub' = [sub EXCEPT ![s] = [sub[s] EXCEPT !.linked = FALSE]]
  OBVIOUS
<1>4. sub'[s] \in Row /\ ~sub'[s].linked /\ sub'[s].status = sub[s].status
      /\ sub'[s].decision = sub[s].decision /\ \A x \in Subs \ {s} : sub'[x] = sub[x]
  BY <1>1, <1>2, <1>3 DEF TypeOK, Row
<1>5. TypeOK'
  BY <1>2, <1>3 DEF TypeOK
<1>6. LinkedToItsPaper' /\ PaperWasReviewed' /\ AttachmentsAreStored' /\ ApprovedIsDecided'
  BY <1>1, <1>4 DEF TypeOK, LinkedToItsPaper, PaperWasReviewed, AttachmentsAreStored,
              ApprovedIsDecided
<1>7. ASSUME NEW p \in Requests PROVE SessionKnows(p)'
  <2>1. \A x \in Subs : sub[x] # NONE => sub'[x] # NONE /\ sub'[x].decision = sub[x].decision
    BY <1>4
  <2>2. SessionKnows(p) /\ UNCHANGED <<attached, scores, files, phase, kind, about, seen>>
    OBVIOUS
  <2> QED BY <2>1, <2>2 DEF SessionKnows
<1> QED BY <1>5, <1>6, <1>7

\* The invariant is inductive.
LEMMA NextInv == IInv /\ [Next]_vars => IInv'
<1> SUFFICES ASSUME IInv, [Next]_vars PROVE IInv'
  OBVIOUS
<1>1. CASE UNCHANGED vars
  BY <1>1 DEF vars, rows, IInv, TypeOK, LinkedToItsPaper, PaperWasReviewed,
              AttachmentsAreStored, ApprovedIsDecided, SessionKnows
<1>2. CASE \E s \in Subs : CreateSubmission(s) \/ DeletePaper(s)
  BY <1>2, CreateStep, DeletePaperStep
<1>3. CASE \E q \in Requests : Handle(q)
  BY <1>3, StoreFileStep, CheckStep, UpdateStep, SubmitStep, ReviewStep, ConvertStep,
     AddStep, FailsStep DEF Handle
<1> QED BY <1>1, <1>2, <1>3 DEF Next

\* The inductive invariant holds in every reachable state.
THEOREM Invariance == Spec => []IInv
BY InitInv, NextInv, PTL DEF Spec

\* Every row and request has a value the code can give it; in particular
\* nothing without an abstract is ever analysed.
THEOREM TypeCorrect == Spec => []TypeOK
BY Invariance, PTL DEF IInv

\* A submission is linked exactly to the paper made from it, although
\* convert_to_paper checks a row that may have changed when it writes.
THEOREM LinkIsExact == Spec => []LinkedToItsPaper
BY Invariance, PTL DEF IInv

\* A paper is never made of a submission without a decision.
THEOREM ConversionFollowsReview == Spec => []PaperWasReviewed
BY Invariance, PTL DEF IInv

\* upload_attachment stores the file first: no attachment lacks it.
THEOREM AttachmentsHaveFiles == Spec => []AttachmentsAreStored
BY Invariance, PTL DEF IInv

------------------------------------------------------------------------------
(* Requests that work on current rows.                                     *)

\* When the row is as it was read, the UPDATE makes it what the handler meant.
LEMMA CurrentWrite ==
    ASSUME IInv, NoneStale, NEW q \in Requests, NEW k, Finish(q, k),
           NEW new \in Row, Write(q, new)
    PROVE  /\ sub'[about[q]] = new /\ seen[q] = sub[about[q]]
           /\ \A s \in Subs \ {about[q]} : sub'[s] = sub[s]
<1>1. phase[q] = "checked" /\ about[q] \in Subs /\ sub[about[q]] \in Row
  BY FinishStep
<1>2. seen[q] = sub[about[q]]
  BY <1>1 DEF NoneStale
<1>3. [status |-> new.status, text |-> new.text, decision |-> new.decision,
       linked |-> new.linked] = new
  BY DEF Row
<1>4. sub' = [sub EXCEPT ![about[q]] = new]
  BY <1>2, <1>3 DEF Write
<1> QED BY <1>1, <1>2, <1>4 DEF IInv, TypeOK

\* The handler went on only in a status it accepts.
LEMMA OpenStatus ==
    ASSUME IInv, NEW q \in Requests, NEW k, Finish(q, k)
    PROVE  seen[q].status \in Open[k]
<1>1. SessionKnows(q) /\ phase[q] = "checked" /\ kind[q] = k
  BY FinishStep DEF IInv
<1> QED BY <1>1 DEF SessionKnows

\* How a submission can change while no request is stale.
Edited(s) ==
    /\ sub[s].status = "draft" /\ sub'[s].status \in {"draft", "submitted"}
    /\ sub'[s].decision = sub[s].decision /\ paper'[s] = paper[s]

Decided(s) ==
    /\ sub[s].status = "submitted" /\ sub'[s].status \in Decisions
    /\ sub'[s].decision = sub'[s].status
    /\ sub'[s].text = sub[s].text /\ paper'[s] = paper[s]

Converted(s) ==
    /\ sub[s].status = "approved" /\ sub'[s].status = "converted"
    /\ sub'[s].decision = sub[s].decision
    /\ sub'[s].text = sub[s].text /\ paper'[s] = sub[s].text

Unlinked(s) ==
    /\ sub'[s].status = sub[s].status /\ sub'[s].decision = sub[s].decision
    /\ sub'[s].text = sub[s].text /\ paper'[s] \in {NONE, paper[s]}

\* update_submission and submit_for_review change drafts only.
LEMMA DraftStep ==
    ASSUME IInv, NoneStale, NEW q \in Requests, UpdateSubmission(q) \/ SubmitForReview(q),
           NEW s \in Subs, sub[s] # NONE
    PROVE  sub'[s] \in Row /\ (Edited(s) \/ Unlinked(s))
<1>1. PICK k \in {"update", "submit"}, new \in Row :
        /\ Finish(q, k) /\ Write(q, new) /\ new.decision = seen[q].decision
        /\ new.status \in {seen[q].status, "submitted"} /\ UNCHANGED paper
  <2>1. CASE UpdateSubmission(q)
    <3>1. PICK t \in Texts : Finish(q, "update") /\ Write(q, [seen[q] EXCEPT !.text = t])
                             /\ UNCHANGED paper
      BY <2>1 DEF UpdateSubmission
    <3>2. /\ [seen[q] EXCEPT !.text = t] \in Row
          /\ [seen[q] EXCEPT !.text = t].decision = seen[q].decision
          /\ [seen[q] EXCEPT !.text = t].status = seen[q].status
      BY <3>1, FinishStep DEF Row
    <3> QED BY <3>1, <3>2
  <2>2. CASE SubmitForReview(q)
    <3>1. Finish(q, "submit") /\ Write(q, [seen[q] EXCEPT !.status = "submitted"])
          /\ UNCHANGED paper
      BY <2>2 DEF SubmitForReview
    <3>2. /\ [seen[q] EXCEPT !.status = "submitted"] \in Row
          /\ [seen[q] EXCEPT !.status = "submitted"].decision = seen[q].decision
          /\ [seen[q] EXCEPT !.status = "submitted"].status = "submitted"
      BY <3>1, FinishStep DEF Row, Status
    <3> QED BY <3>1, <3>2
  <2> QED BY <2>1, <2>2
<1>2. sub'[about[q]] = new /\ seen[q] = sub[about[q]]
      /\ \A x \in Subs \ {about[q]} : sub'[x] = sub[x]
  BY <1>1, CurrentWrite
<1>3. seen[q].status = "draft"
  BY <1>1, OpenStatus DEF Open
<1>4. CASE s = about[q]
  BY <1>1, <1>2, <1>3, <1>4 DEF Edited
<1>5. CASE s # about[q]
  BY <1>1, <1>2, <1>5 DEF Unlinked, IInv, TypeOK
<1> QED BY <1>4, <1>5

\* review_submission decides on what was submitted.
LEMMA DecisionStep ==
    ASSUME IInv, NoneStale, NEW q \in Requests, ReviewSubmission(q),
           NEW s \in Subs, sub[s] # NONE
    PROVE  sub'[s] \in Row /\ (Decided(s) \/ Unlinked(s))
<1>1. PICK d \in Decisions : /\ Write(q, [seen[q] EXCEPT !.status = d, !.decision = d])
                             /\ Finish(q, "review") /\ UNCHANGED paper
  BY DEF ReviewSubmission
<1>2. PICK new \in Row : /\ Write(q, new) /\ new.status = d /\ new.decision = d
                         /\ new.text = seen[q].text
  <2>1. seen[q] \in Row
    BY <1>1, FinishStep
  <2> DEFINE new == [seen[q] EXCEPT !.status = d, !.decision = d]
  <2>2. new \in Row /\ new.status = d /\ new.decision = d /\ new.text = seen[q].text
    BY <2>1, NewRows, Zenon
  <2> QED BY <1>1, <2>2, Zenon
<1>3. sub'[about[q]] = new /\ seen[q] = sub[about[q]]
      /\ \A x \in Subs \ {about[q]} : sub'[x] = sub[x]
  BY <1>1, <1>2, CurrentWrite
<1>4. seen[q].status = "submitted"
  BY <1>1, OpenStatus DEF Open
<1>5. CASE s = about[q]
  BY <1>1, <1>2, <1>3, <1>4, <1>5 DEF Decided
<1>6. CASE s # about[q]
  BY <1>1, <1>3, <1>6 DEF Unlinked, IInv, TypeOK
<1> QED BY <1>5, <1>6

\* convert_to_paper copies the text that was approved.
LEMMA ConversionStep ==
    ASSUME IInv, NoneStale, NEW q \in Requests, ConvertToPaper(q),
           NEW s \in Subs, sub[s] # NONE
    PROVE  sub'[s] \in Row /\ (Converted(s) \/ Unlinked(s))
<1>1. /\ Write(q, [seen[q] EXCEPT !.status = "converted", !.linked = TRUE])
      /\ Finish(q, "convert") /\ paper' = [paper EXCEPT ![about[q]] = seen[q].text]
  BY DEF ConvertToPaper
<1>2. PICK new \in Row : /\ Write(q, new) /\ new.status = "converted"
                         /\ new.decision = seen[q].decision /\ new.text = seen[q].text
  <2>1. seen[q] \in Row /\ "approved" \in Decisions
    BY <1>1, FinishStep DEF Decisions
  <2> DEFINE new == [seen[q] EXCEPT !.status = "converted", !.linked = TRUE]
  <2>2. /\ new \in Row /\ new.status = "converted"
        /\ new.decision = seen[q].decision /\ new.text = seen[q].text
    BY <2>1, NewRows, Zenon
  <2> QED BY <1>1, <2>2, Zenon
<1>3. sub'[about[q]] = new /\ seen[q] = sub[about[q]]
      /\ \A x \in Subs \ {about[q]} : sub'[x] = sub[x]
  BY <1>1, <1>2, CurrentWrite
<1>4. seen[q].status = "approved"
  BY <1>1, OpenStatus DEF Open
<1>5. CASE s = about[q]
  BY <1>1, <1>2, <1>3, <1>4, <1>5 DEF Converted, IInv, TypeOK
<1>6. CASE s # about[q]
  BY <1>1, <1>3, <1>6 DEF Unlinked, IInv, TypeOK
<1> QED BY <1>5, <1>6

\* Every step, as one submission sees it.
LEMMA CurrentStep ==
    ASSUME IInv, NoneStale, [Next]_vars, NEW s \in Subs, sub[s] # NONE
    PROVE  sub'[s] \in Row /\ (Edited(s) \/ Decided(s) \/ Converted(s) \/ Unlinked(s))
<1>1. sub[s] \in Row
  BY DEF IInv, TypeOK
<1>2. CASE UNCHANGED <<sub, paper>>
  BY <1>1, <1>2 DEF Unlinked
<1>3. ASSUME NEW x \in Subs, CreateSubmission(x) PROVE sub'[s] \in Row /\ Unlinked(s)
  <2>1. x # s /\ sub'[s] = sub[s] /\ UNCHANGED paper
    BY <1>3 DEF CreateSubmission, IInv, TypeOK
  <2> QED BY <1>1, <2>1 DEF Unlinked
<1>4. ASSUME NEW x \in Subs, DeletePaper(x) PROVE sub'[s] \in Row /\ Unlinked(s)
  <2>1. sub'[s] = sub[s] \/ sub'[s] = [sub[s] EXCEPT !.linked = FALSE]
    BY <1>4 DEF DeletePaper, IInv, TypeOK
  <2>2. /\ sub'[s] \in Row /\ sub'[s].status = sub[s].status
        /\ sub'[s].decision = sub[s].decision /\ sub'[s].text = sub[s].text
    BY <1>1, <2>1 DEF Row
  <2>3. paper'[s] \in {NONE, paper[s]}
    BY <1>4 DEF DeletePaper, IInv, TypeOK
  <2> QED BY <2>2, <2>3 DEF Unlinked
<1>5. ASSUME NEW q \in Requests, Handle(q)
      PROVE  \/ UNCHANGED <<sub, paper>>
             \/ UpdateSubmission(q) \/ SubmitForReview(q) \/ ReviewSubmission(q)
             \/ ConvertToPaper(q)
  BY <1>5 DEF Handle, StoreFile, Check, AddAttachment, AnalyzeSubmission, Fails, rows
<1> QED BY <1>2, <1>3, <1>4, <1>5, DraftStep, DecisionStep, ConversionStep DEF Next, vars, rows

\* "Only draft submissions can be edited", as long as no request is stale.
THEOREM EditsNeedADraft == Spec => OnlyDraftsAreEdited
<1>1. IInv /\ [Next]_vars =>
        [NoneStale => \A s \in Subs : sub[s] # NONE /\ sub[s].status # "draft"
            => sub'[s].text = sub[s].text]_vars
  BY CurrentStep DEF Edited, Decided, Converted, Unlinked
<1> QED BY <1>1, Invariance, PTL DEF Spec, OnlyDraftsAreEdited

\* "Only draft submissions can be submitted", as long as no request is stale.
THEOREM SubmissionNeedsADraft == Spec => OnlyDraftsAreSubmitted
<1>1. IInv /\ [Next]_vars =>
        [NoneStale => \A s \in Subs : sub[s] # NONE /\ sub[s].status \in Decisions
            => sub'[s].status # "submitted"]_vars
  BY CurrentStep DEF Edited, Decided, Converted, Unlinked, Decisions
<1> QED BY <1>1, Invariance, PTL DEF Spec, OnlyDraftsAreSubmitted

\* Status, decision and paper keep agreeing while no request is stale.
LEMMA ApprovalStep ==
    ASSUME IInv, [Next]_vars, NoneStale, PaperAsApproved
    PROVE  PaperAsApproved'
<1> SUFFICES ASSUME NEW s \in Subs, sub'[s] # NONE
             PROVE  /\ sub'[s].status \in Decisions => sub'[s].decision = sub'[s].status
                    /\ sub'[s].status = "converted" => sub'[s].decision = "approved"
                    /\ paper'[s] # NONE => sub'[s].status = "converted"
                                           /\ paper'[s] = sub'[s].text
  BY DEF PaperAsApproved
<1>1. CASE sub[s] = NONE
  <2>1. PICK x \in Subs : CreateSubmission(x)
    <3>1. ASSUME NEW q \in Requests, Handle(q) PROVE FALSE
      <4>1. UNCHANGED sub \/ \E k, new : Finish(q, k) /\ Write(q, new)
        BY <3>1 DEF Handle, StoreFile, Check, AddAttachment, AnalyzeSubmission, Fails, rows,
                    UpdateSubmission, SubmitForReview, ReviewSubmission, ConvertToPaper
      <4>2. ASSUME NEW k, NEW new, Finish(q, k), Write(q, new) PROVE FALSE
        <5>1. about[q] \in Subs /\ sub[about[q]] \in Row
          BY <4>2, FinishStep
        <5> QED BY <1>1, <4>2, <5>1, NoneAssumption DEF Write, IInv, TypeOK
      <4> QED BY <1>1, <4>1, <4>2
    <3>2. ASSUME NEW x \in Subs, DeletePaper(x) PROVE FALSE
      BY <1>1, <3>2 DEF DeletePaper, IInv, TypeOK, LinkedToItsPaper
    <3> QED BY <1>1, <3>1, <3>2 DEF Next, vars, rows
  <2>2. sub'[s].status = "draft" /\ paper'[s] = NONE
    BY <1>1, <2>1 DEF CreateSubmission, IInv, TypeOK, LinkedToItsPaper
  <2> QED BY <2>2 DEF Decisions
<1>2. CASE sub[s] # NONE
  BY <1>2, CurrentStep DEF PaperAsApproved, Edited, Decided, Converted, Unlinked, Decisions
<1> QED BY <1>1, <1>2

\* The paper says what was approved, as long as no request is stale.
THEOREM ApprovalPersists == Spec => ApprovalIsKept
<1>1. IInv /\ [Next]_vars =>
        [NoneStale /\ PaperAsApproved => PaperAsApproved']_vars
  BY ApprovalStep
<1> QED BY <1>1, Invariance, PTL DEF Spec, ApprovalIsKept
==============================================================================
