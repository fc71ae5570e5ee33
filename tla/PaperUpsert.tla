----------------------------- MODULE PaperUpsert -----------------------------
(***************************************************************************)
(* Paper identity: PaperUpsertService.upsert_many                          *)
(* (modules/papers/upsert_service.py), which the ingestion pipeline calls  *)
(* with a batch and the Zotero sync with one item at a time.               *)
(*                                                                         *)
(* A batch reads its candidates once, into three lookup tables, and then   *)
(* takes its bundles one after the other: a bundle is merged into the      *)
(* paper a table gives for it, or a paper is created and entered into the  *)
(* tables.  A merge fills empty columns and enters nothing.  All of it is  *)
(* one transaction: two rows with one DOI, or one source and source id,    *)
(* are refused by a unique index and the batch is rolled back.  Batches    *)
(* that overlap are the subject of module Ingestion; here they follow one  *)
(* another, with papers created in other ways and deleted in between.      *)
(*                                                                         *)
(* A DOI is a spelling (Bare gives what _normalize_doi makes of it, and    *)
(* Normal what _normalize_title makes of a title); upper and lower case    *)
(* are one spelling, as they are for the queries and for the index.        *)
(***************************************************************************)
EXTENDS Naturals, Sequences, FiniteSets

CONSTANTS
    Dois, Bare,         \* spellings of DOIs; a spelling without its prefix
    Titles, Normal,     \* titles; a title with its white space normalized
    Years,              \* years of publication
    Sources, Keys,      \* sources, and the ids of records in them
    Bundles,            \* the normalized records that may arrive
    Rows,               \* the papers other parts of the program create
    MaxBatch,           \* bundles in a batch
    Ids,                \* ids of papers
    NONE                \* NULL, and no paper

Bundle == [doi : Dois \cup {NONE}, source : Sources, key : Keys, sid : Keys \cup {NONE},
           title : Titles, year : Years \cup {NONE}]
Paper  == [doi : Dois \cup {NONE}, source : Sources, sid : Keys \cup {NONE},
           title : Titles, year : Years \cup {NONE}]

ASSUME SpellingAssumption ==
    /\ Bare \in [Dois -> Dois] /\ \A d \in Dois : Bare[Bare[d]] = Bare[d]
    /\ Normal \in [Titles -> Titles] /\ \A t \in Titles : Normal[Normal[t]] = Normal[t]
ASSUME RecordsAssumption == Bundles \subseteq Bundle /\ Rows \subseteq Paper
ASSUME NoneAssumption ==
    /\ NONE \notin Dois \cup Keys \cup Years \cup Ids \cup Paper
    /\ MaxBatch \in Nat

VARIABLES
    papers,     \* the committed papers
    known,      \* the paper a committed batch found or created for a bundle
    todo,       \* bundles the open batch has still to take; <<>> at its end
    open,       \* a batch is running
    work,       \* the papers as the session of the batch sees them
    lookup,     \* doi_lookup, source_lookup and title_lookup
    found       \* the results of the batch so far

batch == <<todo, open, work, lookup, found>>
vars  == <<papers, known, batch>>

IdOrNone   == Ids \cup {NONE}
SourceKeys == Sources \X Keys
TitleKeys  == Titles \X (Years \cup {NONE})
Lookups    == [doi : [Dois -> IdOrNone], source : [SourceKeys -> IdOrNone],
               title : [TitleKeys -> IdOrNone]]
NoLookups  == [doi |-> [d \in Dois |-> NONE], source |-> [k \in SourceKeys |-> NONE],
               title |-> [k \in TitleKeys |-> NONE]]
Nothing    == [b \in Bundles |-> NONE]

TypeOK ==
    /\ papers \in [Ids -> Paper \cup {NONE}] /\ work \in [Ids -> Paper \cup {NONE}]
    /\ known \in [Bundles -> IdOrNone] /\ found \in [Bundles -> IdOrNone]
    /\ todo \in Seq(Bundles) /\ open \in BOOLEAN
    /\ lookup \in Lookups

Init ==
    /\ papers = [p \in Ids |-> NONE] /\ known = Nothing
    /\ todo = <<>> /\ open = FALSE /\ work = papers
    /\ lookup = NoLookups /\ found = Nothing

-----------------------------------------------------------------------------
(* The unique indexes of the table papers. *)

Stored(T) == {p \in Ids : T[p] # NONE}

SameDoi(r, s)    == r.doi # NONE /\ r.doi = s.doi
SameSource(r, s) == r.sid # NONE /\ r.sid = s.sid /\ r.source = s.source

Refused(T) ==
    \E p, q \in Stored(T) : p # q /\ (SameDoi(T[p], T[q]) \/ SameSource(T[p], T[q]))

-----------------------------------------------------------------------------
(* The prefetch. *)

HasDoi(T, d)       == {p \in Stored(T) : T[p].doi = d}
HasSource(T, k)    == {p \in Stored(T) : T[p].source = k[1] /\ T[p].sid = k[2]}
\* lower(title) is compared with a normalized title
HasTitle(T, t)     == {p \in Stored(T) : T[p].title = t}
HasTitleYear(T, k) == {p \in HasTitle(T, k[1]) : T[p].year = k[2]}

TheOf(S) == IF S = {} THEN NONE ELSE CHOOSE p \in S : TRUE

PrefetchByDoi    == [d \in Dois |-> TheOf(HasDoi(papers, d))]
PrefetchBySource == [k \in SourceKeys |-> TheOf(HasSource(papers, k))]

OneOf(S) == IF S = {} THEN {NONE} ELSE S

Firsts  == {f \in [Titles -> IdOrNone] : \A t \in Titles : f[t] \in OneOf(HasTitle(papers, t))}
OfYears == {f \in [Titles \X Years -> IdOrNone] :
                \A k \in Titles \X Years : f[k] \in OneOf(HasTitleYear(papers, k))}

\* setdefault keeps the first paper the query returns, in whatever order it does:
\* first is the first with a title, ofYear the first with a title and a year
PrefetchByTitle(first, ofYear) ==
    [k \in TitleKeys |->
        IF k[2] = NONE \/ (first[k[1]] # NONE /\ papers[first[k[1]]].year = k[2])
        THEN first[k[1]] ELSE ofYear[k]]

Batches == UNION {[1..n -> Bundles] : n \in 1..MaxBatch}

StartBatch ==
    /\ ~open
    /\ \E bundles \in Batches : todo' = bundles
    /\ \E first \in Firsts, ofYear \in OfYears :
          lookup' = [doi |-> PrefetchByDoi, source |-> PrefetchBySource,
                     title |-> PrefetchByTitle(first, ofYear)]
    /\ open' = TRUE /\ work' = papers /\ found' = Nothing
    /\ UNCHANGED <<papers, known>>

-----------------------------------------------------------------------------
(* A bundle: the DOI first, then the source id, then title and year. *)

ByDoi(b)    == IF b.doi = NONE THEN NONE ELSE lookup.doi[Bare[b.doi]]
BySource(b) == lookup.source[<<b.source, b.key>>]
ByTitle(b)  == lookup.title[<<Normal[b.title], b.year>>]

Existing(b) ==
    IF ByDoi(b) # NONE THEN ByDoi(b)
    ELSE IF BySource(b) # NONE THEN BySource(b) ELSE ByTitle(b)

Or(value, other)   == IF value = NONE THEN other ELSE value

\* Mutant: a missing DOI is normalized to the empty string.
BareOrEmpty(doi)   == IF doi = NONE THEN "" ELSE Bare[doi]

BareOrNone(doi)    == IF doi = NONE THEN NONE ELSE Bare[doi]

\* Mutant: a merge takes the identifiers of the newest record.
MergeNewest(r, b) ==
    [r EXCEPT !.doi = Or(BareOrNone(b.doi), @), !.sid = b.key, !.year = Or(@, b.year)]

\* _merge_existing, as far as identity goes: only empty columns are filled
Merge(r, b) ==
    [r EXCEPT !.doi = Or(@, BareOrNone(b.doi)), !.sid = Or(@, b.key), !.year = Or(@, b.year)]

NewRow(b) == [doi |-> BareOrNone(b.doi), source |-> b.source, sid |-> Or(b.sid, b.key),
              title |-> b.title, year |-> b.year]

Taking(b) == open /\ todo # <<>> /\ b = Head(todo) /\ ~Refused(work)

MergeExisting(b) ==
    LET p == Existing(b)
    IN  /\ Taking(b) /\ p # NONE
        /\ work' = [work EXCEPT ![p] = Merge(work[p], b)]
        /\ found' = [found EXCEPT ![b] = p]
        /\ todo' = Tail(todo)
        /\ UNCHANGED <<papers, known, open, lookup>>

\* Mutant: a created paper is not entered into the lookup tables.
EnterNothing(r, p) == lookup

Enter(r, p) ==
    [doi    |-> IF r.doi = NONE THEN lookup.doi ELSE [lookup.doi EXCEPT ![r.doi] = p],
     source |-> [lookup.source EXCEPT ![<<r.source, r.sid>>] = p],
     title  |-> [lookup.title EXCEPT ![<<Normal[r.title], r.year>>] = p]]

CreatePaper(b) ==
    /\ Taking(b) /\ Existing(b) = NONE
    /\ \E p \in Ids \ Stored(work) :
          /\ work' = [work EXCEPT ![p] = NewRow(b)]
          /\ lookup' = Enter(NewRow(b), p)
          /\ found' = [found EXCEPT ![b] = p]
    /\ todo' = Tail(todo)
    /\ UNCHANGED <<papers, known, open>>

CommitBatch ==
    /\ open /\ todo = <<>> /\ ~Refused(work)
    /\ papers' = work
    /\ known' = [b \in Bundles |-> Or(found[b], known[b])]
    /\ open' = FALSE /\ work' = work /\ lookup' = NoLookups /\ found' = Nothing
    /\ UNCHANGED todo

\* a flush is refused, or the transaction fails for another reason
RollBack ==
    /\ open
    /\ todo' = <<>> /\ open' = FALSE /\ work' = papers
    /\ lookup' = NoLookups /\ found' = Nothing
    /\ UNCHANGED <<papers, known>>

-----------------------------------------------------------------------------
(* Papers that come and go by other ways. *)

\* an import by DOI, a PDF or a converted submission; the DOI is stored as it is spelled
CreateDirectly(r) ==
    /\ ~open
    /\ \E p \in Ids \ Stored(papers) :
          LET T == [papers EXCEPT ![p] = r] IN ~Refused(T) /\ papers' = T /\ work' = T
    /\ UNCHANGED <<known, todo, open, lookup, found>>

DeletePaper(p) ==
    /\ ~open /\ p \in Stored(papers)
    /\ papers' = [papers EXCEPT ![p] = NONE] /\ work' = papers'
    /\ known' = [b \in Bundles |-> IF known[b] = p THEN NONE ELSE known[b]]
    /\ UNCHANGED <<todo, open, lookup, found>>

Next ==
    \/ StartBatch \/ CommitBatch \/ RollBack
    \/ \E b \in Bundles : MergeExisting(b) \/ CreatePaper(b)
    \/ \E r \in Rows : CreateDirectly(r)
    \/ \E p \in Ids : DeletePaper(p)

Spec == Init /\ [][Next]_vars

-----------------------------------------------------------------------------
\* the query compares lower(title) with a normalized title: a paper whose title has
\* odd white space is found by its title in the batch that creates it and never again
TidyTitles == \A b \in Bundles : Normal[b.title] = b.title

\* a paper that a later batch will find for a bundle
Matches(r, b) ==
    \/ b.doi # NONE /\ r.doi = Bare[b.doi]
    \/ r.source = b.source /\ r.sid = b.key
    \/ r.title = Normal[b.title] /\ (b.year = NONE \/ r.year = b.year)

(* A record that was imported, and whose paper is still there, matches a   *)
(* paper by DOI, source id, or title and year: no merge of another record, *)
(* no import and no deletion of other papers takes its identity away       *)
(* (modules/papers/upsert_service.py, 86-153 and 351-371).                 *)
KnownStays ==
    TidyTitles => \A b \in Bundles : known[b] # NONE =>
        known[b] \in Stored(papers) /\ Matches(papers[known[b]], b)

(* Importing a record again, in a later batch or twice in one, never       *)
(* creates a second paper for it (upsert_service.py, 86-142).              *)
CreatesOnce ==
    [][TidyTitles => \A b \in Bundles : CreatePaper(b) => known[b] = NONE /\ found[b] = NONE]_vars

(* "merge non-destructively into local entities" (modules/integrations/    *)
(* service.py, 344): what a paper says of its identity is never replaced,  *)
(* by whatever records are merged into it and in whatever order.           *)
NonDestructive ==
    [][\A p \in Stored(papers) : p \in Stored(papers') =>
          /\ papers'[p].title = papers[p].title /\ papers'[p].source = papers[p].source
          /\ \A f \in {"doi", "sid", "year"} :
                papers[p][f] # NONE => papers'[p][f] = papers[p][f]]_vars
==============================================================================
