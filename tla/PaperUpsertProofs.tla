-------------------------- MODULE PaperUpsertProofs --------------------------
(***************************************************************************)
(* Proofs about PaperUpsert: its types, that the identity of an imported   *)
(* record is never lost, that importing it again creates nothing, and that *)
(* merges replace nothing.  TidyTitles, under which the second and third   *)
(* hold, is a condition on the constants only.                             *)
(***************************************************************************)
EXTENDS PaperUpsert, TLAPS

\* s says of identity what r says, and maybe more
Keeps(r, s) ==
    /\ s.title = r.title /\ s.source = r.source
    /\ \A f \in {"doi", "sid", "year"} : r[f] # NONE => s[f] = r[f]

LEMMA PrefetchTypes ==
    ASSUME TypeOK
    PROVE  /\ PrefetchByDoi \in [Dois -> IdOrNone]
           /\ PrefetchBySource \in [SourceKeys -> IdOrNone]
           /\ \A first \in Firsts, ofYear \in OfYears :
                 PrefetchByTitle(first, ofYear) \in [TitleKeys -> IdOrNone]
<1>1. \A S \in SUBSET Ids : TheOf(S) \in IdOrNone
  BY DEF TheOf, IdOrNone
<1>2. \A d : HasDoi(papers, d) \in SUBSET Ids
  BY DEF HasDoi, Stored
<1>3. \A k : HasSource(papers, k) \in SUBSET Ids
  BY DEF HasSource, Stored
<1>4. ASSUME NEW first \in Firsts, NEW ofYear \in OfYears
      PROVE  PrefetchByTitle(first, ofYear) \in [TitleKeys -> IdOrNone]
  <2>1. \A t \in Titles : first[t] \in IdOrNone
    BY DEF Firsts
  <2>2. \A k \in Titles \X Years : ofYear[k] \in IdOrNone
    BY DEF OfYears
  <2>3. \A k \in TitleKeys : k[1] \in Titles /\ (k[2] = NONE \/ k \in Titles \X Years)
    BY DEF TitleKeys
  <2> QED BY <2>1, <2>2, <2>3 DEF PrefetchByTitle
<1> QED BY <1>1, <1>2, <1>3, <1>4 DEF PrefetchByDoi, PrefetchBySource

LEMMA HeadAndTail ==
    ASSUME NEW S, NEW s \in Seq(S), s # <<>>
    PROVE  Head(s) \in S /\ Tail(s) \in Seq(S)
  OBVIOUS

LEMMA RowTypes ==
    ASSUME NEW b \in Bundles
    PROVE  /\ NewRow(b) \in Paper
           /\ \A r \in Paper : Merge(r, b) \in Paper
<1>1. b \in Bundle
  BY RecordsAssumption
<1>2. BareOrNone(b.doi) \in Dois \cup {NONE}
  BY <1>1, SpellingAssumption DEF BareOrNone, Bundle
<1>3. Or(b.sid, b.key) \in Keys
  BY <1>1 DEF Or, Bundle
<1>4. NewRow(b) \in Paper
  BY <1>1, <1>2, <1>3 DEF NewRow, Paper, Bundle
<1>5. ASSUME NEW r \in Paper PROVE Merge(r, b) \in Paper
  <2>1. /\ Or(r.doi, BareOrNone(b.doi)) \in Dois \cup {NONE}
        /\ Or(r.sid, b.key) \in Keys \cup {NONE}
        /\ Or(r.year, b.year) \in Years \cup {NONE}
    BY <1>1, <1>2 DEF Or, Paper, Bundle
  <2> QED BY <2>1 DEF Merge, Paper
<1> QED BY <1>4, <1>5

LEMMA ExistingTypes ==
    ASSUME TypeOK, NEW b \in Bundles
    PROVE  /\ ByDoi(b) \in IdOrNone /\ BySource(b) \in IdOrNone /\ ByTitle(b) \in IdOrNone
           /\ Existing(b) \in IdOrNone
<1>1. b \in Bundle
  BY RecordsAssumption
<1>2. ByDoi(b) \in IdOrNone
  BY <1>1, SpellingAssumption DEF ByDoi, TypeOK, Lookups, IdOrNone, Bundle
<1>3. BySource(b) \in IdOrNone
  BY <1>1 DEF BySource, TypeOK, Lookups, SourceKeys, Bundle
<1>4. ByTitle(b) \in IdOrNone
  BY <1>1, SpellingAssumption DEF ByTitle, TypeOK, Lookups, TitleKeys, Bundle
<1> QED BY <1>2, <1>3, <1>4 DEF Existing

LEMMA EnterTypes ==
    ASSUME TypeOK, NEW b \in Bundles, NEW p \in Ids
    PROVE  Enter(NewRow(b), p) \in Lookups
<1> DEFINE r == NewRow(b)
<1>1. b \in Bundle /\ r \in Paper
  BY RecordsAssumption, RowTypes
<1>2. r.doi \in Dois \cup {NONE} /\ p \in IdOrNone
  BY <1>1 DEF Paper, IdOrNone
<1>3. lookup.doi \in [Dois -> IdOrNone] /\ lookup.source \in [SourceKeys -> IdOrNone]
      /\ lookup.title \in [TitleKeys -> IdOrNone]
  BY DEF TypeOK, Lookups
<1> HIDE DEF r
<1>4. /\ (IF r.doi = NONE THEN lookup.doi ELSE [lookup.doi EXCEPT ![r.doi] = p])
            \in [Dois -> IdOrNone]
      /\ [lookup.source EXCEPT ![<<r.source, r.sid>>] = p] \in [SourceKeys -> IdOrNone]
      /\ [lookup.title EXCEPT ![<<Normal[r.title], r.year>>] = p] \in [TitleKeys -> IdOrNone]
  BY <1>2, <1>3
<1>5. Enter(r, p) \in Lookups
  BY <1>4 DEF Enter, Lookups
<1> QED BY <1>5 DEF r

-----------------------------------------------------------------------------
\* The lookup tables give papers of the session, with the identity they were asked for.
Sound ==
    /\ \A d \in Dois : lookup.doi[d] # NONE =>
          lookup.doi[d] \in Stored(work) /\ work[lookup.doi[d]].doi = d
    /\ \A k \in SourceKeys : lookup.source[k] # NONE =>
          /\ lookup.source[k] \in Stored(work)
          /\ work[lookup.source[k]].source = k[1] /\ work[lookup.source[k]].sid = k[2]
    /\ \A k \in TitleKeys : lookup.title[k] # NONE =>
          /\ lookup.title[k] \in Stored(work)
          /\ TidyTitles => work[lookup.title[k]].title = k[1]
          /\ k[2] = NONE \/ work[lookup.title[k]].year = k[2]

\* A batch takes no paper away and no part of an identity.
WorkKeeps ==
    /\ \A p \in Stored(papers) : p \in Stored(work) /\ Keeps(papers[p], work[p])
    /\ ~open => work = papers /\ found = Nothing /\ lookup = NoLookups

\* A bundle that has a paper finds one in the lookup tables of an open batch.
Full ==
    open /\ TidyTitles =>
        \A b \in Bundles : known[b] # NONE \/ found[b] # NONE => Existing(b) # NONE

\* The results of a batch match their bundles.
FoundMatches ==
    TidyTitles => \A b \in Bundles : found[b] # NONE =>
        found[b] \in Stored(work) /\ Matches(work[found[b]], b)

IInv == TypeOK /\ Sound /\ WorkKeeps /\ Full /\ FoundMatches /\ KnownStays

LEMMA InitInv == Init => IInv
<1> SUFFICES ASSUME Init PROVE IInv
  OBVIOUS
<1>1. NoLookups \in Lookups /\ Nothing \in [Bundles -> IdOrNone]
  BY DEF NoLookups, Lookups, Nothing, IdOrNone
<1>2. papers \in [Ids -> Paper \cup {NONE}] /\ work = papers /\ <<>> \in Seq(Bundles)
  BY DEF Init
<1>3. TypeOK
  BY <1>1, <1>2 DEF Init, TypeOK
<1>4. Sound
  BY DEF Init, Sound, NoLookups
<1>5. WorkKeeps
  BY DEF Init, WorkKeeps, Stored
<1>6. Full /\ FoundMatches /\ KnownStays
  BY DEF Init, Full, FoundMatches, KnownStays, Nothing
<1> QED BY <1>3, <1>4, <1>5, <1>6 DEF IInv

LEMMA MergeKeeps ==
    ASSUME NEW r \in Paper, NEW b \in Bundles
    PROVE  Keeps(r, Merge(r, b))
  BY DEF Keeps, Merge, Or, Paper

LEMMA KeepsMatches ==
    ASSUME NEW r \in Paper, NEW s \in Paper, NEW b \in Bundles, Keeps(r, s), Matches(r, b)
    PROVE  Matches(s, b)
<1>1. b \in Bundle
  BY RecordsAssumption
<1>2. CASE b.doi # NONE /\ r.doi = Bare[b.doi]
  BY <1>1, <1>2, SpellingAssumption, NoneAssumption DEF Matches, Keeps, Bundle
<1>3. CASE r.source = b.source /\ r.sid = b.key
  BY <1>1, <1>3, NoneAssumption DEF Matches, Keeps, Bundle
<1>4. CASE r.title = Normal[b.title] /\ (b.year = NONE \/ r.year = b.year)
  BY <1>1, <1>4 DEF Matches, Keeps
<1> QED BY <1>2, <1>3, <1>4 DEF Matches

\* The prefetch gives papers of the table, and one for every bundle that matches one.
LEMMA StartStep ==
    ASSUME IInv, StartBatch
    PROVE  IInv'
<1> USE DEF IInv
<1>1. PICK first \in Firsts, ofYear \in OfYears :
           lookup' = [doi |-> PrefetchByDoi, source |-> PrefetchBySource,
                      title |-> PrefetchByTitle(first, ofYear)]
  BY DEF StartBatch
<1>2. /\ work' = papers /\ papers' = papers /\ known' = known /\ found' = Nothing /\ open'
  BY DEF StartBatch
<1>3. TypeOK'
  <2>1. todo' \in Seq(Bundles)
    <3>1. PICK n \in 1..MaxBatch : todo' \in [1..n -> Bundles]
      BY DEF StartBatch, Batches
    <3>2. n \in Nat
      BY NoneAssumption
    <3> QED BY <3>1, <3>2
  <2>2. lookup' \in Lookups
    BY <1>1, PrefetchTypes DEF Lookups
  <2>3. Nothing \in [Bundles -> IdOrNone]
    BY DEF Nothing, IdOrNone
  <2> QED BY <1>2, <2>1, <2>2, <2>3 DEF TypeOK
<1>4. \A S \in SUBSET Ids : S # {} => TheOf(S) \in S /\ TheOf(S) # NONE
  BY NoneAssumption DEF TheOf
<1>5. \A d, k, t : HasDoi(papers, d) \in SUBSET Ids /\ HasSource(papers, k) \in SUBSET Ids
                   /\ HasTitle(papers, t) \in SUBSET Ids
  BY DEF HasDoi, HasSource, HasTitle, Stored
<1>6. \A t \in Titles : IF HasTitle(papers, t) = {} THEN first[t] = NONE
                        ELSE first[t] \in HasTitle(papers, t)
  BY DEF Firsts, OneOf
<1>7. \A k \in Titles \X Years : IF HasTitleYear(papers, k) = {} THEN ofYear[k] = NONE
                                 ELSE ofYear[k] \in HasTitleYear(papers, k)
  BY DEF OfYears, OneOf
<1>8. Sound'
  <2>1. ASSUME NEW d \in Dois, lookup'.doi[d] # NONE
        PROVE  lookup'.doi[d] \in Stored(papers) /\ papers[lookup'.doi[d]].doi = d
    <3>1. lookup'.doi[d] = TheOf(HasDoi(papers, d))
      BY <1>1 DEF PrefetchByDoi
    <3>2. HasDoi(papers, d) # {}
      BY <2>1, <3>1 DEF TheOf
    <3> QED BY <1>4, <1>5, <3>1, <3>2 DEF HasDoi
  <2>2. ASSUME NEW k \in SourceKeys, lookup'.source[k] # NONE
        PROVE  /\ lookup'.source[k] \in Stored(papers)
               /\ papers[lookup'.source[k]].source = k[1]
               /\ papers[lookup'.source[k]].sid = k[2]
    <3>1. lookup'.source[k] = TheOf(HasSource(papers, k))
      BY <1>1 DEF PrefetchBySource
    <3>2. HasSource(papers, k) # {}
      BY <2>2, <3>1 DEF TheOf
    <3> QED BY <1>4, <1>5, <3>1, <3>2 DEF HasSource
  <2>3. ASSUME NEW k \in TitleKeys, lookup'.title[k] # NONE
        PROVE  /\ lookup'.title[k] \in Stored(papers)
               /\ papers[lookup'.title[k]].title = k[1]
               /\ k[2] = NONE \/ papers[lookup'.title[k]].year = k[2]
    <3>1. k[1] \in Titles /\ (k[2] = NONE \/ k \in Titles \X Years)
      BY DEF TitleKeys
    <3>2. CASE k[2] = NONE \/ (first[k[1]] # NONE /\ papers[first[k[1]]].year = k[2])
      <4>1. lookup'.title[k] = first[k[1]]
        BY <1>1, <3>2 DEF PrefetchByTitle
      <4> QED BY <1>6, <2>3, <3>1, <3>2, <4>1 DEF HasTitle
    <3>3. CASE ~(k[2] = NONE \/ (first[k[1]] # NONE /\ papers[first[k[1]]].year = k[2]))
      <4>1. lookup'.title[k] = ofYear[k]
        BY <1>1, <3>3 DEF PrefetchByTitle
      <4>2. ofYear[k] \in HasTitleYear(papers, k)
        BY <1>7, <2>3, <3>1, <3>3, <4>1
      <4> QED BY <4>1, <4>2 DEF HasTitleYear, HasTitle
    <3> QED BY <3>2, <3>3
  <2> QED BY <1>2, <2>1, <2>2, <2>3 DEF Sound
<1>9. Full'
  <2> SUFFICES ASSUME TidyTitles, NEW b \in Bundles, known[b] # NONE
               PROVE  Existing(b)' # NONE
    BY <1>2 DEF Full, Nothing
  <2> DEFINE p == known[b]
  <2>1. p \in Stored(papers) /\ Matches(papers[p], b)
    BY DEF KnownStays
  <2>2. b \in Bundle
    BY RecordsAssumption
  <2>3. CASE b.doi # NONE /\ papers[p].doi = Bare[b.doi]
    <3>1. Bare[b.doi] \in Dois
      BY <2>2, <2>3, SpellingAssumption DEF Bundle
    <3>2. p \in HasDoi(papers, Bare[b.doi])
      BY <2>1, <2>3 DEF HasDoi
    <3>3. lookup'.doi[Bare[b.doi]] # NONE
      BY <1>1, <1>4, <1>5, <3>1, <3>2 DEF PrefetchByDoi
    <3> QED BY <2>3, <3>3 DEF Existing, ByDoi
  <2>4. CASE papers[p].source = b.source /\ papers[p].sid = b.key
    <3>1. <<b.source, b.key>> \in SourceKeys
      BY <2>2 DEF SourceKeys, Bundle
    <3>2. p \in HasSource(papers, <<b.source, b.key>>)
      BY <2>1, <2>4 DEF HasSource
    <3>3. lookup'.source[<<b.source, b.key>>] # NONE
      BY <1>1, <1>4, <1>5, <3>1, <3>2 DEF PrefetchBySource
    <3> QED BY <3>3 DEF Existing, BySource
  <2>5. CASE papers[p].title = Normal[b.title] /\ (b.year = NONE \/ papers[p].year = b.year)
    <3> DEFINE t == Normal[b.title]
               k == <<t, b.year>>
    <3>1. t \in Titles /\ k \in TitleKeys /\ k[1] = t /\ k[2] = b.year
      BY <2>2, SpellingAssumption DEF TitleKeys, Bundle
    <3>2. p \in HasTitle(papers, t)
      BY <2>1, <2>5 DEF HasTitle
    <3>3. first[t] \in HasTitle(papers, t) /\ first[t] # NONE
      BY <1>5, <1>6, <3>1, <3>2, NoneAssumption
    <3>4. lookup'.title[k] # NONE
      <4>1. CASE b.year = NONE \/ papers[first[t]].year = b.year
        BY <1>1, <3>1, <3>3, <4>1 DEF PrefetchByTitle
      <4>2. CASE ~(b.year = NONE \/ papers[first[t]].year = b.year)
        <5>1. k \in Titles \X Years
          BY <2>2, <3>1, <4>2 DEF Bundle
        <5>2. p \in HasTitleYear(papers, k)
          BY <2>5, <3>1, <3>2, <4>2 DEF HasTitleYear
        <5>3. ofYear[k] \in HasTitleYear(papers, k)
          BY <1>7, <5>1, <5>2
        <5>4. ofYear[k] # NONE
          BY <5>3, NoneAssumption DEF HasTitleYear, HasTitle, Stored
        <5>5. lookup'.title[k] = ofYear[k]
          BY <1>1, <3>1, <4>2 DEF PrefetchByTitle
        <5> QED BY <5>4, <5>5
      <4> QED BY <4>1, <4>2
    <3> QED BY <3>4 DEF Existing, ByTitle
  <2> QED BY <2>1, <2>3, <2>4, <2>5 DEF Matches
<1>10. WorkKeeps' /\ FoundMatches' /\ KnownStays'
  BY <1>2 DEF WorkKeeps, FoundMatches, KnownStays, Keeps, Nothing
<1> QED BY <1>3, <1>8, <1>9, <1>10

-----------------------------------------------------------------------------
\* The paper the tables give for a bundle is there and matches it.
LEMMA ExistingMatches ==
    ASSUME TypeOK, Sound, NEW b \in Bundles, Existing(b) # NONE
    PROVE  Existing(b) \in Stored(work) /\ (TidyTitles => Matches(work[Existing(b)], b))
<1>1. b \in Bundle
  BY RecordsAssumption
<1>2. CASE ByDoi(b) # NONE
  <2>1. b.doi # NONE /\ Bare[b.doi] \in Dois /\ ByDoi(b) = lookup.doi[Bare[b.doi]]
    BY <1>1, <1>2, SpellingAssumption DEF ByDoi, Bundle
  <2> QED BY <1>2, <2>1 DEF Existing, Sound, Matches
<1>3. CASE ByDoi(b) = NONE /\ BySource(b) # NONE
  <2> DEFINE k == <<b.source, b.key>>
  <2>1. k \in SourceKeys /\ BySource(b) = lookup.source[k]
    BY <1>1 DEF BySource, SourceKeys, Bundle
  <2> QED BY <1>3, <2>1 DEF Existing, Sound, Matches
<1>4. CASE ByDoi(b) = NONE /\ BySource(b) = NONE
  <2> DEFINE k == <<Normal[b.title], b.year>>
  <2>1. k \in TitleKeys /\ ByTitle(b) = lookup.title[k]
    BY <1>1, SpellingAssumption DEF ByTitle, TitleKeys, Bundle
  <2>2. lookup.title[k] # NONE /\ Existing(b) = lookup.title[k]
    BY <1>4, <2>1 DEF Existing
  <2> QED BY <2>1, <2>2 DEF Sound, Matches
<1> QED BY <1>2, <1>3, <1>4

\* A session that keeps every identity keeps what the tables and the results say.
LEMMA KeepsAll ==
    ASSUME IInv, TypeOK', lookup' = lookup, papers' = papers, open' = open, open,
           \A p \in Stored(work) : p \in Stored(work') /\ Keeps(work[p], work'[p])
    PROVE  /\ Sound' /\ WorkKeeps'
           /\ TidyTitles => \A b \in Bundles : found[b] # NONE =>
                 found[b] \in Stored(work') /\ Matches(work'[found[b]], b)
<1> USE DEF IInv
<1>1. \A p \in Stored(work) : work[p] \in Paper /\ work'[p] \in Paper
  BY DEF TypeOK, Stored
<1>2. Sound'
  <2>1. \A d \in Dois : d # NONE
    BY NoneAssumption
  <2>2. \A k \in SourceKeys : k[2] # NONE
    BY NoneAssumption DEF SourceKeys
  <2> QED BY <2>1, <2>2 DEF Sound, Keeps
<1>3. WorkKeeps'
  BY DEF WorkKeeps, Keeps
<1>4. ASSUME TidyTitles, NEW b \in Bundles, found[b] # NONE
      PROVE  found[b] \in Stored(work') /\ Matches(work'[found[b]], b)
  BY <1>1, <1>4, KeepsMatches DEF FoundMatches
<1> QED BY <1>2, <1>3, <1>4

LEMMA MergeStep ==
    ASSUME IInv, NEW b \in Bundles, MergeExisting(b)
    PROVE  IInv'
<1> USE DEF IInv
<1> DEFINE p == Existing(b)
<1>1. p \in Stored(work) /\ (TidyTitles => Matches(work[p], b)) /\ p # NONE /\ p \in Ids
  BY ExistingMatches DEF MergeExisting, Stored
<1>2. work[p] \in Paper /\ Merge(work[p], b) \in Paper
  BY <1>1, RowTypes DEF TypeOK, Stored
<1>3. TypeOK'
  <2>1. todo' \in Seq(Bundles)
    BY HeadAndTail DEF MergeExisting, Taking, TypeOK
  <2>2. found' \in [Bundles -> IdOrNone]
    BY <1>1 DEF MergeExisting, IdOrNone, TypeOK
  <2>3. work' \in [Ids -> Paper \cup {NONE}]
    BY <1>2 DEF MergeExisting, TypeOK
  <2> QED BY <2>1, <2>2, <2>3 DEF MergeExisting, TypeOK
<1>4. \A q \in Stored(work) : q \in Stored(work') /\ Keeps(work[q], work'[q])
  <2>1. Keeps(work[p], Merge(work[p], b)) /\ Merge(work[p], b) # NONE
    BY <1>2, MergeKeeps, NoneAssumption
  <2>2. work' = [work EXCEPT ![p] = Merge(work[p], b)]
    BY DEF MergeExisting
  <2> QED BY <1>1, <2>1, <2>2 DEF TypeOK, Stored, Keeps
<1>5. /\ Sound' /\ WorkKeeps'
      /\ TidyTitles => \A c \in Bundles : found[c] # NONE =>
            found[c] \in Stored(work') /\ Matches(work'[found[c]], c)
  BY <1>3, <1>4, KeepsAll DEF MergeExisting, Taking
<1>6. TidyTitles => p \in Stored(work') /\ Matches(work'[p], b)
  BY <1>1, <1>2, <1>3, <1>4, KeepsMatches DEF TypeOK, Stored
<1>7. found' = [found EXCEPT ![b] = p] /\ UNCHANGED <<papers, known, open, lookup>> /\ open
  BY DEF MergeExisting, Taking
<1>8. FoundMatches'
  BY <1>5, <1>6, <1>7 DEF FoundMatches, TypeOK
<1>9. Full' /\ KnownStays'
  BY <1>1, <1>7 DEF Full, KnownStays, Existing, ByDoi, BySource, ByTitle, TypeOK
<1> QED BY <1>3, <1>5, <1>8, <1>9

LEMMA CreateStep ==
    ASSUME IInv, NEW b \in Bundles, CreatePaper(b)
    PROVE  IInv'
<1> USE DEF IInv
<1> DEFINE r == NewRow(b)
<1>1. PICK p \in Ids \ Stored(work) :
           /\ work' = [work EXCEPT ![p] = r]
           /\ lookup' = Enter(r, p)
           /\ found' = [found EXCEPT ![b] = p]
  BY DEF CreatePaper
<1>2. /\ UNCHANGED <<papers, known, open>> /\ open
      /\ p # NONE /\ work[p] = NONE /\ b \in Bundle /\ r \in Paper /\ r # NONE
  BY <1>1, RowTypes, RecordsAssumption, NoneAssumption DEF CreatePaper, Taking, Stored
<1>3. TypeOK'
  <2>1. todo' \in Seq(Bundles)
    BY HeadAndTail DEF CreatePaper, Taking, TypeOK
  <2>2. lookup' \in Lookups
    BY <1>1, EnterTypes
  <2>3. work' \in [Ids -> Paper \cup {NONE}] /\ found' \in [Bundles -> IdOrNone]
    BY <1>1, <1>2 DEF IdOrNone, TypeOK
  <2> QED BY <1>2, <2>1, <2>2, <2>3 DEF TypeOK
<1>4. /\ r.title = b.title /\ r.source = b.source /\ r.year = b.year
      /\ r.doi = BareOrNone(b.doi) /\ r.sid \in Keys /\ r.title \in Titles
  BY <1>2, NoneAssumption DEF NewRow, Or, Bundle
<1>5. /\ \A q \in Stored(work) : q # p /\ work'[q] = work[q] /\ q \in Stored(work')
      /\ p \in Stored(work') /\ work'[p] = r
  BY <1>1, <1>2 DEF Stored, TypeOK
<1>6. /\ lookup.doi \in [Dois -> IdOrNone] /\ lookup.source \in [SourceKeys -> IdOrNone]
      /\ lookup.title \in [TitleKeys -> IdOrNone]
  BY DEF TypeOK, Lookups
<1>7. /\ \A d \in Dois : lookup'.doi[d] = IF d = r.doi THEN p ELSE lookup.doi[d]
      /\ \A k \in SourceKeys :
            lookup'.source[k] = IF k = <<r.source, r.sid>> THEN p ELSE lookup.source[k]
      /\ \A k \in TitleKeys :
            lookup'.title[k] = IF k = <<Normal[r.title], r.year>> THEN p ELSE lookup.title[k]
  <2> HIDE DEF r
  <2> QED BY <1>1, <1>6, NoneAssumption DEF Enter
<1>8. Sound'
  <2>1. \A d \in Dois : lookup'.doi[d] # NONE =>
           lookup'.doi[d] \in Stored(work') /\ work'[lookup'.doi[d]].doi = d
    BY <1>5, <1>7 DEF Sound
  <2>2. \A k \in SourceKeys : lookup'.source[k] # NONE =>
           /\ lookup'.source[k] \in Stored(work')
           /\ work'[lookup'.source[k]].source = k[1] /\ work'[lookup'.source[k]].sid = k[2]
    BY <1>5, <1>7 DEF Sound
  <2>3. TidyTitles => Normal[r.title] = r.title
    BY <1>4 DEF TidyTitles
  <2>4. \A k \in TitleKeys : lookup'.title[k] # NONE =>
           /\ lookup'.title[k] \in Stored(work')
           /\ TidyTitles => work'[lookup'.title[k]].title = k[1]
           /\ k[2] = NONE \/ work'[lookup'.title[k]].year = k[2]
    BY <1>5, <1>7, <2>3 DEF Sound
  <2> QED BY <2>1, <2>2, <2>4 DEF Sound
<1>9. WorkKeeps'
  BY <1>2, <1>5 DEF WorkKeeps
<1>10. ASSUME TidyTitles PROVE Matches(r, b)
  BY <1>4, <1>10 DEF Matches, TidyTitles
<1>11. FoundMatches'
  BY <1>1, <1>5, <1>10 DEF FoundMatches, TypeOK
<1>12. ASSUME NEW c \in Bundles, Existing(c) # NONE PROVE Existing(c)' # NONE
  <2>1. c \in Bundle
    BY RecordsAssumption
  <2>2. ByDoi(c) # NONE => ByDoi(c)' # NONE
    BY <1>2, <1>7, <2>1, SpellingAssumption DEF ByDoi, Bundle
  <2>3. BySource(c) # NONE => BySource(c)' # NONE
    BY <1>2, <1>7, <2>1 DEF BySource, Bundle, SourceKeys
  <2>4. ByTitle(c) # NONE => ByTitle(c)' # NONE
    BY <1>2, <1>7, <2>1, SpellingAssumption DEF ByTitle, Bundle, TitleKeys
  <2> QED BY <1>12, <2>2, <2>3, <2>4 DEF Existing
<1>13. Existing(b)' # NONE
  <2>1. <<Normal[b.title], b.year>> \in TitleKeys
    BY <1>2, SpellingAssumption DEF TitleKeys, Bundle
  <2>2. ByTitle(b)' = p
    BY <1>4, <1>7, <2>1 DEF ByTitle
  <2> QED BY <1>2, <2>2 DEF Existing
<1>14. Full' /\ KnownStays'
  BY <1>1, <1>2, <1>12, <1>13 DEF Full, KnownStays, TypeOK
<1> QED BY <1>3, <1>8, <1>9, <1>11, <1>14

LEMMA CommitStep ==
    ASSUME IInv, CommitBatch
    PROVE  IInv'
<1> USE DEF IInv
<1>1. NoLookups \in Lookups /\ Nothing \in [Bundles -> IdOrNone]
  BY DEF NoLookups, Lookups, Nothing, IdOrNone
<1>2. /\ papers' = work /\ work' = work /\ lookup' = NoLookups /\ found' = Nothing
      /\ ~open' /\ open' \in BOOLEAN /\ todo' = todo
      /\ known' = [c \in Bundles |-> Or(found[c], known[c])]
  BY DEF CommitBatch
<1>3. TypeOK'
  <2>1. \A c \in Bundles : Or(found[c], known[c]) \in IdOrNone
    BY DEF TypeOK, Or
  <2>2. known' \in [Bundles -> IdOrNone]
    BY <1>2, <2>1
  <2>3. papers' \in [Ids -> Paper \cup {NONE}] /\ work' \in [Ids -> Paper \cup {NONE}]
        /\ todo' \in Seq(Bundles)
    BY <1>2 DEF TypeOK
  <2> QED BY <1>1, <1>2, <2>2, <2>3 DEF TypeOK
<1>4. Sound' /\ WorkKeeps' /\ Full' /\ FoundMatches'
  BY <1>2 DEF Sound, WorkKeeps, Full, FoundMatches, NoLookups, Nothing, Keeps
<1>5. ASSUME TidyTitles, NEW c \in Bundles, known'[c] # NONE
      PROVE  known'[c] \in Stored(work) /\ Matches(work[known'[c]], c)
  <2>1. CASE found[c] # NONE
    BY <1>2, <1>5, <2>1 DEF FoundMatches, Or
  <2>2. CASE found[c] = NONE
    <3> DEFINE p == known[c]
    <3>1. p # NONE /\ known'[c] = p
      BY <1>2, <1>5, <2>2 DEF Or
    <3>2. p \in Stored(papers) /\ Matches(papers[p], c)
      BY <1>5, <3>1 DEF KnownStays
    <3>3. p \in Stored(work) /\ Keeps(papers[p], work[p])
      BY <3>2 DEF WorkKeeps
    <3>4. papers[p] \in Paper /\ work[p] \in Paper
      BY <3>2, <3>3 DEF TypeOK, Stored
    <3> QED BY <3>1, <3>2, <3>3, <3>4, KeepsMatches
  <2> QED BY <2>1, <2>2
<1>6. KnownStays'
  BY <1>2, <1>5 DEF KnownStays
<1> QED BY <1>3, <1>4, <1>6

LEMMA RollBackStep ==
    ASSUME IInv, RollBack
    PROVE  IInv'
<1> USE DEF IInv
<1>1. NoLookups \in Lookups /\ Nothing \in [Bundles -> IdOrNone] /\ <<>> \in Seq(Bundles)
  BY DEF NoLookups, Lookups, Nothing, IdOrNone
<1>2. /\ work' = papers /\ papers' = papers /\ known' = known /\ lookup' = NoLookups
      /\ found' = Nothing /\ ~open' /\ todo' = <<>> /\ open' \in BOOLEAN
  BY DEF RollBack
<1>3. TypeOK'
  BY <1>1, <1>2 DEF TypeOK
<1>4. Sound' /\ WorkKeeps' /\ Full' /\ FoundMatches' /\ KnownStays'
  BY <1>2 DEF Sound, WorkKeeps, Full, FoundMatches, KnownStays, NoLookups, Nothing, Keeps
<1> QED BY <1>3, <1>4

LEMMA CreateDirectlyStep ==
    ASSUME IInv, NEW r \in Rows, CreateDirectly(r)
    PROVE  IInv'
<1> USE DEF IInv
<1>1. PICK p \in Ids \ Stored(papers) : papers' = [papers EXCEPT ![p] = r] /\ work' = papers'
  BY DEF CreateDirectly
<1>2. /\ UNCHANGED <<known, todo, open, lookup, found>> /\ ~open
      /\ work = papers /\ found = Nothing /\ lookup = NoLookups
  BY DEF CreateDirectly, WorkKeeps
<1>3. r \in Paper /\ p \in Ids
  BY RecordsAssumption
<1>4. papers' \in [Ids -> Paper \cup {NONE}]
  BY <1>1, <1>3 DEF TypeOK
<1>5. TypeOK'
  BY <1>1, <1>2, <1>4 DEF TypeOK
<1>6. \A q \in Stored(papers) : q \in Stored(papers') /\ papers'[q] = papers[q]
  BY <1>1, <1>3 DEF Stored, TypeOK
<1>7. Sound' /\ WorkKeeps' /\ Full' /\ FoundMatches'
  BY <1>1, <1>2 DEF Sound, WorkKeeps, Full, FoundMatches, NoLookups, Nothing, Keeps
<1>8. KnownStays'
  BY <1>2, <1>6 DEF KnownStays
<1> QED BY <1>5, <1>7, <1>8

LEMMA DeletePaperStep ==
    ASSUME IInv, NEW p \in Ids, DeletePaper(p)
    PROVE  IInv'
<1> USE DEF IInv
<1>1. /\ papers' = [papers EXCEPT ![p] = NONE] /\ work' = papers'
      /\ known' = [b \in Bundles |-> IF known[b] = p THEN NONE ELSE known[b]]
  BY DEF DeletePaper
<1>2. /\ UNCHANGED <<todo, open, lookup, found>> /\ ~open
      /\ work = papers /\ found = Nothing /\ lookup = NoLookups
  BY DEF DeletePaper, WorkKeeps
<1>3. papers' \in [Ids -> Paper \cup {NONE}]
  BY <1>1 DEF TypeOK
<1>4. known' \in [Bundles -> IdOrNone]
  BY <1>1 DEF TypeOK, IdOrNone
<1>5. TypeOK'
  BY <1>1, <1>2, <1>3, <1>4 DEF TypeOK
<1>6. \A q \in Stored(papers) \ {p} : q \in Stored(papers') /\ papers'[q] = papers[q]
  BY <1>1 DEF Stored, TypeOK
<1>7. Sound' /\ WorkKeeps' /\ Full' /\ FoundMatches'
  BY <1>1, <1>2 DEF Sound, WorkKeeps, Full, FoundMatches, NoLookups, Nothing, Keeps
<1>8. KnownStays'
  BY <1>1, <1>6 DEF KnownStays
<1> QED BY <1>5, <1>7, <1>8

LEMMA StepInv == IInv /\ [Next]_vars => IInv'
<1> SUFFICES ASSUME IInv, [Next]_vars PROVE IInv'
  OBVIOUS
<1>1. CASE StartBatch
  BY <1>1, StartStep
<1>2. CASE CommitBatch
  BY <1>2, CommitStep
<1>3. CASE RollBack
  BY <1>3, RollBackStep
<1>4. ASSUME NEW b \in Bundles, MergeExisting(b) PROVE IInv'
  BY <1>4, MergeStep
<1>5. ASSUME NEW b \in Bundles, CreatePaper(b) PROVE IInv'
  BY <1>5, CreateStep
<1>6. ASSUME NEW r \in Rows, CreateDirectly(r) PROVE IInv'
  BY <1>6, CreateDirectlyStep
<1>7. ASSUME NEW p \in Ids, DeletePaper(p) PROVE IInv'
  BY <1>7, DeletePaperStep
<1>8. CASE UNCHANGED vars
  BY <1>8 DEF vars, batch, IInv, TypeOK, Sound, WorkKeeps, Full, FoundMatches, KnownStays,
              Stored, Existing, ByDoi, BySource, ByTitle
<1> QED BY <1>1, <1>2, <1>3, <1>4, <1>5, <1>6, <1>7, <1>8 DEF Next

LEMMA Invariance == Spec => []IInv
  BY InitInv, StepInv, PTL DEF Spec

-----------------------------------------------------------------------------
(* Every variable has its type in every reachable state: a batch never     *)
(* writes a row that is no paper, nor a table entry that is no id          *)
(* (modules/papers/upsert_service.py, 56-154).                             *)
THEOREM TypeCorrect == Spec => []TypeOK
<1>1. IInv => TypeOK
  BY DEF IInv
<1> QED BY <1>1, Invariance, PTL

(* The identity of an imported record is never lost while its paper is     *)
(* there: a later batch will find a paper for it (upsert_service.py,       *)
(* 86-153 and 351-371), for every number of papers, bundles and spellings. *)
THEOREM IdentityStays == Spec => []KnownStays
<1>1. IInv => KnownStays
  BY DEF IInv
<1> QED BY <1>1, Invariance, PTL

(* A record that was imported is never given a second paper, neither by a  *)
(* later batch nor by the batch that imports it (upsert_service.py,        *)
(* 86-142): what Full says of the lookup tables, at the step that creates. *)
THEOREM ImportCreatesOnce == Spec => CreatesOnce
<1>1. IInv /\ [Next]_vars =>
         [TidyTitles => \A b \in Bundles : CreatePaper(b) => known[b] = NONE /\ found[b] = NONE]_vars
  BY DEF IInv, Full, CreatePaper, Taking
<1> QED BY <1>1, Invariance, PTL DEF Spec, CreatesOnce

(* No step replaces what a stored paper says of its identity: the papers   *)
(* change at the end of a batch, by what its merges added, or lose a row   *)
(* (modules/papers/upsert_service.py, 351-371).                            *)
THEOREM NothingIsReplaced == Spec => NonDestructive
<1> DEFINE Same(r, s) ==
        /\ s.title = r.title /\ s.source = r.source
        /\ \A f \in {"doi", "sid", "year"} : r[f] # NONE => s[f] = r[f]
<1>1. ASSUME IInv, Next, NEW p \in Stored(papers), p \in Stored(papers')
      PROVE  Same(papers[p], papers'[p])
  <2>1. CASE papers' = papers
    BY <2>1
  <2>2. CASE CommitBatch
    BY <1>1, <2>2 DEF CommitBatch, IInv, WorkKeeps, Keeps
  <2>3. ASSUME NEW r \in Rows, CreateDirectly(r) PROVE papers'[p] = papers[p]
    BY <1>1, <2>3 DEF CreateDirectly, IInv, TypeOK, Stored
  <2>4. ASSUME NEW q \in Ids, DeletePaper(q) PROVE papers'[p] = papers[p]
    BY <1>1, <2>4 DEF DeletePaper, IInv, TypeOK, Stored
  <2>5. StartBatch \/ RollBack \/ (\E b \in Bundles : MergeExisting(b) \/ CreatePaper(b))
           => papers' = papers
    BY DEF StartBatch, RollBack, MergeExisting, CreatePaper
  <2> QED BY <1>1, <2>1, <2>2, <2>3, <2>4, <2>5 DEF Next
<1>2. IInv /\ [Next]_vars =>
         [\A p \in Stored(papers) : p \in Stored(papers') => Same(papers[p], papers'[p])]_vars
  BY <1>1
<1> QED BY <1>2, Invariance, PTL DEF Spec, NonDestructive
==============================================================================
