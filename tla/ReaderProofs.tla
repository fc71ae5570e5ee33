----------------------------- MODULE ReaderProofs -----------------------------
(***************************************************************************)
(* Proofs about Reader: its types, that the chunks of a paper are all the  *)
(* chunks of one text, that a highlight is linked to the chunk it was made *)
(* from only, and that a deleted paper leaves nothing behind, for any      *)
(* papers, texts and overlapping requests.                                 *)
(***************************************************************************)
EXTENDS Reader, TLAPS

\* A request that is over, or of former times.
Over(m) == m = NONE \/ phase[m] = "done"

Hydrating == {"fetched", "deleting", "writing"}
Deleting  == {"deleting", "writing", "cascading"}

\* What the request q sees: chunks of requests that are over, and of the chunks the paper has
\* now either all or none.
Sees(q) ==
    /\ phase[q] # "idle" => about[q] \in Papers
    /\ phase[q] \in Hydrating => text[q] \in Texts
    /\ \A c \in seen[q] : Over(c.by)
    /\ phase[q] \in Deleting =>
          chunks[about[q]] \subseteq seen[q] \/ chunks[about[q]] \cap seen[q] = {}
    /\ phase[q] = "cascading" => chunks[about[q]] \subseteq seen[q]

\* What it has locked is still there.
Locked(q) ==
    /\ gone[q] # {} => phase[q] \in Deleting /\ gone[q] \subseteq seen[q] \cap chunks[about[q]]
    /\ phase[q] = "writing" => seen[q] \cap chunks[about[q]] \subseteq gone[q]
    /\ made[q] # {} => phase[q] = "asking" /\ made[q] \subseteq chunks[about[q]]

\* Two requests do not lock the same chunk, one of them to delete it, and no highlight is made
\* of a paper that is being deleted.
Apart(q, r) ==
    /\ gone[q] \cap (gone[r] \cup made[r]) = {}
    /\ phase[q] = "cascading" => made[r] = {}

\* A chunk that can be read was made by a request that is over.
MadeBefore == \A p \in Papers : \A c \in chunks[p] : Over(c.by)

IInv ==
    /\ TypeOK /\ ChunksOfOneText /\ LinkedToTheQuotedChunk /\ NothingOutlivesItsPaper
    /\ MadeBefore
    /\ \A q \in Requests : Sees(q) /\ Locked(q) /\ \A r \in Rivals(q) : Apart(q, r)

-----------------------------------------------------------------------------
(* The chunks of a text. *)

LEMMA TextHasChunks ==
    ASSUME NEW q \in Makers, NEW t \in Texts
    PROVE  /\ ChunksOf(q, t) \subseteq Chunk
           /\ \A c \in ChunksOf(q, t) : c.by = q /\ c.index \in 0 .. Length[t] - 1
           /\ {c.index : c \in ChunksOf(q, t)} = 0 .. Length[t] - 1
           /\ 0 \in 0 .. Length[t] - 1
<1>1. 0 .. Length[t] - 1 \subseteq Indexes
  BY DEF Indexes
<1>2. \A c \in ChunksOf(q, t) : c.by = q /\ c.index \in 0 .. Length[t] - 1
  BY DEF ChunksOf
<1>3. ChunksOf(q, t) \subseteq Chunk
  BY <1>1 DEF ChunksOf, Chunk
<1>4. \A i \in 0 .. Length[t] - 1 :
        [by |-> q, index |-> i] \in ChunksOf(q, t) /\ [by |-> q, index |-> i].index = i
  BY DEF ChunksOf
<1>5. 0 \in 0 .. Length[t] - 1
  BY LengthAssumption
<1> QED BY <1>2, <1>3, <1>4, <1>5

LEMMA NewHighlightsType ==
    ASSUME NEW q \in Makers, NEW quoted \in SUBSET Chunk
    PROVE  /\ NewHighlights(q, quoted) \subseteq Highlight
           /\ \A h \in NewHighlights(q, quoted) : h.chunk \in quoted
<1>1. ASSUME NEW c \in quoted
      PROVE  [by |-> q, index |-> c.index, chunk |-> c, active |-> TRUE] \in Highlight
  <2>1. c \in Chunk /\ c.index \in Indexes
    BY DEF Chunk
  <2> QED BY <2>1 DEF Highlight
<1>2. \A h \in NewHighlights(q, quoted) : h \in Highlight
  BY <1>1 DEF NewHighlights
<1>3. \A h \in NewHighlights(q, quoted) : h.chunk \in quoted
  BY DEF NewHighlights
<1> QED BY <1>2, <1>3

\* At first there are the chunks of former times at most, and highlights of them.
LEMMA InitInv == Init => IInv
<1> SUFFICES ASSUME Init PROVE IInv
  OBVIOUS
<1>1. PICK cut \in SUBSET {p \in Papers : full[p] # NONE} : \E quoted \in SUBSET cut :
        /\ chunks = [p \in Papers |-> IF p \in cut THEN ChunksOf(NONE, full[p]) ELSE {}]
        /\ high = [p \in Papers |-> IF p \in quoted THEN NewHighlights(NONE, chunks[p]) ELSE {}]
  BY DEF Init
<1>2. PICK quoted \in SUBSET cut :
        /\ chunks = [p \in Papers |-> IF p \in cut THEN ChunksOf(NONE, full[p]) ELSE {}]
        /\ high = [p \in Papers |-> IF p \in quoted THEN NewHighlights(NONE, chunks[p]) ELSE {}]
  BY <1>1
<1>3. full \in [Papers -> Texts \cup {NONE}] /\ NONE \in Makers
  BY DEF Init, Makers
<1>4. ASSUME NEW p \in Papers
      PROVE  /\ chunks[p] \subseteq Chunk /\ \A c \in chunks[p] : c.by = NONE
             /\ chunks[p] # {} => \E t \in Texts : {c.index : c \in chunks[p]} = 0 .. Length[t] - 1
             /\ high[p] \subseteq Highlight /\ \A h \in high[p] : h.chunk \in chunks[p]
  <2>1. CASE p \in cut
    <3>1. full[p] \in Texts /\ chunks[p] = ChunksOf(NONE, full[p])
      BY <1>2, <1>3, <2>1
    <3>2. chunks[p] \subseteq Chunk
      BY <1>3, <3>1, TextHasChunks
    <3>3. high[p] = NewHighlights(NONE, chunks[p]) \/ high[p] = {}
      BY <1>2
    <3> QED BY <1>3, <3>1, <3>2, <3>3, TextHasChunks, NewHighlightsType
  <2>2. CASE p \notin cut
    BY <1>2, <2>2
  <2> QED BY <2>1, <2>2
<1>5. TypeOK
  BY <1>2, <1>4 DEF Init, TypeOK, Phases
<1>6. ChunksOfOneText /\ LinkedToTheQuotedChunk
  BY <1>3, <1>4 DEF ChunksOfOneText, LinkedToTheQuotedChunk
<1>7. NothingOutlivesItsPaper
  BY DEF Init, NothingOutlivesItsPaper
<1>8. MadeBefore
  BY <1>4 DEF MadeBefore, Over
<1>9. \A q \in Requests : Sees(q) /\ Locked(q) /\ \A r \in Rivals(q) : Apart(q, r)
  BY DEF Init, Sees, Locked, Apart, Hydrating, Deleting, Rivals
<1> QED BY <1>5, <1>6, <1>7, <1>8, <1>9 DEF IInv

-----------------------------------------------------------------------------
(* Steps that leave the texts and chunks alone. *)

Unaffected(q) ==
    \A r \in Requests \ {q} :
       /\ phase'[r] = phase[r] /\ about'[r] = about[r] /\ text'[r] = text[r]
       /\ seen'[r] = seen[r] /\ gone'[r] = gone[r] /\ made'[r] = made[r]

\* Who is over stays so.
LEMMA OverStays ==
    ASSUME IInv, NEW q \in Requests, phase[q] # "done", Unaffected(q), NEW m \in Makers, Over(m)
    PROVE  Over(m)'
<1>1. CASE m = NONE
  BY <1>1 DEF Over
<1>2. CASE m \in Requests /\ m # q
  BY <1>2 DEF Over, Unaffected
<1>3. CASE m = q
  BY <1>3, NoneAssumption DEF Over
<1> QED BY <1>1, <1>2, <1>3 DEF Makers

LEMMA SeenStayOver ==
    ASSUME IInv, NEW q \in Requests, phase[q] # "done", Unaffected(q), NEW r \in Requests
    PROVE  \A c \in seen[r] : Over(c.by)'
<1> TAKE c \in seen[r]
<1>1. c.by \in Makers /\ Over(c.by)
  BY DEF IInv, TypeOK, Sees, Chunk
<1> QED BY <1>1, OverStays

LEMMA ChunksStayOver ==
    ASSUME IInv, NEW q \in Requests, phase[q] # "done", Unaffected(q), NEW p \in Papers
    PROVE  \A c \in chunks[p] : Over(c.by)'
<1> TAKE c \in chunks[p]
<1>1. c.by \in Makers /\ Over(c.by)
  BY DEF IInv, TypeOK, MadeBefore, Chunk
<1> QED BY <1>1, OverStays

LEMMA LocalChange ==
    ASSUME IInv, NEW q \in Requests, UNCHANGED <<library, full, chunks>>, TypeOK',
           phase[q] # "done", Unaffected(q),
           LinkedToTheQuotedChunk', NothingOutlivesItsPaper',
           Sees(q)', Locked(q)',
           \A r \in Requests \ {q} : about'[q] = about[r] => Apart(q, r)' /\ Apart(r, q)'
    PROVE  IInv'
<1>1. ChunksOfOneText'
  BY DEF IInv, ChunksOfOneText
<1>2. MadeBefore'
  <2> SUFFICES ASSUME NEW p \in Papers, NEW c \in chunks[p] PROVE Over(c.by)'
    BY DEF MadeBefore
  <2> QED BY ChunksStayOver
<1>3. ASSUME NEW r \in Requests, r # q PROVE Sees(r)' /\ Locked(r)'
  <2>1. Sees(r) /\ Locked(r)
    BY DEF IInv
  <2>2. \A c \in seen'[r] : Over(c.by)'
    BY <1>3, SeenStayOver DEF Unaffected
  <2>3. Sees(r)'
    BY <1>3, <2>1, <2>2 DEF Sees, Unaffected
  <2>4. Locked(r)'
    BY <1>3, <2>1 DEF Locked, Unaffected
  <2> QED BY <2>3, <2>4
<1>4. ASSUME NEW r \in Requests, NEW s \in Requests, s # r, about'[s] = about'[r]
      PROVE  Apart(r, s)'
  <2>1. CASE r = q \/ s = q
    BY <1>4, <2>1 DEF Unaffected
  <2>2. CASE r # q /\ s # q
    <3>1. Apart(r, s)
      BY <1>4, <2>2 DEF IInv, Rivals, Unaffected
    <3> QED BY <1>4, <2>2, <3>1 DEF Apart, Unaffected
  <2> QED BY <2>1, <2>2
<1>5. ASSUME NEW r \in Requests PROVE \A s \in Rivals(r)' : Apart(r, s)'
  BY <1>4 DEF Rivals
<1> QED BY <1>1, <1>2, <1>3, <1>5 DEF IInv

LEMMA LocalStep ==
    ASSUME IInv, NEW q \in Requests, UNCHANGED tables, TypeOK', phase[q] # "done", Unaffected(q),
           Sees(q)', Locked(q)',
           \A r \in Requests \ {q} : about'[q] = about[r] => Apart(q, r)' /\ Apart(r, q)'
    PROVE  IInv'
<1>1. LinkedToTheQuotedChunk' /\ NothingOutlivesItsPaper'
  BY DEF IInv, LinkedToTheQuotedChunk, NothingOutlivesItsPaper, tables
<1> QED BY <1>1, LocalChange DEF tables

\* Between requests nothing changes if q neither locks nor begins to delete the paper.
LEMMA ApartStays ==
    ASSUME IInv, NEW q \in Requests, Unaffected(q), NEW r \in Requests \ {q},
           \/ /\ about'[q] = about[q] /\ about[q] = about[r]
              /\ gone'[q] = gone[q] /\ made'[q] = made[q]
           \/ gone'[q] = {} /\ made'[q] = {},
           phase'[q] = "cascading" => phase[q] = "cascading" /\ about'[q] = about[q]
                                      /\ about[q] = about[r]
    PROVE  Apart(q, r)' /\ Apart(r, q)'
<1>1. about[q] = about[r] => Apart(q, r) /\ Apart(r, q)
  BY DEF IInv, Rivals
<1> QED BY <1>1 DEF Apart, Unaffected

\* A request may end at any time without a trace.
LEMMA EndsStep ==
    ASSUME IInv, NEW q \in Requests, phase[q] \notin {"idle", "done"}, Ends(q), UNCHANGED tables
    PROVE  IInv'
<1>1. TypeOK'
  BY DEF IInv, TypeOK, Ends, tables, Phases
<1>2. /\ phase'[q] = "done" /\ seen'[q] = {} /\ gone'[q] = {} /\ made'[q] = {}
      /\ about'[q] \in Papers
  BY DEF IInv, TypeOK, Ends, Sees
<1>3. Sees(q)' /\ Locked(q)'
  BY <1>2 DEF Sees, Locked, Hydrating, Deleting
<1>4. Unaffected(q)
  BY DEF IInv, TypeOK, Ends, Unaffected
<1>5. \A r \in Requests \ {q} : Apart(q, r)' /\ Apart(r, q)'
  BY <1>2, <1>4, ApartStays
<1> QED BY <1>1, <1>3, <1>4, <1>5, LocalStep

\* A request starts with no lock.
LEMMA StartStep ==
    ASSUME IInv, NEW q \in Requests, NEW p \in Papers, NEW ph \in {"fetched", "read", "removing"},
           Start(q, p, ph), UNCHANGED <<tables, shown, locks>>, TypeOK',
           ph = "fetched" => text'[q] \in Texts,
           seen' = seen \/ seen' = [seen EXCEPT ![q] = chunks[p]],
           \A r \in Requests \ {q} : text'[r] = text[r]
    PROVE  IInv'
<1>1. /\ phase[q] = "idle" /\ phase'[q] = ph /\ about'[q] = p
      /\ gone'[q] = {} /\ made'[q] = {}
  BY DEF Start, IInv, TypeOK, locks, Locked, Deleting
<1>2. Unaffected(q)
  BY DEF Start, IInv, TypeOK, locks, Unaffected
<1>3. \A c \in seen'[q] : Over(c.by)'
  BY <1>1, <1>2, SeenStayOver, ChunksStayOver DEF IInv, TypeOK
<1>4. Sees(q)' /\ Locked(q)'
  BY <1>1, <1>3 DEF Sees, Locked, Hydrating, Deleting
<1>5. \A r \in Requests \ {q} : Apart(q, r)' /\ Apart(r, q)'
  BY <1>1, <1>2, ApartStays
<1> QED BY <1>1, <1>2, <1>4, <1>5, LocalStep

LEMMA FetchStep ==
    ASSUME IInv, NEW q \in Requests, NEW p \in Papers, Fetch(q, p) PROVE IInv'
<1>1. PICK t \in Texts : text' = [text EXCEPT ![q] = t]
  BY DEF Fetch
<1>2. TypeOK' /\ text'[q] \in Texts /\ \A r \in Requests \ {q} : text'[r] = text[r]
  BY <1>1 DEF Fetch, Start, IInv, TypeOK, locks, tables, Phases
<1> QED BY <1>2, StartStep DEF Fetch

LEMMA ReadChunksStep ==
    ASSUME IInv, NEW q \in Requests, NEW p \in Papers, ReadChunks(q, p) PROVE IInv'
<1>1. TypeOK'
  BY DEF ReadChunks, Start, IInv, TypeOK, locks, work, tables, Phases
<1> QED BY <1>1, StartStep DEF ReadChunks, work

LEMMA FindPaperStep ==
    ASSUME IInv, NEW q \in Requests, NEW p \in Papers, FindPaper(q, p) PROVE IInv'
<1>1. TypeOK'
  BY DEF FindPaper, Start, IInv, TypeOK, locks, work, tables, Phases
<1> QED BY <1>1, StartStep DEF FindPaper, work

\* A statement begins or is through.
LEMMA MovesStep ==
    ASSUME IInv, NEW q \in Requests, NEW from \in Phases, NEW to \in Phases \ {"idle", "done"},
           Moves(q, from, to), from \notin {"idle", "done"}, TypeOK',
           \/ UNCHANGED seen
           \/ seen' = [seen EXCEPT ![q] = chunks[about[q]]] /\ gone[q] = {},
           to \in Hydrating => from \in Hydrating,
           to \in Deleting => \/ from \in Deleting /\ UNCHANGED seen
                              \/ seen'[q] = chunks[about[q]],
           to = "cascading" => seen'[q] = chunks[about[q]] /\ \A r \in Rivals(q) : made[r] = {},
           from \in Deleting => to \in Deleting,
           to = "writing" => UNCHANGED seen /\ seen[q] \cap chunks[about[q]] \subseteq gone[q],
           from = "asking" => to = "asking"
    PROVE  IInv'
<1>1. /\ phase[q] = from /\ phase'[q] = to /\ about'[q] = about[q] /\ text'[q] = text[q]
      /\ gone'[q] = gone[q] /\ made'[q] = made[q] /\ about[q] \in Papers /\ UNCHANGED tables
  BY DEF Moves, IInv, TypeOK, locks, work, Sees
<1>2. Unaffected(q)
  BY DEF Moves, IInv, TypeOK, locks, work, Unaffected
<1>3. \A c \in seen'[q] : Over(c.by)'
  BY <1>1, <1>2, SeenStayOver, ChunksStayOver DEF IInv, TypeOK
<1>4. Sees(q)'
  <2>1. to \in Hydrating => text[q] \in Texts
    BY <1>1 DEF IInv, Sees
  <2>2. to \in Deleting =>
          chunks[about[q]] \subseteq seen'[q] \/ chunks[about[q]] \cap seen'[q] = {}
    BY <1>1 DEF IInv, Sees
  <2>3. to = "cascading" => chunks[about[q]] \subseteq seen'[q]
    OBVIOUS
  <2> QED BY <1>1, <1>3, <2>1, <2>2, <2>3 DEF Sees, tables
<1>5. Locked(q)'
  BY <1>1 DEF IInv, Locked, tables
<1>6. ASSUME NEW r \in Requests \ {q}, about'[q] = about[r] PROVE Apart(q, r)' /\ Apart(r, q)'
  <2>1. Apart(q, r) /\ Apart(r, q) /\ r \in Rivals(q)
    BY <1>1, <1>6 DEF IInv, Rivals
  <2> QED BY <1>1, <1>2, <2>1 DEF Apart, Unaffected
<1> QED BY <1>1, <1>2, <1>4, <1>5, <1>6, LocalStep

LEMMA StatementStep ==
    ASSUME IInv, NEW q \in Requests,
           DeleteChunks(q) \/ WriteText(q) \/ DeactivateOld(q) \/ AskLLM(q) \/ LockPaper(q)
    PROVE  IInv'
<1>1. CASE DeleteChunks(q)
  <2>1. phase[q] = "fetched" /\ about[q] \in Papers /\ gone[q] = {}
    BY <1>1 DEF DeleteChunks, Moves, IInv, Sees, Locked, Deleting
  <2>2. seen' = [seen EXCEPT ![q] = chunks[about[q]]] /\ seen'[q] = chunks[about[q]]
    BY <1>1 DEF DeleteChunks, IInv, TypeOK
  <2>3. TypeOK'
    BY <1>1, <2>1, <2>2 DEF DeleteChunks, Moves, IInv, TypeOK, locks, work, tables, Phases
  <2>4. Moves(q, "fetched", "deleting")
    BY <1>1 DEF DeleteChunks
  <2> QED BY <2>1, <2>2, <2>3, <2>4, MovesStep DEF Phases, Hydrating, Deleting
<1>2. CASE WriteText(q)
  <2>1. Moves(q, "deleting", "writing") /\ UNCHANGED seen /\ Condemned(q) = {}
    BY <1>2 DEF WriteText, WritesNext, Cleared
  <2>2. phase[q] = "deleting"
    BY <2>1 DEF Moves
  <2>3. seen[q] \cap chunks[about[q]] \subseteq gone[q]
    BY <2>1, <2>2 DEF Condemned
  <2>4. TypeOK'
    BY <1>2 DEF WriteText, Moves, IInv, TypeOK, locks, work, tables, Phases
  <2> QED BY <2>1, <2>3, <2>4, MovesStep DEF Phases, Hydrating, Deleting
<1>3. CASE DeactivateOld(q)
  <2>1. about[q] \in Papers
    BY <1>3 DEF DeactivateOld, Moves, IInv, Sees
  <2>2. Ids({h \in high[about[q]] : h.active}) \subseteq Makers \X Indexes
    BY <2>1 DEF IInv, TypeOK, Ids, Id, Highlight
  <2>3. TypeOK'
    BY <1>3, <2>2 DEF DeactivateOld, Moves, IInv, TypeOK, locks, work, tables, Phases
  <2>4. Moves(q, "read", "updating") /\ UNCHANGED seen
    BY <1>3 DEF DeactivateOld
  <2> QED BY <2>3, <2>4, MovesStep DEF Phases, Hydrating, Deleting
<1>4. CASE AskLLM(q)
  <2>1. TypeOK'
    BY <1>4 DEF AskLLM, Moves, IInv, TypeOK, locks, work, tables, Phases
  <2>2. Moves(q, "updating", "asking") /\ UNCHANGED seen
    BY <1>4 DEF AskLLM
  <2> QED BY <2>1, <2>2, MovesStep DEF Phases, Hydrating, Deleting
<1>5. CASE LockPaper(q)
  <2>1. phase[q] = "removing" /\ about[q] \in Papers /\ gone[q] = {}
    BY <1>5 DEF LockPaper, Moves, IInv, Sees, Locked, Deleting
  <2>2. seen' = [seen EXCEPT ![q] = chunks[about[q]]] /\ seen'[q] = chunks[about[q]]
    BY <1>5 DEF LockPaper, IInv, TypeOK
  <2>3. TypeOK'
    BY <1>5, <2>1, <2>2 DEF LockPaper, Moves, IInv, TypeOK, locks, work, tables, Phases
  <2>4. \A r \in Rivals(q) : made[r] = {}
    BY <1>5, <2>1 DEF LockPaper, PaperFree, WaitsForPaper, Refers
  <2>5. Moves(q, "removing", "cascading")
    BY <1>5 DEF LockPaper
  <2> QED BY <2>1, <2>2, <2>3, <2>4, <2>5, MovesStep DEF Phases, Hydrating, Deleting
<1> QED BY <1>1, <1>2, <1>3, <1>4, <1>5

LEMMA LockChunkStep ==
    ASSUME IInv, NEW q \in Requests, NEW c \in Condemned(q), LockChunk(q, c) PROVE IInv'
<1>1. /\ phase[q] \in {"deleting", "cascading"} /\ c \in seen[q] /\ c \in chunks[about[q]]
      /\ \A r \in Rivals(q) : c \notin gone[r] \cup made[r]
      /\ about[q] \in Papers
  BY DEF LockChunk, Condemned, IInv, Sees
<1>2. TypeOK'
  BY <1>1 DEF LockChunk, IInv, TypeOK, tables, work
<1>3. /\ gone'[q] = gone[q] \cup {c} /\ made'[q] = made[q]
      /\ UNCHANGED <<tables, phase, about, text, seen>>
  BY DEF LockChunk, IInv, TypeOK, work
<1>4. Unaffected(q)
  BY DEF LockChunk, IInv, TypeOK, Unaffected, work
<1>5. \A d \in seen'[q] : Over(d.by)'
  BY <1>1, <1>3, <1>4, SeenStayOver
<1>6. Sees(q)' /\ Locked(q)'
  BY <1>1, <1>3, <1>5 DEF IInv, Sees, Locked, Deleting, tables
<1>7. ASSUME NEW r \in Requests \ {q}, about'[q] = about[r] PROVE Apart(q, r)' /\ Apart(r, q)'
  <2>1. r \in Rivals(q) /\ Apart(q, r) /\ Apart(r, q)
    BY <1>3, <1>7 DEF IInv, Rivals
  <2>2. c \notin gone[r] \cup made[r]
    BY <1>1, <2>1
  <2> QED BY <1>3, <1>4, <2>1, <2>2 DEF Apart, Unaffected
<1> QED BY <1>1, <1>2, <1>3, <1>4, <1>6, <1>7, LocalStep

LEMMA LockHighlightStep ==
    ASSUME IInv, NEW q \in Requests, NEW h \in Touched(q), LockHighlight(q, h) PROVE IInv'
<1>1. phase[q] \in {"deleting", "cascading", "updating"} /\ about[q] \in Papers
  BY DEF Touched, IInv, Sees
<1>2. h \in high[about[q]]
  BY DEF Touched, Linked, Shown
<1>3. Id(h) \in Makers \X Indexes
  BY <1>1, <1>2 DEF IInv, TypeOK, Id, Highlight
<1>4. TypeOK'
  BY <1>3 DEF LockHighlight, IInv, TypeOK, tables, work
<1>5. UNCHANGED <<tables, phase, about, text, seen, gone, made>>
  BY DEF LockHighlight, work
<1>6. Unaffected(q)
  BY <1>5 DEF Unaffected
<1>7. \A d \in seen'[q] : Over(d.by)'
  BY <1>1, <1>5, <1>6, SeenStayOver
<1>8. Sees(q)' /\ Locked(q)'
  BY <1>5, <1>7 DEF IInv, Sees, Locked, tables
<1>9. ASSUME NEW r \in Requests \ {q}, about'[q] = about[r] PROVE Apart(q, r)' /\ Apart(r, q)'
  BY <1>5, <1>9 DEF IInv, Rivals, Apart
<1> QED BY <1>1, <1>4, <1>5, <1>6, <1>8, <1>9, LocalStep

LEMMA SaveHighlightStep ==
    ASSUME IInv, NEW q \in Requests, NEW c \in seen[q], SaveHighlight(q, c) PROVE IInv'
<1>1. /\ phase[q] = "asking" /\ c \in chunks[about[q]] /\ about[q] \in Papers
      /\ \A r \in Rivals(q) : c \notin gone[r] /\ phase[r] # "cascading"
  BY DEF SaveHighlight, PaperFree, WaitsForPaper, Removes, IInv, Sees
<1>2. TypeOK'
  BY DEF SaveHighlight, IInv, TypeOK, tables, work
<1>3. /\ made'[q] = made[q] \cup {c} /\ gone'[q] = gone[q]
      /\ UNCHANGED <<tables, phase, about, text, seen>>
  BY DEF SaveHighlight, IInv, TypeOK, work
<1>4. Unaffected(q)
  BY DEF SaveHighlight, IInv, TypeOK, Unaffected, work
<1>5. \A d \in seen'[q] : Over(d.by)'
  BY <1>1, <1>3, <1>4, SeenStayOver
<1>6. Sees(q)' /\ Locked(q)'
  BY <1>1, <1>3, <1>5 DEF IInv, Sees, Locked, tables
<1>7. ASSUME NEW r \in Requests \ {q}, about'[q] = about[r] PROVE Apart(q, r)' /\ Apart(r, q)'
  <2>1. r \in Rivals(q) /\ Apart(q, r) /\ Apart(r, q)
    BY <1>3, <1>7 DEF IInv, Rivals
  <2>2. c \notin gone[r] /\ phase[r] # "cascading"
    BY <1>1, <2>1
  <2> QED BY <1>1, <1>3, <1>4, <2>1, <2>2 DEF Apart, Unaffected
<1> QED BY <1>1, <1>2, <1>3, <1>4, <1>6, <1>7, LocalStep

-----------------------------------------------------------------------------
(* The last step of a request. *)

LEMMA EndsAlone ==
    ASSUME IInv, NEW q \in Requests, phase[q] \notin {"idle", "done"}, Ends(q)
    PROVE  /\ phase'[q] = "done" /\ seen'[q] = {} /\ gone'[q] = {} /\ made'[q] = {}
           /\ about'[q] = about[q] /\ about[q] \in Papers
           /\ Unaffected(q) /\ Sees(q)' /\ Locked(q)'
           /\ \A r \in Requests \ {q} : Apart(q, r)' /\ Apart(r, q)'
<1>1. /\ phase'[q] = "done" /\ seen'[q] = {} /\ gone'[q] = {} /\ made'[q] = {}
      /\ about'[q] = about[q] /\ about[q] \in Papers
  BY DEF IInv, TypeOK, Ends, Sees
<1>2. Sees(q)' /\ Locked(q)'
  BY <1>1 DEF Sees, Locked, Hydrating, Deleting
<1>3. Unaffected(q)
  BY DEF IInv, TypeOK, Ends, Unaffected
<1>4. \A r \in Requests \ {q} : Apart(q, r)' /\ Apart(r, q)'
  BY <1>1, <1>3, ApartStays
<1> QED BY <1>1, <1>2, <1>3, <1>4

\* A commit that changes the chunks of one paper.
LEMMA CommitStep ==
    ASSUME IInv, NEW q \in Requests, phase[q] \notin {"idle", "done"}, Ends(q),
           TypeOK', ChunksOfOneText', LinkedToTheQuotedChunk', NothingOutlivesItsPaper',
           \A x \in Papers \ {about[q]} : chunks'[x] = chunks[x],
           \A c \in chunks'[about[q]] : c.by = q,
           \A r \in Rivals(q) :
              phase[r] \in Deleting => /\ chunks'[about[q]] \cap seen[r] = {}
                                       /\ phase[r] = "cascading" => chunks'[about[q]] = {},
           \A r \in Rivals(q) : gone[r] = {} /\ made[r] = {}
    PROVE  IInv'
<1>1. phase'[q] = "done" /\ about[q] \in Papers /\ Unaffected(q) /\ Sees(q)' /\ Locked(q)'
      /\ about'[q] = about[q]
  BY EndsAlone
<1>2. MadeBefore'
  <2> SUFFICES ASSUME NEW x \in Papers, NEW c \in chunks'[x] PROVE Over(c.by)'
    BY DEF MadeBefore
  <2>1. CASE x = about[q]
    BY <1>1, <2>1 DEF Over
  <2>2. CASE x # about[q]
    BY <1>1, <2>2, ChunksStayOver
  <2> QED BY <2>1, <2>2
<1>3. ASSUME NEW r \in Requests, r # q PROVE Sees(r)' /\ Locked(r)'
  <2>1. Sees(r) /\ Locked(r)
    BY DEF IInv
  <2>2. \A c \in seen'[r] : Over(c.by)'
    BY <1>1, <1>3, SeenStayOver DEF Unaffected
  <2>3. CASE r \in Rivals(q)
    <3>1. gone[r] = {} /\ made[r] = {} /\ about[r] = about[q]
      BY <2>3 DEF Rivals
    <3>2. phase[r] \in Deleting => /\ chunks'[about[q]] \cap seen[r] = {}
                                   /\ phase[r] = "cascading" => chunks'[about[q]] = {}
      BY <2>3
    <3>3. Sees(r)'
      BY <1>1, <1>3, <2>1, <2>2, <3>1, <3>2 DEF Sees, Unaffected, Deleting
    <3>4. Locked(r)'
      BY <1>1, <1>3, <2>1, <3>1, <3>2 DEF Locked, Unaffected, Deleting
    <3> QED BY <3>3, <3>4
  <2>4. CASE r \notin Rivals(q)
    <3>1. about[r] # about[q]
      BY <1>3, <2>4 DEF Rivals
    <3>2. about[r] \in Papers => chunks'[about[r]] = chunks[about[r]]
      BY <3>1
    <3>3. about[r] \in Papers \/ (phase[r] = "idle" /\ gone[r] = {} /\ made[r] = {})
      BY <2>1 DEF Sees, Locked, Deleting
    <3>4. Sees(r)'
      BY <1>1, <1>3, <2>1, <2>2, <3>2, <3>3 DEF Sees, Unaffected, Deleting, Hydrating
    <3>5. Locked(r)'
      BY <1>1, <1>3, <2>1, <3>2, <3>3 DEF Locked, Unaffected
    <3> QED BY <3>4, <3>5
  <2> QED BY <2>3, <2>4
<1>4. ASSUME NEW r \in Requests PROVE \A s \in Rivals(r)' : Apart(r, s)'
  <2> SUFFICES ASSUME NEW s \in Requests, s # r, about'[s] = about'[r] PROVE Apart(r, s)'
    BY DEF Rivals
  <2>1. CASE r = q \/ s = q
    BY <2>1, EndsAlone
  <2>2. CASE r # q /\ s # q
    <3>1. Apart(r, s)
      BY <1>1, <2>2 DEF IInv, Rivals, Unaffected
    <3> QED BY <1>1, <2>2, <3>1 DEF Apart, Unaffected
  <2> QED BY <2>1, <2>2
<1>5. \A r \in Requests : Sees(r)' /\ Locked(r)'
  BY <1>1, <1>3
<1> QED BY <1>2, <1>4, <1>5 DEF IInv

\* What the unique index lets through replaces all the chunks of the paper: each text has a
\* chunk 0, so the hydration has deleted that one, and with it all.
LEMMA HydrationReplaces ==
    ASSUME IInv, NEW q \in Requests, Inserting(q), ~Clash(q)
    PROVE  chunks[about[q]] \subseteq gone[q]
<1> DEFINE p == about[q]
<1>1. /\ p \in Papers /\ text[q] \in Texts /\ q \in Makers
      /\ phase[q] \in {"deleting", "writing"} /\ Condemned(q) = {}
  BY DEF Inserting, Cleared, IInv, Sees, Hydrating, Makers
<1>2. SUFFICES ASSUME chunks[p] # {} PROVE chunks[p] \subseteq gone[q]
  OBVIOUS
<1>3. PICK t \in Texts : {c.index : c \in chunks[p]} = 0 .. Length[t] - 1
  BY <1>1, <1>2 DEF IInv, ChunksOfOneText
<1>4. 0 \in 0 .. Length[t] - 1
  BY <1>1, TextHasChunks
<1>5. PICK c \in chunks[p] : c.index = 0
  BY <1>3, <1>4
<1>6. PICK d \in ChunksOf(q, text[q]) : d.index = 0
  BY <1>1, TextHasChunks
<1>7. c \in gone[q]
  BY <1>5, <1>6 DEF Clash
<1>8. chunks[p] \subseteq seen[q]
  BY <1>1, <1>5, <1>7 DEF IInv, Sees, Locked, Deleting
<1>9. seen[q] \cap chunks[p] \subseteq gone[q]
  BY <1>1 DEF Condemned, IInv, Locked
<1> QED BY <1>8, <1>9

LEMMA HydrateStep ==
    ASSUME IInv, NEW q \in Requests, Hydrate(q) PROVE IInv'
<1> DEFINE p == about[q]
           new == ChunksOf(q, text[q])
<1>1. /\ p \in Papers /\ p \in library /\ text[q] \in Texts /\ q \in Makers
      /\ phase[q] \in {"deleting", "writing"} /\ Inserting(q) /\ ~Clash(q) /\ PaperFree(q)
      /\ Replace(q, p) /\ Ends(q)
  BY DEF Hydrate, Inserting, IInv, Sees, Hydrating, Makers
<1>2. chunks[p] \subseteq gone[q]
  BY <1>1, HydrationReplaces
<1>3. chunks'[p] = new /\ \A x \in Papers \ {p} : chunks'[x] = chunks[x]
  BY <1>1, <1>2 DEF Replace, IInv, TypeOK
<1>4. new \subseteq Chunk /\ \A c \in new : c.by = q
  BY <1>1, TextHasChunks
<1>5. \A h \in high'[p] : h \in Highlight /\ h.chunk = NONE
  <2> SUFFICES ASSUME NEW h \in high[p]
               PROVE  Unlinked(q, h) \in Highlight /\ Unlinked(q, h).chunk = NONE
    BY <1>1 DEF Replace, IInv, TypeOK
  <2>1. h \in Highlight /\ (h.chunk # NONE => h.chunk \in gone[q])
    BY <1>1, <1>2 DEF IInv, TypeOK, LinkedToTheQuotedChunk
  <2>2. CASE h.chunk \in gone[q]
    BY <2>1, <2>2 DEF Unlinked, Highlight
  <2>3. CASE h.chunk \notin gone[q]
    BY <2>1, <2>3 DEF Unlinked
  <2> QED BY <2>2, <2>3
<1>6. high' \in [Papers -> SUBSET Highlight] /\ \A x \in Papers \ {p} : high'[x] = high[x]
  BY <1>1, <1>5 DEF Replace, IInv, TypeOK
<1>7. TypeOK'
  <2>1. chunks' \in [Papers -> SUBSET Chunk]
    BY <1>1, <1>3, <1>4 DEF Replace, IInv, TypeOK
  <2>2. full' \in [Papers -> Texts \cup {NONE}] /\ library' = library
    BY <1>1 DEF Replace, IInv, TypeOK
  <2> QED BY <1>1, <1>6, <2>1, <2>2 DEF IInv, TypeOK, Ends, Phases
<1>8. ChunksOfOneText'
  BY <1>1, <1>3, <1>4, TextHasChunks DEF IInv, ChunksOfOneText
<1>9. LinkedToTheQuotedChunk'
  BY <1>3, <1>5, <1>6 DEF IInv, LinkedToTheQuotedChunk
<1>10. NothingOutlivesItsPaper'
  <2> SUFFICES ASSUME NEW x \in Papers \ library'
               PROVE  full'[x] = NONE /\ chunks'[x] = {} /\ high'[x] = {}
    BY DEF NothingOutlivesItsPaper
  <2>1. x \in Papers \ library /\ x # p
    BY <1>1 DEF Replace
  <2>2. full'[x] = full[x]
    BY <1>1, <2>1 DEF Replace, IInv, TypeOK
  <2> QED BY <1>3, <1>6, <2>1, <2>2 DEF IInv, NothingOutlivesItsPaper
<1>11. ASSUME NEW r \in Rivals(q)
       PROVE  /\ gone[r] = {} /\ made[r] = {} /\ phase[r] # "cascading"
              /\ new \cap seen[r] = {}
  <2>1. Apart(q, r) /\ Locked(r) /\ Sees(r) /\ about[r] = p /\ r \in Requests
    BY DEF IInv, Rivals
  <2>2. gone[r] = {} /\ made[r] = {}
    BY <1>2, <2>1 DEF Apart, Locked
  <2>3. phase[r] # "cascading"
    BY <1>1 DEF PaperFree, WaitsForPaper, Removes
  <2>4. ASSUME NEW c \in new, c \in seen[r] PROVE FALSE
    <3>1. Over(q)
      BY <1>4, <2>1, <2>4 DEF Sees
    <3> QED BY <1>1, <3>1, NoneAssumption DEF Over
  <2> QED BY <2>2, <2>3, <2>4
<1> QED BY <1>1, <1>3, <1>4, <1>7, <1>8, <1>9, <1>10, <1>11, CommitStep

LEMMA DeletePaperStep ==
    ASSUME IInv, NEW q \in Requests, DeletePaper(q) PROVE IInv'
<1> DEFINE p == about[q]
<1>1. /\ phase[q] = "cascading" /\ p \in Papers /\ Ends(q) /\ Condemned(q) = {}
      /\ chunks[p] \subseteq seen[q]
  BY DEF DeletePaper, Cleared, IInv, Sees
<1>2. chunks[p] \subseteq gone[q]
  BY <1>1 DEF Condemned
<1>3. /\ library' = library \ {p} /\ full'[p] = NONE /\ chunks'[p] = {} /\ high'[p] = {}
      /\ \A x \in Papers \ {p} :
            full'[x] = full[x] /\ chunks'[x] = chunks[x] /\ high'[x] = high[x]
  BY <1>1 DEF DeletePaper, IInv, TypeOK
<1>4. TypeOK'
  BY <1>1 DEF DeletePaper, IInv, TypeOK, Ends, Phases
<1>5. ChunksOfOneText'
  BY <1>3 DEF IInv, ChunksOfOneText
<1>6. LinkedToTheQuotedChunk'
  BY <1>3 DEF IInv, LinkedToTheQuotedChunk
<1>7. NothingOutlivesItsPaper'
  BY <1>3 DEF IInv, NothingOutlivesItsPaper
<1>8. ASSUME NEW r \in Rivals(q) PROVE gone[r] = {} /\ made[r] = {}
  <2>1. Apart(q, r) /\ Locked(r) /\ about[r] = p
    BY DEF IInv, Rivals
  <2> QED BY <1>1, <1>2, <2>1 DEF Apart, Locked
<1> QED BY <1>1, <1>3, <1>4, <1>5, <1>6, <1>7, <1>8, CommitStep

\* Highlights are made of chunks that are locked, and so still those of the paper.
LEMMA CommitHighlightsStep ==
    ASSUME IInv, NEW q \in Requests, CommitHighlights(q) PROVE IInv'
<1> DEFINE p == about[q]
<1>1. /\ phase[q] = "asking" /\ made[q] # {} /\ Ends(q) /\ p \in Papers /\ q \in Makers
      /\ UNCHANGED <<library, full, chunks>>
      /\ high' = [high EXCEPT ![p] =
                    {Deactivated(q, h) : h \in @} \cup NewHighlights(q, made[q])]
  BY DEF CommitHighlights, IInv, Sees, Makers
<1>2. made[q] \subseteq chunks[p] /\ made[q] \in SUBSET Chunk
  BY <1>1 DEF IInv, TypeOK, Locked
<1>3. ASSUME NEW h \in high'[p] PROVE h \in Highlight /\ (h.chunk # NONE => h.chunk \in chunks[p])
  <2>1. CASE h \in NewHighlights(q, made[q])
    BY <1>1, <1>2, <2>1, NewHighlightsType
  <2>2. CASE \E g \in high[p] : h = Deactivated(q, g)
    <3>1. PICK g \in high[p] : h = Deactivated(q, g)
      BY <2>2
    <3>2. g \in Highlight /\ (g.chunk # NONE => g.chunk \in chunks[p])
      BY <1>1 DEF IInv, TypeOK, LinkedToTheQuotedChunk
    <3>3. h \in Highlight /\ h.chunk = g.chunk
      BY <3>1, <3>2 DEF Deactivated, Highlight
    <3> QED BY <3>2, <3>3
  <2> QED BY <1>1, <1>3, <2>1, <2>2 DEF IInv, TypeOK
<1>4. high' \in [Papers -> SUBSET Highlight] /\ \A x \in Papers \ {p} : high'[x] = high[x]
  BY <1>1, <1>3 DEF IInv, TypeOK
<1>5. TypeOK'
  BY <1>1, <1>4 DEF IInv, TypeOK, Ends, Phases
<1>6. LinkedToTheQuotedChunk'
  BY <1>1, <1>3, <1>4 DEF IInv, LinkedToTheQuotedChunk
<1>7. p \in library
  BY <1>1, <1>2 DEF IInv, NothingOutlivesItsPaper
<1>8. NothingOutlivesItsPaper'
  BY <1>1, <1>4, <1>7 DEF IInv, NothingOutlivesItsPaper
<1> QED BY <1>1, <1>5, <1>6, <1>8, EndsAlone, LocalChange

\* Switching or deleting a highlight touches no link.
LEMMA EditStep ==
    ASSUME IInv, NEW p \in Papers, NEW h \in high[p],
           UpdateHighlight(p, h) \/ DeleteHighlight(p, h)
    PROVE  IInv'
<1>1. UNCHANGED <<library, full, chunks, phase, about, work, seen, shown, locks>>
  BY DEF UpdateHighlight, DeleteHighlight
<1>2. h \in Highlight /\ [h EXCEPT !.active = ~@] \in Highlight
      /\ [h EXCEPT !.active = ~@].chunk = h.chunk
  <2>1. h \in Highlight
    BY DEF IInv, TypeOK
  <2>2. CASE h.active = TRUE
    <3>1. [h EXCEPT !.active = ~@] = [h EXCEPT !.active = FALSE]
      BY <2>2
    <3> QED BY <2>1, <3>1 DEF Highlight
  <2>3. CASE h.active = FALSE
    <3>1. [h EXCEPT !.active = ~@] = [h EXCEPT !.active = TRUE]
      BY <2>3
    <3> QED BY <2>1, <3>1 DEF Highlight
  <2> QED BY <2>1, <2>2, <2>3 DEF Highlight
<1>3. /\ high' \in [Papers -> SUBSET Highlight] /\ \A x \in Papers \ {p} : high'[x] = high[x]
      /\ \A g \in high'[p] : g \in high[p] \/ g = [h EXCEPT !.active = ~@]
  BY <1>2 DEF UpdateHighlight, DeleteHighlight, IInv, TypeOK
<1>4. TypeOK'
  BY <1>1, <1>3 DEF IInv, TypeOK, work, locks
<1>5. LinkedToTheQuotedChunk'
  <2> SUFFICES ASSUME NEW x \in Papers, NEW g \in high'[x], g.chunk # NONE
               PROVE  g.chunk \in chunks[x]
    BY <1>1 DEF LinkedToTheQuotedChunk
  <2>1. \E k \in high[x] : k.chunk = g.chunk
    BY <1>2, <1>3
  <2> QED BY <2>1 DEF IInv, LinkedToTheQuotedChunk
<1>6. NothingOutlivesItsPaper'
  <2> SUFFICES ASSUME NEW x \in Papers \ library PROVE high'[x] = {}
    BY <1>1 DEF IInv, NothingOutlivesItsPaper
  <2>1. x # p /\ high[x] = {}
    BY DEF IInv, NothingOutlivesItsPaper
  <2> QED BY <1>3, <2>1
<1>7. ChunksOfOneText' /\ MadeBefore'
  BY <1>1 DEF IInv, ChunksOfOneText, MadeBefore, Over
<1>8. \A q \in Requests : Sees(q)' /\ Locked(q)' /\ \A r \in Rivals(q)' : Apart(q, r)'
  BY <1>1 DEF IInv, Sees, Locked, Rivals, Apart, Over, work, locks
<1> QED BY <1>4, <1>5, <1>6, <1>7, <1>8 DEF IInv

-----------------------------------------------------------------------------

LEMMA NextInv == IInv /\ [Next]_vars => IInv'
<1> SUFFICES ASSUME IInv, [Next]_vars PROVE IInv'
  OBVIOUS
<1>1. ASSUME NEW q \in Requests, Step(q) PROVE IInv'
  <2>1. CASE \E c \in Condemned(q) : LockChunk(q, c)
    BY <2>1, LockChunkStep
  <2>2. CASE \E h \in Touched(q) : LockHighlight(q, h)
    BY <2>2, LockHighlightStep
  <2>3. CASE DeleteChunks(q) \/ WriteText(q) \/ DeactivateOld(q) \/ AskLLM(q) \/ LockPaper(q)
    BY <2>3, StatementStep
  <2>4. CASE Hydrate(q) \/ CommitHighlights(q) \/ DeletePaper(q)
    BY <2>4, HydrateStep, CommitHighlightsStep, DeletePaperStep
  <2>5. CASE HydrateRefused(q)
    BY <2>5, EndsStep DEF HydrateRefused, WritesNext, Inserting
  <2>6. CASE \E c \in seen[q] : SaveHighlight(q, c) \/ SaveRefused(q, c)
    BY <2>6, SaveHighlightStep, EndsStep DEF SaveRefused
  <2>7. CASE AlreadyDeleted(q)
    BY <2>7, EndsStep DEF AlreadyDeleted
  <2>8. CASE Abort(q)
    <3>1. phase[q] \notin {"idle", "done"}
      BY <2>8 DEF Abort, Waiting, WaitsFor, WaitsForPaper, WritesNext, Inserting, Condemned,
                  Touched, Ids
    <3> QED BY <2>8, <3>1, EndsStep DEF Abort
  <2> QED BY <1>1, <2>1, <2>2, <2>3, <2>4, <2>5, <2>6, <2>7, <2>8 DEF Step
<1>2. ASSUME NEW q \in Requests, Fails(q) PROVE IInv'
  BY <1>2, EndsStep DEF Fails
<1>3. ASSUME NEW q \in Requests, NEW p \in Papers,
             Fetch(q, p) \/ ReadChunks(q, p) \/ FindPaper(q, p)
      PROVE  IInv'
  BY <1>3, FetchStep, ReadChunksStep, FindPaperStep
<1>4. ASSUME NEW p \in Papers, NEW h \in high[p], UpdateHighlight(p, h) \/ DeleteHighlight(p, h)
      PROVE  IInv'
  BY <1>4, EditStep
<1>5. CASE UNCHANGED vars
  <2>1. UNCHANGED <<library, full, chunks, high, phase, about, text, stored, seen, shown, gone,
                    held, made>>
    BY <1>5 DEF vars, tables, work, locks
  <2>2. TypeOK'
    BY <2>1 DEF IInv, TypeOK
  <2>3. ChunksOfOneText' /\ LinkedToTheQuotedChunk' /\ NothingOutlivesItsPaper' /\ MadeBefore'
    BY <2>1 DEF IInv, ChunksOfOneText, LinkedToTheQuotedChunk, NothingOutlivesItsPaper,
                MadeBefore, Over
  <2>4. \A q \in Requests : Sees(q)' /\ Locked(q)' /\ \A r \in Rivals(q)' : Apart(q, r)'
    BY <2>1 DEF IInv, Sees, Locked, Rivals, Apart, Over
  <2> QED BY <2>2, <2>3, <2>4 DEF IInv
<1> QED BY <1>1, <1>2, <1>3, <1>4, <1>5 DEF Next

LEMMA Invariance == Spec => []IInv
BY InitInv, NextInv, PTL DEF Spec

(* Every variable keeps its type.                                          *)
THEOREM TypeCorrect == Spec => []TypeOK
<1>1. IInv => TypeOK
  BY DEF IInv
<1> QED BY Invariance, <1>1, PTL

(* However many hydrations and deletions of a paper overlap, its chunks    *)
(* are those of one text: the one whose INSERT the unique index let        *)
(* through deleted all the others.                                         *)
THEOREM ChunksAreOfOneText == Spec => []ChunksOfOneText
<1>1. IInv => ChunksOfOneText
  BY DEF IInv
<1> QED BY Invariance, <1>1, PTL

(* Whatever hydrations, generations, edits and deletions overlap, a        *)
(* highlight is linked to the chunk it was made from, or to none.          *)
THEOREM LinksAreRight == Spec => []LinkedToTheQuotedChunk
<1>1. IInv => LinkedToTheQuotedChunk
  BY DEF IInv
<1> QED BY Invariance, <1>1, PTL

(* Whatever hydration or generation of a paper overlaps its deletion, the  *)
(* paper leaves no text, chunk or highlight behind.                        *)
THEOREM DeletionIsComplete == Spec => []NothingOutlivesItsPaper
<1>1. IInv => NothingOutlivesItsPaper
  BY DEF IInv
<1> QED BY Invariance, <1>1, PTL
===============================================================================
