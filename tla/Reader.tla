-------------------------------- MODULE Reader --------------------------------
(***************************************************************************)
(* The reader of the library (modules/library): the full text of a paper,  *)
(* its chunks, and the highlights that quote them, until the paper is      *)
(* deleted (modules/papers/service.py).                                    *)
(*                                                                         *)
(* A request is one transaction.  Hydrating fetches a text and replaces    *)
(* the chunks; the session does not flush on its own (core/database.py,    *)
(* 40), so the text is written to the paper after the old chunks are       *)
(* deleted.  Generating reads the chunks, deactivates the highlights       *)
(* generated before, asks the LLM and inserts new ones one by one.         *)
(*                                                                         *)
(* PostgreSQL locks the rows a transaction deletes, updates or refers to   *)
(* until it ends, one after the other; a statement sees what was committed *)
(* when it began, and of transactions that wait for each other in a ring   *)
(* one is aborted.                                                         *)
(***************************************************************************)
EXTENDS Integers, FiniteSets

CONSTANTS
    Papers,         \* papers
    Texts,          \* full texts
    Length,         \* the number of chunks of a text
    Requests,       \* POST hydrate-fulltext, POST highlights/generate, DELETE of a paper
    Edited,         \* the highlights that are switched and deleted by hand
    NONE            \* no text, no paper, no chunk; a request of former times

Makers    == Requests \cup {NONE}
Indexes   == UNION {0 .. Length[t] - 1 : t \in Texts}
Chunk     == [by : Makers, index : Indexes]      \* its id: the request that made it, the place
Highlight == [by : Makers, index : Indexes, chunk : Chunk \cup {NONE}, active : BOOLEAN]

ASSUME LengthAssumption == Length \in [Texts -> Nat \ {0}]
ASSUME NoneAssumption == NONE \notin Papers \cup Texts \cup Requests \cup Chunk

VARIABLES
    library,        \* papers that exist
    full,           \* papers.full_text
    chunks,         \* paper_text_chunks
    high,           \* paper_highlights made by the LLM
    phase, about,   \* where a request stands, and its paper
    text,           \* the text it hydrates
    stored,         \* whether that is the text it read from the paper
    seen,           \* the chunks its statement sees
    shown,          \* the highlights its statement sees
    gone,           \* the chunks it has deleted and locked
    held,           \* the highlights it has updated or deleted and locked
    made            \* the chunks of the highlights it has inserted, locked FOR KEY SHARE

tables == <<library, full, chunks, high>>
locks  == <<gone, held, made>>
work   == <<text, stored>>
vars   == <<tables, phase, about, work, seen, shown, locks>>

Phases == {"idle", "fetched", "deleting", "writing", "read", "updating", "asking",
           "removing", "cascading", "done"}

TypeOK ==
    /\ library \subseteq Papers
    /\ full \in [Papers -> Texts \cup {NONE}]
    /\ chunks \in [Papers -> SUBSET Chunk]
    /\ high \in [Papers -> SUBSET Highlight]
    /\ phase \in [Requests -> Phases]
    /\ about \in [Requests -> Papers \cup {NONE}]
    /\ text \in [Requests -> Texts \cup {NONE}] /\ stored \in [Requests -> BOOLEAN]
    /\ seen \in [Requests -> SUBSET Chunk] /\ gone \in [Requests -> SUBSET Chunk]
    /\ made \in [Requests -> SUBSET Chunk]
    /\ shown \in [Requests -> SUBSET (Makers \X Indexes)]
    /\ held \in [Requests -> SUBSET (Makers \X Indexes)]

ChunksOf(q, t) == [by : {q}, index : 0 .. Length[t] - 1]

NewHighlights(q, quoted) ==
    {[by |-> q, index |-> c.index, chunk |-> c, active |-> TRUE] : c \in quoted}

\* A paper may have a text, its chunks, and highlights of them.
Init ==
    /\ library = Papers
    /\ full \in [Papers -> Texts \cup {NONE}]
    /\ \E cut \in SUBSET {p \in Papers : full[p] # NONE} : \E quoted \in SUBSET cut :
         /\ chunks = [p \in Papers |-> IF p \in cut THEN ChunksOf(NONE, full[p]) ELSE {}]
         /\ high = [p \in Papers |-> IF p \in quoted THEN NewHighlights(NONE, chunks[p]) ELSE {}]
    /\ phase = [q \in Requests |-> "idle"]
    /\ about = [q \in Requests |-> NONE]
    /\ text = [q \in Requests |-> NONE] /\ stored = [q \in Requests |-> FALSE]
    /\ seen = [q \in Requests |-> {}] /\ gone = [q \in Requests |-> {}]
    /\ shown = [q \in Requests |-> {}] /\ held = [q \in Requests |-> {}]
    /\ made = [q \in Requests |-> {}]

-----------------------------------------------------------------------------
(* What a request still has to lock, and for whom it waits. *)

Id(h)   == <<h.by, h.index>>
Ids(hs) == {Id(h) : h \in hs}

\* DELETE, of a hydration or a cascade: the chunks it has yet to lock; those deleted meanwhile
\* are skipped
Condemned(q) == IF phase[q] \in {"deleting", "cascading"}
                THEN (seen[q] \cap chunks[about[q]]) \ gone[q] ELSE {}

\* the rows that ON DELETE SET NULL changes, that a cascade deletes, and that UPDATE changes if
\* they are still there and active
Linked(q) == {h \in high[about[q]] : h.chunk \in gone[q]}
Shown(q)  == {h \in high[about[q]] : h.active /\ Id(h) \in shown[q]}

\* the highlights it has yet to lock, after its chunks
Touched(q) ==
    {h \in CASE phase[q] = "deleting"  /\ Condemned(q) = {} -> Linked(q)
             [] phase[q] = "cascading" /\ Condemned(q) = {} -> high[about[q]]
             [] phase[q] = "updating" -> Shown(q)
             [] OTHER -> {} : Id(h) \notin held[q]}

Cleared(q) == Condemned(q) = {} /\ Touched(q) = {}

\* requests about the same paper, the only ones whose locks q can meet
Rivals(q) == {r \in Requests \ {q} : about[r] = about[q]}

\* the paper of r, FOR NO KEY UPDATE, FOR UPDATE and FOR KEY SHARE
Writes(r)  == phase[r] = "writing"
Removes(r) == phase[r] = "cascading"
Refers(r)  == made[r] # {}

\* the chunks are inserted at the end of a hydration, after a text that was fetched is written
Inserting(q)  == phase[q] = (IF stored[q] THEN "deleting" ELSE "writing") /\ Cleared(q)
WritesNext(q) == phase[q] = "deleting" /\ ~stored[q] /\ Cleared(q)

\* q waits for the paper, which its rival r has locked
WaitsForPaper(q, r) ==
    \/ WritesNext(q) /\ (Writes(r) \/ Removes(r))
    \/ Inserting(q) /\ Removes(r)
    \/ phase[q] = "asking" /\ Removes(r)
    \/ phase[q] = "removing" /\ (Writes(r) \/ Removes(r) \/ Refers(r))

PaperFree(q) == \A r \in Rivals(q) : ~WaitsForPaper(q, r)

\* q waits for a row that r has locked, or for the place of a chunk that r deletes; a new
\* highlight refers to its paper first
WaitsFor(q, r) ==
    /\ r \in Rivals(q)
    /\ \/ WaitsForPaper(q, r)
       \/ Condemned(q) \cap (gone[r] \cup made[r]) # {}
       \/ Ids(Touched(q)) \cap held[r] # {}
       \/ Inserting(q) /\ \E c \in gone[r] : c \in chunks[about[q]] /\ c.index = 0
       \/ phase[q] = "asking" /\ PaperFree(q) /\ seen[q] \cap gone[r] # {}

Waiting(q) == \E r \in Requests : WaitsFor(q, r)

Start(q, p, ph) ==
    /\ phase[q] = "idle" /\ p \in library
    /\ phase' = [phase EXCEPT ![q] = ph]
    /\ about' = [about EXCEPT ![q] = p]

\* Mutant: the session is not closed.
EndsHolding(q) ==
    /\ phase' = [phase EXCEPT ![q] = "done"]
    /\ UNCHANGED <<about, work, seen, shown, locks>>

\* the transaction of q is over
Ends(q) ==
    /\ phase' = [phase EXCEPT ![q] = "done"]
    /\ seen' = [seen EXCEPT ![q] = {}] /\ shown' = [shown EXCEPT ![q] = {}]
    /\ gone' = [gone EXCEPT ![q] = {}] /\ held' = [held EXCEPT ![q] = {}]
    /\ made' = [made EXCEPT ![q] = {}]
    /\ text' = [text EXCEPT ![q] = NONE] /\ stored' = [stored EXCEPT ![q] = FALSE]
    /\ UNCHANGED about

-----------------------------------------------------------------------------
(* Statements lock their rows one by one. *)

LockChunk(q, c) ==
    /\ c \in Condemned(q) /\ \A r \in Rivals(q) : c \notin gone[r] \cup made[r]
    /\ gone' = [gone EXCEPT ![q] = @ \cup {c}]
    /\ UNCHANGED <<tables, phase, about, work, seen, shown, held, made>>

LockHighlight(q, h) ==
    /\ h \in Touched(q) /\ \A r \in Rivals(q) : Id(h) \notin held[r]
    /\ held' = [held EXCEPT ![q] = @ \cup {Id(h)}]
    /\ UNCHANGED <<tables, phase, about, work, seen, shown, gone, made>>

Moves(q, from, to) ==
    /\ phase[q] = from
    /\ phase' = [phase EXCEPT ![q] = to]
    /\ UNCHANGED <<tables, about, work, locks>>

-----------------------------------------------------------------------------
(* hydrate_full_text *)

\* the stored text, or one of the PDF or an open-access source
Fetch(q, p) ==
    /\ Start(q, p, "fetched")
    /\ \E t \in Texts : /\ full[p] # NONE => t = full[p]
                        /\ text' = [text EXCEPT ![q] = t]
    /\ stored' = [stored EXCEPT ![q] = (full[p] # NONE)]
    /\ UNCHANGED <<tables, seen, shown, locks>>

\* DELETE begins
DeleteChunks(q) ==
    /\ Moves(q, "fetched", "deleting")
    /\ seen' = [seen EXCEPT ![q] = chunks[about[q]]]
    /\ UNCHANGED shown

\* DELETE and ON DELETE SET NULL are through; the flush begins with UPDATE of a text that was
\* fetched
WriteText(q) ==
    /\ WritesNext(q) /\ about[q] \in library /\ PaperFree(q)
    /\ Moves(q, "deleting", "writing")
    /\ UNCHANGED <<seen, shown>>

\* the unique index over paper and place
Clash(q) == \E c \in chunks[about[q]] \ gone[q], d \in ChunksOf(q, text[q]) : c.index = d.index

\* nobody keeps q from inserting its first chunk by having deleted the one at its place
PlaceFree(q) ==
    \A r \in Rivals(q) : ~\E c \in gone[r] : c \in chunks[about[q]] /\ c.index = 0

Unlinked(q, h) == IF h.chunk \in gone[q] THEN [h EXCEPT !.chunk = NONE] ELSE h

Replace(q, p) ==
    /\ full' = IF stored[q] THEN full ELSE [full EXCEPT ![p] = text[q]]
    /\ chunks' = [chunks EXCEPT ![p] = (@ \ gone[q]) \cup ChunksOf(q, text[q])]
    /\ high' = [high EXCEPT ![p] = {Unlinked(q, h) : h \in @}]
    /\ UNCHANGED library

\* Mutant: no unique index.
HydrateAnyway(q) ==
    /\ Inserting(q) /\ PaperFree(q) /\ PlaceFree(q)
    /\ about[q] \in library
    /\ Replace(q, about[q])
    /\ Ends(q)

\* Mutant: no foreign key to the paper.
HydrateOrphans(q) ==
    /\ Inserting(q) /\ PaperFree(q) /\ PlaceFree(q)
    /\ ~Clash(q)
    /\ Replace(q, about[q])
    /\ Ends(q)

\* INSERT of the chunks, and the commit
Hydrate(q) ==
    /\ Inserting(q) /\ PaperFree(q) /\ PlaceFree(q)
    /\ about[q] \in library /\ ~Clash(q)
    /\ Replace(q, about[q])
    /\ Ends(q)

\* StaleDataError of the UPDATE, IntegrityError of the foreign key or of the unique index
HydrateRefused(q) ==
    /\ \/ WritesNext(q) /\ about[q] \notin library
       \/ Inserting(q) /\ PaperFree(q) /\ PlaceFree(q) /\ (about[q] \notin library \/ Clash(q))
    /\ Ends(q)
    /\ UNCHANGED tables

-----------------------------------------------------------------------------
(* generate_ai_highlights *)

ReadChunks(q, p) ==
    /\ chunks[p] # {}
    /\ Start(q, p, "read")
    /\ seen' = [seen EXCEPT ![q] = chunks[p]]
    /\ UNCHANGED <<tables, work, shown, locks>>

\* UPDATE begins
DeactivateOld(q) ==
    /\ Moves(q, "read", "updating")
    /\ shown' = [shown EXCEPT ![q] = Ids({h \in high[about[q]] : h.active})]
    /\ UNCHANGED seen

\* UPDATE is through
AskLLM(q) ==
    /\ Touched(q) = {} /\ Moves(q, "updating", "asking")
    /\ shown' = [shown EXCEPT ![q] = {}]
    /\ UNCHANGED seen

\* Mutant: highlights name their chunk by its place, without a foreign key.
SaveUnchecked(q, c) ==
    /\ phase[q] = "asking" /\ PaperFree(q)
    /\ \A r \in Rivals(q) : c \notin gone[r]
    /\ made' = [made EXCEPT ![q] = @ \cup {c}]
    /\ UNCHANGED <<tables, phase, about, work, seen, shown, gone, held>>

\* one of the chunks that the LLM, or the fallback, chose to quote; the foreign keys wait for
\* a transaction that deletes the chunk or the paper
SaveHighlight(q, c) ==
    /\ phase[q] = "asking" /\ PaperFree(q)
    /\ c \in chunks[about[q]] /\ \A r \in Rivals(q) : c \notin gone[r]
    /\ made' = [made EXCEPT ![q] = @ \cup {c}]
    /\ UNCHANGED <<tables, phase, about, work, seen, shown, gone, held>>

\* ForeignKeyViolation: a chunk it read was replaced while the LLM was at work
SaveRefused(q, c) ==
    /\ phase[q] = "asking" /\ PaperFree(q)
    /\ c \notin chunks[about[q]]
    /\ Ends(q)
    /\ UNCHANGED tables

Deactivated(q, h) == IF Id(h) \in held[q] THEN [h EXCEPT !.active = FALSE] ELSE h

CommitHighlights(q) ==
    /\ phase[q] = "asking" /\ made[q] # {}
    /\ high' = [high EXCEPT ![about[q]] =
                   {Deactivated(q, h) : h \in @} \cup NewHighlights(q, made[q])]
    /\ Ends(q)
    /\ UNCHANGED <<library, full, chunks>>

-----------------------------------------------------------------------------
(* delete_paper *)

FindPaper(q, p) ==
    /\ Start(q, p, "removing")
    /\ UNCHANGED <<tables, work, seen, shown, locks>>

\* DELETE locks the paper, ON DELETE CASCADE begins with its chunks
LockPaper(q) ==
    /\ about[q] \in library /\ PaperFree(q)
    /\ Moves(q, "removing", "cascading")
    /\ seen' = [seen EXCEPT ![q] = chunks[about[q]]]
    /\ UNCHANGED shown

DeletePaper(q) ==
    /\ phase[q] = "cascading" /\ Cleared(q)
    /\ library' = library \ {about[q]}
    /\ full' = [full EXCEPT ![about[q]] = NONE]
    /\ chunks' = [chunks EXCEPT ![about[q]] = {}]
    /\ high' = [high EXCEPT ![about[q]] = {}]
    /\ Ends(q)

\* DELETE matches no row
AlreadyDeleted(q) ==
    /\ phase[q] = "removing" /\ about[q] \notin library
    /\ Ends(q)
    /\ UNCHANGED tables

-----------------------------------------------------------------------------
(* One-step requests, and the failures of the others. *)

Holds(r, p, h) == about[r] = p /\ Id(h) \in held[r]

\* PATCH of is_active; the row is not locked by anybody else
UpdateHighlight(p, h) ==
    /\ h \in high[p] /\ Id(h) \in Edited /\ \A r \in Requests : ~Holds(r, p, h)
    /\ high' = [high EXCEPT ![p] = (@ \ {h}) \cup {[h EXCEPT !.active = ~@]}]
    /\ UNCHANGED <<library, full, chunks, phase, about, work, seen, shown, locks>>

DeleteHighlight(p, h) ==
    /\ h \in high[p] /\ Id(h) \in Edited /\ \A r \in Requests : ~Holds(r, p, h)
    /\ high' = [high EXCEPT ![p] = @ \ {h}]
    /\ UNCHANGED <<library, full, chunks, phase, about, work, seen, shown, locks>>

\* no text is found, the storage or the database fails
Fails(q) ==
    /\ phase[q] \notin {"idle", "done"}
    /\ Ends(q)
    /\ UNCHANGED tables

\* the deadlock detector: q is in a ring, whatever its length
Abort(q) ==
    /\ Waiting(q)
    /\ \E ring \in SUBSET {r \in Requests : Waiting(r)} :
         q \in ring /\ \A r \in ring : /\ \E s \in ring : WaitsFor(r, s)
                                       /\ \E s \in ring : WaitsFor(s, r)
    /\ Ends(q)
    /\ UNCHANGED tables

Step(q) ==
    \/ \E c \in Condemned(q) : LockChunk(q, c)
    \/ \E h \in Touched(q) : LockHighlight(q, h)
    \/ DeleteChunks(q) \/ WriteText(q) \/ Hydrate(q) \/ HydrateRefused(q)
    \/ DeactivateOld(q) \/ AskLLM(q) \/ CommitHighlights(q)
    \/ \E c \in seen[q] : SaveHighlight(q, c) \/ SaveRefused(q, c)
    \/ LockPaper(q) \/ DeletePaper(q) \/ AlreadyDeleted(q)
    \/ Abort(q)

Next ==
    \/ \E q \in Requests :
         \/ Step(q) \/ Fails(q)
         \/ \E p \in Papers : Fetch(q, p) \/ ReadChunks(q, p) \/ FindPaper(q, p)
    \/ \E p \in Papers : \E h \in high[p] : UpdateHighlight(p, h) \/ DeleteHighlight(p, h)

Spec == Init /\ [][Next]_vars

\* as long as some handler can go on, one does
FairSpec == Spec /\ WF_vars(\E q \in Requests : Step(q))

-----------------------------------------------------------------------------
(* "Hydrate full text [...] and persist chunks" (modules/library/          *)
(* service.py, 327): whatever hydrations overlap, the chunks of a paper    *)
(* are all the chunks of one text, from one hydration.                     *)
ChunksOfOneText ==
    \A p \in Papers : chunks[p] # {} =>
        \E q \in Makers, t \in Texts : /\ \A c \in chunks[p] : c.by = q
                                      /\ {c.index : c \in chunks[p]} = 0 .. Length[t] - 1

(* "Insight highlight for a paper with deterministic chunk anchors"        *)
(* (modules/library/models.py, 223): the chunk a highlight was made from   *)
(* and is linked to is a chunk of the paper, whatever replaced the chunks  *)
(* while the LLM was at work or afterwards.                                *)
LinkedToTheQuotedChunk ==
    \A p \in Papers : \A h \in high[p] : h.chunk # NONE => h.chunk \in chunks[p]

(* Deleting a paper (modules/papers/service.py, 125-140) leaves no text,   *)
(* chunk or highlight of it behind, and none comes back with a hydration   *)
(* or a generation that had read the paper before it was deleted.          *)
NothingOutlivesItsPaper ==
    \A p \in Papers \ library : full[p] = NONE /\ chunks[p] = {} /\ high[p] = {}

(* The paper, its chunks and its highlights are locked in different orders *)
(* (modules/library/service.py, 358 and 382; highlight_service.py, 163 and *)
(* 184; modules/papers/service.py, 138), by two requests or in a ring of   *)
(* three: every request still ends.                                        *)
RequestsEnd == \A q \in Requests : phase[q] # "idle" ~> phase[q] = "done"
===============================================================================
