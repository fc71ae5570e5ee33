---------------------------- MODULE IngestLedger ----------------------------
(***************************************************************************)
(* What ingestion promises to an organization, without jobs, sessions,     *)
(* locks or crashes: importing a window of a source is one atomic step that *)
(* records every item of the window, adds only papers of items it records  *)
(* for the first time, and leaves the cursor at the end of the window,     *)
(* which starts where everything before it is already recorded.  Deleting  *)
(* a paper changes neither what is recorded nor a cursor.                  *)
(* Ingestion (Ledger) implements it.                                       *)
(***************************************************************************)
EXTENDS Integers, Sequences

CONSTANTS Scopes, Records, Papers, Feed, PaperOf, Limit

VARIABLES
    recorded,   \* items the organization has a source record of
    library,    \* papers of the organization
    cursor      \* how far each source has been read

vars == <<recorded, library, cursor>>

Init ==
    /\ recorded = {}
    /\ library = {}
    /\ cursor = [s \in Scopes |-> 0]

Window(s, from, to) == {Feed[s][i] : i \in (from + 1)..to}

\* The window may start before the cursor: a run that started earlier can
\* finish later.
Import(s) ==
    \E from, to \in 0..Len(Feed[s]) :
        /\ from <= to
        /\ to <= from + Limit
        /\ Window(s, 0, from) \subseteq recorded
        /\ recorded' = recorded \cup Window(s, from, to)
        /\ cursor' = [cursor EXCEPT ![s] = to]
        /\ library \subseteq library'
        /\ library' \subseteq library \cup {PaperOf[x] : x \in recorded' \ recorded}

Delete ==
    /\ \E p \in library : library' = library \ {p}
    /\ UNCHANGED <<recorded, cursor>>

Next == (\E s \in Scopes : Import(s)) \/ Delete

Spec == Init /\ [][Next]_vars
=============================================================================
