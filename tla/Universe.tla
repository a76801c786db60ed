------------------------------- MODULE Universe -------------------------------
(***************************************************************************)
(* The paper universe (src/jarvise_ingest/universe.py and the membership   *)
(* table of db.py): which symbols are traded, and which were at any        *)
(* instant of the past.  A row is an interval; the owner's add, remove and *)
(* reset open and close intervals, and every page and job that names the   *)
(* universe seeds its preset first.                                        *)
(*                                                                         *)
(* A symbol that enters for the first time is listed from 2021 on, which   *)
(* is instant 0 here: the past of a newcomer is made up on purpose.  The   *)
(* equity preset, listed from another date, is left out.                   *)
(***************************************************************************)
EXTENDS Integers, FiniteSets

CONSTANTS
    Symbol,
    Preset,     \* the members a seed ensures
    Presets,    \* the lists a reset can be asked for
    Never,      \* delisted_at IS NULL
    MaxNow, MaxEdits    \* bounds: clock ticks, calls of the owner

ASSUME UniverseAssumption ==
    /\ Preset \subseteq Symbol /\ Presets \subseteq SUBSET Symbol
    /\ Never \notin Nat
ASSUME UniverseBounds == MaxNow \in Nat /\ MaxEdits \in Nat

VARIABLES
    now,
    membership, \* the universe_membership table
    edits       \* bound used up

universeVars == <<now, membership, edits>>

\* _PAPER_CORE_LISTED_AT, and the default of add_universe_symbol.
LongAgo == 0

Interval == [symbol : Symbol, listed : Nat, delisted : Nat \cup {Never}]
From(s, at) == [symbol |-> s, listed |-> at, delisted |-> Never]

OpenAt(i, t) == i.listed <= t /\ (i.delisted # Never => i.delisted > t)
Rows(m, s) == {i \in m : i.symbol = s}

Eligible(m, s, t) == \E i \in Rows(m, s) : OpenAt(i, t)
universe_as_of(m, t) == {s \in Symbol : Eligible(m, s, t)}

HasKey(m, s, at) == \E i \in Rows(m, s) : i.listed = at
Inserted(m, s, at) == IF HasKey(m, s, at) THEN m ELSE m \cup {From(s, at)}

\* The first interval starts long ago, the next ones start now.
Start(m, s, t) == IF Rows(m, s) = {} THEN LongAgo ELSE t

\* INSERT OR IGNORE: an interval that starts at the same instant is kept as it is.
add_universe_symbol(m, s, t) ==
    IF Eligible(m, s, t) THEN m ELSE Inserted(m, s, Start(m, s, t))

\* The same for some symbols, one after the other: they do not touch each other.
Added(m, back, t) ==
    m \cup {From(s, Start(m, s, t)) :
               s \in {b \in back : ~Eligible(m, b, t) /\ ~HasKey(m, b, Start(m, b, t))}}

\* Mutated form of remove_universe_symbol: the row goes, instead of its interval ending.
remove_universe_symbol_row(m, s, t) == {i \in m : ~(i.symbol = s /\ OpenAt(i, t))}

\* The intervals of the symbols in gone that are open at t end there.
Ended(m, gone, t) ==
    {IF i.symbol \in gone /\ OpenAt(i, t) THEN [i EXCEPT !.delisted = t] ELSE i : i \in m}

remove_universe_symbol(m, s, t) == Ended(m, {s}, t)

\* record_membership for every member of the preset.
seed_named_universe(m) ==
    m \cup {From(s, LongAgo) : s \in {p \in Preset : ~HasKey(m, p, LongAgo)}}

-----------------------------------------------------------------------------
Init ==
    /\ now = 0
    /\ membership = {}
    /\ edits = 0

Tick == now < MaxNow /\ now' = now + 1 /\ UNCHANGED <<membership, edits>>

\* The page, paper run, ingest and analyze, before they ask who is in.
Seeds == membership' = seed_named_universe(membership) /\ UNCHANGED <<now, edits>>

\* A call that changes nothing is left out.
Edit(m) ==
    /\ edits < MaxEdits /\ m # membership
    /\ edits' = edits + 1 /\ membership' = m /\ UNCHANGED now

Enlists(s) == Edit(add_universe_symbol(membership, s, now))
Delists(s) == Edit(remove_universe_symbol(membership, s, now))

\* reset_universe_members, after a seed.  Every removal and every addition commits
\* by itself, so that a reset that dies has done some of them: it is a few removals
\* and additions, and a whole one ends with the list asked for.
Resets ==
    LET seeded == seed_named_universe(membership)
        active == universe_as_of(seeded, now)
    IN  \E members \in Presets :
        \E gone \in SUBSET (active \ members), back \in SUBSET (members \ active) :
           /\ back # {} => gone = active \ members
           /\ Edit(Added(Ended(seeded, gone, now), back, now))

UniverseNext == Tick \/ Seeds \/ Resets \/ \E s \in Symbol : Enlists(s) \/ Delists(s)

UniverseSpec == Init /\ [][UniverseNext]_universeVars

-----------------------------------------------------------------------------
\* "without rewriting its point-in-time history" (db.py:2291): what the universe was
\* at an instant that has passed does not change, whatever is added, removed, reset or
\* seeded since, but for a symbol that was never in before; and no seed lets a symbol
\* in again that the owner has removed ("the symbol came straight back", db.py:2334).
PastStands ==
    [][\A s \in Symbol, t \in 0..now :
          Rows(membership, s) # {} /\ (t < now \/ edits' = edits)
              => (Eligible(membership', s, t) <=> Eligible(membership, s, t))
      ]_universeVars
=============================================================================
