--------------------------- MODULE ShadowTrackProofs ---------------------------
(***************************************************************************)
(* Theorems about ShadowTrack, and about the Universe it stands in: the    *)
(* past of the universe stands, the cached track is what the last walk     *)
(* found, and what is scored stands.                                       *)
(***************************************************************************)
EXTENDS ShadowTrack, SingleFlight, SetLemmas, SequenceTheorems, FiniteSetTheorems, TLAPS

(***************************************************************************)
(* The past of the universe stands, for any symbols, presets and numbers   *)
(* of calls.  The argument needs one fact beyond types: a symbol with any  *)
(* history has an interval that starts long ago, so that no seed finds     *)
(* something to insert for it.                                             *)
(***************************************************************************)

Typed ==
    /\ now \in Nat /\ edits \in Nat
    /\ membership \subseteq Interval

HistoryFromTheStart == \A s \in Symbol : Rows(membership, s) # {} => HasKey(membership, s, LongAgo)

UInv == Typed /\ HistoryFromTheStart

\* No other fact about an interval matters than these.
LEMMA FromFields ==
    ASSUME NEW s \in Symbol, NEW at \in Nat
    PROVE  /\ From(s, at) \in Interval
           /\ From(s, at).symbol = s /\ From(s, at).listed = at /\ From(s, at).delisted = Never
BY DEF From, Interval

\* Ending intervals moves no symbol and no start.
LEMMA EndedTyped ==
    ASSUME NEW m \in SUBSET Interval, NEW gone, NEW t \in Nat
    PROVE  /\ Ended(m, gone, t) \subseteq Interval
           /\ \A s, at : HasKey(Ended(m, gone, t), s, at) <=> HasKey(m, s, at)
           /\ \A s : (Rows(Ended(m, gone, t), s) = {}) <=> (Rows(m, s) = {})
<1> DEFINE e(i) == IF i.symbol \in gone /\ OpenAt(i, t) THEN [i EXCEPT !.delisted = t] ELSE i
<1>1. ASSUME NEW i \in m
      PROVE  e(i) \in Interval /\ e(i).symbol = i.symbol /\ e(i).listed = i.listed
  BY DEF Interval
<1>2. Ended(m, gone, t) = {e(i) : i \in m}
  BY DEF Ended
<1> HIDE DEF e
<1>3. Ended(m, gone, t) \subseteq Interval
  BY <1>1, <1>2
<1>4. ASSUME NEW s, NEW at
      PROVE  HasKey(Ended(m, gone, t), s, at) <=> HasKey(m, s, at)
  BY <1>1, <1>2 DEF HasKey, Rows
<1>5. ASSUME NEW s
      PROVE  (Rows(Ended(m, gone, t), s) = {}) <=> (Rows(m, s) = {})
  BY <1>1, <1>2 DEF Rows
<1> QED
  BY <1>3, <1>4, <1>5

\* Ending intervals at t changes nothing before t.
LEMMA EndedBefore ==
    ASSUME NEW m \in SUBSET Interval, NEW gone, NEW t \in Nat,
           NEW s \in Symbol, NEW u \in Nat, u < t
    PROVE  Eligible(Ended(m, gone, t), s, u) <=> Eligible(m, s, u)
<1> DEFINE e(i) == IF i.symbol \in gone /\ OpenAt(i, t) THEN [i EXCEPT !.delisted = t] ELSE i
<1>1. ASSUME NEW i \in m
      PROVE  e(i).symbol = i.symbol /\ (OpenAt(e(i), u) <=> OpenAt(i, u))
  BY UniverseAssumption DEF Interval, OpenAt
<1>2. Ended(m, gone, t) = {e(i) : i \in m}
  BY DEF Ended
<1> HIDE DEF e
<1> QED
  BY <1>1, <1>2 DEF Eligible, Rows

\* New intervals matter for their symbols only, from their start on.
LEMMA AddedElsewhere ==
    ASSUME NEW m, NEW new, NEW s, NEW u,
           \A i \in new : i.symbol = s => ~OpenAt(i, u)
    PROVE  Eligible(m \cup new, s, u) <=> Eligible(m, s, u)
BY DEF Eligible, Rows

\* What a step leaves alone: the past of every symbol with history, and with the
\* clock's own instant when the step is not a call of the owner.
Stands(m, s, u) == Eligible(m, s, u) <=> Eligible(membership, s, u)

LEMMA SeedKeeps ==
    ASSUME UInv
    PROVE  /\ seed_named_universe(membership) \subseteq Interval
           /\ \A s \in Symbol : Rows(seed_named_universe(membership), s) # {}
                 => HasKey(seed_named_universe(membership), s, LongAgo)
           /\ \A s \in Symbol, u \in Nat :
                 Rows(membership, s) # {} => Stands(seed_named_universe(membership), s, u)
           /\ \A s \in Preset : HasKey(seed_named_universe(membership), s, LongAgo)
<1> DEFINE missing == {p \in Preset : ~HasKey(membership, p, LongAgo)}
           new == {From(s, LongAgo) : s \in missing}
<1>1. seed_named_universe(membership) = membership \cup new
  BY DEF seed_named_universe
<1>2. LongAgo \in Nat
  BY DEF LongAgo
<1>3. \A i \in new : \E s \in missing : i = From(s, LongAgo) /\ i \in Interval /\ i.symbol = s /\ i.listed = LongAgo
  BY <1>2, FromFields, UniverseAssumption
<1>4. \A s \in missing : From(s, LongAgo) \in new /\ From(s, LongAgo).symbol = s /\ From(s, LongAgo).listed = LongAgo
  BY <1>2, FromFields, UniverseAssumption
<1> HIDE DEF new
<1>5. membership \cup new \subseteq Interval
  BY <1>3 DEF UInv, Typed
<1>6. ASSUME NEW s \in Symbol, Rows(membership \cup new, s) # {}
      PROVE  HasKey(membership \cup new, s, LongAgo)
  <2>1. CASE Rows(membership, s) # {}
    BY <2>1 DEF UInv, HistoryFromTheStart, HasKey, Rows
  <2>2. CASE Rows(membership, s) = {}
    BY <2>2, <1>3, <1>6 DEF HasKey, Rows
  <2> QED
    BY <2>1, <2>2
<1>7. ASSUME NEW s \in Symbol, NEW u \in Nat, Rows(membership, s) # {}
      PROVE  Stands(membership \cup new, s, u)
  <2>1. s \notin missing
    BY <1>7 DEF UInv, HistoryFromTheStart
  <2>2. \A i \in new : i.symbol # s
    BY <2>1, <1>3
  <2> QED
    BY <2>2, AddedElsewhere DEF Stands
<1>8. ASSUME NEW s \in Preset
      PROVE  HasKey(membership \cup new, s, LongAgo)
  BY <1>4 DEF HasKey, Rows
<1> QED
  BY <1>1, <1>5, <1>6, <1>7, <1>8

\* Symbols with history come back from t on, and the others from the start.
LEMMA AddedKeeps ==
    ASSUME NEW m \in SUBSET Interval, NEW t \in Nat, NEW back \in SUBSET Symbol
    PROVE  /\ Added(m, back, t) \subseteq Interval
           /\ \A s \in Symbol, u \in Nat :
                 u < t /\ Rows(m, s) # {} => (Eligible(Added(m, back, t), s, u) <=> Eligible(m, s, u))
           /\ \A s \in Symbol : HasKey(m, s, LongAgo) => HasKey(Added(m, back, t), s, LongAgo)
           /\ \A s \in Symbol : Rows(m, s) = {} /\ Rows(Added(m, back, t), s) # {}
                 => HasKey(Added(m, back, t), s, LongAgo)
<1> DEFINE who == {b \in back : ~Eligible(m, b, t) /\ ~HasKey(m, b, Start(m, b, t))}
           new == {From(s, Start(m, s, t)) : s \in who}
<1>1. Added(m, back, t) = m \cup new
  BY DEF Added
<1>2. \A i \in new : \E s \in who : i = From(s, Start(m, s, t))
  OBVIOUS
<1>3. ASSUME NEW s \in who
      PROVE  /\ From(s, Start(m, s, t)) \in Interval /\ From(s, Start(m, s, t)).symbol = s
             /\ From(s, Start(m, s, t)).listed = Start(m, s, t)
  <2>1. Start(m, s, t) \in Nat /\ s \in Symbol
    BY DEF Start, LongAgo
  <2> QED
    BY <2>1, FromFields
<1> HIDE DEF new, who
<1>4. m \cup new \subseteq Interval
  BY <1>2, <1>3
<1>5. ASSUME NEW s \in Symbol, NEW u \in Nat, u < t, Rows(m, s) # {}
      PROVE  Eligible(m \cup new, s, u) <=> Eligible(m, s, u)
  <2>1. Start(m, s, t) = t
    BY <1>5 DEF Start
  <2>2. \A i \in new : i.symbol = s => ~OpenAt(i, u)
    BY <2>1, <1>2, <1>3, <1>5 DEF OpenAt
  <2> QED
    BY <2>2, AddedElsewhere
<1>6. \A s \in Symbol : HasKey(m, s, LongAgo) => HasKey(m \cup new, s, LongAgo)
  BY DEF HasKey, Rows
<1>7. ASSUME NEW s \in Symbol, Rows(m, s) = {}, Rows(m \cup new, s) # {}
      PROVE  HasKey(m \cup new, s, LongAgo)
  <2>1. PICK i \in new : i.symbol = s
    BY <1>7 DEF Rows
  <2>2. i.listed = LongAgo
    BY <2>1, <1>2, <1>3, <1>7 DEF Start
  <2> QED
    BY <2>1, <2>2 DEF HasKey, Rows
<1> QED
  BY <1>1, <1>4, <1>5, <1>6, <1>7

-----------------------------------------------------------------------------
\* What a step does to the table, for the two things to be shown of it.
Sound(m) ==
    /\ m \subseteq Interval
    /\ \A s \in Symbol : Rows(m, s) # {} => HasKey(m, s, LongAgo)
PastKept(m) ==
    \A s \in Symbol, u \in Nat : Rows(membership, s) # {} /\ u < now => Stands(m, s, u)

LEMMA EnlistsSound ==
    ASSUME UInv, NEW s \in Symbol
    PROVE  LET m == add_universe_symbol(membership, s, now) IN Sound(m) /\ PastKept(m)
<1> DEFINE at == Start(membership, s, now)
<1>1. at \in Nat /\ LongAgo \in Nat
  BY DEF UInv, Typed, Start, LongAgo
<1>2. CASE Eligible(membership, s, now) \/ HasKey(membership, s, at)
  <2>1. add_universe_symbol(membership, s, now) = membership
    BY <1>2 DEF add_universe_symbol, Inserted
  <2> QED
    BY <2>1 DEF UInv, Typed, HistoryFromTheStart, Sound, PastKept, Stands
<1>3. CASE ~Eligible(membership, s, now) /\ ~HasKey(membership, s, at)
  <2> DEFINE new == {From(s, at)}
  <2>1. add_universe_symbol(membership, s, now) = membership \cup new
    BY <1>3 DEF add_universe_symbol, Inserted
  <2>2. From(s, at) \in Interval /\ From(s, at).symbol = s /\ From(s, at).listed = at
    BY <1>1, FromFields
  <2>3. membership \cup new \subseteq Interval
    BY <2>2 DEF UInv, Typed
  <2>4. ASSUME NEW r \in Symbol, Rows(membership \cup new, r) # {}
        PROVE  HasKey(membership \cup new, r, LongAgo)
    <3>1. CASE Rows(membership, r) # {}
      BY <3>1 DEF UInv, HistoryFromTheStart, HasKey, Rows
    <3>2. CASE Rows(membership, r) = {}
      <4>1. r = s
        BY <2>2, <2>4, <3>2 DEF Rows
      <4>2. at = LongAgo
        BY <3>2, <4>1 DEF Start
      <4> QED
        BY <2>2, <4>1, <4>2 DEF HasKey, Rows
    <3> QED
      BY <3>1, <3>2
  <2>5. ASSUME NEW r \in Symbol, NEW u \in Nat, Rows(membership, r) # {}, u < now
        PROVE  Stands(membership \cup new, r, u)
    <3>1. CASE r # s
      BY <2>2, <3>1, AddedElsewhere DEF Stands
    <3>2. CASE r = s
      <4>1. at = now
        BY <2>5, <3>2 DEF Start
      <4>2. ~OpenAt(From(s, at), u)
        BY <2>2, <2>5, <4>1 DEF OpenAt, UInv, Typed
      <4> QED
        BY <4>2, AddedElsewhere DEF Stands
    <3> QED
      BY <3>1, <3>2
  <2> QED
    BY <2>1, <2>3, <2>4, <2>5 DEF Sound, PastKept
<1> QED
  BY <1>2, <1>3

LEMMA DelistsSound ==
    ASSUME UInv, NEW s \in Symbol
    PROVE  LET m == remove_universe_symbol(membership, s, now) IN Sound(m) /\ PastKept(m)
<1>1. membership \in SUBSET Interval /\ now \in Nat
  BY DEF UInv, Typed
<1>2. Sound(Ended(membership, {s}, now))
  BY <1>1, EndedTyped DEF UInv, HistoryFromTheStart, Sound
<1>3. PastKept(Ended(membership, {s}, now))
  BY <1>1, EndedBefore DEF PastKept, Stands
<1> QED
  BY <1>2, <1>3 DEF remove_universe_symbol

LEMMA SeedsSound ==
    ASSUME UInv
    PROVE  LET m == seed_named_universe(membership) IN Sound(m) /\ PastKept(m)
BY SeedKeeps DEF Sound, PastKept

LEMMA ResetsSound ==
    ASSUME UInv, NEW gone, NEW back \in SUBSET Symbol
    PROVE  LET m == Added(Ended(seed_named_universe(membership), gone, now), back, now)
           IN  Sound(m) /\ PastKept(m)
<1> DEFINE seeded == seed_named_universe(membership)
           ended == Ended(seeded, gone, now)
<1>1. now \in Nat
  BY DEF UInv, Typed
<1>2. seeded \in SUBSET Interval
  BY SeedKeeps
<1>3. ended \in SUBSET Interval
  BY <1>1, <1>2, EndedTyped
<1>4. Added(ended, back, now) \subseteq Interval
  BY <1>1, <1>3, AddedKeeps
<1>5. ASSUME NEW s \in Symbol, Rows(Added(ended, back, now), s) # {}
      PROVE  HasKey(Added(ended, back, now), s, LongAgo)
  <2>1. CASE Rows(ended, s) = {}
    BY <1>1, <1>3, <1>5, <2>1, AddedKeeps
  <2>2. CASE Rows(ended, s) # {}
    <3>1. HasKey(ended, s, LongAgo)
      BY <1>1, <1>2, <2>2, EndedTyped, SeedKeeps
    <3> QED
      BY <3>1, <1>1, <1>3, AddedKeeps
  <2> QED
    BY <2>1, <2>2
<1>6. ASSUME NEW s \in Symbol, NEW u \in Nat, Rows(membership, s) # {}, u < now
      PROVE  Stands(Added(ended, back, now), s, u)
  <2>1. Stands(seeded, s, u)
    BY <1>6, SeedKeeps
  <2>2. Eligible(ended, s, u) <=> Eligible(seeded, s, u)
    BY <1>1, <1>2, <1>6, EndedBefore
  <2>3. Rows(ended, s) # {}
    <3>1. Rows(seeded, s) # {}
      BY <1>6 DEF seed_named_universe, Rows
    <3> QED
      BY <3>1, <1>1, <1>2, EndedTyped
  <2>4. Eligible(Added(ended, back, now), s, u) <=> Eligible(ended, s, u)
    BY <1>1, <1>3, <1>6, <2>3, AddedKeeps
  <2> QED
    BY <2>1, <2>2, <2>4 DEF Stands
<1> QED
  BY <1>4, <1>5, <1>6 DEF Sound, PastKept

-----------------------------------------------------------------------------
LEMMA UInvInit == Init => UInv
BY DEF Init, UInv, Typed, HistoryFromTheStart, Rows

\* Every call of the owner leaves a sound table with the same past.
LEMMA EditsSound ==
    ASSUME UInv, Resets \/ \E s \in Symbol : Enlists(s) \/ Delists(s)
    PROVE  /\ Sound(membership') /\ PastKept(membership')
           /\ now' = now /\ edits' = edits + 1
<1>1. CASE Resets
  <2> DEFINE seeded == seed_named_universe(membership)
             active == universe_as_of(seeded, now)
  <2>1. PICK members \in Presets :
           \E gone \in SUBSET (active \ members), back \in SUBSET (members \ active) :
              /\ back # {} => gone = active \ members
              /\ Edit(Added(Ended(seeded, gone, now), back, now))
    BY <1>1 DEF Resets
  <2>2. PICK gone \in SUBSET (active \ members), back \in SUBSET (members \ active) :
           Edit(Added(Ended(seeded, gone, now), back, now))
    BY <2>1
  <2>3. back \in SUBSET Symbol
    BY <2>2, UniverseAssumption
  <2> QED
    BY <2>2, <2>3, ResetsSound DEF Edit
<1>2. ASSUME NEW s \in Symbol, Enlists(s)
      PROVE  Sound(membership') /\ PastKept(membership') /\ now' = now /\ edits' = edits + 1
  BY <1>2, EnlistsSound DEF Enlists, Edit
<1>3. ASSUME NEW s \in Symbol, Delists(s)
      PROVE  Sound(membership') /\ PastKept(membership') /\ now' = now /\ edits' = edits + 1
  BY <1>3, DelistsSound DEF Delists, Edit
<1> QED
  BY <1>1, <1>2, <1>3

LEMMA UInvNext ==
    ASSUME UInv, [UniverseNext]_universeVars
    PROVE  UInv'
<1>1. CASE Tick
  BY <1>1 DEF Tick, UInv, Typed, HistoryFromTheStart, Rows, HasKey
<1>2. CASE Seeds
  BY <1>2, SeedsSound DEF Seeds, Sound, UInv, Typed, HistoryFromTheStart
<1>3. CASE Resets \/ \E s \in Symbol : Enlists(s) \/ Delists(s)
  BY <1>3, EditsSound DEF Sound, UInv, Typed, HistoryFromTheStart
<1>4. CASE UNCHANGED universeVars
  BY <1>4 DEF universeVars, UInv, Typed, HistoryFromTheStart, Rows, HasKey
<1> QED
  BY <1>1, <1>2, <1>3, <1>4 DEF UniverseNext

\* The past of a symbol that has been in the universe stands, whatever is added,
\* removed, reset or seeded later, and no seed lets a removed symbol back in
\* (db.py:2291 and db.py:2334).
THEOREM PastOfTheUniverse == UniverseSpec => PastStands
<1> DEFINE Kept ==
      \A s \in Symbol, t \in 0..now :
          Rows(membership, s) # {} /\ (t < now \/ edits' = edits)
              => (Eligible(membership', s, t) <=> Eligible(membership, s, t))
<1>1. UInv /\ [UniverseNext]_universeVars => [Kept]_universeVars
  <2> SUFFICES ASSUME UInv, UniverseNext,
                      NEW s \in Symbol, NEW t \in 0..now, Rows(membership, s) # {},
                      t < now \/ edits' = edits
               PROVE  Stands(membership', s, t)
    BY DEF Stands
  <2>0. t \in Nat /\ now \in Nat
    BY DEF UInv, Typed
  <2>1. CASE Tick
    BY <2>1 DEF Tick, Stands
  <2>2. CASE Seeds
    BY <2>0, <2>2, SeedKeeps DEF Seeds
  <2>3. CASE (Resets \/ \E r \in Symbol : Enlists(r) \/ Delists(r)) /\ t < now
    BY <2>0, <2>3, EditsSound DEF PastKept
  <2>4. CASE (Resets \/ \E r \in Symbol : Enlists(r) \/ Delists(r)) /\ ~(t < now)
    <3>1. edits' = edits /\ edits' = edits + 1 /\ edits \in Nat
      BY <2>4, EditsSound DEF UInv, Typed
    <3> QED
      BY <3>1
  <2> QED
    BY <2>1, <2>2, <2>3, <2>4 DEF UniverseNext
<1> QED
  BY <1>1, UInvInit, UInvNext, PTL DEF UniverseSpec, PastStands

-----------------------------------------------------------------------------
LEMMA EditsInUniverse == [Next]_vars => [UniverseNext]_universeVars
BY DEF Next, vars, Walks, JobStep, Syncs, Asks, Commits, Dies, TimePasses, DeskWrites,
       EditUniverse, UniverseNext

\* Beside the desk and the job the universe is the one that was shown to keep its past:
\* the others read it, and only its own calls write it.
THEOREM DeskInUniverse == Spec => UniverseSpec
<1>1. TrackInit => Init
  BY DEF TrackInit
<1> QED BY <1>1, EditsInUniverse, PTL DEF Spec, UniverseSpec

-----------------------------------------------------------------------------
(* The walk of the shadow track.  A walk is defined bar by bar, so that    *)
(* what it finds is shown by induction over the bars: a set of numbers     *)
(* that holds 0 and every successor holds them all.                        *)

\* What a walk has before its first bar.
AtFirst == [pos |-> Out, out |-> {}]

\* The walk is what it is defined to be: a step for every bar.
LEMMA StepByStep ==
    ASSUME NEW kinds, NEW basis, Len(basis) \in Nat
    PROVE  /\ Steps(kinds, basis)[0] = AtFirst
           /\ \A n \in 1..Len(basis) :
                 Steps(kinds, basis)[n] = Step(kinds, Steps(kinds, basis)[n - 1], basis[n], n)
<1> DEFINE len == Len(basis)
           IsWalk(f, m) ==
               f = [n \in 0..m |-> IF n = 0 THEN AtFirst ELSE Step(kinds, f[n - 1], basis[n], n)]
           S == {m \in Nat : \E f : IsWalk(f, m)}
<1>1. 0 \in S
  <2> DEFINE f == [n \in 0..0 |-> AtFirst]
  <2>1. IsWalk(f, 0)
    <3>1. \A n \in 0..0 : n = 0
      OBVIOUS
    <3> QED BY <3>1
  <2> QED BY <2>1
<1>2. ASSUME NEW m \in Nat, m \in S PROVE m + 1 \in S
  <2>1. PICK f : IsWalk(f, m)
    BY <1>2
  <2> DEFINE last == Step(kinds, f[m], basis[m + 1], m + 1)
             g == [n \in 0..(m + 1) |-> IF n <= m THEN f[n] ELSE last]
  <2>2. \A n \in 0..m : g[n] = f[n]
    OBVIOUS
  <2>3. g[m + 1] = last
    OBVIOUS
  <2>4. f[0] = AtFirst /\ \A n \in 1..m : f[n] = Step(kinds, f[n - 1], basis[n], n)
    <3>1. \A n \in 0..m : f[n] = IF n = 0 THEN AtFirst ELSE Step(kinds, f[n - 1], basis[n], n)
      BY <2>1
    <3> QED BY <3>1
  <2>5. DOMAIN g = 0..(m + 1) /\ g = [n \in 0..(m + 1) |-> g[n]]
    OBVIOUS
  <2> HIDE DEF g
  <2>6. g[0] = AtFirst
    BY <2>2, <2>4
  <2>7. ASSUME NEW n \in 1..(m + 1) PROVE g[n] = Step(kinds, g[n - 1], basis[n], n)
    <3>1. n - 1 \in 0..m
      OBVIOUS
    <3>2. CASE n \in 1..m
      BY <2>2, <2>4, <3>1, <3>2
    <3>3. CASE n = m + 1
      BY <2>2, <2>3, <3>1, <3>3
    <3> QED BY <3>2, <3>3
  <2>8. \A n \in 0..(m + 1) :
           g[n] = IF n = 0 THEN AtFirst ELSE Step(kinds, g[n - 1], basis[n], n)
    BY <2>6, <2>7
  <2>9. IsWalk(g, m + 1)
    BY <2>5, <2>8
  <2> QED BY <2>9
<1>3. len \in S
  <2> HIDE DEF S, len
  <2>1. \A n \in Nat : n \in S => n + 1 \in S
    BY <1>2
  <2>2. Nat \subseteq S
    BY <1>1, <2>1, AllOf
  <2> QED BY <2>2 DEF len
<1>4. PICK f : IsWalk(f, len)
  BY <1>3
<1>5. IsWalk(Steps(kinds, basis), len)
  BY <1>4 DEF Steps, AtFirst
<1>6. \A n \in 0..len : Steps(kinds, basis)[n] =
         IF n = 0 THEN AtFirst ELSE Step(kinds, Steps(kinds, basis)[n - 1], basis[n], n)
  BY <1>5
<1> QED BY <1>6

\* A walk goes by analyses that are named, each for one bar.
Named(basis) ==
    /\ Len(basis) \in Nat
    /\ \A n \in 1..Len(basis) : basis[n].says \in {"long", "short"} => basis[n].id # 0
    /\ \A n, m \in 1..Len(basis) : basis[n].id = basis[m].id /\ basis[n].id # 0 => n = m

\* A row of a walk after n bars: entered at a bar whose analysis it names.
Entered(basis, r, n) ==
    /\ {"exit", "reason"} \subseteq DOMAIN r
    /\ r.entry \in 1..n
    /\ r.id = basis[r.entry].id /\ r.side = basis[r.entry].says
    /\ r.side \in {"long", "short"}
    /\ r.exit \in Nat

\* What a walk has after n bars: the rows it has closed, each after it was entered, and
\* perhaps an open one.  No two were entered at the same bar.
WalkFits(basis, w, n) ==
    /\ w = [pos |-> w.pos, out |-> w.out]
    /\ w.pos # Out => Entered(basis, w.pos, n) /\ w.pos.exit = 0
    /\ \A r \in w.out : Entered(basis, r, n) /\ r.exit > r.entry /\ r.exit <= n
    /\ \A r \in w.out : w.pos # Out => r.entry # w.pos.entry
    /\ \A r, q \in w.out : r.entry = q.entry => r = q

\* What comes of a walk further on: all that it names is named, and what it has closed
\* stays closed.
Grows(w, later) == Ids(Found(w)) \subseteq Ids(Found(later)) /\ w.out \subseteq later.out

LEMMA StepFits ==
    ASSUME NEW kinds, NEW basis, Named(basis), NEW n \in Nat, n + 1 \in 1..Len(basis),
           NEW w, WalkFits(basis, w, n),
           NEW next, next = Step(kinds, w, basis[n + 1], n + 1)
    PROVE  WalkFits(basis, next, n + 1) /\ Grows(w, next)
<1>1. \A r : Entered(basis, r, n) => Entered(basis, r, n + 1) /\ r.entry <= n /\ r.entry \in Nat
  BY DEF Entered
<1>2. CASE next = w
  BY <1>1, <1>2 DEF WalkFits, Grows, Entered
<1>3. ASSUME w.pos # Out, NEW reason,
             next = [pos |-> Out, out |-> w.out \cup {[w.pos EXCEPT !.exit = n + 1, !.reason = reason]}]
      PROVE  WalkFits(basis, next, n + 1) /\ Grows(w, next)
  <2> DEFINE row == [w.pos EXCEPT !.exit = n + 1, !.reason = reason]
  <2>1. Entered(basis, w.pos, n)
    BY <1>3 DEF WalkFits
  <2>2. /\ row.id = w.pos.id /\ row.side = w.pos.side /\ row.entry = w.pos.entry
        /\ DOMAIN row = DOMAIN w.pos
    OBVIOUS
  <2>9. row.exit = n + 1
    BY <2>1 DEF Entered
  <2> HIDE DEF row
  <2>3. /\ Entered(basis, row, n + 1) /\ row.exit > row.entry /\ row.entry = w.pos.entry
        /\ row.id = w.pos.id
    BY <2>1, <2>2, <2>9 DEF Entered
  <2>4. next.pos = Out /\ next.out = w.out \cup {row} /\ next = [pos |-> next.pos, out |-> next.out]
    BY <1>3 DEF row
  <2>5. \A r \in next.out : Entered(basis, r, n + 1) /\ r.exit > r.entry /\ r.exit <= n + 1
    BY <1>1, <2>3, <2>4, <2>9 DEF WalkFits, Entered
  <2>6. \A r, q \in next.out : r.entry = q.entry => r = q
    BY <1>3, <2>3, <2>4 DEF WalkFits
  <2>7. WalkFits(basis, next, n + 1)
    BY <2>4, <2>5, <2>6 DEF WalkFits
  <2>8. Grows(w, next)
    BY <2>3, <2>4 DEF Ids, Found, Grows
  <2> QED BY <2>7, <2>8
<1>4. ASSUME w.pos = Out, basis[n + 1].says \in {"long", "short"},
             next = [pos |-> Opened(basis[n + 1].id, basis[n + 1].says, n + 1), out |-> w.out]
      PROVE  WalkFits(basis, next, n + 1) /\ Grows(w, next)
  <2>1. Entered(basis, next.pos, n + 1) /\ next.pos.exit = 0 /\ next.pos.entry = n + 1
    BY <1>4 DEF Entered, Opened
  <2>2. WalkFits(basis, next, n + 1)
    BY <1>1, <1>4, <2>1 DEF WalkFits, Entered
  <2>3. Grows(w, next)
    BY <1>4 DEF Ids, Found, Grows
  <2> QED BY <2>2, <2>3
<1> QED BY <1>2, <1>3, <1>4 DEF Step


\* After any number of bars a walk has what fits, and it grows from bar to bar.
LEMMA StepsFit ==
    ASSUME NEW kinds, NEW basis, Named(basis)
    PROVE  /\ \A n \in 0..Len(basis) : WalkFits(basis, Steps(kinds, basis)[n], n)
           /\ \A n, m \in 0..Len(basis) : n <= m =>
                 Grows(Steps(kinds, basis)[n], Steps(kinds, basis)[m])
<1> DEFINE w(n) == Steps(kinds, basis)[n]
           len == Len(basis)
<1>0. len \in Nat
  BY DEF Named
<1>1. w(0) = AtFirst /\ \A n \in 1..len : w(n) = Step(kinds, w(n - 1), basis[n], n)
  BY <1>0, StepByStep
<1>2. \A n \in Nat : n + 1 \in 1..len => w(n + 1) = Step(kinds, w(n), basis[n + 1], n + 1)
  BY <1>1
<1>3. WalkFits(basis, w(0), 0)
  <2>1. w(0).pos = Out /\ w(0).out = {} /\ w(0) = [pos |-> w(0).pos, out |-> w(0).out]
    BY <1>1 DEF AtFirst
  <2> QED BY <2>1 DEF WalkFits
<1> HIDE DEF w, len
<1> DEFINE S == {n \in Nat : n \in 0..len =>
                    /\ WalkFits(basis, w(n), n)
                    /\ \A k \in 0..n : Grows(w(k), w(n))}
<1>4. 0 \in S
  BY <1>3 DEF Grows
<1>5. ASSUME NEW n \in Nat, n \in S PROVE n + 1 \in S
  <2> SUFFICES ASSUME n + 1 \in 0..len
               PROVE  /\ WalkFits(basis, w(n + 1), n + 1)
                      /\ \A k \in 0..(n + 1) : Grows(w(k), w(n + 1))
    OBVIOUS
  <2>1. n \in 0..len /\ n + 1 \in 1..len
    BY <1>0
  <2>2. WalkFits(basis, w(n), n) /\ \A k \in 0..n : Grows(w(k), w(n))
    BY <1>5, <2>1
  <2>5. w(n + 1) = Step(kinds, w(n), basis[n + 1], n + 1)
    BY <1>2, <2>1
  <2>6. n + 1 \in 1..Len(basis)
    BY <2>1 DEF len
  <2>3. WalkFits(basis, w(n + 1), n + 1) /\ Grows(w(n), w(n + 1))
    <3>1. \A before, after :
             WalkFits(basis, before, n) /\ after = Step(kinds, before, basis[n + 1], n + 1)
                => /\ WalkFits(basis, after, n + 1)
                   /\ Grows(before, after)
      BY <2>6, StepFits
    <3> QED BY <2>2, <2>5, <3>1
  <2>4. \A k \in 0..(n + 1) : k \in 0..n \/ k = n + 1
    OBVIOUS
  <2> QED BY <2>2, <2>3, <2>4 DEF Grows
<1>6. Nat \subseteq S
  <2> HIDE DEF S
  <2> QED BY <1>4, <1>5, AllOf
<1>7. \A n \in 0..len : /\ WalkFits(basis, w(n), n)
                        /\ \A k \in 0..n : Grows(w(k), w(n))
  BY <1>0, <1>6
<1>8. \A n, m \in 0..len : n <= m => Grows(w(n), w(m))
  <2>1. \A n, m \in 0..len : n <= m => n \in 0..m
    BY <1>0
  <2> QED BY <1>7, <2>1
<1> QED BY <1>7, <1>8 DEF w, len

\* A walk looks no further than its bars: what comes later changes nothing of what it had.
LEMMA SameSteps ==
    ASSUME NEW kinds, NEW more, NEW basis, NEW longer,
           Len(basis) \in Nat, Len(longer) \in Nat, Len(basis) <= Len(longer),
           \A n \in 1..Len(basis) : longer[n] = basis[n] /\ more[n] = kinds[n],
           Named(basis)
    PROVE  \A n \in 0..Len(basis) : Steps(more, longer)[n] = Steps(kinds, basis)[n]
<1> DEFINE v(n) == Steps(kinds, basis)[n]
           w(n) == Steps(more, longer)[n]
           len == Len(basis)
<1>1. v(0) = AtFirst /\ \A n \in 1..len : v(n) = Step(kinds, v(n - 1), basis[n], n)
  BY StepByStep
<1>2. w(0) = AtFirst /\ \A n \in 1..len : w(n) = Step(more, w(n - 1), longer[n], n)
  <2>1. 1..len \subseteq 1..Len(longer)
    OBVIOUS
  <2> QED BY <2>1, StepByStep
<1>3. \A n \in 0..len : WalkFits(basis, v(n), n)
  BY StepsFit
<1> HIDE DEF v, w
<1> DEFINE S == {n \in Nat : n \in 0..len => v(n) = w(n)}
<1>4. 0 \in S
  BY <1>1, <1>2
<1>5. ASSUME NEW n \in Nat, n \in S PROVE n + 1 \in S
  <2> SUFFICES ASSUME n + 1 \in 0..len PROVE v(n + 1) = w(n + 1)
    OBVIOUS
  <2>1. n + 1 \in 1..len /\ n \in 0..len /\ v(n) = w(n) /\ (n + 1) - 1 = n
    BY <1>5
  <2>2. v(n + 1) = Step(kinds, v(n), basis[n + 1], n + 1)
        /\ w(n + 1) = Step(more, v(n), longer[n + 1], n + 1)
    BY <1>1, <1>2, <2>1
  <2>3. longer[n + 1] = basis[n + 1]
    BY <2>1
  <2>4. v(n).pos # Out => v(n).pos.entry \in 1..n
    BY <1>3, <2>1 DEF WalkFits, Entered
  <2>5. v(n).pos # Out =>
           \A said : Exit(kinds, v(n).pos, said, n + 1) = Exit(more, v(n).pos, said, n + 1)
    <3> SUFFICES ASSUME v(n).pos # Out, NEW said
                 PROVE  Exit(kinds, v(n).pos, said, n + 1) = Exit(more, v(n).pos, said, n + 1)
      OBVIOUS
    <3>1. \A u \in (v(n).pos.entry + 1)..(n + 1) : more[u] = kinds[u]
      BY <2>1, <2>4
    <3> QED BY <3>1 DEF Exit
  <2>6. CASE v(n).pos = Out
    BY <2>2, <2>3, <2>6 DEF Step
  <2>7. CASE v(n).pos # Out
    <3> DEFINE was == Exit(kinds, v(n).pos, basis[n + 1].says, n + 1)
               is == Exit(more, v(n).pos, basis[n + 1].says, n + 1)
    <3>1. was = is
      BY <2>5, <2>7
    <3>2. v(n + 1) = IF was = "open" THEN v(n)
                     ELSE [pos |-> Out, out |-> v(n).out \cup
                              {[v(n).pos EXCEPT !.exit = n + 1, !.reason = was]}]
      BY <2>2, <2>7 DEF Step
    <3>3. w(n + 1) = IF is = "open" THEN v(n)
                     ELSE [pos |-> Out, out |-> v(n).out \cup
                              {[v(n).pos EXCEPT !.exit = n + 1, !.reason = is]}]
      BY <2>2, <2>3, <2>7 DEF Step
    <3> HIDE DEF was, is
    <3> QED BY <3>1, <3>2, <3>3
  <2> QED BY <2>6, <2>7
<1>6. Nat \subseteq S
  <2> HIDE DEF S
  <2> QED BY <1>4, <1>5, AllOf
<1> QED BY <1>6 DEF v, w

\* What a walk finds: each row names the analysis of the bar it entered at, was closed
\* after that bar or is open, and no two rows name the same analysis.
LEMMA FoundFits ==
    ASSUME NEW kinds, NEW basis, Named(basis),
           NEW rows, rows = Found(Steps(kinds, basis)[Len(basis)])
    PROVE  /\ \A r \in rows : /\ Entered(basis, r, Len(basis))
                              /\ r.exit = 0 \/ (r.exit > r.entry /\ r.exit <= Len(basis))
                              /\ r.id # 0
           /\ \A r, q \in rows : r.id = q.id => r = q
<1> DEFINE w == Steps(kinds, basis)[Len(basis)]
<1>1. WalkFits(basis, w, Len(basis)) /\ Len(basis) \in Nat
  BY StepsFit DEF Named
<1> HIDE DEF w
<1>2. \A r \in rows : /\ Entered(basis, r, Len(basis))
                      /\ r.exit = 0 \/ (r.exit > r.entry /\ r.exit <= Len(basis))
  BY <1>1 DEF WalkFits, Found, w
<1>3. \A r \in rows : r.id # 0
  BY <1>2 DEF Entered, Named
<1>4. ASSUME NEW r \in rows, NEW q \in rows, r.id = q.id PROVE r = q
  <2>1. r.entry = q.entry
    BY <1>2, <1>3, <1>4 DEF Entered, Named
  <2> QED BY <1>1, <2>1 DEF WalkFits, Found, w
<1> QED BY <1>2, <1>3, <1>4


-----------------------------------------------------------------------------
(* What the tables hold.  A row of a walk, cached or not, names a stored   *)
(* analysis and was entered at its bar; and a verdict that is an opinion   *)
(* was stamped while its entry was on time.                              *)

StoredAnalysis == [symbol : Symbol, bar : Nat \ {0}, lean : Actions, action : Actions \cup {"flat"}]

Stored ==
    /\ now \in Nat
    /\ candles \in [Symbol -> Seq(Kinds)]
    /\ analyses \in Seq(StoredAnalysis)
    /\ DOMAIN job = {"pc", "at", "rows", "todo", "calls", "hand"}
    /\ job.at \in Nat

RowFits(r) ==
    /\ r.id \in DOMAIN analyses
    /\ r.entry = analyses[r.id].bar
    /\ r.exit \in Nat /\ (r.exit = 0 \/ r.exit > r.entry)

OnTime(book) ==
    \A id \in DOMAIN book :
        /\ id \in DOMAIN analyses
        /\ book[id].at \in Nat
        /\ book[id].value = "late" \/ on_time(analyses[id].bar, book[id].at)

RowsFit ==
    /\ \A r \in job.rows : RowFits(r)
    /\ \A r \in job.todo : RowFits(r) /\ on_time(r.entry, job.at)
    /\ \A id \in DOMAIN track : RowFits(track[id]) /\ track[id].id = id

TablesInv == Stored /\ RowsFit /\ OnTime(job.hand) /\ OnTime(verdicts)

LEMMA Chosen ==
    ASSUME Stored, NEW s, NEW n, NEW id, id = _choose_analysis(s, n)
    PROVE  \/ id = 0
           \/ id \in DOMAIN analyses /\ analyses[id].symbol = s /\ analyses[id].bar = n
<1> DEFINE group == {i \in DOMAIN analyses : analyses[i].symbol = s /\ analyses[i].bar = n}
           flats == {i \in group : analyses[i].action = "flat"}
           queued == {i \in group : i \in decided \/ i = pending[s]}
<1>1. DOMAIN analyses = 1..Len(analyses) /\ Len(analyses) \in Nat
  BY DEF Stored
<1>2. group \in SUBSET (0..Len(analyses))
  BY <1>1
<1>3. CASE group = {}
  BY <1>3 DEF _choose_analysis
<1>4. CASE group # {}
  <2>1. PICK of : of = IF flats # {} THEN flats ELSE IF queued # {} THEN queued ELSE group
    OBVIOUS
  <2>2. of # {} /\ of \subseteq group
    BY <1>4, <2>1
  <2>3. id = Max(of)
    BY <1>4, <2>1 DEF _choose_analysis
  <2> HIDE DEF group, flats, queued
  <2>4. id \in group
    BY <1>1, <1>2, <2>2, <2>3, MaxIn
  <2> QED BY <2>4 DEF group
<1> QED BY <1>3, <1>4

LEMMA ClosedIs ==
    ASSUME Stored, NEW s \in Symbol, NEW at \in Nat
    PROVE  Closed(s, at) \in Nat
<1>1. at \div Width \in Nat
  BY TrackAssumption
<1>2. Len(candles[s]) \in Nat
  BY DEF Stored
<1> QED BY <1>1, <1>2 DEF Closed

\* What a walk goes by is named, and the analyses of it are those of its symbol and bars.
LEMMA BasisNamed ==
    ASSUME Stored, NEW s \in Symbol, NEW at \in Nat, NEW basis, basis = Basis(s, at)
    PROVE  /\ Named(basis) /\ \E S : basis \in Seq(S)
           /\ Len(basis) <= Len(candles[s])
           /\ \A n \in 1..Len(basis) :
                 basis[n].id # 0 => /\ basis[n].id \in DOMAIN analyses
                                    /\ analyses[basis[n].id].symbol = s
                                    /\ analyses[basis[n].id].bar = n
<1>1. CASE ~Eligible(membership, s, at)
  <2>1. basis = <<>>
    BY <1>1 DEF Basis
  <2>2. Len(basis) = 0
    BY <2>1
  <2>3. basis \in Seq({}) /\ Len(candles[s]) \in Nat
    BY <2>1 DEF Stored
  <2> QED BY <2>2, <2>3 DEF Named
<1>2. CASE Eligible(membership, s, at)
  <2>1. PICK k : k = Closed(s, at)
    OBVIOUS
  <2>2. k \in Nat
    BY <2>1, ClosedIs
  <2>3. basis = [n \in 1..k |->
             LET id == _choose_analysis(s, n)
             IN  [id |-> id, says |-> Says(id), member |-> Eligible(membership, s, OpenOf(n))]]
    BY <1>2, <2>1 DEF Basis
  <2>4. Len(basis) = k
    BY <2>2, <2>3
  <2>5. \A n \in 1..k : basis[n].id = _choose_analysis(s, n) /\ basis[n].says = Says(basis[n].id)
    BY <2>3
  <2>6. ASSUME NEW n \in 1..k, basis[n].id # 0
        PROVE  /\ basis[n].id \in DOMAIN analyses
               /\ analyses[basis[n].id].symbol = s /\ analyses[basis[n].id].bar = n
    BY <2>5, <2>6, Chosen
  <2>7. \A n \in 1..k : basis[n].says \in {"long", "short"} => basis[n].id # 0
    BY <2>5 DEF Says
  <2>8. Named(basis)
    BY <2>2, <2>4, <2>6, <2>7 DEF Named
  <2>9. k <= Len(candles[s])
    <3>1. at \div Width \in Nat
      BY TrackAssumption
    <3>2. Len(candles[s]) \in Nat
      BY DEF Stored
    <3> QED BY <2>1, <3>1, <3>2 DEF Closed
  <2>10. basis \in Seq({basis[n] : n \in 1..k})
    BY <2>2, <2>3
  <2> QED BY <2>4, <2>6, <2>8, <2>9, <2>10
<1> QED BY <1>1, <1>2

LEMMA CloseOrder ==
    ASSUME NEW n \in Nat, NEW m \in Nat, m <= n PROVE CloseOf(m) <= CloseOf(n)
<1>1. PICK d \in Nat : n = m + d
  BY n - m \in Nat
<1>2. n * Width = m * Width + d * Width
  BY <1>1, TrackAssumption
<1>3. d * Width \in Nat /\ m * Width \in Nat
  BY TrackAssumption
<1> QED BY <1>2, <1>3 DEF CloseOf

\* A walk goes by bars that have closed.
LEMMA BasisClosed ==
    ASSUME Stored, NEW s \in Symbol, NEW at \in Nat, NEW basis, basis = Basis(s, at)
    PROVE  Len(basis) \in Nat /\ CloseOf(Len(basis)) <= at
<1>1. PICK k : k = Closed(s, at)
  OBVIOUS
<1>2. k \in Nat /\ at \div Width \in Nat /\ Len(candles[s]) \in Nat
  <2>1. k \in Nat
    BY <1>1, ClosedIs
  <2>2. Len(candles[s]) \in Nat
    BY DEF Stored
  <2> QED BY <2>1, <2>2, TrackAssumption
<1>3. k <= at \div Width
  BY <1>1, <1>2 DEF Closed
<1>4. CloseOf(at \div Width) <= at
  BY TrackAssumption DEF CloseOf
<1>5. CloseOf(k) <= at
  <2>1. CloseOf(k) \in Nat /\ CloseOf(at \div Width) \in Nat
    BY <1>2, TrackAssumption DEF CloseOf
  <2> QED BY <1>2, <1>3, <1>4, <2>1, CloseOrder
<1>6. CloseOf(0) <= at
  BY TrackAssumption DEF CloseOf
<1>7. CASE Eligible(membership, s, at)
  <2>1. Len(basis) = k
    BY <1>1, <1>2, <1>7 DEF Basis
  <2> QED BY <2>1, <1>2, <1>5
<1>8. CASE ~Eligible(membership, s, at)
  <2>1. Len(basis) = 0
    BY <1>8 DEF Basis
  <2> QED BY <2>1, <1>6
<1> QED BY <1>7, <1>8

\* What a walk finds fits what is stored.
LEMMA WalkFound ==
    ASSUME Stored, NEW s \in Symbol, NEW at \in Nat
    PROVE  /\ \A r \in Walk(s, at) : RowFits(r) /\ analyses[r.id].symbol = s
                                      /\ (r.exit = 0 \/ CloseOf(r.exit) <= at)
           /\ \A r, q \in Walk(s, at) : r.id = q.id => r = q
<1>1. PICK basis : basis = Basis(s, at)
  OBVIOUS
<1>2. Walk(s, at) = Found(Steps(candles[s], basis)[Len(basis)])
  BY <1>1 DEF Walk
<1>3. Named(basis) /\ \A n \in 1..Len(basis) :
                 basis[n].id # 0 => /\ basis[n].id \in DOMAIN analyses
                                    /\ analyses[basis[n].id].symbol = s
                                    /\ analyses[basis[n].id].bar = n
  BY <1>1, BasisNamed
<1>4. /\ \A r \in Walk(s, at) : /\ Entered(basis, r, Len(basis))
                                /\ r.exit = 0 \/ (r.exit > r.entry /\ r.exit <= Len(basis))
                                /\ r.id # 0
      /\ \A r, q \in Walk(s, at) : r.id = q.id => r = q
  BY <1>2, <1>3, FoundFits
<1>5. \A r \in Walk(s, at) : RowFits(r) /\ analyses[r.id].symbol = s
  BY <1>3, <1>4 DEF Entered, RowFits
<1>6. Len(basis) \in Nat /\ CloseOf(Len(basis)) <= at
  BY <1>1, BasisClosed
<1>7. \A r \in Walk(s, at) : r.exit = 0 \/ CloseOf(r.exit) <= at
  <2>1. \A m \in Nat : m <= Len(basis) => CloseOf(m) <= CloseOf(Len(basis))
    BY <1>6, CloseOrder
  <2>2. \A m \in Nat : CloseOf(m) \in Nat
    BY TrackAssumption DEF CloseOf
  <2> QED BY <1>4, <1>6, <2>1, <2>2 DEF Entered
<1> QED BY <1>4, <1>5, <1>7

LEMMA OnTimeOver ==
    ASSUME NEW f, NEW g, OnTime(f), OnTime(g)
    PROVE  OnTime(Over(f, g))
<1>1. PICK h : h = Over(f, g)
  OBVIOUS
<1>2. DOMAIN h = DOMAIN f \cup DOMAIN g
      /\ \A x \in DOMAIN h : h[x] = IF x \in DOMAIN f THEN f[x] ELSE g[x]
  BY <1>1 DEF Over
<1>3. OnTime(h)
  BY <1>2 DEF OnTime
<1> QED BY <1>1, <1>3

LEMMA Picked ==
    ASSUME NEW rows, NEW id \in Ids(rows)
    PROVE  RowOf(rows, id) \in rows /\ RowOf(rows, id).id = id
BY DEF RowOf, Ids

LEMMA TablesInit == TrackInit => TablesInv
<1> SUFFICES ASSUME TrackInit PROVE TablesInv
  OBVIOUS
<1>1. now = 0 /\ job = Resting /\ track = <<>> /\ verdicts = <<>> /\ analyses = <<>>
      /\ candles = [s \in Symbol |-> <<>>]
  BY DEF TrackInit, Init
<1>2. /\ DOMAIN job = {"pc", "at", "rows", "todo", "calls", "hand"}
      /\ job.at = 0 /\ job.rows = {} /\ job.todo = {} /\ job.hand = <<>>
  BY <1>1 DEF Resting
<1>3. candles \in [Symbol -> Seq(Kinds)] /\ analyses \in Seq(StoredAnalysis)
  BY <1>1
<1>4. DOMAIN track = {} /\ DOMAIN verdicts = {} /\ DOMAIN job.hand = {}
  BY <1>1, <1>2
<1> QED BY <1>1, <1>2, <1>3, <1>4 DEF TablesInv, Stored, RowsFit, OnTime

\* Nothing that is written about an analysis moves its symbol or its bar.
LEMMA StaysStored ==
    ASSUME TablesInv, DOMAIN analyses \subseteq DOMAIN analyses',
           \A id \in DOMAIN analyses : analyses'[id].bar = analyses[id].bar,
           Stored', UNCHANGED <<job, tables>>
    PROVE  TablesInv'
<1>1. \A r : RowFits(r) => RowFits(r)'
  BY DEF RowFits
<1>2. RowsFit'
  BY <1>1 DEF TablesInv, RowsFit, tables
<1>3. OnTime(job.hand)' /\ OnTime(verdicts)'
  BY DEF TablesInv, OnTime, tables
<1> QED BY <1>2, <1>3 DEF TablesInv

LEMMA IngestStays ==
    ASSUME TablesInv, NEW s \in Symbol, Ingest(s), now' = now, UNCHANGED <<job, tables>>
    PROVE  TablesInv'
<1>1. PICK n \in Nat : \E bars \in [1..n -> Kinds] : candles' = [candles EXCEPT ![s] = @ \o bars]
  <2>4. now \in Nat /\ candles[s] \in Seq(Kinds)
    BY DEF TablesInv, Stored
  <2>1. now \div Width \in Nat /\ Len(candles[s]) \in Nat
    BY <2>4, TrackAssumption
  <2>2. PICK n : n = (now \div Width) - Len(candles[s])
    OBVIOUS
  <2>3. n > 0 /\ \E bars \in [1..n -> Kinds] : candles' = [candles EXCEPT ![s] = @ \o bars]
    BY <2>2 DEF Ingest
  <2>5. n \in Nat
    BY <2>1, <2>2, <2>3
  <2> QED BY <2>3, <2>5
<1>6. PICK bars \in [1..n -> Kinds] : candles' = [candles EXCEPT ![s] = @ \o bars]
  BY <1>1
<1>2. bars \in Seq(Kinds) /\ candles[s] \in Seq(Kinds)
  BY DEF TablesInv, Stored
<1>3. candles[s] \o bars \in Seq(Kinds)
  BY <1>2
<1>4. candles' \in [Symbol -> Seq(Kinds)]
  BY <1>6, <1>3 DEF TablesInv, Stored
<1>5. Stored'
  BY <1>4 DEF Ingest, TablesInv, Stored
<1> QED BY <1>5, StaysStored DEF Ingest

LEMMA AnalysedStays ==
    ASSUME TablesInv, NEW s \in Symbol, NEW id \in Id, Analysed(s, id)
    PROVE  /\ analyses' \in Seq(StoredAnalysis) /\ DOMAIN analyses \subseteq DOMAIN analyses'
           /\ \A i \in DOMAIN analyses : analyses'[i].bar = analyses[i].bar
                                         /\ analyses'[i].symbol = analyses[i].symbol
<1>1. PICK lean \in Actions, vetoed \in BOOLEAN : \E bar, found :
         /\ bar = Len(candles[s]) /\ bar > 0
         /\ found = [symbol |-> s, bar |-> bar, lean |-> lean,
                     action |-> IF vetoed THEN "flat" ELSE lean]
         /\ \/ /\ id \in DOMAIN analyses
               /\ analyses[id] = [found EXCEPT !.action = analyses[id].action]
               /\ analyses' = [analyses EXCEPT ![id] = found]
            \/ /\ id = Len(analyses) + 1 /\ id <= MaxRows
               /\ analyses' = Append(analyses, found)
  BY DEF Analysed
<1>6. PICK bar, found :
         /\ bar = Len(candles[s]) /\ bar > 0
         /\ found = [symbol |-> s, bar |-> bar, lean |-> lean,
                     action |-> IF vetoed THEN "flat" ELSE lean]
         /\ \/ /\ id \in DOMAIN analyses
               /\ analyses[id] = [found EXCEPT !.action = analyses[id].action]
               /\ analyses' = [analyses EXCEPT ![id] = found]
            \/ /\ id = Len(analyses) + 1 /\ id <= MaxRows
               /\ analyses' = Append(analyses, found)
  BY <1>1
<1>2. found \in StoredAnalysis
  BY <1>6 DEF TablesInv, Stored, StoredAnalysis
<1>3. analyses \in Seq(StoredAnalysis) /\ DOMAIN analyses = 1..Len(analyses)
  BY DEF TablesInv, Stored
<1>4. CASE id \in DOMAIN analyses /\ analyses[id] = [found EXCEPT !.action = analyses[id].action]
           /\ analyses' = [analyses EXCEPT ![id] = found]
  <2>1. analyses[id].bar = found.bar /\ analyses[id].symbol = found.symbol
    BY <1>6, <1>4
  <2>2. analyses' \in Seq(StoredAnalysis)
    BY <1>2, <1>3, <1>4
  <2> QED BY <1>4, <2>1, <2>2
<1>5. CASE id = Len(analyses) + 1 /\ analyses' = Append(analyses, found)
  BY <1>2, <1>3, <1>5
<1> QED BY <1>6, <1>4, <1>5

LEMMA DeskStays == TablesInv /\ DeskWrites => TablesInv'
<1> SUFFICES ASSUME TablesInv, NEW s \in Symbol, Ingest(s) \/ Analyse(s) \/ PaperRun(s),
                    UNCHANGED <<universeVars, tables, job, walked>>
             PROVE  TablesInv'
  BY DEF DeskWrites
<1>1. now' = now
  BY DEF universeVars
<1>2. CASE Ingest(s)
  BY <1>1, <1>2, IngestStays
<1>3. ASSUME NEW id \in Id, Analysed(s, id) PROVE TablesInv'
  <2>1. Stored'
    BY <1>1, <1>3, AnalysedStays DEF TablesInv, Stored, Analysed
  <2> QED BY <1>3, <2>1, AnalysedStays, StaysStored
<1> QED BY <1>2, <1>3 DEF Analyse, PaperRun

LEMMA WalksStays == TablesInv /\ Walks => TablesInv'
<1> SUFFICES ASSUME TablesInv, Walks PROVE TablesInv'
  OBVIOUS
<1>1. /\ DOMAIN job' = {"pc", "at", "rows", "todo", "calls", "hand"}
      /\ job'.at = now /\ job'.rows = build_track(now) /\ job'.todo = {} /\ job'.hand = <<>>
  BY DEF Walks, Resting
<1>2. UNCHANGED <<now, candles, analyses, track, verdicts>>
  BY DEF Walks, universeVars, inputs, tables
<1>3. \A r \in build_track(now) : RowFits(r)
  BY WalkFound DEF build_track, TablesInv, Stored
<1>4. Stored'
  BY <1>1, <1>2 DEF TablesInv, Stored
<1>5. \A r : RowFits(r)' <=> RowFits(r)
  BY <1>2 DEF RowFits
<1>6. RowsFit'
  BY <1>1, <1>2, <1>3, <1>5 DEF TablesInv, RowsFit
<1>7. OnTime(job.hand)' /\ OnTime(verdicts)'
  BY <1>1, <1>2 DEF TablesInv, OnTime
<1> QED BY <1>4, <1>6, <1>7 DEF TablesInv

LEMMA SyncsStays == TablesInv /\ Syncs => TablesInv'
<1> SUFFICES ASSUME TablesInv, Syncs PROVE TablesInv'
  OBVIOUS
<1> DEFINE unjudged == {r \in job.rows : r.id \notin DOMAIN verdicts}
           late == {r \in unjudged : ~on_time(r.entry, job.at)}
<1>1. /\ DOMAIN job' = {"pc", "at", "rows", "todo", "calls", "hand"}
      /\ job'.at = job.at /\ job'.rows = job.rows /\ job'.todo = unjudged \ late
      /\ job'.hand = [id \in Ids(late) |-> Verdict("late")]
  BY DEF Syncs, TablesInv, Stored
<1>2. UNCHANGED <<now, candles, analyses, verdicts>> /\ track' = Cached(job.rows)
  BY DEF Syncs, universeVars, inputs
<1>3. Stored'
  BY <1>1, <1>2 DEF TablesInv, Stored
<1>4. \A r : RowFits(r)' <=> RowFits(r)
  BY <1>2 DEF RowFits
<1>5. \A id \in DOMAIN track' : RowFits(track'[id]) /\ track'[id].id = id
  BY <1>2, Picked DEF Cached, Over, TablesInv, RowsFit
<1>6. \A r \in job'.todo : RowFits(r) /\ on_time(r.entry, job.at)
  BY <1>1 DEF TablesInv, RowsFit
<1>7. RowsFit'
  BY <1>1, <1>4, <1>5, <1>6 DEF TablesInv, RowsFit, on_time
<1>8. OnTime(job.hand)'
  <2>1. \A id \in Ids(late) : id \in DOMAIN analyses
    BY DEF Ids, TablesInv, RowsFit, RowFits
  <2>2. Verdict("late").value = "late" /\ Verdict("late").at \in Nat
    BY DEF Verdict, TablesInv, Stored
  <2> QED BY <1>1, <1>2, <2>1, <2>2 DEF OnTime
<1>9. OnTime(verdicts)'
  BY <1>2 DEF TablesInv, OnTime
<1> QED BY <1>3, <1>7, <1>8, <1>9 DEF TablesInv

LEMMA AsksStays == TablesInv /\ Asks => TablesInv'
<1> SUFFICES ASSUME TablesInv, NEW r \in job.todo, NEW answer \in Answers,
                    job' = [job EXCEPT !.calls = @ + 1, !.todo = @ \ {r},
                                !.hand = IF answer = "none" THEN @
                                         ELSE Over([id \in {r.id} |-> Verdict(answer)], @)],
                    UNCHANGED <<universeVars, inputs, tables, history>>
             PROVE  TablesInv'
  BY DEF Asks
<1>1. /\ DOMAIN job' = {"pc", "at", "rows", "todo", "calls", "hand"}
      /\ job'.at = job.at /\ job'.rows = job.rows /\ job'.todo = job.todo \ {r}
      /\ job'.hand = IF answer = "none" THEN job.hand ELSE Over([id \in {r.id} |-> Verdict(answer)], job.hand)
  BY DEF TablesInv, Stored
<1>2. UNCHANGED <<now, candles, analyses, track, verdicts>>
  BY DEF universeVars, inputs, tables
<1>3. Stored'
  BY <1>1, <1>2 DEF TablesInv, Stored
<1>4. \A q : RowFits(q)' <=> RowFits(q)
  BY <1>2 DEF RowFits
<1>5. RowsFit'
  BY <1>1, <1>2, <1>4 DEF TablesInv, RowsFit, on_time
<1>6. OnTime([id \in {r.id} |-> Verdict(answer)])
  <2>1. RowFits(r) /\ on_time(r.entry, job.at)
    BY DEF TablesInv, RowsFit
  <2>2. Verdict(answer).at = job.at /\ job.at \in Nat
    BY DEF Verdict, TablesInv, Stored
  <2>3. on_time(analyses[r.id].bar, Verdict(answer).at)
    BY <2>1, <2>2 DEF RowFits
  <2> QED BY <2>1, <2>2, <2>3 DEF OnTime, RowFits
<1>7. OnTime(job'.hand)
  BY <1>1, <1>6, OnTimeOver DEF TablesInv
<1>8. OnTime(job.hand)' /\ OnTime(verdicts)'
  BY <1>2, <1>7 DEF TablesInv, OnTime
<1> QED BY <1>3, <1>5, <1>8 DEF TablesInv

\* The job rests again, and the verdicts are what they were or what it has in hand too.
LEMMA RestsStays ==
    ASSUME TablesInv, job' = Resting, verdicts' \in {verdicts, Over(job.hand, verdicts)},
           UNCHANGED <<universeVars, inputs, track>>
    PROVE  TablesInv'
<1>1. /\ DOMAIN job' = {"pc", "at", "rows", "todo", "calls", "hand"}
      /\ job'.at = 0 /\ job'.rows = {} /\ job'.todo = {} /\ DOMAIN job'.hand = {}
  BY DEF Resting
<1>2. UNCHANGED <<now, candles, analyses, track>>
  BY DEF universeVars, inputs
<1>3. Stored'
  BY <1>1, <1>2 DEF TablesInv, Stored
<1>4. \A r : RowFits(r)' <=> RowFits(r)
  BY <1>2 DEF RowFits
<1>5. RowsFit'
  BY <1>1, <1>2, <1>4 DEF TablesInv, RowsFit
<1>6. OnTime(verdicts')
  BY OnTimeOver DEF TablesInv
<1>7. OnTime(job.hand)' /\ OnTime(verdicts)'
  BY <1>1, <1>2, <1>6 DEF OnTime
<1> QED BY <1>3, <1>5, <1>7 DEF TablesInv

LEMMA TablesNext == TablesInv /\ [Next]_vars => TablesInv'
<1> SUFFICES ASSUME TablesInv, [Next]_vars PROVE TablesInv'
  OBVIOUS
<1>1. ASSUME now' \in Nat, UNCHANGED <<candles, analyses, tables, job>> PROVE TablesInv'
  <2>1. Stored'
    BY <1>1 DEF TablesInv, Stored
  <2> QED BY <1>1, <2>1, StaysStored
<1>2. CASE Walks
  BY <1>2, WalksStays
<1>3. CASE Syncs
  BY <1>3, SyncsStays
<1>4. CASE Asks
  BY <1>4, AsksStays
<1>5. CASE Commits
  BY <1>5, RestsStays DEF Commits
<1>6. CASE Dies
  BY <1>6, RestsStays DEF Dies, tables
<1>7. CASE TimePasses
  BY <1>1, <1>7 DEF TimePasses, Tick, inputs, TablesInv, Stored
<1>8. CASE DeskWrites
  BY <1>8, DeskStays
<1>9. CASE EditUniverse
  <2>1. now' = now
    BY <1>9 DEF EditUniverse, Seeds, Resets, Enlists, Delists, Edit
  <2> QED BY <1>1, <1>9, <2>1 DEF EditUniverse, inputs, TablesInv, Stored
<1>10. CASE UNCHANGED vars
  BY <1>1, <1>10 DEF vars, universeVars, inputs, TablesInv, Stored
<1> QED BY <1>2, <1>3, <1>4, <1>5, <1>6, <1>7, <1>8, <1>9, <1>10 DEF Next, JobStep

LEMMA Later ==
    ASSUME NEW n \in Nat, NEW m \in Nat, n < m
    PROVE  OpenOf(n) + 2 * Width <= CloseOf(m)
<1>1. PICK d \in Nat : m = (n + 1) + d
  BY m - (n + 1) \in Nat
<1>2. CloseOf(m) = n * Width + Width + d * Width
  BY <1>1, TrackAssumption DEF CloseOf
<1>3. OpenOf(n) = n * Width - Width
  BY TrackAssumption DEF OpenOf
<1>4. d * Width \in Nat /\ n * Width \in Nat
  BY TrackAssumption
<1> QED BY <1>2, <1>3, <1>4, TrackAssumption

-----------------------------------------------------------------------------
(* The table is what the walk returns.  A symbol whose past has only grown *)
(* keeps its rows: what a walk named, every later walk names again.        *)

Of(s) == {id \in DOMAIN analyses : analyses[id].symbol = s}

Kept(s) ==
    /\ DOMAIN track \cap Of(s) \subseteq Ids(Walk(s, walked))
    /\ Ids(job.rows) \cap Of(s) \subseteq Ids(Walk(s, walked))
    /\ job.pc = "sync" => DOMAIN track \cap Of(s) \subseteq Ids(job.rows)
    /\ job.pc = "ask" => DOMAIN track \cap Of(s) = Ids(job.rows) \cap Of(s)
                         /\ \A id \in DOMAIN track \cap Of(s) : track[id] \in job.rows

OneRowEach == \A r, q \in job.rows : r.id = q.id => r = q

KeptInv == TablesInv /\ walked \in Nat /\ OneRowEach /\ \A s \in Symbol \ revised : Kept(s)

LEMMA PrefixIs ==
    ASSUME NEW S, NEW T, NEW short \in Seq(S), NEW long \in Seq(T), IsPrefix(short, long)
    PROVE  Len(short) <= Len(long) /\ \A n \in 1..Len(short) : long[n] = short[n]
<1>1. Len(short) \in Nat /\ Len(long) \in Nat /\ Len(short) <= Len(long)
  BY DEF IsPrefix
<1>2. SubSeq(short, 1, Len(short)) = SubSeq(long, 1, Len(short))
  BY DEF IsPrefix
<1>3. \A n \in 1..Len(short) : SubSeq(short, 1, Len(short))[n] = short[n]
  BY <1>1, SubSeqProperties
<1>4. \A n \in 1..Len(short) : SubSeq(long, 1, Len(short))[n] = long[n]
  BY <1>1, SubSeqProperties
<1> QED BY <1>1, <1>2, <1>3, <1>4

\* What a walk finds and what a longer one finds.
Lengthens(rows, more) == Ids(rows) \subseteq Ids(more) /\ \A r \in rows : r.exit # 0 => r \in more

\* A walk over more of the same names all that the shorter one names, and has what that
\* one has closed.
LEMMA LongerNames ==
    ASSUME NEW kinds, NEW more, NEW basis, NEW longer, Named(basis), Named(longer),
           NEW S, NEW T, basis \in Seq(S), longer \in Seq(T), IsPrefix(basis, longer),
           \A n \in 1..Len(basis) : more[n] = kinds[n]
    PROVE  Lengthens(Found(Steps(kinds, basis)[Len(basis)]),
                     Found(Steps(more, longer)[Len(longer)]))
<1>1. Len(basis) \in Nat /\ Len(longer) \in Nat /\ Len(basis) <= Len(longer)
      /\ \A n \in 1..Len(basis) : longer[n] = basis[n]
  BY PrefixIs DEF Named
<1>2. Steps(more, longer)[Len(basis)] = Steps(kinds, basis)[Len(basis)]
  BY <1>1, SameSteps
<1>3. Grows(Steps(more, longer)[Len(basis)], Steps(more, longer)[Len(longer)])
  BY <1>1, StepsFit
<1>4. PICK v, w : v = Steps(kinds, basis)[Len(basis)] /\ w = Steps(more, longer)[Len(longer)]
  OBVIOUS
<1>5. WalkFits(basis, v, Len(basis)) /\ Grows(v, w)
  BY <1>1, <1>2, <1>3, <1>4, StepsFit
<1>6. Lengthens(Found(v), Found(w))
  BY <1>5 DEF Lengthens, Grows, WalkFits, Found
<1> QED BY <1>4, <1>6

LEMMA WalksGoBy ==
    Stored => \A s \in Symbol, at \in Nat :
                 /\ Named(Basis(s, at)) /\ \E S : Basis(s, at) \in Seq(S)
                 /\ Len(Basis(s, at)) <= Len(candles[s])
BY BasisNamed

LEMMA WalksGoByNext ==
    Stored' => (\A s \in Symbol, at \in Nat :
                 /\ Named(Basis(s, at)) /\ \E S : Basis(s, at) \in Seq(S)
                 /\ Len(Basis(s, at)) <= Len(candles[s]))'
BY WalksGoBy, PTL

\* So it is from one state to the next, for a symbol that is not revised.
LEMMA NamesStay ==
    ASSUME Stored, Stored', walked \in Nat, walked' \in Nat, Revises,
           NEW s \in Symbol \ revised',
           \A n \in 1..Len(candles[s]) : candles'[s][n] = candles[s][n]
    PROVE  s \in Symbol \ revised /\ Lengthens(Walk(s, walked), Walk(s, walked)')
<1>1. s \in Symbol \ revised /\ IsPrefix(Basis(s, walked), Basis(s, walked)')
  BY DEF Revises
<1>2. /\ Named(Basis(s, walked)) /\ \E S : Basis(s, walked) \in Seq(S)
      /\ Len(Basis(s, walked)) <= Len(candles[s])
  BY WalksGoBy
<1>4. Named(Basis(s, walked)') /\ \E S : Basis(s, walked)' \in Seq(S)
  BY WalksGoByNext
<1>5. PICK kinds, more, basis, longer :
         /\ kinds = candles[s] /\ more = candles'[s]
         /\ basis = Basis(s, walked) /\ longer = Basis(s, walked)'
  OBVIOUS
<1>6. \A n \in 1..Len(basis) : more[n] = kinds[n]
  <2>1. Len(kinds) \in Nat /\ Len(basis) \in Nat /\ Len(basis) <= Len(kinds)
    BY <1>2, <1>5 DEF Stored, Named
  <2>2. 1..Len(basis) \subseteq 1..Len(kinds)
    BY <2>1
  <2> QED BY <1>5, <2>2
<1>7. Lengthens(Found(Steps(kinds, basis)[Len(basis)]), Found(Steps(more, longer)[Len(longer)]))
  <2>1. Named(basis) /\ Named(longer) /\ IsPrefix(basis, longer)
    BY <1>1, <1>2, <1>4, <1>5
  <2>2. PICK S : basis \in Seq(S)
    BY <1>2, <1>5
  <2>3. PICK T : longer \in Seq(T)
    BY <1>4, <1>5
  <2> QED BY <1>6, <2>1, <2>2, <2>3, LongerNames
<1>8. Walk(s, walked) = Found(Steps(kinds, basis)[Len(basis)])
  BY <1>5 DEF Walk
<1>9. Walk(s, walked)' = Found(Steps(more, longer)[Len(longer)])
  BY <1>5 DEF Walk
<1> QED BY <1>1, <1>7, <1>8, <1>9

LEMMA KeptInit == TrackInit => KeptInv
<1> SUFFICES ASSUME TrackInit PROVE KeptInv
  OBVIOUS
<1>1. track = <<>> /\ job.rows = {} /\ job.pc = "rest" /\ walked = 0
  BY DEF TrackInit, Resting
<1>2. DOMAIN track = {} /\ Ids(job.rows) = {}
  BY <1>1 DEF Ids
<1>3. \A s \in Symbol : Kept(s)
  BY <1>1, <1>2 DEF Kept
<1> QED BY <1>1, <1>3, TablesInit DEF KeptInv, OneRowEach

\* What is found for a symbol is of that symbol, so that no two symbols share a row.
LEMMA WalksFound ==
    ASSUME Stored, NEW at \in Nat, NEW rows, rows = build_track(at)
    PROVE  /\ \A s \in Symbol : Ids(rows) \cap Of(s) = Ids(Walk(s, at))
           /\ \A r, q \in rows : r.id = q.id => r = q
<1>1. \A r \in rows : \E s \in Symbol : r \in Walk(s, at)
  BY DEF build_track
<1>2. \A s \in Symbol : Walk(s, at) \subseteq rows
  BY DEF build_track
<1>3. \A s \in Symbol : \A r \in Walk(s, at) : r.id \in Of(s)
  BY WalkFound DEF RowFits, Of
<1>4. \A s, t : \A id : id \in Of(s) /\ id \in Of(t) => s = t
  BY DEF Of
<1>5. ASSUME NEW s \in Symbol PROVE Ids(rows) \cap Of(s) = Ids(Walk(s, at))
  BY <1>1, <1>2, <1>3, <1>4 DEF Ids
<1>6. ASSUME NEW r \in rows, NEW q \in rows, r.id = q.id PROVE r = q
  <2>1. PICK s \in Symbol : r \in Walk(s, at)
    BY <1>1
  <2>2. PICK t \in Symbol : q \in Walk(t, at)
    BY <1>1
  <2>3. s = t
    BY <1>3, <1>4, <1>6, <2>1, <2>2
  <2> QED BY <1>6, <2>1, <2>2, <2>3, WalkFound
<1> QED BY <1>5, <1>6

LEMMA WalksKeeps == KeptInv /\ Walks => KeptInv'
<1> SUFFICES ASSUME KeptInv, Walks PROVE KeptInv'
  OBVIOUS
<1>0. TablesInv' /\ Stored /\ Stored' /\ walked \in Nat /\ now \in Nat /\ walked' = now
  BY WalksStays DEF KeptInv, TablesInv, Stored, Walks
<1>1. job'.rows = build_track(now) /\ job'.pc = "sync"
  BY DEF Walks, Resting
<1>2. UNCHANGED <<membership, candles, analyses, pending, decided, track>>
  BY DEF Walks, universeVars, inputs, tables
<1>3. OneRowEach'
  BY <1>0, <1>1, WalksFound DEF OneRowEach
<1>4. ASSUME NEW s \in Symbol \ revised' PROVE Kept(s)'
  <2>1. s \in Symbol \ revised /\ Ids(Walk(s, walked)) \subseteq Ids(Walk(s, walked)')
    BY <1>0, <1>2, NamesStay DEF Walks, Lengthens
  <2>2. Kept(s)
    BY <2>1 DEF KeptInv
  <2>3. Walk(s, walked)' = Walk(s, now)
    BY <1>0, <1>2 DEF Walk, Basis, Closed, _choose_analysis, Says
  <2>4. Of(s)' = Of(s)
    BY <1>2 DEF Of
  <2>5. Ids(job'.rows) \cap Of(s) = Ids(Walk(s, now))
    BY <1>0, <1>1, WalksFound
  <2>6. DOMAIN track \cap Of(s) \subseteq Ids(Walk(s, now))
    BY <2>1, <2>2, <2>3 DEF Kept
  <2>7. DOMAIN track \cap Of(s) \subseteq Ids(job'.rows)
    BY <2>5, <2>6
  <2>8. Ids(job.rows)' = Ids(job'.rows)
    BY DEF Ids
  <2> QED BY <1>1, <1>2, <2>3, <2>4, <2>5, <2>6, <2>7, <2>8 DEF Kept
<1> QED BY <1>0, <1>3, <1>4 DEF KeptInv

LEMMA SyncsKeeps == KeptInv /\ Syncs => KeptInv'
<1> SUFFICES ASSUME KeptInv, Syncs PROVE KeptInv'
  OBVIOUS
<1>0. TablesInv' /\ DOMAIN job = {"pc", "at", "rows", "todo", "calls", "hand"}
  BY SyncsStays DEF KeptInv, TablesInv, Stored
<1>1. job.pc = "sync" /\ job'.pc = "ask" /\ job'.rows = job.rows
  BY <1>0 DEF Syncs
<1>2. /\ UNCHANGED <<membership, candles, analyses, pending, decided, walked, revised>>
      /\ track' = Cached(job.rows)
  BY DEF Syncs, universeVars, inputs, history
<1>3. /\ DOMAIN track' = DOMAIN track \cup Ids(job.rows)
      /\ \A id \in Ids(job.rows) : track'[id] = RowOf(job.rows, id)
  BY <1>2 DEF Cached, Over
<1>4. ASSUME NEW s \in Symbol \ revised PROVE Kept(s)'
  <2>1. Kept(s)
    BY <1>4 DEF KeptInv
  <2>2. Walk(s, walked)' = Walk(s, walked) /\ Of(s)' = Of(s) /\ Ids(job.rows)' = Ids(job.rows)
    BY <1>1, <1>2 DEF Walk, Basis, Closed, _choose_analysis, Says, Of, Ids
  <2>3. DOMAIN track' \cap Of(s) = Ids(job.rows) \cap Of(s)
    BY <1>1, <1>3, <2>1 DEF Kept
  <2>4. \A id \in DOMAIN track' \cap Of(s) : track'[id] \in job.rows
    BY <1>3, <2>3, Picked
  <2> QED BY <1>1, <1>2, <2>1, <2>2, <2>3, <2>4 DEF Kept
<1>5. OneRowEach'
  BY <1>1 DEF KeptInv, OneRowEach
<1> QED BY <1>0, <1>2, <1>4, <1>5 DEF KeptInv

LEMMA AsksKeeps == KeptInv /\ Asks => KeptInv'
<1> SUFFICES ASSUME KeptInv, Asks PROVE KeptInv'
  OBVIOUS
<1>0. TablesInv' /\ DOMAIN job = {"pc", "at", "rows", "todo", "calls", "hand"}
  BY AsksStays DEF KeptInv, TablesInv, Stored
<1>1. job'.pc = job.pc /\ job'.rows = job.rows
  BY <1>0 DEF Asks
<1>2. UNCHANGED <<membership, candles, analyses, pending, decided, walked, revised, track>>
  BY DEF Asks, universeVars, inputs, tables, history
<1>3. ASSUME NEW s \in Symbol \ revised PROVE Kept(s)'
  <2>1. Kept(s)
    BY <1>3 DEF KeptInv
  <2>2. Walk(s, walked)' = Walk(s, walked) /\ Of(s)' = Of(s) /\ Ids(job.rows)' = Ids(job.rows)
    BY <1>1, <1>2 DEF Walk, Basis, Closed, _choose_analysis, Says, Of, Ids
  <2> QED BY <1>1, <1>2, <2>1, <2>2 DEF Kept
<1>4. OneRowEach'
  BY <1>1 DEF KeptInv, OneRowEach
<1> QED BY <1>0, <1>2, <1>3, <1>4 DEF KeptInv

LEMMA RestsKeeps == KeptInv /\ (Commits \/ Dies) => KeptInv'
<1> SUFFICES ASSUME KeptInv, Commits \/ Dies PROVE KeptInv'
  OBVIOUS
<1>0. TablesInv'
  BY RestsStays DEF KeptInv, Commits, Dies, tables
<1>1. job'.pc = "rest" /\ job'.rows = {}
  BY DEF Commits, Dies, Resting
<1>2. UNCHANGED <<membership, candles, analyses, pending, decided, walked, revised, track>>
  BY DEF Commits, Dies, universeVars, inputs, tables, history
<1>3. ASSUME NEW s \in Symbol \ revised PROVE Kept(s)'
  <2>1. Kept(s)
    BY <1>3 DEF KeptInv
  <2>2. Walk(s, walked)' = Walk(s, walked) /\ Of(s)' = Of(s) /\ Ids(job.rows)' = {}
    BY <1>1, <1>2 DEF Walk, Basis, Closed, _choose_analysis, Says, Of, Ids
  <2> QED BY <1>1, <1>2, <2>1, <2>2 DEF Kept
<1>4. OneRowEach'
  BY <1>1 DEF OneRowEach
<1> QED BY <1>0, <1>2, <1>3, <1>4 DEF KeptInv

\* Those who write what the walk reads leave what was found where it was.
LEMMA WritersKeep ==
    ASSUME KeptInv, TablesInv', Revises, UNCHANGED <<tables, job, walked>>,
           DOMAIN analyses \subseteq DOMAIN analyses',
           \A id \in DOMAIN analyses : analyses'[id].symbol = analyses[id].symbol,
           \A s \in Symbol : \A n \in 1..Len(candles[s]) : candles'[s][n] = candles[s][n]
    PROVE  KeptInv'
<1>1. \A id \in DOMAIN track : id \in DOMAIN analyses
  BY DEF KeptInv, TablesInv, RowsFit, RowFits
<1>2. \A id \in Ids(job.rows) : id \in DOMAIN analyses
  BY DEF KeptInv, TablesInv, RowsFit, RowFits, Ids
<1>3. ASSUME NEW s \in Symbol \ revised' PROVE Kept(s)'
  <2>1. s \in Symbol \ revised /\ Ids(Walk(s, walked)) \subseteq Ids(Walk(s, walked)')
    BY NamesStay DEF KeptInv, TablesInv, Lengthens
  <2>2. Kept(s)
    BY <2>1 DEF KeptInv
  <2>3. DOMAIN track \cap Of(s)' = DOMAIN track \cap Of(s)
    BY <1>1 DEF Of
  <2>4. Ids(job.rows) \cap Of(s)' = Ids(job.rows) \cap Of(s)
    BY <1>2 DEF Of
  <2>5. track' = track /\ job' = job /\ Ids(job.rows)' = Ids(job.rows)
    BY DEF tables, Ids
  <2> QED BY <2>1, <2>2, <2>3, <2>4, <2>5 DEF Kept
<1>4. OneRowEach' /\ walked' \in Nat
  BY DEF KeptInv, OneRowEach
<1> QED BY <1>3, <1>4 DEF KeptInv

LEMMA IngestLengthens ==
    ASSUME Stored, NEW s \in Symbol, Ingest(s)
    PROVE  \A r \in Symbol : \A n \in 1..Len(candles[r]) : candles'[r][n] = candles[r][n]
<1>1. PICK new : \E bars \in [1..new -> Kinds] : candles' = [candles EXCEPT ![s] = @ \o bars]
  BY DEF Ingest
<1>2. PICK bars \in [1..new -> Kinds] : candles' = [candles EXCEPT ![s] = @ \o bars]
  BY <1>1
<1>3. \A r \in Symbol : candles'[r] = IF r = s THEN candles[r] \o bars ELSE candles[r]
  BY <1>2 DEF Stored
<1>4. candles[s] \in Seq(Kinds)
  BY DEF Stored
<1>5. \A n \in 1..Len(candles[s]) : (candles[s] \o bars)[n] = candles[s][n]
  BY <1>4
<1> QED BY <1>3, <1>5

LEMMA DeskKeeps == KeptInv /\ DeskWrites => KeptInv'
<1> SUFFICES ASSUME KeptInv, DeskWrites PROVE KeptInv'
  OBVIOUS
<1>1. PICK s \in Symbol : Ingest(s) \/ Analyse(s) \/ PaperRun(s)
  BY DEF DeskWrites
<1>2. TablesInv' /\ UNCHANGED <<tables, job, walked>> /\ Revises
  BY DeskStays DEF KeptInv, DeskWrites
<1>3. CASE Ingest(s)
  <2>1. analyses' = analyses
    BY <1>3 DEF Ingest
  <2> QED BY <1>2, <1>3, <2>1, IngestLengthens, WritersKeep DEF KeptInv, TablesInv
<1>4. ASSUME NEW id \in Id, Analysed(s, id) PROVE KeptInv'
  <2>1. candles' = candles
    BY <1>4 DEF Analysed
  <2> QED BY <1>2, <1>4, <2>1, AnalysedStays, WritersKeep DEF KeptInv
<1> QED BY <1>1, <1>3, <1>4 DEF Analyse, PaperRun

LEMMA KeptNext == KeptInv /\ [Next]_vars => KeptInv'
<1> SUFFICES ASSUME KeptInv, [Next]_vars PROVE KeptInv'
  OBVIOUS
<1>0. TablesInv'
  BY TablesNext DEF KeptInv
<1>1. CASE EditUniverse
  BY <1>0, <1>1, WritersKeep DEF EditUniverse, inputs
<1>2. CASE UNCHANGED <<membership, inputs, tables, job, history>>
  <2>1. /\ UNCHANGED <<membership, candles, analyses, pending, decided, walked, revised, track, job>>
    BY <1>2 DEF inputs, tables, history
  <2>2. \A s \in Symbol : Kept(s)' = Kept(s)
    BY <2>1 DEF Kept, Walk, Basis, Closed, _choose_analysis, Says, Of, Ids
  <2> QED BY <1>0, <2>1, <2>2 DEF KeptInv, OneRowEach
<1>3. CASE TimePasses
  BY <1>2, <1>3 DEF TimePasses, Tick
<1>4. CASE UNCHANGED vars
  BY <1>2, <1>4 DEF vars, universeVars
<1> QED BY <1>1, <1>3, <1>4, WalksKeeps, SyncsKeeps, AsksKeeps, RestsKeeps, DeskKeeps
        DEF Next, JobStep

LEMMA KeptIsWalk == KeptInv => TrackIsWalk
<1> SUFFICES ASSUME KeptInv, job.pc = "ask", NEW s \in Symbol \ revised
             PROVE  {track[id] : id \in {i \in DOMAIN track : analyses[i].symbol = s}}
                       = {r \in job.rows : analyses[r.id].symbol = s}
  BY DEF TrackIsWalk
<1>1. /\ DOMAIN track \cap Of(s) = Ids(job.rows) \cap Of(s)
      /\ \A id \in DOMAIN track \cap Of(s) : track[id] \in job.rows
  BY DEF KeptInv, Kept
<1>2. \A id \in DOMAIN track : id \in DOMAIN analyses /\ track[id].id = id
  BY DEF KeptInv, TablesInv, RowsFit, RowFits
<1>3. \A r \in job.rows : r.id \in DOMAIN analyses
  BY DEF KeptInv, TablesInv, RowsFit, RowFits
<1>4. \A id \in DOMAIN track : analyses[id].symbol = s => id \in DOMAIN track \cap Of(s)
  BY <1>2 DEF Of
<1>5. ASSUME NEW r \in job.rows, analyses[r.id].symbol = s
      PROVE  r.id \in DOMAIN track /\ track[r.id] = r
  <2>1. r.id \in DOMAIN track \cap Of(s)
    BY <1>1, <1>3, <1>5 DEF Ids, Of
  <2>2. track[r.id] \in job.rows /\ track[r.id].id = r.id
    BY <1>1, <1>2, <2>1
  <2> QED BY <2>1, <2>2 DEF KeptInv, OneRowEach
<1>6. \A id \in DOMAIN track : analyses[id].symbol = s =>
         track[id] \in job.rows /\ analyses[track[id].id].symbol = s
  BY <1>1, <1>2, <1>4
<1> QED BY <1>5, <1>6

\* The table that one run after another has written is what the walk of the last one
\* found, for every symbol whose past was only added to: an entry is never named and
\* then not named again, and what was closed is written over with the same
\* (shadow_track.py, build_track and sync_track).
THEOREM TableIsWalk == Spec => []TrackIsWalk
BY KeptInit, KeptNext, KeptIsWalk, PTL DEF Spec

-----------------------------------------------------------------------------
(* What is scored stands.  What the table has closed the walk of the last  *)
(* run had closed too, and every later walk of a past that only grew has   *)
(* it still; what is closed has closed by then; and the job has no verdict *)
(* in hand, or to ask for, that the table has already.                     *)

ClosedBy(r) == r.exit = 0 \/ CloseOf(r.exit) <= walked

\* For a symbol that is not revised: what is closed is what the walk has closed.
Settled(s) ==
    /\ \A id \in DOMAIN track \cap Of(s) :
          track[id].exit # 0 => /\ track[id] \in Walk(s, walked)
                                /\ job.pc = "sync" => track[id] \in job.rows
    /\ \A r \in job.rows : r.id \in Of(s) /\ r.exit # 0 => r \in Walk(s, walked)

\* A run works at the instant of the last walk, and its verdicts are new ones.
Clocked ==
    /\ walked <= now
    /\ job.pc # "rest" => job.at = walked
    /\ \A r \in job.rows : ClosedBy(r)
    /\ \A id \in DOMAIN track : ClosedBy(track[id])

NewVerdicts ==
    /\ \A id \in DOMAIN job.hand : id \notin DOMAIN verdicts /\ job.hand[id].at = job.at
    /\ \A r \in job.todo : r.id \notin DOMAIN verdicts

ScoreInv == KeptInv /\ Clocked /\ NewVerdicts /\ \A s \in Symbol \ revised : Settled(s)

LEMMA ScoreInit == TrackInit => ScoreInv
<1> SUFFICES ASSUME TrackInit PROVE ScoreInv
  OBVIOUS
<1>1. /\ track = <<>> /\ verdicts = <<>> /\ now = 0 /\ walked = 0
      /\ job.pc = "rest" /\ job.rows = {} /\ job.todo = {} /\ job.hand = <<>>
  BY DEF TrackInit, Init, Resting
<1>2. DOMAIN track = {} /\ DOMAIN job.hand = {}
  BY <1>1
<1>3. Clocked /\ NewVerdicts /\ \A s \in Symbol : Settled(s)
  BY <1>1, <1>2 DEF Clocked, NewVerdicts, Settled
<1> QED BY <1>3, KeptInit DEF ScoreInv

LEMMA WalksSettles == ScoreInv /\ Walks => ScoreInv'
<1> SUFFICES ASSUME ScoreInv, Walks PROVE ScoreInv'
  OBVIOUS
<1>0. KeptInv' /\ Stored /\ Stored' /\ walked \in Nat /\ now \in Nat /\ walked' = now
  BY WalksKeeps, WalksStays DEF ScoreInv, KeptInv, TablesInv, Stored, Walks
<1>1. /\ job'.rows = build_track(now) /\ job'.pc = "sync" /\ job'.at = now
      /\ job'.todo = {} /\ job'.hand = <<>>
  BY DEF Walks, Resting
<1>2. UNCHANGED <<now, membership, candles, analyses, pending, decided, track, verdicts>>
  BY DEF Walks, universeVars, inputs, tables
<1>3. ASSUME NEW r, ClosedBy(r), r.exit \in Nat PROVE ClosedBy(r)'
  <2>1. CloseOf(r.exit) \in Nat /\ walked <= now
    BY <1>3, TrackAssumption DEF CloseOf, ScoreInv, Clocked
  <2> QED BY <1>0, <1>3, <2>1 DEF ClosedBy
<1>4. \A r \in job'.rows : ClosedBy(r)'
  BY <1>0, <1>1, WalkFound DEF build_track, ClosedBy
<1>5. \A id \in DOMAIN track : ClosedBy(track[id])'
  <2>1. \A id \in DOMAIN track : ClosedBy(track[id]) /\ track[id].exit \in Nat
    BY DEF ScoreInv, Clocked, KeptInv, TablesInv, RowsFit, RowFits
  <2>2. \A r : ClosedBy(r) /\ r.exit \in Nat => (r.exit = 0 \/ CloseOf(r.exit) <= now)
    BY <1>0, <1>3 DEF ClosedBy
  <2> QED BY <1>0, <1>2, <2>1, <2>2 DEF ClosedBy
<1>6. Clocked'
  BY <1>0, <1>1, <1>2, <1>4, <1>5 DEF Clocked, ClosedBy
<1>7. NewVerdicts'
  BY <1>1, <1>2 DEF NewVerdicts
<1>8. ASSUME NEW s \in Symbol \ revised' PROVE Settled(s)'
  <2>1. s \in Symbol \ revised /\ Lengthens(Walk(s, walked), Walk(s, walked)')
    BY <1>0, <1>2, NamesStay DEF Walks
  <2>2. Settled(s)
    BY <2>1 DEF ScoreInv
  <2>3. Walk(s, walked)' = Walk(s, now)
    BY <1>0, <1>2 DEF Walk, Basis, Closed, _choose_analysis, Says
  <2>4. Of(s)' = Of(s)
    BY <1>2 DEF Of
  <2>5. Walk(s, now) \subseteq job'.rows
    BY <1>1 DEF build_track
  <2>6. \A id \in DOMAIN track \cap Of(s) : track[id].exit # 0 => track[id] \in Walk(s, now)
    BY <2>1, <2>2, <2>3 DEF Settled, Lengthens
  <2>7. \A r \in job'.rows : r.id \in Of(s) => r \in Walk(s, now)
    <3> SUFFICES ASSUME NEW r \in job'.rows, r.id \in Of(s) PROVE r \in Walk(s, now)
      OBVIOUS
    <3>1. PICK t \in Symbol : r \in Walk(t, now)
      BY <1>1 DEF build_track
    <3>2. t = s
      BY <1>0, <3>1, WalkFound DEF Of
    <3> QED BY <3>1, <3>2
  <2> QED BY <1>2, <2>3, <2>4, <2>5, <2>6, <2>7 DEF Settled
<1> QED BY <1>0, <1>6, <1>7, <1>8 DEF ScoreInv

LEMMA SyncsSettles == ScoreInv /\ Syncs => ScoreInv'
<1> SUFFICES ASSUME ScoreInv, Syncs PROVE ScoreInv'
  OBVIOUS
<1> DEFINE unjudged == {r \in job.rows : r.id \notin DOMAIN verdicts}
           late == {r \in unjudged : ~on_time(r.entry, job.at)}
<1>0. KeptInv' /\ DOMAIN job = {"pc", "at", "rows", "todo", "calls", "hand"}
  BY SyncsKeeps DEF ScoreInv, KeptInv, TablesInv, Stored
<1>1. /\ job.pc = "sync" /\ job'.pc = "ask" /\ job'.rows = job.rows /\ job'.at = job.at
      /\ job'.todo = unjudged \ late
      /\ job'.hand = [id \in Ids(late) |-> Verdict("late")]
  BY <1>0 DEF Syncs
<1>2. /\ UNCHANGED <<now, membership, candles, analyses, pending, decided, verdicts, walked, revised>>
      /\ track' = Cached(job.rows)
  BY DEF Syncs, universeVars, inputs, history
<1>3. /\ DOMAIN track' = DOMAIN track \cup Ids(job.rows)
      /\ \A id \in Ids(job.rows) : track'[id] = RowOf(job.rows, id)
      /\ \A id \in DOMAIN track \ Ids(job.rows) : track'[id] = track[id]
  BY <1>2 DEF Cached, Over
<1>4. \A id \in DOMAIN track' : track'[id] \in job.rows \/ (id \in DOMAIN track /\ track'[id] = track[id])
  BY <1>3, Picked
<1>5. Clocked'
  BY <1>1, <1>2, <1>4 DEF ScoreInv, Clocked, ClosedBy
<1>6. NewVerdicts'
  <2>1. \A id \in Ids(late) : id \notin DOMAIN verdicts
    BY DEF Ids
  <2>2. Verdict("late").at = job.at
    BY DEF Verdict
  <2> QED BY <1>1, <1>2, <2>1, <2>2 DEF NewVerdicts
<1>7. ASSUME NEW s \in Symbol \ revised PROVE Settled(s)'
  <2>1. Settled(s) /\ Kept(s)
    BY <1>7 DEF ScoreInv, KeptInv
  <2>2. Walk(s, walked)' = Walk(s, walked) /\ Of(s)' = Of(s)
    BY <1>2 DEF Walk, Basis, Closed, _choose_analysis, Says, Of
  <2>3. \A id \in DOMAIN track' \cap Of(s) : track'[id] \in job.rows /\ track'[id].id = id
    BY <1>1, <1>3, <2>1, Picked DEF Kept
  <2> QED BY <1>1, <2>1, <2>2, <2>3 DEF Settled
<1> QED BY <1>0, <1>2, <1>5, <1>6, <1>7 DEF ScoreInv

LEMMA AsksSettles == ScoreInv /\ Asks => ScoreInv'
<1> SUFFICES ASSUME ScoreInv, Asks PROVE ScoreInv'
  OBVIOUS
<1>0. KeptInv' /\ DOMAIN job = {"pc", "at", "rows", "todo", "calls", "hand"}
  BY AsksKeeps DEF ScoreInv, KeptInv, TablesInv, Stored
<1>1. PICK r \in job.todo, answer \in Answers :
         job' = [job EXCEPT !.calls = @ + 1, !.todo = @ \ {r},
                            !.hand = IF answer = "none" THEN @
                                     ELSE Over([id \in {r.id} |-> Verdict(answer)], @)]
  BY DEF Asks
<1>2. /\ job'.pc = job.pc /\ job'.rows = job.rows /\ job'.at = job.at /\ job'.todo \subseteq job.todo
      /\ job'.hand = IF answer = "none" THEN job.hand
                     ELSE Over([id \in {r.id} |-> Verdict(answer)], job.hand)
  BY <1>0, <1>1
<1>3. UNCHANGED <<now, membership, candles, analyses, pending, decided, track, verdicts, walked, revised>>
  BY DEF Asks, universeVars, inputs, tables, history
<1>4. \A id \in DOMAIN job'.hand : \/ id = r.id /\ job'.hand[id].at = job.at
                                   \/ id \in DOMAIN job.hand /\ job'.hand[id] = job.hand[id]
  BY <1>2 DEF Over, Verdict
<1>5. NewVerdicts'
  BY <1>2, <1>3, <1>4 DEF ScoreInv, NewVerdicts
<1>6. Clocked'
  BY <1>2, <1>3 DEF ScoreInv, Clocked, ClosedBy
<1>7. ASSUME NEW s \in Symbol \ revised PROVE Settled(s)'
  <2>1. Settled(s)
    BY <1>7 DEF ScoreInv
  <2>2. Walk(s, walked)' = Walk(s, walked) /\ Of(s)' = Of(s)
    BY <1>3 DEF Walk, Basis, Closed, _choose_analysis, Says, Of
  <2> QED BY <1>2, <1>3, <2>1, <2>2 DEF Settled
<1> QED BY <1>0, <1>3, <1>5, <1>6, <1>7 DEF ScoreInv

LEMMA RestsSettles == ScoreInv /\ (Commits \/ Dies) => ScoreInv'
<1> SUFFICES ASSUME ScoreInv, Commits \/ Dies PROVE ScoreInv'
  OBVIOUS
<1>0. KeptInv'
  BY RestsKeeps DEF ScoreInv
<1>1. /\ job'.pc = "rest" /\ job'.rows = {} /\ job'.todo = {} /\ DOMAIN job'.hand = {}
  BY DEF Commits, Dies, Resting
<1>2. UNCHANGED <<now, membership, candles, analyses, pending, decided, walked, revised, track>>
  BY DEF Commits, Dies, universeVars, inputs, tables, history
<1>3. Clocked' /\ NewVerdicts'
  BY <1>1, <1>2 DEF ScoreInv, Clocked, ClosedBy, NewVerdicts
<1>4. ASSUME NEW s \in Symbol \ revised PROVE Settled(s)'
  <2>1. Settled(s)
    BY <1>4 DEF ScoreInv
  <2>2. Walk(s, walked)' = Walk(s, walked) /\ Of(s)' = Of(s)
    BY <1>2 DEF Walk, Basis, Closed, _choose_analysis, Says, Of
  <2> QED BY <1>1, <1>2, <2>1, <2>2 DEF Settled
<1> QED BY <1>0, <1>2, <1>3, <1>4 DEF ScoreInv

\* Those who write what the walk reads: a past that only grew keeps what was closed.
LEMMA WritersSettle ==
    ASSUME ScoreInv, KeptInv', Revises, UNCHANGED <<tables, job, walked, now>>,
           DOMAIN analyses \subseteq DOMAIN analyses',
           \A id \in DOMAIN analyses : analyses'[id].symbol = analyses[id].symbol,
           \A s \in Symbol : \A n \in 1..Len(candles[s]) : candles'[s][n] = candles[s][n]
    PROVE  ScoreInv'
<1>1. /\ \A id \in DOMAIN track : id \in DOMAIN analyses
      /\ \A r \in job.rows : r.id \in DOMAIN analyses
  BY DEF ScoreInv, KeptInv, TablesInv, RowsFit, RowFits
<1>2. Clocked' /\ NewVerdicts'
  BY DEF ScoreInv, Clocked, ClosedBy, NewVerdicts, tables
<1>3. ASSUME NEW s \in Symbol \ revised' PROVE Settled(s)'
  <2>1. s \in Symbol \ revised /\ Lengthens(Walk(s, walked), Walk(s, walked)')
    BY NamesStay DEF ScoreInv, KeptInv, TablesInv
  <2>2. Settled(s)
    BY <2>1 DEF ScoreInv
  <2>3. DOMAIN track \cap Of(s)' = DOMAIN track \cap Of(s)
    BY <1>1 DEF Of
  <2>4. \A r \in job.rows : r.id \in Of(s)' <=> r.id \in Of(s)
    BY <1>1 DEF Of
  <2>5. track' = track /\ job' = job
    BY DEF tables
  <2> QED BY <2>1, <2>2, <2>3, <2>4, <2>5 DEF Settled, Lengthens
<1> QED BY <1>2, <1>3 DEF ScoreInv

LEMMA ScoreNext == ScoreInv /\ [Next]_vars => ScoreInv'
<1> SUFFICES ASSUME ScoreInv, [Next]_vars PROVE ScoreInv'
  OBVIOUS
<1>0. KeptInv'
  BY KeptNext DEF ScoreInv
<1>1. CASE EditUniverse
  <2>1. now' = now
    BY <1>1 DEF EditUniverse, Seeds, Resets, Enlists, Delists, Edit
  <2> QED BY <1>0, <1>1, <2>1, WritersSettle DEF EditUniverse, inputs
<1>2. CASE DeskWrites
  <2>1. PICK s \in Symbol : Ingest(s) \/ Analyse(s) \/ PaperRun(s)
    BY <1>2 DEF DeskWrites
  <2>2. UNCHANGED <<tables, job, walked, now>> /\ Revises
    BY <1>2 DEF DeskWrites, universeVars
  <2>3. CASE Ingest(s)
    <3>1. analyses' = analyses
      BY <2>3 DEF Ingest
    <3> QED BY <1>0, <2>2, <2>3, <3>1, IngestLengthens, WritersSettle
            DEF ScoreInv, KeptInv, TablesInv
  <2>4. ASSUME NEW id \in Id, Analysed(s, id) PROVE ScoreInv'
    <3>1. candles' = candles
      BY <2>4 DEF Analysed
    <3> QED BY <1>0, <2>2, <2>4, <3>1, AnalysedStays, WritersSettle DEF ScoreInv, KeptInv
  <2> QED BY <2>1, <2>3, <2>4 DEF Analyse, PaperRun
<1>3. ASSUME UNCHANGED <<membership, inputs, tables, job, history>>, now' \in Nat, now <= now'
      PROVE  ScoreInv'
  <2>1. UNCHANGED <<membership, candles, analyses, pending, decided, walked, revised, track, verdicts, job>>
    BY <1>3 DEF inputs, tables, history
  <2>2. \A s \in Symbol : Settled(s)' = Settled(s)
    BY <2>1 DEF Settled, Walk, Basis, Closed, _choose_analysis, Says, Of
  <2>3. Clocked' /\ NewVerdicts'
    BY <1>3, <2>1 DEF ScoreInv, KeptInv, TablesInv, Stored, Clocked, ClosedBy, NewVerdicts
  <2> QED BY <1>0, <2>1, <2>2, <2>3 DEF ScoreInv
<1>4. CASE TimePasses
  <2>1. now \in Nat
    BY DEF ScoreInv, KeptInv, TablesInv, Stored
  <2> QED BY <1>3, <1>4, <2>1 DEF TimePasses, Tick
<1>5. CASE UNCHANGED vars
  <2>1. now \in Nat
    BY DEF ScoreInv, KeptInv, TablesInv, Stored
  <2> QED BY <1>3, <1>5, <2>1 DEF vars, universeVars
<1> QED BY <1>1, <1>2, <1>4, <1>5, WalksSettles, SyncsSettles, AsksSettles, RestsSettles
        DEF Next, JobStep

LEMMA ScoreSteps ==
    ASSUME ScoreInv, [Next]_vars
    PROVE  /\ \A id \in DOMAIN verdicts : id \in DOMAIN verdicts' /\ verdicts'[id] = verdicts[id]
           /\ \A id \in Scored :
                 analyses[id].symbol \in revised' \/ (id \in DOMAIN track' /\ track'[id] = track[id])
           /\ \A id \in Scored' \ Scored :
                 \/ id \in DOMAIN verdicts
                 \/ verdicts'[id].at = OpenOf(track'[id].entry) + 2 * Width
<1>1. verdicts' = verdicts \/ (Commits /\ verdicts' = Over(job.hand, verdicts))
  BY DEF Next, JobStep, Walks, Syncs, Asks, Commits, Dies, TimePasses, DeskWrites, EditUniverse,
         vars, tables
<1>2. track' = track \/ (Syncs /\ revised' = revised)
  BY DEF Next, JobStep, Walks, Syncs, Asks, Commits, Dies, TimePasses, DeskWrites, EditUniverse,
         vars, tables, history
<1>3. \A id \in DOMAIN verdicts : id \in DOMAIN verdicts' /\ verdicts'[id] = verdicts[id]
  <2>1. \A id \in DOMAIN verdicts : id \notin DOMAIN job.hand
    BY DEF ScoreInv, NewVerdicts
  <2> QED BY <1>1, <2>1 DEF Over
<1>4. ASSUME NEW id \in Scored, analyses[id].symbol \notin revised'
      PROVE  id \in DOMAIN track' /\ track'[id] = track[id]
  <2>1. id \in DOMAIN track /\ track[id].exit # 0 /\ id \in DOMAIN analyses /\ track[id].id = id
    BY <1>4 DEF Scored, ScoreInv, KeptInv, TablesInv, RowsFit, RowFits
  <2>2. CASE track' = track
    BY <2>1, <2>2
  <2>3. CASE Syncs /\ revised' = revised
    <3>1. job.pc = "sync" /\ track' = Cached(job.rows)
      BY <2>3 DEF Syncs
    <3>2. PICK s \in Symbol \ revised : id \in Of(s)
      <4>1. analyses[id] \in StoredAnalysis
        BY <2>1 DEF ScoreInv, KeptInv, TablesInv, Stored
      <4> QED BY <1>4, <2>1, <2>3, <4>1 DEF StoredAnalysis, Of
    <3>3. track[id] \in job.rows
      BY <2>1, <3>1, <3>2 DEF ScoreInv, Settled
    <3>4. id \in Ids(job.rows)
      BY <2>1, <3>3 DEF Ids
    <3>5. RowOf(job.rows, id) = track[id]
      BY <2>1, <3>3, <3>4, Picked DEF ScoreInv, KeptInv, OneRowEach
    <3>6. id \in DOMAIN track' /\ track'[id] = RowOf(job.rows, id)
      BY <2>1, <3>1, <3>4 DEF Cached, Over
    <3> QED BY <3>5, <3>6
  <2> QED BY <1>2, <2>2, <2>3
<1>5. ASSUME NEW id \in Scored', id \notin DOMAIN verdicts
      PROVE  verdicts'[id].at = OpenOf(track'[id].entry) + 2 * Width
  <2>1. /\ id \in DOMAIN verdicts' /\ id \in DOMAIN track'
        /\ verdicts'[id].value # "late" /\ track'[id].exit # 0
    BY <1>5 DEF Scored
  <2>2. Commits /\ verdicts' = Over(job.hand, verdicts)
    BY <1>1, <1>5, <2>1
  <2>3. id \in DOMAIN job.hand /\ verdicts'[id] = job.hand[id] /\ track' = track /\ job.pc = "ask"
    BY <1>5, <2>1, <2>2 DEF Over, Commits
  <2>4. PICK n, m, at : n = track[id].entry /\ m = track[id].exit /\ at = job.hand[id].at
    OBVIOUS
  <2>5. /\ id \in DOMAIN analyses /\ n = analyses[id].bar /\ m \in Nat /\ m > n
    BY <2>1, <2>3, <2>4 DEF ScoreInv, KeptInv, TablesInv, RowsFit, RowFits
  <2>6. n \in Nat
    <3>1. analyses[id] \in StoredAnalysis
      BY <2>5 DEF ScoreInv, KeptInv, TablesInv, Stored
    <3> QED BY <2>5, <3>1 DEF StoredAnalysis
  <2>7. at \in Nat /\ at <= OpenOf(n) + 2 * Width
    BY <2>1, <2>3, <2>4, <2>5 DEF ScoreInv, KeptInv, TablesInv, OnTime, on_time
  <2>8. at = walked
    BY <2>3, <2>4 DEF ScoreInv, Clocked, NewVerdicts
  <2>9. CloseOf(m) <= walked
    BY <2>1, <2>3, <2>4 DEF ScoreInv, Clocked, ClosedBy
  <2>10. OpenOf(n) + 2 * Width <= CloseOf(m)
    BY <2>5, <2>6, Later
  <2>11. OpenOf(n) \in Int /\ CloseOf(m) \in Int /\ 2 * Width \in Int
    BY <2>5, <2>6, TrackAssumption DEF OpenOf, CloseOf
  <2>12. at = OpenOf(n) + 2 * Width
    BY <2>7, <2>8, <2>9, <2>10, <2>11
  <2> QED BY <2>3, <2>4, <2>12
<1> QED BY <1>3, <1>4, <1>5

\* The score of the shadow veto only grows, however often the walk is run again, whatever
\* is analysed again, edited or dies meanwhile: a verdict is never given twice, a trade
\* that was scored keeps its outcome unless the past of its symbol was revised, and an
\* opinion is in the table before the outcome it is scored against, but for a run that
\* starts in the instant the next bar closes (shadow_veto.py, request_verdicts and
\* score_records; shadow_track.py, sync_track).
THEOREM ScoresAreFinal == Spec => ScoresStand
<1>1. ScoreInv /\ [Next]_vars =>
         [/\ \A id \in DOMAIN verdicts : id \in DOMAIN verdicts' /\ verdicts'[id] = verdicts[id]
          /\ \A id \in Scored :
                analyses[id].symbol \in revised' \/ (id \in DOMAIN track' /\ track'[id] = track[id])
          /\ \A id \in Scored' \ Scored :
                \/ id \in DOMAIN verdicts
                \/ verdicts'[id].at = OpenOf(track'[id].entry) + 2 * Width]_vars
  BY ScoreSteps
<1> QED BY <1>1, ScoreInit, ScoreNext, PTL DEF Spec, ScoresStand

-----------------------------------------------------------------------------
(***************************************************************************)
(* The lock the job runs under, for any number of processes, threads and   *)
(* tokens.  The invariant that carries RunsExclusive: a run within its     *)
(* lifetime still has its token in Redis with at least as long to live as  *)
(* the run believes (HolderKeepsKey alone does not survive a tick), and no *)
(* two runs, live or overdue, hold one token, so that an overdue release   *)
(* cannot hit a live key.                                                  *)
(***************************************************************************)

Live(p, t) == run[p][t].via = "redis" /\ run[p][t].left > 0

LiveHoldsKey ==
    \A p \in Process, t \in Thread :
        Live(p, t) => /\ lock.token = run[p][t].token
                      /\ lock.left >= run[p][t].left

RedisRunHasToken ==
    \A p \in Process, t \in Thread :
        run[p][t].via = "redis" <=> run[p][t].token # NoToken

TokensDistinct ==
    \A p, q \in Process, t, u \in Thread :
        /\ run[p][t].token # NoToken
        /\ run[p][t].token = run[q][u].token
        => p = q /\ t = u

FlightInv == TypeOK /\ LiveHoldsKey /\ RedisRunHasToken /\ TokensDistinct

LEMMA FreeType == Free \in [token : Token \cup {NoToken}, left : 0..TTL]
BY FlightAssumption DEF Free

LEMMA IdleType == Idle \in RunState
BY FlightAssumption DEF Idle, RunState

LEMMA AgedType ==
    ASSUME NEW l \in [token : Token \cup {NoToken}, left : 0..TTL]
    PROVE  AgedLock(l) \in [token : Token \cup {NoToken}, left : 0..TTL]
BY FlightAssumption, FreeType DEF AgedLock

LEMMA FlightStarts == FlightInit => FlightInv
BY FreeType, IdleType, FlightAssumption
   DEF FlightInit, FlightInv, TypeOK, LiveHoldsKey, RedisRunHasToken, TokensDistinct, Live,
       Idle, Free

\* A run that starts: one entry of the table changes from idle.
LEMMA TakesStep ==
    ASSUME FlightInv, NEW p \in Process, NEW t \in Thread, NEW k \in Token,
           TakesRedis(p, t, k)
    PROVE  FlightInv'
<1> DEFINE r == [via |-> "redis", token |-> k, left |-> TTL]
<1>1. r \in RunState /\ k # NoToken
  BY FlightAssumption DEF RunState
<1>2. /\ run' = [run EXCEPT ![p][t] = r]
      /\ lock' = [token |-> k, left |-> TTL]
      /\ local' = local /\ lock = Free /\ k \in Fresh
  BY DEF TakesRedis, Sets
<1>3. /\ run'[p][t] = r
      /\ \A q \in Process, u \in Thread : (q # p \/ u # t) => run'[q][u] = run[q][u]
  BY <1>2 DEF FlightInv, TypeOK
<1>4. \A q \in Process, u \in Thread : run[q][u].token # k
  BY <1>2 DEF Fresh, TokensInUse
<1>5. TypeOK'
  BY <1>1, <1>2, FlightAssumption DEF FlightInv, TypeOK
<1>6. \A q \in Process, u \in Thread : ~Live(q, u)
  BY <1>2, FlightAssumption
     DEF FlightInv, LiveHoldsKey, RedisRunHasToken, Free, Live
<1>7. LiveHoldsKey'
  BY <1>2, <1>3, <1>6, FlightAssumption DEF LiveHoldsKey, Live
<1>8. RedisRunHasToken'
  BY <1>1, <1>3 DEF FlightInv, RedisRunHasToken
<1>9. TokensDistinct'
  BY <1>3, <1>4 DEF FlightInv, TokensDistinct
<1> QED
  BY <1>5, <1>7, <1>8, <1>9 DEF FlightInv

\* An entry that becomes idle, or a run without a token, cannot disturb the
\* others as long as the key of the live ones stays.
LEMMA DropsToken ==
    ASSUME FlightInv, TypeOK',
           \A p \in Process, t \in Thread :
               run'[p][t] = run[p][t] \/ (run'[p][t].via # "redis" /\ run'[p][t].token = NoToken),
           \A p \in Process, t \in Thread :
               Live(p, t) /\ run'[p][t] = run[p][t] => lock' = lock
    PROVE  FlightInv'
<1>1. LiveHoldsKey'
  BY DEF FlightInv, LiveHoldsKey, Live
<1>2. RedisRunHasToken'
  BY DEF FlightInv, RedisRunHasToken
<1>3. TokensDistinct'
  BY DEF FlightInv, TokensDistinct
<1> QED
  BY <1>1, <1>2, <1>3 DEF FlightInv

LEMMA FallsBackStep ==
    ASSUME FlightInv, NEW p \in Process, NEW t \in Thread, FallsBack(p, t)
    PROVE  FlightInv'
<1> DEFINE r == [via |-> "local", token |-> NoToken, left |-> 0]
<1>1. r \in RunState
  BY FlightAssumption DEF RunState
<1>2. run' = [run EXCEPT ![p][t] = r] /\ local' = [local EXCEPT ![p] = TRUE]
  BY DEF FallsBack, Sets
<1>3. lock' = lock \/ (lock = Free /\ \E k \in Token : lock' = [token |-> k, left |-> TTL])
  BY DEF FallsBack, Fresh
<1>4. TypeOK'
  BY <1>1, <1>2, <1>3, FlightAssumption DEF FlightInv, TypeOK
<1>5. \A q \in Process, u \in Thread : run'[q][u] = run[q][u] \/ run'[q][u] = r
  BY <1>2 DEF FlightInv, TypeOK
<1>6. lock = Free => \A q \in Process, u \in Thread : ~Live(q, u)
  BY FlightAssumption DEF FlightInv, LiveHoldsKey, RedisRunHasToken, Free, Live
<1> QED
  BY <1>3, <1>4, <1>5, <1>6, DropsToken

LEMMA EndsRedisStep ==
    ASSUME FlightInv, NEW p \in Process, NEW t \in Thread, EndsRedis(p, t)
    PROVE  FlightInv'
<1>1. /\ run' = [run EXCEPT ![p][t] = Idle] /\ local' = local
      /\ run[p][t].via = "redis"
      /\ lock' = lock \/ lock' = Released(run[p][t].token)
  BY DEF EndsRedis, Sets
<1>2. TypeOK'
  BY <1>1, IdleType, FreeType DEF FlightInv, TypeOK, Released
<1>3. \A q \in Process, u \in Thread :
          run'[q][u] = IF q = p /\ u = t THEN Idle ELSE run[q][u]
  BY <1>1 DEF FlightInv, TypeOK
<1>4. ASSUME NEW q \in Process, NEW u \in Thread,
             Live(q, u), run'[q][u] = run[q][u]
      PROVE  lock' = lock
  <2>1. q # p \/ u # t
    BY <1>1, <1>3, <1>4 DEF Idle, Live
  <2>2. run[q][u].token # run[p][t].token
    BY <1>1, <2>1 DEF FlightInv, TokensDistinct, RedisRunHasToken
  <2>3. lock.token = run[q][u].token
    BY <1>4 DEF FlightInv, LiveHoldsKey
  <2> QED
    BY <1>1, <2>2, <2>3 DEF Released
<1> QED
  BY <1>2, <1>3, <1>4, DropsToken DEF Idle

LEMMA EndsLocalStep ==
    ASSUME FlightInv, NEW p \in Process, NEW t \in Thread, EndsLocal(p, t)
    PROVE  FlightInv'
<1>1. /\ run' = [run EXCEPT ![p][t] = Idle] /\ lock' = lock
      /\ local' = [local EXCEPT ![p] = FALSE]
  BY DEF EndsLocal, Sets
<1>2. TypeOK'
  BY <1>1, IdleType DEF FlightInv, TypeOK
<1>3. \A q \in Process, u \in Thread : run'[q][u] = run[q][u] \/ run'[q][u] = Idle
  BY <1>1 DEF FlightInv, TypeOK
<1> QED
  BY <1>1, <1>2, <1>3, DropsToken DEF Idle

LEMMA ProcessDiesStep ==
    ASSUME FlightInv, NEW p \in Process, ProcessDies(p)
    PROVE  FlightInv'
<1>1. /\ run' = [run EXCEPT ![p] = [t \in Thread |-> Idle]] /\ lock' = lock
      /\ local' = [local EXCEPT ![p] = FALSE]
  BY DEF ProcessDies
<1>2. TypeOK'
  BY <1>1, IdleType DEF FlightInv, TypeOK
<1>3. \A q \in Process, u \in Thread : run'[q][u] = run[q][u] \/ run'[q][u] = Idle
  BY <1>1 DEF FlightInv, TypeOK
<1> QED
  BY <1>1, <1>2, <1>3, DropsToken DEF Idle

LEMMA RedisTickStep == ASSUME FlightInv, RedisTick PROVE FlightInv'
<1>1. /\ lock' = AgedLock(lock) /\ local' = local
      /\ run' = [p \in Process |-> [t \in Thread |->
                    [run[p][t] EXCEPT !.left = Less(run[p][t].left)]]]
  BY DEF RedisTick
<1>2. TypeOK
  BY DEF FlightInv
<1>3. ASSUME NEW p \in Process, NEW t \in Thread
      PROVE  /\ run'[p][t] \in RunState
             /\ run'[p][t].via = run[p][t].via
             /\ run'[p][t].token = run[p][t].token
             /\ run'[p][t].left = Less(run[p][t].left)
  <2>1. run[p][t] \in RunState
    BY <1>2 DEF TypeOK
  <2>2. Less(run[p][t].left) \in 0..TTL
    BY <2>1, FlightAssumption DEF RunState, Less
  <2> QED
    BY <1>1, <2>1, <2>2 DEF RunState
<1>4. TypeOK'
  <2>1. run' \in [Process -> [Thread -> RunState]]
    BY <1>1, <1>3
  <2> QED
    BY <1>1, <1>2, <2>1, AgedType DEF TypeOK
<1>5. LiveHoldsKey'
  <2> SUFFICES ASSUME NEW p \in Process, NEW t \in Thread, Live(p, t)'
               PROVE  /\ lock'.token = run'[p][t].token
                      /\ lock'.left >= run'[p][t].left
    BY DEF LiveHoldsKey, Live
  <2>1. run[p][t].left \in 0..TTL
    BY <1>2 DEF TypeOK, RunState
  <2>2. /\ run[p][t].via = "redis" /\ run[p][t].left > 1
        /\ run'[p][t].left = run[p][t].left - 1
    BY <1>3, <2>1, FlightAssumption DEF Live, Less
  <2>3. lock.token = run[p][t].token /\ lock.left >= run[p][t].left
    BY <2>1, <2>2, FlightAssumption DEF FlightInv, LiveHoldsKey, Live
  <2>4. lock \in [token : Token \cup {NoToken}, left : 0..TTL]
    BY <1>2 DEF TypeOK
  <2>5. lock' = [lock EXCEPT !.left = lock.left - 1]
    BY <1>1, <2>1, <2>2, <2>3, <2>4, FlightAssumption DEF AgedLock
  <2> QED
    BY <1>3, <2>1, <2>2, <2>3, <2>4, <2>5, FlightAssumption
<1>6. RedisRunHasToken'
  BY <1>3 DEF FlightInv, RedisRunHasToken
<1>7. TokensDistinct'
  BY <1>3 DEF FlightInv, TokensDistinct
<1> QED
  BY <1>4, <1>5, <1>6, <1>7 DEF FlightInv

LEMMA FlightStep == FlightInv /\ [FlightNext]_flightVars => FlightInv'
<1> SUFFICES ASSUME FlightInv, [FlightNext]_flightVars PROVE FlightInv'
  OBVIOUS
<1>1. CASE UNCHANGED flightVars
  BY <1>1 DEF flightVars, FlightInv, TypeOK, LiveHoldsKey, RedisRunHasToken, TokensDistinct, Live
<1>2. CASE FlightNext
  BY <1>2, TakesStep, FallsBackStep, EndsRedisStep, EndsLocalStep, ProcessDiesStep, RedisTickStep
     DEF FlightNext
<1> QED
  BY <1>1, <1>2

\* single_flight: two runs that hold the Redis lock and are within its lifetime
\* are one run.
THEOREM FlightExclusive == FlightSpec => []RunsExclusive
<1>1. FlightInv => RunsExclusive
  BY DEF FlightInv, RunsExclusive, LiveHoldsKey, RedisRunHasToken, TokensDistinct, Live
<1> QED
  BY <1>1, FlightStarts, FlightStep, PTL DEF FlightSpec

\* single_flight's release script: a live run keeps its key until it ends or
\* dies, whatever overdue runs release meanwhile.
THEOREM KeyKept == FlightSpec => []HolderKeepsKey
<1>1. FlightInv => HolderKeepsKey
  BY DEF FlightInv, HolderKeepsKey, LiveHoldsKey, Live
<1> QED
  BY <1>1, FlightStarts, FlightStep, PTL DEF FlightSpec
=============================================================================
