------------------------------ MODULE ShadowTrack ------------------------------
(***************************************************************************)
(* The shadow veto (src/jarvise_paper/shadow_track.py, shadow_veto.py): a  *)
(* counterfactual track, one position per symbol, is walked over stored    *)
(* bars and analyses, cached in a table, and a model is asked about every  *)
(* entry that is on time when the job starts.                              *)
(*                                                                         *)
(* The job walks from the first bar every time and writes what the walk    *)
(* returns over what is cached; it deletes nothing.  What the walk goes by *)
(* is written by others: ingest stores bars, paper run and the sync button *)
(* analyse the newest bar, more than once if they are called again (the    *)
(* safety gate may flatten an analysis and keeps its id), paper run        *)
(* overwrites the pending card of the symbol, and the owner edits the      *)
(* universe.                                                               *)
(*                                                                         *)
(* Bar n opens at (n - 1) * Width.  While the kill switch is engaged       *)
(* neither this job nor paper run does anything.                           *)
(***************************************************************************)
EXTENDS Universe, Sequences, SequencesExt, FiniteSetsExt

CONSTANTS
    Kinds,      \* what a bar does: "calm", or "fall" to a long's, "rise" to a short's stop
    Actions,    \* what an analysis says: "long", "short", "flat"
    Answers,    \* what the model says: "veto", "no_objection", "abstain", or "none" on failure
    Width,      \* ticks a bar lasts
    MAX_BARS, MAX_CALLS,
    MaxRows     \* bound: analyses

ASSUME TrackAssumption == Width \in Nat \ {0}
ASSUME TrackBounds == {MAX_BARS, MAX_CALLS, MaxRows} \subseteq Nat

VARIABLES
    candles,    \* candles[s]: the stored bars, oldest first
    analyses,   \* analysis_output, by rowid
    pending,    \* pending[s]: the analysis the pending card of s names, 0 is none
    decided,    \* the analyses that cards name which are decided or lapsed
    track,      \* paper_shadow_track, by analysis
    verdicts,   \* paper_shadow_verdicts, by analysis
    job,        \* the shadow job
    walked,     \* history: the instant of the last walk
    revised     \* history: symbols whose past has changed under a walk

inputs == <<candles, analyses, pending, decided>>
tables == <<track, verdicts>>
history == <<walked, revised>>
vars == <<universeVars, inputs, tables, job, history>>

Id == 1..MaxRows
Opposite == [long |-> "short", short |-> "long"]
Touches == [long |-> "fall", short |-> "rise"]

-----------------------------------------------------------------------------
(* The walk.                                                               *)

OpenOf(n)  == (n - 1) * Width
CloseOf(n) == n * Width

\* _rounds: how many of the stored bars have closed by then; bars are stored in order.
Closed(s, at) == LET n == at \div Width
                 IN  IF n < Len(candles[s]) THEN n ELSE Len(candles[s])

\* Flat wins.  Otherwise the queued analysis.  Otherwise the highest rowid.  0 is none.
_choose_analysis(s, n) ==
    LET group == {id \in DOMAIN analyses : analyses[id].symbol = s /\ analyses[id].bar = n}
        flats == {id \in group : analyses[id].action = "flat"}
        queued == {id \in group : id \in decided \/ id = pending[s]}
    IN  IF group = {} THEN 0
        ELSE Max(IF flats # {} THEN flats ELSE IF queued # {} THEN queued ELSE group)

Says(id) == IF id = 0 THEN "nothing" ELSE analyses[id].action

\* What a walk goes by: for each bar its analysis, and whether it may open there.
\* Nothing for a symbol that is out of the universe by then.
Basis(s, at) ==
    IF ~Eligible(membership, s, at) THEN <<>>
    ELSE [n \in 1..Closed(s, at) |->
             LET id == _choose_analysis(s, n)
             IN  [id |-> id, says |-> Says(id), member |-> Eligible(membership, s, OpenOf(n))]]

\* An open position has exit 0.
Opened(id, side, n) == [id |-> id, side |-> side, entry |-> n, exit |-> 0, reason |-> "open"]
Out == Opened(0, "none", 0)

\* The stop is looked for first, over every bar since the entry.
Exit(kinds, p, said, n) ==
    IF \E u \in (p.entry + 1)..n : kinds[u] = Touches[p.side] THEN "stop"
    ELSE IF said = "flat" THEN "flat"
    ELSE IF said = Opposite[p.side] THEN "opposite"
    ELSE IF n - p.entry >= MAX_BARS THEN "time"
    ELSE "open"

\* One bar: an open position is closed or kept, and after a close nothing is opened
\* on the same bar.  An entry needs a member of the universe at the bar's open.
Step(kinds, w, bar, n) ==
    IF w.pos # Out
    THEN LET reason == Exit(kinds, w.pos, bar.says, n)
         IN  IF reason = "open" THEN w
             ELSE [pos |-> Out,
                   out |-> w.out \cup {[w.pos EXCEPT !.exit = n, !.reason = reason]}]
    ELSE IF bar.says \in {"long", "short"} /\ bar.member
    THEN [pos |-> Opened(bar.id, bar.says, n), out |-> w.out]
    ELSE w

\* The walk over what it goes by, bar by bar.
Steps(kinds, basis) ==
    LET after[n \in 0..Len(basis)] ==
            IF n = 0 THEN [pos |-> Out, out |-> {}] ELSE Step(kinds, after[n - 1], basis[n], n)
    IN  after

Found(w) == w.out \cup ({w.pos} \ {Out})

\* build_track, for one symbol.
Walk(s, at) == LET basis == Basis(s, at)
               IN  Found(Steps(candles[s], basis)[Len(basis)])

build_track(at) == UNION {Walk(s, at) : s \in Symbol}

\* A step may add to the past of a symbol, or else it revises it.
Revises ==
    revised' = revised \cup
        {s \in Symbol \ revised : ~IsPrefix(Basis(s, walked), Basis(s, walked)')}

-----------------------------------------------------------------------------
(* The job: run_shadow under its lock, so that no two runs overlap.        *)

Resting == [pc |-> "rest", at |-> 0, rows |-> {}, todo |-> {}, calls |-> 0, hand |-> <<>>]

TrackInit ==
    /\ Init
    /\ candles = [s \in Symbol |-> <<>>] /\ analyses = <<>>
    /\ pending = [s \in Symbol |-> 0] /\ decided = {}
    /\ track = <<>> /\ verdicts = <<>>
    /\ job = Resting
    /\ walked = 0 /\ revised = {}

\* The first verdict of a run opens a transaction that is committed after the last
\* call to the model; until then every other writer is turned away.
Unlocked == job.hand = <<>>

\* as_of is the clock at the start, for everything the run does.
Walks ==
    /\ job.pc = "rest"
    /\ job' = [Resting EXCEPT !.pc = "sync", !.at = now, !.rows = build_track(now)]
    /\ walked' = now
    /\ UNCHANGED <<universeVars, inputs, tables>>
    /\ Revises

\* Rows written over those of a table.
Over(new, old) ==
    [id \in DOMAIN new \cup DOMAIN old |-> IF id \in DOMAIN new THEN new[id] ELSE old[id]]

RowOf(rows, id) == CHOOSE r \in rows : r.id = id
Ids(rows) == {r.id : r \in rows}

\* Mutated form of Cached: a row that is there already is left alone.
CachedOnce(rows) == Over(track, [id \in Ids(rows) |-> RowOf(rows, id)])

\* INSERT .. ON CONFLICT DO UPDATE, and no DELETE.
Cached(rows) == Over([id \in Ids(rows) |-> RowOf(rows, id)], track)

\* Mutated form of on_time: one more bar of grace.
on_time_next_bar(n, at) == at <= OpenOf(n) + 3 * Width
on_time(n, at) == at <= OpenOf(n) + 2 * Width

Verdict(value) == [value |-> value, at |-> job.at]

\* sync_track; then the late entries are marked without a call.
Syncs ==
    LET unjudged == {r \in job.rows : r.id \notin DOMAIN verdicts}
        late == {r \in unjudged : ~on_time(r.entry, job.at)}
    IN  /\ job.pc = "sync"
        /\ track' = Cached(job.rows)
        /\ job' = [job EXCEPT !.pc = "ask", !.todo = unjudged \ late,
                              !.hand = [id \in Ids(late) |-> Verdict("late")]]
        /\ UNCHANGED <<universeVars, inputs, verdicts, history>>

\* The oldest entry is asked about first, whatever the time is by then.  A call that
\* fails leaves it for the next run; an answer that cannot be read is an abstention.
Asks ==
    /\ job.pc = "ask" /\ job.calls < MAX_CALLS
    /\ \E r \in job.todo, answer \in Answers :
          /\ \A other \in job.todo : r.entry <= other.entry
          /\ job' = [job EXCEPT !.calls = @ + 1, !.todo = @ \ {r},
                                !.hand = IF answer = "none" THEN @
                                         ELSE Over([id \in {r.id} |-> Verdict(answer)], @)]
    /\ UNCHANGED <<universeVars, inputs, tables, history>>

Commits ==
    /\ job.pc = "ask" /\ (job.todo = {} \/ job.calls = MAX_CALLS)
    /\ verdicts' = Over(job.hand, verdicts)
    /\ job' = Resting
    /\ UNCHANGED <<universeVars, inputs, track, history>>

\* The process dies, or a call raises something else: the transaction is rolled back.
Dies ==
    /\ job.pc # "rest"
    /\ job' = Resting
    /\ UNCHANGED <<universeVars, inputs, tables, history>>

JobStep == Syncs \/ Asks \/ Commits

-----------------------------------------------------------------------------
(* Those who write what the walk reads.                                    *)

\* Ingest stores every closed bar that is missing.
Ingest(s) ==
    LET new == (now \div Width) - Len(candles[s])
    IN  /\ Unlocked /\ new > 0
        /\ \E bars \in [1..new -> Kinds] : candles' = [candles EXCEPT ![s] = @ \o bars]
        /\ UNCHANGED <<analyses, pending, decided>>

\* An analysis is named by what was found: found again it is written over its row, and
\* otherwise it is a new one.  Where the safety gate vetoes, the same one says flat.
Analysed(s, id) ==
    LET bar == Len(candles[s])
    IN  /\ Unlocked /\ bar > 0
        /\ \E lean \in Actions, vetoed \in BOOLEAN :
              LET found == [symbol |-> s, bar |-> bar, lean |-> lean,
                            action |-> IF vetoed THEN "flat" ELSE lean]
              IN  \/ /\ id \in DOMAIN analyses
                     /\ analyses[id] = [found EXCEPT !.action = analyses[id].action]
                     /\ analyses' = [analyses EXCEPT ![id] = found]
                  \/ /\ id = Len(analyses) + 1 /\ id <= MaxRows
                     /\ analyses' = Append(analyses, found)
        /\ UNCHANGED candles

\* The sync button, and a paper run that is turned away, queue nothing.
Analyse(s) ==
    /\ \E id \in Id : Analysed(s, id)
    /\ UNCHANGED <<pending, decided>>

\* Paper run queues its analysis.  A card that is still pending is overwritten and no
\* longer names the analysis it named; one that was decided keeps it.
PaperRun(s) ==
    /\ Eligible(membership, s, now)
    /\ \E id \in Id, was_decided \in BOOLEAN :
          /\ was_decided => pending[s] # 0
          /\ Analysed(s, id)
          /\ pending' = [pending EXCEPT ![s] = id]
          /\ decided' = IF was_decided THEN decided \cup ({pending[s]} \ {0}) ELSE decided

DeskWrites ==
    /\ \E s \in Symbol : Ingest(s) \/ Analyse(s) \/ PaperRun(s)
    /\ UNCHANGED <<universeVars, tables, job, walked>>
    /\ Revises

EditUniverse ==
    /\ Unlocked
    /\ Seeds \/ Resets \/ \E s \in Symbol : Enlists(s) \/ Delists(s)
    /\ UNCHANGED <<inputs, tables, job, walked>>
    /\ Revises

TimePasses == Tick /\ UNCHANGED <<inputs, tables, job, history>>

Next == Walks \/ JobStep \/ Dies \/ TimePasses \/ DeskWrites \/ EditUniverse

Spec == TrackInit /\ [][Next]_vars

-----------------------------------------------------------------------------
\* The table is what the walk returns, although it is built by one run after another:
\* no walk looks ahead of its bars, and what it has closed stays closed.  Where an
\* earlier walk went by another past (a bar was analysed again, a card was overwritten,
\* a symbol left the universe) the table keeps rows that no walk returns any more.
TrackIsWalk ==
    job.pc = "ask" =>
        \A s \in Symbol \ revised :
            {track[id] : id \in {i \in DOMAIN track : analyses[i].symbol = s}}
                = {r \in job.rows : analyses[r.id].symbol = s}

\* score_records: on time, an opinion, and resolved.
Scored ==
    {id \in DOMAIN verdicts \cap DOMAIN track :
        /\ verdicts[id].value \in {"veto", "no_objection"}
        /\ track[id].exit # 0}

\* The score only grows, run by run.  A verdict is given once and stands.  A trade that
\* was scored keeps its outcome, unless the past of its symbol was revised.  And one that
\* comes to be scored had its opinion in the table while its trade was still open there:
\* the outcome comes second.  (Only a run that starts in the very instant the next bar
\* closes may find the entry on time and its outcome known.)  That says in which order
\* the two are written.  It does not say when the model was asked: a verdict is stamped
\* with the start of its run, which may last longer than the bar.
ScoresStand ==
    [][/\ \A id \in DOMAIN verdicts : id \in DOMAIN verdicts' /\ verdicts'[id] = verdicts[id]
       /\ \A id \in Scored :
             analyses[id].symbol \in revised' \/ (id \in DOMAIN track' /\ track'[id] = track[id])
       /\ \A id \in Scored' \ Scored :
             \/ id \in DOMAIN verdicts
             \/ verdicts'[id].at = OpenOf(track'[id].entry) + 2 * Width]_vars
=============================================================================
