--------------------------- MODULE AssistSignals ---------------------------
(***************************************************************************)
(* The ideas the trade assistant pushes for one symbol                     *)
(* (src/jarvise_assist/signals.py, pause.py, menu.py, store.py): the       *)
(* signals job scans after each analysis, the morning job decides what was *)
(* held over night, the listener carries out the owner's taps, and all of  *)
(* them rewrite the one row of settings and the one row of alert edges.    *)
(*                                                                         *)
(* A step is one committed statement or one call to Telegram or the        *)
(* exchange, with the local reads before it.  write_settings and           *)
(* write_edge read the whole row and write the whole row back, which is    *)
(* two steps.  A job may die between any two.                              *)
(***************************************************************************)
EXTENDS Integers, FiniteSets, FiniteSetsExt

CONSTANTS
    MaxIdeas,       \* rows of assist_signal
    MaxAnalyses,    \* analyses after the first
    MaxLosses,      \* losing streaks
    MaxEvents,      \* taps, failed calls, deaths, overlaps, losses, nights and ideas grown
                    \* old together
    Sides           \* what an analysis may say beside "flat"

ASSUME SignalBounds == {MaxIdeas, MaxAnalyses, MaxLosses, MaxEvents} \subseteq Nat
ASSUME SignalSides == Sides \subseteq {"long", "short"} /\ "long" \in Sides

Ideas == 1..MaxIdeas
Jobs  == {"signals", "morning"}

VARIABLES
    sig,        \* assist_signal, in order of creation; recent: created within SAME_IDEA_MS;
                \* flip: the scan that found it saw a turn
    track,      \* assist_track, by the signal it follows
    cfg,        \* assist_settings: enabled, paused_until_ms, risk_pct
    edge,       \* assist_edge: streak_anchor_ms or week_pause_id, resume_alerted
    job,        \* what each job is doing, and the rows it read; flip: of the idea it found
    own,        \* what the listener is doing, and the rows it read
    market,     \* the last two analyses, the position, night hold, the last losing streak
    pushed,     \* history: how often Telegram delivered idea i
    lost,       \* history: ideas delivered by a job that failed or died before it noted it
    wants,      \* history: whether the owner's last toggle said on
    pauses,     \* history: how often losing streak n paused the assistant
    stale,      \* history: a whole-row write undid another's ("cfg", "edge")
    used        \* bounds used up, and whether the two jobs ever overlapped

rows == <<sig, track>>
told == <<pushed, lost>>
history == <<told, wants, pauses, stale>>
vars == <<rows, cfg, edge, job, own, market, history, used>>

NoSig   == [status |-> "none", side |-> "long", recent |-> FALSE, flip |-> FALSE]
NoTrack == [kind |-> "none", open |-> FALSE]
FirstCfg  == [enabled |-> TRUE, paused |-> "no", risk |-> "high"]
FirstEdge == [anchor |-> 0, told |-> FALSE]
Idle == [pc |-> "idle", cfg |-> FirstCfg, edge |-> FirstEdge, i |-> 0, side |-> "long",
         flip |-> FALSE, off |-> FALSE, night |-> FALSE, open |-> FALSE]
NoTap == [pc |-> "idle", cfg |-> FirstCfg, edge |-> FirstEdge]

Init ==
    /\ sig = [i \in Ideas |-> NoSig]
    /\ track = [i \in Ideas |-> NoTrack]
    /\ cfg = FirstCfg
    /\ edge = FirstEdge
    /\ job = [p \in Jobs |-> Idle]
    /\ own = NoTap
    /\ market = [now |-> "long", prev |-> "none", open |-> FALSE, night |-> FALSE, loss |-> 0]
    /\ pushed = [i \in Ideas |-> 0]
    /\ lost = {}
    /\ wants = TRUE
    /\ pauses = [n \in 1..MaxLosses |-> 0]
    /\ stale = {}
    /\ used = [analyses |-> 0, events |-> 0, faults |-> FALSE, crashes |-> FALSE,
               mixed |-> FALSE]
-----------------------------------------------------------------------------
(***************************************************************************)
(* The tables.                                                             *)
(***************************************************************************)
Event == used.events < MaxEvents /\ used' = [used EXCEPT !.events = @ + 1]
Mishap(kind) == /\ used.events < MaxEvents
                /\ used' = [used EXCEPT !.events = @ + 1, ![kind] = TRUE]
Fail  == Mishap("faults")
Calm  == UNCHANGED used

Rows(status) == {i \in Ideas : sig[i].status \in status}
Fresh == {i \in Ideas : sig[i] = NoSig /\ \A j \in 1..(i - 1) : sig[j] # NoSig}
Newest(ids) == IF ids = {} THEN {} ELSE {Max(ids)}

\* previous_analysis_action: the analysis before this one was of another side.
Flipped(side) == market.prev \notin {"none", side}

\* A mutant of SameIdea: an idea the owner took may come again.
SameIdeaUntaken(side) ==
    ~Flipped(side) /\ \E i \in Rows({"sent", "skipped"}) : sig[i].side = side /\ sig[i].recent

\* _same_idea_skip and recent_same_idea
SameIdea(side) ==
    ~Flipped(side)
    /\ \E i \in Rows({"sent", "taken", "skipped"}) : sig[i].side = side /\ sig[i].recent

\* _open_track_for_symbol_side
OpenTrack(side, kinds) ==
    \E i \in Ideas : track[i].open /\ track[i].kind \in kinds /\ sig[i].side = side

\* insert_signal leaves out the track of a held idea when one of its side is open.
HeldTrack(side) == IF OpenTrack(side, {"held", "sent"}) THEN NoTrack
                   ELSE [kind |-> "held", open |-> TRUE]

\* A mutant of Expiring: the night's older idea stays held.
ExpiringNone(table, ids) == table

\* expire_older_held
Expiring(table, ids) ==
    [i \in Ideas |-> IF i \in ids THEN [table[i] EXCEPT !.status = "expired"] ELSE table[i]]

\* A mutant of Promoted: only a track that is there is promoted.
PromotedOnly(t) == IF t.open THEN [t EXCEPT !.kind = "sent"] ELSE t

\* mark_signal_sent: an open track is promoted, a missing one added, a closed one left.
Promoted(t) ==
    IF t.open \/ t.kind = "none" THEN [kind |-> "sent", open |-> TRUE] ELSE t

WriteCfg(read, new) ==
    /\ cfg' = new
    /\ stale' = IF cfg = read THEN stale ELSE stale \cup {"cfg"}
WriteEdge(read, new) ==
    /\ edge' = new
    /\ stale' = IF edge = read THEN stale ELSE stale \cup {"edge"}
-----------------------------------------------------------------------------
(***************************************************************************)
(* What the two jobs share: the switch, the resume, the pause.             *)
(***************************************************************************)
Go(p, state) == job' = [job EXCEPT ![p] = state]
At(p, pc)    == [job[p] EXCEPT !.pc = pc, !.cfg = FirstCfg, !.edge = FirstEdge]
ReadCfg(p, pc)  == [At(p, pc) EXCEPT !.cfg = cfg]
ReadEdge(p, pc) == [At(p, pc) EXCEPT !.edge = edge]

\* A mutant of Enabled: a job that does not look at the switch.
EnabledAlways(read) == TRUE

Enabled(read) == read.enabled

\* clamp_stored_risk_pct writes when the stored risk is above 3 %.
Then(read) == IF read.risk = "high" THEN "clamp" ELSE "account"

\* single_flight keeps a job from overlapping itself, not from overlapping the other.
Start(p) ==
    /\ job[p].pc = "idle" /\ Enabled(cfg)
    /\ Go(p, [Idle EXCEPT !.pc = IF cfg.paused = "over" THEN "resume" ELSE Then(cfg),
                          !.cfg = cfg, !.off = ~wants, !.night = market.night])
    /\ IF \A q \in Jobs : job[q].pc = "idle" THEN Calm ELSE Mishap("mixed")
    /\ UNCHANGED <<rows, cfg, edge, own, market, history>>

\* maybe_auto_resume
Resume(p) ==
    /\ job[p].pc = "resume"
    /\ WriteCfg(job[p].cfg, [job[p].cfg EXCEPT !.paused = "no"])
    /\ Go(p, ReadEdge(p, "resumed"))
    /\ UNCHANGED <<rows, edge, own, market, told, wants, pauses, used>>

ResumeTold(p) ==
    /\ job[p].pc = "resumed"
    /\ WriteEdge(job[p].edge, [job[p].edge EXCEPT !.told = TRUE])
    /\ Go(p, ReadCfg(p, Then(cfg)))
    /\ UNCHANGED <<rows, cfg, own, market, told, wants, pauses, used>>

Clamp(p) ==
    /\ job[p].pc = "clamp"
    /\ WriteCfg(job[p].cfg, [job[p].cfg EXCEPT !.risk = "ok"])
    /\ Go(p, At(p, "account"))
    /\ UNCHANGED <<rows, edge, own, market, told, wants, pauses, used>>

\* The account; _handle_futures_ok, _handle_futures_down and the key alerts write the edge row.
Account(p) ==
    /\ job[p].pc = "account"
    /\ \/ Go(p, [ReadEdge(p, "up") EXCEPT !.open = market.open]) /\ Calm
       \/ Fail /\ Go(p, ReadEdge(p, "down"))
    /\ UNCHANGED <<rows, cfg, edge, own, market, history>>

AccountNoted(p) ==
    /\ job[p].pc \in {"up", "down"}
    /\ WriteEdge(job[p].edge, job[p].edge)
    /\ Go(p, IF job[p].pc = "up" THEN At(p, "pause") ELSE Idle)
    /\ UNCHANGED <<rows, cfg, own, market, told, wants, pauses, used>>

\* A mutant of Anchored: resuming forgets what the pause was for.
AnchoredUntilTold(n) == edge.anchor = n /\ ~edge.told

Anchored(n) == edge.anchor = n

\* evaluate_pause; without the income history nothing pauses.
Work(p) == IF p = "signals" THEN "scan" ELSE "list"
Held(p) == IF p = "signals" THEN At(p, "blocked") ELSE Idle

Pause(p) ==
    /\ job[p].pc = "pause"
    /\ IF cfg.paused = "yes" THEN Go(p, Held(p)) /\ Calm
       ELSE \/ /\ Calm
               /\ Go(p, IF market.loss = 0 \/ Anchored(market.loss) THEN At(p, Work(p))
                        ELSE [ReadCfg(p, "pausing") EXCEPT !.i = market.loss])
            \/ Fail /\ Go(p, At(p, Work(p)))
    /\ UNCHANGED <<rows, cfg, edge, own, market, history>>

PauseWrites(p) ==
    /\ job[p].pc = "pausing"
    /\ WriteCfg(job[p].cfg, [job[p].cfg EXCEPT !.paused = "yes"])
    /\ pauses' = [pauses EXCEPT ![job[p].i] = @ + 1]
    /\ Go(p, ReadEdge(p, "paused"))
    /\ UNCHANGED <<rows, edge, own, market, told, wants, used>>

PauseAnchors(p) ==
    /\ job[p].pc = "paused"
    /\ WriteEdge(job[p].edge, [anchor |-> job[p].i, told |-> FALSE])
    /\ Go(p, Held(p))
    /\ UNCHANGED <<rows, cfg, own, market, told, wants, pauses, used>>

\* Telegram's sendMessage: delivered; delivered and the answer lost; refused.
Push(p) ==
    /\ job[p].pc = "push"
    /\ \/ /\ pushed' = [pushed EXCEPT ![job[p].i] = @ + 1] /\ lost' = lost
          /\ Go(p, At(p, "mark")) /\ Calm
       \/ /\ pushed' = [pushed EXCEPT ![job[p].i] = @ + 1] /\ lost' = lost \cup {job[p].i}
          /\ Fail /\ Go(p, Idle)
       \/ UNCHANGED told /\ Fail /\ Go(p, Idle)
    /\ UNCHANGED <<rows, cfg, edge, own, market, wants, pauses, stale>>

\* mark_signal_sent, which does not look at the status again.
MarkSent(p) ==
    /\ job[p].pc = "mark"
    /\ sig' = [sig EXCEPT ![job[p].i].status = "sent"]
    /\ track' = [track EXCEPT ![job[p].i] = Promoted(@)]
    /\ lost' = lost \ {job[p].i}
    /\ Go(p, Idle)
    /\ UNCHANGED <<cfg, edge, own, market, pushed, wants, pauses, stale, used>>
-----------------------------------------------------------------------------
(***************************************************************************)
(* run_assist_signals                                                      *)
(***************************************************************************)
\* scan_signal_candidates: no position, a side, not the same idea; the caps of the
\* other symbols admit it or not.
Scan ==
    LET p == "signals" IN
    /\ job[p].pc = "scan"
    /\ \/ /\ ~market.open /\ market.now \in Sides /\ ~SameIdea(market.now) /\ Fresh # {}
          /\ \E pc \in {"insert", "blocked"} :
                Go(p, [At(p, pc) EXCEPT !.side = market.now, !.flip = Flipped(market.now)])
       \/ /\ market.open \/ market.now \notin Sides \/ SameIdea(market.now) \/ Fresh = {}
          /\ Go(p, Idle)
    /\ Calm /\ UNCHANGED <<rows, cfg, edge, own, market, history>>

\* record_blocked_signal: a row of its own unless a track of the side is open.
Blocked ==
    LET p == "signals" IN
    /\ job[p].pc = "blocked"
    /\ \/ /\ market.now \in Sides
          /\ ~OpenTrack(market.now, {"held", "sent", "blocked"})
          /\ \E i \in Fresh :
                /\ sig' = [sig EXCEPT ![i] = [NoSig EXCEPT !.status = "blocked", !.side = market.now]]
                /\ track' = [track EXCEPT ![i] = [kind |-> "blocked", open |-> TRUE]]
       \/ UNCHANGED rows
    /\ Go(p, Idle)
    /\ Calm /\ UNCHANGED <<cfg, edge, own, market, history>>

\* insert_signal: expire_older_held commits on its own when it finds one.
Insert ==
    LET p == "signals" IN
    /\ job[p].pc = "insert"
    /\ \E i \in Fresh :
          /\ sig' = [Expiring(sig, Rows({"held"})) EXCEPT
                        ![i] = [status |-> "held", side |-> job[p].side,
                                recent |-> TRUE, flip |-> job[p].flip]]
          /\ IF Rows({"held"}) # {}
             THEN track' = track /\ Go(p, [At(p, "track") EXCEPT !.i = i])
             ELSE /\ track' = [track EXCEPT ![i] = HeldTrack(job[p].side)]
                  /\ Go(p, IF job[p].night THEN Idle ELSE [At(p, "push") EXCEPT !.i = i])
    /\ UNCHANGED <<cfg, edge, own, market, history, used>>

InsertTrack ==
    LET p == "signals" IN      \* INSERT OR IGNORE
    /\ job[p].pc = "track"
    /\ track' = IF track[job[p].i] = NoTrack
                THEN [track EXCEPT ![job[p].i] = HeldTrack(job[p].side)] ELSE track
    /\ Go(p, IF job[p].night THEN Idle ELSE At(p, "push"))
    /\ UNCHANGED <<sig, cfg, edge, own, market, history, used>>
-----------------------------------------------------------------------------
(***************************************************************************)
(* run_assist_morning                                                      *)
(***************************************************************************)
\* A mutant of Listed: an idea the market has left is passed over, not expired.
ListedAgreeing(ids) == {i \in ids : sig[i].side = market.now}

Listed(ids) == ids

\* expire_older_held_keep_newest, then what is left.
List ==
    LET p    == "morning"
        held == Rows({"held"})
        keep == Newest(held)
    IN  /\ job[p].pc = "list"
        /\ sig' = Expiring(sig, held \ keep)
        /\ Go(p, IF Listed(keep) = {} THEN Idle
                 ELSE [At(p, "decide") EXCEPT !.i = CHOOSE i \in keep : TRUE])
        /\ UNCHANGED <<track, cfg, edge, own, market, history, used>>

\* An open position, another side, a chased price, no mark price or a cap expires the
\* idea, whatever became of it since it was listed.
Decide ==
    LET p == "morning" IN
    /\ job[p].pc = "decide"
    /\ \/ /\ ~job[p].open /\ market.now = sig[job[p].i].side
          /\ Go(p, At(p, "push")) /\ sig' = sig
       \/ sig' = Expiring(sig, {job[p].i}) /\ Go(p, Idle)
    /\ UNCHANGED <<track, cfg, edge, own, market, history, used>>
-----------------------------------------------------------------------------
(***************************************************************************)
(* The owner's taps, one after the other in the listener.                  *)
(***************************************************************************)
Tap == own.pc = "idle" /\ Event
ReadFor(pc) == own' = [NoTap EXCEPT !.pc = pc, !.cfg = cfg]

\* mark_signal_skipped
Skip(i) ==
    /\ Tap /\ pushed[i] > 0 /\ sig[i].status \in {"sent", "held"}
    /\ sig' = [sig EXCEPT ![i].status = "skipped"]
    /\ UNCHANGED <<track, cfg, edge, job, own, market, history>>

\* run_entry_sequence ends in mark_signal_taken, which has no guard.
Take(i) ==
    /\ Tap /\ pushed[i] > 0 /\ ~market.open
    /\ sig' = [sig EXCEPT ![i].status = "taken"]
    /\ market' = [market EXCEPT !.open = TRUE]
    /\ UNCHANGED <<track, cfg, edge, job, own, history>>

TapToggle == Tap /\ ReadFor("toggle") /\ UNCHANGED <<rows, cfg, edge, job, market, history>>
TapRisk   == Tap /\ ReadFor("risk")   /\ UNCHANGED <<rows, cfg, edge, job, market, history>>

\* toggle_enabled
Toggle ==
    /\ own.pc = "toggle"
    /\ WriteCfg(own.cfg, [own.cfg EXCEPT !.enabled = ~@])
    /\ wants' = ~own.cfg.enabled
    /\ own' = IF own.cfg.enabled THEN NoTap ELSE [NoTap EXCEPT !.pc = "unpause", !.cfg = cfg']
    /\ UNCHANGED <<rows, edge, job, market, told, pauses, used>>

\* clear_pause_manual
Unpause ==
    /\ own.pc = "unpause"
    /\ WriteCfg(own.cfg, [own.cfg EXCEPT !.paused = "no"])
    /\ own' = [NoTap EXCEPT !.pc = "note_told", !.edge = edge]
    /\ UNCHANGED <<rows, edge, job, market, told, wants, pauses, used>>

\* handle_risk_callback: at most 3 %.
SetRisk ==
    /\ own.pc = "risk"
    /\ WriteCfg(own.cfg, [own.cfg EXCEPT !.risk = "ok"])
    /\ own' = NoTap
    /\ UNCHANGED <<rows, edge, job, market, told, wants, pauses, used>>

\* _note_listener_failure and _note_listener_ok, on fields of their own.
ListenerNotes ==
    /\ Tap
    /\ own' = [NoTap EXCEPT !.pc = "note", !.edge = edge]
    /\ UNCHANGED <<rows, cfg, edge, job, market, history>>

Note ==
    /\ own.pc \in {"note", "note_told"}
    /\ WriteEdge(own.edge, IF own.pc = "note" THEN own.edge ELSE [own.edge EXCEPT !.told = TRUE])
    /\ own' = NoTap
    /\ UNCHANGED <<rows, cfg, job, market, told, wants, pauses, used>>
-----------------------------------------------------------------------------
(***************************************************************************)
(* Around them: the market, the account, the clock, the track resolver.    *)
(***************************************************************************)
Outside == UNCHANGED <<edge, job, own, history>>

Analyse ==
    /\ used.analyses < MaxAnalyses /\ used' = [used EXCEPT !.analyses = @ + 1]
    /\ \E action \in Sides \cup {"flat"} :
          market' = [market EXCEPT !.now = action, !.prev = market.now]
    /\ Outside /\ UNCHANGED <<rows, cfg>>

Close ==
    /\ market.open /\ market' = [market EXCEPT !.open = FALSE]
    /\ Outside /\ UNCHANGED <<rows, cfg, used>>

Lose ==
    /\ market.loss < MaxLosses /\ Event
    /\ market' = [market EXCEPT !.loss = @ + 1]
    /\ Outside /\ UNCHANGED <<rows, cfg>>

Nightfall ==
    /\ ~market.night /\ Event
    /\ market' = [market EXCEPT !.night = TRUE]
    /\ Outside /\ UNCHANGED <<rows, cfg>>

\* paused_until_ms passes.
Lapse ==
    /\ cfg.paused = "yes" /\ cfg' = [cfg EXCEPT !.paused = "over"]
    /\ Outside /\ UNCHANGED <<rows, market, used>>

Daybreak ==
    /\ market.night /\ market' = [market EXCEPT !.night = FALSE]
    /\ Outside /\ UNCHANGED <<rows, cfg, used>>

\* resolve_open_tracks
Resolve(i) ==
    /\ track[i].open /\ track' = [track EXCEPT ![i].open = FALSE]
    /\ Outside /\ UNCHANGED <<sig, cfg, market, used>>

\* The oldest ideas leave SAME_IDEA_MS first.  A run compares with the time it started,
\* so to the signals job this happens between two of its runs.
Age(i) ==
    /\ sig[i].recent /\ \A j \in 1..(i - 1) : ~sig[j].recent
    /\ job["signals"].pc = "idle" /\ Event
    /\ sig' = [sig EXCEPT ![i].recent = FALSE]
    /\ Outside /\ UNCHANGED <<track, cfg, market>>

Die(p) ==
    /\ job[p].pc # "idle" /\ Mishap("crashes")
    /\ lost' = IF job[p].pc = "mark" THEN lost \cup {job[p].i} ELSE lost
    /\ Go(p, Idle)
    /\ UNCHANGED <<rows, cfg, edge, own, market, pushed, wants, pauses, stale>>
-----------------------------------------------------------------------------
Shared(p) ==
    \/ Resume(p) \/ ResumeTold(p) \/ Clamp(p) \/ Account(p) \/ AccountNoted(p)
    \/ Pause(p) \/ PauseWrites(p) \/ PauseAnchors(p) \/ Push(p) \/ MarkSent(p)

Step(p) == Start(p) \/ Shared(p)
Morning == Step("morning") \/ List \/ Decide
Signals == Step("signals") \/ Scan \/ Blocked \/ Insert \/ InsertTrack

Owner ==
    \/ \E i \in Ideas : Skip(i) \/ Take(i)
    \/ TapToggle \/ TapRisk \/ ListenerNotes \/ Toggle \/ Unpause \/ SetRisk \/ Note

World ==
    \/ Analyse \/ Close \/ Lose \/ Nightfall \/ Lapse \/ Daybreak
    \/ \E i \in Ideas : Resolve(i) \/ Age(i)

Next == Morning \/ Signals \/ Owner \/ World \/ \E p \in Jobs : Die(p)

Spec == Init /\ [][Next]_vars

\* The scheduler starts both jobs again and again, the morning job also at hours when the
\* signals job does not run; a job that runs ends, and a pause lapses.
FairSpec == Spec /\ SF_vars(Morning) /\ WF_vars(Signals) /\ WF_vars(Lapse)
-----------------------------------------------------------------------------
Pushes(p) == pushed' # pushed /\ job[p].pc = "push" /\ job[p].pc # job'[p].pc

\* "One held per symbol" (signals.py, run_assist_morning pairs new sizes with held rows by
\* the symbol alone): over any number of nights, failed pushes and crashes.
OneHeldPerSymbol == Cardinality(Rows({"held"})) <= 1

\* "A sent signal always gets its own track, even when another track for the same
\* symbol+side is open" (store.py:597), unless its held track was closed before.
SentIsTracked ==
    \A i \in Rows({"sent"}) : track[i].kind = "sent" \/ (track[i].kind = "held" /\ ~track[i].open)

\* After the owner has switched the assistant off ("it will not send a new signal",
\* menu.py:138), a job that starts later pushes nothing; only a whole-row write of
\* settings that were read before the tap can bring the switch back.
OffMeansOff == [][\A p \in Jobs : Pushes(p) => ~job[p].off \/ "cfg" \in stale]_vars

\* A losing streak pauses the assistant once: neither the end of the pause nor the owner's
\* toggle lets the same streak pause it again.
StreakPausesOnce ==
    "edge" \in stale \/ used.crashes \/ used.mixed \/ \A n \in 1..MaxLosses : pauses[n] <= 1

\* The owner sees an idea once in its 24 hours: while the jobs keep out of each other's
\* way, no idea of a side is pushed beside a recent one of the side that he was shown,
\* unless the scan that found it saw the analysis turn to that side, or the job that had
\* shown him the earlier one failed before it could note so.
IdeaSeenOnce ==
    [][\A p \in Jobs : Pushes(p) /\ ~used.mixed =>
          \/ sig[job[p].i].flip
          \/ \A i \in Ideas : pushed[i] > 0 /\ i \notin lost /\ sig[i].recent =>
                 sig[i].side # sig[job[p].i].side]_vars

\* While the assistant is on, an idea that was held is pushed or expired some day.
HeldIsDecided ==
    <>[]cfg.enabled => \A i \in Ideas : (sig[i].status = "held") ~> (sig[i].status # "held")
=============================================================================
