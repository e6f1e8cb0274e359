------------------------------ MODULE NewsLock ------------------------------
(***************************************************************************)
(* The news lock of one workspace: app/news.py, the gate of the signal      *)
(* path (signals.process) and the emergency flatten it starts               *)
(* (signals.flatten_all, engine/common._flatten_account).                   *)
(*                                                                          *)
(* Time counts in steps of half the memo's life.  A calendar row is a pair  *)
(* <<release, time>>, which is also the key (_key) the loop remembers a     *)
(* window by; each trade has a symbol of its own.                           *)
(***************************************************************************)
EXTENDS Integers, FiniteSets, FiniteSetsExt

CONSTANTS Release,    \* titles of the calendar
          Trade,      \* entries that may be signalled
          Before, After,   \* the window's margins
          MemoLife,   \* LOCK_MEMO_S
          Day,        \* steps in one calendar day (_merge replaces whole days)
          MaxTime, MaxEdits, MaxFetches, MaxFaults

VARIABLES now,
          mode,       \* settings news_lock: "off", "block", "flatten"
          calendar,   \* news._events
          source,     \* the calendar the feed would deliver
          memo,       \* news._lock_memo: NoMemo or [at, locked]
          trade,      \* phase of each entry
          open,       \* symbols with a position at the broker
          loop,       \* where news_loop is
          used,       \* the settings this pass of the loop loaded
          sweep,      \* NoSweep or the flatten under way
          flattened,
          failed,     \* windows whose flatten reported errors
          clean,      \* history: positions the error-free flattens had to close
          edits, fetches, faults

loopVars == <<loop, used, sweep, flattened, failed, clean>>
feedVars == <<calendar, source>>
vars == <<now, mode, feedVars, memo, trade, open, loopVars, edits, fetches, faults>>

Rows    == Release \X (0..MaxTime)
NoMemo  == [at |-> -1, locked |-> FALSE]
NoSweep == [keys |-> {}, had |-> {}, seen |-> {}, errors |-> FALSE, stage |-> "none"]

Active(row)  == row[2] - Before <= now /\ now <= row[2] + After
Windows(rows) == {row \in rows : Active(row)}

(* One row per title, anywhere in the calendar or nowhere. *)
Deliveries == {rows \in SUBSET Rows : \A x, y \in rows : x[1] = y[1] => x = y}

Init ==
  /\ now = 0
  /\ mode \in {"off", "block", "flatten"}
  /\ source \in Deliveries
  /\ calendar = source
  /\ memo = NoMemo
  /\ trade = [t \in Trade |-> "idle"]
  /\ open = {}
  /\ loop = "asleep" /\ used = "off" /\ sweep = NoSweep
  /\ flattened = {} /\ failed = {} /\ clean = {}
  /\ edits = 0 /\ fetches = 0 /\ faults = 0

Tick ==
  /\ now < MaxTime
  /\ now' = now + 1
  /\ UNCHANGED <<mode, feedVars, memo, trade, open, loopVars, edits, fetches, faults>>

(* PUT /api/news/settings; config.save_settings raises the generation the
   memo is stamped with. *)
SavedQuietly == UNCHANGED memo
Saved == memo' = NoMemo

SaveSettings(m) ==
  /\ edits < MaxEdits
  /\ edits' = edits + 1
  /\ mode' = m
  /\ Saved
  /\ UNCHANGED <<now, feedVars, trade, open, loopVars, fetches, faults>>

(* The publisher moves, adds or withdraws a release. *)
Reschedule ==
  /\ edits < MaxEdits
  /\ edits' = edits + 1
  /\ source' \in Deliveries
  /\ source' # source
  /\ UNCHANGED <<now, mode, calendar, memo, trade, open, loopVars, fetches, faults>>

(***************************************************************************)
(* The feed.  _merge: the days the new rows span are replaced as a whole,   *)
(* the days outside stay.  An empty or failed fetch keeps the last copy.    *)
(***************************************************************************)
DayOf(row) == row[2] \div Day
Merge(old, new) ==
  IF new = {} THEN old
  ELSE LET days == {DayOf(row) : row \in new}
       IN  new \union {row \in old : DayOf(row) \notin Min(days)..Max(days)}

(* Any part of the source: the weekly file, the preview, or neither, may
   have answered. *)
Refresh ==
  /\ fetches < MaxFetches
  /\ fetches' = fetches + 1
  /\ \E rows \in SUBSET source :
       /\ calendar' = Merge(calendar, rows)
       /\ memo' = NoMemo

(***************************************************************************)
(* The gate of an entry: active_lock(settings) behind its memo.             *)
(***************************************************************************)
MemoHolds == memo # NoMemo /\ now - memo.at < MemoLife
Locked == IF MemoHolds THEN memo.locked
          ELSE mode # "off" /\ Windows(calendar) # {}

Signal(t) ==
  /\ trade[t] = "idle"
  /\ trade' = [trade EXCEPT ![t] = IF Locked THEN "skipped" ELSE "waiting"]
  /\ memo' = IF MemoHolds THEN memo ELSE [at |-> now, locked |-> Locked]
  /\ UNCHANGED <<now, mode, feedVars, open, loopVars, edits, fetches, faults>>

(* It gets its trade lock and the broker fills it; the news lock is not asked
   again. *)
Enter(t) ==
  /\ trade[t] = "waiting"
  /\ trade' = [trade EXCEPT ![t] = "entered"]
  /\ open' = open \union {t}
  /\ UNCHANGED <<now, mode, feedVars, memo, loopVars, edits, fetches, faults>>

(***************************************************************************)
(* news_loop: load the settings, refresh the feed, then the tick.           *)
(***************************************************************************)
Wake ==
  /\ loop = "asleep"
  /\ used' = mode
  /\ loop' = IF mode = "off" THEN "asleep" ELSE "refreshing"
  /\ UNCHANGED <<now, mode, feedVars, memo, trade, open, sweep, flattened, failed,
                 clean, edits, fetches, faults>>

Refreshed ==
  /\ loop = "refreshing"
  /\ loop' = "tick"
  /\ Refresh \/ UNCHANGED <<fetches, calendar, memo>>
  /\ UNCHANGED <<now, mode, source, trade, open, used, sweep, flattened, failed,
                 clean, edits, faults>>

Needed == IF used = "flatten" THEN Windows(calendar) \ flattened ELSE {}

LoopTick ==
  /\ loop = "tick"
  /\ IF Needed = {} THEN loop' = "asleep" /\ UNCHANGED sweep
     ELSE /\ loop' = "sweeping"
          /\ sweep' = [NoSweep EXCEPT !.keys = Needed, !.had = open, !.stage = "read"]
  /\ UNCHANGED <<now, mode, feedVars, memo, trade, open, used, flattened, failed, clean,
                 edits, fetches, faults>>

(* _flatten_account lists the positions; an unreadable list is an error and
   nothing is liquidated. *)
SweepReads ==
  /\ sweep.stage = "read"
  /\ \/ /\ sweep' = [sweep EXCEPT !.seen = open, !.stage = "liquidate"]
        /\ UNCHANGED faults
     \/ /\ faults < MaxFaults
        /\ faults' = faults + 1
        /\ sweep' = [sweep EXCEPT !.errors = TRUE, !.stage = "done"]
  /\ UNCHANGED <<now, mode, feedVars, memo, trade, open, loop, used, flattened,
                 failed, clean, edits, fetches>>

(* A call that raised is judged by one re-read: flat is a success; an open or
   unreadable position is an error. *)
JudgedByAnswer(raised, left, readable) == raised \intersect left # {} /\ readable
Judged(raised, left, readable) == raised # {} /\ (~readable \/ raised \intersect left # {})

(* All liquidations in flight together: some raise, and of those some were
   executed nevertheless. *)
SweepLiquidates ==
  /\ sweep.stage = "liquidate"
  /\ \E raised \in SUBSET sweep.seen, readable \in BOOLEAN : \E kept \in SUBSET raised :
       /\ faults + Cardinality(raised) + (IF readable THEN 0 ELSE 1) <= MaxFaults
       /\ readable \/ raised # {}
       /\ faults' = faults + Cardinality(raised) + (IF readable THEN 0 ELSE 1)
       /\ open' = open \ (sweep.seen \ kept)
       /\ sweep' = [sweep EXCEPT !.stage = "done", !.errors = Judged(raised, kept, readable)]
  /\ UNCHANGED <<now, mode, feedVars, memo, trade, loop, used, flattened, failed,
                 clean, edits, fetches>>

(* flatten_all does not raise: whatever it reports, the windows count as
   flattened. *)
SweepEnds ==
  /\ sweep.stage = "done"
  /\ flattened' = flattened \union sweep.keys
  /\ failed' = IF sweep.errors THEN failed \union sweep.keys ELSE failed
  /\ clean' = IF sweep.errors THEN clean ELSE clean \union sweep.had
  /\ sweep' = NoSweep
  /\ loop' = "asleep"
  /\ UNCHANGED <<now, mode, feedVars, memo, trade, open, used, edits, fetches, faults>>

(* The process restarts: the sets are empty, the calendar comes from the
   database, entries that waited are gone. *)
Restart ==
  /\ faults < MaxFaults
  /\ faults' = faults + 1
  /\ memo' = NoMemo
  /\ loop' = "asleep" /\ sweep' = NoSweep
  /\ flattened' = {} /\ failed' = {}
  /\ trade' = [t \in Trade |-> IF trade[t] = "waiting" THEN "skipped" ELSE trade[t]]
  /\ UNCHANGED <<now, mode, feedVars, open, used, clean, edits, fetches>>

Next ==
  \/ Tick
  \/ \E m \in {"off", "block", "flatten"} \ {mode} : SaveSettings(m)
  \/ Reschedule
  \/ \E t \in Trade : Signal(t) \/ Enter(t)
  \/ Wake \/ Refreshed \/ LoopTick
  \/ SweepReads \/ SweepLiquidates \/ SweepEnds
  \/ Restart

Spec == Init /\ [][Next]_vars

-----------------------------------------------------------------------------
(* Every variable keeps its type, and the loop is sweeping exactly while a
   flatten is under way. *)
TypeOK ==
  /\ now \in 0..MaxTime /\ mode \in {"off", "block", "flatten"}
  /\ calendar \subseteq Rows /\ source \in Deliveries
  /\ memo.at \in -1..now /\ memo.locked \in BOOLEAN
  /\ trade \in [Trade -> {"idle", "skipped", "waiting", "entered"}]
  /\ open \subseteq {t \in Trade : trade[t] = "entered"}
  /\ loop \in {"asleep", "refreshing", "tick", "sweeping"}
  /\ (loop = "sweeping") = (sweep.stage # "none")
  /\ flattened \subseteq Rows /\ failed \subseteq flattened

(* No entry passes the gate once a window of today's settings and of today's
   calendar has been open for as long as the memo lives: the memo (2 s) never
   outlives a change of the settings or of the feed (news.active_lock). *)
GateStep ==
    \A t \in Trade : trade[t] = "idle" /\ trade'[t] = "waiting" =>
        ~\E row \in calendar : /\ mode # "off"
                               /\ Active(row)
                               /\ row[2] - Before <= now - MemoLife
GateClosed == [][GateStep]_vars

(* A flatten that reports no error has closed every position that was open
   when it began: a call that raised is trusted only after the broker was
   re-read (engine/common._flatten_account). *)
CleanMeansFlat == clean \intersect open = {}

(* "only a completed flatten counts; a failed one is retried next tick"
   (news._tick_area): a window whose flatten reported errors is not crossed
   off. *)
FailedIsRetried == failed \intersect flattened = {}
=============================================================================
