---------------------------- MODULE TradeRecords ----------------------------
(***************************************************************************)
(* The records of tracked trades across restarts (app/signals.py,          *)
(* persist_active, hydrate_active and the loop around them; app/main.py,   *)
(* _startup and _shutdown).  Signals change the records in memory; a pass  *)
(* on a thread writes a snapshot when it differs from the last one that    *)
(* was written; a clean shutdown waits for the signals, cancels the loop,  *)
(* whose thread may still be writing, and writes once more; a start reads  *)
(* the snapshot back.                                                      *)
(*                                                                         *)
(* One workspace; its records are a number that grows with every change.   *)
(***************************************************************************)
EXTENDS Integers

CONSTANTS MaxChanges, MaxFaults, MaxStops   \* bounds: changes of records, failures, ends of the process

VARIABLES
    phase,     \* "up", "draining", "final" or "down"
    signals,   \* whether a signal is under way
    now,       \* the records in memory
    known,     \* whether the workspace has an entry in _active
    stored,    \* the row active_trades of the database
    noted,     \* _persisted
    thread,    \* per writer the snapshot it works with
    mark,      \* history: the records when the last pass without a failure began
    late,      \* history: the loop's thread was still writing when the last pass began
    cutOff,    \* history: a signal outlived the shutdown, or its last pass failed
    descends,  \* history: the records were restored from the row, or begun without one
    changes, faults, stops

vars == <<phase, signals, now, known, stored, noted, thread, mark, late, cutOff, descends,
          changes, faults, stops>>
memory == <<now, known, changes>>
process == <<phase, signals, stops>>
history == <<late, cutOff, descends>>

Writer == {"loop", "final"}
NotNoted == -1
Idle == [pc |-> "idle", snap |-> 0]

\* A failed start makes the records begin anew, with a number of their own.
Record == 0 .. MaxChanges + MaxFaults

TypeOK ==
    /\ phase \in {"up", "draining", "final", "down"} /\ signals \in BOOLEAN
    /\ now \in Record /\ known \in BOOLEAN /\ stored \in Record
    /\ noted \in Record \cup {NotNoted} /\ mark \in Record
    /\ thread \in [Writer -> [pc : {"idle", "write", "note"}, snap : Record]]
    /\ late \in BOOLEAN /\ cutOff \in BOOLEAN /\ descends \in BOOLEAN
    /\ changes \in Record /\ faults \in 0 .. MaxFaults /\ stops \in 0 .. MaxStops

Init ==
    /\ phase = "up" /\ signals = FALSE
    /\ now = 0 /\ known = FALSE /\ stored = 0 /\ noted = NotNoted
    /\ thread = [w \in Writer |-> Idle]
    /\ mark = 0 /\ late = FALSE /\ cutOff = FALSE /\ descends = TRUE
    /\ changes = 0 /\ faults = 0 /\ stops = 0

Fault == faults < MaxFaults /\ faults' = faults + 1
-----------------------------------------------------------------------------
(* Signals                                                                 *)

\* A signal reaches for the workspace's records, which makes an entry (_map_for).
SignalBegins ==
    /\ phase = "up" /\ ~signals
    /\ signals' = TRUE /\ known' = TRUE
    /\ UNCHANGED <<phase, now, changes, stored, noted, thread, mark, history, faults, stops>>

SignalChanges ==
    /\ signals /\ changes < MaxChanges
    /\ changes' = changes + 1 /\ now' = now + 1
    /\ UNCHANGED <<process, known, stored, noted, thread, mark, history, faults>>

SignalEnds ==
    /\ signals /\ signals' = FALSE
    /\ UNCHANGED <<phase, stops, memory, stored, noted, thread, mark, history, faults>>
-----------------------------------------------------------------------------
(* A pass of persist_active                                                *)

\* The last pass of a shutdown ends the process, however it went.
Ended(w, well) ==
    IF w = "final" THEN phase' = "down" /\ cutOff' = (cutOff \/ ~well)
    ELSE UNCHANGED <<phase, cutOff>>

\* The loop's thread after a sleep, or the last pass; a record that changes while
\* it is written out raises in the snapshot.
Begin(w) ==
    /\ thread[w].pc = "idle"
    /\ IF w = "loop" THEN phase \in {"up", "draining"} ELSE phase = "final"
    /\ \/ /\ known /\ (w = "final" \/ noted # now)
          /\ thread' = [thread EXCEPT ![w] = [pc |-> "write", snap |-> now]]
          /\ UNCHANGED <<phase, cutOff, mark, faults>>
       \/ /\ ~known \/ (w = "loop" /\ noted = now)
          /\ mark' = IF known THEN now ELSE mark
          /\ Ended(w, TRUE) /\ UNCHANGED <<thread, faults>>
       \/ known /\ Fault /\ Ended(w, FALSE) /\ UNCHANGED <<thread, mark>>
    /\ UNCHANGED <<signals, stops, memory, stored, noted, late, descends>>

\* fault: noted first, so that a failed write counts as done
WriteNoted(w) ==
    /\ thread[w].pc = "write" /\ noted' = thread[w].snap
    /\ \/ /\ stored' = thread[w].snap
          /\ thread' = [thread EXCEPT ![w].pc = "note"]
          /\ UNCHANGED <<phase, cutOff, faults>>
       \/ Fault /\ thread' = [thread EXCEPT ![w] = Idle] /\ Ended(w, FALSE) /\ UNCHANGED stored
    /\ UNCHANGED <<signals, stops, memory, mark, late, descends>>

\* A failed write is tried again by the next pass.
Write(w) ==
    /\ thread[w].pc = "write"
    /\ \/ /\ stored' = thread[w].snap
          /\ thread' = [thread EXCEPT ![w].pc = "note"]
          /\ UNCHANGED <<phase, cutOff, faults>>
       \/ Fault /\ thread' = [thread EXCEPT ![w] = Idle] /\ Ended(w, FALSE) /\ UNCHANGED stored
    /\ UNCHANGED <<signals, stops, memory, noted, mark, late, descends>>

Note(w) ==
    /\ thread[w].pc = "note"
    /\ noted' = thread[w].snap /\ mark' = thread[w].snap
    /\ thread' = [thread EXCEPT ![w] = Idle]
    /\ Ended(w, TRUE)
    /\ UNCHANGED <<signals, stops, memory, stored, late, descends, faults>>
-----------------------------------------------------------------------------
(* Shutdown, crash and start                                               *)

Shutdown ==
    /\ phase = "up" /\ stops < MaxStops
    /\ phase' = "draining" /\ stops' = stops + 1
    /\ UNCHANGED <<signals, memory, stored, noted, thread, mark, history, faults>>

\* The signals have ended, or the two waits for them are over; the cancelled loop
\* leaves its thread behind.
Drained ==
    /\ phase = "draining" /\ phase' = "final"
    /\ cutOff' = (cutOff \/ signals) /\ late' = (thread["loop"].pc # "idle")
    /\ UNCHANGED <<signals, stops, memory, stored, noted, thread, mark, descends, faults>>

Crash ==
    /\ phase # "down" /\ stops < MaxStops /\ stops' = stops + 1
    /\ phase' = "down" /\ cutOff' = TRUE
    /\ thread' = [w \in Writer |-> Idle] /\ signals' = FALSE
    /\ UNCHANGED <<memory, stored, noted, mark, late, descends, faults>>

\* An exit waits for the threads. A row that cannot be read is not restored.
Start ==
    /\ phase = "down" /\ \A w \in Writer : thread[w].pc = "idle"
    /\ phase' = "up" /\ signals' = FALSE
    /\ mark' = stored /\ late' = FALSE /\ cutOff' = FALSE
    /\ \/ /\ now' = stored /\ known' = (stored > 0) /\ descends' = TRUE
          /\ noted' = IF stored > 0 THEN stored ELSE NotNoted
          /\ UNCHANGED faults
       \/ /\ stored > 0 /\ Fault
          /\ now' = stored + 1 /\ known' = FALSE /\ noted' = NotNoted /\ descends' = FALSE
    /\ UNCHANGED <<stops, changes, stored, thread>>

Works(w) == Begin(w) \/ Write(w) \/ Note(w)

Next ==
    \/ SignalBegins \/ SignalChanges \/ SignalEnds
    \/ \E w \in Writer : Works(w)
    \/ Shutdown \/ Drained \/ Crash \/ Start

Spec == Init /\ [][Next]_vars

\* The loop comes back, a thread finishes, a service is started again.
FairSpec ==
    /\ Spec /\ \A w \in Writer : WF_vars(Works(w))
    /\ WF_vars(Drained) /\ WF_vars(Start)
-----------------------------------------------------------------------------
(* Properties                                                              *)

\* "a crash loses at most that much" (persist_loop): whatever failed before, what a
\* crash restores is not older than the last pass that went well.
RestoresRecent == phase \in {"up", "draining"} => stored >= mark

\* "a clean shutdown writes the rest": what was drained is stored, unless the loop's
\* own thread was still writing.
CleanStopKeeps == phase = "down" /\ ~cutOff /\ ~late /\ known => stored = now

\* A change the passes have not seen is written in the end, failed writes before it
\* notwithstanding.
Written == phase = "up" /\ known => stored = now
WrittenInTheEnd == <>[]Written

\* Not so: the row is replaced only by records that came out of it. After a start
\* that could not read it the first signal's records overwrite it.
NothingForgotten == [][stored' # stored => descends]_vars
=============================================================================
