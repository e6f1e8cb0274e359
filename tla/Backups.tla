------------------------------ MODULE Backups ------------------------------
(***************************************************************************)
(* Backups, the updater and the restore of a rollback (app/backups.py,     *)
(* app/updater.py).  A snapshot is written and rotated on a thread of its  *)
(* own while requests and the readiness check read, prune and save the     *)
(* same index; an update takes a snapshot, moves the checkout, installs    *)
(* the requirements and has the bridge restarted a moment later; a         *)
(* rollback moves the checkout back and leaves a marker from which the     *)
(* next start copies the snapshot over the live database.  Until that      *)
(* restart comes another update or rollback may begin.  Any git, pip, disk *)
(* or snapshot step may fail and the process may die between two of them.  *)
(*                                                                         *)
(* The database is the set of its commits: those in the file and those     *)
(* still in the write-ahead log.                                           *)
(***************************************************************************)
EXTENDS Integers, FiniteSets, FiniteSetsExt

CONSTANTS
    MaxSnaps, MaxCommits, MaxFaults, MaxDeletes,
    KeepDaily, KeepWeekly       \* keep_daily, keep_weekly (keep_monthly alike)

\* what the constants satisfy
BackupsAssumption == KeepDaily \in Nat \ {0} /\ KeepWeekly \in Nat

VARIABLES
    snaps,          \* snapshots made so far: commits, verified, weekly (ghost of the files)
    files, index,   \* the backup directory; the index in `meta`
    pool, poolKept, \* the snapshot thread: "idle", "written", "rotated"; what it will save
    look, lookRows, \* the event loop in list_backups / delete: "idle", "list", "delete"; rows read
    victim,         \* the snapshot being deleted
    main, wal,      \* the live database
    kept,           \* fluxbridge.db.pre-rollback, and what it stands for
    marker,         \* restore.pending: the snapshot, or 0
    job,            \* the update or rollback under way
    due,            \* a restart is scheduled (call_later)
    point, back,    \* PRE_UPDATE_KEY: the snapshot (0 = none, -1 = no point) and the revision
    code, deps,     \* the checkout; the installed requirements
    up,             \* "running", "restarting", "starting", "copying", "replacing", "stuck"
    commits, faults, deletes

store == <<snaps, files, index>>
thread == <<pool, poolKept>>
request == <<look, lookRows, victim>>
database == <<main, wal, kept>>
tree == <<code, deps>>
return == <<point, back>>
vars == <<store, thread, request, database, marker, job, due, return, tree, up, commits, faults, deletes>>

Snap == 1..MaxSnaps
Made == DOMAIN snaps
NoCopy == [has |-> {}, of |-> {}]

TypeOK ==
    /\ Made \subseteq Snap /\ files \subseteq Made /\ index \subseteq Made /\ poolKept \subseteq Made
    /\ pool \in {"idle", "written", "rotated"} /\ look \in {"idle", "list", "delete"}
    /\ lookRows \subseteq Made /\ marker \in 0..MaxSnaps /\ point \in -1..MaxSnaps
    /\ job \in {"none", "update", "snapshot", "fetch", "reset", "undo", "rollback", "requirements", "done"}
    /\ due \in BOOLEAN /\ back \in {"old", "new"}
    /\ code \in {"old", "new"} /\ deps \in {"old", "new", "mixed"}
    /\ up \in {"running", "restarting", "starting", "copying", "replacing"}
    /\ kept.has \subseteq kept.of

Init ==
    /\ snaps = <<>> /\ files = {} /\ index = {} /\ pool = "idle" /\ poolKept = {}
    /\ look = "idle" /\ lookRows = {} /\ victim = 0
    /\ main = {} /\ wal = {} /\ kept = NoCopy /\ marker = 0
    /\ job = "none" /\ due = FALSE /\ point = -1 /\ back = "old" /\ code = "old" /\ deps = "old" /\ up = "running"
    /\ commits = 0 /\ faults = 0 /\ deletes = 0

Fault == faults < MaxFaults /\ faults' = faults + 1
Running == up = "running"

(***************************************************************************)
(* The database                                                            *)
(***************************************************************************)
Commit ==
    /\ Running /\ commits < MaxCommits /\ commits' = commits + 1 /\ wal' = wal \cup {commits + 1}
    /\ UNCHANGED <<store, thread, request, main, kept, marker, job, due, return, tree, up, faults, deletes>>

Checkpoint ==
    /\ Running /\ wal # {} /\ main' = main \cup wal /\ wal' = {}
    /\ UNCHANGED <<store, thread, request, kept, marker, job, due, return, tree, up, commits, faults, deletes>>

(***************************************************************************)
(* _make_snapshot_sync, on the snapshot thread                             *)
(***************************************************************************)
\* rotate: the newest of each role, and the newest verified one
Newest(s, n) == {x \in s : Cardinality({y \in s : y > x}) < n}
Verified(s) == {x \in s : snaps[x].verified}
RotateByAge(s) == Newest(s, KeepDaily) \cup Newest({x \in s : snaps[x].weekly}, KeepWeekly)
Rotate(s) == Newest(s, KeepDaily) \cup Newest({x \in s : snaps[x].weekly}, KeepWeekly) \cup Newest(Verified(s), 1)

\* write_snapshot through the online backup API, replaced into place, probed
Snapshot ==
    /\ Running /\ pool = "idle" /\ Cardinality(Made) < MaxSnaps
    /\ \E ok, weekly \in BOOLEAN :
          LET n == Cardinality(Made) + 1
              s == [commits |-> main \cup wal, verified |-> ok, weekly |-> weekly]
          IN  /\ snaps' = [x \in Made \cup {n} |-> IF x = n THEN s ELSE snaps[x]]
              /\ files' = files \cup {n}
    /\ pool' = "written"
    /\ UNCHANGED <<index, poolKept, request, database, marker, job, due, return, tree, up, commits, faults, deletes>>

\* the index is read, the rotated files are unlinked
RotateFiles ==
    /\ Running /\ pool = "written" /\ pool' = "rotated"
    /\ LET rows == index \cup {Cardinality(Made)} IN
          poolKept' = Rotate(rows) /\ files' = files \ (rows \ Rotate(rows))
    /\ UNCHANGED <<snaps, index, request, database, marker, job, due, return, tree, up, commits, faults, deletes>>

SaveIndex ==
    /\ Running /\ pool = "rotated" /\ pool' = "idle" /\ poolKept' = {}
    /\ index' = poolKept
    /\ job' = IF job = "snapshot" THEN "fetch" ELSE job
    /\ IF job = "snapshot" THEN point' = Cardinality(Made) /\ back' = code ELSE UNCHANGED return
    /\ UNCHANGED <<snaps, files, request, database, marker, due, tree, up, commits, faults, deletes>>

(***************************************************************************)
(* list_backups and delete, on the event loop                              *)
(***************************************************************************)
ListReads ==
    /\ Running /\ look = "idle" /\ look' = "list" /\ lookRows' = index
    /\ UNCHANGED <<store, thread, victim, database, marker, job, due, return, tree, up, commits, faults, deletes>>

\* entries whose file vanished are dropped; nothing is saved when none did
ListEnds ==
    /\ Running /\ look = "list" /\ look' = "idle" /\ lookRows' = {}
    /\ index' = IF lookRows \subseteq files THEN index ELSE lookRows \cap files
    /\ UNCHANGED <<snaps, files, thread, victim, database, marker, job, due, return, tree, up, commits, faults, deletes>>

DeleteReads(n) ==
    /\ Running /\ look = "idle" /\ n \in index /\ deletes < MaxDeletes /\ deletes' = deletes + 1
    /\ look' = "delete" /\ lookRows' = index /\ victim' = n
    /\ UNCHANGED <<store, thread, database, marker, job, due, return, tree, up, commits, faults>>

DeleteEnds ==
    /\ Running /\ look = "delete" /\ look' = "idle" /\ lookRows' = {} /\ victim' = 0
    /\ index' = lookRows \ {victim} /\ files' = files \ {victim}
    /\ UNCHANGED <<snaps, thread, database, marker, job, due, return, tree, up, commits, faults, deletes>>

(***************************************************************************)
(* _apply_update and rollback, one at a time (_apply_lock)                 *)
(***************************************************************************)
Unchanged == UNCHANGED <<store, thread, request, database, marker, up, commits, deletes>>

\* a job may begin once the one before has ended; its restart may be still to come
Free == Running /\ job \in {"none", "done"}

\* the snapshot of an update is waited for; one that fails leaves a point without a database
UpdateBegins ==
    /\ Free /\ pool = "idle"
    /\ \/ job' = "snapshot" /\ Cardinality(Made) < MaxSnaps /\ UNCHANGED <<return, faults>>
       \/ job' = "fetch" /\ point' = 0 /\ back' = code /\ Fault
    /\ UNCHANGED <<due, tree>> /\ Unchanged

\* git fetch, git reset --hard origin/<branch>
CheckoutMoves ==
    /\ Running /\ job = "fetch"
    /\ \/ job' = "reset" /\ code' = "new" /\ UNCHANGED faults
       \/ job' = "none" /\ Fault /\ UNCHANGED code
    /\ UNCHANGED <<due, return, deps>> /\ Unchanged

\* pip install: a failure leaves an unknown mix and takes the checkout back
RequirementsOfUpdate ==
    /\ Running /\ job = "reset"
    /\ \/ job' = "done" /\ due' = TRUE /\ deps' = code /\ UNCHANGED faults
       \/ job' = "undo" /\ deps' = "mixed" /\ Fault /\ UNCHANGED due
    /\ UNCHANGED <<return, code>> /\ Unchanged

UpdateUndone ==
    /\ Running /\ job = "undo" /\ job' = "none"
    /\ \/ code' = back /\ deps' \in {back, "mixed"} /\ UNCHANGED faults
       \/ Fault /\ UNCHANGED <<code, deps>>
    /\ UNCHANGED <<due, return>> /\ Unchanged

RollbackBegins ==
    /\ Free /\ point >= 0
    /\ \/ job' = "rollback" /\ code' = back /\ UNCHANGED faults
       \/ job' = "none" /\ Fault /\ UNCHANGED code
    /\ UNCHANGED <<due, return, deps>> /\ Unchanged

\* fault: the restart is scheduled whatever pip said
RollbackInstallsAnyway ==
    /\ Running /\ job = "rollback"
    /\ job' = "requirements"
    /\ \/ deps' = code /\ UNCHANGED faults
       \/ deps' = "mixed" /\ Fault
    /\ UNCHANGED <<due, return, code>> /\ Unchanged
RollbackInstalls ==
    /\ Running /\ job = "rollback"
    /\ \/ job' = "requirements" /\ deps' = code /\ UNCHANGED faults
       \/ job' = "none" /\ deps' = "mixed" /\ Fault
    /\ UNCHANGED <<due, return, code>> /\ Unchanged

\* schedule_restore raises when the snapshot was rotated away meanwhile
Listed(n) == n \in files /\ n \in index
RollbackEnds ==
    /\ Running /\ job = "requirements"
    /\ \/ job' = "done" /\ due' = TRUE /\ UNCHANGED marker
       \/ point > 0 /\ Listed(point) /\ job' = "done" /\ due' = TRUE /\ marker' = point
       \/ point > 0 /\ ~Listed(point) /\ job' = "none" /\ UNCHANGED <<marker, due>>
    /\ UNCHANGED <<store, thread, request, database, return, tree, up, commits, faults, deletes>>

(***************************************************************************)
(* _restart and apply_pending_restore                                      *)
(***************************************************************************)
\* the process goes: the git or pip command under way may end, or stop, without it
Gone ==
    /\ up' = "starting" /\ job' = "none" /\ due' = FALSE
    /\ code' \in {code} \cup {c \in {"new"} : job = "fetch"} \cup {c \in {back} : job = "undo"}
    /\ deps' \in {deps} \cup {d \in {code', "mixed"} : job \in {"reset", "undo", "rollback"}}
    /\ pool' = "idle" /\ poolKept' = {} /\ look' = "idle" /\ lookRows' = {} /\ victim' = 0
    /\ UNCHANGED <<store, kept, marker, return, commits, deletes>>

\* the timer of a job that ended, whatever began since; a supervised process closes its
\* connections, which checkpoints; execv does not
Restart ==
    /\ Running /\ due /\ Gone
    /\ \/ UNCHANGED <<main, wal>>
       \/ main' = main \cup wal /\ wal' = {}
    /\ UNCHANGED faults

\* the process dies: nothing is checkpointed, the files stay
Die == Fault /\ Gone /\ UNCHANGED <<main, wal>>

\* the marker goes first; a snapshot that is gone or rotten leaves the live database
RestoreBegins ==
    /\ up = "starting" /\ marker # 0
    /\ \/ marker \in files /\ up' = "copying" /\ victim' = marker /\ UNCHANGED faults
       \/ marker \notin files /\ up' = "running" /\ UNCHANGED <<victim, faults>>
       \/ marker \in files /\ up' = "running" /\ Fault /\ UNCHANGED victim
    /\ marker' = 0
    /\ UNCHANGED <<store, thread, look, lookRows, database, job, due, return, tree, commits, deletes>>

\* the live file is kept, its -wal is unlinked
KeepLive ==
    /\ up = "copying" /\ up' = "replacing"
    /\ kept' = [has |-> main, of |-> main \cup wal] /\ wal' = {}
    /\ UNCHANGED <<store, thread, request, main, marker, job, due, return, tree, commits, faults, deletes>>

\* the snapshot is copied beside it and replaced into place; a full disk fails the copy
RestoreEnds ==
    /\ up = "replacing" /\ up' = "running" /\ victim' = 0
    /\ \/ main' = snaps[victim].commits /\ UNCHANGED faults
       \/ Fault /\ UNCHANGED main
    /\ UNCHANGED <<store, thread, look, lookRows, wal, kept, marker, job, due, return, tree, commits, deletes>>

StartsPlain ==
    /\ up = "starting" /\ marker = 0 /\ up' = "running"
    /\ UNCHANGED <<store, thread, request, database, marker, job, due, return, tree, commits, faults, deletes>>

Next ==
    \/ Commit \/ Checkpoint \/ Snapshot \/ RotateFiles \/ SaveIndex \/ ListReads \/ ListEnds
    \/ \E n \in Snap : DeleteReads(n)
    \/ DeleteEnds \/ UpdateBegins \/ CheckoutMoves \/ RequirementsOfUpdate \/ UpdateUndone
    \/ RollbackBegins \/ RollbackInstalls \/ RollbackEnds \/ Restart \/ Die
    \/ RestoreBegins \/ KeepLive \/ RestoreEnds \/ StartsPlain

Spec == Init /\ [][Next]_vars

(***************************************************************************)
(* Properties                                                              *)
(***************************************************************************)
\* However the rotation, the listings and crashes interleave, the last snapshot
\* that passed its probe stays on disk until the admin deletes one
\* (backups.rotate: age alone would rotate it away exactly when it is needed).
VerifiedStays == deletes = 0 /\ Verified(Made) # {} => Max(Verified(Made)) \in files

\* An update or a rollback ends with a restart scheduled only when the requirements of
\* the checkout it leaves are installed, and so it stays until another one begins,
\* whatever failed on the way ("no restart is scheduled", app/updater.py).
ScheduledRunnable == job = "done" => due /\ code = deps

\* "a restart into a revision whose requirements are missing would not come back up"
\* (updater.py): no restart finds them missing.  Not so: the lock is let go before the
\* restart comes, which may hit, or follow the failure of, an update begun meanwhile.
RestartsRunnable == [][Restart => code' = deps']_vars

\* app/backups.py:553 "the live file is kept as fluxbridge.db.pre-rollback": what a
\* restore replaced is kept with all its commits.
KeptIsWhole == kept.has = kept.of
=============================================================================
