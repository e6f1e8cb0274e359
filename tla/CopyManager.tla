---------------------------- MODULE CopyManager ----------------------------
(***************************************************************************)
(* The runners of a workspace's copy groups (app/copy/manager.py, the life *)
(* cycle in group_runner.py, routers/copy.py and routers/marketplace.py).  *)
(* Every edit of a group and every change of its marketplace followers     *)
(* ends in sync_area, which a loop calls as well: under the workspace's    *)
(* lock it stops the runners whose group changed or went, adopts a changed *)
(* list of followers in place and starts what is missing, and it awaits    *)
(* the broker in between.                                                  *)
(*                                                                         *)
(* A group has one marketplace follower. One twin stands for its orders.   *)
(***************************************************************************)
EXTENDS Integers, FiniteSets

CONSTANTS
    Group,      \* the copy groups of the workspace
    Request,    \* requests that may be under way at a time
    MaxEdits, MaxFaults   \* bounds: requests altogether, calls that fail or are cancelled

VARIABLES
    list,       \* the stored copy_groups: per group whether it is enabled and its version
    subs,       \* whether the follower's subscription is stored and active
    table,      \* _runners
    twin,       \* whether a mirrored order works at the follower
    lock,       \* who holds the workspace's lock
    job,        \* what the loop and each request are at
    loose,      \* a placement a cancelled stop left in flight
    edits, faults

vars == <<list, subs, table, twin, lock, job, loose, edits, faults>>

Caller == {"loop"} \cup Request
NoOne == "no one"

\* what the constants satisfy
CopyManagerAssumption ==
    /\ Group # {} /\ NoOne \notin Caller
    /\ MaxEdits \in Nat /\ MaxFaults \in Nat
Nobody == [ver |-> -1, ext |-> FALSE, placing |-> FALSE]
Runner == [ver : 0 .. MaxEdits, ext : BOOLEAN, placing : BOOLEAN]
Version == [on : BOOLEAN, ver : 0 .. MaxEdits]
Idle ==
    [pc |-> "idle", list |-> [g \in Group |-> [on |-> FALSE, ver |-> 0]], todo |-> {},
     g |-> CHOOSE g \in Group : TRUE, r |-> Nobody]

TypeOK ==
    /\ list \in [Group -> Version] /\ subs \in [Group -> BOOLEAN]
    /\ table \in [Group -> Runner \cup {Nobody}]
    /\ twin \in [Group -> BOOLEAN] /\ loose \in [Group -> BOOLEAN]
    /\ lock \in Caller \cup {NoOne}
    /\ job \in [Caller -> [pc : {"idle", "cancels", "releases", "waits", "stops", "lets", "seeds"},
                           list : [Group -> Version], todo : SUBSET Group, g : Group,
                           r : Runner \cup {Nobody}]]
    /\ edits \in 0 .. MaxEdits /\ faults \in 0 .. MaxFaults

Init ==
    /\ list = [g \in Group |-> [on |-> TRUE, ver |-> 0]] /\ subs = [g \in Group |-> TRUE]
    /\ table = [g \in Group |-> Nobody] /\ twin = [g \in Group |-> FALSE]
    /\ lock = NoOne /\ job = [c \in Caller |-> Idle] /\ loose = [g \in Group |-> FALSE]
    /\ edits = 0 /\ faults = 0

Up(g) == table[g] # Nobody
Fault == faults < MaxFaults /\ faults' = faults + 1
-----------------------------------------------------------------------------
(* sync_area                                                               *)

\* fault: an edited group keeps its runner
ChangedIfOff(l, t, g) == t[g] # Nobody /\ ~l[g].on

\* What a runner in the table needs, of the groups as they were read.
Changed(l, t, g) == t[g] # Nobody /\ (~l[g].on \/ l[g].ver # t[g].ver)
Needs(l, t, g) == t[g] # Nobody /\ (Changed(l, t, g) \/ t[g].ext # subs[g])

\* Starts what is missing, of the groups read when the lock was taken, and lets go.
StartMissing(c, l, t) ==
    /\ table' = [g \in Group |-> IF l[g].on /\ t[g] = Nobody
                                 THEN [ver |-> l[g].ver, ext |-> subs[g], placing |-> FALSE] ELSE t[g]]
    /\ job' = [job EXCEPT ![c] = Idle] /\ lock' = NoOne

\* Goes over the runners up to the next await; those passed over needed nothing. A
\* runner is gone from the table before its stop is awaited.
Turn(c, l, t, todo) ==
    \/ (\A g \in todo : ~Needs(l, t, g)) /\ StartMissing(c, l, t)
    \/ \E g \in {h \in todo : Needs(l, t, h)}, rest \in SUBSET todo :
        /\ g \notin rest /\ \A h \in todo \ (rest \cup {g}) : ~Needs(l, t, h)
        /\ lock' = c
        /\ LET At(pc, r) == [pc |-> pc, list |-> l, todo |-> rest, g |-> g, r |-> r] IN
           \/ /\ Changed(l, t, g)
              /\ table' = [t EXCEPT ![g] = Nobody]
              /\ job' = [job EXCEPT ![c] = At("stops", t[g])]
           \/ /\ ~Changed(l, t, g) /\ t[g].ext
              /\ job' = [job EXCEPT ![c] = At("lets", Nobody)] /\ table' = t
           \/ /\ ~Changed(l, t, g) /\ ~t[g].ext
              /\ table' = [t EXCEPT ![g].ext = TRUE]
              /\ job' = [job EXCEPT ![c] = At("seeds", Nobody)]

\* fault: the lock is not taken
AcquireNoLock(c) ==
    /\ job[c].pc = "waits"
    /\ \/ Turn(c, list, table, Group) /\ UNCHANGED faults
       \/ Fault /\ job' = [job EXCEPT ![c] = Idle] /\ UNCHANGED <<table, lock>>
    /\ UNCHANGED <<list, subs, twin, loose, edits>>

\* Settings that cannot be read end the request, or this pass of the loop.
Acquire(c) ==
    /\ job[c].pc = "waits" /\ lock = NoOne
    /\ \/ Turn(c, list, table, Group) /\ UNCHANGED faults
       \/ Fault /\ job' = [job EXCEPT ![c] = Idle] /\ UNCHANGED <<table, lock>>
    /\ UNCHANGED <<list, subs, twin, loose, edits>>

\* The tasks of the runner have ended and its placements are recorded (stop).
Stopped(c) ==
    /\ job[c].pc = "stops" /\ ~job[c].r.placing
    /\ Turn(c, job[c].list, table, job[c].todo)
    /\ UNCHANGED <<list, subs, twin, loose, edits, faults>>

\* Only the wait for the placements lets a cancellation through.
CancelledInStop(c) ==
    /\ job[c].pc = "stops" /\ job[c].r.placing /\ c # "loop" /\ Fault
    /\ loose' = [loose EXCEPT ![job[c].g] = TRUE]
    /\ job' = [job EXCEPT ![c] = Idle] /\ lock' = NoOne
    /\ UNCHANGED <<list, subs, table, twin, edits>>

\* A cancel that fails is told and left behind.
CancelTwins(g) == \/ twin' = [twin EXCEPT ![g] = FALSE] /\ UNCHANGED faults
                  \/ Fault /\ UNCHANGED twin

\* The follower that left is released, then dropped from the runner.
Let(c) ==
    /\ job[c].pc = "lets"
    /\ CancelTwins(job[c].g)
    /\ table' = [table EXCEPT ![job[c].g].ext = FALSE]
    /\ job' = [job EXCEPT ![c].pc = "seeds"]
    /\ UNCHANGED <<list, subs, lock, loose, edits>>

Seeded(c) ==
    /\ job[c].pc = "seeds"
    /\ Turn(c, job[c].list, table, job[c].todo)
    /\ UNCHANGED <<list, subs, twin, loose, edits, faults>>

LoopBegins ==
    /\ job["loop"].pc = "idle" /\ job' = [job EXCEPT !["loop"].pc = "waits"]
    /\ UNCHANGED <<list, subs, table, twin, lock, loose, edits, faults>>
-----------------------------------------------------------------------------
(* Requests                                                                *)

Begins(c) == job[c].pc = "idle" /\ edits < MaxEdits /\ edits' = edits + 1

\* api_update_group, and _set_enabled(True)
UpdateGroup(c, g) ==
    /\ Begins(c)
    /\ list' \in {[list EXCEPT ![g].ver = @ + 1], [list EXCEPT ![g].on = TRUE]}
    /\ job' = [job EXCEPT ![c].pc = "waits"]
    /\ UNCHANGED <<subs, table, twin, lock, loose, faults>>

\* _set_enabled(False) and api_delete_group cancel the twins between the reading of
\* the groups and the saving of them.
Disable(c, g) ==
    /\ Begins(c) /\ list[g].on
    /\ LET l == [list EXCEPT ![g].on = FALSE] IN
       \/ /\ Up(g) /\ UNCHANGED list
          /\ job' = [job EXCEPT ![c] = [Idle EXCEPT !.pc = "cancels", !.list = l, !.g = g]]
       \/ ~Up(g) /\ list' = l /\ job' = [job EXCEPT ![c].pc = "waits"]
    /\ UNCHANGED <<subs, table, twin, lock, loose, faults>>
Cancelled(c) ==
    /\ job[c].pc = "cancels"
    /\ CancelTwins(job[c].g)
    /\ list' = job[c].list /\ job' = [job EXCEPT ![c] = [Idle EXCEPT !.pc = "waits"]]
    /\ UNCHANGED <<subs, table, lock, loose, edits>>

Subscribe(c, g) ==
    /\ Begins(c) /\ ~subs[g] /\ subs' = [subs EXCEPT ![g] = TRUE]
    /\ job' = [job EXCEPT ![c].pc = "waits"]
    /\ UNCHANGED <<list, table, twin, lock, loose, faults>>

\* Unsubscribed, kicked or paused: the twins are released before the sync.
Unsubscribe(c, g) ==
    /\ Begins(c) /\ subs[g] /\ subs' = [subs EXCEPT ![g] = FALSE]
    /\ job' = [job EXCEPT ![c] = [Idle EXCEPT !.pc = IF Up(g) THEN "releases" ELSE "waits", !.g = g]]
    /\ UNCHANGED <<list, table, twin, lock, loose, faults>>
Released(c) ==
    /\ job[c].pc = "releases"
    /\ CancelTwins(job[c].g)
    /\ job' = [job EXCEPT ![c] = [Idle EXCEPT !.pc = "waits"]]
    /\ UNCHANGED <<list, subs, table, lock, loose, edits>>
-----------------------------------------------------------------------------
(* The runners                                                             *)

Place(g) ==
    /\ Up(g) /\ table[g].ext /\ ~table[g].placing /\ ~twin[g]
    /\ table' = [table EXCEPT ![g].placing = TRUE]
    /\ UNCHANGED <<list, subs, twin, lock, job, loose, edits, faults>>

\* A placement is shielded from the cancellation of the pass that asked for it.
Placed(g) ==
    /\ \/ /\ Up(g) /\ table[g].placing
          /\ table' = [table EXCEPT ![g].placing = FALSE] /\ UNCHANGED <<job, loose>>
       \/ \E c \in Caller : /\ job[c].pc = "stops" /\ job[c].g = g /\ job[c].r.placing
                            /\ job' = [job EXCEPT ![c].r.placing = FALSE] /\ UNCHANGED <<table, loose>>
       \/ loose[g] /\ loose' = [loose EXCEPT ![g] = FALSE] /\ UNCHANGED <<table, job>>
    /\ twin' = [twin EXCEPT ![g] = TRUE]
    /\ UNCHANGED <<list, subs, lock, edits, faults>>

Step(c) == Acquire(c) \/ Stopped(c) \/ Let(c) \/ Seeded(c) \/ Cancelled(c) \/ Released(c)

Next ==
    \/ LoopBegins
    \/ \E c \in Caller : Step(c) \/ CancelledInStop(c)
    \/ \E c \in Request, g \in Group :
        UpdateGroup(c, g) \/ Disable(c, g) \/ Subscribe(c, g) \/ Unsubscribe(c, g)
    \/ \E g \in Group : Place(g) \/ Placed(g)

Spec == Init /\ [][Next]_vars

\* The loop comes back, calls to brokers end.
FairSpec ==
    /\ Spec /\ WF_vars(LoopBegins) /\ \A c \in Caller : WF_vars(Step(c))
    /\ \A g \in Group : WF_vars(Placed(g))
-----------------------------------------------------------------------------
(* Properties                                                              *)

\* "two callers seeing the same stale runner must not both start a fresh one (every
\* leader change would be mirrored twice)": a group is worked on by one runner, and it
\* starts when the one before has recorded what it placed.
OneRunner ==
    \A g \in Group :
        LET stopping == {c \in Caller : job[c].pc = "stops" /\ job[c].g = g}
        IN Cardinality(stopping) + (IF Up(g) THEN 1 ELSE 0) <= 1

\* However edits and followers come and go while runners are stopped and started,
\* what runs is in the end what is stored.
Follows ==
    \A g \in Group :
        IF list[g].on THEN Up(g) /\ table[g].ver = list[g].ver /\ table[g].ext = subs[g]
        ELSE ~Up(g) /\ \A c \in Caller : ~(job[c].pc = "stops" /\ job[c].g = g)

FollowsInTheEnd == <>[]Follows

\* Not so: no edit is undone by another request. A disabling request saves the groups
\* it read before it cancelled the twins.
NoEditUndone == [][\A g \in Group : list'[g].ver >= list[g].ver]_vars

\* Not so: "never leave twins resting at the broker". What is placed between the
\* cancels and the runner's stop rests there.
NothingRests ==
    (\A c \in Request : job[c].pc = "idle") /\ lock = NoOne =>
        \A g \in Group : ~list[g].on /\ ~Up(g) => ~twin[g]
=============================================================================
