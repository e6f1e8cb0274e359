------------------------------- MODULE Settings -------------------------------
(***************************************************************************)
(* The settings of the workspaces (app/config.py, app/db/areas.py,         *)
(* app/db/ops.py, app/routers/ops.py): one JSON document per area in       *)
(* SQLite, a cache of it, the index from webhook tokens to areas that is   *)
(* rebuilt when a generation counter moved, and the history of versions    *)
(* an edit leaves behind.  Every operation runs under one lock; any read   *)
(* or write of the database may fail, areas come and go, and a restart     *)
(* forgets the cache, the index and the fingerprints.                      *)
(*                                                                         *)
(* A document has three keys: the webhook's token, the broker login's      *)
(* token and the risk guard's lock, which is machine state.                *)
(***************************************************************************)
EXTENDS Integers, Sequences, FiniteSets, SequencesExt

CONSTANTS
    Area,           \* ids of areas
    MaxHook,        \* tokens a webhook can be given, 0 for none
    Keep,           \* HISTORY_KEEP
    MaxWrites, MaxFaults, MaxRestarts, MaxRestores, MaxAreaChanges

VARIABLES
    live, used,     \* areas that exist; that ever did (an id is never given twice)
    stored,         \* areas.settings
    cache,          \* _cache, a function on the areas it holds
    degraded,       \* _degraded
    hooksGen, areasGen,     \* _webhooks_generation, _areas_generation
    index,          \* _webhook_index: its key, the tokens it knows, every area was readable
    prints,         \* _fingerprints
    versions,       \* settings_history, oldest first
    lost,           \* areas whose last change could not be recorded
    writes, faults, restarts, restores, areaChanges

memory == <<cache, degraded, prints>>
generations == <<hooksGen, areasGen>>
bounds == <<writes, faults, restarts, restores, areaChanges>>
vars == <<live, used, stored, memory, generations, index, versions, lost, bounds>>

Setting == [hook : 0..MaxHook, login : 0..MaxWrites, lock : BOOLEAN]
Default == [hook |-> 0, login |-> 0, lock |-> FALSE]
NoIndex == [key |-> <<-1, -1>>, known |-> {}, whole |-> TRUE]

TypeOK ==
    /\ live \subseteq used /\ used \subseteq Area /\ stored \in [Area -> Setting]
    /\ DOMAIN cache \subseteq Area /\ \A a \in DOMAIN cache : cache[a] \in Setting
    /\ degraded \subseteq Area /\ lost \subseteq Area
    /\ index.known \subseteq Area \X (1..MaxHook) /\ index.whole \in BOOLEAN
    /\ DOMAIN prints \subseteq Area
    /\ \A a \in Area : Len(versions[a]) <= Keep /\ \A i \in DOMAIN versions[a] : versions[a][i] \in Setting

Init ==
    /\ live \in SUBSET Area \ {{}} /\ used = live /\ stored \in [Area -> {[Default EXCEPT !.hook = h] : h \in {0, 1}}]
    /\ cache = <<>> /\ degraded = {} /\ hooksGen = 0 /\ areasGen = 0 /\ index = NoIndex
    /\ prints = <<>> /\ versions = [a \in Area |-> <<>>] /\ lost = {}
    /\ writes = 0 /\ faults = 0 /\ restarts = 0 /\ restores = 0 /\ areaChanges = 0

With(f, a, v) == [x \in DOMAIN f \cup {a} |-> IF x = a THEN v ELSE f[x]]
Without(f, a) == [x \in DOMAIN f \ {a} |-> f[x]]
Fault == faults < MaxFaults /\ faults' = faults + 1

\* what the database answers for an area: its row, or the defaults when it is gone
Row(a) == IF a \in live THEN stored[a] ELSE Default

(***************************************************************************)
(* load_settings                                                           *)
(***************************************************************************)
Load(a) ==
    /\ a \notin DOMAIN cache
    /\ cache' = With(cache, a, Row(a)) /\ degraded' = degraded \ {a}
    /\ UNCHANGED <<live, used, stored, prints, generations, index, versions, lost, bounds>>

\* defaults for this read only: nothing is cached
LoadFails(a) ==
    /\ a \notin DOMAIN cache \cup degraded /\ Fault /\ degraded' = degraded \cup {a}
    /\ UNCHANGED <<live, used, stored, cache, prints, generations, index, versions, lost, writes, restarts, restores, areaChanges>>

(***************************************************************************)
(* _record_version                                                         *)
(***************************************************************************)
Meaningful(x, y) == x.hook # y.hook \/ x.login # y.login

\* fault: the first save of a process is its own baseline
IsNewsFromNow(a, new) == IF a \in DOMAIN prints THEN Meaningful(prints[a], new) ELSE versions[a] = <<>>
\* compared with the last save, after a restart with the newest version
IsNews(a, new) ==
    IF a \in DOMAIN prints THEN Meaningful(prints[a], new)
    ELSE versions[a] = <<>> \/ Meaningful(Last(versions[a]), new)

Kept(s) == IF Len(s) > Keep THEN SubSeq(s, Len(s) - Keep + 1, Len(s)) ELSE s

\* a version that cannot be written never blocks the save
Recorded(a, new) ==
    IF ~IsNews(a, new) THEN UNCHANGED <<versions, lost, faults>>
    ELSE \/ /\ versions' = [versions EXCEPT ![a] = Kept(Append(@, new))]
            /\ lost' = lost \ {a} /\ UNCHANGED faults
         \/ lost' = lost \cup {a} /\ Fault /\ UNCHANGED versions

(***************************************************************************)
(* _load_for_write, _persist                                               *)
(***************************************************************************)
\* fault: the index is not told of a changed webhook list
BumpedNever(a, new) == hooksGen
Bumped(a, new) == IF a \notin DOMAIN cache \/ cache[a].hook # new.hook THEN hooksGen + 1 ELSE hooksGen

Saved(a, new) == IF a \in live THEN [stored EXCEPT ![a] = new] ELSE stored

Persist(a, new) ==
    /\ stored' = Saved(a, new)
    /\ hooksGen' = Bumped(a, new)
    /\ Recorded(a, new)
    /\ cache' = With(cache, a, new) /\ prints' = With(prints, a, new) /\ degraded' = degraded \ {a}

\* fault: an area whose read failed starts from the defaults it was served
WritableEvenDegraded(a) == {IF a \in degraded THEN Default ELSE IF a \in DOMAIN cache THEN cache[a] ELSE Row(a)}
\* the cache when it is current, else a fresh read
Writable(a) == {IF a \in DOMAIN cache \ degraded THEN cache[a] ELSE Row(a)}

Write(a, fresh, key, value) ==
    /\ writes < MaxWrites /\ writes' = writes + 1
    /\ \/ \E s \in fresh : Persist(a, [s EXCEPT ![key] = value])
       \* the statement is refused: nothing moved
       \/ Fault /\ UNCHANGED <<stored, cache, degraded, hooksGen, prints, versions, lost>>
    /\ UNCHANGED <<live, used, areasGen, index, restarts, restores, areaChanges>>

\* a read for a write fails: SettingsUnavailable
WriteRefused(a) ==
    /\ a \notin DOMAIN cache \/ a \in degraded
    /\ Fault /\ degraded' = degraded \cup {a}
    /\ UNCHANGED <<live, used, stored, cache, prints, generations, index, versions, lost, writes, restarts, restores, areaChanges>>

\* config.update in the webhook router
EditWebhook(a) == \E h \in 0..MaxHook : Write(a, Writable(a), "hook", h)

\* risk._write_lock_record, _clear_lock: a key of its own
GuardWrites(a) == \E b \in BOOLEAN : Write(a, Writable(a), "lock", b)

\* update_token_account always reads the row
TokenRenewed(a) == a \in live /\ Write(a, {Row(a)}, "login", writes')

\* its read fails: the defaults hold no login, so nothing is written
RenewalDropped(a) ==
    /\ Fault /\ a \notin degraded /\ degraded' = degraded \cup {a}
    /\ UNCHANGED <<live, used, stored, cache, prints, generations, index, versions, lost, writes, restarts, restores, areaChanges>>

\* api_settings_restore: every key of the version
RestoreVersion(a) ==
    /\ a \in live /\ restores < MaxRestores /\ restores' = restores + 1
    /\ \E v \in ToSet(versions[a]) : Persist(a, v)
    /\ UNCHANGED <<live, used, areasGen, index, writes, restarts, areaChanges>>

(***************************************************************************)
(* Areas come and go                                                       *)
(***************************************************************************)
\* delete_user, then config.invalidate(area)
DeleteArea(a) ==
    /\ a \in live /\ areaChanges < MaxAreaChanges /\ areaChanges' = areaChanges + 1
    /\ live' = live \ {a} /\ areasGen' = areasGen + 1
    /\ cache' = Without(cache, a) /\ hooksGen' = hooksGen + 1
    /\ UNCHANGED <<used, stored, degraded, prints, index, versions, lost, writes, faults, restarts, restores>>

CreateArea(a) ==
    /\ a \notin used /\ areaChanges < MaxAreaChanges /\ areaChanges' = areaChanges + 1
    /\ live' = live \cup {a} /\ used' = used \cup {a}
    /\ stored' = [stored EXCEPT ![a] = Default] /\ areasGen' = areasGen + 1
    /\ UNCHANGED <<memory, hooksGen, index, versions, lost, writes, faults, restarts, restores>>

(***************************************************************************)
(* find_webhook                                                            *)
(***************************************************************************)
Key == <<hooksGen, areasGen>>
Seen(a) == IF a \in DOMAIN cache THEN cache[a] ELSE Row(a)
TokensOf(as) == {<<a, Seen(a).hook>> : a \in {x \in as : Seen(x).hook # 0}}

\* every area is loaded; one that cannot be read contributes the defaults
BuildIndex ==
    /\ index.key # Key
    /\ \E bad \in SUBSET (live \ DOMAIN cache) :
          /\ faults + Cardinality(bad) <= MaxFaults /\ faults' = faults + Cardinality(bad)
          /\ index' = [key |-> Key, known |-> TokensOf(live \ bad), whole |-> bad = {}]
          /\ cache' = [a \in DOMAIN cache \cup (live \ bad) |-> Seen(a)]
          /\ degraded' = (degraded \ (live \ DOMAIN cache)) \cup bad
    /\ UNCHANGED <<live, used, stored, prints, generations, versions, lost, writes, restarts, restores, areaChanges>>

Restart ==
    /\ restarts < MaxRestarts /\ restarts' = restarts + 1
    /\ cache' = <<>> /\ degraded' = {} /\ prints' = <<>> /\ index' = NoIndex
    /\ hooksGen' = 0 /\ areasGen' = 0
    /\ UNCHANGED <<live, used, stored, versions, lost, writes, faults, restores, areaChanges>>

Next ==
    \/ \E a \in used : \/ Load(a) \/ LoadFails(a) \/ WriteRefused(a) \/ EditWebhook(a) \/ GuardWrites(a)
                       \/ TokenRenewed(a) \/ RenewalDropped(a) \/ RestoreVersion(a) \/ DeleteArea(a)
    \/ \E a \in Area : CreateArea(a)
    \/ BuildIndex \/ Restart

Spec == Init /\ [][Next]_vars

(***************************************************************************)
(* Properties                                                              *)
(***************************************************************************)
Changed(x, y) == (IF x.hook # y.hook THEN 1 ELSE 0) + (IF x.login # y.login THEN 1 ELSE 0) + (IF x.lock # y.lock THEN 1 ELSE 0)

\* Whatever the database refused before, a save of one key leaves the stored value
\* of every other key alone (config.SettingsUnavailable: nothing is written on top
\* of the defaults a failed read served).
OneKeyStep ==
    restores' = restores => \A a \in live \cap live' : Changed(stored[a], stored'[a]) <= 1
OneKeyAtATime == [][OneKeyStep]_vars

Tokens == {<<a, stored[a].hook>> : a \in {x \in live : stored[x].hook # 0}}

\* An index that counts as current knows exactly the stored tokens of the areas
\* that exist, when every area could be read (config.find_webhook's generations).
IndexExact == index.key = Key /\ index.whole => index.known = Tokens

\* The newest version is what is stored, machine state apart, unless the database
\* refused the version: a restart neither loses a change nor invents one.
NewestIsStored ==
    \A a \in live \ lost : versions[a] # <<>> => ~Meaningful(Last(versions[a]), stored[a])

\* app/config.py:353 "defaults for this read only: not cached (the next read
\* retries)": a token of a readable area is found by an index that counts as current.
NextReadRetries == index.key = Key => \A a \in live \cap DOMAIN cache : stored[a].hook # 0 => <<a, stored[a].hook>> \in index.known

\* app/risk.py:22 "The lock lasts the Tradovate trading day (17:00 New York roll) or
\* until *Unlock* on the account": no restore of a version moves a lock.
RestoreKeepsLock == [][restores' # restores => \A a \in Area : stored'[a].lock = stored[a].lock]_vars
=============================================================================
