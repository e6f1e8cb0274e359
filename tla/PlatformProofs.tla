--------------------------- MODULE PlatformProofs ---------------------------
(***************************************************************************)
(* Proofs of PlatformSafety: marketplace subscriptions (Subscription) and  *)
(* their payments (Payments), rules (Automations), backups and updates     *)
(* (Backups), stored settings (Settings), the journal (TradeJournal) and   *)
(* the position watch (PositionWatch), for any caps, events, rules,        *)
(* snapshots, areas, fills, logins and bounds.  Each keeps an inductive    *)
(* invariant of its own; the suite's gates, books, stores and steps        *)
(* follow.  The calendar (RollDates) is left to TLC.                       *)
(***************************************************************************)
EXTENDS PlatformSafety, SequenceTheorems, FiniteSetTheorems, WellFoundedInduction, TLAPS
-----------------------------------------------------------------------------
(* Subscription: the entries that hold a slot of the day are at most as    *)
(* many as the count in memory (or the log when there is none), and as the *)
(* cap, and the slots that skips gave back without having them.            *)

\* The entries that passed the gates and were not skipped since.
Held == {s \in Market!Opens : mAt[s] \in {"waiting", "running"} \/ s \in executed}

MarketInv ==
    /\ mAt \in [Market!Signal -> {"none", "queued", "waiting", "running", "done"}]
    /\ executed \subseteq Market!Signal /\ logged \subseteq executed
    /\ count \in Int /\ givenBack \in Nat
    \* one signal runs at a time, and what was executed ran to its end or runs
    /\ \A r, s \in Market!Signal : mAt[r] = "running" /\ mAt[s] = "running" => r = s
    /\ \A s \in executed : mAt[s] = "running" \/ (s \in logged /\ mAt[s] = "done")
    /\ \A s \in Market!Signal : mAt[s] = "running" => s \in executed
    \* a process without a count let no entry pass yet
    /\ count = Market!NoCount => \A s \in Market!Opens : mAt[s] \notin {"waiting", "running"}
    /\ count = Market!NoCount \/ count \in Nat
    /\ Cardinality(Held) <= Market!Today + givenBack /\ Cardinality(Held) <= Cap + givenBack

\* The instance counts as the library does.
LEMMA MarketCount == ASSUME NEW S PROVE Market!Cardinality(S) = Cardinality(S)
BY Zenon DEF Cardinality, Market!Cardinality

\* The entries and the signals are finite sets.
LEMMA SignalsFinite ==
    ASSUME MarketInv
    PROVE  /\ IsFiniteSet(Held) /\ IsFiniteSet(logged) /\ IsFiniteSet(executed \cap Market!Opens)
           /\ Cardinality(Held) \in Nat /\ Cardinality(logged) \in Nat
           /\ Held \in SUBSET Market!Signal
<1>1. Held \in SUBSET Market!Signal /\ logged \in SUBSET Market!Signal
      /\ executed \cap Market!Opens \in SUBSET Market!Signal
  BY DEF Held, MarketInv, Market!Signal, Market!Opens
<1>2. IsFiniteSet(Market!Signal)
  BY MarketAssumption
<1> QED BY <1>1, <1>2, FS_Subset, FS_CardinalityType

LEMMA MarketInit == ASSUME Market!Init PROVE MarketInv
<1>1. Held = {}
  BY DEF Held, Market!Init, Market!Signal, Market!Opens
<1>2. Cardinality(Held) = 0
  BY <1>1, FS_EmptySet
<1>3. Market!Today = 0
  BY MarketCount, FS_EmptySet DEF Market!Today, Market!Init, Market!NoCount
<1>4. Cap \in Nat
  BY MarketAssumption
<1> QED BY <1>2, <1>3, <1>4 DEF MarketInv, Market!Init, Market!NoCount, Market!Signal, Market!Opens

\* What a step that moves one signal leaves: its place among those that hold a slot is all
\* that changes.
LEMMA HeldMoves ==
    ASSUME MarketInv, NEW s \in Market!Signal,
           \A r \in Market!Signal : r # s => mAt'[r] = mAt[r] /\ (r \in executed' <=> r \in executed)
    PROVE  /\ s \in Held' => Held' = Held \cup {s}
           /\ s \notin Held' => Held' = Held \ {s}
<1>1. \A r \in Market!Opens : r # s => (r \in Held' <=> r \in Held)
  BY DEF Held, Market!Signal, Market!Opens
<1>2. \A r \in Held \cup Held' : r \in Market!Opens
  BY DEF Held
<1> QED BY <1>1, <1>2

\* A signal that comes to hold a slot, or gives its slot up.
LEMMA HeldSize ==
    ASSUME MarketInv, NEW s \in Market!Signal
    PROVE  /\ IsFiniteSet(Held \cup {s}) /\ IsFiniteSet(Held \ {s})
           /\ Cardinality(Held \cup {s}) = Cardinality(Held) + (IF s \in Held THEN 0 ELSE 1)
           /\ Cardinality(Held \ {s}) = Cardinality(Held) - (IF s \in Held THEN 1 ELSE 0)
           /\ Cardinality(Held) \in Nat
<1>1. IsFiniteSet(Held) /\ Cardinality(Held) \in Nat
  BY SignalsFinite
<1> QED BY <1>1, FS_AddElement, FS_RemoveElement

\* A signal that waits at most is not among those that ran.
LEMMA NotYetRun ==
    ASSUME MarketInv, NEW s \in Market!Signal, mAt[s] \in {"none", "queued", "waiting"}
    PROVE  s \notin executed
BY DEF MarketInv

\* A skip leaves the invariant, when the count it starts from covers the other entries and
\* the slot it gives back.
LEMMA SkipKeeps ==
    ASSUME MarketInv, NEW s \in Market!Signal, mAt[s] \in {"queued", "waiting"},
           NEW n \in Int, NEW reserved \in BOOLEAN, Market!Skip(s, n, reserved),
           n = Market!NoCount => count = Market!NoCount,
           n # Market!NoCount => n \in Nat,
           n # Market!NoCount =>
               Cardinality(Held \ {s})
                 <= givenBack' + IF s \in Entries THEN IF n = 0 THEN 0 ELSE n - 1 ELSE n
    PROVE  MarketInv'
<1>1. /\ mAt' = [mAt EXCEPT ![s] = "done"] /\ logged' = logged /\ executed' = executed
      /\ givenBack' = givenBack + (IF s \in Entries /\ n > 0 /\ ~reserved THEN 1 ELSE 0)
  BY DEF Market!Skip, Market!Noted
<1>2. count' = IF n = Market!NoCount THEN Market!NoCount
               ELSE IF s \in Entries THEN IF n = 0 THEN 0 ELSE n - 1 ELSE n
  <2>1. count' = CASE n = Market!NoCount -> Market!NoCount
                   [] n # Market!NoCount /\ s \in Entries -> IF n = 0 THEN 0 ELSE n - 1
                   [] OTHER -> n
    BY DEF Market!Skip, Market!Noted
  <2>2. CASE n = Market!NoCount
    BY <2>1, <2>2
  <2>3. CASE n # Market!NoCount /\ s \in Entries
    BY <2>1, <2>3
  <2>4. CASE n # Market!NoCount /\ s \notin Entries
    BY <2>1, <2>4
  <2> QED BY <2>2, <2>3, <2>4
<1>3. s \notin executed
  BY NotYetRun
<1>4. /\ mAt' \in [Market!Signal -> {"none", "queued", "waiting", "running", "done"}]
      /\ mAt'[s] = "done" /\ \A r \in Market!Signal : r # s => mAt'[r] = mAt[r]
  BY <1>1 DEF MarketInv
<1>5. Held' = Held \ {s}
  <2>1. s \notin Held'
    BY <1>1, <1>3, <1>4 DEF Held
  <2> QED BY <1>1, <1>4, <2>1, HeldMoves
<1>6. /\ Cardinality(Held') = Cardinality(Held \ {s}) /\ Cardinality(Held') <= Cardinality(Held)
      /\ Cardinality(Held) \in Nat /\ Cardinality(Held') \in Nat
  <2>1. Cardinality(Held) \in Nat /\ Cardinality(Held \ {s}) \in Nat
    BY HeldSize, FS_CardinalityType, Zenon
  <2>2. Cardinality(Held \ {s}) <= Cardinality(Held)
    <3>1. Cardinality(Held \ {s}) = Cardinality(Held) - (IF s \in Held THEN 1 ELSE 0)
      BY HeldSize, Zenon
    <3> HIDE DEF Held
    <3> QED BY <2>1, <3>1
  <2> QED BY <1>5, <2>1, <2>2
<1>7. givenBack \in Nat /\ givenBack' \in Nat /\ givenBack <= givenBack'
  <2>1. givenBack' \in {givenBack, givenBack + 1} /\ givenBack \in Nat
    <3>1. givenBack' = givenBack + (IF s \in Entries /\ n > 0 /\ ~reserved THEN 1 ELSE 0)
      BY <1>1
    <3>2. (IF s \in Entries /\ n > 0 /\ ~reserved THEN 1 ELSE 0) \in {0, 1}
      BY Zenon
    <3>3. givenBack \in Nat
      BY DEF MarketInv
    <3> DEFINE slot == IF s \in Entries /\ n > 0 /\ ~reserved THEN 1 ELSE 0
    <3>4. givenBack' = givenBack + slot /\ slot \in {0, 1}
      BY <3>1, <3>2
    <3> HIDE DEF slot
    <3> QED BY <3>3, <3>4
  <2> QED BY <2>1
<1>8. count' \in Int /\ (count' = Market!NoCount \/ count' \in Nat)
      /\ (count' = Market!NoCount => count = Market!NoCount /\ n = Market!NoCount)
  BY <1>2 DEF Market!NoCount
<1>9. Cardinality(Held') <= Market!Today' + givenBack' /\ Cardinality(Held') <= Cap + givenBack'
  <2>1. /\ Cardinality(Held) <= Market!Today + givenBack /\ Cardinality(Held) <= Cap + givenBack
        /\ Cap \in Nat
    BY MarketAssumption DEF MarketInv
  <2>2. CASE n = Market!NoCount
    <3>1. count' = Market!NoCount /\ count = Market!NoCount
      BY <1>2, <2>2
    <3>2. Market!Today = Cardinality(logged) /\ Market!Today' = Cardinality(logged)
      BY <1>1, <3>1, MarketCount DEF Market!Today
    <3> QED BY <1>6, <1>7, <2>1, <3>2, SignalsFinite
  <2>3. CASE n # Market!NoCount
    <3>1. Market!Today' = count'
      BY <1>8, <2>3 DEF Market!Today
    <3> QED BY <1>2, <1>6, <1>7, <2>1, <2>3, <3>1
  <2> QED BY <2>2, <2>3
<1>10. \A r \in executed' : mAt'[r] = "running" \/ (r \in logged' /\ mAt'[r] = "done")
  BY <1>1, <1>3, <1>4 DEF MarketInv
<1>11. /\ \A q, r \in Market!Signal : mAt'[q] = "running" /\ mAt'[r] = "running" => q = r
       /\ \A r \in Market!Signal : mAt'[r] = "running" => r \in executed'
  BY <1>1, <1>4 DEF MarketInv
<1>12. count' = Market!NoCount =>
         \A r \in Market!Opens : mAt'[r] \notin {"waiting", "running"}
  BY <1>4, <1>8 DEF MarketInv, Market!Opens, Market!Signal
<1>13. executed' \subseteq Market!Signal /\ logged' \subseteq executed'
  BY <1>1 DEF MarketInv
<1> QED BY <1>4, <1>7, <1>8, <1>9, <1>10, <1>11, <1>12, <1>13 DEF MarketInv

\* What no step changes that leaves the signals' places, the count and the log.
LEMMA MarketSame ==
    ASSUME MarketInv, mAt' = mAt, count' = count, logged' = logged, executed' = executed,
           givenBack' = givenBack
    PROVE  MarketInv'
BY DEF MarketInv, Held, Market!Today

LEMMA ForwardKeeps ==
    ASSUME MarketInv, NEW s \in Market!Signal, Market!Forward(s)
    PROVE  MarketInv'
<1>1. /\ mAt' = [mAt EXCEPT ![s] = "queued"] /\ mAt[s] = "none"
      /\ count' = count /\ logged' = logged /\ executed' = executed /\ givenBack' = givenBack
  BY DEF Market!Forward
<1>2. s \notin executed
  BY <1>1, NotYetRun
<1>3. Held' = Held
  BY <1>1, <1>2 DEF Held, MarketInv, Market!Signal, Market!Opens
<1>4. Market!Today' = Market!Today
  BY <1>1 DEF Market!Today
<1> QED BY <1>1, <1>2, <1>3, <1>4 DEF MarketInv, Market!Signal, Market!Opens

\* A signal that passes the gates waits; an entry takes a slot of the day.
LEMMA PassKeeps ==
    ASSUME MarketInv, NEW s \in Market!Signal, mAt[s] = "queued",
           mAt' = [mAt EXCEPT ![s] = "waiting"], logged' = logged, executed' = executed,
           givenBack' = givenBack,
           IF s \in Market!Opens THEN Market!Today < Cap /\ count' = Market!Today + 1
                                 ELSE count' = count
    PROVE  MarketInv'
<1>1. s \notin executed
  BY NotYetRun
<1>2. Market!Today \in Nat
  BY SignalsFinite, MarketCount DEF MarketInv, Market!Today
<1>3. count' \in Int /\ (count' = Market!NoCount \/ count' \in Nat)
      /\ (count' = Market!NoCount => s \notin Market!Opens /\ count = Market!NoCount)
  BY <1>2 DEF MarketInv, Market!NoCount
<1>4. Market!Today' = IF s \in Market!Opens THEN Market!Today + 1 ELSE Market!Today
  BY <1>2, <1>3 DEF Market!Today, Market!NoCount
<1>5. Held' = IF s \in Market!Opens THEN Held \cup {s} ELSE Held
  BY <1>1 DEF Held, MarketInv, Market!Signal, Market!Opens
<1>6. s \notin Held
  BY <1>1 DEF Held
<1>7. Cardinality(Held) \in Nat
      /\ Cardinality(Held') = Cardinality(Held) + (IF s \in Market!Opens THEN 1 ELSE 0)
  <2>1. Cardinality(Held) \in Nat /\ Cardinality(Held \cup {s}) = Cardinality(Held) + 1
    BY <1>6, HeldSize
  <2>2. CASE s \in Market!Opens
    BY <1>5, <2>1, <2>2
  <2>3. CASE s \notin Market!Opens
    BY <1>5, <2>1, <2>3
  <2> QED BY <2>2, <2>3
<1>8. Cardinality(Held') <= Market!Today' + givenBack' /\ Cardinality(Held') <= Cap + givenBack'
  <2>1. Cap \in Nat
    BY MarketAssumption
  <2> QED BY <1>2, <1>4, <1>7, <2>1 DEF MarketInv
<1>9. \A r \in Market!Signal : r # s => mAt'[r] = mAt[r]
  BY DEF MarketInv
<1>10. mAt'[s] = "waiting"
       /\ mAt' \in [Market!Signal -> {"none", "queued", "waiting", "running", "done"}]
  BY DEF MarketInv
<1>11. count' = Market!NoCount =>
         \A r \in Market!Opens : mAt'[r] \notin {"waiting", "running"}
  BY <1>3, <1>9 DEF MarketInv, Market!Opens, Market!Signal
<1>12. \A r \in executed' : mAt'[r] = "running" \/ (r \in logged' /\ mAt'[r] = "done")
  BY <1>1, <1>9 DEF MarketInv
<1>13. /\ \A q, r \in Market!Signal : mAt'[q] = "running" /\ mAt'[r] = "running" => q = r
       /\ \A r \in Market!Signal : mAt'[r] = "running" => r \in executed'
  BY <1>9, <1>10 DEF MarketInv
<1> QED BY <1>3, <1>8, <1>10, <1>11, <1>12, <1>13 DEF MarketInv

LEMMA GatesKeeps ==
    ASSUME MarketInv, NEW s \in Market!Signal, Market!Gates(s)
    PROVE  MarketInv'
<1>1. mAt[s] = "queued"
  BY DEF Market!Gates
<1>2. Market!Today \in Nat /\ count \in Int /\ (count = Market!NoCount \/ count \in Nat)
  BY SignalsFinite, MarketCount DEF MarketInv, Market!Today
<1>3. s \notin executed /\ s \notin Held
  BY <1>1, NotYetRun DEF Held
<1>4. Cardinality(Held \ {s}) = Cardinality(Held) /\ Cardinality(Held) \in Nat
  BY <1>3, HeldSize, Zenon
<1>5. /\ Cardinality(Held) <= Market!Today + givenBack /\ givenBack \in Nat
      /\ count # Market!NoCount => Market!Today = count
  BY DEF MarketInv, Market!Today
\* a slot that is given back without having been taken
<1>6. CASE Market!Skip(s, count, FALSE)
  <2>1. givenBack' = givenBack + (IF s \in Entries /\ count > 0 THEN 1 ELSE 0)
    BY <1>6 DEF Market!Skip
  <2>2. count # Market!NoCount =>
          Cardinality(Held \ {s})
            <= givenBack' + IF s \in Entries THEN IF count = 0 THEN 0 ELSE count - 1 ELSE count
    BY <1>2, <1>4, <1>5, <2>1
  <2> QED BY <1>1, <1>2, <1>6, <2>2, SkipKeeps, Zenon
<1>7. CASE s \in Market!Opens /\ Market!Today >= Cap /\ Market!Skip(s, Market!Today, FALSE)
  <2>1. givenBack' = givenBack + (IF s \in Entries /\ Market!Today > 0 THEN 1 ELSE 0)
    BY <1>7 DEF Market!Skip
  <2>2. Cardinality(Held \ {s})
          <= givenBack' + IF s \in Entries THEN IF Market!Today = 0 THEN 0 ELSE Market!Today - 1
                          ELSE Market!Today
    BY <1>2, <1>4, <1>5, <2>1
  <2>3. Market!Today # Market!NoCount /\ Market!Today \in Int
    BY <1>2 DEF Market!NoCount
  <2> QED BY <1>1, <1>2, <1>7, <2>2, <2>3, SkipKeeps, Zenon
<1>8. CASE s \in Market!Opens /\ Market!Today < Cap
           /\ Market!Skip(s, Market!Today + 1, s \in Market!Opens)
  <2>1. givenBack' = givenBack
    BY <1>5, <1>8 DEF Market!Skip
  <2>2. Cardinality(Held \ {s})
          <= givenBack' + IF s \in Entries
                            THEN IF Market!Today + 1 = 0 THEN 0 ELSE (Market!Today + 1) - 1
                            ELSE Market!Today + 1
    BY <1>2, <1>4, <1>5, <2>1
  <2>3. Market!Today + 1 # Market!NoCount /\ Market!Today + 1 \in Int /\ Market!Today + 1 \in Nat
      /\ (s \in Market!Opens) \in BOOLEAN
    BY <1>2 DEF Market!NoCount
  <2> QED BY <1>1, <1>8, <2>2, <2>3, SkipKeeps, Zenon
<1>9. CASE s \notin Market!Opens /\ Market!Skip(s, count, s \in Market!Opens)
  <2>1. s \notin Entries /\ (s \in Market!Opens) \in BOOLEAN
    BY <1>9 DEF Market!Opens
  <2>2. givenBack' = givenBack
    BY <1>9, <2>1 DEF Market!Skip, MarketInv
  <2>3. count # Market!NoCount =>
          Cardinality(Held \ {s})
            <= givenBack' + IF s \in Entries THEN IF count = 0 THEN 0 ELSE count - 1 ELSE count
    BY <1>2, <1>4, <1>5, <2>1, <2>2
  <2> QED BY <1>1, <1>2, <1>9, <2>1, <2>3, SkipKeeps, Zenon
<1>10. CASE /\ count' = IF s \in Market!Opens THEN Market!Today + 1 ELSE count
            /\ ~(s \in Market!Opens /\ Market!Today >= Cap)
            /\ mAt' = [mAt EXCEPT ![s] = "waiting"]
            /\ logged' = logged /\ executed' = executed /\ givenBack' = givenBack
  <2>1. s \in Market!Opens => Market!Today < Cap
    BY <1>2, <1>10, MarketAssumption
  <2> QED BY <1>1, <1>10, <2>1, PassKeeps, Zenon
<1>11. \/ Market!Skip(s, count, FALSE)
       \/ s \in Market!Opens /\ Market!Today >= Cap /\ Market!Skip(s, Market!Today, FALSE)
       \/ s \in Market!Opens /\ ~(Market!Today >= Cap)
          /\ Market!Skip(s, Market!Today + 1, s \in Market!Opens)
       \/ s \notin Market!Opens /\ Market!Skip(s, count, s \in Market!Opens)
       \/ /\ count' = IF s \in Market!Opens THEN Market!Today + 1 ELSE count
          /\ ~(s \in Market!Opens /\ Market!Today >= Cap)
          /\ mAt' = [mAt EXCEPT ![s] = "waiting"]
          /\ logged' = logged /\ executed' = executed /\ givenBack' = givenBack
  BY Zenon DEF Market!Gates
<1>12. ~(Market!Today >= Cap) => Market!Today < Cap
  BY <1>2, MarketAssumption
<1> QED BY <1>6, <1>7, <1>8, <1>9, <1>10, <1>11, <1>12, Zenon

LEMMA LockKeeps ==
    ASSUME MarketInv, NEW s \in Market!Signal, Market!Lock(s)
    PROVE  MarketInv'
<1>1. mAt[s] = "waiting" /\ \A r \in Market!Signal : mAt[r] # "running"
  BY DEF Market!Lock
<1>2. s \notin executed
  BY <1>1, NotYetRun
<1>3. s \in Market!Opens => count # Market!NoCount /\ count \in Nat /\ s \in Held
  BY <1>1 DEF MarketInv, Held
<1>4. CASE s \in Market!Opens /\ Market!Skip(s, count, TRUE)
  <2>1. givenBack' = givenBack /\ givenBack \in Nat
    BY <1>4 DEF Market!Skip, MarketInv
  <2>2. count # Market!NoCount =>
          Cardinality(Held \ {s})
            <= givenBack' + IF s \in Entries THEN IF count = 0 THEN 0 ELSE count - 1 ELSE count
    <3>1. Cardinality(Held \ {s}) = Cardinality(Held) - 1 /\ Cardinality(Held) \in Nat
      BY <1>3, <1>4, HeldSize
    <3>2. Cardinality(Held) <= count + givenBack
      BY <1>3, <1>4 DEF MarketInv, Market!Today
    <3> QED BY <1>3, <1>4, <2>1, <3>1, <3>2
  <2>3. count \in Int /\ TRUE \in BOOLEAN /\ count # Market!NoCount /\ count \in Nat
    BY <1>3, <1>4
  <2> QED BY <1>1, <1>4, <2>2, <2>3, SkipKeeps, Zenon
<1>5. CASE /\ mAt' = [mAt EXCEPT ![s] = "running"] /\ executed' = executed \cup {s}
           /\ count' = count /\ logged' = logged /\ givenBack' = givenBack
  <2>1. Held' = Held
    BY <1>1, <1>5 DEF Held, MarketInv, Market!Opens, Market!Signal
  <2>2. Market!Today' = Market!Today
    BY <1>5 DEF Market!Today
  <2>3. \A r \in Market!Signal : r # s => mAt'[r] = mAt[r]
    BY <1>5 DEF MarketInv
  <2>4. mAt'[s] = "running"
        /\ mAt' \in [Market!Signal -> {"none", "queued", "waiting", "running", "done"}]
    BY <1>5 DEF MarketInv
  <2>5. count' = Market!NoCount => \A r \in Market!Opens : mAt'[r] \notin {"waiting", "running"}
    BY <1>3, <1>5, <2>3 DEF MarketInv, Market!Opens, Market!Signal
  <2>6. /\ \A r \in executed' : mAt'[r] = "running" \/ (r \in logged' /\ mAt'[r] = "done")
        /\ \A q, r \in Market!Signal : mAt'[q] = "running" /\ mAt'[r] = "running" => q = r
        /\ \A r \in Market!Signal : mAt'[r] = "running" => r \in executed'
    BY <1>1, <1>5, <2>3, <2>4 DEF MarketInv
  <2> QED BY <1>5, <2>1, <2>2, <2>4, <2>5, <2>6 DEF MarketInv
<1> QED BY <1>4, <1>5, Zenon DEF Market!Lock

LEMMA EndsMarket ==
    ASSUME MarketInv, NEW s \in Market!Signal, Market!Ends(s)
    PROVE  MarketInv'
<1>1. mAt[s] = "running" /\ executed' = executed /\ givenBack' = givenBack
  BY DEF Market!Ends
<1>2. PICK status \in {"ok", "error"} : Market!Noted(s, status, count)
  BY DEF Market!Ends
<1>3. mAt' = [mAt EXCEPT ![s] = "done"] /\ logged' = logged \cup {s}
  BY <1>2 DEF Market!Noted
<1>4. count' \in {count, count + 1} /\ (count = Market!NoCount => count' = Market!NoCount)
  <2>1. count' = CASE count = Market!NoCount -> Market!NoCount
                   [] count # Market!NoCount /\ s \in Entries -> count
                   [] OTHER -> count + 1
    BY <1>2 DEF Market!Noted
  <2>2. CASE count = Market!NoCount
    BY <2>1, <2>2
  <2>3. CASE count # Market!NoCount /\ s \in Entries
    BY <2>1, <2>3
  <2>4. CASE count # Market!NoCount /\ s \notin Entries
    BY <2>1, <2>4
  <2> QED BY <2>2, <2>3, <2>4
<1>5. s \in executed /\ \A r \in Market!Signal : r # s => mAt[r] # "running"
  BY <1>1 DEF MarketInv
<1>6. count' \in Int /\ (count' = Market!NoCount \/ count' \in Nat)
      /\ (count' = Market!NoCount <=> count = Market!NoCount)
  BY <1>4 DEF MarketInv, Market!NoCount
<1>7. Held' = Held
  BY <1>1, <1>3, <1>5 DEF Held, MarketInv, Market!Opens, Market!Signal
<1>8. Market!Today' >= Market!Today /\ Market!Today \in Nat /\ Market!Today' \in Nat
  <2>1. IsFiniteSet(logged) /\ Cardinality(logged) \in Nat
    BY SignalsFinite
  <2>2. Cardinality(logged') \in Nat /\ Cardinality(logged') >= Cardinality(logged)
    <3>1. Cardinality(logged \cup {s}) = IF s \in logged THEN Cardinality(logged) ELSE Cardinality(logged) + 1
      BY <2>1, FS_AddElement, Zenon
    <3> QED BY <1>3, <2>1, <3>1
  <2>3. CASE count = Market!NoCount
    BY <1>6, <2>1, <2>2, <2>3, MarketCount DEF Market!Today
  <2>4. CASE count # Market!NoCount
    BY <1>4, <1>6, <2>4 DEF Market!Today, MarketInv
  <2> QED BY <2>3, <2>4
<1>9. Cardinality(Held') <= Market!Today' + givenBack' /\ Cardinality(Held') <= Cap + givenBack'
  BY <1>1, <1>7, <1>8, SignalsFinite DEF MarketInv
<1>10. \A r \in Market!Signal : r # s => mAt'[r] = mAt[r]
  BY <1>3 DEF MarketInv
<1>11. mAt'[s] = "done"
       /\ mAt' \in [Market!Signal -> {"none", "queued", "waiting", "running", "done"}]
  BY <1>3 DEF MarketInv
<1>12. count' = Market!NoCount => \A r \in Market!Opens : mAt'[r] \notin {"waiting", "running"}
  BY <1>6, <1>10, <1>11 DEF MarketInv, Market!Opens, Market!Signal
<1>13. /\ \A r \in executed' : mAt'[r] = "running" \/ (r \in logged' /\ mAt'[r] = "done")
       /\ \A q, r \in Market!Signal : mAt'[q] = "running" /\ mAt'[r] = "running" => q = r
       /\ \A r \in Market!Signal : mAt'[r] = "running" => r \in executed'
       /\ executed' \subseteq Market!Signal /\ logged' \subseteq executed'
  BY <1>1, <1>3, <1>5, <1>10, <1>11 DEF MarketInv
<1>14. givenBack' \in Nat
  BY <1>1 DEF MarketInv
<1> QED BY <1>6, <1>9, <1>11, <1>12, <1>13, <1>14 DEF MarketInv

LEMMA MarketRestarts == ASSUME MarketInv, Market!Restart PROVE MarketInv'
<1>1. /\ \A s \in Market!Signal : mAt[s] \in {"none", "done"}
      /\ count' = Market!NoCount /\ mAt' = mAt /\ logged' = logged /\ executed' = executed
      /\ givenBack' = givenBack
  BY DEF Market!Restart
<1>2. Held' = Held /\ Held \in SUBSET logged
  BY <1>1 DEF Held, MarketInv, Market!Opens, Market!Signal
<1>3. Market!Today' = Cardinality(logged)
  BY <1>1, MarketCount DEF Market!Today
<1>4. Cardinality(Held) <= Cardinality(logged)
  BY <1>2, SignalsFinite, FS_Subset
<1>5. \A s \in Market!Opens : mAt'[s] \notin {"waiting", "running"}
  BY <1>1 DEF Market!Opens, Market!Signal
<1> QED BY <1>1, <1>2, <1>3, <1>4, <1>5, SignalsFinite DEF MarketInv, Market!NoCount

LEMMA MarketStep == ASSUME MarketInv, Market!Next PROVE MarketInv'
<1>1. CASE Market!Toggle
  BY <1>1, MarketSame DEF Market!Toggle
<1> QED BY <1>1, ForwardKeeps, GatesKeeps, LockKeeps, EndsMarket, MarketRestarts DEF Market!Next

\* The entries that ran are among those that hold a slot.
LEMMA MarketSafe == ASSUME MarketInv PROVE Market!CapHeld
<1>1. executed \cap Market!Opens \in SUBSET Held
  BY DEF Held
<1>2. Cardinality(executed \cap Market!Opens) <= Cardinality(Held)
      /\ Cardinality(Held) \in Nat /\ Cardinality(executed \cap Market!Opens) \in Nat
  BY <1>1, SignalsFinite, FS_Subset, FS_CardinalityType
<1>3. Cap \in Nat
  BY MarketAssumption
<1>4. Cardinality(Held) <= Cap + givenBack /\ givenBack \in Nat
  BY DEF MarketInv
<1> QED BY <1>2, <1>3, <1>4, MarketCount DEF Market!CapHeld

\* Only the lock lets an entry run, and it looks at the switch.
LEMMA MarketOff == ASSUME MarketInv, Market!Next PROVE Market!OffStep
<1> SUFFICES ASSUME NEW s \in Market!Opens, mAt[s] # "running", mAt'[s] = "running"
             PROVE mTrading
  BY DEF Market!OffStep
<1>1. s \in Market!Signal
  BY DEF Market!Opens, Market!Signal
<1>2. \A r \in Market!Signal : \A w : mAt' = [mAt EXCEPT ![r] = w] /\ w # "running" => mAt'[s] # "running"
  BY <1>1 DEF MarketInv
<1>3. ASSUME NEW r \in Market!Signal, Market!Lock(r) PROVE mTrading
  <2>1. CASE Market!Skip(r, count, TRUE)
    BY <1>2, <2>1 DEF Market!Skip, Market!Noted
  <2>2. CASE ~(r \in Market!Opens /\ ~mTrading) /\ mAt' = [mAt EXCEPT ![r] = "running"]
    <3>1. r = s
      BY <1>1, <2>2 DEF MarketInv
    <3> QED BY <2>2, <3>1
  <2> QED BY <1>3, <2>1, <2>2, Zenon DEF Market!Lock
<1>4. ASSUME NEW r \in Market!Signal, Market!Gates(r) PROVE FALSE
  <2>1. mAt' = [mAt EXCEPT ![r] = "done"] \/ mAt' = [mAt EXCEPT ![r] = "waiting"]
    BY <1>4 DEF Market!Gates, Market!Skip, Market!Noted
  <2> QED BY <1>2, <2>1
<1>5. ASSUME NEW r \in Market!Signal, Market!Forward(r) \/ Market!Ends(r) PROVE FALSE
  <2>1. mAt' = [mAt EXCEPT ![r] = "done"] \/ mAt' = [mAt EXCEPT ![r] = "queued"]
    BY <1>5 DEF Market!Forward, Market!Ends, Market!Noted
  <2> QED BY <1>2, <2>1
<1>6. CASE mAt' = mAt
  BY <1>6
<1> QED BY <1>3, <1>4, <1>5, <1>6 DEF Market!Next, Market!Toggle, Market!Restart

\* The invariant reads no other variable.
LEMMA MarketStutter == ASSUME MarketInv, UNCHANGED MarketVars PROVE MarketInv'
BY MarketSame DEF MarketVars
-----------------------------------------------------------------------------
(* Payments: what the row was last moved by is an event that was           *)
(* delivered, so the newest one that was decides it, and access follows.   *)

\* An event that is newer than every other that was delivered.
NewestSeen(e) == \A d \in pSeen : d = e \/ d.t < e.t

\* Access to a paid listing has a paid row.
PaidAccess ==
    /\ priced /\ sub = "active" => row.st \in Paid!PAID \/ (row.st = "pending" /\ Paid!LastWordPays)
    /\ row.st \in Paid!PAID => Paid!LastWordPays

\* The newest event of a subscription was applied, and what it says stands while nothing
\* was withdrawn, asked for again or left.
NewestDecides ==
    \A e \in pSeen :
        e.kind = "sub" /\ NewestSeen(e) =>
            /\ row.id = e.n
            /\ row.rev = 0 /\ row.st \notin {"pending", "canceled"} => row.st = e.status

\* What Stripe's events tell of.
Kinds == {"checkout", "sub", "failed", "refund"}

PaidInv ==
    /\ IsFiniteSet(sent) /\ pSeen \subseteq sent
    /\ \A e \in sent : e.n \in 1 .. Cardinality(sent) /\ e.t \in Nat /\ e.t > 0
                       /\ e.kind \in Kinds
    /\ \A d, e \in sent : d.n = e.n => d = e
    /\ pNow \in Nat /\ pNow > 0
    /\ row.id \in Nat /\ row.t \in Nat
    /\ DOMAIN row = {"st", "sub", "id", "t", "period", "rev"}
    \* the row was moved by an event that was delivered, or by none yet
    /\ IF row.id = 0 THEN row.t = 0 ELSE \E e \in pSeen : e.n = row.id /\ e.t = row.t
    /\ PaidAccess
    /\ NewestDecides

\* The instance counts as the library does.
LEMMA PaidCount == ASSUME NEW S PROVE Paid!Cardinality(S) = Cardinality(S)
BY Zenon DEF Cardinality, Paid!Cardinality

LEMMA PaidInit == ASSUME Paid!Init PROVE PaidInv
BY FS_EmptySet DEF PaidInv, PaidAccess, NewestDecides, Paid!Init, Paid!PAID, Paid!LastWordPays

\* What a step that sends an event and leaves the row and the access keeps.
LEMMA SendKeeps ==
    ASSUME PaidInv, NEW kind \in Kinds, NEW status, NEW p, Paid!Send(kind, status, p), pSeen' = pSeen
    PROVE  /\ IsFiniteSet(sent') /\ pSeen' \subseteq sent'
           /\ \A e \in sent' : e.n \in 1 .. Cardinality(sent') /\ e.t \in Nat /\ e.t > 0
                       /\ e.kind \in Kinds
           /\ \A d, e \in sent' : d.n = e.n => d = e
           /\ pNow' \in Nat /\ pNow' > 0
<1>1. pNow' \in {pNow, pNow + 1}
      /\ sent' = sent \cup {[n |-> Cardinality(sent) + 1, t |-> pNow', kind |-> kind,
                             status |-> status, period |-> p]}
  BY PaidCount DEF Paid!Send
<1> DEFINE x == [n |-> Cardinality(sent) + 1, t |-> pNow', kind |-> kind, status |-> status,
                 period |-> p]
<1>2. Cardinality(sent) \in Nat /\ IsFiniteSet(sent)
  BY FS_CardinalityType DEF PaidInv
<1>3. x.n = Cardinality(sent) + 1 /\ x.kind = kind /\ x.t = pNow' /\ x.t \in Nat /\ x.t > 0 /\ pNow' \in Nat /\ pNow' > 0
  BY <1>1 DEF PaidInv
<1>4. sent' = sent \cup {x}
  BY <1>1
<1> HIDE DEF x
<1>5. x \notin sent
  BY <1>2, <1>3 DEF PaidInv
<1>6. IsFiniteSet(sent') /\ Cardinality(sent') = Cardinality(sent) + 1
  BY <1>2, <1>4, <1>5, FS_AddElement
<1>7. \A e \in sent' : e.n \in 1 .. Cardinality(sent') /\ e.t \in Nat /\ e.t > 0
                       /\ e.kind \in Kinds
  BY <1>2, <1>3, <1>4, <1>6 DEF PaidInv
<1>8. \A d, e \in sent' : d.n = e.n => d = e
  BY <1>2, <1>3, <1>4 DEF PaidInv
<1> QED BY <1>3, <1>4, <1>6, <1>7, <1>8, Zenon DEF PaidInv

\* What a step that leaves Stripe's events alone keeps.
LEMMA StripeSame ==
    ASSUME PaidInv, sent' = sent, pSeen' = pSeen, pNow' = pNow
    PROVE  /\ IsFiniteSet(sent') /\ pSeen' \subseteq sent'
           /\ \A e \in sent' : e.n \in 1 .. Cardinality(sent') /\ e.t \in Nat /\ e.t > 0
                       /\ e.kind \in Kinds
           /\ \A d, e \in sent' : d.n = e.n => d = e
           /\ pNow' \in Nat /\ pNow' > 0
BY DEF PaidInv

\* What the row says is kept, or its status becomes one that no event decides.
LEMMA RowStands ==
    ASSUME PaidInv, pSeen' = pSeen,
           row' = row \/ \E st \in {"pending", "canceled"} : row' = [row EXCEPT !.st = st]
    PROVE  /\ row'.id \in Nat /\ row'.t \in Nat
           /\ DOMAIN row' = {"st", "sub", "id", "t", "period", "rev"}
           /\ IF row'.id = 0 THEN row'.t = 0 ELSE \E e \in pSeen' : e.n = row'.id /\ e.t = row'.t
           /\ NewestDecides'
<1>1. CASE row' = row
  BY <1>1 DEF PaidInv, NewestDecides, NewestSeen
<1>2. ASSUME NEW st \in {"pending", "canceled"}, row' = [row EXCEPT !.st = st]
      PROVE  /\ row'.id \in Nat /\ row'.t \in Nat
             /\ DOMAIN row' = {"st", "sub", "id", "t", "period", "rev"}
             /\ IF row'.id = 0 THEN row'.t = 0 ELSE \E e \in pSeen' : e.n = row'.id /\ e.t = row'.t
             /\ NewestDecides'
  <2>1. /\ row'.id = row.id /\ row'.t = row.t /\ row'.st = st
        /\ DOMAIN row' = DOMAIN row
    BY <1>2 DEF PaidInv
  <2> QED BY <2>1 DEF PaidInv, NewestDecides, NewestSeen
<1> QED BY <1>1, <1>2

\* The row's last event stands while the row names it.
LEMMA LastWordSame ==
    ASSUME pSeen' = pSeen, row'.id = row.id
    PROVE  Paid!LastWordPays' <=> Paid!LastWordPays
BY Zenon DEF Paid!LastWordPays

\* The parts of the invariant together.
LEMMA PaidParts ==
    ASSUME IsFiniteSet(sent') /\ pSeen' \subseteq sent'
           /\ (\A e \in sent' : e.n \in 1 .. Cardinality(sent') /\ e.t \in Nat /\ e.t > 0
                       /\ e.kind \in Kinds)
           /\ (\A d, e \in sent' : d.n = e.n => d = e)
           /\ pNow' \in Nat /\ pNow' > 0,
           row'.id \in Nat /\ row'.t \in Nat
           /\ DOMAIN row' = {"st", "sub", "id", "t", "period", "rev"}
           /\ (IF row'.id = 0 THEN row'.t = 0 ELSE \E e \in pSeen' : e.n = row'.id /\ e.t = row'.t)
           /\ NewestDecides',
           PaidAccess'
    PROVE  PaidInv'
BY DEF PaidInv

LEMMA PaysKeeps == ASSUME PaidInv, Paid!Pays \/ Paid!Bills PROVE PaidInv'
<1>1. row' = row /\ pSeen' = pSeen /\ sub' = sub /\ priced' = priced
  BY DEF Paid!Pays, Paid!Bills, Paid!shop
<1>2. \E kind \in Kinds : \E status, p : Paid!Send(kind, status, p)
  BY DEF Kinds, Paid!Pays, Paid!Bills
<1>3. PaidAccess'
  BY <1>1, LastWordSame DEF PaidInv, PaidAccess
<1> QED BY <1>1, <1>2, <1>3, SendKeeps, RowStands, PaidParts

\* What applying an event makes of the row.
LEMMA AfterIs ==
    ASSUME PaidInv, NEW e \in sent
    PROVE  /\ Paid!After(e).id = e.n /\ Paid!After(e).t = e.t
           /\ DOMAIN Paid!After(e) = {"st", "sub", "id", "t", "period", "rev"}
           /\ e.kind = "sub" /\ Paid!After(e).rev = 0 => Paid!After(e).st = e.status
           /\ Paid!After(e).st \in Paid!PAID =>
                e.kind = "checkout" \/ (e.kind = "sub" /\ e.status \in Paid!PAID)
<1> DEFINE r == Paid!StampedRow(e, row)
<1>1. r.id = e.n /\ r.t = e.t /\ DOMAIN r = {"st", "sub", "id", "t", "period", "rev"} /\ r.rev = row.rev
  BY DEF PaidInv, Paid!StampedRow
<1> HIDE DEF r
<1>2. CASE e.kind = "checkout"
  <2>1. Paid!After(e) = [r EXCEPT !.sub = TRUE,
            !.st = IF row.st \in {"none", "pending", "unpaid", "canceled"} THEN "active" ELSE row.st]
    BY <1>2 DEF Paid!After, r
  <2> QED BY <1>1, <1>2, <2>1
<1>3. CASE e.kind = "sub"
  <2>1. Paid!After(e) = [r EXCEPT !.sub = TRUE, !.period = e.period,
            !.st = IF Paid!Withdrawn(e) THEN "unpaid" ELSE e.status,
            !.rev = IF e.status \in Paid!PAID /\ ~Paid!Withdrawn(e) THEN 0 ELSE row.rev]
    BY <1>3 DEF Paid!After, r
  <2>2. Paid!Withdrawn(e) => row.rev # 0
    BY DEF Paid!Withdrawn
  <2>3. "unpaid" \notin Paid!PAID
    BY DEF Paid!PAID
  <2> QED BY <1>1, <1>3, <2>1, <2>2, <2>3
<1>4. CASE e.kind = "failed"
  <2>1. Paid!After(e) = [r EXCEPT !.st = "past_due"]
    BY <1>4 DEF Paid!After, r
  <2> QED BY <1>1, <1>4, <2>1 DEF Paid!PAID
<1>5. CASE e.kind = "refund"
  <2>1. Paid!After(e) = [r EXCEPT !.st = "unpaid",
            !.rev = IF row.period = 0 THEN Paid!Forever ELSE row.period]
    BY <1>5 DEF Paid!After, r
  <2> QED BY <1>1, <1>5, <2>1 DEF Paid!PAID
<1> QED BY <1>2, <1>3, <1>4, <1>5 DEF PaidInv, Kinds

\* An event that is delivered for the first time, again, or late.
LEMMA DeliverKeeps == ASSUME PaidInv, NEW e \in sent, Paid!Deliver(e) PROVE PaidInv'
<1>1. /\ pSeen' = pSeen \cup {e} /\ sent' = sent /\ pNow' = pNow
      /\ priced' = priced
  BY DEF Paid!Deliver, Paid!stripe, Paid!shop
<1>2. \/ row' = row /\ sub' = sub
                /\ (Paid!Stale(e) \/ e.kind \in {"failed", "refund"})
      \/ row' = Paid!After(e) /\ sub' = Paid!Followed(row'.st) /\ ~Paid!Stale(e)
  BY DEF Paid!Deliver
<1>3. \A d \in pSeen : d \in sent
  BY DEF PaidInv
<1>4. e.n \in Nat /\ e.n > 0 /\ e.t \in Nat /\ e.t > 0
  <2>1. Cardinality(sent) \in Nat
    BY FS_CardinalityType DEF PaidInv
  <2> QED BY <2>1 DEF PaidInv
<1>5. /\ IsFiniteSet(sent') /\ pSeen' \subseteq sent'
      /\ \A d \in sent' : d.n \in 1 .. Cardinality(sent') /\ d.t \in Nat /\ d.t > 0
                          /\ d.kind \in Kinds
      /\ \A c, d \in sent' : c.n = d.n => c = d
      /\ pNow' \in Nat /\ pNow' > 0
  BY <1>1 DEF PaidInv
<1>6. PaidAccess'
  <2>1. CASE row' = row /\ sub' = sub
    <3>1. Paid!LastWordPays => Paid!LastWordPays'
      BY <1>1, <2>1, Zenon DEF Paid!LastWordPays
    <3> QED BY <1>1, <2>1, <3>1 DEF PaidInv, PaidAccess
  <2>2. CASE row' = Paid!After(e) /\ sub' = Paid!Followed(row'.st)
    <3>1. sub' = "active" => row'.st \in Paid!PAID
      BY <2>2 DEF Paid!Followed
    <3>2. row'.st \in Paid!PAID => Paid!LastWordPays'
      BY <1>1, <2>2, AfterIs, Zenon DEF Paid!LastWordPays
    <3> QED BY <3>1, <3>2 DEF PaidAccess
  <2> QED BY <1>2, <2>1, <2>2
<1>7. /\ row'.id \in Nat /\ row'.t \in Nat
      /\ DOMAIN row' = {"st", "sub", "id", "t", "period", "rev"}
      /\ IF row'.id = 0 THEN row'.t = 0 ELSE \E d \in pSeen' : d.n = row'.id /\ d.t = row'.t
  <2>1. CASE row' = row
    BY <1>1, <2>1 DEF PaidInv
  <2>2. CASE row' = Paid!After(e)
    BY <1>1, <1>4, <2>2, AfterIs
  <2> QED BY <1>2, <2>1, <2>2
<1>8. ASSUME row.id # 0
      PROVE  \E d \in pSeen : d.n = row.id /\ d.t = row.t
  BY <1>8 DEF PaidInv
<1>9. ASSUME NEW d \in pSeen', d.kind = "sub", NewestSeen(d)'
      PROVE  row'.id = d.n /\ (row'.rev = 0 /\ row'.st \notin {"pending", "canceled"} => row'.st = d.status)
  <2>1. \A c \in pSeen \cup {e} : c = d \/ c.t < d.t
    BY <1>1, <1>9 DEF NewestSeen
  <2>2. CASE row' = Paid!After(e) /\ ~Paid!Stale(e) /\ d = e
    BY <1>9, <2>2, AfterIs
  <2>3. CASE row' = Paid!After(e) /\ ~Paid!Stale(e) /\ d # e
    <3>1. d \in pSeen /\ e.t < d.t /\ NewestSeen(d)
      BY <1>1, <2>1, <2>3 DEF NewestSeen
    <3>2. row.id = d.n
      BY <1>9, <3>1 DEF PaidInv, NewestDecides
    <3>3. d.n # 0
      BY <1>3, <3>1 DEF PaidInv
    <3>4. PICK c \in pSeen : c.n = row.id /\ c.t = row.t
      BY <1>8, <3>2, <3>3
    <3>5. c = d
      BY <1>3, <3>1, <3>2, <3>4 DEF PaidInv
    <3> QED BY <2>3, <3>1, <3>4, <3>5 DEF Paid!Stale
  <2>4. CASE row' = row /\ d # e
    <3>1. d \in pSeen /\ NewestSeen(d)
      BY <1>1, <2>1, <2>4 DEF NewestSeen
    <3> QED BY <1>9, <2>4, <3>1 DEF PaidInv, NewestDecides
  <2>5. CASE row' = row /\ d = e /\ (Paid!Stale(e) \/ e.kind \in {"failed", "refund"})
    <3>1. e.n = row.id \/ e.t < row.t
      BY <1>9, <2>5 DEF Paid!Stale
    <3>2. row.id # 0
      BY <1>4, <3>1 DEF PaidInv
    <3>3. PICK c \in pSeen : c.n = row.id /\ c.t = row.t
      BY <1>8, <3>2
    <3>4. c = e
      <4>1. CASE e.n = row.id
        BY <1>3, <3>3, <4>1 DEF PaidInv
      <4>2. CASE e.t < row.t
        <5>1. c = d \/ c.t < d.t
          BY <2>1
        <5>2. row.t \in Nat
          BY DEF PaidInv
        <5> QED BY <1>4, <2>5, <3>3, <4>2, <5>1, <5>2
      <4> QED BY <3>1, <4>1, <4>2
    <3>5. d \in pSeen /\ NewestSeen(d)
      BY <2>1, <2>5, <3>4 DEF NewestSeen
    <3> QED BY <1>9, <2>5, <3>5 DEF PaidInv, NewestDecides
  <2> QED BY <1>2, <2>2, <2>3, <2>4, <2>5
<1>10. NewestDecides'
  BY <1>9 DEF NewestDecides
<1> QED BY <1>5, <1>6, <1>7, <1>10, PaidParts

\* The subscriber's and the publisher's side, which asks Stripe only to end a subscription.
LEMMA ShopKeeps ==
    ASSUME PaidInv, \/ Paid!Subscribe \/ Paid!AskCheckout \/ Paid!Leave
                    \/ Paid!Publisher \/ Paid!TurnPaid
    PROVE  PaidInv'
<1>1. row' = row /\ pSeen' = pSeen /\ sent' = sent /\ pNow' = pNow
  BY DEF Paid!Subscribe, Paid!AskCheckout, Paid!Leave, Paid!Publisher, Paid!TurnPaid,
     Paid!stripe, Paid!shop
<1>2. PaidAccess /\ (Paid!LastWordPays' <=> Paid!LastWordPays)
  BY <1>1, LastWordSame DEF PaidInv
<1>3. CASE Paid!Subscribe
  <2>1. priced' = priced /\ (sub' = "active" => ~(priced /\ ~Paid!HasPaid))
    BY <1>3 DEF Paid!Subscribe, Paid!shop
  <2> QED BY <1>1, <1>2, <2>1, StripeSame, RowStands, PaidParts DEF PaidAccess, Paid!HasPaid
<1>4. CASE Paid!AskCheckout
  <2>1. priced' = priced /\ sub' = sub
    BY <1>4 DEF Paid!AskCheckout
  <2> QED BY <1>1, <1>2, <2>1, StripeSame, RowStands, PaidParts DEF PaidAccess
<1>5. CASE Paid!Leave
  <2>1. priced' = priced /\ (sub' = sub \/ sub' = "none")
    BY <1>5 DEF Paid!Leave
  <2> QED BY <1>1, <1>2, <2>1, StripeSame, RowStands, PaidParts DEF PaidAccess
<1>6. CASE Paid!Publisher
  <2>1. priced' = priced /\ (sub' = "active" => ~priced \/ row.st \in Paid!PAID)
    BY <1>6 DEF Paid!Publisher, Paid!shop, Paid!MayActivate, Paid!HasPaid
  <2> QED BY <1>1, <1>2, <2>1, StripeSame, RowStands, PaidParts DEF PaidAccess
<1>7. CASE Paid!TurnPaid
  <2>1. sub' = "active" => row.st \in Paid!PAID
    BY <1>7 DEF Paid!TurnPaid, Paid!HasPaid
  <2> QED BY <1>1, <1>2, <2>1, StripeSame, RowStands, PaidParts DEF PaidAccess
<1> QED BY <1>3, <1>4, <1>5, <1>6, <1>7

LEMMA CheckoutKeeps == ASSUME PaidInv, Paid!CheckoutMade PROVE PaidInv'
<1>1. /\ pSeen' = pSeen /\ sent' = sent /\ pNow' = pNow /\ priced' = priced /\ sub' = sub
      /\ \/ row' = row
         \/ row' = [row EXCEPT !.st = "pending"]
  BY DEF Paid!CheckoutMade, Paid!stripe
<1>2. PaidAccess'
  <2>1. CASE row' = row
    BY <1>1, <2>1, LastWordSame DEF PaidInv, PaidAccess
  <2>2. CASE row' = [row EXCEPT !.st = "pending"]
    <3>1. row'.id = row.id /\ row'.st = "pending"
      BY <2>2 DEF PaidInv
    <3>2. Paid!LastWordPays' <=> Paid!LastWordPays
      BY <1>1, <3>1, Zenon DEF Paid!LastWordPays
    <3>3. "pending" \notin Paid!PAID
      BY DEF Paid!PAID
    <3> QED BY <1>1, <3>1, <3>2, <3>3 DEF PaidInv, PaidAccess
  <2> QED BY <1>1, <2>1, <2>2
<1> QED BY <1>1, <1>2, StripeSame, RowStands, PaidParts

LEMMA LeftKeeps == ASSUME PaidInv, Paid!Left PROVE PaidInv'
<1>1. pSeen' = pSeen /\ priced' = priced
  BY DEF Paid!Left
<1>2. \/ row' = row /\ sub' = sub
      \/ row' = [row EXCEPT !.st = "canceled"] /\ sub' = "none"
  BY DEF Paid!Left
<1>3. \/ sent' = sent /\ pNow' = pNow
      \/ Paid!Send("sub", "canceled", period)
  BY DEF Paid!Left, Paid!stripe
<1>4. PaidAccess'
  <2>1. CASE row' = row /\ sub' = sub
    BY <1>1, <2>1, LastWordSame DEF PaidInv, PaidAccess
  <2>2. CASE row' = [row EXCEPT !.st = "canceled"] /\ sub' = "none"
    <3>1. row'.st = "canceled" /\ "canceled" \notin Paid!PAID
      BY <2>2 DEF PaidInv, Paid!PAID
    <3> QED BY <2>2, <3>1 DEF PaidAccess
  <2> QED BY <1>2, <2>1, <2>2
<1>5. "sub" \in Kinds
  BY DEF Kinds
<1>6. CASE sent' = sent /\ pNow' = pNow
  BY <1>1, <1>2, <1>4, <1>6, StripeSame, RowStands, PaidParts
<1>7. CASE Paid!Send("sub", "canceled", period)
  BY <1>1, <1>2, <1>4, <1>5, <1>7, SendKeeps, RowStands, PaidParts
<1> QED BY <1>3, <1>6, <1>7

LEMMA PaidStep == ASSUME PaidInv, Paid!Next PROVE PaidInv'
BY PaysKeeps, DeliverKeeps, ShopKeeps, CheckoutKeeps, LeftKeeps DEF Paid!Next

LEMMA PaidSafe == ASSUME PaidInv PROVE Paid!AccessIsPaid
<1>1. PaidAccess /\ NewestDecides
  BY DEF PaidInv
<1> QED BY <1>1 DEF Paid!AccessIsPaid, Paid!HasPaid, PaidAccess, NewestDecides, NewestSeen

\* The invariant reads no other variable.
LEMMA PaidStutter == ASSUME PaidInv, UNCHANGED PaidVars PROVE PaidInv'
BY DEF PaidVars, PaidInv, PaidAccess, NewestDecides, NewestSeen, Paid!LastWordPays
-----------------------------------------------------------------------------
(* Automations: the time a rule's cooldown runs from is never before it    *)
(* last fired, except for a retry after its action failed.                 *)

\* A task that runs rules: at least one is left.
RunOf == [rules : Seq(Rule) \ {<<>>}, acting : BOOLEAN]

RulesInv ==
    /\ lastFired \in [Rule -> Int] /\ firedAt \in [Rule -> Int] /\ failedAt \in [Rule -> Int]
    /\ aNow \in Int /\ started \in Int
    /\ runs \in Seq(RunOf)
    /\ \A r \in Rule : firedAt[r] <= aNow /\ failedAt[r] <= aNow
    \* what the cooldown runs from
    /\ \A r \in Rule :
         \/ lastFired[r] >= firedAt[r]
         \/ failedAt[r] >= firedAt[r] /\ lastFired[r] >= failedAt[r] - (Cooldown - Retry)

\* What the constants give.
LEMMA RuleNumbers == Cooldown \in Nat /\ Retry \in Nat /\ Retry > 0 /\ Retry <= Cooldown
BY RulesAssumption DEF Rules!AutomationsAssumption

\* The instance counts as the library does.
LEMMA RulesCount == ASSUME NEW S PROVE Rules!Cardinality(S) = Cardinality(S)
BY Zenon DEF Cardinality, Rules!Cardinality

\* A set of rules as a sequence has those rules and no other.
LEMMA HitSequence ==
    ASSUME NEW S \in SUBSET Rule, S # {}
    PROVE  /\ Rules!SetToSeq(S) \in Seq(Rule) \ {<<>>}
           /\ \A i \in DOMAIN Rules!SetToSeq(S) : Rules!SetToSeq(S)[i] \in S
<1>1. IsFiniteSet(S)
  BY RulesAssumption, FS_Subset
<1>2. Cardinality(S) \in Nat /\ ExistsBijection(1 .. Cardinality(S), S) /\ Cardinality(S) # 0
  BY <1>1, FS_CardinalityType, FS_EmptySet
<1>3. PICK g \in [1 .. Cardinality(S) -> S] :
        \A a, b \in 1 .. Cardinality(S) : g[a] = g[b] => a = b
  BY <1>2 DEF ExistsBijection, Bijection, Injection, IsInjective
<1>4. Rules!IsInjective(g)
  BY <1>3 DEF Rules!IsInjective
<1>5. Rules!SetToSeq(S) \in [1 .. Cardinality(S) -> S]
  <2>1. \E f \in [1 .. Rules!Cardinality(S) -> S] : Rules!IsInjective(f)
    BY <1>3, <1>4, RulesCount
  <2>2. Rules!SetToSeq(S) \in [1 .. Rules!Cardinality(S) -> S]
    BY <2>1 DEF Rules!SetToSeq
  <2> QED BY <2>2, RulesCount
<1> QED BY <1>2, <1>5

LEMMA RulesInit == ASSUME Rules!Init PROVE RulesInv
<1>1. runs = <<>> /\ <<>> \in Seq(RunOf)
  BY DEF Rules!Init
<1> QED BY <1>1, RuleNumbers DEF RulesInv, Rules!Init, Rules!Never

\* A rule that fires, with what its cooldown runs from.
LEMMA EventFires ==
    ASSUME RulesInv, NEW kind, Rules!OnEvent(kind), failedAt' = failedAt, aNow' = aNow
    PROVE  RulesInv' /\ Rules!PacedStep
<1> DEFINE hit == Rules!Hits(kind)
<1>1. CASE hit = {}
  <2>1. lastFired' = lastFired /\ runs' = runs /\ started' = started /\ firedAt' = firedAt
    BY <1>1 DEF Rules!OnEvent
  <2>2. RulesInv'
    BY <2>1 DEF RulesInv
  <2>3. ~(started' > started)
    BY <2>1 DEF RulesInv
  <2> QED BY <2>2, <2>3 DEF Rules!PacedStep, Rules!Fires
<1>2. CASE hit # {}
  <2>1. /\ started' = started + 1
        /\ lastFired' = [r \in Rule |-> IF r \in hit THEN aNow ELSE lastFired[r]]
        /\ runs' = Append(runs, [rules |-> Rules!SetToSeq(hit), acting |-> FALSE])
        /\ firedAt' = [r \in Rule |-> IF r \in hit THEN aNow ELSE firedAt[r]]
    BY <1>2 DEF Rules!OnEvent, Rules!Reserve
  <2>2. hit \in SUBSET Rule /\ \A r \in hit : aNow - lastFired[r] >= Cooldown
    BY DEF Rules!Hits, Rules!CooldownOk
  <2> HIDE DEF hit
  <2>3. /\ Rules!SetToSeq(hit) \in Seq(Rule) \ {<<>>}
        /\ \A i \in DOMAIN Rules!SetToSeq(hit) : Rules!SetToSeq(hit)[i] \in hit
    BY <1>2, <2>2, HitSequence
  <2>4. [rules |-> Rules!SetToSeq(hit), acting |-> FALSE] \in RunOf
    BY <2>3 DEF RunOf
  <2>5. /\ runs' \in Seq(RunOf) /\ Len(runs') = Len(runs) + 1
        /\ runs'[Len(runs')].rules = Rules!SetToSeq(hit)
    BY <2>1, <2>4, AppendProperties DEF RulesInv
  <2>6. \A r \in Rule : \/ r \in hit /\ lastFired'[r] = aNow /\ firedAt'[r] = aNow
                        \/ r \notin hit /\ lastFired'[r] = lastFired[r] /\ firedAt'[r] = firedAt[r]
    BY <2>1
  <2>7. RulesInv'
    <3>1. lastFired' \in [Rule -> Int] /\ firedAt' \in [Rule -> Int] /\ failedAt' \in [Rule -> Int]
          /\ aNow' \in Int /\ started' \in Int
      BY <2>1 DEF RulesInv
    <3>2. \A r \in Rule : firedAt'[r] <= aNow' /\ failedAt'[r] <= aNow'
      <4>1. aNow' = aNow /\ failedAt' = failedAt /\ aNow \in Int
        BY DEF RulesInv
      <4>2. \A r \in Rule : firedAt[r] <= aNow /\ failedAt[r] <= aNow
        BY DEF RulesInv
      <4> TAKE r \in Rule
      <4>3. firedAt'[r] = aNow \/ firedAt'[r] = firedAt[r]
        BY <2>6
      <4> QED BY <4>1, <4>2, <4>3
    <3>3. \A r \in Rule :
            \/ lastFired'[r] >= firedAt'[r]
            \/ failedAt'[r] >= firedAt'[r] /\ lastFired'[r] >= failedAt'[r] - (Cooldown - Retry)
      BY <2>6, RuleNumbers DEF RulesInv
    <3> QED BY <2>5, <3>1, <3>2, <3>3 DEF RulesInv
  <2>8. ASSUME NEW r \in Rule, Rules!Fires(r)
        PROVE  \/ aNow - firedAt[r] >= Cooldown
               \/ failedAt[r] >= firedAt[r] /\ aNow - failedAt[r] >= Retry
    <3>1. r \in hit
      BY <2>3, <2>5, <2>8 DEF Rules!Fires, Rules!ToSet
    <3>2. aNow - lastFired[r] >= Cooldown
      BY <2>2, <3>1
    <3>3. /\ lastFired[r] \in Int /\ firedAt[r] \in Int /\ failedAt[r] \in Int /\ aNow \in Int
          /\ \/ lastFired[r] >= firedAt[r]
             \/ failedAt[r] >= firedAt[r] /\ lastFired[r] >= failedAt[r] - (Cooldown - Retry)
      BY DEF RulesInv
    <3> QED BY <3>2, <3>3, RuleNumbers
  <2> QED BY <2>7, <2>8 DEF Rules!PacedStep
<1> QED BY <1>1, <1>2

\* A step that starts no task fires no rule.
LEMMA NothingFires == ASSUME RulesInv, started' = started PROVE Rules!PacedStep
<1>1. ~(started' > started)
  BY DEF RulesInv
<1> QED BY <1>1 DEF Rules!PacedStep, Rules!Fires

\* A sequence of more than one element has some left without its first.
LEMMA LongTail ==
    ASSUME NEW S, NEW s \in Seq(S), s # <<>>, Len(s) # 1
    PROVE  Tail(s) \in Seq(S) \ {<<>>}
<1>1. Len(s) \in Nat \ {0}
  BY EmptySeq
<1>2. Tail(s) \in Seq(S) /\ Len(Tail(s)) = Len(s) - 1
  BY HeadTailProperties
<1>3. Len(Tail(s)) # 0
  BY <1>1, <1>2
<1>4. ASSUME Tail(s) = <<>> PROVE FALSE
  <2>1. Len(<<>>) = 0
    BY EmptySeq
  <2> QED BY <1>3, <1>4, <2>1, Zenon
<1> QED BY <1>2, <1>4

\* The first part of an action leaves the rules that wait.
LEMMA ActingRun ==
    ASSUME RulesInv, NEW i \in DOMAIN runs, runs' = [runs EXCEPT ![i].acting = TRUE]
    PROVE  runs' \in Seq(RunOf)
<1>1. runs \in Seq(RunOf) /\ DOMAIN runs = 1 .. Len(runs)
  BY DEF RulesInv
<1>2. runs[i] \in RunOf
  BY <1>1
<1>3. [runs[i] EXCEPT !.acting = TRUE] \in RunOf
  BY <1>2, Zenon DEF RunOf
<1>4. runs' = [runs EXCEPT ![i] = [runs[i] EXCEPT !.acting = TRUE]]
  OBVIOUS
<1> QED BY <1>1, <1>3, <1>4, ExceptSeq

\* A rule that is done leaves its task, and a task with no rule left is over.
LEMMA RestRuns ==
    ASSUME RulesInv, NEW i \in DOMAIN runs
    PROVE  Rules!Rest(i) \in Seq(RunOf)
<1>1. runs \in Seq(RunOf) /\ DOMAIN runs = 1 .. Len(runs) /\ Len(runs) \in Nat
  BY DEF RulesInv
<1>2. runs[i] \in RunOf /\ i \in 1 .. Len(runs)
  BY <1>1
<1>3. CASE Len(runs[i].rules) = 1
  <2>1. Rules!Rest(i) = SubSeq(runs, 1, i - 1) \o SubSeq(runs, i + 1, Len(runs))
    BY <1>3 DEF Rules!Rest, Rules!RemoveAt
  <2>2. SubSeq(runs, 1, i - 1) \in Seq(RunOf)
    <3>1. \A k \in 1 .. (i - 1) : runs[k] \in RunOf
      BY <1>1, <1>2
    <3> QED BY <1>1, <1>2, <3>1, SubSeqProperties
  <2>3. SubSeq(runs, i + 1, Len(runs)) \in Seq(RunOf)
    <3>1. \A k \in (i + 1) .. Len(runs) : runs[k] \in RunOf
      BY <1>1, <1>2
    <3> QED BY <1>1, <1>2, <3>1, SubSeqProperties
  <2> QED BY <2>1, <2>2, <2>3, ConcatProperties
<1>4. CASE Len(runs[i].rules) # 1
  <2>1. runs[i].rules \in Seq(Rule) /\ runs[i].rules # <<>>
    BY <1>2 DEF RunOf
  <2>2. Tail(runs[i].rules) \in Seq(Rule) \ {<<>>}
    BY <1>4, <2>1, LongTail
  <2>3. [rules |-> Tail(runs[i].rules), acting |-> FALSE] \in RunOf
    BY <2>2 DEF RunOf
  <2>4. Rules!Rest(i) = [runs EXCEPT ![i] = [rules |-> Tail(runs[i].rules), acting |-> FALSE]]
    BY <1>4 DEF Rules!Rest
  <2> QED BY <1>1, <2>3, <2>4, ExceptSeq
<1> QED BY <1>3, <1>4

\* The rule a task runs.
LEMMA HeadRule ==
    ASSUME RulesInv, NEW i \in DOMAIN runs
    PROVE  Head(runs[i].rules) \in Rule
<1>1. runs[i] \in RunOf
  BY DEF RulesInv
<1> QED BY <1>1, HeadTailProperties DEF RunOf

\* A cooldown that starts anew when the action has run.
LEMMA ChargedKeeps ==
    ASSUME RulesInv, NEW i \in DOMAIN runs, NEW failed \in BOOLEAN,
           lastFired' = Rules!Charged(Head(runs[i].rules), failed), runs' = Rules!Rest(i),
           \/ failedAt' = failedAt /\ ~failed
           \/ failedAt' = [failedAt EXCEPT ![Head(runs[i].rules)] = aNow],
           aNow' = aNow, started' = started, firedAt' = firedAt
    PROVE  RulesInv'
<1> DEFINE h == Head(runs[i].rules)
<1>1. h \in Rule
  BY HeadRule
<1>2. runs' \in Seq(RunOf)
  BY RestRuns
<1>3. /\ lastFired \in [Rule -> Int] /\ firedAt \in [Rule -> Int] /\ failedAt \in [Rule -> Int]
      /\ aNow \in Int /\ started \in Int
      /\ \A r \in Rule : firedAt[r] <= aNow /\ failedAt[r] <= aNow
      /\ \A r \in Rule :
           \/ lastFired[r] >= firedAt[r]
           \/ failedAt[r] >= firedAt[r] /\ lastFired[r] >= failedAt[r] - (Cooldown - Retry)
  BY DEF RulesInv
<1>4. lastFired' = [lastFired EXCEPT ![h] = IF failed THEN aNow - (Cooldown - Retry) ELSE aNow]
  BY DEF Rules!Charged
<1>5. \/ failedAt' = failedAt /\ ~failed
      \/ failedAt' = [failedAt EXCEPT ![h] = aNow]
  OBVIOUS
<1> HIDE DEF h
<1>6. lastFired' \in [Rule -> Int] /\ firedAt' \in [Rule -> Int] /\ failedAt' \in [Rule -> Int]
  BY <1>1, <1>3, <1>4, <1>5, RuleNumbers
<1>7. \A r \in Rule : firedAt'[r] <= aNow' /\ failedAt'[r] <= aNow'
  BY <1>1, <1>3, <1>5
<1>8. ASSUME NEW r \in Rule
      PROVE  \/ lastFired'[r] >= firedAt'[r]
             \/ failedAt'[r] >= firedAt'[r] /\ lastFired'[r] >= failedAt'[r] - (Cooldown - Retry)
  <2>1. CASE r # h
    <3>1. lastFired'[r] = lastFired[r] /\ failedAt'[r] = failedAt[r] /\ firedAt'[r] = firedAt[r]
      BY <1>3, <1>4, <1>5, <2>1
    <3> QED BY <1>3, <3>1
  <2>2. CASE r = h /\ ~failed
    <3>1. lastFired'[r] = aNow /\ firedAt'[r] = firedAt[r]
      BY <1>3, <1>4, <2>2
    <3> QED BY <1>3, <3>1
  <2>3. CASE r = h /\ failed
    <3>1. lastFired'[r] = aNow - (Cooldown - Retry) /\ failedAt'[r] = aNow
      BY <1>3, <1>4, <1>5, <2>3, Zenon
    <3> QED BY <1>3, <3>1, RuleNumbers
  <2> QED BY <2>1, <2>2, <2>3
<1>9. aNow' \in Int /\ started' \in Int
  BY <1>3
<1> QED BY <1>2, <1>6, <1>7, <1>8, <1>9 DEF RulesInv

\* Nothing the cooldowns are about changes.
LEMMA RulesStutter ==
    ASSUME RulesInv, UNCHANGED <<lastFired, runs, aNow, started, firedAt, failedAt>>
    PROVE  RulesInv'
BY DEF RulesInv

\* Each step keeps the invariant, and fires no rule before its pause is over.
LEMMA RulesStep == ASSUME RulesInv, Rules!Next PROVE RulesInv' /\ Rules!PacedStep
<1>1. CASE Rules!ConnectionLost
  BY <1>1, EventFires DEF Rules!ConnectionLost
<1>2. CASE Rules!WatchTick
  <2>1. failedAt' = failedAt /\ aNow' = aNow
    BY <1>2 DEF Rules!WatchTick
  <2>2. CASE aOpen
    <3>1. UNCHANGED <<lastFired, runs, aNow, started, firedAt, failedAt>>
      BY <1>2, <2>2 DEF Rules!WatchTick
    <3> QED BY <3>1, RulesStutter, NothingFires
  <2>3. CASE ~aOpen
    <3>1. Rules!OnEvent("position.closed")
      BY <1>2, <2>3 DEF Rules!WatchTick
    <3> QED BY <2>1, <3>1, EventFires
  <2> QED BY <2>2, <2>3
<1>3. CASE Rules!Opens \/ Rules!StopFills \/ Rules!GuardLocks \/ \E r \in Rule : Rules!SwitchRule(r)
  <2>1. UNCHANGED <<lastFired, runs, aNow, started, firedAt, failedAt>>
    BY <1>3 DEF Rules!Opens, Rules!StopFills, Rules!GuardLocks, Rules!SwitchRule
  <2> QED BY <2>1, RulesStutter, NothingFires
<1>4. CASE Rules!Tick
  <2>1. aNow' = aNow + 1 /\ UNCHANGED <<lastFired, runs, started, firedAt, failedAt>>
    BY <1>4 DEF Rules!Tick
  <2>2. aNow' \in Int /\ \A r \in Rule : firedAt'[r] <= aNow' /\ failedAt'[r] <= aNow'
    BY <2>1 DEF RulesInv
  <2>3. RulesInv'
    BY <2>1, <2>2 DEF RulesInv
  <2> QED BY <2>1, <2>3, NothingFires
<1>5. ASSUME NEW i \in DOMAIN runs, Rules!BeginAction(i) PROVE RulesInv' /\ Rules!PacedStep
  <2>1. /\ runs' = [runs EXCEPT ![i].acting = TRUE]
        /\ UNCHANGED <<lastFired, aNow, started, firedAt, failedAt>>
    BY <1>5 DEF Rules!BeginAction
  <2>2. runs' \in Seq(RunOf)
    BY <2>1, ActingRun, Zenon
  <2>3. RulesInv'
    BY <2>1, <2>2 DEF RulesInv
  <2> QED BY <2>1, <2>3, NothingFires
<1>6. ASSUME NEW i \in DOMAIN runs, Rules!AlertSent(i) PROVE RulesInv' /\ Rules!PacedStep
  <2>1. /\ lastFired' = Rules!Charged(Head(runs[i].rules), FALSE) /\ runs' = Rules!Rest(i)
        /\ failedAt' = failedAt /\ aNow' = aNow /\ started' = started /\ firedAt' = firedAt
    BY <1>6 DEF Rules!AlertSent
  <2> QED BY <2>1, ChargedKeeps, NothingFires, Zenon
<1>7. ASSUME NEW i \in DOMAIN runs, Rules!Flattened(i) PROVE RulesInv' /\ Rules!PacedStep
  <2>1. /\ lastFired' = Rules!Charged(Head(runs[i].rules), FALSE) /\ runs' = Rules!Rest(i)
        /\ aNow' = aNow /\ started' = started /\ firedAt' = firedAt
        /\ \/ failedAt' = failedAt
           \/ failedAt' = [failedAt EXCEPT ![Head(runs[i].rules)] = aNow]
    BY <1>7 DEF Rules!Flattened
  <2> QED BY <2>1, ChargedKeeps, NothingFires, Zenon
<1>8. ASSUME NEW i \in DOMAIN runs, Rules!ActionFails(i) PROVE RulesInv' /\ Rules!PacedStep
  <2>1. /\ lastFired' = Rules!Charged(Head(runs[i].rules), TRUE) /\ runs' = Rules!Rest(i)
        /\ failedAt' = [failedAt EXCEPT ![Head(runs[i].rules)] = aNow]
        /\ aNow' = aNow /\ started' = started /\ firedAt' = firedAt
    BY <1>8 DEF Rules!ActionFails
  <2> QED BY <2>1, ChargedKeeps, NothingFires, Zenon
<1> QED BY <1>1, <1>2, <1>3, <1>4, <1>5, <1>6, <1>7, <1>8 DEF Rules!Next

-----------------------------------------------------------------------------
(* Backups: the newest snapshot that passed its probe is on disk until one *)
(* is deleted by hand, and each stage of an update or a rollback knows     *)
(* what the checkout and the requirements are.                             *)

\* The snapshots made that passed their probe.
Passed == Backup!Verified(DOMAIN snaps)

\* The snapshots are numbered as they are made, and rows are of those made.
RowsInv ==
    /\ \E k \in Nat : DOMAIN snaps = 1 .. k
    /\ files \subseteq DOMAIN snaps /\ bIndex \subseteq DOMAIN snaps
    /\ poolKept \subseteq DOMAIN snaps /\ lookRows \subseteq DOMAIN snaps
    /\ pool = "written" => DOMAIN snaps # {}

\* The newest of those that passed is on disk.
KeptInv ==
    /\ deletes \in Nat
    /\ look = "delete" => deletes # 0
    /\ deletes = 0 => \A v \in Passed : (\A w \in Passed : w <= v) => v \in files

\* What a stage of the job knows of the checkout and the requirements.
StageInv ==
    /\ job = "requirements" => code = deps
    /\ job = "done" => code = deps /\ due

BackupInv == RowsInv /\ KeptInv /\ StageInv

\* A set of numbers up to a bound has a greatest.
LEMMA GreatestBelow ==
    ASSUME NEW k \in Nat, NEW T, T \subseteq 0 .. k, T # {}
    PROVE  \E v \in T : \A w \in T : v >= w
<1> DEFINE R == {p \in Nat \X Nat : p[1] < p[2]}
           Gap == {k - w : w \in T}
<1>1. IsWellFoundedOn(R, Nat)
  BY NatLessThanWellFounded DEF OpToRel
<1>2. \A x, y \in Nat : y < x => <<y, x>> \in R
  OBVIOUS
<1>3. Gap \subseteq Nat /\ Gap # {}
  <2>1. \A w \in T : k - w \in Nat
    OBVIOUS
  <2>2. PICK w \in T : TRUE
    BY Zenon
  <2>3. k - w \in Gap
    BY <2>2
  <2> QED BY <2>1, <2>3
<1> HIDE DEF R
<1>4. PICK g \in Gap : \A y \in Gap : <<y, g>> \notin R
  BY <1>1, <1>3, WFMin, Zenon
<1>5. PICK v \in T : g = k - v
  BY <1>4
<1>6. \A w \in T : v >= w
  <2> TAKE w \in T
  <2>1. k - w \in Gap /\ k - w \in Nat /\ g \in Nat
    BY <1>3
  <2>2. ~(k - w < g)
    BY <1>2, <1>4, <2>1, Zenon
  <2> QED BY <1>5, <2>1, <2>2
<1> QED BY <1>6

\* The instance counts as the library does.
LEMMA BackupCount == ASSUME NEW S PROVE Backup!Cardinality(S) = Cardinality(S)
BY Zenon DEF Cardinality, Backup!Cardinality

\* The next snapshot's number.
LEMMA MadeCount ==
    ASSUME NEW k \in Nat, DOMAIN snaps = 1 .. k
    PROVE  Backup!Cardinality(Backup!Made) = k
<1>1. Cardinality(1 .. k) = k
  BY FS_Interval
<1> QED BY <1>1, BackupCount DEF Backup!Made

\* The rotation keeps the newest of the rows that passed.
LEMMA RotateKeepsPassed ==
    ASSUME NEW asc, asc \subseteq DOMAIN snaps, RowsInv,
           NEW v \in asc, v \in Passed, \A w \in Passed : w <= v
    PROVE  v \in Backup!Rotate(asc)
<1>1. v \in Backup!Verified(asc) /\ Backup!Verified(asc) \subseteq Passed
  BY DEF Passed, Backup!Verified
<1>2. \A y \in Passed : y \in Int
  BY DEF Passed, Backup!Verified, RowsInv
<1>3. {y \in Backup!Verified(asc) : y > v} = {}
  BY <1>1, <1>2
<1>4. Backup!Cardinality({y \in Backup!Verified(asc) : y > v}) = 0
  BY <1>3, FS_EmptySet, BackupCount
<1>5. v \in Backup!Newest(Backup!Verified(asc), 1)
  BY <1>1, <1>4 DEF Backup!Newest
<1> QED BY <1>5 DEF Backup!Rotate

LEMMA BackupInit == ASSUME Backup!Init PROVE BackupInv
<1>1. snaps = <<>> /\ DOMAIN snaps = 1 .. 0 /\ DOMAIN snaps = {}
  BY DEF Backup!Init
<1>2. Passed = {}
  BY <1>1 DEF Passed, Backup!Verified
<1>3. RowsInv
  BY <1>1 DEF RowsInv, Backup!Init
<1>4. KeptInv
  BY <1>2 DEF KeptInv, Backup!Init
<1>5. StageInv
  BY DEF StageInv, Backup!Init
<1> QED BY <1>3, <1>4, <1>5 DEF BackupInv

\* The store is left alone: what a step does to the job is all that counts.
LEMMA StoreKept ==
    ASSUME BackupInv, UNCHANGED <<snaps, files, bIndex, pool, poolKept, lookRows, look, deletes>>, StageInv'
    PROVE  BackupInv'
<1>1. RowsInv'
  BY DEF BackupInv, RowsInv
<1>2. Passed' = Passed
  BY DEF Passed, Backup!Verified
<1>3. KeptInv'
  BY <1>2 DEF BackupInv, KeptInv
<1> QED BY <1>1, <1>3 DEF BackupInv

LEMMA BackupStutter == ASSUME BackupInv, UNCHANGED BackupVars PROVE BackupInv'
<1>1. StageInv'
  BY DEF BackupInv, StageInv, BackupVars
<1> QED BY <1>1, StoreKept DEF BackupVars

\* The process is gone: nothing is under way any more.
LEMMA StoppedKeeps ==
    ASSUME BackupInv, UNCHANGED <<snaps, files, bIndex, deletes>>, job' = "none",
           pool' = "idle", poolKept' = {}, look' = "idle", lookRows' = {}
    PROVE  BackupInv'
<1>1. RowsInv'
  BY DEF BackupInv, RowsInv
<1>2. Passed' = Passed
  BY DEF Passed, Backup!Verified
<1>3. KeptInv'
  BY <1>2 DEF BackupInv, KeptInv
<1>4. StageInv'
  BY DEF StageInv
<1> QED BY <1>1, <1>3, <1>4 DEF BackupInv

\* A job that does not move knows what it knew.
LEMMA StageKept ==
    ASSUME BackupInv, UNCHANGED <<job, due, code, deps>>
    PROVE  StageInv'
BY DEF BackupInv, StageInv

\* A snapshot is written: the newest that passed is it, or the one before.
LEMMA SnapshotKeeps == ASSUME BackupInv, Backup!Snapshot PROVE BackupInv'
<1>1. PICK k \in Nat : DOMAIN snaps = 1 .. k
  BY DEF BackupInv, RowsInv
<1>2. PICK ok \in BOOLEAN, weekly \in BOOLEAN :
        /\ snaps' = [x \in (1 .. k) \cup {k + 1} |->
                       IF x = k + 1
                       THEN [commits |-> main \cup wal, verified |-> ok, weekly |-> weekly]
                       ELSE snaps[x]]
        /\ files' = files \cup {k + 1}
  <2>1. Backup!Cardinality(Backup!Made) = k /\ Backup!Made = 1 .. k
    BY <1>1, MadeCount, Zenon DEF Backup!Made
  <2>2. \E ok \in BOOLEAN, weekly \in BOOLEAN :
          /\ snaps' = [x \in Backup!Made \cup {Backup!Cardinality(Backup!Made) + 1} |->
                         IF x = Backup!Cardinality(Backup!Made) + 1
                         THEN [commits |-> main \cup wal, verified |-> ok, weekly |-> weekly]
                         ELSE snaps[x]]
          /\ files' = files \cup {Backup!Cardinality(Backup!Made) + 1}
    BY Zenon DEF Backup!Snapshot
  <2> QED BY <2>1, <2>2, Zenon
<1>3. /\ UNCHANGED <<bIndex, poolKept, lookRows, look, deletes, job, due, code, deps>>
      /\ pool' = "written"
  BY DEF Backup!Snapshot, Backup!request, Backup!tree
<1>4. DOMAIN snaps' = 1 .. (k + 1) /\ k + 1 \in Nat
  BY <1>2
<1>5. RowsInv'
  BY <1>1, <1>2, <1>3, <1>4 DEF BackupInv, RowsInv
<1>6. \A x \in 1 .. k : snaps'[x] = snaps[x]
  BY <1>2
<1>7. Passed \subseteq Passed' /\ Passed' \subseteq Passed \cup {k + 1}
  BY <1>1, <1>4, <1>6 DEF Passed, Backup!Verified
<1>8. KeptInv'
  <2> SUFFICES ASSUME deletes' = 0, NEW v \in Passed', \A w \in Passed' : w <= v
               PROVE  v \in files'
    BY <1>3 DEF BackupInv, KeptInv
  <2>1. CASE v = k + 1
    BY <1>2, <2>1
  <2>2. CASE v # k + 1
    <3>1. v \in Passed /\ \A w \in Passed : w <= v
      BY <1>7, <2>2
    <3>2. v \in files
      BY <1>3, <3>1 DEF BackupInv, KeptInv
    <3> QED BY <1>2, <3>2
  <2> QED BY <2>1, <2>2
<1>9. StageInv'
  BY <1>3, StageKept
<1> QED BY <1>5, <1>8, <1>9 DEF BackupInv

\* The rotation unlinks files.
LEMMA RotateFilesKeeps == ASSUME BackupInv, Backup!RotateFiles PROVE BackupInv'
<1>1. PICK k \in Nat : DOMAIN snaps = 1 .. k
  BY DEF BackupInv, RowsInv
<1> DEFINE asc == bIndex \cup {k}
<1>2. poolKept' = Backup!Rotate(asc) /\ files' = files \ (asc \ Backup!Rotate(asc))
  BY <1>1, MadeCount, Zenon DEF Backup!RotateFiles
<1>3. UNCHANGED <<snaps, bIndex, lookRows, look, deletes, job, due, code, deps>>
  BY DEF Backup!RotateFiles, Backup!request, Backup!tree
<1>4. k \in DOMAIN snaps
  <2>1. pool = "written"
    BY DEF Backup!RotateFiles
  <2>2. 1 .. k # {}
    BY <1>1, <2>1 DEF BackupInv, RowsInv
  <2> QED BY <1>1, <2>2
<1>5. asc \subseteq DOMAIN snaps
  BY <1>4 DEF BackupInv, RowsInv
<1>6. Backup!Rotate(asc) \subseteq asc
  BY DEF Backup!Rotate, Backup!Newest, Backup!Verified
<1>7. pool' = "rotated"
  BY DEF Backup!RotateFiles
<1>8. Passed' = Passed
  BY <1>3 DEF Passed, Backup!Verified
<1> HIDE DEF asc
<1>9. RowsInv'
  BY <1>2, <1>3, <1>5, <1>6, <1>7 DEF BackupInv, RowsInv
<1>10. KeptInv'
  <2> SUFFICES ASSUME deletes' = 0, NEW v \in Passed', \A w \in Passed' : w <= v
               PROVE  v \in files'
    BY <1>3 DEF BackupInv, KeptInv
  <2>1. v \in Passed /\ \A w \in Passed : w <= v
    BY <1>8
  <2>2. v \in files
    BY <1>3, <2>1 DEF BackupInv, KeptInv
  <2>3. CASE v \in asc
    <3>1. v \in Backup!Rotate(asc)
      BY <1>5, <2>1, <2>3, RotateKeepsPassed DEF BackupInv
    <3> QED BY <1>2, <2>2, <3>1
  <2>4. CASE v \notin asc
    BY <1>2, <2>2, <2>4
  <2> QED BY <2>3, <2>4
<1>11. StageInv'
  BY <1>3, StageKept
<1> QED BY <1>9, <1>10, <1>11 DEF BackupInv

\* The index is saved from what the thread read, from a listing or after a delete.
LEMMA IndexKeeps ==
    ASSUME BackupInv, Backup!SaveIndex \/ Backup!ListReads \/ Backup!ListEnds
                      \/ \E n \in Backup!Snap : Backup!DeleteReads(n)
    PROVE  BackupInv'
<1>1. /\ UNCHANGED <<snaps, files, due, code, deps>>
      /\ pool' = pool \/ pool' = "idle"
      /\ poolKept' = poolKept \/ poolKept' = {}
      /\ bIndex' \in {bIndex, poolKept, lookRows \cap files}
      /\ lookRows' \in {lookRows, bIndex, {}}
      /\ \/ deletes' = deletes /\ (look' = "delete" => look = "delete")
         \/ deletes' = deletes + 1
      /\ job' = job \/ (job = "snapshot" /\ job' = "fetch")
  BY DEF Backup!SaveIndex, Backup!ListReads, Backup!ListEnds, Backup!DeleteReads, Backup!store,
         Backup!thread, Backup!request, Backup!tree
<1>2. Passed' = Passed
  BY <1>1 DEF Passed, Backup!Verified
<1>3. RowsInv'
  BY <1>1 DEF BackupInv, RowsInv
<1>4. KeptInv'
  BY <1>1, <1>2 DEF BackupInv, KeptInv
<1>5. StageInv'
  BY <1>1 DEF BackupInv, StageInv
<1> QED BY <1>3, <1>4, <1>5 DEF BackupInv

\* A delete takes the file the admin named.
LEMMA DeleteKeeps == ASSUME BackupInv, Backup!DeleteEnds PROVE BackupInv'
<1>1. /\ UNCHANGED <<snaps, pool, poolKept, deletes, job, due, code, deps>>
      /\ look = "delete" /\ look' = "idle" /\ lookRows' = {}
      /\ bIndex' = lookRows \ {victim} /\ files' = files \ {victim}
  BY DEF Backup!DeleteEnds, Backup!thread, Backup!tree
<1>2. RowsInv'
  BY <1>1 DEF BackupInv, RowsInv
<1>3. KeptInv'
  BY <1>1 DEF BackupInv, KeptInv
<1>4. StageInv'
  BY <1>1, StageKept
<1> QED BY <1>2, <1>3, <1>4 DEF BackupInv

\* A stage of an update or a rollback.
LEMMA JobKeeps ==
    ASSUME BackupInv,
           \/ Backup!UpdateBegins \/ Backup!CheckoutMoves \/ Backup!RequirementsOfUpdate
           \/ Backup!UpdateUndone \/ Backup!RollbackBegins \/ Backup!RollbackInstalls
           \/ Backup!RollbackEnds
    PROVE  BackupInv'
<1>1. UNCHANGED <<snaps, files, bIndex, pool, poolKept, lookRows, look, deletes>>
  BY DEF Backup!UpdateBegins, Backup!CheckoutMoves, Backup!RequirementsOfUpdate,
         Backup!UpdateUndone, Backup!RollbackBegins, Backup!RollbackInstalls,
         Backup!RollbackEnds, Backup!Unchanged, Backup!store, Backup!thread, Backup!request
<1>2. StageInv'
  <2>1. CASE Backup!UpdateBegins
    BY <2>1 DEF StageInv, Backup!UpdateBegins, Backup!tree
  <2>2. CASE Backup!CheckoutMoves
    BY <2>2 DEF StageInv, Backup!CheckoutMoves
  <2>3. CASE Backup!RequirementsOfUpdate
    BY <2>3 DEF BackupInv, StageInv, Backup!RequirementsOfUpdate
  <2>4. CASE Backup!UpdateUndone
    BY <2>4 DEF StageInv, Backup!UpdateUndone
  <2>5. CASE Backup!RollbackBegins
    BY <2>5 DEF StageInv, Backup!RollbackBegins
  <2>6. CASE Backup!RollbackInstalls
    BY <2>6 DEF BackupInv, StageInv, Backup!RollbackInstalls
  <2>7. CASE Backup!RollbackEnds
    BY <2>7 DEF BackupInv, StageInv, Backup!RollbackEnds, Backup!tree
  <2> QED BY <2>1, <2>2, <2>3, <2>4, <2>5, <2>6, <2>7
<1> QED BY <1>1, <1>2, StoreKept

LEMMA BackupStep == ASSUME BackupInv, Backup!Next PROVE BackupInv'
<1>1. CASE \/ Backup!Commit \/ Backup!Checkpoint \/ Backup!RestoreBegins \/ Backup!KeepLive
           \/ Backup!RestoreEnds \/ Backup!StartsPlain
  <2>1. /\ UNCHANGED <<snaps, files, bIndex, pool, poolKept, lookRows, look, deletes>>
        /\ UNCHANGED <<job, due, code, deps>>
    BY <1>1 DEF Backup!Commit, Backup!Checkpoint, Backup!RestoreBegins, Backup!KeepLive,
                Backup!RestoreEnds, Backup!StartsPlain, Backup!store, Backup!thread,
                Backup!request, Backup!tree
  <2> QED BY <2>1, StageKept, StoreKept
<1>2. CASE Backup!Restart \/ Backup!Die
  <2>1. /\ UNCHANGED <<snaps, files, bIndex, deletes>> /\ job' = "none"
        /\ pool' = "idle" /\ poolKept' = {} /\ look' = "idle" /\ lookRows' = {}
    BY <1>2 DEF Backup!Restart, Backup!Die, Backup!Gone, Backup!store
  <2> QED BY <2>1, StoppedKeeps
<1> QED BY <1>1, <1>2, SnapshotKeeps, RotateFilesKeeps, IndexKeeps, DeleteKeeps, JobKeeps
        DEF Backup!Next

\* What the suite claims of backups and updates.
LEMMA BackupSafe == ASSUME BackupInv PROVE Backup!VerifiedStays /\ Backup!ScheduledRunnable
<1>1. ASSUME deletes = 0, Passed # {}
      PROVE  Backup!Max(Passed) \in files
  <2>1. PICK k \in Nat : DOMAIN snaps = 1 .. k
    BY DEF BackupInv, RowsInv
  <2>2. Passed \subseteq 0 .. k
    BY <2>1 DEF Passed, Backup!Verified
  <2>3. \E v \in Passed : \A w \in Passed : v >= w
    BY <1>1, <2>2, GreatestBelow, Zenon
  <2>4. Backup!Max(Passed) \in Passed /\ \A w \in Passed : Backup!Max(Passed) >= w
    BY <2>3 DEF Backup!Max
  <2>5. \A w \in Passed : w <= Backup!Max(Passed)
    BY <2>2, <2>4
  <2> QED BY <1>1, <2>4, <2>5 DEF BackupInv, KeptInv
<1>2. Backup!VerifiedStays
  BY <1>1 DEF Backup!VerifiedStays, Passed, Backup!Made
<1>3. Backup!ScheduledRunnable
  BY DEF BackupInv, StageInv, Backup!ScheduledRunnable
<1> QED BY <1>2, <1>3

-----------------------------------------------------------------------------
(* Settings: what the cache holds of an area that exists is what is        *)
(* stored; an index that counts as current is exact; and the last save of  *)
(* an area, as the process remembers it, is what is stored.                *)

Doc == [hook : Int, login : Int, lock : BOOLEAN]

AreasInv ==
    /\ sLive \subseteq used /\ used \subseteq Area
    /\ DOMAIN cache \subseteq used /\ DOMAIN prints \subseteq used
    /\ sStored \in [Area -> Doc] /\ versions \in [Area -> Seq(Doc)]
    /\ \A a \in DOMAIN cache : cache[a] \in Doc
    \* an id is never given twice
    /\ \A a \in Area \ used : versions[a] = <<>>
    /\ writes \in Int /\ restores \in Int

CacheInv == \A a \in sLive \cap DOMAIN cache : cache[a] = sStored[a]

\* An index is never of a generation to come.
IndexInv ==
    /\ hooksGen \in Nat /\ areasGen \in Nat
    /\ sIndex.key \in Int \X Int
    /\ sIndex.key[1] <= hooksGen /\ sIndex.key[2] <= areasGen
    /\ Stored!IndexExact

VersionsInv ==
    /\ \A a \in sLive \cap DOMAIN prints : ~Stored!Meaningful(prints[a], sStored[a])
    /\ Stored!NewestIsStored

StoredInv == AreasInv /\ CacheInv /\ IndexInv /\ VersionsInv

\* The newest version is kept, however many there are.
LEMMA KeptLast ==
    ASSUME NEW s \in Seq(Doc), NEW e \in Doc
    PROVE  /\ Stored!Kept(Append(s, e)) \in Seq(Doc)
           /\ Stored!Kept(Append(s, e)) # <<>>
           /\ Stored!Last(Stored!Kept(Append(s, e))) = e
<1> DEFINE t == Append(s, e)
<1>1. t \in Seq(Doc) /\ Len(t) = Len(s) + 1 /\ t[Len(t)] = e /\ Len(s) \in Nat
  BY AppendProperties
<1>2. Keep \in Nat /\ Keep > 0
  BY StoredAssumption
<1> HIDE DEF t
<1>3. CASE Len(t) > Keep
  <2> DEFINE k == SubSeq(t, Len(t) - Keep + 1, Len(t))
  <2>1. Stored!Kept(t) = k
    BY <1>3, Zenon DEF Stored!Kept
  <2>2. \A i \in (Len(t) - Keep + 1) .. Len(t) : t[i] \in Doc
    BY <1>1, <1>2, <1>3
  <2>3. k \in Seq(Doc) /\ Len(k) = Keep /\ \A i \in 1 .. Keep : k[i] = t[Len(t) - Keep + 1 + i - 1]
    BY <1>1, <1>2, <1>3, <2>2, SubSeqProperties
  <2> HIDE DEF k
  <2>4. k[Len(k)] = e
    BY <1>1, <1>2, <2>3
  <2>5. k # <<>>
    BY <1>2, <2>3, EmptySeq
  <2> QED BY <2>1, <2>3, <2>4, <2>5 DEF t, Stored!Last
<1>4. CASE ~(Len(t) > Keep)
  <2>1. Stored!Kept(t) = t
    BY <1>4 DEF Stored!Kept
  <2>2. t # <<>>
    BY <1>1, EmptySeq
  <2> QED BY <1>1, <2>1, <2>2 DEF t, Stored!Last
<1> QED BY <1>3, <1>4

\* A document with another value for one key.
LEMMA DocHook ==
    ASSUME NEW h, NEW l, NEW k, NEW v
    PROVE  [[hook |-> h, login |-> l, lock |-> k] EXCEPT !.hook = v] = [hook |-> v, login |-> l, lock |-> k]
OBVIOUS

LEMMA DocLogin ==
    ASSUME NEW h, NEW l, NEW k, NEW v
    PROVE  [[hook |-> h, login |-> l, lock |-> k] EXCEPT !.login = v] = [hook |-> h, login |-> v, lock |-> k]
OBVIOUS

LEMMA DocLock ==
    ASSUME NEW h, NEW l, NEW k, NEW v
    PROVE  [[hook |-> h, login |-> l, lock |-> k] EXCEPT !.lock = v] = [hook |-> h, login |-> l, lock |-> v]
OBVIOUS

LEMMA DocChanged ==
    ASSUME NEW h, NEW l, NEW k, NEW v
    PROVE  /\ Stored!Changed([hook |-> h, login |-> l, lock |-> k], [hook |-> v, login |-> l, lock |-> k]) <= 1
           /\ Stored!Changed([hook |-> h, login |-> l, lock |-> k], [hook |-> h, login |-> v, lock |-> k]) <= 1
           /\ Stored!Changed([hook |-> h, login |-> l, lock |-> k], [hook |-> h, login |-> l, lock |-> v]) <= 1
BY DEF Stored!Changed

\* One key of a document is given another value.
LEMMA OneKeyOfDoc ==
    ASSUME NEW s \in Doc, NEW key, NEW v,
           \/ key = "hook" /\ v \in Int
           \/ key = "login" /\ v \in Int
           \/ key = "lock" /\ v \in BOOLEAN
    PROVE  [s EXCEPT ![key] = v] \in Doc /\ Stored!Changed(s, [s EXCEPT ![key] = v]) <= 1
<1>1. PICK h \in Int, l \in Int, k \in BOOLEAN : s = [hook |-> h, login |-> l, lock |-> k]
  BY DEF Doc
<1>2. CASE key = "hook" /\ v \in Int
  <2>1. [s EXCEPT ![key] = v] = [hook |-> v, login |-> l, lock |-> k]
    <3>1. [s EXCEPT ![key] = v] = [s EXCEPT !.hook = v]
      BY <1>2
    <3> QED BY <1>1, <3>1, DocHook
  <2>2. [hook |-> v, login |-> l, lock |-> k] \in Doc
    BY <1>2 DEF Doc
  <2>3. Stored!Changed([hook |-> h, login |-> l, lock |-> k], [hook |-> v, login |-> l, lock |-> k]) <= 1
    BY DocChanged, Zenon
  <2>4. Stored!Changed(s, [s EXCEPT ![key] = v]) = Stored!Changed([hook |-> h, login |-> l, lock |-> k], [hook |-> v, login |-> l, lock |-> k])
    BY <1>1, <2>1, Zenon
  <2> QED BY <2>1, <2>2, <2>3, <2>4
<1>3. CASE key = "login" /\ v \in Int
  <2>1. [s EXCEPT ![key] = v] = [hook |-> h, login |-> v, lock |-> k]
    <3>1. [s EXCEPT ![key] = v] = [s EXCEPT !.login = v]
      BY <1>3
    <3> QED BY <1>1, <3>1, DocLogin
  <2>2. [hook |-> h, login |-> v, lock |-> k] \in Doc
    BY <1>3 DEF Doc
  <2>3. Stored!Changed([hook |-> h, login |-> l, lock |-> k], [hook |-> h, login |-> v, lock |-> k]) <= 1
    BY DocChanged, Zenon
  <2>4. Stored!Changed(s, [s EXCEPT ![key] = v]) = Stored!Changed([hook |-> h, login |-> l, lock |-> k], [hook |-> h, login |-> v, lock |-> k])
    BY <1>1, <2>1, Zenon
  <2> QED BY <2>1, <2>2, <2>3, <2>4
<1>4. CASE key = "lock" /\ v \in BOOLEAN
  <2>1. [s EXCEPT ![key] = v] = [hook |-> h, login |-> l, lock |-> v]
    <3>1. [s EXCEPT ![key] = v] = [s EXCEPT !.lock = v]
      BY <1>4
    <3> QED BY <1>1, <3>1, DocLock
  <2>2. [hook |-> h, login |-> l, lock |-> v] \in Doc
    BY <1>4 DEF Doc
  <2>3. Stored!Changed([hook |-> h, login |-> l, lock |-> k], [hook |-> h, login |-> l, lock |-> v]) <= 1
    BY DocChanged, Zenon
  <2>4. Stored!Changed(s, [s EXCEPT ![key] = v]) = Stored!Changed([hook |-> h, login |-> l, lock |-> k], [hook |-> h, login |-> l, lock |-> v])
    BY <1>1, <2>1, Zenon
  <2> QED BY <2>1, <2>2, <2>3, <2>4
<1> QED BY <1>2, <1>3, <1>4

\* What the database answers is a document, and is what is stored.
LEMMA RowIs ==
    ASSUME StoredInv, NEW a \in Area
    PROVE  Stored!Row(a) \in Doc /\ (a \in sLive => Stored!Row(a) = sStored[a])
<1>1. [hook |-> 0, login |-> 0, lock |-> FALSE] \in Doc
  BY DEF Doc
<1>2. sStored[a] \in Doc
  BY DEF StoredInv, AreasInv
<1> QED BY <1>1, <1>2 DEF Stored!Row, Stored!Default

\* The cache, or else the row, is what is stored of an area that exists.
LEMMA SeenIs ==
    ASSUME StoredInv, NEW a \in used
    PROVE  Stored!Seen(a) \in Doc /\ (a \in sLive => Stored!Seen(a) = sStored[a])
<1>1. a \in Area
  BY DEF StoredInv, AreasInv
<1>2. CASE a \in DOMAIN cache
  <2>1. Stored!Seen(a) = cache[a]
    BY <1>2 DEF Stored!Seen
  <2> QED BY <1>2, <2>1 DEF StoredInv, AreasInv, CacheInv
<1>3. CASE a \notin DOMAIN cache
  <2>1. Stored!Seen(a) = Stored!Row(a)
    BY <1>3 DEF Stored!Seen
  <2> QED BY <1>1, <2>1, RowIs
<1> QED BY <1>2, <1>3

\* A save starts from what is stored, whatever an earlier read failed.
LEMMA WritableIs ==
    ASSUME StoredInv, NEW a \in used, NEW s \in Stored!Writable(a)
    PROVE  s \in Doc /\ (a \in sLive => s = sStored[a])
<1>1. a \in Area
  BY DEF StoredInv, AreasInv
<1>2. CASE a \in DOMAIN cache \ degraded
  <2>1. s = cache[a]
    BY <1>2 DEF Stored!Writable
  <2> QED BY <1>2, <2>1 DEF StoredInv, AreasInv, CacheInv
<1>3. CASE a \notin DOMAIN cache \ degraded
  <2>1. s = Stored!Row(a)
    BY <1>3 DEF Stored!Writable
  <2> QED BY <1>1, <2>1, RowIs
<1> QED BY <1>2, <1>3

LEMMA StoredInit == ASSUME Stored!Init PROVE StoredInv
<1>1. cache = <<>> /\ prints = <<>> /\ DOMAIN cache = {} /\ DOMAIN prints = {}
  BY DEF Stored!Init
<1>2. \A a \in Area : versions[a] = <<>>
  BY DEF Stored!Init
<1>3. <<>> \in Seq(Doc)
  BY EmptySeq
<1>4. sStored \in [Area -> Doc]
  <2>1. \A a \in Area : sStored[a] = [hook |-> 0, login |-> 0, lock |-> FALSE]
                        \/ sStored[a] = [hook |-> 1, login |-> 0, lock |-> FALSE]
    BY DEF Stored!Init, Stored!Default
  <2>2. [hook |-> 0, login |-> 0, lock |-> FALSE] \in Doc /\ [hook |-> 1, login |-> 0, lock |-> FALSE] \in Doc
    BY DEF Doc
  <2>3. sStored = [a \in Area |-> sStored[a]]
    BY DEF Stored!Init
  <2> QED BY <2>1, <2>2, <2>3, Zenon
<1>5. versions \in [Area -> Seq(Doc)]
  BY <1>3 DEF Stored!Init
<1>6. AreasInv
  BY <1>1, <1>2, <1>4, <1>5 DEF AreasInv, Stored!Init
<1>7. CacheInv
  BY <1>1 DEF CacheInv
<1>8. hooksGen = 0 /\ areasGen = 0 /\ sIndex.key = <<-1, -1>>
  BY DEF Stored!Init, Stored!NoIndex
<1>9. IndexInv
  <2>1. sIndex.key # Stored!Key
    BY <1>8 DEF Stored!Key
  <2> QED BY <1>8, <2>1 DEF IndexInv, Stored!IndexExact
<1>10. VersionsInv
  BY <1>1, <1>2, <1>6 DEF VersionsInv, Stored!NewestIsStored, AreasInv
<1> QED BY <1>6, <1>7, <1>9, <1>10 DEF StoredInv

\* A document is no change from itself.
LEMMA SameDoc == ASSUME NEW s PROVE Stored!Changed(s, s) <= 1 /\ ~Stored!Meaningful(s, s)
BY DEF Stored!Changed, Stored!Meaningful

\* An index stays what it is while nothing it is about changes.
LEMMA IndexSame ==
    ASSUME StoredInv, UNCHANGED <<sLive, sStored, sIndex, hooksGen, areasGen>>
    PROVE  IndexInv'
<1>1. Stored!Tokens' = Stored!Tokens
  BY DEF Stored!Tokens
<1>2. Stored!Key' = Stored!Key
  BY DEF Stored!Key
<1> QED BY <1>1, <1>2 DEF StoredInv, IndexInv, Stored!IndexExact

\* Only the cache and what is known of the index move.
LEMMA CacheMoves ==
    ASSUME StoredInv, UNCHANGED <<sLive, used, sStored, prints, versions, lost>>,
           writes' \in Int, restores' \in Int, DOMAIN cache' \subseteq used,
           \A a \in DOMAIN cache' : cache'[a] \in Doc /\ (a \in sLive => cache'[a] = sStored[a]),
           IndexInv'
    PROVE  StoredInv' /\ Stored!OneKeyStep
<1>1. AreasInv'
  BY DEF StoredInv, AreasInv
<1>2. CacheInv'
  BY DEF CacheInv
<1>3. VersionsInv'
  BY DEF StoredInv, VersionsInv, Stored!NewestIsStored
<1>4. \A a \in sLive \cap sLive' : Stored!Changed(sStored[a], sStored'[a]) <= 1
  BY SameDoc
<1>5. Stored!OneKeyStep
  BY <1>4 DEF Stored!OneKeyStep
<1> QED BY <1>1, <1>2, <1>3, <1>5 DEF StoredInv

LEMMA StoredStutter == ASSUME StoredInv, UNCHANGED StoredVars PROVE StoredInv'
<1>1. UNCHANGED <<sLive, used, sStored, cache, hooksGen, areasGen, sIndex, prints, versions, lost,
                  writes, restores>>
  BY DEF StoredVars
<1>2. IndexInv'
  BY <1>1, IndexSame
<1>3. writes' \in Int /\ restores' \in Int /\ DOMAIN cache' \subseteq used
  BY <1>1 DEF StoredInv, AreasInv
<1>4. \A a \in DOMAIN cache' : cache'[a] \in Doc /\ (a \in sLive => cache'[a] = sStored[a])
  BY <1>1 DEF StoredInv, AreasInv, CacheInv
<1> QED BY <1>1, <1>2, <1>3, <1>4, CacheMoves

\* A read that fails caches nothing, and a refused save moves nothing.
LEMMA NothingMoves ==
    ASSUME StoredInv, UNCHANGED <<sLive, used, sStored, cache, hooksGen, areasGen, sIndex, prints,
                                  versions, lost, restores>>,
           writes' \in Int
    PROVE  StoredInv' /\ Stored!OneKeyStep
<1>1. IndexInv'
  BY IndexSame
<1>2. restores' \in Int /\ DOMAIN cache' \subseteq used
  BY DEF StoredInv, AreasInv
<1>3. \A a \in DOMAIN cache' : cache'[a] \in Doc /\ (a \in sLive => cache'[a] = sStored[a])
  BY DEF StoredInv, AreasInv, CacheInv
<1> QED BY <1>1, <1>2, <1>3, CacheMoves

LEMMA LoadKeeps ==
    ASSUME StoredInv, NEW a \in used, Stored!Load(a)
    PROVE  StoredInv' /\ Stored!OneKeyStep
<1>1. UNCHANGED <<sLive, used, sStored, hooksGen, areasGen, sIndex, prints, versions, lost,
                  writes, restores>>
  BY DEF Stored!Load, Stored!generations, Stored!bounds
<1>2. a \in Area
  BY DEF StoredInv, AreasInv
<1>3. cache' = [x \in DOMAIN cache \cup {a} |-> IF x = a THEN Stored!Row(a) ELSE cache[x]]
  BY DEF Stored!Load, Stored!With
<1>4. Stored!Row(a) \in Doc /\ (a \in sLive => Stored!Row(a) = sStored[a])
  BY <1>2, RowIs
<1>5. IndexInv'
  BY <1>1, IndexSame
<1>6. DOMAIN cache' \subseteq used /\ writes' \in Int /\ restores' \in Int
  BY <1>1, <1>3 DEF StoredInv, AreasInv
<1>7. ASSUME NEW x \in DOMAIN cache'
      PROVE  cache'[x] \in Doc /\ (x \in sLive => cache'[x] = sStored[x])
  <2>1. CASE x = a
    BY <1>3, <1>4, <2>1
  <2>2. CASE x # a
    <3>1. x \in DOMAIN cache /\ cache'[x] = cache[x]
      BY <1>3, <1>7, <2>2
    <3> QED BY <3>1 DEF StoredInv, AreasInv, CacheInv
  <2> QED BY <2>1, <2>2
<1> QED BY <1>1, <1>5, <1>6, <1>7, CacheMoves

\* The tokens an index lists are those stored, when every area could be read.
LEMMA BuildIndexKeeps ==
    ASSUME StoredInv, Stored!BuildIndex
    PROVE  StoredInv' /\ Stored!OneKeyStep
<1>1. UNCHANGED <<sLive, used, sStored, hooksGen, areasGen, prints, versions, lost, writes, restores>>
  BY DEF Stored!BuildIndex, Stored!generations
<1>2. PICK bad \in SUBSET (sLive \ DOMAIN cache) :
        /\ sIndex' = [key |-> Stored!Key, known |-> Stored!TokensOf(sLive \ bad), whole |-> bad = {}]
        /\ cache' = [a \in DOMAIN cache \cup (sLive \ bad) |-> Stored!Seen(a)]
  BY Zenon DEF Stored!BuildIndex
<1>3. sLive \subseteq used /\ DOMAIN cache \subseteq used
  BY DEF StoredInv, AreasInv
<1>4. DOMAIN cache' \subseteq used /\ writes' \in Int /\ restores' \in Int
  BY <1>1, <1>2, <1>3 DEF StoredInv, AreasInv
<1>5. \A x \in DOMAIN cache' : cache'[x] \in Doc /\ (x \in sLive => cache'[x] = sStored[x])
  <2> TAKE x \in DOMAIN cache'
  <2>1. x \in used /\ cache'[x] = Stored!Seen(x)
    BY <1>2, <1>3
  <2> QED BY <2>1, SeenIs
<1>6. IndexInv'
  <2>1. Stored!Key' = Stored!Key /\ Stored!Tokens' = Stored!Tokens
    BY <1>1 DEF Stored!Key, Stored!Tokens
  <2>2. sIndex'.key = <<hooksGen, areasGen>>
    BY <1>2 DEF Stored!Key
  <2>3. ASSUME sIndex'.whole PROVE sIndex'.known = Stored!Tokens
    <3>1. bad = {}
      BY <1>2, <2>3, Zenon
    <3>2. sLive \ bad = sLive
      BY <3>1
    <3>3. \A a \in sLive : Stored!Seen(a) = sStored[a]
      BY <1>3, SeenIs
    <3>4. Stored!TokensOf(sLive) = Stored!Tokens
      BY <3>3 DEF Stored!TokensOf, Stored!Tokens
    <3> QED BY <1>2, <3>2, <3>4
  <2>4. Stored!IndexExact'
    BY <2>1, <2>3 DEF Stored!IndexExact
  <2>5. hooksGen \in Nat /\ areasGen \in Nat
    BY DEF StoredInv, IndexInv
  <2> QED BY <1>1, <2>2, <2>4, <2>5 DEF IndexInv
<1> QED BY <1>1, <1>4, <1>5, <1>6, CacheMoves

LEMMA RestartKeeps ==
    ASSUME StoredInv, Stored!Restart
    PROVE  StoredInv' /\ Stored!OneKeyStep
<1>1. /\ UNCHANGED <<sLive, used, sStored, versions, lost, writes, restores>>
      /\ cache' = <<>> /\ prints' = <<>> /\ hooksGen' = 0 /\ areasGen' = 0
      /\ sIndex'.key = <<-1, -1>>
  BY DEF Stored!Restart, Stored!NoIndex
<1>2. DOMAIN cache' = {} /\ DOMAIN prints' = {}
  BY <1>1
<1>3. AreasInv'
  BY <1>1, <1>2 DEF StoredInv, AreasInv
<1>4. CacheInv'
  BY <1>2 DEF CacheInv
<1>5. IndexInv'
  <2>1. sIndex'.key # Stored!Key'
    BY <1>1 DEF Stored!Key
  <2>2. Stored!IndexExact'
    BY <2>1 DEF Stored!IndexExact
  <2> QED BY <1>1, <2>2 DEF IndexInv
<1>6. VersionsInv'
  BY <1>1, <1>2 DEF StoredInv, VersionsInv, Stored!NewestIsStored
<1>7. \A a \in sLive \cap sLive' : Stored!Changed(sStored[a], sStored'[a]) <= 1
  BY <1>1, SameDoc
<1> QED BY <1>3, <1>4, <1>5, <1>6, <1>7 DEF StoredInv, Stored!OneKeyStep

LEMMA DeleteAreaKeeps ==
    ASSUME StoredInv, NEW a \in used, Stored!DeleteArea(a)
    PROVE  StoredInv' /\ Stored!OneKeyStep
<1>1. /\ UNCHANGED <<used, sStored, prints, sIndex, versions, lost, writes, restores>>
      /\ sLive' = sLive \ {a} /\ areasGen' = areasGen + 1 /\ hooksGen' = hooksGen + 1
      /\ cache' = [x \in DOMAIN cache \ {a} |-> cache[x]]
  BY DEF Stored!DeleteArea, Stored!Without
<1>2. AreasInv'
  BY <1>1 DEF StoredInv, AreasInv
<1>3. CacheInv'
  BY <1>1 DEF StoredInv, CacheInv
<1>4. IndexInv'
  <2>1. /\ hooksGen \in Nat /\ areasGen \in Nat /\ sIndex.key \in Int \X Int
        /\ sIndex.key[1] <= hooksGen /\ sIndex.key[2] <= areasGen
    BY DEF StoredInv, IndexInv
  <2>2. Stored!Key' = <<hooksGen + 1, areasGen + 1>>
    BY <1>1 DEF Stored!Key
  <2>3. sIndex.key[1] # hooksGen + 1
    BY <2>1
  <2>4. Stored!IndexExact'
    BY <1>1, <2>2, <2>3 DEF Stored!IndexExact
  <2> QED BY <1>1, <2>1, <2>4 DEF IndexInv
<1>5. VersionsInv'
  BY <1>1 DEF StoredInv, VersionsInv, Stored!NewestIsStored
<1>6. \A x \in sLive \cap sLive' : Stored!Changed(sStored[x], sStored'[x]) <= 1
  BY <1>1, SameDoc
<1> QED BY <1>2, <1>3, <1>4, <1>5, <1>6 DEF StoredInv, Stored!OneKeyStep

LEMMA CreateAreaKeeps ==
    ASSUME StoredInv, NEW a \in Area, Stored!CreateArea(a)
    PROVE  StoredInv' /\ Stored!OneKeyStep
<1>1. /\ UNCHANGED <<cache, prints, hooksGen, sIndex, versions, lost, writes, restores>>
      /\ a \notin used /\ sLive' = sLive \cup {a} /\ used' = used \cup {a}
      /\ sStored' = [sStored EXCEPT ![a] = [hook |-> 0, login |-> 0, lock |-> FALSE]]
      /\ areasGen' = areasGen + 1
  BY DEF Stored!CreateArea, Stored!Default, Stored!memory
<1>2. [hook |-> 0, login |-> 0, lock |-> FALSE] \in Doc
  BY DEF Doc
<1>3. a \notin sLive /\ a \notin DOMAIN cache /\ a \notin DOMAIN prints /\ versions[a] = <<>>
  BY <1>1 DEF StoredInv, AreasInv
<1>4. \A x \in sLive : sStored'[x] = sStored[x]
  BY <1>1, <1>3 DEF StoredInv, AreasInv
<1>5. AreasInv'
  BY <1>1, <1>2 DEF StoredInv, AreasInv
<1>6. CacheInv'
  BY <1>1, <1>3, <1>4 DEF StoredInv, CacheInv
<1>7. IndexInv'
  <2>1. /\ hooksGen \in Nat /\ areasGen \in Nat /\ sIndex.key \in Int \X Int
        /\ sIndex.key[1] <= hooksGen /\ sIndex.key[2] <= areasGen
    BY DEF StoredInv, IndexInv
  <2>2. Stored!Key' = <<hooksGen, areasGen + 1>>
    BY <1>1 DEF Stored!Key
  <2>3. sIndex.key[2] # areasGen + 1
    BY <2>1
  <2>4. Stored!IndexExact'
    BY <1>1, <2>2, <2>3 DEF Stored!IndexExact
  <2> QED BY <1>1, <2>1, <2>4 DEF IndexInv
<1>8. VersionsInv'
  BY <1>1, <1>3, <1>4 DEF StoredInv, VersionsInv, Stored!NewestIsStored
<1>9. \A x \in sLive \cap sLive' : Stored!Changed(sStored[x], sStored'[x]) <= 1
  BY <1>4, SameDoc
<1> QED BY <1>5, <1>6, <1>7, <1>8, <1>9 DEF StoredInv, Stored!OneKeyStep

\* What a save leaves in the history: of an area that exists the newest version is
\* what was saved, unless the database refused it.
LEMMA RecordedKeeps ==
    ASSUME StoredInv, NEW a \in used, NEW doc \in Doc, Stored!Recorded(a, doc)
    PROVE  /\ versions' \in [Area -> Seq(Doc)]
           /\ \A x \in Area : x # a => versions'[x] = versions[x] /\ (x \in lost <=> x \in lost')
           /\ a \in sLive \ lost' /\ versions'[a] # <<>>
                 => ~Stored!Meaningful(Stored!Last(versions'[a]), doc)
<1>1. a \in Area /\ versions \in [Area -> Seq(Doc)]
  BY DEF StoredInv, AreasInv
<1>2. CASE ~Stored!IsNews(a, doc)
  <2>1. versions' = versions /\ lost' = lost
    BY <1>2 DEF Stored!Recorded
  <2>2. ASSUME a \in sLive \ lost', versions'[a] # <<>>
        PROVE  ~Stored!Meaningful(Stored!Last(versions'[a]), doc)
    <3>1. CASE a \in DOMAIN prints
      <4>1. ~Stored!Meaningful(prints[a], doc)
        BY <1>2, <3>1 DEF Stored!IsNews
      <4>2. ~Stored!Meaningful(prints[a], sStored[a])
        BY <2>2, <3>1 DEF StoredInv, VersionsInv
      <4>3. ~Stored!Meaningful(Stored!Last(versions[a]), sStored[a])
        BY <2>1, <2>2 DEF StoredInv, VersionsInv, Stored!NewestIsStored
      <4> QED BY <2>1, <4>1, <4>2, <4>3 DEF Stored!Meaningful
    <3>2. CASE a \notin DOMAIN prints
      BY <1>2, <2>1, <2>2, <3>2 DEF Stored!IsNews
    <3> QED BY <3>1, <3>2
  <2> QED BY <1>1, <2>1, <2>2
<1>3. CASE /\ versions' = [versions EXCEPT ![a] = Stored!Kept(Append(@, doc))]
           /\ lost' = lost \ {a}
  <2>1. /\ Stored!Kept(Append(versions[a], doc)) \in Seq(Doc)
        /\ Stored!Last(Stored!Kept(Append(versions[a], doc))) = doc
    BY <1>1, KeptLast
  <2>2. versions' = [versions EXCEPT ![a] = Stored!Kept(Append(versions[a], doc))]
    BY <1>3
  <2>3. versions'[a] = Stored!Kept(Append(versions[a], doc))
    BY <1>1, <2>2
  <2>4. Stored!Last(versions'[a]) = doc
    BY <2>1, <2>3
  <2>5. ~Stored!Meaningful(Stored!Last(versions'[a]), doc)
    BY <2>4, SameDoc
  <2> QED BY <1>1, <1>3, <2>1, <2>2, <2>5
<1>4. CASE versions' = versions /\ lost' = lost \cup {a}
  BY <1>1, <1>4
<1> QED BY <1>2, <1>3, <1>4 DEF Stored!Recorded

\* A save tells the index of a changed webhook, and of nothing else.
LEMMA BumpedKeeps ==
    ASSUME StoredInv, NEW a \in used, NEW doc \in Doc,
           UNCHANGED <<sLive, areasGen, sIndex>>,
           sStored' = Stored!Saved(a, doc), hooksGen' = Stored!Bumped(a, doc)
    PROVE  IndexInv'
<1>1. /\ hooksGen \in Nat /\ areasGen \in Nat /\ sIndex.key \in Int \X Int
      /\ sIndex.key[1] <= hooksGen /\ sIndex.key[2] <= areasGen
  BY DEF StoredInv, IndexInv
<1>2. CASE a \notin DOMAIN cache \/ cache[a].hook # doc.hook
  <2>1. hooksGen' = hooksGen + 1
    BY <1>2 DEF Stored!Bumped
  <2>2. Stored!Key' = <<hooksGen + 1, areasGen>>
    BY <2>1 DEF Stored!Key
  <2>3. sIndex.key[1] # hooksGen + 1
    BY <1>1
  <2>4. Stored!IndexExact'
    BY <2>2, <2>3 DEF Stored!IndexExact
  <2> QED BY <1>1, <2>1, <2>4 DEF IndexInv
<1>3. CASE a \in DOMAIN cache /\ cache[a].hook = doc.hook
  <2>1. hooksGen' = hooksGen
    BY <1>3 DEF Stored!Bumped
  <2>2. \A x \in sLive : sStored'[x].hook = sStored[x].hook
    <3> TAKE x \in sLive
    <3>1. CASE x # a
      BY <3>1 DEF Stored!Saved, StoredInv, AreasInv
    <3>2. CASE x = a
      <4>1. cache[a] = sStored[a]
        BY <1>3, <3>2 DEF StoredInv, CacheInv
      <4>2. sStored'[a] = doc
        BY <3>2 DEF Stored!Saved, StoredInv, AreasInv
      <4> QED BY <1>3, <3>2, <4>1, <4>2
    <3> QED BY <3>1, <3>2
  <2>3. Stored!Tokens' = Stored!Tokens
    BY <2>2 DEF Stored!Tokens
  <2>4. Stored!Key' = Stored!Key
    BY <2>1 DEF Stored!Key
  <2> QED BY <1>1, <2>1, <2>3, <2>4 DEF StoredInv, IndexInv, Stored!IndexExact
<1> QED BY <1>2, <1>3

\* A save: the row, the cache and the fingerprint move together.
LEMMA PersistKeeps ==
    ASSUME StoredInv, NEW a \in used, NEW doc \in Doc, Stored!Persist(a, doc),
           UNCHANGED <<sLive, used, areasGen, sIndex>>, writes' \in Int, restores' \in Int
    PROVE  StoredInv'
<1>1. /\ a \in Area /\ sLive \subseteq used /\ used \subseteq Area /\ sStored \in [Area -> Doc]
      /\ DOMAIN cache \subseteq used /\ DOMAIN prints \subseteq used
      /\ \A x \in DOMAIN cache : cache[x] \in Doc
      /\ \A x \in Area \ used : versions[x] = <<>>
  BY DEF StoredInv, AreasInv
<1>2. /\ sStored' = Stored!Saved(a, doc) /\ hooksGen' = Stored!Bumped(a, doc)
      /\ Stored!Recorded(a, doc)
      /\ cache' = [x \in DOMAIN cache \cup {a} |-> IF x = a THEN doc ELSE cache[x]]
      /\ prints' = [x \in DOMAIN prints \cup {a} |-> IF x = a THEN doc ELSE prints[x]]
  BY DEF Stored!Persist, Stored!With
<1>3. sStored' \in [Area -> Doc] /\ \A x \in sLive : sStored'[x] = IF x = a THEN doc ELSE sStored[x]
  BY <1>1, <1>2 DEF Stored!Saved
<1>4. /\ versions' \in [Area -> Seq(Doc)]
      /\ \A x \in Area : x # a => versions'[x] = versions[x] /\ (x \in lost <=> x \in lost')
      /\ a \in sLive \ lost' /\ versions'[a] # <<>>
            => ~Stored!Meaningful(Stored!Last(versions'[a]), doc)
  BY <1>2, RecordedKeeps
<1>5. AreasInv'
  <2>1. \A x \in DOMAIN cache' : cache'[x] \in Doc
    BY <1>1, <1>2
  <2>2. \A x \in Area \ used : versions'[x] = <<>>
    BY <1>1, <1>4, Zenon
  <2>3. DOMAIN cache' \subseteq used /\ DOMAIN prints' \subseteq used
    BY <1>1, <1>2
  <2> QED BY <1>1, <1>3, <1>4, <2>1, <2>2, <2>3 DEF AreasInv
<1>6. CacheInv'
  <2> SUFFICES ASSUME NEW x \in sLive, x \in DOMAIN cache' PROVE cache'[x] = sStored'[x]
    BY DEF CacheInv
  <2>1. CASE x = a
    BY <1>2, <1>3, <2>1
  <2>2. CASE x # a
    <3>1. x \in DOMAIN cache /\ cache'[x] = cache[x]
      BY <1>2, <2>2
    <3>2. cache[x] = sStored[x]
      BY <3>1 DEF StoredInv, CacheInv
    <3> QED BY <1>3, <2>2, <3>1, <3>2
  <2> QED BY <2>1, <2>2
<1>7. IndexInv'
  BY <1>2, BumpedKeeps
<1>8. ASSUME NEW x \in sLive, x \in DOMAIN prints'
      PROVE  ~Stored!Meaningful(prints'[x], sStored'[x])
  <2>1. CASE x = a
    <3>1. prints'[x] = doc /\ sStored'[x] = doc
      BY <1>2, <1>3, <2>1
    <3> QED BY <3>1, SameDoc
  <2>2. CASE x # a
    <3>1. x \in DOMAIN prints /\ prints'[x] = prints[x] /\ sStored'[x] = sStored[x]
      BY <1>2, <1>3, <1>8, <2>2
    <3>2. ~Stored!Meaningful(prints[x], sStored[x])
      BY <3>1 DEF StoredInv, VersionsInv
    <3> QED BY <3>1, <3>2
  <2> QED BY <2>1, <2>2
<1>9. ASSUME NEW x \in sLive \ lost', versions'[x] # <<>>
      PROVE  ~Stored!Meaningful(Stored!Last(versions'[x]), sStored'[x])
  <2>1. CASE x = a
    <3>1. sStored'[x] = doc
      BY <1>3, <2>1
    <3> QED BY <1>4, <1>9, <2>1, <3>1
  <2>2. CASE x # a
    <3>1. x \in sLive \ lost /\ versions'[x] = versions[x] /\ sStored'[x] = sStored[x]
      BY <1>1, <1>3, <1>4, <2>2
    <3>2. ~Stored!Meaningful(Stored!Last(versions[x]), sStored[x])
      BY <1>9, <3>1 DEF StoredInv, VersionsInv, Stored!NewestIsStored
    <3> QED BY <3>1, <3>2
  <2> QED BY <2>1, <2>2
<1>10. VersionsInv'
  BY <1>8, <1>9 DEF VersionsInv, Stored!NewestIsStored
<1> QED BY <1>5, <1>6, <1>7, <1>10 DEF StoredInv

\* A save of one key, of what is stored now or nothing at all.
LEMMA WriteKeeps ==
    ASSUME StoredInv, NEW a \in used, NEW fresh, NEW key, NEW v,
           \A s \in fresh : s \in Doc /\ (a \in sLive => s = sStored[a]),
           \/ key = "hook" /\ v \in Int
           \/ key = "login" /\ v \in Int
           \/ key = "lock" /\ v \in BOOLEAN,
           Stored!Write(a, fresh, key, v)
    PROVE  StoredInv' /\ Stored!OneKeyStep
<1>1. /\ UNCHANGED <<sLive, used, areasGen, sIndex, restores>> /\ writes' = writes + 1
      /\ \/ \E s \in fresh : Stored!Persist(a, [s EXCEPT ![key] = v])
         \/ UNCHANGED <<sStored, cache, degraded, hooksGen, prints, versions, lost>>
  BY DEF Stored!Write
<1>2. writes' \in Int /\ restores' \in Int
  BY <1>1 DEF StoredInv, AreasInv
<1>3. ASSUME NEW s \in fresh, Stored!Persist(a, [s EXCEPT ![key] = v])
      PROVE  StoredInv' /\ Stored!OneKeyStep
  <2> DEFINE doc == [s EXCEPT ![key] = v]
  <2>1. s \in Doc /\ (a \in sLive => s = sStored[a])
    OBVIOUS
  <2>2. doc \in Doc /\ Stored!Changed(s, doc) <= 1
    BY <2>1, OneKeyOfDoc
  <2>3. Stored!Persist(a, doc)
    BY <1>3
  <2> HIDE DEF doc
  <2>4. StoredInv'
    BY <1>1, <1>2, <2>2, <2>3, PersistKeeps
  <2>5. sStored' = Stored!Saved(a, doc) /\ sStored \in [Area -> Doc] /\ used \subseteq Area
    BY <2>3 DEF Stored!Persist, StoredInv, AreasInv
  <2>6. ASSUME NEW x \in sLive PROVE Stored!Changed(sStored[x], sStored'[x]) <= 1
    <3>1. CASE x = a
      <4>1. sStored'[x] = doc /\ sStored[x] = s
        BY <2>1, <2>5, <3>1 DEF Stored!Saved
      <4> QED BY <2>2, <4>1
    <3>2. CASE x # a
      <4>1. sStored'[x] = sStored[x]
        BY <2>5, <3>2 DEF Stored!Saved
      <4> QED BY <4>1, SameDoc
    <3> QED BY <3>1, <3>2
  <2> QED BY <2>4, <2>6 DEF Stored!OneKeyStep
<1>4. CASE UNCHANGED <<sStored, cache, degraded, hooksGen, prints, versions, lost>>
  BY <1>1, <1>2, <1>4, NothingMoves
<1> QED BY <1>1, <1>3, <1>4, Zenon

\* The saves of the webhook editor, the risk guard and the token renewal.
LEMMA SaveKeeps ==
    ASSUME StoredInv, NEW a \in used,
           Stored!EditWebhook(a) \/ Stored!GuardWrites(a) \/ Stored!TokenRenewed(a)
    PROVE  StoredInv' /\ Stored!OneKeyStep
<1>1. \A s \in Stored!Writable(a) : s \in Doc /\ (a \in sLive => s = sStored[a])
  BY WritableIs
<1>2. CASE Stored!EditWebhook(a)
  <2>1. PICK h \in 0 .. MaxHook : Stored!Write(a, Stored!Writable(a), "hook", h)
    BY <1>2 DEF Stored!EditWebhook
  <2>2. h \in Int
    OBVIOUS
  <2> QED BY <1>1, <2>1, <2>2, WriteKeeps
<1>3. CASE Stored!GuardWrites(a)
  <2>1. PICK b \in BOOLEAN : Stored!Write(a, Stored!Writable(a), "lock", b)
    BY <1>3 DEF Stored!GuardWrites
  <2> QED BY <1>1, <2>1, WriteKeeps
<1>4. CASE Stored!TokenRenewed(a)
  <2>1. Stored!Write(a, {Stored!Row(a)}, "login", writes') /\ a \in Area
    BY <1>4 DEF Stored!TokenRenewed, StoredInv, AreasInv
  <2>2. \A s \in {Stored!Row(a)} : s \in Doc /\ (a \in sLive => s = sStored[a])
    BY <2>1, RowIs
  <2>3. writes' \in Int
    BY <2>1 DEF Stored!Write, StoredInv, AreasInv
  <2> QED BY <2>1, <2>2, <2>3, WriteKeeps
<1> QED BY <1>2, <1>3, <1>4

\* A version that is restored is a save of every key of it.
LEMMA RestoreVersionKeeps ==
    ASSUME StoredInv, NEW a \in used, Stored!RestoreVersion(a)
    PROVE  StoredInv' /\ Stored!OneKeyStep
<1>1. /\ UNCHANGED <<sLive, used, areasGen, sIndex, writes>> /\ restores' = restores + 1
      /\ a \in Area /\ versions \in [Area -> Seq(Doc)] /\ restores \in Int /\ writes \in Int
  BY DEF Stored!RestoreVersion, StoredInv, AreasInv
<1>2. PICK doc \in Stored!ToSet(versions[a]) : Stored!Persist(a, doc)
  BY DEF Stored!RestoreVersion
<1>3. doc \in Doc
  BY <1>1 DEF Stored!ToSet
<1>4. StoredInv'
  BY <1>1, <1>2, <1>3, PersistKeeps
<1>5. restores' # restores
  BY <1>1
<1> QED BY <1>4, <1>5 DEF Stored!OneKeyStep

\* Each step keeps the invariant, and changes one key of what is stored at most.
LEMMA StoredStep == ASSUME StoredInv, Stored!Next PROVE StoredInv' /\ Stored!OneKeyStep
<1>1. ASSUME NEW a \in used,
             Stored!LoadFails(a) \/ Stored!WriteRefused(a) \/ Stored!RenewalDropped(a)
      PROVE  StoredInv' /\ Stored!OneKeyStep
  <2>1. UNCHANGED <<sLive, used, sStored, cache, hooksGen, areasGen, sIndex, prints, versions,
                    lost, restores, writes>>
    BY <1>1 DEF Stored!LoadFails, Stored!WriteRefused, Stored!RenewalDropped, Stored!generations
  <2>2. writes' \in Int
    BY <2>1 DEF StoredInv, AreasInv
  <2> QED BY <2>1, <2>2, NothingMoves
<1> QED BY <1>1, LoadKeeps, SaveKeeps, RestoreVersionKeeps, DeleteAreaKeeps, CreateAreaKeeps,
           BuildIndexKeeps, RestartKeeps DEF Stored!Next

LEMMA StoredSafe == ASSUME StoredInv PROVE Stored!IndexExact /\ Stored!NewestIsStored
BY DEF StoredInv, IndexInv, VersionsInv

-----------------------------------------------------------------------------
(* TradeJournal: the pairing of a set of fills, fill by fill, as a         *)
(* function on how many fills were looked at.                              *)

\* What holds at the start and with each step holds all the way up.
LEMMA Upto ==
    ASSUME NEW n \in Nat, NEW S, 0 \in S, \A j \in 1 .. n : j - 1 \in S => j \in S
    PROVE  0 .. n \subseteq S
<1> DEFINE R == {p \in Nat \X Nat : p[1] < p[2]}
           T == (0 .. n) \ S
<1>1. IsWellFoundedOn(R, Nat)
  BY NatLessThanWellFounded DEF OpToRel
<1>2. \A x, y \in Nat : y < x => <<y, x>> \in R
  OBVIOUS
<1> HIDE DEF R
<1>3. ASSUME T # {} PROVE FALSE
  <2>1. T \subseteq Nat
    OBVIOUS
  <2> HIDE DEF T
  <2>2. PICK x \in T : \A y \in T : <<y, x>> \notin R
    BY <1>1, <1>3, <2>1, WFMin, Zenon
  <2>3. x \in 1 .. n
    BY <2>2 DEF T
  <2>4. x - 1 \in Nat /\ x \in Nat /\ x - 1 < x
    BY <2>3
  <2>5. x - 1 \notin T
    BY <1>2, <2>2, <2>4, Zenon
  <2>6. x - 1 \in S
    BY <2>3, <2>5 DEF T
  <2> QED BY <2>2, <2>3, <2>6 DEF T
<1> QED BY <1>3

IsLots(L, fs, ids, n) ==
    /\ L = [j \in 0 .. n |-> L[j]]
    /\ L[0] = Journal!Unmatched
    /\ \A j \in 1 .. n : L[j] = IF j \in ids THEN Journal!Match(fs, L[j - 1], j) ELSE L[j - 1]

LEMMA LotsExist ==
    ASSUME NEW fs, NEW ids, NEW n \in Nat
    PROVE  \E L : IsLots(L, fs, ids, n)
<1> DEFINE S == {j \in Nat : \E L : IsLots(L, fs, ids, j)}
<1>1. 0 \in S
  <2> DEFINE L == [j \in 0 .. 0 |-> Journal!Unmatched]
  <2>1. IsLots(L, fs, ids, 0)
    BY DEF IsLots
  <2> QED BY <2>1
<1>2. ASSUME NEW k \in 1 .. n, k - 1 \in S PROVE k \in S
  <2>1. PICK L : IsLots(L, fs, ids, k - 1)
    BY <1>2
  <2> DEFINE e == IF k \in ids THEN Journal!Match(fs, L[k - 1], k) ELSE L[k - 1]
             M == [j \in 0 .. k |-> IF j = k THEN e ELSE L[j]]
  <2>2. /\ L[0] = Journal!Unmatched
        /\ \A j \in 1 .. (k - 1) :
             L[j] = IF j \in ids THEN Journal!Match(fs, L[j - 1], j) ELSE L[j - 1]
    BY <2>1, Zenon DEF IsLots
  <2>3. M[k] = e /\ \A j \in 0 .. (k - 1) : M[j] = L[j]
    OBVIOUS
  <2>4. M = [j \in 0 .. k |-> M[j]]
    OBVIOUS
  <2>5. k - 1 \in 0 .. (k - 1) /\ 0 \in 0 .. (k - 1)
    OBVIOUS
  <2> HIDE DEF M
  <2>6. M[k] = IF k \in ids THEN Journal!Match(fs, M[k - 1], k) ELSE M[k - 1]
    BY <2>3, <2>5
  <2>7. ASSUME NEW j \in 1 .. (k - 1)
        PROVE  M[j] = IF j \in ids THEN Journal!Match(fs, M[j - 1], j) ELSE M[j - 1]
    <3>1. j \in 0 .. (k - 1) /\ j - 1 \in 0 .. (k - 1)
      OBVIOUS
    <3>2. M[j] = L[j] /\ M[j - 1] = L[j - 1]
      BY <2>3, <3>1
    <3> QED BY <2>2, <3>2
  <2>8. \A j \in 1 .. k : j = k \/ j \in 1 .. (k - 1)
    OBVIOUS
  <2>9. \A j \in 1 .. k : M[j] = IF j \in ids THEN Journal!Match(fs, M[j - 1], j) ELSE M[j - 1]
    BY <2>6, <2>7, <2>8
  <2>10. M[0] = Journal!Unmatched
    BY <2>2, <2>3, <2>5
  <2>11. IsLots(M, fs, ids, k)
    BY <2>4, <2>9, <2>10, Zenon DEF IsLots
  <2> QED BY <2>11
<1> HIDE DEF S
<1>3. n \in S
  BY <1>1, <1>2, Upto
<1> QED BY <1>3 DEF S

\* The model's pairing is one.
LEMMA LotsAre ==
    ASSUME NEW fs, NEW ids, Len(fs) \in Nat
    PROVE  IsLots(Journal!Lots(fs, ids), fs, ids, Len(fs))
<1> DEFINE n == Len(fs)
           LotsAt(L, j) == IF j = 0 THEN Journal!Unmatched
                         ELSE IF j \in ids THEN Journal!Match(fs, L[j - 1], j) ELSE L[j - 1]
<1>1. PICK L : IsLots(L, fs, ids, n)
  BY LotsExist, Zenon
<1>2. ASSUME NEW j \in 0 .. n PROVE L[j] = LotsAt(L, j)
  <2>1. CASE j = 0
    BY <1>1, <2>1 DEF IsLots
  <2>2. CASE j # 0
    <3>1. j \in 1 .. n
      BY <2>2
    <3> QED BY <1>1, <2>2, <3>1, Zenon DEF IsLots
  <2> QED BY <2>1, <2>2
<1>3. L = [j \in 0 .. n |-> LotsAt(L, j)]
  BY <1>1, <1>2, Zenon DEF IsLots
<1>4. Journal!Lots(fs, ids) = CHOOSE M : M = [j \in 0 .. n |-> LotsAt(M, j)]
  BY DEF Journal!Lots
<1> HIDE DEF LotsAt
<1>5. Journal!Lots(fs, ids) = [j \in 0 .. n |-> LotsAt(Journal!Lots(fs, ids), j)]
  BY <1>3, <1>4
<1>6. \A j \in 0 .. n : Journal!Lots(fs, ids)[j] = LotsAt(Journal!Lots(fs, ids), j)
  BY <1>5
<1>7. Journal!Lots(fs, ids) = [j \in 0 .. n |-> Journal!Lots(fs, ids)[j]]
  BY <1>5, <1>6
<1>8. 0 \in 0 .. n
  OBVIOUS
<1>9. \A j \in 1 .. n : j \in 0 .. n /\ j # 0
  OBVIOUS
<1>10. Journal!Lots(fs, ids)[0] = Journal!Unmatched
  BY <1>6, <1>8 DEF LotsAt
<1>11. \A j \in 1 .. n : Journal!Lots(fs, ids)[j] =
          IF j \in ids THEN Journal!Match(fs, Journal!Lots(fs, ids)[j - 1], j)
          ELSE Journal!Lots(fs, ids)[j - 1]
  BY <1>6, <1>9 DEF LotsAt
<1> QED BY <1>7, <1>10, <1>11 DEF IsLots

\* Round trips name fills and an amount.
TripOf == [first : Nat, last : Nat, qty : Nat]

\* What a pairing of the first j fills is: no fill after them, and one trip for two fills.
Paired(lots, j) ==
    /\ lots \in [open : Seq(1 .. j), trips : SUBSET TripOf]
    /\ \A t \in lots.trips : t.first \in 1 .. j /\ t.last \in 1 .. j /\ t.first < t.last
    /\ \A t, u \in lots.trips : t.first = u.first /\ t.last = u.last => t = u

LEMMA LesserOf ==
    ASSUME NEW a \in Nat, NEW b \in Nat
    PROVE  Journal!Min({a, b}) \in Nat /\ Journal!Min({a, b}) <= a /\ Journal!Min({a, b}) <= b
<1>1. \E x \in {a, b} : \A y \in {a, b} : x =< y
  OBVIOUS
<1>2. Journal!Min({a, b}) \in {a, b} /\ \A y \in {a, b} : Journal!Min({a, b}) =< y
  BY <1>1 DEF Journal!Min
<1> QED BY <1>2

\* The instance counts as the library does.
LEMMA JournalCount == ASSUME NEW S PROVE Journal!Cardinality(S) = Cardinality(S)
BY Zenon DEF Cardinality, Journal!Cardinality

\* A fill that is paired closes units that waited and leaves the rest of its own.
LEMMA MatchPairs ==
    ASSUME NEW fs, NEW f \in Nat \ {0}, fs[f].qty \in Nat, NEW lots, Paired(lots, f - 1)
    PROVE  /\ Paired(Journal!Match(fs, lots, f), f)
           /\ lots.trips \subseteq Journal!Match(fs, lots, f).trips
           /\ \A t \in Journal!Match(fs, lots, f).trips \ lots.trips : t.last = f
<1> DEFINE opposite == lots.open # <<>> /\ fs[Head(lots.open)].side # fs[f].side
           taken == IF opposite THEN Journal!Min({fs[f].qty, Len(lots.open)}) ELSE 0
           closed == SubSeq(lots.open, 1, taken)
           amount(l) == Journal!Cardinality({i \in 1 .. taken : closed[i] = l})
           fresh == {[first |-> l, last |-> f, qty |-> amount(l)] : l \in Journal!Range(closed)}
           rest == SubSeq(lots.open, taken + 1, Len(lots.open)) \o Journal!Units(f, fs[f].qty - taken)
<1>1. Journal!Match(fs, lots, f) = [open |-> rest, trips |-> lots.trips \cup fresh]
  BY Zenon DEF Journal!Match
<1>2. lots.open \in Seq(1 .. (f - 1)) /\ lots.trips \in SUBSET TripOf /\ Len(lots.open) \in Nat
  BY DEF Paired
<1>3. \A i \in 1 .. Len(lots.open) : lots.open[i] \in 1 .. (f - 1)
  BY <1>2
<1>4. taken \in Nat /\ taken <= fs[f].qty /\ taken <= Len(lots.open)
  <2>1. /\ Journal!Min({fs[f].qty, Len(lots.open)}) \in Nat
        /\ Journal!Min({fs[f].qty, Len(lots.open)}) <= fs[f].qty
        /\ Journal!Min({fs[f].qty, Len(lots.open)}) <= Len(lots.open)
    BY <1>2, LesserOf, Zenon
  <2>2. CASE opposite
    <3>1. taken = Journal!Min({fs[f].qty, Len(lots.open)})
      BY <2>2
    <3> QED BY <2>1, <3>1
  <2>3. CASE ~opposite
    <3>1. taken = 0
      BY <2>3
    <3> QED BY <1>2, <3>1
  <2> QED BY <2>2, <2>3
<1> HIDE DEF taken
<1>5. closed \in Seq(1 .. (f - 1))
  <2>1. \A i \in 1 .. taken : lots.open[i] \in 1 .. (f - 1)
    BY <1>3, <1>4
  <2> QED BY <1>4, <2>1, SubSeqProperties
<1>6. rest \in Seq(1 .. f)
  <2>1. \A i \in (taken + 1) .. Len(lots.open) : lots.open[i] \in 1 .. f
    BY <1>3, <1>4
  <2>2. SubSeq(lots.open, taken + 1, Len(lots.open)) \in Seq(1 .. f)
    BY <1>2, <1>4, <2>1, SubSeqProperties
  <2>3. fs[f].qty - taken \in Nat /\ f \in 1 .. f
    BY <1>4
  <2>4. Journal!Units(f, fs[f].qty - taken) \in Seq(1 .. f)
    BY <2>3 DEF Journal!Units
  <2> QED BY <2>2, <2>4, ConcatProperties
<1> HIDE DEF rest
<1>7. \A l : amount(l) \in Nat
  <2> TAKE l
  <2>1. {i \in 1 .. taken : closed[i] = l} \subseteq 1 .. taken /\ IsFiniteSet(1 .. taken)
    BY <1>4, FS_Interval
  <2>2. IsFiniteSet({i \in 1 .. taken : closed[i] = l})
    BY <2>1, FS_Subset, Zenon
  <2> QED BY <2>2, FS_CardinalityType, JournalCount, Zenon
<1>8. Journal!Range(closed) \subseteq 1 .. (f - 1)
  BY <1>5 DEF Journal!Range
<1> HIDE DEF closed, amount
<1>9. \A t \in fresh : t \in TripOf /\ t.first \in 1 .. (f - 1) /\ t.last = f
  BY <1>7, <1>8 DEF TripOf
<1>10. \A t, u \in fresh : t.first = u.first => t = u
  OBVIOUS
<1> HIDE DEF fresh
<1>11. \A t \in lots.trips : t \in TripOf /\ t.first \in 1 .. (f - 1) /\ t.last \in 1 .. (f - 1)
                             /\ t.first < t.last
  BY DEF Paired
<1> DEFINE after == [open |-> rest, trips |-> lots.trips \cup fresh]
<1>12. after \in [open : Seq(1 .. f), trips : SUBSET TripOf]
  BY <1>6, <1>9, <1>11
<1>13. \A t \in lots.trips \cup fresh : t.first \in 1 .. f /\ t.last \in 1 .. f /\ t.first < t.last
  BY <1>9, <1>11
<1>14. \A t, u \in lots.trips \cup fresh : t.first = u.first /\ t.last = u.last => t = u
  <2> SUFFICES ASSUME NEW t \in lots.trips \cup fresh, NEW u \in lots.trips \cup fresh,
                      t.first = u.first, t.last = u.last
               PROVE  t = u
    OBVIOUS
  <2>1. CASE t \in lots.trips /\ u \in lots.trips
    BY <2>1 DEF Paired
  <2>2. CASE t \in fresh /\ u \in fresh
    BY <1>10, <2>2
  <2>3. CASE t \in lots.trips /\ u \in fresh
    BY <1>9, <1>11, <2>3
  <2>4. CASE t \in fresh /\ u \in lots.trips
    BY <1>9, <1>11, <2>4
  <2> QED BY <2>1, <2>2, <2>3, <2>4
<1>15. after.trips = lots.trips \cup fresh
  OBVIOUS
<1> HIDE DEF after
<1>16. Paired(after, f)
  BY <1>12, <1>13, <1>14, <1>15 DEF Paired
<1> QED BY <1>1, <1>9, <1>15, <1>16 DEF after

\* The pairing of a set of fills is one at every fill, and keeps the trips it has.
LEMMA LotsPaired ==
    ASSUME NEW L, NEW fs, NEW ids, NEW n \in Nat, IsLots(L, fs, ids, n),
           \A j \in 1 .. n : fs[j].qty \in Nat
    PROVE  \A j \in 0 .. n : Paired(L[j], j)
<1> DEFINE S == {j \in 0 .. n : Paired(L[j], j)}
<1>1. 0 \in S
  <2>1. L[0] = [open |-> <<>>, trips |-> {}]
    BY DEF IsLots, Journal!Unmatched
  <2>2. <<>> \in Seq(1 .. 0)
    BY EmptySeq
  <2>3. Paired([open |-> <<>>, trips |-> {}], 0)
    BY <2>2 DEF Paired
  <2> QED BY <2>1, <2>3
<1>2. ASSUME NEW j \in 1 .. n, j - 1 \in S PROVE j \in S
  <2>1. Paired(L[j - 1], j - 1) /\ fs[j].qty \in Nat /\ j \in Nat \ {0} /\ j \in 0 .. n
    BY <1>2
  <2>2. CASE j \in ids
    <3>1. L[j] = Journal!Match(fs, L[j - 1], j)
      BY <2>2, Zenon DEF IsLots
    <3> QED BY <2>1, <3>1, MatchPairs
  <2>3. CASE j \notin ids
    <3>1. L[j] = L[j - 1]
      BY <2>3, Zenon DEF IsLots
    <3>2. Paired(L[j - 1], j)
      <4> DEFINE l == L[j - 1]
      <4>1. l \in [open : Seq(1 .. (j - 1)), trips : SUBSET TripOf]
        BY <2>1 DEF Paired
      <4>2. l \in [open : Seq(1 .. j), trips : SUBSET TripOf]
        <5>1. l.open \in Seq(1 .. (j - 1))
          BY <4>1
        <5>2. l.open \in Seq(1 .. j)
          BY <2>1, <5>1
        <5> QED BY <4>1, <5>2
      <4>3. \A t \in l.trips : t.first \in 1 .. j /\ t.last \in 1 .. j /\ t.first < t.last
        BY <2>1 DEF Paired
      <4>4. \A t, u \in l.trips : t.first = u.first /\ t.last = u.last => t = u
        BY <2>1 DEF Paired
      <4> QED BY <4>2, <4>3, <4>4 DEF Paired
    <3> QED BY <2>1, <3>1, <3>2
  <2> QED BY <2>2, <2>3
<1> HIDE DEF S
<1>3. 0 .. n \subseteq S
  BY <1>1, <1>2, Upto
<1> QED BY <1>3 DEF S

\* A trip once closed stays closed.
LEMMA LotsGrow ==
    ASSUME NEW L, NEW fs, NEW ids, NEW n \in Nat, IsLots(L, fs, ids, n),
           \A j \in 1 .. n : fs[j].qty \in Nat, NEW k \in 0 .. n
    PROVE  L[k].trips \subseteq L[n].trips
<1> DEFINE S == {d \in 0 .. (n - k) : L[k].trips \subseteq L[k + d].trips}
<1>1. 0 \in S
  OBVIOUS
<1>2. ASSUME NEW d \in 1 .. (n - k), d - 1 \in S PROVE d \in S
  <2> DEFINE j == k + d
  <2>1. j \in 1 .. n /\ j - 1 \in 0 .. n /\ k + (d - 1) = j - 1 /\ j \in Nat \ {0}
    OBVIOUS
  <2>2. L[k].trips \subseteq L[j - 1].trips
    BY <1>2, <2>1
  <2> HIDE DEF j
  <2>3. L[j - 1].trips \subseteq L[j].trips
    <3>1. Paired(L[j - 1], j - 1) /\ fs[j].qty \in Nat
      BY <2>1, LotsPaired
    <3>2. L[j] = IF j \in ids THEN Journal!Match(fs, L[j - 1], j) ELSE L[j - 1]
      BY <2>1, Zenon DEF IsLots
    <3>3. CASE j \in ids
      BY <2>1, <3>1, <3>2, <3>3, MatchPairs
    <3>4. CASE j \notin ids
      BY <3>2, <3>4
    <3> QED BY <3>3, <3>4
  <2> QED BY <2>2, <2>3 DEF j
<1> HIDE DEF S
<1>3. 0 .. (n - k) \subseteq S
  <2>1. n - k \in Nat
    OBVIOUS
  <2> QED BY <1>1, <1>2, <2>1, Upto, Zenon
<1>4. n - k \in S /\ k + (n - k) = n
  BY <1>3
<1> QED BY <1>4 DEF S

\* Two pairings of the same fills up to a point agree up to it.
LEMMA LotsSame ==
    ASSUME NEW L, NEW fs, NEW ids, NEW n \in Nat, IsLots(L, fs, ids, n),
           NEW M, NEW gs, NEW jds, NEW m \in Nat, IsLots(M, gs, jds, m),
           NEW k \in Nat, k <= n, k <= m,
           \A j \in 1 .. k : (j \in ids <=> j \in jds) /\ fs[j] = gs[j],
           \A j \in 1 .. n : fs[j].qty \in Nat
    PROVE  \A j \in 0 .. k : L[j] = M[j]
<1> DEFINE S == {j \in 0 .. k : L[j] = M[j]}
<1>1. 0 \in S
  BY DEF IsLots
<1>2. ASSUME NEW j \in 1 .. k, j - 1 \in S PROVE j \in S
  <2>1. /\ j \in 1 .. n /\ j \in 1 .. m /\ j - 1 \in 0 .. n /\ j \in 0 .. k
        /\ L[j - 1] = M[j - 1] /\ fs[j] = gs[j] /\ (j \in ids <=> j \in jds)
    BY <1>2
  <2>2. /\ L[j] = IF j \in ids THEN Journal!Match(fs, L[j - 1], j) ELSE L[j - 1]
        /\ M[j] = IF j \in jds THEN Journal!Match(gs, M[j - 1], j) ELSE M[j - 1]
    BY <2>1, Zenon DEF IsLots
  <2>3. Paired(L[j - 1], j - 1)
    BY <2>1, LotsPaired
  <2> DEFINE l == L[j - 1]
  <2>4. l.open # <<>> => fs[Head(l.open)] = gs[Head(l.open)]
    <3> SUFFICES ASSUME l.open # <<>> PROVE fs[Head(l.open)] = gs[Head(l.open)]
      OBVIOUS
    <3>1. l.open \in Seq(1 .. (j - 1))
      BY <2>3 DEF Paired
    <3>2. Head(l.open) \in 1 .. (j - 1)
      BY <3>1, HeadTailProperties
    <3> QED BY <3>2
  <2>5. Journal!Match(fs, l, j) = Journal!Match(gs, l, j)
    <3> DEFINE taken(hs) == IF l.open # <<>> /\ hs[Head(l.open)].side # hs[j].side
                            THEN Journal!Min({hs[j].qty, Len(l.open)}) ELSE 0
               after(t, q) ==
                 [open  |-> SubSeq(l.open, t + 1, Len(l.open)) \o Journal!Units(j, q - t),
                  trips |-> l.trips \union
                     {[first |-> i, last |-> j,
                       qty |-> Journal!Cardinality({x \in 1..t : SubSeq(l.open, 1, t)[x] = i})]
                        : i \in Journal!Range(SubSeq(l.open, 1, t))}]
    <3>1. taken(fs) = taken(gs) /\ fs[j].qty = gs[j].qty
      BY <2>1, <2>4
    <3>2. /\ Journal!Match(fs, l, j) = after(taken(fs), fs[j].qty)
          /\ Journal!Match(gs, l, j) = after(taken(gs), gs[j].qty)
      BY Zenon DEF Journal!Match
    <3> HIDE DEF after, taken
    <3> QED BY <3>1, <3>2
  <2> QED BY <2>1, <2>2, <2>5
<1> HIDE DEF S
<1>3. 0 .. k \subseteq S
  BY <1>1, <1>2, Upto, Zenon
<1> QED BY <1>3 DEF S

\* Fills that are not of the set change nothing.
LEMMA LotsRest ==
    ASSUME NEW L, NEW fs, NEW ids, NEW n \in Nat, IsLots(L, fs, ids, n), NEW k \in 0 .. n,
           \A j \in (k + 1) .. n : j \notin ids
    PROVE  L[n] = L[k]
<1> DEFINE S == {d \in 0 .. (n - k) : L[k + d] = L[k]}
<1>1. 0 \in S
  OBVIOUS
<1>2. ASSUME NEW d \in 1 .. (n - k), d - 1 \in S PROVE d \in S
  <2> DEFINE j == k + d
  <2>1. j \in 1 .. n /\ j \notin ids /\ k + (d - 1) = j - 1
    OBVIOUS
  <2>2. L[j - 1] = L[k]
    BY <1>2, <2>1
  <2> HIDE DEF j
  <2>3. L[j] = L[j - 1]
    BY <2>1, Zenon DEF IsLots
  <2> QED BY <2>2, <2>3 DEF j
<1> HIDE DEF S
<1>3. 0 .. (n - k) \subseteq S
  <2>1. n - k \in Nat
    OBVIOUS
  <2> QED BY <1>1, <1>2, <2>1, Upto
<1>4. n - k \in S /\ k + (n - k) = n
  BY <1>3
<1> QED BY <1>4 DEF S

-----------------------------------------------------------------------------
(* TradeJournal: a stored trade of the broker's family is a pair of the    *)
(* book, one of ours is of the pairing of the stored fills; what was       *)
(* crossed off is known; and no fill that was missed is fetched later.     *)

FillOf == [side : {"Buy", "Sell"}, qty : Nat, mark : Mark, day : Nat]
RowOf == [family : {"pair", "fifo"}, first : Nat, last : Nat, qty : Nat]

\* The round trip a row was stored from, and those a row may be from.
TripOfRow(r) == [first |-> r.first, last |-> r.last, qty |-> r.qty]
Source(family, booked, ours) == IF family = "pair" THEN booked ELSE ours

OneOfEach(trips) == \A t, u \in trips : t.first = u.first /\ t.last = u.last => t = u

\* The rows, given the broker's pairs and the pairing of the stored fills.
RowsFrom(known, booked, ours) ==
    /\ known \subseteq RowOf
    /\ \A r \in known : TripOfRow(r) \in Source(r.family, booked, ours)
    /\ OneOfEach(known)

FillsInv ==
    /\ fills \in Seq(FillOf) /\ jDay \in Nat \ {0}
    /\ \A f \in DOMAIN fills : fills[f].day \in 1 .. jDay
    /\ \A f, g \in DOMAIN fills : f <= g => fills[f].day <= fills[g].day
    /\ book = Journal!Lots(fills, DOMAIN fills)[Len(fills)]

\* The first day the next import asks for, once there are rows.
AskedFrom == IF broker = "tradovate" THEN jDay ELSE jDay - Overlap

HolesInv ==
    /\ jStored \subseteq DOMAIN fills
    /\ \A f \in DOMAIN fills, g \in jStored :
         f < g /\ f \notin jStored => fills[f].day < AskedFrom

\* The days whose round trips may no longer change.
SettledBy(day) == {p \in book.trips : fills[p.last].day + Overlap <= day}

CrossInv ==
    /\ jSeen \subseteq book.trips /\ \A p \in jSeen : Journal!Known(p)
    /\ cursor \in 0 .. jDay
    /\ \A p \in SettledBy(cursor) : Journal!Known(p)
    \* the days the report covered so far
    /\ jPhase = "report" =>
         /\ window.from \in Nat \ {0} /\ window.today \in 1 .. jDay
         /\ window.reached \in 0 .. window.today
         /\ window.reached = 0 \/ window.reached < window.from
         /\ \A p \in SettledBy(window.today) : fills[p.last].day < window.from => Journal!Known(p)

JournalInv ==
    /\ FillsInv /\ HolesInv
    /\ RowsFrom(rows, book.trips, Journal!FifoPairs(jStored))
    /\ CrossInv

LEMMA DaysOverlap == Overlap \in Nat /\ Overlap > 0
BY JournalAssumption

\* What the broker's book and a pairing of ours are.
LEMMA BookIs ==
    ASSUME FillsInv
    PROVE  /\ Len(fills) \in Nat /\ DOMAIN fills = 1 .. Len(fills)
           /\ \A j \in 1 .. Len(fills) : fills[j] \in FillOf /\ fills[j].qty \in Nat
           /\ IsLots(Journal!Lots(fills, DOMAIN fills), fills, DOMAIN fills, Len(fills))
           /\ Paired(book, Len(fills)) /\ OneOfEach(book.trips)
<1>1. Len(fills) \in Nat /\ DOMAIN fills = 1 .. Len(fills)
  BY DEF FillsInv
<1>2. \A j \in 1 .. Len(fills) : fills[j] \in FillOf
  BY <1>1 DEF FillsInv
<1>3. \A j \in 1 .. Len(fills) : fills[j].qty \in Nat
  BY <1>2 DEF FillOf
<1>4. IsLots(Journal!Lots(fills, DOMAIN fills), fills, DOMAIN fills, Len(fills))
  BY <1>1, LotsAre
<1>5. Len(fills) \in 0 .. Len(fills)
  BY <1>1
<1>6. Paired(Journal!Lots(fills, DOMAIN fills)[Len(fills)], Len(fills))
  BY <1>1, <1>3, <1>4, <1>5, LotsPaired
<1>7. Paired(book, Len(fills))
  BY <1>6 DEF FillsInv
<1> QED BY <1>1, <1>2, <1>3, <1>4, <1>7 DEF Paired, OneOfEach

LEMMA OursAre ==
    ASSUME FillsInv, NEW ids
    PROVE  /\ IsLots(Journal!Lots(fills, ids), fills, ids, Len(fills))
           /\ Paired(Journal!Lots(fills, ids)[Len(fills)], Len(fills))
           /\ Journal!FifoPairs(ids) = Journal!Lots(fills, ids)[Len(fills)].trips
           /\ Journal!FifoPairs(ids) \subseteq TripOf /\ OneOfEach(Journal!FifoPairs(ids))
           /\ \A p \in Journal!FifoPairs(ids) : p.first \in DOMAIN fills /\ p.last \in DOMAIN fills
<1>1. /\ Len(fills) \in Nat /\ DOMAIN fills = 1 .. Len(fills) /\ Len(fills) \in 0 .. Len(fills)
      /\ \A j \in 1 .. Len(fills) : fills[j].qty \in Nat
  BY BookIs
<1>2. IsLots(Journal!Lots(fills, ids), fills, ids, Len(fills))
  BY <1>1, LotsAre
<1>3. Paired(Journal!Lots(fills, ids)[Len(fills)], Len(fills))
  BY <1>1, <1>2, LotsPaired
<1>4. Journal!FifoPairs(ids) = Journal!Lots(fills, ids)[Len(fills)].trips
  BY DEF Journal!FifoPairs
<1> QED BY <1>1, <1>2, <1>3, <1>4 DEF Paired, OneOfEach

\* The last of a set of fills, or 0.
LEMMA LastOf ==
    ASSUME NEW n \in Nat, NEW ids, ids \subseteq 1 .. n
    PROVE  \E m \in 0 .. n : (m = 0 \/ m \in ids) /\ \A j \in ids : j <= m
<1>1. ids \cup {0} \subseteq 0 .. n /\ ids \cup {0} # {}
  OBVIOUS
<1>2. PICK m \in ids \cup {0} : \A w \in ids \cup {0} : m >= w
  BY <1>1, GreatestBelow, Zenon
<1> QED BY <1>1, <1>2

\* A pairing is of its fills up to the last of them, in whatever set those lie.
LEMMA OursWithin ==
    ASSUME FillsInv, NEW ids, NEW jds, ids \subseteq DOMAIN fills, ids \subseteq jds,
           \A e \in jds \ ids, g \in ids : g < e,
           jds \subseteq DOMAIN fills
    PROVE  Journal!FifoPairs(ids) \subseteq Journal!FifoPairs(jds)
<1> DEFINE n == Len(fills)
           L == Journal!Lots(fills, ids)
           M == Journal!Lots(fills, jds)
<1>1. n \in Nat /\ DOMAIN fills = 1 .. n /\ \A j \in 1 .. n : fills[j].qty \in Nat
  BY BookIs
<1>2. /\ IsLots(L, fills, ids, n) /\ IsLots(M, fills, jds, n)
      /\ Journal!FifoPairs(ids) = L[n].trips /\ Journal!FifoPairs(jds) = M[n].trips
  BY OursAre
<1> HIDE DEF n, L, M
<1>3. PICK m \in 0 .. n : (m = 0 \/ m \in ids) /\ \A j \in ids : j <= m
  BY <1>1, LastOf
<1>4. \A j \in 1 .. m : j \in ids <=> j \in jds
  <2> TAKE j \in 1 .. m
  <2>1. m \in ids /\ j <= m /\ j \in Int /\ m \in Int
    BY <1>3
  <2> QED BY <2>1
<1>5. \A j \in 0 .. m : L[j] = M[j]
  <2>1. m \in Nat /\ m <= n /\ \A j \in 1 .. m : (j \in ids <=> j \in jds) /\ fills[j] = fills[j]
    BY <1>1, <1>3, <1>4
  <2> QED BY <1>1, <1>2, <2>1, LotsSame
<1>6. \A j \in (m + 1) .. n : j \notin ids
  BY <1>1, <1>3
<1>7. L[n] = L[m]
  BY <1>1, <1>2, <1>3, <1>6, LotsRest
<1>8. M[m].trips \subseteq M[n].trips
  BY <1>1, <1>2, <1>3, LotsGrow
<1>9. L[m] = M[m]
  BY <1>1, <1>3, <1>5
<1> QED BY <1>2, <1>7, <1>8, <1>9

LEMMA BookIsOfAll ==
    ASSUME FillsInv
    PROVE  book.trips = Journal!FifoPairs(DOMAIN fills)
BY OursAre DEF FillsInv

\* What was stored of a batch is known, by its own row or by one like it.
LEMMA StoredKnows ==
    ASSUME NEW known, NEW family, NEW trips, NEW p \in trips
    PROVE  \E r \in Journal!Stored(known, family, trips) : Journal!SameTrip(r, p)
<1>1. known \subseteq Journal!Stored(known, family, trips)
  BY DEF Journal!Stored
<1>2. CASE Journal!Similar(family, p, known)
  BY <1>1, <1>2 DEF Journal!Similar
<1>3. CASE Journal!Key(family, p) \in {Journal!KeyOf(r) : r \in known}
  <2>1. PICK r \in known : Journal!Key(family, p) = Journal!KeyOf(r)
    BY <1>3
  <2>2. r.first = p.first /\ r.last = p.last
    BY <2>1 DEF Journal!Key, Journal!KeyOf
  <2> QED BY <1>1, <2>2 DEF Journal!SameTrip
<1>4. CASE ~Journal!Similar(family, p, known)
           /\ Journal!Key(family, p) \notin {Journal!KeyOf(r) : r \in known}
  <2> DEFINE row0 == [family |-> family, first |-> p.first, last |-> p.last, qty |-> p.qty]
  <2>1. row0 \in Journal!Stored(known, family, trips)
    BY <1>4 DEF Journal!Stored
  <2>2. row0.first = p.first /\ row0.last = p.last
    OBVIOUS
  <2> QED BY <2>1, <2>2 DEF Journal!SameTrip
<1> QED BY <1>2, <1>3, <1>4

\* A batch is stored: each row is of its source, and one of each.
LEMMA StoredRows ==
    ASSUME NEW known, NEW booked, NEW ours, RowsFrom(known, booked, ours),
           booked \subseteq TripOf, ours \subseteq TripOf, OneOfEach(booked), OneOfEach(ours),
           NEW family \in {"pair", "fifo"}, NEW trips, trips \subseteq Source(family, booked, ours)
    PROVE  RowsFrom(Journal!Stored(known, family, trips), booked, ours)
<1> DEFINE made(p) == [family |-> family, first |-> p.first, last |-> p.last, qty |-> p.qty]
           stored0 == Journal!Stored(known, family, trips)
           U == Source(family, booked, ours)
<1>1. trips \subseteq TripOf /\ U \subseteq TripOf /\ OneOfEach(U) /\ trips \subseteq U
  BY DEF Source
<1>2. \A r \in stored0 : r \in known \/ \E p \in trips :
        /\ r = made(p) /\ ~Journal!Similar(family, p, known)
        /\ Journal!Key(family, p) \notin {Journal!KeyOf(s) : s \in known}
  BY DEF Journal!Stored
<1> HIDE DEF stored0, U
<1>3. \A p \in trips : made(p) \in RowOf /\ TripOfRow(made(p)) = p /\ made(p).family = family
                       /\ made(p).first = p.first /\ made(p).last = p.last
  <2> TAKE p \in trips
  <2>1. p \in TripOf
    BY <1>1
  <2>2. p = [first |-> p.first, last |-> p.last, qty |-> p.qty]
    BY <2>1 DEF TripOf
  <2> QED BY <2>1, <2>2 DEF TripOf, RowOf, TripOfRow
<1> HIDE DEF made
<1>4. stored0 \subseteq RowOf
  BY <1>2, <1>3 DEF RowsFrom
<1>5. \A r \in stored0 : TripOfRow(r) \in Source(r.family, booked, ours)
  BY <1>1, <1>2, <1>3 DEF RowsFrom, U
<1>6. \A r \in known, p \in trips :
        /\ ~Journal!Similar(family, p, known)
        /\ Journal!Key(family, p) \notin {Journal!KeyOf(s) : s \in known}
        => ~(r.first = p.first /\ r.last = p.last)
  <2> SUFFICES ASSUME NEW r \in known, NEW p \in trips, r.first = p.first, r.last = p.last,
                      ~Journal!Similar(family, p, known),
                      Journal!Key(family, p) \notin {Journal!KeyOf(s) : s \in known}
               PROVE  FALSE
    OBVIOUS
  <2>1. r.family = family
    BY DEF Journal!Similar, Journal!SameTrip
  <2>2. TripOfRow(r) \in U /\ p \in U
    BY <1>1, <2>1 DEF RowsFrom, U
  <2>3. TripOfRow(r).first = p.first /\ TripOfRow(r).last = p.last /\ TripOfRow(r).qty = r.qty
    BY DEF TripOfRow
  <2>4. r.qty = p.qty
    BY <1>1, <2>2, <2>3 DEF OneOfEach
  <2>5. Journal!KeyOf(r) = Journal!Key(family, p)
    BY <2>1, <2>4 DEF Journal!KeyOf, Journal!Key
  <2> QED BY <2>5
<1>7. OneOfEach(stored0)
  <2> SUFFICES ASSUME NEW r \in stored0, NEW s \in stored0, r.first = s.first, r.last = s.last
               PROVE  r = s
    BY DEF OneOfEach
  <2>1. CASE r \in known /\ s \in known
    BY <2>1 DEF RowsFrom, OneOfEach
  <2>2. CASE r \in known /\ s \notin known
    <3>1. PICK p \in trips : /\ s = made(p) /\ ~Journal!Similar(family, p, known)
                             /\ Journal!Key(family, p) \notin {Journal!KeyOf(x) : x \in known}
      BY <1>2, <2>2
    <3> QED BY <1>3, <1>6, <2>2, <3>1
  <2>3. CASE r \notin known /\ s \in known
    <3>1. PICK p \in trips : /\ r = made(p) /\ ~Journal!Similar(family, p, known)
                             /\ Journal!Key(family, p) \notin {Journal!KeyOf(x) : x \in known}
      BY <1>2, <2>3
    <3> QED BY <1>3, <1>6, <2>3, <3>1
  <2>4. CASE r \notin known /\ s \notin known
    <3>1. PICK p \in trips : r = made(p)
      BY <1>2, <2>4
    <3>2. PICK q \in trips : s = made(q)
      BY <1>2, <2>4
    <3>3. p = q
      BY <1>1, <1>3, <3>1, <3>2 DEF OneOfEach
    <3> QED BY <3>1, <3>2, <3>3
  <2> QED BY <2>1, <2>2, <2>3, <2>4
<1> QED BY <1>4, <1>5, <1>7 DEF RowsFrom, stored0

LEMMA JournalInit == ASSUME Journal!Init PROVE JournalInv
<1>1. /\ fills = <<>> /\ book = Journal!Unmatched /\ jDay = 1 /\ jStored = {} /\ rows = {}
      /\ jSeen = {} /\ cursor = 0 /\ jPhase = "idle" /\ DOMAIN fills = {} /\ Len(fills) = 0
  BY DEF Journal!Init
<1>2. Journal!Lots(fills, DOMAIN fills)[0] = Journal!Unmatched
  BY <1>1, LotsAre DEF IsLots
<1>3. fills \in Seq(FillOf)
  BY <1>1, EmptySeq
<1>4. FillsInv
  BY <1>1, <1>2, <1>3 DEF FillsInv
<1>5. HolesInv
  BY <1>1 DEF HolesInv
<1>6. RowsFrom(rows, book.trips, Journal!FifoPairs(jStored))
  BY <1>1 DEF RowsFrom, OneOfEach
<1>7. book.trips = {}
  BY <1>1 DEF Journal!Unmatched
<1>8. CrossInv
  BY <1>1, <1>7 DEF CrossInv, SettledBy
<1> QED BY <1>4, <1>5, <1>6, <1>8 DEF JournalInv

\* The fills of a row and of a pair.
LEMMA NamedFills ==
    ASSUME JournalInv
    PROVE  /\ \A p \in book.trips : p.first \in DOMAIN fills /\ p.last \in DOMAIN fills
           /\ \A r \in rows : r.first \in DOMAIN fills /\ r.last \in DOMAIN fills
<1>1. FillsInv /\ RowsFrom(rows, book.trips, Journal!FifoPairs(jStored))
  BY DEF JournalInv
<1>2. \A p \in book.trips : p.first \in DOMAIN fills /\ p.last \in DOMAIN fills
  BY <1>1, BookIsOfAll, OursAre
<1>3. \A p \in Journal!FifoPairs(jStored) : p.first \in DOMAIN fills /\ p.last \in DOMAIN fills
  BY <1>1, OursAre
<1>4. ASSUME NEW r \in rows PROVE r.first \in DOMAIN fills /\ r.last \in DOMAIN fills
  <2>1. TripOfRow(r) \in book.trips \/ TripOfRow(r) \in Journal!FifoPairs(jStored)
    BY <1>1 DEF RowsFrom, Source
  <2>2. TripOfRow(r).first = r.first /\ TripOfRow(r).last = r.last
    BY DEF TripOfRow
  <2> QED BY <1>2, <1>3, <2>1, <2>2
<1> QED BY <1>2, <1>4

\* What is known stays known as rows are added and fills arrive.
LEMMA KnownStays ==
    ASSUME JournalInv, NEW p \in book.trips, Journal!Known(p), rows \subseteq rows',
           \A f \in DOMAIN fills : fills'[f] = fills[f]
    PROVE  Journal!Known(p)'
<1>1. PICK r \in rows : Journal!SameTrip(r, p)
  BY DEF Journal!Known
<1>2. /\ fills'[p.first] = fills[p.first] /\ fills'[p.last] = fills[p.last]
      /\ fills'[r.first] = fills[r.first] /\ fills'[r.last] = fills[r.last]
  BY NamedFills
<1>3. Journal!SameTrip(r, p)'
  BY <1>1, <1>2 DEF Journal!SameTrip
<1> QED BY <1>1, <1>3 DEF Journal!Known

\* Rows are added, of the broker's pairs or of ours; nothing else about them moves.
LEMMA RowsAdded ==
    ASSUME JournalInv, UNCHANGED <<fills, book, jDay, broker>>,
           HolesInv', Journal!FifoPairs(jStored) \subseteq Journal!FifoPairs(jStored') \/ rows = {},
           NEW family \in {"pair", "fifo"}, NEW trips,
           trips \subseteq Source(family, book.trips, Journal!FifoPairs(jStored')),
           rows' = Journal!Stored(rows, family, trips)
    PROVE  /\ FillsInv' /\ HolesInv'
           /\ RowsFrom(rows, book.trips, Journal!FifoPairs(jStored))'
           /\ \A p \in trips : Journal!Known(p)'
           /\ \A p \in book.trips : Journal!Known(p) => Journal!Known(p)'
<1>1. FillsInv'
  BY DEF JournalInv, FillsInv
<1>2. Journal!FifoPairs(jStored)' = Journal!FifoPairs(jStored')
  BY DEF Journal!FifoPairs
<1>3. RowsFrom(rows, book.trips, Journal!FifoPairs(jStored'))
  <2>1. RowsFrom(rows, book.trips, Journal!FifoPairs(jStored))
    BY DEF JournalInv
  <2> QED BY <2>1 DEF RowsFrom, Source
<1>4. /\ book.trips \subseteq TripOf /\ OneOfEach(book.trips)
      /\ Journal!FifoPairs(jStored') \subseteq TripOf /\ OneOfEach(Journal!FifoPairs(jStored'))
  BY BookIsOfAll, OursAre DEF JournalInv
<1>5. RowsFrom(rows', book.trips, Journal!FifoPairs(jStored'))
  BY <1>3, <1>4, StoredRows
<1>6. RowsFrom(rows, book.trips, Journal!FifoPairs(jStored))'
  BY <1>2, <1>5 DEF RowsFrom
<1>7. rows \subseteq rows'
  BY DEF Journal!Stored
<1>8. ASSUME NEW p \in trips PROVE Journal!Known(p)'
  <2>1. PICK r \in rows' : Journal!SameTrip(r, p)
    BY StoredKnows
  <2>2. Journal!SameTrip(r, p)'
    BY <2>1 DEF Journal!SameTrip
  <2> QED BY <2>1, <2>2 DEF Journal!Known
<1>9. \A p \in book.trips : Journal!Known(p) => Journal!Known(p)'
  BY <1>7, KnownStays
<1> QED BY <1>1, <1>6, <1>8, <1>9

\* What was crossed off, when no more is.
LEMMA CrossStays ==
    ASSUME JournalInv, UNCHANGED <<fills, book, jSeen, cursor>>, jDay' \in Nat, jDay <= jDay',
           \A p \in book.trips : Journal!Known(p) => Journal!Known(p)',
           jPhase' = "report" => jPhase = "report" /\ window' = window
    PROVE  CrossInv'
<1>1. SettledBy(cursor)' = SettledBy(cursor) /\ SettledBy(cursor) \subseteq book.trips
  BY DEF SettledBy
<1>2. /\ jSeen' \subseteq book'.trips /\ \A p \in jSeen' : Journal!Known(p)'
      /\ cursor' \in 0 .. jDay'
      /\ \A p \in SettledBy(cursor)' : Journal!Known(p)'
  BY <1>1 DEF JournalInv, CrossInv, FillsInv
<1>3. ASSUME jPhase' = "report"
      PROVE  /\ window'.from \in Nat \ {0} /\ window'.today \in 1 .. jDay'
             /\ window'.reached \in 0 .. window'.today
             /\ window'.reached = 0 \/ window'.reached < window'.from
             /\ \A p \in SettledBy(window.today)' :
                  fills'[p.last].day < window'.from => Journal!Known(p)'
  <2>1. jPhase = "report" /\ window' = window
    BY <1>3
  <2>2. SettledBy(window.today)' = SettledBy(window.today) /\ SettledBy(window.today) \subseteq book.trips
    BY <2>1 DEF SettledBy
  <2> QED BY <2>1, <2>2 DEF JournalInv, CrossInv, FillsInv
<1> QED BY <1>2, <1>3 DEF CrossInv

LEMMA JournalSame ==
    ASSUME JournalInv, UNCHANGED <<broker, fills, book, jStored, rows, jSeen, cursor>>,
           jDay' \in Nat, jDay <= jDay',
           jPhase' = "report" => jPhase = "report" /\ window' = window
    PROVE  JournalInv'
<1>1. FillsInv'
  BY DEF JournalInv, FillsInv
<1>2. HolesInv'
  BY DaysOverlap DEF JournalInv, FillsInv, HolesInv, AskedFrom
<1>3. Journal!FifoPairs(jStored)' = Journal!FifoPairs(jStored)
  BY DEF Journal!FifoPairs
<1>4. RowsFrom(rows, book.trips, Journal!FifoPairs(jStored))'
  BY <1>3 DEF JournalInv, RowsFrom
<1>5. \A p \in book.trips : Journal!Known(p) => Journal!Known(p)'
  BY KnownStays
<1>6. CrossInv'
  BY <1>5, CrossStays
<1> QED BY <1>1, <1>2, <1>4, <1>6 DEF JournalInv

LEMMA JournalStutter == ASSUME JournalInv, UNCHANGED JournalVars PROVE JournalInv'
<1>1. UNCHANGED <<broker, fills, book, jStored, rows, jSeen, cursor, jDay, jPhase, window>>
  BY DEF JournalVars
<1> QED BY <1>1, JournalSame DEF JournalInv, FillsInv

\* A fill arrives: the book closes trips of today, nothing else changes.
LEMMA FillKeeps ==
    ASSUME JournalInv, NEW side \in {"Buy", "Sell"}, NEW qty \in 1 .. JournalQty, NEW mark \in Mark,
           Journal!Fill(side, qty, mark)
    PROVE  JournalInv'
<1> DEFINE n == Len(fills)
           x == [side |-> side, qty |-> qty, mark |-> mark, day |-> jDay]
           L == Journal!Lots(fills, DOMAIN fills)
           M == Journal!Lots(fills', DOMAIN fills')
           P == Journal!Lots(fills, jStored)
           Q == Journal!Lots(fills', jStored)
<1>1. /\ fills' = Append(fills, x) /\ book' = Journal!Match(fills', book, n + 1)
      /\ UNCHANGED <<broker, jDay, jStored, rows, jSeen, cursor, jPhase, window, jFaults>>
  BY DEF Journal!Fill
<1>2. FillsInv /\ HolesInv /\ CrossInv /\ RowsFrom(rows, book.trips, Journal!FifoPairs(jStored))
  BY DEF JournalInv
<1>3. /\ n \in Nat /\ DOMAIN fills = 1 .. n /\ IsLots(L, fills, DOMAIN fills, n)
      /\ \A j \in 1 .. n : fills[j].qty \in Nat
      /\ Paired(book, n)
  BY <1>2, BookIs
<1>4. x \in FillOf /\ x.day = jDay /\ x.qty \in Nat /\ jDay \in Nat \ {0}
  BY <1>2 DEF FillOf, FillsInv
<1> HIDE DEF x
<1>5. /\ fills' \in Seq(FillOf) /\ Len(fills') = n + 1
      /\ \A j \in 1 .. n : fills'[j] = fills[j]
      /\ fills'[n + 1] = x
  BY <1>1, <1>2, <1>4, AppendProperties DEF FillsInv
<1>6. /\ DOMAIN fills' = 1 .. (n + 1) /\ Len(fills') \in Nat
      /\ \A j \in 1 .. (n + 1) : j \in 1 .. n \/ j = n + 1
  BY <1>3, <1>5
<1>7. \A j \in 1 .. (n + 1) : fills'[j].qty \in Nat
  BY <1>3, <1>4, <1>5, <1>6
<1>8. IsLots(M, fills', DOMAIN fills', n + 1) /\ IsLots(Q, fills', jStored, n + 1)
  BY <1>5, <1>6, LotsAre
<1>9. IsLots(P, fills, jStored, n) /\ Journal!FifoPairs(jStored) = P[n].trips
  BY <1>2, OursAre
<1>10. L[n] = book
  BY <1>2 DEF FillsInv
<1>11. Journal!FifoPairs(jStored)' = Q[n + 1].trips
  BY <1>1, <1>5 DEF Journal!FifoPairs
<1> HIDE DEF L, M, P, Q, n
<1>12. M[n] = book
  <2>1. \A j \in 1 .. n : (j \in DOMAIN fills <=> j \in DOMAIN fills') /\ fills[j] = fills'[j]
    BY <1>3, <1>5, <1>6
  <2>2. n \in Nat /\ n + 1 \in Nat /\ n <= n /\ n <= n + 1 /\ n \in 0 .. n
    BY <1>3
  <2>3. \A j \in 0 .. n : L[j] = M[j]
    <3> DEFINE D == DOMAIN fills
               E == DOMAIN fills'
               k == n + 1
    <3>1. /\ IsLots(L, fills, D, n) /\ IsLots(M, fills', E, k) /\ n \in Nat /\ k \in Nat
          /\ n <= n /\ n <= k /\ \A j \in 1 .. n : (j \in D <=> j \in E) /\ fills[j] = fills'[j]
          /\ \A j \in 1 .. n : fills[j].qty \in Nat
      BY <1>3, <1>8, <2>1, <2>2
    <3> HIDE DEF D, E, k
    <3> QED BY <3>1, LotsSame
  <2> QED BY <1>10, <2>2, <2>3
<1>13. book' = M[n + 1]
  <2>1. n + 1 \in 1 .. (n + 1) /\ n + 1 \in DOMAIN fills' /\ (n + 1) - 1 = n
    BY <1>3, <1>6
  <2>2. M[n + 1] = Journal!Match(fills', M[(n + 1) - 1], n + 1)
    BY <1>8, <2>1, Zenon DEF IsLots
  <2> QED BY <1>1, <1>12, <2>1, <2>2
<1>14. FillsInv'
  <2>1. \A f \in DOMAIN fills' : fills'[f].day \in 1 .. jDay
    BY <1>2, <1>3, <1>4, <1>5, <1>6 DEF FillsInv
  <2>2. \A f, g \in DOMAIN fills' : f <= g => fills'[f].day <= fills'[g].day
    BY <1>2, <1>3, <1>4, <1>5, <1>6 DEF FillsInv
  <2>3. book' = Journal!Lots(fills', DOMAIN fills')[Len(fills')]
    BY <1>5, <1>13 DEF M
  <2> QED BY <1>1, <1>4, <1>5, <2>1, <2>2, <2>3 DEF FillsInv
<1>15. HolesInv'
  <2>1. jStored \subseteq 1 .. n
    BY <1>2, <1>3 DEF HolesInv
  <2>2. jStored' \subseteq DOMAIN fills'
    BY <1>1, <1>3, <1>6, <2>1
  <2>3. AskedFrom' = AskedFrom
    BY <1>1 DEF AskedFrom
  <2>4. ASSUME NEW f \in DOMAIN fills', NEW g \in jStored', f < g, f \notin jStored'
        PROVE  fills'[f].day < AskedFrom'
    <3>1. g \in 1 .. n /\ g \in jStored /\ f \notin jStored /\ f \in 1 .. n
      BY <1>1, <1>3, <1>6, <2>1, <2>4
    <3>2. fills[f].day < AskedFrom
      BY <1>2, <1>3, <2>4, <3>1 DEF HolesInv
    <3> QED BY <1>5, <2>3, <3>1, <3>2
  <2> QED BY <2>2, <2>4 DEF HolesInv
<1>16. Journal!FifoPairs(jStored)' = Journal!FifoPairs(jStored)
  <2>1. \A j \in 1 .. n : (j \in jStored <=> j \in jStored) /\ fills[j] = fills'[j]
    BY <1>5
  <2>2. n \in Nat /\ n + 1 \in Nat /\ n <= n /\ n <= n + 1 /\ n \in 0 .. n /\ n \in 0 .. (n + 1)
    BY <1>3
  <2>3. \A j \in 0 .. n : P[j] = Q[j]
    <3> DEFINE k == n + 1
    <3>1. /\ IsLots(P, fills, jStored, n) /\ IsLots(Q, fills', jStored, k) /\ n \in Nat
          /\ k \in Nat /\ n <= n /\ n <= k
          /\ \A j \in 1 .. n : (j \in jStored <=> j \in jStored) /\ fills[j] = fills'[j]
          /\ \A j \in 1 .. n : fills[j].qty \in Nat
      BY <1>3, <1>8, <1>9, <2>1, <2>2
    <3> HIDE DEF k
    <3> QED BY <3>1, LotsSame
  <2>4. \A j \in (n + 1) .. (n + 1) : j \notin jStored
    BY <1>2, <1>3 DEF HolesInv
  <2>5. Q[n + 1] = Q[n]
    BY <1>8, <2>2, <2>4, LotsRest
  <2> QED BY <1>9, <1>11, <2>2, <2>3, <2>5
<1>17. /\ book.trips \subseteq book'.trips
       /\ \A t \in book'.trips \ book.trips : t.last = n + 1
  <2> DEFINE k == n + 1
  <2>1. k \in Nat \ {0} /\ fills'[k].qty \in Nat /\ k - 1 = n
    BY <1>3, <1>4, <1>5
  <2>2. Paired(book, k - 1) /\ book' = Journal!Match(fills', book, k)
    BY <1>1, <1>3, <2>1 DEF n
  <2> HIDE DEF k
  <2>3. /\ book.trips \subseteq Journal!Match(fills', book, k).trips
        /\ \A t \in Journal!Match(fills', book, k).trips \ book.trips : t.last = k
    BY <2>1, <2>2, MatchPairs
  <2> QED BY <2>2, <2>3 DEF k
<1>18. RowsFrom(rows, book.trips, Journal!FifoPairs(jStored))'
  BY <1>1, <1>2, <1>16, <1>17 DEF RowsFrom, Source
<1>19. \A p \in book.trips : Journal!Known(p) => Journal!Known(p)'
  BY <1>1, <1>3, <1>5, KnownStays
<1>20. \A p \in book.trips : fills'[p.last] = fills[p.last]
  BY <1>3, <1>5, NamedFills
<1>21. ASSUME NEW d \in 0 .. jDay, NEW p \in book'.trips, fills'[p.last].day + Overlap <= d
       PROVE  p \in SettledBy(d) /\ fills[p.last] = fills'[p.last]
  <2>1. CASE p \in book.trips
    BY <1>20, <1>21, <2>1 DEF SettledBy
  <2>2. CASE p \notin book.trips
    <3>1. fills'[p.last].day = jDay
      BY <1>4, <1>5, <1>17, <2>2
    <3> QED BY <1>4, <1>21, <3>1, DaysOverlap
  <2> QED BY <2>1, <2>2
<1>22. CrossInv'
  <2>1. /\ jSeen' \subseteq book'.trips /\ \A p \in jSeen' : Journal!Known(p)'
        /\ cursor' \in 0 .. jDay'
    BY <1>1, <1>2, <1>17, <1>19 DEF CrossInv
  <2>2. ASSUME NEW p \in SettledBy(cursor)' PROVE Journal!Known(p)'
    <3>1. cursor \in 0 .. jDay /\ p \in book'.trips /\ fills'[p.last].day + Overlap <= cursor
      BY <1>1, <1>2, Zenon DEF SettledBy, CrossInv
    <3>2. p \in SettledBy(cursor)
      BY <1>21, <3>1
    <3> QED BY <1>2, <1>19, <3>2 DEF CrossInv, SettledBy
  <2>3. ASSUME jPhase = "report", NEW p \in SettledBy(window.today)', fills'[p.last].day < window.from
        PROVE  Journal!Known(p)'
    <3>1. window.today \in 0 .. jDay /\ p \in book'.trips
          /\ fills'[p.last].day + Overlap <= window.today
      <4>1. window' = window /\ window.today \in 0 .. jDay
        BY <1>1, <1>2, <2>3 DEF CrossInv
      <4> QED BY <2>3, <4>1 DEF SettledBy
    <3>2. p \in SettledBy(window.today) /\ fills[p.last] = fills'[p.last]
      BY <1>21, <3>1
    <3> QED BY <1>2, <1>19, <2>3, <3>2 DEF CrossInv, SettledBy
  <2> QED BY <1>1, <1>2, <2>1, <2>2, <2>3, Zenon DEF CrossInv
<1> QED BY <1>14, <1>15, <1>18, <1>22 DEF JournalInv

\* A newer import is of fills after all that are stored.
LEMMA FetchedAfter ==
    ASSUME JournalInv, NEW d, d = AskedFrom
    PROVE  /\ jStored \cup Journal!Since(d) \subseteq DOMAIN fills
           /\ \A e \in Journal!Since(d) \ jStored, g \in jStored : g < e
           /\ \A f \in DOMAIN fills, g \in jStored \cup Journal!Since(d) :
                f < g /\ f \notin jStored \cup Journal!Since(d) => fills[f].day < d
           /\ Journal!FifoPairs(jStored) \subseteq Journal!FifoPairs(jStored \cup Journal!Since(d))
<1>1. FillsInv /\ HolesInv /\ Len(fills) \in Nat /\ DOMAIN fills = 1 .. Len(fills)
  BY BookIs DEF JournalInv
<1>2. /\ Journal!Since(d) \subseteq DOMAIN fills /\ jStored \subseteq DOMAIN fills
      /\ \A f \in Journal!Since(d) : fills[f].day >= d
      /\ \A f \in DOMAIN fills : f \notin Journal!Since(d) => ~(fills[f].day >= d)
  BY <1>1 DEF Journal!Since, HolesInv
<1>3. d \in Int /\ \A f \in DOMAIN fills : fills[f].day \in Int
  BY <1>1, DaysOverlap DEF AskedFrom, FillsInv
<1>4. \A e \in Journal!Since(d) \ jStored, g \in jStored : g < e
  <2> SUFFICES ASSUME NEW e \in Journal!Since(d) \ jStored, NEW g \in jStored, ~(g < e) PROVE FALSE
    OBVIOUS
  <2>1. e \in Int /\ g \in Int /\ e # g
    BY <1>1, <1>2
  <2>2. e < g
    BY <2>1
  <2>3. fills[e].day < d
    BY <1>1, <1>2, <2>2 DEF HolesInv
  <2> QED BY <1>2, <1>3, <2>3
<1>5. Journal!FifoPairs(jStored) \subseteq Journal!FifoPairs(jStored \cup Journal!Since(d))
  <2>1. \A e \in (jStored \cup Journal!Since(d)) \ jStored, g \in jStored : g < e
    BY <1>4
  <2> QED BY <1>1, <1>2, <2>1, OursWithin
<1>6. ASSUME NEW f \in DOMAIN fills, NEW g \in jStored \cup Journal!Since(d),
             f < g, f \notin jStored \cup Journal!Since(d)
      PROVE  fills[f].day < d
  <2>1. CASE g \in jStored
    BY <1>1, <1>6, <2>1 DEF HolesInv
  <2>2. CASE g \in Journal!Since(d)
    <3>1. f \notin Journal!Since(d)
      BY <1>6
    <3>2. ~(fills[f].day >= d) /\ fills[f].day \in Int
      BY <1>2, <1>3, <1>6, <3>1
    <3> QED BY <1>3, <3>2
  <2> QED BY <2>1, <2>2
<1> QED BY <1>2, <1>4, <1>5, <1>6, Zenon

\* Rows of one family are added, and the fills stored stay.
LEMMA RowsMore ==
    ASSUME JournalInv, UNCHANGED <<fills, book, jDay, broker, jStored>>,
           NEW family \in {"pair", "fifo"}, NEW trips,
           trips \subseteq Source(family, book.trips, Journal!FifoPairs(jStored)),
           rows' = Journal!Stored(rows, family, trips)
    PROVE  /\ FillsInv' /\ HolesInv'
           /\ RowsFrom(rows, book.trips, Journal!FifoPairs(jStored))'
           /\ \A p \in trips : Journal!Known(p)'
           /\ \A p \in book.trips : Journal!Known(p) => Journal!Known(p)'
<1>1. HolesInv'
  BY DEF JournalInv, HolesInv, AskedFrom
<1>2. /\ Journal!FifoPairs(jStored) \subseteq Journal!FifoPairs(jStored')
      /\ trips \subseteq Source(family, book.trips, Journal!FifoPairs(jStored'))
  OBVIOUS
<1> QED BY <1>1, <1>2, RowsAdded

LEMMA GreaterOf ==
    ASSUME NEW a \in Int, NEW b \in Int
    PROVE  /\ Journal!Max({a, b}) \in {a, b}
           /\ Journal!Max({a, b}) >= a /\ Journal!Max({a, b}) >= b
<1>1. \E x \in {a, b} : \A y \in {a, b} : x >= y
  OBVIOUS
<1>2. Journal!Max({a, b}) \in {a, b} /\ \A y \in {a, b} : Journal!Max({a, b}) >= y
  BY <1>1 DEF Journal!Max
<1> QED BY <1>2

\* An import of today's fills.
LEMMA ImportTradovateKeeps == ASSUME JournalInv, Journal!ImportTradovate PROVE JournalInv'
<1>1. /\ broker = "tradovate" /\ jStored' = jStored \cup Journal!Since(jDay) /\ jPhase' = "pairs"
      /\ UNCHANGED <<broker, fills, book, jDay, rows, jSeen, cursor, window>>
  BY DEF Journal!ImportTradovate, Journal!market
<1>2. jDay = AskedFrom /\ AskedFrom' = AskedFrom
  BY <1>1 DEF AskedFrom
<1>3. /\ jStored' \subseteq DOMAIN fills
      /\ \A f \in DOMAIN fills, g \in jStored' : f < g /\ f \notin jStored' => fills[f].day < AskedFrom
      /\ Journal!FifoPairs(jStored) \subseteq Journal!FifoPairs(jStored')
  BY <1>1, <1>2, FetchedAfter
<1>4. FillsInv'
  BY <1>1 DEF JournalInv, FillsInv
<1>5. HolesInv'
  BY <1>1, <1>2, <1>3 DEF HolesInv
<1>6. Journal!FifoPairs(jStored)' = Journal!FifoPairs(jStored')
  BY <1>1 DEF Journal!FifoPairs
<1>7. RowsFrom(rows, book.trips, Journal!FifoPairs(jStored))'
  BY <1>1, <1>3, <1>6, Zenon DEF JournalInv, RowsFrom, Source
<1>8. \A p \in book.trips : Journal!Known(p) => Journal!Known(p)'
  BY <1>1, KnownStays
<1>9. CrossInv'
  BY <1>1, <1>8, CrossStays DEF JournalInv, FillsInv
<1> QED BY <1>4, <1>5, <1>7, <1>9 DEF JournalInv

\* The list of today's pairs, or a pairing of what is stored; the report then starts at
\* the days that may still change.
LEMMA ReadPairsKeeps == ASSUME JournalInv, Journal!ReadPairs PROVE JournalInv'
<1>1. PICK failed \in BOOLEAN :
        rows' = IF (IF failed THEN {} ELSE {p \in Journal!Pairs : Journal!ClosedOn(p) = jDay}) # {}
                THEN Journal!Stored(rows, "pair",
                       IF failed THEN {} ELSE {p \in Journal!Pairs : Journal!ClosedOn(p) = jDay})
                ELSE Journal!Stored(rows, "fifo", Journal!FifoPairs(jStored))
  BY Zenon DEF Journal!ReadPairs
<1> DEFINE closing == IF failed THEN {} ELSE {p \in Journal!Pairs : Journal!ClosedOn(p) = jDay}
<1>2. /\ jPhase' = "report"
      /\ window' = [from |-> Journal!Reached(cursor), reached |-> 0, today |-> jDay]
      /\ UNCHANGED <<broker, fills, book, jDay, jStored, jSeen, cursor>>
  BY DEF Journal!ReadPairs, Journal!market
<1>3. closing \subseteq book.trips
  BY DEF Journal!Pairs
<1> HIDE DEF closing
<1>4. PICK family \in {"pair", "fifo"}, trips \in {closing, Journal!FifoPairs(jStored)} :
        /\ rows' = Journal!Stored(rows, family, trips)
        /\ trips \subseteq Source(family, book.trips, Journal!FifoPairs(jStored))
  <2>1. CASE closing # {}
    <3>1. rows' = Journal!Stored(rows, "pair", closing)
      BY <1>1, <2>1 DEF closing
    <3>2. closing \subseteq Source("pair", book.trips, Journal!FifoPairs(jStored))
      BY <1>3 DEF Source
    <3> QED BY <3>1, <3>2
  <2>2. CASE closing = {}
    <3>1. rows' = Journal!Stored(rows, "fifo", Journal!FifoPairs(jStored))
      BY <1>1, <2>2 DEF closing
    <3>2. Journal!FifoPairs(jStored) \subseteq Source("fifo", book.trips, Journal!FifoPairs(jStored))
      BY DEF Source
    <3> QED BY <3>1, <3>2
  <2> QED BY <2>1, <2>2
<1>5. /\ FillsInv' /\ HolesInv'
      /\ RowsFrom(rows, book.trips, Journal!FifoPairs(jStored))'
      /\ \A p \in book.trips : Journal!Known(p) => Journal!Known(p)'
  BY <1>2, <1>4, RowsMore
<1>6. FillsInv /\ CrossInv /\ cursor \in 0 .. jDay /\ jDay \in Nat \ {0}
  BY DEF JournalInv, FillsInv, CrossInv
<1>7. SettledBy(cursor)' = SettledBy(cursor) /\ SettledBy(cursor) \subseteq book.trips
  BY <1>2 DEF SettledBy
<1>8. /\ jSeen' \subseteq book'.trips /\ \A p \in jSeen' : Journal!Known(p)'
      /\ cursor' \in 0 .. jDay' /\ \A p \in SettledBy(cursor)' : Journal!Known(p)'
  BY <1>2, <1>5, <1>6, <1>7 DEF CrossInv
<1> DEFINE from == Journal!Reached(cursor)
<1>9. from \in Nat \ {0} /\ (from = 1 \/ from = cursor - Overlap)
  <2>1. CASE cursor = 0
    BY <2>1 DEF Journal!Reached
  <2>2. CASE cursor # 0
    <3> DEFINE c == cursor - Overlap
    <3>1. from = Journal!Max({1, c})
      BY <2>2 DEF Journal!Reached
    <3>2. c \in Int /\ 1 \in Int
      BY <1>6, DaysOverlap
    <3> HIDE DEF from, c
    <3>3. Journal!Max({1, c}) \in {1, c} /\ Journal!Max({1, c}) >= 1
      BY <3>2, GreaterOf
    <3>4. from \in Nat \ {0} /\ (from = 1 \/ from = c)
      BY <3>1, <3>2, <3>3
    <3> QED BY <3>4 DEF c
  <2> QED BY <2>1, <2>2
<1>10. window'.from = from /\ window'.reached = 0 /\ window'.today = jDay
  BY <1>2
<1> HIDE DEF from
<1>11. ASSUME NEW p \in SettledBy(window.today)', fills'[p.last].day < window'.from
       PROVE  Journal!Known(p)'
  <2>1. p \in book.trips /\ fills[p.last].day < from
    BY <1>2, <1>10, <1>11 DEF SettledBy
  <2>2. fills[p.last].day \in 1 .. jDay
    BY <1>6, <2>1, NamedFills DEF FillsInv
  <2>3. fills[p.last].day + Overlap <= cursor
    BY <1>6, <1>9, <2>1, <2>2, DaysOverlap
  <2>4. p \in SettledBy(cursor)
    BY <2>1, <2>3 DEF SettledBy
  <2> QED BY <1>2, <1>7, <1>8, <2>4
<1>12. CrossInv'
  <2>1. /\ window'.from \in Nat \ {0} /\ window'.today \in 1 .. jDay'
        /\ window'.reached \in 0 .. window'.today
        /\ window'.reached = 0 \/ window'.reached < window'.from
    BY <1>2, <1>6, <1>9, <1>10
  <2> QED BY <1>8, <1>11, <2>1 DEF CrossInv
<1> QED BY <1>5, <1>12 DEF JournalInv

\* The report of some days: those that may no longer change are in it whole.
LEMMA ReadReportKeeps ==
    ASSUME JournalInv, NEW last \in window.from .. window.today, Journal!ReadReport(last)
    PROVE  JournalInv'
<1> DEFINE inside == {p \in Journal!Pairs : Journal!ClosedOn(p) \in window.from .. last}
           final == {p \in inside : Journal!ClosedOn(p) + Overlap <= jDay}
<1>1. PICK late \in SUBSET (inside \ final) : rows' = Journal!Stored(rows, "pair", final \cup late)
  BY Zenon DEF Journal!ReadReport
<1>2. /\ jPhase = "report" /\ window' = [window EXCEPT !.from = last + 1, !.reached = last]
      /\ UNCHANGED <<broker, fills, book, jDay, jStored, jSeen, cursor, jPhase>>
  BY DEF Journal!ReadReport, Journal!market
<1>3. final \cup late \subseteq Source("pair", book.trips, Journal!FifoPairs(jStored))
  BY DEF Source, Journal!Pairs
<1>4. \A p \in book.trips :
        fills[p.last].day \in window.from .. last /\ fills[p.last].day + Overlap <= jDay => p \in final
  BY DEF Journal!Pairs, Journal!ClosedOn
<1> HIDE DEF inside, final
<1>5. /\ FillsInv' /\ HolesInv'
      /\ RowsFrom(rows, book.trips, Journal!FifoPairs(jStored))'
      /\ \A p \in final \cup late : Journal!Known(p)'
      /\ \A p \in book.trips : Journal!Known(p) => Journal!Known(p)'
  BY <1>1, <1>2, <1>3, RowsMore
<1>6. /\ FillsInv /\ CrossInv /\ cursor \in 0 .. jDay /\ jDay \in Nat \ {0}
      /\ window.from \in Nat \ {0} /\ window.today \in 1 .. jDay
  BY <1>2 DEF JournalInv, FillsInv, CrossInv
<1>7. SettledBy(cursor)' = SettledBy(cursor) /\ SettledBy(cursor) \subseteq book.trips
  BY <1>2 DEF SettledBy
<1>8. /\ jSeen' \subseteq book'.trips /\ \A p \in jSeen' : Journal!Known(p)'
      /\ cursor' \in 0 .. jDay' /\ \A p \in SettledBy(cursor)' : Journal!Known(p)'
  BY <1>2, <1>5, <1>6, <1>7 DEF CrossInv
<1>9. window'.from = last + 1 /\ window'.reached = last /\ window'.today = window.today
  BY <1>2
<1>10. ASSUME NEW p \in SettledBy(window.today)', fills'[p.last].day < window'.from
       PROVE  Journal!Known(p)'
  <2>1. /\ p \in book.trips /\ p \in SettledBy(window.today) /\ fills[p.last].day < last + 1
        /\ fills[p.last].day + Overlap <= window.today
    BY <1>2, <1>9, <1>10 DEF SettledBy
  <2>2. fills[p.last].day \in 1 .. jDay
    BY <1>6, <2>1, NamedFills DEF FillsInv
  <2>3. CASE fills[p.last].day < window.from
    BY <1>2, <1>5, <1>6, <2>1, <2>3 DEF CrossInv
  <2>4. CASE ~(fills[p.last].day < window.from)
    <3>1. fills[p.last].day \in window.from .. last /\ fills[p.last].day + Overlap <= jDay
      BY <1>6, <2>1, <2>2, <2>4, DaysOverlap
    <3> QED BY <1>4, <1>5, <2>1, <3>1
  <2> QED BY <2>3, <2>4
<1>11. CrossInv'
  <2>1. /\ window'.from \in Nat \ {0} /\ window'.today \in 1 .. jDay'
        /\ window'.reached \in 0 .. window'.today
        /\ window'.reached = 0 \/ window'.reached < window'.from
    BY <1>2, <1>6, <1>9
  <2> QED BY <1>8, <1>10, <2>1 DEF CrossInv
<1> QED BY <1>5, <1>11 DEF JournalInv

\* The cursor moves to the days that were covered.
LEMMA EndReportKeeps == ASSUME JournalInv, Journal!EndReport PROVE JournalInv'
<1>1. /\ jPhase = "report" /\ jPhase' = "book" /\ cursor' = Journal!Max({cursor, window.reached})
      /\ UNCHANGED <<broker, fills, book, jDay, jStored, rows, jSeen>>
  BY DEF Journal!EndReport, Journal!CursorAfter, Journal!market
<1>2. /\ FillsInv /\ CrossInv /\ cursor \in 0 .. jDay /\ jDay \in Nat \ {0}
      /\ window.today \in 1 .. jDay /\ window.reached \in 0 .. window.today
      /\ window.reached = 0 \/ window.reached < window.from
      /\ window.from \in Nat \ {0}
  BY <1>1 DEF JournalInv, FillsInv, CrossInv
<1>3. cursor' = cursor \/ cursor' = window.reached
  <2>1. cursor \in Int /\ window.reached \in Int
    BY <1>2
  <2>2. Journal!Max({cursor, window.reached}) \in {cursor, window.reached}
    BY <2>1, GreaterOf, Zenon
  <2> QED BY <1>1, <2>2
<1>4. FillsInv'
  BY <1>1 DEF JournalInv, FillsInv
<1>5. HolesInv'
  BY <1>1 DEF JournalInv, HolesInv, AskedFrom
<1>6. Journal!FifoPairs(jStored)' = Journal!FifoPairs(jStored)
  BY <1>1 DEF Journal!FifoPairs
<1>7. RowsFrom(rows, book.trips, Journal!FifoPairs(jStored))'
  BY <1>1, <1>6 DEF JournalInv, RowsFrom
<1>8. \A p \in book.trips : Journal!Known(p) => Journal!Known(p)'
  BY <1>1, KnownStays
<1>9. ASSUME NEW p \in SettledBy(cursor)' PROVE Journal!Known(p)'
  <2>1. p \in book.trips /\ fills[p.last].day + Overlap <= cursor'
    BY <1>1 DEF SettledBy
  <2>2. fills[p.last].day \in 1 .. jDay
    BY <1>2, <2>1, NamedFills DEF FillsInv
  <2>3. CASE cursor' = cursor
    BY <1>2, <1>8, <2>1, <2>3 DEF CrossInv, SettledBy
  <2>4. CASE cursor' = window.reached
    <3>1. fills[p.last].day + Overlap <= window.today /\ fills[p.last].day < window.from
      BY <1>2, <2>1, <2>2, <2>4, DaysOverlap
    <3>2. p \in SettledBy(window.today)
      BY <2>1, <3>1 DEF SettledBy
    <3> QED BY <1>1, <1>2, <1>8, <2>1, <3>1, <3>2 DEF CrossInv
  <2> QED BY <1>3, <2>3, <2>4
<1>10. CrossInv'
  <2>1. jSeen' \subseteq book'.trips /\ (\A p \in jSeen' : Journal!Known(p)') /\ cursor' \in 0 .. jDay'
    BY <1>1, <1>2, <1>3, <1>8 DEF CrossInv
  <2> QED BY <1>1, <1>9, <2>1 DEF CrossInv
<1> QED BY <1>4, <1>5, <1>7, <1>10 DEF JournalInv

\* A pair of the whole book is crossed off when it was looked up and stored.
LEMMA ReadBookKeeps == ASSUME JournalInv, Journal!ReadBook PROVE JournalInv'
<1>1. PICK found \in SUBSET {p \in Journal!Pairs : p \notin jSeen} :
        /\ rows' = Journal!Stored(rows, "pair", found)
        /\ jSeen' = jSeen \cup Journal!Processed({p \in Journal!Pairs : p \notin jSeen}, found)
  BY DEF Journal!ReadBook
<1>2. found \subseteq book.trips /\ jSeen' = jSeen \cup found
  BY <1>1 DEF Journal!Pairs, Journal!Processed
<1>3. /\ jPhase' = "idle"
      /\ UNCHANGED <<broker, fills, book, jDay, jStored, cursor, window>>
  BY DEF Journal!ReadBook, Journal!market
<1>4. found \subseteq Source("pair", book.trips, Journal!FifoPairs(jStored))
  BY <1>2 DEF Source
<1>5. /\ FillsInv' /\ HolesInv'
      /\ RowsFrom(rows, book.trips, Journal!FifoPairs(jStored))'
      /\ \A p \in found : Journal!Known(p)'
      /\ \A p \in book.trips : Journal!Known(p) => Journal!Known(p)'
  BY <1>1, <1>3, <1>4, RowsMore
<1>6. SettledBy(cursor)' = SettledBy(cursor) /\ SettledBy(cursor) \subseteq book.trips
  BY <1>3 DEF SettledBy
<1>7. CrossInv'
  <2>1. CrossInv
    BY DEF JournalInv
  <2>2. jSeen' \subseteq book'.trips /\ \A p \in jSeen' : Journal!Known(p)'
    BY <1>2, <1>3, <1>5, <2>1 DEF CrossInv
  <2> QED BY <1>3, <1>5, <1>6, <2>1, <2>2 DEF CrossInv
<1> QED BY <1>5, <1>7 DEF JournalInv

\* The other brokers: every fill at first, the last days from then on.
LEMMA ImportOtherKeeps == ASSUME JournalInv, Journal!ImportOther PROVE JournalInv'
<1> DEFINE d == Journal!FetchedFrom
<1>1. /\ broker = "other" /\ jStored' = jStored \cup Journal!Since(d)
      /\ rows' = Journal!Stored(rows, "fifo", Journal!FifoPairs(jStored'))
      /\ UNCHANGED <<broker, fills, book, jDay, jSeen, cursor, jPhase, window>>
  BY DEF Journal!ImportOther, Journal!PairedFills, Journal!market
<1>2. FillsInv /\ jStored \subseteq DOMAIN fills /\ jDay \in Nat
  BY DEF JournalInv, FillsInv, HolesInv
<1>3. AskedFrom' = AskedFrom /\ AskedFrom = jDay - Overlap
  BY <1>1 DEF AskedFrom
<1>4. HolesInv' /\ (Journal!FifoPairs(jStored) \subseteq Journal!FifoPairs(jStored') \/ rows = {})
  <2>1. CASE rows = {}
    <3>1. d = 1
      BY <2>1 DEF Journal!FetchedFrom
    <3> HIDE DEF d
    <3>2. Journal!Since(d) = DOMAIN fills
      <4>1. \A f \in DOMAIN fills : fills[f].day \in 1 .. jDay
        BY <1>2 DEF FillsInv
      <4>2. \A f \in DOMAIN fills : fills[f].day >= 1
        BY <4>1
      <4> QED BY <3>1, <4>2 DEF Journal!Since
    <3>3. jStored' = DOMAIN fills
      BY <1>1, <1>2, <3>2
    <3> QED BY <1>1, <2>1, <3>3 DEF HolesInv
  <2>2. CASE rows # {}
    <3>1. d = AskedFrom
      BY <1>3, <2>2 DEF Journal!FetchedFrom
    <3> HIDE DEF d
    <3>2. /\ jStored' \subseteq DOMAIN fills
          /\ \A f \in DOMAIN fills, g \in jStored' :
               f < g /\ f \notin jStored' => fills[f].day < AskedFrom
          /\ Journal!FifoPairs(jStored) \subseteq Journal!FifoPairs(jStored')
      BY <1>1, <3>1, FetchedAfter
    <3> QED BY <1>1, <1>3, <3>2 DEF HolesInv
  <2> QED BY <2>1, <2>2
<1> HIDE DEF d
<1>5. Journal!FifoPairs(jStored') \subseteq Source("fifo", book.trips, Journal!FifoPairs(jStored'))
  BY DEF Source
<1>6. /\ FillsInv' /\ HolesInv'
      /\ RowsFrom(rows, book.trips, Journal!FifoPairs(jStored))'
      /\ \A p \in book.trips : Journal!Known(p) => Journal!Known(p)'
  BY <1>1, <1>4, <1>5, RowsAdded, Zenon
<1>7. CrossInv'
  BY <1>1, <1>2, <1>6, CrossStays
<1> QED BY <1>6, <1>7 DEF JournalInv

LEMMA JournalStep == ASSUME JournalInv, Journal!Next PROVE JournalInv'
<1>1. ASSUME NEW side \in {"Buy", "Sell"}, NEW qty \in 1 .. JournalQty, NEW mark \in Mark,
             Journal!Fill(side, qty, mark)
      PROVE  JournalInv'
  BY <1>1, FillKeeps
<1>2. CASE Journal!NextDay
  <2>1. UNCHANGED <<broker, fills, book, jStored, rows, jSeen, cursor, jPhase, window>>
        /\ jDay' = jDay + 1 /\ jDay \in Nat
    BY <1>2 DEF Journal!NextDay, JournalInv, FillsInv
  <2> QED BY <2>1, JournalSame
<1>3. CASE Journal!Restart
  <2>1. UNCHANGED <<broker, fills, book, jStored, rows, jSeen, cursor, jDay>>
        /\ jPhase' = "idle" /\ jDay \in Nat
    BY <1>3 DEF Journal!Restart, Journal!market, JournalInv, FillsInv
  <2> QED BY <2>1, JournalSame
<1>4. ASSUME NEW last \in window.from .. window.today, Journal!ReadReport(last) PROVE JournalInv'
  BY <1>4, ReadReportKeeps
<1> QED BY <1>1, <1>2, <1>3, <1>4, ImportTradovateKeeps, ReadPairsKeeps, EndReportKeeps,
        ReadBookKeeps, ImportOtherKeeps DEF Journal!Next

\* The fills stored are the first ones, when none before the last was missed.
LEMMA JournalSafe ==
    ASSUME JournalInv
    PROVE  Journal!CrossedOffIsStored /\ Journal!CompleteIsExact /\ Journal!StoredOnce
<1>1. /\ FillsInv /\ HolesInv /\ CrossInv
      /\ RowsFrom(rows, book.trips, Journal!FifoPairs(jStored))
  BY DEF JournalInv
<1>2. Journal!CrossedOffIsStored
  BY <1>1 DEF CrossInv, SettledBy, Journal!CrossedOffIsStored, Journal!Pairs, Journal!ClosedOn
<1>3. Journal!StoredOnce
  BY <1>1 DEF RowsFrom, OneOfEach, Journal!StoredOnce
<1>4. ASSUME Journal!Complete, NEW r \in rows
      PROVE  \E p \in Journal!Pairs : r.first = p.first /\ r.last = p.last
  <2>1. Len(fills) \in Nat /\ DOMAIN fills = 1 .. Len(fills)
    BY <1>1, BookIs
  <2>2. jStored \cup {0} \subseteq 0 .. Len(fills) /\ jStored \cup {0} # {}
    BY <1>1, <2>1 DEF HolesInv
  <2>3. \E v \in jStored \cup {0} : \A w \in jStored \cup {0} : v >= w
    BY <2>1, <2>2, GreatestBelow, Zenon
  <2> DEFINE m == Journal!Max(jStored \cup {0})
  <2>4. m \in jStored \cup {0} /\ \A w \in jStored \cup {0} : m >= w
    BY <2>3 DEF Journal!Max
  <2>5. \A f \in DOMAIN fills : f < m => f \in jStored
    BY <1>4 DEF Journal!Complete
  <2> HIDE DEF m
  <2>6. \A e \in DOMAIN fills \ jStored, g \in jStored : g < e
    <3> SUFFICES ASSUME NEW e \in DOMAIN fills \ jStored, NEW g \in jStored PROVE g < e
      OBVIOUS
    <3>1. e \in Int /\ g \in Int /\ m \in Int /\ g <= m /\ ~(e < m) /\ e # g
      BY <2>1, <2>2, <2>4, <2>5
    <3>2. m # e
      BY <2>1, <2>4
    <3> QED BY <3>1, <3>2
  <2>7. Journal!FifoPairs(jStored) \subseteq book.trips
    BY <1>1, <2>6, OursWithin, BookIsOfAll DEF HolesInv
  <2>8. TripOfRow(r) \in book.trips
    BY <1>1, <2>7 DEF RowsFrom, Source
  <2>9. TripOfRow(r).first = r.first /\ TripOfRow(r).last = r.last
    BY DEF TripOfRow
  <2> QED BY <2>8, <2>9 DEF Journal!Pairs
<1>5. Journal!CompleteIsExact
  BY <1>4 DEF Journal!CompleteIsExact
<1> QED BY <1>2, <1>3, <1>5

-----------------------------------------------------------------------------
(* PositionWatch: what is compared with the broker's answer is the last    *)
(* answer, login by login.                                                 *)

WatchInv ==
    /\ net \in [Login -> Int]
    /\ raw \in [Login -> [ok : BOOLEAN, net : Int]]
    /\ told \in [Login -> Int] /\ base \in [Login -> Int] /\ read \in [Login -> Int]
    /\ positions = read
    /\ \A l \in Login : base[l] + told[l] = read[l]
    \* before the first look nothing was told
    /\ ~seeded => read = Watch!Zero /\ told = Watch!Zero

LEMMA WatchUnread == [l \in Login |-> Watch!Unread] \in [Login -> [ok : BOOLEAN, net : Int]]
BY DEF Watch!Unread

LEMMA WatchInit == ASSUME Watch!Init PROVE WatchInv
BY WatchUnread DEF WatchInv, Watch!Init, Watch!Zero

\* What was told and what is compared stay: only the broker or the tick moves.
LEMMA WatchSame ==
    ASSUME WatchInv, UNCHANGED <<told, base, read, positions, seeded>>,
           net' \in [Login -> Int], raw' \in [Login -> [ok : BOOLEAN, net : Int]]
    PROVE  WatchInv'
BY DEF WatchInv, Watch!Zero

LEMMA WatchStutter == ASSUME WatchInv, UNCHANGED WatchVars PROVE WatchInv'
<1>1. UNCHANGED <<told, base, read, positions, seeded, net, raw>>
  BY DEF WatchVars
<1> QED BY <1>1, WatchSame DEF WatchInv

\* What is announced for a login is the change since the last answer, and nothing for
\* a login that did not answer.
LEMMA AnnouncedIs ==
    ASSUME WatchInv, NEW l \in Login
    PROVE  Watch!Announced(l) = IF raw[l].ok THEN raw[l].net - positions[l] ELSE 0
<1>1. raw[l].ok \in BOOLEAN /\ raw[l].net \in Int /\ positions[l] \in Int
  BY DEF WatchInv
<1>2. CASE ~raw[l].ok
  <2>1. l \notin Watch!Polled
    BY <1>2 DEF Watch!Polled
  <2> QED BY <1>2, <2>1 DEF Watch!Announced
<1>3. CASE raw[l].ok
  <2>1. l \in Watch!Polled /\ Watch!Current(l) = raw[l].net
    BY <1>3 DEF Watch!Polled, Watch!Current
  <2>2. CASE positions[l] = 0
    BY <1>1, <1>3, <2>1, <2>2 DEF Watch!Announced
  <2>3. CASE positions[l] # 0 /\ raw[l].net = 0
    BY <1>1, <1>3, <2>1, <2>3 DEF Watch!Announced
  <2>4. CASE positions[l] # 0 /\ raw[l].net # 0 /\ ((positions[l] > 0) # (raw[l].net > 0))
    BY <1>1, <1>3, <2>1, <2>4 DEF Watch!Announced
  <2>5. CASE positions[l] # 0 /\ raw[l].net # 0 /\ ((positions[l] > 0) = (raw[l].net > 0))
    BY <1>1, <1>3, <2>1, <2>5 DEF Watch!Announced
  <2> QED BY <2>2, <2>3, <2>4, <2>5
<1> QED BY <1>2, <1>3

LEMMA ObserveKeeps == ASSUME WatchInv, Watch!Observe PROVE WatchInv'
<1>1. /\ positions' = [l \in Login |-> IF l \in Watch!Polled THEN Watch!Current(l) ELSE positions[l]]
      /\ read' = [l \in Login |-> IF raw[l].ok THEN raw[l].net ELSE read[l]]
      /\ seeded' = TRUE /\ net' = net
      /\ raw' = [l \in Login |-> Watch!Unread]
  BY DEF Watch!Observe, Watch!ForgetTick, Watch!broker
<1>2. \A l \in Login : /\ raw[l].ok \in BOOLEAN /\ raw[l].net \in Int /\ read[l] \in Int
                       /\ told[l] \in Int /\ base[l] \in Int /\ base[l] + told[l] = read[l]
  BY DEF WatchInv
<1>3. positions = read
  BY DEF WatchInv
<1>4. \A l \in Login : /\ l \in Watch!Polled <=> raw[l].ok
                       /\ raw[l].ok => Watch!Current(l) = raw[l].net
  BY DEF Watch!Polled, Watch!Current
<1>5. positions' = read' /\ read' \in [Login -> Int]
  <2>1. \A l \in Login : (IF l \in Watch!Polled THEN Watch!Current(l) ELSE positions[l])
                           = IF raw[l].ok THEN raw[l].net ELSE read[l]
    BY <1>3, <1>4
  <2> QED BY <1>1, <1>2, <2>1
<1>6. CASE seeded
  <2>1. told' = [l \in Login |-> told[l] + Watch!Announced(l)] /\ base' = base
    BY <1>6 DEF Watch!Observe
  <2>2. \A l \in Login : Watch!Announced(l) = IF raw[l].ok THEN raw[l].net - read[l] ELSE 0
    BY <1>3, AnnouncedIs
  <2>3. told' \in [Login -> Int]
    BY <1>2, <2>1, <2>2
  <2>4. \A l \in Login : base'[l] + told'[l] = read'[l]
    <3> TAKE l \in Login
    <3>1. CASE raw[l].ok
      BY <1>1, <1>2, <2>1, <2>2, <3>1
    <3>2. CASE ~raw[l].ok
      BY <1>1, <1>2, <2>1, <2>2, <3>2
    <3> QED BY <3>1, <3>2
  <2>5. base' \in [Login -> Int] /\ net' \in [Login -> Int]
    BY <1>1, <2>1 DEF WatchInv
  <2> QED BY <1>1, <1>5, <2>3, <2>4, <2>5, WatchUnread DEF WatchInv
<1>7. CASE ~seeded
  <2>1. base' = positions' /\ told' = told /\ told = Watch!Zero
    BY <1>7 DEF Watch!Observe, WatchInv
  <2>2. \A l \in Login : base'[l] + told'[l] = read'[l]
    BY <1>5, <2>1 DEF Watch!Zero
  <2>3. told' \in [Login -> Int] /\ net' \in [Login -> Int]
    BY <1>1, <2>1 DEF WatchInv
  <2> QED BY <1>1, <1>5, <2>1, <2>2, <2>3, WatchUnread DEF WatchInv
<1> QED BY <1>6, <1>7

LEMMA WatchStep == ASSUME WatchInv, Watch!Next PROVE WatchInv'
<1>1. ASSUME NEW l \in Login, Watch!BrokerTrades(l) PROVE WatchInv'
  <2>1. UNCHANGED <<told, base, read, positions, seeded, raw>>
    BY <1>1 DEF Watch!BrokerTrades, Watch!tick, Watch!memory, Watch!account
  <2>2. PICK n \in -WatchQty .. WatchQty : net' = [net EXCEPT ![l] = n]
    BY <1>1, Zenon DEF Watch!BrokerTrades
  <2>3. net' \in [Login -> Int] /\ raw' \in [Login -> [ok : BOOLEAN, net : Int]]
    BY <2>1, <2>2 DEF WatchInv
  <2> QED BY <2>1, <2>3, WatchSame
<1>2. ASSUME NEW l \in Login, Watch!ReadPositions(l) PROVE WatchInv'
  <2>1. UNCHANGED <<told, base, read, positions, seeded, net>>
    BY <1>2 DEF Watch!ReadPositions, Watch!broker, Watch!memory, Watch!account
  <2>2. raw' = raw \/ raw' = [raw EXCEPT ![l] = [ok |-> TRUE, net |-> net[l]]]
    BY <1>2 DEF Watch!ReadPositions
  <2>3. [ok |-> TRUE, net |-> net[l]] \in [ok : BOOLEAN, net : Int]
    BY DEF WatchInv
  <2>4. net' \in [Login -> Int] /\ raw' \in [Login -> [ok : BOOLEAN, net : Int]]
    BY <2>1, <2>2, <2>3, Zenon DEF WatchInv
  <2> QED BY <2>1, <2>4, WatchSame
<1>3. CASE Watch!NextDay \/ Watch!StartTick \/ \E l \in Login : Watch!ReadSnapshot(l)
  <2>1. UNCHANGED <<told, base, read, positions, seeded, net, raw>>
    BY <1>3 DEF Watch!NextDay, Watch!StartTick, Watch!ReadSnapshot, Watch!broker, Watch!tick,
                Watch!memory, Watch!account
  <2> QED BY <2>1, WatchSame DEF WatchInv
<1>4. CASE Watch!TickTimesOut
  <2>1. /\ UNCHANGED <<told, base, read, positions, seeded, net>>
        /\ raw' = [l \in Login |-> Watch!Unread]
    BY <1>4 DEF Watch!TickTimesOut, Watch!ForgetTick, Watch!broker, Watch!memory, Watch!account
  <2> QED BY <2>1, WatchSame, WatchUnread DEF WatchInv
<1>5. CASE Watch!Restart
  <2>1. /\ told' = Watch!Zero /\ base' = Watch!Zero /\ read' = Watch!Zero
        /\ positions' = Watch!Zero /\ net' = net /\ raw' = [l \in Login |-> Watch!Unread]
    BY <1>5 DEF Watch!Restart, Watch!ForgetTick, Watch!broker
  <2> QED BY <2>1, WatchUnread DEF WatchInv, Watch!Zero
<1> QED BY <1>1, <1>2, <1>3, <1>4, <1>5, ObserveKeeps DEF Watch!Next

LEMMA WatchSafe == ASSUME WatchInv PROVE Watch!Ledger
BY DEF WatchInv, Watch!Ledger

-----------------------------------------------------------------------------
(* The types of Subscription.                                             *)

\* The signals that passed the gates, and those that ended.
Past == {s \in Market!Signal : mAt[s] \in {"waiting", "running", "done"}}
Done == {s \in Market!Signal : mAt[s] = "done"}

\* Each signal that passed the gates was counted once there at most and once at its end.
MarketBounds ==
    /\ switchSeen \in [Market!Signal -> BOOLEAN]
    /\ mTrading \in BOOLEAN /\ listed \in BOOLEAN /\ mEnabled \in BOOLEAN
    /\ toggles \in 0..MaxToggles
    /\ streak \in 0..(IF MaxErrors = 0 THEN 0 ELSE MaxErrors - 1)
    /\ \A s \in logged : mAt[s] = "done"
    /\ count <= Cardinality(Past) + Cardinality(Done)
    /\ givenBack <= Cardinality(Done)

LEMMA PastFinite ==
    ASSUME MarketInv
    PROVE  /\ IsFiniteSet(Past) /\ IsFiniteSet(Done)
           /\ Cardinality(Past) \in Nat /\ Cardinality(Done) \in Nat
           /\ Cardinality(Past) <= Cardinality(Market!Signal)
           /\ Cardinality(Done) <= Cardinality(Market!Signal)
           /\ Cardinality(Market!Signal) \in Nat
<1>1. Past \in SUBSET Market!Signal /\ Done \in SUBSET Market!Signal
  BY DEF Past, Done
<1>2. IsFiniteSet(Market!Signal)
  BY MarketAssumption
<1> QED BY <1>1, <1>2, FS_Subset, FS_CardinalityType

LEMMA TodayBound ==
    ASSUME MarketInv, MarketBounds
    PROVE  Market!Today \in Nat /\ Market!Today <= Cardinality(Past) + Cardinality(Done)
<1>1. logged \in SUBSET Done
  BY DEF MarketBounds, MarketInv, Done
<1>2. Cardinality(logged) \in Nat /\ Cardinality(logged) <= Cardinality(Done)
      /\ Cardinality(Past) \in Nat /\ Cardinality(Done) \in Nat
  BY <1>1, PastFinite, SignalsFinite, FS_Subset
<1> QED BY <1>2, MarketCount DEF Market!Today, MarketInv, MarketBounds, Market!NoCount

\* A signal moves on to waiting, running or its end.
LEMMA PastMoves ==
    ASSUME MarketInv, NEW s \in Market!Signal, NEW to \in {"waiting", "running", "done"},
           mAt' = [mAt EXCEPT ![s] = to], mAt[s] # "done"
    PROVE  /\ Past' = Past \cup {s}
           /\ Done' = IF to = "done" THEN Done \cup {s} ELSE Done
           /\ Cardinality(Past') = Cardinality(Past) + (IF mAt[s] \in {"waiting", "running"} THEN 0 ELSE 1)
           /\ Cardinality(Done') = Cardinality(Done) + (IF to = "done" THEN 1 ELSE 0)
<1>1. \A r \in Market!Signal : mAt'[r] = IF r = s THEN to ELSE mAt[r]
  BY DEF MarketInv
<1>2. Past' = Past \cup {s}
  BY <1>1 DEF Past
<1>3. Done' = IF to = "done" THEN Done \cup {s} ELSE Done
  BY <1>1 DEF Done
<1>4. s \notin Done /\ (s \in Past <=> mAt[s] \in {"waiting", "running"})
  BY DEF Done, Past
<1>5. Cardinality(Past \cup {s}) = Cardinality(Past) + (IF mAt[s] \in {"waiting", "running"} THEN 0 ELSE 1)
  <2>1. Cardinality(Past) \in Nat
    BY PastFinite
  <2>2. CASE s \in Past
    <3>1. Past \cup {s} = Past
      BY <2>2
    <3> QED BY <1>4, <2>1, <2>2, <3>1
  <2>3. CASE s \notin Past
    <3>1. Cardinality(Past \cup {s}) = Cardinality(Past) + 1
      BY <2>3, PastFinite, FS_AddElement, Zenon
    <3> QED BY <1>4, <2>3, <3>1
  <2> QED BY <2>2, <2>3
<1>6. Cardinality(Done \cup {s}) = Cardinality(Done) + 1 /\ Cardinality(Done) \in Nat
  BY <1>4, PastFinite, FS_AddElement, Zenon
<1> QED BY <1>2, <1>3, <1>5, <1>6

LEMMA BoundsInit == ASSUME Market!Init PROVE MarketBounds
<1>1. Past = {} /\ Done = {}
  BY DEF Past, Done, Market!Init
<1>2. Cardinality(Past) = 0 /\ Cardinality(Done) = 0
  BY <1>1, FS_EmptySet
<1> QED BY <1>2, MarketAssumption DEF MarketBounds, Market!Init, Market!NoCount

\* An end counts once.
LEMMA NotedBounds ==
    ASSUME MarketInv, MarketBounds, NEW s \in Market!Signal, mAt[s] \in {"queued", "waiting", "running"},
           NEW status, NEW n \in Int, Market!Noted(s, status, n),
           n <= Cardinality(Past) + Cardinality(Done) + (IF mAt[s] = "queued" THEN 1 ELSE 0),
           n = Market!NoCount \/ n \in Nat,
           switchSeen' = switchSeen, mTrading' = mTrading, listed' = listed, toggles' = toggles,
           NEW slot \in {0, 1}, givenBack' = givenBack + slot
    PROVE  MarketBounds'
<1>1. mAt' = [mAt EXCEPT ![s] = "done"] /\ logged' \subseteq logged \cup {s}
  BY DEF Market!Noted
<1>2. /\ Cardinality(Past') = Cardinality(Past) + (IF mAt[s] = "queued" THEN 1 ELSE 0)
      /\ Cardinality(Done') = Cardinality(Done) + 1
      /\ Cardinality(Past) \in Nat /\ Cardinality(Done) \in Nat
  BY <1>1, PastMoves, PastFinite, Zenon
<1>3. count' <= n + 1 /\ (n = Market!NoCount => count' = n)
  <2>1. count' = CASE n = Market!NoCount -> Market!NoCount
                   [] n # Market!NoCount /\ s \in Entries ->
                        IF status = "skipped" THEN IF n = 0 THEN 0 ELSE n - 1 ELSE n
                   [] OTHER -> IF status = "skipped" THEN n ELSE n + 1
    BY DEF Market!Noted
  <2>2. CASE n = Market!NoCount
    BY <2>1, <2>2 DEF Market!NoCount
  <2>3. CASE n # Market!NoCount /\ s \in Entries
    BY <2>1, <2>3
  <2>4. CASE n # Market!NoCount /\ s \notin Entries
    BY <2>1, <2>4
  <2> QED BY <2>2, <2>3, <2>4
<1>4. count' <= Cardinality(Past)' + Cardinality(Done)'
  <2>1. count' \in Int
    <3>1. count' \in {Market!NoCount, 0, n, n - 1, n + 1}
      BY DEF Market!Noted
    <3> QED BY <3>1 DEF Market!NoCount
  <2>2. CASE n = Market!NoCount
    BY <1>2, <1>3, <2>2 DEF Market!NoCount
  <2>3. CASE n # Market!NoCount
    BY <1>2, <1>3, <2>1, <2>3
  <2> QED BY <2>2, <2>3
<1>5. streak' \in 0..(IF MaxErrors = 0 THEN 0 ELSE MaxErrors - 1) /\ mEnabled' \in BOOLEAN
  <2>1. CASE MaxErrors = 0 \/ status = "skipped"
    BY <2>1 DEF Market!Noted, MarketBounds
  <2>2. CASE ~(MaxErrors = 0 \/ status = "skipped") /\ status = "ok"
    BY <2>2, MarketAssumption DEF Market!Noted, MarketBounds
  <2>3. CASE ~(MaxErrors = 0 \/ status = "skipped") /\ status # "ok" /\ Market!Pauses(streak + 1)
    <3>1. streak' = 0 /\ mEnabled' = FALSE
      BY <2>3, Zenon DEF Market!Noted
    <3>2. MaxErrors # 0
      BY <2>3, Zenon
    <3>3. streak' \in 0..(IF MaxErrors = 0 THEN 0 ELSE MaxErrors - 1)
      BY <3>1, <3>2, MarketAssumption
    <3>4. mEnabled' \in BOOLEAN
      BY <3>1, Zenon
    <3> QED BY <3>3, <3>4
  <2>4. CASE ~(MaxErrors = 0 \/ status = "skipped") /\ status # "ok" /\ ~Market!Pauses(streak + 1)
    BY <2>4, MarketAssumption DEF Market!Noted, MarketBounds, Market!Pauses
  <2> QED BY <2>1, <2>2, <2>3, <2>4
<1>6. \A r \in logged' : mAt'[r] = "done"
  BY <1>1 DEF MarketBounds, MarketInv
<1>7. givenBack' <= Cardinality(Done)'
  BY <1>2 DEF MarketBounds, MarketInv
<1> QED BY <1>4, <1>5, <1>6, <1>7 DEF MarketBounds

LEMMA SkipBounds ==
    ASSUME MarketInv, MarketBounds, NEW s \in Market!Signal, mAt[s] \in {"queued", "waiting"},
           NEW n \in Int, NEW reserved \in BOOLEAN, Market!Skip(s, n, reserved),
           n <= Cardinality(Past) + Cardinality(Done) + (IF mAt[s] = "queued" THEN 1 ELSE 0),
           n = Market!NoCount \/ n \in Nat
    PROVE  MarketBounds'
<1>1. PICK slot \in {0, 1} : givenBack' = givenBack + slot
  <2>1. givenBack' = givenBack + (IF s \in Entries /\ n > 0 /\ ~reserved THEN 1 ELSE 0)
    BY DEF Market!Skip
  <2> QED BY <2>1
<1>2. Market!Noted(s, "skipped", n)
  BY DEF Market!Skip
<1>3. switchSeen' = switchSeen /\ mTrading' = mTrading /\ listed' = listed /\ toggles' = toggles
  BY DEF Market!Skip
<1> HIDE DEF Market!Skip
<1> QED BY <1>1, <1>2, <1>3, NotedBounds

\* A signal that moves on without an end.
LEMMA MoveBounds ==
    ASSUME MarketInv, MarketBounds, NEW s \in Market!Signal,
           mAt[s] # "done", NEW to \in {"waiting", "running"},
           mAt' = [mAt EXCEPT ![s] = to],
           logged' = logged, streak' = streak, givenBack' = givenBack,
           switchSeen' = switchSeen, mTrading' = mTrading, listed' = listed,
           mEnabled' = mEnabled, toggles' = toggles,
           count' \in Int,
           count' <= Cardinality(Past) + Cardinality(Done) + (IF mAt[s] = "queued" THEN 1 ELSE 0)
    PROVE  MarketBounds'
<1>1. /\ Cardinality(Past') = Cardinality(Past) + (IF mAt[s] \in {"waiting", "running"} THEN 0 ELSE 1)
      /\ Cardinality(Done') = Cardinality(Done)
      /\ Cardinality(Past) \in Nat /\ Cardinality(Done) \in Nat
  BY PastMoves, PastFinite, Zenon
<1>2. count' <= Cardinality(Past)' + Cardinality(Done)'
  BY <1>1
<1>3. \A r \in logged' : mAt'[r] = "done"
  BY DEF MarketBounds, MarketInv
<1>4. givenBack' <= Cardinality(Done)'
  BY <1>1 DEF MarketBounds
<1> QED BY <1>2, <1>3, <1>4 DEF MarketBounds

LEMMA GatesBounds ==
    ASSUME MarketInv, MarketBounds, NEW s \in Market!Signal, Market!Gates(s)
    PROVE  MarketBounds'
<1>1. mAt[s] = "queued"
  BY DEF Market!Gates
<1>2. /\ Market!Today \in Nat /\ Market!Today <= Cardinality(Past) + Cardinality(Done)
      /\ count \in Int /\ (count = Market!NoCount \/ count \in Nat)
      /\ count <= Cardinality(Past) + Cardinality(Done)
      /\ Cardinality(Past) \in Nat /\ Cardinality(Done) \in Nat
  BY TodayBound, PastFinite DEF MarketInv, MarketBounds
<1>3. \/ Market!Skip(s, count, FALSE)
      \/ Market!Skip(s, Market!Today, FALSE)
      \/ Market!Skip(s, Market!Today + 1, s \in Market!Opens)
      \/ Market!Skip(s, count, s \in Market!Opens)
      \/ /\ count' \in {Market!Today + 1, count}
         /\ mAt' = [mAt EXCEPT ![s] = "waiting"]
         /\ switchSeen' = switchSeen /\ mTrading' = mTrading /\ listed' = listed
         /\ mEnabled' = mEnabled /\ toggles' = toggles
         /\ logged' = logged /\ streak' = streak /\ givenBack' = givenBack
  BY Zenon DEF Market!Gates, Market!settings
<1>4. CASE Market!Skip(s, count, FALSE) \/ Market!Skip(s, count, s \in Market!Opens)
  <2>1. PICK reserved \in BOOLEAN : Market!Skip(s, count, reserved)
    <3>1. (s \in Market!Opens) \in BOOLEAN
      OBVIOUS
    <3> QED BY <1>4, <3>1, Zenon
  <2> QED BY <1>1, <1>2, <2>1, SkipBounds
<1>5. CASE Market!Skip(s, Market!Today, FALSE)
  <2>1. PICK reserved \in BOOLEAN : Market!Skip(s, Market!Today, reserved)
    BY <1>5, Zenon
  <2>2. Market!Today \in Int
    BY <1>2
  <2> QED BY <1>1, <1>2, <2>1, <2>2, SkipBounds
<1>6. CASE Market!Skip(s, Market!Today + 1, s \in Market!Opens)
  <2>1. /\ Market!Today + 1 \in Int /\ Market!Today + 1 \in Nat
        /\ Market!Today + 1 <= Cardinality(Past) + Cardinality(Done) + 1
    BY <1>2
  <2>2. PICK reserved \in BOOLEAN : Market!Skip(s, Market!Today + 1, reserved)
    <3>1. (s \in Market!Opens) \in BOOLEAN
      OBVIOUS
    <3> QED BY <1>6, <3>1, Zenon
  <2> QED BY <1>1, <2>1, <2>2, SkipBounds
<1>7. CASE /\ count' \in {Market!Today + 1, count}
           /\ mAt' = [mAt EXCEPT ![s] = "waiting"]
           /\ switchSeen' = switchSeen /\ mTrading' = mTrading /\ listed' = listed
           /\ mEnabled' = mEnabled /\ toggles' = toggles
           /\ logged' = logged /\ streak' = streak /\ givenBack' = givenBack
  <2>1. /\ count' \in Int
        /\ count' <= Cardinality(Past) + Cardinality(Done) + 1
    BY <1>2, <1>7
  <2> QED BY <1>1, <1>7, <2>1, MoveBounds, Zenon
<1> QED BY <1>3, <1>4, <1>5, <1>6, <1>7, Zenon

LEMMA BoundsStep == ASSUME MarketInv, MarketBounds, Market!Next PROVE MarketBounds'
<1>0. /\ count \in Int /\ count <= Cardinality(Past) + Cardinality(Done)
      /\ (count = Market!NoCount \/ count \in Nat) /\ givenBack \in Nat
      /\ Cardinality(Past) \in Nat /\ Cardinality(Done) \in Nat
  BY PastFinite DEF MarketInv, MarketBounds
<1>1. ASSUME NEW s \in Market!Signal, Market!Forward(s) PROVE MarketBounds'
  <2>1. /\ mAt[s] = "none" /\ mAt' = [mAt EXCEPT ![s] = "queued"]
        /\ switchSeen' = [switchSeen EXCEPT ![s] = mTrading]
        /\ UNCHANGED <<mTrading, listed, mEnabled, toggles, count, logged, streak, givenBack>>
    BY <1>1 DEF Market!Forward, Market!settings
  <2>2. Past' = Past /\ Done' = Done
    BY <2>1 DEF Past, Done, MarketInv
  <2>3. \A r \in logged' : mAt'[r] = "done"
    BY <2>1 DEF MarketBounds, MarketInv
  <2>4. switchSeen' \in [Market!Signal -> BOOLEAN]
    BY <2>1 DEF MarketBounds
  <2> QED BY <2>1, <2>2, <2>3, <2>4 DEF MarketBounds
<1>2. ASSUME NEW s \in Market!Signal, Market!Lock(s) PROVE MarketBounds'
  <2>1. mAt[s] = "waiting"
    BY <1>2 DEF Market!Lock
  <2>2. CASE Market!Skip(s, count, TRUE)
    <3>1. PICK reserved \in BOOLEAN : Market!Skip(s, count, reserved)
      BY <2>2, Zenon
    <3> QED BY <1>0, <2>1, <3>1, SkipBounds
  <2>3. CASE ~Market!Skip(s, count, TRUE)
    <3>1. /\ mAt' = [mAt EXCEPT ![s] = "running"]
          /\ UNCHANGED <<switchSeen, mTrading, listed, mEnabled, toggles, count, logged, streak, givenBack>>
      BY <1>2, <2>3, Zenon DEF Market!Lock, Market!settings
    <3>2. /\ count' \in Int
          /\ count' <= Cardinality(Past) + Cardinality(Done) + (IF mAt[s] = "queued" THEN 1 ELSE 0)
      BY <1>0, <2>1, <3>1
    <3>3. mAt[s] # "done" /\ "running" \in {"waiting", "running"}
      BY <2>1
    <3> QED BY <3>1, <3>2, <3>3, MoveBounds, Zenon
  <2> QED BY <2>2, <2>3, Zenon
<1>3. ASSUME NEW s \in Market!Signal, Market!Ends(s) PROVE MarketBounds'
  <2>1. PICK status : Market!Noted(s, status, count)
    BY <1>3 DEF Market!Ends
  <2>2. /\ mAt[s] = "running" /\ givenBack' = givenBack + 0
        /\ UNCHANGED <<switchSeen, mTrading, listed, toggles>>
    BY <1>0, <1>3 DEF Market!Ends
  <2> QED BY <1>0, <2>1, <2>2, NotedBounds
<1>4. CASE Market!Toggle
  <2>1. /\ UNCHANGED <<mAt, switchSeen, count, logged, streak, givenBack>>
        /\ toggles < MaxToggles /\ toggles' = toggles + 1
        /\ mTrading' \in BOOLEAN /\ listed' \in BOOLEAN /\ mEnabled' \in BOOLEAN
    BY <1>4, Zenon DEF Market!Toggle, MarketBounds
  <2>2. Past' = Past /\ Done' = Done
    BY <2>1 DEF Past, Done
  <2>3. toggles' \in 0..MaxToggles
    BY <2>1, MarketAssumption DEF MarketBounds
  <2> QED BY <2>1, <2>2, <2>3 DEF MarketBounds
<1>5. CASE Market!Restart
  <2>1. /\ UNCHANGED <<mAt, switchSeen, mTrading, listed, mEnabled, toggles, logged, givenBack>>
        /\ count' = Market!NoCount /\ streak' = 0
    BY <1>5 DEF Market!Restart, Market!settings
  <2>2. Past' = Past /\ Done' = Done
    BY <2>1 DEF Past, Done
  <2>3. count' <= Cardinality(Past)' + Cardinality(Done)'
    BY <1>0, <2>1, <2>2 DEF Market!NoCount
  <2>4. streak' \in 0..(IF MaxErrors = 0 THEN 0 ELSE MaxErrors - 1)
    BY <2>1, MarketAssumption
  <2> QED BY <2>1, <2>2, <2>3, <2>4 DEF MarketBounds
<1> QED BY <1>1, <1>2, <1>3, <1>4, <1>5, GatesBounds DEF Market!Next

LEMMA BoundsStutter == ASSUME MarketBounds, UNCHANGED MarketVars PROVE MarketBounds'
BY DEF MarketBounds, MarketVars, Past, Done

LEMMA MarketTyped == ASSUME MarketInv, MarketBounds PROVE Market!TypeOK
<1>1. /\ Cardinality(Past) <= Cardinality(Market!Signal)
      /\ Cardinality(Done) <= Cardinality(Market!Signal)
      /\ Cardinality(Past) \in Nat /\ Cardinality(Done) \in Nat
      /\ Cardinality(Market!Signal) \in Nat
  BY PastFinite
<1>2. count \in Market!NoCount..2 * Cardinality(Market!Signal)
  BY <1>1 DEF MarketInv, MarketBounds, Market!NoCount
<1>3. givenBack \in 0..Cardinality(Market!Signal)
  BY <1>1 DEF MarketInv, MarketBounds
<1>4. Cardinality({s \in Market!Signal : mAt[s] = "running"}) <= 1
  <2> DEFINE R == {s \in Market!Signal : mAt[s] = "running"}
  <2>1. CASE R = {}
    BY <2>1, FS_EmptySet
  <2>2. CASE R # {}
    <3>1. PICK s \in R : TRUE
      BY <2>2
    <3>2. R = {s}
      BY <3>1 DEF MarketInv
    <3>3. Cardinality(R) = 1
      BY <3>2, FS_Singleton, Zenon
    <3> QED BY <3>3
  <2> QED BY <2>1, <2>2
<1>5. /\ Market!Cardinality(Market!Signal) = Cardinality(Market!Signal)
      /\ Market!Cardinality({s \in Market!Signal : mAt[s] = "running"})
           = Cardinality({s \in Market!Signal : mAt[s] = "running"})
  BY MarketCount
<1> QED BY <1>2, <1>3, <1>4, <1>5 DEF Market!TypeOK, MarketInv, MarketBounds

-----------------------------------------------------------------------------
(* The types of Payments.                                                 *)

\* A billing period runs while the subscription lives, and each session was asked for.
RowType == [st : {"none", "pending", "unpaid", "canceled"} \cup Paid!LIVE, sub : BOOLEAN,
            id : 0..MaxEvents, t : 0..MaxEvents + 1, period : 0..MaxPeriods,
            rev : 0..Paid!Forever]

StripeTypes ==
    /\ pLive \in {"none"} \cup Paid!LIVE \cup {"canceled"} /\ period \in 0..MaxPeriods
    /\ pLive \in Paid!LIVE => period > 0
    /\ refunded \subseteq 1..MaxPeriods
    /\ pNow <= Cardinality(sent) + 1 /\ Cardinality(sent) <= MaxEvents
    /\ sent \subseteq Paid!Event

Standing ==
    /\ sub \in {"none", "unpaid", "pending", "active", "paused"}
    /\ priced \in BOOLEAN /\ leaving \in BOOLEAN

Sessions ==
    /\ asking \in Nat /\ asked \in 0..MaxCheckouts /\ pOpen \in Nat /\ asking + pOpen <= asked

PaidTypes == StripeTypes /\ row \in RowType /\ Standing /\ Sessions

LEMMA PaidNumbers == MaxEvents \in Nat /\ MaxPeriods \in Nat /\ MaxPeriods > 0 /\ MaxCheckouts \in Nat
                     /\ Paid!Forever = MaxPeriods + 1
BY PaidAssumption DEF Paid!Forever

LEMMA TypesInit == ASSUME Paid!Init PROVE PaidTypes
<1>1. Cardinality(sent) = 0
  BY FS_EmptySet DEF Paid!Init
<1>2. StripeTypes
  BY <1>1, PaidNumbers DEF Paid!Init, StripeTypes, Paid!LIVE, Paid!PAID
<1>3. row \in RowType
  BY PaidNumbers DEF Paid!Init, RowType
<1>4. Standing
  BY Zenon DEF Paid!Init, Standing
<1>5. Sessions
  BY PaidNumbers DEF Paid!Init, Sessions
<1> QED BY <1>2, <1>3, <1>4, <1>5 DEF PaidTypes

\* What Stripe sends is one event more, of its time.
LEMMA SendTypes ==
    ASSUME PaidInv, PaidTypes, NEW kind \in {"checkout", "sub", "failed", "refund"},
           NEW status \in Paid!LIVE \cup {"canceled"}, NEW p \in 0..MaxPeriods,
           Paid!Send(kind, status, p)
    PROVE  /\ pNow' <= Cardinality(sent') + 1 /\ Cardinality(sent') <= MaxEvents
           /\ sent' \subseteq Paid!Event
<1> DEFINE x == [n |-> Cardinality(sent) + 1, t |-> pNow', kind |-> kind, status |-> status,
                 period |-> p]
<1>1. /\ Cardinality(sent) < MaxEvents /\ pNow' \in {pNow, pNow + 1} /\ sent' = sent \cup {x}
  BY PaidCount DEF Paid!Send
<1>2. Cardinality(sent) \in Nat /\ IsFiniteSet(sent)
  BY FS_CardinalityType DEF PaidInv
<1>3. x.n = Cardinality(sent) + 1
  OBVIOUS
<1>4. pNow \in Nat /\ pNow > 0 /\ pNow <= Cardinality(sent) + 1
  BY DEF PaidInv, PaidTypes, StripeTypes
<1>5. x \in Paid!Event
  <2>1. Cardinality(sent) + 1 \in 1..MaxEvents /\ pNow' \in 1..MaxEvents + 1
    BY <1>1, <1>2, <1>4, PaidNumbers
  <2> QED BY <2>1 DEF Paid!Event
<1> HIDE DEF x
<1>6. x \notin sent
  BY <1>2, <1>3 DEF PaidInv
<1>7. Cardinality(sent') = Cardinality(sent) + 1
  BY <1>1, <1>2, <1>6, FS_AddElement, Zenon
<1> QED BY <1>1, <1>2, <1>4, <1>5, <1>7, PaidNumbers DEF PaidTypes, StripeTypes

LEMMA PaysTypes == ASSUME PaidInv, PaidTypes, Paid!Pays PROVE PaidTypes'
<1>1. /\ pLive' = "active" /\ period' = 1 /\ refunded' = refunded /\ row' = row /\ sub' = sub
      /\ UNCHANGED <<priced, asking, asked, pOpen, leaving>>
      /\ (Paid!Send("checkout", "active", 0) \/ Paid!Send("sub", "active", 1))
  BY DEF Paid!Pays, Paid!shop
<1>2. /\ pNow' <= Cardinality(sent') + 1 /\ Cardinality(sent') <= MaxEvents
      /\ sent' \subseteq Paid!Event
  BY <1>1, PaidNumbers, SendTypes DEF Paid!LIVE, Paid!PAID
<1>3. StripeTypes'
  <2>1. /\ pLive' \in {"none"} \cup Paid!LIVE \cup {"canceled"} /\ period' > 0
        /\ period' \in 0..MaxPeriods
    BY <1>1, PaidNumbers DEF Paid!LIVE, Paid!PAID
  <2>2. refunded' \subseteq 1..MaxPeriods
    BY <1>1 DEF PaidTypes, StripeTypes
  <2> QED BY <1>2, <2>1, <2>2 DEF StripeTypes
<1>4. Standing' /\ Sessions'
  BY <1>1, Zenon DEF PaidTypes, Standing, Sessions
<1> QED BY <1>1, <1>3, <1>4 DEF PaidTypes

LEMMA BillsTypes == ASSUME PaidInv, PaidTypes, Paid!Bills PROVE PaidTypes'
<1>1. /\ row' = row /\ sub' = sub
      /\ UNCHANGED <<priced, asking, asked, pOpen, leaving>>
      /\ pLive \in Paid!LIVE
  BY DEF Paid!Bills, Paid!shop
<1>2. period \in 1..MaxPeriods
  BY <1>1, PaidNumbers DEF PaidTypes, StripeTypes
<1>3. \/ /\ pLive' = "active" /\ period' \in {period, period + 1} /\ period' <= MaxPeriods
         /\ refunded' = refunded /\ Paid!Send("sub", pLive', period')
      \/ /\ pLive' = "past_due" /\ period' = period /\ refunded' = refunded
         /\ (Paid!Send("sub", pLive', period) \/ Paid!Send("failed", pLive', period))
      \/ /\ pLive' = "canceled" /\ period' = period /\ refunded' = refunded
         /\ Paid!Send("sub", pLive', period)
      \/ /\ pLive = "active" /\ pLive' = pLive /\ period' = period
         /\ refunded' = refunded \cup {period} /\ Paid!Send("refund", pLive, period)
  BY DEF Paid!Bills
<1>4. /\ pLive' \in Paid!LIVE \cup {"canceled"} /\ period' \in 1..MaxPeriods
      /\ refunded' \subseteq 1..MaxPeriods
  <2>1. /\ pLive' \in {"active", "past_due", "canceled", pLive}
        /\ period' \in {period, period + 1} /\ (period' = period \/ period' <= MaxPeriods)
        /\ refunded' \subseteq refunded \cup {period}
    BY <1>3
  <2>2. refunded \subseteq 1..MaxPeriods
    BY DEF PaidTypes, StripeTypes
  <2>3. pLive' \in Paid!LIVE \cup {"canceled"}
    BY <1>1, <2>1 DEF Paid!LIVE, Paid!PAID
  <2> QED BY <1>2, <2>1, <2>2, <2>3, PaidNumbers
<1>5. \E kind \in {"checkout", "sub", "failed", "refund"}, status \in Paid!LIVE \cup {"canceled"},
         p \in 0..MaxPeriods : Paid!Send(kind, status, p)
  <2>1. period' \in 0..MaxPeriods /\ period \in 0..MaxPeriods
    BY <1>2, <1>4
  <2> QED BY <1>1, <1>3, <1>4, <2>1
<1>6. /\ pNow' <= Cardinality(sent') + 1 /\ Cardinality(sent') <= MaxEvents
      /\ sent' \subseteq Paid!Event
  BY <1>5, SendTypes
<1>7. StripeTypes'
  BY <1>4, <1>6 DEF StripeTypes
<1>8. Standing' /\ Sessions'
  BY <1>1, Zenon DEF PaidTypes, Standing, Sessions
<1> QED BY <1>1, <1>7, <1>8 DEF PaidTypes

\* The row an event leaves.
LEMMA AfterTypes ==
    ASSUME PaidTypes, NEW e \in sent
    PROVE  Paid!After(e) \in RowType
<1> DEFINE r == Paid!StampedRow(e, row)
<1>0. /\ e.n \in 0..MaxEvents /\ e.t \in 0..MaxEvents + 1 /\ e.period \in 0..MaxPeriods
      /\ e.status \in Paid!LIVE \cup {"canceled"} /\ e.kind \in Kinds
  <2>1. e \in Paid!Event
    BY DEF PaidTypes, StripeTypes
  <2> QED BY <2>1, PaidNumbers DEF Paid!Event, Kinds
<1>1. row \in RowType
  BY DEF PaidTypes
<1>2. r \in RowType
  BY <1>0, <1>1, Zenon DEF Paid!StampedRow, RowType
<1>3. row.st \in {"none", "pending", "unpaid", "canceled"} \cup Paid!LIVE
      /\ row.period \in 0..MaxPeriods /\ row.rev \in 0..Paid!Forever
  BY <1>1 DEF RowType
<1> HIDE DEF r
<1>4. CASE e.kind = "checkout"
  <2> DEFINE st == IF row.st \in {"none", "pending", "unpaid", "canceled"} THEN "active" ELSE row.st
  <2>1. Paid!After(e) = [r EXCEPT !.sub = TRUE, !.st = st]
    BY <1>4 DEF Paid!After, r
  <2>2. st \in {"none", "pending", "unpaid", "canceled"} \cup Paid!LIVE
    BY <1>3 DEF Paid!LIVE, Paid!PAID
  <2> HIDE DEF st
  <2> QED BY <1>2, <2>1, <2>2, Zenon DEF RowType
<1>5. CASE e.kind = "sub"
  <2> DEFINE st == IF Paid!Withdrawn(e) THEN "unpaid" ELSE e.status
             rev == IF e.status \in Paid!PAID /\ ~Paid!Withdrawn(e) THEN 0 ELSE row.rev
  <2>1. Paid!After(e) = [r EXCEPT !.sub = TRUE, !.period = e.period, !.st = st, !.rev = rev]
    BY <1>5 DEF Paid!After, r
  <2>2. st \in {"none", "pending", "unpaid", "canceled"} \cup Paid!LIVE
    BY <1>0
  <2>3. rev \in 0..Paid!Forever
    BY <1>3, PaidNumbers
  <2> HIDE DEF st, rev
  <2> QED BY <1>0, <1>2, <2>1, <2>2, <2>3, Zenon DEF RowType
<1>6. CASE e.kind = "failed"
  <2>1. Paid!After(e) = [r EXCEPT !.st = "past_due"]
    BY <1>6 DEF Paid!After, r
  <2> QED BY <1>2, <2>1 DEF RowType, Paid!LIVE
<1>7. CASE e.kind = "refund"
  <2> DEFINE rev == IF row.period = 0 THEN Paid!Forever ELSE row.period
  <2>1. Paid!After(e) = [r EXCEPT !.st = "unpaid", !.rev = rev]
    BY <1>7 DEF Paid!After, r
  <2>2. rev \in 0..Paid!Forever
    BY <1>3, PaidNumbers
  <2> HIDE DEF rev
  <2> QED BY <1>2, <2>1, <2>2, Zenon DEF RowType
<1> QED BY <1>0, <1>4, <1>5, <1>6, <1>7 DEF Kinds

LEMMA DeliverTypes == ASSUME PaidTypes, NEW e \in sent, Paid!Deliver(e) PROVE PaidTypes'
<1>1. /\ UNCHANGED <<pLive, period, refunded, pNow, sent>>
      /\ UNCHANGED <<priced, asking, asked, pOpen, leaving>>
      /\ \/ row' = row /\ sub' = sub
         \/ row' = Paid!After(e) /\ sub' = Paid!Followed(row'.st)
  BY DEF Paid!Deliver, Paid!stripe, Paid!shop
<1>2. row' \in RowType
  BY <1>1, AfterTypes DEF PaidTypes
<1>3. sub' \in {"none", "unpaid", "pending", "active", "paused"}
  BY <1>1 DEF PaidTypes, Standing, Paid!Followed
<1>4. StripeTypes'
  BY <1>1, Zenon DEF PaidTypes, StripeTypes
<1>5. Standing'
  BY <1>1, <1>3, Zenon DEF PaidTypes, Standing
<1>6. Sessions'
  BY <1>1, Zenon DEF PaidTypes, Sessions
<1> QED BY <1>2, <1>4, <1>5, <1>6 DEF PaidTypes

LEMMA ShopKeepsTypes ==
    ASSUME PaidTypes, \/ Paid!Subscribe \/ Paid!AskCheckout \/ Paid!Leave
                      \/ Paid!Publisher \/ Paid!TurnPaid \/ Paid!CheckoutMade
    PROVE  PaidTypes'
<1>1. /\ UNCHANGED <<pLive, period, refunded, pNow, sent>>
      /\ (row' = row \/ row' = [row EXCEPT !.st = "pending"])
  BY DEF Paid!Subscribe, Paid!AskCheckout, Paid!Leave, Paid!Publisher, Paid!TurnPaid,
     Paid!CheckoutMade, Paid!stripe
<1>2. StripeTypes'
  BY <1>1, Zenon DEF PaidTypes, StripeTypes
<1>3. row' \in RowType
  BY <1>1 DEF PaidTypes, RowType
<1>4. Sessions'
  <2>1. \/ UNCHANGED <<asking, asked, pOpen>>
        \/ asked < MaxCheckouts /\ asked' = asked + 1 /\ asking' = asking + 1 /\ pOpen' = pOpen
        \/ asking > 0 /\ asking' = asking - 1 /\ pOpen' \in {pOpen, pOpen + 1} /\ asked' = asked
    BY DEF Paid!Subscribe, Paid!AskCheckout, Paid!Leave, Paid!Publisher, Paid!TurnPaid,
       Paid!CheckoutMade, Paid!shop
  <2> QED BY <2>1, PaidNumbers DEF PaidTypes, Sessions
<1>5. sub' \in {"none", "unpaid", "pending", "active", "paused"}
  <2>1. sub' \in {sub, "none", "unpaid", "pending", "active", "paused"}
    BY DEF Paid!Subscribe, Paid!AskCheckout, Paid!Leave, Paid!Publisher, Paid!TurnPaid,
       Paid!CheckoutMade
  <2> QED BY <2>1 DEF PaidTypes, Standing
<1>6. priced' \in BOOLEAN /\ leaving' \in BOOLEAN
  BY Zenon DEF Paid!Subscribe, Paid!AskCheckout, Paid!Leave, Paid!Publisher, Paid!TurnPaid,
     Paid!CheckoutMade, Paid!shop, PaidTypes, Standing
<1> QED BY <1>2, <1>3, <1>4, <1>5, <1>6 DEF PaidTypes, Standing

LEMMA LeftTypes == ASSUME PaidInv, PaidTypes, Paid!Left PROVE PaidTypes'
<1>1. /\ UNCHANGED <<priced, asking, asked, pOpen>> /\ leaving' = FALSE
      /\ (sub' = sub \/ sub' = "none")
      /\ (row' = row \/ row' = [row EXCEPT !.st = "canceled"])
  BY DEF Paid!Left
<1>2. Standing' /\ Sessions'
  BY <1>1, Zenon DEF PaidTypes, Standing, Sessions
<1>3. row' \in RowType
  BY <1>1 DEF PaidTypes, RowType
<1>4. \/ UNCHANGED <<pLive, period, refunded, pNow, sent>>
      \/ /\ pLive' = "canceled" /\ period' = period /\ refunded' = refunded
         /\ Paid!Send("sub", "canceled", period)
  BY DEF Paid!Left, Paid!stripe
<1>5. CASE UNCHANGED <<pLive, period, refunded, pNow, sent>>
  <2>1. StripeTypes'
    BY <1>5, Zenon DEF PaidTypes, StripeTypes
  <2> QED BY <1>2, <1>3, <2>1 DEF PaidTypes
<1>6. CASE /\ pLive' = "canceled" /\ period' = period /\ refunded' = refunded
           /\ Paid!Send("sub", "canceled", period)
  <2>1. period \in 0..MaxPeriods
    BY DEF PaidTypes, StripeTypes
  <2>2. /\ pNow' <= Cardinality(sent') + 1 /\ Cardinality(sent') <= MaxEvents
        /\ sent' \subseteq Paid!Event
    BY <1>6, <2>1, SendTypes
  <2>3. /\ pLive' \in {"none"} \cup Paid!LIVE \cup {"canceled"} /\ pLive' \notin Paid!LIVE
        /\ period' \in 0..MaxPeriods /\ refunded' \subseteq 1..MaxPeriods
    BY <1>6 DEF PaidTypes, StripeTypes, Paid!LIVE, Paid!PAID
  <2>4. StripeTypes'
    BY <2>2, <2>3 DEF StripeTypes
  <2> QED BY <1>2, <1>3, <2>4 DEF PaidTypes
<1> QED BY <1>4, <1>5, <1>6

LEMMA PaidTypesStep == ASSUME PaidInv, PaidTypes, Paid!Next PROVE PaidTypes'
BY PaysTypes, BillsTypes, DeliverTypes, ShopKeepsTypes, LeftTypes DEF Paid!Next

LEMMA PaidTypesStutter == ASSUME PaidTypes, UNCHANGED PaidVars PROVE PaidTypes'
BY DEF PaidTypes, StripeTypes, Standing, Sessions, PaidVars

LEMMA PaidTyped == ASSUME PaidInv, PaidTypes PROVE Paid!TypeOK
<1>1. pNow \in 1..MaxEvents + 1
  <2>1. Cardinality(sent) \in Nat
    BY FS_CardinalityType DEF PaidInv
  <2> QED BY <2>1, PaidNumbers DEF PaidInv, PaidTypes, StripeTypes
<1>2. asking \in 0..MaxCheckouts /\ pOpen \in 0..MaxCheckouts
  BY PaidNumbers DEF PaidTypes, Sessions
<1> QED BY <1>1, <1>2 DEF Paid!TypeOK, PaidInv, PaidTypes, StripeTypes, Standing, Sessions, RowType

-----------------------------------------------------------------------------
(* The types of Automations.                                              *)

RulesTypes ==
    /\ event \in [Rule -> Rules!Kinds] /\ action \in [Rule -> Rules!Actions]
    /\ aEnabled \in [Rule -> BOOLEAN]
    /\ aTrading \in BOOLEAN /\ locked \in {"no", "guard", "automation"}
    /\ aNow \in 0..MaxTime /\ \A r \in Rule : lastFired[r] \in Rules!Never..MaxTime
    \* every task was started by one event
    /\ Len(runs) <= started /\ started <= MaxRuns

LEMMA RuleTimes ==
    /\ MaxTime \in Nat /\ MaxRuns \in Nat /\ Cooldown \in Nat /\ Rules!Never = 0 - Cooldown
    /\ Retry \in Nat /\ Retry <= Cooldown
BY RuleNumbers, RulesAssumption DEF Rules!Never

LEMMA RulesTypesInit == ASSUME Rules!Init PROVE RulesTypes
<1>1. /\ aEnabled \in [Rule -> BOOLEAN] /\ aTrading \in BOOLEAN
      /\ event \in [Rule -> Rules!Kinds] /\ action \in [Rule -> Rules!Actions]
      /\ locked \in {"no", "guard", "automation"}
  BY Zenon DEF Rules!Init
<1>2. Len(runs) = 0
  BY EmptySeq DEF Rules!Init
<1> QED BY <1>1, <1>2, RuleTimes DEF RulesTypes, Rules!Init

\* A task begins with an event and none begins otherwise.
LEMMA EventTypes ==
    ASSUME RulesInv, RulesTypes, NEW kind, Rules!OnEvent(kind)
    PROVE  /\ \A r \in Rule : lastFired'[r] \in Rules!Never..MaxTime
           /\ Len(runs') <= started' /\ started' <= MaxRuns
<1>1. CASE Rules!Hits(kind) = {}
  BY <1>1 DEF Rules!OnEvent, RulesTypes
<1>2. CASE Rules!Hits(kind) # {}
  <2> DEFINE run == [rules |-> Rules!SetToSeq(Rules!Hits(kind)), acting |-> FALSE]
  <2>1. /\ started < MaxRuns /\ started' = started + 1
        /\ lastFired' = [r \in Rule |-> IF r \in Rules!Hits(kind) THEN aNow ELSE lastFired[r]]
        /\ runs' = Append(runs, run)
    BY <1>2 DEF Rules!OnEvent, Rules!Reserve
  <2> HIDE DEF run
  <2>2. Rules!Hits(kind) \in SUBSET Rule
    BY DEF Rules!Hits
  <2>3. run \in RunOf
    BY <1>2, <2>2, HitSequence DEF run, RunOf
  <2>4. Len(runs') = Len(runs) + 1 /\ Len(runs) \in Nat
    BY <2>1, <2>3, AppendProperties DEF RulesInv
  <2>5. \A r \in Rule : lastFired'[r] \in Rules!Never..MaxTime
    BY <2>1, RuleTimes DEF RulesTypes
  <2> QED BY <2>1, <2>4, <2>5, RuleTimes DEF RulesTypes, RulesInv
<1> QED BY <1>1, <1>2

\* A rule that is done may end its task.
LEMMA RestTypes ==
    ASSUME RulesInv, RulesTypes, NEW i \in DOMAIN runs, NEW failed \in BOOLEAN,
           lastFired' = Rules!Charged(Head(runs[i].rules), failed), runs' = Rules!Rest(i),
           started' = started
    PROVE  /\ \A r \in Rule : lastFired'[r] \in Rules!Never..MaxTime
           /\ Len(runs') <= started' /\ started' <= MaxRuns
<1>1. runs \in Seq(RunOf) /\ DOMAIN runs = 1..Len(runs) /\ Len(runs) \in Nat
  BY DEF RulesInv
<1>2. Len(runs') <= Len(runs) /\ Len(runs') \in Nat
  <2>1. CASE Len(runs[i].rules) = 1
    <3>1. runs' = SubSeq(runs, 1, i - 1) \o SubSeq(runs, i + 1, Len(runs))
      BY <2>1 DEF Rules!Rest, Rules!RemoveAt
    <3>2. /\ SubSeq(runs, 1, i - 1) \in Seq(RunOf) /\ Len(SubSeq(runs, 1, i - 1)) = i - 1
      <4>1. \A k \in 1..(i - 1) : runs[k] \in RunOf
        BY <1>1
      <4> QED BY <1>1, <4>1, SubSeqProperties
    <3>3. /\ SubSeq(runs, i + 1, Len(runs)) \in Seq(RunOf)
          /\ Len(SubSeq(runs, i + 1, Len(runs))) = Len(runs) - i
      <4>1. \A k \in (i + 1)..Len(runs) : runs[k] \in RunOf
        BY <1>1
      <4> QED BY <1>1, <4>1, SubSeqProperties
    <3>4. Len(runs') = (i - 1) + (Len(runs) - i)
      BY <3>1, <3>2, <3>3, ConcatProperties
    <3> QED BY <1>1, <3>4
  <2>2. CASE Len(runs[i].rules) # 1
    <3>1. runs' = [runs EXCEPT ![i] = [rules |-> Tail(runs[i].rules), acting |-> FALSE]]
      BY <2>2 DEF Rules!Rest
    <3>2. runs' \in Seq(RunOf)
      BY RestRuns
    <3>3. DOMAIN runs' = DOMAIN runs
      BY <3>1
    <3> QED BY <1>1, <3>2, <3>3
  <2> QED BY <2>1, <2>2
<1>3. ASSUME NEW r \in Rule PROVE lastFired'[r] \in Rules!Never..MaxTime
  <2>1. lastFired' = [lastFired EXCEPT ![Head(runs[i].rules)] =
                        IF failed THEN aNow - (Cooldown - Retry) ELSE aNow]
    BY DEF Rules!Charged
  <2>2. lastFired'[r] \in {lastFired[r], aNow, aNow - (Cooldown - Retry)}
    BY <1>3, <2>1 DEF RulesInv
  <2> QED BY <1>3, <2>2, RuleTimes DEF RulesTypes
<1> QED BY <1>1, <1>2, <1>3 DEF RulesTypes, RulesInv

LEMMA RulesTypesStep == ASSUME RulesInv, RulesTypes, Rules!Next PROVE RulesTypes'
<1>1. /\ event' = event /\ action' = action
      /\ aEnabled' \in [Rule -> BOOLEAN] /\ aTrading' \in BOOLEAN
  <2>1. event' = event /\ action' = action
    BY Zenon DEF Rules!Next, Rules!ConnectionLost, Rules!WatchTick, Rules!Opens, Rules!StopFills,
       Rules!GuardLocks, Rules!Tick, Rules!SwitchRule, Rules!BeginAction, Rules!AlertSent,
       Rules!Flattened, Rules!ActionFails, Rules!settings
  <2>2. aEnabled' = aEnabled \/ \E r \in Rule : aEnabled' = [aEnabled EXCEPT ![r] = FALSE]
    BY Zenon DEF Rules!Next, Rules!ConnectionLost, Rules!WatchTick, Rules!Opens, Rules!StopFills,
       Rules!GuardLocks, Rules!Tick, Rules!SwitchRule, Rules!BeginAction, Rules!AlertSent,
       Rules!Flattened, Rules!ActionFails, Rules!settings
  <2>3. aTrading' = aTrading \/ \E a : aTrading' = (aTrading /\ a # "trading_off")
    BY Zenon DEF Rules!Next, Rules!ConnectionLost, Rules!WatchTick, Rules!Opens, Rules!StopFills,
       Rules!GuardLocks, Rules!Tick, Rules!SwitchRule, Rules!BeginAction, Rules!AlertSent,
       Rules!Flattened, Rules!ActionFails
  <2>4. aEnabled' \in [Rule -> BOOLEAN]
    BY <2>2, Zenon DEF RulesTypes
  <2>5. aTrading' \in BOOLEAN
    BY <2>3, Zenon DEF RulesTypes
  <2> QED BY <2>1, <2>4, <2>5
<1>2. locked' \in {"no", "guard", "automation"}
  <2>1. locked' \in {locked, "guard", "automation"}
    BY Zenon DEF Rules!Next, Rules!ConnectionLost, Rules!WatchTick, Rules!Opens, Rules!StopFills,
       Rules!GuardLocks, Rules!Tick, Rules!SwitchRule, Rules!BeginAction, Rules!AlertSent,
       Rules!Flattened, Rules!ActionFails
  <2> QED BY <2>1 DEF RulesTypes
<1>3. aNow' \in 0..MaxTime
  <2>1. aNow' = aNow \/ (aNow < MaxTime /\ aNow' = aNow + 1)
    BY Zenon DEF Rules!Next, Rules!ConnectionLost, Rules!WatchTick, Rules!Opens, Rules!StopFills,
       Rules!GuardLocks, Rules!Tick, Rules!SwitchRule, Rules!BeginAction, Rules!AlertSent,
       Rules!Flattened, Rules!ActionFails
  <2> QED BY <2>1, RuleTimes DEF RulesTypes
<1>4. ASSUME UNCHANGED <<lastFired, started>>, Len(runs') = Len(runs)
      PROVE  /\ \A r \in Rule : lastFired'[r] \in Rules!Never..MaxTime
             /\ Len(runs') <= started' /\ started' <= MaxRuns
  BY <1>4 DEF RulesTypes
<1>5. /\ \A r \in Rule : lastFired'[r] \in Rules!Never..MaxTime
      /\ Len(runs') <= started' /\ started' <= MaxRuns
  <2>1. CASE Rules!ConnectionLost
    BY <2>1, EventTypes DEF Rules!ConnectionLost
  <2>2. CASE Rules!WatchTick
    <3>1. UNCHANGED <<lastFired, runs, started>> \/ Rules!OnEvent("position.closed")
      BY <2>2, Zenon DEF Rules!WatchTick
    <3> QED BY <1>4, <3>1, EventTypes
  <2>3. CASE Rules!Opens \/ Rules!StopFills \/ Rules!GuardLocks \/ Rules!Tick
             \/ \E r \in Rule : Rules!SwitchRule(r)
    <3>1. UNCHANGED <<lastFired, runs, started>>
      BY <2>3, Zenon DEF Rules!Opens, Rules!StopFills, Rules!GuardLocks, Rules!Tick, Rules!SwitchRule
    <3> QED BY <1>4, <3>1
  <2>4. ASSUME NEW i \in DOMAIN runs, Rules!BeginAction(i)
        PROVE  /\ \A r \in Rule : lastFired'[r] \in Rules!Never..MaxTime
               /\ Len(runs') <= started' /\ started' <= MaxRuns
    <3>1. runs' = [runs EXCEPT ![i].acting = TRUE] /\ UNCHANGED <<lastFired, started>>
      BY <2>4 DEF Rules!BeginAction
    <3>2. runs' \in Seq(RunOf) /\ DOMAIN runs' = DOMAIN runs /\ runs \in Seq(RunOf)
      BY <2>4, <3>1, ActingRun, Zenon DEF RulesInv
    <3>3. Len(runs') = Len(runs)
      BY <3>2
    <3> QED BY <1>4, <3>1, <3>3
  <2>5. ASSUME NEW i \in DOMAIN runs, Rules!AlertSent(i) \/ Rules!Flattened(i) \/ Rules!ActionFails(i)
        PROVE  /\ \A r \in Rule : lastFired'[r] \in Rules!Never..MaxTime
               /\ Len(runs') <= started' /\ started' <= MaxRuns
    <3>1. /\ \E failed \in BOOLEAN : lastFired' = Rules!Charged(Head(runs[i].rules), failed)
          /\ runs' = Rules!Rest(i) /\ started' = started
      BY <2>5, Zenon DEF Rules!AlertSent, Rules!Flattened, Rules!ActionFails
    <3> QED BY <2>5, <3>1, RestTypes
  <2> QED BY <2>1, <2>2, <2>3, <2>4, <2>5 DEF Rules!Next
<1> QED BY <1>1, <1>2, <1>3, <1>5, Zenon DEF RulesTypes

LEMMA RulesTypesStutter == ASSUME RulesTypes, UNCHANGED RulesVars PROVE RulesTypes'
BY Zenon DEF RulesTypes, RulesVars

LEMMA RulesTyped == ASSUME RulesInv, RulesTypes PROVE Rules!TypeOK
<1>1. lastFired \in [Rule -> Rules!Never..MaxTime]
  BY DEF RulesInv, RulesTypes
<1>2. Len(runs) <= MaxRuns
  BY RuleTimes DEF RulesInv, RulesTypes
<1>3. ASSUME NEW i \in DOMAIN runs PROVE runs[i].rules \in Seq(Rule) /\ runs[i].acting \in BOOLEAN
  <2>1. runs[i] \in RunOf
    BY <1>3 DEF RulesInv
  <2>2. runs[i].acting \in BOOLEAN
    BY <2>1, Zenon DEF RunOf
  <2> QED BY <2>1, <2>2 DEF RunOf
<1> QED BY <1>1, <1>2, <1>3, Zenon DEF Rules!TypeOK, RulesTypes

-----------------------------------------------------------------------------
(* The types of Backups.                                                  *)

\* The places of the threads, of the job and of the start, and what the live file was.
PlacesOk ==
    /\ pool \in {"idle", "written", "rotated"} /\ look \in {"idle", "list", "delete"}
    /\ job \in {"none", "update", "snapshot", "fetch", "reset", "undo", "rollback",
                "requirements", "done"}
    /\ due \in BOOLEAN /\ back \in {"old", "new"}
    /\ code \in {"old", "new"} /\ deps \in {"old", "new", "mixed"}
    /\ up \in {"running", "restarting", "starting", "copying", "replacing"}
    /\ kept.has \subseteq kept.of

\* The snapshots made, and those a marker or a point of return names, are within the bound.
NumbersOk ==
    /\ DOMAIN snaps \subseteq 1..MaxSnaps
    /\ marker \in 0..MaxSnaps /\ point \in -1..MaxSnaps

BackupTypes == PlacesOk /\ NumbersOk

LEMMA BackupTypesInit == ASSUME Backup!Init PROVE BackupTypes
<1>1. DOMAIN snaps = {} /\ MaxSnaps \in Nat
  BY BackupAssumption DEF Backup!Init
<1>2. PlacesOk
  BY DEF Backup!Init, PlacesOk, Backup!NoCopy
<1>3. NumbersOk
  BY <1>1 DEF Backup!Init, NumbersOk
<1> QED BY <1>2, <1>3 DEF BackupTypes

LEMMA PlacesStep == ASSUME PlacesOk, Backup!Next PROVE PlacesOk'
<1>1. pool' \in {"idle", "written", "rotated", pool} /\ look' \in {"idle", "list", "delete", look}
  BY DEF Backup!Next, Backup!Commit, Backup!Checkpoint, Backup!Snapshot, Backup!RotateFiles,
     Backup!SaveIndex, Backup!ListReads, Backup!ListEnds, Backup!DeleteReads, Backup!DeleteEnds,
     Backup!UpdateBegins, Backup!CheckoutMoves, Backup!RequirementsOfUpdate, Backup!UpdateUndone,
     Backup!RollbackBegins, Backup!RollbackInstalls, Backup!RollbackEnds, Backup!Restart,
     Backup!Die, Backup!Gone, Backup!RestoreBegins, Backup!KeepLive, Backup!RestoreEnds, Backup!StartsPlain,
     Backup!Unchanged, Backup!thread, Backup!request
<1>2. /\ job' \in {"none", "snapshot", "fetch", "reset", "undo", "rollback", "requirements",
                   "done", job}
      /\ code' \in {"new", back, code} /\ deps' \in {"mixed", code, code', back, deps}
      /\ back' \in {back, code}
  BY DEF Backup!Next, Backup!Commit, Backup!Checkpoint, Backup!Snapshot, Backup!RotateFiles,
     Backup!SaveIndex, Backup!ListReads, Backup!ListEnds, Backup!DeleteReads, Backup!DeleteEnds,
     Backup!UpdateBegins, Backup!CheckoutMoves, Backup!RequirementsOfUpdate, Backup!UpdateUndone,
     Backup!RollbackBegins, Backup!RollbackInstalls, Backup!RollbackEnds, Backup!Restart,
     Backup!Die, Backup!Gone, Backup!RestoreBegins, Backup!KeepLive, Backup!RestoreEnds, Backup!StartsPlain,
     Backup!tree, Backup!return, Backup!Unchanged
<1>3. /\ up' \in {"running", "starting", "copying", "replacing", up}
      /\ kept' \in {kept, [has |-> main, of |-> main \cup wal]}
  BY DEF Backup!Next, Backup!Commit, Backup!Checkpoint, Backup!Snapshot, Backup!RotateFiles,
     Backup!SaveIndex, Backup!ListReads, Backup!ListEnds, Backup!DeleteReads, Backup!DeleteEnds,
     Backup!UpdateBegins, Backup!CheckoutMoves, Backup!RequirementsOfUpdate, Backup!UpdateUndone,
     Backup!RollbackBegins, Backup!RollbackInstalls, Backup!RollbackEnds, Backup!Restart,
     Backup!Die, Backup!Gone, Backup!RestoreBegins, Backup!KeepLive, Backup!RestoreEnds, Backup!StartsPlain,
     Backup!Unchanged, Backup!database
<1>8. due' \in {due, TRUE, FALSE}
  BY Zenon DEF Backup!Next, Backup!Commit, Backup!Checkpoint, Backup!Snapshot, Backup!RotateFiles,
     Backup!SaveIndex, Backup!ListReads, Backup!ListEnds, Backup!DeleteReads, Backup!DeleteEnds,
     Backup!UpdateBegins, Backup!CheckoutMoves, Backup!RequirementsOfUpdate, Backup!UpdateUndone,
     Backup!RollbackBegins, Backup!RollbackInstalls, Backup!RollbackEnds, Backup!Restart,
     Backup!Die, Backup!Gone, Backup!RestoreBegins, Backup!KeepLive, Backup!RestoreEnds,
     Backup!StartsPlain
<1>9. due' \in BOOLEAN
  BY <1>8, Zenon DEF PlacesOk
<1>4. kept'.has \subseteq kept'.of
  BY <1>3 DEF PlacesOk
<1>5. pool' \in {"idle", "written", "rotated"} /\ look' \in {"idle", "list", "delete"}
  BY <1>1 DEF PlacesOk
<1>6. /\ job' \in {"none", "update", "snapshot", "fetch", "reset", "undo", "rollback",
                   "requirements", "done"}
      /\ back' \in {"old", "new"}
      /\ code' \in {"old", "new"} /\ deps' \in {"old", "new", "mixed"}
  BY <1>2 DEF PlacesOk
<1>7. up' \in {"running", "restarting", "starting", "copying", "replacing"}
  BY <1>3 DEF PlacesOk
<1> QED BY <1>4, <1>5, <1>6, <1>7, <1>9 DEF PlacesOk

LEMMA NumbersStep == ASSUME BackupInv, NumbersOk, Backup!Next PROVE NumbersOk'
<1>1. PICK k \in Nat : DOMAIN snaps = 1..k
  BY DEF BackupInv, RowsInv
<1>2. Backup!Cardinality(Backup!Made) = k
  BY <1>1, MadeCount DEF Backup!Made
<1>3. k <= MaxSnaps /\ MaxSnaps \in Nat
  <2>1. MaxSnaps \in Nat
    BY BackupAssumption
  <2>2. CASE k = 0
    BY <2>1, <2>2
  <2>3. CASE k # 0
    <3>1. k \in 1..MaxSnaps
      BY <1>1, <2>3 DEF NumbersOk
    <3> QED BY <2>1, <3>1
  <2> QED BY <2>1, <2>2, <2>3
<1>4. DOMAIN snaps' \subseteq 1..MaxSnaps
  <2>1. CASE Backup!Snapshot
    <3>1. k < MaxSnaps
      BY <1>2, <2>1 DEF Backup!Snapshot
    <3>2. DOMAIN snaps' = Backup!Made \cup {k + 1}
      BY <1>2, <2>1 DEF Backup!Snapshot
    <3> QED BY <1>1, <1>3, <3>1, <3>2 DEF Backup!Made
  <2>2. CASE ~Backup!Snapshot
    <3>1. snaps' = snaps
      BY <2>2 DEF Backup!Next, Backup!Commit, Backup!Checkpoint, Backup!RotateFiles,
         Backup!SaveIndex, Backup!ListReads, Backup!ListEnds, Backup!DeleteReads, Backup!DeleteEnds,
         Backup!UpdateBegins, Backup!CheckoutMoves, Backup!RequirementsOfUpdate, Backup!UpdateUndone,
         Backup!RollbackBegins, Backup!RollbackInstalls, Backup!RollbackEnds, Backup!Restart,
         Backup!Die, Backup!Gone, Backup!RestoreBegins, Backup!KeepLive, Backup!RestoreEnds, Backup!StartsPlain,
         Backup!Unchanged, Backup!store
    <3> QED BY <3>1 DEF NumbersOk
  <2> QED BY <2>1, <2>2
<1>5. marker' \in {marker, point, 0} /\ (marker' = point => marker' = marker \/ marker' = 0 \/ point > 0)
      /\ point' \in {point, 0, k}
  BY <1>2 DEF Backup!Next, Backup!Commit, Backup!Checkpoint, Backup!Snapshot, Backup!RotateFiles,
     Backup!SaveIndex, Backup!ListReads, Backup!ListEnds, Backup!DeleteReads, Backup!DeleteEnds,
     Backup!UpdateBegins, Backup!CheckoutMoves, Backup!RequirementsOfUpdate, Backup!UpdateUndone,
     Backup!RollbackBegins, Backup!RollbackInstalls, Backup!RollbackEnds, Backup!Restart,
     Backup!Die, Backup!Gone, Backup!RestoreBegins, Backup!KeepLive, Backup!RestoreEnds, Backup!StartsPlain,
     Backup!return, Backup!Unchanged
<1> QED BY <1>3, <1>4, <1>5 DEF NumbersOk

LEMMA BackupTypesStep == ASSUME BackupInv, BackupTypes, Backup!Next PROVE BackupTypes'
BY PlacesStep, NumbersStep DEF BackupTypes

LEMMA BackupTypesStutter == ASSUME BackupTypes, UNCHANGED BackupVars PROVE BackupTypes'
BY DEF BackupTypes, PlacesOk, NumbersOk, BackupVars

LEMMA BackupTyped == ASSUME BackupInv, BackupTypes PROVE Backup!TypeOK
BY DEF Backup!TypeOK, BackupTypes, PlacesOk, NumbersOk, BackupInv, RowsInv, Backup!Made, Backup!Snap

-----------------------------------------------------------------------------
(* The types of Settings.                                                 *)

\* Whatever is stored, cached or kept as a version is a document, and no more versions are
\* kept than there is room for.
DocsOk ==
    /\ sStored \in [Area -> Stored!Setting]
    /\ \A a \in DOMAIN cache : cache[a] \in Stored!Setting
    /\ versions \in [Area -> Seq(Stored!Setting)]
    /\ \A a \in Area : Len(versions[a]) <= Keep
    /\ writes \in 0..MaxWrites

MarksOk ==
    /\ degraded \subseteq Area /\ lost \subseteq Area
    /\ sIndex.known \subseteq Area \X (1..MaxHook) /\ sIndex.whole \in BOOLEAN

StoredTypes == DocsOk /\ MarksOk

LEMMA StoredNumbers == MaxHook \in Nat /\ MaxHook > 0 /\ MaxWrites \in Nat /\ Keep \in Nat /\ Keep > 0
BY StoredAssumption

LEMMA DefaultIs == Stored!Default \in Stored!Setting
BY StoredNumbers DEF Stored!Default, Stored!Setting

LEMMA StoredTypesInit == ASSUME Stored!Init PROVE StoredTypes
<1>1. \A a \in Area : sStored[a] \in Stored!Setting
  <2>1. \A a \in Area : sStored[a] = [hook |-> 0, login |-> 0, lock |-> FALSE]
                        \/ sStored[a] = [hook |-> 1, login |-> 0, lock |-> FALSE]
    BY DEF Stored!Init, Stored!Default
  <2>2. [hook |-> 0, login |-> 0, lock |-> FALSE] \in Stored!Setting
        /\ [hook |-> 1, login |-> 0, lock |-> FALSE] \in Stored!Setting
    BY StoredNumbers DEF Stored!Setting
  <2> QED BY <2>1, <2>2
<1>2. sStored \in [Area -> Stored!Setting]
  <2>1. sStored = [a \in Area |-> sStored[a]]
    BY DEF Stored!Init
  <2> QED BY <1>1, <2>1
<1>3. DOMAIN cache = {} /\ versions = [a \in Area |-> <<>>] /\ writes = 0
      /\ degraded = {} /\ lost = {} /\ sIndex = [key |-> <<-1, -1>>, known |-> {}, whole |-> TRUE]
  BY DEF Stored!Init, Stored!NoIndex
<1>4. <<>> \in Seq(Stored!Setting) /\ Len(<<>>) = 0
  BY EmptySeq
<1>5. \A a \in Area : Len(versions[a]) <= Keep
  BY <1>3, <1>4, StoredNumbers
<1>6. DocsOk
  BY <1>2, <1>3, <1>4, <1>5, StoredNumbers DEF DocsOk
<1>7. sIndex.known = {} /\ sIndex.whole = TRUE
  BY <1>3, Zenon
<1>8. sIndex.whole \in BOOLEAN
  BY <1>7, Zenon
<1>9. MarksOk
  BY <1>3, <1>7, <1>8 DEF MarksOk
<1> QED BY <1>6, <1>9 DEF StoredTypes

LEMMA SettingRow ==
    ASSUME DocsOk, NEW a \in Area
    PROVE  Stored!Row(a) \in Stored!Setting /\ Stored!Seen(a) \in Stored!Setting
<1>1. Stored!Row(a) \in Stored!Setting
  BY DefaultIs DEF DocsOk, Stored!Row
<1> QED BY <1>1 DEF DocsOk, Stored!Seen

\* As many versions are kept as there is room for.
LEMMA KeptSettings ==
    ASSUME NEW s \in Seq(Stored!Setting), NEW e \in Stored!Setting
    PROVE  /\ Stored!Kept(Append(s, e)) \in Seq(Stored!Setting)
           /\ Len(Stored!Kept(Append(s, e))) <= Keep
<1> DEFINE t == Append(s, e)
<1>1. t \in Seq(Stored!Setting) /\ Len(t) \in Nat
  BY AppendProperties
<1> HIDE DEF t
<1>2. CASE Len(t) > Keep
  <2>1. Stored!Kept(t) = SubSeq(t, Len(t) - Keep + 1, Len(t))
    BY <1>2, Zenon DEF Stored!Kept
  <2>2. \A i \in (Len(t) - Keep + 1)..Len(t) : t[i] \in Stored!Setting
    BY <1>1, <1>2, StoredNumbers
  <2>3. /\ SubSeq(t, Len(t) - Keep + 1, Len(t)) \in Seq(Stored!Setting)
        /\ Len(SubSeq(t, Len(t) - Keep + 1, Len(t))) = Keep
    BY <1>1, <1>2, <2>2, StoredNumbers, SubSeqProperties
  <2>4. Stored!Kept(t) \in Seq(Stored!Setting) /\ Len(Stored!Kept(t)) <= Keep
    BY <2>1, <2>3, StoredNumbers
  <2> QED BY <2>4 DEF t
<1>3. CASE ~(Len(t) > Keep)
  <2>1. Stored!Kept(t) = t
    BY <1>3 DEF Stored!Kept
  <2>2. Stored!Kept(t) \in Seq(Stored!Setting) /\ Len(Stored!Kept(t)) <= Keep
    BY <1>1, <1>3, <2>1, StoredNumbers
  <2> QED BY <2>2 DEF t
<1> QED BY <1>2, <1>3

\* What is saved is stored, cached and kept.
LEMMA PersistDocs ==
    ASSUME StoredInv, DocsOk, NEW a \in used, NEW doc \in Stored!Setting, Stored!Persist(a, doc),
           writes' \in 0..MaxWrites
    PROVE  DocsOk'
<1>1. a \in Area
  BY DEF StoredInv, AreasInv
<1>2. /\ sStored' = Stored!Saved(a, doc) /\ Stored!Recorded(a, doc)
      /\ cache' = [x \in DOMAIN cache \cup {a} |-> IF x = a THEN doc ELSE cache[x]]
  BY DEF Stored!Persist, Stored!With
<1>3. sStored' \in [Area -> Stored!Setting]
  BY <1>1, <1>2 DEF Stored!Saved, DocsOk
<1>4. \A x \in DOMAIN cache' : cache'[x] \in Stored!Setting
  BY <1>2 DEF DocsOk
<1>5. versions' \in [Area -> Seq(Stored!Setting)] /\ \A x \in Area : Len(versions'[x]) <= Keep
  <2>1. versions' = versions \/ versions' = [versions EXCEPT ![a] = Stored!Kept(Append(versions[a], doc))]
    BY <1>2 DEF Stored!Recorded
  <2>2. /\ Stored!Kept(Append(versions[a], doc)) \in Seq(Stored!Setting)
        /\ Len(Stored!Kept(Append(versions[a], doc))) <= Keep
    BY <1>1, KeptSettings DEF DocsOk
  <2> DEFINE k == Stored!Kept(Append(versions[a], doc))
  <2>3. k \in Seq(Stored!Setting) /\ Len(k) <= Keep
    BY <2>2
  <2>4. versions' = versions \/ versions' = [versions EXCEPT ![a] = k]
    BY <2>1
  <2> HIDE DEF k
  <2> QED BY <1>1, <2>3, <2>4, Zenon DEF DocsOk
<1> QED BY <1>3, <1>4, <1>5 DEF DocsOk

LEMMA PersistMarks ==
    ASSUME StoredInv, MarksOk, NEW a \in used, NEW doc, Stored!Persist(a, doc), sIndex' = sIndex
    PROVE  MarksOk'
<1>1. a \in Area
  BY DEF StoredInv, AreasInv
<1>2. degraded' = degraded \ {a}
  BY DEF Stored!Persist
<1>3. lost' \subseteq lost \cup {a}
  BY DEF Stored!Persist, Stored!Recorded
<1> QED BY <1>1, <1>2, <1>3 DEF MarksOk

LEMMA DocSettings ==
    ASSUME NEW s \in Stored!Setting
    PROVE  /\ \A v \in 0..MaxHook : [s EXCEPT !["hook"] = v] \in Stored!Setting
           /\ \A v \in 0..MaxWrites : [s EXCEPT !["login"] = v] \in Stored!Setting
           /\ \A v \in BOOLEAN : [s EXCEPT !["lock"] = v] \in Stored!Setting
<1>1. PICK h \in 0..MaxHook, l \in 0..MaxWrites, k \in BOOLEAN : s = [hook |-> h, login |-> l, lock |-> k]
  BY DEF Stored!Setting
<1>2. ASSUME NEW v \in 0..MaxHook PROVE [s EXCEPT !["hook"] = v] \in Stored!Setting
  <2>1. [s EXCEPT !["hook"] = v] = [hook |-> v, login |-> l, lock |-> k]
    BY <1>1, DocHook
  <2> QED BY <2>1 DEF Stored!Setting
<1>3. ASSUME NEW v \in 0..MaxWrites PROVE [s EXCEPT !["login"] = v] \in Stored!Setting
  <2>1. [s EXCEPT !["login"] = v] = [hook |-> h, login |-> v, lock |-> k]
    BY <1>1, DocLogin
  <2> QED BY <2>1 DEF Stored!Setting
<1>4. ASSUME NEW v \in BOOLEAN PROVE [s EXCEPT !["lock"] = v] \in Stored!Setting
  <2>1. [s EXCEPT !["lock"] = v] = [hook |-> h, login |-> l, lock |-> v]
    BY <1>1, DocLock
  <2> QED BY <2>1 DEF Stored!Setting
<1> QED BY <1>2, <1>3, <1>4

LEMMA WriteTypes ==
    ASSUME StoredInv, StoredTypes, NEW a \in used, NEW fresh, NEW key, NEW v,
           \A s \in fresh : [s EXCEPT ![key] = v] \in Stored!Setting,
           Stored!Write(a, fresh, key, v)
    PROVE  StoredTypes'
<1>1. /\ sIndex' = sIndex /\ writes < MaxWrites /\ writes' = writes + 1
      /\ \/ \E s \in fresh : Stored!Persist(a, [s EXCEPT ![key] = v])
         \/ UNCHANGED <<sStored, cache, degraded, versions, lost>>
  BY DEF Stored!Write
<1>2. writes' \in 0..MaxWrites
  BY <1>1, StoredNumbers DEF StoredTypes, DocsOk
<1>3. CASE \E s \in fresh : Stored!Persist(a, [s EXCEPT ![key] = v])
  <2>1. PICK doc \in Stored!Setting : Stored!Persist(a, doc)
    BY <1>3
  <2> QED BY <1>1, <1>2, <2>1, PersistDocs, PersistMarks DEF StoredTypes
<1>4. CASE UNCHANGED <<sStored, cache, degraded, versions, lost>>
  BY <1>1, <1>2, <1>4, Zenon DEF StoredTypes, DocsOk, MarksOk
<1> QED BY <1>1, <1>3, <1>4

LEMMA SaveTypes ==
    ASSUME StoredInv, StoredTypes, NEW a \in used,
           Stored!EditWebhook(a) \/ Stored!GuardWrites(a) \/ Stored!TokenRenewed(a)
    PROVE  StoredTypes'
<1>1. a \in Area /\ DocsOk
  BY DEF StoredInv, AreasInv, StoredTypes
<1>2. \A s \in Stored!Writable(a) : s \in Stored!Setting
  <2>1. Stored!Row(a) \in Stored!Setting
    BY <1>1, SettingRow
  <2> QED BY <1>1, <2>1 DEF Stored!Writable, DocsOk
<1>3. CASE Stored!EditWebhook(a)
  <2>1. PICK h \in 0..MaxHook : Stored!Write(a, Stored!Writable(a), "hook", h)
    BY <1>3 DEF Stored!EditWebhook
  <2>2. \A s \in Stored!Writable(a) : [s EXCEPT !["hook"] = h] \in Stored!Setting
    BY <1>2, DocSettings
  <2> QED BY <2>1, <2>2, WriteTypes
<1>4. CASE Stored!GuardWrites(a)
  <2>1. PICK b \in BOOLEAN : Stored!Write(a, Stored!Writable(a), "lock", b)
    BY <1>4 DEF Stored!GuardWrites
  <2>2. \A s \in Stored!Writable(a) : [s EXCEPT !["lock"] = b] \in Stored!Setting
    BY <1>2, DocSettings
  <2> QED BY <2>1, <2>2, WriteTypes
<1>5. CASE Stored!TokenRenewed(a)
  <2>1. Stored!Write(a, {Stored!Row(a)}, "login", writes')
    BY <1>5 DEF Stored!TokenRenewed
  <2>2. writes' \in 0..MaxWrites
    BY <2>1, StoredNumbers DEF Stored!Write, StoredTypes, DocsOk
  <2>3. \A s \in {Stored!Row(a)} : [s EXCEPT !["login"] = writes'] \in Stored!Setting
    BY <1>1, <2>2, SettingRow, DocSettings
  <2> QED BY <2>1, <2>3, WriteTypes
<1> QED BY <1>3, <1>4, <1>5

LEMMA ReadTypes ==
    ASSUME StoredInv, StoredTypes, NEW a \in used,
           Stored!Load(a) \/ Stored!LoadFails(a) \/ Stored!WriteRefused(a) \/ Stored!RenewalDropped(a)
             \/ Stored!DeleteArea(a)
    PROVE  StoredTypes'
<1>1. a \in Area /\ DocsOk
  BY DEF StoredInv, AreasInv, StoredTypes
<1>2. /\ UNCHANGED <<sStored, versions, writes, lost, sIndex>>
      /\ degraded' \in {degraded, degraded \ {a}, degraded \cup {a}}
  BY DEF Stored!Load, Stored!LoadFails, Stored!WriteRefused, Stored!RenewalDropped,
     Stored!DeleteArea, Stored!bounds
<1>3. \A x \in DOMAIN cache' : cache'[x] \in Stored!Setting
  <2>1. CASE Stored!Load(a)
    <3>1. cache' = [x \in DOMAIN cache \cup {a} |-> IF x = a THEN Stored!Row(a) ELSE cache[x]]
      BY <2>1 DEF Stored!Load, Stored!With
    <3> QED BY <1>1, <3>1, SettingRow DEF DocsOk
  <2>2. CASE Stored!DeleteArea(a)
    <3>1. cache' = [x \in DOMAIN cache \ {a} |-> cache[x]]
      BY <2>2 DEF Stored!DeleteArea, Stored!Without
    <3> QED BY <1>1, <3>1 DEF DocsOk
  <2>3. CASE Stored!LoadFails(a) \/ Stored!WriteRefused(a) \/ Stored!RenewalDropped(a)
    <3>1. cache' = cache
      BY <2>3 DEF Stored!LoadFails, Stored!WriteRefused, Stored!RenewalDropped
    <3> QED BY <1>1, <3>1 DEF DocsOk
  <2> QED BY <2>1, <2>2, <2>3
<1>4. degraded' \subseteq Area
  BY <1>1, <1>2 DEF StoredTypes, MarksOk
<1> QED BY <1>2, <1>3, <1>4, Zenon DEF StoredTypes, DocsOk, MarksOk

LEMMA CreateAreaTypes ==
    ASSUME StoredInv, StoredTypes, NEW a \in Area, Stored!CreateArea(a)
    PROVE  StoredTypes'
<1>1. /\ UNCHANGED <<cache, versions, writes, lost, sIndex, degraded>>
      /\ sStored' = [sStored EXCEPT ![a] = Stored!Default]
  BY DEF Stored!CreateArea, Stored!memory
<1>2. sStored' \in [Area -> Stored!Setting]
  BY <1>1, DefaultIs DEF StoredTypes, DocsOk
<1> QED BY <1>1, <1>2, Zenon DEF StoredTypes, DocsOk, MarksOk

LEMMA BuildIndexTypes ==
    ASSUME StoredInv, StoredTypes, Stored!BuildIndex
    PROVE  StoredTypes'
<1>1. PICK bad \in SUBSET (sLive \ DOMAIN cache) :
        /\ sIndex' = [key |-> Stored!Key, known |-> Stored!TokensOf(sLive \ bad), whole |-> bad = {}]
        /\ cache' = [a \in DOMAIN cache \cup (sLive \ bad) |-> Stored!Seen(a)]
        /\ degraded' = (degraded \ (sLive \ DOMAIN cache)) \cup bad
        /\ UNCHANGED <<sStored, versions, writes, lost>>
  BY Zenon DEF Stored!BuildIndex
<1>2. sLive \subseteq Area /\ DOMAIN cache \subseteq Area /\ DocsOk
  BY DEF StoredInv, AreasInv, StoredTypes
<1>3. \A x \in DOMAIN cache' : cache'[x] \in Stored!Setting
  BY <1>1, <1>2, SettingRow
<1>4. Stored!TokensOf(sLive \ bad) \subseteq Area \X (1..MaxHook)
  <2> SUFFICES ASSUME NEW x \in sLive \ bad, Stored!Seen(x).hook # 0
               PROVE  <<x, Stored!Seen(x).hook>> \in Area \X (1..MaxHook)
    BY DEF Stored!TokensOf
  <2>1. Stored!Seen(x).hook \in 0..MaxHook
    BY <1>2, SettingRow DEF Stored!Setting
  <2> QED BY <1>2, <2>1, StoredNumbers
<1>5. sIndex'.known = Stored!TokensOf(sLive \ bad) /\ sIndex'.whole = (bad = {})
  BY <1>1, Zenon
<1>6. sIndex'.whole \in BOOLEAN
  BY <1>5, Zenon
<1>7. degraded' \subseteq Area
  BY <1>1, <1>2 DEF StoredTypes, MarksOk
<1>8. DocsOk'
  BY <1>1, <1>2, <1>3, Zenon DEF DocsOk
<1>9. MarksOk'
  BY <1>1, <1>4, <1>5, <1>6, <1>7, Zenon DEF StoredTypes, MarksOk
<1> QED BY <1>8, <1>9 DEF StoredTypes

LEMMA StoredTypesStep == ASSUME StoredInv, StoredTypes, Stored!Next PROVE StoredTypes'
<1>1. ASSUME NEW a \in used, Stored!RestoreVersion(a) PROVE StoredTypes'
  <2>1. PICK doc \in Stored!ToSet(versions[a]) : Stored!Persist(a, doc)
    BY <1>1 DEF Stored!RestoreVersion
  <2>2. a \in Area
    BY DEF StoredInv, AreasInv
  <2>3. doc \in Stored!Setting
    <3>1. versions[a] \in Seq(Stored!Setting)
      BY <2>2 DEF StoredTypes, DocsOk
    <3> QED BY <3>1 DEF Stored!ToSet
  <2>4. sIndex' = sIndex /\ writes' = writes
    BY <1>1 DEF Stored!RestoreVersion
  <2>5. writes' \in 0..MaxWrites
    BY <2>4 DEF StoredTypes, DocsOk
  <2> QED BY <2>1, <2>3, <2>4, <2>5, PersistDocs, PersistMarks DEF StoredTypes
<1>2. CASE Stored!Restart
  <2>1. /\ cache' = <<>> /\ degraded' = {} /\ UNCHANGED <<sStored, versions, writes, lost>>
        /\ sIndex' = [key |-> <<-1, -1>>, known |-> {}, whole |-> TRUE]
    BY <1>2 DEF Stored!Restart, Stored!NoIndex
  <2>2. DOMAIN cache' = {}
    BY <2>1
  <2>3. sIndex'.known = {} /\ sIndex'.whole = TRUE
    BY <2>1, Zenon
  <2>4. sIndex'.whole \in BOOLEAN
    BY <2>3, Zenon
  <2>5. DocsOk'
    BY <2>1, <2>2 DEF StoredTypes, DocsOk
  <2>6. MarksOk'
    BY <2>1, <2>3, <2>4 DEF StoredTypes, MarksOk
  <2> QED BY <2>5, <2>6 DEF StoredTypes
<1> QED BY <1>1, <1>2, SaveTypes, ReadTypes, CreateAreaTypes, BuildIndexTypes DEF Stored!Next

LEMMA StoredTypesStutter == ASSUME StoredTypes, UNCHANGED StoredVars PROVE StoredTypes'
BY Zenon DEF StoredTypes, DocsOk, MarksOk, StoredVars

LEMMA StoredTyped == ASSUME StoredInv, StoredTypes PROVE Stored!TypeOK
<1>1. \A a \in Area : Len(versions[a]) <= Keep /\ \A i \in DOMAIN versions[a] : versions[a][i] \in Stored!Setting
  <2> TAKE a \in Area
  <2>1. versions[a] \in Seq(Stored!Setting) /\ Len(versions[a]) <= Keep
    BY DEF StoredTypes, DocsOk
  <2> QED BY <2>1
<1>2. /\ sLive \subseteq used /\ used \subseteq Area
      /\ DOMAIN cache \subseteq Area /\ DOMAIN prints \subseteq Area
  BY DEF StoredInv, AreasInv
<1> QED BY <1>1, <1>2, Zenon DEF Stored!TypeOK, StoredTypes, DocsOk, MarksOk

-----------------------------------------------------------------------------
(* The types of TradeJournal.                                             *)

\* The fills that wait are of one side, and a round trip is of both.
OneSide(fs, lots) ==
    /\ \A i, k \in DOMAIN lots.open : fs[lots.open[i]].side = fs[lots.open[k]].side
    /\ \A t \in lots.trips : fs[t.first].side # fs[t.last].side

\* A fill meets what waits, or waits behind it.
LEMMA MatchSides ==
    ASSUME NEW fs, NEW f \in Nat \ {0}, fs[f].qty \in Nat, NEW lots, Paired(lots, f - 1),
           OneSide(fs, lots)
    PROVE  OneSide(fs, Journal!Match(fs, lots, f))
<1> DEFINE opposite == lots.open # <<>> /\ fs[Head(lots.open)].side # fs[f].side
           taken == IF opposite THEN Journal!Min({fs[f].qty, Len(lots.open)}) ELSE 0
           closed == SubSeq(lots.open, 1, taken)
           amount(l) == Journal!Cardinality({i \in 1 .. taken : closed[i] = l})
           fresh == {[first |-> l, last |-> f, qty |-> amount(l)] : l \in Journal!Range(closed)}
           waits == SubSeq(lots.open, taken + 1, Len(lots.open))
           own == Journal!Units(f, fs[f].qty - taken)
<1>1. Journal!Match(fs, lots, f) = [open |-> waits \o own, trips |-> lots.trips \cup fresh]
  BY Zenon DEF Journal!Match
<1>2. lots.open \in Seq(1 .. (f - 1)) /\ Len(lots.open) \in Nat
      /\ DOMAIN lots.open = 1 .. Len(lots.open)
  BY DEF Paired
<1>3. /\ taken \in Nat /\ taken <= fs[f].qty /\ taken <= Len(lots.open)
      /\ opposite \/ taken = 0
      /\ opposite => taken = fs[f].qty \/ taken = Len(lots.open)
  <2>1. /\ Journal!Min({fs[f].qty, Len(lots.open)}) \in Nat
        /\ Journal!Min({fs[f].qty, Len(lots.open)}) <= fs[f].qty
        /\ Journal!Min({fs[f].qty, Len(lots.open)}) <= Len(lots.open)
    BY <1>2, LesserOf, Zenon
  <2>2. Journal!Min({fs[f].qty, Len(lots.open)}) \in {fs[f].qty, Len(lots.open)}
    <3>1. \E x \in {fs[f].qty, Len(lots.open)} : \A y \in {fs[f].qty, Len(lots.open)} : x =< y
      BY <1>2
    <3> QED BY <3>1 DEF Journal!Min
  <2>3. CASE opposite
    <3>1. taken = Journal!Min({fs[f].qty, Len(lots.open)})
      BY <2>3
    <3> QED BY <2>1, <2>2, <2>3, <3>1
  <2>4. CASE ~opposite
    <3>1. taken = 0
      BY <2>4
    <3> QED BY <1>2, <2>4, <3>1
  <2> QED BY <2>3, <2>4
<1>4. \A i \in DOMAIN lots.open :
        fs[lots.open[i]].side = fs[Head(lots.open)].side /\ lots.open # <<>>
  <2> TAKE i \in DOMAIN lots.open
  <2>1. 1 \in DOMAIN lots.open /\ lots.open # <<>>
    BY <1>2
  <2>2. Head(lots.open) = lots.open[1]
    BY <1>2, <2>1
  <2> QED BY <2>1, <2>2 DEF OneSide
<1> HIDE DEF taken
<1>5. ASSUME NEW t \in fresh PROVE fs[t.first].side # fs[t.last].side
  <2>1. PICK l \in Journal!Range(closed) : t.first = l /\ t.last = f
    <3>1. PICK l \in Journal!Range(closed) : t = [first |-> l, last |-> f, qty |-> amount(l)]
      BY <1>5, Zenon
    <3> HIDE DEF amount, closed
    <3>2. t.first = l /\ t.last = f
      BY <3>1
    <3> QED BY <3>2
  <2>2. PICK i \in 1 .. taken : l = lots.open[i]
    <3>1. closed \in Seq(1 .. (f - 1)) /\ Len(closed) = taken
          /\ \A i \in 1 .. taken : closed[i] = lots.open[i]
      <4>1. \A i \in 1 .. taken : lots.open[i] \in 1 .. (f - 1) /\ 1 + i - 1 = i
        BY <1>2, <1>3
      <4> QED BY <1>2, <1>3, <4>1, SubSeqProperties
    <3> HIDE DEF closed
    <3> QED BY <2>1, <3>1 DEF Journal!Range
  <2>3. i \in DOMAIN lots.open /\ opposite
    BY <1>2, <1>3
  <2> QED BY <1>4, <2>1, <2>2, <2>3
<1>6. \A t \in lots.trips : fs[t.first].side # fs[t.last].side
  BY DEF OneSide
<1>7. /\ Len(waits) = Len(lots.open) - taken
      /\ \A i \in 1 .. Len(waits) : waits[i] = lots.open[taken + i] /\ taken + i \in DOMAIN lots.open
      /\ waits \in Seq(1 .. (f - 1))
  <2>1. \A i \in (taken + 1) .. Len(lots.open) : lots.open[i] \in 1 .. (f - 1)
    BY <1>2, <1>3
  <2>2. /\ waits \in Seq(1 .. (f - 1)) /\ Len(waits) = Len(lots.open) - taken
        /\ \A i \in 1 .. (Len(lots.open) - taken) : waits[i] = lots.open[taken + 1 + i - 1]
    <3>1. /\ taken + 1 \in 1 .. Len(lots.open) + 1 /\ Len(lots.open) \in taken .. Len(lots.open)
      BY <1>2, <1>3
    <3> QED BY <1>2, <1>3, <2>1, <3>1, SubSeqProperties
  <2> HIDE DEF waits
  <2>3. \A i \in 1 .. Len(waits) : taken + 1 + i - 1 = taken + i /\ taken + i \in 1 .. Len(lots.open)
    <3>1. /\ taken \in Nat /\ taken <= Len(lots.open) /\ Len(lots.open) \in Nat
          /\ Len(waits) = Len(lots.open) - taken
      BY <1>2, <1>3, <2>2
    <3> DEFINE k == Len(waits)
               n == Len(lots.open)
    <3> HIDE DEF k, n
    <3>2. k = n - taken /\ n \in Nat
      BY <3>1 DEF k, n
    <3>3. \A i \in 1 .. k : taken + 1 + i - 1 = taken + i /\ taken + i \in 1 .. n
      BY <3>1, <3>2
    <3> QED BY <3>3 DEF k, n
  <2> QED BY <1>2, <2>2, <2>3, Zenon
<1>8. /\ Len(own) = fs[f].qty - taken /\ \A i \in 1 .. Len(own) : own[i] = f
      /\ own \in Seq(1 .. f)
  <2>1. fs[f].qty - taken \in Nat /\ f \in 1 .. f
    BY <1>3
  <2> QED BY <2>1 DEF Journal!Units
<1> HIDE DEF waits, own
<1> DEFINE now == waits \o own
<1>9. /\ DOMAIN now = 1 .. (Len(waits) + Len(own))
      /\ \A i \in 1 .. Len(waits) : now[i] = waits[i]
      /\ \A i \in DOMAIN now : i \in 1 .. Len(waits) \/ (now[i] = f /\ Len(own) > 0)
  <2>1. waits \in Seq(1 .. f) /\ own \in Seq(1 .. f)
    BY <1>7, <1>8
  <2>2. /\ Len(now) = Len(waits) + Len(own)
        /\ \A i \in 1 .. (Len(waits) + Len(own)) :
             now[i] = IF i <= Len(waits) THEN waits[i] ELSE own[i - Len(waits)]
    BY <2>1, ConcatProperties
  <2>3. DOMAIN now = 1 .. Len(now)
    <3>1. now \in Seq(1 .. f)
      BY <2>1, ConcatProperties
    <3> QED BY <3>1
  <2>4. Len(waits) \in Nat /\ Len(own) \in Nat
    BY <2>1
  <2> HIDE DEF now
  <2>5. \A i \in DOMAIN now : i \in 1 .. Len(waits) \/ i - Len(waits) \in 1 .. Len(own)
    BY <2>2, <2>3, <2>4
  <2>6. \A i \in DOMAIN now : i \in 1 .. Len(waits) \/ (now[i] = f /\ Len(own) > 0)
    BY <1>8, <2>2, <2>3, <2>4, <2>5
  <2>7. \A i \in 1 .. Len(waits) : now[i] = waits[i]
    BY <2>2, <2>4
  <2> QED BY <2>2, <2>3, <2>6, <2>7
<1> HIDE DEF now
<1>10. \A i, k \in DOMAIN now : fs[now[i]].side = fs[now[k]].side
  <2>1. CASE Len(own) > 0 /\ Len(waits) > 0
    <3>1. ~opposite
      <4>1. opposite => fs[f].qty - taken = 0 \/ Len(lots.open) - taken = 0
        BY <1>2, <1>3
      <4>2. fs[f].qty - taken > 0 /\ Len(lots.open) - taken > 0
        BY <1>7, <1>8, <2>1
      <4> QED BY <4>1, <4>2
    <3>2. \A i \in DOMAIN lots.open : fs[lots.open[i]].side = fs[f].side
      BY <1>4, <3>1
    <3>3. \A i \in DOMAIN now : fs[now[i]].side = fs[f].side
      BY <1>7, <1>9, <3>2
    <3> QED BY <3>3
  <2>2. CASE ~(Len(waits) > 0)
    <3>1. \A i \in DOMAIN now : now[i] = f
      BY <1>2, <1>3, <1>7, <1>9, <2>2
    <3> QED BY <3>1
  <2>3. CASE ~(Len(own) > 0)
    <3>1. \A i \in DOMAIN now : fs[now[i]].side = fs[Head(lots.open)].side
      BY <1>4, <1>7, <1>9, <2>3
    <3> QED BY <3>1
  <2> QED BY <2>1, <2>2, <2>3
<1> HIDE DEF fresh
<1> DEFINE after == [open |-> now, trips |-> lots.trips \cup fresh]
<1>11. after.open = now /\ after.trips = lots.trips \cup fresh
  OBVIOUS
<1> HIDE DEF after
<1>12. OneSide(fs, after)
  BY <1>5, <1>6, <1>10, <1>11 DEF OneSide
<1> QED BY <1>1, <1>12 DEF after, now

LEMMA LotsSides ==
    ASSUME NEW L, NEW fs, NEW ids, NEW n \in Nat, IsLots(L, fs, ids, n),
           \A j \in 1 .. n : fs[j].qty \in Nat
    PROVE  OneSide(fs, L[n])
<1> DEFINE S == {j \in 0 .. n : OneSide(fs, L[j])}
<1>1. 0 \in S
  <2>1. L[0] = [open |-> <<>>, trips |-> {}]
    BY DEF IsLots, Journal!Unmatched
  <2>2. OneSide(fs, [open |-> <<>>, trips |-> {}])
    BY DEF OneSide
  <2> QED BY <2>1, <2>2
<1>2. ASSUME NEW j \in 1 .. n, j - 1 \in S PROVE j \in S
  <2>1. /\ OneSide(fs, L[j - 1]) /\ fs[j].qty \in Nat /\ j \in Nat \ {0} /\ j \in 0 .. n
        /\ j - 1 \in 0 .. n
    BY <1>2
  <2>2. Paired(L[j - 1], j - 1)
    BY <2>1, LotsPaired
  <2>3. L[j] = IF j \in ids THEN Journal!Match(fs, L[j - 1], j) ELSE L[j - 1]
    BY Zenon DEF IsLots
  <2>4. CASE j \in ids
    BY <2>1, <2>2, <2>3, <2>4, MatchSides
  <2>5. CASE j \notin ids
    BY <2>1, <2>3, <2>5
  <2> QED BY <2>4, <2>5
<1> HIDE DEF S
<1>3. n \in S
  BY <1>1, <1>2, Upto
<1> QED BY <1>3 DEF S

\* A round trip closes a fill before its last one, of the other side.
LEMMA TripSides ==
    ASSUME FillsInv, NEW ids, NEW t \in Journal!FifoPairs(ids)
    PROVE  t.first < t.last /\ fills[t.first].side # fills[t.last].side
<1>1. /\ IsLots(Journal!Lots(fills, ids), fills, ids, Len(fills))
      /\ Paired(Journal!Lots(fills, ids)[Len(fills)], Len(fills))
      /\ Journal!FifoPairs(ids) = Journal!Lots(fills, ids)[Len(fills)].trips
  BY OursAre
<1>2. Len(fills) \in Nat /\ \A j \in 1 .. Len(fills) : fills[j].qty \in Nat
  BY BookIs
<1>3. OneSide(fills, Journal!Lots(fills, ids)[Len(fills)])
  BY <1>1, <1>2, LotsSides
<1> QED BY <1>1, <1>3 DEF Paired, OneSide

-----------------------------------------------------------------------------
\* Beside the rows: the kind of the login, the bounds, and where the import is.
JournalTypes ==
    /\ broker \in Brokers /\ jDay <= MaxDay /\ Len(fills) <= MaxFills
    /\ jPhase \in {"idle", "pairs", "report", "book"}

LEMMA JournalNumbers == MaxDay \in Nat /\ MaxDay > 0 /\ MaxFills \in Nat
BY JournalAssumption

LEMMA JournalTypesInit == ASSUME Journal!Init PROVE JournalTypes
BY JournalNumbers DEF Journal!Init, JournalTypes

LEMMA JournalTypesStep == ASSUME JournalInv, JournalTypes, Journal!Next PROVE JournalTypes'
<1>1. broker' = broker /\ jPhase' \in {jPhase, "idle", "pairs", "report", "book"}
  BY Zenon DEF Journal!Next, Journal!Fill, Journal!NextDay, Journal!ImportTradovate,
     Journal!ReadPairs, Journal!EndReport, Journal!ReadBook, Journal!ReadReport,
     Journal!ImportOther, Journal!Restart, Journal!market
<1>2. CASE jDay' = jDay /\ fills' = fills
  BY <1>1, <1>2 DEF JournalTypes
<1>3. CASE Journal!NextDay
  BY <1>1, <1>3, JournalNumbers DEF Journal!NextDay, JournalTypes, JournalInv, FillsInv
<1>4. ASSUME NEW side, NEW qty, NEW mark, Journal!Fill(side, qty, mark) PROVE JournalTypes'
  <2>1. /\ jDay' = jDay /\ Len(fills) < MaxFills
        /\ fills' = Append(fills, [side |-> side, qty |-> qty, mark |-> mark, day |-> jDay])
    BY <1>4 DEF Journal!Fill
  <2>2. fills \in Seq(FillOf) /\ Len(fills) \in Nat
    BY DEF JournalInv, FillsInv
  <2>3. Len(fills') = Len(fills) + 1
    BY <2>1, <2>2
  <2> QED BY <1>1, <2>1, <2>2, <2>3, JournalNumbers DEF JournalTypes
<1>5. \/ jDay' = jDay /\ fills' = fills
      \/ Journal!NextDay
      \/ \E side \in {"Buy", "Sell"}, qty \in 1..JournalQty, mark \in Mark :
            Journal!Fill(side, qty, mark)
  BY Zenon DEF Journal!Next, Journal!ImportTradovate,
     Journal!ReadPairs, Journal!EndReport, Journal!ReadBook, Journal!ReadReport,
     Journal!ImportOther, Journal!Restart, Journal!market
<1> QED BY <1>2, <1>3, <1>4, <1>5

LEMMA JournalTypesStutter == ASSUME JournalTypes, UNCHANGED JournalVars PROVE JournalTypes'
BY Zenon DEF JournalTypes, JournalVars

LEMMA JournalTyped == ASSUME JournalInv, JournalTypes PROVE Journal!TypeOK
<1>1. jStored \subseteq DOMAIN fills
  BY DEF JournalInv, HolesInv
<1>2. broker \in Brokers /\ jDay \in 1..MaxDay /\ Len(fills) <= MaxFills
  BY JournalNumbers DEF JournalTypes, JournalInv, FillsInv
<1>3. ASSUME NEW r \in rows
      PROVE  /\ r.family \in {"pair", "fifo"} /\ r.first < r.last
             /\ fills[r.first].side # fills[r.last].side
  <2>1. r.family \in {"pair", "fifo"} /\ TripOfRow(r).first = r.first /\ TripOfRow(r).last = r.last
    BY DEF JournalInv, RowsFrom, RowOf, TripOfRow
  <2>2. \E ids : TripOfRow(r) \in Journal!FifoPairs(ids)
    <3>1. TripOfRow(r) \in book.trips \/ TripOfRow(r) \in Journal!FifoPairs(jStored)
      BY DEF JournalInv, RowsFrom, Source
    <3> QED BY <3>1, BookIsOfAll DEF JournalInv
  <2>3. /\ TripOfRow(r).first < TripOfRow(r).last
        /\ fills[TripOfRow(r).first].side # fills[TripOfRow(r).last].side
    BY <2>2, TripSides DEF JournalInv
  <2> QED BY <2>1, <2>3
<1>4. \A r, s \in rows : Journal!KeyOf(r) = Journal!KeyOf(s) => r = s
  <2> SUFFICES ASSUME NEW r \in rows, NEW s \in rows, Journal!KeyOf(r) = Journal!KeyOf(s)
               PROVE  r = s
    OBVIOUS
  <2>1. Journal!KeyOf(r).first = r.first /\ Journal!KeyOf(r).last = r.last
        /\ Journal!KeyOf(s).first = s.first /\ Journal!KeyOf(s).last = s.last
    BY DEF Journal!KeyOf, Journal!Key
  <2>2. r.first = s.first /\ r.last = s.last
    BY <2>1
  <2> QED BY <2>2 DEF JournalInv, RowsFrom, OneOfEach
<1>5. jSeen \subseteq Journal!Pairs /\ cursor \in 0..jDay
  BY DEF JournalInv, CrossInv, Journal!Pairs
<1> QED BY <1>1, <1>2, <1>3, <1>4, <1>5 DEF Journal!TypeOK, JournalTypes

-----------------------------------------------------------------------------
(* The types of PositionWatch.                                            *)

\* What the broker has, and what a tick read of it: nobody loses more than was traded.
Net == -WatchQty .. WatchQty
BrokerTypes ==
    /\ net \in [Login -> Net] /\ moves \in 0 .. MaxMoves
    /\ realized \in [Login -> Int] /\ \A l \in Login : -moves <= realized[l] /\ realized[l] <= 0

TickTypes ==
    /\ raw \in [Login -> [ok : BOOLEAN, net : Net]] /\ positions \in [Login -> Net]
    /\ todo \subseteq Login /\ wPhase \in {"idle", "positions", "snapshot", "observe"}
    /\ IF wPhase = "snapshot" THEN \E l \in Login : wAt = {l} ELSE wAt = {}

SummaryTypes == wDay \in 0 .. MaxDays /\ summarySent \in 0 .. MaxDays /\ closedToday \in Nat

WatchTypes == BrokerTypes /\ TickTypes /\ SummaryTypes /\ seeded \in BOOLEAN

LEMMA WatchNumbers ==
    /\ IsFiniteSet(Login) /\ WatchQty \in Nat /\ WatchQty > 0 /\ MaxMoves \in Nat
    /\ MaxDays \in Nat
BY WatchAssumption

LEMMA WatchUnreadTyped == [l \in Login |-> Watch!Unread] \in [Login -> [ok : BOOLEAN, net : Net]]
BY WatchNumbers DEF Watch!Unread, Net

LEMMA ZeroTyped == Watch!Zero \in [Login -> Net]
BY WatchNumbers DEF Watch!Zero, Net

LEMMA WatchTypesInit == ASSUME Watch!Init PROVE WatchTypes
<1>1. BrokerTypes
  <2>1. net \in [Login -> {0, 1}] /\ realized = Watch!Zero /\ moves = 0
    BY DEF Watch!Init
  <2>2. net \in [Login -> Net]
    BY <2>1, WatchNumbers DEF Net
  <2> QED BY <2>1, <2>2, WatchNumbers DEF BrokerTypes, Watch!Zero
<1>2. TickTypes
  <2>1. /\ raw = [l \in Login |-> Watch!Unread] /\ positions = Watch!Zero
        /\ todo = {} /\ wPhase = "idle" /\ wAt = {}
    BY DEF Watch!Init
  <2> QED BY <2>1, WatchUnreadTyped, ZeroTyped DEF TickTypes
<1>3. SummaryTypes
  BY WatchNumbers DEF Watch!Init, SummaryTypes
<1>4. seeded \in BOOLEAN
  BY Zenon DEF Watch!Init
<1> QED BY <1>1, <1>2, <1>3, <1>4 DEF WatchTypes

\* The broker's side changes by a trade alone, which costs one unit at most.
LEMMA BrokerTypesStep == ASSUME BrokerTypes, Watch!Next PROVE BrokerTypes'
<1>1. ASSUME NEW l \in Login, Watch!BrokerTrades(l) PROVE BrokerTypes'
  <2>1. moves < MaxMoves /\ moves' = moves + 1
    BY <1>1 DEF Watch!BrokerTrades
  <2>2. PICK n \in Net :
          /\ net' = [net EXCEPT ![l] = n]
          /\ realized' = [realized EXCEPT ![l] =
               IF Watch!Abs(n) < Watch!Abs(net[l]) \/ n * net[l] < 0 THEN @ - 1 ELSE @]
    BY <1>1, Zenon DEF Watch!BrokerTrades, Net
  <2>3. net' \in [Login -> Net]
    BY <2>2 DEF BrokerTypes
  <2>4. realized' = [realized EXCEPT ![l] = @ - 1] \/ realized' = [realized EXCEPT ![l] = @]
    BY <2>2, Zenon
  <2>5. /\ realized' \in [Login -> Int]
        /\ \A m \in Login : -(moves + 1) <= realized'[m] /\ realized'[m] <= 0
    BY <2>4 DEF BrokerTypes
  <2> QED BY <2>1, WatchNumbers, <2>3, <2>5 DEF BrokerTypes
<1>2. CASE UNCHANGED <<net, moves, realized>>
  BY <1>2 DEF BrokerTypes
<1>3. UNCHANGED <<net, moves, realized>> \/ \E l \in Login : Watch!BrokerTrades(l)
  BY Zenon DEF Watch!Next, Watch!ReadPositions, Watch!ReadSnapshot, Watch!NextDay,
     Watch!StartTick, Watch!Observe, Watch!TickTimesOut, Watch!Restart, Watch!broker
<1> QED BY <1>1, <1>2, <1>3

\* What a tick reads is what the broker has, and it looks at one login at a time.
LEMMA TickTypesStep == ASSUME BrokerTypes, TickTypes, Watch!Next PROVE TickTypes'
<1>1. CASE UNCHANGED <<raw, positions, todo, wPhase, wAt>>
  BY <1>1 DEF TickTypes
<1>2. CASE Watch!StartTick
  <2>1. /\ UNCHANGED <<raw, positions, wAt>> /\ wPhase = "idle" /\ wPhase' = "positions"
        /\ todo' = Login
    BY <1>2 DEF Watch!StartTick
  <2> QED BY <2>1 DEF TickTypes
<1>3. ASSUME NEW l \in Login, Watch!ReadPositions(l) PROVE TickTypes'
  <2>1. /\ UNCHANGED <<positions, todo>> /\ wPhase' = "snapshot" /\ wAt' = {l}
        /\ raw' = raw \/ raw' = [raw EXCEPT ![l] = [ok |-> TRUE, net |-> net[l]]]
    BY <1>3, Zenon DEF Watch!ReadPositions, Watch!memory
  <2>2. [ok |-> TRUE, net |-> net[l]] \in [ok : BOOLEAN, net : Net]
    BY DEF BrokerTypes
  <2>3. raw' \in [Login -> [ok : BOOLEAN, net : Net]]
    BY <2>1, <2>2, Zenon DEF TickTypes
  <2> QED BY <2>1, <2>3 DEF TickTypes
<1>4. ASSUME NEW l \in Login, Watch!ReadSnapshot(l) PROVE TickTypes'
  <2>1. /\ UNCHANGED <<raw, positions>> /\ todo' = todo \ {l} /\ wAt' = {}
        /\ wPhase' = (IF todo = {l} THEN "observe" ELSE "positions")
    BY <1>4, Zenon DEF Watch!ReadSnapshot, Watch!memory
  <2> QED BY <2>1 DEF TickTypes
<1>5. ASSUME Watch!ForgetTick, positions' \in [Login -> Net] PROVE TickTypes'
  <2>1. /\ raw' = [l \in Login |-> Watch!Unread] /\ todo' = {} /\ wPhase' = "idle" /\ wAt' = {}
    BY <1>5, Zenon DEF Watch!ForgetTick
  <2> QED BY <1>5, <2>1, WatchUnreadTyped DEF TickTypes
<1>6. CASE Watch!TickTimesOut \/ Watch!Restart
  <2>1. Watch!ForgetTick /\ (positions' = positions \/ positions' = Watch!Zero)
    BY <1>6, Zenon DEF Watch!TickTimesOut, Watch!Restart, Watch!memory
  <2> QED BY <1>5, <2>1, ZeroTyped DEF TickTypes
<1>7. CASE Watch!Observe
  <2>1. /\ Watch!ForgetTick
        /\ positions' = [l \in Login |-> IF l \in Watch!Polled THEN Watch!Current(l) ELSE positions[l]]
    BY <1>7, Zenon DEF Watch!Observe
  <2>2. \A l \in Login : l \in Watch!Polled => Watch!Current(l) = raw[l].net
    BY Zenon DEF Watch!Polled, Watch!Current
  <2>3. \A l \in Login : raw[l].net \in Net /\ positions[l] \in Net
    BY DEF TickTypes
  <2>4. positions' \in [Login -> Net]
    BY <2>1, <2>2, <2>3
  <2> QED BY <1>5, <2>1, <2>4
<1>8. \/ UNCHANGED <<raw, positions, todo, wPhase, wAt>>
      \/ Watch!StartTick \/ Watch!TickTimesOut \/ Watch!Restart \/ Watch!Observe
      \/ \E l \in Login : Watch!ReadPositions(l) \/ Watch!ReadSnapshot(l)
  BY Zenon DEF Watch!Next, Watch!BrokerTrades, Watch!NextDay, Watch!tick, Watch!memory
<1> QED BY <1>1, <1>2, <1>3, <1>4, <1>6, <1>7, <1>8

\* The summary is crossed off at the day it is of.
LEMMA SummaryTypesStep == ASSUME SummaryTypes, Watch!Next PROVE SummaryTypes'
<1>1. CASE UNCHANGED <<wDay, summarySent, closedToday>>
  BY <1>1 DEF SummaryTypes
<1>2. CASE Watch!NextDay
  BY <1>2, WatchNumbers DEF Watch!NextDay, Watch!memory, SummaryTypes
<1>3. CASE Watch!StartTick
  <2>1. wDay' = wDay /\ summarySent' \in {summarySent, wDay} /\ closedToday' \in {closedToday, 0}
    BY <1>3 DEF Watch!StartTick, Watch!Summary
  <2> QED BY <2>1 DEF SummaryTypes
<1>4. CASE Watch!Restart
  BY <1>4, WatchNumbers DEF Watch!Restart, SummaryTypes
<1>5. CASE Watch!Observe
  <2> DEFINE closes == {l \in Login : Watch!Closes(l)}
  <2>1. UNCHANGED <<wDay, summarySent>>
    BY <1>5, Zenon DEF Watch!Observe
  <2>2. closedToday' = closedToday \/ closedToday' = closedToday + Watch!Cardinality(closes)
    BY <1>5, Zenon DEF Watch!Observe
  <2>3. Watch!Cardinality(closes) = Cardinality(closes)
    BY Zenon DEF Cardinality, Watch!Cardinality
  <2>4. IsFiniteSet(closes)
    BY WatchNumbers, FS_Subset
  <2>5. Cardinality(closes) \in Nat
    BY <2>4, FS_CardinalityType
  <2> HIDE DEF closes
  <2> QED BY <2>1, <2>2, <2>3, <2>5 DEF SummaryTypes
<1>6. \/ UNCHANGED <<wDay, summarySent, closedToday>>
      \/ Watch!NextDay \/ Watch!StartTick \/ Watch!Restart \/ Watch!Observe
  BY Zenon DEF Watch!Next, Watch!BrokerTrades, Watch!ReadPositions, Watch!ReadSnapshot,
     Watch!TickTimesOut, Watch!memory
<1> QED BY <1>1, <1>2, <1>3, <1>4, <1>5, <1>6

LEMMA WatchTypesStep == ASSUME WatchTypes, Watch!Next PROVE WatchTypes'
<1>1. seeded' \in BOOLEAN
  <2>1. seeded' = seeded \/ seeded' = TRUE \/ seeded' = FALSE
    BY Zenon DEF Watch!Next, Watch!BrokerTrades, Watch!ReadPositions, Watch!ReadSnapshot,
       Watch!NextDay, Watch!StartTick, Watch!Observe, Watch!TickTimesOut, Watch!Restart,
       Watch!memory
  <2> QED BY <2>1, Zenon DEF WatchTypes
<1> QED BY <1>1, BrokerTypesStep, TickTypesStep, SummaryTypesStep DEF WatchTypes

LEMMA WatchTypesStutter == ASSUME WatchTypes, UNCHANGED WatchVars PROVE WatchTypes'
BY Zenon DEF WatchTypes, BrokerTypes, TickTypes, SummaryTypes, WatchVars

LEMMA WatchTyped == ASSUME WatchTypes PROVE Watch!TypeOK
<1>1. net \in [Login -> -WatchQty..WatchQty] /\ positions \in [Login -> -WatchQty..WatchQty]
  BY DEF WatchTypes, BrokerTypes, TickTypes, Net
<1>2. realized \in [Login -> -MaxMoves..0]
  BY WatchNumbers DEF WatchTypes, BrokerTypes
<1>3. wAt \subseteq Login /\ Watch!Cardinality(wAt) = (IF wPhase = "snapshot" THEN 1 ELSE 0)
  <2>1. Watch!Cardinality(wAt) = Cardinality(wAt)
    BY Zenon DEF Cardinality, Watch!Cardinality
  <2>2. CASE wPhase = "snapshot"
    <3>1. PICK l \in Login : wAt = {l}
      BY <2>2, Zenon DEF WatchTypes, TickTypes
    <3>2. Cardinality(wAt) = 1
      BY <3>1, FS_Singleton
    <3> QED BY <2>1, <2>2, <3>1, <3>2
  <2>3. CASE wPhase # "snapshot"
    <3>1. wAt = {}
      BY <2>3, Zenon DEF WatchTypes, TickTypes
    <3> QED BY <2>1, <2>3, <3>1, FS_EmptySet
  <2> QED BY <2>2, <2>3
<1>4. \A l \in Login : raw[l] \in [ok : BOOLEAN, net : -WatchQty..WatchQty]
  BY DEF WatchTypes, TickTypes, Net
<1>5. /\ todo \subseteq Login /\ wPhase \in {"idle", "positions", "snapshot", "observe"}
      /\ summarySent \in 0..MaxDays /\ closedToday \in Nat
  BY DEF WatchTypes, TickTypes, SummaryTypes
<1>6. seeded \in BOOLEAN
  BY Zenon DEF WatchTypes
<1> QED BY <1>1, <1>2, <1>3, <1>4, <1>5, <1>6, Zenon DEF Watch!TypeOK

-----------------------------------------------------------------------------
(* The suite: a behaviour is one of one part, which keeps its invariant.   *)

PlatformInv ==
    /\ part = "Market" => MarketInv
    /\ part = "Paid" => PaidInv
    /\ part = "Rules" => RulesInv
    /\ part = "Backup" => BackupInv
    /\ part = "Stored" => StoredInv
    /\ part = "Journal" => JournalInv
    /\ part = "Watch" => WatchInv

LEMMA PlatformInit == ASSUME Init PROVE PlatformInv
<1>1. /\ part = "Market" => Market!Init
      /\ part = "Paid" => Paid!Init
      /\ part = "Rules" => Rules!Init
      /\ part = "Backup" => Backup!Init
      /\ part = "Stored" => Stored!Init
      /\ part = "Journal" => Journal!Init
      /\ part = "Watch" => Watch!Init
  BY DEF Init
<1> QED BY <1>1, MarketInit, PaidInit, RulesInit, BackupInit, StoredInit, JournalInit, WatchInit
        DEF PlatformInv

LEMMA PlatformStep == ASSUME PlatformInv, Next PROVE PlatformInv'
<1>1. CASE RunMarket
  <2>1. part = "Market" /\ part' = part /\ Market!Next
    BY <1>1 DEF RunMarket
  <2>2. MarketInv
    BY <2>1 DEF PlatformInv
  <2>3. MarketInv'
    BY <2>1, <2>2, MarketStep
  <2> QED BY <2>1, <2>3 DEF PlatformInv
<1>2. CASE RunPaid
  <2>1. part = "Paid" /\ part' = part /\ Paid!Next
    BY <1>2 DEF RunPaid
  <2>2. PaidInv
    BY <2>1 DEF PlatformInv
  <2>3. PaidInv'
    BY <2>1, <2>2, PaidStep
  <2> QED BY <2>1, <2>3 DEF PlatformInv
<1>3. CASE RunRules
  <2>1. part = "Rules" /\ part' = part /\ Rules!Next
    BY <1>3 DEF RunRules
  <2>2. RulesInv
    BY <2>1 DEF PlatformInv
  <2>3. RulesInv'
    BY <2>1, <2>2, RulesStep
  <2> QED BY <2>1, <2>3 DEF PlatformInv
<1>4. CASE RunBackup
  <2>1. part = "Backup" /\ part' = part /\ Backup!Next
    BY <1>4 DEF RunBackup
  <2>2. BackupInv
    BY <2>1 DEF PlatformInv
  <2>3. BackupInv'
    BY <2>1, <2>2, BackupStep
  <2> QED BY <2>1, <2>3 DEF PlatformInv
<1>5. CASE RunStored
  <2>1. part = "Stored" /\ part' = part /\ Stored!Next
    BY <1>5 DEF RunStored
  <2>2. StoredInv
    BY <2>1 DEF PlatformInv
  <2>3. StoredInv'
    BY <2>1, <2>2, StoredStep
  <2> QED BY <2>1, <2>3 DEF PlatformInv
<1>6. CASE RunJournal
  <2>1. part = "Journal" /\ part' = part /\ Journal!Next
    BY <1>6 DEF RunJournal
  <2>2. JournalInv
    BY <2>1 DEF PlatformInv
  <2>3. JournalInv'
    BY <2>1, <2>2, JournalStep
  <2> QED BY <2>1, <2>3 DEF PlatformInv
<1>7. CASE RunWatch
  <2>1. part = "Watch" /\ part' = part /\ Watch!Next
    BY <1>7 DEF RunWatch
  <2>2. WatchInv
    BY <2>1 DEF PlatformInv
  <2>3. WatchInv'
    BY <2>1, <2>2, WatchStep
  <2> QED BY <2>1, <2>3 DEF PlatformInv
<1>8. CASE RunDates
  <2>1. part' = part /\ part = "Dates"
    BY <1>8 DEF RunDates
  <2> QED BY <2>1 DEF PlatformInv
<1> QED BY <1>1, <1>2, <1>3, <1>4, <1>5, <1>6, <1>7, <1>8 DEF Next

LEMMA PlatformStutter == ASSUME PlatformInv, UNCHANGED vars PROVE PlatformInv'
<1>1. /\ part' = part /\ UNCHANGED MarketVars /\ UNCHANGED PaidVars /\ UNCHANGED RulesVars
      /\ UNCHANGED BackupVars /\ UNCHANGED StoredVars /\ UNCHANGED JournalVars
      /\ UNCHANGED WatchVars
  BY DEF vars
<1>2. RulesInv => RulesInv'
  <2>1. UNCHANGED <<lastFired, runs, aNow, started, firedAt, failedAt>>
    BY <1>1 DEF RulesVars
  <2> QED BY <2>1, RulesStutter
<1> QED BY <1>1, <1>2, MarketStutter, PaidStutter, BackupStutter, StoredStutter, JournalStutter,
        WatchStutter DEF PlatformInv

THEOREM PlatformInvariant == Spec => []PlatformInv
<1>1. Init => PlatformInv
  BY PlatformInit
<1>2. PlatformInv /\ [Next]_vars => PlatformInv'
  BY PlatformStep, PlatformStutter
<1> QED
  BY <1>1, <1>2, PTL DEF Spec

\* For any cap, any number of entries and any failures: no more of a day's entries run
\* than the subscriber's cap and one for each skip that gave back a slot it never had
\* (app/marketplace.py); and for any number of events, repeated and reordered, signals of a
\* paid listing flow only while its row is paid or, with a second checkout written over it,
\* the last event that was applied had paid it (app/payments.py).
THEOREM GatesHold == Spec => []MarketplaceGates
<1>1. PlatformInv => MarketplaceGates
  BY MarketSafe, PaidSafe DEF PlatformInv, MarketplaceGates
<1> QED
  BY <1>1, PlatformInvariant, PTL

\* For any fills, days, failed lists, late bookings and restarts: a round trip the import
\* crossed off is stored, each is stored once, and none is made of half a position while no
\* fill was missed (app/journal.py); and what the position watch has announced adds up to
\* what the broker last answered (app/watch.py).
THEOREM BooksStay == Spec => []BooksAreExact
<1>1. PlatformInv => BooksAreExact
  BY JournalSafe, WatchSafe DEF PlatformInv, BooksAreExact
<1> QED
  BY <1>1, PlatformInvariant, PTL

\* For any number of snapshots, faults, areas and saves: the newest verified snapshot
\* stays and an update or rollback ends with a restart scheduled only when the requirements
\* of the checkout are installed (app/backups.py, app/updater.py); an index of
\* webhooks that counts as current is exact and the newest version is what is stored
\* (app/config.py).
THEOREM StoredStays == Spec => []StoredIsKept
<1>1. PlatformInv => StoredIsKept
  BY BackupSafe, StoredSafe DEF PlatformInv, StoredIsKept
<1> QED
  BY <1>1, PlatformInvariant, PTL

\* For any rules, pauses, areas and switches of trading: no step begins an entry while
\* trading is off, fires a rule before its pause is over, or changes a stored setting
\* beside the one that is saved (app/marketplace.py, app/automations.py, app/config.py).
THEOREM StepsKept == Spec => StepsAllowed
<1>1. PlatformInv /\ [Next]_vars
        => [/\ part = "Market" => Market!OffStep
            /\ part = "Rules" => Rules!PacedStep
            /\ part = "Stored" => Stored!OneKeyStep]_vars
  <2> SUFFICES ASSUME PlatformInv, Next
               PROVE  /\ part = "Market" => Market!OffStep
                      /\ part = "Rules" => Rules!PacedStep
                      /\ part = "Stored" => Stored!OneKeyStep
    OBVIOUS
  <2>1. /\ part = "Market" => Market!Next
        /\ part = "Rules" => Rules!Next
        /\ part = "Stored" => Stored!Next
    BY DEF Next, RunMarket, RunPaid, RunJournal, RunWatch, RunRules, RunBackup, RunStored,
       RunDates
  <2> QED
    BY <2>1, MarketOff, RulesStep, StoredStep DEF PlatformInv
<1> QED
  BY <1>1, PlatformInvariant, PTL DEF Spec, StepsAllowed

-----------------------------------------------------------------------------
(* The types of the suite, beside what the invariant says of its parts.    *)

PlatformTypes ==
    /\ part = "Market" => MarketBounds
    /\ part = "Paid" => PaidTypes
    /\ part = "Rules" => RulesTypes
    /\ part = "Backup" => BackupTypes
    /\ part = "Stored" => StoredTypes
    /\ part = "Journal" => JournalTypes
    /\ part = "Watch" => WatchTypes

LEMMA PlatformTypesInit == ASSUME Init PROVE PlatformTypes
<1>1. /\ part = "Market" => Market!Init
      /\ part = "Paid" => Paid!Init
      /\ part = "Rules" => Rules!Init
      /\ part = "Backup" => Backup!Init
      /\ part = "Stored" => Stored!Init
      /\ part = "Journal" => Journal!Init
      /\ part = "Watch" => Watch!Init
  BY DEF Init
<1> QED BY <1>1, BoundsInit, TypesInit, RulesTypesInit, BackupTypesInit, StoredTypesInit,
        JournalTypesInit, WatchTypesInit DEF PlatformTypes

LEMMA PlatformTypesStep == ASSUME PlatformInv, PlatformTypes, Next PROVE PlatformTypes'
<1>1. CASE RunMarket
  <2>1. part = "Market" /\ part' = part /\ Market!Next
    BY <1>1 DEF RunMarket
  <2>2. MarketInv /\ MarketBounds
    BY <2>1 DEF PlatformInv, PlatformTypes
  <2>3. MarketBounds'
    BY <2>1, <2>2, BoundsStep
  <2> QED BY <2>1, <2>3 DEF PlatformTypes
<1>2. CASE RunPaid
  <2>1. part = "Paid" /\ part' = part /\ Paid!Next
    BY <1>2 DEF RunPaid
  <2>2. PaidInv /\ PaidTypes
    BY <2>1 DEF PlatformInv, PlatformTypes
  <2>3. PaidTypes'
    BY <2>1, <2>2, PaidTypesStep
  <2> QED BY <2>1, <2>3 DEF PlatformTypes
<1>3. CASE RunRules
  <2>1. part = "Rules" /\ part' = part /\ Rules!Next
    BY <1>3 DEF RunRules
  <2>2. RulesInv /\ RulesTypes
    BY <2>1 DEF PlatformInv, PlatformTypes
  <2>3. RulesTypes'
    BY <2>1, <2>2, RulesTypesStep
  <2> QED BY <2>1, <2>3 DEF PlatformTypes
<1>4. CASE RunBackup
  <2>1. part = "Backup" /\ part' = part /\ Backup!Next
    BY <1>4 DEF RunBackup
  <2>2. BackupInv /\ BackupTypes
    BY <2>1 DEF PlatformInv, PlatformTypes
  <2>3. BackupTypes'
    BY <2>1, <2>2, BackupTypesStep
  <2> QED BY <2>1, <2>3 DEF PlatformTypes
<1>5. CASE RunStored
  <2>1. part = "Stored" /\ part' = part /\ Stored!Next
    BY <1>5 DEF RunStored
  <2>2. StoredInv /\ StoredTypes
    BY <2>1 DEF PlatformInv, PlatformTypes
  <2>3. StoredTypes'
    BY <2>1, <2>2, StoredTypesStep
  <2> QED BY <2>1, <2>3 DEF PlatformTypes
<1>6. CASE RunJournal
  <2>1. part = "Journal" /\ part' = part /\ Journal!Next
    BY <1>6 DEF RunJournal
  <2>2. JournalInv /\ JournalTypes
    BY <2>1 DEF PlatformInv, PlatformTypes
  <2>3. JournalTypes'
    BY <2>1, <2>2, JournalTypesStep
  <2> QED BY <2>1, <2>3 DEF PlatformTypes
<1>7. CASE RunWatch
  <2>1. part = "Watch" /\ part' = part /\ Watch!Next
    BY <1>7 DEF RunWatch
  <2>2. WatchInv /\ WatchTypes
    BY <2>1 DEF PlatformInv, PlatformTypes
  <2>3. WatchTypes'
    BY <2>1, <2>2, WatchTypesStep
  <2> QED BY <2>1, <2>3 DEF PlatformTypes
<1>8. CASE RunDates
  <2>1. part' = part /\ part = "Dates"
    BY <1>8 DEF RunDates
  <2> QED BY <2>1 DEF PlatformTypes
<1> QED BY <1>1, <1>2, <1>3, <1>4, <1>5, <1>6, <1>7, <1>8 DEF Next

LEMMA PlatformTypesStutter == ASSUME PlatformTypes, UNCHANGED vars PROVE PlatformTypes'
<1>1. /\ part' = part /\ UNCHANGED MarketVars /\ UNCHANGED PaidVars /\ UNCHANGED RulesVars
      /\ UNCHANGED BackupVars /\ UNCHANGED StoredVars /\ UNCHANGED JournalVars
      /\ UNCHANGED WatchVars
  BY DEF vars
<1> QED BY <1>1, BoundsStutter, PaidTypesStutter, RulesTypesStutter, BackupTypesStutter,
        StoredTypesStutter, JournalTypesStutter, WatchTypesStutter DEF PlatformTypes

\* For any bounds: every part but the calendar keeps the types of its module; among them,
\* one signal of a subscription runs at a time and its errors in a row stay below the
\* number that pauses it (app/marketplace.py), and each journal row is over two fills of
\* opposite sides under a key of its own (app/journal.py).
THEOREM TypesCorrect == Spec => []TypeOK
<1>1. Init => PlatformTypes
  BY PlatformTypesInit
<1>2. PlatformInv /\ PlatformTypes /\ [Next]_vars => PlatformTypes'
  BY PlatformTypesStep, PlatformTypesStutter
<1>3. PlatformInv /\ PlatformTypes => TypeOK
  BY MarketTyped, PaidTyped, RulesTyped, BackupTyped, StoredTyped, JournalTyped, WatchTyped
     DEF PlatformInv, PlatformTypes, TypeOK
<1>4. Spec => []PlatformTypes
  BY <1>1, <1>2, PlatformInvariant, PTL DEF Spec
<1> QED
  BY <1>3, <1>4, PlatformInvariant, PTL
=============================================================================
