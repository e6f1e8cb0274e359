------------------------- MODULE TradingStopsProofs -------------------------
(***************************************************************************)
(* Proofs of TradingSafety, first part: what is held and the stops that    *)
(* protect it, at the entry (ProtectiveStop), through the updates of the   *)
(* protection (ProtectionUpdate) and through the closes (TsHunterTrade),   *)
(* for any quantities, percentages and numbers of signals, updates and     *)
(* faults.  Each keeps an inductive invariant of its own.  What exits      *)
(* closed is a sum over a finite set, which is reasoned about by the least *)
(* counterexample.  TradingProofs draws the conclusions.                   *)
(***************************************************************************)
EXTENDS TradingSafety, SequenceTheorems, FiniteSetTheorems, WellFoundedInduction, TLAPS

-----------------------------------------------------------------------------
(* Sums over finite sets                                                   *)

\* Every set of naturals has a least element.
LEMMA LeastNatural ==
    ASSUME NEW T, T \subseteq Nat, T # {}
    PROVE  \E n \in T : \A m \in T : n <= m
<1> DEFINE R == {p \in Nat \X Nat : p[1] < p[2]}
<1>1. IsWellFoundedOn(R, Nat)
  BY NatLessThanWellFounded DEF OpToRel
<1>2. \A x, y \in Nat : y < x => <<y, x>> \in R
  OBVIOUS
<1> HIDE DEF R
<1>3. \E x \in T : \A y \in T : <<y, x>> \notin R
  BY <1>1, WFMin
<1>4. PICK n \in T : \A y \in T : <<y, n>> \notin R
  BY <1>3
<1>5. \A m \in T : n <= m
  <2> TAKE m \in T
  <2>1. n \in Nat /\ m \in Nat /\ ~(m < n)
    BY <1>2, <1>4
  <2> QED BY <2>1
<1> QED BY <1>5

\* A family that has a set once it has what is left without any one element of it has
\* every subset of a finite set.
LEMMA FiniteFamily ==
    ASSUME NEW S, IsFiniteSet(S), NEW F, {} \in F,
           \A s \in SUBSET S : s # {} /\ (\A x \in s : s \ {x} \in F) => s \in F
    PROVE  \A s \in SUBSET S : s \in F
<1> DEFINE Bad == {s \in SUBSET S : s \notin F}
           Sizes == {n \in Nat : \E s \in Bad : Cardinality(s) = n}
<1>1. \A s \in SUBSET S : IsFiniteSet(s) /\ Cardinality(s) \in Nat
  BY FS_Subset, FS_CardinalityType
<1> SUFFICES ASSUME Bad # {} PROVE FALSE
  OBVIOUS
<1>2. Sizes \subseteq Nat /\ Sizes # {}
  BY <1>1
<1> HIDE DEF Sizes
<1>3. PICK n \in Sizes : \A m \in Sizes : n <= m
  BY <1>2, LeastNatural
<1>4. PICK s \in Bad : Cardinality(s) = n
  BY <1>3 DEF Sizes
<1>5. s \in SUBSET S /\ s # {}
  BY <1>4
<1>6. ASSUME NEW x \in s PROVE s \ {x} \in F
  <2>1. IsFiniteSet(s) /\ Cardinality(s \ {x}) = n - 1 /\ n \in Nat /\ Cardinality(s \ {x}) \in Nat
    BY <1>1, <1>4, <1>5, FS_RemoveElement
  <2>2. SUFFICES ASSUME s \ {x} \in Bad PROVE FALSE
    BY <1>5
  <2>3. n - 1 \in Sizes
    BY <2>1, <2>2 DEF Sizes
  <2>4. n <= n - 1
    BY <1>3, <2>3
  <2> QED BY <2>1, <2>4
<1> QED BY <1>4, <1>5, <1>6

\* A sum that may take its terms in any order.
Adds(g, S) ==
    /\ g \in [SUBSET S -> Int] /\ g[{}] = 0
    /\ \A t \in SUBSET S : \A y \in t : g[t] = Bracket!Size(y) + g[t \ {y}]

\* Every finite set of quantities has one.
LEMMA SumExists ==
    ASSUME NEW S, IsFiniteSet(S), \A o \in S : Bracket!Size(o) \in Int
    PROVE  \E g : Adds(g, S)
<1> DEFINE F == {s \in SUBSET S : \E g : Adds(g, s)}
<1>1. {} \in F
  <2>1. Adds([t \in SUBSET {} |-> 0], {})
    BY DEF Adds
  <2> QED BY <2>1
<1>2. ASSUME NEW s \in SUBSET S, s # {}, \A x \in s : s \ {x} \in F PROVE s \in F
  <2>1. PICK x \in s : TRUE
    BY <1>2
  <2>2. PICK g : Adds(g, s \ {x})
    BY <1>2, <2>1
  <2>3. Bracket!Size(x) \in Int
    BY <2>1
  <2> DEFINE h == [t \in SUBSET s |-> IF x \in t THEN Bracket!Size(x) + g[t \ {x}] ELSE g[t]]
  <2>4. h \in [SUBSET s -> Int] /\ h[{}] = 0
    <3>1. \A t \in SUBSET s : t \ {x} \in SUBSET (s \ {x})
      OBVIOUS
    <3>2. \A t \in SUBSET s : x \notin t => t \in SUBSET (s \ {x})
      OBVIOUS
    <3>3. {} \in SUBSET s /\ x \notin {}
      OBVIOUS
    <3> QED BY <2>2, <2>3, <3>1, <3>2, <3>3 DEF Adds
  <2>5. ASSUME NEW t \in SUBSET s, NEW y \in t PROVE h[t] = Bracket!Size(y) + h[t \ {y}]
    <3>1. t \ {y} \in SUBSET s
      OBVIOUS
    <3>2. CASE y = x
      <4>1. x \notin t \ {y} /\ t \ {y} = t \ {x} /\ x \in t
        BY <3>2
      <4> QED BY <3>1, <3>2, <4>1
    <3>3. CASE y # x /\ x \in t
      <4>1. /\ y \in t \ {x} /\ t \ {x} \in SUBSET (s \ {x}) /\ x \in t \ {y}
            /\ (t \ {x}) \ {y} = (t \ {y}) \ {x} /\ (t \ {y}) \ {x} \in SUBSET (s \ {x})
        BY <3>3
      <4>2. g[t \ {x}] = Bracket!Size(y) + g[(t \ {y}) \ {x}]
        BY <2>2, <4>1 DEF Adds
      <4>3. h[t] = Bracket!Size(x) + g[t \ {x}]
        BY <3>3
      <4>4. h[t \ {y}] = Bracket!Size(x) + g[(t \ {y}) \ {x}]
        BY <3>1, <4>1
      <4>5. Bracket!Size(y) \in Int /\ g[(t \ {y}) \ {x}] \in Int
        BY <2>2, <4>1 DEF Adds
      <4> HIDE DEF h
      <4> QED BY <2>3, <4>2, <4>3, <4>4, <4>5
    <3>4. CASE y # x /\ x \notin t
      <4>1. t \in SUBSET (s \ {x}) /\ x \notin t \ {y}
        BY <3>4
      <4> QED BY <2>2, <3>1, <3>4, <4>1 DEF Adds
    <3> QED BY <3>2, <3>3, <3>4
  <2>6. Adds(h, s)
    BY <2>4, <2>5 DEF Adds
  <2> QED BY <2>6
<1> HIDE DEF F
<1>3. \A s \in SUBSET S : s \in F
  BY <1>1, <1>2, FiniteFamily
<1> QED BY <1>3 DEF F

\* The fold over a set is that sum.
LEMMA FoldIsSum ==
    ASSUME NEW S, IsFiniteSet(S), NEW g, Adds(g, S), NEW T \in SUBSET S
    PROVE  Bracket!MapThenSumSet(Bracket!Size, T) = g[T]
<1> DEFINE Sums(k) == k = [s \in SUBSET T |-> IF s = {} THEN 0
                             ELSE LET x == CHOOSE y \in s : TRUE IN Bracket!Size(x) + k[s \ {x}]]
           f == CHOOSE k : Sums(k)
           r == [s \in SUBSET T |-> g[s]]
<1>1. Sums(r)
  <2>1. ASSUME NEW s \in SUBSET T
        PROVE r[s] = IF s = {} THEN 0
                     ELSE LET x == CHOOSE y \in s : TRUE IN Bracket!Size(x) + r[s \ {x}]
    <3>1. CASE s = {}
      BY <3>1 DEF Adds
    <3>2. CASE s # {}
      <4>1. (CHOOSE y \in s : TRUE) \in s
        BY <3>2
      <4>2. s \in SUBSET S /\ \A x \in s : s \ {x} \in SUBSET T
        OBVIOUS
      <4> QED BY <3>2, <4>1, <4>2 DEF Adds
    <3> QED BY <3>1, <3>2
  <2> QED BY <2>1
<1>2. Sums(f)
  BY <1>1
<1>3. Bracket!MapThenSumSet(Bracket!Size, T) = f[T]
  BY DEF Bracket!MapThenSumSet, Bracket!MapThenFoldSet
<1> HIDE DEF f, r
<1> DEFINE F == {s \in SUBSET T : f[s] = g[s]}
<1>4. {} \in F
  <2>1. f[{}] = 0
    BY <1>2
  <2> QED BY <2>1 DEF Adds
<1>5. ASSUME NEW s \in SUBSET T, s # {}, \A x \in s : s \ {x} \in F PROVE s \in F
  <2>1. PICK x \in s : x = CHOOSE y \in s : TRUE
    BY <1>5
  <2>2. f[s] = Bracket!Size(x) + f[s \ {x}]
    BY <1>2, <1>5, <2>1
  <2>3. g[s] = Bracket!Size(x) + g[s \ {x}]
    BY <2>1 DEF Adds
  <2>4. f[s \ {x}] = g[s \ {x}]
    BY <1>5, <2>1
  <2> QED BY <2>2, <2>3, <2>4
<1> HIDE DEF F
<1>6. IsFiniteSet(T)
  BY FS_Subset
<1>7. \A s \in SUBSET T : s \in F
  BY <1>4, <1>5, <1>6, FiniteFamily
<1> QED BY <1>3, <1>7 DEF F

-----------------------------------------------------------------------------
(* TsHunterTrade: what a close that reports success has closed.            *)
(* The record and the position part only where the last close has said so: *)
(* as long as a stop works, the trade holds what its record says.          *)

\* The record goes with where the handler stands and with the last answer.
Kept(t) ==
    /\ tPc[t] = "new" => ~tRec[t].tracked /\ share[t] = 0 /\ stop[t] = 0
         /\ result[t] = "none" /\ t \notin stale
    /\ tRec[t].tracked => result[t] \in {"none", "ok", "error"}
    /\ tRec[t].tracked /\ tRec[t].remaining = Hunter!Unknown => result[t] = "error"
    /\ tRec[t].tracked \/ tPc[t] = "new" \/ result[t] \in {"closed", "flattened", "error"}
    /\ tPc[t] \in {"partial", "adjust", "cancel", "close", "recancel"} =>
         tRec[t].tracked /\ tRec[t].remaining >= 0
    /\ tPc[t] \in {"adjust", "cancel", "recancel"} => tRec[t].sl
    /\ tPc[t] = "cancel" => ~trouble[t]
    /\ tPc[t] = "close" /\ trouble[t] => tRec[t].sl
    /\ tPc[t] = "partial" => qty[t] \in 1 .. tRec[t].remaining
    /\ tPc[t] \in {"sweep", "liquidate", "resweep"} =>
         ~tRec[t].tracked \/ tRec[t].remaining = Hunter!Unknown

\* What a trade holds that no close has left with a record that is not so.
Holds(t) ==
    /\ tPc[t] = "idle" /\ result[t] = "closed" => share[t] = 0 /\ stop[t] = 0
    /\ tRec[t].tracked /\ tRec[t].remaining >= 0
         /\ tPc[t] \in {"idle", "partial", "adjust", "cancel", "close"} =>
         /\ stop[t] > 0 => share[t] = tRec[t].remaining /\ stop[t] >= tRec[t].remaining
         /\ ~tRec[t].sl => share[t] = tRec[t].remaining /\ stop[t] = 0
    /\ tRec[t].tracked /\ tRec[t].sl /\ tPc[t] = "idle" /\ result[t] # "error" =>
         share[t] = stop[t] /\ stop[t] \in {0, tRec[t].remaining}
    /\ tPc[t] = "close" /\ ~trouble[t] => share[t] = tRec[t].remaining /\ stop[t] = 0
    /\ tPc[t] = "recancel" /\ stop[t] > 0 => share[t] = 0

HunterInv ==
    Hunter!TypeOK /\ \A t \in HunterTrade : Kept(t) /\ (t \notin stale => Holds(t))

\* No trade has begun.
LEMMA HunterInit == ASSUME Hunter!Init PROVE HunterInv
<1> USE HunterAssumption DEF Hunter!QtyAssumption
<1>1. [tracked |-> FALSE, remaining |-> 0, sl |-> FALSE] \in Hunter!Record
  BY DEF Hunter!Record
<1>2. Hunter!TypeOK
  BY <1>1 DEF Hunter!Init, Hunter!TypeOK
<1>3. ASSUME NEW t \in HunterTrade PROVE Kept(t) /\ Holds(t)
  BY DEF Hunter!Init, Kept, Holds
<1> QED BY <1>2, <1>3 DEF HunterInv

\* A partial close sends at least one contract and no more than remain.
LEMMA ToCloseBounds ==
    ASSUME NEW n \in Nat, n > 0, NEW p \in 1 .. 100 PROVE Hunter!ToClose(n, p) \in 1 .. n
<1>1. n * p \in Int
  OBVIOUS
<1>2. \A k \in Int : Hunter!Rounded(k, 100) \in Int
  BY DEF Hunter!Rounded
<1>3. Hunter!Rounded(n * p, 100) \in Int
  BY <1>1, <1>2
<1> DEFINE r == Hunter!Rounded(n * p, 100)
<1>4. Hunter!ToClose(n, p) = LET some == IF r < n THEN r ELSE n IN IF some > 1 THEN some ELSE 1
  BY DEF Hunter!ToClose
<1>5. r \in Int
  BY <1>3
<1> HIDE DEF r
<1> QED BY <1>4, <1>5

\* A step of one trade that leaves the others alone.
LEMMA HunterLocal ==
    ASSUME HunterInv, NEW t \in HunterTrade, Hunter!TypeOK', stale \subseteq stale',
           \A u \in HunterTrade \ {t} :
             /\ tRec'[u] = tRec[u] /\ share'[u] = share[u] /\ stop'[u] = stop[u]
             /\ tPc'[u] = tPc[u] /\ qty'[u] = qty[u] /\ trouble'[u] = trouble[u]
             /\ result'[u] = result[u] /\ (u \in stale' => u \in stale),
           Kept(t)', t \notin stale' => Holds(t)'
    PROVE  HunterInv'
<1>1. ASSUME NEW u \in HunterTrade, u # t PROVE Kept(u)' /\ (u \notin stale' => Holds(u)')
  BY <1>1 DEF HunterInv, Kept, Holds
<1> QED BY <1>1 DEF HunterInv

\* An entry begins a trade, with or without a stop.
LEMMA EnterHunterInv == ASSUME HunterInv, NEW t \in HunterTrade, Hunter!Enter(t) PROVE HunterInv'
<1> USE HunterAssumption DEF Hunter!QtyAssumption
<1>1. PICK sl \in BOOLEAN :
        /\ tRec' = [tRec EXCEPT ![t] = [tracked |-> TRUE, remaining |-> HunterQty, sl |-> sl]]
        /\ stop' = [stop EXCEPT ![t] = IF sl THEN HunterQty ELSE 0]
  BY DEF Hunter!Enter
<1>2. /\ tPc[t] = "new" /\ tPc' = [tPc EXCEPT ![t] = "idle"]
      /\ share' = [share EXCEPT ![t] = HunterQty]
      /\ UNCHANGED <<qty, trouble, result, signals, stale>>
  BY DEF Hunter!Enter, Hunter!Goto
<1>3. [tracked |-> TRUE, remaining |-> HunterQty, sl |-> sl] \in Hunter!Record
  BY DEF Hunter!Record
<1>4. Hunter!TypeOK'
  BY <1>1, <1>2, <1>3 DEF HunterInv, Hunter!TypeOK
<1>5. /\ tRec'[t] = [tracked |-> TRUE, remaining |-> HunterQty, sl |-> sl]
      /\ stop'[t] = (IF sl THEN HunterQty ELSE 0) /\ tPc'[t] = "idle" /\ share'[t] = HunterQty
      /\ result'[t] = "none"
  BY <1>1, <1>2 DEF HunterInv, Kept, Hunter!TypeOK
<1>6. Kept(t)' /\ Holds(t)'
  BY <1>5 DEF Kept, Holds, Hunter!Unknown
<1>7. \A u \in HunterTrade \ {t} :
        /\ tRec'[u] = tRec[u] /\ share'[u] = share[u] /\ stop'[u] = stop[u]
        /\ tPc'[u] = tPc[u] /\ qty'[u] = qty[u] /\ trouble'[u] = trouble[u]
        /\ result'[u] = result[u] /\ (u \in stale' => u \in stale)
  BY <1>1, <1>2 DEF HunterInv, Hunter!TypeOK
<1> QED BY <1>2, <1>4, <1>6, <1>7, HunterLocal

\* The stop fills: what it closes is what its trade holds.
LEMMA StopFillInv == ASSUME HunterInv, NEW t \in HunterTrade, Hunter!StopFill(t) PROVE HunterInv'
<1> USE HunterAssumption DEF Hunter!QtyAssumption
<1>1. /\ stop[t] > 0 /\ share' = [share EXCEPT ![t] = @ - stop[t]]
      /\ stop' = [stop EXCEPT ![t] = 0]
      /\ UNCHANGED <<tRec, tPc, qty, trouble, result, signals, stale>>
  BY DEF Hunter!StopFill, Hunter!Sell
<1>2. /\ share[t] \in Int /\ stop[t] \in 0 .. HunterQty /\ tRec[t].remaining \in Int
      /\ share'[t] = share[t] - stop[t] /\ stop'[t] = 0
  BY <1>1 DEF HunterInv, Hunter!TypeOK, Hunter!Record, Hunter!Unknown
<1>3. Hunter!TypeOK'
  BY <1>1, <1>2 DEF HunterInv, Hunter!TypeOK
<1>4. Kept(t)'
  BY <1>1, <1>2 DEF HunterInv, Kept
<1>5. t \notin stale => Holds(t)'
  <2> SUFFICES ASSUME t \notin stale PROVE Holds(t)'
    OBVIOUS
  <2>1. Holds(t) /\ Kept(t)
    BY DEF HunterInv
  <2> QED BY <1>1, <1>2, <2>1 DEF Kept, Holds
<1>6. \A u \in HunterTrade \ {t} :
        /\ tRec'[u] = tRec[u] /\ share'[u] = share[u] /\ stop'[u] = stop[u]
        /\ tPc'[u] = tPc[u] /\ qty'[u] = qty[u] /\ trouble'[u] = trouble[u]
        /\ result'[u] = result[u] /\ (u \in stale' => u \in stale)
  BY <1>1 DEF HunterInv, Hunter!TypeOK
<1> QED BY <1>1, <1>3, <1>4, <1>5, <1>6, HunterLocal

\* A signal counts, and keeps its bound.
LEMMA SignalTypes ==
    ASSUME HunterInv, NEW t \in HunterTrade, Hunter!Signal(t)
    PROVE  signals' \in [HunterTrade -> 0 .. MaxSignals] /\ tPc[t] = "idle"
<1> USE HunterAssumption DEF Hunter!QtyAssumption
<1>1. tPc[t] = "idle" /\ signals[t] < MaxSignals /\ signals' = [signals EXCEPT ![t] = @ + 1]
  BY DEF Hunter!Signal
<1>2. signals \in [HunterTrade -> 0 .. MaxSignals] /\ MaxSignals \in Nat
  BY DEF HunterInv, Hunter!TypeOK
<1> QED BY <1>1, <1>2

\* A partial close is refused, or begins with contracts that remain.
LEMMA PartialCloseInv ==
    ASSUME HunterInv, NEW t \in HunterTrade, Hunter!PartialClose(t) PROVE HunterInv'
<1> USE HunterAssumption DEF Hunter!QtyAssumption
<1>1. /\ Hunter!Signal(t) /\ tRec[t].tracked /\ tRec[t].remaining # 0
      /\ UNCHANGED <<tRec, share, stop, trouble, stale>>
  BY DEF Hunter!PartialClose
<1>2. signals' \in [HunterTrade -> 0 .. MaxSignals] /\ tPc[t] = "idle"
  BY <1>1, SignalTypes
<1>3. tRec[t] \in Hunter!Record /\ tPc \in [HunterTrade -> {"new", "idle"} \cup Hunter!Busy]
      /\ result \in [HunterTrade -> {"none", "ok", "error", "closed", "flattened"}]
      /\ qty \in [HunterTrade -> 0 .. HunterQty]
  BY DEF HunterInv, Hunter!TypeOK
<1>4. Kept(t) /\ (t \notin stale => Holds(t))
  BY DEF HunterInv
<1>5. CASE tRec[t].remaining = Hunter!Unknown
  <2>1. /\ tPc' = [tPc EXCEPT ![t] = "idle"] /\ result' = [result EXCEPT ![t] = "error"]
        /\ qty' = qty
    BY <1>5 DEF Hunter!PartialClose, Hunter!Return, Hunter!Goto
  <2>2. Hunter!TypeOK'
    BY <1>1, <1>2, <2>1 DEF HunterInv, Hunter!TypeOK
  <2>3. tPc'[t] = "idle" /\ result'[t] = "error"
    BY <1>3, <2>1
  <2>4. Kept(t)' /\ (t \notin stale => Holds(t)')
    BY <1>1, <1>2, <1>4, <2>1, <2>3 DEF Kept, Holds
  <2>5. \A u \in HunterTrade \ {t} : tPc'[u] = tPc[u] /\ result'[u] = result[u]
    BY <1>3, <2>1
  <2> QED BY <1>1, <2>1, <2>2, <2>4, <2>5, HunterLocal
<1>6. CASE tRec[t].remaining # Hunter!Unknown
  <2>1. PICK p \in Percent : qty' = [qty EXCEPT ![t] = Hunter!ToClose(tRec[t].remaining, p)]
    BY <1>6 DEF Hunter!PartialClose
  <2>2. tPc' = [tPc EXCEPT ![t] = "partial"] /\ result' = result
    BY <1>6 DEF Hunter!PartialClose, Hunter!Goto
  <2>3. tRec[t].remaining \in Nat /\ tRec[t].remaining > 0 /\ tRec[t].remaining <= HunterQty
    BY <1>1, <1>3, <1>6 DEF Hunter!Record
  <2>4. p \in 1 .. 100
    BY DEF Hunter!PercentAssumption
  <2>5. Hunter!ToClose(tRec[t].remaining, p) \in 1 .. tRec[t].remaining
    BY <2>3, <2>4, ToCloseBounds
  <2>6. qty'[t] \in 1 .. tRec[t].remaining /\ tPc'[t] = "partial"
    BY <1>3, <2>1, <2>2, <2>5
  <2>7. qty' \in [HunterTrade -> 0 .. HunterQty]
    BY <1>3, <2>1, <2>3, <2>5
  <2>8. Hunter!TypeOK'
    BY <1>1, <1>2, <2>2, <2>7 DEF HunterInv, Hunter!TypeOK, Hunter!Busy
  <2>9. Kept(t)' /\ (t \notin stale => Holds(t)')
    BY <1>1, <1>2, <1>4, <2>2, <2>3, <2>6 DEF Kept, Holds, Hunter!Unknown
  <2>10. \A u \in HunterTrade \ {t} : tPc'[u] = tPc[u] /\ qty'[u] = qty[u]
    BY <1>3, <2>1, <2>2
  <2> QED BY <1>1, <2>2, <2>8, <2>9, <2>10, HunterLocal
<1> QED BY <1>5, <1>6

\* How a close ends.
LEMMA HunterReturns ==
    ASSUME HunterInv, NEW t \in HunterTrade,
           NEW r \in {"ok", "error", "closed", "flattened"}, Hunter!Return(t, r)
    PROVE  /\ tPc' \in [HunterTrade -> {"new", "idle"} \cup Hunter!Busy]
           /\ result' \in [HunterTrade -> {"none", "ok", "error", "closed", "flattened"}]
           /\ tPc'[t] = "idle" /\ result'[t] = r
           /\ \A u \in HunterTrade \ {t} : tPc'[u] = tPc[u] /\ result'[u] = result[u]
BY DEF Hunter!Return, Hunter!Goto, HunterInv, Hunter!TypeOK

\* Where a handler goes on.
LEMMA HunterGoes ==
    ASSUME HunterInv, NEW t \in HunterTrade, NEW l \in Hunter!Busy, Hunter!Goto(t, l)
    PROVE  /\ tPc' \in [HunterTrade -> {"new", "idle"} \cup Hunter!Busy]
           /\ tPc'[t] = l /\ \A u \in HunterTrade \ {t} : tPc'[u] = tPc[u]
BY DEF Hunter!Goto, HunterInv, Hunter!TypeOK

\* A market order that was accepted.
LEMMA HunterSells ==
    ASSUME HunterInv, NEW t \in HunterTrade, NEW n \in Int, Hunter!Sell(t, n)
    PROVE  /\ share' \in [HunterTrade -> Int] /\ share'[t] = share[t] - n
           /\ \A u \in HunterTrade \ {t} : share'[u] = share[u]
BY DEF Hunter!Sell, HunterInv, Hunter!TypeOK

\* The order may have been sent.
LEMMA HunterSellLost ==
    ASSUME HunterInv, NEW t \in HunterTrade, NEW n \in Int, Hunter!SellLost(t, n)
    PROVE  /\ share' \in [HunterTrade -> Int]
           /\ \A u \in HunterTrade \ {t} : share'[u] = share[u]
BY DEF Hunter!SellLost, HunterInv, Hunter!TypeOK

\* The record's quantity alone changes.
LEMMA HunterRemaining ==
    ASSUME HunterInv, NEW t \in HunterTrade, NEW n \in {Hunter!Unknown} \cup 0 .. HunterQty,
           Hunter!Remaining(t, n)
    PROVE  /\ tRec' \in [HunterTrade -> Hunter!Record]
           /\ tRec'[t].remaining = n /\ tRec'[t].tracked = tRec[t].tracked
           /\ tRec'[t].sl = tRec[t].sl
           /\ \A u \in HunterTrade \ {t} : tRec'[u] = tRec[u]
BY DEF Hunter!Remaining, Hunter!Record, HunterInv, Hunter!TypeOK

\* The account leaves the record.
LEMMA HunterUntracks ==
    ASSUME HunterInv, NEW t \in HunterTrade, Hunter!Untrack(t)
    PROVE  /\ tRec' \in [HunterTrade -> Hunter!Record]
           /\ ~tRec'[t].tracked
           /\ \A u \in HunterTrade \ {t} : tRec'[u] = tRec[u]
BY DEF Hunter!Untrack, Hunter!Record, HunterInv, Hunter!TypeOK

\* A change of the stop that is refused or lost took effect or not.
LEMMA HunterStops ==
    ASSUME HunterInv, NEW t \in HunterTrade, NEW n \in 0 .. HunterQty,
           Hunter!StopSet(t, n) \/ Hunter!StopFails(t, n)
    PROVE  /\ stop' \in [HunterTrade -> 0 .. HunterQty]
           /\ Hunter!StopSet(t, n) => stop[t] > 0 /\ stop'[t] = n
           /\ stop'[t] \in {stop[t], IF stop[t] > 0 THEN n ELSE 0}
           /\ \A u \in HunterTrade \ {t} : stop'[u] = stop[u]
<1>1. stop \in [HunterTrade -> 0 .. HunterQty]
  BY DEF HunterInv, Hunter!TypeOK
<1>2. CASE stop' = [stop EXCEPT ![t] = n] /\ stop[t] > 0
  BY <1>1, <1>2
<1>3. CASE stop' = [stop EXCEPT ![t] = IF @ > 0 THEN n ELSE 0] /\ ~Hunter!StopSet(t, n)
  BY <1>1, <1>3, HunterAssumption DEF Hunter!QtyAssumption
<1>4. CASE stop' = stop /\ ~Hunter!StopSet(t, n)
  BY <1>1, <1>4
<1> QED BY <1>2, <1>3, <1>4 DEF Hunter!StopSet, Hunter!StopFails

\* The contracts are sold and the record follows, or neither, or nobody knows.
LEMMA PlacePartialInv ==
    ASSUME HunterInv, NEW t \in HunterTrade, Hunter!PlacePartial(t) PROVE HunterInv'
<1> USE HunterAssumption DEF Hunter!QtyAssumption
<1>1. tPc[t] = "partial" /\ UNCHANGED <<stop, qty, trouble, signals, stale>>
  BY DEF Hunter!PlacePartial
<1>2. Kept(t) /\ (t \notin stale => Holds(t))
  BY DEF HunterInv
<1>3. /\ tRec[t] \in Hunter!Record /\ share[t] \in Int /\ stop[t] \in 0 .. HunterQty
      /\ share \in [HunterTrade -> Int]
      /\ tRec[t].tracked /\ tRec[t].remaining \in 0 .. HunterQty
      /\ qty[t] \in 1 .. tRec[t].remaining
  BY <1>1, <1>2 DEF Kept, HunterInv, Hunter!TypeOK, Hunter!Record, Hunter!Unknown
<1>4. CASE Hunter!Sell(t, qty[t]) /\ Hunter!Remaining(t, tRec[t].remaining - qty[t])
             /\ (IF tRec[t].sl THEN Hunter!Goto(t, "adjust") /\ UNCHANGED result
                 ELSE Hunter!Return(t, "ok"))
  <2>1. /\ share' \in [HunterTrade -> Int] /\ share'[t] = share[t] - qty[t]
        /\ \A u \in HunterTrade \ {t} : share'[u] = share[u]
    BY <1>3, <1>4, HunterSells
  <2>2. tRec[t].remaining - qty[t] \in {Hunter!Unknown} \cup 0 .. HunterQty
    BY <1>3
  <2>3. /\ tRec' \in [HunterTrade -> Hunter!Record]
        /\ tRec'[t].remaining = tRec[t].remaining - qty[t]
        /\ tRec'[t].tracked = tRec[t].tracked /\ tRec'[t].sl = tRec[t].sl
        /\ \A u \in HunterTrade \ {t} : tRec'[u] = tRec[u]
    BY <1>4, <2>2, HunterRemaining
  <2>4. CASE tRec[t].sl
    <3>1. /\ tPc' \in [HunterTrade -> {"new", "idle"} \cup Hunter!Busy]
          /\ tPc'[t] = "adjust" /\ \A u \in HunterTrade \ {t} : tPc'[u] = tPc[u]
          /\ UNCHANGED result
      BY <1>4, <2>4, HunterGoes DEF Hunter!Busy
    <3>2. Hunter!TypeOK'
      BY <1>1, <2>1, <2>3, <3>1 DEF HunterInv, Hunter!TypeOK
    <3>3. Kept(t)'
      BY <1>1, <1>2, <1>3, <2>3, <2>4, <3>1 DEF Kept, Hunter!Unknown
    <3>4. t \notin stale => Holds(t)'
      BY <1>1, <1>2, <1>3, <2>1, <2>3, <2>4, <3>1 DEF Holds
    <3> QED BY <1>1, <2>1, <2>3, <3>1, <3>2, <3>3, <3>4, HunterLocal
  <2>5. CASE ~tRec[t].sl
    <3>1. /\ tPc' \in [HunterTrade -> {"new", "idle"} \cup Hunter!Busy]
          /\ result' \in [HunterTrade -> {"none", "ok", "error", "closed", "flattened"}]
          /\ tPc'[t] = "idle" /\ result'[t] = "ok"
          /\ \A u \in HunterTrade \ {t} : tPc'[u] = tPc[u] /\ result'[u] = result[u]
      BY <1>4, <2>5, HunterReturns
    <3>2. Hunter!TypeOK'
      BY <1>1, <2>1, <2>3, <3>1 DEF HunterInv, Hunter!TypeOK
    <3>3. Kept(t)'
      BY <1>1, <1>2, <1>3, <2>3, <2>5, <3>1 DEF Kept, Hunter!Unknown
    <3>4. t \notin stale => Holds(t)'
      BY <1>1, <1>2, <1>3, <2>1, <2>3, <2>5, <3>1 DEF Holds
    <3> QED BY <1>1, <2>1, <2>3, <3>1, <3>2, <3>3, <3>4, HunterLocal
  <2> QED BY <2>4, <2>5
<1>5. CASE Hunter!Return(t, "error") /\ UNCHANGED <<share, tRec>>
  <2>1. /\ tPc' \in [HunterTrade -> {"new", "idle"} \cup Hunter!Busy]
        /\ result' \in [HunterTrade -> {"none", "ok", "error", "closed", "flattened"}]
        /\ tPc'[t] = "idle" /\ result'[t] = "error"
        /\ \A u \in HunterTrade \ {t} : tPc'[u] = tPc[u] /\ result'[u] = result[u]
    BY <1>5, HunterReturns
  <2>2. Hunter!TypeOK'
    BY <1>1, <1>5, <2>1 DEF HunterInv, Hunter!TypeOK
  <2>3. Kept(t)'
    BY <1>1, <1>2, <1>5, <2>1 DEF Kept
  <2>4. t \notin stale => Holds(t)'
    BY <1>1, <1>2, <1>3, <1>5, <2>1 DEF Holds
  <2> QED BY <1>1, <1>5, <2>1, <2>2, <2>3, <2>4, HunterLocal
<1>6. CASE Hunter!Return(t, "error") /\ Hunter!SellLost(t, qty[t])
             /\ Hunter!Remaining(t, Hunter!Unknown)
  <2>1. /\ tPc' \in [HunterTrade -> {"new", "idle"} \cup Hunter!Busy]
        /\ result' \in [HunterTrade -> {"none", "ok", "error", "closed", "flattened"}]
        /\ tPc'[t] = "idle" /\ result'[t] = "error"
        /\ \A u \in HunterTrade \ {t} : tPc'[u] = tPc[u] /\ result'[u] = result[u]
    BY <1>6, HunterReturns
  <2>2. /\ share' \in [HunterTrade -> Int]
        /\ \A u \in HunterTrade \ {t} : share'[u] = share[u]
    BY <1>3, <1>6, HunterSellLost
  <2>3. /\ tRec' \in [HunterTrade -> Hunter!Record] /\ tRec'[t].remaining = Hunter!Unknown
        /\ tRec'[t].tracked = tRec[t].tracked
        /\ \A u \in HunterTrade \ {t} : tRec'[u] = tRec[u]
    BY <1>6, HunterRemaining
  <2>4. Hunter!TypeOK'
    BY <1>1, <2>1, <2>2, <2>3 DEF HunterInv, Hunter!TypeOK
  <2>5. Kept(t)' /\ Holds(t)'
    BY <1>1, <1>2, <2>1, <2>3 DEF Kept, Holds, Hunter!Unknown
  <2> QED BY <1>1, <2>1, <2>2, <2>3, <2>4, <2>5, HunterLocal
<1> QED BY <1>4, <1>5, <1>6 DEF Hunter!PlacePartial

\* The stop is in line with what remains, or the close is an error.
LEMMA AdjustStopInv ==
    ASSUME HunterInv, NEW t \in HunterTrade, Hunter!AdjustStop(t) PROVE HunterInv'
<1> USE HunterAssumption DEF Hunter!QtyAssumption
<1>1. tPc[t] = "adjust" /\ UNCHANGED <<share, qty, trouble, signals, stale>>
  BY DEF Hunter!AdjustStop
<1>2. Kept(t) /\ (t \notin stale => Holds(t))
  BY DEF HunterInv
<1>3. /\ tRec \in [HunterTrade -> Hunter!Record]
      /\ tRec[t] \in Hunter!Record /\ share[t] \in Int /\ stop[t] \in 0 .. HunterQty
      /\ tRec[t].tracked /\ tRec[t].remaining \in 0 .. HunterQty /\ tRec[t].sl
  BY <1>1, <1>2 DEF Kept, HunterInv, Hunter!TypeOK, Hunter!Record, Hunter!Unknown
<1> DEFINE n == tRec[t].remaining
<1>4. Hunter!StopSet(t, n) \/ Hunter!StopFails(t, n)
  BY DEF Hunter!AdjustStop
<1>5. /\ stop' \in [HunterTrade -> 0 .. HunterQty]
      /\ Hunter!StopSet(t, n) => stop[t] > 0 /\ stop'[t] = n
      /\ stop'[t] \in {stop[t], IF stop[t] > 0 THEN n ELSE 0}
      /\ \A u \in HunterTrade \ {t} : stop'[u] = stop[u]
  BY <1>3, <1>4, HunterStops
<1>6. CASE Hunter!StopSet(t, n) /\ Hunter!Return(t, "ok")
             /\ tRec' = [tRec EXCEPT ![t].sl = n > 0]
  <2>1. /\ tPc' \in [HunterTrade -> {"new", "idle"} \cup Hunter!Busy]
        /\ result' \in [HunterTrade -> {"none", "ok", "error", "closed", "flattened"}]
        /\ tPc'[t] = "idle" /\ result'[t] = "ok"
        /\ \A u \in HunterTrade \ {t} : tPc'[u] = tPc[u] /\ result'[u] = result[u]
    BY <1>6, HunterReturns
  <2>2. /\ tRec' \in [HunterTrade -> Hunter!Record] /\ tRec'[t].remaining = n
        /\ tRec'[t].tracked = tRec[t].tracked /\ (tRec'[t].sl <=> n > 0)
        /\ \A u \in HunterTrade \ {t} : tRec'[u] = tRec[u]
    <3>1. PICK b \in BOOLEAN : (b <=> n > 0) /\ tRec' = [tRec EXCEPT ![t].sl = b]
      <4> DEFINE c == n > 0
      <4>1. tRec' = [tRec EXCEPT ![t].sl = c]
        BY <1>6
      <4>2. c \in BOOLEAN
        OBVIOUS
      <4> QED BY <4>1, <4>2, Zenon
    <3>2. tRec'[t] = [tRec[t] EXCEPT !.sl = b]
      BY <1>3, <3>1
    <3> QED BY <1>3, <3>1, <3>2 DEF Hunter!Record
  <2>3. Hunter!TypeOK'
    BY <1>1, <1>5, <2>1, <2>2 DEF HunterInv, Hunter!TypeOK
  <2>4. Kept(t)'
    BY <1>1, <1>2, <1>3, <2>1, <2>2 DEF Kept, Hunter!Unknown
  <2>5. t \notin stale => Holds(t)'
    BY <1>1, <1>2, <1>3, <1>5, <1>6, <2>1, <2>2 DEF Holds
  <2> QED BY <1>1, <1>5, <2>1, <2>2, <2>3, <2>4, <2>5, HunterLocal
<1>7. CASE Hunter!StopFails(t, n) /\ Hunter!Return(t, "error") /\ UNCHANGED tRec
  <2>1. /\ tPc' \in [HunterTrade -> {"new", "idle"} \cup Hunter!Busy]
        /\ result' \in [HunterTrade -> {"none", "ok", "error", "closed", "flattened"}]
        /\ tPc'[t] = "idle" /\ result'[t] = "error"
        /\ \A u \in HunterTrade \ {t} : tPc'[u] = tPc[u] /\ result'[u] = result[u]
    BY <1>7, HunterReturns
  <2>2. Hunter!TypeOK'
    BY <1>1, <1>5, <1>7, <2>1 DEF HunterInv, Hunter!TypeOK
  <2>3. Kept(t)'
    BY <1>1, <1>2, <1>3, <1>7, <2>1 DEF Kept, Hunter!Unknown
  <2>4. t \notin stale => Holds(t)'
    BY <1>1, <1>2, <1>3, <1>5, <1>7, <2>1 DEF Holds
  <2> QED BY <1>1, <1>5, <1>7, <2>1, <2>2, <2>3, <2>4, HunterLocal
<1> QED BY <1>6, <1>7 DEF Hunter!AdjustStop

\* A full close begins where its record leads it.
LEMMA FullCloseInv ==
    ASSUME HunterInv, NEW t \in HunterTrade, Hunter!FullClose(t) PROVE HunterInv'
<1> USE HunterAssumption DEF Hunter!QtyAssumption
<1>1. /\ Hunter!Signal(t) /\ trouble' = [trouble EXCEPT ![t] = FALSE]
      /\ UNCHANGED <<tRec, share, stop, qty, result, stale>>
  BY DEF Hunter!FullClose
<1>2. signals' \in [HunterTrade -> 0 .. MaxSignals] /\ tPc[t] = "idle"
  BY <1>1, SignalTypes
<1>3. Kept(t) /\ (t \notin stale => Holds(t))
  BY DEF HunterInv
<1>4. PICK l \in {"sweep", "cancel", "close"} :
        /\ tPc' = [tPc EXCEPT ![t] = l]
        /\ l = "sweep" <=> ~tRec[t].tracked \/ tRec[t].remaining = Hunter!Unknown
        /\ l = "cancel" => tRec[t].sl
        /\ l = "close" => ~tRec[t].sl
  BY DEF Hunter!FullClose, Hunter!Goto
<1>5. /\ tPc' \in [HunterTrade -> {"new", "idle"} \cup Hunter!Busy]
      /\ tPc'[t] = l /\ \A u \in HunterTrade \ {t} : tPc'[u] = tPc[u]
  BY <1>4, HunterGoes DEF Hunter!Busy, Hunter!Goto
<1>6. /\ trouble' \in [HunterTrade -> BOOLEAN] /\ trouble'[t] = FALSE
      /\ \A u \in HunterTrade \ {t} : trouble'[u] = trouble[u]
  BY <1>1 DEF HunterInv, Hunter!TypeOK
<1>7. Hunter!TypeOK'
  BY <1>1, <1>2, <1>5, <1>6 DEF HunterInv, Hunter!TypeOK
<1>8. tRec[t].remaining \in {Hunter!Unknown} \cup 0 .. HunterQty
  BY DEF HunterInv, Hunter!TypeOK, Hunter!Record
<1>9. Kept(t)'
  BY <1>1, <1>2, <1>3, <1>4, <1>5, <1>6, <1>8 DEF Kept, Hunter!Unknown
<1>10. t \notin stale => Holds(t)'
  <2>1. l \in {"cancel", "close"} => tRec[t].tracked /\ tRec[t].remaining >= 0
    BY <1>4, <1>8 DEF Hunter!Unknown
  <2> QED BY <1>1, <1>2, <1>3, <1>4, <1>5, <1>6, <2>1 DEF Holds
<1> QED BY <1>1, <1>5, <1>6, <1>7, <1>9, <1>10, HunterLocal

\* The stop is cancelled, or the close knows that it may not be.
LEMMA CancelStopInv ==
    ASSUME HunterInv, NEW t \in HunterTrade, Hunter!CancelStop(t) PROVE HunterInv'
<1> USE HunterAssumption DEF Hunter!QtyAssumption
<1>1. /\ tPc[t] = "cancel" /\ UNCHANGED <<tRec, share, qty, result, signals, stale>>
      /\ tPc' \in [HunterTrade -> {"new", "idle"} \cup Hunter!Busy]
      /\ tPc'[t] = "close" /\ \A u \in HunterTrade \ {t} : tPc'[u] = tPc[u]
  BY HunterGoes DEF Hunter!CancelStop, Hunter!Busy
<1>2. Kept(t) /\ (t \notin stale => Holds(t))
  BY DEF HunterInv
<1>3. /\ tRec[t] \in Hunter!Record /\ share[t] \in Int /\ stop[t] \in 0 .. HunterQty
      /\ tRec[t].tracked /\ tRec[t].remaining \in 0 .. HunterQty /\ tRec[t].sl
      /\ ~trouble[t] /\ trouble \in [HunterTrade -> BOOLEAN]
  BY <1>1, <1>2 DEF Kept, HunterInv, Hunter!TypeOK, Hunter!Record, Hunter!Unknown
<1>4. Hunter!StopSet(t, 0) \/ Hunter!StopFails(t, 0)
  BY DEF Hunter!CancelStop
<1>5. /\ stop' \in [HunterTrade -> 0 .. HunterQty]
      /\ Hunter!StopSet(t, 0) => stop[t] > 0 /\ stop'[t] = 0
      /\ stop'[t] \in {stop[t], IF stop[t] > 0 THEN 0 ELSE 0}
      /\ \A u \in HunterTrade \ {t} : stop'[u] = stop[u]
  BY <1>4, HunterStops
<1>6. /\ trouble' \in [HunterTrade -> BOOLEAN]
      /\ trouble'[t] \/ Hunter!StopSet(t, 0)
      /\ \A u \in HunterTrade \ {t} : trouble'[u] = trouble[u]
  BY <1>3 DEF Hunter!CancelStop
<1>7. Hunter!TypeOK'
  BY <1>1, <1>5, <1>6 DEF HunterInv, Hunter!TypeOK
<1>8. Kept(t)'
  BY <1>1, <1>2, <1>3 DEF Kept, Hunter!Unknown
<1>9. t \notin stale => Holds(t)'
  BY <1>1, <1>2, <1>3, <1>5, <1>6 DEF Holds
<1> QED BY <1>1, <1>5, <1>6, <1>7, <1>8, <1>9, HunterLocal

\* The remaining contracts are sold, or the close ends in an error.
LEMMA PlaceCloseInv ==
    ASSUME HunterInv, NEW t \in HunterTrade, Hunter!PlaceClose(t) PROVE HunterInv'
<1> USE HunterAssumption DEF Hunter!QtyAssumption
<1>1. tPc[t] = "close" /\ UNCHANGED <<stop, qty, trouble, signals, stale>>
  BY DEF Hunter!PlaceClose
<1>2. Kept(t) /\ (t \notin stale => Holds(t))
  BY DEF HunterInv
<1>3. /\ tRec \in [HunterTrade -> Hunter!Record]
      /\ share[t] \in Int /\ stop[t] \in 0 .. HunterQty /\ share \in [HunterTrade -> Int]
      /\ tRec[t].tracked /\ tRec[t].remaining \in 0 .. HunterQty /\ trouble[t] \in BOOLEAN
  BY <1>1, <1>2 DEF Kept, HunterInv, Hunter!TypeOK, Hunter!Record, Hunter!Unknown
<1> DEFINE n == tRec[t].remaining
<1>4. CASE Hunter!Sell(t, n) /\ trouble[t] /\ Hunter!Goto(t, "recancel")
             /\ UNCHANGED <<result, tRec>>
  <2>1. /\ share' \in [HunterTrade -> Int] /\ share'[t] = share[t] - n
        /\ \A u \in HunterTrade \ {t} : share'[u] = share[u]
    BY <1>3, <1>4, HunterSells
  <2>2. /\ tPc' \in [HunterTrade -> {"new", "idle"} \cup Hunter!Busy]
        /\ tPc'[t] = "recancel" /\ \A u \in HunterTrade \ {t} : tPc'[u] = tPc[u]
    BY <1>4, HunterGoes DEF Hunter!Busy
  <2>3. Hunter!TypeOK'
    BY <1>1, <1>4, <2>1, <2>2 DEF HunterInv, Hunter!TypeOK
  <2>4. tRec[t].sl
    BY <1>1, <1>2, <1>4 DEF Kept
  <2>5. Kept(t)'
    BY <1>1, <1>2, <1>3, <1>4, <2>2, <2>4 DEF Kept, Hunter!Unknown
  <2>6. t \notin stale => Holds(t)'
    BY <1>1, <1>2, <1>3, <1>4, <2>1, <2>2, <2>4 DEF Holds
  <2> QED BY <1>1, <1>4, <2>1, <2>2, <2>3, <2>5, <2>6, HunterLocal
<1>5. CASE Hunter!Sell(t, n) /\ ~trouble[t] /\ Hunter!Return(t, "closed") /\ Hunter!Untrack(t)
  <2>1. /\ share' \in [HunterTrade -> Int] /\ share'[t] = share[t] - n
        /\ \A u \in HunterTrade \ {t} : share'[u] = share[u]
    BY <1>3, <1>5, HunterSells
  <2>2. /\ tPc' \in [HunterTrade -> {"new", "idle"} \cup Hunter!Busy]
        /\ result' \in [HunterTrade -> {"none", "ok", "error", "closed", "flattened"}]
        /\ tPc'[t] = "idle" /\ result'[t] = "closed"
        /\ \A u \in HunterTrade \ {t} : tPc'[u] = tPc[u] /\ result'[u] = result[u]
    BY <1>5, HunterReturns
  <2>3. /\ tRec' \in [HunterTrade -> Hunter!Record] /\ ~tRec'[t].tracked
        /\ \A u \in HunterTrade \ {t} : tRec'[u] = tRec[u]
    BY <1>5, HunterUntracks
  <2>4. Hunter!TypeOK'
    BY <1>1, <2>1, <2>2, <2>3 DEF HunterInv, Hunter!TypeOK
  <2>5. Kept(t)'
    BY <2>2, <2>3 DEF Kept
  <2>6. t \notin stale => Holds(t)'
    BY <1>1, <1>2, <1>3, <1>5, <2>1, <2>2, <2>3 DEF Holds
  <2> QED BY <1>1, <2>1, <2>2, <2>3, <2>4, <2>5, <2>6, HunterLocal
<1>6. CASE Hunter!Return(t, "error") /\ UNCHANGED <<share, tRec>>
  <2>1. /\ tPc' \in [HunterTrade -> {"new", "idle"} \cup Hunter!Busy]
        /\ result' \in [HunterTrade -> {"none", "ok", "error", "closed", "flattened"}]
        /\ tPc'[t] = "idle" /\ result'[t] = "error"
        /\ \A u \in HunterTrade \ {t} : tPc'[u] = tPc[u] /\ result'[u] = result[u]
    BY <1>6, HunterReturns
  <2>2. Hunter!TypeOK'
    BY <1>1, <1>6, <2>1 DEF HunterInv, Hunter!TypeOK
  <2>3. Kept(t)'
    BY <1>1, <1>2, <1>6, <2>1 DEF Kept
  <2>4. t \notin stale => Holds(t)'
    BY <1>1, <1>2, <1>3, <1>6, <2>1 DEF Holds
  <2> QED BY <1>1, <1>6, <2>1, <2>2, <2>3, <2>4, HunterLocal
<1>7. CASE Hunter!Return(t, "error") /\ Hunter!SellLost(t, n)
             /\ Hunter!Remaining(t, Hunter!Unknown)
  <2>1. /\ tPc' \in [HunterTrade -> {"new", "idle"} \cup Hunter!Busy]
        /\ result' \in [HunterTrade -> {"none", "ok", "error", "closed", "flattened"}]
        /\ tPc'[t] = "idle" /\ result'[t] = "error"
        /\ \A u \in HunterTrade \ {t} : tPc'[u] = tPc[u] /\ result'[u] = result[u]
    BY <1>7, HunterReturns
  <2>2. /\ share' \in [HunterTrade -> Int]
        /\ \A u \in HunterTrade \ {t} : share'[u] = share[u]
    BY <1>3, <1>7, HunterSellLost
  <2>3. /\ tRec' \in [HunterTrade -> Hunter!Record] /\ tRec'[t].remaining = Hunter!Unknown
        /\ tRec'[t].tracked = tRec[t].tracked
        /\ \A u \in HunterTrade \ {t} : tRec'[u] = tRec[u]
    BY <1>7, HunterRemaining
  <2>4. Hunter!TypeOK'
    BY <1>1, <2>1, <2>2, <2>3 DEF HunterInv, Hunter!TypeOK
  <2>5. Kept(t)' /\ Holds(t)'
    BY <1>1, <1>2, <2>1, <2>3 DEF Kept, Holds, Hunter!Unknown
  <2> QED BY <1>1, <2>1, <2>2, <2>3, <2>4, <2>5, HunterLocal
<1> QED BY <1>4, <1>5, <1>6, <1>7 DEF Hunter!PlaceClose

\* The second cancel goes through, or the trade is one whose record is not so.
LEMMA RecancelInv ==
    ASSUME HunterInv, NEW t \in HunterTrade, Hunter!Recancel(t) PROVE HunterInv'
<1> USE HunterAssumption DEF Hunter!QtyAssumption
<1>1. tPc[t] = "recancel" /\ UNCHANGED <<share, qty, trouble, signals>>
  BY DEF Hunter!Recancel
<1>2. Kept(t) /\ (t \notin stale => Holds(t))
  BY DEF HunterInv
<1>3. Hunter!StopSet(t, 0) \/ Hunter!StopFails(t, 0)
  BY DEF Hunter!Recancel
<1>4. /\ stop' \in [HunterTrade -> 0 .. HunterQty]
      /\ Hunter!StopSet(t, 0) => stop[t] > 0 /\ stop'[t] = 0
      /\ \A u \in HunterTrade \ {t} : stop'[u] = stop[u]
  BY <1>3, HunterStops
<1>5. CASE Hunter!StopSet(t, 0) /\ Hunter!Return(t, "closed") /\ Hunter!Untrack(t)
             /\ UNCHANGED stale
  <2>1. /\ tPc' \in [HunterTrade -> {"new", "idle"} \cup Hunter!Busy]
        /\ result' \in [HunterTrade -> {"none", "ok", "error", "closed", "flattened"}]
        /\ tPc'[t] = "idle" /\ result'[t] = "closed"
        /\ \A u \in HunterTrade \ {t} : tPc'[u] = tPc[u] /\ result'[u] = result[u]
    BY <1>5, HunterReturns
  <2>2. /\ tRec' \in [HunterTrade -> Hunter!Record] /\ ~tRec'[t].tracked
        /\ \A u \in HunterTrade \ {t} : tRec'[u] = tRec[u]
    BY <1>5, HunterUntracks
  <2>3. Hunter!TypeOK'
    BY <1>1, <1>4, <1>5, <2>1, <2>2 DEF HunterInv, Hunter!TypeOK
  <2>4. Kept(t)' /\ (t \notin stale => Holds(t)')
    BY <1>1, <1>2, <1>4, <1>5, <2>1, <2>2 DEF Kept, Holds
  <2> QED BY <1>1, <1>4, <1>5, <2>1, <2>2, <2>3, <2>4, HunterLocal
<1>6. CASE Hunter!Return(t, "error") /\ UNCHANGED tRec /\ stale' = stale \cup {t}
  <2>1. /\ tPc' \in [HunterTrade -> {"new", "idle"} \cup Hunter!Busy]
        /\ result' \in [HunterTrade -> {"none", "ok", "error", "closed", "flattened"}]
        /\ tPc'[t] = "idle" /\ result'[t] = "error"
        /\ \A u \in HunterTrade \ {t} : tPc'[u] = tPc[u] /\ result'[u] = result[u]
    BY <1>6, HunterReturns
  <2>2. Hunter!TypeOK'
    BY <1>1, <1>4, <1>6, <2>1 DEF HunterInv, Hunter!TypeOK
  <2>3. Kept(t)'
    BY <1>2, <1>6, <2>1 DEF Kept
  <2> QED BY <1>1, <1>4, <1>6, <2>1, <2>2, <2>3, HunterLocal
<1> QED BY <1>5, <1>6 DEF Hunter!Recancel

\* What the fallback does to the other trades of the contract is not in their records.
LEMMA HunterSweeps ==
    ASSUME HunterInv, NEW t \in HunterTrade, Hunter!Touches(t), Hunter!TypeOK',
           tPc[t] \in {"sweep", "liquidate", "resweep"},
           \A u \in HunterTrade \ {t} :
             /\ tRec'[u] = tRec[u] /\ share'[u] \in {0, share[u]} /\ stop'[u] \in {0, stop[u]}
             /\ tPc'[u] = tPc[u] /\ qty'[u] = qty[u] /\ trouble'[u] = trouble[u]
             /\ result'[u] = result[u],
           \/ tPc'[t] \in {"liquidate", "resweep"} /\ tRec'[t] = tRec[t] /\ result'[t] = result[t]
           \/ tPc'[t] = "idle" /\ result'[t] = "error" /\ tRec'[t] = tRec[t]
           \/ tPc'[t] = "idle" /\ result'[t] = "flattened" /\ ~tRec'[t].tracked
    PROVE  HunterInv'
<1>1. stale' = stale \cup {u \in HunterTrade \ {t} : tPc[u] # "new"}
  BY DEF Hunter!Touches
<1>2. Kept(t)
  BY DEF HunterInv
<1>3. Kept(t)' /\ Holds(t)'
  BY <1>2 DEF Kept, Holds, Hunter!Unknown
<1>4. ASSUME NEW u \in HunterTrade, u # t PROVE Kept(u)' /\ (u \notin stale' => Holds(u)')
  <2>1. Kept(u)
    BY DEF HunterInv
  <2>2. CASE tPc[u] = "new"
    BY <1>1, <1>4, <2>1, <2>2 DEF Kept, Holds
  <2>3. CASE tPc[u] # "new"
    BY <1>1, <1>4, <2>1, <2>3 DEF Kept
  <2> QED BY <2>2, <2>3
<1> QED BY <1>3, <1>4 DEF HunterInv

\* Each stop of the contract is cancelled or works on.
LEMMA CancelAllStops ==
    ASSUME HunterInv, NEW trades \in SUBSET HunterTrade, Hunter!CancelAll(trades)
    PROVE  /\ stop' \in [HunterTrade -> 0 .. HunterQty]
           /\ \A u \in HunterTrade : stop'[u] \in {0, stop[u]}
<1>1. PICK alive \in SUBSET trades : stop' = [u \in HunterTrade |-> IF u \in alive THEN stop[u] ELSE 0]
  BY DEF Hunter!CancelAll
<1> QED BY <1>1, HunterAssumption DEF HunterInv, Hunter!TypeOK, Hunter!QtyAssumption

\* The fallback's three steps.
LEMMA FallbackInv ==
    ASSUME HunterInv, NEW t \in HunterTrade,
           Hunter!Sweep(t) \/ Hunter!Liquidate(t) \/ Hunter!Resweep(t)
    PROVE  HunterInv'
<1> USE HunterAssumption DEF Hunter!QtyAssumption
<1>1. CASE Hunter!Sweep(t)
  <2>1. /\ tPc[t] = "sweep" /\ Hunter!Touches(t) /\ Hunter!Goto(t, "liquidate")
        /\ UNCHANGED <<tRec, share, qty, result, signals>>
    BY <1>1 DEF Hunter!Sweep
  <2>2. PICK fails \in SUBSET HunterTrade :
          /\ Hunter!CancelAll(fails)
          /\ \E unread \in BOOLEAN :
               trouble' = [trouble EXCEPT ![t] = unread \/ \E u \in fails : stop[u] > 0]
    BY <1>1 DEF Hunter!Sweep
  <2>3. /\ tPc' \in [HunterTrade -> {"new", "idle"} \cup Hunter!Busy]
        /\ tPc'[t] = "liquidate" /\ \A u \in HunterTrade \ {t} : tPc'[u] = tPc[u]
    BY <2>1, HunterGoes DEF Hunter!Busy
  <2>4. /\ stop' \in [HunterTrade -> 0 .. HunterQty]
        /\ \A u \in HunterTrade : stop'[u] \in {0, stop[u]}
    BY <2>2, CancelAllStops
  <2>5. /\ trouble' \in [HunterTrade -> BOOLEAN]
        /\ \A u \in HunterTrade \ {t} : trouble'[u] = trouble[u]
    <3>1. PICK unread \in BOOLEAN :
            trouble' = [trouble EXCEPT ![t] = unread \/ \E u \in fails : stop[u] > 0]
      BY <2>2
    <3> DEFINE b == unread \/ \E u \in fails : stop[u] > 0
    <3>2. b \in BOOLEAN
      OBVIOUS
    <3>3. trouble' = [trouble EXCEPT ![t] = b]
      BY <3>1
    <3>4. trouble \in [HunterTrade -> BOOLEAN]
      BY DEF HunterInv, Hunter!TypeOK
    <3> HIDE DEF b
    <3> QED BY <3>2, <3>3, <3>4
  <2>6. stale' \subseteq HunterTrade
    BY <2>1 DEF Hunter!Touches, HunterInv, Hunter!TypeOK
  <2>7. Hunter!TypeOK'
    BY <2>1, <2>3, <2>4, <2>5, <2>6 DEF HunterInv, Hunter!TypeOK
  <2> QED BY <2>1, <2>3, <2>4, <2>5, <2>7, HunterSweeps
<1>2. CASE Hunter!Liquidate(t)
  <2>1. /\ tPc[t] = "liquidate" /\ Hunter!Touches(t)
        /\ UNCHANGED <<stop, qty, trouble, signals>>
    BY <1>2 DEF Hunter!Liquidate
  <2>2. /\ share' \in [HunterTrade -> Int]
        /\ \A u \in HunterTrade : share'[u] \in {0, share[u]}
    BY <1>2 DEF Hunter!Liquidate, HunterInv, Hunter!TypeOK
  <2>3. stale' \subseteq HunterTrade
    BY <2>1 DEF Hunter!Touches, HunterInv, Hunter!TypeOK
  <2>4. CASE Hunter!Goto(t, "resweep") /\ UNCHANGED <<result, tRec>>
    <3>1. /\ tPc' \in [HunterTrade -> {"new", "idle"} \cup Hunter!Busy]
          /\ tPc'[t] = "resweep" /\ \A u \in HunterTrade \ {t} : tPc'[u] = tPc[u]
      BY <2>4, HunterGoes DEF Hunter!Busy
    <3>2. Hunter!TypeOK'
      BY <2>1, <2>2, <2>3, <2>4, <3>1 DEF HunterInv, Hunter!TypeOK
    <3> QED BY <2>1, <2>2, <2>4, <3>1, <3>2, HunterSweeps
  <2>5. CASE Hunter!Return(t, "flattened") /\ Hunter!Untrack(t)
    <3>1. /\ tPc' \in [HunterTrade -> {"new", "idle"} \cup Hunter!Busy]
          /\ result' \in [HunterTrade -> {"none", "ok", "error", "closed", "flattened"}]
          /\ tPc'[t] = "idle" /\ result'[t] = "flattened"
          /\ \A u \in HunterTrade \ {t} : tPc'[u] = tPc[u] /\ result'[u] = result[u]
      BY <2>5, HunterReturns
    <3>2. /\ tRec' \in [HunterTrade -> Hunter!Record] /\ ~tRec'[t].tracked
          /\ \A u \in HunterTrade \ {t} : tRec'[u] = tRec[u]
      BY <2>5, HunterUntracks
    <3>3. Hunter!TypeOK'
      BY <2>1, <2>2, <2>3, <3>1, <3>2 DEF HunterInv, Hunter!TypeOK
    <3> QED BY <2>1, <2>2, <3>1, <3>2, <3>3, HunterSweeps
  <2>6. CASE Hunter!Return(t, "error") /\ UNCHANGED tRec
    <3>1. /\ tPc' \in [HunterTrade -> {"new", "idle"} \cup Hunter!Busy]
          /\ result' \in [HunterTrade -> {"none", "ok", "error", "closed", "flattened"}]
          /\ tPc'[t] = "idle" /\ result'[t] = "error"
          /\ \A u \in HunterTrade \ {t} : tPc'[u] = tPc[u] /\ result'[u] = result[u]
      BY <2>6, HunterReturns
    <3>2. Hunter!TypeOK'
      BY <2>1, <2>2, <2>3, <2>6, <3>1 DEF HunterInv, Hunter!TypeOK
    <3> QED BY <2>1, <2>2, <2>6, <3>1, <3>2, HunterSweeps
  <2> QED BY <1>2, <2>4, <2>5, <2>6 DEF Hunter!Liquidate
<1>3. CASE Hunter!Resweep(t)
  <2>1. /\ tPc[t] = "resweep" /\ Hunter!Touches(t)
        /\ UNCHANGED <<share, qty, trouble, signals>>
    BY <1>3 DEF Hunter!Resweep
  <2>2. Hunter!CancelAll({}) \/ Hunter!CancelAll(HunterTrade)
    BY <1>3 DEF Hunter!Resweep
  <2>3. /\ stop' \in [HunterTrade -> 0 .. HunterQty]
        /\ \A u \in HunterTrade : stop'[u] \in {0, stop[u]}
    <3>1. {} \in SUBSET HunterTrade /\ HunterTrade \in SUBSET HunterTrade
      OBVIOUS
    <3> QED BY <2>2, <3>1, CancelAllStops
  <2>4. stale' \subseteq HunterTrade
    BY <2>1 DEF Hunter!Touches, HunterInv, Hunter!TypeOK
  <2>5. CASE Hunter!Return(t, "flattened") /\ Hunter!Untrack(t)
    <3>1. /\ tPc' \in [HunterTrade -> {"new", "idle"} \cup Hunter!Busy]
          /\ result' \in [HunterTrade -> {"none", "ok", "error", "closed", "flattened"}]
          /\ tPc'[t] = "idle" /\ result'[t] = "flattened"
          /\ \A u \in HunterTrade \ {t} : tPc'[u] = tPc[u] /\ result'[u] = result[u]
      BY <2>5, HunterReturns
    <3>2. /\ tRec' \in [HunterTrade -> Hunter!Record] /\ ~tRec'[t].tracked
          /\ \A u \in HunterTrade \ {t} : tRec'[u] = tRec[u]
      BY <2>5, HunterUntracks
    <3>3. Hunter!TypeOK'
      BY <2>1, <2>3, <2>4, <3>1, <3>2 DEF HunterInv, Hunter!TypeOK
    <3> QED BY <2>1, <2>3, <3>1, <3>2, <3>3, HunterSweeps
  <2>6. CASE Hunter!Return(t, "error") /\ UNCHANGED tRec
    <3>1. /\ tPc' \in [HunterTrade -> {"new", "idle"} \cup Hunter!Busy]
          /\ result' \in [HunterTrade -> {"none", "ok", "error", "closed", "flattened"}]
          /\ tPc'[t] = "idle" /\ result'[t] = "error"
          /\ \A u \in HunterTrade \ {t} : tPc'[u] = tPc[u] /\ result'[u] = result[u]
      BY <2>6, HunterReturns
    <3>2. Hunter!TypeOK'
      BY <2>1, <2>3, <2>4, <2>6, <3>1 DEF HunterInv, Hunter!TypeOK
    <3> QED BY <2>1, <2>3, <2>6, <3>1, <3>2, HunterSweeps
  <2> QED BY <1>3, <2>5, <2>6 DEF Hunter!Resweep
<1> QED BY <1>1, <1>2, <1>3

\* The invariant reads no other variable.
LEMMA HunterStutter == ASSUME HunterInv, UNCHANGED HunterVars PROVE HunterInv'
BY DEF HunterVars, HunterInv, Hunter!TypeOK, Kept, Holds

\* Every step of a trade keeps the invariant.
LEMMA HunterStep == ASSUME HunterInv, Hunter!Next PROVE HunterInv'
<1>1. CASE Hunter!Over
  BY <1>1, HunterStutter DEF Hunter!Over, Hunter!vars, HunterVars
<1> QED BY <1>1, EnterHunterInv, StopFillInv, PartialCloseInv, PlacePartialInv, AdjustStopInv,
        FullCloseInv, CancelStopInv, PlaceCloseInv, RecancelInv, FallbackInv
        DEF Hunter!Next, Hunter!Handler

\* What the invariant says of trades at rest.
LEMMA HunterSafe ==
    ASSUME HunterInv
    PROVE  Hunter!ClosedMeansFlat /\ Hunter!RecordMatches /\ Hunter!HarmIsReported
<1> USE HunterAssumption DEF Hunter!QtyAssumption
<1> SUFFICES ASSUME NEW t \in HunterTrade, Hunter!Settled(t)
      PROVE  /\ result[t] = "closed" => share[t] = 0 /\ stop[t] = 0
             /\ tRec[t].tracked /\ result[t] \in {"none", "ok"} =>
                  \/ share[t] = tRec[t].remaining
                       /\ stop[t] = (IF tRec[t].sl THEN tRec[t].remaining ELSE 0)
                  \/ tRec[t].sl /\ share[t] = 0 /\ stop[t] = 0
             /\ result[t] # "flattened"
                  /\ (share[t] < 0 \/ (share[t] > 0 /\ tRec[t].sl /\ stop[t] = 0))
                => result[t] = "error"
  BY DEF Hunter!ClosedMeansFlat, Hunter!RecordMatches, Hunter!HarmIsReported
<1>1. tPc[t] = "idle" /\ Kept(t) /\ Holds(t)
  BY DEF HunterInv, Hunter!Settled
<1>2. /\ tRec[t].remaining \in {Hunter!Unknown} \cup 0 .. HunterQty /\ share[t] \in Int
      /\ stop[t] \in 0 .. HunterQty
      /\ result[t] \in {"none", "ok", "error", "closed", "flattened"}
  BY DEF HunterInv, Hunter!TypeOK, Hunter!Record
<1> QED BY <1>1, <1>2 DEF Kept, Holds, Hunter!Unknown

-----------------------------------------------------------------------------
(* ProtectiveStop: what a failed stop leaves behind.                       *)
(* The broker's account of the entry is kept until the resolution closes   *)
(* it: what is held is what entered less what the exits closed.            *)

First == <<"stop", 1>>
Second == <<"stop", 2>>
Exit == Bracket!Stop \cup Bracket!Target
Struck == {o \in Exit : status[o] = "filled"}
Cancelled == {"read", "close", "again", "failed"}

\* What was not placed does not work, and what was placed ends by a fill or a cancel.
AnswersTell ==
    /\ \A o \in Exit : answer[o] \in {"none", "refused"} => status[o] = "none"
    /\ \A o \in Exit : answer[o] = "ok" => status[o] # "none"
    /\ bPc \in {"entry", "bracket", "retry", "list", "tracked"} =>
         \A o \in Exit : status[o] # "gone"
    /\ bPc \in {"entry", "refused"} => \A o \in Exit : answer[o] = "none"
    /\ bPc = "entry" => answer[Bracket!Entry] = "none"
    /\ bPc = "refused" => answer[Bracket!Entry] \in {"refused", "unknown"}
    /\ bPc \notin {"entry", "refused"} => answer[Bracket!Entry] = "ok"
    /\ answer[Bracket!Entry] \in {"none", "refused"} =>
         net = 0 /\ entered = 0 /\ status[Bracket!Entry] = "none"
    /\ ~limit => status[Bracket!Entry] # "working"
    /\ ~limit /\ answer[Bracket!Entry] = "ok" => entered = Qty

\* The second stop is asked for once the first is known to have been refused.
StopsTell ==
    /\ answer[Second] # "none" => answer[First] = "refused"
    /\ bPc = "retry" => answer[First] = "refused"
    /\ bPc \in {"entry", "bracket", "retry"} => answer[Second] = "none"
    /\ bPc = "tracked" => answer[First] = "ok" \/ answer[Second] = "ok"

\* Nothing is closed twice: by the exits, ...
Account ==
    /\ net <= entered
    /\ \A o \in Bracket!Stop : status[o] = "filled" => net <= entered - Qty
    /\ bPc \notin {"failed", "unprotected"} => net + Bracket!Struck >= entered
    /\ bPc = "failed" /\ blind = {} => net + Bracket!Struck >= 0

\* The entry was at its end, or the resolution found it and could cancel it.
EntryKnown == ~limit \/ (blind \cap {"orders", "id"} = {} /\ Bracket!Entry \notin left)

\* ... or by the resolution, which closes what entered once the entry is at its end.
Resolution ==
    /\ bPc = "cancel" /\ EntryKnown =>
         Bracket!Entry \in targeted \/ status[Bracket!Entry] # "working"
    /\ bPc \in Cancelled /\ EntryKnown => status[Bracket!Entry] # "working"
    /\ bPc \in {"close", "again"} /\ blind = {} => closing <= entered
    /\ bPc \in {"close", "again"} /\ EntryKnown => net <= closing
    /\ bPc = "failed" /\ EntryKnown => net <= 0
    /\ bPc \in {"close", "again", "failed"} /\ ~limit => closing = Qty
    /\ bPc = "read" => limit

\* Every order that works is still to be cancelled or was told of.
Leftovers ==
    /\ bPc \in Cancelled => targeted = {}
    /\ bPc \in {"cancel"} \cup Cancelled /\ blind \cap {"orders", "id"} = {} =>
         \A o \in Bracket!Order : status[o] = "working" =>
           \/ o \in left \cup targeted
           \/ o \in Bracket!Target /\ answer[o] = "unknown"

BracketInv ==
    /\ Bracket!TypeOK /\ AnswersTell /\ StopsTell /\ Account /\ Resolution /\ Leftovers

\* The orders of an entry, and their quantities.
LEMMA BracketOrders ==
    /\ Qty \in Nat /\ Qty > 0 /\ Qty # 0
    /\ Bracket!Entry \in Bracket!Order /\ Bracket!Entry \notin Exit
    /\ Bracket!Order = {Bracket!Entry} \cup Exit
    /\ First \in Exit /\ Second \in Exit /\ First # Second
    /\ First \notin Bracket!Target /\ Second \notin Bracket!Target
    /\ Bracket!Stop = {First, Second} /\ Exit = {First, Second} \cup Bracket!Target
    /\ First # Bracket!Entry /\ Second # Bracket!Entry
    /\ \A o \in Exit : Bracket!Size(o) \in Nat
    /\ \A o \in Bracket!Stop : Bracket!Size(o) = Qty
    /\ IsFiniteSet(Exit)
<1> USE BracketAssumption DEF Bracket!QtyAssumption
<1> DEFINE N == {i \in 1 .. Targets : Bracket!Slice(i) > 0}
<1>1. Bracket!Target = {<<"tp", n>> : n \in N}
  BY DEF Bracket!Target
<1>2. /\ Bracket!Entry \notin Bracket!Target /\ First \notin Bracket!Target
      /\ Second \notin Bracket!Target
  <2>1. \A n : <<"tp", n>> # Bracket!Entry /\ <<"tp", n>> # First /\ <<"tp", n>> # Second
    BY DEF Bracket!Entry, First, Second
  <2> QED BY <1>1, <2>1
<1>3. First # Second /\ First # Bracket!Entry /\ Second # Bracket!Entry
      /\ Bracket!Stop = {First, Second}
  BY DEF Bracket!Entry, Bracket!Stop, First, Second
<1>4. \A n \in N : n \in Nat /\ Bracket!Slice(n) \in Nat
  BY DEF Bracket!Slice, Bracket!Least
<1>5. \A o \in Bracket!Target : Bracket!Size(o) \in Nat
  <2> SUFFICES ASSUME NEW o \in Bracket!Target PROVE Bracket!Size(o) \in Nat
    OBVIOUS
  <2>1. PICK n \in N : o = <<"tp", n>>
    BY <1>1
  <2>2. o[2] = n
    BY <2>1
  <2> QED BY <1>4, <2>1, <2>2 DEF Bracket!Size
<1>6. \A o \in Bracket!Stop : Bracket!Size(o) = Qty
  BY <1>2, <1>3 DEF Bracket!Size
<1>7. IsFiniteSet(Bracket!Target)
  <2>1. IsFiniteSet(1 .. Targets)
    BY FS_Interval
  <2>2. IsFiniteSet(N)
    BY <2>1, FS_Subset
  <2> DEFINE f == [n \in N |-> <<"tp", n>>]
  <2> HIDE DEF N
  <2>3. f \in [N -> Bracket!Target] /\ \A t \in Bracket!Target : \E n \in N : f[n] = t
    BY <1>1
  <2>4. f \in Surjection(N, Bracket!Target)
    BY <2>3 DEF Surjection
  <2> QED BY <2>2, <2>4, FS_Surjection
<1>8. IsFiniteSet(Exit)
  <2>1. IsFiniteSet({First}) /\ IsFiniteSet({Second})
    BY FS_Singleton
  <2>2. IsFiniteSet({First} \cup {Second})
    BY <2>1, FS_Union
  <2>3. IsFiniteSet(({First} \cup {Second}) \cup Bracket!Target)
    BY <1>7, <2>2, FS_Union
  <2>4. Exit = ({First} \cup {Second}) \cup Bracket!Target
    BY <1>3 DEF Exit
  <2> QED BY <2>3, <2>4
<1>9. Exit = {First, Second} \cup Bracket!Target /\ Bracket!Order = {Bracket!Entry} \cup Exit
  BY <1>3 DEF Exit, Bracket!Order
<1>10. \A o \in Exit : Bracket!Size(o) \in Nat
  BY <1>3, <1>5, <1>6, <1>9
<1>11. Bracket!Entry \notin Exit /\ First \in Exit /\ Second \in Exit
       /\ Bracket!Entry \in Bracket!Order
  BY <1>2, <1>3, <1>9
<1>12. Qty \in Nat /\ Qty > 0 /\ Qty # 0
  OBVIOUS
<1> QED BY <1>2, <1>3, <1>6, <1>8, <1>9, <1>10, <1>11, <1>12

\* What the exits closed, and what one more fill adds to it.
LEMMA StruckIs ==
    \E g : /\ Adds(g, Exit) /\ Bracket!Struck = g[Struck] /\ Bracket!Struck' = g[Struck']
<1>1. \A o \in Exit : Bracket!Size(o) \in Int
  <2>1. \A o \in Exit : Bracket!Size(o) \in Nat
    BY BracketOrders
  <2> QED BY <2>1
<1>2. PICK g : Adds(g, Exit)
  BY <1>1, BracketOrders, SumExists
<1>3. \A T \in SUBSET Exit : Bracket!MapThenSumSet(Bracket!Size, T) = g[T]
  BY <1>2, BracketOrders, FoldIsSum
<1>4. Struck \in SUBSET Exit /\ Struck' \in SUBSET Exit
  BY DEF Struck
<1>5. Bracket!Struck = Bracket!MapThenSumSet(Bracket!Size, Struck)
      /\ Bracket!Struck' = Bracket!MapThenSumSet(Bracket!Size, Struck')
  BY DEF Bracket!Struck, Struck, Exit
<1> QED BY <1>2, <1>3, <1>4, <1>5

\* While no exit fills, what the exits closed stays.
LEMMA StruckStays ==
    ASSUME Struck' = Struck
    PROVE  Bracket!Struck \in Int /\ Bracket!Struck' = Bracket!Struck
<1>1. PICK g : /\ Adds(g, Exit) /\ Bracket!Struck = g[Struck] /\ Bracket!Struck' = g[Struck']
  BY StruckIs
<1>2. Struck \in SUBSET Exit
  BY DEF Struck
<1> QED BY <1>1, <1>2 DEF Adds

\* An exit that fills closes its contracts more.
LEMMA StruckGrows ==
    ASSUME NEW o \in Exit, o \notin Struck, Struck' = Struck \cup {o}
    PROVE  Bracket!Struck \in Int /\ Bracket!Struck' = Bracket!Struck + Bracket!Size(o)
<1>1. PICK g : /\ Adds(g, Exit) /\ Bracket!Struck = g[Struck] /\ Bracket!Struck' = g[Struck']
  BY StruckIs
<1>2. Struck \in SUBSET Exit /\ Struck' \in SUBSET Exit /\ o \in Struck' /\ Struck' \ {o} = Struck
  BY DEF Struck
<1>3. g[Struck] \in Int
  BY <1>1, <1>2 DEF Adds
<1>4. g[Struck'] = Bracket!Size(o) + g[Struck]
  BY <1>1, <1>2 DEF Adds
<1>5. Bracket!Size(o) \in Nat
  BY BracketOrders
<1> QED BY <1>1, <1>3, <1>4, <1>5

\* An entry starts flat, without orders.
LEMMA BracketInit == ASSUME Bracket!Init PROVE BracketInv
<1> USE BracketOrders
<1>1. /\ limit \in BOOLEAN /\ bPc = "entry"
      /\ status = [o \in Bracket!Order |-> "none"] /\ answer = [o \in Bracket!Order |-> "none"]
      /\ net = 0 /\ entered = 0 /\ closing = 0 /\ targeted = {} /\ left = {} /\ blind = {}
  BY DEF Bracket!Init
<1>2. \A o \in Bracket!Order : status[o] = "none" /\ answer[o] = "none"
  BY <1>1
<1>3. \A o \in Exit : status[o] = "none" /\ answer[o] = "none"
  BY <1>2
<1>4. 0 \in 0 .. Qty
  OBVIOUS
<1>5. Bracket!TypeOK
  BY <1>1, <1>4 DEF Bracket!TypeOK
<1>6. AnswersTell
  BY <1>1, <1>2, <1>3 DEF AnswersTell
<1>7. StopsTell
  BY <1>1, <1>3 DEF StopsTell
<1>8. Bracket!Struck = 0
  <2>1. Struck = {}
    BY <1>3 DEF Struck
  <2>2. PICK g : Adds(g, Exit) /\ Bracket!Struck = g[Struck]
    BY StruckIs
  <2> QED BY <2>1, <2>2 DEF Adds
<1>9. Account
  BY <1>1, <1>3, <1>8 DEF Account
<1>10. Resolution /\ Leftovers
  BY <1>1 DEF Resolution, Leftovers, Cancelled
<1> QED BY <1>5, <1>6, <1>7, <1>9, <1>10 DEF BracketInv

\* The types, as facts.
LEMMA BracketTypes ==
    ASSUME BracketInv
    PROVE  /\ Bracket!TypeOK /\ AnswersTell /\ StopsTell /\ Account /\ Resolution /\ Leftovers
           /\ status \in [Bracket!Order -> {"none", "working", "filled", "gone"}]
           /\ answer \in [Bracket!Order -> {"none", "ok", "refused", "unknown"}]
           /\ net \in Int /\ entered \in Nat /\ entered <= Qty /\ entered \in 0 .. Qty
           /\ closing \in Nat /\ closing <= Qty
           /\ targeted \subseteq Bracket!Order /\ left \subseteq Bracket!Order
           /\ Bracket!Struck \in Int
<1>1. /\ Bracket!TypeOK /\ AnswersTell /\ StopsTell /\ Account /\ Resolution /\ Leftovers
  BY DEF BracketInv
<1>2. /\ status \in [Bracket!Order -> {"none", "working", "filled", "gone"}]
      /\ answer \in [Bracket!Order -> {"none", "ok", "refused", "unknown"}]
      /\ net \in Int /\ entered \in 0 .. Qty /\ closing \in 0 .. Qty
      /\ targeted \subseteq Bracket!Order /\ left \subseteq Bracket!Order
  BY <1>1 DEF Bracket!TypeOK
<1>3. /\ entered \in Nat /\ entered <= Qty /\ closing \in Nat /\ closing <= Qty
  BY <1>2, BracketOrders
<1>4. Bracket!Struck \in Int
  <2>1. PICK g : Adds(g, Exit) /\ Bracket!Struck = g[Struck]
    BY StruckIs
  <2>2. Struck \in SUBSET Exit
    BY DEF Struck
  <2> QED BY <2>1, <2>2 DEF Adds
<1> QED BY <1>1, <1>2, <1>3, <1>4

\* The entry is placed.
LEMMA PlaceEntryInv == ASSUME BracketInv, Bracket!PlaceEntry PROVE BracketInv'
<1> USE BracketOrders, BracketTypes
<1> DEFINE E == Bracket!Entry
<1>1. bPc = "entry" /\ UNCHANGED <<limit, targeted, left, blind, closing>>
  BY DEF Bracket!PlaceEntry
<1>2. /\ answer[E] = "none" /\ net = 0 /\ entered = 0 /\ status[E] = "none"
      /\ \A o \in Exit : answer[o] = "none" /\ status[o] = "none"
  BY <1>1 DEF AnswersTell
<1>3. PICK a \in {"ok", "refused", "unknown"} :
        /\ answer' = [answer EXCEPT ![E] = a]
        /\ bPc' = (IF a = "ok" THEN "bracket" ELSE "refused")
        /\ \/ a # "ok" /\ UNCHANGED <<status, net, entered>>
           \/ a # "refused" /\ Bracket!EntryTaken
  BY DEF Bracket!PlaceEntry
<1>4. /\ answer' \in [Bracket!Order -> {"none", "ok", "refused", "unknown"}]
      /\ answer'[E] = a /\ \A o \in Exit : answer'[o] = "none"
  BY <1>2, <1>3
<1>5. /\ status' \in [Bracket!Order -> {"none", "working", "filled", "gone"}]
      /\ \A o \in Exit : status'[o] = "none"
      /\ net' = entered' /\ entered' \in {0, Qty}
      /\ a \in {"none", "refused"} => net' = 0 /\ entered' = 0 /\ status'[E] = "none"
      /\ ~limit => status'[E] # "working" /\ (a = "ok" => entered' = Qty)
  <2>1. CASE UNCHANGED <<status, net, entered>> /\ a # "ok"
    BY <1>2, <2>1
  <2>2. CASE a # "refused" /\ Bracket!EntryTaken /\ limit
    <3>1. status' = [status EXCEPT ![E] = "working"] /\ UNCHANGED <<net, entered>>
      BY <2>2 DEF Bracket!EntryTaken
    <3>2. a \notin {"none", "refused"}
      BY <1>3, <2>2
    <3> QED BY <1>2, <2>2, <3>1, <3>2
  <2>3. CASE a # "refused" /\ Bracket!EntryTaken /\ ~limit
    <3>1. status' = [status EXCEPT ![E] = "filled"] /\ net' = Qty /\ entered' = Qty
      BY <2>3 DEF Bracket!EntryTaken
    <3>2. a \notin {"none", "refused"}
      BY <1>3, <2>3
    <3> QED BY <1>2, <2>3, <3>1, <3>2
  <2> QED BY <1>3, <2>1, <2>2, <2>3
<1> HIDE DEF E
<1>6. Struck' = Struck
  BY <1>2, <1>5 DEF Struck
<1>7. Bracket!TypeOK'
  <2>1. net' \in Int /\ entered' \in 0 .. Qty
    BY <1>5
  <2>2. bPc' \in {"bracket", "refused"}
    BY <1>3
  <2> QED BY <1>1, <1>4, <1>5, <2>1, <2>2 DEF Bracket!TypeOK, Bracket!Ended
<1>8. AnswersTell'
  BY <1>1, <1>3, <1>4, <1>5 DEF AnswersTell, E
<1>9. StopsTell'
  BY <1>3, <1>4 DEF StopsTell
<1>10. Account'
  <2>1. Bracket!Struck' = Bracket!Struck /\ Bracket!Struck \in Int
    BY <1>6, StruckStays
  <2>2. Bracket!Struck >= 0
    BY <1>1, <1>2 DEF Account
  <2>3. PICK s \in Int : Bracket!Struck' = s /\ s >= 0
    BY <2>1, <2>2
  <2>4. PICK n \in Int : net' = n /\ entered' = n
    BY <1>5
  <2>5. net' + Bracket!Struck' >= entered' /\ net' <= entered'
    <3>1. n + s >= n /\ n <= n
      BY <2>3
    <3> QED BY <2>3, <2>4, <3>1
  <2>6. \A o \in Bracket!Stop : status'[o] # "filled"
    BY <1>5
  <2>7. bPc' # "failed"
    BY <1>3
  <2> QED BY <2>5, <2>6, <2>7 DEF Account
<1>11. Resolution' /\ Leftovers'
  <2>1. bPc' \in {"bracket", "refused"}
    BY <1>3
  <2> QED BY <2>1 DEF Resolution, Leftovers, Cancelled
<1> QED BY <1>7, <1>8, <1>9, <1>10, <1>11 DEF BracketInv

\* One request for an exit, and its answer.
LEMMA PlaceGives ==
    ASSUME BracketInv, NEW o \in Exit, answer[o] = "none", Bracket!Place(o)
    PROVE  /\ status' \in [Bracket!Order -> {"none", "working", "filled", "gone"}]
           /\ answer' \in [Bracket!Order -> {"none", "ok", "refused", "unknown"}]
           /\ \A p \in Bracket!Order : p # o => status'[p] = status[p] /\ answer'[p] = answer[p]
           /\ status'[o] \in {"none", "working"} /\ answer'[o] \in {"ok", "refused", "unknown"}
           /\ answer'[o] = "ok" => status'[o] = "working"
           /\ answer'[o] = "refused" => status'[o] = "none"
           /\ Struck' = Struck
<1> USE BracketOrders
<1>1. /\ status \in [Bracket!Order -> {"none", "working", "filled", "gone"}]
      /\ answer \in [Bracket!Order -> {"none", "ok", "refused", "unknown"}]
      /\ status[o] = "none" /\ o \in Bracket!Order
  BY BracketTypes DEF AnswersTell
<1>2. PICK a \in {"ok", "refused", "unknown"} : answer' = [answer EXCEPT ![o] = a]
        /\ (a = "ok" => status' = [status EXCEPT ![o] = "working"])
        /\ (a = "refused" => status' = status)
        /\ (status' = status \/ status' = [status EXCEPT ![o] = "working"])
  BY DEF Bracket!Place
<1>3. /\ status' \in [Bracket!Order -> {"none", "working", "filled", "gone"}]
      /\ status'[o] \in {"none", "working"}
      /\ \A p \in Bracket!Order : p # o => status'[p] = status[p]
      /\ a = "ok" => status'[o] = "working"
      /\ a = "refused" => status'[o] = "none"
  BY <1>1, <1>2
<1>4. /\ answer' \in [Bracket!Order -> {"none", "ok", "refused", "unknown"}]
      /\ \A p \in Bracket!Order : p # o => answer'[p] = answer[p]
      /\ answer'[o] = a
  BY <1>1, <1>2
<1>5. Struck' = Struck
  BY <1>1, <1>3 DEF Struck
<1> QED BY <1>2, <1>3, <1>4, <1>5

\* What the account and the answers say after a request for an exit.
LEMMA PlacedAccount ==
    ASSUME BracketInv, NEW o \in Exit, answer[o] = "none", Bracket!Place(o),
           UNCHANGED <<limit, net, entered, left, blind, closing>>,
           bPc \in {"bracket", "retry"}, bPc' \in {"bracket", "retry", "tracked", "cancel", "list"}
    PROVE  /\ Account' /\ AnswersTell'
           /\ \A p \in Exit : answer'[p] \in {"none", "refused"} => status'[p] = "none"
<1> USE BracketOrders, BracketTypes
<1>1. /\ status' \in [Bracket!Order -> {"none", "working", "filled", "gone"}]
      /\ answer' \in [Bracket!Order -> {"none", "ok", "refused", "unknown"}]
      /\ \A p \in Bracket!Order : p # o => status'[p] = status[p] /\ answer'[p] = answer[p]
      /\ status'[o] \in {"none", "working"} /\ answer'[o] \in {"ok", "refused", "unknown"}
      /\ answer'[o] = "ok" => status'[o] = "working"
      /\ answer'[o] = "refused" => status'[o] = "none"
      /\ Struck' = Struck
  BY PlaceGives
<1>2. \A p \in Exit : p # o => status'[p] = status[p] /\ answer'[p] = answer[p]
  BY <1>1
<1>3. answer'[Bracket!Entry] = answer[Bracket!Entry] /\ status'[Bracket!Entry] = status[Bracket!Entry]
  BY <1>1
<1>4. AnswersTell'
  <2>1. answer[Bracket!Entry] = "ok"
    BY DEF AnswersTell
  <2>2. \A p \in Exit : status'[p] # "gone"
    BY <1>1, <1>2 DEF AnswersTell
  <2>3. \A p \in Exit : answer'[p] \in {"none", "refused"} => status'[p] = "none"
    BY <1>1, <1>2 DEF AnswersTell
  <2>4. \A p \in Exit : answer'[p] = "ok" => status'[p] # "none"
    BY <1>1, <1>2 DEF AnswersTell
  <2>5. (~limit => status[Bracket!Entry] # "working")
        /\ (~limit /\ answer[Bracket!Entry] = "ok" => entered = Qty)
    BY DEF AnswersTell
  <2> QED BY <1>3, <2>1, <2>2, <2>3, <2>4, <2>5 DEF AnswersTell
<1>5. Account'
  <2>1. Bracket!Struck' = Bracket!Struck
    BY <1>1, StruckStays
  <2>2. \A p \in Bracket!Stop : status'[p] = "filled" => status[p] = "filled"
    BY <1>1, <1>2
  <2> QED BY <2>1, <2>2 DEF Account
<1>6. \A p \in Exit : answer'[p] \in {"none", "refused"} => status'[p] = "none"
  BY <1>4 DEF AnswersTell
<1> QED BY <1>4, <1>5, <1>6

\* The first stop and the targets are placed.
LEMMA PlaceBracketInv ==
    ASSUME BracketInv, NEW o \in Bracket!Order, Bracket!PlaceBracket(o) PROVE BracketInv'
<1> USE BracketOrders, BracketTypes
<1>1. /\ bPc = "bracket" /\ o \in Bracket!Target \cup {First} /\ answer[o] = "none"
      /\ Bracket!Place(o)
      /\ UNCHANGED <<limit, bPc, net, entered, targeted, left, blind, closing>>
  BY DEF Bracket!PlaceBracket, First
<1>2. o \in Exit /\ o # Second
  BY <1>1
<1>3. /\ status' \in [Bracket!Order -> {"none", "working", "filled", "gone"}]
      /\ answer' \in [Bracket!Order -> {"none", "ok", "refused", "unknown"}]
      /\ \A p \in Bracket!Order : p # o => status'[p] = status[p] /\ answer'[p] = answer[p]
  BY <1>1, <1>2, PlaceGives
<1>4. Account' /\ AnswersTell'
  BY <1>1, <1>2, PlacedAccount
<1>5. Bracket!TypeOK'
  BY <1>1, <1>3 DEF Bracket!TypeOK
<1>6. StopsTell'
  BY <1>1, <1>2, <1>3 DEF StopsTell
<1>7. Resolution' /\ Leftovers'
  BY <1>1 DEF Resolution, Leftovers, Cancelled
<1> QED BY <1>4, <1>5, <1>6, <1>7 DEF BracketInv

\* All of them were answered.
LEMMA BracketAnsweredInv == ASSUME BracketInv, Bracket!BracketAnswered PROVE BracketInv'
<1> USE BracketOrders, BracketTypes
<1>1. /\ bPc = "bracket" /\ UNCHANGED <<limit, status, answer, net, entered, targeted, left, blind, closing>>
      /\ answer[First] # "none"
  BY DEF Bracket!BracketAnswered, First
<1>2. \/ bPc' = "tracked" /\ answer[First] = "ok"
      \/ bPc' = "retry" /\ answer[First] = "refused"
      \/ bPc' = "list"
  BY DEF Bracket!BracketAnswered, First
<1>3. Bracket!TypeOK'
  BY <1>1, <1>2 DEF Bracket!TypeOK, Bracket!Ended
<1>4. AnswersTell'
  BY <1>1, <1>2 DEF AnswersTell
<1>5. StopsTell'
  BY <1>1, <1>2 DEF StopsTell
<1>6. Account'
  <2>1. Bracket!Struck' = Bracket!Struck
    BY <1>1, StruckStays DEF Struck
  <2> QED BY <1>1, <1>2, <2>1 DEF Account
<1>7. Resolution' /\ Leftovers'
  BY <1>1, <1>2 DEF Resolution, Leftovers, Cancelled
<1> QED BY <1>3, <1>4, <1>5, <1>6, <1>7 DEF BracketInv

\* After a confirmed refusal the stop is asked for once more.
LEMMA RetryStopInv == ASSUME BracketInv, Bracket!RetryStop PROVE BracketInv'
<1> USE BracketOrders, BracketTypes
<1>1. /\ bPc = "retry" /\ Bracket!Place(Second)
      /\ UNCHANGED <<limit, net, entered, left, blind, closing>>
      /\ \/ answer'[Second] = "ok" /\ bPc' = "tracked" /\ targeted' = targeted
         \/ answer'[Second] = "refused" /\ bPc' = "cancel" /\ targeted' = Bracket!Known
         \/ bPc' = "list" /\ targeted' = targeted
  BY DEF Bracket!RetryStop, Second
<1>2. answer[Second] = "none" /\ answer[First] = "refused" /\ answer[Bracket!Entry] = "ok"
  BY <1>1 DEF StopsTell, AnswersTell
<1>3. /\ status' \in [Bracket!Order -> {"none", "working", "filled", "gone"}]
      /\ answer' \in [Bracket!Order -> {"none", "ok", "refused", "unknown"}]
      /\ \A p \in Bracket!Order : p # Second => status'[p] = status[p] /\ answer'[p] = answer[p]
      /\ answer'[Second] \in {"ok", "refused", "unknown"}
  BY <1>1, <1>2, PlaceGives
<1>4. Account' /\ AnswersTell' /\ \A p \in Exit : answer'[p] \in {"none", "refused"} => status'[p] = "none"
  BY <1>1, <1>2, PlacedAccount
<1>5. Bracket!Known \subseteq Bracket!Order
  BY DEF Bracket!Known
<1>6. Bracket!TypeOK'
  <2>1. targeted' \subseteq Bracket!Order
    BY <1>1, <1>5
  <2>2. bPc' \in {"tracked", "cancel", "list"}
    BY <1>1
  <2> QED BY <1>1, <1>3, <2>1, <2>2 DEF Bracket!TypeOK, Bracket!Ended
<1>7. answer'[First] = "refused" /\ status'[Bracket!Entry] = status[Bracket!Entry]
  BY <1>2, <1>3
<1>8. StopsTell'
  BY <1>1, <1>7 DEF StopsTell
<1>9. limit => Bracket!Entry \in Bracket!Known
  BY DEF Bracket!Known
<1>10. ~limit => status'[Bracket!Entry] # "working"
  BY <1>7 DEF AnswersTell
<1>11. Resolution'
  <2>1. CASE bPc' = "cancel"
    BY <1>1, <1>9, <1>10, <2>1 DEF Resolution, Cancelled, EntryKnown
  <2>2. CASE bPc' # "cancel"
    BY <1>1, <2>2 DEF Resolution, Cancelled
  <2> QED BY <2>1, <2>2
<1>12. Leftovers'
  <2>1. CASE bPc' = "cancel"
    <3>1. targeted' = Bracket!Known /\ answer'[Second] = "refused"
      BY <1>1, <2>1
    <3>2. status'[First] = "none" /\ status'[Second] = "none"
      BY <1>4, <1>7, <3>1
    <3>3. ASSUME NEW o \in Bracket!Order, status'[o] = "working"
          PROVE  o \in targeted' \/ (o \in Bracket!Target /\ answer'[o] = "unknown")
      <4>1. CASE o = Bracket!Entry
        BY <1>9, <1>10, <3>1, <3>3, <4>1
      <4>2. CASE o \in Bracket!Target
        <5>1. answer'[o] \in {"ok", "unknown"}
          BY <1>3, <1>4, <3>3, <4>2
        <5>2. answer'[o] = answer[o]
          BY <1>3, <4>2
        <5> QED BY <3>1, <4>2, <5>1, <5>2 DEF Bracket!Known
      <4> QED BY <3>2, <3>3, <4>1, <4>2
    <3> QED BY <2>1, <3>3 DEF Leftovers, Cancelled
  <2>2. CASE bPc' # "cancel"
    BY <1>1, <2>2 DEF Leftovers, Cancelled
  <2> QED BY <2>1, <2>2
<1> QED BY <1>4, <1>6, <1>8, <1>11, <1>12 DEF BracketInv

\* The working orders are listed.
LEMMA ListOrdersInv == ASSUME BracketInv, Bracket!ListOrders PROVE BracketInv'
<1> USE BracketOrders, BracketTypes
<1>1. /\ bPc = "list" /\ bPc' = "cancel"
      /\ UNCHANGED <<limit, status, answer, net, entered, left, closing>>
      /\ \/ targeted' = {o \in Bracket!Order : status[o] = "working"} /\ blind' = blind
         \/ targeted' = {} /\ blind' = blind \cup {"orders"}
         \/ targeted' = {} /\ blind' = blind \cup {"id"}
  BY DEF Bracket!ListOrders
<1>2. Bracket!TypeOK'
  BY <1>1 DEF Bracket!TypeOK
<1>3. AnswersTell'
  BY <1>1 DEF AnswersTell
<1>4. StopsTell'
  BY <1>1 DEF StopsTell
<1>5. Account'
  <2>1. Bracket!Struck' = Bracket!Struck
    BY <1>1, StruckStays DEF Struck
  <2> QED BY <1>1, <2>1 DEF Account
<1>6. blind' = {} \/ blind' \cap {"orders", "id"} = {} =>
        targeted' = {o \in Bracket!Order : status[o] = "working"}
  BY <1>1
<1>7. Resolution'
  <2>1. limit' = limit /\ (~limit => status'[Bracket!Entry] # "working")
    BY <1>1 DEF AnswersTell
  <2>2. blind' \cap {"orders", "id"} = {} =>
          Bracket!Entry \in targeted' \/ status'[Bracket!Entry] # "working"
    BY <1>1, <1>6
  <2> QED BY <1>1, <2>1, <2>2 DEF Resolution, Cancelled, EntryKnown
<1>8. Leftovers'
  BY <1>1, <1>6 DEF Leftovers, Cancelled
<1> QED BY <1>2, <1>3, <1>4, <1>5, <1>7, <1>8 DEF BracketInv

\* A cancel is done, or failed and is told of.
LEMMA CancelOrderInv ==
    ASSUME BracketInv, NEW o \in Bracket!Order, Bracket!CancelOrder(o) PROVE BracketInv'
<1> USE BracketOrders, BracketTypes
<1>1. /\ bPc = "cancel" /\ o \in targeted /\ targeted' = targeted \ {o}
      /\ UNCHANGED <<limit, bPc, answer, net, entered, blind, closing>>
      /\ \/ status[o] = "working" /\ status' = [status EXCEPT ![o] = "gone"] /\ left' = left
         \/ /\ left' = left \cup {o}
            /\ \/ status' = status
               \/ status[o] = "working" /\ status' = [status EXCEPT ![o] = "gone"]
  BY Zenon DEF Bracket!CancelOrder
<1>2. /\ status' \in [Bracket!Order -> {"none", "working", "filled", "gone"}]
      /\ \A p \in Bracket!Order : p # o => status'[p] = status[p]
      /\ status'[o] = status[o] \/ (status[o] = "working" /\ status'[o] = "gone")
      /\ o \in left' \/ status'[o] # "working"
      /\ left \subseteq left' /\ left' \subseteq Bracket!Order
  BY <1>1
<1>3. Struck' = Struck
  BY <1>2 DEF Struck
<1>4. Bracket!TypeOK'
  BY <1>1, <1>2 DEF Bracket!TypeOK
<1>5. AnswersTell'
  <2>1. \A p \in Exit : status'[p] = status[p] \/ (status[p] = "working" /\ status'[p] = "gone")
    BY <1>2
  <2>2. status'[Bracket!Entry] = status[Bracket!Entry]
        \/ (status[Bracket!Entry] = "working" /\ status'[Bracket!Entry] = "gone")
    BY <1>2
  <2> QED BY <1>1, <2>1, <2>2 DEF AnswersTell
<1>6. StopsTell'
  BY <1>1 DEF StopsTell
<1>7. Account'
  <2>1. Bracket!Struck' = Bracket!Struck
    BY <1>3, StruckStays
  <2>2. \A p \in Bracket!Stop : status'[p] = "filled" => status[p] = "filled"
    BY <1>2
  <2> QED BY <1>1, <2>1, <2>2 DEF Account
<1>8. Resolution'
  <2>1. EntryKnown' => EntryKnown /\ (limit => Bracket!Entry \notin left')
    BY <1>1, <1>2 DEF EntryKnown
  <2>2. EntryKnown => Bracket!Entry \in targeted \/ status[Bracket!Entry] # "working"
    BY <1>1 DEF Resolution
  <2>3. ~limit => status[Bracket!Entry] # "working"
    BY DEF AnswersTell
  <2>4. EntryKnown' => Bracket!Entry \in targeted' \/ status'[Bracket!Entry] # "working"
    BY <1>1, <1>2, <2>1, <2>2, <2>3
  <2> QED BY <1>1, <2>4 DEF Resolution, Cancelled
<1>9. Leftovers'
  <2>1. ASSUME NEW p \in Bracket!Order, status'[p] = "working", blind' \cap {"orders", "id"} = {}
        PROVE  p \in left' \cup targeted' \/ (p \in Bracket!Target /\ answer'[p] = "unknown")
    <3>1. status[p] = "working"
      BY <1>2, <2>1
    <3>2. p \in left \cup targeted \/ (p \in Bracket!Target /\ answer[p] = "unknown")
      BY <1>1, <2>1, <3>1 DEF Leftovers
    <3>3. p = o => p \in left'
      BY <1>2, <2>1
    <3> QED BY <1>1, <1>2, <3>2, <3>3
  <2> QED BY <1>1, <2>1 DEF Leftovers, Cancelled
<1> QED BY <1>4, <1>5, <1>6, <1>7, <1>8, <1>9 DEF BracketInv

\* All cancels are answered.
LEMMA CancelsDoneInv == ASSUME BracketInv, Bracket!CancelsDone PROVE BracketInv'
<1> USE BracketOrders, BracketTypes
<1>1. /\ bPc = "cancel" /\ targeted = {}
      /\ UNCHANGED <<limit, status, answer, net, entered, targeted, left, blind>>
      /\ \/ limit /\ bPc' = "read" /\ closing' = closing
         \/ ~limit /\ bPc' = "close" /\ closing' = Qty
  BY DEF Bracket!CancelsDone
<1>2. Bracket!TypeOK'
  <2>1. closing' \in 0 .. Qty
    BY <1>1
  <2> QED BY <1>1, <2>1 DEF Bracket!TypeOK
<1>3. AnswersTell'
  BY <1>1 DEF AnswersTell
<1>4. StopsTell'
  BY <1>1 DEF StopsTell
<1>5. Account'
  <2>1. Bracket!Struck' = Bracket!Struck
    BY <1>1, StruckStays DEF Struck
  <2> QED BY <1>1, <2>1 DEF Account
<1>6. Resolution'
  <2>1. ~limit => entered = Qty
    BY <1>1 DEF AnswersTell
  <2>2. net <= entered
    BY DEF Account
  <2>3. /\ EntryKnown => status[Bracket!Entry] # "working"
        /\ EntryKnown' = EntryKnown
    BY <1>1 DEF Resolution, EntryKnown
  <2>4. CASE bPc' = "close"
    <3>1. closing' = Qty /\ entered' = Qty /\ net' <= Qty /\ closing' <= entered' /\ net' <= closing'
      BY <1>1, <2>1, <2>2, <2>4
    <3> QED BY <1>1, <2>3, <2>4, <3>1 DEF Resolution, Cancelled
  <2>5. CASE bPc' = "read"
    BY <1>1, <2>3, <2>5 DEF Resolution, Cancelled
  <2> QED BY <1>1, <2>4, <2>5
<1>7. Leftovers'
  BY <1>1 DEF Leftovers, Cancelled
<1> QED BY <1>2, <1>3, <1>4, <1>5, <1>6, <1>7 DEF BracketInv

\* What is held is read, and taken for the whole entry when it cannot be.
LEMMA ReadPositionInv == ASSUME BracketInv, Bracket!ReadPosition PROVE BracketInv'
<1> USE BracketOrders, BracketTypes
<1>1. /\ bPc = "read" /\ UNCHANGED <<limit, status, answer, net, entered, targeted, left>>
      /\ bPc' = IF closing' = 0 THEN "failed" ELSE "close"
      /\ \/ /\ closing' = Bracket!Least(Qty, IF net > 0 THEN net ELSE 0)
            /\ blind' = blind
         \/ closing' = Qty /\ blind' = blind \cup {"positions"}
  BY DEF Bracket!ReadPosition
<1>2. net <= entered
  BY DEF Account
<1>3. /\ Bracket!Least(Qty, IF net > 0 THEN net ELSE 0) \in 0 .. Qty
      /\ net <= Bracket!Least(Qty, IF net > 0 THEN net ELSE 0)
      /\ Bracket!Least(Qty, IF net > 0 THEN net ELSE 0) <= entered
  BY <1>2 DEF Bracket!Least
<1>4. closing' \in 0 .. Qty /\ bPc' \in {"failed", "close"}
  BY <1>1, <1>3
<1>5. /\ blind' = {} => blind = {} /\ closing' <= entered
      /\ net <= closing'
      /\ blind' \cap {"orders", "id"} = blind \cap {"orders", "id"}
  BY <1>1, <1>2, <1>3
<1>6. Bracket!TypeOK'
  <2>1. blind' \subseteq {"orders", "positions", "id"}
    BY <1>1 DEF Bracket!TypeOK
  <2> QED BY <1>1, <1>4, <2>1 DEF Bracket!TypeOK, Bracket!Ended
<1>7. AnswersTell'
  BY <1>1, <1>4 DEF AnswersTell
<1>8. StopsTell'
  BY <1>1, <1>4 DEF StopsTell
<1>9. Account'
  <2>1. Bracket!Struck' = Bracket!Struck
    BY <1>1, StruckStays DEF Struck
  <2>2. net + Bracket!Struck >= entered
    BY <1>1 DEF Account
  <2>3. net' + Bracket!Struck' >= 0 /\ net' + Bracket!Struck' >= entered'
    BY <1>1, <2>1, <2>2
  <2> QED BY <1>1, <1>4, <2>1, <2>3 DEF Account
<1>10. Resolution'
  <2>1. EntryKnown' = EntryKnown
    BY <1>1, <1>5 DEF EntryKnown
  <2>2. EntryKnown => status[Bracket!Entry] # "working"
    BY <1>1 DEF Resolution, Cancelled
  <2>3. bPc' = "failed" => closing' = 0
    BY <1>1
  <2>4. bPc' = "failed" => net' <= 0
    BY <1>1, <1>5, <2>3
  <2>5. limit
    BY <1>1 DEF Resolution
  <2> QED BY <1>1, <1>4, <1>5, <2>1, <2>2, <2>4, <2>5 DEF Resolution, Cancelled
<1>11. Leftovers'
  BY <1>1, <1>4, <1>5 DEF Leftovers, Cancelled
<1> QED BY <1>6, <1>7, <1>8, <1>9, <1>10, <1>11 DEF BracketInv

\* The entry is closed at market.
LEMMA CloseEntryInv == ASSUME BracketInv, Bracket!CloseEntry PROVE BracketInv'
<1> USE BracketOrders, BracketTypes
<1>1. /\ bPc \in {"close", "again"}
      /\ UNCHANGED <<limit, status, answer, entered, targeted, left, blind, closing>>
      /\ \/ net' = net - closing /\ bPc' = "failed"
         \/ bPc' = "again" /\ net' = net
         \/ bPc' = "unprotected" /\ net' \in {net, net - closing}
  BY DEF Bracket!CloseEntry
<1>2. net' \in Int /\ net' <= net /\ bPc' \in {"failed", "again", "unprotected"}
  BY <1>1
<1>3. Bracket!TypeOK'
  BY <1>1, <1>2 DEF Bracket!TypeOK, Bracket!Ended
<1>4. AnswersTell'
  BY <1>1, <1>2 DEF AnswersTell
<1>5. StopsTell'
  BY <1>1, <1>2 DEF StopsTell
<1>6. Account'
  <2>1. PICK s \in Int : Bracket!Struck = s /\ Bracket!Struck' = s
    BY <1>1, StruckStays DEF Struck
  <2>2. net <= entered /\ net + s >= entered
    BY <1>1, <2>1 DEF Account
  <2>3. net' <= entered' /\ \A o \in Bracket!Stop : status'[o] = "filled" => net' <= entered' - Qty
    <3>1. net' <= entered'
      BY <1>1, <1>2, <2>2
    <3>2. \A o \in Bracket!Stop : status[o] = "filled" => net <= entered - Qty
      BY DEF Account
    <3> QED BY <1>1, <1>2, <3>1, <3>2
  <2>4. bPc' \notin {"failed", "unprotected"} => net' + Bracket!Struck' >= entered'
    BY <1>1, <2>1, <2>2
  <2>5. bPc' = "failed" /\ blind' = {} => net' + Bracket!Struck' >= 0
    <3>1. SUFFICES ASSUME bPc' = "failed", blind' = {} PROVE net' + s >= 0
      BY <2>1
    <3>2. closing <= entered
      BY <1>1, <3>1 DEF Resolution
    <3> QED BY <1>1, <2>2, <3>1, <3>2
  <2> QED BY <2>3, <2>4, <2>5 DEF Account
<1>7. Resolution'
  <2>1. bPc' = "failed" /\ EntryKnown => net' <= 0
    <3>1. SUFFICES ASSUME bPc' = "failed", EntryKnown PROVE net' <= 0
      OBVIOUS
    <3>2. net <= closing
      BY <1>1, <3>1 DEF Resolution
    <3> QED BY <1>1, <3>1, <3>2
  <2>2. bPc' = "again" => net' = net
    BY <1>1
  <2>3. EntryKnown' = EntryKnown
    BY <1>1 DEF EntryKnown
  <2> QED BY <1>1, <1>2, <2>1, <2>2, <2>3 DEF Resolution, Cancelled
<1>8. Leftovers'
  BY <1>1, <1>2 DEF Leftovers, Cancelled
<1> QED BY <1>3, <1>4, <1>5, <1>6, <1>7, <1>8 DEF BracketInv

\* A resting entry fills, in one go or in parts.
LEMMA EntryFillsInv == ASSUME BracketInv, Bracket!EntryFills PROVE BracketInv'
<1> USE BracketOrders, BracketTypes
<1>1. /\ status[Bracket!Entry] = "working"
      /\ UNCHANGED <<limit, bPc, answer, targeted, left, blind, closing>>
  BY DEF Bracket!EntryFills
<1>2. PICK f \in (entered + 1) .. Qty :
        /\ entered' = f /\ net' = net + (f - entered)
        /\ status' = [status EXCEPT ![Bracket!Entry] = IF f = Qty THEN "filled" ELSE "working"]
  BY DEF Bracket!EntryFills
<1>3. /\ status' \in [Bracket!Order -> {"none", "working", "filled", "gone"}]
      /\ status'[Bracket!Entry] \in {"working", "filled"}
      /\ \A o \in Exit : status'[o] = status[o]
  BY <1>2
<1>4. /\ f \in Nat /\ entered < f /\ f <= Qty
      /\ entered' = f /\ entered' \in 0 .. Qty /\ net' \in Int /\ net < net'
      /\ net' - entered' = net - entered
  BY <1>2
<1>5. limit /\ answer[Bracket!Entry] \notin {"none", "refused"}
  BY <1>1 DEF AnswersTell
<1>6. Bracket!TypeOK'
  BY <1>1, <1>3, <1>4 DEF Bracket!TypeOK
<1>7. AnswersTell'
  BY <1>1, <1>3, <1>5 DEF AnswersTell
<1>8. StopsTell'
  BY <1>1 DEF StopsTell
<1>9. Account'
  <2>1. Struck' = Struck
    BY <1>3 DEF Struck
  <2>2. PICK s \in Int : Bracket!Struck = s /\ Bracket!Struck' = s
    BY <2>1, StruckStays
  <2>3. net' <= entered'
    <3>1. net <= entered
      BY DEF Account
    <3> QED BY <1>4, <3>1
  <2>4. \A o \in Bracket!Stop : status'[o] = "filled" => net' <= entered' - Qty
    <3>1. \A o \in Bracket!Stop : status[o] = "filled" => net <= entered - Qty
      BY DEF Account
    <3> QED BY <1>3, <1>4, <3>1
  <2>5. bPc' \notin {"failed", "unprotected"} => net' + Bracket!Struck' >= entered'
    <3>1. bPc \notin {"failed", "unprotected"} => net + s >= entered
      BY <2>2 DEF Account
    <3>2. net + s >= entered => net' + s >= entered'
      BY <1>2, <1>4
    <3> QED BY <1>1, <2>2, <3>1, <3>2
  <2>6. bPc' = "failed" /\ blind' = {} => net' + Bracket!Struck' >= 0
    <3>1. bPc = "failed" /\ blind = {} => net + s >= 0
      BY <2>2 DEF Account
    <3>2. net + s >= 0 => net' + s >= 0
      BY <1>2, <1>4
    <3> QED BY <1>1, <2>2, <3>1, <3>2
  <2> QED BY <2>3, <2>4, <2>5, <2>6 DEF Account
<1>10. Resolution'
  <2>1. bPc \in Cancelled => ~EntryKnown
    BY <1>1 DEF Resolution
  <2>2. bPc = "cancel" /\ EntryKnown => Bracket!Entry \in targeted
    BY <1>1 DEF Resolution
  <2>3. bPc \in {"close", "again"} /\ blind = {} => closing <= entered
    BY DEF Resolution
  <2>4. bPc \in {"close", "again"} /\ blind = {} => closing <= entered'
    BY <1>4, <2>3
  <2>5. EntryKnown' = EntryKnown
    BY <1>1 DEF EntryKnown
  <2> QED BY <1>1, <1>5, <2>1, <2>2, <2>4, <2>5 DEF Resolution, Cancelled
<1>11. Leftovers'
  <2>1. \A o \in Bracket!Order : status'[o] = "working" => status[o] = "working"
    BY <1>1, <1>3
  <2> QED BY <1>1, <2>1 DEF Leftovers
<1> QED BY <1>6, <1>7, <1>8, <1>9, <1>10, <1>11 DEF BracketInv

\* A stop or a target fills.
LEMMA ExitFillsInv == ASSUME BracketInv, Bracket!ExitFills PROVE BracketInv'
<1> USE BracketOrders, BracketTypes
<1>1. UNCHANGED <<limit, bPc, answer, entered, targeted, left, blind, closing>>
  BY DEF Bracket!ExitFills
<1>2. PICK o \in Exit : /\ status[o] = "working" /\ status' = [status EXCEPT ![o] = "filled"]
                        /\ net' = net - Bracket!Size(o)
  BY DEF Bracket!ExitFills, Exit
<1>3. /\ status' \in [Bracket!Order -> {"none", "working", "filled", "gone"}]
      /\ status'[o] = "filled" /\ o # Bracket!Entry
      /\ \A p \in Bracket!Order : p # o => status'[p] = status[p]
  BY <1>2
<1>4. PICK z \in Nat : z = Bracket!Size(o)
  BY BracketOrders
<1>5. net' = net - z /\ net' \in Int /\ net' <= net
  BY <1>2, <1>4
<1>6. answer[o] \notin {"none", "refused"} /\ bPc \notin {"entry", "refused"}
      /\ answer[Bracket!Entry] = "ok"
  BY <1>2 DEF AnswersTell
<1>7. Bracket!TypeOK'
  BY <1>1, <1>3, <1>5 DEF Bracket!TypeOK
<1>8. AnswersTell'
  <2>1. \A p \in Exit : answer'[p] \in {"none", "refused"} => status'[p] = "none"
    BY <1>1, <1>3, <1>6 DEF AnswersTell
  <2>2. \A p \in Exit : answer'[p] = "ok" => status'[p] # "none"
    BY <1>1, <1>3 DEF AnswersTell
  <2>3. bPc' \in {"entry", "bracket", "retry", "list", "tracked"} => \A p \in Exit : status'[p] # "gone"
    BY <1>1, <1>3 DEF AnswersTell
  <2>4. /\ ~limit' => status'[Bracket!Entry] # "working"
        /\ ~limit' /\ answer'[Bracket!Entry] = "ok" => entered' = Qty
    BY <1>1, <1>3 DEF AnswersTell
  <2> QED BY <1>1, <1>6, <2>1, <2>2, <2>3, <2>4 DEF AnswersTell
<1>9. StopsTell'
  BY <1>1 DEF StopsTell
<1>10. Account'
  <2>1. o \notin Struck /\ Struck' = Struck \cup {o}
    BY <1>2, <1>3 DEF Struck
  <2>2. Bracket!Struck \in Int /\ Bracket!Struck' = Bracket!Struck + Bracket!Size(o)
    BY <2>1, StruckGrows
  <2>3. PICK s \in Int : Bracket!Struck = s /\ Bracket!Struck' = s + z
    BY <1>4, <2>2
  <2>4. net' + (s + z) = net + s
    BY <1>5
  <2>5. net <= entered
    BY DEF Account
  <2>6. net' <= entered'
    BY <1>1, <1>5, <2>5
  <2>7. ASSUME NEW p \in Bracket!Stop, status'[p] = "filled" PROVE net' <= entered' - Qty
    <3>1. CASE p = o
      <4>1. z = Qty
        BY <1>4, <3>1
      <4> QED BY <1>1, <1>5, <2>5, <4>1
    <3>2. CASE p # o
      <4>1. status[p] = "filled"
        BY <1>3, <2>7, <3>2
      <4>2. net <= entered - Qty
        BY <4>1 DEF Account
      <4> QED BY <1>1, <1>5, <4>2
    <3> QED BY <3>1, <3>2
  <2>8. bPc' \notin {"failed", "unprotected"} => net' + Bracket!Struck' >= entered'
    <3>1. bPc \notin {"failed", "unprotected"} => net + s >= entered
      BY <2>3 DEF Account
    <3> QED BY <1>1, <2>3, <2>4, <3>1
  <2>9. bPc' = "failed" /\ blind' = {} => net' + Bracket!Struck' >= 0
    <3>1. bPc = "failed" /\ blind = {} => net + s >= 0
      BY <2>3 DEF Account
    <3> QED BY <1>1, <2>3, <2>4, <3>1
  <2> QED BY <2>6, <2>7, <2>8, <2>9 DEF Account
<1>11. Resolution'
  <2>1. bPc \in {"close", "again"} /\ EntryKnown => net' <= closing
    <3>1. bPc \in {"close", "again"} /\ EntryKnown => net <= closing
      BY DEF Resolution
    <3> QED BY <1>5, <3>1
  <2>2. bPc = "failed" /\ EntryKnown => net' <= 0
    <3>1. bPc = "failed" /\ EntryKnown => net <= 0
      BY DEF Resolution
    <3> QED BY <1>5, <3>1
  <2>3. status'[Bracket!Entry] = status[Bracket!Entry]
    BY <1>3
  <2>4. EntryKnown' = EntryKnown
    BY <1>1 DEF EntryKnown
  <2> QED BY <1>1, <2>1, <2>2, <2>3, <2>4 DEF Resolution, Cancelled
<1>12. Leftovers'
  <2>1. \A p \in Bracket!Order : status'[p] = "working" => status[p] = "working"
    BY <1>3
  <2> QED BY <1>1, <2>1 DEF Leftovers
<1> QED BY <1>7, <1>8, <1>9, <1>10, <1>11, <1>12 DEF BracketInv

\* Nothing happens to an entry whose variables stay.
LEMMA BracketStutter == ASSUME BracketInv, UNCHANGED BracketVars PROVE BracketInv'
<1>1. UNCHANGED <<limit, bPc, status, answer, net, entered, targeted, left, blind, closing>>
  BY DEF BracketVars
<1>2. Bracket!Struck' = Bracket!Struck
  BY <1>1, StruckStays DEF Struck
<1>3. Bracket!TypeOK' /\ AnswersTell' /\ StopsTell'
  BY <1>1 DEF BracketInv, Bracket!TypeOK, AnswersTell, StopsTell
<1>4. Account'
  BY <1>1, <1>2 DEF BracketInv, Account
<1>5. Resolution' /\ Leftovers'
  BY <1>1 DEF BracketInv, Resolution, Leftovers, EntryKnown
<1> QED BY <1>3, <1>4, <1>5 DEF BracketInv

\* Every step of the entry, its orders or its resolution keeps the invariant.
LEMMA BracketStep == ASSUME BracketInv, Bracket!Next PROVE BracketInv'
<1>1. CASE Bracket!Handler
  BY <1>1, PlaceEntryInv, BracketAnsweredInv, RetryStopInv, ListOrdersInv, CancelsDoneInv,
     ReadPositionInv, CloseEntryInv, PlaceBracketInv, CancelOrderInv DEF Bracket!Handler
<1>2. CASE Bracket!EntryFills
  BY <1>2, EntryFillsInv
<1>3. CASE Bracket!ExitFills
  BY <1>3, ExitFillsInv
<1>4. CASE Bracket!Finished
  <2>1. UNCHANGED BracketVars
    BY <1>4 DEF Bracket!Finished, Bracket!vars, BracketVars
  <2> QED BY <2>1, BracketStutter
<1> QED BY <1>1, <1>2, <1>3, <1>4 DEF Bracket!Next

\* What the invariant says of an entry.
LEMMA BracketSafe ==
    ASSUME BracketInv
    PROVE  /\ Bracket!TypeOK /\ Bracket!OneStop /\ Bracket!TrackedIsProtected
           /\ Bracket!NakedHasCause /\ Bracket!FailedClosesEntry /\ Bracket!SurvivorsHaveCause
<1> USE BracketOrders, BracketTypes
<1>1. Bracket!TypeOK
  OBVIOUS
<1>2. Bracket!OneStop
  <2>1. status[Second] # "none" => answer[Second] # "none"
    BY DEF AnswersTell
  <2>2. answer[Second] # "none" => status[First] = "none"
    BY DEF AnswersTell, StopsTell
  <2> QED BY <2>1, <2>2 DEF Bracket!OneStop, First, Second
<1>3. bPc = "tracked" => \E o \in {First, Second} : answer[o] = "ok" /\ status[o] \in {"working", "filled"}
  <2> SUFFICES ASSUME bPc = "tracked"
               PROVE  \E o \in {First, Second} : answer[o] = "ok" /\ status[o] \in {"working", "filled"}
    OBVIOUS
  <2>1. PICK o \in {First, Second} : answer[o] = "ok"
    BY DEF StopsTell
  <2>2. o \in Exit /\ o \in Bracket!Order
    OBVIOUS
  <2>3. status[o] # "none" /\ status[o] # "gone"
    BY <2>1, <2>2 DEF AnswersTell
  <2> QED BY <2>1, <2>2, <2>3
<1>4. Bracket!TrackedIsProtected
  BY <1>3 DEF Bracket!TrackedIsProtected
<1>5. Bracket!NakedHasCause
  <2> DEFINE Cause ==
        limit /\ bPc = "failed"
        /\ (\/ Bracket!Entry \in Bracket!Told \/ Bracket!ListTold \/ "id" \in blind
            \/ closing = 0 /\ (Bracket!Entry \in left \/ "orders" \in blind))
  <2>1. bPc = "failed" /\ ~EntryKnown => Cause
    <3> SUFFICES ASSUME bPc = "failed", ~EntryKnown PROVE Cause
      OBVIOUS
    <3>1. limit /\ ("orders" \in blind \/ "id" \in blind \/ Bracket!Entry \in left)
      BY DEF EntryKnown
    <3>2. closing = 0 \/ closing > 0
      OBVIOUS
    <3> QED BY <3>1, <3>2 DEF Bracket!Told, Bracket!ListTold
  <2> HIDE DEF Cause
  <2> SUFFICES ASSUME bPc \in Bracket!Ended, net > 0, bPc # "unprotected",
                      answer[Bracket!Entry] # "unknown", ~Cause
               PROVE  \E o \in Bracket!Stop : status[o] = "working"
    BY DEF Bracket!NakedHasCause, Bracket!Working, Cause
  <2>2. bPc # "refused"
    BY DEF AnswersTell
  <2>7. bPc # "failed"
    BY <2>1 DEF Resolution
  <2>3. bPc = "tracked"
    BY <2>2, <2>7 DEF Bracket!Ended
  <2>4. PICK o \in {First, Second} : status[o] \in {"working", "filled"}
    BY <1>3, <2>3
  <2>5. status[o] = "filled" => net <= entered - Qty
    BY DEF Account
  <2>6. status[o] # "filled"
    BY <2>5
  <2> QED BY <2>4, <2>6
<1>6. Bracket!FailedClosesEntry
  <2> SUFFICES ASSUME bPc = "failed", blind = {}, Bracket!Entry \notin left
               PROVE  net \in (-Bracket!Struck) .. 0
    BY DEF Bracket!FailedClosesEntry
  <2>1. net <= 0
    BY DEF Resolution, EntryKnown
  <2>2. PICK s \in Int : s = Bracket!Struck
    BY BracketTypes
  <2>3. net + s >= 0
    BY <2>2 DEF Account
  <2>4. net \in (-s) .. 0
    BY <2>1, <2>3
  <2> QED BY <2>2, <2>4
<1>7. Bracket!SurvivorsHaveCause
  <2> SUFFICES ASSUME bPc = "failed", NEW o \in Bracket!Order, status[o] = "working"
               PROVE  \/ o \in Bracket!Told \/ Bracket!ListTold
                      \/ o \in Bracket!Target /\ answer[o] = "unknown"
                      \/ "id" \in blind
                      \/ closing = 0 /\ limit /\ (o \in left \/ "orders" \in blind)
    BY DEF Bracket!SurvivorsHaveCause, Bracket!Working
  <2>1. targeted = {}
    BY DEF Cancelled, Leftovers
  <2>2. \/ "orders" \in blind \/ "id" \in blind \/ o \in left
        \/ o \in Bracket!Target /\ answer[o] = "unknown"
    <3>1. blind \cap {"orders", "id"} = {} =>
            o \in left \cup targeted \/ (o \in Bracket!Target /\ answer[o] = "unknown")
      BY DEF Cancelled, Leftovers
    <3> QED BY <2>1, <3>1
  <2>3. closing > 0 \/ (closing = 0 /\ limit)
    BY DEF Resolution
  <2> QED BY <2>2, <2>3 DEF Bracket!Told, Bracket!ListTold
<1> QED BY <1>1, <1>2, <1>4, <1>5, <1>6, <1>7

-----------------------------------------------------------------------------
(* ProtectionUpdate: the stops that work cover what is held.               *)
(* Every order ever placed stays known in one place: the record, the copy  *)
(* of it that set_sl_tp edits, or what the running step still has in hand. *)

\* The stages that edit a copy of the record, and the copy or the record.
Setting == {"modify", "stop", "retire stop", "target", "retire targets", "rollback"}
Held == IF job.at \in Setting THEN job.info ELSE uRec
Stops == {id \in live : order[id].stop}
Aims == {id \in live : ~order[id].stop}
Info == [sl : Update!Id \cup {Update!NoId}, extra : SUBSET Update!Id,
         tps : SUBSET Update!Id, qty : -1 .. 2]

\* The orders are numbered as they were placed, and the running signal has
\* numbers left for the two it may place.
Numbered ==
    \E n \in 3 .. 3 + 2 * updates :
      /\ DOMAIN order = 1 .. n
      /\ job.at \in {"modify", "stop"} => n + 2 <= 3 + 2 * updates
      /\ job.at \in {"retire stop", "target"} => n + 1 <= 3 + 2 * updates

OrderTypes ==
    /\ {2, 3} \subseteq DOMAIN order
    /\ order \in [DOMAIN order -> [stop : BOOLEAN, qty : 0 .. 2]]
    /\ ~order[2].stop /\ ~order[3].stop /\ order[2].qty = 1 /\ order[3].qty = 1
    /\ live \subseteq DOMAIN order /\ lost \subseteq DOMAIN order
    /\ pos \in -1 .. 2 /\ updates \in 0 .. MaxUpdates /\ uFaults \in 0 .. UpdateFaults
    /\ uReported \in BOOLEAN /\ raced \in BOOLEAN

\* A target's fill is reported once, the nearer one's first.
ReportTypes ==
    /\ reports \in {<<>>, <<1>>, <<2>>, <<1, 2>>}
    /\ 2 \in live => reports = <<>>
    /\ 3 \in live => reports \in {<<>>, <<1>>}

JobTypes ==
    /\ uRec \in Info
    /\ job \in [at : Setting \cup {"idle", "resize", "extras"}, tp : BOOLEAN, qty : 0 .. 2,
                info : {job.info}, new : Update!Id \cup {Update!NoId}, left : SUBSET Update!Id]
    /\ job.at \in Setting => job.info \in Info /\ job.info.qty = job.qty /\ job.qty # 0
    /\ Held.sl \in DOMAIN order \cup {Update!NoId}
    /\ Held.sl # Update!NoId => order[Held.sl].stop
    /\ Held.extra \subseteq DOMAIN order /\ Held.tps \subseteq DOMAIN order
    /\ job.at \in {"retire stop", "retire targets", "rollback"} => job.new \in DOMAIN order
    /\ job.left \subseteq DOMAIN order
    /\ job.at = "modify" => Held.sl # Update!NoId
    /\ job.at = "resize" => uRec.sl # Update!NoId
    /\ job.at # "idle" => uRec.qty # -1

\* Every order that may be working is known, or its placement was reported.
InHand ==
    IF job.at \in {"retire stop", "retire targets"} THEN Held.tps \cup {job.new}
    ELSE IF job.at = "rollback" THEN job.left \cup {job.new} ELSE Held.tps
KeepsKnown ==
    /\ Held.qty # -1 => live \subseteq {Held.sl} \cup Held.extra \cup InHand \cup lost
    /\ uRec.qty = -1 /\ ~raced => live = {} \/ uReported

\* Flat, with a target of set_sl_tp filled or replaced.
FlatByTarget == pos = 0 /\ \E id \in DOMAIN order \ live : ~order[id].stop /\ id \notin {2, 3}

\* As long as nothing failed and no target filled under set_sl_tp: one stop works, the
\* targets that work are what is held, and the stop's size is either that or about to be.
Quiet == ~uReported /\ ~raced
OneStopWorks ==
    /\ Held.extra = {} /\ lost = {} /\ job.at # "rollback"
    /\ Stops = IF job.at = "retire stop" THEN {Held.sl, job.new}
               ELSE IF Held.sl = Update!NoId THEN {} ELSE {Held.sl}
    /\ job.at = "retire stop" => job.new # Held.sl
    /\ job.at \in Setting => pos # 0 /\ Held.sl # Update!NoId /\ job.qty = pos
    /\ Held.sl = Update!NoId \/ Held.qty \in {-1, 0} => pos = 0 /\ Held.sl = Update!NoId
Replacement == IF job.at = "retire targets" THEN {job.new} ELSE {}
AimsMatch(aims) ==
    \/ aims = {2, 3} /\ pos = 2
    \/ aims = {3} /\ pos = 1
    \/ aims = {} /\ pos = 0
    \/ \E t \in DOMAIN order : t \notin {2, 3} /\ aims = {t} /\ order[t].qty = pos /\ pos # 0
AimsAreHeld ==
    /\ Aims \ Replacement \subseteq Held.tps
    /\ \A t \in Held.tps : ~order[t].stop
    /\ \A t \in Replacement : t \notin Held.tps /\ t \notin {2, 3} /\ t \in Aims /\ order[t].qty = pos
    /\ AimsMatch(Aims \ Replacement)
SizeFollows ==
    /\ reports = <<1>> => pos = 1 \/ FlatByTarget
    /\ reports \in {<<2>>, <<1, 2>>} => pos = 0
    /\ job.at = "resize" =>
         (job.qty = 0 => pos = 0) /\ (reports = <<>> => job.qty = pos \/ FlatByTarget)
    /\ reports = <<>> /\ Held.sl # Update!NoId /\ job.at \notin {"resize", "modify", "stop"} =>
         order[Held.sl].qty = pos \/ FlatByTarget

UpdateInv ==
    /\ Numbered /\ OrderTypes /\ ReportTypes /\ JobTypes /\ KeepsKnown
    /\ Quiet => OneStopWorks /\ AimsAreHeld /\ SizeFollows

\* The bracket stands as its entry left it.
LEMMA UpdateInit == ASSUME Update!Init PROVE UpdateInv
<1> USE UpdateAssumption DEF Update!Id, Update!NoId, Update!Entry
<1>1. /\ pos = 2 /\ live = 1 .. 3 /\ reports = <<>> /\ job = Update!Idle /\ updates = 0
      /\ uFaults = 0 /\ lost = {} /\ uReported = FALSE /\ raced = FALSE
      /\ uRec = [sl |-> 1, extra |-> {}, tps |-> {2, 3}, qty |-> 2]
      /\ order = [id \in 1 .. 3 |-> IF id = 1 THEN [stop |-> TRUE, qty |-> 2]
                                              ELSE [stop |-> FALSE, qty |-> 1]]
  BY DEF Update!Init
<1>2. /\ DOMAIN order = 1 .. 3 /\ order \in [DOMAIN order -> [stop : BOOLEAN, qty : 0 .. 2]]
      /\ order[1].stop /\ order[1].qty = 2
      /\ ~order[2].stop /\ ~order[3].stop /\ order[2].qty = 1 /\ order[3].qty = 1
  BY <1>1
<1>3. job.at = "idle" /\ Held = uRec
  BY <1>1 DEF Update!Idle, Held, Setting
<1>4. Numbered
  <2>1. 3 \in 3 .. 3 + 2 * updates
    BY <1>1
  <2> QED BY <1>2, <1>3, <2>1 DEF Numbered
<1>11. OrderTypes
  <2>1. uReported \in BOOLEAN /\ raced \in BOOLEAN
    BY <1>1
  <2>2. pos \in -1 .. 2 /\ updates \in 0 .. MaxUpdates /\ uFaults \in 0 .. UpdateFaults
    BY <1>1
  <2>3. live \subseteq DOMAIN order /\ lost \subseteq DOMAIN order
    BY <1>1, <1>2
  <2> QED BY <1>2, <2>1, <2>2, <2>3 DEF OrderTypes
<1>12. ReportTypes
  BY <1>1 DEF ReportTypes
<1>5. JobTypes
  BY <1>1, <1>2, <1>3 DEF JobTypes, Info, Update!Idle, Setting
<1>6. KeepsKnown
  BY <1>1, <1>3 DEF KeepsKnown, InHand
<1>7. Stops = {1} /\ Aims = {2, 3}
  BY <1>1, <1>2 DEF Stops, Aims
<1>8. OneStopWorks
  BY <1>1, <1>3, <1>7 DEF OneStopWorks, Setting, Update!NoId
<1>9. AimsAreHeld
  BY <1>1, <1>3, <1>7 DEF AimsAreHeld, AimsMatch, Replacement
<1>10. SizeFollows
  BY <1>1, <1>2, <1>3 DEF SizeFollows
<1> QED BY <1>4, <1>5, <1>6, <1>8, <1>9, <1>10, <1>11, <1>12 DEF UpdateInv

\* The instance counts as the library does.
LEMMA UpdateCount == ASSUME NEW S PROVE Update!Cardinality(S) = Cardinality(S)
BY Zenon DEF Cardinality, Update!Cardinality

\* The number the next order gets.
LEMMA NextNumber ==
    ASSUME NEW n \in Nat, DOMAIN order = 1 .. n PROVE Update!NextId = n + 1
<1>1. Cardinality(1 .. n) = n
  BY FS_Interval
<1> QED BY <1>1, UpdateCount DEF Update!NextId

\* What is left of the entry after a target's report.
LEMMA RemainingIs == Update!Remaining(1) = 1 /\ Update!Remaining(2) = 0
<1>1. /\ {id \in DOMAIN Update!Slice : Update!Slice[id] <= 1} = {2}
      /\ {id \in DOMAIN Update!Slice : Update!Slice[id] <= 2} = {2, 3}
  BY DEF Update!Slice
<1>2. Cardinality({2}) = 1 /\ Cardinality({2, 3}) = 2
  <2>1. Cardinality({2}) = 1 /\ IsFiniteSet({2}) /\ {2, 3} = {2} \cup {3}
    BY FS_Singleton
  <2>2. Cardinality({2} \cup {3}) = Cardinality({2}) + 1
    BY <2>1, FS_AddElement
  <2> QED BY <2>1, <2>2
<1> QED BY <1>1, <1>2, UpdateCount DEF Update!Remaining, Update!Entry

\* The contracts of no order, and of one.
LEMMA NoContracts == Update!MapThenSumSet(LAMBDA id : order[id].qty, {}) = 0
<1> DEFINE Sums(k) == k = [s \in SUBSET {} |-> IF s = {} THEN 0
                             ELSE LET x == CHOOSE y \in s : TRUE IN order[x].qty + k[s \ {x}]]
           f == CHOOSE k : Sums(k)
<1>1. Sums([s \in SUBSET {} |-> 0])
  OBVIOUS
<1>2. Sums(f)
  BY <1>1
<1>3. Update!MapThenSumSet(LAMBDA id : order[id].qty, {}) = f[{}]
  BY DEF Update!MapThenSumSet, Update!MapThenFoldSet
<1> HIDE DEF f
<1> QED BY <1>2, <1>3

\* The sum over one order is what it is for.
LEMMA OneContracts ==
    ASSUME NEW id, order[id].qty \in Int
    PROVE  Update!MapThenSumSet(LAMBDA i : order[i].qty, {id}) = order[id].qty
<1> DEFINE Sums(k) == k = [s \in SUBSET {id} |-> IF s = {} THEN 0
                             ELSE LET x == CHOOSE y \in s : TRUE IN order[x].qty + k[s \ {x}]]
           f == CHOOSE k : Sums(k)
           g == [s \in SUBSET {id} |-> IF s = {} THEN 0 ELSE order[id].qty]
<1>1. ASSUME NEW s \in SUBSET {id}, s # {}
      PROVE (CHOOSE y \in s : TRUE) = id /\ s \ {id} = {} /\ s = {id}
  <2>1. s = {id}
    BY <1>1
  <2>2. (CHOOSE y \in s : TRUE) \in s
    BY <1>1
  <2> QED BY <2>1, <2>2
<1>2. {} \in SUBSET {id} /\ {id} \in SUBSET {id} /\ {id} # {}
  OBVIOUS
<1>3. Sums(g)
  <2>1. ASSUME NEW s \in SUBSET {id}
        PROVE g[s] = IF s = {} THEN 0
                     ELSE LET x == CHOOSE y \in s : TRUE IN order[x].qty + g[s \ {x}]
    BY <1>1, <1>2
  <2> QED BY <2>1
<1>4. Sums(f)
  BY <1>3
<1>5. Update!MapThenSumSet(LAMBDA i : order[i].qty, {id}) = f[{id}]
  BY DEF Update!MapThenSumSet, Update!MapThenFoldSet
<1> HIDE DEF f
<1>6. f[{}] = 0 /\ f[{id}] = order[id].qty + f[{id} \ {id}]
  BY <1>1, <1>2, <1>4
<1> QED BY <1>5, <1>6

\* Where a signal that goes on leaves its copy of the record.
LEMMA ContinueGives ==
    ASSUME JobTypes, NEW info \in Info, NEW to \in {"stop", "target", "end"},
           Update!Continue(info, to)
    PROVE  /\ Held' = info /\ job'.at \in {"idle", to} \ {"end"}
           /\ to = "stop" => job'.at = "stop"
           /\ job' \in [at : Setting \cup {"idle", "resize", "extras"}, tp : BOOLEAN, qty : 0 .. 2,
                        info : {job'.info}, new : Update!Id \cup {Update!NoId},
                        left : SUBSET Update!Id]
           /\ \/ job' = Update!Idle /\ uRec' = info
              \/ /\ job'.at = to /\ to # "end" /\ job'.qty = job.qty /\ job'.new = job.new
                 /\ job'.left = job.left /\ job'.info = info /\ uRec' = uRec
<1>1. job \in [at : Setting \cup {"idle", "resize", "extras"}, tp : BOOLEAN, qty : 0 .. 2,
               info : {job.info}, new : Update!Id \cup {Update!NoId}, left : SUBSET Update!Id]
  BY DEF JobTypes
<1>2. CASE job' = Update!Idle /\ uRec' = info /\ to # "stop"
  BY <1>2 DEF Update!Idle, Update!NoId, Held, Setting
<1>3. CASE job' = [job EXCEPT !.at = to, !.info = info] /\ to # "end" /\ UNCHANGED uRec
  BY <1>1, <1>3 DEF Held, Setting
<1> QED BY <1>2, <1>3 DEF Update!Continue

\* The types of what goes on.
LEMMA ContinueTypes ==
    ASSUME JobTypes, NEW info \in Info, NEW to \in {"stop", "target", "end"},
           Update!Continue(info, to),
           job.at \in Setting, info.qty = job.qty, job.qty # 0, DOMAIN order \subseteq DOMAIN order',
           info.sl \in DOMAIN order' \cup {Update!NoId},
           info.sl # Update!NoId => order'[info.sl].stop,
           info.extra \subseteq DOMAIN order', info.tps \subseteq DOMAIN order'
    PROVE  JobTypes'
<1>1. /\ Held' = info /\ job'.at \in {"idle", to} \ {"end"}
      /\ job' \in [at : Setting \cup {"idle", "resize", "extras"}, tp : BOOLEAN, qty : 0 .. 2,
                   info : {job'.info}, new : Update!Id \cup {Update!NoId},
                   left : SUBSET Update!Id]
      /\ \/ job' = Update!Idle /\ uRec' = info
         \/ /\ job'.at = to /\ to # "end" /\ job'.qty = job.qty /\ job'.new = job.new
            /\ job'.left = job.left /\ job'.info = info /\ uRec' = uRec
  BY ContinueGives
<1>2. CASE job' = Update!Idle /\ uRec' = info
  BY <1>1, <1>2 DEF JobTypes, Update!Idle, Setting
<1>3. CASE job'.at = to /\ to # "end" /\ job'.qty = job.qty /\ job'.new = job.new
            /\ job'.left = job.left /\ job'.info = info /\ uRec' = uRec
  BY <1>1, <1>3 DEF JobTypes, Setting
<1> QED BY <1>1, <1>2, <1>3

\* An order whose quantity was changed, or not.
Resized(id, q) == [order EXCEPT ![id].qty = q]
\* A resize changes the quantity of one stop.
LEMMA Resizes ==
    ASSUME OrderTypes, NEW id \in DOMAIN order, order[id].stop, NEW q \in 0 .. 2,
           order' = order \/ order' = Resized(id, q)
    PROVE  /\ DOMAIN order' = DOMAIN order
           /\ order' \in [DOMAIN order' -> [stop : BOOLEAN, qty : 0 .. 2]]
           /\ order'[id].stop /\ (order' = Resized(id, q) => order'[id].qty = q)
           /\ \A i \in DOMAIN order : i # id => order'[i] = order[i]
<1>1. order \in [DOMAIN order -> [stop : BOOLEAN, qty : 0 .. 2]]
  BY DEF OrderTypes
<1> USE DEF Resized
<1>2. CASE order' = order
  <2>1. order' = Resized(id, q) => order'[id].qty = q
    BY <1>1
  <2> QED BY <1>1, <1>2, <2>1
<1>3. CASE order' = Resized(id, q)
  BY <1>1, <1>3
<1> QED BY <1>2, <1>3

\* The flags and the sets do not change with it.
LEMMA ResizedSets ==
    ASSUME OrderTypes, NEW id \in DOMAIN order, order[id].stop, DOMAIN order' = DOMAIN order,
           order'[id].stop, \A i \in DOMAIN order : i # id => order'[i] = order[i],
           UNCHANGED <<live, pos>>
    PROVE  /\ order'[2] = order[2] /\ order'[3] = order[3] /\ 2 # id /\ 3 # id
           /\ \A i \in DOMAIN order : order'[i].stop <=> order[i].stop
           /\ Stops' = Stops /\ Aims' = Aims /\ (FlatByTarget => FlatByTarget')
           /\ \A aims \in SUBSET Aims : AimsMatch(aims) => AimsMatch(aims)'
<1>1. 2 # id /\ 3 # id
  BY DEF OrderTypes
<1>2. \A i \in DOMAIN order : order'[i].stop <=> order[i].stop
  OBVIOUS
<1>3. Stops' = Stops /\ Aims' = Aims /\ (FlatByTarget => FlatByTarget')
  BY <1>2 DEF Stops, Aims, FlatByTarget, OrderTypes
<1>4. ASSUME NEW aims \in SUBSET Aims, AimsMatch(aims) PROVE AimsMatch(aims)'
  BY <1>4 DEF AimsMatch, Aims
<1>5. order'[2] = order[2] /\ order'[3] = order[3]
  BY <1>1 DEF OrderTypes
<1> QED BY <1>1, <1>2, <1>3, <1>4, <1>5

\* An order that was placed under the next number.
Added(s, q) ==
    [id \in DOMAIN order \cup {Update!NextId} |->
       IF id = Update!NextId THEN [stop |-> s, qty |-> q] ELSE order[id]]
\* A placed order gets the next number.
LEMMA Places ==
    ASSUME OrderTypes, NEW n \in Nat, n >= 3, DOMAIN order = 1 .. n,
           NEW s \in BOOLEAN, NEW q \in 0 .. 2,
           order' = Added(s, q)
    PROVE  /\ Update!NextId = n + 1 /\ DOMAIN order' = 1 .. n + 1
           /\ order'[n + 1] = [stop |-> s, qty |-> q] /\ n + 1 \notin DOMAIN order
           /\ n + 1 \notin {0, 2, 3} /\ \A id \in DOMAIN order : order'[id] = order[id]
           /\ order' \in [DOMAIN order' -> [stop : BOOLEAN, qty : 0 .. 2]]
<1>1. Update!NextId = n + 1
  BY NextNumber
<1>2. order \in [DOMAIN order -> [stop : BOOLEAN, qty : 0 .. 2]]
  BY DEF OrderTypes
<1>3. [stop |-> s, qty |-> q] \in [stop : BOOLEAN, qty : 0 .. 2]
  BY Zenon
<1>4. DOMAIN order \cup {n + 1} = 1 .. n + 1
  OBVIOUS
<1> QED BY <1>1, <1>2, <1>3, <1>4 DEF Added

\* set_sl_tp begins with a copy of the record.
LEMMA SetInv ==
    ASSUME UpdateInv, NEW sl \in BOOLEAN, NEW tp \in BOOLEAN, Update!SetSlTp(sl, tp)
    PROVE  UpdateInv'
<1> USE UpdateAssumption
<1>1. /\ job = Update!Idle /\ updates < MaxUpdates /\ pos > 0 /\ uRec.qty >= 0 /\ uRec.qty # -1
      /\ updates' = updates + 1
      /\ UNCHANGED <<pos, order, live, uRec, reports, uFaults, lost, uReported, raced>>
  BY DEF Update!SetSlTp, Update!Tracked, Update!market, Update!broker
<1>2. job.at = "idle" /\ Held = uRec
  BY <1>1 DEF Update!Idle, Held, Setting
<1>3. pos \in 1 .. 2 /\ updates \in Nat /\ MaxUpdates \in Nat
  BY <1>1 DEF UpdateInv, OrderTypes
<1>4. PICK at1 \in {"modify", "stop", "target"} :
        /\ at1 = "modify" => uRec.sl # Update!NoId
        /\ job' = [Update!Idle EXCEPT !.at = at1, !.tp = tp, !.qty = pos,
                                      !.info = [uRec EXCEPT !.qty = pos]]
  BY DEF Update!SetSlTp
<1>14. at1 \in {"modify", "stop", "target"} /\ (at1 = "modify" => uRec.sl # Update!NoId)
  BY <1>4, Zenon
<1> DEFINE info == [uRec EXCEPT !.qty = pos]
<1>5. uRec \in Info
  BY DEF UpdateInv, JobTypes
<1>6. /\ info \in Info /\ info.sl = uRec.sl /\ info.extra = uRec.extra /\ info.tps = uRec.tps
      /\ info.qty = pos
  BY <1>3, <1>5 DEF Info
<1>7. /\ job'.at = at1 /\ job'.tp = tp /\ job'.qty = pos /\ job'.info = info
      /\ job'.new = Update!NoId /\ job'.left = {}
      /\ job' \in [at : Setting \cup {"idle", "resize", "extras"}, tp : BOOLEAN, qty : 0 .. 2,
                   info : {job'.info}, new : Update!Id \cup {Update!NoId},
                   left : SUBSET Update!Id]
  <2>1. job' = [at |-> at1, tp |-> tp, qty |-> pos, info |-> info, new |-> Update!NoId,
                left |-> {}]
    BY <1>4 DEF Update!Idle
  <2> HIDE DEF info
  <2>5. pos \in 0 .. 2
    BY <1>3
  <2>6. at1 \in {"modify", "stop", "target"}
    BY <1>14
  <2>7. at1 \in Setting
    BY <2>6 DEF Setting
  <2>2. at1 \in Setting \cup {"idle", "resize", "extras"} /\ pos \in 0 .. 2
    BY <2>5, <2>7
  <2>3. Update!NoId \in Update!Id \cup {Update!NoId} /\ {} \in SUBSET Update!Id
    OBVIOUS
  <2>4. /\ job'.at = at1 /\ job'.tp = tp /\ job'.qty = pos /\ job'.info = info
        /\ job'.new = Update!NoId /\ job'.left = {}
    BY <2>1
  <2> QED BY <2>1, <2>2, <2>3, <2>4, Zenon
<1>8. Held' = info
  BY <1>7 DEF Held, Setting
<1> HIDE DEF info
<1>9. Numbered'
  <2>1. PICK n \in 3 .. 3 + 2 * updates : DOMAIN order = 1 .. n
    BY DEF UpdateInv, Numbered
  <2>2. n \in 3 .. 3 + 2 * updates' /\ n + 2 <= 3 + 2 * updates' /\ n + 1 <= 3 + 2 * updates'
    BY <1>1, <1>3
  <2>3. DOMAIN order' = 1 .. n
    BY <1>1, <2>1
  <2> QED BY <2>2, <2>3 DEF Numbered
<1>10. OrderTypes' /\ ReportTypes'
  BY <1>1, <1>3 DEF UpdateInv, OrderTypes, ReportTypes
<1>11. JobTypes'
  <2>1. pos # 0 /\ job'.at \in {"modify", "stop", "target"}
    BY <1>1, <1>7, <1>14
  <2>2. JobTypes
    BY DEF UpdateInv
  <2>3. uRec' \in Info /\ job'.info \in Info /\ job'.info.qty = job'.qty
    BY <1>1, <1>5, <1>6, <1>7
  <2>4. /\ Held'.sl = Held.sl /\ Held'.extra = Held.extra /\ Held'.tps = Held.tps
        /\ order' = order /\ job'.at = "modify" => Held'.sl # Update!NoId
    BY <1>2, <1>6, <1>7, <1>8, <1>14
  <2> QED BY <1>1, <1>7, <2>1, <2>2, <2>3, <2>4 DEF JobTypes
<1>12. KeepsKnown'
  BY <1>1, <1>2, <1>6, <1>7, <1>8 DEF UpdateInv, KeepsKnown, InHand
<1>13. Quiet' => OneStopWorks' /\ AimsAreHeld' /\ SizeFollows'
  <2> SUFFICES ASSUME Quiet' PROVE OneStopWorks' /\ AimsAreHeld' /\ SizeFollows'
    OBVIOUS
  <2>1. OneStopWorks /\ AimsAreHeld /\ SizeFollows
    BY <1>1 DEF Quiet, UpdateInv
  <2>2. Stops' = Stops /\ Aims' = Aims /\ FlatByTarget' = FlatByTarget
    BY <1>1 DEF Stops, Aims, FlatByTarget
  <2>3. OneStopWorks'
    <3>1. /\ Held'.extra = Held.extra /\ Held'.sl = Held.sl /\ Held'.qty = pos /\ job'.qty = pos
          /\ job'.at \notin {"retire stop", "rollback"} /\ job.at \notin {"retire stop"}
      BY <1>2, <1>6, <1>7, <1>8, <1>14
    <3>2. lost' = lost /\ pos' = pos /\ pos \notin {-1, 0}
      BY <1>1, <1>3
    <3> QED BY <2>1, <2>2, <3>1, <3>2 DEF OneStopWorks
  <2>4. AimsAreHeld'
    BY <1>1, <1>2, <1>6, <1>7, <1>8, <2>1, <2>2 DEF AimsAreHeld, AimsMatch, Replacement
  <2>5. SizeFollows'
    BY <1>1, <1>2, <1>6, <1>7, <1>8, <2>1, <2>2 DEF SizeFollows
  <2> QED BY <2>3, <2>4, <2>5
<1> QED BY <1>9, <1>10, <1>11, <1>12, <1>13 DEF UpdateInv

\* The stop is modified in place, refused, or nobody knows.
LEMMA ModifyInv == ASSUME UpdateInv, Update!ModifyStop PROVE UpdateInv'
<1> USE UpdateAssumption
<1> DEFINE info == job.info
           old == job.info.sl
<1>1. job.at = "modify" /\ UNCHANGED <<pos, reports, raced, live, updates, lost>>
  BY DEF Update!ModifyStop, Update!market
<1>2. Numbered /\ OrderTypes /\ ReportTypes /\ JobTypes /\ KeepsKnown
  BY DEF UpdateInv
<1>3. /\ Held = info /\ info \in Info /\ old \in DOMAIN order /\ order[old].stop
      /\ info.qty = job.qty /\ job.qty # 0 /\ job.qty \in 0 .. 2
      /\ info.extra \subseteq DOMAIN order /\ info.tps \subseteq DOMAIN order
  BY <1>1, <1>2 DEF Held, Setting, JobTypes
<1>4. PICK to \in {"target", "stop"} :
        /\ Update!Continue(info, to)
        /\ order' = order \/ order' = Resized(old, job.qty)
        /\ uFaults' \in 0 .. UpdateFaults
        /\ uReported' = uReported \/ uReported' = TRUE
        /\ uReported' = TRUE \/ to = "stop" \/ order' = Resized(old, job.qty)
  <2> HIDE DEF info, old
  <2>1. uFaults \in 0 .. UpdateFaults /\ UpdateFaults \in Nat
    BY <1>2 DEF OrderTypes
  <2>2. \/ /\ order' = Resized(old, job.qty) /\ UNCHANGED <<uFaults, uReported>>
           /\ Update!Continue(info, "target")
        \/ /\ UNCHANGED <<order, uReported>> /\ Update!Continue(info, "stop")
           /\ uFaults < UpdateFaults \/ old \notin live
           /\ uFaults' = (IF old \in live THEN uFaults + 1 ELSE uFaults)
        \/ /\ order' = order \/ order' = Resized(old, job.qty)
           /\ uFaults < UpdateFaults /\ uFaults' = uFaults + 1 /\ uReported' = TRUE
           /\ Update!Continue(info, "target")
    BY Zenon DEF Update!ModifyStop, Resized, info, old, Update!Works, Update!Fails
  <2>3. uFaults' \in 0 .. UpdateFaults
    BY <2>1, <2>2
  <2> QED BY <2>2, <2>3, Zenon
<1> HIDE DEF info, old
<1>5. /\ DOMAIN order' = DOMAIN order
      /\ order' \in [DOMAIN order' -> [stop : BOOLEAN, qty : 0 .. 2]]
      /\ order'[old].stop /\ (order' = Resized(old, job.qty) => order'[old].qty = job.qty)
      /\ \A i \in DOMAIN order : i # old => order'[i] = order[i]
  BY <1>2, <1>3, <1>4, Resizes, Zenon
<1>6. /\ order'[2] = order[2] /\ order'[3] = order[3]
      /\ Stops' = Stops /\ Aims' = Aims /\ (FlatByTarget => FlatByTarget')
      /\ \A aims \in SUBSET Aims : AimsMatch(aims) => AimsMatch(aims)'
  BY <1>1, <1>2, <1>3, <1>5, ResizedSets
<1>7. /\ Held' = info /\ job'.at \in {"idle", "target", "stop"}
      /\ to = "stop" => job'.at = "stop"
      /\ \/ job' = Update!Idle /\ uRec' = info
         \/ /\ job'.at = to /\ job'.qty = job.qty /\ job'.new = job.new
            /\ job'.left = job.left /\ job'.info = info /\ uRec' = uRec
  BY <1>2, <1>3, <1>4, ContinueGives
<1>8. info.sl = old
  BY DEF info, old
<1>9. JobTypes'
  <2>1. job.at \in Setting
    BY <1>1 DEF Setting
  <2> QED BY <1>2, <1>3, <1>4, <1>5, <1>8, <2>1, ContinueTypes
<1>10. Numbered'
  <2>1. PICK n \in 3 .. 3 + 2 * updates : DOMAIN order = 1 .. n /\ n + 2 <= 3 + 2 * updates
    BY <1>1, <1>2 DEF Numbered
  <2>2. updates' = updates /\ DOMAIN order' = 1 .. n /\ updates \in Nat
    BY <1>1, <1>2, <1>5, <2>1 DEF OrderTypes
  <2>3. n \in 3 .. 3 + 2 * updates' /\ n + 2 <= 3 + 2 * updates' /\ n + 1 <= 3 + 2 * updates'
    BY <2>1, <2>2
  <2> QED BY <2>2, <2>3 DEF Numbered
<1>11. OrderTypes' /\ ReportTypes'
  BY <1>1, <1>2, <1>4, <1>5, <1>6 DEF OrderTypes, ReportTypes
<1>12. KeepsKnown'
  <2>1. job'.at \notin {"retire stop", "retire targets", "rollback"}
        /\ job.at \notin {"retire stop", "retire targets", "rollback"}
    BY <1>1, <1>7
  <2>2. uRec' = uRec \/ uRec' = info
    BY <1>7
  <2>3. info.qty # -1 /\ Held' = Held
    BY <1>3, <1>7
  <2>4. InHand' = InHand /\ live' = live /\ lost' = lost
    BY <1>1, <2>1, <2>3 DEF InHand
  <2>5. uReported => uReported'
    BY <1>4, Zenon
  <2>6. raced' = raced /\ (uRec'.qty = -1 => uRec.qty = -1)
    BY <1>1, <2>2, <2>3
  <2>7. KeepsKnown
    BY <1>2
  <2> QED BY <2>3, <2>4, <2>5, <2>6, <2>7 DEF KeepsKnown
<1>13. Quiet' => OneStopWorks' /\ AimsAreHeld' /\ SizeFollows'
  <2> SUFFICES ASSUME Quiet' PROVE OneStopWorks' /\ AimsAreHeld' /\ SizeFollows'
    OBVIOUS
  <2>1. OneStopWorks /\ AimsAreHeld /\ SizeFollows /\ ~uReported'
    BY <1>1, <1>4 DEF Quiet, UpdateInv
  <2>2. job'.at \notin {"retire stop", "retire targets", "rollback", "resize", "modify"}
        /\ job.at \notin {"retire stop", "retire targets", "rollback", "resize", "stop"}
    BY <1>1, <1>7
  <2>3. pos # 0 /\ Held.sl # Update!NoId /\ job.qty = pos
    BY <1>1, <2>1 DEF OneStopWorks, Setting
  <2>4. OneStopWorks'
    <3>1. Held' = Held /\ pos' = pos /\ lost' = lost /\ Stops' = Stops
      BY <1>1, <1>3, <1>6, <1>7
    <3>2. job'.at \in Setting => job'.qty = job.qty
      <4>1. CASE job' = Update!Idle
        <5>1. job'.at = "idle"
          BY <4>1 DEF Update!Idle
        <5> QED BY <5>1 DEF Setting
      <4>2. CASE job'.qty = job.qty
        BY <4>2
      <4> QED BY <1>7, <4>1, <4>2
    <3> QED BY <2>1, <2>2, <2>3, <3>1, <3>2 DEF OneStopWorks
  <2>5. AimsAreHeld'
    <3>1. \A t \in Held.tps : ~order'[t].stop
      BY <1>3, <1>5, <2>1 DEF AimsAreHeld
    <3>2. Replacement = {} /\ Replacement' = {} /\ Held' = Held
      BY <1>3, <1>7, <2>2 DEF Replacement
    <3> QED BY <1>6, <2>1, <3>1, <3>2 DEF AimsAreHeld
  <2>6. SizeFollows'
    <3>1. job'.at = "stop" \/ order'[old].qty = job.qty
      BY <1>4, <1>5, <1>7, <2>1
    <3> QED BY <1>1, <1>6, <1>7, <1>8, <2>1, <2>2, <2>3, <3>1 DEF SizeFollows
  <2> QED BY <2>4, <2>5, <2>6
<1> QED BY <1>9, <1>10, <1>11, <1>12, <1>13 DEF UpdateInv

\* The parts of the invariant that need no quiet.
LEMMA UpdateParts ==
    ASSUME UpdateInv
    PROVE  /\ Numbered /\ OrderTypes /\ ReportTypes /\ JobTypes /\ KeepsKnown
           /\ job.qty \in 0 .. 2 /\ updates \in Nat
<1>1. Numbered /\ OrderTypes /\ ReportTypes /\ JobTypes /\ KeepsKnown
  BY DEF UpdateInv
<1>2. job.qty \in 0 .. 2
  BY <1>1 DEF JobTypes
<1>3. updates \in Nat
  BY <1>1, UpdateAssumption DEF OrderTypes
<1> QED BY <1>1, <1>2, <1>3

\* The signal that places an order has a number left for it.
LEMMA NumbersLeft ==
    ASSUME UpdateInv, job.at \in {"stop", "target"}
    PROVE  \E n \in 3 .. 3 + 2 * updates :
             /\ DOMAIN order = 1 .. n /\ n + 1 <= 3 + 2 * updates
             /\ job.at = "stop" => n + 2 <= 3 + 2 * updates
<1>1. Numbered /\ updates \in Nat
  BY UpdateParts
<1>2. PICK n \in 3 .. 3 + 2 * updates :
        /\ DOMAIN order = 1 .. n
        /\ job.at \in {"modify", "stop"} => n + 2 <= 3 + 2 * updates
        /\ job.at \in {"retire stop", "target"} => n + 1 <= 3 + 2 * updates
  BY <1>1 DEF Numbered
<1>3. job.at = "stop" => n + 2 <= 3 + 2 * updates
  BY <1>2
<1>4. n + 1 <= 3 + 2 * updates
  <2>1. CASE job.at = "stop"
    BY <1>1, <1>2, <1>3, <2>1
  <2>2. CASE job.at = "target"
    BY <1>2, <2>2
  <2> QED BY <2>1, <2>2
<1> QED BY <1>2, <1>3, <1>4

\* A placement that was refused, or whose answer was lost.
LEMMA NotPlacedGives ==
    ASSUME UpdateInv, job.at \in {"stop", "target"}, Update!NotPlaced, UNCHANGED <<pos, updates, raced, reports>>
    PROVE  /\ uReported' = TRUE /\ OrderTypes' /\ ReportTypes'
           /\ DOMAIN order \subseteq DOMAIN order'
           /\ \A i \in DOMAIN order : order'[i] = order[i]
           /\ live' \subseteq live \cup lost' /\ lost \subseteq lost'
           /\ \E m \in 3 .. 3 + 2 * updates : DOMAIN order' = 1 .. m
                /\ (job.at = "stop" => m + 1 <= 3 + 2 * updates)
<1> USE UpdateAssumption
<1>1. OrderTypes /\ ReportTypes /\ Numbered /\ job.qty \in 0 .. 2 /\ updates \in Nat
  BY UpdateParts
<1>2. PICK n \in 3 .. 3 + 2 * updates :
        /\ DOMAIN order = 1 .. n /\ n + 1 <= 3 + 2 * updates
        /\ job.at = "stop" => n + 2 <= 3 + 2 * updates
  BY NumbersLeft
<1>3. uReported' = TRUE /\ uFaults' \in 0 .. UpdateFaults
  <2>1. uReported' = TRUE /\ uFaults < UpdateFaults /\ uFaults' = uFaults + 1
    BY DEF Update!NotPlaced, Update!Fails
  <2> QED BY <1>1, <2>1 DEF OrderTypes
<1>4. CASE UNCHANGED <<order, live, lost>>
  <2>1. OrderTypes' /\ ReportTypes'
    BY <1>1, <1>3, <1>4 DEF OrderTypes, ReportTypes
  <2>2. n \in 3 .. 3 + 2 * updates /\ DOMAIN order' = 1 .. n
        /\ (job.at = "stop" => n + 1 <= 3 + 2 * updates)
    BY <1>1, <1>2, <1>4
  <2> QED BY <1>3, <1>4, <2>1, <2>2
<1>5. CASE /\ order' = [id \in DOMAIN order \cup {Update!NextId} |->
                 IF id = Update!NextId THEN [stop |-> job.at = "stop", qty |-> job.qty] ELSE order[id]]
           /\ live' = live \cup {Update!NextId} /\ lost' = lost \cup {Update!NextId}
  <2>1. PICK s \in BOOLEAN : s = (job.at = "stop")
    OBVIOUS
  <2>11. PICK q \in 0 .. 2 : q = job.qty
    BY <1>1
  <2>2. order' = Added(s, q)
    BY <1>5, <2>1, <2>11, Zenon DEF Added
  <2>3. n \in Nat /\ n >= 3 /\ n + 1 \in 3 .. 3 + 2 * updates
    BY <1>1, <1>2
  <2>4. /\ Update!NextId = n + 1 /\ DOMAIN order' = 1 .. n + 1
        /\ n + 1 \notin {0, 2, 3} /\ \A id \in DOMAIN order : order'[id] = order[id]
        /\ order' \in [DOMAIN order' -> [stop : BOOLEAN, qty : 0 .. 2]]
    <3>1. n \in Nat /\ n >= 3 /\ DOMAIN order = 1 .. n /\ q \in 0 .. 2 /\ s \in BOOLEAN /\ OrderTypes
      BY <1>1, <1>2, <2>3, <2>11
    <3> QED BY <2>2, <3>1, Places, Zenon
  <2>5. DOMAIN order \subseteq DOMAIN order' /\ n + 1 \in DOMAIN order'
    BY <1>2, <2>3, <2>4
  <2>6. live' = live \cup {n + 1} /\ lost' = lost \cup {n + 1}
    BY <1>5, <2>4
  <2>7. OrderTypes'
    BY <1>1, <1>3, <2>4, <2>5, <2>6 DEF OrderTypes
  <2>8. ReportTypes'
    BY <1>1, <2>4, <2>6 DEF ReportTypes
  <2>9. job.at = "stop" => (n + 1) + 1 <= 3 + 2 * updates
    BY <1>1, <1>2
  <2>10. live' \subseteq live \cup lost' /\ lost \subseteq lost'
    BY <2>6
  <2> HIDE DEF Update!NextId
  <2> QED BY <1>3, <2>3, <2>4, <2>5, <2>7, <2>8, <2>9, <2>10
<1> QED BY <1>4, <1>5, Zenon DEF Update!NotPlaced

\* A placement that was accepted.
LEMMA PlacedGives ==
    ASSUME UpdateInv, job.at \in {"stop", "target"}, NEW s \in BOOLEAN,
           Update!Placed(s, job.qty), UNCHANGED <<pos, updates, raced, reports>>
    PROVE  \E n \in 3 .. 3 + 2 * updates :
           /\ n + 1 \in 3 .. 3 + 2 * updates
           /\ job.at = "stop" => (n + 1) + 1 <= 3 + 2 * updates
           /\ DOMAIN order = 1 .. n /\ Update!NextId = n + 1 /\ DOMAIN order' = 1 .. n + 1
           /\ DOMAIN order \subseteq DOMAIN order' /\ n + 1 \in DOMAIN order'
           /\ n + 1 \notin DOMAIN order /\ n + 1 \notin {0, 2, 3}
           /\ order'[n + 1].stop = s /\ order'[n + 1].qty = job.qty
           /\ \A i \in DOMAIN order : order'[i] = order[i]
           /\ live' = live \cup {n + 1} /\ lost' = lost
           /\ uReported' = uReported
           /\ OrderTypes' /\ ReportTypes'
<1> USE UpdateAssumption
<1>1. OrderTypes /\ ReportTypes /\ Numbered /\ job.qty \in 0 .. 2 /\ updates \in Nat
  BY UpdateParts
<1>2. PICK n \in 3 .. 3 + 2 * updates :
        /\ DOMAIN order = 1 .. n /\ n + 1 <= 3 + 2 * updates
        /\ job.at = "stop" => n + 2 <= 3 + 2 * updates
  BY NumbersLeft
<1>3. /\ order' = [id \in DOMAIN order \cup {Update!NextId} |->
                 IF id = Update!NextId THEN [stop |-> s, qty |-> job.qty] ELSE order[id]]
      /\ live' = live \cup {Update!NextId} /\ lost' = lost
      /\ uReported' = uReported /\ uFaults' = uFaults
  BY DEF Update!Placed, Update!Works
<1>4. n \in Nat /\ n >= 3 /\ n + 1 \in 3 .. 3 + 2 * updates
  BY <1>1, <1>2
<1>5. /\ Update!NextId = n + 1 /\ DOMAIN order' = 1 .. n + 1 /\ n + 1 \notin DOMAIN order
      /\ order'[n + 1] = [stop |-> s, qty |-> job.qty]
      /\ n + 1 \notin {0, 2, 3} /\ \A id \in DOMAIN order : order'[id] = order[id]
      /\ order' \in [DOMAIN order' -> [stop : BOOLEAN, qty : 0 .. 2]]
  <2>1. PICK q \in 0 .. 2 : q = job.qty
    BY <1>1
  <2>2. order' = Added(s, q)
    BY <1>3, <2>1, Zenon DEF Added
  <2>3. n \in Nat /\ n >= 3 /\ DOMAIN order = 1 .. n /\ q \in 0 .. 2 /\ s \in BOOLEAN /\ OrderTypes
    BY <1>1, <1>2, <1>4, <2>1
  <2>4. /\ Update!NextId = n + 1 /\ DOMAIN order' = 1 .. n + 1 /\ n + 1 \notin DOMAIN order
        /\ order'[n + 1] = [stop |-> s, qty |-> q]
        /\ n + 1 \notin {0, 2, 3} /\ \A id \in DOMAIN order : order'[id] = order[id]
        /\ order' \in [DOMAIN order' -> [stop : BOOLEAN, qty : 0 .. 2]]
    BY <2>2, <2>3, Places, Zenon
  <2> QED BY <2>1, <2>4, Zenon
<1>6. DOMAIN order \subseteq DOMAIN order' /\ n + 1 \in DOMAIN order'
  BY <1>2, <1>4, <1>5
<1>7. live' = live \cup {n + 1}
  BY <1>3, <1>5
<1>8. OrderTypes'
  BY <1>1, <1>3, <1>5, <1>6, <1>7 DEF OrderTypes
<1>9. ReportTypes'
  BY <1>1, <1>5, <1>7 DEF ReportTypes
<1>10. job.at = "stop" => (n + 1) + 1 <= 3 + 2 * updates
  BY <1>1, <1>2
<1>11. order'[n + 1].stop = s /\ order'[n + 1].qty = job.qty
  BY <1>5
<1> HIDE DEF Update!NextId
<1> QED BY <1>2, <1>3, <1>4, <1>5, <1>6, <1>7, <1>8, <1>9, <1>10, <1>11

\* What a placed order leaves of the others.
LEMMA PlacedSets ==
    ASSUME OrderTypes, NEW id, id \in DOMAIN order', id \notin DOMAIN order, id \notin {2, 3},
           DOMAIN order \subseteq DOMAIN order', \A i \in DOMAIN order : order'[i] = order[i],
           live' = live \cup {id}, pos' = pos
    PROVE  /\ order'[id].stop => Stops' = Stops \cup {id} /\ Aims' = Aims
           /\ ~order'[id].stop => Stops' = Stops /\ Aims' = Aims \cup {id}
           /\ FlatByTarget => FlatByTarget'
           /\ \A aims \in SUBSET Aims : AimsMatch(aims) => AimsMatch(aims)'
<1>1. live \subseteq DOMAIN order
  BY DEF OrderTypes
<1>2. order'[id].stop => Stops' = Stops \cup {id} /\ Aims' = Aims
  BY <1>1 DEF Stops, Aims
<1>3. ~order'[id].stop => Stops' = Stops /\ Aims' = Aims \cup {id}
  BY <1>1 DEF Stops, Aims
<1>4. FlatByTarget => FlatByTarget'
  BY DEF FlatByTarget
<1>5. ASSUME NEW aims \in SUBSET Aims, AimsMatch(aims) PROVE AimsMatch(aims)'
  BY <1>5 DEF AimsMatch
<1> QED BY <1>2, <1>3, <1>4, <1>5

\* After a placement that failed the record is as it was, and that is reported.
LEMMA NotPlacedInv ==
    ASSUME UpdateInv, NEW to \in {"target", "end"}, Update!NotPlaced,
           job.at = (IF to = "target" THEN "stop" ELSE "target"),
           Update!Continue(job.info, to), UNCHANGED <<pos, updates, raced, reports>>
    PROVE  UpdateInv'
<1> DEFINE info == job.info
<1>1. Numbered /\ OrderTypes /\ ReportTypes /\ JobTypes /\ KeepsKnown
  BY UpdateParts
<1>2. job.at \in {"stop", "target"}
  OBVIOUS
<1>3. /\ Held = info /\ info \in Info /\ info.qty = job.qty /\ job.qty # 0 /\ job.qty \in 0 .. 2
      /\ info.sl \in DOMAIN order \cup {Update!NoId}
      /\ info.sl # Update!NoId => order[info.sl].stop
      /\ info.extra \subseteq DOMAIN order /\ info.tps \subseteq DOMAIN order
  BY <1>1, <1>2 DEF Held, Setting, JobTypes
<1> HIDE DEF info
<1>11. Update!Continue(info, to)
  BY DEF info
<1>4. /\ uReported' = TRUE /\ OrderTypes' /\ ReportTypes'
      /\ DOMAIN order \subseteq DOMAIN order'
      /\ \A i \in DOMAIN order : order'[i] = order[i]
      /\ live' \subseteq live \cup lost' /\ lost \subseteq lost'
      /\ \E m \in 3 .. 3 + 2 * updates : DOMAIN order' = 1 .. m
           /\ (job.at = "stop" => m + 1 <= 3 + 2 * updates)
  BY <1>2, NotPlacedGives
<1>5. /\ Held' = info /\ job'.at \in {"idle", to} \ {"end"}
      /\ \/ job' = Update!Idle /\ uRec' = info
         \/ /\ job'.at = to /\ to # "end" /\ job'.qty = job.qty /\ job'.new = job.new
            /\ job'.left = job.left /\ job'.info = info /\ uRec' = uRec
  BY <1>1, <1>3, <1>11, ContinueGives
<1>6. JobTypes'
  <2>1. /\ info.sl \in DOMAIN order' \cup {Update!NoId}
        /\ info.sl # Update!NoId => order'[info.sl].stop
        /\ info.extra \subseteq DOMAIN order' /\ info.tps \subseteq DOMAIN order'
    BY <1>3, <1>4
  <2>2. job.at \in Setting
    BY <1>2 DEF Setting
  <2> QED BY <1>1, <1>3, <1>4, <1>11, <2>1, <2>2, ContinueTypes
<1>7. Numbered'
  <2>1. PICK m \in 3 .. 3 + 2 * updates : DOMAIN order' = 1 .. m
           /\ (job.at = "stop" => m + 1 <= 3 + 2 * updates)
    BY <1>4
  <2>2. updates' = updates /\ job'.at \notin {"modify", "stop", "retire stop"}
        /\ (job'.at = "target" => m + 1 <= 3 + 2 * updates)
    BY <1>5, <2>1
  <2> QED BY <2>1, <2>2 DEF Numbered
<1>8. KeepsKnown'
  <2>1. job'.at \notin {"retire stop", "retire targets", "rollback"}
        /\ job.at \notin {"retire stop", "retire targets", "rollback"}
    BY <1>2, <1>5
  <2>2. info.qty # -1 /\ Held' = Held
    BY <1>3, <1>5
  <2>3. InHand' = InHand
    BY <2>1, <2>2 DEF InHand
  <2>4. live' \subseteq live \cup lost' /\ lost \subseteq lost' /\ uReported'
    BY <1>4, Zenon
  <2> QED BY <1>1, <1>3, <2>2, <2>3, <2>4 DEF KeepsKnown
<1>9. ~Quiet'
  BY <1>4, Zenon DEF Quiet
<1> QED BY <1>4, <1>6, <1>7, <1>8, <1>9 DEF UpdateInv

\* The fresh stop stands beside the old one until that is retired.
LEMMA PlaceStopInv == ASSUME UpdateInv, Update!PlaceStop PROVE UpdateInv'
<1> DEFINE info == job.info
<1>1. job.at = "stop" /\ UNCHANGED <<pos, reports, raced, updates>>
  BY DEF Update!PlaceStop, Update!market
<1>2. Numbered /\ OrderTypes /\ ReportTypes /\ JobTypes /\ KeepsKnown
  BY UpdateParts
<1>3. CASE Update!NotPlaced /\ Update!Continue(job.info, "target")
  <2>1. job.at = (IF "target" = "target" THEN "stop" ELSE "target")
    BY <1>1
  <2> QED BY <1>1, <1>3, <2>1, NotPlacedInv
<1>4. CASE /\ Update!Placed(TRUE, job.qty) /\ UNCHANGED uRec
           /\ job' = [job EXCEPT !.at = IF job.info.sl = Update!NoId THEN "target"
                                         ELSE "retire stop",
                                 !.new = job.info.sl, !.info.sl = Update!NextId]
  <2>1. /\ Held = info /\ info \in Info /\ info.qty = job.qty /\ job.qty # 0 /\ job.qty \in 0 .. 2
        /\ info.sl \in DOMAIN order \cup {Update!NoId}
        /\ info.sl # Update!NoId => order[info.sl].stop
        /\ info.extra \subseteq DOMAIN order /\ info.tps \subseteq DOMAIN order
        /\ job.left \subseteq DOMAIN order /\ uRec \in Info
    BY <1>1, <1>2 DEF Held, Setting, JobTypes
  <2>2. PICK n \in 3 .. 3 + 2 * updates :
          /\ n + 1 \in 3 .. 3 + 2 * updates
          /\ job.at = "stop" => (n + 1) + 1 <= 3 + 2 * updates
          /\ DOMAIN order = 1 .. n /\ Update!NextId = n + 1 /\ DOMAIN order' = 1 .. n + 1
          /\ DOMAIN order \subseteq DOMAIN order' /\ n + 1 \in DOMAIN order'
          /\ n + 1 \notin DOMAIN order /\ n + 1 \notin {0, 2, 3}
          /\ order'[n + 1].stop = TRUE /\ order'[n + 1].qty = job.qty
          /\ \A i \in DOMAIN order : order'[i] = order[i]
          /\ live' = live \cup {n + 1} /\ lost' = lost
          /\ uReported' = uReported
          /\ OrderTypes' /\ ReportTypes'
    BY <1>1, <1>4, PlacedGives
  <2> DEFINE id == n + 1
             at1 == IF info.sl = Update!NoId THEN "target" ELSE "retire stop"
  <2>3. /\ job.tp \in BOOLEAN /\ job.qty \in 0 .. 2
        /\ job = [at |-> job.at, tp |-> job.tp, qty |-> job.qty, info |-> info,
                  new |-> job.new, left |-> job.left]
        /\ job.left \in SUBSET Update!Id /\ info.sl \in Update!Id \cup {Update!NoId}
    BY <1>2, <2>1 DEF JobTypes, Info
  <2>4. job' = [at |-> at1, tp |-> job.tp, qty |-> job.qty, info |-> [info EXCEPT !.sl = id],
                new |-> info.sl, left |-> job.left]
    <3>1. job' = [job EXCEPT !.at = at1, !.new = info.sl, !.info.sl = id]
      BY <1>4, <2>2, Zenon
    <3> HIDE DEF at1, id
    <3> QED BY <2>3, <3>1
  <2> DEFINE info1 == [info EXCEPT !.sl = id]
  <2>5. id \in Update!Id /\ id # Update!NoId /\ id \notin DOMAIN order /\ id \in DOMAIN order'
    <3>1. updates \in 0 .. MaxUpdates /\ MaxUpdates \in Nat
      BY <1>2, UpdateAssumption DEF OrderTypes
    <3>2. n + 1 \in 1 .. 3 + 2 * MaxUpdates
      BY <2>2, <3>1
    <3> QED BY <2>2, <3>2 DEF Update!Id, Update!NoId
  <2> HIDE DEF id
  <2>6. /\ info1 \in Info /\ info1.sl = id /\ info1.extra = info.extra /\ info1.tps = info.tps
        /\ info1.qty = info.qty
    BY <2>1, <2>5 DEF Info
  <2>7. at1 \in {"target", "retire stop"}
        /\ (at1 = "retire stop" => info.sl # Update!NoId)
    OBVIOUS
  <2> HIDE DEF info1, at1
  <2>8. /\ job'.at = at1 /\ job'.tp = job.tp /\ job'.qty = job.qty /\ job'.info = info1
        /\ job'.new = info.sl /\ job'.left = job.left
    BY <2>4 DEF info1
  <2>9. job' \in [at : Setting \cup {"idle", "resize", "extras"}, tp : BOOLEAN, qty : 0 .. 2,
                  info : {job'.info}, new : Update!Id \cup {Update!NoId}, left : SUBSET Update!Id]
    <3>1. at1 \in Setting \cup {"idle", "resize", "extras"}
      BY <2>7 DEF Setting
    <3>2. job' = [at |-> at1, tp |-> job.tp, qty |-> job.qty, info |-> info1,
                  new |-> info.sl, left |-> job.left]
      BY <2>4 DEF info1
    <3>3. info1 \in {job'.info}
      BY <2>8
    <3> QED BY <2>3, <3>1, <3>2, <3>3, Zenon
  <2>10. Held' = info1 /\ uRec' = uRec
    BY <1>4, <2>7, <2>8 DEF Held, Setting
  <2>11. Numbered'
    <3>1. updates' = updates /\ job'.at \notin {"modify", "stop"}
          /\ (n + 1) + 1 <= 3 + 2 * updates
      BY <1>1, <2>2, <2>7, <2>8
    <3> QED BY <2>2, <3>1 DEF Numbered
  <2>12. JobTypes'
    <3>1. /\ info1.sl \in DOMAIN order' \cup {Update!NoId} /\ order'[info1.sl].stop
          /\ info1.extra \subseteq DOMAIN order' /\ info1.tps \subseteq DOMAIN order'
          /\ job.left \subseteq DOMAIN order'
          /\ (info.sl # Update!NoId => info.sl \in DOMAIN order')
      BY <2>1, <2>2, <2>5, <2>6 DEF id
    <3>2. uRec.qty # -1
      BY <1>1, <1>2 DEF JobTypes
    <3> QED BY <2>1, <2>6, <2>7, <2>8, <2>9, <2>10, <3>1, <3>2 DEF JobTypes
  <2>13. KeepsKnown'
    <3>1. live' = live \cup {id} /\ lost' = lost /\ uReported' = uReported /\ raced' = raced
      BY <1>1, <2>2 DEF id
    <3>2. InHand = info.tps
      BY <1>1, <2>1 DEF InHand
    <3>3. Held.qty # -1
      BY <2>1
    <3>4. live \subseteq {info.sl} \cup info.extra \cup info.tps \cup lost
      BY <1>2, <2>1, <3>2, <3>3 DEF KeepsKnown
    <3>5. 0 \notin live
      BY <1>2, <2>2 DEF OrderTypes
    <3>6. live' \subseteq {Held'.sl} \cup Held'.extra \cup InHand' \cup lost'
      <4>1. CASE at1 = "retire stop"
        BY <2>6, <2>8, <2>10, <3>1, <3>4, <4>1 DEF InHand
      <4>2. CASE at1 = "target"
        <5>1. info.sl = Update!NoId
          BY <4>2 DEF at1
        <5> QED BY <2>6, <2>8, <2>10, <3>1, <3>4, <3>5, <4>2, <5>1 DEF InHand, Update!NoId
      <4> QED BY <2>7, <4>1, <4>2
    <3>7. uRec'.qty # -1
      BY <1>1, <1>2, <2>10 DEF JobTypes
    <3> QED BY <3>6, <3>7 DEF KeepsKnown
  <2>14. Quiet' => OneStopWorks' /\ AimsAreHeld' /\ SizeFollows'
    <3> SUFFICES ASSUME Quiet' PROVE OneStopWorks' /\ AimsAreHeld' /\ SizeFollows'
      OBVIOUS
    <3>1. OneStopWorks /\ AimsAreHeld /\ SizeFollows
      BY <1>1, <2>2 DEF Quiet, UpdateInv
    <3>2. /\ live' = live \cup {id} /\ lost' = lost /\ pos' = pos /\ reports' = reports
          /\ order'[id].stop /\ order'[id].qty = job.qty
      BY <1>1, <2>2 DEF id
    <3>3. pos # 0 /\ info.sl # Update!NoId /\ job.qty = pos /\ Stops = {info.sl}
          /\ info.extra = {} /\ lost = {}
      BY <1>1, <2>1, <3>1 DEF OneStopWorks, Setting
    <3>4. at1 = "retire stop"
      BY <3>3 DEF at1
    <3>5. id \notin {2, 3}
      BY <2>2 DEF id
    <3>6. /\ Stops' = Stops \cup {id} /\ Aims' = Aims /\ (FlatByTarget => FlatByTarget')
          /\ \A aims \in SUBSET Aims : AimsMatch(aims) => AimsMatch(aims)'
      BY <1>2, <2>2, <2>5, <3>2, <3>5, PlacedSets
    <3>7. OneStopWorks'
      <4>1. info.sl # id
        BY <2>1, <2>5, <3>3
      <4>2. job.qty # -1
        BY <2>1
      <4> QED BY <2>1, <2>5, <2>6, <2>8, <2>10, <3>2, <3>3, <3>4, <3>6, <4>1, <4>2 DEF OneStopWorks
    <3>8. AimsAreHeld'
      <4>1. Replacement = {} /\ Replacement' = {}
        BY <1>1, <2>8, <3>4 DEF Replacement
      <4>2. \A t \in info.tps : ~order'[t].stop
        BY <2>1, <2>2, <3>1 DEF AimsAreHeld
      <4> QED BY <2>1, <2>6, <2>10, <3>1, <3>6, <4>1, <4>2 DEF AimsAreHeld
    <3>9. SizeFollows'
      BY <2>6, <2>8, <2>10, <3>1, <3>2, <3>3, <3>4, <3>6 DEF SizeFollows
    <3> QED BY <3>7, <3>8, <3>9
  <2> QED BY <2>2, <2>11, <2>12, <2>13, <2>14 DEF UpdateInv
<1>5. \/ /\ Update!Placed(TRUE, job.qty) /\ UNCHANGED uRec
         /\ job' = [job EXCEPT !.at = IF job.info.sl = Update!NoId THEN "target"
                                       ELSE "retire stop",
                               !.new = job.info.sl, !.info.sl = Update!NextId]
      \/ Update!NotPlaced /\ Update!Continue(job.info, "target")
  BY Zenon DEF Update!PlaceStop
<1> QED BY <1>3, <1>4, <1>5

\* The new target stands beside the old ones until they are retired.
LEMMA PlaceTargetInv == ASSUME UpdateInv, Update!PlaceTarget PROVE UpdateInv'
<1> DEFINE info == job.info
<1>1. job.at = "target" /\ UNCHANGED <<pos, reports, raced, updates>>
  BY DEF Update!PlaceTarget, Update!market
<1>2. Numbered /\ OrderTypes /\ ReportTypes /\ JobTypes /\ KeepsKnown
  BY UpdateParts
<1>3. CASE Update!NotPlaced /\ Update!Continue(job.info, "end")
  <2>1. job.at = (IF "end" = "target" THEN "stop" ELSE "target")
    BY <1>1
  <2> QED BY <1>1, <1>3, <2>1, NotPlacedInv
<1>4. CASE /\ Update!Placed(FALSE, job.qty) /\ UNCHANGED uRec
           /\ job' = [job EXCEPT !.at = "retire targets", !.new = Update!NextId]
  <2>1. /\ Held = info /\ info \in Info /\ info.qty = job.qty /\ job.qty # 0 /\ job.qty \in 0 .. 2
        /\ info.sl \in DOMAIN order \cup {Update!NoId}
        /\ info.sl # Update!NoId => order[info.sl].stop
        /\ info.extra \subseteq DOMAIN order /\ info.tps \subseteq DOMAIN order
        /\ job.left \subseteq DOMAIN order /\ uRec \in Info /\ uRec.qty # -1
    BY <1>1, <1>2 DEF Held, Setting, JobTypes
  <2>2. PICK n \in 3 .. 3 + 2 * updates :
          /\ n + 1 \in 3 .. 3 + 2 * updates
          /\ job.at = "stop" => (n + 1) + 1 <= 3 + 2 * updates
          /\ DOMAIN order = 1 .. n /\ Update!NextId = n + 1 /\ DOMAIN order' = 1 .. n + 1
          /\ DOMAIN order \subseteq DOMAIN order' /\ n + 1 \in DOMAIN order'
          /\ n + 1 \notin DOMAIN order /\ n + 1 \notin {0, 2, 3}
          /\ order'[n + 1].stop = FALSE /\ order'[n + 1].qty = job.qty
          /\ \A i \in DOMAIN order : order'[i] = order[i]
          /\ live' = live \cup {n + 1} /\ lost' = lost
          /\ uReported' = uReported
          /\ OrderTypes' /\ ReportTypes'
    BY <1>1, <1>4, PlacedGives
  <2> DEFINE id == n + 1
  <2>3. /\ job' = [job EXCEPT !.at = "retire targets", !.new = id]
    BY <1>4, <2>2
  <2>5. id \in Update!Id /\ id # Update!NoId /\ id \notin DOMAIN order /\ id \in DOMAIN order'
        /\ id \notin {2, 3}
    <3>1. updates \in 0 .. MaxUpdates /\ MaxUpdates \in Nat
      BY <1>2, UpdateAssumption DEF OrderTypes
    <3>2. n + 1 \in 1 .. 3 + 2 * MaxUpdates
      BY <2>2, <3>1
    <3> QED BY <2>2, <3>2 DEF Update!Id, Update!NoId
  <2> HIDE DEF id
  <2>8. /\ job'.at = "retire targets" /\ job'.tp = job.tp /\ job'.qty = job.qty /\ job'.info = info
        /\ job'.new = id /\ job'.left = job.left
        /\ job' \in [at : Setting \cup {"idle", "resize", "extras"}, tp : BOOLEAN, qty : 0 .. 2,
                  info : {job'.info}, new : Update!Id \cup {Update!NoId}, left : SUBSET Update!Id]
    BY <1>2, <2>3, <2>5 DEF JobTypes, Setting
  <2>10. Held' = info /\ uRec' = uRec
    BY <1>4, <2>8 DEF Held, Setting
  <2>11. Numbered'
    BY <1>1, <2>2, <2>8 DEF Numbered
  <2>12. JobTypes'
    <3>1. /\ info.sl \in DOMAIN order' \cup {Update!NoId}
          /\ info.sl # Update!NoId => order'[info.sl].stop
          /\ info.extra \subseteq DOMAIN order' /\ info.tps \subseteq DOMAIN order'
          /\ job.left \subseteq DOMAIN order'
      BY <2>1, <2>2
    <3> QED BY <2>1, <2>5, <2>8, <2>10, <3>1 DEF JobTypes
  <2>13. KeepsKnown'
    <3>1. live' = live \cup {id} /\ lost' = lost
      BY <2>2 DEF id
    <3>2. InHand = info.tps /\ InHand' = info.tps \cup {id}
      BY <1>1, <2>1, <2>8, <2>10 DEF InHand
    <3>4. live \subseteq {info.sl} \cup info.extra \cup info.tps \cup lost
      BY <1>2, <2>1, <3>2 DEF KeepsKnown
    <3> QED BY <2>1, <2>10, <3>1, <3>2, <3>4 DEF KeepsKnown
  <2>14. Quiet' => OneStopWorks' /\ AimsAreHeld' /\ SizeFollows'
    <3> SUFFICES ASSUME Quiet' PROVE OneStopWorks' /\ AimsAreHeld' /\ SizeFollows'
      OBVIOUS
    <3>1. OneStopWorks /\ AimsAreHeld /\ SizeFollows
      BY <1>1, <2>2 DEF Quiet, UpdateInv
    <3>2. /\ live' = live \cup {id} /\ lost' = lost /\ pos' = pos /\ reports' = reports
          /\ ~order'[id].stop /\ order'[id].qty = job.qty
      BY <1>1, <2>2 DEF id
    <3>3. pos # 0 /\ info.sl # Update!NoId /\ job.qty = pos /\ Stops = {info.sl}
          /\ info.extra = {} /\ lost = {}
      BY <1>1, <2>1, <3>1 DEF OneStopWorks, Setting
    <3>6. /\ Stops' = Stops /\ Aims' = Aims \cup {id} /\ (FlatByTarget => FlatByTarget')
          /\ \A aims \in SUBSET Aims : AimsMatch(aims) => AimsMatch(aims)'
      BY <1>2, <2>2, <2>5, <3>2, PlacedSets
    <3>7. OneStopWorks'
      <4>1. Held' = Held /\ job.qty \notin {-1, 0}
        BY <2>1, <2>10
      <4> QED BY <2>1, <2>8, <3>2, <3>3, <3>6, <4>1 DEF OneStopWorks
    <3>8. AimsAreHeld'
      <4>1. Replacement = {} /\ Replacement' = {id}
        BY <1>1, <2>8 DEF Replacement
      <4>2. id \notin Aims /\ id \in Aims' /\ id \notin info.tps
        BY <1>2, <2>1, <2>5, <3>6 DEF Aims, OrderTypes
      <4>3. Aims' \ {id} = Aims
        BY <3>6, <4>2
      <4>4. Aims \subseteq info.tps /\ AimsMatch(Aims)
        BY <2>1, <3>1, <4>1 DEF AimsAreHeld
      <4>5. \A t \in info.tps : ~order'[t].stop
        BY <2>1, <2>2, <3>1 DEF AimsAreHeld
      <4>6. PICK aims \in SUBSET Aims : aims = Aims
        OBVIOUS
      <4>7. AimsMatch(aims)' /\ aims = Aims' \ {id}
        BY <3>6, <4>3, <4>4, <4>6
      <4>8. aims \subseteq info.tps
        BY <4>4, <4>6
      <4> QED BY <2>5, <2>10, <3>2, <3>3, <4>1, <4>2, <4>5, <4>7, <4>8 DEF AimsAreHeld, AimsMatch
    <3>9. SizeFollows'
      BY <1>1, <2>1, <2>2, <2>8, <2>10, <3>1, <3>2, <3>3, <3>6 DEF SizeFollows
    <3> QED BY <3>7, <3>8, <3>9
  <2> QED BY <2>2, <2>11, <2>12, <2>13, <2>14 DEF UpdateInv
<1>5. \/ /\ Update!Placed(FALSE, job.qty) /\ UNCHANGED uRec
         /\ job' = [job EXCEPT !.at = "retire targets", !.new = Update!NextId]
      \/ Update!NotPlaced /\ Update!Continue(job.info, "end")
  BY Zenon DEF Update!PlaceTarget
<1> QED BY <1>3, <1>4, <1>5

\* Cancels: the confirmed orders are gone, and one that is not was reported.
LEMMA CancelGives ==
    ASSUME UpdateInv, NEW ids, NEW ended \in SUBSET ids, Update!CancelConfirmed(ids, ended),
           UNCHANGED <<pos, updates, raced, reports>>
    PROVE  /\ OrderTypes' /\ ReportTypes' /\ order' = order /\ lost' = lost
           /\ live' \subseteq live \ ended
           /\ ended = ids => live' = live \ ids /\ uReported' = uReported
           /\ ended # ids => uReported' = TRUE
           /\ FlatByTarget => FlatByTarget'
           /\ uReported => uReported'
<1>1. OrderTypes /\ ReportTypes
  BY UpdateParts
<1>2. order' = order /\ lost' = lost
  BY DEF Update!CancelConfirmed
<1>3. live' \subseteq live \ ended /\ (ended = ids => live' = live \ ids)
  BY DEF Update!CancelConfirmed
<1>4. \/ ended = ids /\ UNCHANGED <<uFaults, uReported>>
      \/ ended # ids /\ uFaults < UpdateFaults /\ uFaults' = uFaults + 1 /\ uReported' = TRUE
  BY DEF Update!CancelConfirmed, Update!Works, Update!Fails
<1>5. uFaults' \in 0 .. UpdateFaults /\ uReported' \in BOOLEAN
  <2>1. uFaults \in 0 .. UpdateFaults /\ UpdateFaults \in Nat /\ uReported \in BOOLEAN
    BY <1>1, UpdateAssumption DEF OrderTypes
  <2>2. uFaults' = uFaults \/ (uFaults < UpdateFaults /\ uFaults' = uFaults + 1)
    BY <1>4, Zenon
  <2>3. uReported' \in BOOLEAN
    BY <1>4, <2>1, Zenon
  <2> QED BY <2>1, <2>2, <2>3
<1>6. OrderTypes'
  BY <1>1, <1>2, <1>3, <1>5 DEF OrderTypes
<1>7. ReportTypes'
  BY <1>1, <1>3 DEF ReportTypes
<1>8. FlatByTarget => FlatByTarget'
  BY <1>2, <1>3 DEF FlatByTarget
<1>9. /\ ended = ids => uReported' = uReported
      /\ ended # ids => uReported' = TRUE
  BY <1>4, Zenon
<1>10. uReported => uReported'
  BY <1>4, Zenon
<1> QED BY <1>2, <1>3, <1>6, <1>7, <1>8, <1>9, <1>10

\* The numbers that are left when a cancel lets the signal go on.
LEMMA NumbersAfterCancel ==
    ASSUME UpdateInv, order' = order, updates' = updates, job'.at \in {"idle", "target", "rollback"},
           job'.at = "target" => job.at = "retire stop"
    PROVE  Numbered'
<1>1. PICK n \in 3 .. 3 + 2 * updates :
        /\ DOMAIN order = 1 .. n
        /\ job.at \in {"modify", "stop"} => n + 2 <= 3 + 2 * updates
        /\ job.at \in {"retire stop", "target"} => n + 1 <= 3 + 2 * updates
  BY UpdateParts DEF Numbered
<1>2. job'.at \notin {"modify", "stop", "retire stop"}
      /\ (job'.at = "target" => n + 1 <= 3 + 2 * updates)
  BY <1>1
<1> QED BY <1>1, <1>2 DEF Numbered

\* The old stop ends, or stays known as an extra one.
LEMMA RetireStopInv == ASSUME UpdateInv, Update!RetireStop PROVE UpdateInv'
<1>1. job.at = "retire stop" /\ UNCHANGED <<pos, reports, raced, updates>>
  BY DEF Update!RetireStop, Update!market
<1>2. Numbered /\ OrderTypes /\ ReportTypes /\ JobTypes /\ KeepsKnown
  BY UpdateParts
<1> DEFINE info == job.info
<1>3. PICK ended \in SUBSET {job.new} :
        /\ Update!CancelConfirmed({job.new}, ended)
        /\ Update!Continue([info EXCEPT !.extra = @ \cup ({job.new} \ ended)], "target")
  BY Zenon DEF Update!RetireStop
<1>4. /\ Held = info /\ info \in Info /\ info.qty = job.qty /\ job.qty # 0 /\ job.qty \in 0 .. 2
      /\ info.sl \in DOMAIN order \cup {Update!NoId} /\ job.new \in DOMAIN order
      /\ info.sl # Update!NoId => order[info.sl].stop
      /\ info.extra \subseteq DOMAIN order /\ info.tps \subseteq DOMAIN order
      /\ job.new \in Update!Id \cup {Update!NoId} /\ job.at \in Setting
  BY <1>1, <1>2 DEF Held, Setting, JobTypes
<1>5. /\ OrderTypes' /\ ReportTypes' /\ order' = order /\ lost' = lost
      /\ live' \subseteq live \ ended
      /\ ended = {job.new} => live' = live \ {job.new} /\ uReported' = uReported
      /\ ended # {job.new} => uReported' = TRUE
      /\ FlatByTarget => FlatByTarget'
      /\ uReported => uReported'
  BY <1>1, <1>3, CancelGives
<1> DEFINE info1 == [info EXCEPT !.extra = @ \cup ({job.new} \ ended)]
<1>6. job.new \in Update!Id
  <2>1. job.new # 0
    <3>1. PICK n \in 3 .. 3 + 2 * updates : DOMAIN order = 1 .. n
      BY <1>2 DEF Numbered
    <3> QED BY <1>4, <3>1
  <2> QED BY <1>4, <2>1 DEF Update!NoId
<1>7. /\ info1 \in Info /\ info1.sl = info.sl /\ info1.extra = info.extra \cup ({job.new} \ ended)
      /\ info1.tps = info.tps /\ info1.qty = info.qty
  BY <1>4, <1>6 DEF Info
<1>8. Update!Continue(info1, "target")
  BY <1>3
<1> HIDE DEF info1
<1>9. /\ Held' = info1 /\ job'.at \in {"idle", "target"}
      /\ \/ job' = Update!Idle /\ uRec' = info1
         \/ /\ job'.at = "target" /\ job'.qty = job.qty /\ job'.new = job.new
            /\ job'.left = job.left /\ job'.info = info1 /\ uRec' = uRec
  BY <1>2, <1>7, <1>8, ContinueGives
<1> HIDE DEF info
<1>10. JobTypes'
  <2>1. info1.extra \subseteq DOMAIN order' /\ info1.tps \subseteq DOMAIN order'
    BY <1>4, <1>5, <1>7
  <2>2. info1.sl \in DOMAIN order' \cup {Update!NoId} /\ info1.qty = job.qty
        /\ (info1.sl # Update!NoId => order'[info1.sl].stop)
        /\ DOMAIN order \subseteq DOMAIN order'
    BY <1>4, <1>5, <1>7
  <2> QED BY <1>2, <1>4, <1>7, <1>8, <2>1, <2>2, ContinueTypes
<1>11. Numbered'
  BY <1>1, <1>5, <1>9, NumbersAfterCancel
<1>12. KeepsKnown'
  <2>1. InHand = info.tps \cup {job.new} /\ InHand' = info.tps
    BY <1>1, <1>4, <1>7, <1>9 DEF InHand
  <2>2. live \subseteq {info.sl} \cup info.extra \cup (info.tps \cup {job.new}) \cup lost
    BY <1>2, <1>4, <2>1 DEF KeepsKnown
  <2>3. live' \subseteq {info1.sl} \cup info1.extra \cup info.tps \cup lost'
    BY <1>5, <1>7, <2>2
  <2>4. uRec'.qty # -1
    <3>1. uRec.qty # -1
      BY <1>1, <1>2 DEF JobTypes
    <3>2. info1.qty # -1
      BY <1>4, <1>7
    <3> QED BY <1>9, <3>1, <3>2
  <2> QED BY <1>9, <2>1, <2>3, <2>4 DEF KeepsKnown
<1>13. Quiet' => OneStopWorks' /\ AimsAreHeld' /\ SizeFollows'
  <2> SUFFICES ASSUME Quiet' PROVE OneStopWorks' /\ AimsAreHeld' /\ SizeFollows'
    OBVIOUS
  <2>1. ended = {job.new} /\ live' = live \ {job.new}
    BY <1>5, Zenon DEF Quiet
  <2>2. OneStopWorks /\ AimsAreHeld /\ SizeFollows
    BY <1>1, <1>5, <2>1 DEF Quiet, UpdateInv
  <2>3. /\ Stops = {info.sl, job.new} /\ job.new # info.sl /\ pos # 0
        /\ info.sl # Update!NoId /\ job.qty = pos /\ info.extra = {} /\ lost = {}
    BY <1>1, <1>4, <2>2 DEF OneStopWorks, Setting
  <2>4. Stops' = {info.sl} /\ Aims' = Aims
    <3>1. job.new \in Stops
      BY <2>3
    <3>2. Stops' = Stops \ {job.new} /\ Aims' = Aims
      BY <1>5, <2>1, <3>1 DEF Stops, Aims
    <3> QED BY <2>3, <3>2
  <2>5. OneStopWorks'
    <3>1. info1.extra = {} /\ info1.sl = info.sl /\ info1.qty \notin {-1, 0}
      BY <1>4, <1>7, <2>1, <2>3
    <3>2. job'.at \in Setting => job'.qty = pos
      <4>1. CASE job' = Update!Idle
        <5>1. job'.at = "idle"
          BY <4>1 DEF Update!Idle
        <5> QED BY <5>1 DEF Setting
      <4>2. CASE job'.qty = job.qty
        BY <2>3, <4>2
      <4> QED BY <1>9, <4>1, <4>2
    <3> QED BY <1>1, <1>5, <1>9, <2>3, <2>4, <3>1, <3>2 DEF OneStopWorks
  <2>6. AimsAreHeld'
    <3>1. Replacement = {} /\ Replacement' = {}
      BY <1>1, <1>9 DEF Replacement
    <3> QED BY <1>1, <1>4, <1>5, <1>7, <1>9, <2>2, <2>4, <3>1 DEF AimsAreHeld, AimsMatch
  <2>7. SizeFollows'
    BY <1>1, <1>4, <1>5, <1>7, <1>9, <2>2, <2>3 DEF SizeFollows
  <2> QED BY <2>5, <2>6, <2>7
<1> QED BY <1>5, <1>10, <1>11, <1>12, <1>13 DEF UpdateInv

\* The old targets end, or the new one is to be rolled back.
LEMMA RetireTargetsInv == ASSUME UpdateInv, Update!RetireTargets PROVE UpdateInv'
<1>1. job.at = "retire targets" /\ UNCHANGED <<pos, reports, raced, updates>>
  BY DEF Update!RetireTargets, Update!market
<1>2. Numbered /\ OrderTypes /\ ReportTypes /\ JobTypes /\ KeepsKnown
  BY UpdateParts
<1> DEFINE info == job.info
           tps == job.info.tps
<1>3. PICK ended \in SUBSET tps :
        /\ Update!CancelConfirmed(tps, ended)
        /\ ended = tps => Update!Continue([info EXCEPT !.tps = {job.new}], "end")
        /\ ended # tps => /\ job' = [job EXCEPT !.at = "rollback", !.left = tps \ ended]
                          /\ uRec' = uRec
  BY Zenon DEF Update!RetireTargets
<1>4. /\ Held = info /\ info \in Info /\ info.qty = job.qty /\ job.qty # 0 /\ job.qty \in 0 .. 2
      /\ info.sl \in DOMAIN order \cup {Update!NoId} /\ job.new \in DOMAIN order
      /\ info.sl # Update!NoId => order[info.sl].stop
      /\ info.extra \subseteq DOMAIN order /\ tps \subseteq DOMAIN order
      /\ job.new \in Update!Id \cup {Update!NoId} /\ job.at \in Setting
      /\ tps \subseteq Update!Id /\ tps = info.tps /\ uRec.qty # -1 /\ uRec \in Info
  BY <1>1, <1>2 DEF Held, Setting, JobTypes, Info
<1>5. /\ OrderTypes' /\ ReportTypes' /\ order' = order /\ lost' = lost
      /\ live' \subseteq live \ ended
      /\ ended = tps => live' = live \ tps /\ uReported' = uReported
      /\ ended # tps => uReported' = TRUE
      /\ FlatByTarget => FlatByTarget'
      /\ uReported => uReported'
  BY <1>1, <1>3, CancelGives
<1>6. job.new \in Update!Id
  <2>1. job.new # 0
    <3>1. PICK n \in 3 .. 3 + 2 * updates : DOMAIN order = 1 .. n
      BY <1>2 DEF Numbered
    <3> QED BY <1>4, <3>1
  <2> QED BY <1>4, <2>1 DEF Update!NoId
<1>7. live \subseteq {info.sl} \cup info.extra \cup (tps \cup {job.new}) \cup lost
  <2>1. InHand = tps \cup {job.new}
    BY <1>1, <1>4 DEF InHand
  <2> QED BY <1>2, <1>4, <2>1 DEF KeepsKnown
<1> DEFINE info1 == [info EXCEPT !.tps = {job.new}]
<1>8. /\ info1 \in Info /\ info1.sl = info.sl /\ info1.extra = info.extra
      /\ info1.tps = {job.new} /\ info1.qty = info.qty
  BY <1>4, <1>6 DEF Info
<1>9. ended = tps => Update!Continue(info1, "end")
  BY <1>3
<1> HIDE DEF info1, info, tps
<1>10. CASE ended = tps
  <2>1. /\ Held' = info1 /\ job'.at = "idle" /\ job' = Update!Idle /\ uRec' = info1
    <3>1. /\ Held' = info1 /\ job'.at \in {"idle", "end"} \ {"end"}
          /\ \/ job' = Update!Idle /\ uRec' = info1
             \/ /\ job'.at = "end" /\ "end" # "end" /\ job'.qty = job.qty /\ job'.new = job.new
                /\ job'.left = job.left /\ job'.info = info1 /\ uRec' = uRec
      BY <1>2, <1>8, <1>9, <1>10, ContinueGives
    <3> QED BY <3>1
  <2>2. JobTypes'
    <3>1. info1.sl \in DOMAIN order' \cup {Update!NoId} /\ info1.qty = job.qty
          /\ (info1.sl # Update!NoId => order'[info1.sl].stop)
          /\ info1.extra \subseteq DOMAIN order' /\ info1.tps \subseteq DOMAIN order'
          /\ DOMAIN order \subseteq DOMAIN order'
      BY <1>4, <1>5, <1>8
    <3> QED BY <1>2, <1>4, <1>8, <1>9, <1>10, <3>1, ContinueTypes
  <2>3. Numbered'
    BY <1>1, <1>5, <2>1, NumbersAfterCancel
  <2>4. KeepsKnown'
    <3>1. InHand' = info1.tps
      BY <2>1 DEF InHand
    <3>2. live' \subseteq {info1.sl} \cup info1.extra \cup info1.tps \cup lost'
      BY <1>5, <1>7, <1>8, <1>10
    <3>3. uRec'.qty # -1
      BY <1>4, <1>8, <2>1
    <3> QED BY <2>1, <3>1, <3>2, <3>3 DEF KeepsKnown
  <2>5. Quiet' => OneStopWorks' /\ AimsAreHeld' /\ SizeFollows'
    <3> SUFFICES ASSUME Quiet' PROVE OneStopWorks' /\ AimsAreHeld' /\ SizeFollows'
      OBVIOUS
    <3>1. OneStopWorks /\ AimsAreHeld /\ SizeFollows
      BY <1>1, <1>5, <1>10 DEF Quiet, UpdateInv
    <3>2. /\ Stops = {info.sl} /\ pos # 0
          /\ info.sl # Update!NoId /\ job.qty = pos /\ info.extra = {} /\ lost = {}
      BY <1>1, <1>4, <3>1 DEF OneStopWorks, Setting
    <3>3. /\ Aims \ {job.new} \subseteq tps /\ (\A t \in tps : ~order[t].stop)
          /\ job.new \notin tps /\ job.new \notin {2, 3} /\ job.new \in Aims
          /\ order[job.new].qty = pos
      BY <1>1, <1>4, <3>1 DEF AimsAreHeld, Replacement
    <3>4. Stops' = {info.sl} /\ Aims' = {job.new} /\ ~order[job.new].stop
      <4>1. Stops' = Stops \ tps /\ Aims' = Aims \ tps
        BY <1>5, <1>10 DEF Stops, Aims
      <4>2. info.sl \notin tps
        BY <3>2, <3>3 DEF Stops
      <4> QED BY <3>2, <3>3, <4>1, <4>2 DEF Aims
    <3>5. OneStopWorks'
      <4>1. info1.extra = {} /\ info1.sl = info.sl /\ info1.qty \notin {-1, 0}
        BY <1>4, <1>8, <3>2
      <4>2. job'.at \notin Setting
        BY <2>1 DEF Setting
      <4> QED BY <1>1, <1>5, <2>1, <3>2, <3>4, <4>1, <4>2 DEF OneStopWorks
    <3>6. AimsAreHeld'
      <4>1. Replacement' = {} /\ Held'.tps = {job.new}
        BY <1>8, <2>1 DEF Replacement
      <4>2. order'[job.new].qty = pos' /\ ~order'[job.new].stop /\ pos' # 0
            /\ job.new \in DOMAIN order'
        BY <1>1, <1>4, <1>5, <3>2, <3>3, <3>4
      <4>3. Aims' \ Replacement' = {job.new}
        BY <3>4, <4>1
      <4> QED BY <3>3, <4>1, <4>2, <4>3 DEF AimsAreHeld, AimsMatch
    <3>7. SizeFollows'
      BY <1>1, <1>4, <1>5, <1>8, <2>1, <3>1, <3>2 DEF SizeFollows
    <3> QED BY <3>5, <3>6, <3>7
  <2> QED BY <1>5, <2>2, <2>3, <2>4, <2>5 DEF UpdateInv
<1>11. CASE ended # tps
  <2>1. job' = [job EXCEPT !.at = "rollback", !.left = tps \ ended] /\ uRec' = uRec
    BY <1>3, <1>11 DEF tps
  <2>2. /\ job'.at = "rollback" /\ job'.info = info /\ job'.qty = job.qty /\ job'.new = job.new
        /\ job'.left = tps \ ended
        /\ job' \in [at : Setting \cup {"idle", "resize", "extras"}, tp : BOOLEAN, qty : 0 .. 2,
                  info : {job'.info}, new : Update!Id \cup {Update!NoId}, left : SUBSET Update!Id]
    BY <1>2, <1>4, <2>1 DEF JobTypes, Setting, info
  <2>3. Held' = info
    BY <2>2 DEF Held, Setting
  <2>4. Numbered'
    BY <1>1, <1>5, <2>2, NumbersAfterCancel
  <2>5. JobTypes'
    BY <1>4, <1>5, <2>1, <2>2, <2>3 DEF JobTypes
  <2>6. KeepsKnown'
    <3>1. InHand' = (tps \ ended) \cup {job.new}
      BY <2>2 DEF InHand
    <3>2. live' \subseteq {info.sl} \cup info.extra \cup ((tps \ ended) \cup {job.new}) \cup lost'
      BY <1>5, <1>7
    <3> QED BY <1>4, <2>1, <2>3, <3>1, <3>2 DEF KeepsKnown
  <2>7. ~Quiet'
    BY <1>5, <1>11, Zenon DEF Quiet
  <2> QED BY <1>5, <2>4, <2>5, <2>6, <2>7 DEF UpdateInv
<1> QED BY <1>10, <1>11

\* Whatever of the new target and the old ones is left stays known.
LEMMA RollbackInv == ASSUME UpdateInv, Update!Rollback PROVE UpdateInv'
<1>1. job.at = "rollback" /\ UNCHANGED <<pos, reports, raced, updates>>
  BY DEF Update!Rollback, Update!market
<1>2. Numbered /\ OrderTypes /\ ReportTypes /\ JobTypes /\ KeepsKnown
  BY UpdateParts
<1> DEFINE info == job.info
<1>3. PICK ended \in SUBSET {job.new} :
        /\ Update!CancelConfirmed({job.new}, ended)
        /\ Update!Continue([info EXCEPT !.tps = job.left \cup ({job.new} \ ended)], "end")
  BY Zenon DEF Update!Rollback
<1>4. /\ Held = info /\ info \in Info /\ info.qty = job.qty /\ job.qty # 0 /\ job.qty \in 0 .. 2
      /\ info.sl \in DOMAIN order \cup {Update!NoId} /\ job.new \in DOMAIN order
      /\ info.sl # Update!NoId => order[info.sl].stop
      /\ info.extra \subseteq DOMAIN order /\ job.left \subseteq DOMAIN order
      /\ job.new \in Update!Id \cup {Update!NoId} /\ job.at \in Setting
      /\ job.left \subseteq Update!Id
  BY <1>1, <1>2 DEF Held, Setting, JobTypes, Info
<1>5. /\ OrderTypes' /\ ReportTypes' /\ order' = order /\ lost' = lost
      /\ live' \subseteq live \ ended
      /\ uReported => uReported'
  BY <1>1, <1>3, CancelGives
<1>6. job.new \in Update!Id
  <2>1. job.new # 0
    <3>1. PICK n \in 3 .. 3 + 2 * updates : DOMAIN order = 1 .. n
      BY <1>2 DEF Numbered
    <3> QED BY <1>4, <3>1
  <2> QED BY <1>4, <2>1 DEF Update!NoId
<1> DEFINE info1 == [info EXCEPT !.tps = job.left \cup ({job.new} \ ended)]
<1>8. /\ info1 \in Info /\ info1.sl = info.sl /\ info1.extra = info.extra
      /\ info1.tps = job.left \cup ({job.new} \ ended) /\ info1.qty = info.qty
  BY <1>4, <1>6 DEF Info
<1>9. Update!Continue(info1, "end")
  BY <1>3
<1> HIDE DEF info1, info
<1>10. Held' = info1 /\ job'.at = "idle" /\ uRec' = info1
  <2>1. /\ Held' = info1 /\ job'.at \in {"idle", "end"} \ {"end"}
        /\ \/ job' = Update!Idle /\ uRec' = info1
           \/ /\ job'.at = "end" /\ "end" # "end" /\ job'.qty = job.qty /\ job'.new = job.new
              /\ job'.left = job.left /\ job'.info = info1 /\ uRec' = uRec
    BY <1>2, <1>8, <1>9, ContinueGives
  <2> QED BY <2>1
<1>11. JobTypes'
  <2>1. info1.sl \in DOMAIN order' \cup {Update!NoId} /\ info1.qty = job.qty
        /\ (info1.sl # Update!NoId => order'[info1.sl].stop)
        /\ info1.extra \subseteq DOMAIN order' /\ info1.tps \subseteq DOMAIN order'
        /\ DOMAIN order \subseteq DOMAIN order'
    BY <1>4, <1>5, <1>8
  <2> QED BY <1>2, <1>4, <1>8, <1>9, <2>1, ContinueTypes
<1>12. Numbered'
  BY <1>1, <1>5, <1>10, NumbersAfterCancel
<1>13. KeepsKnown'
  <2>1. InHand' = info1.tps /\ InHand = job.left \cup {job.new}
    BY <1>1, <1>10 DEF InHand
  <2>2. live \subseteq {info.sl} \cup info.extra \cup (job.left \cup {job.new}) \cup lost
    BY <1>2, <1>4, <2>1 DEF KeepsKnown
  <2>3. live' \subseteq {info1.sl} \cup info1.extra \cup info1.tps \cup lost'
    BY <1>5, <1>8, <2>2
  <2>4. uRec'.qty # -1
    BY <1>4, <1>8, <1>10
  <2> QED BY <1>10, <2>1, <2>3, <2>4 DEF KeepsKnown
<1>14. ~Quiet'
  <2>1. Quiet' => Quiet
    BY <1>1, <1>5 DEF Quiet
  <2>2. ~Quiet
    BY <1>1 DEF UpdateInv, OneStopWorks
  <2> QED BY <2>1, <2>2
<1> QED BY <1>5, <1>11, <1>12, <1>13, <1>14 DEF UpdateInv

\* The reports that can be under way.
LEMMA Reports ==
    /\ Append(<<>>, 1) = <<1>> /\ Append(<<>>, 2) = <<2>> /\ Append(<<1>>, 2) = <<1, 2>>
    /\ Tail(<<1>>) = <<>> /\ Tail(<<2>>) = <<>> /\ Tail(<<1, 2>>) = <<2>>
    /\ Head(<<1>>) = 1 /\ Head(<<2>>) = 2 /\ Head(<<1, 2>>) = 1
    /\ <<>> # <<1>> /\ <<>> # <<2>> /\ <<>> # <<1, 2>> /\ <<1>> # <<2>> /\ <<1>> # <<1, 2>>
    /\ <<2>> # <<1, 2>>
<1>1. Append(<<>>, 1) = <<1>> /\ Append(<<>>, 2) = <<2>>
  OBVIOUS
<1>2. Append(<<1>>, 2) = <<1, 2>>
  <2>1. <<1>> \in Seq(Nat) /\ <<1, 2>> \in Seq(Nat) /\ Len(<<1>>) = 1 /\ Len(<<1, 2>>) = 2
    OBVIOUS
  <2>2. /\ Append(<<1>>, 2) \in Seq(Nat) /\ Len(Append(<<1>>, 2)) = 2
        /\ Append(<<1>>, 2)[1] = 1 /\ Append(<<1>>, 2)[2] = 2
    BY <2>1, AppendProperties
  <2>3. <<1, 2>>[1] = 1 /\ <<1, 2>>[2] = 2
    OBVIOUS
  <2>4. \A i \in 1 .. 2 : Append(<<1>>, 2)[i] = <<1, 2>>[i]
    <3>1. \A i \in 1 .. 2 : i = 1 \/ i = 2
      OBVIOUS
    <3> QED BY <2>2, <2>3, <3>1, Zenon
  <2> QED BY <2>1, <2>2, <2>4, SeqEqual
<1>3. Tail(<<1>>) = <<>> /\ Tail(<<2>>) = <<>>
  OBVIOUS
<1>4. Tail(<<1, 2>>) = <<2>>
  OBVIOUS
<1>5. Head(<<1>>) = 1 /\ Head(<<2>>) = 2 /\ Head(<<1, 2>>) = 1
  OBVIOUS
<1>6. /\ <<>> # <<1>> /\ <<>> # <<2>> /\ <<>> # <<1, 2>> /\ <<1>> # <<2>> /\ <<1>> # <<1, 2>>
      /\ <<2>> # <<1, 2>>
  OBVIOUS
<1> QED BY <1>1, <1>2, <1>3, <1>4, <1>5, <1>6

\* A target fills: its slice is taken off the position, and its report is under way.
LEMMA TargetFillsInv ==
    ASSUME UpdateInv, NEW id \in live, Update!TargetFills(id) PROVE UpdateInv'
<1>1. /\ ~order[id].stop /\ pos > 0 /\ (id = 3 => 2 \notin live)
      /\ pos' = pos - order[id].qty /\ live' = live \ {id}
      /\ reports' = IF id \in {2, 3} THEN Append(reports, Update!Slice[id]) ELSE reports
      /\ raced' = (raced \/ job.at \notin {"idle", "resize", "extras"})
      /\ UNCHANGED <<order, uRec, job, updates, uFaults, lost, uReported>>
  <2>1. DOMAIN Update!Slice = {2, 3}
    BY DEF Update!Slice
  <2> QED BY <2>1 DEF Update!TargetFills, Update!counters
<1>2. Numbered /\ OrderTypes /\ ReportTypes /\ JobTypes /\ KeepsKnown
  BY UpdateParts
<1>3. Update!Slice[2] = 1 /\ Update!Slice[3] = 2
  BY DEF Update!Slice
<1>4. id \in DOMAIN order /\ order[id].qty \in 0 .. 2 /\ pos \in 1 .. 2 /\ live' \subseteq live
  BY <1>1, <1>2 DEF OrderTypes
<1>5. Held' = Held /\ InHand' = InHand /\ Numbered' /\ JobTypes'
  BY <1>1, <1>2 DEF Held, InHand, Numbered, JobTypes
<1>6. OrderTypes'
  <2>1. pos' \in -1 .. 2
    BY <1>1, <1>4
  <2>2. raced' \in BOOLEAN
    BY <1>1, Zenon
  <2> QED BY <1>1, <1>2, <2>1, <2>2 DEF OrderTypes
<1>7. /\ id = 2 => reports = <<>> /\ reports' = <<1>>
      /\ id = 3 => reports \in {<<>>, <<1>>} /\ reports' \in {<<2>>, <<1, 2>>}
      /\ id \notin {2, 3} => reports' = reports
  <2>1. CASE id = 2
    <3>1. reports = <<>>
      BY <1>2, <2>1 DEF ReportTypes
    <3> QED BY <1>1, <1>3, <2>1, <3>1, Reports
  <2>2. CASE id = 3
    <3>1. reports \in {<<>>, <<1>>} /\ reports' = Append(reports, 2)
      BY <1>1, <1>2, <1>3, <2>2 DEF ReportTypes
    <3>2. CASE reports = <<>>
      BY <2>2, <3>1, <3>2, Reports
    <3>3. CASE reports = <<1>>
      BY <2>2, <3>1, <3>3, Reports
    <3> QED BY <3>1, <3>2, <3>3
  <2>3. CASE id \notin {2, 3}
    BY <1>1, <2>3
  <2> QED BY <2>1, <2>2, <2>3
<1>8. ReportTypes'
  BY <1>1, <1>2, <1>7 DEF ReportTypes
<1>9. KeepsKnown'
  <2>1. raced => raced'
    BY <1>1, Zenon
  <2>2. live = {} => live' = {}
    BY <1>4
  <2> QED BY <1>1, <1>2, <1>4, <1>5, <2>1, <2>2 DEF KeepsKnown
<1>10. Quiet' => OneStopWorks' /\ AimsAreHeld' /\ SizeFollows'
  <2> SUFFICES ASSUME Quiet' PROVE OneStopWorks' /\ AimsAreHeld' /\ SizeFollows'
    OBVIOUS
  <2>1. ~raced /\ job.at \in {"idle", "resize", "extras"}
    BY <1>1, Zenon DEF Quiet
  <2>2. OneStopWorks /\ AimsAreHeld /\ SizeFollows
    BY <1>1, <2>1 DEF Quiet, UpdateInv
  <2>3. job.at \notin Setting /\ Replacement = {} /\ Replacement' = {}
    BY <1>1, <2>1 DEF Setting, Replacement
  <2>4. Stops' = Stops /\ Aims' = Aims \ {id} /\ id \in Aims
    BY <1>1, <1>4 DEF Stops, Aims
  <2>5. FlatByTarget => pos = 0
    BY DEF FlatByTarget
  <2>6. OneStopWorks'
    <3>1. ~(Held.sl = Update!NoId \/ Held.qty \in {-1, 0})
      <4>1. pos # 0
        BY <1>4
      <4> QED BY <2>2, <4>1 DEF OneStopWorks
    <3>2. job'.at = job.at /\ job.at \notin {"rollback", "retire stop"}
      BY <1>1, <2>1
    <3>3. Held.extra = {} /\ lost = {} /\ Stops = {Held.sl} /\ lost' = lost
      BY <1>1, <2>2, <3>1, <3>2 DEF OneStopWorks
    <3>4. job'.at \notin Setting
      BY <1>1, <2>3
    <3> QED BY <1>5, <2>4, <3>1, <3>2, <3>3, <3>4 DEF OneStopWorks
  <2>7. Aims \subseteq Held.tps /\ AimsMatch(Aims) /\ (\A t \in Held.tps : ~order[t].stop)
    BY <2>2, <2>3 DEF AimsAreHeld
  <2>8. \/ id = 2 /\ Aims' = {3} /\ pos' = 1
        \/ id = 3 /\ Aims' = {} /\ pos' = 0
        \/ id \notin {2, 3} /\ Aims' = {} /\ pos' = 0 /\ FlatByTarget'
    <3>1. CASE Aims = {2, 3} /\ pos = 2
      BY <1>1, <1>2, <2>4, <3>1 DEF OrderTypes, Aims
    <3>2. CASE Aims = {3} /\ pos = 1
      BY <1>1, <1>2, <2>4, <3>2 DEF OrderTypes
    <3>3. CASE Aims = {} /\ pos = 0
      BY <2>4, <3>3
    <3>4. ASSUME NEW t \in DOMAIN order, t \notin {2, 3}, Aims = {t}, order[t].qty = pos, pos # 0
          PROVE  id \notin {2, 3} /\ Aims' = {} /\ pos' = 0 /\ FlatByTarget'
      <4>1. id = t /\ Aims' = {} /\ pos' = 0
        BY <1>1, <1>4, <2>4, <3>4
      <4> QED BY <1>1, <1>4, <3>4, <4>1 DEF FlatByTarget
    <3> QED BY <2>7, <3>1, <3>2, <3>3, <3>4 DEF AimsMatch
  <2>9. AimsAreHeld'
    <3>1. Aims' \subseteq Held'.tps /\ \A t \in Held'.tps : ~order'[t].stop
      BY <1>1, <1>5, <2>4, <2>7
    <3>2. \/ Aims' = {3} /\ pos' = 1
          \/ Aims' = {} /\ pos' = 0
      BY <2>8
    <3>3. Aims' \ Replacement' = Aims'
      BY <2>3
    <3> QED BY <2>3, <3>1, <3>2, <3>3 DEF AimsAreHeld, AimsMatch
  <2>10. SizeFollows'
    <3>1. pos # 0 /\ ~FlatByTarget
      BY <1>4, <2>5
    <3>2. job.at = "resize" => job.qty # 0
      BY <2>2, <3>1 DEF SizeFollows
    <3>3. CASE id = 2
      BY <1>1, <1>7, <2>8, <3>2, <3>3 DEF SizeFollows
    <3>4. CASE id = 3
      BY <1>1, <1>7, <2>8, <3>2, <3>4 DEF SizeFollows
    <3>5. CASE id \notin {2, 3}
      BY <1>1, <1>7, <2>8, <3>2, <3>5 DEF SizeFollows
    <3> QED BY <3>3, <3>4, <3>5
  <2> QED BY <2>6, <2>9, <2>10
<1> QED BY <1>5, <1>6, <1>8, <1>9, <1>10 DEF UpdateInv

\* An order cancelled by hand counts as a failure.
LEMMA ByHandInv ==
    ASSUME UpdateInv, NEW id \in live, Update!CancelledByHand(id) PROVE UpdateInv'
<1>1. /\ live' = live \ {id} /\ uReported' = TRUE /\ uFaults < UpdateFaults
      /\ uFaults' = uFaults + 1
      /\ UNCHANGED <<pos, reports, raced, order, uRec, job, updates, lost>>
  BY DEF Update!CancelledByHand, Update!Fails, Update!market
<1>2. Numbered /\ OrderTypes /\ ReportTypes /\ JobTypes /\ KeepsKnown
  BY UpdateParts
<1>3. Held' = Held /\ InHand' = InHand /\ Numbered' /\ JobTypes' /\ ReportTypes'
  <2>1. Held' = Held /\ InHand' = InHand /\ Numbered' /\ JobTypes'
    BY <1>1, <1>2 DEF Held, InHand, Numbered, JobTypes
  <2>2. ReportTypes'
    BY <1>1, <1>2 DEF ReportTypes
  <2> QED BY <2>1, <2>2
<1>4. OrderTypes'
  <2>1. uFaults' \in 0 .. UpdateFaults
    BY <1>1, <1>2, UpdateAssumption DEF OrderTypes
  <2>2. uReported' \in BOOLEAN
    BY <1>1
  <2> QED BY <1>1, <1>2, <2>1, <2>2 DEF OrderTypes
<1>5. KeepsKnown'
  BY <1>1, <1>2, <1>3 DEF KeepsKnown
<1>6. ~Quiet'
  BY <1>1, Zenon DEF Quiet
<1> QED BY <1>3, <1>4, <1>5, <1>6 DEF UpdateInv

\* A report is taken up: the stop is to follow what is left.
LEMMA TargetHitInv == ASSUME UpdateInv, Update!TargetHit PROVE UpdateInv'
<1>1. /\ job = Update!Idle /\ reports # <<>> /\ reports' = Tail(reports)
      /\ UNCHANGED <<pos, order, live, uRec, updates, uFaults, lost, uReported, raced>>
  BY DEF Update!TargetHit, Update!broker, Update!counters
<1>2. Numbered /\ OrderTypes /\ ReportTypes /\ JobTypes /\ KeepsKnown
  BY UpdateParts
<1>3. /\ reports = <<1>> => Head(reports) = 1 /\ reports' = <<>>
      /\ reports = <<2>> => Head(reports) = 2 /\ reports' = <<>>
      /\ reports = <<1, 2>> => Head(reports) = 1 /\ reports' = <<2>>
      /\ reports \in {<<1>>, <<2>>, <<1, 2>>}
  BY <1>1, <1>2, Reports DEF ReportTypes
<1>4. Update!Remaining(Head(reports)) \in 0 .. 2
  BY <1>3, RemainingIs
<1>5. job.at = "idle" /\ job.new = 0 /\ job.left = {} /\ Held = uRec
  BY <1>1 DEF Update!Idle, Update!NoId, Held, Setting
<1>6. \/ job' = Update!Idle /\ (uRec.sl = Update!NoId \/ uRec.qty = -1)
      \/ /\ uRec.qty # -1 /\ uRec.sl # Update!NoId
         /\ job' = [Update!Idle EXCEPT !.at = "resize", !.qty = Update!Remaining(Head(reports))]
  <2>3. PICK q \in -1 .. 2 : q = uRec.qty
    BY <1>2 DEF JobTypes, Info
  <2>1. uRec.qty >= 0 => uRec.qty # -1
    BY <2>3
  <2>2. ~(uRec.qty >= 0) => uRec.qty = -1
    BY <2>3
  <2> HIDE DEF Update!Remaining
  <2> QED BY <2>1, <2>2, Zenon DEF Update!TargetHit, Update!Tracked
<1>7. /\ job'.at = "idle" \/ (job'.at = "resize" /\ job'.qty = Update!Remaining(Head(reports)))
      /\ job'.at = "idle" => (uRec.sl = Update!NoId \/ uRec.qty = -1)
      /\ job'.at = "resize" => uRec.qty # -1 /\ uRec.sl # Update!NoId
      /\ job'.left = {} /\ Held' = uRec
      /\ job' \in [at : Setting \cup {"idle", "resize", "extras"}, tp : BOOLEAN, qty : 0 .. 2,
                  info : {job'.info}, new : Update!Id \cup {Update!NoId}, left : SUBSET Update!Id]
  <2>1. CASE job' = Update!Idle /\ (uRec.sl = Update!NoId \/ uRec.qty = -1)
    BY <1>1, <2>1 DEF Update!Idle, Update!NoId, Held, Setting
  <2>2. CASE /\ uRec.qty # -1 /\ uRec.sl # Update!NoId
             /\ job' = [Update!Idle EXCEPT !.at = "resize", !.qty = Update!Remaining(Head(reports))]
    <3>1. PICK q \in 0 .. 2 : q = Update!Remaining(Head(reports))
      BY <1>4
    <3>2. job' = [at |-> "resize", tp |-> FALSE, qty |-> q, info |-> 0, new |-> 0, left |-> {}]
      BY <2>2, <3>1, Zenon DEF Update!Idle, Update!NoId
    <3> HIDE DEF Update!Remaining
    <3>3. /\ job'.at = "resize" /\ job'.qty = Update!Remaining(Head(reports))
          /\ job'.left = {} /\ Held' = uRec
      BY <1>1, <3>1, <3>2 DEF Held, Setting
    <3>4. job' \in [at : Setting \cup {"idle", "resize", "extras"}, tp : BOOLEAN, qty : 0 .. 2,
                    info : {job'.info}, new : Update!Id \cup {Update!NoId}, left : SUBSET Update!Id]
      BY <3>2 DEF Update!NoId
    <3> QED BY <2>2, <3>3, <3>4
  <2> QED BY <1>6, <2>1, <2>2
<1>8. Numbered'
  BY <1>1, <1>2, <1>7 DEF Numbered
<1>9. OrderTypes' /\ ReportTypes'
  BY <1>1, <1>2, <1>3 DEF OrderTypes, ReportTypes
<1>10. JobTypes'
  BY <1>1, <1>2, <1>5, <1>7 DEF JobTypes, Setting
<1>11. KeepsKnown'
  BY <1>1, <1>2, <1>5, <1>7 DEF KeepsKnown, InHand
<1>12. Quiet' => OneStopWorks' /\ AimsAreHeld' /\ SizeFollows'
  <2> SUFFICES ASSUME Quiet' PROVE OneStopWorks' /\ AimsAreHeld' /\ SizeFollows'
    OBVIOUS
  <2>1. OneStopWorks /\ AimsAreHeld /\ SizeFollows
    BY <1>1 DEF Quiet, UpdateInv
  <2>2. Stops' = Stops /\ Aims' = Aims /\ (FlatByTarget => FlatByTarget')
    BY <1>1 DEF Stops, Aims, FlatByTarget
  <2>3. OneStopWorks'
    BY <1>1, <1>5, <1>7, <2>1, <2>2 DEF OneStopWorks, Setting
  <2>4. AimsAreHeld'
    BY <1>1, <1>5, <1>7, <2>1, <2>2 DEF AimsAreHeld, AimsMatch, Replacement
  <2>5. SizeFollows'
    <3>1. /\ reports = <<1>> => pos = 1 \/ FlatByTarget
          /\ reports \in {<<2>>, <<1, 2>>} => pos = 0
      BY <2>1 DEF SizeFollows
    <3>2. FlatByTarget => pos = 0
      BY DEF FlatByTarget
    <3>3. job'.at = "idle" => uRec.sl = Update!NoId
      BY <1>5, <1>7, <2>1 DEF OneStopWorks
    <3>4. CASE reports = <<1>>
      BY <1>1, <1>3, <1>7, <2>2, <3>1, <3>3, <3>4, RemainingIs DEF SizeFollows
    <3>5. CASE reports = <<2>>
      BY <1>1, <1>3, <1>7, <2>2, <3>1, <3>3, <3>5, RemainingIs DEF SizeFollows
    <3>6. CASE reports = <<1, 2>>
      BY <1>1, <1>3, <1>7, <2>2, <3>1, <3>3, <3>6, RemainingIs DEF SizeFollows
    <3> QED BY <1>3, <3>4, <3>5, <3>6
  <2> QED BY <2>3, <2>4, <2>5
<1> QED BY <1>8, <1>9, <1>10, <1>11, <1>12 DEF UpdateInv

\* The stop takes the size that is left, or is retired after the last target.
LEMMA ResizeInv == ASSUME UpdateInv, Update!Resize PROVE UpdateInv'
<1>1. job.at = "resize" /\ UNCHANGED <<pos, reports, raced, updates, lost>>
  BY DEF Update!Resize, Update!market
<1>2. Numbered /\ OrderTypes /\ ReportTypes /\ JobTypes /\ KeepsKnown
  BY UpdateParts
<1> DEFINE sl == uRec.sl
<1>3. /\ Held = uRec /\ uRec \in Info /\ sl \in DOMAIN order /\ sl # Update!NoId /\ order[sl].stop
      /\ job.qty \in 0 .. 2 /\ uRec.extra \subseteq DOMAIN order /\ uRec.tps \subseteq DOMAIN order
      /\ uRec.qty # -1 /\ job.left \subseteq DOMAIN order
  BY <1>1, <1>2 DEF Held, Setting, JobTypes
<1>4. InHand = uRec.tps
  BY <1>1, <1>3 DEF InHand
<1>5. live \subseteq {sl} \cup uRec.extra \cup uRec.tps \cup lost
  BY <1>2, <1>3, <1>4 DEF KeepsKnown
<1>6. job.qty # 0 <=> job.qty > 0
  BY <1>3
<1>7. \/ /\ sl \in live /\ UNCHANGED <<uFaults, uReported>> /\ job' = [job EXCEPT !.at = "extras"]
         /\ IF job.qty # 0 THEN /\ order' = Resized(sl, job.qty) /\ live' = live
                                /\ uRec' = [uRec EXCEPT !.qty = job.qty]
                           ELSE /\ live' = live \ {sl} /\ order' = order
                                /\ uRec' = [uRec EXCEPT !.qty = 0, !.sl = Update!NoId]
      \/ /\ live' \in {live, live \ {sl}} /\ (order' = order \/ order' = Resized(sl, job.qty))
         /\ uReported' = TRUE /\ uRec' = uRec /\ job' = Update!Idle
         /\ uFaults' = uFaults \/ (uFaults < UpdateFaults /\ uFaults' = uFaults + 1)
  BY <1>6, Zenon DEF Update!Resize, Resized, Update!Works, Update!Fails
<1>8. (order' = order \/ order' = Resized(sl, job.qty)) /\ live' \subseteq live
  BY <1>7
<1> HIDE DEF sl
<1>9. /\ DOMAIN order' = DOMAIN order
      /\ order' \in [DOMAIN order' -> [stop : BOOLEAN, qty : 0 .. 2]]
      /\ order'[sl].stop /\ (order' = Resized(sl, job.qty) => order'[sl].qty = job.qty)
      /\ \A i \in DOMAIN order : i # sl => order'[i] = order[i]
  BY <1>2, <1>3, <1>8, Resizes, Zenon
<1>10. uFaults' \in 0 .. UpdateFaults /\ uReported' \in BOOLEAN
  <2>1. uFaults \in 0 .. UpdateFaults /\ UpdateFaults \in Nat /\ uReported \in BOOLEAN
    BY <1>2, UpdateAssumption DEF OrderTypes
  <2>2. uFaults' = uFaults \/ (uFaults < UpdateFaults /\ uFaults' = uFaults + 1)
    BY <1>7, Zenon
  <2>3. uReported' \in BOOLEAN
    BY <1>7, <2>1, Zenon
  <2> QED BY <2>1, <2>2, <2>3
<1>11. 2 # sl /\ 3 # sl /\ order'[2] = order[2] /\ order'[3] = order[3]
  BY <1>2, <1>3, <1>9 DEF OrderTypes
<1>12. OrderTypes'
  BY <1>1, <1>2, <1>8, <1>9, <1>10, <1>11 DEF OrderTypes
<1>13. ReportTypes'
  BY <1>1, <1>2, <1>8 DEF ReportTypes
<1>14. \A i \in DOMAIN order : order'[i].stop <=> order[i].stop
  BY <1>3, <1>9
<1>15. FlatByTarget => FlatByTarget'
  BY <1>1, <1>8, <1>9, <1>14 DEF FlatByTarget
<1>16. CASE /\ live' \in {live, live \ {sl}} /\ (order' = order \/ order' = Resized(sl, job.qty))
            /\ uReported' = TRUE /\ uRec' = uRec /\ job' = Update!Idle
  <2>1. job'.at = "idle" /\ job'.left = {} /\ Held' = uRec
    BY <1>16 DEF Update!Idle, Held, Setting
  <2>2. Numbered'
    BY <1>1, <1>2, <1>9, <2>1 DEF Numbered
  <2>3. JobTypes'
    <3>1. job' \in [at : Setting \cup {"idle", "resize", "extras"}, tp : BOOLEAN, qty : 0 .. 2,
                    info : {job'.info}, new : Update!Id \cup {Update!NoId}, left : SUBSET Update!Id]
      BY <1>16 DEF Update!Idle
    <3>2. order'[uRec.sl].stop /\ uRec.sl \in DOMAIN order'
      BY <1>3, <1>9 DEF sl
    <3> QED BY <1>3, <1>9, <1>16, <2>1, <3>1, <3>2 DEF JobTypes, Setting
  <2>4. KeepsKnown'
    <3>1. InHand' = uRec.tps /\ lost' = lost /\ live' \subseteq live
      BY <1>1, <1>8, <2>1 DEF InHand
    <3>2. live' \subseteq {uRec.sl} \cup uRec.extra \cup uRec.tps \cup lost'
      BY <1>5, <3>1 DEF sl
    <3>3. uRec'.qty # -1
      BY <1>3, <1>16
    <3> QED BY <2>1, <3>1, <3>2, <3>3 DEF KeepsKnown
  <2>5. ~Quiet'
    BY <1>16, Zenon DEF Quiet
  <2> QED BY <1>12, <1>13, <2>2, <2>3, <2>4, <2>5 DEF UpdateInv
<1>17. CASE /\ sl \in live /\ UNCHANGED <<uFaults, uReported>>
            /\ job' = [job EXCEPT !.at = "extras"]
            /\ IF job.qty # 0 THEN /\ order' = Resized(sl, job.qty) /\ live' = live
                                   /\ uRec' = [uRec EXCEPT !.qty = job.qty]
                              ELSE /\ live' = live \ {sl} /\ order' = order
                                   /\ uRec' = [uRec EXCEPT !.qty = 0, !.sl = Update!NoId]
  <2>1. /\ job'.at = "extras" /\ job'.left = job.left /\ job'.qty = job.qty
        /\ job' \in [at : Setting \cup {"idle", "resize", "extras"}, tp : BOOLEAN, qty : 0 .. 2,
                    info : {job'.info}, new : Update!Id \cup {Update!NoId}, left : SUBSET Update!Id]
    BY <1>2, <1>17 DEF JobTypes
  <2>2. Held' = uRec'
    BY <2>1 DEF Held, Setting
  <2>3. /\ uRec' \in Info /\ uRec'.extra = uRec.extra /\ uRec'.tps = uRec.tps
        /\ uRec'.qty = job.qty /\ uRec'.sl = (IF job.qty # 0 THEN sl ELSE Update!NoId)
    <3>1. CASE job.qty # 0
      BY <1>3, <1>17, <3>1 DEF Info, sl
    <3>2. CASE job.qty = 0
      <4>1. uRec' = [uRec EXCEPT !.qty = 0, !.sl = Update!NoId]
        BY <1>17, <3>2
      <4>2. Update!NoId \in Update!Id \cup {Update!NoId} /\ 0 \in -1 .. 2
        OBVIOUS
      <4>3. /\ uRec' \in Info /\ uRec'.extra = uRec.extra /\ uRec'.tps = uRec.tps
            /\ uRec'.qty = 0 /\ uRec'.sl = Update!NoId
        BY <1>3, <4>1, <4>2 DEF Info
      <4> QED BY <3>2, <4>3
    <3> QED BY <3>1, <3>2
  <2>4. Numbered'
    BY <1>1, <1>2, <1>9, <2>1 DEF Numbered
  <2>5. JobTypes'
    <3>1. uRec'.sl \in DOMAIN order' \cup {Update!NoId}
          /\ (uRec'.sl # Update!NoId => order'[uRec'.sl].stop)
      BY <1>3, <1>9, <2>3
    <3>2. uRec'.qty # -1
      BY <1>3, <2>3
    <3> QED BY <1>3, <1>9, <2>1, <2>2, <2>3, <3>1, <3>2 DEF JobTypes, Setting
  <2>6. KeepsKnown'
    <3>1. InHand' = uRec.tps /\ lost' = lost
      BY <1>1, <2>1, <2>2, <2>3 DEF InHand
    <3>2. live' \subseteq {uRec'.sl} \cup uRec.extra \cup uRec.tps \cup lost'
      BY <1>5, <1>17, <2>3, <3>1
    <3>3. uRec'.qty # -1
      BY <1>3, <2>3
    <3> QED BY <2>2, <2>3, <3>1, <3>2, <3>3 DEF KeepsKnown
  <2>7. Quiet' => OneStopWorks' /\ AimsAreHeld' /\ SizeFollows'
    <3> SUFFICES ASSUME Quiet' PROVE OneStopWorks' /\ AimsAreHeld' /\ SizeFollows'
      OBVIOUS
    <3>1. OneStopWorks /\ AimsAreHeld /\ SizeFollows
      BY <1>1, <1>17 DEF Quiet, UpdateInv
    <3>2. Stops = {sl} /\ uRec.extra = {} /\ lost = {}
      BY <1>1, <1>3, <3>1 DEF OneStopWorks, sl
    <3>3. Aims' = Aims /\ Stops' = (IF job.qty # 0 THEN {sl} ELSE {})
      <4>1. CASE job.qty # 0
        <5>1. Stops' = Stops /\ Aims' = Aims
          BY <1>2, <1>9, <1>14, <1>17, <4>1 DEF Stops, Aims, OrderTypes
        <5> QED BY <3>2, <4>1, <5>1
      <4>2. CASE job.qty = 0
        <5>1. Stops' = Stops \ {sl} /\ Aims' = Aims
          BY <1>3, <1>17, <4>2 DEF Stops, Aims
        <5> QED BY <3>2, <4>2, <5>1
      <4> QED BY <4>1, <4>2
    <3>4. job.qty = 0 => pos = 0
      BY <1>1, <3>1 DEF SizeFollows
    <3>5. OneStopWorks'
      <4>2. job'.at \notin Setting
        BY <2>1 DEF Setting
      <4>3. job.qty # -1
        BY <1>3
      <4>1. job'.at \notin Setting /\ job.qty # -1
        BY <4>2, <4>3
      <4> QED BY <1>1, <1>3, <2>1, <2>2, <2>3, <3>2, <3>3, <3>4, <4>1 DEF OneStopWorks
    <3>6. AimsAreHeld'
      <4>1. Replacement = {} /\ Replacement' = {}
        BY <1>1, <2>1 DEF Replacement
      <4>2. \A t \in Held'.tps : ~order'[t].stop
        BY <1>3, <1>14, <2>2, <2>3, <3>1 DEF AimsAreHeld
      <4>3. Aims \subseteq uRec.tps /\ AimsMatch(Aims)
        BY <1>3, <3>1, <4>1 DEF AimsAreHeld
      <4>4. \A t \in DOMAIN order : ~order[t].stop => order'[t] = order[t]
        BY <1>3, <1>9
      <4>5. \A t \in Aims : t \in DOMAIN order /\ ~order[t].stop
        BY <1>2 DEF Aims, OrderTypes
      <4>6. PICK aims \in SUBSET Aims : aims = Aims
        OBVIOUS
      <4>7. AimsMatch(aims)' /\ aims = Aims'
        BY <1>1, <1>9, <3>3, <4>3, <4>4, <4>5, <4>6 DEF AimsMatch
      <4> QED BY <2>2, <2>3, <4>1, <4>2, <4>3, <4>6, <4>7 DEF AimsAreHeld, AimsMatch
    <3>7. SizeFollows'
      <4>1. CASE job.qty # 0
        BY <1>1, <1>9, <1>15, <1>17, <2>1, <2>2, <2>3, <3>1, <4>1 DEF SizeFollows
      <4>2. CASE job.qty = 0
        BY <1>1, <1>15, <2>1, <2>2, <2>3, <3>1, <4>2 DEF SizeFollows
      <4> QED BY <4>1, <4>2
    <3> QED BY <3>5, <3>6, <3>7
  <2> QED BY <1>12, <1>13, <2>4, <2>5, <2>6, <2>7 DEF UpdateInv
<1> QED BY <1>7, <1>16, <1>17 DEF sl

\* The extra stops end, and the record with them once nothing is left of the entry.
LEMMA RetireExtrasInv == ASSUME UpdateInv, Update!RetireExtras PROVE UpdateInv'
<1>1. job.at = "extras" /\ UNCHANGED <<pos, reports, raced, order, updates, lost>>
      /\ job' = Update!Idle
  BY DEF Update!RetireExtras, Update!market
<1>2. Numbered /\ OrderTypes /\ ReportTypes /\ JobTypes /\ KeepsKnown
  BY UpdateParts
<1>3. PICK kept \in SUBSET uRec.extra :
        /\ live' = live \ (uRec.extra \ kept) \/ live' = live \ uRec.extra
        /\ \/ UNCHANGED <<uFaults, uReported>>
           \/ kept # {} /\ uFaults < UpdateFaults /\ uFaults' = uFaults + 1 /\ uReported' = TRUE
        /\ \/ uRec.qty = 0 /\ kept = {} /\ uRec' = [uRec EXCEPT !.qty = -1]
           \/ ~(uRec.qty = 0 /\ kept = {}) /\ uRec' = [uRec EXCEPT !.extra = kept]
  <2>1. PICK kept \in SUBSET uRec.extra :
        /\ live' = live \ (uRec.extra \ kept) \/ live' = live \ uRec.extra
        /\ IF kept \cap live = {} THEN Update!Works ELSE Update!Fails
        /\ uRec' = IF uRec.qty = 0 /\ kept = {} THEN [uRec EXCEPT !.qty = -1]
                                                ELSE [uRec EXCEPT !.extra = kept]
    BY Zenon DEF Update!RetireExtras
  <2>2. kept \cap live # {} => kept # {}
    OBVIOUS
  <2> QED BY <2>1, <2>2, Zenon DEF Update!Works, Update!Fails
<1>4. /\ Held = uRec /\ uRec \in Info /\ uRec.qty # -1 /\ InHand = uRec.tps
      /\ uRec.extra \subseteq DOMAIN order /\ uRec.tps \subseteq DOMAIN order
      /\ uRec.sl \in DOMAIN order \cup {Update!NoId}
      /\ (uRec.sl # Update!NoId => order[uRec.sl].stop)
  BY <1>1, <1>2 DEF Held, InHand, Setting, JobTypes
<1>5. /\ job'.at = "idle" /\ job'.left = {} /\ Held' = uRec' /\ InHand' = uRec'.tps
      /\ job' \in [at : Setting \cup {"idle", "resize", "extras"}, tp : BOOLEAN, qty : 0 .. 2,
                  info : {job'.info}, new : Update!Id \cup {Update!NoId}, left : SUBSET Update!Id]
  BY <1>1 DEF Update!Idle, Held, InHand, Setting
<1>6. /\ uRec' \in Info /\ uRec'.sl = uRec.sl /\ uRec'.tps = uRec.tps
      /\ \/ uRec'.qty = -1 /\ uRec'.extra = uRec.extra /\ uRec.qty = 0
         \/ uRec'.qty = uRec.qty /\ uRec'.extra = kept /\ (uRec.qty # 0 \/ kept # {})
  <2>1. CASE uRec' = [uRec EXCEPT !.qty = -1] /\ uRec.qty = 0
    BY <1>4, <2>1 DEF Info
  <2>2. CASE uRec' = [uRec EXCEPT !.extra = kept] /\ ~(uRec.qty = 0 /\ kept = {})
    BY <1>4, <1>3, <2>2 DEF Info
  <2> QED BY <1>3, <2>1, <2>2
<1>7. uFaults' \in 0 .. UpdateFaults /\ uReported' \in BOOLEAN /\ (uReported => uReported')
  <2>1. uFaults \in 0 .. UpdateFaults /\ UpdateFaults \in Nat /\ uReported \in BOOLEAN
    BY <1>2, UpdateAssumption DEF OrderTypes
  <2>2. uFaults' = uFaults \/ (uFaults < UpdateFaults /\ uFaults' = uFaults + 1)
    BY <1>3, Zenon
  <2>3. uReported' \in BOOLEAN /\ (uReported => uReported')
    BY <1>3, <2>1, Zenon
  <2> QED BY <2>1, <2>2, <2>3
<1>8. live' \subseteq live /\ live' \cap uRec.extra \subseteq kept
  BY <1>3
<1>9. Numbered'
  BY <1>1, <1>2, <1>5 DEF Numbered
<1>10. OrderTypes'
  BY <1>1, <1>2, <1>7, <1>8 DEF OrderTypes
<1>11. ReportTypes'
  BY <1>1, <1>2, <1>8 DEF ReportTypes
<1>12. JobTypes'
  <2>1. uRec'.extra \subseteq DOMAIN order'
    BY <1>1, <1>4, <1>6
  <2> QED BY <1>1, <1>4, <1>5, <1>6, <2>1 DEF JobTypes, Setting
<1>13. Quiet /\ uRec.qty = 0 => live = {}
  <2> SUFFICES ASSUME Quiet, uRec.qty = 0 PROVE live = {}
    OBVIOUS
  <2>1. OneStopWorks /\ AimsAreHeld
    BY DEF UpdateInv
  <2>2. pos = 0 /\ Stops = {}
    BY <1>1, <1>4, <2>1 DEF OneStopWorks
  <2>3. Aims = {}
    <3>1. AimsMatch(Aims)
      BY <1>1, <2>1 DEF AimsAreHeld, Replacement
    <3> QED BY <2>2, <3>1 DEF AimsMatch
  <2>4. live = Stops \cup Aims
    BY DEF Stops, Aims
  <2> QED BY <2>2, <2>3, <2>4
<1>14. KeepsKnown'
  <2>1. live \subseteq {uRec.sl} \cup uRec.extra \cup uRec.tps \cup lost
    BY <1>2, <1>4 DEF KeepsKnown
  <2>2. Held'.qty # -1 => live' \subseteq {Held'.sl} \cup Held'.extra \cup InHand' \cup lost'
    BY <1>1, <1>5, <1>6, <1>8, <2>1
  <2>3. uRec'.qty = -1 /\ ~raced' => live' = {} \/ uReported'
    <3>1. uRec'.qty = -1 => uRec.qty = 0
      BY <1>4, <1>6
    <3> QED BY <1>1, <1>7, <1>8, <1>13, <3>1 DEF Quiet
  <2> QED BY <2>2, <2>3 DEF KeepsKnown
<1>15. Quiet' => OneStopWorks' /\ AimsAreHeld' /\ SizeFollows'
  <2> SUFFICES ASSUME Quiet' PROVE OneStopWorks' /\ AimsAreHeld' /\ SizeFollows'
    OBVIOUS
  <2>1. OneStopWorks /\ AimsAreHeld /\ SizeFollows
    BY <1>1, <1>7 DEF Quiet, UpdateInv
  <2>2. uRec.extra = {} /\ kept = {} /\ live' = live
    BY <1>3, <1>4, <2>1 DEF OneStopWorks
  <2>3. Stops' = Stops /\ Aims' = Aims /\ (FlatByTarget => FlatByTarget')
    BY <1>1, <2>2 DEF Stops, Aims, FlatByTarget
  <2>4. uRec'.extra = {}
    BY <1>6, <2>2
  <2>5. OneStopWorks'
    <3>1. job'.at \notin Setting /\ job.at \notin {"retire stop", "rollback"}
      BY <1>1, <1>5 DEF Setting
    <3>2. /\ lost = {} /\ Stops = (IF uRec.sl = Update!NoId THEN {} ELSE {uRec.sl})
          /\ uRec.sl = Update!NoId \/ uRec.qty \in {-1, 0} => pos = 0 /\ uRec.sl = Update!NoId
      BY <1>4, <2>1, <3>1 DEF OneStopWorks
    <3>3. uRec'.qty \in {-1, 0} => uRec.qty \in {-1, 0}
      BY <1>6
    <3> QED BY <1>1, <1>5, <1>6, <2>3, <2>4, <3>1, <3>2, <3>3 DEF OneStopWorks
  <2>6. AimsAreHeld'
    BY <1>1, <1>4, <1>5, <1>6, <2>1, <2>3 DEF AimsAreHeld, AimsMatch, Replacement
  <2>7. SizeFollows'
    BY <1>1, <1>4, <1>5, <1>6, <2>1, <2>3 DEF SizeFollows
  <2> QED BY <2>5, <2>6, <2>7
<1> QED BY <1>9, <1>10, <1>11, <1>12, <1>14, <1>15 DEF UpdateInv

\* Every step of an update, a fill or a close keeps the invariant.
LEMMA UpdateStep == ASSUME UpdateInv, Update!Next PROVE UpdateInv'
<1>1. CASE Update!Signal
  <2>1. CASE \E sl, tp \in BOOLEAN : (sl \/ tp) /\ Update!SetSlTp(sl, tp)
    BY <2>1, SetInv
  <2>2. CASE \/ Update!ModifyStop \/ Update!PlaceStop \/ Update!RetireStop \/ Update!PlaceTarget
             \/ Update!RetireTargets \/ Update!Rollback
    BY <2>2, ModifyInv, PlaceStopInv, RetireStopInv, PlaceTargetInv, RetireTargetsInv, RollbackInv
  <2>3. CASE Update!TargetHit \/ Update!Resize \/ Update!RetireExtras
    BY <2>3, TargetHitInv, ResizeInv, RetireExtrasInv
  <2> QED BY <1>1, <2>1, <2>2, <2>3, Zenon DEF Update!Signal
<1>2. CASE \E id \in live : Update!TargetFills(id) \/ Update!CancelledByHand(id)
  BY <1>2, TargetFillsInv, ByHandInv
<1> QED BY <1>1, <1>2 DEF Update!Next

\* So does a step of another part.
LEMMA UpdateStutter == ASSUME UpdateInv, UNCHANGED UpdateVars PROVE UpdateInv'
<1>1. UNCHANGED <<pos, order, live, uRec, reports, job, updates, uFaults, lost, uReported, raced>>
  BY DEF UpdateVars
<1>2. Held' = Held /\ Stops' = Stops /\ Aims' = Aims /\ InHand' = InHand /\ Quiet' = Quiet
      /\ Replacement' = Replacement /\ FlatByTarget' = FlatByTarget
  BY <1>1 DEF Held, Stops, Aims, InHand, Quiet, Replacement, FlatByTarget
<1>3. Numbered' /\ OrderTypes' /\ ReportTypes' /\ JobTypes' /\ KeepsKnown'
  <2>1. Numbered' /\ OrderTypes'
    BY <1>1, UpdateParts DEF Numbered, OrderTypes
  <2>2. ReportTypes'
    BY <1>1, UpdateParts DEF ReportTypes
  <2>3. JobTypes'
    BY <1>1, <1>2, UpdateParts DEF JobTypes
  <2>4. KeepsKnown'
    BY <1>1, <1>2, UpdateParts DEF KeepsKnown
  <2> QED BY <2>1, <2>2, <2>3, <2>4
<1>4. Quiet => OneStopWorks' /\ AimsAreHeld' /\ SizeFollows'
  <2> SUFFICES ASSUME Quiet PROVE OneStopWorks' /\ AimsAreHeld' /\ SizeFollows'
    OBVIOUS
  <2>1. OneStopWorks /\ AimsAreHeld /\ SizeFollows
    BY DEF UpdateInv
  <2>2. OneStopWorks'
    BY <1>1, <1>2, <2>1 DEF OneStopWorks
  <2>3. AimsAreHeld'
    BY <1>1, <1>2, <2>1 DEF AimsAreHeld, AimsMatch
  <2>4. SizeFollows'
    BY <1>1, <1>2, <2>1 DEF SizeFollows
  <2> QED BY <2>2, <2>3, <2>4
<1> QED BY <1>2, <1>3, <1>4 DEF UpdateInv

\* What the invariant says of the stops that work, and of the record.
LEMMA UpdateSafe ==
    ASSUME UpdateInv
    PROVE  /\ Update!TypeOK /\ Update!HeldIsCovered /\ Update!FlatStopIsKnown
           /\ Update!RecordKeepsOrders
<1>1. Numbered /\ OrderTypes /\ ReportTypes /\ JobTypes /\ KeepsKnown /\ updates \in Nat
  BY UpdateParts
<1>2. DOMAIN order \subseteq Update!Id
  <2>1. PICK n \in 3 .. 3 + 2 * updates : DOMAIN order = 1 .. n
    BY <1>1 DEF Numbered
  <2>2. updates \in 0 .. MaxUpdates /\ MaxUpdates \in Nat
    BY <1>1, UpdateAssumption DEF OrderTypes
  <2>3. n \in Int /\ n <= 3 + 2 * MaxUpdates
    BY <2>1, <2>2
  <2> QED BY <2>1, <2>2, <2>3 DEF Update!Id
<1>3. Update!TypeOK
  <2>1. pos \in -2 .. 2 /\ live \subseteq DOMAIN order /\ lost \subseteq Update!Id
        /\ updates \in 0 .. MaxUpdates /\ uFaults \in 0 .. UpdateFaults
        /\ uReported \in BOOLEAN /\ raced \in BOOLEAN
    <3>1. pos \in -2 .. 2
      BY <1>1 DEF OrderTypes
    <3> QED BY <1>1, <1>2, <3>1 DEF OrderTypes
  <2>2. /\ uRec.sl \in Update!Id \cup {Update!NoId} /\ uRec.extra \subseteq Update!Id
        /\ uRec.tps \subseteq Update!Id /\ uRec.qty \in -1 .. 2
    BY <1>1 DEF JobTypes, Info
  <2>3. reports \in Seq({1, 2}) /\ Len(reports) <= 2
    <3>1. CASE reports = <<>>
      BY <3>1
    <3>2. CASE reports = <<1>>
      BY <3>2
    <3>3. CASE reports = <<2>>
      BY <3>3
    <3>4. CASE reports = <<1, 2>>
      BY <3>4
    <3> QED BY <1>1, <3>1, <3>2, <3>3, <3>4 DEF ReportTypes
  <2>4. job.at \in {"idle", "modify", "stop", "retire stop", "target", "retire targets", "rollback",
                    "resize", "extras"}
    BY <1>1 DEF JobTypes, Setting
  <2> QED BY <1>2, <2>1, <2>2, <2>3, <2>4 DEF Update!TypeOK
<1>4. job = Update!Idle => Held = uRec /\ InHand = uRec.tps /\ job.at = "idle"
  BY DEF Update!Idle, Held, InHand, Setting
<1>5. Update!HeldIsCovered /\ Update!FlatStopIsKnown
  <2> SUFFICES ASSUME job = Update!Idle, reports = <<>>, ~uReported, ~raced
               PROVE  /\ \/ Update!MapThenSumSet(LAMBDA id : order[id].qty, Stops) = pos
                         \/ FlatByTarget
                      /\ Stops \subseteq {uRec.sl}
    <3>1. Update!StopSize = Update!MapThenSumSet(LAMBDA id : order[id].qty, Stops)
      BY DEF Update!StopSize, Update!WorkingStops, Stops
    <3>2. FlatByTarget <=>
            pos = 0 /\ \E id \in DOMAIN order \ live : ~order[id].stop /\ id \notin DOMAIN Update!Slice
      BY DEF FlatByTarget, Update!Slice
    <3>3. Update!WorkingStops = Stops
      BY DEF Update!WorkingStops, Stops
    <3> QED BY <3>1, <3>2, <3>3 DEF Update!HeldIsCovered, Update!FlatStopIsKnown, Update!Settled
  <2>1. OneStopWorks /\ SizeFollows /\ Held = uRec /\ job.at = "idle"
    BY <1>4 DEF Quiet, UpdateInv
  <2>2. CASE uRec.sl = Update!NoId
    <3>1. Stops = {} /\ pos = 0
      BY <2>1, <2>2 DEF OneStopWorks
    <3>2. Update!MapThenSumSet(LAMBDA id : order[id].qty, Stops) = 0
      BY <3>1, NoContracts
    <3> QED BY <3>1, <3>2
  <2>3. CASE uRec.sl # Update!NoId
    <3>1. Stops = {uRec.sl} /\ (order[uRec.sl].qty = pos \/ FlatByTarget)
      BY <2>1, <2>3 DEF OneStopWorks, SizeFollows
    <3>2. order[uRec.sl].qty \in Int
      <4>1. uRec.sl \in DOMAIN order
        BY <1>1, <2>1, <2>3 DEF JobTypes
      <4> QED BY <1>1, <4>1 DEF OrderTypes
    <3> QED BY <3>1, <3>2, OneContracts
  <2> QED BY <2>2, <2>3
<1>6. Update!RecordKeepsOrders
  <2> SUFFICES ASSUME job = Update!Idle, ~raced
               PROVE  IF uRec.qty >= 0 THEN live \subseteq {uRec.sl} \cup uRec.extra \cup uRec.tps \cup lost
                                       ELSE live = {} \/ uReported
    BY Zenon DEF Update!RecordKeepsOrders, Update!Tracked, Update!Known
  <2>1. PICK q \in -1 .. 2 : q = uRec.qty
    BY <1>1 DEF JobTypes, Info
  <2>2. (q >= 0 => q # -1) /\ (~(q >= 0) => q = -1)
    OBVIOUS
  <2> QED BY <1>1, <1>4, <2>1, <2>2 DEF KeepsKnown
<1> QED BY <1>3, <1>5, <1>6

=============================================================================
