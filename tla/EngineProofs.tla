---------------------------- MODULE EngineProofs ----------------------------
(***************************************************************************)
(* Proofs about what surrounds the engine (EngineProgress): the invariants *)
(* of TradeLocks, SharedReads, TradeRecords, RiskGuard, LoginToken and     *)
(* ProtectiveStop, and with them the suite's own, for every value of the   *)
(* constants.                                                              *)
(***************************************************************************)
EXTENDS EngineProgress, SequenceTheorems, FiniteSetTheorems, WellFoundedInduction, TLAPS
-----------------------------------------------------------------------------
(* TradeLocks, for any number of signals, closes, trades and locks: two    *)
(* signals of a trade are never at the broker together, and a close at the *)
(* broker is beside no signal it had to wait for.                          *)
(*                                                                         *)
(* The argument: who works on a trade holds the lock that is registered    *)
(* under the trade's key, and who waits for it is in that lock's queue, so *)
(* the registry never drops it meanwhile; a close that has to wait for a   *)
(* signal has the very lock of that signal in its plan, and works only     *)
(* when it holds all locks of its plan.                                    *)

Active == {"wait", "run"}
In(q, t) == \E i \in 1 .. Len(q) : q[i] = t

\* Who works on a trade holds the lock under its key.
RunnerHolds ==
    \A s \in Signal : lPc[s] = "run" =>
        lockOf[SignalTarget[s]] \in Lock /\ holder[lockOf[SignalTarget[s]]] = s

\* Who waits for a trade waits for the lock under its key, and for no other.
WaiterQueues ==
    /\ \A s \in Signal : lPc[s] = "wait" =>
         lockOf[SignalTarget[s]] \in Lock /\ In(queue[lockOf[SignalTarget[s]]], s)
    /\ \A s \in Signal, o \in Lock : In(queue[o], s) => lockOf[SignalTarget[s]] = o

\* A close holds the locks of its plan up to a place, and waits for the next one.
CloseHolds ==
    \A m \in Manual : lPc[m] \in Active =>
        /\ \A i \in 1 .. plan[m].got :
             plan[m].locks[i] # NoLock => holder[plan[m].locks[i]] = m
        /\ lPc[m] = "wait" =>
             plan[m].got + 1 \in Locks!Place /\ plan[m].locks[plan[m].got + 1] \in Lock
        /\ lPc[m] = "run" => plan[m].got = Len(KeyOrder)

\* The lock of a signal a close has to wait for is in the close's plan.
PlanCovers ==
    \A m \in Manual : \A s \in announced[m] :
        /\ lPc[s] # "idle"
        /\ lPc[m] \in Active /\ lPc[s] \in Active =>
             \E i \in Locks!Place :
                KeyOrder[i] = SignalTarget[s] /\ plan[m].locks[i] = lockOf[SignalTarget[s]]

LocksInv == Locks!TypeOK /\ RunnerHolds /\ WaiterQueues /\ CloseHolds /\ PlanCovers

-----------------------------------------------------------------------------
(* The queues and the keys                                                 *)

\* Every set of places has a first one.
LEMMA FirstPlace ==
    ASSUME NEW S, S \subseteq Nat, S # {}
    PROVE  \E j \in S : \A l \in S : j <= l
<1> DEFINE R == {p \in Nat \X Nat : p[1] < p[2]}
<1>1. IsWellFoundedOn(R, Nat)
  BY NatLessThanWellFounded DEF OpToRel
<1>2. \A x, y \in Nat : y < x => <<y, x>> \in R
  OBVIOUS
<1> HIDE DEF R
<1>3. PICK j \in S : \A l \in S : <<l, j>> \notin R
  BY <1>1, WFMin
<1>4. ASSUME NEW l \in S PROVE j <= l
  <2>1. l \in Nat /\ j \in Nat /\ ~(l < j)
    BY <1>2, <1>3
  <2> QED BY <2>1
<1> QED BY <1>4

\* A task that lines up.
LEMMA InAppend ==
    ASSUME NEW S, NEW q \in Seq(S), NEW x \in S
    PROVE  /\ Append(q, x) \in Seq(S) /\ Append(q, x) # <<>>
           /\ \A y : In(Append(q, x), y) <=> In(q, y) \/ y = x
<1>1. /\ Append(q, x) \in Seq(S) /\ Len(Append(q, x)) = Len(q) + 1 /\ Len(q) \in Nat
      /\ \A i \in 1 .. Len(q) : Append(q, x)[i] = q[i]
      /\ Append(q, x)[Len(q) + 1] = x
  BY AppendProperties
<1>2. Append(q, x) # <<>>
  BY <1>1
<1>3. \A i : i \in 1 .. Len(q) + 1 <=> i \in 1 .. Len(q) \/ i = Len(q) + 1
  BY <1>1
<1> QED BY <1>1, <1>2, <1>3 DEF In

\* The next in line leaves the line.
LEMMA InTail ==
    ASSUME NEW S, NEW q \in Seq(S), q # <<>>
    PROVE  /\ Tail(q) \in Seq(S)
           /\ \A y : In(Tail(q), y) => In(q, y)
           /\ \A y : y # Head(q) /\ In(q, y) => In(Tail(q), y)
<1>1. /\ Tail(q) \in Seq(S) /\ Len(Tail(q)) = Len(q) - 1 /\ Len(q) \in Nat /\ Len(q) >= 1
      /\ \A i \in 1 .. Len(Tail(q)) : Tail(q)[i] = q[i + 1]
      /\ Head(q) = q[1]
  BY HeadTailProperties
<1>2. ASSUME NEW y, In(Tail(q), y) PROVE In(q, y)
  <2>1. PICK i \in 1 .. Len(Tail(q)) : Tail(q)[i] = y
    BY <1>2 DEF In
  <2>2. i + 1 \in 1 .. Len(q) /\ q[i + 1] = y
    BY <1>1, <2>1
  <2> QED BY <2>2 DEF In
<1>3. ASSUME NEW y, y # Head(q), In(q, y) PROVE In(Tail(q), y)
  <2>1. PICK i \in 1 .. Len(q) : q[i] = y
    BY <1>3 DEF In
  <2>2. i # 1 /\ i - 1 \in 1 .. Len(Tail(q)) /\ (i - 1) + 1 = i
    BY <1>1, <1>3, <2>1
  <2>3. Tail(q)[i - 1] = y
    BY <1>1, <2>1, <2>2
  <2> QED BY <2>2, <2>3 DEF In
<1> QED BY <1>1, <1>2, <1>3

\* A task that gives up leaves the line, the others stay.
LEMMA InWithout ==
    ASSUME NEW S, NEW q \in Seq(S), NEW t
    PROVE  /\ Locks!Without(q, t) \in Seq(S)
           /\ \A y : In(Locks!Without(q, t), y) => In(q, y)
           /\ \A y : y # t /\ In(q, y) => In(Locks!Without(q, t), y)
<1>0. Len(q) \in Nat
  BY LenProperties
<1>1. CASE ~\E j \in 1 .. Len(q) : q[j] = t
  BY <1>1 DEF Locks!Without
<1>2. CASE \E j \in 1 .. Len(q) : q[j] = t
  <2>1. PICK i : i = CHOOSE j \in 1 .. Len(q) : q[j] = t
    OBVIOUS
  <2>2. i \in 1 .. Len(q) /\ q[i] = t
    BY <1>2, <2>1
  <2> DEFINE a == SubSeq(q, 1, i - 1)
             b == SubSeq(q, i + 1, Len(q))
  <2>3. Locks!Without(q, t) = a \o b
    BY <1>2, <2>1 DEF Locks!Without
  <2>4. /\ a \in Seq(S) /\ Len(a) = i - 1 /\ \A k \in 1 .. i - 1 : a[k] = q[k]
    BY <1>0, <2>2, SubSeqProperties
  <2>5. /\ b \in Seq(S) /\ Len(b) = Len(q) - i
        /\ \A k \in 1 .. Len(q) - i : b[k] = q[i + k]
    <3>1. /\ b \in Seq(S) /\ Len(b) = IF i + 1 <= Len(q) THEN Len(q) - (i + 1) + 1 ELSE 0
          /\ \A k \in 1 .. (Len(q) - (i + 1) + 1) : b[k] = q[(i + 1) + k - 1]
      BY <1>0, <2>2, SubSeqProperties
    <3>2. Len(q) - (i + 1) + 1 = Len(q) - i /\ (i + 1 <= Len(q) \/ Len(q) - i = 0)
      BY <1>0, <2>2
    <3>3. \A k \in 1 .. Len(q) - i : (i + 1) + k - 1 = i + k
      BY <1>0, <2>2
    <3> QED BY <3>1, <3>2, <3>3
  <2> HIDE DEF a, b
  <2>6. /\ a \o b \in Seq(S) /\ Len(a \o b) = Len(q) - 1
        /\ \A k \in 1 .. Len(q) - 1 : (a \o b)[k] = IF k <= i - 1 THEN q[k] ELSE q[k + 1]
    <3>1. /\ a \o b \in Seq(S) /\ Len(a \o b) = Len(a) + Len(b)
          /\ \A k \in 1 .. Len(a) + Len(b) :
               (a \o b)[k] = IF k <= Len(a) THEN a[k] ELSE b[k - Len(a)]
      BY <2>4, <2>5, ConcatProperties
    <3>2. Len(a) + Len(b) = Len(q) - 1
      BY <1>0, <2>2, <2>4, <2>5
    <3>3. ASSUME NEW k \in 1 .. Len(q) - 1, k > i - 1 PROVE b[k - Len(a)] = q[k + 1]
      <4>1. k - (i - 1) \in 1 .. Len(q) - i /\ i + (k - (i - 1)) = k + 1
        BY <1>0, <2>2, <3>3
      <4> QED BY <2>4, <2>5, <4>1
    <3>4. ASSUME NEW k \in 1 .. Len(q) - 1, k <= i - 1 PROVE a[k] = q[k]
      BY <2>4, <3>4, <2>2
    <3> QED BY <3>1, <3>2, <3>3, <3>4, <2>4, <2>2, <1>0
  <2>7. ASSUME NEW y, In(a \o b, y) PROVE In(q, y)
    <3>1. PICK k \in 1 .. Len(q) - 1 : (a \o b)[k] = y
      BY <2>6, <2>7 DEF In
    <3>2. k \in 1 .. Len(q) /\ k + 1 \in 1 .. Len(q)
      BY <1>0
    <3> QED BY <2>6, <3>1, <3>2 DEF In
  <2>8. ASSUME NEW y, y # t, In(q, y) PROVE In(a \o b, y)
    <3>1. PICK k \in 1 .. Len(q) : q[k] = y
      BY <2>8 DEF In
    <3>2. CASE k < i
      <4>1. k \in 1 .. Len(q) - 1 /\ k <= i - 1
        BY <1>0, <2>2, <3>2
      <4> QED BY <2>6, <3>1, <4>1 DEF In
    <3>3. CASE k > i
      <4>1. k - 1 \in 1 .. Len(q) - 1 /\ ~(k - 1 <= i - 1) /\ (k - 1) + 1 = k
        BY <1>0, <2>2, <3>3
      <4>2. (a \o b)[k - 1] = y
        BY <2>6, <3>1, <4>1
      <4> QED BY <2>6, <4>1, <4>2 DEF In
    <3>4. k # i
      BY <2>2, <2>8, <3>1
    <3> QED BY <1>0, <2>2, <3>2, <3>3, <3>4
  <2> QED BY <2>3, <2>6, <2>7, <2>8
<1> QED BY <1>1, <1>2

\* What the constants are.
LEMMA LocksConstants ==
    /\ Len(KeyOrder) \in Nat /\ Locks!Place = 1 .. Len(KeyOrder)
    /\ KeyOrder \in [Locks!Place -> Locks!LockKey]
    /\ \A k \in Locks!LockKey : \E i \in Locks!Place : KeyOrder[i] = k
    /\ \A s \in Signal : SignalTarget[s] \in Locks!Trade /\ SignalTarget[s] \in Locks!LockKey
    /\ Signal \subseteq Locks!Task /\ Manual \subseteq Locks!Task
    /\ \A t \in Locks!Task : t # NoTask
    /\ \A o \in Lock : o # NoLock
    /\ \A s \in Signal, m \in Manual : s # m
<1>1. KeyOrder \in Seq(Locks!LockKey) /\ {KeyOrder[i] : i \in 1 .. Len(KeyOrder)} = Locks!LockKey
  BY LocksAssumption DEF Locks!OrderAssumption
<1>2. Len(KeyOrder) \in Nat /\ KeyOrder \in [1 .. Len(KeyOrder) -> Locks!LockKey]
  BY <1>1, LenProperties
<1>3. /\ \A s \in Signal : SignalTarget[s] \in Locks!Trade /\ SignalTarget[s] \in Locks!LockKey
      /\ Signal \subseteq Locks!Task /\ Manual \subseteq Locks!Task
  BY LocksAssumption DEF Locks!TargetAssumption, Locks!LockKey, Locks!Task
<1>4. /\ \A t \in Locks!Task : t # NoTask
      /\ \A o \in Lock : o # NoLock
  BY LocksAssumption DEF Locks!NoneAssumption
<1>5. \A s \in Signal, m \in Manual : s # m
  BY LocksAssumption DEF Locks!TaskAssumption
<1>6. \A k \in Locks!LockKey : \E i \in 1 .. Len(KeyOrder) : KeyOrder[i] = k
  BY <1>1
<1> QED BY <1>2, <1>3, <1>4, <1>5, <1>6 DEF Locks!Place

\* What fetching does to the registry: the keys that are asked for have a lock then.
LEMMA FetchGives ==
    ASSUME LocksInv, NEW keys \in SUBSET Locks!LockKey, Locks!Fetchable(keys)
    PROVE  /\ Locks!Fetch(keys) \in [Locks!LockKey -> Lock \cup {NoLock}]
           /\ \A k \in keys : Locks!Fetch(keys)[k] \in Lock
           /\ \A k \in Locks!LockKey : lockOf[k] # NoLock => Locks!Fetch(keys)[k] = lockOf[k]
<1> DEFINE new == Locks!New(keys)
<1>1. PICK f : f = CHOOSE g \in [new -> Locks!Unuseds] : Locks!Fits(g, new)
  OBVIOUS
<1>2. f \in [new -> Locks!Unuseds]
  BY <1>1 DEF Locks!Fetchable
<1>3. \A k \in new : f[k] \in Lock
  BY <1>2 DEF Locks!Unuseds
<1>4. new \subseteq keys /\ \A k \in keys : k \notin new => lockOf[k] # NoLock
  BY DEF Locks!New
<1>5. \A k \in new : lockOf[k] = NoLock
  BY DEF Locks!New
<1>6. Locks!Fetch(keys) = [k \in Locks!LockKey |-> IF k \in new THEN f[k] ELSE lockOf[k]]
  BY <1>1 DEF Locks!Fetch
<1>7. lockOf \in [Locks!LockKey -> Lock \cup {NoLock}]
  BY DEF LocksInv, Locks!TypeOK
<1> HIDE DEF new
<1> QED BY <1>3, <1>4, <1>5, <1>6, <1>7

\* Only a lock that nobody holds or awaits leaves the registry.
LEMMA DropKeeps ==
    ASSUME LocksInv, NEW keys, NEW held, NEW waiting
    PROVE  /\ Locks!Drop(keys, held, waiting) \in [Locks!LockKey -> Lock \cup {NoLock}]
           /\ \A k \in Locks!LockKey :
                \/ Locks!Drop(keys, held, waiting)[k] = lockOf[k]
                \/ /\ Locks!Drop(keys, held, waiting)[k] = NoLock /\ lockOf[k] \in Lock
                   /\ held[lockOf[k]] = NoTask /\ waiting[lockOf[k]] = <<>>
BY DEF LocksInv, Locks!TypeOK, Locks!Drop

-----------------------------------------------------------------------------
(* What a step of one task leaves to the others                            *)

\* The step is t's: nobody else loses a lock or its place in a queue, and a lock leaves
\* the registry only if nobody holds or awaits it.
OnlyMoves(t) ==
    /\ \A k \in Locks!LockKey :
         \/ lockOf'[k] = lockOf[k] \/ lockOf[k] = NoLock
         \/ holder'[lockOf[k]] = NoTask /\ queue'[lockOf[k]] = <<>>
    /\ \A o \in Lock, x \in Locks!Task : x # t =>
         /\ holder[o] = x => holder'[o] = x
         /\ In(queue[o], x) <=> In(queue'[o], x)
    /\ \A x \in Locks!Task : x # t => lPc'[x] = lPc[x]
    /\ \A m \in Manual : m # t => plan'[m] = plan[m] /\ announced'[m] = announced[m]

LEMMA PlanTypes ==
    ASSUME LocksInv, NEW m \in Manual
    PROVE  /\ plan[m] \in [found : SUBSET Locks!Trade,
                           locks : [Locks!Place -> Lock \cup {NoLock}],
                           got : 0 .. Len(KeyOrder)]
           /\ plan[m].got \in Nat
           /\ \A i \in 1 .. plan[m].got : i \in Locks!Place
           /\ \A i \in Locks!Place : plan[m].locks[i] # NoLock => plan[m].locks[i] \in Lock
<1>1. plan[m] \in [found : SUBSET Locks!Trade,
                           locks : [Locks!Place -> Lock \cup {NoLock}],
                   got : 0 .. Len(KeyOrder)]
  BY DEF LocksInv, Locks!TypeOK
<1>2. plan[m].got \in 0 .. Len(KeyOrder) /\ plan[m].locks \in [Locks!Place -> Lock \cup {NoLock}]
  BY <1>1
<1> QED BY <1>1, <1>2, LocksConstants

LEMMA OthersKeep ==
    ASSUME LocksInv, NEW t \in Locks!Task, OnlyMoves(t)
    PROVE  /\ \A s \in Signal : s # t /\ lPc[s] \in Active =>
                  lockOf'[SignalTarget[s]] = lockOf[SignalTarget[s]]
           /\ \A s \in Signal : s # t =>
                /\ lPc'[s] = "run" =>
                     lockOf'[SignalTarget[s]] \in Lock /\ holder'[lockOf'[SignalTarget[s]]] = s
                /\ lPc'[s] = "wait" =>
                     lockOf'[SignalTarget[s]] \in Lock /\ In(queue'[lockOf'[SignalTarget[s]]], s)
                /\ \A o \in Lock : In(queue'[o], s) => lockOf'[SignalTarget[s]] = o
           /\ \A m \in Manual : m # t /\ lPc'[m] \in Active =>
                \A i \in 1 .. plan'[m].got :
                  plan'[m].locks[i] # NoLock => holder'[plan'[m].locks[i]] = m
<1> USE LocksConstants
<1>1. ASSUME NEW o \in Lock, NEW x \in Locks!Task, In(queue'[o], x) PROVE queue'[o] # <<>>
  BY <1>1 DEF In
<1>2. ASSUME NEW s \in Signal, s # t, lPc[s] \in Active
      PROVE  lockOf'[SignalTarget[s]] = lockOf[SignalTarget[s]]
  <2>1. CASE lPc[s] = "run"
    <3>1. lockOf[SignalTarget[s]] \in Lock /\ holder[lockOf[SignalTarget[s]]] = s
      BY <2>1 DEF LocksInv, RunnerHolds
    <3>2. holder'[lockOf[SignalTarget[s]]] = s
      BY <1>2, <3>1 DEF OnlyMoves
    <3> QED BY <3>1, <3>2 DEF OnlyMoves
  <2>2. CASE lPc[s] = "wait"
    <3>1. lockOf[SignalTarget[s]] \in Lock /\ In(queue[lockOf[SignalTarget[s]]], s)
      BY <2>2 DEF LocksInv, WaiterQueues
    <3>2. In(queue'[lockOf[SignalTarget[s]]], s)
      BY <1>2, <3>1 DEF OnlyMoves
    <3> QED BY <1>1, <3>1, <3>2 DEF OnlyMoves
  <2> QED BY <1>2, <2>1, <2>2 DEF Active
<1>3. ASSUME NEW s \in Signal, s # t
      PROVE  /\ lPc'[s] = "run" =>
                  lockOf'[SignalTarget[s]] \in Lock /\ holder'[lockOf'[SignalTarget[s]]] = s
             /\ lPc'[s] = "wait" =>
                  lockOf'[SignalTarget[s]] \in Lock /\ In(queue'[lockOf'[SignalTarget[s]]], s)
  <2>0. lPc'[s] = lPc[s]
    BY <1>3 DEF OnlyMoves
  <2>1. CASE lPc[s] = "run"
    BY <1>2, <1>3, <2>0, <2>1 DEF LocksInv, RunnerHolds, OnlyMoves, Active
  <2>2. CASE lPc[s] = "wait"
    BY <1>2, <1>3, <2>0, <2>2 DEF LocksInv, WaiterQueues, OnlyMoves, Active
  <2> QED BY <2>0, <2>1, <2>2
<1>4. ASSUME NEW s \in Signal, s # t, NEW o \in Lock, In(queue'[o], s)
      PROVE  lockOf'[SignalTarget[s]] = o
  <2>1. In(queue[o], s)
    BY <1>3, <1>4 DEF OnlyMoves
  <2>2. lockOf[SignalTarget[s]] = o
    BY <2>1 DEF LocksInv, WaiterQueues
  <2>3. queue'[o] # <<>>
    BY <1>1, <1>4
  <2> QED BY <2>2, <2>3 DEF OnlyMoves
<1>5. ASSUME NEW m \in Manual, m # t, lPc'[m] \in Active, NEW i \in 1 .. plan'[m].got,
             plan'[m].locks[i] # NoLock
      PROVE  holder'[plan'[m].locks[i]] = m
  <2>1. plan'[m] = plan[m] /\ lPc[m] \in Active
    BY <1>5 DEF OnlyMoves
  <2>2. holder[plan[m].locks[i]] = m
    BY <1>5, <2>1 DEF LocksInv, CloseHolds
  <2>3. plan[m].locks[i] \in Lock
    BY <1>5, <2>1, PlanTypes
  <2> QED BY <1>5, <2>1, <2>2, <2>3 DEF OnlyMoves
<1> QED BY <1>2, <1>3, <1>4, <1>5

\* A step of a signal, given where it stands then.
LEMMA SignalMoves ==
    ASSUME LocksInv, Locks!TypeOK', NEW s \in Signal, OnlyMoves(s),
           lPc'[s] = "run" => lockOf'[SignalTarget[s]] \in Lock /\ holder'[lockOf'[SignalTarget[s]]] = s,
           lPc'[s] = "wait" =>
             lockOf'[SignalTarget[s]] \in Lock /\ In(queue'[lockOf'[SignalTarget[s]]], s),
           \A o \in Lock : In(queue'[o], s) => lockOf'[SignalTarget[s]] = o,
           lPc'[s] # "idle",
           lPc'[s] \in Active /\ lPc[s] # "idle" =>
             lPc[s] \in Active /\ lockOf'[SignalTarget[s]] = lockOf[SignalTarget[s]]
    PROVE  LocksInv'
<1> USE LocksConstants
<1>1. RunnerHolds' /\ WaiterQueues'
  BY OthersKeep DEF RunnerHolds, WaiterQueues
<1>2. \A m \in Manual :
        m # s /\ lPc'[m] = lPc[m] /\ plan'[m] = plan[m] /\ announced'[m] = announced[m]
  BY DEF OnlyMoves
<1>3. CloseHolds'
  BY <1>2, OthersKeep DEF CloseHolds, LocksInv
<1>4. ASSUME NEW m \in Manual, NEW u \in announced'[m]
      PROVE  /\ lPc'[u] # "idle"
             /\ lPc'[m] \in Active /\ lPc'[u] \in Active =>
                  \E i \in Locks!Place :
                     KeyOrder[i] = SignalTarget[u] /\ plan'[m].locks[i] = lockOf'[SignalTarget[u]]
  <2>1. u \in Signal /\ u \in announced[m]
    BY <1>2, <1>4 DEF LocksInv, Locks!TypeOK
  <2>2. lPc[u] # "idle"
    BY <2>1 DEF LocksInv, PlanCovers
  <2>3. lPc'[u] # "idle" /\ (lPc'[u] \in Active =>
          lPc[u] \in Active /\ lockOf'[SignalTarget[u]] = lockOf[SignalTarget[u]])
    <3>1. CASE u = s
      BY <2>2, <3>1
    <3>2. CASE u # s
      BY <2>1, <2>2, <3>2, OthersKeep DEF OnlyMoves
    <3> QED BY <3>1, <3>2
  <2> QED BY <1>2, <2>1, <2>3 DEF LocksInv, PlanCovers
<1>5. PlanCovers'
  BY <1>4 DEF PlanCovers
<1> QED BY <1>1, <1>3, <1>5 DEF LocksInv

\* A step of a close, given what it holds then.
LEMMA CloseMoves ==
    ASSUME LocksInv, Locks!TypeOK', NEW m \in Manual, OnlyMoves(m),
           lPc'[m] \in Active =>
             /\ \A i \in 1 .. plan'[m].got :
                  plan'[m].locks[i] # NoLock => holder'[plan'[m].locks[i]] = m
             /\ lPc'[m] = "wait" =>
                  /\ plan'[m].got + 1 \in Locks!Place
                  /\ plan'[m].locks[plan'[m].got + 1] \in Lock
             /\ lPc'[m] = "run" => plan'[m].got = Len(KeyOrder),
           \A s \in announced'[m] :
             /\ lPc[s] # "idle"
             /\ lPc'[m] \in Active /\ lPc[s] \in Active =>
                  \E i \in Locks!Place :
                     KeyOrder[i] = SignalTarget[s] /\ plan'[m].locks[i] = lockOf'[SignalTarget[s]]
    PROVE  LocksInv'
<1> USE LocksConstants
<1>0. \A s \in Signal : s # m /\ s \in Locks!Task /\ lPc'[s] = lPc[s]
  BY DEF OnlyMoves
<1>1. RunnerHolds' /\ WaiterQueues'
  BY <1>0, OthersKeep DEF RunnerHolds, WaiterQueues
<1>2. \A n \in Manual : n # m =>
        lPc'[n] = lPc[n] /\ plan'[n] = plan[n] /\ announced'[n] = announced[n]
  BY DEF OnlyMoves
<1>3. CloseHolds'
  <2> SUFFICES ASSUME NEW n \in Manual, lPc'[n] \in Active
               PROVE  /\ \A i \in 1 .. plan'[n].got :
                           plan'[n].locks[i] # NoLock => holder'[plan'[n].locks[i]] = n
                      /\ lPc'[n] = "wait" =>
                           /\ plan'[n].got + 1 \in Locks!Place
                           /\ plan'[n].locks[plan'[n].got + 1] \in Lock
                      /\ lPc'[n] = "run" => plan'[n].got = Len(KeyOrder)
    BY DEF CloseHolds
  <2>1. CASE n = m
    BY <2>1
  <2>2. CASE n # m
    BY <1>2, <2>2, OthersKeep DEF CloseHolds, LocksInv
  <2> QED BY <2>1, <2>2
<1>4. ASSUME NEW n \in Manual, NEW s \in announced'[n]
      PROVE  /\ lPc'[s] # "idle"
             /\ lPc'[n] \in Active /\ lPc'[s] \in Active =>
                  \E i \in Locks!Place :
                     KeyOrder[i] = SignalTarget[s] /\ plan'[n].locks[i] = lockOf'[SignalTarget[s]]
  <2>1. s \in Signal
    BY <1>4 DEF Locks!TypeOK
  <2>2. CASE n = m
    BY <1>0, <1>4, <2>1, <2>2
  <2>3. CASE n # m
    <3>1. s \in announced[n] /\ lPc'[n] = lPc[n] /\ plan'[n] = plan[n]
      BY <1>2, <1>4, <2>3
    <3>2. lPc[s] \in Active => lockOf'[SignalTarget[s]] = lockOf[SignalTarget[s]]
      BY <1>0, <2>1, OthersKeep
    <3> QED BY <1>0, <2>1, <3>1, <3>2 DEF LocksInv, PlanCovers
  <2> QED BY <2>2, <2>3
<1>5. PlanCovers'
  BY <1>4 DEF PlanCovers
<1> QED BY <1>1, <1>3, <1>5 DEF LocksInv

-----------------------------------------------------------------------------
(* The steps                                                               *)

LEMMA LocksInit == ASSUME Locks!Init PROVE LocksInv
<1> USE LocksConstants
<1>1. [i \in Locks!Place |-> NoLock] \in [Locks!Place -> Lock \cup {NoLock}]
  OBVIOUS
<1>2. Locks!NoPlan \in [found : SUBSET Locks!Trade,
                        locks : [Locks!Place -> Lock \cup {NoLock}],
                        got : 0 .. Len(KeyOrder)]
  BY <1>1 DEF Locks!NoPlan
<1>3. <<>> \in Seq(Locks!Task)
  OBVIOUS
<1>4. Locks!TypeOK
  BY <1>2, <1>3 DEF Locks!Init, Locks!TypeOK
<1>5. \A x : \A o \in Lock : ~In(queue[o], x)
  BY DEF Locks!Init, In
<1> QED BY <1>4, <1>5 DEF Locks!Init, LocksInv, RunnerHolds, WaiterQueues, CloseHolds, PlanCovers,
          Active

\* The parts of the types.
LEMMA LocksTypes ==
    ASSUME LocksInv
    PROVE  /\ lockOf \in [Locks!LockKey -> Lock \cup {NoLock}]
           /\ holder \in [Lock -> Locks!Task \cup {NoTask}]
           /\ queue \in [Lock -> Seq(Locks!Task)]
           /\ lPc \in [Locks!Task -> {"idle", "wait", "run", "done", "closed"}]
           /\ lInflight \subseteq Hook /\ tracked \subseteq Locks!Trade
BY DEF LocksInv, Locks!TypeOK, Locks!Ended

\* A signal takes the lock of its trade if nobody holds or awaits it, or lines up.
LEMMA ArriveInv == ASSUME LocksInv, NEW s \in Signal, Locks!Arrive(s) PROVE LocksInv'
<1> USE LocksConstants
<1>0. PICK o : o = lockOf'[SignalTarget[s]]
  OBVIOUS
<1>1. /\ lPc[s] = "idle" /\ lInflight' \subseteq Hook
      /\ UNCHANGED <<tracked, plan, saw, announced>>
      /\ Locks!Fetchable({SignalTarget[s]}) /\ lockOf' = Locks!Fetch({SignalTarget[s]})
  BY LocksTypes DEF Locks!Arrive, Locks!T
<1>2. /\ lockOf' \in [Locks!LockKey -> Lock \cup {NoLock}] /\ o \in Lock
      /\ \A k \in Locks!LockKey : lockOf[k] # NoLock => lockOf'[k] = lockOf[k]
  BY <1>0, <1>1, FetchGives
<1>3. ASSUME NEW p \in Lock, In(queue[p], s) PROVE p = o
  BY <1>0, <1>2, <1>3 DEF LocksInv, WaiterQueues
<1>4. CASE Locks!Idle(o)
  <2>1. /\ holder' = [holder EXCEPT ![o] = s] /\ lPc' = [lPc EXCEPT ![s] = "run"]
        /\ queue' = queue /\ holder[o] = NoTask
    BY <1>0, <1>4 DEF Locks!Arrive, Locks!T, Locks!Idle
  <2>2. holder'[o] = s /\ lPc'[s] = "run"
    BY <1>2, <2>1, LocksTypes
  <2>3. OnlyMoves(s)
    BY <1>1, <1>2, <2>1, LocksTypes DEF OnlyMoves
  <2>4. Locks!TypeOK'
    BY <1>1, <1>2, <2>1 DEF LocksInv, Locks!TypeOK
  <2>5. \A p \in Lock : In(queue'[p], s) => lockOf'[SignalTarget[s]] = p
    BY <1>0, <1>3, <2>1
  <2> QED BY <1>0, <1>1, <1>2, <2>2, <2>3, <2>4, <2>5, SignalMoves
<1>5. CASE ~Locks!Idle(o)
  <2>1. /\ queue' = [queue EXCEPT ![o] = Append(@, s)] /\ lPc' = [lPc EXCEPT ![s] = "wait"]
        /\ holder' = holder
    BY <1>0, <1>5 DEF Locks!Arrive, Locks!T
  <2>2. /\ queue'[o] = Append(queue[o], s) /\ lPc'[s] = "wait" /\ queue[o] \in Seq(Locks!Task)
        /\ \A p \in Lock : p # o => queue'[p] = queue[p]
    BY <1>2, <2>1, LocksTypes
  <2>3. /\ queue'[o] \in Seq(Locks!Task)
        /\ \A y : In(queue'[o], y) <=> In(queue[o], y) \/ y = s
    BY <2>2, InAppend
  <2>4. OnlyMoves(s)
    BY <1>1, <1>2, <2>1, <2>2, <2>3, LocksTypes DEF OnlyMoves
  <2>5. Locks!TypeOK'
    BY <1>1, <1>2, <2>1, <2>2, <2>3 DEF LocksInv, Locks!TypeOK
  <2>6. \A p \in Lock : In(queue'[p], s) => lockOf'[SignalTarget[s]] = p
    BY <1>0, <1>3, <2>2
  <2> QED BY <1>0, <1>1, <1>2, <2>2, <2>3, <2>4, <2>5, <2>6, SignalMoves
<1> QED BY <1>4, <1>5

LEMMA WakeInv == ASSUME LocksInv, NEW s \in Signal, Locks!Wake(s) PROVE LocksInv'
<1> USE LocksConstants
<1>1. PICK o \in Lock :
        /\ Locks!MayWake(s, o) /\ holder' = [holder EXCEPT ![o] = s]
        /\ queue' = [queue EXCEPT ![o] = Tail(@)]
  BY DEF Locks!Wake
<1>2. /\ lPc[s] = "wait" /\ lPc' = [lPc EXCEPT ![s] = "run"] /\ lPc'[s] = "run"
      /\ UNCHANGED <<lockOf, lInflight, tracked, plan, saw, announced>>
  BY LocksTypes DEF Locks!Wake
<1>3. /\ holder[o] = NoTask /\ queue[o] # <<>> /\ Head(queue[o]) = s
      /\ queue[o] \in Seq(Locks!Task) /\ queue'[o] = Tail(queue[o]) /\ holder'[o] = s
      /\ \A p \in Lock : p # o => queue'[p] = queue[p] /\ holder'[p] = holder[p]
  BY <1>1, LocksTypes DEF Locks!MayWake
<1>4. /\ Tail(queue[o]) \in Seq(Locks!Task)
      /\ \A y : In(Tail(queue[o]), y) => In(queue[o], y)
      /\ \A y : y # s /\ In(queue[o], y) => In(Tail(queue[o]), y)
  BY <1>3, InTail
<1>5. In(queue[o], s)
  BY <1>3, HeadTailProperties, LenProperties DEF In
<1>6. lockOf[SignalTarget[s]] = o
  BY <1>5 DEF LocksInv, WaiterQueues
<1>7. OnlyMoves(s)
  <2>1. ASSUME NEW p \in Lock, NEW x \in Locks!Task, x # s
        PROVE  /\ holder[p] = x => holder'[p] = x
               /\ In(queue[p], x) <=> In(queue'[p], x)
    <3>1. CASE p = o
      BY <1>3, <1>4, <2>1, <3>1
    <3>2. CASE p # o
      BY <1>3, <3>2
    <3> QED BY <3>1, <3>2
  <2>2. \A x \in Locks!Task : x # s => lPc'[x] = lPc[x]
    BY <1>2, LocksTypes
  <2> QED BY <1>2, <2>1, <2>2 DEF OnlyMoves
<1>8. Locks!TypeOK'
  BY <1>1, <1>2, <1>3, <1>4 DEF LocksInv, Locks!TypeOK
<1>9. \A p \in Lock : In(queue'[p], s) => lockOf'[SignalTarget[s]] = p
  BY <1>2, <1>3, <1>4 DEF LocksInv, WaiterQueues
<1> QED BY <1>2, <1>3, <1>6, <1>7, <1>8, <1>9, SignalMoves DEF Active

LEMMA ReturnInv == ASSUME LocksInv, NEW s \in Signal, Locks!Return(s) PROVE LocksInv'
<1> USE LocksConstants
<1>1. /\ lPc[s] = "run" /\ lPc' = [lPc EXCEPT ![s] = "done"] /\ lPc'[s] = "done"
      /\ holder' = [o \in Lock |-> IF holder[o] = s THEN NoTask ELSE holder[o]]
      /\ UNCHANGED <<queue, plan, saw, announced>>
      /\ lInflight' \subseteq lInflight
  BY LocksTypes DEF Locks!Return
<1>2. tracked' \subseteq Locks!Trade
  BY LocksTypes DEF Locks!Return, Locks!Result, Locks!T
<1>3. lockOf' = Locks!Drop({SignalTarget[s]}, holder', queue) \/ lockOf' = lockOf
  BY DEF Locks!Return, Locks!T
<1>4. /\ lockOf' \in [Locks!LockKey -> Lock \cup {NoLock}]
      /\ \A k \in Locks!LockKey :
           \/ lockOf'[k] = lockOf[k]
           \/ lockOf'[k] = NoLock /\ lockOf[k] \in Lock
              /\ holder'[lockOf[k]] = NoTask /\ queue'[lockOf[k]] = <<>>
  BY <1>1, <1>3, DropKeeps, LocksTypes
<1>5. OnlyMoves(s)
  BY <1>1, <1>4, LocksTypes DEF OnlyMoves
<1>6. Locks!TypeOK'
  BY <1>1, <1>2, <1>4, LocksTypes DEF LocksInv, Locks!TypeOK, Locks!Ended
<1>7. ASSUME NEW p \in Lock, In(queue'[p], s) PROVE lockOf'[SignalTarget[s]] = p
  <2>1. lockOf[SignalTarget[s]] = p /\ queue'[p] # <<>>
    BY <1>1, <1>7 DEF LocksInv, WaiterQueues, In
  <2> QED BY <1>4, <2>1
<1> QED BY <1>1, <1>5, <1>6, <1>7, SignalMoves DEF Active

LEMMA RaiseInv == ASSUME LocksInv, NEW s \in Signal, Locks!Raise(s) PROVE LocksInv'
<1> USE LocksConstants
<1>1. /\ lPc' = [lPc EXCEPT ![s] = "done"] /\ lPc'[s] = "done"
      /\ holder' = [o \in Lock |-> IF holder[o] = s THEN NoTask ELSE holder[o]]
      /\ queue' = [o \in Lock |-> Locks!Without(queue[o], s)]
      /\ UNCHANGED <<lockOf, tracked, plan, saw, announced>>
      /\ lInflight' \subseteq lInflight
  BY LocksTypes DEF Locks!Raise
<1>2. ASSUME NEW o \in Lock
      PROVE  /\ queue'[o] \in Seq(Locks!Task)
             /\ \A y : In(queue'[o], y) => In(queue[o], y)
             /\ \A y : y # s /\ In(queue[o], y) => In(queue'[o], y)
  <2>1. queue[o] \in Seq(Locks!Task) /\ queue'[o] = Locks!Without(queue[o], s)
    BY <1>1, LocksTypes
  <2> QED BY <2>1, InWithout
<1>3. OnlyMoves(s)
  BY <1>1, <1>2, LocksTypes DEF OnlyMoves
<1>4. queue' \in [Lock -> Seq(Locks!Task)]
  BY <1>1, <1>2
<1>5. Locks!TypeOK'
  BY <1>1, <1>4, LocksTypes DEF LocksInv, Locks!TypeOK, Locks!Ended
<1>6. \A p \in Lock : In(queue'[p], s) => lockOf'[SignalTarget[s]] = p
  BY <1>1, <1>2 DEF LocksInv, WaiterQueues
<1> QED BY <1>1, <1>3, <1>5, <1>6, SignalMoves DEF Active

\* Acquiring goes on from a place to the first lock that is held or awaited: what lies
\* before it is taken, and nothing is taken from anybody.
LEMMA AcquireGives ==
    ASSUME LocksInv, NEW m \in Manual, NEW locks \in [Locks!Place -> Lock \cup {NoLock}],
           NEW i \in 1 .. Len(KeyOrder) + 1, NEW h \in [Lock -> Locks!Task \cup {NoTask}],
           NEW a, a = Locks!Acquire(m, locks, i, h)
    PROVE  /\ a.holder \in [Lock -> Locks!Task \cup {NoTask}]
           /\ \A o \in Lock : h[o] # NoTask => a.holder[o] = h[o]
           /\ a.got \in 0 .. Len(KeyOrder)
           /\ \A j \in i .. a.got : locks[j] # NoLock => a.holder[locks[j]] = m
           /\ \A o \in Lock : a.holder[o] = h[o] \/ a.holder[o] = m
           /\ a.wait \in BOOLEAN
           /\ a.wait => /\ a.got + 1 \in Locks!Place /\ locks[a.got + 1] \in Lock
                        /\ a.at = locks[a.got + 1]
           /\ ~a.wait => a.got = Len(KeyOrder) /\ a.at = NoLock
<1> USE LocksConstants
<1> DEFINE busy == {j \in Locks!Place : /\ j >= i /\ locks[j] # NoLock
                                        /\ h[locks[j]] # NoTask \/ queue[locks[j]] # <<>>}
<1>1. PICK stop : stop = IF busy = {} THEN Len(KeyOrder) + 1
                         ELSE CHOOSE j \in busy : \A l \in busy : j <= l
  OBVIOUS
<1> DEFINE mine == {locks[j] : j \in i .. (stop - 1)}
<1>2. a = [holder |-> [o \in Lock |-> IF o \in mine THEN m ELSE h[o]],
           wait |-> busy # {},
           at |-> IF busy # {} THEN locks[stop] ELSE NoLock,
           got |-> stop - 1]
  BY <1>1 DEF Locks!Acquire
<1>3. /\ stop \in i .. Len(KeyOrder) + 1
      /\ \A j \in i .. (stop - 1) : j \in Locks!Place /\ j \notin busy
      /\ busy # {} => stop \in busy
  <2>1. CASE busy = {}
    <3>1. stop = Len(KeyOrder) + 1
      BY <1>1, <2>1
    <3>2. \A j \in i .. (stop - 1) : j \in Locks!Place
      BY <3>1
    <3>3. stop \in i .. Len(KeyOrder) + 1
      BY <3>1
    <3> QED BY <2>1, <3>2, <3>3
  <2>2. CASE busy # {}
    <3>1. busy \subseteq Nat
      OBVIOUS
    <3>2. \E j \in busy : \A l \in busy : j <= l
      <4> HIDE DEF busy
      <4> QED BY <2>2, <3>1, FirstPlace
    <3>3. stop = CHOOSE j \in busy : \A l \in busy : j <= l
      BY <1>1, <2>2
    <3>4. stop \in busy /\ \A l \in busy : stop <= l
      <4> HIDE DEF busy
      <4> QED BY <3>2, <3>3
    <3>5. stop \in Locks!Place /\ stop >= i
      BY <3>4
    <3>6. ASSUME NEW j \in i .. (stop - 1) PROVE j \in Locks!Place /\ j \notin busy
      <4>1. j \in Locks!Place /\ ~(stop <= j)
        BY <3>5
      <4> HIDE DEF busy
      <4> QED BY <3>4, <4>1
    <3>7. stop \in i .. Len(KeyOrder) + 1
      BY <3>5
    <3> HIDE DEF busy
    <3> QED BY <3>4, <3>6, <3>7
  <2> QED BY <2>1, <2>2
<1>4. \A j \in i .. (stop - 1) : locks[j] # NoLock => locks[j] \in Lock /\ h[locks[j]] = NoTask
  BY <1>3
<1>5. busy # {} => stop \in Locks!Place /\ locks[stop] \in Lock
  BY <1>3
<1> HIDE DEF busy
<1>6. /\ a.holder = [o \in Lock |-> IF o \in mine THEN m ELSE h[o]]
      /\ a.wait = (busy # {})
      /\ a.at = (IF busy # {} THEN locks[stop] ELSE NoLock)
      /\ a.got = stop - 1
  BY <1>2
<1>7. \A o \in Lock : o \in mine => h[o] = NoTask
  BY <1>4
<1>8. \A j \in i .. a.got : locks[j] # NoLock => a.holder[locks[j]] = m
  BY <1>4, <1>6
<1>9. a.got \in 0 .. Len(KeyOrder) /\ a.got + 1 = stop
  BY <1>3, <1>6
<1>10. a.wait \in BOOLEAN
  BY <1>6, Zenon
<1>11. a.wait <=> busy # {}
  BY <1>6, Zenon
<1>12. busy = {} => stop = Len(KeyOrder) + 1
  BY <1>1
<1>13. ~a.wait => a.got = Len(KeyOrder) /\ a.at = NoLock
  BY <1>6, <1>11, <1>12
<1>14. a.wait => /\ a.got + 1 \in Locks!Place /\ locks[a.got + 1] \in Lock
                 /\ a.at = locks[a.got + 1]
  BY <1>5, <1>6, <1>9, <1>11
<1>15. /\ a.holder \in [Lock -> Locks!Task \cup {NoTask}]
       /\ \A o \in Lock : h[o] # NoTask => a.holder[o] = h[o]
       /\ \A o \in Lock : a.holder[o] = h[o] \/ a.holder[o] = m
  <2> HIDE DEF mine
  <2> QED BY <1>6, <1>7
<1> QED BY <1>8, <1>9, <1>10, <1>13, <1>14, <1>15

\* A close begins: the locks of the signals it knows of are in its plan.
LEMMA CloseInv == ASSUME LocksInv, NEW m \in Manual, Locks!Close(m) PROVE LocksInv'
<1> USE LocksConstants
<1>1. PICK objs : objs = Locks!Fetch(Locks!LockSet)
  OBVIOUS
<1>2. PICK locks : locks = [i \in Locks!Place |->
                              IF KeyOrder[i] \in Locks!LockSet THEN objs[KeyOrder[i]] ELSE NoLock]
  OBVIOUS
<1>3. PICK a : a = Locks!Acquire(m, locks, 1, holder)
  OBVIOUS
<1>4. /\ lPc[m] = "idle" /\ Locks!Fetchable(Locks!LockSet)
      /\ lockOf' = objs /\ holder' = a.holder
      /\ queue' = [o \in Lock |-> IF o = a.at THEN Append(queue[o], m) ELSE queue[o]]
      /\ lPc' = [lPc EXCEPT ![m] = IF a.wait THEN "wait" ELSE "run"]
      /\ plan' = [plan EXCEPT ![m] = [found |-> tracked, locks |-> locks, got |-> a.got]]
      /\ saw' = [saw EXCEPT ![m] = {s \in Signal : lPc[s] \in {"wait", "run"}}]
      /\ announced' = [announced EXCEPT
                        ![m] = {s \in saw'[m] : Locks!T(s) \in tracked \cup lInflight}]
      /\ UNCHANGED <<lInflight, tracked>>
  BY <1>1, <1>2, <1>3 DEF Locks!Close
<1>5. Locks!LockSet \subseteq Locks!LockKey
  BY LocksTypes DEF Locks!LockSet, Locks!LockKey, Locks!Trade
<1>6. /\ objs \in [Locks!LockKey -> Lock \cup {NoLock}]
      /\ \A k \in Locks!LockSet : objs[k] \in Lock
      /\ \A k \in Locks!LockKey : lockOf[k] # NoLock => objs[k] = lockOf[k]
  BY <1>1, <1>4, <1>5, FetchGives
<1>7. locks \in [Locks!Place -> Lock \cup {NoLock}]
  BY <1>2, <1>6
<1>8. /\ a.holder \in [Lock -> Locks!Task \cup {NoTask}]
      /\ \A o \in Lock : holder[o] # NoTask => a.holder[o] = holder[o]
      /\ a.got \in 0 .. Len(KeyOrder)
      /\ \A j \in 1 .. a.got : locks[j] # NoLock => a.holder[locks[j]] = m
      /\ a.wait \in BOOLEAN
      /\ a.wait => a.got + 1 \in Locks!Place /\ locks[a.got + 1] \in Lock
      /\ ~a.wait => a.got = Len(KeyOrder)
  <2>1. 1 \in 1 .. Len(KeyOrder) + 1 /\ holder \in [Lock -> Locks!Task \cup {NoTask}]
    BY LocksTypes
  <2> QED BY <1>3, <1>7, <2>1, AcquireGives
<1>9. ASSUME NEW o \in Lock
      PROVE  /\ queue'[o] \in Seq(Locks!Task)
             /\ \A y : y # m => (In(queue'[o], y) <=> In(queue[o], y))
  <2>1. queue[o] \in Seq(Locks!Task)
    BY LocksTypes
  <2>2. CASE queue'[o] = Append(queue[o], m)
    BY <2>1, <2>2, InAppend
  <2>3. CASE queue'[o] = queue[o]
    BY <2>1, <2>3
  <2> QED BY <1>4, <2>2, <2>3
<1>10. queue' \in [Lock -> Seq(Locks!Task)]
  BY <1>4, <1>9
<1>11. OnlyMoves(m)
  <2>1. \A k \in Locks!LockKey : lockOf'[k] = lockOf[k] \/ lockOf[k] = NoLock
    BY <1>4, <1>6
  <2>2. \A o \in Lock, x \in Locks!Task : holder[o] = x => holder'[o] = x
    BY <1>4, <1>8
  <2>3. \A x \in Locks!Task : x # m => lPc'[x] = lPc[x]
    BY <1>4, LocksTypes
  <2>4. \A n \in Manual : n # m => plan'[n] = plan[n] /\ announced'[n] = announced[n]
    BY <1>4 DEF LocksInv, Locks!TypeOK
  <2> QED BY <1>9, <2>1, <2>2, <2>3, <2>4 DEF OnlyMoves
<1>12. /\ lPc'[m] = (IF a.wait THEN "wait" ELSE "run")
       /\ plan'[m] = [found |-> tracked, locks |-> locks, got |-> a.got]
       /\ saw'[m] = {s \in Signal : lPc[s] \in {"wait", "run"}}
       /\ announced'[m] = {s \in saw'[m] : Locks!T(s) \in tracked \cup lInflight}
  BY <1>4, LocksTypes DEF LocksInv, Locks!TypeOK
<1>13. Locks!TypeOK'
  <2>1. [found |-> tracked, locks |-> locks, got |-> a.got] \in
          [found : SUBSET Locks!Trade,
                           locks : [Locks!Place -> Lock \cup {NoLock}],
           got : 0 .. Len(KeyOrder)]
    BY <1>7, <1>8, LocksTypes
  <2>2. plan' \in [Manual -> [found : SUBSET Locks!Trade,
                              locks : [Locks!Place -> Lock \cup {NoLock}],
                              got : 0 .. Len(KeyOrder)]]
    BY <1>4, <2>1 DEF LocksInv, Locks!TypeOK
  <2>3. saw' \in [Manual -> SUBSET Signal]
    BY <1>4 DEF LocksInv, Locks!TypeOK
  <2>4. announced' \in [Manual -> SUBSET Signal]
    <3>1. announced'[m] \subseteq Signal
      BY <1>12
    <3> QED BY <1>4, <1>12, <3>1 DEF LocksInv, Locks!TypeOK
  <2>5. lPc' \in [Locks!Task -> {"idle", "wait", "run", "done", "closed"}]
    BY <1>4, LocksTypes
  <2> QED BY <1>4, <1>6, <1>8, <1>10, <2>2, <2>3, <2>4, <2>5, LocksTypes
          DEF Locks!TypeOK, Locks!Ended
<1>14. ASSUME NEW s \in announced'[m]
       PROVE  /\ lPc[s] # "idle"
              /\ \E i \in Locks!Place :
                   KeyOrder[i] = SignalTarget[s] /\ plan'[m].locks[i] = lockOf'[SignalTarget[s]]
  <2>1. s \in Signal /\ lPc[s] \in {"wait", "run"} /\ SignalTarget[s] \in tracked \cup lInflight
    BY <1>12 DEF Locks!T
  <2>2. SignalTarget[s] \in Locks!LockSet
    BY <2>1 DEF Locks!LockSet
  <2>3. PICK i \in Locks!Place : KeyOrder[i] = SignalTarget[s]
    BY <2>1
  <2>4. locks[i] = objs[SignalTarget[s]]
    BY <1>2, <2>2, <2>3
  <2> QED BY <1>4, <1>12, <2>1, <2>3, <2>4
<1>15. /\ plan'[m].got = a.got /\ plan'[m].locks = locks
       /\ lPc'[m] = "wait" => a.wait
       /\ lPc'[m] = "run" => ~a.wait
  BY <1>8, <1>12
<1> QED BY <1>4, <1>8, <1>11, <1>13, <1>14, <1>15, CloseMoves

LEMMA ResumeLocksInv == ASSUME LocksInv, NEW m \in Manual, Locks!Resume(m) PROVE LocksInv'
<1> USE LocksConstants
<1>1. PICK o : o = plan[m].locks[plan[m].got + 1]
  OBVIOUS
<1>2. PICK h : h = [holder EXCEPT ![o] = m]
  OBVIOUS
<1>3. PICK a : a = Locks!Acquire(m, plan[m].locks, plan[m].got + 2, h)
  OBVIOUS
<1>4. /\ lPc[m] = "wait" /\ Locks!MayWake(m, o)
      /\ holder' = a.holder
      /\ queue' = [x \in Lock |-> IF x = o THEN Tail(queue[x])
                                  ELSE IF x = a.at THEN Append(queue[x], m) ELSE queue[x]]
      /\ lPc' = [lPc EXCEPT ![m] = IF a.wait THEN "wait" ELSE "run"]
      /\ plan' = [plan EXCEPT ![m].got = a.got]
      /\ UNCHANGED <<lockOf, lInflight, tracked, saw, announced>>
  BY <1>1, <1>2, <1>3 DEF Locks!Resume
<1>5. /\ o \in Lock /\ plan[m].got + 1 \in Locks!Place
      /\ \A i \in 1 .. plan[m].got : plan[m].locks[i] # NoLock => holder[plan[m].locks[i]] = m
  BY <1>1, <1>4 DEF LocksInv, CloseHolds, Active
<1>6. /\ holder[o] = NoTask /\ queue[o] # <<>> /\ Head(queue[o]) = m
      /\ h \in [Lock -> Locks!Task \cup {NoTask}] /\ h[o] = m
      /\ \A p \in Lock : p # o => h[p] = holder[p]
  BY <1>2, <1>4, <1>5, LocksTypes DEF Locks!MayWake
<1>7. /\ plan[m].locks \in [Locks!Place -> Lock \cup {NoLock}] /\ plan[m].got \in Nat
      /\ plan[m].got + 2 \in 1 .. Len(KeyOrder) + 1
  <2>1. plan[m].locks \in [Locks!Place -> Lock \cup {NoLock}] /\ plan[m].got \in Nat
    BY PlanTypes
  <2> QED BY <1>5, <2>1
<1>8. /\ a.holder \in [Lock -> Locks!Task \cup {NoTask}]
      /\ \A p \in Lock : h[p] # NoTask => a.holder[p] = h[p]
      /\ a.got \in 0 .. Len(KeyOrder)
      /\ \A j \in plan[m].got + 2 .. a.got :
           plan[m].locks[j] # NoLock => a.holder[plan[m].locks[j]] = m
      /\ a.wait \in BOOLEAN
      /\ a.wait => a.got + 1 \in Locks!Place /\ plan[m].locks[a.got + 1] \in Lock
      /\ ~a.wait => a.got = Len(KeyOrder)
  <2>1. PICK locks \in [Locks!Place -> Lock \cup {NoLock}] : locks = plan[m].locks
    BY <1>7
  <2>2. PICK n \in 1 .. Len(KeyOrder) + 1 : n = plan[m].got + 2
    BY <1>7
  <2>3. a = Locks!Acquire(m, locks, n, h)
    BY <1>3, <2>1, <2>2
  <2>4. /\ a.holder \in [Lock -> Locks!Task \cup {NoTask}]
        /\ \A p \in Lock : h[p] # NoTask => a.holder[p] = h[p]
        /\ a.got \in 0 .. Len(KeyOrder)
        /\ \A j \in n .. a.got : locks[j] # NoLock => a.holder[locks[j]] = m
        /\ a.wait \in BOOLEAN
        /\ a.wait => a.got + 1 \in Locks!Place /\ locks[a.got + 1] \in Lock
        /\ ~a.wait => a.got = Len(KeyOrder)
    BY <1>6, <2>3, AcquireGives
  <2> QED BY <2>1, <2>2, <2>4
<1>9. ASSUME NEW p \in Lock
      PROVE  /\ queue'[p] \in Seq(Locks!Task)
             /\ \A y : y # m => (In(queue'[p], y) <=> In(queue[p], y))
  <2>1. queue[p] \in Seq(Locks!Task)
    BY LocksTypes
  <2>2. CASE p = o
    <3>1. queue'[p] = Tail(queue[p]) /\ queue[p] # <<>> /\ Head(queue[p]) = m
      BY <1>4, <1>6, <2>2
    <3> QED BY <2>1, <3>1, InTail
  <2>3. CASE p # o
    <3>1. CASE queue'[p] = Append(queue[p], m)
      BY <2>1, <3>1, InAppend
    <3>2. CASE queue'[p] = queue[p]
      BY <2>1, <3>2
    <3> QED BY <1>4, <2>3, <3>1, <3>2
  <2> QED BY <2>2, <2>3
<1>10. queue' \in [Lock -> Seq(Locks!Task)]
  BY <1>4, <1>9
<1>11. /\ plan'[m].got = a.got /\ plan'[m].locks = plan[m].locks
       /\ plan' \in [Manual -> [found : SUBSET Locks!Trade,
                                locks : [Locks!Place -> Lock \cup {NoLock}],
                                got : 0 .. Len(KeyOrder)]]
       /\ \A n \in Manual : n # m => plan'[n] = plan[n]
  <2>1. plan[m] \in [found : SUBSET Locks!Trade,
                           locks : [Locks!Place -> Lock \cup {NoLock}],
                     got : 0 .. Len(KeyOrder)]
    BY PlanTypes
  <2>2. PICK q : q = [plan[m] EXCEPT !.got = a.got]
    OBVIOUS
  <2>3. /\ q \in [found : SUBSET Locks!Trade,
                           locks : [Locks!Place -> Lock \cup {NoLock}],
                  got : 0 .. Len(KeyOrder)]
        /\ q.got = a.got /\ q.locks = plan[m].locks
    BY <1>8, <2>1, <2>2
  <2>4. plan' = [plan EXCEPT ![m] = q]
    BY <1>4, <2>2
  <2> QED BY <2>3, <2>4 DEF LocksInv, Locks!TypeOK
<1>12. OnlyMoves(m)
  <2>1. \A p \in Lock, x \in Locks!Task : holder[p] = x => holder'[p] = x
    BY <1>4, <1>6, <1>8
  <2>2. \A x \in Locks!Task : x # m => lPc'[x] = lPc[x]
    BY <1>4, LocksTypes
  <2>3. \A p \in Lock, x \in Locks!Task : x # m =>
          /\ holder[p] = x => holder'[p] = x
          /\ In(queue[p], x) <=> In(queue'[p], x)
    BY <1>9, <2>1
  <2>4. \A n \in Manual : n # m => plan'[n] = plan[n] /\ announced'[n] = announced[n]
    BY <1>4, <1>11
  <2>5. \A k \in Locks!LockKey : lockOf'[k] = lockOf[k]
    BY <1>4
  <2> QED BY <2>2, <2>3, <2>4, <2>5 DEF OnlyMoves
<1>13. Locks!TypeOK'
  <2>1. lPc' \in [Locks!Task -> {"idle", "wait", "run", "done", "closed"}]
    BY <1>4, LocksTypes
  <2> QED BY <1>4, <1>8, <1>10, <1>11, <2>1 DEF LocksInv, Locks!TypeOK, Locks!Ended
<1>14. /\ lPc'[m] = "wait" => a.wait
       /\ lPc'[m] = "run" => ~a.wait
  BY <1>4, <1>8, LocksTypes
<1>15. ASSUME NEW i \in 1 .. a.got, plan[m].locks[i] # NoLock
       PROVE  holder'[plan[m].locks[i]] = m
  <2>1. CASE i <= plan[m].got
    <3>1. holder[plan[m].locks[i]] = m /\ plan[m].locks[i] \in Lock
      BY <1>5, <1>7, <1>15, <2>1, PlanTypes
    <3> QED BY <1>4, <1>6, <1>8, <3>1
  <2>2. CASE i = plan[m].got + 1
    BY <1>1, <1>4, <1>6, <1>8, <1>5, <2>2
  <2>3. CASE i > plan[m].got + 1
    <3>1. i \in plan[m].got + 2 .. a.got
      BY <1>7, <1>8, <2>3
    <3> QED BY <1>4, <1>8, <1>15, <3>1
  <2> QED BY <1>7, <2>1, <2>2, <2>3
<1>16. ASSUME NEW s \in announced'[m]
       PROVE  /\ lPc[s] # "idle"
              /\ lPc[s] \in Active =>
                   \E i \in Locks!Place :
                     KeyOrder[i] = SignalTarget[s] /\ plan'[m].locks[i] = lockOf'[SignalTarget[s]]
  BY <1>4, <1>11, <1>16 DEF LocksInv, PlanCovers, Active
<1>17. /\ \A i \in 1 .. plan'[m].got :
            plan'[m].locks[i] # NoLock => holder'[plan'[m].locks[i]] = m
       /\ lPc'[m] = "wait" =>
            plan'[m].got + 1 \in Locks!Place /\ plan'[m].locks[plan'[m].got + 1] \in Lock
       /\ lPc'[m] = "run" => plan'[m].got = Len(KeyOrder)
  BY <1>8, <1>11, <1>14, <1>15
<1> QED BY <1>12, <1>13, <1>16, <1>17, CloseMoves

\* However a close ends, it lets go of its locks, and the registry is cleaned of those
\* nobody holds or awaits.
LEMMA LetGoInv ==
    ASSUME LocksInv, NEW m \in Manual, NEW end \in {"closed", "done"}, Locks!LetGo(m, end),
           lInflight' = lInflight, tracked' \subseteq tracked
    PROVE  LocksInv'
<1> USE LocksConstants
<1>1. /\ holder' = [o \in Lock |-> IF holder[o] = m THEN NoTask ELSE holder[o]]
      /\ queue' = [o \in Lock |-> Locks!Without(queue[o], m)]
      /\ lockOf' = Locks!Drop(Locks!Keys(m), holder', queue')
      /\ lPc' = [lPc EXCEPT ![m] = end] /\ lPc'[m] = end
      /\ plan' = [plan EXCEPT ![m] = Locks!NoPlan]
      /\ saw' = [saw EXCEPT ![m] = {}]
      /\ announced' = [announced EXCEPT ![m] = {}]
  BY LocksTypes DEF Locks!LetGo
<1>2. ASSUME NEW o \in Lock
      PROVE  /\ queue'[o] \in Seq(Locks!Task)
             /\ \A y : y # m => (In(queue'[o], y) <=> In(queue[o], y))
  <2>1. queue[o] \in Seq(Locks!Task) /\ queue'[o] = Locks!Without(queue[o], m)
    BY <1>1, LocksTypes
  <2> QED BY <2>1, InWithout
<1>3. queue' \in [Lock -> Seq(Locks!Task)]
  BY <1>1, <1>2
<1>4. /\ lockOf' \in [Locks!LockKey -> Lock \cup {NoLock}]
      /\ \A k \in Locks!LockKey :
           \/ lockOf'[k] = lockOf[k]
           \/ holder'[lockOf[k]] = NoTask /\ queue'[lockOf[k]] = <<>>
  BY <1>1, DropKeeps
<1>5. /\ plan' \in [Manual -> [found : SUBSET Locks!Trade,
                               locks : [Locks!Place -> Lock \cup {NoLock}],
                               got : 0 .. Len(KeyOrder)]]
      /\ \A n \in Manual : n # m => plan'[n] = plan[n] /\ announced'[n] = announced[n]
  <2>1. [i \in Locks!Place |-> NoLock] \in [Locks!Place -> Lock \cup {NoLock}]
    OBVIOUS
  <2>2. Locks!NoPlan \in [found : SUBSET Locks!Trade,
                           locks : [Locks!Place -> Lock \cup {NoLock}],
                          got : 0 .. Len(KeyOrder)]
    BY <2>1 DEF Locks!NoPlan
  <2> QED BY <1>1, <2>2 DEF LocksInv, Locks!TypeOK
<1>6. OnlyMoves(m)
  <2>1. \A o \in Lock, x \in Locks!Task : x # m /\ holder[o] = x => holder'[o] = x
    BY <1>1
  <2>2. \A x \in Locks!Task : x # m => lPc'[x] = lPc[x]
    BY <1>1, LocksTypes
  <2>3. \A o \in Lock, x \in Locks!Task : x # m =>
          /\ holder[o] = x => holder'[o] = x
          /\ In(queue[o], x) <=> In(queue'[o], x)
    BY <1>2, <2>1
  <2> QED BY <1>4, <1>5, <2>2, <2>3 DEF OnlyMoves
<1>7. Locks!TypeOK'
  <2>1. lPc' \in [Locks!Task -> {"idle", "wait", "run", "done", "closed"}]
    BY <1>1, LocksTypes
  <2>2. holder' \in [Lock -> Locks!Task \cup {NoTask}]
    BY <1>1, LocksTypes
  <2>3. saw' \in [Manual -> SUBSET Signal] /\ announced' \in [Manual -> SUBSET Signal]
    BY <1>1 DEF LocksInv, Locks!TypeOK
  <2> QED BY <1>3, <1>4, <1>5, <2>1, <2>2, <2>3, LocksTypes DEF Locks!TypeOK, Locks!Ended
<1>8. announced'[m] = {} /\ lPc'[m] \notin Active
  BY <1>1 DEF LocksInv, Locks!TypeOK, Active
<1> QED BY <1>6, <1>7, <1>8, CloseMoves

LEMMA LocksStep == ASSUME LocksInv, Locks!Next PROVE LocksInv'
<1>1. ASSUME NEW s \in Signal, Locks!Arrive(s) \/ Locks!Run(s) \/ Locks!Raise(s) PROVE LocksInv'
  BY <1>1, ArriveInv, WakeInv, ReturnInv, RaiseInv DEF Locks!Run
<1>2. ASSUME NEW m \in Manual, Locks!Close(m) \/ Locks!Work(m) \/ Locks!Aborted(m)
      PROVE  LocksInv'
  <2>1. CASE Locks!Closed(m)
    BY <2>1, LetGoInv DEF Locks!Closed
  <2>2. CASE Locks!Aborted(m)
    BY <2>2, LetGoInv DEF Locks!Aborted
  <2> QED BY <1>2, <2>1, <2>2, CloseInv, ResumeLocksInv DEF Locks!Work
<1>3. CASE UNCHANGED Locks!vars
  BY <1>3 DEF Locks!vars, LocksInv, Locks!TypeOK, RunnerHolds, WaiterQueues, CloseHolds, PlanCovers
<1> QED BY <1>1, <1>2, <1>3 DEF Locks!Next

LEMMA LocksStutter == ASSUME LocksInv, UNCHANGED LocksVars PROVE LocksInv'
BY DEF LocksVars, LocksInv, Locks!TypeOK, RunnerHolds, WaiterQueues, CloseHolds, PlanCovers

\* Two signals of a trade would hold its lock both; a close and a signal it had to wait
\* for would as well.
LEMMA LocksSafe ==
    ASSUME LocksInv
    PROVE  Locks!TypeOK /\ Locks!SignalsExclusive /\ Locks!KnownSignalsEnd
<1> USE LocksConstants
<1>1. Locks!TypeOK
  BY DEF LocksInv
<1>2. Locks!SignalsExclusive
  BY DEF LocksInv, RunnerHolds, Locks!SignalsExclusive, Locks!T
<1>3. ASSUME NEW m \in Manual, lPc[m] = "run", NEW s \in announced[m], lPc[s] = "run"
      PROVE  FALSE
  <2>1. s \in Signal
    BY <1>3 DEF LocksInv, Locks!TypeOK
  <2>2. PICK i \in Locks!Place :
          KeyOrder[i] = SignalTarget[s] /\ plan[m].locks[i] = lockOf[SignalTarget[s]]
    BY <1>3 DEF LocksInv, PlanCovers, Active
  <2>3. lockOf[SignalTarget[s]] \in Lock /\ holder[lockOf[SignalTarget[s]]] = s
    BY <1>3, <2>1 DEF LocksInv, RunnerHolds
  <2>4. plan[m].got = Len(KeyOrder) /\ (plan[m].locks[i] # NoLock => holder[plan[m].locks[i]] = m)
    BY <1>3, <2>2 DEF LocksInv, CloseHolds, Active
  <2> QED BY <2>1, <2>2, <2>3, <2>4
<1>4. Locks!KnownSignalsEnd
  BY <1>3 DEF Locks!KnownSignalsEnd
<1> QED BY <1>1, <1>2, <1>4
-----------------------------------------------------------------------------
(* SharedReads: what a caller gets was requested after it asked.           *)
(* The read in flight is the newest there is.  Who asks joins it only if   *)
(* it has not left; otherwise it waits until it has ended, and whatever is *)
(* in flight then is newer than what had left when it asked.  Each read a  *)
(* caller waits for beyond the second is one whose leader was cancelled.   *)

Asking == {"lead", "late", "join"}

\* One caller leads the read in flight.
OneLeader == \A c, d \in Caller : at[c] = "lead" /\ at[d] = "lead" => c = d

\* The read in flight is the last one that was begun; all others have ended.
NewestInFlight ==
    /\ sInflight # 0 => sInflight = reads
    /\ \A n \in 1 .. reads : n # sInflight => Reads!Ended(n)

\* Who waits, waits for a read; nobody knows of one that was not begun.
Known ==
    \A c \in Caller : /\ of[c] <= reads /\ asked[c] <= reads
                      /\ at[c] \in Asking => of[c] >= 1

\* Each read waited for to the end is another one.
Counted ==
    \A c \in Caller : /\ awaited[c] <= of[c]
                      /\ at[c] \in Asking => awaited[c] < of[c]

\* Who leads or joins a read asked before it left; who is late may have asked after.
AskedBefore ==
    Lists => \A c \in Caller : /\ at[c] \in {"lead", "join", "got"} => of[c] > asked[c]
                               /\ at[c] = "late" => of[c] >= asked[c]

\* The reads up to the n-th whose leader was cancelled.
Gone(f, n) == Cardinality({k \in 1 .. n : f[k] = "gone"})
Before(c) == Gone(read, of[c] - 1)

\* What a caller has waited for, by where it is.
Rounds ==
    \A c \in Caller : /\ at[c] = "idle" => awaited[c] = 0
                      /\ at[c] = "late" => awaited[c] <= Before(c)
                      /\ at[c] \in {"lead", "join"} => awaited[c] <= 1 + Before(c)

Cancelled == {c \in Caller : at[c] = "cancelled"}

\* Who was cancelled, and what went with it.
Cancels ==
    /\ IsFiniteSet(Cancelled) /\ Cardinality(Cancelled) = cancels
    /\ Gone(read, reads) <= cancels
    /\ \A c \in Caller : awaited[c] <= 2 + cancels

ReadsShape ==
    Reads!TypeOK /\ OneLeader /\ NewestInFlight /\ Known /\ Counted /\ AskedBefore
ReadsInv == ReadsShape /\ Rounds /\ Cancels

\* How many are gone is a number that grows with the bound.
LEMMA GoneNat ==
    ASSUME NEW f, NEW n \in Nat
    PROVE  IsFiniteSet({k \in 1 .. n : f[k] = "gone"}) /\ Gone(f, n) \in Nat
<1>1. IsFiniteSet(1 .. n) BY FS_Interval
<1> QED BY <1>1, FS_Subset, FS_CardinalityType DEF Gone

\* More reads have more cancelled leaders.
LEMMA GoneGrows ==
    ASSUME NEW f, NEW n \in Nat, NEW m \in Nat, n <= m
    PROVE  Gone(f, n) <= Gone(f, m)
<1>1. {k \in 1 .. n : f[k] = "gone"} \subseteq {k \in 1 .. m : f[k] = "gone"}
  OBVIOUS
<1> QED BY <1>1, GoneNat, FS_Subset DEF Gone

\* A read that is gone counts.
LEMMA GoneStep ==
    ASSUME NEW f, NEW n \in Nat, n >= 1, f[n] = "gone"
    PROVE  Gone(f, n) = 1 + Gone(f, n - 1)
<1> DEFINE S == {k \in 1 .. n - 1 : f[k] = "gone"}
<1>1. n \notin S /\ {k \in 1 .. n : f[k] = "gone"} = S \cup {n}
  OBVIOUS
<1>2. IsFiniteSet(S) /\ Cardinality(S) \in Nat
  BY GoneNat, n - 1 \in Nat DEF Gone
<1>3. Cardinality(S \cup {n}) = Cardinality(S) + 1
  BY <1>1, <1>2, FS_AddElement
<1> QED BY <1>1, <1>2, <1>3 DEF Gone

\* Only the reads up to the bound count.
LEMMA GoneSame ==
    ASSUME NEW f, NEW g, NEW n \in Nat,
           \A k \in 1 .. n : f[k] = "gone" <=> g[k] = "gone"
    PROVE  Gone(f, n) = Gone(g, n)
<1>1. {k \in 1 .. n : f[k] = "gone"} = {k \in 1 .. n : g[k] = "gone"}
  OBVIOUS
<1> QED BY <1>1 DEF Gone

\* The start.
LEMMA ReadsInit == Reads!Init => ReadsInv
<1> SUFFICES ASSUME Reads!Init PROVE ReadsInv OBVIOUS
<1> USE ReadsAssumption
<1>1. ReadsShape
  BY DEF Reads!Init, Reads!TypeOK, ReadsShape, OneLeader, NewestInFlight, Known, Counted,
    AskedBefore, Asking
<1>2. Rounds
  BY DEF Reads!Init, Rounds
<1>3. Cancelled = {}
  BY DEF Reads!Init, Cancelled
<1>4. {k \in 1 .. reads : read[k] = "gone"} = {}
  BY DEF Reads!Init
<1>5. Cancels
  BY <1>3, <1>4, FS_EmptySet DEF Reads!Init, Cancels, Gone
<1> QED BY <1>1, <1>2, <1>5 DEF ReadsInv

\* A read that has ended is not the one in flight.
LEMMA EndedIsOlder ==
    ASSUME ReadsShape, NEW c \in Caller, at[c] \in Asking, Reads!Ended(of[c])
    PROVE  /\ of[c] \in 1 .. reads /\ of[c] # sInflight
           /\ sInflight # 0 => of[c] < sInflight
<1> USE ReadsAssumption
<1>1. of[c] \in Nat /\ reads \in Nat /\ sInflight \in Nat
  BY DEF ReadsShape, Reads!TypeOK
<1>2. of[c] >= 1 /\ of[c] <= reads
  BY DEF ReadsShape, Known
<1>3. sInflight # 0 => read[sInflight] \in {"open", "sent"} /\ sInflight = reads
  BY DEF ReadsShape, NewestInFlight, Reads!TypeOK
<1> QED BY <1>1, <1>2, <1>3 DEF Reads!Ended

\* A read of a caller that has begun, in the terms of the counts.
LEMMA ReadsNumbers ==
    ASSUME ReadsInv
    PROVE  /\ reads \in Nat /\ sInflight \in Nat /\ cancels \in Nat
           /\ Gone(read, reads) \in Nat /\ Gone(read, reads) <= cancels
           /\ \A c \in Caller : /\ of[c] \in Nat /\ asked[c] \in Nat /\ awaited[c] \in Nat
                                /\ of[c] <= reads /\ asked[c] <= reads
           /\ \A c \in Caller : at[c] \in Asking =>
                /\ of[c] - 1 \in Nat /\ Before(c) \in Nat /\ Before(c) <= Gone(read, reads)
<1> USE ReadsAssumption
<1>1. reads \in Nat /\ sInflight \in Nat /\ cancels \in Nat
  BY DEF ReadsInv, ReadsShape, Reads!TypeOK
<1>2. \A c \in Caller : /\ of[c] \in Nat /\ asked[c] \in Nat /\ awaited[c] \in Nat
                        /\ of[c] <= reads /\ asked[c] <= reads
  BY DEF ReadsInv, ReadsShape, Reads!TypeOK, Known
<1>3. Gone(read, reads) \in Nat /\ Gone(read, reads) <= cancels
  BY <1>1, GoneNat DEF ReadsInv, Cancels
<1>4. ASSUME NEW c \in Caller, at[c] \in Asking
      PROVE  /\ of[c] - 1 \in Nat /\ Before(c) \in Nat /\ Before(c) <= Gone(read, reads)
  <2>1. of[c] - 1 \in Nat /\ of[c] - 1 <= reads
    BY <1>1, <1>2, <1>4 DEF ReadsInv, ReadsShape, Known
  <2> QED BY <1>1, <2>1, GoneNat, GoneGrows DEF Before
<1> QED BY <1>1, <1>2, <1>3, <1>4

\* Who does not move waits as before, if no older read is gone meanwhile.
LEMMA OthersWait ==
    ASSUME ReadsInv, NEW d \in Caller, at'[d] = at[d], of'[d] = of[d], awaited'[d] = awaited[d],
           \A k \in 1 .. reads : k < of[d] => (read[k] = "gone" <=> read'[k] = "gone")
    PROVE  /\ at'[d] = "idle" => awaited'[d] = 0
           /\ at'[d] = "late" => awaited'[d] <= Before(d)'
           /\ at'[d] \in {"lead", "join"} => awaited'[d] <= 1 + Before(d)'
<1>1. CASE at[d] \in Asking
  <2>1. /\ of[d] - 1 \in Nat /\ of[d] \in Nat /\ of[d] <= reads /\ reads \in Nat
    BY <1>1, ReadsNumbers
  <2>2. \A k \in 1 .. of[d] - 1 : read[k] = "gone" <=> read'[k] = "gone"
    BY <2>1
  <2>3. Gone(read, of[d] - 1) = Gone(read', of[d] - 1)
    BY <2>1, <2>2, GoneSame
  <2>4. Before(d)' = Before(d)
    BY <2>3 DEF Before
  <2> QED BY <1>1, <2>4 DEF ReadsInv, Rounds, Asking
<1>2. CASE at[d] \notin Asking
  BY <1>2 DEF ReadsInv, Rounds, Asking
<1> QED BY <1>1, <1>2

\* A caller that leads nothing begins a read when none is in flight: its read is newer
\* than anything that had left.
LEMMA LeadInv ==
    ASSUME ReadsInv, sInflight = 0, NEW c \in Caller, at[c] \notin {"lead", "cancelled"},
           Reads!Lead(c),
           NEW a \in Nat, NEW w \in Nat, a <= reads, w <= reads, w <= 1 + Gone(read, reads),
           asked' = [asked EXCEPT ![c] = a], awaited' = [awaited EXCEPT ![c] = w],
           cancels' = cancels
    PROVE  ReadsInv'
<1> USE ReadsAssumption
<1>0. /\ reads' = reads + 1 /\ sInflight' = reads + 1 /\ reads + 1 \in 1 .. MaxReads
      /\ read' = [read EXCEPT ![reads + 1] = "open"] /\ read'[reads + 1] = "open"
      /\ at' = [at EXCEPT ![c] = "lead"] /\ of' = [of EXCEPT ![c] = reads + 1]
      /\ at'[c] = "lead" /\ of'[c] = reads + 1
      /\ \A d \in Caller : at[d] # "lead"
  BY DEF ReadsInv, ReadsShape, Reads!TypeOK, Reads!Lead, Reads!Move, Known,
    Asking
<1>1. Reads!TypeOK'
  <2>1. /\ sInflight' \in 0 .. reads' /\ reads' \in 0 .. MaxReads
        /\ read' \in [1 .. MaxReads -> {"none", "open", "sent", "ok", "error", "gone"}]
        /\ at' \in [Caller -> {"idle", "lead", "late", "join", "got", "error", "cancelled"}]
        /\ of' \in [Caller -> 0 .. MaxReads]
    BY <1>0 DEF ReadsInv, ReadsShape, Reads!TypeOK
  <2>2. /\ asked' \in [Caller -> 0 .. MaxReads] /\ awaited' \in [Caller -> 0 .. MaxReads]
        /\ cancels' \in 0 .. MaxCancels
    BY DEF ReadsInv, ReadsShape, Reads!TypeOK
  <2>3. \A d \in Caller : at'[d] = "lead" => of'[d] = sInflight'
    BY <1>0 DEF ReadsInv, ReadsShape, Reads!TypeOK
  <2>4. read'[sInflight'] \in {"open", "sent"} /\ at'[c] = "lead" /\ of'[c] = sInflight'
    BY <1>0
  <2> QED BY <2>1, <2>2, <2>3, <2>4 DEF Reads!TypeOK
<1>2. OneLeader' /\ NewestInFlight'
  <2>1. OneLeader'
    BY <1>0 DEF ReadsInv, ReadsShape, Reads!TypeOK, OneLeader
  <2>2. ASSUME NEW n \in 1 .. reads', n # sInflight' PROVE Reads!Ended(n)'
    <3>1. n \in 1 .. reads /\ n # 0 /\ read'[n] = read[n]
      BY <1>0, <2>2 DEF ReadsInv, ReadsShape, Reads!TypeOK
    <3> QED BY <3>1 DEF ReadsInv, ReadsShape, NewestInFlight, Reads!Ended
  <2> QED BY <1>0, <2>1, <2>2 DEF NewestInFlight
<1>3. Known' /\ Counted' /\ AskedBefore'
  BY <1>0 DEF ReadsInv, ReadsShape, Reads!TypeOK, Known, Counted, AskedBefore, Asking
<1>4. /\ reads' = reads + 1 /\ reads \in Nat /\ reads + 1 - 1 = reads /\ cancels \in Nat
      /\ Gone(read, reads) \in Nat /\ Gone(read, reads) <= cancels
  BY <1>0, ReadsNumbers
<1>5. /\ \A k \in 1 .. reads : read[k] = "gone" <=> read'[k] = "gone"
      /\ read'[reads + 1] = "open"
  BY <1>0, <1>4 DEF ReadsInv, ReadsShape, Reads!TypeOK
<1>6. Gone(read, reads) = Gone(read', reads)
  BY <1>4, <1>5, GoneSame
<1>7. at'[c] = "lead" /\ of'[c] = reads + 1 /\ awaited'[c] = w
  BY <1>0 DEF ReadsInv, ReadsShape, Reads!TypeOK
<1>8. \A d \in Caller : d # c => at'[d] = at[d] /\ of'[d] = of[d] /\ awaited'[d] = awaited[d]
  BY <1>0 DEF ReadsInv, ReadsShape, Reads!TypeOK
<1>9. Rounds'
  <2> SUFFICES ASSUME NEW d \in Caller
               PROVE  /\ at'[d] = "idle" => awaited'[d] = 0
                      /\ at'[d] = "late" => awaited'[d] <= Before(d)'
                      /\ at'[d] \in {"lead", "join"} => awaited'[d] <= 1 + Before(d)'
    BY DEF Rounds
  <2>1. CASE d = c
    <3>1. Before(c)' = Gone(read, reads)
      BY <1>4, <1>6, <1>7 DEF Before
    <3> QED BY <2>1, <3>1, <1>7
  <2>2. CASE d # c
    BY <2>2, <1>5, <1>8, OthersWait
  <2> QED BY <2>1, <2>2
<1>10. Cancels'
  <2>1. Cancelled' = Cancelled
    BY <1>7, <1>8 DEF Cancelled
  <2>2. {k \in 1 .. reads + 1 : read'[k] = "gone"} = {k \in 1 .. reads : read'[k] = "gone"}
    BY <1>4, <1>5
  <2>3. Gone(read', reads') = Gone(read, reads)
    BY <1>4, <1>6, <2>2 DEF Gone
  <2>4. w <= 2 + cancels
    BY <1>4
  <2>5. \A d \in Caller : awaited'[d] <= 2 + cancels
    BY <1>7, <1>8, <2>4 DEF ReadsInv, Cancels
  <2> QED BY <2>1, <2>3, <2>5 DEF ReadsInv, Cancels
<1> QED BY <1>1, <1>2, <1>3, <1>9, <1>10 DEF ReadsInv, ReadsShape

\* A caller that leads nothing joins the read in flight, or waits it out.
LEMMA WaitInv ==
    ASSUME ReadsInv, sInflight # 0, NEW c \in Caller, at[c] \notin {"lead", "cancelled"},
           NEW where \in {"join", "late"}, Reads!Wait(c, where, sInflight),
           NEW a \in Nat, NEW w \in Nat, a <= reads, w < reads,
           Lists /\ where = "join" => a < reads,
           where = "join" => w <= 1 + Gone(read, reads - 1),
           where = "late" => w <= Gone(read, reads - 1),
           asked' = [asked EXCEPT ![c] = a], awaited' = [awaited EXCEPT ![c] = w],
           cancels' = cancels
    PROVE  ReadsInv'
<1> USE ReadsAssumption DEF Reads!Wait, Reads!Move
<1>1. Reads!TypeOK'
  BY DEF ReadsInv, ReadsShape, Reads!TypeOK, NewestInFlight
<1>2. OneLeader' /\ NewestInFlight'
  BY DEF ReadsInv, ReadsShape, Reads!TypeOK, OneLeader, NewestInFlight, Reads!Ended
<1>3. Known' /\ Counted' /\ AskedBefore'
  BY DEF ReadsInv, ReadsShape, Reads!TypeOK, NewestInFlight, Known, Counted, AskedBefore,
    Asking
<1>4. /\ reads' = reads /\ reads \in Nat /\ sInflight = reads /\ reads - 1 \in Nat
      /\ reads - 1 <= reads /\ cancels \in Nat
      /\ Gone(read, reads) \in Nat /\ Gone(read, reads) <= cancels
  BY ReadsNumbers DEF ReadsInv, ReadsShape, NewestInFlight
<1>5. at'[c] = where /\ of'[c] = reads /\ awaited'[c] = w
  BY <1>4 DEF ReadsInv, ReadsShape, Reads!TypeOK
<1>6. \A d \in Caller : d # c => at'[d] = at[d] /\ of'[d] = of[d] /\ awaited'[d] = awaited[d]
  BY DEF ReadsInv, ReadsShape, Reads!TypeOK
<1>7. Rounds'
  <2> SUFFICES ASSUME NEW d \in Caller
               PROVE  /\ at'[d] = "idle" => awaited'[d] = 0
                      /\ at'[d] = "late" => awaited'[d] <= Before(d)'
                      /\ at'[d] \in {"lead", "join"} => awaited'[d] <= 1 + Before(d)'
    BY DEF Rounds
  <2>1. CASE d = c
    <3>1. Before(c)' = Gone(read, reads - 1)
      BY <1>5 DEF Before
    <3> QED BY <2>1, <3>1, <1>5
  <2>2. CASE d # c
    BY <2>2, <1>6, OthersWait
  <2> QED BY <2>1, <2>2
<1>8. Cancels'
  <2>1. Cancelled' = Cancelled
    BY <1>5, <1>6 DEF Cancelled
  <2>1a. Gone(read, reads - 1) \in Nat
    BY <1>4, GoneNat
  <2>1b. Gone(read, reads - 1) <= Gone(read, reads)
    BY <1>4, GoneGrows
  <2>2. Gone(read, reads - 1) <= cancels /\ Gone(read, reads - 1) \in Nat
    BY <1>4, <2>1a, <2>1b
  <2>3. w <= 2 + cancels
    BY <1>4, <2>2
  <2>4. \A d \in Caller : awaited'[d] <= 2 + cancels
    BY <1>5, <1>6, <2>3 DEF ReadsInv, Cancels
  <2> QED BY <1>4, <2>1, <2>4 DEF ReadsInv, Cancels
<1> QED BY <1>1, <1>2, <1>3, <1>7, <1>8 DEF ReadsInv, ReadsShape

\* The head of the loop: what a caller that leads nothing may come with.
LEMMA EnterInv ==
    ASSUME ReadsInv, NEW c \in Caller, at[c] \notin {"lead", "cancelled"}, Reads!Enter(c),
           NEW a \in Nat, NEW w \in Nat, a <= reads, w <= reads,
           w <= Gone(read, reads),
           sInflight # 0 => w < reads /\ w <= Gone(read, reads - 1),
           Lists /\ sInflight # 0 /\ read[sInflight] = "open" => a < reads,
           asked' = [asked EXCEPT ![c] = a], awaited' = [awaited EXCEPT ![c] = w],
           cancels' = cancels
    PROVE  ReadsInv'
<1>1. CASE sInflight = 0
  <2>1. w <= 1 + Gone(read, reads)
    BY ReadsNumbers
  <2> QED BY <1>1, <2>1, LeadInv DEF Reads!Enter
<1>2. CASE sInflight # 0 /\ Lists /\ read[sInflight] = "sent"
  BY <1>2, WaitInv DEF Reads!Enter
<1>3. CASE sInflight # 0 /\ ~(Lists /\ read[sInflight] = "sent")
  <2>1. reads - 1 \in Nat
    BY <1>3, ReadsNumbers DEF ReadsInv, ReadsShape, NewestInFlight
  <2>2. w <= 1 + Gone(read, reads - 1)
    <3>1. Gone(read, reads - 1) \in Nat
      BY <2>1, GoneNat
    <3> QED BY <1>3, <3>1
  <2>3. Lists => a < reads
    BY <1>3 DEF ReadsInv, ReadsShape, Reads!TypeOK
  <2> QED BY <1>3, <2>2, <2>3, WaitInv DEF Reads!Enter
<1> QED BY <1>1, <1>2, <1>3

\* A read that has left may be older than what the caller did before it asked.
LEMMA AskInv == ASSUME ReadsInv, NEW c \in Caller, Reads!Ask(c) PROVE ReadsInv'
<1>1. /\ at[c] \notin {"lead", "cancelled"} /\ Reads!Enter(c) /\ awaited[c] = 0
      /\ asked' = [asked EXCEPT ![c] = Reads!Left] /\ awaited' = awaited
      /\ cancels' = cancels
  BY DEF Reads!Ask, ReadsInv, Rounds
<1>2. awaited' = [awaited EXCEPT ![c] = 0]
  BY <1>1 DEF ReadsInv, ReadsShape, Reads!TypeOK
<1>3. sInflight # 0 => reads - 1 \in Nat /\ sInflight = reads
  BY ReadsNumbers DEF ReadsInv, ReadsShape, NewestInFlight
<1>4. /\ Reads!Left \in Nat /\ Reads!Left <= reads
      /\ sInflight # 0 /\ read[sInflight] = "open" => Reads!Left < reads
  BY <1>3, ReadsNumbers DEF Reads!Left
<1>5. 0 <= Gone(read, reads) /\ 0 <= reads
  BY ReadsNumbers
<1>6. ASSUME sInflight # 0 PROVE 0 < reads /\ 0 <= Gone(read, reads - 1)
  <2>1. reads \in Nat /\ reads - 1 \in Nat
    BY <1>3, <1>6, ReadsNumbers
  <2>2. Gone(read, reads - 1) \in Nat
    BY <2>1, GoneNat
  <2> QED BY <2>1, <2>2
<1>7. Lists /\ sInflight # 0 /\ read[sInflight] = "open" => Reads!Left < reads
  BY <1>4
<1> HIDE DEF Gone
<1> QED BY <1>1, <1>2, <1>4, <1>5, <1>6, <1>7, EnterInv, 0 \in Nat

\* Who leads, leads the read in flight.
LEMMA Leading ==
    ASSUME ReadsInv, NEW c \in Caller, at[c] = "lead"
    PROVE  /\ of[c] = sInflight /\ sInflight = reads /\ reads \in 1 .. MaxReads
           /\ read[reads] \in {"open", "sent"}
<1> USE ReadsAssumption
<1>1. of[c] = sInflight /\ of[c] >= 1 /\ of[c] \in 0 .. MaxReads
  BY DEF ReadsInv, ReadsShape, Reads!TypeOK, Known, Asking
<1>2. sInflight # 0 => sInflight = reads /\ read[sInflight] \in {"open", "sent"}
  BY DEF ReadsInv, ReadsShape, Reads!TypeOK, NewestInFlight
<1> QED BY <1>1, <1>2

\* Nothing but the read changes, which does not end.
LEMMA SendInv == ASSUME ReadsInv, NEW c \in Caller, Reads!Send(c) PROVE ReadsInv'
<1> USE ReadsAssumption
<1>0. /\ at[c] = "lead" /\ of[c] = sInflight /\ sInflight = reads /\ reads \in 1 .. MaxReads
      /\ read[reads] = "open" /\ read' = [read EXCEPT ![reads] = "sent"]
      /\ UNCHANGED <<sInflight, reads, at, of, asked, awaited, cancels>>
  BY Leading DEF Reads!Send
<1>1. \A k \in 1 .. reads : read[k] = "gone" <=> read'[k] = "gone"
  BY <1>0 DEF ReadsInv, ReadsShape, Reads!TypeOK
<1>2. ReadsShape'
  <2>1. Reads!TypeOK'
    BY <1>0 DEF ReadsInv, ReadsShape, Reads!TypeOK
  <2>2. NewestInFlight'
    BY <1>0 DEF ReadsInv, ReadsShape, Reads!TypeOK, NewestInFlight, Reads!Ended
  <2> QED BY <1>0, <2>1, <2>2 DEF ReadsInv, ReadsShape, OneLeader, Known, Counted, AskedBefore
<1>3. Rounds'
  BY <1>0, <1>1, OthersWait DEF Rounds
<1>4. Cancels'
  <2>1. Gone(read', reads) = Gone(read, reads)
    BY <1>1, GoneSame, ReadsNumbers
  <2> QED BY <1>0, <2>1 DEF ReadsInv, Cancels, Cancelled
<1> QED BY <1>2, <1>3, <1>4 DEF ReadsInv

\* A caller is done with the read it leads or has joined.
LEMMA DoneInv ==
    ASSUME ReadsInv, NEW c \in Caller, at[c] \in {"lead", "join"},
           NEW where \in {"got", "error"},
           at' = [at EXCEPT ![c] = where], of' = of, asked' = asked, reads' = reads,
           awaited' = [awaited EXCEPT ![c] = @ + 1], cancels' = cancels,
           Reads!TypeOK', NewestInFlight',
           \A k \in 1 .. reads : read[k] = "gone" <=> read'[k] = "gone"
    PROVE  ReadsInv'
<1> USE ReadsAssumption
<1>1. at'[c] = where /\ of'[c] = of[c] /\ awaited'[c] = awaited[c] + 1
  BY DEF ReadsInv, ReadsShape, Reads!TypeOK
<1>2. \A d \in Caller : d # c => at'[d] = at[d] /\ of'[d] = of[d] /\ awaited'[d] = awaited[d]
  BY DEF ReadsInv, ReadsShape, Reads!TypeOK
<1>3. ReadsShape'
  <2>1. OneLeader' /\ Known' /\ AskedBefore'
    BY <1>1, <1>2 DEF ReadsInv, ReadsShape, OneLeader, Known, AskedBefore, Asking
  <2>2. Counted'
    BY <1>1, <1>2 DEF ReadsInv, ReadsShape, Reads!TypeOK, Counted, Asking
  <2> QED BY <2>1, <2>2 DEF ReadsShape
<1>4. Rounds'
  <2> SUFFICES ASSUME NEW d \in Caller
               PROVE  /\ at'[d] = "idle" => awaited'[d] = 0
                      /\ at'[d] = "late" => awaited'[d] <= Before(d)'
                      /\ at'[d] \in {"lead", "join"} => awaited'[d] <= 1 + Before(d)'
    BY DEF Rounds
  <2>1. CASE d = c
    BY <2>1, <1>1
  <2>2. CASE d # c
    BY <2>2, <1>2, OthersWait
  <2> QED BY <2>1, <2>2
<1>5. Cancels'
  <2>1. Gone(read', reads) = Gone(read, reads)
    BY ReadsNumbers, GoneSame
  <2>2. Cancelled' = Cancelled
    BY <1>1, <1>2 DEF Cancelled
  <2>3. awaited[c] + 1 <= 2 + cancels
    BY ReadsNumbers DEF ReadsInv, Rounds, Asking
  <2>4. \A d \in Caller : awaited'[d] <= 2 + cancels
    BY <1>1, <1>2, <2>3 DEF ReadsInv, Cancels
  <2> QED BY <2>1, <2>2, <2>4 DEF ReadsInv, Cancels
<1> QED BY <1>3, <1>4, <1>5 DEF ReadsInv

\* An answer ends the read in flight.
LEMMA AnsweredInv ==
    ASSUME ReadsInv, NEW c \in Caller, NEW outcome \in {"ok", "error"},
           Reads!Answered(c, outcome)
    PROVE  ReadsInv'
<1> USE ReadsAssumption
<1>1. PICK where \in {"got", "error"} :
        at' = [at EXCEPT ![c] = where] /\ of' = [of EXCEPT ![c] = of[c]]
  BY DEF Reads!Answered, Reads!Move
<1>2. /\ at[c] = "lead" /\ of[c] = sInflight /\ sInflight = reads /\ reads \in 1 .. MaxReads
      /\ read[reads] \in {"open", "sent"} /\ read' = [read EXCEPT ![reads] = outcome]
      /\ of' = of /\ sInflight' = 0 /\ reads' = reads /\ asked' = asked /\ cancels' = cancels
      /\ awaited' = [awaited EXCEPT ![c] = @ + 1]
  <2>1. at[c] = "lead" /\ of' = of
    BY <1>1 DEF Reads!Answered, ReadsInv, ReadsShape, Reads!TypeOK
  <2> QED BY <2>1, Leading DEF Reads!Answered
<1>3. \A k \in 1 .. reads : read[k] = "gone" <=> read'[k] = "gone"
  BY <1>2 DEF ReadsInv, ReadsShape, Reads!TypeOK
<1>4. Reads!TypeOK'
  <2>1. awaited[c] + 1 \in 0 .. MaxReads
    BY <1>2 DEF ReadsInv, ReadsShape, Reads!TypeOK, Counted, Asking
  <2>2. \A d \in Caller : at'[d] # "lead"
    BY <1>1, <1>2 DEF ReadsInv, ReadsShape, Reads!TypeOK, OneLeader
  <2> QED BY <1>1, <1>2, <2>1, <2>2 DEF ReadsInv, ReadsShape, Reads!TypeOK
<1>5. NewestInFlight'
  BY <1>2 DEF ReadsInv, ReadsShape, Reads!TypeOK, NewestInFlight, Reads!Ended
<1> QED BY <1>1, <1>2, <1>3, <1>4, <1>5, DoneInv

\* A waiter takes the answer of the read it joined.
LEMMA TakeInv == ASSUME ReadsInv, NEW c \in Caller, Reads!Take(c) PROVE ReadsInv'
<1> USE ReadsAssumption
<1>1. /\ at[c] = "join" /\ of[c] \in 1 .. reads /\ reads \in Nat
      /\ sInflight # 0 => of[c] < reads
      /\ asked[c] \in Nat /\ awaited[c] \in Nat /\ asked[c] <= reads /\ awaited[c] < of[c]
      /\ Lists => asked[c] < of[c]
  <2>1. at[c] = "join" /\ Reads!Ended(of[c])
    BY DEF Reads!Take
  <2>2. of[c] \in 1 .. reads /\ (sInflight # 0 => of[c] < reads)
    BY <2>1, EndedIsOlder DEF ReadsInv, ReadsShape, NewestInFlight, Asking
  <2>3. reads \in Nat /\ asked[c] \in Nat /\ awaited[c] \in Nat /\ asked[c] <= reads
    BY ReadsNumbers
  <2> QED BY <2>1, <2>2, <2>3 DEF ReadsInv, ReadsShape, Counted, AskedBefore, Asking
<1>2. asked' = asked /\ cancels' = cancels
  BY DEF Reads!Take
<1>3. CASE read[of[c]] = "gone"
  <2>1. Reads!Enter(c) /\ awaited' = awaited
    BY <1>3 DEF Reads!Take
  <2>2. /\ asked' = [asked EXCEPT ![c] = asked[c]]
        /\ awaited' = [awaited EXCEPT ![c] = awaited[c]]
    BY <1>2, <2>1 DEF ReadsInv, ReadsShape, Reads!TypeOK
  <2>3. awaited[c] <= Gone(read, of[c])
    BY <1>1, <1>3, GoneStep DEF ReadsInv, Rounds, Before
  <2>4. Gone(read, of[c]) \in Nat /\ Gone(read, of[c]) <= Gone(read, reads)
    <3>1. of[c] \in Nat /\ of[c] <= reads
      BY <1>1
    <3>2. Gone(read, of[c]) \in Nat
      BY <3>1, GoneNat
    <3>3. Gone(read, of[c]) <= Gone(read, reads)
      BY <1>1, <3>1, GoneGrows
    <3> QED BY <3>2, <3>3
  <2>5. sInflight # 0 =>
          /\ Gone(read, reads - 1) \in Nat /\ Gone(read, of[c]) <= Gone(read, reads - 1)
          /\ awaited[c] < reads
    <3>1. SUFFICES ASSUME sInflight # 0
                   PROVE  /\ Gone(read, reads - 1) \in Nat
                          /\ Gone(read, of[c]) <= Gone(read, reads - 1)
                          /\ awaited[c] < reads
      OBVIOUS
    <3>2. of[c] \in Nat /\ reads - 1 \in Nat /\ of[c] <= reads - 1
      BY <1>1, <3>1
    <3>3. Gone(read, reads - 1) \in Nat
      BY <3>2, GoneNat
    <3>4. Gone(read, of[c]) <= Gone(read, reads - 1)
      BY <3>2, GoneGrows
    <3> QED BY <1>1, <3>1, <3>2, <3>3, <3>4
  <2>6. awaited[c] <= reads /\ awaited[c] <= Gone(read, reads)
    BY <1>1, <2>3, <2>4, ReadsNumbers
  <2>7. sInflight # 0 => awaited[c] < reads /\ awaited[c] <= Gone(read, reads - 1)
    BY <1>1, <2>3, <2>4, <2>5
  <2>8. Lists /\ sInflight # 0 /\ read[sInflight] = "open" => asked[c] < reads
    BY <1>1
  <2> HIDE DEF Gone
  <2> QED BY <1>1, <1>2, <2>1, <2>2, <2>6, <2>7, <2>8, EnterInv
<1>4. CASE read[of[c]] # "gone"
  <2>1. PICK where \in {"got", "error"} : Reads!Wait(c, where, of[c])
    BY <1>4 DEF Reads!Take
  <2>2. /\ at' = [at EXCEPT ![c] = where] /\ of' = of /\ reads' = reads /\ read' = read
        /\ sInflight' = sInflight /\ awaited' = [awaited EXCEPT ![c] = @ + 1]
    BY <1>4, <2>1 DEF Reads!Take, Reads!Wait, Reads!Move, ReadsInv, ReadsShape, Reads!TypeOK
  <2>3. Reads!TypeOK'
    <3>1. awaited[c] + 1 \in 0 .. MaxReads
      BY <1>1 DEF ReadsInv, ReadsShape, Reads!TypeOK
    <3>2. sInflight # 0 => \E d \in Caller : at'[d] = "lead" /\ of'[d] = sInflight
      BY <1>1, <2>2 DEF ReadsInv, ReadsShape, Reads!TypeOK
    <3> QED BY <1>1, <1>2, <2>2, <3>1, <3>2 DEF ReadsInv, ReadsShape, Reads!TypeOK
  <2>4. NewestInFlight'
    BY <2>2 DEF ReadsInv, ReadsShape, NewestInFlight, Reads!Ended
  <2> QED BY <1>1, <1>2, <2>2, <2>3, <2>4, DoneInv
<1> QED BY <1>3, <1>4

\* The read that was waited out has ended, and what is in flight now is newer.
LEMMA ResumeInv == ASSUME ReadsInv, NEW c \in Caller, Reads!Resume(c) PROVE ReadsInv'
<1> USE ReadsAssumption
<1>1. /\ at[c] = "late" /\ of[c] \in 1 .. reads /\ reads \in Nat
      /\ sInflight # 0 => of[c] < reads
      /\ asked[c] \in Nat /\ awaited[c] \in Nat /\ asked[c] <= reads /\ awaited[c] < of[c]
      /\ Lists => asked[c] <= of[c]
  <2>1. at[c] = "late" /\ Reads!Ended(of[c])
    BY DEF Reads!Resume
  <2>2. of[c] \in 1 .. reads /\ (sInflight # 0 => of[c] < reads)
    BY <2>1, EndedIsOlder DEF ReadsInv, ReadsShape, NewestInFlight, Asking
  <2>3. reads \in Nat /\ asked[c] \in Nat /\ awaited[c] \in Nat /\ asked[c] <= reads
    BY ReadsNumbers
  <2> QED BY <2>1, <2>2, <2>3 DEF ReadsInv, ReadsShape, Counted, AskedBefore, Asking
<1>2. /\ asked' = [asked EXCEPT ![c] = asked[c]] /\ cancels' = cancels
      /\ awaited' = [awaited EXCEPT ![c] = awaited[c] + 1]
  BY DEF Reads!Resume, ReadsInv, ReadsShape, Reads!TypeOK
<1>3. awaited[c] + 1 \in Nat /\ awaited[c] <= Gone(read, of[c] - 1)
  BY <1>1 DEF ReadsInv, Rounds, Before
<1>4. Gone(read, of[c] - 1) \in Nat /\ Gone(read, of[c] - 1) <= Gone(read, reads)
  BY <1>1, ReadsNumbers DEF Asking, Before
<1>5. CASE sInflight = 0
  <2>1. Reads!Lead(c)
    BY <1>5 DEF Reads!Resume
  <2>2. awaited[c] + 1 <= reads /\ awaited[c] + 1 <= 1 + Gone(read, reads)
    BY <1>1, <1>3, <1>4, ReadsNumbers
  <2> QED BY <1>1, <1>2, <1>3, <1>5, <2>1, <2>2, LeadInv
<1>6. CASE sInflight # 0
  <2>1. Reads!Wait(c, "join", sInflight)
    BY <1>6 DEF Reads!Resume
  <2>2. of[c] - 1 \in Nat /\ reads - 1 \in Nat /\ of[c] - 1 <= reads - 1
    BY <1>1, <1>6
  <2>3. Gone(read, reads - 1) \in Nat
    BY <2>2, GoneNat
  <2>4. Gone(read, of[c] - 1) <= Gone(read, reads - 1)
    BY <2>2, GoneGrows
  <2>5. awaited[c] + 1 < reads /\ awaited[c] + 1 <= 1 + Gone(read, reads - 1)
    BY <1>1, <1>3, <1>4, <1>6, <2>3, <2>4
  <2>6. Lists => asked[c] < reads
    BY <1>1, <1>6
  <2> QED BY <1>1, <1>2, <1>3, <1>6, <2>1, <2>5, <2>6, WaitInv
<1> QED BY <1>5, <1>6

\* A leader takes its read with it; the read of another caller goes on.
LEMMA CancelInv == ASSUME ReadsInv, NEW c \in Caller, Reads!Cancel(c) PROVE ReadsInv'
<1> USE ReadsAssumption
<1>1. /\ at[c] \in Asking /\ cancels' = cancels + 1 /\ cancels < MaxCancels
      /\ at' = [at EXCEPT ![c] = "cancelled"] /\ of' = of /\ reads' = reads
      /\ asked' = asked /\ awaited' = awaited
  BY DEF Reads!Cancel, Reads!Move, Asking, ReadsInv, ReadsShape, Reads!TypeOK
<1>2. /\ at'[c] = "cancelled" /\ at[c] # "cancelled"
      /\ \A d \in Caller : d # c => at'[d] = at[d]
  BY <1>1 DEF ReadsInv, ReadsShape, Reads!TypeOK, Asking
<1>3. OneLeader' /\ Known' /\ Counted' /\ AskedBefore'
  BY <1>1, <1>2 DEF ReadsInv, ReadsShape, OneLeader, Known, Counted, AskedBefore, Asking
<1>4. Cancelled' = Cancelled \cup {c} /\ c \notin Cancelled
  BY <1>2 DEF Cancelled
<1>5. IsFiniteSet(Cancelled') /\ Cardinality(Cancelled') = cancels'
  BY <1>1, <1>4, FS_AddElement DEF ReadsInv, Cancels
<1>6. \A d \in Caller : awaited'[d] <= 2 + cancels'
  BY <1>1, ReadsNumbers DEF ReadsInv, Cancels
<1>7. CASE at[c] = "lead"
  <2>1. /\ of[c] = sInflight /\ sInflight = reads /\ reads \in 1 .. MaxReads
        /\ sInflight' = 0 /\ read' = [read EXCEPT ![reads] = "gone"] /\ read'[reads] = "gone"
    BY <1>7 DEF Reads!Cancel, ReadsInv, ReadsShape, Reads!TypeOK, NewestInFlight, Known,
      Asking
  <2>2. Reads!TypeOK'
    <3>1. \A d \in Caller : at'[d] # "lead"
      BY <1>2, <1>7 DEF ReadsInv, ReadsShape, OneLeader
    <3> QED BY <1>1, <2>1, <3>1 DEF ReadsInv, ReadsShape, Reads!TypeOK
  <2>3. NewestInFlight'
    BY <1>1, <2>1 DEF ReadsInv, ReadsShape, Reads!TypeOK, NewestInFlight, Reads!Ended
  <2>4. \A k \in 1 .. reads : k < reads => (read[k] = "gone" <=> read'[k] = "gone")
    BY <2>1 DEF ReadsInv, ReadsShape, Reads!TypeOK
  <2>5. reads \in Nat /\ reads >= 1 /\ reads - 1 \in Nat /\ reads - 1 <= reads
    BY <2>1
  <2>6. Gone(read', reads) = 1 + Gone(read', reads - 1)
    BY <2>1, <2>5, GoneStep
  <2>7. Gone(read', reads - 1) = Gone(read, reads - 1)
    <3>1. \A k \in 1 .. reads - 1 : read[k] = "gone" <=> read'[k] = "gone"
      BY <2>4, <2>5
    <3> QED BY <2>5, <3>1, GoneSame
  <2>8. Gone(read, reads - 1) <= Gone(read, reads) /\ Gone(read, reads - 1) \in Nat
    BY <2>5, GoneGrows, GoneNat
  <2>9. Gone(read', reads') <= cancels'
    BY <1>1, <2>6, <2>7, <2>8, ReadsNumbers
  <2>10. Rounds'
    <3> SUFFICES ASSUME NEW d \in Caller
                 PROVE  /\ at'[d] = "idle" => awaited'[d] = 0
                        /\ at'[d] = "late" => awaited'[d] <= Before(d)'
                        /\ at'[d] \in {"lead", "join"} => awaited'[d] <= 1 + Before(d)'
      BY DEF Rounds
    <3>1. \A k \in 1 .. reads : k < of[d] => (read[k] = "gone" <=> read'[k] = "gone")
      BY <2>4, <2>5, ReadsNumbers
    <3> QED BY <1>1, <1>2, <3>1, OthersWait
  <2> QED BY <1>3, <1>5, <1>6, <2>2, <2>3, <2>9, <2>10 DEF ReadsInv, ReadsShape, Cancels
<1>8. CASE at[c] # "lead"
  <2>1. UNCHANGED <<sInflight, read>>
    BY <1>8 DEF Reads!Cancel
  <2>2. Reads!TypeOK'
    <3>1. sInflight # 0 => \E d \in Caller : at'[d] = "lead" /\ of'[d] = sInflight
      BY <1>1, <1>2, <1>8 DEF ReadsInv, ReadsShape, Reads!TypeOK
    <3> QED BY <1>1, <1>2, <2>1, <3>1 DEF ReadsInv, ReadsShape, Reads!TypeOK
  <2>3. NewestInFlight'
    BY <1>1, <2>1 DEF ReadsInv, ReadsShape, NewestInFlight, Reads!Ended
  <2>4. Rounds'
    <3> SUFFICES ASSUME NEW d \in Caller
                 PROVE  /\ at'[d] = "idle" => awaited'[d] = 0
                        /\ at'[d] = "late" => awaited'[d] <= Before(d)'
                        /\ at'[d] \in {"lead", "join"} => awaited'[d] <= 1 + Before(d)'
      BY DEF Rounds
    <3> QED BY <1>1, <1>2, <2>1, OthersWait
  <2>5. Gone(read', reads') <= cancels'
    BY <1>1, <2>1, ReadsNumbers
  <2> QED BY <1>3, <1>5, <1>6, <2>2, <2>3, <2>4, <2>5 DEF ReadsInv, ReadsShape, Cancels
<1> QED BY <1>7, <1>8

\* Every step of the shared reads keeps the invariant.
LEMMA ReadsStep == ASSUME ReadsInv, Reads!Next PROVE ReadsInv'
BY AskInv, CancelInv, SendInv, AnsweredInv, ResumeInv, TakeInv DEF Reads!Next, Reads!Progress

\* The instance counts as the library does.
LEMMA ReadsCount == ASSUME NEW S PROVE Reads!Cardinality(S) = Cardinality(S)
BY Zenon DEF Cardinality, Reads!Cardinality

\* What the invariant says of the properties: the order of the requests gives freshness,
\* and a read beyond the second that is waited for costs a cancelled leader.
LEMMA ReadsSafe ==
    ASSUME ReadsInv PROVE Reads!TypeOK /\ Reads!Fresh /\ Reads!AtMostTwo
<1>1. Reads!TypeOK
  BY DEF ReadsInv, ReadsShape
<1>2. Reads!Fresh
  BY DEF ReadsInv, ReadsShape, AskedBefore, Reads!Fresh
<1>3. Reads!AtMostTwo
  <2>1. Cardinality(Cancelled) = cancels /\ \A c \in Caller : awaited[c] <= 2 + cancels
    BY DEF ReadsInv, Cancels
  <2> QED BY <2>1, ReadsCount DEF Cancelled, Reads!AtMostTwo
<1> QED BY <1>1, <1>2, <1>3

\* The invariant reads no other variable.
LEMMA ReadsStutter == ASSUME ReadsInv, UNCHANGED ReadsVars PROVE ReadsInv'
BY DEF ReadsVars, ReadsInv, ReadsShape, Reads!TypeOK, OneLeader, NewestInFlight, Known,
  Counted, AskedBefore, Rounds, Before, Cancels, Cancelled, Reads!Ended
-----------------------------------------------------------------------------
(* TradeRecords: what a restart reads back is no older than the last pass  *)
(* without a failure, and after a clean shutdown it is the last there was. *)
(* Until a shutdown's last pass the loop's thread alone writes the row, so *)
(* what it has noted is what is stored; in the last pass the signals have  *)
(* ended, so what it has written is what is in memory.                     *)

Busy(w) == thread[w].pc # "idle"

\* Every record is one of those that were made.
Made ==
    /\ changes <= MaxChanges
    /\ now <= changes + faults /\ stored <= changes + faults
    /\ \A w \in Records!Writer : thread[w].snap <= changes + faults

\* Memory is ahead of everything.
Ahead == mark <= now /\ \A w \in Records!Writer : Busy(w) => thread[w].snap <= now

\* Who may write when.
Writers ==
    /\ Busy("final") => qPhase = "final"
    /\ Busy("loop") /\ qPhase \in {"final", "down"} => late

\* While the loop's thread alone writes.
Looping ==
    qPhase \in {"up", "draining"} =>
        /\ stored >= mark
        /\ Busy("loop") => thread["loop"].snap >= mark
        /\ thread["loop"].pc = "note" => stored = thread["loop"].snap
        /\ thread["loop"].pc # "note" => noted \in {Records!NotNoted, stored}

\* While the last pass alone does, and after it.
Stopping ==
    qPhase \in {"final", "down"} /\ ~cutOff =>
        /\ ~signals
        /\ ~late /\ Busy("final") => thread["final"].snap = now
        /\ ~late /\ thread["final"].pc = "note" => stored = now
        /\ ~late /\ qPhase = "down" /\ known => stored = now

RecordsInv == Records!TypeOK /\ Made /\ Ahead /\ Writers /\ Looping /\ Stopping

\* At start everything is written and no writer runs.
LEMMA RecordsInit == ASSUME Records!Init PROVE RecordsInv
<1> USE RecordsAssumption DEF Records!Writer, Records!Idle, Records!Record, Records!NotNoted
<1>1. Records!TypeOK
  <2>1. Records!Idle \in [pc : {"idle", "write", "note"}, snap : Records!Record]
    OBVIOUS
  <2>2. thread \in [Records!Writer -> [pc : {"idle", "write", "note"}, snap : Records!Record]]
    BY <2>1 DEF Records!Init
  <2>3. 0 \in Records!Record /\ 0 \in 0 .. MaxFaults /\ 0 \in 0 .. MaxStops
    OBVIOUS
  <2> HIDE DEF Records!Record, Records!Writer
  <2> QED BY <2>2, <2>3 DEF Records!Init, Records!TypeOK
<1>2. Made /\ Ahead /\ Writers
  BY DEF Records!Init, Made, Ahead, Writers, Busy
<1>3. Looping /\ Stopping
  BY DEF Records!Init, Looping, Stopping, Busy
<1> QED BY <1>1, <1>2, <1>3 DEF RecordsInv

\* The arithmetic of the types.
LEMMA RecordsNumbers ==
    ASSUME RecordsInv
    PROVE  /\ now \in Nat /\ stored \in Nat /\ mark \in Nat /\ changes \in Nat
           /\ faults \in Nat /\ MaxChanges \in Nat /\ MaxFaults \in Nat
           /\ faults <= MaxFaults
           /\ \A n \in Nat : n <= changes + faults => n \in Records!Record
           /\ thread = [w \in {"loop", "final"} |-> thread[w]]
           /\ \A w \in {"loop", "final"} :
                /\ thread[w] = [pc |-> thread[w].pc, snap |-> thread[w].snap]
                /\ thread[w].pc \in {"idle", "write", "note"} /\ thread[w].snap \in Nat
<1> USE RecordsAssumption DEF Records!Writer, Records!Record
<1>1. /\ now \in Nat /\ stored \in Nat /\ mark \in Nat /\ changes \in Nat
      /\ faults \in Nat /\ MaxChanges \in Nat /\ MaxFaults \in Nat
      /\ faults <= MaxFaults /\ changes <= MaxChanges
  BY DEF RecordsInv, Records!TypeOK, Made
<1>2. thread \in [{"loop", "final"} -> [pc : {"idle", "write", "note"},
                                       snap : 0 .. MaxChanges + MaxFaults]]
  BY DEF RecordsInv, Records!TypeOK
<1>3. \A w \in {"loop", "final"} :
        /\ thread[w] = [pc |-> thread[w].pc, snap |-> thread[w].snap]
        /\ thread[w].pc \in {"idle", "write", "note"} /\ thread[w].snap \in Nat
  BY <1>1, <1>2
<1> QED BY <1>1, <1>2, <1>3

\* A step that leaves the threads and the row alone: the signals.
LEMMA SignalsInv ==
    ASSUME RecordsInv,
           Records!SignalBegins \/ Records!SignalChanges \/ Records!SignalEnds
    PROVE  RecordsInv'
<1> USE RecordsAssumption DEF Records!Writer, Records!Record, Records!SignalBegins,
        Records!SignalChanges, Records!SignalEnds, Records!memory, Records!process,
        Records!history
<1>1. Records!TypeOK'
  <2>1. now' \in Records!Record /\ changes' \in Records!Record
    BY RecordsNumbers DEF RecordsInv, Records!TypeOK, Made
  <2> HIDE DEF Records!Record, Records!Writer
  <2> QED BY <2>1 DEF RecordsInv, Records!TypeOK
<1>2. Made' /\ Ahead'
  BY RecordsNumbers DEF RecordsInv, Made, Ahead, Busy
<1>3. Writers' /\ Looping' /\ Stopping'
  BY DEF RecordsInv, Writers, Looping, Stopping, Busy
<1> QED BY <1>1, <1>2, <1>3 DEF RecordsInv

\* The process is told to stop, has drained, is killed or starts.
LEMMA ProcessInv ==
    ASSUME RecordsInv,
           Records!Shutdown \/ Records!Drained \/ Records!Crash \/ Records!Start
    PROVE  RecordsInv'
<1> USE RecordsAssumption DEF Records!Writer, Records!Record, Records!memory,
        Records!process, Records!history
<1>1. CASE Records!Shutdown
  BY <1>1 DEF Records!Shutdown, RecordsInv, Records!TypeOK, Made, Ahead, Writers, Looping,
    Stopping, Busy
<1>2. CASE Records!Drained
  BY <1>2 DEF Records!Drained, RecordsInv, Records!TypeOK, Made, Ahead, Writers, Looping,
    Stopping, Busy
<1>3. CASE Records!Crash
  <2>1. /\ thread' \in [Records!Writer -> [pc : {"idle", "write", "note"}, snap : Records!Record]]
        /\ \A w \in Records!Writer : thread'[w].pc = "idle" /\ thread'[w].snap = 0
    <3>1. Records!Idle \in [pc : {"idle", "write", "note"}, snap : Records!Record]
      BY DEF Records!Idle
    <3> QED BY <1>3, <3>1 DEF Records!Crash, Records!Idle
  <2>2. Records!TypeOK'
    <3>1. stops' \in 0 .. MaxStops
      BY <1>3 DEF Records!Crash, RecordsInv, Records!TypeOK
    <3> HIDE DEF Records!Record, Records!Writer
    <3> QED BY <1>3, <2>1, <3>1 DEF Records!Crash, RecordsInv, Records!TypeOK
  <2>3. Made'
    BY <1>3, <2>1, RecordsNumbers DEF Records!Crash, RecordsInv, Made
  <2>4. Ahead' /\ Writers' /\ Looping' /\ Stopping'
    BY <1>3, <2>1 DEF Records!Crash, RecordsInv, Ahead, Writers, Looping, Stopping, Busy
  <2> QED BY <2>2, <2>3, <2>4 DEF RecordsInv
<1>4. CASE Records!Start
  <2>1. /\ qPhase' = "up" /\ signals' = FALSE /\ mark' = stored /\ cutOff' = FALSE
        /\ late' = FALSE
        /\ stored' = stored /\ thread' = thread /\ changes' = changes /\ stops' = stops
        /\ \A w \in Records!Writer : thread[w].pc = "idle"
        /\ noted' \in {Records!NotNoted, stored}
        /\ \/ now' = stored /\ faults' = faults
           \/ now' = stored + 1 /\ faults' = faults + 1 /\ faults < MaxFaults
    BY <1>4 DEF Records!Start, Records!Fault
  <2>1c. known' \in BOOLEAN /\ descends' \in BOOLEAN
    <3>1. (stored > 0) \in BOOLEAN
      BY RecordsNumbers
    <3> QED BY <1>4, <3>1, Zenon DEF Records!Start
  <2>1a. stored <= changes + faults /\ changes <= MaxChanges
    BY DEF RecordsInv, Made
  <2>1b. /\ now' <= changes + faults' /\ faults' \in 0 .. MaxFaults
         /\ now' \in Records!Record /\ faults <= faults' /\ faults' \in Nat
    BY <2>1, <2>1a, RecordsNumbers
  <2>2. Records!TypeOK'
    <3> HIDE DEF Records!Record, Records!Writer
    <3> QED BY <2>1, <2>1b, <2>1c DEF RecordsInv, Records!TypeOK
  <2>3. Made'
    BY <2>1, <2>1b, RecordsNumbers DEF RecordsInv, Made
  <2>4. Ahead' /\ Writers' /\ Looping' /\ Stopping'
    BY <2>1, RecordsNumbers DEF RecordsInv, Ahead, Writers, Looping, Stopping, Busy
  <2> QED BY <2>2, <2>3, <2>4 DEF RecordsInv
<1> QED BY <1>1, <1>2, <1>3, <1>4

\* What a pass changes of its thread, and of the phase when the last one ends.
LEMMA PassInv ==
    ASSUME RecordsInv, NEW w \in Records!Writer, Records!Works(w)
    PROVE  RecordsInv'
<1> USE RecordsAssumption DEF Records!Writer, Records!Record, Records!memory,
        Records!process, Records!history, Records!Ended, Records!Fault
<1> DEFINE Thread == [pc : {"idle", "write", "note"}, snap : Records!Record]
<1>0. thread \in [Records!Writer -> Thread]
  BY DEF RecordsInv, Records!TypeOK
<1>1. CASE Records!Begin(w)
  <2>1. CASE /\ known /\ (w = "final" \/ noted # now)
             /\ thread' = [thread EXCEPT ![w] = [pc |-> "write", snap |-> now]]
             /\ UNCHANGED <<qPhase, cutOff, mark, faults>>
    <3>1. [pc |-> "write", snap |-> now] \in Thread
      BY DEF RecordsInv, Records!TypeOK
    <3>2. /\ thread' \in [Records!Writer -> Thread]
          /\ thread'[w].pc = "write" /\ thread'[w].snap = now
          /\ \A v \in Records!Writer : v # w => thread'[v] = thread[v]
      BY <1>0, <2>1, <3>1
    <3> HIDE DEF Thread
    <3>3. Records!TypeOK'
      BY <1>1, <2>1, <3>2 DEF Records!Begin, RecordsInv, Records!TypeOK, Thread
    <3>4. Made' /\ Ahead'
      BY <1>1, <2>1, <3>2, RecordsNumbers DEF Records!Begin, RecordsInv, Made, Ahead, Busy
    <3>5. Writers' /\ Looping' /\ Stopping'
      BY <1>1, <2>1, <3>2, RecordsNumbers DEF Records!Begin, RecordsInv, Ahead, Writers,
        Looping, Stopping, Busy
    <3> QED BY <3>3, <3>4, <3>5 DEF RecordsInv
  <2>2. CASE /\ ~known \/ (w = "loop" /\ noted = now)
             /\ mark' = IF known THEN now ELSE mark
             /\ Records!Ended(w, TRUE) /\ UNCHANGED <<thread, faults>>
    <3>1. Records!TypeOK' /\ Made' /\ Ahead'
      BY <1>1, <2>2, RecordsNumbers DEF Records!Begin, RecordsInv, Records!TypeOK, Made,
        Ahead, Busy
    <3>2. Writers'
      BY <1>1, <2>2 DEF Records!Begin, RecordsInv, Writers, Busy
    <3>3. Looping'
      BY <1>1, <2>2, RecordsNumbers DEF Records!Begin, RecordsInv, Looping, Busy,
        Records!NotNoted
    <3>4. Stopping'
      BY <1>1, <2>2 DEF Records!Begin, RecordsInv, Stopping, Busy
    <3> QED BY <3>1, <3>2, <3>3, <3>4 DEF RecordsInv
  <2>3. CASE known /\ Records!Fault /\ Records!Ended(w, FALSE) /\ UNCHANGED <<thread, mark>>
    <3>0. Records!TypeOK'
      <4>1. faults' \in 0 .. MaxFaults
        BY <2>3, RecordsNumbers
      <4> HIDE DEF Records!Record, Records!Writer
      <4> QED BY <1>1, <2>3, <4>1 DEF Records!Begin, RecordsInv, Records!TypeOK
    <3>1. Made' /\ Ahead'
      BY <1>1, <2>3, RecordsNumbers DEF Records!Begin, RecordsInv, Made, Ahead, Busy
    <3>2. Writers' /\ Looping' /\ Stopping'
      BY <1>1, <2>3 DEF Records!Begin, RecordsInv, Writers, Looping, Stopping, Busy
    <3> QED BY <3>0, <3>1, <3>2 DEF RecordsInv
  <2> QED BY <1>1, <2>1, <2>2, <2>3 DEF Records!Begin
<1>2. CASE Records!Write(w)
  <2>0. Records!Idle \in Thread
    BY DEF Records!Idle
  <2>1. CASE /\ stored' = thread[w].snap
             /\ thread' = [thread EXCEPT ![w].pc = "note"]
             /\ UNCHANGED <<qPhase, cutOff, faults>>
    <3>2. /\ thread' \in [Records!Writer -> Thread]
          /\ thread'[w].pc = "note" /\ thread'[w].snap = thread[w].snap
          /\ \A v \in Records!Writer : v # w => thread'[v] = thread[v]
      BY <1>0, <2>1
    <3> HIDE DEF Thread
    <3>3. Records!TypeOK'
      BY <1>0, <1>2, <2>1, <3>2 DEF Records!Write, RecordsInv, Records!TypeOK, Thread
    <3>4. Made' /\ Ahead'
      BY <1>2, <2>1, <3>2, RecordsNumbers DEF Records!Write, RecordsInv, Made, Ahead, Busy
    <3>5. Writers' /\ Looping' /\ Stopping'
      BY <1>2, <2>1, <3>2, RecordsNumbers DEF Records!Write, RecordsInv, Ahead, Writers,
        Looping, Stopping, Busy
    <3> QED BY <3>3, <3>4, <3>5 DEF RecordsInv
  <2>2. CASE /\ Records!Fault /\ thread' = [thread EXCEPT ![w] = Records!Idle]
             /\ Records!Ended(w, FALSE) /\ UNCHANGED stored
    <3>2. /\ thread' \in [Records!Writer -> Thread]
          /\ thread'[w].pc = "idle" /\ thread'[w].snap = 0
          /\ \A v \in Records!Writer : v # w => thread'[v] = thread[v]
      BY <1>0, <2>0, <2>2 DEF Records!Idle
    <3> HIDE DEF Thread
    <3>3. Records!TypeOK'
      <4>1. faults' \in 0 .. MaxFaults
        BY <2>2, RecordsNumbers
      <4> HIDE DEF Records!Record, Records!Writer
      <4> QED BY <1>2, <2>2, <3>2, <4>1 DEF Records!Write, RecordsInv, Records!TypeOK, Thread
    <3>4. Made' /\ Ahead'
      BY <1>2, <2>2, <3>2, RecordsNumbers DEF Records!Write, RecordsInv, Made, Ahead, Busy
    <3>5. Writers' /\ Looping' /\ Stopping'
      BY <1>2, <2>2, <3>2, RecordsNumbers DEF Records!Write, RecordsInv, Ahead, Writers,
        Looping, Stopping, Busy
    <3> QED BY <3>3, <3>4, <3>5 DEF RecordsInv
  <2> QED BY <1>2, <2>1, <2>2 DEF Records!Write
<1>3. CASE Records!Note(w)
  <2>0. Records!Idle \in Thread
    BY DEF Records!Idle
  <2>1. /\ thread' \in [Records!Writer -> Thread]
        /\ thread'[w].pc = "idle" /\ thread'[w].snap = 0
        /\ \A v \in Records!Writer : v # w => thread'[v] = thread[v]
    BY <1>0, <1>3, <2>0 DEF Records!Note, Records!Idle
  <2> HIDE DEF Thread
  <2>2. Records!TypeOK'
    BY <1>0, <1>3, <2>1 DEF Records!Note, RecordsInv, Records!TypeOK, Thread
  <2>3. Made' /\ Ahead'
    BY <1>3, <2>1, RecordsNumbers DEF Records!Note, RecordsInv, Made, Ahead, Busy
  <2>4. Writers'
    BY <1>3, <2>1 DEF Records!Note, RecordsInv, Writers, Busy
  <2>5. Looping'
    BY <1>3, <2>1, RecordsNumbers DEF Records!Note, RecordsInv, Writers, Looping, Busy
  <2>6. Stopping'
    BY <1>3, <2>1, RecordsNumbers DEF Records!Note, RecordsInv, Writers, Stopping, Busy
  <2> QED BY <2>2, <2>3, <2>4, <2>5, <2>6 DEF RecordsInv
<1> QED BY <1>1, <1>2, <1>3 DEF Records!Works

\* Every step of the records keeps the invariant.
LEMMA RecordsStep == ASSUME RecordsInv, Records!Next PROVE RecordsInv'
BY SignalsInv, ProcessInv, PassInv DEF Records!Next

\* The invariant contains both properties of the records.
LEMMA RecordsSafe ==
    ASSUME RecordsInv
    PROVE  Records!TypeOK /\ Records!RestoresRecent /\ Records!CleanStopKeeps
BY DEF RecordsInv, Looping, Stopping, Records!RestoresRecent, Records!CleanStopKeeps

\* The invariant reads no other variable.
LEMMA RecordsStutter == ASSUME RecordsInv, UNCHANGED RecordsVars PROVE RecordsInv'
BY DEF RecordsVars, RecordsInv, Records!TypeOK, Made, Ahead, Writers, Looping, Stopping, Busy
-----------------------------------------------------------------------------
(* RiskGuard: a flatten is under way only with a record that locked the    *)
(* account, which nothing but its owner or the roll has lifted since.      *)

\* The records of the guard and of the poll, which the types name field by field.
Shaped ==
    /\ rec \in [kind : {"none", "loss", "time"}, day : Nat, realized : Nat,
                clockDay : Nat, unlocked : BOOLEAN]
    /\ snap \in [pos : BOOLEAN, openLoss : 0 .. 1, realized : Nat]

\* The broker's day is one ahead of the clock's between the roll and midnight.
Calendar == day = IF rPhase = "rolled" THEN clockDay + 1 ELSE clockDay

RiskInv == Risk!TypeOK /\ Shaped /\ Calendar /\ Risk!NothingSlipsIn

\* The day begins unlocked and flat.
LEMMA RiskInit == ASSUME Risk!Init PROVE RiskInv
<1> USE RiskAssumption DEF Risk!NoRec
<1>1. Risk!TypeOK
  <2>1. /\ rec.kind = "none" /\ rec.day = 0 /\ rec.clockDay = 0 /\ rec.realized = 0
        /\ rec.unlocked = FALSE /\ day = 1 /\ clockDay = 1
        /\ snap.pos = FALSE /\ snap.openLoss = 0 /\ snap.realized = 0
    BY DEF Risk!Init
  <2>2. 1 \in 1 .. MaxDays + 1 /\ 0 \in 0 .. MaxTrades /\ 0 \in 0 .. MaxErrors
    OBVIOUS
  <2>3. /\ pos \in BOOLEAN /\ flying \in BOOLEAN /\ rBlind \in BOOLEAN
        /\ snap.pos \in BOOLEAN /\ rec.unlocked \in BOOLEAN
    BY <2>1, Zenon DEF Risk!Init
  <2>4. openLoss = 0 /\ realized = 0
    BY DEF Risk!Init
  <2> QED BY <2>1, <2>2, <2>3, <2>4 DEF Risk!Init, Risk!TypeOK
<1>2. Shaped
  BY DEF Risk!Init, Shaped
<1>3. Calendar /\ Risk!NothingSlipsIn
  BY DEF Risk!Init, Calendar, Risk!NothingSlipsIn
<1> QED BY <1>1, <1>2, <1>3 DEF RiskInv

\* The days a record may be of.
LEMMA RiskRecord ==
    ASSUME RiskInv
    PROVE  /\ day \in Nat /\ clockDay \in Nat /\ day \in 1 .. MaxDays + 1
           /\ rec.day \in Nat /\ rec.day <= day /\ rec.kind \in {"none", "loss", "time"}
           /\ realized \in Nat /\ openLoss \in {0, 1} /\ errors \in Nat /\ trades \in Nat
BY RiskAssumption DEF RiskInv, Risk!TypeOK, Shaped

\* What the market, the owner and the clock do leaves the poll and its record alone.
LEMMA OutsideInv ==
    ASSUME RiskInv,
           \/ Risk!Order \/ Risk!Lands \/ Risk!TradeByHand \/ Risk!MarketMoves
           \/ Risk!FlattenTime \/ Risk!Roll \/ Risk!Midnight
    PROVE  RiskInv'
<1> USE RiskAssumption, RiskRecord DEF Risk!dates, Risk!account, Risk!history
<1>1. CASE Risk!Order
  BY <1>1 DEF Risk!Order, RiskInv, Risk!TypeOK, Shaped, Calendar, Risk!NothingSlipsIn, Risk!Locked
<1>2. CASE Risk!Lands
  <2>1. pos' \in BOOLEAN /\ openLoss' = 0 /\ realized' \in Nat
    <3>1. pos' \in BOOLEAN
      BY <1>2, Zenon DEF Risk!Lands
    <3> QED BY <1>2, <3>1 DEF Risk!Lands
  <2>2. Risk!TypeOK'
    <3>1. UNCHANGED <<day, clockDay, rPhase, trades, errors, rec, snap, guard, fired, rBlind>>
      BY <1>2 DEF Risk!Lands
    <3>2. flying' \in BOOLEAN /\ openLoss' \in 0 .. 1
      <4>1. flying' \in BOOLEAN
        BY <1>2, Zenon DEF Risk!Lands
      <4> QED BY <2>1, <4>1
    <3> QED BY <2>1, <3>1, <3>2 DEF RiskInv, Risk!TypeOK
  <2> QED BY <1>2, <2>2 DEF Risk!Lands, RiskInv, Shaped, Calendar, Risk!NothingSlipsIn,
            Risk!Locked
<1>3. CASE Risk!TradeByHand
  BY <1>3 DEF Risk!TradeByHand, RiskInv, Risk!TypeOK, Shaped, Calendar, Risk!NothingSlipsIn,
    Risk!Locked
<1>4. CASE Risk!MarketMoves
  BY <1>4 DEF Risk!MarketMoves, RiskInv, Risk!TypeOK, Shaped, Calendar, Risk!NothingSlipsIn,
    Risk!Locked
<1>5. CASE Risk!FlattenTime
  BY <1>5 DEF Risk!FlattenTime, RiskInv, Risk!TypeOK, Shaped, Calendar, Risk!NothingSlipsIn,
    Risk!Locked
<1>6. CASE Risk!Roll
  BY <1>6 DEF Risk!Roll, RiskInv, Risk!TypeOK, Shaped, Calendar, Risk!NothingSlipsIn, Risk!Locked
<1>7. CASE Risk!Midnight
  BY <1>7 DEF Risk!Midnight, RiskInv, Risk!TypeOK, Shaped, Calendar, Risk!NothingSlipsIn,
    Risk!Locked
<1> QED BY <1>1, <1>2, <1>3, <1>4, <1>5, <1>6, <1>7

\* The owner unlocks by hand.
LEMMA UnlockInv == ASSUME RiskInv, Risk!Unlock PROVE RiskInv'
<1> USE RiskAssumption, RiskRecord DEF Risk!dates, Risk!account, Risk!history
<1>1. /\ rec' \in [kind : {"none", "loss", "time"}, day : Nat, realized : Nat,
                   clockDay : Nat, unlocked : BOOLEAN]
      /\ rec'.kind = rec.kind /\ rec'.day = rec.day /\ rec'.realized = rec.realized
      /\ rec'.clockDay = rec.clockDay /\ rec'.unlocked = TRUE
  BY DEF Risk!Unlock, RiskInv, Shaped
<1> QED BY <1>1 DEF Risk!Unlock, RiskInv, Risk!TypeOK, Shaped, Calendar, Risk!NothingSlipsIn,
          Risk!Locked

\* A look that finds the limit crossed, or the time come, locks before it flattens.
LEMMA ChecksInv == ASSUME RiskInv, Risk!Checks PROVE RiskInv'
<1> USE RiskAssumption, RiskRecord DEF Risk!dates, Risk!account, Risk!history
<1>1. Risk!Hit \in {"none", "loss", "time"}
  BY DEF Risk!Hit
<1>2. rBlind' \in BOOLEAN
  BY Zenon DEF Risk!Checks, RiskInv, Risk!TypeOK
<1>3. CASE Risk!Hit # "none" /\ ~Risk!AlreadyFired(Risk!Hit)
  <2>1. /\ guard' = "flatten" /\ fired' = fired \cup {Risk!Hit}
        /\ rec' = [kind |-> Risk!Hit, day |-> day, realized |-> snap.realized,
                   clockDay |-> clockDay, unlocked |-> FALSE]
    BY <1>3 DEF Risk!Checks, Risk!Trigger
  <2>2. Shaped'
    BY <1>1, <2>1 DEF Risk!Checks, RiskInv, Shaped
  <2>3. Risk!TypeOK'
    BY <1>1, <1>2, <2>1 DEF Risk!Checks, RiskInv, Risk!TypeOK, Shaped
  <2> QED BY <1>1, <1>3, <2>1, <2>2, <2>3 DEF Risk!Checks, RiskInv, Calendar,
            Risk!NothingSlipsIn, Risk!Locked
<1>4. CASE ~(Risk!Hit # "none" /\ ~Risk!AlreadyFired(Risk!Hit))
  <2>1. guard' = "idle" /\ UNCHANGED <<rec, fired>>
    BY <1>4 DEF Risk!Checks
  <2> QED BY <1>2, <2>1 DEF Risk!Checks, RiskInv, Risk!TypeOK, Shaped, Calendar,
            Risk!NothingSlipsIn
<1> QED BY <1>3, <1>4

\* The other steps of the poll keep the record.
LEMMA PollInv ==
    ASSUME RiskInv,
           \/ Risk!Reads \/ Risk!ChecksLocked \/ Risk!FlattenReads
           \/ Risk!Liquidates \/ Risk!TickEnds
    PROVE  RiskInv'
<1> USE RiskAssumption, RiskRecord DEF Risk!dates, Risk!account, Risk!history
<1>1. CASE Risk!Reads
  <2>1. /\ snap' \in [pos : BOOLEAN, openLoss : 0 .. 1, realized : Nat]
        /\ snap'.pos \in BOOLEAN /\ snap'.realized \in Nat /\ snap'.openLoss \in 0 .. 1
    <3>1. pos \in BOOLEAN /\ openLoss \in 0 .. 1 /\ realized \in Nat
      BY DEF RiskInv, Risk!TypeOK
    <3>2. CASE snap' = [pos |-> pos, openLoss |-> openLoss, realized |-> realized]
      BY <3>1, <3>2
    <3>3. CASE snap' = [snap EXCEPT !.pos = FALSE]
      BY <3>3 DEF RiskInv, Shaped
    <3> QED BY <1>1, <3>2, <3>3 DEF Risk!Reads
  <2> QED BY <1>1, <2>1 DEF Risk!Reads, RiskInv, Risk!TypeOK, Shaped, Calendar,
            Risk!NothingSlipsIn
<1>2. CASE Risk!ChecksLocked
  BY <1>2 DEF Risk!ChecksLocked, RiskInv, Risk!TypeOK, Shaped, Calendar, Risk!NothingSlipsIn,
    Risk!Locked
<1>3. CASE Risk!FlattenReads
  BY <1>3 DEF Risk!FlattenReads, RiskInv, Risk!TypeOK, Shaped, Calendar, Risk!NothingSlipsIn,
    Risk!Locked
<1>4. CASE Risk!Liquidates
  <2>1. /\ pos' \in BOOLEAN /\ openLoss' \in 0 .. 1 /\ realized' \in Nat
        /\ ~pos' => openLoss' = 0
        /\ errors' \in 0 .. MaxErrors /\ guard' = "idle"
    <3>0. /\ guard' = "idle" /\ pos \in BOOLEAN /\ openLoss \in 0 .. 1 /\ realized \in Nat
          /\ (~pos => openLoss = 0) /\ errors \in 0 .. MaxErrors
      BY <1>4 DEF Risk!Liquidates, RiskInv, Risk!TypeOK
    <3>1. CASE pos' = FALSE /\ openLoss' = 0 /\ realized' = realized + openLoss
             /\ errors' = errors
      <4>1. pos' \in BOOLEAN
        BY <3>1, Zenon
      <4>2. 0 \in 0 .. 1 /\ realized + openLoss \in Nat
        BY <3>0
      <4> QED BY <3>0, <3>1, <4>1, <4>2
    <3>2. CASE errors < MaxErrors /\ errors' = errors + 1 /\ UNCHANGED <<pos, openLoss, realized>>
      BY <3>0, <3>2
    <3> QED BY <1>4, <3>1, <3>2 DEF Risk!Liquidates
  <2>2. Risk!TypeOK'
    BY <1>4, <2>1 DEF Risk!Liquidates, RiskInv, Risk!TypeOK
  <2> QED BY <1>4, <2>1, <2>2 DEF Risk!Liquidates, RiskInv, Shaped, Calendar,
            Risk!NothingSlipsIn
<1>5. CASE Risk!TickEnds
  BY <1>5 DEF Risk!TickEnds, RiskInv, Risk!TypeOK, Shaped, Calendar, Risk!NothingSlipsIn,
    Risk!Locked
<1> QED BY <1>1, <1>2, <1>3, <1>4, <1>5

\* Every step of the risk guard keeps the invariant.
LEMMA RiskStep == ASSUME RiskInv, Risk!Next PROVE RiskInv'
BY OutsideInv, UnlockInv, ChecksInv, PollInv DEF Risk!Next, Risk!Tick

\* The invariant reads no other variable.
LEMMA RiskStutter == ASSUME RiskInv, UNCHANGED RiskVars PROVE RiskInv'
BY DEF RiskVars, RiskInv, Risk!TypeOK, Shaped, Calendar, Risk!NothingSlipsIn, Risk!Locked
-----------------------------------------------------------------------------
(* LoginToken: the types. A session object is built for an edit, a         *)
(* discovery, a save or a restart, and the writes are of tokens there were.*)

LoginInv ==
    /\ Login!TypeOK
    /\ Len(writes) <= minted

Entries == [tok : 0 .. MaxTokens, acc : 0 .. MaxEdits]
Sessions == [tok : 0 .. MaxTokens, acc : 0 .. MaxEdits, fp : 0 .. MaxEdits]

\* An entry or a session with another token.
LEMMA TokenTypes ==
    ASSUME NEW n \in 1 .. MaxTokens
    PROVE  /\ \A e \in Entries : [e EXCEPT !.tok = n] \in Entries
           /\ \A e \in Sessions : [e EXCEPT !.tok = n] \in Sessions
BY LoginAssumption DEF Entries, Sessions

\* The first session is the stored login.
LEMMA LoginInit == ASSUME Login!Init PROVE LoginInv
<1> USE LoginAssumption
<1>1. Login!MaxObjects \in Nat /\ 1 \in Login!Object /\ 1 \in 1 .. 1
  BY DEF Login!MaxObjects, Login!Object
<1>2. cfg \in Entries /\ cfg.tok = 0 /\ cfg.acc = 0
  BY DEF Login!Init, Entries
<1>3. Login!Built(cfg) \in Sessions
  BY <1>2 DEF Login!Built, Sessions
<1>4. sess \in [Login!Object -> Sessions]
  BY <1>3 DEF Login!Init
<1> QED BY <1>1, <1>2, <1>4 DEF Login!Init, LoginInv, Login!TypeOK, Entries, Sessions

\* A session built from an entry, or kept with the entry's token.
LEMMA ReloadTypes ==
    ASSUME LoginInv, NEW entry \in Entries, Login!Reload(entry)
    PROVE  /\ cur' \in Login!Object /\ cur <= cur' /\ 1 .. cur \subseteq 1 .. cur'
           /\ sess' \in [Login!Object -> Sessions]
<1> USE LoginAssumption
<1>1. /\ Login!MaxObjects \in Nat /\ cur \in 1 .. Login!MaxObjects
      /\ sess \in [Login!Object -> Sessions]
  BY DEF LoginInv, Login!TypeOK, Login!MaxObjects, Login!Object, Sessions
<1>2. CASE sess[cur].fp = entry.acc
  <2>1. sess[cur] \in Sessions
    BY <1>1 DEF Login!Object
  <2>2. [sess[cur] EXCEPT !.tok = entry.tok] \in Sessions
    BY <2>1 DEF Sessions, Entries
  <2>3. sess' = [sess EXCEPT ![cur] = [sess[cur] EXCEPT !.tok = entry.tok]] /\ cur' = cur
    BY <1>2, Zenon DEF Login!Reload
  <2> HIDE DEF Sessions
  <2> QED BY <1>1, <2>2, <2>3 DEF Login!Object
<1>3. CASE sess[cur].fp # entry.acc
  <2>1. Login!Built(entry) \in Sessions
    BY DEF Login!Built, Sessions, Entries
  <2>2. cur < Login!MaxObjects /\ cur' = cur + 1
        /\ sess' = [sess EXCEPT ![cur + 1] = Login!Built(entry)]
    BY <1>3 DEF Login!Reload
  <2> HIDE DEF Sessions
  <2> QED BY <1>1, <2>1, <2>2 DEF Login!Object
<1> QED BY <1>2, <1>3

\* What every step keeps apart from the session: the entry, the sets of objects, the
\* form, the writes and the counters have the types they had.
LEMMA LoginStep == ASSUME LoginInv, Login!Next PROVE LoginInv'
<1> USE LoginAssumption DEF Login!budget
<1>0. /\ Login!MaxObjects \in Nat /\ cur \in Login!Object /\ cur \in Nat
      /\ Login!Object = 1 .. Login!MaxObjects
      /\ cfg \in Entries /\ sess \in [Login!Object -> Sessions]
      /\ form \in {Login!NoForm} \cup Entries
      /\ writes \in Seq(1 .. MaxTokens) /\ Len(writes) <= minted /\ minted \in 0 .. MaxTokens
      /\ renewing \subseteq Login!Object /\ listing \subseteq Login!Object
      /\ (renewing \cup listing) \subseteq 1 .. cur
      /\ edits \in 0 .. MaxEdits /\ connects \in 0 .. MaxConnects /\ forms \in 0 .. MaxForms
      /\ crashes \in 0 .. MaxCrashes
  BY DEF LoginInv, Login!TypeOK, Login!MaxObjects, Login!Object, Entries, Sessions
<1>1. SUFFICES
        /\ cur' \in Login!Object
        /\ cfg' \in Entries /\ sess' \in [Login!Object -> Sessions]
        /\ form' \in {Login!NoForm} \cup Entries
        /\ writes' \in Seq(1 .. MaxTokens) /\ Len(writes') <= minted'
        /\ minted' \in 0 .. MaxTokens
        /\ renewing' \subseteq Login!Object /\ listing' \subseteq Login!Object
        /\ (renewing' \cup listing') \subseteq 1 .. cur'
        /\ edits' \in 0 .. MaxEdits /\ connects' \in 0 .. MaxConnects
        /\ forms' \in 0 .. MaxForms /\ crashes' \in 0 .. MaxCrashes
  <2>1. Len(writes') \in Nat /\ minted' \in Nat /\ minted' <= MaxTokens
    BY <1>1
  <2>2. Len(writes') <= MaxTokens
    BY <1>1, <2>1
  <2> QED BY <1>1, <2>2 DEF LoginInv, Login!TypeOK, Entries, Sessions
<1> HIDE DEF LoginInv
<1>2. CASE Login!Health
  BY <1>0, <1>2, ReloadTypes DEF Login!Health
<1>3. CASE Login!Renew
  BY <1>0, <1>3 DEF Login!Renew
<1>4. CASE Login!WriteToken
  <2>1. Head(writes) \in 1 .. MaxTokens /\ Tail(writes) \in Seq(1 .. MaxTokens)
        /\ Len(Tail(writes)) = Len(writes) - 1 /\ Len(writes) \in Nat
    BY <1>0, <1>4, HeadTailProperties DEF Login!WriteToken
  <2>2. cfg' \in Entries
    BY <1>0, <1>4, <2>1, TokenTypes DEF Login!WriteToken
  <2> QED BY <1>0, <1>4, <2>1, <2>2 DEF Login!WriteToken
<1>5. CASE Login!Paste
  <2>1. minted' \in 1 .. MaxTokens /\ cfg' = [cfg EXCEPT !.tok = minted'] /\ minted' = minted + 1
    BY <1>0, <1>5 DEF Login!Paste
  <2>2. cfg' \in Entries
    BY <1>0, <2>1, TokenTypes
  <2>3. Login!Reload(cfg')
    BY <1>5 DEF Login!Paste
  <2>4. /\ cur' \in Login!Object /\ 1 .. cur \subseteq 1 .. cur'
        /\ sess' \in [Login!Object -> Sessions]
    BY <2>2, <2>3, ReloadTypes
  <2>5. UNCHANGED <<renewing, listing, form, writes, edits, connects, forms, crashes>>
    BY <1>5 DEF Login!Paste
  <2>6. Len(writes) \in Nat
    BY <1>0
  <2> QED BY <1>0, <2>1, <2>2, <2>4, <2>5, <2>6
<1>6. CASE Login!EditAccounts
  <2>1. edits' \in 0 .. MaxEdits /\ cfg' = [cfg EXCEPT !.acc = edits']
    BY <1>0, <1>6 DEF Login!EditAccounts
  <2>2. cfg' \in Entries
    BY <1>0, <2>1 DEF Entries
  <2>3. Login!Reload(cfg')
    BY <1>6 DEF Login!EditAccounts
  <2>4. /\ cur' \in Login!Object /\ 1 .. cur \subseteq 1 .. cur'
        /\ sess' \in [Login!Object -> Sessions]
    BY <2>2, <2>3, ReloadTypes
  <2> QED BY <1>0, <1>6, <2>1, <2>2, <2>4 DEF Login!EditAccounts
<1>7. CASE Login!OpenForm
  BY <1>0, <1>7 DEF Login!OpenForm
<1>8. CASE Login!SaveForm
  <2>1. cfg' \in Entries /\ Login!Reload(cfg') /\ form' = Login!NoForm
    BY <1>0, <1>8 DEF Login!SaveForm
  <2>4. /\ cur' \in Login!Object /\ 1 .. cur \subseteq 1 .. cur'
        /\ sess' \in [Login!Object -> Sessions]
    BY <2>1, ReloadTypes
  <2> QED BY <1>0, <1>8, <2>1, <2>4 DEF Login!SaveForm
<1>9. CASE Login!Connect
  BY <1>0, <1>9 DEF Login!Connect
<1>10. CASE Login!Restart
  <2>1. Login!Built(cfg) \in Sessions
    BY <1>0 DEF Login!Built, Sessions, Entries
  <2>2. sess' \in [Login!Object -> Sessions] /\ cur' \in Login!Object
    BY <1>0, <1>10, <2>1 DEF Login!Restart
  <2>3. writes' = <<>> /\ renewing' = {} /\ listing' = {} /\ form' = Login!NoForm
    BY <1>10 DEF Login!Restart
  <2> QED BY <1>0, <1>10, <2>2, <2>3 DEF Login!Restart
<1>11. CASE \E o \in Login!Object : Login!Renewed(o)
  <2>1. PICK o \in Login!Object : Login!Renewed(o)
    BY <1>11
  <2>2. CASE UNCHANGED <<sess, writes, minted>>
    BY <1>0, <2>1, <2>2 DEF Login!Renewed
  <2>3. CASE /\ minted < MaxTokens /\ minted' = minted + 1
             /\ sess' = [sess EXCEPT ![o].tok = minted']
             /\ writes' = Append(writes, minted')
    <3>1. minted' \in 1 .. MaxTokens
      BY <1>0, <2>3
    <3>2. [sess[o] EXCEPT !.tok = minted'] \in Sessions
      BY <1>0, <3>1, TokenTypes
    <3>3. sess' \in [Login!Object -> Sessions]
      BY <1>0, <2>3, <3>2
    <3>4. writes' \in Seq(1 .. MaxTokens) /\ Len(writes') = Len(writes) + 1
      BY <1>0, <2>3, <3>1, AppendProperties
    <3>5. Len(writes) \in Nat
      BY <1>0
    <3>6. Len(writes') <= minted'
      BY <1>0, <2>3, <3>4, <3>5
    <3>7. /\ minted' \in 0 .. MaxTokens
          /\ UNCHANGED <<cfg, cur, listing, form, edits, connects, forms, crashes>>
      BY <1>0, <2>1, <3>1 DEF Login!Renewed
    <3>8. renewing' \subseteq renewing
      BY <2>1 DEF Login!Renewed
    <3> QED BY <1>0, <3>3, <3>4, <3>6, <3>7, <3>8
  <2> QED BY <2>1, <2>2, <2>3 DEF Login!Renewed
<1>12. CASE \E o \in Login!Object : Login!Listed(o)
  <2>1. PICK o \in Login!Object : Login!Listed(o)
    BY <1>12
  <2>2. CASE UNCHANGED <<cfg, sess>>
    BY <1>0, <2>1, <2>2 DEF Login!Listed
  <2>3. CASE /\ cfg' = [cfg EXCEPT !.acc = sess[o].acc]
             /\ sess' = [sess EXCEPT ![o].fp = cfg'.acc]
    <3>1. sess[o].acc \in 0 .. MaxEdits
      BY <1>0 DEF Sessions
    <3>2. cfg' \in Entries /\ cfg'.acc \in 0 .. MaxEdits
      BY <1>0, <2>3, <3>1 DEF Entries
    <3>3. [sess[o] EXCEPT !.fp = cfg'.acc] \in Sessions
      BY <1>0, <3>2 DEF Sessions
    <3>4. sess' \in [Login!Object -> Sessions]
      BY <1>0, <2>3, <3>3
    <3> QED BY <1>0, <2>1, <3>2, <3>4 DEF Login!Listed
  <2> QED BY <2>1, <2>2, <2>3 DEF Login!Listed
<1> QED BY <1>2, <1>3, <1>4, <1>5, <1>6, <1>7, <1>8, <1>9, <1>10, <1>11, <1>12 DEF Login!Next

\* The invariant reads no other variable.
LEMMA LoginStutter == ASSUME LoginInv, UNCHANGED LoginVars PROVE LoginInv'
BY DEF LoginVars, LoginInv, Login!TypeOK
-----------------------------------------------------------------------------
(* ProtectiveStop: the types. Of an entry no more is closed than it has.   *)

BracketInv == Bracket!TypeOK

\* An entry starts flat, without orders.
LEMMA BracketInit == ASSUME Bracket!Init PROVE BracketInv
<1> USE BracketAssumption DEF Bracket!QtyAssumption
<1>1. 0 \in 0 .. Qty
  OBVIOUS
<1> QED BY <1>1 DEF Bracket!Init, BracketInv, Bracket!TypeOK

\* Quantities of orders are natural numbers.
LEMMA BracketSizes ==
    ASSUME BracketInv
    PROVE  /\ Qty \in Nat /\ Qty > 0 /\ net \in Int /\ entered \in 0 .. Qty
           /\ Bracket!Entry \in Bracket!Order
           /\ \A o \in Bracket!Order : Bracket!Size(o) \in Int
<1> USE BracketAssumption DEF Bracket!QtyAssumption
<1>1. \A n \in Nat : Bracket!Slice(n) \in Int
  BY DEF Bracket!Slice, Bracket!Least
<1>2. \A o \in Bracket!Target : o[2] \in Nat
  BY DEF Bracket!Target
<1> QED BY <1>1, <1>2 DEF BracketInv, Bracket!TypeOK, Bracket!Order, Bracket!Size

\* One request and its answer.
LEMMA PlaceTypes ==
    ASSUME BracketInv, NEW o \in Bracket!Order, Bracket!Place(o)
    PROVE  /\ status' \in [Bracket!Order -> {"none", "working", "filled", "gone"}]
           /\ answer' \in [Bracket!Order -> {"none", "ok", "refused", "unknown"}]
BY DEF BracketInv, Bracket!TypeOK, Bracket!Place

\* Every step of an entry keeps the types.
LEMMA BracketStep == ASSUME BracketInv, Bracket!Next PROVE BracketInv'
<1> USE BracketAssumption, BracketSizes DEF Bracket!QtyAssumption
<1>1. CASE Bracket!PlaceEntry
  <2>1. answer' \in [Bracket!Order -> {"none", "ok", "refused", "unknown"}]
        /\ bPc' \in {"bracket", "refused"}
    BY <1>1 DEF Bracket!PlaceEntry, BracketInv, Bracket!TypeOK
  <2>2. \/ UNCHANGED <<status, net, entered>>
        \/ Bracket!EntryTaken
    BY <1>1 DEF Bracket!PlaceEntry
  <2>3. /\ status' \in [Bracket!Order -> {"none", "working", "filled", "gone"}]
        /\ net' \in Int /\ entered' \in 0 .. Qty
    BY <2>2 DEF Bracket!EntryTaken, BracketInv, Bracket!TypeOK
  <2>4. UNCHANGED <<limit, targeted, left, bBlind, closing>>
    BY <1>1 DEF Bracket!PlaceEntry
  <2> QED BY <2>1, <2>3, <2>4 DEF BracketInv, Bracket!TypeOK, Bracket!Ended
<1>2. CASE Bracket!BracketAnswered
  <2>1. bPc' \in {"tracked", "retry", "list"}
    BY <1>2 DEF Bracket!BracketAnswered
  <2> QED BY <1>2, <2>1 DEF Bracket!BracketAnswered, BracketInv, Bracket!TypeOK, Bracket!Ended
<1>3. CASE Bracket!RetryStop
  <2>1. <<"stop", 2>> \in Bracket!Order /\ Bracket!Known \subseteq Bracket!Order
    BY DEF Bracket!Order, Bracket!Stop, Bracket!Known
  <2>2. bPc' \in {"tracked", "cancel", "list"} /\ targeted' \in {targeted, Bracket!Known}
    BY <1>3 DEF Bracket!RetryStop
  <2>3. Bracket!Place(<<"stop", 2>>)
    BY <1>3 DEF Bracket!RetryStop
  <2>4. UNCHANGED <<limit, net, entered, left, bBlind, closing>>
    BY <1>3 DEF Bracket!RetryStop
  <2>5. /\ status' \in [Bracket!Order -> {"none", "working", "filled", "gone"}]
        /\ answer' \in [Bracket!Order -> {"none", "ok", "refused", "unknown"}]
    BY <2>1, <2>3, PlaceTypes
  <2> QED BY <2>1, <2>2, <2>4, <2>5 DEF BracketInv, Bracket!TypeOK, Bracket!Ended
<1>4. CASE Bracket!ListOrders
  <2>1. targeted' \subseteq Bracket!Order /\ bBlind' \subseteq {"orders", "positions", "id"}
    BY <1>4 DEF Bracket!ListOrders, BracketInv, Bracket!TypeOK
  <2> QED BY <1>4, <2>1 DEF Bracket!ListOrders, BracketInv, Bracket!TypeOK
<1>5. CASE Bracket!CancelsDone
  <2>1. bPc' \in {"read", "close"} /\ closing' \in 0 .. Qty
    BY <1>5 DEF Bracket!CancelsDone, BracketInv, Bracket!TypeOK
  <2>2. UNCHANGED <<limit, status, answer, net, entered, targeted, left, bBlind>>
    BY <1>5 DEF Bracket!CancelsDone
  <2> QED BY <2>1, <2>2 DEF BracketInv, Bracket!TypeOK
<1>6. CASE Bracket!ReadPosition
  <2>1. Bracket!Least(Qty, IF net > 0 THEN net ELSE 0) \in 0 .. Qty
    BY DEF Bracket!Least
  <2>2. closing' \in 0 .. Qty /\ bBlind' \subseteq {"orders", "positions", "id"}
    <3>1. CASE closing' = Bracket!Least(Qty, IF net > 0 THEN net ELSE 0) /\ UNCHANGED bBlind
      BY <2>1, <3>1 DEF BracketInv, Bracket!TypeOK
    <3>2. CASE closing' = Qty /\ bBlind' = bBlind \cup {"positions"}
      BY <3>2 DEF BracketInv, Bracket!TypeOK
    <3> QED BY <1>6, <3>1, <3>2 DEF Bracket!ReadPosition
  <2>3. /\ bPc' \in {"failed", "close"}
        /\ UNCHANGED <<limit, status, answer, net, entered, targeted, left>>
    BY <1>6 DEF Bracket!ReadPosition
  <2> QED BY <2>2, <2>3 DEF BracketInv, Bracket!TypeOK, Bracket!Ended
<1>7. CASE Bracket!CloseEntry
  <2>1. closing \in 0 .. Qty /\ net - closing \in Int
    BY DEF BracketInv, Bracket!TypeOK
  <2>2. bPc' \in {"failed", "again", "unprotected"} /\ net' \in Int
    BY <1>7, <2>1 DEF Bracket!CloseEntry
  <2> QED BY <1>7, <2>2 DEF Bracket!CloseEntry, BracketInv, Bracket!TypeOK, Bracket!Ended
<1>8. ASSUME NEW o \in Bracket!Order, Bracket!PlaceBracket(o) PROVE BracketInv'
  BY <1>8, PlaceTypes DEF Bracket!PlaceBracket, BracketInv, Bracket!TypeOK
<1>9. ASSUME NEW o \in Bracket!Order, Bracket!CancelOrder(o) PROVE BracketInv'
  BY <1>9 DEF Bracket!CancelOrder, BracketInv, Bracket!TypeOK
<1>10. CASE Bracket!EntryFills
  <2>1. PICK f \in (entered + 1) .. Qty :
          /\ entered' = f /\ net' = net + (f - entered)
          /\ status' = [status EXCEPT ![Bracket!Entry] = IF f = Qty THEN "filled" ELSE "working"]
    BY <1>10 DEF Bracket!EntryFills
  <2>2. entered' \in 0 .. Qty /\ net' \in Int
    BY <2>1
  <2>3. status' \in [Bracket!Order -> {"none", "working", "filled", "gone"}]
    BY <2>1 DEF BracketInv, Bracket!TypeOK
  <2> QED BY <1>10, <2>2, <2>3 DEF Bracket!EntryFills, BracketInv, Bracket!TypeOK
<1>11. CASE Bracket!ExitFills
  <2>1. PICK o \in Bracket!Stop \cup Bracket!Target :
          /\ status' = [status EXCEPT ![o] = "filled"] /\ net' = net - Bracket!Size(o)
    BY <1>11 DEF Bracket!ExitFills
  <2>2. Bracket!Size(o) \in Int
    BY DEF Bracket!Order
  <2>3. net' \in Int
    BY <2>1, <2>2
  <2>4. status' \in [Bracket!Order -> {"none", "working", "filled", "gone"}]
    BY <2>1 DEF BracketInv, Bracket!TypeOK
  <2> QED BY <1>11, <2>3, <2>4 DEF Bracket!ExitFills, BracketInv, Bracket!TypeOK
<1>12. CASE Bracket!Finished
  BY <1>12 DEF Bracket!Finished, Bracket!vars, BracketInv, Bracket!TypeOK
<1> QED BY <1>1, <1>2, <1>3, <1>4, <1>5, <1>6, <1>7, <1>8, <1>9, <1>10, <1>11, <1>12
          DEF Bracket!Next, Bracket!Handler

\* The invariant reads no other variable.
LEMMA BracketStutter == ASSUME BracketInv, UNCHANGED BracketVars PROVE BracketInv'
BY DEF BracketVars, BracketInv, Bracket!TypeOK

(***************************************************************************)
(* The suite: a behaviour is one of one part, whose invariant it keeps.    *)
(***************************************************************************)
\* The invariant of the part that runs.
EInv ==
    /\ part \in Parts
    /\ part = "Locks" => LocksInv
    /\ part = "Risk" => RiskInv
    /\ part = "Login" => LoginInv
    /\ part = "Reads" => ReadsInv
    /\ part = "Bracket" => BracketInv
    /\ part = "Records" => RecordsInv

\* Every part starts in its invariant.
LEMMA SuiteInit == ASSUME Init PROVE EInv
<1>1. part = "Locks" => LocksInv
    BY LocksInit DEF Init
<1>2. part = "Risk" => RiskInv
    BY RiskInit DEF Init
<1>3. part = "Login" => LoginInv
    BY LoginInit DEF Init
<1>4. part = "Reads" => ReadsInv
    BY ReadsInit DEF Init
<1>5. part = "Bracket" => BracketInv
    BY BracketInit DEF Init
<1>6. part = "Records" => RecordsInv
    BY RecordsInit DEF Init
<1>7. part \in Parts
    BY DEF Init
<1> QED
    BY <1>1, <1>2, <1>3, <1>4, <1>5, <1>6, <1>7 DEF EInv

\* A step is of the part that runs, and the part stays the one that runs.
LEMMA SuiteStep == ASSUME EInv, [Next]_vars PROVE EInv'
<1> USE DEF Parts
<1>1. CASE RunLocks
    <2>1. part = "Locks" /\ part' = "Locks" /\ LocksInv /\ Locks!Next
        BY <1>1 DEF RunLocks, EInv
    <2>2. LocksInv'
        BY <2>1, LocksStep
    <2> QED
        BY <2>1, <2>2 DEF EInv
<1>2. CASE RunRisk
    <2>1. part = "Risk" /\ part' = "Risk" /\ RiskInv /\ Risk!Next
        BY <1>2 DEF RunRisk, EInv
    <2>2. RiskInv'
        BY <2>1, RiskStep
    <2> QED
        BY <2>1, <2>2 DEF EInv
<1>3. CASE RunLogin
    <2>1. part = "Login" /\ part' = "Login" /\ LoginInv /\ Login!Next
        BY <1>3 DEF RunLogin, EInv
    <2>2. LoginInv'
        BY <2>1, LoginStep
    <2> QED
        BY <2>1, <2>2 DEF EInv
<1>4. CASE RunReads
    <2>1. part = "Reads" /\ part' = "Reads" /\ ReadsInv /\ Reads!Next
        BY <1>4 DEF RunReads, EInv
    <2>2. ReadsInv'
        BY <2>1, ReadsStep
    <2> QED
        BY <2>1, <2>2 DEF EInv
<1>5. CASE RunBracket
    <2>1. part = "Bracket" /\ part' = "Bracket" /\ BracketInv /\ Bracket!Next
        BY <1>5 DEF RunBracket, EInv
    <2>2. BracketInv'
        BY <2>1, BracketStep
    <2> QED
        BY <2>1, <2>2 DEF EInv
<1>6. CASE RunRecords
    <2>1. part = "Records" /\ part' = "Records" /\ RecordsInv /\ Records!Next
        BY <1>6 DEF RunRecords, EInv
    <2>2. RecordsInv'
        BY <2>1, RecordsStep
    <2> QED
        BY <2>1, <2>2 DEF EInv
<1>7. CASE UNCHANGED vars
    <2>1. part' = part
        BY <1>7 DEF vars
    <2>2. part = "Locks" => LocksInv'
        BY <1>7, LocksStutter DEF vars, EInv
    <2>3. part = "Risk" => RiskInv'
        BY <1>7, RiskStutter DEF vars, EInv
    <2>4. part = "Login" => LoginInv'
        BY <1>7, LoginStutter DEF vars, EInv
    <2>5. part = "Reads" => ReadsInv'
        BY <1>7, ReadsStutter DEF vars, EInv
    <2>6. part = "Bracket" => BracketInv'
        BY <1>7, BracketStutter DEF vars, EInv
    <2>7. part = "Records" => RecordsInv'
        BY <1>7, RecordsStutter DEF vars, EInv
    <2> QED
        BY <2>1, <2>2, <2>3, <2>4, <2>5, <2>6, <2>7 DEF EInv
<1> QED
    BY <1>1, <1>2, <1>3, <1>4, <1>5, <1>6, <1>7 DEF Next

\* The invariants of the six parts hold throughout, for any number of trades, signals,
\* closes, callers, reads, quantities, tokens, edits and failures.
THEOREM EngineInvariant == Spec => []EInv
    BY SuiteInit, SuiteStep, PTL DEF Spec

\* Every part of the engine keeps its types: among them, that the lock of a trade has one
\* holder, and that the bookkeeping of a shared read, of a login and of a bracketed entry
\* stays within what the code writes.
THEOREM TypesCorrect == Spec => []TypeOK
<1>1. EInv => TypeOK
    <2> SUFFICES ASSUME EInv PROVE TypeOK
        OBVIOUS
    <2>1. part = "Locks" => Locks!TypeOK
        BY LocksSafe DEF EInv
    <2>2. part = "Risk" => Risk!TypeOK
        BY DEF EInv, RiskInv
    <2>3. part = "Login" => Login!TypeOK
        BY DEF EInv, LoginInv
    <2>4. part = "Reads" => Reads!TypeOK
        BY ReadsSafe DEF EInv
    <2>5. part = "Bracket" => Bracket!TypeOK
        BY DEF EInv, BracketInv
    <2>6. part = "Records" => Records!TypeOK
        BY RecordsSafe DEF EInv
    <2> QED
        BY <2>1, <2>2, <2>3, <2>4, <2>5, <2>6 DEF TypeOK
<1> QED
    BY <1>1, EngineInvariant, PTL

\* Two signals of one trade never work at the broker together, and a close that lists the
\* trades it covers works beside no signal it had to wait for, although locks are dropped
\* and created anew meanwhile (app/signals.py, app/execution/local.py); nor does an order
\* of the bridge slip into an account its risk guard is flattening (app/risk.py).
THEOREM SignalsAreExclusive == Spec => []SignalsExclusive
<1>1. EInv => SignalsExclusive
    <2> SUFFICES ASSUME EInv PROVE SignalsExclusive
        OBVIOUS
    <2>1. part = "Locks" => Locks!SignalsExclusive /\ Locks!KnownSignalsEnd
        BY LocksSafe DEF EInv
    <2>2. part = "Risk" => Risk!NothingSlipsIn
        BY DEF EInv, RiskInv
    <2> QED
        BY <2>1, <2>2 DEF SignalsExclusive
<1> QED
    BY <1>1, EngineInvariant, PTL

\* A caller of a coalesced read is answered by a read that started after it asked, at most
\* two reads are waited for, and only who was cancelled ends cancelled (app/tradovate.py);
\* the records a restart reads back are no older than the last pass without a failure, and
\* a shutdown that waited for everybody leaves the last ones (app/signals.py, app/main.py).
THEOREM AnswersAreFresh == Spec => []Fresh
<1>1. EInv => Fresh
    <2> SUFFICES ASSUME EInv PROVE Fresh
        OBVIOUS
    <2>1. part = "Reads" => Reads!Fresh /\ Reads!AtMostTwo
        BY ReadsSafe DEF EInv
    <2>2. part = "Records" => Records!RestoresRecent /\ Records!CleanStopKeeps
        BY RecordsSafe DEF EInv
    <2> QED
        BY <2>1, <2>2 DEF Fresh
<1> QED
    BY <1>1, EngineInvariant, PTL
=============================================================================
