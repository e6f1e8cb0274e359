---------------------------- MODULE RelayProofs ----------------------------
(***************************************************************************)
(* What holds of Relay for every set of jobs and of the agent's processes, *)
(* every batch size, every number of lost polls and whatever network       *)
(* errors the agent meets: the state is well typed, an abandoned job is    *)
(* never run, and the relay is an OrderChannel.                            *)
(*                                                                         *)
(* The inductive invariant says where a job is: in the queue and unclaimed *)
(* or in one batch and claimed (OnePlace, ClaimedFirst), that a job in a   *)
(* batch is untaken and nobody was told its end (HeldIsFresh), that a      *)
(* caller is waiting exactly while its job is open (CallersKnow), and that *)
(* every result the bridge has or will get is true (ResultsTrue).          *)
(***************************************************************************)
EXTENDS Relay, SequenceTheorems, WellFoundedInduction, TLAPS

-----------------------------------------------------------------------------
(* Sequences of jobs *)

\* No element of s occurs twice.
Distinct(s) == \A i, k \in 1 .. Len(s) : s[i] = s[k] => i = k

\* Every set of naturals has a least element.
LEMMA LeastNatural ==
  ASSUME NEW T, T \subseteq Nat, T # {}
  PROVE  \E n \in T : \A m \in T : n <= m
<1> DEFINE R == {p \in Nat \X Nat : p[1] < p[2]}
<1>1. IsWellFoundedOn(R, Nat)
  BY NatLessThanWellFounded DEF OpToRel
<1>2. \A x, y \in Nat : y < x => <<y, x>> \in R
  OBVIOUS
<1> HIDE DEF R
<1>3. \E x \in T : \A y \in T : <<y, x>> \notin R
  BY <1>1, WFMin
<1>4. PICK n \in T : \A y \in T : <<y, n>> \notin R
  BY <1>3
<1>5. \A m \in T : n <= m
  <2> TAKE m \in T
  <2>1. n \in Nat /\ m \in Nat /\ ~(m < n)
    BY <1>2, <1>4
  <2> QED BY <2>1
<1> QED BY <1>5

\* The recursive function inside Pending, up to position n.
KeptTo(s, n, k) ==
  k = [i \in 0 .. n |->
         IF i = 0 THEN <<>>
         ELSE IF future[s[i]] = "pending" THEN Append(k[i - 1], s[i]) ELSE k[i - 1]]

\* It exists for every position.
LEMMA KeptExists ==
  ASSUME NEW s, NEW n \in Nat
  PROVE  \E k : KeptTo(s, n, k)
<1> DEFINE Bad == {m \in Nat : ~ \E k : KeptTo(s, m, k)}
<1>1. CASE Bad = {}
  BY <1>1
<1>2. CASE Bad # {}
  <2>1. PICK m \in Bad : \A l \in Bad : m <= l
    <3>1. Bad \subseteq Nat
      OBVIOUS
    <3> HIDE DEF Bad
    <3> QED BY <1>2, <3>1, LeastNatural
  <2>2. m # 0
    <3>1. KeptTo(s, 0, [i \in 0 .. 0 |-> <<>>])
      BY DEF KeptTo
    <3> QED BY <3>1
  <2>3. PICK g : KeptTo(s, m - 1, g)
    <3>1. m - 1 \in Nat /\ m - 1 \notin Bad
      BY <2>1, <2>2
    <3> QED BY <3>1
  <2> DEFINE Ext(k, i) == IF i = 0 THEN <<>>
                          ELSE IF future[s[i]] = "pending" THEN Append(k[i - 1], s[i]) ELSE k[i - 1]
             h == [i \in 0 .. m |-> IF i = m THEN Ext(g, m) ELSE g[i]]
  <2>4. \A i \in 0 .. m : h[i] = Ext(h, i)
    <3> TAKE i \in 0 .. m
    <3>1. CASE i = m
      BY <2>2, <3>1
    <3>2. CASE i # m
      <4>1. h[i] = g[i] /\ i \in 0 .. m - 1
        BY <3>2
      <4>2. g[i] = Ext(g, i)
        BY <2>3, <4>1 DEF KeptTo
      <4>3. i # 0 => h[i - 1] = g[i - 1]
        BY <4>1
      <4> QED BY <4>1, <4>2, <4>3
    <3> QED BY <3>1, <3>2
  <2>5. h = [i \in 0 .. m |-> h[i]]
    OBVIOUS
  <2>6. KeptTo(s, m, h)
    <3> HIDE DEF h
    <3> QED BY <2>4, <2>5 DEF KeptTo
  <2> QED BY <2>1, <2>6
<1> QED BY <1>1, <1>2

\* What the function has kept at each position: pending elements from up to
\* there, none twice if the sequence has none twice.
LEMMA KeptIs ==
  ASSUME NEW s \in Seq(Job), NEW k, KeptTo(s, Len(s), k)
  PROVE  \A n \in 0 .. Len(s) :
           /\ k[n] \in Seq(Job) /\ Len(k[n]) <= n
           /\ \A i \in 1 .. Len(k[n]) : \E m \in 1 .. n : k[n][i] = s[m] /\ future[s[m]] = "pending"
           /\ Distinct(s) => Distinct(k[n])
<1> DEFINE Good(n) ==
           /\ k[n] \in Seq(Job) /\ Len(k[n]) <= n
           /\ \A i \in 1 .. Len(k[n]) : \E m \in 1 .. n : k[n][i] = s[m] /\ future[s[m]] = "pending"
           /\ Distinct(s) => Distinct(k[n])
    Bad == {n \in 0 .. Len(s) : ~Good(n)}
<1>1. CASE Bad = {}
  BY <1>1
<1>2. CASE Bad # {}
  <2>1. PICK n \in Bad : \A l \in Bad : n <= l
    <3>1. Bad \subseteq Nat
      OBVIOUS
    <3> HIDE DEF Bad
    <3> QED BY <1>2, <3>1, LeastNatural
  <2>2. n # 0
    <3>1. k[0] = <<>>
      BY DEF KeptTo
    <3>2. Good(0)
      BY <3>1 DEF Distinct
    <3> QED BY <2>1, <3>2
  <2>3. Good(n - 1)
    <3>1. n \in 0 .. Len(s) /\ Len(s) \in Nat
      BY <2>1
    <3>2. n - 1 \in 0 .. Len(s) /\ ~(n <= n - 1)
      BY <2>2, <3>1
    <3>3. n - 1 \notin Bad
      BY <2>1, <3>2
    <3> QED BY <3>2, <3>3
  <2>4. k[n] = IF future[s[n]] = "pending" THEN Append(k[n - 1], s[n]) ELSE k[n - 1]
    BY <2>1, <2>2 DEF KeptTo
  <2>5. n \in 1 .. Len(s) /\ s[n] \in Job
    BY <2>1, <2>2
  <2>6. CASE future[s[n]] # "pending"
    <3>1. Good(n)
      BY <2>3, <2>4, <2>5, <2>6
    <3> QED BY <2>1, <3>1
  <2>7. CASE future[s[n]] = "pending"
    <3> DEFINE p == k[n - 1]
    <3>1. /\ k[n] \in Seq(Job) /\ Len(k[n]) = Len(p) + 1 /\ k[n][Len(p) + 1] = s[n]
          /\ \A i \in 1 .. Len(p) : k[n][i] = p[i]
      BY <2>3, <2>4, <2>5, <2>7, AppendProperties
    <3>2. \A i \in 1 .. Len(k[n]) : \E m \in 1 .. n : k[n][i] = s[m] /\ future[s[m]] = "pending"
      <4> TAKE i \in 1 .. Len(k[n])
      <4>1. CASE i = Len(p) + 1
        BY <2>5, <2>7, <3>1, <4>1
      <4>2. CASE i # Len(p) + 1
        <5>1. i \in 1 .. Len(p)
          BY <3>1, <2>3, <4>2
        <5>2. PICK m \in 1 .. n - 1 : p[i] = s[m] /\ future[s[m]] = "pending"
          BY <2>3, <5>1
        <5>3. m \in 1 .. n
          BY <2>5
        <5> QED BY <3>1, <5>1, <5>2, <5>3
      <4> QED BY <4>1, <4>2
    <3>3. ASSUME Distinct(s) PROVE Distinct(k[n])
      <4>1. \A i \in 1 .. Len(p) : p[i] # s[n]
        <5> TAKE i \in 1 .. Len(p)
        <5>1. PICK m \in 1 .. n - 1 : p[i] = s[m]
          BY <2>3
        <5>2. m \in 1 .. Len(s) /\ m # n
          BY <2>5
        <5> QED BY <2>5, <3>3, <5>1, <5>2 DEF Distinct
      <4>2. Distinct(p)
        BY <2>3, <3>3
      <4>3. Len(p) \in Nat
        BY <2>3
      <4> HIDE DEF p
      <4> QED BY <3>1, <4>1, <4>2, <4>3 DEF Distinct
    <3>4. Good(n)
      BY <2>3, <2>5, <3>1, <3>2, <3>3
    <3> QED BY <2>1, <3>4
  <2> QED BY <2>6, <2>7
<1> QED BY <1>1, <1>2

\* What Pending returns.
LEMMA PendingIs ==
  ASSUME NEW s \in Seq(Job)
  PROVE  /\ Pending(s) \in Seq(Job) /\ Len(Pending(s)) <= Len(s)
         /\ \A j \in Range(Pending(s)) : j \in Range(s) /\ future[j] = "pending"
         /\ Distinct(s) => Distinct(Pending(s))
<1> DEFINE f == CHOOSE k : KeptTo(s, Len(s), k)
<1>1. KeptTo(s, Len(s), f)
  BY KeptExists
<1>2. Pending(s) = f[Len(s)]
  BY DEF Pending, KeptTo
<1>3. Len(s) \in 0 .. Len(s)
  OBVIOUS
<1> HIDE DEF f
<1>4. /\ f[Len(s)] \in Seq(Job) /\ Len(f[Len(s)]) <= Len(s)
      /\ \A i \in 1 .. Len(f[Len(s)]) :
           \E m \in 1 .. Len(s) : f[Len(s)][i] = s[m] /\ future[s[m]] = "pending"
      /\ Distinct(s) => Distinct(f[Len(s)])
  BY <1>1, <1>3, KeptIs
<1>5. \A i \in 1 .. Len(f[Len(s)]) : f[Len(s)][i] \in Range(s) /\ future[f[Len(s)][i]] = "pending"
  <2>1. \A m \in 1 .. Len(s) : s[m] \in Range(s)
    BY DEF Range
  <2> QED BY <1>4, <2>1
<1>6. DOMAIN f[Len(s)] = 1 .. Len(f[Len(s)])
  BY <1>4
<1> QED BY <1>2, <1>4, <1>5, <1>6 DEF Range

\* A sequence with one more, or one fewer, element.
LEMMA AppendIs ==
  ASSUME NEW s \in Seq(Job), NEW j \in Job
  PROVE  /\ Append(s, j) \in Seq(Job)
         /\ Range(Append(s, j)) = Range(s) \cup {j}
         /\ Distinct(s) /\ j \notin Range(s) => Distinct(Append(s, j))
<1>1. /\ Append(s, j) \in Seq(Job) /\ Len(Append(s, j)) = Len(s) + 1
      /\ \A i \in 1 .. Len(s) : Append(s, j)[i] = s[i]
      /\ Append(s, j)[Len(s) + 1] = j
  BY AppendProperties
<1>2. Len(s) \in Nat /\ DOMAIN s = 1 .. Len(s) /\ DOMAIN Append(s, j) = 1 .. Len(s) + 1
  BY <1>1
<1>3. Range(Append(s, j)) = Range(s) \cup {j}
  BY <1>1, <1>2 DEF Range
<1>4. Distinct(s) /\ j \notin Range(s) => Distinct(Append(s, j))
  BY <1>1, <1>2 DEF Range, Distinct
<1> QED BY <1>1, <1>3, <1>4

\* The first element of a sequence, and the rest.
LEMMA TailIs ==
  ASSUME NEW s \in Seq(Job), s # <<>>
  PROVE  /\ Head(s) \in Job /\ Head(s) \in Range(s)
         /\ Tail(s) \in Seq(Job) /\ Len(Tail(s)) <= Len(s)
         /\ Range(Tail(s)) \subseteq Range(s)
         /\ Distinct(s) => Distinct(Tail(s)) /\ Head(s) \notin Range(Tail(s))
<1>1. /\ Head(s) = s[1] /\ s[1] \in Job /\ Len(s) \in Nat \ {0}
      /\ Tail(s) \in Seq(Job) /\ Len(Tail(s)) = Len(s) - 1
      /\ \A i \in 1 .. Len(s) - 1 : Tail(s)[i] = s[i + 1]
  BY HeadTailProperties
<1>2. DOMAIN s = 1 .. Len(s) /\ DOMAIN Tail(s) = 1 .. Len(s) - 1
  BY <1>1
<1> QED BY <1>1, <1>2 DEF Range, Distinct

\* The two parts next_jobs cuts the queue into.
LEMMA DrawnIs ==
  ASSUME queue \in Seq(Job)
  PROVE  LET rest == SubSeq(queue, Len(Drawn) + 1, Len(queue))
         IN /\ Drawn \in Seq(Job) /\ Len(Drawn) <= MaxJobs /\ rest \in Seq(Job)
            /\ Range(Drawn) \subseteq Range(queue) /\ Range(rest) \subseteq Range(queue)
            /\ Distinct(queue) => /\ Distinct(Drawn) /\ Distinct(rest)
                                  /\ Range(Drawn) \cap Range(rest) = {}
<1> DEFINE n == Len(Drawn)
           rest == SubSeq(queue, n + 1, Len(queue))
<1>1. Len(queue) \in Nat /\ DOMAIN queue = 1 .. Len(queue) /\ \A i \in 1 .. Len(queue) : queue[i] \in Job
  OBVIOUS
<1>2. /\ n \in 0 .. Len(queue) /\ n <= MaxJobs /\ Drawn \in Seq(Job)
      /\ \A i \in 1 .. n : Drawn[i] = queue[i]
  BY <1>1, RelayAssumption, SubSeqProperties DEF Drawn
<1>3. /\ rest \in Seq(Job) /\ Len(rest) = Len(queue) - n
      /\ \A i \in 1 .. Len(queue) - n : rest[i] = queue[n + i]
  BY <1>1, <1>2, SubSeqProperties
<1>4. DOMAIN Drawn = 1 .. n /\ DOMAIN rest = 1 .. Len(queue) - n
  BY <1>2, <1>3
<1> HIDE DEF n, rest
<1>5. /\ \A j \in Range(Drawn) : \E i \in 1 .. Len(queue) : i <= n /\ j = queue[i]
      /\ \A j \in Range(rest) : \E i \in 1 .. Len(queue) : i > n /\ j = queue[i]
  <2>1. \A i \in 1 .. n : i \in 1 .. Len(queue) /\ i <= n
    BY <1>1, <1>2
  <2>2. \A i \in 1 .. Len(queue) - n : n + i \in 1 .. Len(queue) /\ n + i > n
    BY <1>1, <1>2
  <2> QED BY <1>2, <1>3, <1>4, <2>1, <2>2 DEF Range
<1>6. Range(Drawn) \subseteq Range(queue) /\ Range(rest) \subseteq Range(queue)
  BY <1>1, <1>5 DEF Range
<1>7. ASSUME Distinct(queue)
      PROVE  Distinct(Drawn) /\ Distinct(rest) /\ Range(Drawn) \cap Range(rest) = {}
  <2>1. Distinct(Drawn)
    <3>1. \A i \in 1 .. n : i \in 1 .. Len(queue)
      BY <1>1, <1>2
    <3> QED BY <1>2, <1>7, <3>1 DEF Distinct, n
  <2>2. Distinct(rest)
    <3>1. \A i \in 1 .. Len(queue) - n : n + i \in 1 .. Len(queue)
      BY <1>1, <1>2
    <3> QED BY <1>1, <1>2, <1>3, <1>7, <3>1 DEF Distinct
  <2>3. ASSUME NEW j \in Range(Drawn) \cap Range(rest)
        PROVE  FALSE
    <3>1. PICK i \in 1 .. Len(queue) : i <= n /\ j = queue[i]
      BY <1>5, <2>3
    <3>2. PICK k \in 1 .. Len(queue) : k > n /\ j = queue[k]
      BY <1>5, <2>3
    <3>3. i = k
      BY <1>7, <3>1, <3>2 DEF Distinct
    <3> QED BY <1>1, <1>2, <3>1, <3>2, <3>3
  <2> QED BY <2>1, <2>2, <2>3
<1> QED BY <1>2, <1>3, <1>6, <1>7 DEF n, rest

-----------------------------------------------------------------------------
(* The inductive invariant *)

\* The jobs a process was handed and has not run.
Held(h) == Range(batch[h])

\* A process runs jobs exactly while its batch has any.
BusyHasWork == \A h \in Helper : helper[h] = "running" <=> batch[h] # <<>>

\* A job is in one place: unclaimed in the queue, or in one batch, once.
OnePlace ==
    /\ Distinct(queue)
    /\ \A j \in Range(queue) : ~claimed[j]
    /\ \A h \in Helper : Distinct(batch[h])
    /\ \A g, h \in Helper : g # h => Held(g) \cap Held(h) = {}

\* What was handed out was claimed before, and what was claimed or queued was
\* requested.
ClaimedFirst ==
    \A j \in Job :
        /\ (\E h \in Helper : j \in Held(h)) \/ taken[j] # 0 \/ future[j] \in Results
              \/ (\E r \in Results : <<j, r>> \in posted) => claimed[j]
        /\ claimed[j] \/ j \in Range(queue) => caller[j] # "idle"

\* A job in a batch has not run and has no answer, and its caller was told nothing
\* that an execution would make untrue.
HeldIsFresh ==
    \A h \in Helper : \A j \in Held(h) :
        /\ taken[j] = 0
        /\ future[j] \in {"pending", "cancelled"}
        /\ \A r \in Results : <<j, r>> \notin posted
        /\ told[j] \in {"open", "unknown", "gone"}

\* A caller waits exactly while its job is open, and then on a future that lives.
CallersKnow ==
    \A j \in Job :
        /\ told[j] = "unsent" <=> caller[j] = "idle"
        /\ told[j] = "open" <=> Waiting(j)
        /\ caller[j] = "idle" => future[j] = "none"
        /\ Waiting(j) => future[j] # "none" /\ future[j] # "cancelled"
        /\ caller[j] = "result" => claimed[j]

\* The bridge has, or is on its way to have, this result of the job
Has(j, r) == future[j] = r \/ <<j, r>> \in posted

\* Every answer given, kept or on its way is true of the broker.
ResultsTrue ==
    \A j \in Job :
        /\ taken[j] <= 1
        /\ Has(j, "done") \/ told[j] = "accepted" => taken[j] = 1
        /\ Has(j, "no") \/ Has(j, "connect") => taken[j] = 0
        /\ Has(j, "dropped") => j \in cut
        /\ told[j] = "refused" => taken[j] = 0 \/ j \in cut

RInv == /\ TypeOK /\ BusyHasWork /\ OnePlace /\ ClaimedFirst /\ HeldIsFresh
        /\ CallersKnow /\ ResultsTrue

\* What one turn of next_jobs does to the queue, and what it takes out of it.
LEMMA DrawIs ==
  ASSUME RInv, Draw
  PROVE  /\ Live \in Seq(Job) /\ Len(Live) <= MaxJobs /\ Distinct(Live)
         /\ \A j \in Range(Live) : j \in Job /\ future[j] = "pending" /\ ~claimed[j]
         /\ queue' \in Seq(Job) /\ Distinct(queue') /\ Range(queue') \subseteq Range(queue)
         /\ \A j \in Range(queue') : j \notin Range(Live)
         /\ claimed' \in [Job -> BOOLEAN] /\ online' \in BOOLEAN
         /\ \A j \in Job : claimed'[j] <=> claimed[j] \/ j \in Range(Live)
<1>1. queue \in Seq(Job) /\ Distinct(queue) /\ \A j \in Range(queue) : ~claimed[j]
  BY DEF RInv, TypeOK, OnePlace
<1>2. \A j \in Range(queue) : j \in Job
  BY <1>1 DEF Range
<1>3. /\ Drawn \in Seq(Job) /\ Len(Drawn) <= MaxJobs /\ queue' \in Seq(Job)
      /\ Range(Drawn) \subseteq Range(queue) /\ Range(queue') \subseteq Range(queue)
      /\ Distinct(Drawn) /\ Distinct(queue') /\ Range(Drawn) \cap Range(queue') = {}
  BY <1>1, DrawnIs DEF Draw
<1>4. /\ Live \in Seq(Job) /\ Len(Live) <= Len(Drawn) /\ Distinct(Live)
      /\ \A j \in Range(Live) : j \in Range(Drawn) /\ future[j] = "pending"
  BY <1>3, PendingIs DEF Live
<1>5. Len(Live) <= MaxJobs
  BY <1>3, <1>4, RelayAssumption
<1>6. /\ claimed' = [j \in Job |-> claimed[j] \/ j \in Range(Live)]
      /\ online' = (online \/ Live # <<>>)
  BY DEF Draw
<1>7. claimed' \in [Job -> BOOLEAN] /\ online' \in BOOLEAN
  BY <1>6 DEF RInv, TypeOK
<1> QED BY <1>1, <1>2, <1>3, <1>4, <1>5, <1>6, <1>7

-----------------------------------------------------------------------------
(* Each step keeps the invariant *)

\* A caller ends with an answer that is true of its job.
LEMMA OverKeeps ==
  ASSUME RInv, NEW j \in Job, Waiting(j), NEW answer \in {"accepted", "refused", "unknown", "gone"},
         Over(j, answer),
         UNCHANGED <<claimed, queue, online, polls, helper, batch, posted, taken, cut>>,
         answer = "accepted" => future[j] \in Results /\ taken[j] = 1,
         answer = "refused" => /\ future[j] \in Results \/ ~claimed[j]
                               /\ taken[j] = 0 \/ j \in cut
  PROVE  RInv'
<1>1. /\ caller'[j] = "over" /\ told'[j] = answer
      /\ future'[j] = IF future[j] = "pending" THEN "cancelled" ELSE future[j]
      /\ \A i \in Job : i # j => caller'[i] = caller[i] /\ told'[i] = told[i] /\ future'[i] = future[i]
  BY DEF RInv, TypeOK, Over
<1>2. /\ caller' \in [Job -> {"idle", "dispatch", "result", "over"}]
      /\ told' \in [Job -> {"unsent", "open", "accepted", "refused", "unknown", "gone"}]
      /\ future' \in [Job -> {"none", "pending", "cancelled"} \cup Results]
  BY DEF RInv, TypeOK, Over
<1>3. TypeOK'
  BY <1>1, <1>2 DEF RInv, TypeOK, Waiting
<1>4. BusyHasWork' /\ OnePlace'
  BY DEF RInv, BusyHasWork, OnePlace, Held
<1>5. ClaimedFirst'
  <2>1. \A i \in Job : future'[i] \in Results => future[i] \in Results
    BY <1>1, RelayAssumption DEF Results
  <2>2. \A i \in Job : caller'[i] = "idle" => caller[i] = "idle"
    BY <1>1
  <2>3. \A h \in Helper : Held(h)' = Held(h)
    BY DEF Held
  <2> QED BY <2>1, <2>2, <2>3 DEF RInv, ClaimedFirst
<1>6. HeldIsFresh'
  <2> SUFFICES ASSUME NEW h \in Helper, NEW i \in Held(h)
               PROVE  /\ future'[i] \in {"pending", "cancelled"}
                      /\ told'[i] \in {"open", "unknown", "gone"}
    BY DEF RInv, HeldIsFresh, Held
  <2>1. /\ i \in Job /\ claimed[i] /\ taken[i] = 0 /\ future[i] \in {"pending", "cancelled"}
        /\ told[i] \in {"open", "unknown", "gone"}
    BY DEF RInv, HeldIsFresh, Held, TypeOK, Range, ClaimedFirst
  <2>2. future[i] \notin Results
    BY <2>1, RelayAssumption DEF Results
  <2> QED BY <1>1, <2>1, <2>2
<1>7. CallersKnow'
  BY <1>1 DEF RInv, CallersKnow, Waiting
<1>8. ResultsTrue'
  <2>1. \A i \in Job, r \in {"done", "no", "connect", "dropped"} : Has(i, r)' => Has(i, r)
    BY <1>1 DEF Has
  <2>2. \A i \in Job : (told'[i] = "accepted" \/ told'[i] = "refused") => i = j \/ told'[i] = told[i]
    BY <1>1
  <2>3. "accepted" # "refused" /\ (told'[j] = "accepted" => answer = "accepted")
          /\ (told'[j] = "refused" => answer = "refused")
    BY <1>1
  <2> QED BY <2>1, <2>2, <2>3 DEF RInv, ResultsTrue
<1> QED BY <1>3, <1>4, <1>5, <1>6, <1>7, <1>8 DEF RInv

\* The agent's processes come and go, and may forget what they hold.
LEMMA AgentMoves ==
  ASSUME RInv, TypeOK', BusyHasWork', UNCHANGED <<bridgeVars, queue, posted, taken, cut>>,
         \A h \in Helper : batch'[h] = batch[h] \/ batch'[h] = <<>>
  PROVE  RInv'
<1>1. \A h \in Helper : /\ \A j \in Held(h)' : j \in Held(h)
                        /\ Distinct(batch[h]) => Distinct(batch'[h])
  BY DEF Held, Range, Distinct
<1>2. OnePlace'
  BY <1>1 DEF RInv, OnePlace, bridgeVars
<1>3. ClaimedFirst' /\ HeldIsFresh'
  BY <1>1 DEF RInv, ClaimedFirst, HeldIsFresh, bridgeVars
<1>4. CallersKnow' /\ ResultsTrue'
  BY DEF RInv, CallersKnow, ResultsTrue, Has, Waiting, bridgeVars
<1> QED BY <1>2, <1>3, <1>4 DEF RInv

\* The steps of the agent that run nothing and are handed nothing, and the ends
\* of the polls.
LEMMA IdleKeeps ==
  ASSUME RInv, NEW h,
         \/ h \in Helper /\ (Poll(h) \/ HandOutNothing(h) \/ PollLost(h) \/ HelperFails(h))
         \/ LostPollEnds \/ GoesOffline
  PROVE  RInv'
<1>1. UNCHANGED <<bridgeVars, queue, posted, taken, cut>>
  BY DEF Poll, HandOutNothing, PollLost, HelperFails, LostPollEnds, GoesOffline
<1>2. polls' \in 0 .. MaxPolls
  BY RelayAssumption
  DEF RInv, TypeOK, Poll, HandOutNothing, PollLost, HelperFails, LostPollEnds, GoesOffline
<1>3. online' \in BOOLEAN /\ helper' \in [Helper -> {"ready", "polling", "running"}]
  BY DEF RInv, TypeOK, Poll, HandOutNothing, PollLost, HelperFails, LostPollEnds, GoesOffline
<1>4. \/ batch' = batch /\ \A g \in Helper : helper'[g] = "running" <=> helper[g] = "running"
      \/ /\ h \in Helper /\ batch' = [batch EXCEPT ![h] = <<>>]
         /\ helper' = [helper EXCEPT ![h] = "ready"]
  BY DEF RInv, TypeOK, Poll, HandOutNothing, PollLost, HelperFails, LostPollEnds, GoesOffline
<1>5. /\ \A g \in Helper : batch'[g] = batch[g] \/ batch'[g] = <<>>
      /\ \A g \in Helper : helper'[g] = "running" <=> batch'[g] # <<>>
  BY <1>4 DEF RInv, TypeOK, BusyHasWork
<1>6. batch' \in [Helper -> Seq(Job)] /\ \A g \in Helper : Len(batch'[g]) <= MaxJobs
  <2>1. <<>> \in Seq(Job) /\ Len(<<>>) <= MaxJobs
    BY RelayAssumption
  <2>2. batch' \in [Helper -> Seq(Job)]
    BY <1>4, <2>1 DEF RInv, TypeOK
  <2> QED BY <1>5, <2>1, <2>2 DEF RInv, TypeOK
<1>7. TypeOK'
  BY <1>1, <1>2, <1>3, <1>6 DEF RInv, TypeOK, bridgeVars, Waiting
<1> QED BY <1>1, <1>5, <1>7, AgentMoves DEF BusyHasWork

\* A request joins a queue it was never in.
LEMMA RequestKeeps ==
  ASSUME RInv, NEW j \in Job, Request(j)
  PROVE  RInv'
<1>1. /\ caller'[j] = "dispatch" /\ told'[j] = "open" /\ future'[j] = "pending"
      /\ \A i \in Job : i # j => caller'[i] = caller[i] /\ told'[i] = told[i] /\ future'[i] = future[i]
      /\ UNCHANGED <<claimed, polls, helper, batch, posted, taken, cut>>
  BY DEF RInv, TypeOK, Request
<1>2. /\ ~claimed[j] /\ j \notin Range(queue) /\ taken[j] = 0
      /\ \A h \in Helper : j \notin Held(h)
      /\ \A r \in Results : <<j, r>> \notin posted
  BY DEF RInv, ClaimedFirst, Request
<1>3. /\ queue' \in Seq(Job) /\ Distinct(queue')
      /\ \A i \in Range(queue') : i \in Range(queue) \/ i = j
  <2>1. /\ Prune \in Seq(Job) /\ Distinct(Prune) /\ \A i \in Range(Prune) : i \in Range(queue)
    BY PendingIs DEF Prune, RInv, TypeOK, OnePlace
  <2>2. queue' = Append(Prune, j) /\ j \notin Range(Prune)
    BY <1>2, <2>1 DEF Request
  <2> HIDE DEF Prune
  <2> QED BY <2>1, <2>2, AppendIs
<1>4. TypeOK'
  <2>1. /\ caller' \in [Job -> {"idle", "dispatch", "result", "over"}]
        /\ told' \in [Job -> {"unsent", "open", "accepted", "refused", "unknown", "gone"}]
        /\ future' \in [Job -> {"none", "pending", "cancelled"} \cup Results]
        /\ online' \in BOOLEAN
    BY DEF RInv, TypeOK, Request
  <2> QED BY <1>1, <1>3, <2>1 DEF RInv, TypeOK, Waiting
<1>5. BusyHasWork' /\ OnePlace'
  BY <1>1, <1>2, <1>3 DEF RInv, BusyHasWork, OnePlace, Held
<1>6. ClaimedFirst'
  <2>1. \A i \in Job : future'[i] \in Results => future[i] \in Results
    BY <1>1, RelayAssumption DEF Results
  <2>2. \A i \in Job : caller'[i] = "idle" => i # j /\ caller[i] = "idle"
    BY <1>1
  <2> QED BY <1>1, <1>3, <2>1, <2>2 DEF RInv, ClaimedFirst, Held
<1>7. HeldIsFresh'
  <2>1. \A h \in Helper : \A i \in Held(h) : i \in Job
    BY DEF Held, Range, RInv, TypeOK
  <2> QED BY <1>1, <1>2, <2>1 DEF RInv, HeldIsFresh, Held
<1>8. CallersKnow'
  BY <1>1 DEF RInv, CallersKnow, Waiting
<1>9. ResultsTrue'
  <2>1. \A i \in Job, r \in {"done", "no", "connect", "dropped"} : Has(i, r)' => Has(i, r)
    BY <1>1 DEF Has
  <2>2. \A i \in Job : told'[i] \in {"accepted", "refused"} => told'[i] = told[i]
    BY <1>1
  <2> QED BY <1>1, <2>1, <2>2 DEF RInv, ResultsTrue
<1> QED BY <1>4, <1>5, <1>6, <1>7, <1>8, <1>9 DEF RInv

\* A request that finds the agent offline leaves nothing behind.
LEMMA RequestOfflineKeeps ==
  ASSUME RInv, NEW j \in Job, RequestOffline(j)
  PROVE  RInv'
<1>1. /\ caller'[j] = "over" /\ told'[j] = "refused"
      /\ \A i \in Job : i # j => caller'[i] = caller[i] /\ told'[i] = told[i]
      /\ UNCHANGED <<future, claimed, queue, online, polls, helper, batch, posted, taken, cut>>
  BY DEF RInv, TypeOK, RequestOffline
<1>2. taken[j] = 0 /\ future[j] = "none" /\ \A h \in Helper : j \notin Held(h)
  BY DEF RInv, ClaimedFirst, CallersKnow, RequestOffline
<1>3. TypeOK'
  <2>1. /\ caller' \in [Job -> {"idle", "dispatch", "result", "over"}]
        /\ told' \in [Job -> {"unsent", "open", "accepted", "refused", "unknown", "gone"}]
    BY DEF RInv, TypeOK, RequestOffline
  <2> QED BY <1>1, <1>2, <2>1 DEF RInv, TypeOK, Waiting
<1>4. BusyHasWork' /\ OnePlace'
  BY <1>1 DEF RInv, BusyHasWork, OnePlace, Held
<1>5. ClaimedFirst'
  BY <1>1 DEF RInv, ClaimedFirst, Held
<1>6. HeldIsFresh'
  <2>1. \A h \in Helper : \A i \in Held(h) : i \in Job /\ i # j
    BY <1>2 DEF Held, Range, RInv, TypeOK
  <2> QED BY <1>1, <2>1 DEF RInv, HeldIsFresh, Held
<1>7. CallersKnow'
  BY <1>1, <1>2 DEF RInv, CallersKnow, Waiting
<1>8. ResultsTrue'
  <2>1. \A i \in Job, r \in {"done", "no", "connect", "dropped"} : Has(i, r)' => Has(i, r)
    BY <1>1 DEF Has
  <2> QED BY <1>1, <1>2, <2>1 DEF RInv, ResultsTrue
<1> QED BY <1>3, <1>4, <1>5, <1>6, <1>7, <1>8 DEF RInv

\* What the session reads an answer as.
LEMMA ReadingIs ==
  /\ \A r \in Results : Reading(r) \in {"accepted", "refused", "unknown"}
  /\ \A r \in Results : Reading(r) = "accepted" => r = "done"
  /\ \A r \in Results : Reading(r) = "refused" => r \in {"no", "connect", "dropped"}
<1>1. Reading("done") = "accepted"
  BY DEF Reading
<1>2. Reading("timeout") = "unknown" /\ Reading("gateway") = "unknown"
  BY DEF Reading
<1>3. Reading("no") = "refused" /\ Reading("connect") = "refused" /\ Reading("dropped") = "refused"
  BY DEF Reading
<1> QED BY <1>1, <1>2, <1>3, RelayAssumption DEF Results

\* A caller ends: by an answer, by a timer or because it is cancelled.
LEMMA CallerEndsKeeps ==
  ASSUME RInv, NEW j \in Job,
         Answered(j) \/ DispatchTimeout(j) \/ ResultTimeout(j) \/ Abandon(j)
  PROVE  RInv'
<1>1. CASE Answered(j)
  <2>1. /\ Reading(future[j]) = "accepted" => taken[j] = 1
        /\ Reading(future[j]) = "refused" => taken[j] = 0 \/ j \in cut
    BY <1>1, ReadingIs, RelayAssumption DEF Answered, RInv, ResultsTrue, Has, Results
  <2> QED BY <1>1, <2>1, ReadingIs, OverKeeps DEF Answered
<1>2. CASE ResultTimeout(j) \/ Abandon(j)
  BY <1>2, OverKeeps DEF ResultTimeout, Abandon, Waiting
<1>3. CASE DispatchTimeout(j) /\ ~claimed[j]
  <2>1. taken[j] = 0
    BY <1>3 DEF RInv, ClaimedFirst
  <2> QED BY <1>3, <2>1, OverKeeps DEF DispatchTimeout, Waiting
<1>4. CASE DispatchTimeout(j) /\ claimed[j]
  <2>1. /\ caller' = [caller EXCEPT ![j] = "result"] /\ caller[j] = "dispatch" /\ claimed[j]
        /\ UNCHANGED <<told, future, claimed, queue, online, polls, helper, batch, posted, taken, cut>>
    BY <1>4 DEF DispatchTimeout
  <2>2. /\ caller'[j] = "result" /\ \A i \in Job : i # j => caller'[i] = caller[i]
        /\ caller' \in [Job -> {"idle", "dispatch", "result", "over"}]
    BY <2>1 DEF RInv, TypeOK
  <2>3. TypeOK' /\ CallersKnow'
    BY <2>1, <2>2 DEF RInv, TypeOK, CallersKnow, Waiting
  <2>4. BusyHasWork' /\ OnePlace' /\ HeldIsFresh' /\ ResultsTrue'
    BY <2>1 DEF RInv, BusyHasWork, OnePlace, HeldIsFresh, ResultsTrue, Held, Has
  <2>5. ClaimedFirst'
    BY <2>1, <2>2 DEF RInv, ClaimedFirst, Held
  <2> QED BY <2>3, <2>4, <2>5 DEF RInv
<1> QED BY <1>1, <1>2, <1>3, <1>4

\* A poll claims jobs and hands them to the process that made it, or to nobody.
LEMMA DrawKeeps ==
  ASSUME RInv, Draw, UNCHANGED <<caller, told, future, posted, taken, cut>>,
         polls' \in 0 .. MaxPolls,
         helper' \in [Helper -> {"ready", "polling", "running"}], BusyHasWork',
         batch' \in [Helper -> Seq(Job)],
         \/ UNCHANGED batch
         \/ \E h \in Helper : /\ batch[h] = <<>> /\ batch'[h] = Live
                              /\ \A g \in Helper : g # h => batch'[g] = batch[g]
  PROVE  RInv'
<1>1. /\ Live \in Seq(Job) /\ Len(Live) <= MaxJobs /\ Distinct(Live)
      /\ \A j \in Range(Live) : j \in Job /\ future[j] = "pending" /\ ~claimed[j]
      /\ queue' \in Seq(Job) /\ Distinct(queue') /\ Range(queue') \subseteq Range(queue)
      /\ \A j \in Range(queue') : j \notin Range(Live)
      /\ claimed' \in [Job -> BOOLEAN] /\ online' \in BOOLEAN
      /\ \A j \in Job : claimed'[j] <=> claimed[j] \/ j \in Range(Live)
  BY DrawIs
<1>2. /\ \A h \in Helper : Distinct(batch'[h]) /\ Len(batch'[h]) <= MaxJobs
      /\ \A h \in Helper : Held(h)' \subseteq Held(h) \/ Held(h)' = Range(Live)
      /\ \A g, h \in Helper : g # h => Held(g)' \subseteq Held(g) \/ Held(h)' \subseteq Held(h)
  BY <1>1 DEF RInv, OnePlace, TypeOK, Held
<1>3. \A h \in Helper : \A j \in Held(h) : j \in Job /\ claimed[j]
  BY DEF Held, Range, RInv, TypeOK, ClaimedFirst
<1> HIDE DEF Live
<1>4. TypeOK'
  BY <1>1, <1>2 DEF RInv, TypeOK, Waiting
<1>5. OnePlace'
  <2>1. \A j \in Range(queue') : ~claimed'[j]
    <3>1. \A j \in Range(queue) : j \in Job
      BY DEF RInv, TypeOK, Range
    <3>2. \A j \in Range(queue) : ~claimed[j]
      BY DEF RInv, OnePlace
    <3> QED BY <1>1, <3>1, <3>2
  <2>2. \A g, h \in Helper : g # h => Held(g)' \cap Held(h)' = {}
    <3> SUFFICES ASSUME NEW g \in Helper, NEW h \in Helper, g # h, NEW j,
                        j \in Held(g)', j \in Held(h)'
                 PROVE  FALSE
      OBVIOUS
    <3>1. \A i \in Range(Live) : ~claimed[i]
      BY <1>1
    <3>2. j \in Held(g) \/ j \in Held(h)
      BY <1>2
    <3>3. j \notin Range(Live)
      BY <1>3, <3>1, <3>2
    <3>4. j \in Held(g) /\ j \in Held(h)
      BY <1>2, <3>3
    <3> QED BY <3>4 DEF RInv, OnePlace
  <2> QED BY <1>1, <1>2, <2>1, <2>2 DEF OnePlace
<1>6. ClaimedFirst'
  <2>1. \A j \in Job : (\E h \in Helper : j \in Held(h)') => claimed'[j]
    BY <1>1, <1>2, <1>3
  <2>2. \A j \in Range(Live) : caller[j] # "idle"
    BY <1>1 DEF RInv, CallersKnow
  <2>3. \A j \in Job : claimed'[j] \/ j \in Range(queue') => caller[j] # "idle"
    BY <1>1, <2>2 DEF RInv, ClaimedFirst
  <2>4. \A j \in Job : taken[j] # 0 \/ future[j] \in Results
                         \/ (\E r \in Results : <<j, r>> \in posted) => claimed'[j]
    BY <1>1 DEF RInv, ClaimedFirst
  <2> QED BY <2>1, <2>3, <2>4 DEF ClaimedFirst
<1>7. HeldIsFresh'
  <2>1. \A j \in Range(Live) : /\ j \in Job /\ ~claimed[j] /\ future[j] = "pending" /\ Waiting(j)
    BY <1>1 DEF RInv, TypeOK
  <2>2. \A j \in Range(Live) : /\ taken[j] = 0 /\ told[j] = "open"
                               /\ \A r \in Results : <<j, r>> \notin posted
    BY <2>1 DEF RInv, ClaimedFirst, CallersKnow
  <2>3. \A h \in Helper : \A j \in Held(h)' : j \in Held(h) \/ j \in Range(Live)
    BY <1>2
  <2> QED BY <2>1, <2>2, <2>3 DEF RInv, HeldIsFresh
<1>8. CallersKnow'
  BY <1>1 DEF RInv, CallersKnow, Waiting
<1>9. ResultsTrue'
  BY DEF RInv, ResultsTrue, Has
<1> QED BY <1>4, <1>5, <1>6, <1>7, <1>8, <1>9 DEF RInv

\* The poll of a process: what it claims is the process's batch.
LEMMA HandOutKeeps ==
  ASSUME RInv, NEW h \in Helper, HandOut(h)
  PROVE  RInv'
<1>1. batch[h] = <<>>
  BY DEF HandOut, RInv, BusyHasWork
<1>2. Live \in Seq(Job)
  BY DrawIs DEF HandOut
<1>3. Draw /\ UNCHANGED <<caller, told, future, polls, posted, taken, cut>>
  BY DEF HandOut
<1> HIDE DEF Live
<1>4. /\ batch'[h] = Live /\ \A g \in Helper : g # h => batch'[g] = batch[g]
      /\ batch' \in [Helper -> Seq(Job)]
      /\ helper'[h] = (IF Live = <<>> THEN "polling" ELSE "running")
      /\ \A g \in Helper : g # h => helper'[g] = helper[g]
      /\ helper' \in [Helper -> {"ready", "polling", "running"}]
  BY <1>2 DEF HandOut, RInv, TypeOK
<1>5. BusyHasWork'
  BY <1>4 DEF RInv, BusyHasWork
<1>6. polls' \in 0 .. MaxPolls
  BY <1>3 DEF RInv, TypeOK
<1> QED BY <1>1, <1>3, <1>4, <1>5, <1>6, DrawKeeps

\* The poll of a dead connection: what it claims is lost.
LEMMA HandOutToNobodyKeeps ==
  ASSUME RInv, HandOutToNobody
  PROVE  RInv'
<1>1. Draw /\ UNCHANGED <<caller, told, future, helper, batch, posted, taken, cut>>
  BY DEF HandOutToNobody
<1>2. polls' \in 0 .. MaxPolls
  <2>1. polls \in 0 .. MaxPolls /\ polls > 0 /\ (polls' = polls \/ polls' = polls - 1)
    BY DEF HandOutToNobody, RInv, TypeOK
  <2> QED BY <2>1, RelayAssumption
<1>3. BusyHasWork'
  BY <1>1 DEF RInv, BusyHasWork
<1> QED BY <1>1, <1>2, <1>3, DrawKeeps DEF RInv, TypeOK

\* An answer reaches the bridge: it is kept if somebody waits for it.
LEMMA DeliverKeeps ==
  ASSUME RInv, NEW j \in Job, NEW result \in Results, Deliver(j, result)
  PROVE  RInv'
<1>1. /\ \A i \in Job : future'[i] = future[i] \/ (i = j /\ Waiting(j) /\ future[j] = "pending"
                                                     /\ future'[j] = result)
      /\ \A i \in Job, r \in Results : <<i, r>> \in posted' => <<i, r>> \in posted
      /\ <<j, result>> \in posted
      /\ UNCHANGED <<caller, told, claimed, queue, polls, helper, batch, taken, cut>>
  BY DEF Deliver, RInv, TypeOK
<1>2. result \notin {"none", "pending", "cancelled"}
  BY RelayAssumption DEF Results
<1>3. TypeOK'
  <2>1. /\ future' \in [Job -> {"none", "pending", "cancelled"} \cup Results]
        /\ posted' \subseteq (Job \X Results) /\ online' \in BOOLEAN
    BY DEF RInv, TypeOK, Deliver
  <2> QED BY <1>1, <1>2, <2>1 DEF RInv, TypeOK, Waiting
<1>4. BusyHasWork' /\ OnePlace'
  BY <1>1 DEF RInv, BusyHasWork, OnePlace, Held
<1>5. ClaimedFirst'
  <2>1. claimed[j]
    BY <1>1 DEF RInv, ClaimedFirst
  <2>2. \A i \in Job : future'[i] \in Results => future[i] \in Results \/ i = j
    BY <1>1
  <2>3. \A h \in Helper : Held(h)' = Held(h)
    BY <1>1 DEF Held
  <2> QED BY <1>1, <2>1, <2>2, <2>3 DEF RInv, ClaimedFirst
<1>6. HeldIsFresh'
  <2>1. \A h \in Helper : \A i \in Held(h) : i \in Job /\ i # j
    <3>1. \A h \in Helper : \A i \in Held(h) : i \in Job
      BY DEF Held, Range, RInv, TypeOK
    <3>2. \A h \in Helper : \A i \in Held(h) : <<i, result>> \notin posted
      BY DEF RInv, HeldIsFresh
    <3> QED BY <1>1, <3>1, <3>2
  <2>2. \A h \in Helper : Held(h)' = Held(h)
    BY <1>1 DEF Held
  <2> QED BY <1>1, <2>1, <2>2 DEF RInv, HeldIsFresh
<1>7. CallersKnow'
  BY <1>1, <1>2 DEF RInv, CallersKnow, Waiting
<1>8. ResultsTrue'
  <2>1. \A i \in Job, r \in {"done", "no", "connect", "dropped"} : Has(i, r)' => Has(i, r)
    <3> SUFFICES ASSUME NEW i \in Job, NEW r \in {"done", "no", "connect", "dropped"}, Has(i, r)'
                 PROVE  Has(i, r)
      OBVIOUS
    <3>1. <<i, r>> \in posted' => <<i, r>> \in posted
      BY DEF Deliver
    <3> QED BY <1>1, <3>1 DEF Has
  <2> QED BY <1>1, <2>1 DEF RInv, ResultsTrue
<1> QED BY <1>3, <1>4, <1>5, <1>6, <1>7, <1>8 DEF RInv

\* The bridge restarts: its callers, queue and polls are gone, the batches stay.
LEMMA RestartKeeps ==
  ASSUME RInv, Restart
  PROVE  RInv'
<1>1. /\ \A j \in Job : /\ caller'[j] = IF Waiting(j) THEN "over" ELSE caller[j]
                        /\ told'[j] = IF Waiting(j) THEN "gone" ELSE told[j]
                        /\ future'[j] = IF future[j] = "pending" THEN "cancelled" ELSE future[j]
      /\ \A h \in Helper : helper'[h] = "running" <=> helper[h] = "running"
      /\ queue' = <<>> /\ UNCHANGED <<claimed, batch, posted, taken, cut>>
  BY DEF Restart, RInv, TypeOK
<1>2. \A j \in Job : future'[j] \in Results => future[j] \in Results
  BY <1>1, RelayAssumption DEF Results
<1>3. TypeOK'
  <2>1. /\ caller' \in [Job -> {"idle", "dispatch", "result", "over"}]
        /\ told' \in [Job -> {"unsent", "open", "accepted", "refused", "unknown", "gone"}]
        /\ future' \in [Job -> {"none", "pending", "cancelled"} \cup Results]
    BY DEF RInv, TypeOK, Restart
  <2>2. helper' \in [Helper -> {"ready", "polling", "running"}]
    BY DEF RInv, TypeOK, Restart
  <2>5. online' \in BOOLEAN /\ queue' \in Seq(Job)
    <3>1. <<>> \in Seq(Job)
      OBVIOUS
    <3> QED BY <3>1 DEF Restart
  <2>4. polls' \in 0 .. MaxPolls
    BY RelayAssumption DEF Restart
  <2>3. \A j \in Job : future'[j] # "pending"
    BY <1>1
  <2> QED BY <1>1, <2>1, <2>2, <2>3, <2>4, <2>5 DEF RInv, TypeOK
<1>4. BusyHasWork' /\ OnePlace'
  <2>1. Distinct(<<>>) /\ Range(<<>>) = {}
    BY DEF Distinct, Range
  <2>2. \A h \in Helper : Held(h)' = Held(h)
    BY <1>1 DEF Held
  <2> QED BY <1>1, <2>1, <2>2 DEF RInv, BusyHasWork, OnePlace
<1>5. ClaimedFirst'
  <2>1. Range(<<>>) = {}
    BY DEF Range
  <2>2. \A j \in Job : caller'[j] = "idle" => caller[j] = "idle"
    BY <1>1
  <2>3. \A h \in Helper : Held(h)' = Held(h)
    BY <1>1 DEF Held
  <2> QED BY <1>1, <1>2, <2>1, <2>2, <2>3 DEF RInv, ClaimedFirst
<1>6. HeldIsFresh'
  <2>1. \A h \in Helper : \A j \in Held(h) : j \in Job
    BY DEF Held, Range, RInv, TypeOK
  <2> QED BY <1>1, <2>1 DEF RInv, HeldIsFresh, Held
<1>7. CallersKnow'
  BY <1>1 DEF RInv, CallersKnow, Waiting
<1>8. ResultsTrue'
  <2>1. \A j \in Job, r \in {"done", "no", "connect", "dropped"} : Has(j, r)' => Has(j, r)
    BY <1>1 DEF Has
  <2>2. \A j \in Job : told'[j] \in {"accepted", "refused"} => told'[j] = told[j]
    BY <1>1
  <2> QED BY <1>1, <2>1, <2>2 DEF RInv, ResultsTrue
<1> QED BY <1>3, <1>4, <1>5, <1>6, <1>7, <1>8 DEF RInv

\* What an executed request can have done at the broker.
LEMMA ExecutedIs ==
  ASSUME NEW result \in Results
  PROVE  /\ Executed(result) \subseteq {0, 1}
         /\ result = "done" => Executed(result) = {1}
         /\ result \in {"no", "connect"} => Executed(result) = {0}
<1>1. Executed("done") = {1} /\ Executed("no") = {0} /\ Executed("connect") = {0}
  BY DEF Executed
<1>2. Executed("timeout") = {0, 1} /\ Executed("gateway") = {0, 1} /\ Executed("dropped") = {0, 1}
  BY DEF Executed
<1> QED BY <1>1, <1>2, RelayAssumption DEF Results

\* The agent runs the first job of a batch: nobody has run it or will again.
LEMMA RunKeeps ==
  ASSUME RInv, NEW h \in Helper, NEW result \in Results, Run(h, result)
  PROVE  RInv'
<1>1. batch[h] \in Seq(Job) /\ batch[h] # <<>> /\ Distinct(batch[h])
  BY DEF Run, RInv, TypeOK, BusyHasWork, OnePlace
<1> DEFINE rest == Tail(batch[h])
<1>0. PICK j \in Job : j = Head(batch[h])
  BY <1>1, TailIs
<1>2. /\ j \in Held(h) /\ rest \in Seq(Job) /\ Len(rest) <= Len(batch[h])
      /\ \A i \in Range(rest) : i \in Held(h) /\ i # j
      /\ Distinct(rest)
  BY <1>1, <1>0, TailIs DEF Held
<1>3. /\ taken[j] = 0 /\ future[j] \in {"pending", "cancelled"} /\ claimed[j]
      /\ \A r \in Results : <<j, r>> \notin posted
      /\ told[j] \in {"open", "unknown", "gone"}
      /\ \A g \in Helper : g # h => j \notin Held(g)
  BY <1>2 DEF RInv, HeldIsFresh, ClaimedFirst, OnePlace
<1> HIDE DEF rest
<1>4. PICK n \in Executed(result) : taken' = [taken EXCEPT ![j] = @ + n]
  BY <1>0 DEF Run
<1>5. /\ taken'[j] = n /\ n \in {0, 1} /\ taken' \in [Job -> Nat]
      /\ \A i \in Job : i # j => taken'[i] = taken[i]
  BY <1>2, <1>3, <1>4, ExecutedIs DEF RInv, TypeOK
<1>4b. cut' = (IF result = "dropped" THEN cut \cup {j} ELSE cut)
  BY <1>0 DEF Run
<1>4c. cut' \subseteq Job /\ cut \subseteq cut' /\ (result = "dropped" => j \in cut')
  BY <1>4b DEF RInv, TypeOK
<1>6. /\ \A i \in Job, r \in Results : <<i, r>> \in posted' =>
           <<i, r>> \in posted \/ (i = j /\ r = result)
      /\ posted' \subseteq (Job \X Results)
  BY <1>0 DEF Run, RInv, TypeOK
<1>7. /\ batch'[h] = rest /\ \A g \in Helper : g # h => batch'[g] = batch[g]
      /\ helper'[h] = IF rest = <<>> THEN "ready" ELSE "running"
      /\ \A g \in Helper : g # h => helper'[g] = helper[g]
      /\ batch' \in [Helper -> Seq(Job)]
      /\ helper' \in [Helper -> {"ready", "polling", "running"}]
      /\ UNCHANGED <<caller, told, future, claimed, queue, online, polls>>
  BY <1>2 DEF Run, rest, RInv, TypeOK, bridgeVars
<1>8. \A g \in Helper : \A i \in Held(g)' : i \in Held(g) /\ i # j /\ i \in Job
  <2>1. \A g \in Helper : \A i \in Held(g) : i \in Job
    BY DEF Held, Range, RInv, TypeOK
  <2>2. \A g \in Helper : Held(g)' = IF g = h THEN Range(rest) ELSE Held(g)
    BY <1>7 DEF Held
  <2> QED BY <1>2, <1>3, <2>1, <2>2
<1>9. TypeOK'
  <2>1. \A g \in Helper : Len(batch'[g]) <= MaxJobs
    <3>1. \A g \in Helper : Len(batch[g]) <= MaxJobs
      BY DEF RInv, TypeOK
    <3>2. Len(rest) \in Nat /\ Len(batch[h]) \in Nat /\ Len(batch[h]) <= MaxJobs
      BY <1>1, <1>2, <3>1
    <3>3. Len(rest) <= MaxJobs
      BY <1>2, <3>2, RelayAssumption
    <3> QED BY <1>7, <3>1, <3>3
  <2> QED BY <1>4c, <1>5, <1>6, <1>7, <2>1 DEF RInv, TypeOK, Waiting
<1>10. BusyHasWork' /\ OnePlace'
  <2>1. BusyHasWork'
    BY <1>7 DEF RInv, BusyHasWork
  <2>2. \A g \in Helper : Distinct(batch'[g])
    BY <1>2, <1>7 DEF RInv, OnePlace
  <2> QED BY <1>7, <1>8, <2>1, <2>2 DEF RInv, OnePlace
<1>11. ClaimedFirst'
  BY <1>3, <1>5, <1>6, <1>7, <1>8 DEF RInv, ClaimedFirst
<1>12. HeldIsFresh'
  <2> SUFFICES ASSUME NEW g \in Helper, NEW i \in Held(g)'
               PROVE  /\ taken'[i] = 0 /\ future'[i] \in {"pending", "cancelled"}
                      /\ \A r \in Results : <<i, r>> \notin posted'
                      /\ told'[i] \in {"open", "unknown", "gone"}
    BY DEF HeldIsFresh
  <2>1. i \in Held(g) /\ i # j /\ i \in Job
    BY <1>8
  <2>2. /\ taken[i] = 0 /\ future[i] \in {"pending", "cancelled"}
        /\ \A r \in Results : <<i, r>> \notin posted
        /\ told[i] \in {"open", "unknown", "gone"}
    BY <2>1 DEF RInv, HeldIsFresh
  <2> QED BY <1>5, <1>6, <1>7, <2>1, <2>2
<1>13. CallersKnow'
  BY <1>7 DEF RInv, CallersKnow, Waiting
<1>14. ResultsTrue'
  <2>1. \A i \in Job : i # j => \A r \in {"done", "no", "connect", "dropped"} : Has(i, r)' => Has(i, r)
    <3> SUFFICES ASSUME NEW i \in Job, i # j, NEW r \in {"done", "no", "connect", "dropped"}, Has(i, r)'
                 PROVE  Has(i, r)
      OBVIOUS
    <3>1. <<i, r>> \in posted' => <<i, r>> \in posted
      BY <1>0 DEF Run
    <3> QED BY <1>7, <3>1 DEF Has
  <2>2. \A r \in {"done", "no", "connect", "dropped"} : Has(j, r)' => r = result
    <3>1. \A r : <<j, r>> \in posted' => <<j, r>> \in posted \/ r = result
      BY <1>0 DEF Run
    <3>2. \A r \in {"done", "no", "connect", "dropped"} : <<j, r>> \notin posted /\ future[j] # r
      BY <1>3, RelayAssumption DEF RInv, TypeOK, Results
    <3> QED BY <1>7, <3>1, <3>2 DEF Has
  <2>3. /\ result = "done" => n = 1
        /\ result \in {"no", "connect"} => n = 0
    BY <1>4, ExecutedIs
  <2>4. \A i \in Job : i # j =>
          /\ taken'[i] <= 1
          /\ Has(i, "done")' \/ told'[i] = "accepted" => taken'[i] = 1
          /\ Has(i, "no")' \/ Has(i, "connect")' => taken'[i] = 0
          /\ Has(i, "dropped")' => i \in cut'
          /\ told'[i] = "refused" => taken'[i] = 0 \/ i \in cut'
    BY <1>4c, <1>5, <1>7, <2>1 DEF RInv, ResultsTrue
  <2>5. /\ taken'[j] <= 1
        /\ Has(j, "done")' \/ told'[j] = "accepted" => taken'[j] = 1
        /\ Has(j, "no")' \/ Has(j, "connect")' => taken'[j] = 0
        /\ Has(j, "dropped")' => j \in cut'
        /\ told'[j] # "refused"
    BY <1>3, <1>4c, <1>5, <1>7, <2>2, <2>3
  <2> SUFFICES ASSUME NEW i \in Job
               PROVE  /\ taken'[i] <= 1
                      /\ Has(i, "done")' \/ told'[i] = "accepted" => taken'[i] = 1
                      /\ Has(i, "no")' \/ Has(i, "connect")' => taken'[i] = 0
                      /\ Has(i, "dropped")' => i \in cut'
                      /\ told'[i] = "refused" => taken'[i] = 0 \/ i \in cut'
    BY DEF ResultsTrue
  <2> QED BY <2>4, <2>5
<1> QED BY <1>9, <1>10, <1>11, <1>12, <1>13, <1>14 DEF RInv

-----------------------------------------------------------------------------
(* What follows for every behaviour *)

\* Nothing is anywhere at first.
LEMMA InitKeeps == Init => RInv
<1> SUFFICES ASSUME Init PROVE RInv
  OBVIOUS
<1>1. <<>> \in Seq(Job) /\ Distinct(<<>>) /\ Range(<<>>) = {} /\ Len(<<>>) = 0
  BY DEF Distinct, Range
<1>2. \A h \in Helper : batch[h] = <<>> /\ Held(h) = {}
  BY <1>1 DEF Init, Held
<1>3. TypeOK
  <2>1. \A h \in Helper : Len(batch[h]) <= MaxJobs
    BY <1>1, <1>2, RelayAssumption
  <2>2. queue \in Seq(Job) /\ batch \in [Helper -> Seq(Job)]
    BY <1>1 DEF Init
  <2>3. taken \in [Job -> Nat] /\ polls \in 0 .. MaxPolls
    BY RelayAssumption DEF Init
  <2> QED BY <2>1, <2>2, <2>3 DEF Init, TypeOK
<1>4. BusyHasWork /\ OnePlace /\ HeldIsFresh
  BY <1>1, <1>2 DEF Init, BusyHasWork, OnePlace, HeldIsFresh
<1>5. ClaimedFirst
  BY <1>1, <1>2, RelayAssumption DEF Init, ClaimedFirst, Results
<1>6. CallersKnow /\ ResultsTrue
  BY DEF Init, CallersKnow, ResultsTrue, Has, Waiting
<1> QED BY <1>3, <1>4, <1>5, <1>6 DEF RInv

\* Every step keeps the invariant.
LEMMA NextKeeps ==
  ASSUME RInv, [Next]_vars
  PROVE  RInv'
<1>1. ASSUME NEW j \in Job, Caller(j)
      PROVE  RInv'
  BY <1>1, RequestKeeps, RequestOfflineKeeps, CallerEndsKeeps DEF Caller
<1>2. ASSUME NEW h \in Helper, Agent(h)
      PROVE  RInv'
  BY <1>2, IdleKeeps, HandOutKeeps, RunKeeps DEF Agent
<1>3. CASE HandOutToNobody \/ LostPollEnds \/ GoesOffline
  BY <1>3, HandOutToNobodyKeeps, IdleKeeps
<1>4. CASE Restart
  BY <1>4, RestartKeeps
<1>5. ASSUME NEW j \in Job, NEW result \in Results, Deliver(j, result)
      PROVE  RInv'
  BY <1>5, DeliverKeeps
<1>6. CASE UNCHANGED vars
  BY <1>6 DEF vars, RInv, TypeOK, BusyHasWork, OnePlace, ClaimedFirst, HeldIsFresh, CallersKnow,
              ResultsTrue, Has, Held, Waiting
<1> QED BY <1>1, <1>2, <1>3, <1>4, <1>5, <1>6 DEF Next, Bridge

\* The invariant holds in every reachable state.
THEOREM InvariantCorrect == Spec => []RInv
<1>1. RInv /\ [Next]_vars => RInv'
  BY NextKeeps
<1> QED BY InitKeeps, <1>1, PTL DEF Spec

\* The state is well typed; in particular a batch never exceeds max_jobs and a
\* future that is open has a caller that waits for it.
THEOREM TypeCorrect == Spec => []TypeOK
<1>1. RInv => TypeOK
  BY DEF RInv
<1> QED BY InvariantCorrect, <1>1, PTL

\* Only a draw claims jobs, and only such as somebody waits for.
LEMMA ClaimedAlive ==
  ASSUME RInv, [Next]_vars, NEW j \in Job, caller[j] = "over", ~claimed[j]
  PROVE  ~claimed'[j]
<1>1. CASE Draw
  <2>1. \A i \in Range(Live) : i \in Job /\ future[i] = "pending"
    BY <1>1, DrawIs
  <2>2. future[j] # "pending"
    BY DEF RInv, TypeOK, Waiting
  <2>3. claimed'[j] <=> claimed[j] \/ j \in Range(Live)
    BY <1>1, DrawIs
  <2> QED BY <2>1, <2>2, <2>3
<1>2. Draw \/ claimed' = claimed
  BY DEF Next, Caller, Agent, Bridge, vars, Request, RequestOffline, Answered, DispatchTimeout,
         ResultTimeout, Abandon, Poll, HandOut, HandOutNothing, PollLost, HandOutToNobody,
         LostPollEnds, Deliver, GoesOffline, Restart, Run, HelperFails, bridgeVars
<1> QED BY <1>1, <1>2

\* A job its caller gave up on before a poll claimed it never runs: not in the
\* queue of a bridge that is still up, not from a batch, not after a restart
\* (relay.py _prune, next_jobs).
THEOREM GivenUpIsNeverRun == Spec => UnclaimedNeverRuns
<1>1. RInv /\ RInv' /\ [Next]_vars => UnclaimedStep
  <2> SUFFICES ASSUME RInv, RInv', [Next]_vars, NEW j \in Job, caller[j] = "over", ~claimed[j]
               PROVE  /\ ~claimed'[j] /\ taken'[j] = 0
                      /\ \A h \in Helper : j \notin Range(batch'[h])
    BY DEF UnclaimedStep
  <2>1. ~claimed'[j]
    BY ClaimedAlive
  <2> QED BY <2>1 DEF RInv, ClaimedFirst, Held
<1> QED BY InvariantCorrect, <1>1, PTL DEF Spec, UnclaimedNeverRuns

\* Each step of the relay is a step of the channel, or none at all.
LEMMA StepOfChannel ==
  ASSUME RInv, [Next]_vars
  PROVE  [Channel!Next]_(Channel!channelVars)
<1> USE DEF Channel!Next, Channel!channelVars
<1>1. ASSUME NEW j \in Job, Request(j)
      PROVE  Channel!Send(j)
  BY <1>1 DEF Request, Channel!Send, RInv, CallersKnow
<1>2. ASSUME NEW j \in Job, NEW answer \in Channel!Answers, told[j] \in {"unsent", "open"},
             answer = "accepted" => taken[j] = 1, answer = "refused" => taken[j] = 0 \/ j \in cut,
             told' = [told EXCEPT ![j] = answer], taken' = taken, cut' = cut
      PROVE  Channel!Next
  BY <1>2 DEF Channel!Tell
<1>3. ASSUME NEW j \in Job, RequestOffline(j)
      PROVE  Channel!Next
  <2>1. taken[j] = 0 /\ told[j] = "unsent"
    BY <1>3 DEF RequestOffline, RInv, ClaimedFirst, CallersKnow
  <2> QED BY <1>2, <1>3, <2>1 DEF RequestOffline, Channel!Answers
<1>4. ASSUME NEW j \in Job,
             Answered(j) \/ DispatchTimeout(j) \/ ResultTimeout(j) \/ Abandon(j)
      PROVE  Channel!Next \/ UNCHANGED <<told, taken, cut>>
  <2>1. told[j] = "open"
    BY <1>4 DEF Answered, DispatchTimeout, ResultTimeout, Abandon, Waiting, RInv, CallersKnow
  <2>2. CASE Answered(j)
    <3>1. /\ Reading(future[j]) = "accepted" => taken[j] = 1
          /\ Reading(future[j]) = "refused" => taken[j] = 0 \/ j \in cut
          /\ Reading(future[j]) \in Channel!Answers
      BY <2>2, ReadingIs, RelayAssumption
      DEF Answered, RInv, ResultsTrue, Has, Results, Channel!Answers
    <3> QED BY <1>2, <2>1, <2>2, <3>1 DEF Answered, Over
  <2>3. CASE ResultTimeout(j) \/ Abandon(j)
    BY <1>2, <2>1, <2>3 DEF ResultTimeout, Abandon, Over, Channel!Answers
  <2>4. CASE DispatchTimeout(j)
    <3>1. ~claimed[j] => taken[j] = 0
      BY DEF RInv, ClaimedFirst
    <3> QED BY <1>2, <2>1, <2>4, <3>1 DEF DispatchTimeout, Over, Channel!Answers
  <2> QED BY <1>4, <2>2, <2>3, <2>4
<1>5. ASSUME NEW h \in Helper, NEW result \in Results, Run(h, result)
      PROVE  Channel!Next \/ UNCHANGED <<told, taken, cut>>
  <2>1. batch[h] \in Seq(Job) /\ batch[h] # <<>>
    BY <1>5 DEF Run, RInv, TypeOK, BusyHasWork
  <2>2. PICK j \in Job : j = Head(batch[h]) /\ j \in Held(h)
    BY <2>1, TailIs DEF Held
  <2>3. taken[j] = 0 /\ told[j] \in {"open", "unknown", "gone"}
    BY <2>2 DEF RInv, HeldIsFresh
  <2>4. PICK n \in {0, 1} : taken' = [taken EXCEPT ![j] = @ + n]
    BY <1>5, <2>2, ExecutedIs DEF Run
  <2>5. told' = told /\ cut' = (IF result = "dropped" THEN cut \cup {j} ELSE cut)
    BY <1>5, <2>2 DEF Run, bridgeVars
  <2>6. CASE result # "dropped" /\ n = 0
    <3>1. taken' = taken
      BY <2>3, <2>4, <2>6 DEF RInv, TypeOK
    <3> QED BY <2>5, <2>6, <3>1
  <2>7. CASE result # "dropped" /\ n = 1
    <3>1. taken' = [taken EXCEPT ![j] = 1]
      BY <2>3, <2>4, <2>7
    <3> QED BY <2>3, <2>5, <2>7, <3>1 DEF Channel!Take
  <2>8. CASE result = "dropped"
    <3>1. CASE n = 0
      <4>1. taken' = taken
        BY <2>3, <2>4, <3>1 DEF RInv, TypeOK
      <4> QED BY <2>3, <2>5, <2>8, <4>1 DEF Channel!Cut
    <3>2. CASE n = 1
      <4>1. taken' = [taken EXCEPT ![j] = 1]
        BY <2>3, <2>4, <3>2
      <4> QED BY <2>3, <2>5, <2>8, <4>1 DEF Channel!Cut
    <3> QED BY <2>4, <3>1, <3>2
  <2> QED BY <2>4, <2>6, <2>7, <2>8
<1>6. CASE Restart
  <2>1. \A j \in Job : Waiting(j) <=> told[j] = "open"
    BY DEF RInv, CallersKnow
  <2>2. Channel!Stop
    BY <1>6, <2>1 DEF Restart, Channel!Stop
  <2> QED BY <2>2
<1>7. \/ \E j \in Job : \/ Request(j) \/ RequestOffline(j)
                        \/ Answered(j) \/ DispatchTimeout(j) \/ ResultTimeout(j) \/ Abandon(j)
      \/ \E h \in Helper, result \in Results : Run(h, result)
      \/ Restart
      \/ UNCHANGED <<told, taken, cut>>
  BY DEF Next, Caller, Agent, Bridge, vars, Poll, HandOut, HandOutNothing, PollLost,
         HandOutToNobody, LostPollEnds, Deliver, GoesOffline, HelperFails, bridgeVars
<1> QED BY <1>1, <1>3, <1>4, <1>5, <1>6, <1>7

\* The queue, the polls and the agent together implement the order channel the
\* broker sessions rely on, for every number of jobs, agent processes, batch
\* size, dead polls and network errors: what a caller is told is true of the
\* broker, but for a refusal that stands for a dropped connection.
THEOREM RelayIsOrderChannel == Spec => IsOrderChannel
<1>1. Init => Channel!Init
  BY DEF Init, Channel!Init
<1>2. RInv /\ [Next]_vars => [Channel!Next]_(Channel!channelVars)
  BY StepOfChannel
<1> QED BY InvariantCorrect, <1>1, <1>2, PTL DEF Spec, IsOrderChannel, Channel!Spec
=============================================================================
