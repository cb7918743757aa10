-------------------------- MODULE CheckQueueProofs --------------------------
(***************************************************************************)
(* Proofs about the check queue, for any number of workers and masters,    *)
(* any batch size and blocks of any size.                                  *)
(***************************************************************************)
EXTENDS CheckQueue, InductionLemmas

USE QueueAssumption

-----------------------------------------------------------------------------
(* The inductive invariant.  The states a worker and a master can be in;   *)
(* a master that is not idle owns ControlMutex.                            *)
Roles ==
    /\ \A w \in Worker : pc[w] \in {"start", "working", "waiting", "woken", "gone"}
    /\ \A m \in Master : pc[m] \in {"idle", "adding", "start", "working", "waiting", "woken"}
    /\ \A m \in Master : pc[m] # "idle" <=> control = m

(* Only checks added for this block are queued.                            *)
QueueFits == Len(queue) <= added /\ added <= MaxChecks

(* The threads that nIdle and nTotal count, beside those that were         *)
(* interrupted.                                                            *)
Asleep == {t \in Threads : pc[t] \in {"waiting", "woken"}}
Present == {t \in Threads : pc[t] \in {"working", "waiting", "woken"}}
Counts == Cardinality(Asleep) <= nIdle /\ Cardinality(Present) <= nTotal

(* While a block is connected, the verdict due is spread over fAllOk, the  *)
(* queue and the batches being worked on.                                  *)
VerdictSpread ==
    control # None =>
        (expected <=> /\ fAllOk /\ AllTrue(queue)
                      /\ \A t \in Threads : pc[t] = "working" => fOk[t])

(* TodoExact, in the notation of InductionLemmas.                          *)
TodoSum == nTodo = Len(queue) + SumOn(nNow, Threads)

IInv ==
    /\ TypeOK /\ Roles /\ QueueFits /\ Counts /\ TodoSum
    /\ SessionIsolated /\ VerdictCorrect /\ VerdictSpread /\ MasterNotStranded

-----------------------------------------------------------------------------
(* There are finitely many threads.                                        *)
LEMMA FiniteThreads == IsFiniteSet(Threads)
    BY FS_Union DEF Threads

(* The threads asleep and those present can be counted.                    *)
LEMMA CountsNat ==
    /\ IsFiniteSet(Asleep) /\ Cardinality(Asleep) \in Nat
    /\ IsFiniteSet(Present) /\ Cardinality(Present) \in Nat
    <1>1. Asleep \in SUBSET Threads /\ Present \in SUBSET Threads
      BY DEF Asleep, Present
    <1>2. QED
      BY <1>1, FiniteThreads, FS_Subset, FS_CardinalityType

(* The sequences of at most MaxChecks results.                             *)
LEMMA ResultsAre == ASSUME NEW s PROVE s \in Results <=> s \in Seq(BOOLEAN) /\ Len(s) <= MaxChecks
    BY DEF Results

(* A quotient is a number and no larger than the dividend: the size of a   *)
(* batch.                                                                  *)
LEMMA DivBound ==
    ASSUME NEW a \in Nat, NEW b \in Nat, b > 0
    PROVE  a \div b \in Nat /\ a \div b <= a
    OBVIOUS

(* A thread that was counted can be discounted.                            *)
LEMMA Discount ==
    ASSUME IInv, NEW t \in Threads, Ready(t)
    PROVE  /\ Idle(t) \in Nat /\ Total(t) \in Nat /\ Total(t) > 0
           /\ nNow[t] \in Nat
           /\ Todo(t) \in Nat
           /\ Todo(t) = Len(queue) + SumOn(nNow, Threads) - nNow[t]
           /\ nNow[t] <= SumOn(nNow, Threads)
    <1> USE DEF IInv, TypeOK
    <1>1. pc[t] = "woken" => nIdle > 0
      <2>1. ASSUME pc[t] = "woken" PROVE Asleep # {}
        BY <2>1 DEF Asleep
      <2>2. QED
        BY <2>1, CountsNat, FS_EmptySet DEF Counts
    <1>2. pc[t] # "start" => nTotal > 0
      <2>1. ASSUME pc[t] # "start" PROVE Present # {}
        BY <2>1 DEF Present, Ready
      <2>2. QED
        BY <2>1, CountsNat, FS_EmptySet DEF Counts
    <1>3. nNow \in [Threads -> Nat]
      OBVIOUS
    <1>4. SumOn(nNow, Threads) \in Nat /\ nNow[t] <= SumOn(nNow, Threads)
      BY <1>3, FiniteThreads, SumNat, SumBound
    <1>5. nTodo = Len(queue) + SumOn(nNow, Threads) /\ Len(queue) \in Nat
      BY ResultsAre DEF TodoSum
    <1>6. QED
      BY <1>1, <1>2, <1>3, <1>4, <1>5 DEF Idle, Total, Todo

(* A batch has at least one check and no more than are queued.             *)
LEMMA BatchBounds ==
    ASSUME IInv, NEW t \in Threads, Ready(t), queue # <<>>
    PROVE  BatchFor(t) \in 1 .. BatchSize /\ BatchFor(t) <= Len(queue)
    <1> DEFINE q == Len(queue) \div (Total(t) + Idle(t) + 1)
               m == Min({BatchSize, q})
    <1>1. Len(queue) \in Nat /\ Len(queue) >= 1
      BY ResultsAre DEF IInv, TypeOK
    <1>2. q \in Nat /\ q <= Len(queue)
      BY <1>1, Discount, DivBound
    <1> HIDE DEF q
    <1>3. m \in {BatchSize, q} /\ m <= BatchSize /\ m <= q
      BY <1>2 DEF Min
    <1> HIDE DEF m
    <1>4. Max({1, m}) \in {1, m} /\ Max({1, m}) >= 1
      BY <1>2, <1>3 DEF Max
    <1>5. QED
      BY <1>1, <1>2, <1>3, <1>4 DEF BatchFor, q, m

-----------------------------------------------------------------------------
(* One lemma per action.                                                   *)
LEMMA InitInv == Init => IInv
    <1> SUFFICES ASSUME Init PROVE IInv
      OBVIOUS
    <1> USE DEF Init
    <1>1. TypeOK
      <2>1. queue \in Results
        <3>1. queue \in Seq(BOOLEAN) /\ Len(queue) <= MaxChecks
          OBVIOUS
        <3>2. QED
          BY <3>1, ResultsAre
      <2>2. pc \in [Threads -> {"idle", "adding", "start", "working", "waiting", "woken", "gone"}]
        OBVIOUS
      <2>3. QED
        BY <2>1, <2>2 DEF TypeOK
    <1>2. Roles /\ QueueFits
      BY DEF Roles, QueueFits, Threads
    <1>3. Counts
      <2>1. Asleep = {} /\ Present = {}
        BY DEF Asleep, Present
      <2>2. QED
        BY <2>1, FS_EmptySet DEF Counts
    <1>4. TodoSum
      <2>1. SumOn(nNow, Threads) = 0
        BY FiniteThreads, SumZero
      <2>2. QED
        BY <2>1 DEF TodoSum
    <1>5. SessionIsolated /\ VerdictCorrect /\ VerdictSpread /\ MasterNotStranded
      BY DEF SessionIsolated, VerdictCorrect, VerdictSpread, MasterNotStranded, Threads
    <1>6. QED
      BY <1>1, <1>2, <1>3, <1>4, <1>5 DEF IInv

(* A master takes ControlMutex when the last session has ended.            *)
LEMMA AcquireInv == ASSUME IInv, NEW m \in Master, Acquire(m) PROVE IInv'
    <1> USE DEF IInv, Acquire
    <1>0. m \in Threads /\ m # None
      BY DEF Threads
    <1>1. TypeOK'
      BY <1>0 DEF TypeOK
    <1>2. Roles'
      BY <1>0 DEF Roles, TypeOK, Threads
    <1>3. queue = <<>> /\ nTodo = 0 /\ fAllOk /\ \A t \in Threads : pc[t] # "working"
      BY DEF SessionIsolated
    <1>4. QueueFits'
      BY <1>3 DEF QueueFits
    <1>5. Counts'
      <2>1. Asleep' = Asleep /\ Present' = Present
        BY <1>0 DEF Asleep, Present, TypeOK
      <2>2. QED
        BY <2>1 DEF Counts
    <1>6. TodoSum'
      BY DEF TodoSum
    <1>7. SessionIsolated' /\ VerdictCorrect'
      BY <1>0 DEF SessionIsolated, VerdictCorrect
    <1>8. VerdictSpread'
      BY <1>0, <1>3 DEF VerdictSpread, AllTrue, TypeOK
    <1>9. MasterNotStranded'
      BY <1>0 DEF MasterNotStranded, TypeOK, Threads
    <1>10. QED
      BY <1>1, <1>2, <1>4, <1>5, <1>6, <1>7, <1>8, <1>9

(* A master enters Wait.                                                   *)
LEMMA BeginWaitInv == ASSUME IInv, NEW m \in Master, BeginWait(m) PROVE IInv'
    <1> USE DEF IInv, BeginWait
    <1>0. m \in Threads
      BY DEF Threads
    <1>1. TypeOK'
      BY <1>0 DEF TypeOK
    <1>2. Roles'
      BY <1>0 DEF Roles, TypeOK, Threads
    <1>3. Counts'
      <2>1. Asleep' = Asleep /\ Present' = Present
        BY <1>0 DEF Asleep, Present, TypeOK
      <2>2. QED
        BY <2>1 DEF Counts
    <1>4. QueueFits' /\ TodoSum' /\ VerdictCorrect'
      BY DEF QueueFits, TodoSum, VerdictCorrect
    <1>5. SessionIsolated' /\ VerdictSpread'
      BY <1>0 DEF SessionIsolated, VerdictSpread, TypeOK
    <1>6. MasterNotStranded'
      BY <1>0 DEF MasterNotStranded, TypeOK, Threads
    <1>7. QED
      BY <1>1, <1>2, <1>3, <1>4, <1>5, <1>6

(* A thread wakes without a notification.                                  *)
LEMMA SpuriousInv == ASSUME IInv, NEW t \in Threads, Spurious(t) PROVE IInv'
    <1> USE DEF IInv, Spurious
    <1>1. TypeOK'
      BY DEF TypeOK
    <1>2. Roles'
      BY DEF Roles, TypeOK, Threads
    <1>3. Counts'
      <2>1. Asleep' = Asleep /\ Present' = Present
        BY DEF Asleep, Present, TypeOK
      <2>2. QED
        BY <2>1 DEF Counts
    <1>4. QueueFits' /\ TodoSum' /\ VerdictCorrect'
      BY DEF QueueFits, TodoSum, VerdictCorrect
    <1>5. SessionIsolated' /\ VerdictSpread'
      BY DEF SessionIsolated, VerdictSpread, TypeOK
    <1>6. MasterNotStranded'
      BY DEF MasterNotStranded, TypeOK, Threads
    <1>7. QED
      BY <1>1, <1>2, <1>3, <1>4, <1>5, <1>6

(* A worker ends in its sleep and stays counted.                           *)
LEMMA InterruptInv == ASSUME IInv, NEW w \in Worker, Interrupt(w) PROVE IInv'
    <1> USE DEF IInv, Interrupt
    <1>0. w \in Threads /\ w \notin Master
      BY DEF Threads
    <1>1. TypeOK'
      BY <1>0 DEF TypeOK
    <1>2. Roles'
      BY <1>0 DEF Roles, TypeOK, Threads
    <1>3. Counts'
      <2>1. Asleep' \in SUBSET Asleep /\ Present' \in SUBSET Present
        BY <1>0 DEF Asleep, Present, TypeOK
      <2>2. Cardinality(Asleep') <= Cardinality(Asleep) /\ Cardinality(Present') <= Cardinality(Present)
        BY <2>1, CountsNat, FS_Subset
      <2>3. Cardinality(Asleep') \in Nat /\ Cardinality(Present') \in Nat
        BY <2>1, CountsNat, FS_Subset, FS_CardinalityType
      <2>4. QED
        BY <2>2, <2>3, CountsNat DEF Counts, TypeOK
    <1>4. QueueFits' /\ TodoSum' /\ VerdictCorrect'
      BY DEF QueueFits, TodoSum, VerdictCorrect
    <1>5. SessionIsolated' /\ VerdictSpread'
      BY <1>0 DEF SessionIsolated, VerdictSpread, TypeOK
    <1>6. MasterNotStranded'
      BY <1>0 DEF MasterNotStranded, TypeOK, Threads
    <1>7. QED
      BY <1>1, <1>2, <1>3, <1>4, <1>5, <1>6

(* Checks are added, and workers are notified.                             *)
LEMMA AddInv ==
    ASSUME IInv, NEW m \in Master, NEW vChecks \in Results, Add(m, vChecks)
    PROVE  IInv'
    <1> USE DEF IInv, Add
    <1>0. m \in Threads /\ m # None /\ control = m
      BY DEF Threads, Roles
    <1>1. PICK woken \in Awakened(Len(vChecks)) :
             pc' = [t \in Threads |-> IF t \in woken THEN "woken" ELSE pc[t]]
      OBVIOUS
    <1>2. vChecks \in Seq(BOOLEAN) /\ queue \in Seq(BOOLEAN) /\ Len(vChecks) \in Nat
      BY ResultsAre DEF TypeOK
    <1>3. woken \subseteq {w \in Worker : pc[w] = "waiting"}
      BY <1>2 DEF Awakened
    <1>4. /\ \A t \in Threads : pc'[t] = IF t \in woken THEN "woken" ELSE pc[t]
          /\ \A t \in woken : t \in Worker /\ t \in Threads /\ pc[t] = "waiting"
      BY <1>1, <1>3 DEF Threads
    <1>5. /\ queue' \in Seq(BOOLEAN) /\ Len(queue') = Len(queue) + Len(vChecks)
          /\ AllTrue(queue') <=> AllTrue(queue) /\ AllTrue(vChecks)
      <2>1. queue' \in Seq(BOOLEAN) /\ Len(queue') = Len(queue) + Len(vChecks)
        BY <1>2
      <2>2. \A i \in 1 .. Len(queue) : queue'[i] = queue[i]
        BY <1>2
      <2>3. \A i \in 1 .. Len(vChecks) : queue'[Len(queue) + i] = vChecks[i]
        BY <1>2
      <2>4. ASSUME NEW i \in 1 .. Len(queue'), i > Len(queue)
            PROVE  i - Len(queue) \in 1 .. Len(vChecks) /\ queue'[i] = vChecks[i - Len(queue)]
        BY <2>1, <2>4, <1>2
      <2>5. DOMAIN queue' = 1 .. Len(queue') /\ DOMAIN queue = 1 .. Len(queue)
            /\ DOMAIN vChecks = 1 .. Len(vChecks)
        BY <1>2, <2>1
      <2>6. ASSUME AllTrue(queue') PROVE AllTrue(queue) /\ AllTrue(vChecks)
        <3>1. \A i \in 1 .. Len(queue) : i \in 1 .. Len(queue')
          BY <2>1, <1>2
        <3>2. \A i \in 1 .. Len(vChecks) : Len(queue) + i \in 1 .. Len(queue')
          BY <2>1, <1>2
        <3>3. AllTrue(queue)
          BY <2>6, <2>2, <2>5, <3>1 DEF AllTrue
        <3>4. AllTrue(vChecks)
          BY <2>6, <2>3, <2>5, <3>2 DEF AllTrue
        <3>5. QED
          BY <3>3, <3>4
      <2>7. ASSUME AllTrue(queue), AllTrue(vChecks) PROVE AllTrue(queue')
        BY <2>7, <2>1, <2>2, <2>4, <2>5, <1>2 DEF AllTrue
      <2>8. QED
        BY <2>1, <2>6, <2>7
    <1>6. added' \in Nat /\ QueueFits'
      BY <1>2, <1>5 DEF QueueFits, TypeOK
    <1>7. TypeOK'
      <2>1. queue' \in Results
        <3>1. Len(queue') <= MaxChecks
          BY <1>2, <1>5, <1>6 DEF QueueFits, TypeOK
        <3>2. QED
          BY <1>5, <3>1, ResultsAre
      <2>2. expected' \in BOOLEAN /\ nTodo' \in Nat
        BY <1>2 DEF TypeOK
      <2>3. pc' \in [Threads -> {"idle", "adding", "start", "working", "waiting", "woken", "gone"}]
        BY <1>1 DEF TypeOK
      <2>4. \A t \in Threads : (pc'[t] = "working") = (nNow'[t] > 0)
        BY <1>4 DEF TypeOK
      <2>5. QED
        BY <1>6, <2>1, <2>2, <2>3, <2>4 DEF TypeOK
    <1>8. Roles'
      BY <1>4 DEF Roles, TypeOK, Threads
    <1>9. Counts'
      <2>1. Asleep' = Asleep /\ Present' = Present
        BY <1>4 DEF Asleep, Present
      <2>2. QED
        BY <2>1 DEF Counts
    <1>10. TodoSum'
      <2>1. SumOn(nNow, Threads) \in Nat
        BY FiniteThreads, SumNat DEF TypeOK
      <2>2. QED
        BY <2>1, <1>2, <1>5 DEF TodoSum
    <1>11. SessionIsolated' /\ VerdictCorrect'
      BY <1>0 DEF SessionIsolated, VerdictCorrect
    <1>12. VerdictSpread'
      <2>1. \A t \in Threads : pc'[t] = "working" <=> pc[t] = "working"
        BY <1>4
      <2>2. QED
        BY <1>0, <1>5, <2>1 DEF VerdictSpread
    <1>13. MasterNotStranded'
      <2>1. \A x \in Master : pc'[x] # "waiting"
        BY <1>0, <1>4 DEF Roles, Threads
      <2>2. QED
        BY <2>1 DEF MasterNotStranded
    <1>14. QED
      BY <1>6, <1>7, <1>8, <1>9, <1>10, <1>11, <1>12, <1>13

(* What a thread leaves in pc when it goes to state s: beside itself it    *)
(* changes at most the master it wakes, if it finished the last checks.    *)
LEMMA Moves ==
    ASSUME IInv, NEW t \in Threads,
           NEW s \in {"idle", "waiting", "working"},
           pc' = [Notified(t) EXCEPT ![t] = s]
    PROVE  /\ pc' \in [Threads -> {"idle", "adding", "start", "working", "waiting", "woken", "gone"}]
           /\ pc'[t] = s
           /\ \A x \in Threads \ {t} : x \in Worker => pc'[x] = pc[x]
           /\ \A x \in Threads \ {t} : pc[x] # "waiting" => pc'[x] = pc[x]
           /\ \A x \in Threads \ {t} : pc[x] = "waiting" => pc'[x] \in {"waiting", "woken"}
           /\ t \in Worker /\ pc[t] = "working" /\ Todo(t) = 0
                => \A x \in Master : pc'[x] # "waiting"
           /\ t \in Master => \A x \in Threads \ {t} : pc'[x] = pc[x]
    BY DEF IInv, TypeOK, Notified, Threads

(* Of the others, some work exactly if something is left to do.            *)
LEMMA OthersWork ==
    ASSUME IInv, NEW t \in Threads, Ready(t), queue = <<>>
    PROVE  /\ Todo(t) = 0 => \A x \in Threads \ {t} : pc[x] # "working"
           /\ Todo(t) # 0 => \E x \in Threads \ {t} : pc[x] = "working"
    <1> DEFINE h == [nNow EXCEPT ![t] = 0]
    <1>1. nNow \in [Threads -> Nat]
      BY DEF IInv, TypeOK
    <1>2. h \in [Threads -> Nat] /\ h[t] = 0 /\ \A x \in Threads \ {t} : h[x] = nNow[x]
      BY <1>1
    <1> HIDE DEF h
    <1>3. SumOn(h, Threads) = SumOn(nNow, Threads) - nNow[t] + h[t]
      BY <1>1, <1>2, FiniteThreads, SumChange
    <1>4. SumOn(nNow, Threads) \in Nat /\ nNow[t] \in Nat
      BY <1>1, FiniteThreads, SumNat
    <1>5. Todo(t) = SumOn(h, Threads)
      BY <1>2, <1>3, <1>4, Discount
    <1>6. \A x \in Threads : pc[x] = "working" <=> nNow[x] > 0
      BY DEF IInv, TypeOK
    <1>7. ASSUME Todo(t) = 0, NEW x \in Threads \ {t} PROVE pc[x] # "working"
      <2>1. h[x] <= SumOn(h, Threads)
        BY <1>2, FiniteThreads, SumBound
      <2>2. QED
        BY <2>1, <1>1, <1>2, <1>5, <1>6, <1>7
    <1>8. ASSUME Todo(t) # 0 PROVE \E x \in Threads \ {t} : pc[x] = "working"
      <2>1. SUFFICES ASSUME \A x \in Threads \ {t} : pc[x] # "working" PROVE FALSE
        OBVIOUS
      <2>2. \A x \in Threads : h[x] = 0
        BY <2>1, <1>1, <1>2, <1>6
      <2>3. QED
        BY <2>2, <1>5, <1>8, FiniteThreads, SumZero
    <1>9. QED
      BY <1>7, <1>8

(* The sum of the batches when one thread changes its own.                 *)
LEMMA BatchSum ==
    ASSUME NEW t \in Threads, NEW f \in [Threads -> 0 .. BatchSize],
           NEW h \in [Threads -> 0 .. BatchSize], \A x \in Threads \ {t} : h[x] = f[x]
    PROVE  SumOn(h, Threads) = SumOn(f, Threads) - f[t] + h[t] /\ SumOn(f, Threads) \in Nat
    <1>1. \A x \in Threads : f[x] \in Nat /\ h[x] \in Nat
      OBVIOUS
    <1>2. QED
      BY <1>1, FiniteThreads, SumChange, SumNat

(* A queue cut in two.                                                     *)
LEMMA AllTrueSplit ==
    ASSUME NEW q \in Seq(BOOLEAN), NEW n \in 1 .. Len(q)
    PROVE  /\ SubSeq(q, 1, Len(q) - n) \in Seq(BOOLEAN)
           /\ Len(SubSeq(q, 1, Len(q) - n)) = Len(q) - n
           /\ AllTrue(q) <=> /\ AllTrue(SubSeq(q, 1, Len(q) - n))
                             /\ AllTrue(SubSeq(q, Len(q) - n + 1, Len(q)))
    <1> DEFINE k == Len(q) - n
               a == SubSeq(q, 1, k)
               b == SubSeq(q, k + 1, Len(q))
    <1>1. k \in Nat /\ k < Len(q) /\ Len(q) \in Nat /\ Len(q) = k + n
      OBVIOUS
    <1> HIDE DEF k
    <1>2. a \in Seq(BOOLEAN) /\ Len(a) = k /\ \A i \in 1 .. k : a[i] = q[i]
      BY <1>1
    <1>3. DOMAIN b = 1 .. n /\ \A i \in 1 .. n : b[i] = q[k + i]
      BY <1>1
    <1>4. DOMAIN a = 1 .. k /\ DOMAIN q = 1 .. Len(q)
      BY <1>1, <1>2
    <1> HIDE DEF a, b
    <1>5. ASSUME AllTrue(q) PROVE AllTrue(a) /\ AllTrue(b)
      <2>1. \A i \in 1 .. k : i \in 1 .. Len(q)
        BY <1>1
      <2>2. \A i \in 1 .. n : k + i \in 1 .. Len(q)
        BY <1>1
      <2>3. AllTrue(a)
        BY <1>5, <2>1, <1>2, <1>4 DEF AllTrue
      <2>4. AllTrue(b)
        BY <1>5, <2>2, <1>3, <1>4 DEF AllTrue
      <2>5. QED
        BY <2>3, <2>4
    <1>6. ASSUME AllTrue(a), AllTrue(b) PROVE AllTrue(q)
      <2>1. ASSUME NEW i \in 1 .. Len(q) PROVE q[i]
        <3>1. CASE i <= k
          BY <3>1, <1>1, <1>2, <1>4, <1>6 DEF AllTrue
        <3>2. CASE i > k
          <4>1. i - k \in 1 .. n /\ q[k + (i - k)] = q[i]
            BY <3>2, <1>1
          <4>2. b[i - k] /\ b[i - k] = q[k + (i - k)]
            BY <4>1, <1>3, <1>6 DEF AllTrue
          <4>3. QED
            BY <4>1, <4>2
        <3>3. QED
          BY <3>1, <3>2, <1>1
      <2>2. QED
        BY <2>1, <1>4 DEF AllTrue
    <1>7. QED
      BY <1>2, <1>5, <1>6 DEF a, b, k

(* Loop returns the verdict and resets fAllOk for new work.                *)
LEMMA ReturnInv == ASSUME IInv, NEW t \in Threads, Return(t) PROVE IInv'
    <1> USE DEF Return
    <1>0. t \in Master /\ t # None /\ t \notin Worker /\ Todo(t) = 0
      BY DEF CanReturn
    <1>1. control = t
      BY <1>0 DEF IInv, Roles, Ready
    <1>2. /\ Idle(t) \in Nat /\ Total(t) \in Nat /\ Total(t) > 0
          /\ nNow[t] \in Nat /\ Len(queue) = 0
          /\ Todo(t) = Len(queue) + SumOn(nNow, Threads) - nNow[t]
      BY Discount
    <1>3. /\ pc' \in [Threads -> {"idle", "adding", "start", "working", "waiting", "woken", "gone"}]
          /\ pc'[t] = "idle"
          /\ \A x \in Threads \ {t} : pc'[x] = pc[x]
      BY <1>0, Moves
    <1>4. \A x \in Threads \ {t} : pc[x] # "working"
      BY <1>0, OthersWork
    <1>5. /\ nNow \in [Threads -> 0 .. BatchSize] /\ nNow' \in [Threads -> 0 .. BatchSize]
          /\ nNow'[t] = 0 /\ \A x \in Threads \ {t} : nNow'[x] = nNow[x]
      BY DEF IInv, TypeOK
    <1>6. TypeOK'
      <2>1. \A x \in Threads : (pc'[x] = "working") = (nNow'[x] > 0)
        BY <1>3, <1>5 DEF IInv, TypeOK
      <2>2. nIdle' \in Nat /\ nTotal' \in Nat /\ nTodo' \in Nat
        BY <1>0, <1>2
      <2>3. returned' \in BOOLEAN /\ fAllOk' \in BOOLEAN
        BY DEF AllOk, AfterReturn
      <2>4. QED
        BY <1>3, <1>5, <2>1, <2>2, <2>3 DEF IInv, TypeOK
    <1>7. Roles'
      BY <1>0, <1>1, <1>3 DEF IInv, Roles, Threads
    <1>8. QueueFits'
      BY DEF IInv, QueueFits
    <1>9. Counts'
      <2>1. Asleep' = Asleep \ {t} /\ Present' = Present \ {t}
        BY <1>3 DEF Asleep, Present
      <2>2. /\ Cardinality(Asleep') = IF t \in Asleep THEN Cardinality(Asleep) - 1 ELSE Cardinality(Asleep)
            /\ Cardinality(Present') = IF t \in Present THEN Cardinality(Present) - 1 ELSE Cardinality(Present)
        BY <2>1, CountsNat, FS_RemoveElement
      <2>3. (t \in Asleep <=> pc[t] = "woken") /\ (t \in Present <=> pc[t] # "start")
        BY DEF Asleep, Present, Ready
      <2>4. QED
        BY <2>2, <2>3, CountsNat DEF IInv, TypeOK, Counts, Idle, Total
    <1>10. TodoSum'
      <2>1. /\ SumOn(nNow', Threads) = SumOn(nNow, Threads) - nNow[t] + nNow'[t]
            /\ SumOn(nNow, Threads) \in Nat
        BY <1>5, BatchSum
      <2>2. QED
        BY <1>2, <1>5, <2>1 DEF TodoSum
    <1>11. SessionIsolated'
      BY <1>0, <1>3, <1>4 DEF SessionIsolated, AfterReturn
    <1>12. VerdictCorrect'
      <2>1. AllTrue(queue)
        BY DEF AllTrue
      <2>2. expected <=> fAllOk /\ \A x \in Threads : pc[x] = "working" => fOk[x]
        BY <1>0, <1>1, <2>1 DEF IInv, VerdictSpread
      <2>3. expected <=> AllOk(t)
        BY <1>4, <2>2 DEF AllOk
      <2>4. QED
        <3>1. expected \in BOOLEAN /\ returned' \in BOOLEAN /\ (returned' <=> expected)
          BY <2>3 DEF IInv, TypeOK, AllOk
        <3>2. QED
          BY <3>1 DEF VerdictCorrect
    <1>13. VerdictSpread'
      BY DEF VerdictSpread
    <1>14. MasterNotStranded'
      BY <1>1, <1>3 DEF MasterNotStranded, IInv, Roles, Threads
    <1>15. QED
      BY <1>6, <1>7, <1>8, <1>9, <1>10, <1>11, <1>12, <1>13, <1>14 DEF IInv

(* A thread finds the queue empty and goes to sleep.                       *)
LEMMA SleepInv == ASSUME IInv, NEW t \in Threads, Sleep(t) PROVE IInv'
    <1> USE DEF Sleep
    <1>1. /\ Idle(t) \in Nat /\ Total(t) \in Nat
          /\ nNow[t] \in Nat /\ Len(queue) = 0 /\ Todo(t) \in Nat
          /\ Todo(t) = Len(queue) + SumOn(nNow, Threads) - nNow[t]
      BY Discount
    <1>2. /\ pc' \in [Threads -> {"idle", "adding", "start", "working", "waiting", "woken", "gone"}]
          /\ pc'[t] = "waiting"
          /\ \A x \in Threads \ {t} : x \in Worker => pc'[x] = pc[x]
          /\ \A x \in Threads \ {t} : pc[x] # "waiting" => pc'[x] = pc[x]
          /\ \A x \in Threads \ {t} : pc[x] = "waiting" => pc'[x] \in {"waiting", "woken"}
          /\ t \in Worker /\ pc[t] = "working" /\ Todo(t) = 0
               => \A x \in Master : pc'[x] # "waiting"
      BY Moves
    <1>3. /\ nNow \in [Threads -> 0 .. BatchSize] /\ nNow' \in [Threads -> 0 .. BatchSize]
          /\ nNow'[t] = 0 /\ \A x \in Threads \ {t} : nNow'[x] = nNow[x]
      BY DEF IInv, TypeOK
    <1>4. TypeOK'
      <2>1. \A x \in Threads : (pc'[x] = "working") = (nNow'[x] > 0)
        BY <1>2, <1>3 DEF IInv, TypeOK
      <2>2. nIdle' \in Nat /\ nTotal' \in Nat /\ nTodo' \in Nat
        BY <1>1
      <2>3. fAllOk' \in BOOLEAN
        BY DEF AllOk
      <2>4. QED
        BY <1>2, <1>3, <2>1, <2>2, <2>3 DEF IInv, TypeOK
    <1>5. Roles'
      BY <1>2 DEF IInv, Roles, Threads, Ready
    <1>6. QueueFits'
      BY DEF IInv, QueueFits
    <1>7. Counts'
      <2>1. Asleep' = Asleep \cup {t} /\ Present' = Present \cup {t}
        BY <1>2 DEF Asleep, Present
      <2>2. /\ Cardinality(Asleep') = IF t \in Asleep THEN Cardinality(Asleep) ELSE Cardinality(Asleep) + 1
            /\ Cardinality(Present') = IF t \in Present THEN Cardinality(Present) ELSE Cardinality(Present) + 1
        BY <2>1, CountsNat, FS_AddElement
      <2>3. (t \in Asleep <=> pc[t] = "woken") /\ (t \in Present <=> pc[t] # "start")
        BY DEF Asleep, Present, Ready
      <2>4. QED
        BY <2>2, <2>3, CountsNat DEF IInv, TypeOK, Counts, Idle, Total
    <1>8. TodoSum'
      <2>1. /\ SumOn(nNow', Threads) = SumOn(nNow, Threads) - nNow[t] + nNow'[t]
            /\ SumOn(nNow, Threads) \in Nat
        BY <1>3, BatchSum
      <2>2. QED
        BY <1>1, <1>3, <2>1 DEF TodoSum
    <1>9. \A x \in Threads \ {t} : pc'[x] = "working" <=> pc[x] = "working"
      BY <1>2
    <1>10. SessionIsolated'
      <2>1. ASSUME control = None
            PROVE  nTodo = 0 /\ fAllOk /\ nNow[t] = 0 /\ \A x \in Threads : pc[x] # "working"
        BY <2>1 DEF IInv, SessionIsolated, TypeOK
      <2>2. ASSUME control = None PROVE nTodo' = 0 /\ fAllOk'
        <3>1. nTodo' = 0
          BY <2>1, <2>2 DEF Todo
        <3>2. AllOk(t)
          BY <2>1, <2>2 DEF AllOk
        <3>3. QED
          BY <3>1, <3>2
      <2>3. QED
        BY <2>1, <2>2, <1>2, <1>9 DEF SessionIsolated
    <1>11. VerdictCorrect'
      BY DEF IInv, VerdictCorrect
    <1>12. VerdictSpread'
      BY <1>2, <1>9 DEF IInv, VerdictSpread, AllOk
    <1>13. MasterNotStranded'
      <2>1. SUFFICES ASSUME NEW m \in Master, pc'[m] = "waiting"
                     PROVE  \E w \in Worker : pc'[w] = "working"
        BY DEF MasterNotStranded
      <2>2. m \in Threads /\ pc[m] # "idle" /\ control = m
        BY <1>2, <2>1 DEF IInv, Roles, Threads, Ready
      <2>3. \A x \in Master : pc[x] = "working" => x = m
        BY <2>2 DEF IInv, Roles
      <2>4. SUFFICES \E x \in Threads \ {t} : x # m /\ pc[x] = "working"
        BY <1>9, <2>3 DEF Threads
      <2>5. CASE t = m
        <3>1. Todo(t) # 0
          BY <2>5 DEF CanReturn
        <3>2. QED
          BY <2>5, <3>1, OthersWork
      <2>6. CASE t # m
        <3>1. pc[m] = "waiting"
          BY <1>2, <2>1, <2>2, <2>6
        <3>2. t \in Worker
          BY <2>2, <2>6 DEF IInv, Roles, Threads, Ready
        <3>3. CASE pc[t] = "working"
          <4>1. Todo(t) # 0
            BY <1>2, <2>1, <3>2, <3>3
          <4>2. QED
            BY <4>1, <3>1, OthersWork
        <3>4. CASE pc[t] # "working"
          BY <3>1, <3>4 DEF IInv, MasterNotStranded, Threads
        <3>5. QED
          BY <3>3, <3>4
      <2>7. QED
        BY <2>5, <2>6
    <1>14. QED
      BY <1>4, <1>5, <1>6, <1>7, <1>8, <1>10, <1>11, <1>12, <1>13 DEF IInv

(* A thread takes a batch.                                                 *)
LEMMA TakeInv == ASSUME IInv, NEW t \in Threads, Take(t) PROVE IInv'
    <1> DEFINE n == BatchFor(t)
               batch == SubSeq(queue, Len(queue) - n + 1, Len(queue))
    <1>0. /\ Ready(t) /\ queue # <<>>
          /\ queue' = SubSeq(queue, 1, Len(queue) - n)
          /\ nNow' = [nNow EXCEPT ![t] = n]
          /\ fOk' = [fOk EXCEPT ![t] = AllOk(t) /\ AllTrue(batch)]
          /\ nTotal' = Total(t) /\ nIdle' = Idle(t) /\ nTodo' = Todo(t)
          /\ fAllOk' = AllOk(t)
          /\ pc' = [Notified(t) EXCEPT ![t] = "working"]
          /\ UNCHANGED <<control, added, expected, returned, sessions>>
      BY DEF Take
    <1>1. n \in 1 .. BatchSize /\ n <= Len(queue)
      BY <1>0, BatchBounds
    <1>2. queue \in Seq(BOOLEAN) /\ n \in 1 .. Len(queue) /\ Len(queue) \in Nat
      BY <1>1, ResultsAre DEF IInv, TypeOK
    <1>3. /\ queue' \in Seq(BOOLEAN) /\ Len(queue') = Len(queue) - n
          /\ AllTrue(queue) <=> AllTrue(queue') /\ AllTrue(batch)
      BY <1>0, <1>2, AllTrueSplit
    <1> HIDE DEF n, batch
    <1>4. control # None
      BY <1>0 DEF IInv, SessionIsolated
    <1>5. /\ Idle(t) \in Nat /\ Total(t) \in Nat /\ nNow[t] \in Nat /\ Todo(t) \in Nat
          /\ Todo(t) = Len(queue) + SumOn(nNow, Threads) - nNow[t]
      BY <1>0, Discount
    <1>6. \A m \in Master : pc[m] # "waiting"
      BY <1>0 DEF IInv, MasterNotStranded
    <1>7. /\ pc' \in [Threads -> {"idle", "adding", "start", "working", "waiting", "woken", "gone"}]
          /\ pc'[t] = "working"
          /\ \A x \in Threads \ {t} : pc'[x] = pc[x]
      BY <1>0, <1>6, Moves DEF Threads
    <1>8. /\ nNow \in [Threads -> 0 .. BatchSize] /\ nNow' \in [Threads -> 0 .. BatchSize]
          /\ nNow'[t] = n /\ \A x \in Threads \ {t} : nNow'[x] = nNow[x]
      BY <1>0, <1>1 DEF IInv, TypeOK
    <1>9. /\ fOk' \in [Threads -> BOOLEAN]
          /\ fOk'[t] <=> AllOk(t) /\ AllTrue(batch)
          /\ \A x \in Threads \ {t} : fOk'[x] = fOk[x]
      BY <1>0 DEF IInv, TypeOK
    <1>10. TypeOK'
      <2>1. \A x \in Threads : (pc'[x] = "working") = (nNow'[x] > 0)
        BY <1>1, <1>7, <1>8 DEF IInv, TypeOK
      <2>2. nIdle' \in Nat /\ nTotal' \in Nat /\ nTodo' \in Nat
        BY <1>0, <1>5
      <2>3. fAllOk' \in BOOLEAN
        BY <1>0 DEF AllOk
      <2>4. queue' \in Results
        <3>1. Len(queue') <= MaxChecks
          BY <1>2, <1>3, ResultsAre DEF IInv, TypeOK
        <3>2. QED
          BY <1>3, <3>1, ResultsAre
      <2>5. QED
        BY <1>0, <1>7, <1>8, <1>9, <2>1, <2>2, <2>3, <2>4 DEF IInv, TypeOK
    <1>11. Roles'
      BY <1>0, <1>7 DEF IInv, Roles, Threads, Ready
    <1>12. QueueFits'
      BY <1>0, <1>2, <1>3 DEF IInv, TypeOK, QueueFits
    <1>13. Counts'
      <2>1. Asleep' = Asleep \ {t} /\ Present' = Present \cup {t}
        BY <1>7 DEF Asleep, Present
      <2>2. /\ Cardinality(Asleep') = IF t \in Asleep THEN Cardinality(Asleep) - 1 ELSE Cardinality(Asleep)
            /\ Cardinality(Present') = IF t \in Present THEN Cardinality(Present) ELSE Cardinality(Present) + 1
        BY <2>1, CountsNat, FS_AddElement, FS_RemoveElement
      <2>3. (t \in Asleep <=> pc[t] = "woken") /\ (t \in Present <=> pc[t] # "start")
        BY <1>0 DEF Asleep, Present, Ready
      <2>4. QED
        BY <1>0, <2>2, <2>3, CountsNat DEF IInv, TypeOK, Counts, Idle, Total
    <1>14. TodoSum'
      <2>1. /\ SumOn(nNow', Threads) = SumOn(nNow, Threads) - nNow[t] + nNow'[t]
            /\ SumOn(nNow, Threads) \in Nat
        BY <1>8, BatchSum
      <2>2. QED
        BY <1>0, <1>2, <1>3, <1>5, <1>8, <2>1 DEF TodoSum
    <1>15. SessionIsolated' /\ VerdictCorrect'
      BY <1>0, <1>4 DEF SessionIsolated, VerdictCorrect
    <1>16. VerdictSpread'
      <2>1. expected <=> /\ fAllOk /\ AllTrue(queue)
                         /\ \A x \in Threads : pc[x] = "working" => fOk[x]
        BY <1>4 DEF IInv, VerdictSpread
      <2>2. AllOk(t) <=> fAllOk /\ (pc[t] = "working" => fOk[t])
        BY DEF AllOk
      <2>3. expected <=> /\ AllOk(t) /\ AllTrue(queue') /\ AllTrue(batch)
                         /\ \A x \in Threads \ {t} : pc[x] = "working" => fOk[x]
        BY <1>3, <2>1, <2>2
      <2>4. (\A x \in Threads : pc'[x] = "working" => fOk'[x])
              <=> /\ AllOk(t) /\ AllTrue(batch)
                  /\ \A x \in Threads \ {t} : pc[x] = "working" => fOk[x]
        BY <1>7, <1>9
      <2>5. fAllOk' <=> AllOk(t)
        BY <1>0
      <2>6. expected' = expected
        BY <1>0
      <2>7. QED
        BY <2>3, <2>4, <2>5, <2>6 DEF VerdictSpread
    <1>17. MasterNotStranded'
      BY <1>6, <1>7 DEF MasterNotStranded, Threads
    <1>18. QED
      BY <1>10, <1>11, <1>12, <1>13, <1>14, <1>15, <1>16, <1>17 DEF IInv

(* A step that changes nothing.                                            *)
LEMMA StutterInv == ASSUME IInv, UNCHANGED vars PROVE IInv'
    <1> USE DEF vars, IInv
    <1>1. TypeOK' /\ Roles' /\ QueueFits'
      BY DEF TypeOK, Roles, QueueFits
    <1>2. Counts'
      <2>1. Asleep' = Asleep /\ Present' = Present
        BY DEF Asleep, Present
      <2>2. QED
        BY <2>1 DEF Counts
    <1>3. TodoSum' /\ SessionIsolated' /\ VerdictCorrect' /\ VerdictSpread' /\ MasterNotStranded'
      BY DEF TodoSum, SessionIsolated, VerdictCorrect, VerdictSpread, MasterNotStranded
    <1>4. QED
      BY <1>1, <1>2, <1>3

(* Every step keeps the invariant.                                         *)
LEMMA NextInv == IInv /\ [Next]_vars => IInv'
    <1> SUFFICES ASSUME IInv, [Next]_vars PROVE IInv'
      OBVIOUS
    <1>1. ASSUME NEW m \in Master, Acquire(m) \/ BeginWait(m) PROVE IInv'
      BY <1>1, AcquireInv, BeginWaitInv
    <1>2. ASSUME NEW m \in Master, NEW vChecks \in Results, Add(m, vChecks) PROVE IInv'
      BY <1>2, AddInv
    <1>3. ASSUME NEW t \in Threads, Loop(t) \/ Spurious(t) PROVE IInv'
      BY <1>3, ReturnInv, SleepInv, TakeInv, SpuriousInv DEF Loop
    <1>4. ASSUME NEW w \in Worker, Interrupt(w) PROVE IInv'
      BY <1>4, InterruptInv
    <1>5. CASE UNCHANGED vars
      BY <1>5, StutterInv
    <1>6. QED
      BY <1>1, <1>2, <1>3, <1>4, <1>5 DEF Next

(* The inductive invariant holds throughout.                               *)
LEMMA IInvAlways == Spec => []IInv
    BY InitInv, NextInv, PTL DEF Spec

-----------------------------------------------------------------------------
(* The counters of checkqueue.h never go below zero, though nIdle, nTotal  *)
(* and nTodo are decremented in different rounds of different threads and  *)
(* interrupted threads are never discounted; every batch has between one   *)
(* and nBatchSize checks.                                                  *)
THEOREM TypeCorrect == Spec => []TypeOK
    <1>1. IInv => TypeOK
      BY DEF IInv
    <1>2. QED
      BY <1>1, IInvAlways, PTL

(* nTodo counts the checks queued and those in the threads' hands, as its  *)
(* comment in checkqueue.h says.                                           *)
THEOREM TodoCounts == Spec => []TodoExact
    <1>1. IInv => TodoExact
      BY DEF IInv, TodoSum, TodoExact, SumOn
    <1>2. QED
      BY <1>1, IInvAlways, PTL

(* CCheckQueue::Wait returns whether every check of the block succeeded.   *)
THEOREM VerdictsCorrect == Spec => []VerdictCorrect
    <1>1. IInv => VerdictCorrect
      BY DEF IInv
    <1>2. QED
      BY <1>1, IInvAlways, PTL

(* One block's checks, and their result, never reach the next block.       *)
THEOREM SessionsIsolated == Spec => []SessionIsolated
    <1>1. IInv => SessionIsolated
      BY DEF IInv
    <1>2. QED
      BY <1>1, IInvAlways, PTL

(* A master asleep in Wait has a worker that will wake it: no              *)
(* notification is lost, with any number of workers interrupted.           *)
THEOREM MastersNotStranded == Spec => []MasterNotStranded
    <1>1. IInv => MasterNotStranded
      BY DEF IInv
    <1>2. QED
      BY <1>1, IInvAlways, PTL
=============================================================================
