----------------------------- MODULE CheckQueue -----------------------------
(***************************************************************************)
(* The queue on which ConnectBlock has its script checks verified          *)
(* (src/src/checkqueue.h).  A master pushes batches of checks, workers     *)
(* take them, and the master joins in Wait until all are done.             *)
(*                                                                         *)
(* Every section that holds the mutex is one step; between two sections a  *)
(* thread executes its batch or sleeps on a condition variable, where it   *)
(* may wake without a notification, and a worker may be interrupted at     *)
(* shutdown.  A check is reduced to its result.                            *)
(***************************************************************************)
EXTENDS Integers, Sequences, FiniteSetsExt

CONSTANTS
    Worker,         \* the -par threads
    Master,         \* threads that connect blocks
    BatchSize,      \* nBatchSize
    None,
    MaxChecks,      \* bound on the checks of one block
    MaxSessions     \* bound on the blocks connected

ASSUME QueueAssumption ==
    /\ Worker \cap Master = {} /\ None \notin Master
    /\ IsFiniteSet(Worker) /\ IsFiniteSet(Master)
    /\ BatchSize \in Nat \ {0} /\ MaxChecks \in Nat /\ MaxSessions \in Nat

Threads == Worker \cup Master

VARIABLES
    queue,      \* results of the queued checks; the last is taken first
    nIdle, nTotal, nTodo, fAllOk,
    pc,         \* where each thread is
    nNow,       \* size of the batch a thread works on
    fOk,        \* result of that batch
    control,    \* owner of ControlMutex
    added,      \* number of checks added for this block
    expected,   \* TRUE iff all of them succeed
    returned,   \* what the last Wait returned
    sessions    \* blocks connected so far

vars == <<queue, nIdle, nTotal, nTodo, fAllOk, pc, nNow, fOk, control, added, expected, returned,
          sessions>>

Results == UNION {[1 .. n -> BOOLEAN] : n \in 0 .. MaxChecks}
AllTrue(s) == \A i \in DOMAIN s : s[i]

Init ==
    /\ queue = <<>>
    /\ nIdle = 0 /\ nTotal = 0 /\ nTodo = 0
    /\ fAllOk = TRUE
    /\ pc = [t \in Threads |-> IF t \in Worker THEN "start" ELSE "idle"]
    /\ nNow = [t \in Threads |-> 0]
    /\ fOk = [t \in Threads |-> TRUE]
    /\ control = None
    /\ added = 0 /\ expected = TRUE /\ returned = TRUE
    /\ sessions = 0

-----------------------------------------------------------------------------
(* CCheckQueueControl's constructor takes ControlMutex.                    *)
Acquire(m) ==
    /\ pc[m] = "idle"
    /\ control = None
    /\ sessions < MaxSessions
    /\ sessions' = sessions + 1
    /\ control' = m
    /\ pc' = [pc EXCEPT ![m] = "adding"]
    /\ added' = 0 /\ expected' = TRUE
    /\ UNCHANGED <<queue, nIdle, nTotal, nTodo, fAllOk, nNow, fOk, returned>>

(* The sleeping workers a notification for n new checks may wake.          *)
Awakened(n) ==
    LET asleep == {w \in Worker : pc[w] = "waiting"} IN
    IF n > 1 THEN {asleep}
    ELSE IF n = 1 /\ asleep # {} THEN {{w} : w \in asleep}
    ELSE {{}}

(* Add                                                                     *)
Add(m, vChecks) ==
    /\ pc[m] = "adding"
    /\ added + Len(vChecks) <= MaxChecks
    /\ queue' = queue \o vChecks
    /\ nTodo' = nTodo + Len(vChecks)
    /\ \E woken \in Awakened(Len(vChecks)) :
         pc' = [t \in Threads |-> IF t \in woken THEN "woken" ELSE pc[t]]
    /\ added' = added + Len(vChecks)
    /\ expected' = (expected /\ AllTrue(vChecks))
    /\ UNCHANGED <<nIdle, nTotal, fAllOk, nNow, fOk, control, returned, sessions>>

(* The master calls Wait, or its control object is destroyed.              *)
BeginWait(m) ==
    /\ pc[m] = "adding"
    /\ pc' = [pc EXCEPT ![m] = "start"]
    /\ UNCHANGED <<queue, nIdle, nTotal, nTodo, fAllOk, nNow, fOk, control, added, expected,
                   returned, sessions>>

-----------------------------------------------------------------------------
(* Loop, inside the mutex: a thread arrives for the first time, with a     *)
(* batch done, or woken from its condition variable.                       *)
Ready(t) == pc[t] \in {"start", "working", "woken"}

(* Mutant of Todo: one check is counted per batch.                         *)
MutTodo(t) == IF pc[t] = "working" THEN nTodo - 1 ELSE nTodo

(* The clean-up of the previous round.                                     *)
Todo(t) == nTodo - nNow[t]
AllOk(t) == fAllOk /\ (pc[t] = "working" => fOk[t])
Total(t) == IF pc[t] = "start" THEN nTotal + 1 ELSE nTotal
Idle(t) == IF pc[t] = "woken" THEN nIdle - 1 ELSE nIdle

(* Mutant of Notified: nobody tells the master.                            *)
MutNotified(t) == pc

(* The worker that finishes the last check wakes the master.               *)
Notified(t) ==
    IF t \in Worker /\ pc[t] = "working" /\ Todo(t) = 0
    THEN [x \in Threads |-> IF x \in Master /\ pc[x] = "waiting" THEN "woken" ELSE pc[x]]
    ELSE pc

(* Mutant of CanReturn: batches in the workers' hands are forgotten.       *)
MutCanReturn(t) == t \in Master

CanReturn(t) == t \in Master /\ Todo(t) = 0

(* Mutant of AfterReturn: the status is not reset.                         *)
MutAfterReturn(t) == AllOk(t)

(* "reset the status for new work later"                                   *)
AfterReturn(t) == TRUE

Return(t) ==
    /\ Ready(t)
    /\ queue = <<>>
    /\ CanReturn(t)
    /\ nTotal' = Total(t) - 1
    /\ nIdle' = Idle(t)
    /\ nTodo' = Todo(t)
    /\ returned' = AllOk(t)
    /\ fAllOk' = AfterReturn(t)
    /\ pc' = [Notified(t) EXCEPT ![t] = "idle"]
    /\ nNow' = [nNow EXCEPT ![t] = 0]
    /\ control' = None
    /\ UNCHANGED <<queue, fOk, added, expected, sessions>>

Sleep(t) ==
    /\ Ready(t)
    /\ queue = <<>>
    /\ ~CanReturn(t)
    /\ nTotal' = Total(t)
    /\ nIdle' = Idle(t) + 1
    /\ nTodo' = Todo(t)
    /\ fAllOk' = AllOk(t)
    /\ pc' = [Notified(t) EXCEPT ![t] = "waiting"]
    /\ nNow' = [nNow EXCEPT ![t] = 0]
    /\ UNCHANGED <<queue, fOk, control, added, expected, returned, sessions>>

(* Mutant of BatchFor: "Don't do batches smaller than 1" is left out.      *)
MutBatchFor(t) == Min({BatchSize, Len(queue) \div (Total(t) + Idle(t) + 1)})

(* How many checks a thread takes.                                         *)
BatchFor(t) == Max({1, Min({BatchSize, Len(queue) \div (Total(t) + Idle(t) + 1)})})

(* Take a batch off the end of the queue and leave the mutex; the batch's  *)
(* result is settled, as executing it touches no shared state.             *)
Take(t) ==
    /\ Ready(t)
    /\ queue # <<>>
    /\ \E n \in {BatchFor(t)} :
         /\ queue' = SubSeq(queue, 1, Len(queue) - n)
         /\ nNow' = [nNow EXCEPT ![t] = n]
         /\ fOk' = [fOk EXCEPT ![t] = AllOk(t) /\ AllTrue(SubSeq(queue, Len(queue) - n + 1, Len(queue)))]
    /\ nTotal' = Total(t)
    /\ nIdle' = Idle(t)
    /\ nTodo' = Todo(t)
    /\ fAllOk' = AllOk(t)
    /\ pc' = [Notified(t) EXCEPT ![t] = "working"]
    /\ UNCHANGED <<control, added, expected, returned, sessions>>

(* A condition variable may wake its waiter without a notification.        *)
Spurious(t) ==
    /\ pc[t] = "waiting"
    /\ pc' = [pc EXCEPT ![t] = "woken"]
    /\ UNCHANGED <<queue, nIdle, nTotal, nTodo, fAllOk, nNow, fOk, control, added, expected,
                   returned, sessions>>

(* interrupt_all at shutdown: cond.wait throws and the thread ends, nIdle  *)
(* and nTotal as they were, and any notification it had got lost.          *)
Interrupt(w) ==
    /\ pc[w] \in {"waiting", "woken"}
    /\ pc' = [pc EXCEPT ![w] = "gone"]
    /\ UNCHANGED <<queue, nIdle, nTotal, nTodo, fAllOk, nNow, fOk, control, added, expected,
                   returned, sessions>>

-----------------------------------------------------------------------------
Loop(t) == Return(t) \/ Sleep(t) \/ Take(t)

Next ==
    \/ \E m \in Master : Acquire(m) \/ BeginWait(m)
    \/ \E m \in Master, vChecks \in Results : Add(m, vChecks)
    \/ \E t \in Threads : Loop(t) \/ Spurious(t)
    \/ \E w \in Worker : Interrupt(w)

(* A thread that is not asleep keeps running, and ConnectBlock comes to    *)
(* its control.Wait() or destroys the control.                             *)
Fairness ==
    /\ \A t \in Threads : WF_vars(Loop(t))
    /\ \A m \in Master : WF_vars(BeginWait(m))

Spec == Init /\ [][Next]_vars
FairSpec == Spec /\ Fairness

-----------------------------------------------------------------------------
(* The counters stay natural (nTodo is unsigned), and a thread out of the  *)
(* mutex with work has between 1 and nBatchSize checks.                    *)
TypeOK ==
    /\ queue \in Results
    /\ {nIdle, nTotal, nTodo, added, sessions} \subseteq Nat
    /\ {fAllOk, expected, returned} \subseteq BOOLEAN
    /\ pc \in [Threads -> {"idle", "adding", "start", "working", "waiting", "woken", "gone"}]
    /\ nNow \in [Threads -> 0 .. BatchSize]
    /\ \A t \in Threads : (pc[t] = "working") = (nNow[t] > 0)
    /\ fOk \in [Threads -> BOOLEAN]
    /\ control \in Master \cup {None}

(* nTodo counts the queued checks and those in the threads' own batches,   *)
(* as its comment says.                                                    *)
TodoExact == nTodo = Len(queue) + MapThenSumSet(LAMBDA t : nNow[t], Threads)

(* What Wait returned is whether every check of that block succeeded, with *)
(* whatever split into batches, skipped checks and lost workers.           *)
VerdictCorrect == control = None => returned = expected

(* Nothing of one block's checks is left when the next block's begin.      *)
SessionIsolated ==
    control = None =>
        queue = <<>> /\ nTodo = 0 /\ fAllOk /\ \A t \in Threads : pc[t] # "working"

(* A master asleep in Wait always has a worker that will wake it.          *)
MasterNotStranded ==
    \A m \in Master : pc[m] = "waiting" =>
        queue = <<>> /\ \E w \in Worker : pc[w] = "working"

(* Every Wait returns, with any number of the workers interrupted.         *)
WaitReturns == \A m \in Master : (pc[m] = "start") ~> (pc[m] = "idle")
=============================================================================
