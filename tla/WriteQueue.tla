----------------------------- MODULE WriteQueue -----------------------------
(***************************************************************************)
(* The single-writer queue of backend/app/services/write_queue.py.         *)
(*                                                                         *)
(* Every database write of a process is a callback handed to submit(),     *)
(* which parks it on a bounded asyncio.Queue and awaits a future.  One     *)
(* worker task takes the callbacks in order, opens a session, runs the     *)
(* callback under its deadline, closes the session under asyncio.shield    *)
(* and answers the future.  A supervisor task respawns a crashed worker    *)
(* once per minute; stop() parks a sentinel and waits for the worker.      *)
(*                                                                         *)
(* The granularity is asyncio's: an action is what one task does between   *)
(* two awaits.                                                             *)
(***************************************************************************)
EXTENDS Naturals, Sequences, FiniteSets

CONSTANTS
    Ops,             \* the calls of submit(), one element per call
    NoOp,            \* no callback is in flight
    Sentinel,        \* _SHUTDOWN_SENTINEL
    MaxDepth,        \* WRITE_QUEUE_MAX_QUEUE_DEPTH
    MaxGen,          \* bound on the worker tasks ever spawned
    CleanupMayFail,  \* may closing a session raise?
    WorkMayCancel    \* may a callback end with a CancelledError of its own?

ASSUME QueueAssumption ==
    /\ MaxDepth \in Nat \ {0} /\ MaxGen \in Nat \ {0}
    /\ NoOp \notin Ops /\ Sentinel \notin Ops
    /\ CleanupMayFail \in BOOLEAN /\ WorkMayCancel \in BOOLEAN

VARIABLES
    queue,      \* _queue: callbacks and sentinels, oldest first
    fut,        \* what each call of submit() has been told
    tx,         \* each callback's session: none, open, committed, rolledback
    gen,        \* which worker task is current; 0 before start()
    wpc,        \* where that task is
    inflight,   \* the callback it holds
    exc,        \* how that callback ended, while its session closes
    nested,     \* a submission the running callback spawned and awaits
    sup,        \* the supervisor task
    crashes,    \* _respawns_in_window
    stopping, dead, stopDone,
    stopper,    \* the first call of stop()
    stopGen,    \* the worker task stop() bound to its local
    waiter      \* a second call of stop()

workerVars == <<gen, wpc, inflight, exc, nested>>
supVars    == <<sup, crashes, dead>>
stopVars   == <<stopping, stopDone, stopper, stopGen, waiter>>
vars == <<queue, fut, tx, workerVars, supVars, stopVars>>

Refusals == {"refusedDead", "refusedStopped", "refusedOverload", "refusedReentrant"}
Answers  == {"result", "error", "timeout", "cancelled", "workerCancelled", "dropped"}
FutState == {"none", "pending", "abandoned"} \cup Refusals \cup Answers
Ended    == {"done", "cancelled", "crashed"}

TypeOK ==
    /\ queue \in Seq(Ops \cup {Sentinel})
    /\ fut \in [Ops -> FutState]
    /\ tx \in [Ops -> {"none", "open", "committed", "rolledback"}]
    /\ gen \in 0 .. MaxGen
    /\ wpc \in {"none", "idle", "work", "exit"} \cup Ended
    /\ inflight \in Ops \cup {NoOp}
    /\ exc \in {"none", "result", "error", "timeout", "cancelled"}
    /\ nested \in Ops \cup {NoOp}
    /\ sup \in {"none", "awaiting", "finished"}
    /\ crashes \in 0 .. 2
    /\ stopping \in BOOLEAN /\ dead \in BOOLEAN /\ stopDone \in BOOLEAN
    /\ stopper \in {"idle", "draining", "cancelling", "returned", "raised"}
    /\ stopGen \in 0 .. MaxGen
    /\ waiter \in {"idle", "waiting", "returned"}

Init ==
    /\ queue = <<>>
    /\ fut = [o \in Ops |-> "none"]
    /\ tx = [o \in Ops |-> "none"]
    /\ gen = 0 /\ wpc = "none" /\ inflight = NoOp /\ exc = "none" /\ nested = NoOp
    /\ sup = "none" /\ crashes = 0
    /\ stopping = FALSE /\ dead = FALSE /\ stopDone = FALSE
    /\ stopper = "idle" /\ stopGen = 0 /\ waiter = "idle"

Queued == {queue[i] : i \in DOMAIN queue}

-----------------------------------------------------------------------------
(* Callers *)

\* start() is a no-op once a worker task exists.
Start ==
    /\ gen = 0
    /\ gen' = 1 /\ wpc' = "idle" /\ sup' = "awaiting"
    /\ UNCHANGED <<queue, fut, tx, inflight, exc, nested, crashes, dead, stopVars>>

\* The entry guards of submit(), in the order the code tests them.
Refusal(fromWorker) ==
    IF dead THEN "refusedDead"
    ELSE IF stopping \/ gen = 0 THEN "refusedStopped"
    ELSE IF fromWorker THEN "refusedReentrant"
    ELSE IF Len(queue) >= MaxDepth THEN "refusedOverload"
    ELSE "none"

Enter(o, fromWorker) ==
    /\ fut[o] = "none"
    /\ IF Refusal(fromWorker) = "none"
         THEN /\ fut' = [fut EXCEPT ![o] = "pending"]
              /\ queue' = Append(queue, o)
         ELSE /\ fut' = [fut EXCEPT ![o] = Refusal(fromWorker)]
              /\ UNCHANGED queue

Submit(o) ==
    /\ Enter(o, FALSE)
    /\ UNCHANGED <<tx, workerVars, supVars, stopVars>>

\* The running callback calls submit() itself: the current task is the worker.
SubmitFromWork(o) ==
    /\ wpc = "work" /\ nested = NoOp
    /\ Enter(o, TRUE)
    /\ UNCHANGED <<tx, workerVars, supVars, stopVars>>

\* The running callback spawns a task that calls submit(), and awaits it.
SpawnAndAwait(o) ==
    /\ wpc = "work" /\ nested = NoOp
    /\ Enter(o, FALSE)
    /\ nested' = IF Refusal(FALSE) = "none" THEN o ELSE NoOp
    /\ UNCHANGED <<tx, gen, wpc, inflight, exc, supVars, stopVars>>

\* The task awaiting submit() is cancelled, and with it the future; the
\* callback stays where it is.
CancelCaller(o) ==
    /\ fut[o] = "pending"
    /\ fut' = [fut EXCEPT ![o] = "abandoned"]
    /\ UNCHANGED <<queue, tx, workerVars, supVars, stopVars>>

-----------------------------------------------------------------------------
(* The worker: _worker_loop and _run_one *)

\* set_result and set_exception, both guarded by future.done().
Answered(o, a) == [fut EXCEPT ![o] = IF @ = "pending" THEN a ELSE @]

\* A worker respawned while stop() waits runs after stop(), whose wakeup the
\* crash had scheduled before the supervisor spawned it.
WorkerTake ==
    /\ wpc = "idle" /\ queue # <<>>
    /\ stopper \in {"draining", "cancelling"} => gen = stopGen
    /\ queue' = Tail(queue)
    /\ IF Head(queue) = Sentinel
         THEN wpc' = "done" /\ UNCHANGED <<tx, inflight>>
         ELSE /\ wpc' = "work" /\ inflight' = Head(queue)
              /\ tx' = [tx EXCEPT ![Head(queue)] = "open"]
    /\ UNCHANGED <<fut, gen, exc, nested, supVars, stopVars>>

\* The callback commits; the session stays open and may still fail.
WorkCommit ==
    /\ wpc = "work" /\ nested = NoOp /\ tx[inflight] = "open"
    /\ tx' = [tx EXCEPT ![inflight] = "committed"]
    /\ UNCHANGED <<queue, fut, workerVars, supVars, stopVars>>

WorkEnds(how) ==
    /\ wpc = "work"
    /\ wpc' = "exit" /\ exc' = how /\ nested' = NoOp
    /\ UNCHANGED <<queue, fut, tx, gen, inflight, supVars, stopVars>>

\* A callback that awaits a nested submission goes on when that is answered.
Unblocked == nested \in Ops => fut[nested] # "pending"

WorkReturn  == Unblocked /\ WorkEnds("result")
WorkRaise   == Unblocked /\ WorkEnds("error")
WorkCancels == WorkMayCancel /\ Unblocked /\ WorkEnds("cancelled")
\* Mutant: the callback is awaited without a deadline.
WorkTimeoutNever == FALSE
\* asyncio.wait_for: the deadline passes, whatever the callback waits for.
WorkTimeout == WorkEnds("timeout")

\* Mutant: the session is left open.
SessionLeaked == tx

\* Closing a session rolls back what was not committed.
SessionClosed == [tx EXCEPT ![inflight] = IF @ = "open" THEN "rolledback" ELSE @]

\* The session closes, the future is answered, the worker goes on or, after
\* a CancelledError, re-raises it and ends.
WorkerExit ==
    /\ wpc = "exit"
    /\ tx' = SessionClosed
    /\ fut' = Answered(inflight, exc)
    /\ wpc' = IF exc = "cancelled" THEN "cancelled" ELSE "idle"
    /\ inflight' = NoOp /\ exc' = "none"
    /\ UNCHANGED <<queue, gen, nested, supVars, stopVars>>

\* Mutant: the callback whose session failed to close is queued again.
WorkerCrashRequeues ==
    /\ CleanupMayFail
    /\ wpc = "exit" /\ (gen < MaxGen \/ crashes > 0)
    /\ tx' = SessionClosed /\ queue' = <<inflight>> \o queue
    /\ wpc' = "crashed" /\ inflight' = NoOp /\ exc' = "none"
    /\ UNCHANGED <<fut, gen, nested, supVars, stopVars>>

\* Closing the session raises: nothing answers the future, and the worker
\* task ends with that exception.
WorkerCrash ==
    /\ CleanupMayFail
    /\ wpc = "exit" /\ (gen < MaxGen \/ crashes > 0)
    /\ tx' = SessionClosed
    /\ wpc' = "crashed" /\ inflight' = NoOp /\ exc' = "none"
    /\ UNCHANGED <<queue, fut, gen, nested, supVars, stopVars>>

-----------------------------------------------------------------------------
(* The supervisor *)

\* Mutants: the queue is emptied and nobody told; everybody is told and the
\* queue left as it is.
FailAllPendingSilent == queue' = <<>> /\ UNCHANGED fut
FailAllPendingKeeps ==
    /\ UNCHANGED queue
    /\ fut' = [o \in Ops |-> IF o \in Queued /\ fut[o] = "pending" THEN "dropped" ELSE fut[o]]

\* _fail_all_pending: empties the queue and fails what is still awaited.
FailAllPending ==
    /\ queue' = <<>>
    /\ fut' = [o \in Ops |-> IF o \in Queued /\ fut[o] = "pending" THEN "dropped" ELSE fut[o]]

\* The worker returned or was cancelled: the supervisor returns too.
SupervisorReturn ==
    /\ sup = "awaiting" /\ wpc \in {"done", "cancelled"}
    /\ sup' = "finished"
    /\ UNCHANGED <<queue, fut, tx, workerVars, crashes, dead, stopVars>>

\* Mutant: the supervisor returns after the first respawn.
SupervisorRespawnOnce ==
    /\ sup = "awaiting" /\ wpc = "crashed" /\ crashes = 0
    /\ crashes' = 1 /\ gen' = gen + 1 /\ wpc' = "idle" /\ sup' = "finished"
    /\ UNCHANGED <<queue, fut, tx, inflight, exc, nested, dead, stopVars>>

\* First crash within the window: spawn another worker task.  The loop goes
\* round only while the queue is not stopping.
SupervisorRespawn ==
    /\ sup = "awaiting" /\ wpc = "crashed" /\ crashes = 0
    /\ crashes' = 1
    /\ gen' = gen + 1 /\ wpc' = "idle"
    /\ sup' = IF stopping THEN "finished" ELSE "awaiting"
    /\ UNCHANGED <<queue, fut, tx, inflight, exc, nested, dead, stopVars>>

\* Second crash within the window: the queue is dead.
SupervisorDeclareDead ==
    /\ sup = "awaiting" /\ wpc = "crashed" /\ crashes > 0
    /\ crashes' = 2
    /\ dead' = TRUE /\ sup' = "finished"
    /\ FailAllPending
    /\ UNCHANGED <<tx, workerVars, stopVars>>

\* A minute passes without a crash.
WindowPasses ==
    /\ crashes = 1 /\ gen < MaxGen
    /\ crashes' = 0
    /\ UNCHANGED <<queue, fut, tx, workerVars, sup, dead, stopVars>>

-----------------------------------------------------------------------------
(* stop() *)

\* The sentinel does not fit: QueueFull leaves stop() through its finally.
StopFull ==
    /\ ~stopping /\ Len(queue) >= MaxDepth
    /\ stopping' = TRUE /\ stopDone' = TRUE /\ stopper' = "raised"
    /\ UNCHANGED <<queue, fut, tx, workerVars, supVars, stopGen, waiter>>

\* The worker has already ended: awaiting it raises at once, what is queued
\* is failed and the supervisor cancelled.
StopBeginLost ==
    /\ ~stopping /\ Len(queue) < MaxDepth /\ wpc \in Ended
    /\ stopping' = TRUE /\ stopDone' = TRUE /\ stopper' = "returned" /\ stopGen' = gen
    /\ FailAllPending
    /\ sup' = "finished"
    /\ UNCHANGED <<tx, workerVars, crashes, dead, waiter>>

StopBegin ==
    /\ ~stopping /\ Len(queue) < MaxDepth /\ wpc \notin Ended
    /\ stopping' = TRUE
    /\ queue' = Append(queue, Sentinel)
    /\ stopGen' = gen
    /\ IF gen = 0
         THEN stopper' = "returned" /\ stopDone' = TRUE
         ELSE stopper' = "draining" /\ UNCHANGED stopDone
    /\ UNCHANGED <<fut, tx, workerVars, supVars, waiter>>

StopReturns == stopper' = "returned" /\ stopDone' = TRUE

\* The worker stop() waits for took the sentinel.  The supervisor's callback
\* was registered on that task first, so it has run.
StopDrained ==
    /\ stopper \in {"draining", "cancelling"} /\ sup = "finished"
    /\ gen = stopGen /\ wpc = "done"
    /\ StopReturns
    /\ UNCHANGED <<queue, fut, tx, workerVars, supVars, stopping, stopGen, waiter>>

\* Mutant: stop() does not expect the CancelledError it caused.
StopWorkerLostUncancelled ==
    /\ stopper \in {"draining", "cancelling"} /\ sup = "finished"
    /\ gen # stopGen \/ wpc = "crashed"
    /\ FailAllPending /\ StopReturns
    /\ UNCHANGED <<tx, workerVars, supVars, stopping, stopGen, waiter>>

\* That worker crashed or was cancelled: fail what is left.
StopWorkerLost ==
    /\ stopper \in {"draining", "cancelling"} /\ sup = "finished"
    /\ gen # stopGen \/ wpc \in {"cancelled", "crashed"}
    /\ FailAllPending
    /\ StopReturns
    /\ UNCHANGED <<tx, workerVars, supVars, stopping, stopGen, waiter>>

\* The drain timeout cancels the worker, and waits for it.  A running callback
\* is interrupted, or answers the interruption with an error of its own and
\* the worker goes on; a worker already closing a session is interrupted
\* itself, answers the future and ends, while the shielded close goes on.
StopTimeout ==
    /\ stopper = "draining" /\ gen = stopGen /\ wpc \in {"idle", "work", "exit"}
    /\ stopper' = "cancelling"
    /\ nested' = NoOp
    /\ \/ /\ wpc = "idle" /\ wpc' = "cancelled"
          /\ UNCHANGED <<fut, inflight, exc>>
       \/ /\ wpc = "work" /\ wpc' = "exit" /\ exc' \in {"cancelled", "error"}
          /\ UNCHANGED <<fut, inflight>>
       \/ /\ wpc = "exit" /\ wpc' = "cancelled"
          /\ fut' = Answered(inflight, "workerCancelled")
          /\ inflight' = NoOp /\ exc' = "none"
    /\ UNCHANGED <<queue, tx, gen, supVars, stopping, stopDone, stopGen, waiter>>

\* The close that asyncio.shield kept alive completes after the worker ended.
ShieldedClose(o) ==
    /\ tx[o] = "open" /\ inflight # o
    /\ tx' = [tx EXCEPT ![o] = "rolledback"]
    /\ UNCHANGED <<queue, fut, workerVars, supVars, stopVars>>

\* Another call of stop() returns at once, or waits for the first one.
StopAgain ==
    /\ stopping
    /\ \/ waiter = "idle" /\ waiter' = IF stopDone THEN "returned" ELSE "waiting"
       \/ waiter = "waiting" /\ stopDone /\ waiter' = "returned"
    /\ UNCHANGED <<queue, fut, tx, workerVars, supVars, stopping, stopDone, stopper, stopGen>>

-----------------------------------------------------------------------------

Callers    == \E o \in Ops : Submit(o) \/ SubmitFromWork(o) \/ SpawnAndAwait(o) \/ CancelCaller(o)
Worker     == WorkerTake \/ WorkerExit \/ WorkerCrash
Callback   == WorkCommit \/ WorkReturn \/ WorkRaise \/ WorkCancels \/ WorkTimeout
Supervisor == SupervisorReturn \/ SupervisorRespawn \/ SupervisorDeclareDead
Stop       == StopFull \/ StopBeginLost \/ StopBegin \/ StopDrained \/ StopWorkerLost \/ StopTimeout \/ StopAgain

Next ==
    \/ Start \/ Callers \/ Worker \/ Callback \/ Supervisor \/ WindowPasses \/ Stop
    \/ \E o \in Ops : ShieldedClose(o)

\* Ready tasks run; a callback ends at the latest at its deadline.  Nobody is
\* obliged to call start(), submit() or stop().
Fairness ==
    /\ WF_vars(Worker) /\ WF_vars(WorkTimeout)
    /\ WF_vars(Supervisor)
    /\ WF_vars(StopDrained \/ StopWorkerLost)

Spec == Init /\ [][Next]_vars /\ Fairness

-----------------------------------------------------------------------------
(* Properties *)

\* At most one writer session is open at any time, across respawned workers
\* and the closes that outlive a cancelled worker: the promise the queue
\* exists for (one SQLite writer per process).
SingleSession ==
    \A o, p \in Ops : tx[o] = "open" /\ tx[p] = "open" => o = p

\* No session's closing has raised, which leaves its caller unanswered.
NeverCrashed == gen <= 1 /\ wpc # "crashed"

\* A caller that is still waiting has its callback queued or in flight; no
\* step of a worker, of the supervisor or of stop() forgets a future, as long
\* as no worker crashed.
NoLostFuture ==
    NeverCrashed => \A o \in Ops : fut[o] = "pending" => o \in Queued \/ o = inflight

\* A callback whose caller was refused, or told it was dropped, has not run
\* and never will: the caller may submit it again without writing twice.
RefusedNeverRuns ==
    \A o \in Ops : fut[o] \in Refusals \cup {"dropped"} => tx[o] = "none"

\* When the call of stop() that does the work returns, nobody waits any more,
\* as long as no worker crashed.
StopAnswersAll ==
    NeverCrashed /\ stopper = "returned" => \A o \in Ops : fut[o] # "pending"

\* No caller is forgotten, on the way or at the end.
NobodyForgotten == NoLostFuture /\ StopAnswersAll

\* A callback that ends with a CancelledError of its own takes the worker and
\* the supervisor with it, and nobody is told: the queue goes on accepting, or,
\* after a stop() that raised, holds what it had accepted.
Wedged == wpc = "cancelled" /\ stopper \in {"idle", "raised"}

\* While submit() accepts, somebody will take what it parks: the worker task
\* has not ended, or it crashed and the supervisor is about to see it, unless
\* a callback has wedged the queue.
AcceptingHasWorker ==
    gen > 0 /\ ~stopping /\ ~dead =>
        \/ wpc \in {"idle", "work", "exit"} \/ (wpc = "crashed" /\ sup = "awaiting")
        \/ Wedged

\* Every call of submit() is answered: by its callback, by the deadline when
\* the callback waits for a nested submission, or by stop(), unless a worker
\* crashed or a callback has wedged the queue.
EveryCallAnswered ==
    \A o \in Ops : fut[o] = "pending" ~> fut[o] # "pending" \/ Wedged \/ ~NeverCrashed

\* stop() returns.
StopTerminates == stopper = "draining" ~> stopDone

\* Everybody who waits for the queue, for a callback or in stop(), is served.
Served == EveryCallAnswered /\ StopTerminates

-----------------------------------------------------------------------------
(* What the queue promises its callers: WriterService *)

ServiceState(o) ==
    IF fut[o] = "none" THEN "new"
    ELSE IF fut[o] \in Refusals THEN "refused"
    ELSE IF o \in Queued THEN "waiting"
    ELSE IF o = inflight THEN "running"
    ELSE IF tx[o] = "none" THEN "dropped"
    ELSE "over"

\* The sentinel is only ever the last item.
Backlog == IF Sentinel \in Queued THEN SubSeq(queue, 1, Len(queue) - 1) ELSE queue

Service == INSTANCE WriterService WITH
    state   <- [o \in Ops |-> ServiceState(o)],
    backlog <- Backlog,
    running <- inflight

\* The queue implements the abstract serial writer.
ServiceRefined == Service!Spec
=============================================================================
