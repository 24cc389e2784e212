---------------------------- MODULE RunLifecycle ----------------------------
(***************************************************************************)
(* The life of a run_row under backend/app/services/run_orchestrator.py:   *)
(* dispatch_async() inserts the row and spawns a task that drives the      *)
(* generator and writes the terminal status; run() also waits for that     *)
(* task and forwards its caller's cancellation to it.                      *)
(*                                                                         *)
(* Every write is a callback parked on the write queue of the process that *)
(* submits it (module WriteQueue); the backend and the MCP server each     *)
(* have one, over the same database.  The rows are also written by the     *)
(* hourly sweep of gc.py and by run_admin.delete_run, both in the backend. *)
(***************************************************************************)
EXTENDS Naturals, Sequences, FiniteSets

CONSTANTS
    Runs,         \* run ids
    NoRun,        \* the run of a write that is not about one run
    Procs,        \* the processes that host an orchestrator
    Backend,      \* the one that sweeps and deletes
    MaxFaults,    \* bound on the writes refused or reported as failed
    MaxCancels,   \* bound on the cancellations of one caller
    MaxHalts      \* bound on the times a process goes down

ASSUME RunAssumption ==
    /\ NoRun \notin Runs /\ Backend \in Procs
    /\ MaxFaults \in Nat /\ MaxCancels \in Nat /\ MaxHalts \in Nat

VARIABLES
    row,       \* run_row.status, "absent" before the insert and after a delete
    old,       \* rows that started more than RUN_ORPHAN_TTL_HOURS ago
    deleted,   \* rows an operator deleted
    queue,     \* each process's write queue, oldest first
    up,        \* each process: up, stopping (its queue refuses), down
    home,      \* the process a run was started in
    mode,      \* how it was started: run() or dispatch_async()
    caller,    \* the task that started it
    cancels,   \* cancellations of that task
    task,      \* the spawned _run_to_completion
    ack,       \* the answer to the write that caller or task awaits
    verdict,   \* the terminal_status its generator returned
    done,      \* what the task left in done_future when it set done_event
    seen,      \* the status of the row run() returned
    faults, halts

callVars == <<home, mode, caller, cancels, seen>>
taskVars == <<task, verdict, done>>
dbVars   == <<row, old, deleted>>
vars == <<dbVars, queue, up, callVars, taskVars, ack, faults, halts>>

Terminal == {"completed", "partial", "failed"}
Status   == {"absent", "running"} \cup Terminal
Live     == {"generating", "persisting", "marking"}
Over     == {"returned", "raised", "gone"}

Write(k, r) == [kind |-> k, run |-> r]
Sweep  == Write("sweep", NoRun)
Writes == [kind : {"create", "persist", "fail", "delete"}, run : Runs] \cup {Sweep}

TypeOK ==
    /\ row \in [Runs -> Status]
    /\ old \subseteq Runs /\ deleted \subseteq Runs
    /\ queue \in [Procs -> Seq(Writes)]
    /\ up \in [Procs -> {"up", "stopping", "down"}]
    /\ home \in [Runs -> Procs]
    /\ mode \in [Runs -> {"run", "dispatch"}]
    /\ caller \in [Runs -> {"idle", "creating", "abandoned", "waiting", "draining", "accepted"} \cup Over]
    /\ cancels \in [Runs -> 0 .. MaxCancels]
    /\ task \in [Runs -> {"none", "ended"} \cup Live]
    /\ ack \in [Runs -> {"none", "ok", "error"}]
    /\ verdict \in [Runs -> {"none"} \cup Terminal]
    /\ done \in [Runs -> {"no", "ok", "raised"}]
    /\ seen \in [Runs -> {"none"} \cup Status]
    /\ faults \in 0 .. MaxFaults /\ halts \in 0 .. MaxHalts

Init ==
    /\ row = [r \in Runs |-> "absent"] /\ old = {} /\ deleted = {}
    /\ queue = [p \in Procs |-> <<>>] /\ up = [p \in Procs |-> "up"]
    /\ home = [r \in Runs |-> Backend] /\ mode = [r \in Runs |-> "run"]
    /\ caller = [r \in Runs |-> "idle"] /\ cancels = [r \in Runs |-> 0]
    /\ task = [r \in Runs |-> "none"] /\ ack = [r \in Runs |-> "none"]
    /\ verdict = [r \in Runs |-> "none"] /\ done = [r \in Runs |-> "no"]
    /\ seen = [r \in Runs |-> "none"]
    /\ faults = 0 /\ halts = 0

-----------------------------------------------------------------------------
(* The write queue, as its clients see it *)

Parked(p, w) == queue' = [queue EXCEPT ![p] = Append(@, w)]

Park(p, w) == up[p] = "up" /\ Parked(p, w) /\ UNCHANGED faults

\* submit() raises: the queue is stopping, or it is full, dead or reentered.
Refused(p) ==
    /\ up[p] # "up" \/ faults < MaxFaults
    /\ faults' = IF up[p] = "up" THEN faults + 1 ELSE faults
    /\ UNCHANGED queue

\* The status a row has after UPDATE; a deleted row is left alone.
Updated(r, s) == [row EXCEPT ![r] = IF @ = "absent" THEN @ ELSE s]

\* Mutant: persist_final merges the row instead of reading it.
AppliedUpsert(w) ==
    CASE w.kind = "create"  -> [row EXCEPT ![w.run] = "running"]
      [] w.kind = "persist" -> [row EXCEPT ![w.run] = verdict[w.run]]
      [] w.kind = "fail"    -> Updated(w.run, "failed")
      [] w.kind = "delete"  -> [row EXCEPT ![w.run] = "absent"]
      [] w.kind = "sweep"   -> [r \in Runs |-> IF row[r] = "running" /\ r \in old THEN "failed" ELSE row[r]]

\* Mutant: the sweep does not look at the status.
AppliedSweepAll(w) ==
    CASE w.kind = "create"  -> [row EXCEPT ![w.run] = "running"]
      [] w.kind = "persist" -> Updated(w.run, verdict[w.run])
      [] w.kind = "fail"    -> Updated(w.run, "failed")
      [] w.kind = "delete"  -> [row EXCEPT ![w.run] = "absent"]
      [] w.kind = "sweep"   -> [r \in Runs |-> IF row[r] # "absent" /\ r \in old THEN "failed" ELSE row[r]]

\* The rows once a callback has committed.
Applied(w) ==
    CASE w.kind = "create"  -> [row EXCEPT ![w.run] = "running"]
      [] w.kind = "persist" -> Updated(w.run, verdict[w.run])
      [] w.kind = "fail"    -> Updated(w.run, "failed")
      [] w.kind = "delete"  -> [row EXCEPT ![w.run] = "absent"]
      [] w.kind = "sweep"   -> [r \in Runs |-> IF row[r] = "running" /\ r \in old THEN "failed" ELSE row[r]]

\* Is somebody still waiting for this write?
Awaited(w) ==
    \/ w.kind = "create"  /\ caller[w.run] = "creating"
    \/ w.kind = "persist" /\ task[w.run] = "persisting"
    \/ w.kind = "fail"    /\ task[w.run] = "marking"

Acked(w, a) == IF Awaited(w) THEN [ack EXCEPT ![w.run] = a] ELSE ack

Execute(p, w) ==
    /\ queue[p] # <<>> /\ w = Head(queue[p]) /\ up[p] # "down"
    /\ queue' = [queue EXCEPT ![p] = Tail(@)]
    /\ row' = Applied(w)
    /\ deleted' = IF w.kind = "delete" /\ row[w.run] # "absent" THEN deleted \cup {w.run} ELSE deleted
    /\ ack' = Acked(w, "ok")
    /\ UNCHANGED <<old, up, callVars, taskVars, faults, halts>>

\* The callback fails or is dropped; or it commits, and its deadline or the
\* closing of its session still turns the answer into an error.
ExecuteFails(p, w) ==
    /\ queue[p] # <<>> /\ w = Head(queue[p]) /\ up[p] # "down"
    /\ faults < MaxFaults /\ faults' = faults + 1
    /\ queue' = [queue EXCEPT ![p] = Tail(@)]
    /\ \/ UNCHANGED <<row, deleted>>
       \/ /\ row' = Applied(w)
          /\ deleted' = IF w.kind = "delete" /\ row[w.run] # "absent" THEN deleted \cup {w.run} ELSE deleted
    /\ ack' = Acked(w, "error")
    /\ UNCHANGED <<old, up, callVars, taskVars, halts>>

-----------------------------------------------------------------------------
(* run() and dispatch_async() *)

Call(r, p, m) ==
    /\ caller[r] = "idle" /\ up[p] = "up"
    /\ home' = [home EXCEPT ![r] = p] /\ mode' = [mode EXCEPT ![r] = m]
    /\ \/ Park(p, Write("create", r)) /\ caller' = [caller EXCEPT ![r] = "creating"]
       \/ Refused(p) /\ caller' = [caller EXCEPT ![r] = "raised"]
    /\ UNCHANGED <<dbVars, up, cancels, seen, taskVars, ack, halts>>

\* The insert was answered: spawn the task.  run() goes on to await
\* done_future; dispatch_async() returns.
Created(r) ==
    /\ caller[r] = "creating" /\ ack[r] = "ok"
    /\ caller' = [caller EXCEPT ![r] = IF mode[r] = "run" THEN "waiting" ELSE "accepted"]
    /\ task' = [task EXCEPT ![r] = "generating"]
    /\ ack' = [ack EXCEPT ![r] = "none"]
    /\ UNCHANGED <<dbVars, queue, up, home, mode, cancels, seen, verdict, done, faults, halts>>

CreateFails(r) ==
    /\ caller[r] = "creating" /\ ack[r] = "error"
    /\ caller' = [caller EXCEPT ![r] = "raised"]
    /\ ack' = [ack EXCEPT ![r] = "none"]
    /\ UNCHANGED <<dbVars, queue, up, home, mode, cancels, seen, taskVars, faults, halts>>

\* _run_to_completion's finally: resolve done_future, set done_event.
End(r, how) ==
    /\ task' = [task EXCEPT ![r] = "ended"]
    /\ done' = [done EXCEPT ![r] = how]

\* The except blocks: await the shielded _mark_failed; should even that be
\* refused, the exception is suppressed and the task ends.
MarkFailed(r) ==
    \/ /\ Park(home[r], Write("fail", r))
       /\ task' = [task EXCEPT ![r] = "marking"]
       /\ UNCHANGED done
    \/ Refused(home[r]) /\ End(r, "raised")

\* Mutant: a cancelled task ends without marking its row.
InterruptUnmarked(r) ==
    /\ task[r] \in Live /\ End(r, "raised")
    /\ UNCHANGED <<queue, faults>>

\* A CancelledError reaches the task.  While _mark_failed is awaited nothing
\* suppresses it and captured_exc is still None; the shielded write goes on.
Interrupt(r) ==
    \/ task[r] \in {"generating", "persisting"} /\ MarkFailed(r)
    \/ task[r] = "marking" /\ End(r, "ok") /\ UNCHANGED <<queue, faults>>

\* The caller's task is cancelled: in dispatch_async() the insert stays parked
\* and nobody spawns anything; in run() the cancellation is forwarded to the
\* task, again for every further one.
CancelCaller(r) ==
    /\ cancels[r] < MaxCancels
    /\ cancels' = [cancels EXCEPT ![r] = @ + 1]
    /\ \/ /\ caller[r] = "creating"
          /\ caller' = [caller EXCEPT ![r] = "abandoned"]
          /\ UNCHANGED <<queue, task, done, faults>>
       \/ /\ caller[r] \in {"waiting", "draining"}
          /\ caller' = [caller EXCEPT ![r] = "draining"]
          /\ IF task[r] \in Live THEN Interrupt(r) ELSE UNCHANGED <<queue, task, done, faults>>
    /\ ack' = [ack EXCEPT ![r] = "none"]
    /\ UNCHANGED <<dbVars, up, home, mode, seen, verdict, halts>>

\* Mutant: the cancelled wrapper does not wait for its task.
LeaveUndrained(r) ==
    /\ caller[r] = "draining"
    /\ caller' = [caller EXCEPT ![r] = "gone"]
    /\ UNCHANGED <<dbVars, queue, up, home, mode, cancels, seen, taskVars, ack, faults, halts>>

\* run() after a cancellation: the task has ended, re-raise.
Leave(r) ==
    /\ caller[r] = "draining" /\ task[r] = "ended"
    /\ caller' = [caller EXCEPT ![r] = "gone"]
    /\ UNCHANGED <<dbVars, queue, up, home, mode, cancels, seen, taskVars, ack, faults, halts>>

\* run() after done_future: re-raise, or _reload the row and return it.
Return(r) ==
    /\ caller[r] = "waiting" /\ task[r] = "ended"
    /\ IF done[r] = "raised" \/ row[r] = "absent"
         THEN caller' = [caller EXCEPT ![r] = "raised"] /\ UNCHANGED seen
         ELSE /\ caller' = [caller EXCEPT ![r] = "returned"]
              /\ seen' = [seen EXCEPT ![r] = row[r]]
    /\ UNCHANGED <<dbVars, queue, up, home, mode, cancels, taskVars, ack, faults, halts>>

-----------------------------------------------------------------------------
(* _run_to_completion *)

\* The generator returns its classification; _persist_final submits it.  What
\* refuses that write, a stopped, dead or full queue, mostly refuses the
\* failure too; or it has room again for that one.
GeneratorReturns(r, v) ==
    /\ task[r] = "generating"
    /\ verdict' = [verdict EXCEPT ![r] = v]
    /\ \/ /\ Park(home[r], Write("persist", r))
          /\ task' = [task EXCEPT ![r] = "persisting"]
          /\ UNCHANGED done
       \/ Refused(home[r]) /\ End(r, "raised")
       \/ /\ up[home[r]] = "up" /\ faults < MaxFaults
          /\ Parked(home[r], Write("fail", r)) /\ faults' = faults + 1
          /\ task' = [task EXCEPT ![r] = "marking"] /\ UNCHANGED done
    /\ UNCHANGED <<dbVars, up, callVars, ack, halts>>

GeneratorRaises(r) ==
    /\ task[r] = "generating"
    /\ MarkFailed(r)
    /\ UNCHANGED <<dbVars, up, callVars, verdict, ack, halts>>

\* Mutant: the terminal write is parked, not awaited.
PersistedUnawaited(r) ==
    /\ task[r] = "persisting" /\ ack[r] # "error"
    /\ End(r, "ok")
    /\ ack' = [ack EXCEPT ![r] = "none"]
    /\ UNCHANGED <<dbVars, queue, up, callVars, verdict, faults, halts>>

Persisted(r) ==
    /\ task[r] = "persisting" /\ ack[r] = "ok"
    /\ End(r, "ok")
    /\ ack' = [ack EXCEPT ![r] = "none"]
    /\ UNCHANGED <<dbVars, queue, up, callVars, verdict, faults, halts>>

PersistFails(r) ==
    /\ task[r] = "persisting" /\ ack[r] = "error"
    /\ MarkFailed(r)
    /\ ack' = [ack EXCEPT ![r] = "none"]
    /\ UNCHANGED <<dbVars, up, callVars, verdict, halts>>

\* _mark_failed was answered, either way; the original exception goes on.
Marked(r) ==
    /\ task[r] = "marking" /\ ack[r] # "none"
    /\ End(r, "raised")
    /\ ack' = [ack EXCEPT ![r] = "none"]
    /\ UNCHANGED <<dbVars, queue, up, callVars, verdict, faults, halts>>

-----------------------------------------------------------------------------
(* The sweep, an operator, and the processes *)

Age(r) ==
    /\ row[r] = "running" /\ r \notin old
    /\ old' = old \cup {r}
    /\ UNCHANGED <<row, deleted, queue, up, callVars, taskVars, ack, faults, halts>>

\* Mutant: no sweep between restarts.
SweepTickNever == FALSE

\* The hourly recurring_gc task submits one sweep and awaits it.
SweepTick ==
    /\ Sweep \notin {queue[Backend][i] : i \in DOMAIN queue[Backend]}
    /\ Park(Backend, Sweep)
    /\ UNCHANGED <<dbVars, up, callVars, taskVars, ack, halts>>

DeleteRun(r) ==
    /\ row[r] # "absent"
    /\ Write("delete", r) \notin {queue[Backend][i] : i \in DOMAIN queue[Backend]}
    /\ Park(Backend, Write("delete", r))
    /\ UNCHANGED <<dbVars, up, callVars, taskVars, ack, halts>>

\* Shutdown stops the queue: what is parked is drained, the rest refused.
Stop(p) ==
    /\ up[p] = "up" /\ halts < MaxHalts
    /\ up' = [up EXCEPT ![p] = "stopping"]
    /\ UNCHANGED <<dbVars, queue, callVars, taskVars, ack, faults, halts>>

Hosted(p) == {r \in Runs : home[r] = p /\ caller[r] # "idle"}

\* The process exits, in order or not; its tasks and its queue are lost.
Halt(p) ==
    /\ up[p] # "down" /\ halts < MaxHalts
    /\ halts' = halts + 1
    /\ up' = [up EXCEPT ![p] = "down"]
    /\ queue' = [queue EXCEPT ![p] = <<>>]
    /\ task' = [r \in Runs |-> IF r \in Hosted(p) /\ task[r] \in Live THEN "ended" ELSE task[r]]
    /\ caller' = [r \in Runs |-> IF r \in Hosted(p) /\ caller[r] \in {"creating", "waiting", "draining"}
                                   THEN "gone" ELSE caller[r]]
    /\ ack' = [r \in Runs |-> IF r \in Hosted(p) THEN "none" ELSE ack[r]]
    /\ UNCHANGED <<dbVars, home, mode, cancels, seen, verdict, done, faults>>

\* The backend sweeps once when it starts.
Restart(p) ==
    /\ up[p] = "down"
    /\ up' = [up EXCEPT ![p] = "up"]
    /\ queue' = [queue EXCEPT ![p] = IF p = Backend THEN <<Sweep>> ELSE <<>>]
    /\ UNCHANGED <<dbVars, callVars, taskVars, ack, faults, halts>>

-----------------------------------------------------------------------------

Caller(r) ==
    \/ \E p \in Procs, m \in {"run", "dispatch"} : Call(r, p, m)
    \/ Created(r) \/ CreateFails(r) \/ CancelCaller(r) \/ Leave(r) \/ Return(r)

Task(r) ==
    \/ \E v \in Terminal : GeneratorReturns(r, v)
    \/ GeneratorRaises(r) \/ Persisted(r) \/ PersistFails(r) \/ Marked(r)

Worker(p) == \E w \in Writes : Execute(p, w) \/ ExecuteFails(p, w)

Next ==
    \/ \E r \in Runs : Caller(r) \/ Task(r) \/ Age(r) \/ DeleteRun(r)
    \/ SweepTick
    \/ \E p \in Procs : Worker(p) \/ Stop(p) \/ Halt(p) \/ Restart(p)

\* Ready tasks run and the write queues serve; time passes and the sweep
\* recurs.  A generator may never return, and nobody restarts a process.
Fairness ==
    /\ \A p \in Procs : WF_vars(Worker(p))
    /\ \A r \in Runs : /\ WF_vars(Persisted(r) \/ PersistFails(r) \/ Marked(r))
                       /\ WF_vars(Created(r) \/ CreateFails(r) \/ Leave(r) \/ Return(r))
                       /\ WF_vars(Age(r))
    /\ WF_vars(SweepTick)

Spec == Init /\ [][Next]_vars /\ Fairness

-----------------------------------------------------------------------------
(* Properties *)

\* run() returns the row its generator classified: whatever was refused,
\* cancelled, swept or restarted, a normal return saw that verdict stored.
ReturnsVerdict ==
    \A r \in Runs : caller[r] = "returned" => seen[r] \in Terminal /\ seen[r] = verdict[r]

\* A client that was handed a run id finds the row at its first poll, unless
\* the row was deleted since; and what is deleted never comes back, though the
\* run's own terminal write is still to come from another process's queue.
AcceptedRowExists ==
    \A r \in Runs :
        /\ caller[r] = "accepted" => row[r] # "absent" \/ r \in deleted
        /\ r \in deleted => row[r] = "absent"

\* run() leaves no task behind: when it has returned or raised, cancelled any
\* number of times, nothing still drives the generator or awaits a write.
NoTaskOutlivesRun ==
    \A r \in Runs : mode[r] = "run" /\ caller[r] \in Over => task[r] \notin Live

\* A run() that is over returned what is stored, and has left nothing behind.
RunOver == ReturnsVerdict /\ NoTaskOutlivesRun

InQueue(w) == \E p \in Procs : \E i \in DOMAIN queue[p] : queue[p][i] = w

\* As long as no write was refused or failed and no process went down, a row
\* that says "running" has somebody who will change that: its creator, its
\* task, or a terminal write still queued.  Only a caller cancelled inside
\* dispatch_async leaves one that nobody owns.
RunningRowOwned ==
    faults = 0 /\ halts = 0 /\ (\A p \in Procs : up[p] = "up") =>
        \A r \in Runs : row[r] = "running" =>
            \/ task[r] \in Live \/ caller[r] \in {"creating", "abandoned"}
            \/ InQueue(Write("fail", r)) \/ InQueue(Write("persist", r))

\* A stored success is only replaced by "failed", and only after the run was
\* cancelled or told that its terminal write had failed; a terminal row never
\* says "running" again.
VerdictKept ==
    [][\A r \in Runs :
        /\ row[r] \in {"completed", "partial"} /\ row'[r] \notin {row[r], "absent"} =>
               row'[r] = "failed" /\ (cancels[r] > 0 \/ faults > 0)
        /\ row[r] \in Terminal => row'[r] # "running"]_vars

\* Every running row is eventually settled: by its task or, whatever happened
\* to that, by the sweep, as long as the backend stays up; and a cancelled
\* run() ends: it never waits for a task that waits for nothing.
EveryRunSettles == \A r \in Runs :
    /\ row[r] = "running" ~> row[r] # "running" \/ up[Backend] # "up"
    /\ caller[r] = "draining" ~> caller[r] = "gone"
=============================================================================
