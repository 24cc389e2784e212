------------------------- MODULE RunLifecycleProofs -------------------------
(***************************************************************************)
(* Proofs about RunLifecycle and RunStream, for any number of runs and     *)
(* processes and any bounds: the types, the safety properties that relate  *)
(* a row, its task, its caller and the writes parked for it, and what a    *)
(* run's event stream says beside what its row says.                       *)
(***************************************************************************)
EXTENDS RunStream, SequenceTheorems, TLAPS

Elems(s)   == {s[i] : i \in DOMAIN s}
Once(s, w) == \A i, j \in DOMAIN s : s[i] = w /\ s[j] = w => i = j

\* A task exists only once the insert was acknowledged to its caller.
Spawned(r) == caller[r] \in {"idle", "creating", "abandoned"} => task[r] = "none"

\* Nobody answers before something is awaited, and a generator is still to
\* classify its run.
Unanswered(r) ==
    /\ caller[r] = "idle" => ack[r] = "none"
    /\ task[r] = "generating" => ack[r] = "none"
    /\ task[r] \in {"none", "generating"} => verdict[r] = "none"
    /\ ack[r] = "error" => faults > 0

\* The insert is parked once, in the run's own process, before anything else.
CreateParked(r) ==
    \A p \in Procs :
        /\ Once(queue[p], Write("create", r))
        /\ Write("create", r) \in Elems(queue[p]) =>
             /\ p = home[r] /\ row[r] = "absent" /\ r \notin deleted
             /\ caller[r] \in {"creating", "abandoned"} /\ ack[r] = "none"

\* No row before a call; an acknowledged insert is in the database, or was
\* deleted since.
Inserted(r) ==
    /\ caller[r] = "idle" => row[r] = "absent" /\ r \notin deleted
    /\ caller[r] = "accepted" \/ (caller[r] = "creating" /\ ack[r] = "ok") =>
         row[r] # "absent" \/ r \in deleted
    /\ r \in deleted => row[r] = "absent"

\* The terminal write carries a verdict, and a success in the database is it.
PersistParked(r) ==
    /\ \A p \in Procs : Write("persist", r) \in Elems(queue[p]) =>
         verdict[r] \in Terminal /\ task[r] \notin {"none", "generating"}
    /\ task[r] = "persisting" =>
         verdict[r] \in Terminal /\ (ack[r] = "ok" => row[r] \in {verdict[r], "absent"})
    /\ row[r] \in {"completed", "partial"} => row[r] = verdict[r]

\* A failure is parked once, in the run's own process, by a task that waits
\* for it or that a second cancellation has ended.
FailParked(r) ==
    \A p \in Procs :
        /\ Once(queue[p], Write("fail", r))
        /\ Write("fail", r) \in Elems(queue[p]) =>
             /\ p = home[r]
             /\ \/ task[r] = "marking" /\ ack[r] = "none"
                \/ task[r] = "ended" /\ caller[r] \in {"draining", "gone"}
             /\ verdict[r] # "none" => cancels[r] > 0 \/ faults > 0

\* What run() is about to return, and what it returned.
Settling(r) ==
    /\ caller[r] = "waiting" /\ task[r] = "ended" /\ done[r] # "raised" =>
         verdict[r] \in Terminal /\ row[r] \in {verdict[r], "absent"}
    /\ caller[r] = "returned" =>
         task[r] = "ended" /\ seen[r] \in Terminal /\ seen[r] = verdict[r]
    /\ mode[r] = "run" /\ caller[r] \in Over => task[r] \notin Live

RunInv(r) ==
    /\ Spawned(r) /\ Unanswered(r) /\ CreateParked(r) /\ Inserted(r)
    /\ PersistParked(r) /\ FailParked(r) /\ Settling(r)

IInv == TypeOK /\ \A r \in Runs : RunInv(r)

-----------------------------------------------------------------------------
(* Facts about the queues *)

LEMMA AppendFacts ==
    ASSUME NEW S, NEW s \in Seq(S), NEW e \in S
    PROVE  /\ Append(s, e) \in Seq(S)
           /\ Elems(Append(s, e)) = Elems(s) \cup {e}
           /\ \A w : Once(s, w) /\ (w = e => w \notin Elems(s)) => Once(Append(s, e), w)
  <1> DEFINE t == Append(s, e)
  <1>1. /\ t \in Seq(S) /\ Len(t) = Len(s) + 1 /\ t[Len(s) + 1] = e
        /\ DOMAIN t = 1 .. Len(s) + 1 /\ DOMAIN s = 1 .. Len(s)
        /\ \A i \in 1 .. Len(s) : t[i] = s[i]
    OBVIOUS
  <1>2. Len(s) \in Nat
    OBVIOUS
  <1> HIDE DEF t
  <1>3. Elems(t) = Elems(s) \cup {e}
    <2>1. ASSUME NEW x \in Elems(t) PROVE x \in Elems(s) \cup {e}
      <3>1. PICK i \in 1 .. Len(s) + 1 : x = t[i]
        BY <2>1, <1>1 DEF Elems
      <3> QED BY <3>1, <1>1, <1>2 DEF Elems
    <2>2. ASSUME NEW x \in Elems(s) PROVE x \in Elems(t)
      <3>1. PICK i \in 1 .. Len(s) : x = t[i]
        BY <2>2, <1>1 DEF Elems
      <3>2. i \in 1 .. Len(s) + 1
        BY <1>2
      <3> QED BY <3>1, <3>2, <1>1 DEF Elems
    <2>3. e \in Elems(t)
      <3>1. Len(s) + 1 \in 1 .. Len(s) + 1
        BY <1>2
      <3> QED BY <3>1, <1>1 DEF Elems
    <2> QED BY <2>1, <2>2, <2>3
  <1>4. ASSUME NEW w, Once(s, w), w = e => w \notin Elems(s) PROVE Once(t, w)
    BY <1>1, <1>2, <1>4 DEF Once, Elems
  <1> QED BY <1>1, <1>3, <1>4 DEF t

LEMMA TailFacts ==
    ASSUME NEW S, NEW s \in Seq(S), s # <<>>
    PROVE  /\ Head(s) \in S /\ Head(s) \in Elems(s)
           /\ Tail(s) \in Seq(S)
           /\ Elems(Tail(s)) \subseteq Elems(s)
           /\ \A w : Once(s, w) => Once(Tail(s), w)
           /\ Once(s, Head(s)) => Head(s) \notin Elems(Tail(s))
  <1> DEFINE t == Tail(s)
             n == Len(s)
  <1>1. /\ t \in Seq(S) /\ n \in Nat /\ n >= 1
        /\ Head(s) = s[1] /\ s[1] \in S
        /\ DOMAIN t = 1 .. n - 1 /\ DOMAIN s = 1 .. n
        /\ \A i \in 1 .. n - 1 : t[i] = s[i + 1]
    OBVIOUS
  <1> HIDE DEF t, n
  <1>2. Head(s) \in Elems(s)
    BY <1>1 DEF Elems
  <1>3. ASSUME NEW x \in Elems(t) PROVE x \in Elems(s)
    <2>1. PICK i \in 1 .. n - 1 : x = t[i]
      BY <1>3, <1>1 DEF Elems
    <2>2. i + 1 \in 1 .. n /\ x = s[i + 1]
      BY <2>1, <1>1
    <2> QED BY <2>2, <1>1 DEF Elems
  <1>4. ASSUME NEW w, Once(s, w) PROVE Once(t, w)
    <2> SUFFICES ASSUME NEW i \in 1 .. n - 1, NEW j \in 1 .. n - 1, t[i] = w, t[j] = w PROVE i = j
      BY <1>1 DEF Once
    <2>1. s[i + 1] = w /\ s[j + 1] = w /\ i + 1 \in 1 .. n /\ j + 1 \in 1 .. n
      BY <1>1
    <2>2. i + 1 = j + 1
      BY <2>1, <1>1, <1>4 DEF Once
    <2> QED BY <2>2
  <1>5. ASSUME Once(s, s[1]), s[1] \in Elems(t) PROVE FALSE
    <2>1. PICK i \in 1 .. n - 1 : s[1] = t[i]
      BY <1>5, <1>1 DEF Elems
    <2>2. s[i + 1] = s[1] /\ i + 1 \in 1 .. n /\ 1 \in 1 .. n /\ i + 1 # 1
      BY <2>1, <1>1
    <2> QED BY <2>2, <1>1, <1>5 DEF Once
  <1> QED BY <1>1, <1>2, <1>3, <1>4, <1>5 DEF t

LEMMA EmptyFacts == Elems(<<>>) = {} /\ \A w : Once(<<>>, w)
  BY DEF Elems, Once

LEMMA WriteEq ==
    /\ \A k, l, r, s : Write(k, r) = Write(l, s) <=> k = l /\ r = s
    /\ \A k, r : Write(k, r).kind = k /\ Write(k, r).run = r
    /\ \A r \in Runs : \A k : Write(k, r) # Sweep
    /\ \A r \in Runs : \A k \in {"create", "persist", "fail", "delete"} : Write(k, r) \in Writes
    /\ Sweep \in Writes
  BY RunAssumption DEF Write, Sweep, Writes

LEMMA ParkStep ==
    ASSUME TypeOK, NEW q \in Procs, NEW w \in Writes, Parked(q, w)
    PROVE  /\ queue' \in [Procs -> Seq(Writes)]
           /\ \A p \in Procs : Elems(queue'[p]) = Elems(queue[p]) \cup (IF p = q THEN {w} ELSE {})
           /\ \A p \in Procs : \A v : Once(queue[p], v) /\ (p = q /\ v = w => v \notin Elems(queue[p]))
                                        => Once(queue'[p], v)
  <1>1. queue \in [Procs -> Seq(Writes)] /\ queue' = [queue EXCEPT ![q] = Append(@, w)]
    BY DEF TypeOK, Parked
  <1>2. queue[q] \in Seq(Writes)
    BY <1>1
  <1>3. queue'[q] = Append(queue[q], w) /\ \A p \in Procs : p # q => queue'[p] = queue[p]
    BY <1>1
  <1>4. /\ Append(queue[q], w) \in Seq(Writes)
        /\ Elems(Append(queue[q], w)) = Elems(queue[q]) \cup {w}
        /\ \A v : Once(queue[q], v) /\ (v = w => v \notin Elems(queue[q])) => Once(Append(queue[q], w), v)
    BY <1>2, AppendFacts
  <1>5. queue' \in [Procs -> Seq(Writes)]
    BY <1>1, <1>4
  <1> QED BY <1>3, <1>4, <1>5

LEMMA PopStep ==
    ASSUME TypeOK, NEW q \in Procs, queue[q] # <<>>, queue' = [queue EXCEPT ![q] = Tail(@)]
    PROVE  /\ queue' \in [Procs -> Seq(Writes)]
           /\ Head(queue[q]) \in Writes /\ Head(queue[q]) \in Elems(queue[q])
           /\ \A p \in Procs : Elems(queue'[p]) \subseteq Elems(queue[p])
           /\ \A p \in Procs : \A v : Once(queue[p], v) => Once(queue'[p], v)
           /\ Once(queue[q], Head(queue[q])) => Head(queue[q]) \notin Elems(queue'[q])
  <1>1. queue \in [Procs -> Seq(Writes)]
    BY DEF TypeOK
  <1>2. queue[q] \in Seq(Writes)
    BY <1>1
  <1>3. queue'[q] = Tail(queue[q]) /\ \A p \in Procs : p # q => queue'[p] = queue[p]
    BY <1>1
  <1>4. /\ Head(queue[q]) \in Writes /\ Head(queue[q]) \in Elems(queue[q])
        /\ Tail(queue[q]) \in Seq(Writes)
        /\ Elems(Tail(queue[q])) \subseteq Elems(queue[q])
        /\ \A w : Once(queue[q], w) => Once(Tail(queue[q]), w)
        /\ Once(queue[q], Head(queue[q])) => Head(queue[q]) \notin Elems(Tail(queue[q]))
    BY <1>2, TailFacts
  <1>5. queue' \in [Procs -> Seq(Writes)]
    BY <1>1, <1>4
  <1> QED BY <1>3, <1>4, <1>5

LEMMA AppliedRow ==
    ASSUME TypeOK, NEW w \in Writes, NEW r \in Runs
    PROVE  /\ w = Write("create", r) => Applied(w)[r] = "running"
           /\ w = Write("persist", r) => Applied(w)[r] = IF row[r] = "absent" THEN "absent" ELSE verdict[r]
           /\ w = Write("fail", r) => Applied(w)[r] = IF row[r] = "absent" THEN "absent" ELSE "failed"
           /\ w = Write("delete", r) => Applied(w)[r] = "absent"
           /\ w = Sweep => Applied(w)[r] = row[r] \/ (row[r] = "running" /\ Applied(w)[r] = "failed")
           /\ \/ w \in {Write(k, r) : k \in {"create", "persist", "fail", "delete"}} \cup {Sweep}
              \/ Applied(w)[r] = row[r]
  <1>1. row \in [Runs -> Status]
    BY DEF TypeOK
  <1>2. w = Sweep \/ (w.run \in Runs /\ w.kind \in {"create", "persist", "fail", "delete"} /\ w = Write(w.kind, w.run))
    BY DEF Writes, Write
  <1>3. CASE w = Sweep
    BY <1>1, <1>3, RunAssumption, WriteEq DEF Applied, Sweep, Write
  <1>4. CASE w.run \in Runs /\ w.kind \in {"create", "persist", "fail", "delete"} /\ w = Write(w.kind, w.run)
    <2>1. w # Sweep /\ \A k, s : w = Write(k, s) <=> k = w.kind /\ s = w.run
      BY <1>4, WriteEq
    <2>2. CASE w.kind = "create"
      BY <1>1, <1>4, <2>1, <2>2 DEF Applied
    <2>3. CASE w.kind = "persist"
      BY <1>1, <1>4, <2>1, <2>3 DEF Applied, Updated
    <2>4. CASE w.kind = "fail"
      BY <1>1, <1>4, <2>1, <2>4 DEF Applied, Updated
    <2>5. CASE w.kind = "delete"
      BY <1>1, <1>4, <2>1, <2>5 DEF Applied
    <2> QED BY <1>4, <2>2, <2>3, <2>4, <2>5
  <1> QED BY <1>2, <1>3, <1>4

LEMMA AppliedType ==
    ASSUME TypeOK, NEW w \in Writes,
           \A r \in Runs : w = Write("persist", r) => verdict[r] \in Terminal
    PROVE  Applied(w) \in [Runs -> Status]
  <1>1. row \in [Runs -> Status]
    BY DEF TypeOK
  <1>2. w = Sweep \/ (w.run \in Runs /\ w.kind \in {"create", "persist", "fail", "delete"} /\ w = Write(w.kind, w.run))
    BY DEF Writes, Write
  <1>3. CASE w = Sweep
    BY <1>1, <1>3 DEF Applied, Sweep, Write, Status, Terminal
  <1>4. CASE w.run \in Runs /\ w.kind \in {"create", "persist", "fail", "delete"} /\ w = Write(w.kind, w.run)
    BY <1>1, <1>4 DEF Applied, Updated, Status, Terminal
  <1> QED BY <1>2, <1>3, <1>4

-----------------------------------------------------------------------------
(* The invariant *)

LEMMA InvInit == Init => IInv
  <1> SUFFICES ASSUME Init PROVE IInv
    OBVIOUS
  <1>1. TypeOK
    BY RunAssumption DEF Init, TypeOK, Status, Live, Over
  <1>2. ASSUME NEW r \in Runs PROVE RunInv(r)
    <2>1. \A p \in Procs : queue[p] = <<>>
      BY DEF Init
    <2> QED BY <2>1, EmptyFacts, RunAssumption DEF Init, RunInv, Spawned, Unanswered, CreateParked,
                Inserted, PersistParked, FailParked, Settling, Over, Live
  <1> QED BY <1>1, <1>2 DEF IInv

\* What an action leaves of every run's invariant, one lemma per action.
LEMMA CreatedStep == ASSUME IInv, NEW s \in Runs, Created(s) PROVE IInv'
  <1>1. TypeOK'
    BY DEF IInv, TypeOK, Created, Live, Over, Terminal, dbVars, callVars, taskVars
  <1>2. ASSUME NEW r \in Runs PROVE RunInv(r)'
    <2> USE <1>1 DEF IInv, TypeOK, Created, RunInv, dbVars, callVars, taskVars
    <2>1. Spawned(r)' /\ Unanswered(r)'
      BY DEF Spawned, Unanswered, Live
    <2>2. CreateParked(r)' /\ FailParked(r)'
      BY DEF Spawned, CreateParked, FailParked
    <2>3. Inserted(r)' /\ PersistParked(r)'
      BY DEF Spawned, Inserted, PersistParked
    <2>4. Settling(r)'
      BY DEF Spawned, Settling, PersistParked, Over, Live
    <2> QED BY <2>1, <2>2, <2>3, <2>4
  <1> QED BY <1>1, <1>2 DEF IInv

LEMMA CreateFailsStep == ASSUME IInv, NEW s \in Runs, CreateFails(s) PROVE IInv'
  <1>1. TypeOK'
    BY DEF IInv, TypeOK, CreateFails, Live, Over, Terminal, dbVars, callVars, taskVars
  <1>2. ASSUME NEW r \in Runs PROVE RunInv(r)'
    <2> USE <1>1 DEF IInv, TypeOK, CreateFails, RunInv, dbVars, callVars, taskVars
    <2>1. Spawned(r)' /\ Unanswered(r)'
      BY DEF Spawned, Unanswered, Live
    <2>2. CreateParked(r)' /\ FailParked(r)'
      BY DEF Spawned, CreateParked, FailParked
    <2>3. Inserted(r)' /\ PersistParked(r)'
      BY DEF Spawned, Inserted, PersistParked
    <2>4. Settling(r)'
      BY DEF Spawned, Settling, PersistParked, Over, Live
    <2> QED BY <2>1, <2>2, <2>3, <2>4
  <1> QED BY <1>1, <1>2 DEF IInv

LEMMA LeaveStep == ASSUME IInv, NEW s \in Runs, Leave(s) PROVE IInv'
  <1>1. TypeOK'
    BY DEF IInv, TypeOK, Leave, Live, Over, Terminal, dbVars, callVars, taskVars
  <1>2. ASSUME NEW r \in Runs PROVE RunInv(r)'
    <2> USE <1>1 DEF IInv, TypeOK, Leave, RunInv, dbVars, callVars, taskVars
    <2>1. Spawned(r)' /\ Unanswered(r)'
      BY DEF Spawned, Unanswered, Live
    <2>2. CreateParked(r)' /\ FailParked(r)'
      BY DEF Spawned, CreateParked, FailParked
    <2>3. Inserted(r)' /\ PersistParked(r)'
      BY DEF Spawned, Inserted, PersistParked
    <2>4. Settling(r)'
      BY DEF Spawned, Settling, PersistParked, Over, Live
    <2> QED BY <2>1, <2>2, <2>3, <2>4
  <1> QED BY <1>1, <1>2 DEF IInv

LEMMA ReturnStep == ASSUME IInv, NEW s \in Runs, Return(s) PROVE IInv'
  <1> DEFINE to == IF done[s] = "raised" \/ row[s] = "absent" THEN "raised" ELSE "returned"
  <1>0. /\ caller' = [caller EXCEPT ![s] = to]
        /\ seen' = IF to = "raised" THEN seen ELSE [seen EXCEPT ![s] = row[s]]
        /\ to \in {"raised", "returned"} /\ caller[s] = "waiting" /\ task[s] = "ended"
        /\ UNCHANGED <<row, old, deleted, queue, up, home, mode, cancels, task, verdict, done, ack, faults, halts>>
        /\ to = "returned" => row[s] # "absent" /\ done[s] # "raised"
    BY DEF Return, dbVars, taskVars
  <1> HIDE DEF to
  <1>1. TypeOK'
    <2>1. caller' \in [Runs -> {"idle", "creating", "abandoned", "waiting", "draining", "accepted"} \cup Over]
      BY <1>0 DEF IInv, TypeOK, Over
    <2>2. seen' \in [Runs -> {"none"} \cup Status]
      BY <1>0 DEF IInv, TypeOK
    <2> QED BY <1>0, <2>1, <2>2 DEF IInv, TypeOK
  <1>2. ASSUME NEW r \in Runs PROVE RunInv(r)'
    <2> USE <1>0 DEF IInv, TypeOK, RunInv
    <2>1. Spawned(r)' /\ Unanswered(r)'
      BY DEF Spawned, Unanswered
    <2>2. CreateParked(r)' /\ FailParked(r)'
      BY DEF CreateParked, FailParked
    <2>3. Inserted(r)' /\ PersistParked(r)'
      BY DEF Inserted, PersistParked
    <2>4. Settling(r)'
      BY DEF Settling, Over, Live, Terminal
    <2> QED BY <2>1, <2>2, <2>3, <2>4
  <1> QED BY <1>1, <1>2 DEF IInv

LEMMA PersistedStep == ASSUME IInv, NEW s \in Runs, Persisted(s) PROVE IInv'
  <1>1. TypeOK'
    BY DEF IInv, TypeOK, Persisted, End, Live, Over, Terminal, dbVars, callVars, taskVars
  <1>2. ASSUME NEW r \in Runs PROVE RunInv(r)'
    <2> USE <1>1 DEF IInv, TypeOK, Persisted, End, RunInv, dbVars, callVars, taskVars
    <2>1. Spawned(r)' /\ Unanswered(r)'
      BY DEF Spawned, Unanswered, Live
    <2>2. CreateParked(r)' /\ FailParked(r)'
      BY DEF Spawned, CreateParked, FailParked
    <2>3. Inserted(r)' /\ PersistParked(r)'
      BY DEF Spawned, Inserted, PersistParked
    <2>4. Settling(r)'
      BY DEF Spawned, Settling, PersistParked, Over, Live
    <2> QED BY <2>1, <2>2, <2>3, <2>4
  <1> QED BY <1>1, <1>2 DEF IInv

LEMMA MarkedStep == ASSUME IInv, NEW s \in Runs, Marked(s) PROVE IInv'
  <1>1. TypeOK'
    BY DEF IInv, TypeOK, Marked, End, Live, Over, Terminal, dbVars, callVars, taskVars
  <1>2. ASSUME NEW r \in Runs PROVE RunInv(r)'
    <2> USE <1>1 DEF IInv, TypeOK, Marked, End, RunInv, dbVars, callVars, taskVars
    <2>1. Spawned(r)' /\ Unanswered(r)'
      BY DEF Spawned, Unanswered, Live
    <2>2. CreateParked(r)' /\ FailParked(r)'
      BY DEF Spawned, CreateParked, FailParked
    <2>3. Inserted(r)' /\ PersistParked(r)'
      BY DEF Spawned, Inserted, PersistParked
    <2>4. Settling(r)'
      BY DEF Spawned, Settling, PersistParked, Over, Live
    <2> QED BY <2>1, <2>2, <2>3, <2>4
  <1> QED BY <1>1, <1>2 DEF IInv

LEMMA AgeStep == ASSUME IInv, NEW s \in Runs, Age(s) PROVE IInv'
  <1>1. TypeOK'
    BY DEF IInv, TypeOK, Age, Live, Over, Terminal, dbVars, callVars, taskVars
  <1>2. ASSUME NEW r \in Runs PROVE RunInv(r)'
    <2> USE <1>1 DEF IInv, TypeOK, Age, RunInv, dbVars, callVars, taskVars
    <2>1. Spawned(r)' /\ Unanswered(r)'
      BY DEF Spawned, Unanswered, Live
    <2>2. CreateParked(r)' /\ FailParked(r)'
      BY DEF Spawned, CreateParked, FailParked
    <2>3. Inserted(r)' /\ PersistParked(r)'
      BY DEF Spawned, Inserted, PersistParked
    <2>4. Settling(r)'
      BY DEF Spawned, Settling, PersistParked, Over, Live
    <2> QED BY <2>1, <2>2, <2>3, <2>4
  <1> QED BY <1>1, <1>2 DEF IInv

LEMMA StopStep == ASSUME IInv, NEW q \in Procs, Stop(q) PROVE IInv'
  <1>1. TypeOK'
    BY DEF IInv, TypeOK, Stop, Live, Over, Terminal, dbVars, callVars, taskVars
  <1>2. ASSUME NEW r \in Runs PROVE RunInv(r)'
    <2> USE <1>1 DEF IInv, TypeOK, Stop, RunInv, dbVars, callVars, taskVars
    <2>1. Spawned(r)' /\ Unanswered(r)'
      BY DEF Spawned, Unanswered, Live
    <2>2. CreateParked(r)' /\ FailParked(r)'
      BY DEF Spawned, CreateParked, FailParked
    <2>3. Inserted(r)' /\ PersistParked(r)'
      BY DEF Spawned, Inserted, PersistParked
    <2>4. Settling(r)'
      BY DEF Spawned, Settling, PersistParked, Over, Live
    <2> QED BY <2>1, <2>2, <2>3, <2>4
  <1> QED BY <1>1, <1>2 DEF IInv

LEMMA RefusedFaults ==
    ASSUME IInv, NEW q \in Procs, Refused(q)
    PROVE  faults' \in 0 .. MaxFaults /\ faults' >= faults /\ UNCHANGED queue
  BY RunAssumption DEF Refused, IInv, TypeOK

LEMMA CallStep ==
    ASSUME IInv, NEW s \in Runs, NEW q \in Procs, NEW m \in {"run", "dispatch"}, Call(s, q, m)
    PROVE  IInv'
  <1>0. /\ caller[s] = "idle" /\ home' = [home EXCEPT ![s] = q] /\ mode' = [mode EXCEPT ![s] = m]
        /\ UNCHANGED <<row, old, deleted, up, cancels, seen, task, verdict, done, ack, halts>>
    BY DEF Call, dbVars, taskVars
  <1>1. CASE Park(q, Write("create", s)) /\ caller' = [caller EXCEPT ![s] = "creating"]
    <2> DEFINE w == Write("create", s)
    <2>1. /\ queue' \in [Procs -> Seq(Writes)]
          /\ \A p \in Procs : Elems(queue'[p]) = Elems(queue[p]) \cup (IF p = q THEN {w} ELSE {})
          /\ \A p \in Procs : \A v : Once(queue[p], v) /\ (p = q /\ v = w => v \notin Elems(queue[p]))
                                       => Once(queue'[p], v)
      BY <1>1, ParkStep, WriteEq DEF IInv, Park
    <2>2. faults' = faults
      BY <1>1 DEF Park
    <2>3. TypeOK'
      BY <1>0, <1>1, <2>1, <2>2 DEF IInv, TypeOK
    <2>4. ASSUME NEW r \in Runs PROVE RunInv(r)'
      <3> USE <1>0, <1>1, <2>2 DEF IInv, TypeOK, RunInv
      <3>1. Spawned(r)' /\ Unanswered(r)'
        BY DEF Spawned, Unanswered
      <3>2. CreateParked(r)'
        BY <2>1, WriteEq DEF CreateParked, Inserted, Unanswered, Spawned, Settling
      <3>3. FailParked(r)'
        BY <2>1, WriteEq DEF FailParked, Spawned
      <3>4. Inserted(r)'
        BY DEF Inserted, Unanswered
      <3>5. PersistParked(r)'
        BY <2>1, WriteEq DEF PersistParked
      <3>6. Settling(r)'
        BY DEF Settling, Over
      <3> QED BY <3>1, <3>2, <3>3, <3>4, <3>5, <3>6
    <2> QED BY <2>3, <2>4 DEF IInv
  <1>2. CASE Refused(q) /\ caller' = [caller EXCEPT ![s] = "raised"]
    <2>1. faults' \in 0 .. MaxFaults /\ faults' >= faults /\ UNCHANGED queue
      BY <1>2, RefusedFaults
    <2>3. TypeOK'
      BY <1>0, <1>2, <2>1 DEF IInv, TypeOK, Over
    <2>4. ASSUME NEW r \in Runs PROVE RunInv(r)'
      <3> USE <1>0, <1>2, <2>1 DEF IInv, TypeOK, RunInv
      <3>1. Spawned(r)' /\ Unanswered(r)'
        BY DEF Spawned, Unanswered
      <3>2. CreateParked(r)'
        BY DEF CreateParked
      <3>3. FailParked(r)'
        BY DEF FailParked, Spawned
      <3>4. Inserted(r)' /\ PersistParked(r)'
        BY DEF Inserted, PersistParked
      <3>6. Settling(r)'
        BY DEF Settling, Spawned, Over, Live
      <3> QED BY <3>1, <3>2, <3>3, <3>4, <3>6
    <2> QED BY <2>3, <2>4 DEF IInv
  <1> QED BY <1>1, <1>2 DEF Call

\* A task parks the failure of its run and waits for it.
ParksFailure(s) ==
    /\ Parked(home[s], Write("fail", s))
    /\ task[s] \in {"generating", "persisting"} /\ task' = [task EXCEPT ![s] = "marking"]
    /\ ack' = [ack EXCEPT ![s] = "none"]
    /\ UNCHANGED <<row, old, deleted, up, home, mode, seen, done, halts>>
    /\ faults' >= faults /\ cancels'[s] >= cancels[s]
    /\ \A r \in Runs : r # s => UNCHANGED <<verdict[r], cancels[r], caller[r]>>
    /\ \/ verdict'[s] = verdict[s]
       \/ task[s] = "generating" /\ verdict'[s] \in Terminal
    /\ \/ caller'[s] = caller[s]
       \/ caller[s] \in {"waiting", "draining"} /\ caller'[s] = "draining"
    /\ verdict'[s] # "none" => cancels'[s] > 0 \/ faults' > 0

LEMMA FailParkedStep == ASSUME IInv, NEW s \in Runs, TypeOK', ParksFailure(s) PROVE IInv'
  <1> DEFINE w == Write("fail", s)
  <1>1. TypeOK /\ w \in Writes /\ home[s] \in Procs
    BY WriteEq DEF IInv, TypeOK
  <1>2. /\ \A p \in Procs : Elems(queue'[p]) = Elems(queue[p]) \cup (IF p = home[s] THEN {w} ELSE {})
        /\ \A p \in Procs : \A v : Once(queue[p], v) /\ (p = home[s] /\ v = w => v \notin Elems(queue[p]))
                                     => Once(queue'[p], v)
    BY <1>1, ParkStep DEF ParksFailure
  <1>3. ASSUME NEW r \in Runs PROVE RunInv(r)'
    <2> USE <1>1 DEF IInv, TypeOK, RunInv, ParksFailure
    <2>1. Spawned(r)'
      BY DEF Spawned
    <2>2. Unanswered(r)'
      BY DEF Unanswered, Terminal
    <2>3. CreateParked(r)'
      BY <1>2, WriteEq DEF CreateParked, Spawned
    <2>4. FailParked(r)'
      BY <1>2, WriteEq DEF FailParked
    <2>5. Inserted(r)'
      BY DEF Inserted
    <2>6. PersistParked(r)'
      BY <1>2, WriteEq DEF PersistParked, Unanswered, Terminal
    <2>7. Settling(r)'
      BY DEF Settling, Live, Over
    <2> QED BY <2>1, <2>2, <2>3, <2>4, <2>5, <2>6, <2>7
  <1> QED BY <1>3 DEF IInv

\* A task ends without another write.
EndsTask(s) ==
    /\ UNCHANGED <<row, old, deleted, queue, up, home, mode, seen, halts>>
    /\ task[s] \in Live /\ task' = [task EXCEPT ![s] = "ended"]
    /\ ack' = [ack EXCEPT ![s] = "none"]
    /\ faults' >= faults /\ cancels'[s] >= cancels[s]
    /\ \A r \in Runs : r # s => UNCHANGED <<verdict[r], cancels[r], caller[r], done[r]>>
    /\ \/ verdict'[s] = verdict[s]
       \/ task[s] = "generating" /\ verdict'[s] \in Terminal
    /\ \/ caller'[s] = caller[s] /\ task[s] # "marking" /\ done'[s] = "raised"
       \/ caller[s] \in {"waiting", "draining"} /\ caller'[s] = "draining"

LEMMA EndedStep == ASSUME IInv, NEW s \in Runs, TypeOK', EndsTask(s) PROVE IInv'
  <1>3. ASSUME NEW r \in Runs PROVE RunInv(r)'
    <2> USE DEF IInv, TypeOK, RunInv, EndsTask
    <2>1. Spawned(r)'
      BY DEF Spawned, Live
    <2>2. Unanswered(r)'
      BY DEF Unanswered, Live, Terminal
    <2>3. CreateParked(r)'
      BY DEF CreateParked, Spawned, Live
    <2>4. FailParked(r)'
      BY DEF FailParked, Live
    <2>5. Inserted(r)'
      BY DEF Inserted
    <2>6. PersistParked(r)'
      BY DEF PersistParked, Unanswered, Live, Terminal
    <2>7. Settling(r)'
      BY DEF Settling, Live, Over
    <2> QED BY <2>1, <2>2, <2>3, <2>4, <2>5, <2>6, <2>7
  <1> QED BY <1>3 DEF IInv

LEMMA GeneratorRaisesStep == ASSUME IInv, NEW s \in Runs, GeneratorRaises(s) PROVE IInv'
  <1>0. /\ task[s] = "generating" /\ ack[s] = "none" /\ verdict[s] = "none" /\ home[s] \in Procs
        /\ ack' = [ack EXCEPT ![s] = "none"]
        /\ UNCHANGED <<row, old, deleted, up, home, mode, caller, cancels, seen, verdict, halts>>
    BY DEF GeneratorRaises, IInv, RunInv, Unanswered, TypeOK, dbVars, callVars
  <1>1. CASE Park(home[s], Write("fail", s)) /\ task' = [task EXCEPT ![s] = "marking"] /\ UNCHANGED done
    <2>1. queue' \in [Procs -> Seq(Writes)] /\ Parked(home[s], Write("fail", s)) /\ faults' = faults
      BY <1>0, <1>1, ParkStep, WriteEq DEF IInv, Park
    <2>2. TypeOK'
      BY <1>0, <1>1, <2>1 DEF IInv, TypeOK, Live
    <2>3. faults \in Nat /\ cancels[s] \in Nat
      BY RunAssumption DEF IInv, TypeOK
    <2>4. ParksFailure(s)
      BY <1>0, <1>1, <2>1, <2>3 DEF ParksFailure
    <2> QED BY <2>2, <2>4, FailParkedStep
  <1>2. CASE Refused(home[s]) /\ End(s, "raised")
    <2>1. faults' \in 0 .. MaxFaults /\ faults' >= faults /\ UNCHANGED queue
      BY <1>0, <1>2, RefusedFaults
    <2>2. TypeOK'
      BY <1>0, <1>2, <2>1 DEF IInv, TypeOK, Live, End
    <2>3. cancels[s] \in Nat /\ done'[s] = "raised" /\ \A r \in Runs : r # s => done'[r] = done[r]
      BY <1>2 DEF IInv, TypeOK, End
    <2>4. task' = [task EXCEPT ![s] = "ended"] /\ task[s] \in Live
      BY <1>0, <1>2 DEF End, Live
    <2>5. EndsTask(s)
      BY <1>0, <2>1, <2>3, <2>4 DEF EndsTask
    <2> QED BY <2>2, <2>5, EndedStep
  <1> QED BY <1>1, <1>2 DEF GeneratorRaises, MarkFailed

LEMMA PersistFailsStep == ASSUME IInv, NEW s \in Runs, PersistFails(s) PROVE IInv'
  <1>0. /\ task[s] = "persisting" /\ ack[s] = "error" /\ home[s] \in Procs
        /\ ack' = [ack EXCEPT ![s] = "none"] /\ faults \in Nat /\ faults > 0 /\ cancels[s] \in Nat
        /\ UNCHANGED <<row, old, deleted, up, home, mode, caller, cancels, seen, verdict, halts>>
    BY RunAssumption DEF PersistFails, IInv, RunInv, Unanswered, TypeOK, dbVars, callVars
  <1>1. CASE Park(home[s], Write("fail", s)) /\ task' = [task EXCEPT ![s] = "marking"] /\ UNCHANGED done
    <2>1. queue' \in [Procs -> Seq(Writes)] /\ Parked(home[s], Write("fail", s)) /\ faults' = faults
      BY <1>0, <1>1, ParkStep, WriteEq DEF IInv, Park
    <2>2. TypeOK'
      BY <1>0, <1>1, <2>1 DEF IInv, TypeOK, Live
    <2>4. ParksFailure(s)
      BY <1>0, <1>1, <2>1 DEF ParksFailure
    <2> QED BY <2>2, <2>4, FailParkedStep
  <1>2. CASE Refused(home[s]) /\ End(s, "raised")
    <2>1. faults' \in 0 .. MaxFaults /\ faults' >= faults /\ UNCHANGED queue
      BY <1>0, <1>2, RefusedFaults
    <2>2. TypeOK'
      BY <1>0, <1>2, <2>1 DEF IInv, TypeOK, Live, End
    <2>3. done'[s] = "raised" /\ \A r \in Runs : r # s => done'[r] = done[r]
      BY <1>2 DEF IInv, TypeOK, End
    <2>4. task' = [task EXCEPT ![s] = "ended"] /\ task[s] \in Live
      BY <1>0, <1>2 DEF End, Live
    <2>5. EndsTask(s)
      BY <1>0, <2>1, <2>3, <2>4 DEF EndsTask
    <2> QED BY <2>2, <2>5, EndedStep
  <1> QED BY <1>1, <1>2 DEF PersistFails, MarkFailed

LEMMA CancelCallerStep == ASSUME IInv, NEW s \in Runs, CancelCaller(s) PROVE IInv'
  <1>0. /\ cancels' = [cancels EXCEPT ![s] = @ + 1] /\ cancels[s] \in Nat /\ cancels'[s] = cancels[s] + 1
        /\ cancels' \in [Runs -> 0 .. MaxCancels]
        /\ ack' = [ack EXCEPT ![s] = "none"] /\ home[s] \in Procs
        /\ faults \in Nat
        /\ UNCHANGED <<row, old, deleted, up, home, mode, seen, verdict, halts>>
    BY RunAssumption DEF CancelCaller, IInv, TypeOK, dbVars
  <1>1. CASE /\ caller[s] = "creating" /\ caller' = [caller EXCEPT ![s] = "abandoned"]
             /\ UNCHANGED <<queue, task, done, faults>>
    <2>1. TypeOK'
      BY <1>0, <1>1 DEF IInv, TypeOK
    <2>2. ASSUME NEW r \in Runs PROVE RunInv(r)'
      <3> USE <1>0, <1>1 DEF IInv, TypeOK, RunInv
      <3>1. Spawned(r)' /\ Unanswered(r)'
        BY DEF Spawned, Unanswered
      <3>2. CreateParked(r)'
        BY DEF CreateParked
      <3>3. FailParked(r)'
        BY DEF FailParked, Spawned
      <3>4. Inserted(r)' /\ PersistParked(r)'
        BY DEF Inserted, PersistParked, Spawned
      <3>5. Settling(r)'
        BY DEF Settling, Over, Live
      <3> QED BY <3>1, <3>2, <3>3, <3>4, <3>5
    <2> QED BY <2>1, <2>2 DEF IInv
  <1>2. CASE /\ caller[s] \in {"waiting", "draining"}
             /\ caller' = [caller EXCEPT ![s] = "draining"]
             /\ IF task[s] \in Live THEN Interrupt(s) ELSE UNCHANGED <<queue, task, done, faults>>
    <2>0. /\ caller' \in [Runs -> {"idle", "creating", "abandoned", "waiting", "draining", "accepted"} \cup Over]
          /\ caller'[s] = "draining" /\ \A r \in Runs : r # s => UNCHANGED <<caller[r], cancels[r]>>
          /\ ack' \in [Runs -> {"none", "ok", "error"}]
      BY <1>0, <1>2 DEF IInv, TypeOK
    <2>1. CASE /\ task[s] \in {"generating", "persisting"}
               /\ Park(home[s], Write("fail", s)) /\ task' = [task EXCEPT ![s] = "marking"] /\ UNCHANGED done
      <3>1. queue' \in [Procs -> Seq(Writes)] /\ Parked(home[s], Write("fail", s)) /\ faults' = faults
        BY <1>0, <2>1, ParkStep, WriteEq DEF IInv, Park
      <3>2. TypeOK'
        BY <1>0, <2>0, <2>1, <3>1 DEF IInv, TypeOK, Live
      <3>3. ParksFailure(s)
        BY <1>0, <1>2, <2>0, <2>1, <3>1 DEF ParksFailure
      <3> QED BY <3>2, <3>3, FailParkedStep
    <2>2. CASE task[s] \in {"generating", "persisting"} /\ Refused(home[s]) /\ End(s, "raised")
      <3>1. faults' \in 0 .. MaxFaults /\ faults' >= faults /\ UNCHANGED queue
        BY <1>0, <2>2, RefusedFaults
      <3>2. TypeOK'
        BY <1>0, <2>0, <2>2, <3>1 DEF IInv, TypeOK, Live, End
      <3>3. done'[s] = "raised" /\ \A r \in Runs : r # s => done'[r] = done[r]
        BY <2>2 DEF IInv, TypeOK, End
      <3>4. task' = [task EXCEPT ![s] = "ended"] /\ task[s] \in Live
        BY <2>2 DEF End, Live
      <3>5. EndsTask(s)
        BY <1>0, <1>2, <2>0, <3>1, <3>3, <3>4 DEF EndsTask
      <3> QED BY <3>2, <3>5, EndedStep
    <2>3. CASE task[s] = "marking" /\ End(s, "ok") /\ UNCHANGED <<queue, faults>>
      <3>2. TypeOK'
        BY <1>0, <2>0, <2>3 DEF IInv, TypeOK, Live, End
      <3>3. \A r \in Runs : r # s => done'[r] = done[r]
        BY <2>3 DEF IInv, TypeOK, End
      <3>4. task' = [task EXCEPT ![s] = "ended"] /\ task[s] \in Live
        BY <2>3 DEF End, Live
      <3>5. EndsTask(s)
        BY <1>0, <1>2, <2>0, <2>3, <3>3, <3>4 DEF EndsTask
      <3> QED BY <3>2, <3>5, EndedStep
    <2>4. CASE task[s] \notin Live /\ UNCHANGED <<queue, task, done, faults>>
      <3>1. TypeOK'
        BY <1>0, <2>0, <2>4 DEF IInv, TypeOK
      <3>2. ASSUME NEW r \in Runs PROVE RunInv(r)'
        <4> USE <1>0, <1>2, <2>0, <2>4 DEF IInv, TypeOK, RunInv
        <4>1. Spawned(r)' /\ Unanswered(r)'
          BY DEF Spawned, Unanswered
        <4>2. CreateParked(r)'
          BY DEF CreateParked
        <4>3. FailParked(r)'
          BY DEF FailParked, Live
        <4>4. Inserted(r)' /\ PersistParked(r)'
          BY DEF Inserted, PersistParked
        <4>5. Settling(r)'
          BY DEF Settling, Over, Live
        <4> QED BY <4>1, <4>2, <4>3, <4>4, <4>5
      <3> QED BY <3>1, <3>2 DEF IInv
    <2> QED BY <1>2, <2>1, <2>2, <2>3, <2>4 DEF Interrupt, MarkFailed
  <1> QED BY <1>1, <1>2 DEF CancelCaller

LEMMA GeneratorReturnsStep ==
    ASSUME IInv, NEW s \in Runs, NEW v \in Terminal, GeneratorReturns(s, v) PROVE IInv'
  <1>0. /\ task[s] = "generating" /\ ack[s] = "none" /\ verdict[s] = "none" /\ home[s] \in Procs
        /\ ack' = [ack EXCEPT ![s] = "none"] /\ ack' = ack
        /\ verdict' = [verdict EXCEPT ![s] = v] /\ verdict'[s] = v
        /\ verdict' \in [Runs -> {"none"} \cup Terminal]
        /\ faults \in Nat /\ MaxFaults \in Nat /\ cancels[s] \in Nat
        /\ UNCHANGED <<row, old, deleted, up, home, mode, caller, cancels, seen, halts>>
    BY RunAssumption DEF GeneratorReturns, IInv, RunInv, Unanswered, TypeOK, dbVars, callVars
  <1>1. CASE Park(home[s], Write("persist", s)) /\ task' = [task EXCEPT ![s] = "persisting"] /\ UNCHANGED done
    <2> DEFINE w == Write("persist", s)
    <2>1. /\ queue' \in [Procs -> Seq(Writes)]
          /\ \A p \in Procs : Elems(queue'[p]) = Elems(queue[p]) \cup (IF p = home[s] THEN {w} ELSE {})
          /\ \A p \in Procs : \A x : Once(queue[p], x) /\ (p = home[s] /\ x = w => x \notin Elems(queue[p]))
                                       => Once(queue'[p], x)
      BY <1>0, <1>1, ParkStep, WriteEq DEF IInv, Park
    <2>2. faults' = faults
      BY <1>1 DEF Park
    <2>3. TypeOK'
      BY <1>0, <1>1, <2>1, <2>2 DEF IInv, TypeOK, Live
    <2>4. ASSUME NEW r \in Runs PROVE RunInv(r)'
      <3> USE <1>0, <1>1, <2>2 DEF IInv, TypeOK, RunInv
      <3>1. Spawned(r)' /\ Unanswered(r)'
        BY DEF Spawned, Unanswered
      <3>2. CreateParked(r)'
        BY <2>1, WriteEq DEF CreateParked, Spawned
      <3>3. FailParked(r)'
        BY <2>1, WriteEq DEF FailParked
      <3>4. Inserted(r)'
        BY DEF Inserted
      <3>5. PersistParked(r)'
        BY <2>1, WriteEq DEF PersistParked, Terminal
      <3>6. Settling(r)'
        BY DEF Settling, Over, Live
      <3> QED BY <3>1, <3>2, <3>3, <3>4, <3>5, <3>6
    <2> QED BY <2>3, <2>4 DEF IInv
  <1>2. CASE Refused(home[s]) /\ End(s, "raised")
    <2>1. faults' \in 0 .. MaxFaults /\ faults' >= faults /\ UNCHANGED queue
      BY <1>0, <1>2, RefusedFaults
    <2>2. TypeOK'
      BY <1>0, <1>2, <2>1 DEF IInv, TypeOK, Live, End
    <2>3. done'[s] = "raised" /\ \A r \in Runs : r # s => done'[r] = done[r]
      BY <1>2 DEF IInv, TypeOK, End
    <2>4. task' = [task EXCEPT ![s] = "ended"] /\ task[s] \in Live
      BY <1>0, <1>2 DEF End, Live
    <2>5. EndsTask(s)
      BY <1>0, <2>1, <2>3, <2>4 DEF EndsTask, IInv, TypeOK
    <2> QED BY <2>2, <2>5, EndedStep
  <1>3. CASE /\ faults < MaxFaults /\ Parked(home[s], Write("fail", s)) /\ faults' = faults + 1
             /\ task' = [task EXCEPT ![s] = "marking"] /\ UNCHANGED done
    <2>1. queue' \in [Procs -> Seq(Writes)]
      BY <1>0, <1>3, ParkStep, WriteEq DEF IInv
    <2>2. faults' \in 0 .. MaxFaults /\ faults' > 0 /\ faults' >= faults
      BY <1>0, <1>3
    <2>3. TypeOK'
      BY <1>0, <1>3, <2>1, <2>2 DEF IInv, TypeOK, Live
    <2>4. ParksFailure(s)
      BY <1>0, <1>3, <2>2 DEF ParksFailure, IInv, TypeOK
    <2> QED BY <2>3, <2>4, FailParkedStep
  <1> QED BY <1>1, <1>2, <1>3 DEF GeneratorReturns

\* The sweep and the delete park writes that are about nobody's task.
LEMMA OtherParkedStep ==
    ASSUME IInv, NEW w \in Writes, Park(Backend, w),
           w = Sweep \/ \E r \in Runs : w = Write("delete", r),
           UNCHANGED <<dbVars, up, callVars, taskVars, ack, halts>>
    PROVE  IInv'
  <1>0. Backend \in Procs /\ TypeOK
    BY RunAssumption DEF IInv
  <1>1. /\ queue' \in [Procs -> Seq(Writes)]
        /\ \A p \in Procs : Elems(queue'[p]) = Elems(queue[p]) \cup (IF p = Backend THEN {w} ELSE {})
        /\ \A p \in Procs : \A v : Once(queue[p], v) /\ (p = Backend /\ v = w => v \notin Elems(queue[p]))
                                     => Once(queue'[p], v)
    BY <1>0, ParkStep DEF Park
  <1>2. faults' = faults
    BY DEF Park
  <1>3. TypeOK'
    BY <1>0, <1>1, <1>2 DEF TypeOK, dbVars, callVars, taskVars
  <1>4. \A r \in Runs : \A k \in {"create", "persist", "fail"} : w # Write(k, r)
    BY WriteEq
  <1>5. ASSUME NEW r \in Runs PROVE RunInv(r)'
    <2> USE <1>0, <1>2 DEF IInv, RunInv, dbVars, callVars, taskVars
    <2>1. Spawned(r)' /\ Unanswered(r)' /\ Inserted(r)' /\ Settling(r)'
      BY DEF Spawned, Unanswered, Inserted, Settling
    <2>2. CreateParked(r)'
      BY <1>1, <1>4 DEF CreateParked
    <2>3. FailParked(r)'
      BY <1>1, <1>4 DEF FailParked
    <2>4. PersistParked(r)'
      BY <1>1, <1>4 DEF PersistParked
    <2> QED BY <2>1, <2>2, <2>3, <2>4
  <1> QED BY <1>3, <1>5 DEF IInv

LEMMA RestartStep == ASSUME IInv, NEW q \in Procs, Restart(q) PROVE IInv'
  <1>1. /\ queue' = [queue EXCEPT ![q] = IF q = Backend THEN <<Sweep>> ELSE <<>>]
        /\ UNCHANGED <<row, old, deleted, home, mode, caller, cancels, seen, task, verdict, done, ack, faults, halts>>
    BY DEF Restart, dbVars, callVars, taskVars
  <1>2. /\ <<Sweep>> \in Seq(Writes) /\ <<>> \in Seq(Writes)
        /\ Elems(<<Sweep>>) = {Sweep} /\ Elems(<<>>) = {}
        /\ \A w : Once(<<Sweep>>, w) /\ Once(<<>>, w)
    BY WriteEq DEF Elems, Once
  <1>3. queue' \in [Procs -> Seq(Writes)] /\ queue \in [Procs -> Seq(Writes)]
    BY <1>1, <1>2 DEF IInv, TypeOK
  <1>4. /\ \A p \in Procs : Elems(queue'[p]) \subseteq Elems(queue[p]) \cup {Sweep}
        /\ \A p \in Procs : \A w : Once(queue[p], w) => Once(queue'[p], w)
    BY <1>1, <1>2, <1>3
  <1>5. TypeOK'
    BY <1>1, <1>3 DEF IInv, TypeOK, Restart
  <1>6. ASSUME NEW r \in Runs PROVE RunInv(r)'
    <2> USE <1>1 DEF IInv, RunInv
    <2>1. Spawned(r)' /\ Unanswered(r)' /\ Inserted(r)' /\ Settling(r)'
      BY DEF Spawned, Unanswered, Inserted, Settling
    <2>2. CreateParked(r)'
      BY <1>4, WriteEq DEF CreateParked
    <2>3. FailParked(r)'
      BY <1>4, WriteEq DEF FailParked
    <2>4. PersistParked(r)'
      BY <1>4, WriteEq DEF PersistParked
    <2> QED BY <2>1, <2>2, <2>3, <2>4
  <1> QED BY <1>5, <1>6 DEF IInv

LEMMA HaltStep == ASSUME IInv, NEW q \in Procs, Halt(q) PROVE IInv'
  <1>1. /\ queue' = [queue EXCEPT ![q] = <<>>] /\ queue \in [Procs -> Seq(Writes)]
        /\ \A r \in Runs :
             /\ task'[r] = IF r \in Hosted(q) /\ task[r] \in Live THEN "ended" ELSE task[r]
             /\ caller'[r] = IF r \in Hosted(q) /\ caller[r] \in {"creating", "waiting", "draining"}
                               THEN "gone" ELSE caller[r]
             /\ ack'[r] = IF r \in Hosted(q) THEN "none" ELSE ack[r]
        /\ UNCHANGED <<row, old, deleted, home, mode, cancels, seen, verdict, done, faults>>
    BY DEF Halt, dbVars, IInv, TypeOK
  <1>2. queue'[q] = <<>> /\ \A p \in Procs : p # q => queue'[p] = queue[p]
    BY <1>1
  <1>3. \A p \in Procs : /\ Elems(queue'[p]) \subseteq Elems(queue[p])
                         /\ \A w : Once(queue[p], w) => Once(queue'[p], w)
                         /\ p = q => Elems(queue'[p]) = {}
    BY <1>2, EmptyFacts
  <1>4. TypeOK'
    <2>1. queue' \in [Procs -> Seq(Writes)]
      BY <1>1
    <2>2. halts' \in 0 .. MaxHalts
      BY RunAssumption DEF Halt, IInv, TypeOK
    <2> QED BY <1>1, <2>1, <2>2 DEF Halt, IInv, TypeOK, Live, Over
  <1>5. ASSUME NEW r \in Runs PROVE RunInv(r)'
    <2> USE <1>1 DEF IInv, RunInv, Hosted
    <2>1. Spawned(r)' /\ Unanswered(r)'
      BY DEF Spawned, Unanswered, Live
    <2>2. CreateParked(r)'
      BY <1>3 DEF CreateParked
    <2>3. FailParked(r)'
      BY <1>3 DEF FailParked
    <2>4. Inserted(r)'
      BY DEF Inserted
    <2>5. PersistParked(r)'
      BY <1>3 DEF PersistParked
    <2>6. Settling(r)'
      BY DEF Settling, Over, Live
    <2> QED BY <2>1, <2>2, <2>3, <2>4, <2>5, <2>6
  <1> QED BY <1>4, <1>5 DEF IInv

\* The head of q's queue is served, and answered with a to whoever waits.
Serves(q, w, a) ==
    /\ queue[q] # <<>> /\ w = Head(queue[q])
    /\ queue' = [queue EXCEPT ![q] = Tail(@)]
    /\ \/ UNCHANGED <<row, deleted>> /\ a = "error"
       \/ /\ row' = Applied(w)
          /\ deleted' = IF w.kind = "delete" /\ row[w.run] # "absent" THEN deleted \cup {w.run} ELSE deleted
    /\ ack' = Acked(w, a) /\ a \in {"ok", "error"}
    /\ faults' \in 0 .. MaxFaults /\ faults' >= faults /\ (a = "error" => faults' > 0)
    /\ UNCHANGED <<old, up, callVars, taskVars, halts>>

LEMMA ServesStep == ASSUME IInv, NEW q \in Procs, NEW w \in Writes, NEW a, Serves(q, w, a) PROVE IInv'
  <1>1. /\ w \in Elems(queue[q]) /\ queue' \in [Procs -> Seq(Writes)]
        /\ \A p \in Procs : Elems(queue'[p]) \subseteq Elems(queue[p])
        /\ \A p \in Procs : \A v : Once(queue[p], v) => Once(queue'[p], v)
        /\ Once(queue[q], w) => w \notin Elems(queue'[q])
    BY PopStep DEF IInv, Serves
  <1>2. /\ UNCHANGED <<old, up, home, mode, caller, cancels, seen, task, verdict, done, halts>>
        /\ faults' \in 0 .. MaxFaults /\ (a = "error" => faults' > 0) /\ a \in {"ok", "error"}
        /\ a = "ok" => row' = Applied(w)
        /\ ack' = Acked(w, a)
    BY DEF Serves, callVars, taskVars
  <1>3. faults > 0 => faults' > 0
    BY RunAssumption DEF Serves, IInv, TypeOK
  <1>4. \A r \in Runs : w = Write("persist", r) => verdict[r] \in Terminal
    BY <1>1 DEF IInv, RunInv, PersistParked
  <1>5. TypeOK'
    <2>1. row' \in [Runs -> Status]
      BY <1>4, AppliedType DEF IInv, Serves, TypeOK
    <2>2. deleted' \subseteq Runs
      BY RunAssumption DEF IInv, TypeOK, Serves, Writes, Sweep, Write
    <2>3. ack' \in [Runs -> {"none", "ok", "error"}]
      BY <1>2 DEF IInv, TypeOK, Acked
    <2> QED BY <2>1, <2>2, <2>3, <1>1, <1>2 DEF IInv, TypeOK
  <1>6. ASSUME NEW r \in Runs PROVE RunInv(r)'
    <2> USE <1>1, <1>2 DEF IInv
    <2>0. RunInv(r) /\ TypeOK
      OBVIOUS
    <2>1. /\ w = Write("create", r) => (row'[r] = "running" \/ (row'[r] = row[r] /\ a = "error"))
          /\ w = Write("persist", r) =>
               \/ row'[r] = (IF row[r] = "absent" THEN "absent" ELSE verdict[r])
               \/ row'[r] = row[r] /\ a = "error"
          /\ w = Write("fail", r) =>
               \/ row'[r] = (IF row[r] = "absent" THEN "absent" ELSE "failed")
               \/ row'[r] = row[r]
          /\ w = Write("delete", r) => row'[r] \in {row[r], "absent"}
          /\ w = Sweep => row'[r] = row[r] \/ (row[r] = "running" /\ row'[r] = "failed")
          /\ \/ w \in {Write(k, r) : k \in {"create", "persist", "fail", "delete"}} \cup {Sweep}
             \/ row'[r] = row[r]
      BY AppliedRow DEF Serves
    <2>2. /\ r \in deleted => r \in deleted'
          /\ r \in deleted' => r \in deleted \/ (w = Write("delete", r) /\ row'[r] = "absent" /\ row[r] # "absent")
          /\ w = Write("delete", r) /\ row'[r] # row[r] => r \in deleted'
      <3>1. CASE UNCHANGED <<row, deleted>>
        BY <3>1
      <3>2. CASE /\ row' = Applied(w)
                 /\ deleted' = IF w.kind = "delete" /\ row[w.run] # "absent" THEN deleted \cup {w.run} ELSE deleted
        <4>1. w.kind = "delete" /\ w.run = r => w = Write("delete", r)
          BY DEF Writes, Sweep, Write
        <4>2. w = Write("delete", r) => Applied(w)[r] = "absent" /\ w.kind = "delete" /\ w.run = r
          BY AppliedRow, WriteEq
        <4> QED BY <3>2, <4>1, <4>2
      <3> QED BY <3>1, <3>2 DEF Serves
    <2>3. /\ w = Write("create", r) /\ caller[r] = "creating" => ack'[r] = a
          /\ w = Write("persist", r) /\ task[r] = "persisting" => ack'[r] = a
          /\ w = Write("fail", r) /\ task[r] = "marking" => ack'[r] = a
          /\ \/ ack'[r] = ack[r]
             \/ w = Write("create", r) /\ caller[r] = "creating" /\ ack'[r] = a
             \/ w = Write("persist", r) /\ task[r] = "persisting" /\ ack'[r] = a
             \/ w = Write("fail", r) /\ task[r] = "marking" /\ ack'[r] = a
      <3>1. ack \in [Runs -> {"none", "ok", "error"}]
        BY <2>0 DEF TypeOK
      <3>2. w.run = r => w = Write(w.kind, r)
        BY RunAssumption DEF Writes, Sweep, Write
      <3> QED BY <3>1, <3>2, WriteEq DEF Acked, Awaited
    <2>4. /\ w = Write("create", r) => row[r] = "absent" /\ r \notin deleted /\ caller[r] \in {"creating", "abandoned"}
          /\ \A p \in Procs : w = Write("create", r) /\ p # q => Write("create", r) \notin Elems(queue[p])
          /\ \A p \in Procs : w = Write("create", r) => Write("create", r) \notin Elems(queue'[p])
      BY <2>0 DEF RunInv, CreateParked
    <2>5. /\ \A p \in Procs : w = Write("fail", r) => Write("fail", r) \notin Elems(queue'[p])
          /\ w = Write("fail", r) => task[r] \in {"marking", "ended"}
      BY <2>0 DEF RunInv, FailParked
    <2>6. w = Write("persist", r) => verdict[r] \in Terminal /\ task[r] \notin {"none", "generating"}
      BY <2>0 DEF RunInv, PersistParked
    <2>7. Spawned(r)'
      BY <2>0 DEF RunInv, Spawned
    <2>8. Unanswered(r)'
      BY <2>0, <2>3, <2>4, <1>3, WriteEq DEF RunInv, Unanswered, Spawned
    <2>9. CreateParked(r)'
      BY <2>0, <2>1, <2>2, <2>3, <2>4, WriteEq DEF RunInv, CreateParked, Spawned
    <2>10. Inserted(r)'
      BY <2>0, <2>1, <2>2, <2>3, <2>4, <2>6, WriteEq DEF RunInv, Inserted, Spawned, Terminal
    <2>11. PersistParked(r)'
      BY <2>0, <2>1, <2>2, <2>3, <2>4, <2>5, <2>6, WriteEq DEF RunInv, PersistParked, Terminal, Spawned
    <2>12. FailParked(r)'
      BY <2>0, <2>1, <2>2, <2>3, <2>5, <1>3, WriteEq DEF RunInv, FailParked, Spawned
    <2>13. Settling(r)'
      <3>1. w = Write("fail", r) => task[r] = "marking" \/ caller[r] \in {"draining", "gone"}
        BY <2>0 DEF RunInv, FailParked
      <3> QED BY <2>0, <2>1, <2>4, <2>6, <3>1, WriteEq DEF RunInv, Settling, Over, Terminal
    <2> QED BY <2>7, <2>8, <2>9, <2>10, <2>11, <2>12, <2>13 DEF RunInv
  <1> QED BY <1>5, <1>6 DEF IInv

LEMMA WorkerServes ==
    ASSUME IInv, NEW q \in Procs, NEW w \in Writes, Execute(q, w) \/ ExecuteFails(q, w)
    PROVE  \E a : Serves(q, w, a)
  <1>1. faults \in Nat
    BY RunAssumption DEF IInv, TypeOK
  <1>2. CASE Execute(q, w)
    <2>1. Serves(q, w, "ok")
      BY <1>1, <1>2 DEF Execute, Serves, IInv, TypeOK
    <2> QED BY <2>1
  <1>3. CASE ExecuteFails(q, w)
    <2>1. faults' \in 0 .. MaxFaults /\ faults' >= faults /\ faults' > 0
      BY <1>1, <1>3, RunAssumption DEF ExecuteFails
    <2>2. Serves(q, w, "error")
      BY <1>3, <2>1 DEF ExecuteFails, Serves
    <2> QED BY <2>2
  <1> QED BY <1>2, <1>3

LEMMA StutterStep == IInv /\ UNCHANGED vars => IInv'
  <1> SUFFICES ASSUME IInv, UNCHANGED vars PROVE IInv'
    OBVIOUS
  <1>1. UNCHANGED <<row, old, deleted, queue, up, home, mode, caller, cancels, seen,
                    task, verdict, done, ack, faults, halts>>
    BY DEF vars, dbVars, callVars, taskVars
  <1>2. TypeOK'
    BY <1>1 DEF IInv, TypeOK
  <1>3. ASSUME NEW r \in Runs PROVE RunInv(r)'
    BY <1>1 DEF IInv, RunInv, Spawned, Unanswered, CreateParked, Inserted, PersistParked, FailParked, Settling
  <1> QED BY <1>2, <1>3 DEF IInv

LEMMA InvStep == IInv /\ [Next]_vars => IInv'
  <1> SUFFICES ASSUME IInv, [Next]_vars PROVE IInv'
    OBVIOUS
  <1>1. ASSUME NEW r \in Runs, Caller(r) PROVE IInv'
    BY <1>1, CallStep, CreatedStep, CreateFailsStep, CancelCallerStep, LeaveStep, ReturnStep DEF Caller
  <1>2. ASSUME NEW r \in Runs, Task(r) PROVE IInv'
    BY <1>2, GeneratorReturnsStep, GeneratorRaisesStep, PersistedStep, PersistFailsStep, MarkedStep DEF Task
  <1>3. ASSUME NEW r \in Runs, DeleteRun(r) PROVE IInv'
    BY <1>3, OtherParkedStep, RunAssumption, WriteEq DEF DeleteRun
  <1>4. CASE SweepTick
    BY <1>4, OtherParkedStep, RunAssumption, WriteEq DEF SweepTick
  <1>5. ASSUME NEW p \in Procs, Worker(p) PROVE IInv'
    <2>1. PICK w \in Writes : Execute(p, w) \/ ExecuteFails(p, w)
      BY <1>5 DEF Worker
    <2> QED BY <2>1, WorkerServes, ServesStep
  <1> QED BY <1>1, <1>2, <1>3, <1>4, <1>5, AgeStep, StopStep, HaltStep, RestartStep, StutterStep DEF Next

LEMMA Invariance == Spec => []IInv
  BY InvInit, InvStep, PTL DEF Spec

-----------------------------------------------------------------------------
(* Theorems *)

\* Every variable keeps its type: in particular no queue ever holds a write
\* without a run, and the terminal write never stores "none".
THEOREM TypeCorrect == Spec => []TypeOK
  <1>1. IInv => TypeOK
    BY DEF IInv
  <1> QED BY <1>1, Invariance, PTL

\* run() returns the stored verdict of its own generator, however many runs,
\* processes, refusals, cancellations and restarts there are.
THEOREM RunReturnsItsVerdict == Spec => []ReturnsVerdict
  <1>1. IInv => ReturnsVerdict
    BY DEF IInv, RunInv, Settling, ReturnsVerdict
  <1> QED BY <1>1, Invariance, PTL

\* The run id dispatch_async() returns names a row that is there, or that an
\* operator deleted; a late terminal write never brings a deleted row back.
THEOREM AcceptedRowIsThere == Spec => []AcceptedRowExists
  <1>1. IInv => AcceptedRowExists
    BY DEF IInv, RunInv, Inserted, AcceptedRowExists
  <1> QED BY <1>1, Invariance, PTL

\* When run() is over, by a return, an exception or a cancellation, its task
\* is over too.
THEOREM RunLeavesNoTask == Spec => []NoTaskOutlivesRun
  <1>1. IInv => NoTaskOutlivesRun
    BY DEF IInv, RunInv, Settling, NoTaskOutlivesRun
  <1> QED BY <1>1, Invariance, PTL

\* The two together: a run() that is over returned the stored verdict of its
\* generator, and its task is over.
THEOREM RunIsOver == Spec => []RunOver
  <1>1. ReturnsVerdict /\ NoTaskOutlivesRun => RunOver
    BY DEF RunOver
  <1> QED BY <1>1, RunReturnsItsVerdict, RunLeavesNoTask, PTL

LEMMA OnlyQueuesWrite ==
    ASSUME IInv, [Next]_vars, row' # row
    PROVE  \E q \in Procs, w \in Writes, a \in {"ok", "error"} : Serves(q, w, a)
  <1>1. ASSUME NEW r \in Runs, Caller(r) PROVE FALSE
    BY <1>1 DEF Caller, Call, Created, CreateFails, CancelCaller, Leave, Return, dbVars
  <1>2. ASSUME NEW r \in Runs, Task(r) PROVE FALSE
    BY <1>2 DEF Task, GeneratorReturns, GeneratorRaises, Persisted, PersistFails, Marked, dbVars
  <1>3. ASSUME NEW r \in Runs, Age(r) \/ DeleteRun(r) PROVE FALSE
    BY <1>3 DEF Age, DeleteRun, dbVars
  <1>4. ~ SweepTick /\ ~ UNCHANGED vars
    BY DEF SweepTick, dbVars, vars
  <1>5. ASSUME NEW p \in Procs, Stop(p) \/ Halt(p) \/ Restart(p) PROVE FALSE
    BY <1>5 DEF Stop, Halt, Restart, dbVars
  <1>6. PICK p \in Procs : Worker(p)
    BY <1>1, <1>2, <1>3, <1>4, <1>5 DEF Next
  <1>7. PICK w \in Writes : Execute(p, w) \/ ExecuteFails(p, w)
    BY <1>6 DEF Worker
  <1>8. PICK a : Serves(p, w, a)
    BY <1>7, WorkerServes
  <1> QED BY <1>8 DEF Serves

LEMMA KeptStep ==
    ASSUME IInv, NEW q \in Procs, NEW w \in Writes, NEW a, Serves(q, w, a), NEW r \in Runs
    PROVE  /\ row[r] \in {"completed", "partial"} /\ row'[r] \notin {row[r], "absent"} =>
                  row'[r] = "failed" /\ (cancels[r] > 0 \/ faults > 0)
           /\ row[r] \in Terminal => row'[r] # "running"
  <1>0. TypeOK /\ RunInv(r) /\ w \in Elems(queue[q])
    BY PopStep DEF IInv, Serves
  <1>1. row'[r] = row[r] \/ row'[r] = Applied(w)[r]
    BY DEF Serves
  <1>2. w = Write("create", r) => row[r] = "absent"
    BY <1>0 DEF RunInv, CreateParked
  <1>3. row[r] \in {"completed", "partial"} => row[r] = verdict[r]
    BY <1>0 DEF RunInv, PersistParked
  <1>4. w = Write("persist", r) => verdict[r] \in Terminal
    BY <1>0 DEF RunInv, PersistParked
  <1>5. w = Write("fail", r) /\ verdict[r] # "none" => cancels[r] > 0 \/ faults > 0
    BY <1>0 DEF RunInv, FailParked
  <1>6. /\ w = Write("create", r) => Applied(w)[r] = "running"
        /\ w = Write("persist", r) => Applied(w)[r] = IF row[r] = "absent" THEN "absent" ELSE verdict[r]
        /\ w = Write("fail", r) => Applied(w)[r] = IF row[r] = "absent" THEN "absent" ELSE "failed"
        /\ w = Write("delete", r) => Applied(w)[r] = "absent"
        /\ w = Sweep => Applied(w)[r] = row[r] \/ (row[r] = "running" /\ Applied(w)[r] = "failed")
        /\ \/ w \in {Write(k, r) : k \in {"create", "persist", "fail", "delete"}} \cup {Sweep}
           \/ Applied(w)[r] = row[r]
    BY <1>0, AppliedRow
  <1> QED BY <1>1, <1>2, <1>3, <1>4, <1>5, <1>6 DEF Terminal

\* A stored success only ever gives way to "failed", after a cancellation of
\* its run or a write that failed, and a terminal row never runs again.
THEOREM VerdictIsKept == Spec => VerdictKept
  <1> DEFINE Kept == \A r \in Runs :
               /\ row[r] \in {"completed", "partial"} /\ row'[r] \notin {row[r], "absent"} =>
                      row'[r] = "failed" /\ (cancels[r] > 0 \/ faults > 0)
               /\ row[r] \in Terminal => row'[r] # "running"
  <1>1. IInv /\ [Next]_vars => [Kept]_vars
    <2> SUFFICES ASSUME IInv, [Next]_vars PROVE Kept
      OBVIOUS
    <2>1. CASE row' = row
      BY <2>1 DEF Terminal
    <2>2. CASE row' # row
      BY <2>2, OnlyQueuesWrite, KeptStep
    <2> QED BY <2>1, <2>2
  <1> QED BY <1>1, Invariance, PTL DEF Spec, VerdictKept

-----------------------------------------------------------------------------
(* Running rows have an owner, as long as nothing failed.                  *)

Calm == faults = 0 /\ halts = 0 /\ \A p \in Procs : up[p] = "up"

\* What RunningRowOwned says of one run.
Owned(r) == row[r] = "running" =>
    \/ task[r] \in Live \/ caller[r] \in {"creating", "abandoned"}
    \/ InQueue(Write("fail", r)) \/ InQueue(Write("persist", r))

\* A task that marks its row waits for a parked failure, or has been answered
\* that the row no longer runs: so a second cancellation may end it.
MarkOwned(r) == task[r] = "marking" =>
    IF ack[r] = "none" THEN InQueue(Write("fail", r)) ELSE row[r] # "running"

\* Calm is not regained: a process is down only after a halt.
OwnInv == /\ halts = 0 => \A p \in Procs : up[p] # "down"
          /\ Calm => \A r \in Runs : Owned(r) /\ MarkOwned(r)

LEMMA InQueueIs == \A w : InQueue(w) <=> \E p \in Procs : w \in Elems(queue[p])
  BY DEF InQueue, Elems

LEMMA InQueueIsNext == \A w : InQueue(w)' <=> \E p \in Procs : w \in Elems(queue'[p])
  BY DEF InQueue, Elems

LEMMA OwnInit == Init => OwnInv
  BY DEF Init, OwnInv, Owned, MarkOwned

\* Calm after a step was calm before it, and then nothing was refused or lost.
LEMMA CalmBefore ==
    ASSUME IInv, OwnInv, [Next]_vars, Calm'
    PROVE  /\ Calm /\ \A p \in Procs : ~ Refused(p) /\ ~ Halt(p) /\ ~ Stop(p) /\ ~ Restart(p)
           /\ faults' = faults
  <1>1. faults \in Nat /\ halts \in Nat
    BY RunAssumption DEF IInv, TypeOK
  <1>2. ASSUME NEW p \in Procs, Stop(p) PROVE FALSE
    BY <1>2 DEF Stop, Calm, IInv, TypeOK
  <1>3. ASSUME NEW p \in Procs, Halt(p) PROVE FALSE
    BY <1>1, <1>3 DEF Halt, Calm
  <1>4. ASSUME NEW p \in Procs, Restart(p) PROVE FALSE
    BY <1>4 DEF Restart, Calm, OwnInv
  <1>5. UNCHANGED <<up, halts>>
    BY <1>2, <1>3, <1>4 DEF Next, Caller, Call, Created, CreateFails, CancelCaller, Leave, Return,
       Task, GeneratorReturns, GeneratorRaises, Persisted, PersistFails, Marked, Age, DeleteRun,
       SweepTick, Worker, Execute, ExecuteFails, vars
  <1>6. \A p \in Procs : up[p] = "up"
    BY <1>5 DEF Calm
  <1>7. ASSUME NEW p \in Procs, Refused(p) PROVE FALSE
    BY <1>1, <1>6, <1>7 DEF Refused, Calm
  <1>8. faults' = faults
    <2>1. home \in [Runs -> Procs]
      BY DEF IInv, TypeOK
    <2> QED BY <1>1, <1>2, <1>3, <1>4, <1>7, <2>1 DEF Next, Caller, Call, Created, CreateFails,
         CancelCaller, Interrupt, MarkFailed, Park, Leave, Return,
         Task, GeneratorReturns, GeneratorRaises, Persisted, PersistFails, Marked, Age, DeleteRun,
         SweepTick, Worker, Execute, ExecuteFails, vars, Calm
  <1> QED BY <1>2, <1>3, <1>4, <1>5, <1>6, <1>7, <1>8 DEF Calm

\* What a write parked for run s leaves of the queues.
LEMMA InQueueParked ==
    ASSUME TypeOK, NEW q \in Procs, NEW w \in Writes, Parked(q, w)
    PROVE  \A v : InQueue(v)' <=> InQueue(v) \/ v = w
  <1>1. \A p \in Procs : Elems(queue'[p]) = Elems(queue[p]) \cup (IF p = q THEN {w} ELSE {})
    BY ParkStep
  <1>2. ASSUME NEW v PROVE InQueue(v)' <=> InQueue(v) \/ v = w
    <2>1. InQueue(v)' <=> \E p \in Procs : v \in Elems(queue'[p])
      BY InQueueIsNext
    <2>2. InQueue(v) <=> \E p \in Procs : v \in Elems(queue[p])
      BY InQueueIs
    <2> QED BY <1>1, <2>1, <2>2
  <1> QED BY <1>2

\* A step that leaves the queues alone leaves what is in them.
LEMMA OwnQueueSame == UNCHANGED queue => \A w : InQueue(w) <=> InQueue(w)'
  BY DEF InQueue

\* The steps of callers and tasks.
LEMMA OwnRunStep ==
    ASSUME IInv, OwnInv, Calm, NEW s \in Runs, Caller(s) \/ Task(s), faults' = faults,
           \A p \in Procs : ~ Refused(p), NEW r \in Runs
    PROVE  Owned(r)' /\ MarkOwned(r)'
  <1> USE DEF IInv, TypeOK
  <1>0. Owned(r) /\ MarkOwned(r) /\ Owned(s) /\ MarkOwned(s) /\ RunInv(s) /\ faults = 0 /\ home[s] \in Procs
    BY DEF OwnInv, Calm
  <1>1. ASSUME NEW p \in Procs, NEW m \in {"run", "dispatch"}, Call(s, p, m) PROVE Owned(r)' /\ MarkOwned(r)'
    <2>1. Parked(p, Write("create", s)) /\ caller' = [caller EXCEPT ![s] = "creating"]
          /\ UNCHANGED <<row, task, ack>> /\ caller[s] = "idle"
      BY <1>1 DEF Call, Park, dbVars, taskVars
    <2>2. \A v : InQueue(v) => InQueue(v)'
      BY <2>1, InQueueParked, WriteEq
    <2> QED BY <1>0, <2>1, <2>2 DEF Owned, MarkOwned
  <1>2. CASE Created(s)
    BY <1>0, <1>2, OwnQueueSame DEF Created, Owned, MarkOwned, dbVars, Live
  <1>3. ~ CreateFails(s) /\ ~ PersistFails(s)
    BY <1>0 DEF CreateFails, PersistFails, RunInv, Unanswered
  <1>4. CASE CancelCaller(s)
    <2>1. UNCHANGED row /\ ack' = [ack EXCEPT ![s] = "none"]
      BY <1>4 DEF CancelCaller, dbVars
    <2>2. CASE /\ caller[s] = "creating" /\ caller' = [caller EXCEPT ![s] = "abandoned"]
               /\ UNCHANGED <<queue, task, done, faults>>
      BY <1>0, <2>1, <2>2, OwnQueueSame DEF Owned, MarkOwned, RunInv, Spawned
    <2>3. CASE /\ task[s] \in {"generating", "persisting"}
               /\ Parked(home[s], Write("fail", s)) /\ task' = [task EXCEPT ![s] = "marking"]
               /\ caller' = [caller EXCEPT ![s] = "draining"] /\ caller[s] \in {"waiting", "draining"}
      <3>1. \A v : InQueue(v)' <=> InQueue(v) \/ v = Write("fail", s)
        BY <1>0, <2>3, InQueueParked, WriteEq
      <3> QED BY <1>0, <2>1, <2>3, <3>1 DEF Owned, MarkOwned, Live
    <2>4. CASE /\ task[s] = "marking" /\ task' = [task EXCEPT ![s] = "ended"] /\ UNCHANGED queue
               /\ caller' = [caller EXCEPT ![s] = "draining"] /\ caller[s] \in {"waiting", "draining"}
      BY <1>0, <2>1, <2>4, OwnQueueSame DEF Owned, MarkOwned
    <2>5. CASE /\ task[s] \notin Live /\ UNCHANGED <<queue, task>>
               /\ caller' = [caller EXCEPT ![s] = "draining"] /\ caller[s] \in {"waiting", "draining"}
      BY <1>0, <2>1, <2>5, OwnQueueSame DEF Owned, MarkOwned, Live
    <2> QED BY <1>0, <1>4, <2>2, <2>3, <2>4, <2>5 DEF CancelCaller, Interrupt, MarkFailed, Park, End
  <1>5. CASE Leave(s) \/ Return(s)
    <2>1. /\ UNCHANGED <<row, task, ack, queue>> /\ caller[s] \in {"draining", "waiting"}
          /\ \A x \in Runs : x # s => caller'[x] = caller[x]
      BY <1>5 DEF Leave, Return, dbVars, taskVars
    <2> QED BY <1>0, <2>1, OwnQueueSame DEF Owned, MarkOwned
  <1>6. ASSUME NEW v \in Terminal, GeneratorReturns(s, v) PROVE Owned(r)' /\ MarkOwned(r)'
    <2>1. /\ UNCHANGED <<row, caller, ack>> /\ Parked(home[s], Write("persist", s))
          /\ task' = [task EXCEPT ![s] = "persisting"]
      BY <1>0, <1>6 DEF GeneratorReturns, Park, dbVars, callVars
    <2>2. \A x : InQueue(x) => InQueue(x)'
      BY <1>0, <2>1, InQueueParked, WriteEq
    <2> QED BY <1>0, <2>1, <2>2 DEF Owned, MarkOwned, Live
  <1>7. CASE GeneratorRaises(s)
    <2>1. /\ UNCHANGED <<row, caller, ack>> /\ Parked(home[s], Write("fail", s))
          /\ task[s] = "generating" /\ task' = [task EXCEPT ![s] = "marking"]
      BY <1>0, <1>7 DEF GeneratorRaises, MarkFailed, Park, dbVars, callVars
    <2>2. \A x : InQueue(x)' <=> InQueue(x) \/ x = Write("fail", s)
      BY <1>0, <2>1, InQueueParked, WriteEq
    <2> QED BY <1>0, <2>1, <2>2 DEF Owned, MarkOwned, Live, RunInv, Unanswered
  <1>8. CASE Persisted(s)
    <2>1. /\ UNCHANGED <<row, caller, queue>> /\ task[s] = "persisting" /\ ack[s] = "ok"
          /\ task' = [task EXCEPT ![s] = "ended"] /\ ack' = [ack EXCEPT ![s] = "none"]
      BY <1>8 DEF Persisted, End, dbVars, callVars
    <2>2. row[s] # "running"
      BY <1>0, <2>1 DEF RunInv, PersistParked, Terminal
    <2> QED BY <1>0, <2>1, <2>2, OwnQueueSame DEF Owned, MarkOwned
  <1>9. CASE Marked(s)
    <2>1. /\ UNCHANGED <<row, caller, queue>> /\ task[s] = "marking" /\ ack[s] # "none"
          /\ task' = [task EXCEPT ![s] = "ended"] /\ ack' = [ack EXCEPT ![s] = "none"]
      BY <1>9 DEF Marked, End, dbVars, callVars
    <2> QED BY <1>0, <2>1, OwnQueueSame DEF Owned, MarkOwned
  <1> QED BY <1>1, <1>2, <1>3, <1>4, <1>5, <1>6, <1>7, <1>8, <1>9 DEF Caller, Task

\* A served write settles its row, or is not about it.
LEMMA OwnServes ==
    ASSUME IInv, OwnInv, Calm, NEW q \in Procs, NEW w \in Writes, Execute(q, w), NEW r \in Runs
    PROVE  Owned(r)' /\ MarkOwned(r)'
  <1>0. Owned(r) /\ MarkOwned(r) /\ RunInv(r) /\ TypeOK
    BY DEF OwnInv, IInv
  <1>1. /\ row' = Applied(w) /\ ack' = Acked(w, "ok") /\ UNCHANGED <<task, caller>>
        /\ queue[q] # <<>> /\ w = Head(queue[q]) /\ queue' = [queue EXCEPT ![q] = Tail(@)]
    BY DEF Execute, callVars, taskVars
  <1>2. w \in Elems(queue[q])
    BY <1>0, <1>1, PopStep
  <1>3. \A v : InQueue(v) => InQueue(v)' \/ v = w
    <2>1. queue \in [Procs -> Seq(Writes)] /\ queue[q] \in Seq(Writes)
      BY <1>0 DEF TypeOK
    <2>2. ASSUME NEW v \in Elems(queue[q]) PROVE v \in Elems(queue'[q]) \/ v = w
      <3>1. PICK i \in DOMAIN queue[q] : v = queue[q][i]
        BY DEF Elems
      <3>2. /\ Tail(queue[q]) \in Seq(Writes) /\ Len(Tail(queue[q])) = Len(queue[q]) - 1
            /\ \A k \in 1 .. Len(Tail(queue[q])) : Tail(queue[q])[k] = queue[q][k + 1]
        BY <1>1, <2>1, HeadTailProperties
      <3>3. queue'[q] = Tail(queue[q]) /\ DOMAIN queue[q] = 1 .. Len(queue[q]) /\ Len(queue[q]) \in Nat
            /\ DOMAIN Tail(queue[q]) = 1 .. Len(queue[q]) - 1 /\ w = queue[q][1]
        BY <1>1, <2>1, <3>2
      <3>4. CASE i = 1
        BY <3>1, <3>3, <3>4
      <3>5. CASE i # 1
        <4>1. i - 1 \in 1 .. Len(queue[q]) - 1 /\ queue'[q][i - 1] = v
          BY <3>1, <3>2, <3>3, <3>5
        <4> QED BY <3>3, <4>1 DEF Elems
      <3> QED BY <3>4, <3>5
    <2>3. \A p \in Procs : p # q => queue'[p] = queue[p]
      BY <1>1, <2>1
    <2> QED BY <2>2, <2>3, InQueueIs, InQueueIsNext
  <1>4. /\ w = Write("create", r) => caller[r] \in {"creating", "abandoned"} /\ task[r] = "none"
        /\ w = Write("persist", r) => row'[r] # "running"
        /\ w = Write("fail", r) => row'[r] # "running"
        /\ w # Write("create", r) /\ row'[r] = "running" => row[r] = "running"
    BY <1>0, <1>1, <1>2, AppliedRow DEF RunInv, CreateParked, PersistParked, Spawned, Terminal
  <1>5. /\ w = Write("fail", r) /\ task[r] = "marking" => ack'[r] = "ok"
        /\ ack'[r] = "none" => ack[r] = "none"
        /\ ack'[r] # "none" /\ task[r] = "marking" => ack[r] # "none" \/ w = Write("fail", r) \/ w = Write("create", r)
    <2>1. ack \in [Runs -> {"none", "ok", "error"}]
      BY <1>0 DEF TypeOK
    <2>2. w.run = r => w = Write(w.kind, r)
      BY RunAssumption DEF Writes, Sweep, Write
    <2> QED BY <1>1, <2>1, <2>2, WriteEq DEF Acked, Awaited
  <1>6. \A k, l : Write(k, r) = Write(l, r) <=> k = l
    BY WriteEq
  <1>7. Owned(r)'
    BY <1>0, <1>1, <1>3, <1>4 DEF Owned
  <1>8. MarkOwned(r)'
    BY <1>0, <1>1, <1>3, <1>4, <1>5, <1>6 DEF MarkOwned
  <1> QED BY <1>7, <1>8

LEMMA OwnStep == IInv /\ OwnInv /\ [Next]_vars => OwnInv'
  <1> SUFFICES ASSUME IInv, OwnInv, [Next]_vars PROVE OwnInv'
    OBVIOUS
  <1>1. (halts = 0 => \A p \in Procs : up[p] # "down")'
    <2>1. halts \in Nat
      BY RunAssumption DEF IInv, TypeOK
    <2>2. ASSUME NEW p \in Procs, Halt(p) PROVE halts' # 0
      BY <2>1, <2>2 DEF Halt
    <2>3. ASSUME NEW p \in Procs, Stop(p) \/ Restart(p), halts' = 0 PROVE \A x \in Procs : up'[x] # "down"
      BY <2>3 DEF Stop, Restart, OwnInv, IInv, TypeOK
    <2>4. ASSUME NEW r \in Runs, Caller(r) PROVE UNCHANGED <<up, halts>>
      BY <2>4 DEF Caller, Call, Created, CreateFails, CancelCaller, Leave, Return
    <2>5. ASSUME NEW r \in Runs, Task(r) PROVE UNCHANGED <<up, halts>>
      BY <2>5 DEF Task, GeneratorReturns, GeneratorRaises, Persisted, PersistFails, Marked
    <2>6. ASSUME NEW r \in Runs, Age(r) \/ DeleteRun(r) PROVE UNCHANGED <<up, halts>>
      BY <2>6 DEF Age, DeleteRun
    <2>7. ASSUME NEW p \in Procs, Worker(p) PROVE UNCHANGED <<up, halts>>
      BY <2>7 DEF Worker, Execute, ExecuteFails
    <2>8. SweepTick \/ UNCHANGED vars => UNCHANGED <<up, halts>>
      BY DEF SweepTick, vars
    <2> QED BY <2>2, <2>3, <2>4, <2>5, <2>6, <2>7, <2>8 DEF Next, OwnInv
  <1>2. ASSUME Calm', NEW r \in Runs PROVE Owned(r)' /\ MarkOwned(r)'
    <2>0. /\ Calm /\ faults' = faults
          /\ \A p \in Procs : ~ Refused(p) /\ ~ Halt(p) /\ ~ Stop(p) /\ ~ Restart(p)
      BY <1>2, CalmBefore
    <2>1. Owned(r) /\ MarkOwned(r) /\ TypeOK
      BY <2>0 DEF OwnInv, IInv
    <2>2. ASSUME NEW s \in Runs, Caller(s) \/ Task(s) PROVE Owned(r)' /\ MarkOwned(r)'
      BY <2>0, <2>2, OwnRunStep
    <2>3. ASSUME NEW s \in Runs, Age(s) PROVE Owned(r)' /\ MarkOwned(r)'
      BY <2>1, <2>3, OwnQueueSame DEF Age, Owned, MarkOwned, callVars, taskVars
    <2>4. ASSUME NEW w \in Writes, Park(Backend, w), UNCHANGED <<dbVars, up, callVars, taskVars, ack, halts>>
          PROVE Owned(r)' /\ MarkOwned(r)'
      BY <2>1, <2>4, InQueueParked, RunAssumption DEF Park, Owned, MarkOwned, dbVars, callVars, taskVars
    <2>5. ASSUME NEW p \in Procs, Worker(p) PROVE Owned(r)' /\ MarkOwned(r)'
      <3>1. faults \in Nat
        BY <2>1, RunAssumption DEF TypeOK
      <3>2. PICK w \in Writes : Execute(p, w)
        BY <2>0, <2>5, <3>1 DEF Worker, ExecuteFails
      <3> QED BY <2>0, <3>2, OwnServes
    <2>6. CASE UNCHANGED vars
      BY <2>1, <2>6, OwnQueueSame DEF vars, Owned, MarkOwned, dbVars, callVars, taskVars
    <2> QED BY <2>0, <2>2, <2>3, <2>4, <2>5, <2>6, WriteEq DEF Next, DeleteRun, SweepTick
  <1> QED BY <1>1, <1>2 DEF OwnInv

\* As long as nothing was refused or failed and no process went down, a row
\* that says "running" has a creator, a task or a terminal write to change it.
THEOREM RunningRowIsOwned == Spec => []RunningRowOwned
  <1>1. OwnInv => RunningRowOwned
    BY DEF OwnInv, Calm, Owned, RunningRowOwned
  <1>2. Spec => []OwnInv
    BY OwnInit, OwnStep, Invariance, PTL DEF Spec
  <1> QED BY <1>1, <1>2, PTL

-----------------------------------------------------------------------------
(* The streamed runs of RunStream: its steps are steps of RunLifecycle, so *)
(* what holds of every run holds of them.                                  *)

LEMMA StreamStepIsStep == StreamNext => [Next]_vars
  <1> SUFFICES ASSUME StreamNext PROVE [Next]_vars
    OBVIOUS
  <1>1. ASSUME NEW r \in Runs, StartStream(r) PROVE Next
    BY <1>1, RunAssumption DEF StartStream, Next, Caller
  <1>2. ASSUME NEW r \in Runs, Progress(r) \/ Read(r) \/ Disconnect(r) PROVE UNCHANGED vars
    BY <1>2 DEF Progress, Read, Disconnect
  <1>3. ASSUME NEW k \in Kinds, Other(k) PROVE UNCHANGED vars
    BY <1>3 DEF Other
  <1>4. ASSUME NEW r \in Runs, Raises(r) PROVE Next
    BY <1>4 DEF Raises, Next, Task
  <1>5. ASSUME NEW r \in Runs, NEW v \in Terminal, Returns(r, v) PROVE Next
    BY <1>5 DEF Returns, Next, Task
  <1>6. CASE Lifecycle
    BY <1>6 DEF Lifecycle, Next, Caller, Task
  <1> QED BY <1>1, <1>2, <1>3, <1>4, <1>5, <1>6 DEF StreamNext

\* A streamed run is never cancelled, so nothing but its task ends it.
Undisturbed(r) == caller[r] \notin {"abandoned", "draining", "gone"}

\* What is on its way to the stream, or came, agrees with the verdict.
ToldTrue(r) ==
    /\ \A e \in Elems(box[r]) : e.run = r /\ e.kind # "step" =>
         verdict[r] # "none" /\ e.kind \in Closings(verdict[r])
    /\ heard[r] # "none" => verdict[r] # "none" /\ heard[r] \in Closings(verdict[r])

\* A task that reported success has its verdict in the row, or no row.
StoredTrue(r) == done[r] = "ok" =>
    task[r] = "ended" /\ verdict[r] \in Terminal /\ row[r] \in {verdict[r], "absent"}

StreamInv == StreamTypeOK /\ \A r \in Runs : Undisturbed(r) /\ ToldTrue(r) /\ StoredTrue(r)

\* A verdict, once there, stays.
LEMMA VerdictStays ==
    ASSUME IInv, [Next]_vars, NEW r \in Runs, verdict[r] # "none"
    PROVE  verdict'[r] = verdict[r]
  <1>1. task[r] # "generating" /\ verdict \in [Runs -> {"none"} \cup Terminal]
    BY DEF IInv, RunInv, Unanswered, TypeOK
  <1>2. ASSUME NEW s \in Runs, NEW v \in Terminal, GeneratorReturns(s, v) PROVE verdict'[r] = verdict[r]
    BY <1>1, <1>2 DEF GeneratorReturns
  <1> QED BY <1>2 DEF Next, Caller, Call, Created, CreateFails, CancelCaller, Leave, Return,
       Task, GeneratorRaises, Persisted, PersistFails, Marked, Age, DeleteRun, SweepTick,
       Worker, Execute, ExecuteFails, Stop, Halt, Restart, vars, taskVars

\* What publishing an event leaves in a subscription's queue.
LEMMA PublishStep ==
    ASSUME StreamTypeOK, NEW e \in [kind : Kinds, run : Runs \cup {NoRun}], Publish(e)
    PROVE  /\ box' \in [Runs -> Boxes] /\ lost' \subseteq Runs
           /\ \A r \in Runs : Len(box'[r]) <= BoxSize /\ Elems(box'[r]) \subseteq Elems(box[r]) \cup {e}
  <1> DEFINE E == [kind : Kinds, run : Runs \cup {NoRun}]
  <1>0. e \in E /\ Boxes = Seq(E)
    BY DEF Boxes
  <1> HIDE DEF E
  <1>1. ASSUME NEW r \in Runs
        PROVE  /\ box'[r] \in Seq(E) /\ Len(box'[r]) <= BoxSize
               /\ Elems(box'[r]) \subseteq Elems(box[r]) \cup {e}
    <2>1. box[r] \in Seq(E) /\ Len(box[r]) <= BoxSize /\ Len(box[r]) \in Nat /\ BoxSize \in Nat \ {0}
      <3>1. box[r] \in Seq(E) /\ Len(box[r]) <= BoxSize
        BY <1>0 DEF StreamTypeOK
      <3> QED BY <3>1, LenProperties, BoxAssumption
    <2>2. box'[r] = IF stream[r] # "open" THEN box[r]
                    ELSE IF Len(box[r]) < BoxSize THEN Append(box[r], e) ELSE Append(Tail(box[r]), e)
      BY DEF Publish
    <2>3. CASE Len(box[r]) < BoxSize
      <3>1. /\ Append(box[r], e) \in Seq(E) /\ Elems(Append(box[r], e)) = Elems(box[r]) \cup {e}
            /\ Len(Append(box[r], e)) = Len(box[r]) + 1
        BY <1>0, <2>1, AppendFacts, AppendProperties
      <3> QED BY <2>1, <2>2, <2>3, <3>1
    <2>4. CASE ~ (Len(box[r]) < BoxSize)
      <3> DEFINE t == Tail(box[r])
      <3>1. box[r] # <<>>
        BY <2>1, <2>4
      <3>2. t \in Seq(E) /\ Elems(t) \subseteq Elems(box[r]) /\ Len(t) = Len(box[r]) - 1
        BY <2>1, <3>1, TailFacts, HeadTailProperties
      <3>3. box'[r] = IF stream[r] # "open" THEN box[r] ELSE Append(t, e)
        BY <2>2, <2>4
      <3> HIDE DEF t
      <3>4. Append(t, e) \in Seq(E) /\ Elems(Append(t, e)) = Elems(t) \cup {e}
        BY <1>0, <3>2, AppendFacts
      <3>5. Len(Append(t, e)) = Len(t) + 1
        BY <1>0, <3>2, AppendProperties
      <3> QED BY <2>1, <3>2, <3>3, <3>4, <3>5
    <2> QED BY <2>3, <2>4
  <1>2. box' \in [Runs -> Seq(E)]
    BY <1>1 DEF Publish
  <1>3. lost' \subseteq Runs
    BY DEF Publish, StreamTypeOK
  <1> QED BY <1>0, <1>1, <1>2, <1>3

\* The lifecycle of a streamed run: nobody disturbs it, and what its task
\* stored stays stored, swept or deleted.
LEMMA StreamedRunStep ==
    ASSUME IInv, IInv', StreamInv, [StreamNext]_allVars, NEW r \in Runs
    PROVE  Undisturbed(r)' /\ StoredTrue(r)'
  <1> USE DEF IInv, TypeOK
  <1>0. Undisturbed(r) /\ StoredTrue(r) /\ RunInv(r)
    BY DEF StreamInv
  <1>1. ASSUME NEW s \in Runs, StartStream(s) PROVE Undisturbed(r)' /\ StoredTrue(r)'
    BY <1>0, <1>1 DEF StartStream, Call, Undisturbed, StoredTrue, dbVars, taskVars
  <1>2. CASE UNCHANGED vars
    BY <1>0, <1>2 DEF vars, dbVars, callVars, taskVars, Undisturbed, StoredTrue
  <1>3. ASSUME NEW s \in Runs, Raises(s) PROVE Undisturbed(r)' /\ StoredTrue(r)'
    BY <1>0, <1>3 DEF Raises, GeneratorRaises, MarkFailed, End, Undisturbed, StoredTrue, dbVars, callVars
  <1>4. ASSUME NEW s \in Runs, NEW v \in Terminal, Returns(s, v) PROVE Undisturbed(r)' /\ StoredTrue(r)'
    BY <1>0, <1>4 DEF Returns, GeneratorReturns, End, Undisturbed, StoredTrue, dbVars, callVars
  <1>5. ASSUME NEW s \in Runs, Created(s) \/ CreateFails(s) \/ Return(s)
        PROVE Undisturbed(r)' /\ StoredTrue(r)'
    <2>1. CASE Created(s)
      BY <1>0, <2>1 DEF Created, RunInv, Spawned, Undisturbed, StoredTrue, dbVars, taskVars
    <2>2. CASE CreateFails(s)
      BY <1>0, <2>2 DEF CreateFails, RunInv, Undisturbed, StoredTrue, dbVars, taskVars
    <2>3. CASE Return(s)
      BY <1>0, <2>3 DEF Return, RunInv, Undisturbed, StoredTrue, dbVars, taskVars
    <2> QED BY <1>5, <2>1, <2>2, <2>3
  <1>6. ASSUME NEW s \in Runs, Persisted(s) PROVE Undisturbed(r)' /\ StoredTrue(r)'
    BY <1>0, <1>6 DEF Persisted, End, RunInv, PersistParked, Undisturbed, StoredTrue, dbVars, callVars
  <1>7. ASSUME NEW s \in Runs, PersistFails(s) \/ Marked(s) PROVE Undisturbed(r)' /\ StoredTrue(r)'
    BY <1>0, <1>7 DEF PersistFails, Marked, MarkFailed, End, Undisturbed, StoredTrue, dbVars, callVars
  <1>8. ASSUME NEW s \in Runs, Age(s) \/ DeleteRun(s) PROVE Undisturbed(r)' /\ StoredTrue(r)'
    BY <1>0, <1>8 DEF Age, DeleteRun, Undisturbed, StoredTrue, dbVars, callVars, taskVars
  <1>9. CASE SweepTick
    BY <1>0, <1>9 DEF SweepTick, Undisturbed, StoredTrue, dbVars, callVars, taskVars
  <1>10. ASSUME NEW p \in Procs, Worker(p) PROVE Undisturbed(r)' /\ StoredTrue(r)'
    <2>1. PICK w \in Writes : Execute(p, w) \/ ExecuteFails(p, w)
      BY <1>10 DEF Worker
    <2>2. PICK a : Serves(p, w, a)
      BY <2>1, WorkerServes
    <2>3. UNCHANGED <<caller, task, verdict, done>> /\ (row'[r] = row[r] \/ row'[r] = Applied(w)[r])
      BY <2>2 DEF Serves, callVars, taskVars
    <2>4. w \in Elems(queue[p])
      BY <2>2, PopStep DEF Serves
    <2>5. ASSUME done[r] = "ok" PROVE row'[r] \in {verdict[r], "absent"}
      <3>1. task[r] = "ended" /\ verdict[r] \in Terminal /\ row[r] \in {verdict[r], "absent"}
        BY <1>0, <2>5 DEF StoredTrue
      <3>2. w # Write("create", r) /\ w # Write("fail", r)
        BY <1>0, <2>4, <3>1 DEF RunInv, CreateParked, Spawned, FailParked, Undisturbed
      <3>3. row[r] # "running"
        BY <3>1 DEF Terminal
      <3> QED BY <2>3, <3>1, <3>2, <3>3, AppliedRow
    <2> QED BY <1>0, <2>3, <2>5 DEF Undisturbed, StoredTrue
  <1> QED BY <1>1, <1>2, <1>3, <1>4, <1>5, <1>6, <1>7, <1>8, <1>9, <1>10
          DEF StreamNext, Lifecycle, Progress, Read, Disconnect, Other, allVars

\* What a stream is told: only its own generator's classification.
LEMMA StreamTold ==
    ASSUME IInv, IInv', StreamInv, [StreamNext]_allVars
    PROVE  StreamTypeOK' /\ \A r \in Runs : ToldTrue(r)'
  <1>0. /\ \A r \in Runs : ToldTrue(r) /\ (verdict[r] # "none" => verdict'[r] = verdict[r])
        /\ StreamTypeOK
    <2>1. [Next]_vars
      BY StreamStepIsStep DEF allVars
    <2> QED BY <2>1, VerdictStays DEF StreamInv
  <1>1. CASE UNCHANGED <<box, heard, steps, other, lost>>
             /\ (UNCHANGED stream \/ \E r \in Runs : StartStream(r) \/ Disconnect(r))
    BY <1>0, <1>1 DEF StreamTypeOK, ToldTrue, StartStream, Disconnect
  <1>2. ASSUME NEW e \in [kind : Kinds, run : Runs \cup {NoRun}], Publish(e), UNCHANGED <<stream, heard>>,
               steps' \in [Runs -> 0 .. MaxSteps], other' \in 0 .. MaxOther,
               e.kind = "step" \/ e.run = NoRun \/ (verdict'[e.run] # "none" /\ e.kind \in Closings(verdict'[e.run]))
        PROVE  StreamTypeOK' /\ \A r \in Runs : ToldTrue(r)'
    <2>1. /\ box' \in [Runs -> Boxes] /\ lost' \subseteq Runs
          /\ \A r \in Runs : Len(box'[r]) <= BoxSize /\ Elems(box'[r]) \subseteq Elems(box[r]) \cup {e}
      BY <1>0, <1>2, PublishStep
    <2>2. StreamTypeOK'
      BY <1>0, <1>2, <2>1 DEF StreamTypeOK
    <2>3. ASSUME NEW r \in Runs PROVE ToldTrue(r)'
      BY <1>0, <1>2, <2>1, RunAssumption DEF ToldTrue
    <2> QED BY <2>2, <2>3
  <1>3. ASSUME NEW k \in Kinds, Other(k) PROVE StreamTypeOK' /\ \A r \in Runs : ToldTrue(r)'
    <2>1. other' \in 0 .. MaxOther
      BY <1>0, <1>3, BoxAssumption DEF Other, StreamTypeOK
    <2>2. Event(k, NoRun) \in [kind : Kinds, run : Runs \cup {NoRun}] /\ Event(k, NoRun).run = NoRun
      BY DEF Event
    <2> QED BY <1>0, <1>2, <1>3, <2>1, <2>2 DEF Other, StreamTypeOK
  <1>4. ASSUME NEW s \in Runs, Progress(s) PROVE StreamTypeOK' /\ \A r \in Runs : ToldTrue(r)'
    <2>1. steps' \in [Runs -> 0 .. MaxSteps]
      BY <1>0, <1>4, BoxAssumption DEF Progress, StreamTypeOK
    <2>2. Event("step", s) \in [kind : Kinds, run : Runs \cup {NoRun}] /\ Event("step", s).kind = "step"
      BY DEF Event, Kinds
    <2> QED BY <1>0, <1>2, <1>4, <2>1, <2>2 DEF Progress, StreamTypeOK
  <1>5. ASSUME NEW s \in Runs, NEW v \in Terminal, Returns(s, v)
        PROVE  StreamTypeOK' /\ \A r \in Runs : ToldTrue(r)'
    <2>1. PICK k \in Closings(v) : Publish(Event(k, s))
      BY <1>5 DEF Returns
    <2>2. verdict'[s] = v /\ v # "none"
      BY <1>5 DEF Returns, GeneratorReturns, IInv, TypeOK, Terminal
    <2>3. Event(k, s) \in [kind : Kinds, run : Runs \cup {NoRun}] /\ Event(k, s).kind = k /\ Event(k, s).run = s
      BY DEF Event, Kinds, Closings
    <2> QED BY <1>0, <1>2, <1>5, <2>1, <2>2, <2>3 DEF Returns, StreamTypeOK
  <1>6. ASSUME NEW s \in Runs, Read(s) PROVE StreamTypeOK' /\ \A r \in Runs : ToldTrue(r)'
    <2> DEFINE E == [kind : Kinds, run : Runs \cup {NoRun}]
               e == Head(box[s])
    <2>0. Boxes = Seq(E)
      BY DEF Boxes
    <2> HIDE DEF E
    <2>1. box \in [Runs -> Seq(E)] /\ box[s] \in Seq(E) /\ box[s] # <<>>
      BY <1>0, <1>6, <2>0 DEF Read, StreamTypeOK
    <2>2. /\ e \in E /\ e \in Elems(box[s]) /\ Tail(box[s]) \in Seq(E)
          /\ Elems(Tail(box[s])) \subseteq Elems(box[s]) /\ Len(Tail(box[s])) = Len(box[s]) - 1
          /\ Len(box[s]) \in Nat
      BY <2>1, TailFacts, HeadTailProperties, LenProperties
    <2>3. /\ box' \in [Runs -> Boxes]
          /\ \A r \in Runs : Len(box'[r]) <= BoxSize /\ Elems(box'[r]) \subseteq Elems(box[r])
      <3>1. box' = [box EXCEPT ![s] = Tail(@)]
        BY <1>6 DEF Read
      <3>2. \A r \in Runs : Len(box[r]) <= BoxSize
        BY <1>0 DEF StreamTypeOK
      <3> QED BY <2>0, <2>1, <2>2, <3>1, <3>2, BoxAssumption
    <2> HIDE DEF e
    <2>4. /\ UNCHANGED <<steps, other, lost, verdict>>
          /\ \/ e.run = s /\ e.kind # "step" /\ heard' = [heard EXCEPT ![s] = e.kind]
                /\ stream' = [stream EXCEPT ![s] = "closed"]
             \/ UNCHANGED <<stream, heard>>
      BY <1>6 DEF Read, vars, taskVars, e
    <2>5. e.kind \in Kinds
      BY <2>2 DEF E
    <2>6. StreamTypeOK'
      <3>1. heard' = heard \/ heard' = [heard EXCEPT ![s] = e.kind]
        BY <2>4
      <3>2. stream' = stream \/ stream' = [stream EXCEPT ![s] = "closed"]
        BY <2>4
      <3>3. heard \in [Runs -> {"none", "completed", "failed"}] /\ stream \in [Runs -> {"none", "open", "closed"}]
        BY <1>0 DEF StreamTypeOK
      <3>4. heard' \in [Runs -> {"none", "completed", "failed"}]
        BY <2>4, <2>5, <3>1, <3>3 DEF Kinds
      <3>5. stream' \in [Runs -> {"none", "open", "closed"}]
        BY <3>2, <3>3
      <3>6. steps' \in [Runs -> 0 .. MaxSteps] /\ other' \in 0 .. MaxOther /\ lost' \subseteq Runs
        BY <1>0, <2>4 DEF StreamTypeOK
      <3> QED BY <2>3, <3>4, <3>5, <3>6 DEF StreamTypeOK
    <2>7. ASSUME NEW r \in Runs PROVE ToldTrue(r)'
      BY <1>0, <2>2, <2>3, <2>4 DEF ToldTrue, StreamTypeOK
    <2> QED BY <2>6, <2>7
  <1> QED BY <1>1, <1>3, <1>4, <1>5, <1>6
          DEF StreamNext, StartStream, Disconnect, Raises, Quiet, streamVars, allVars

LEMMA StreamInvariance == StreamSpec => [](IInv /\ StreamInv)
  <1>1. StreamInit => IInv /\ StreamInv
    <2>1. ASSUME StreamInit PROVE StreamTypeOK
      BY <2>1, BoxAssumption DEF StreamInit, StreamTypeOK, Boxes
    <2>2. ASSUME StreamInit, NEW r \in Runs PROVE Undisturbed(r) /\ ToldTrue(r) /\ StoredTrue(r)
      BY <2>2, EmptyFacts DEF StreamInit, Init, Undisturbed, ToldTrue, StoredTrue
    <2> QED BY <2>1, <2>2, InvInit DEF StreamInit, StreamInv
  <1>2. IInv /\ StreamInv /\ [StreamNext]_allVars => IInv' /\ StreamInv'
    <2> SUFFICES ASSUME IInv, StreamInv, [StreamNext]_allVars PROVE IInv' /\ StreamInv'
      OBVIOUS
    <2>1. IInv'
      BY StreamStepIsStep, InvStep DEF allVars
    <2> QED BY <2>1, StreamedRunStep, StreamTold DEF StreamInv
  <1> QED BY <1>1, <1>2, PTL DEF StreamSpec

\* What the stream said of a run and what its row says once its task reported
\* success never contradict each other.
THEOREM HeardStaysTrue == StreamSpec => []HeardIsStored
  <1>1. IInv /\ StreamInv => HeardIsStored
    <2> SUFFICES ASSUME IInv, StreamInv, NEW r \in Runs
                 PROVE  /\ heard[r] # "none" => verdict[r] # "none" /\ heard[r] \in Closings(verdict[r])
                        /\ heard[r] # "none" /\ done[r] = "ok" =>
                             \/ row[r] = "absent"
                             \/ heard[r] = "completed" /\ row[r] \in {"completed", "partial"}
                             \/ heard[r] = "failed" /\ row[r] \in {"failed", "partial"}
      BY DEF HeardIsStored, HeardIsVerdict, StreamInv
    <2> QED BY DEF StreamInv, ToldTrue, StoredTrue, Closings, Terminal
  <1> QED BY <1>1, StreamInvariance, PTL

\* What is proved of RunLifecycle holds of the streamed runs: their steps are
\* steps of it, and never cancelled they end with the verdict they stored.
THEOREM StreamsAreRuns == StreamSpec => Init /\ [][Next]_vars /\ []RunOver
  <1>1. StreamInit => Init
    BY DEF StreamInit
  <1>2. [StreamNext]_allVars => [Next]_vars
    BY StreamStepIsStep DEF allVars
  <1>3. IInv => RunOver
    BY DEF IInv, RunInv, Settling, RunOver, ReturnsVerdict, NoTaskOutlivesRun
  <1> QED BY <1>1, <1>2, <1>3, StreamInvariance, PTL DEF StreamSpec

=============================================================================
