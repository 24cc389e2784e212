-------------------------- MODULE WriteQueueProofs --------------------------
(* What holds of the write queue for every number of calls, every depth of *)
(* the queue and every number of respawned workers.                        *)
EXTENDS WriteQueue, SequenceTheorems, TLAPS

Elems(s) == {s[i] : i \in DOMAIN s}

\* Nothing is queued twice.
Once(s) == \A i, j \in DOMAIN s : s[i] = s[j] => i = j

Items == Ops \cup {Sentinel}

SentinelInv ==
    /\ Sentinel \in Queued => stopping /\ queue[Len(queue)] = Sentinel
    /\ wpc = "done" => stopping /\ queue = <<>>

WorkerInv ==
    /\ wpc \in {"work", "exit"} <=> inflight # NoOp
    /\ wpc = "exit" => exc # "none"
    /\ gen = 0 => wpc = "none"
    /\ wpc = "crashed" /\ crashes = 0 => gen < MaxGen

OpInv(o) ==
    /\ o \in Queued => tx[o] = "none" /\ fut[o] \in {"pending", "abandoned"} /\ o # inflight
    /\ fut[o] \in {"none", "dropped"} \cup Refusals => tx[o] = "none" /\ o \notin Queued /\ o # inflight
    /\ tx[o] = "open" => o = inflight \/ wpc = "cancelled"
    /\ o = inflight => tx[o] # "none"

IInv ==
    /\ TypeOK
    /\ Once(queue)
    /\ SentinelInv
    /\ WorkerInv
    /\ \A o \in Ops : OpInv(o)
    /\ SingleSession

-----------------------------------------------------------------------------
(* Facts about the queue as a sequence *)

LEMMA AppendElems ==
    ASSUME NEW S, NEW s \in Seq(S), NEW e \in S, Once(s), e \notin Elems(s)
    PROVE  /\ Append(s, e) \in Seq(S)
           /\ Once(Append(s, e))
           /\ Elems(Append(s, e)) = Elems(s) \cup {e}
           /\ Len(Append(s, e)) = Len(s) + 1
           /\ Append(s, e)[Len(s) + 1] = e
  <1> DEFINE t == Append(s, e)
  <1>1. /\ t \in Seq(S) /\ Len(t) = Len(s) + 1 /\ t[Len(s) + 1] = e
        /\ DOMAIN t = 1 .. Len(s) + 1 /\ DOMAIN s = 1 .. Len(s)
        /\ \A i \in 1 .. Len(s) : t[i] = s[i]
    OBVIOUS
  <1>2. Len(s) \in Nat
    OBVIOUS
  <1> HIDE DEF t
  <1>3. Once(t)
    BY <1>1, <1>2 DEF Once, Elems
  <1>4. Elems(t) = Elems(s) \cup {e}
    <2>1. ASSUME NEW x \in Elems(t) PROVE x \in Elems(s) \cup {e}
      <3>1. PICK i \in 1 .. Len(s) + 1 : x = t[i]
        BY <2>1, <1>1 DEF Elems
      <3> QED BY <3>1, <1>1, <1>2 DEF Elems
    <2>2. ASSUME NEW x \in Elems(s) PROVE x \in Elems(t)
      <3>1. PICK i \in 1 .. Len(s) : x = s[i]
        BY <2>2, <1>1 DEF Elems
      <3>2. i \in 1 .. Len(s) + 1 /\ x = t[i]
        BY <3>1, <1>1, <1>2
      <3> QED BY <3>2, <1>1 DEF Elems
    <2>3. e \in Elems(t)
      <3>1. Len(s) + 1 \in 1 .. Len(s) + 1
        BY <1>2
      <3> QED BY <3>1, <1>1 DEF Elems
    <2> QED BY <2>1, <2>2, <2>3
  <1> QED BY <1>1, <1>3, <1>4 DEF t

LEMMA TailElems ==
    ASSUME NEW S, NEW s \in Seq(S), s # <<>>, Once(s)
    PROVE  /\ Head(s) \in S /\ Head(s) \in Elems(s)
           /\ Tail(s) \in Seq(S)
           /\ Once(Tail(s))
           /\ Elems(Tail(s)) = Elems(s) \ {Head(s)}
           /\ s[Len(s)] # Head(s) => Tail(s)[Len(Tail(s))] = s[Len(s)]
           /\ s[Len(s)] = Head(s) => Tail(s) = <<>>
  <1> DEFINE t == Tail(s)
             n == Len(s)
  <1>1. /\ t \in Seq(S) /\ n \in Nat /\ n >= 1 /\ Len(t) = n - 1
        /\ Head(s) = s[1] /\ s[1] \in S
        /\ DOMAIN t = 1 .. n - 1 /\ DOMAIN s = 1 .. n
        /\ \A i \in 1 .. n - 1 : t[i] = s[i + 1]
    OBVIOUS
  <1> HIDE DEF t, n
  <1>e. t = <<>> <=> n = 1
    BY <1>1, EmptySeq
  <1>2. Head(s) \in Elems(s)
    BY <1>1 DEF Elems
  <1>3. Once(t)
    <2> SUFFICES ASSUME NEW i \in 1 .. n - 1, NEW j \in 1 .. n - 1, t[i] = t[j] PROVE i = j
      BY <1>1 DEF Once
    <2>1. s[i + 1] = s[j + 1] /\ i + 1 \in 1 .. n /\ j + 1 \in 1 .. n
      BY <1>1
    <2>2. i + 1 = j + 1
      BY <2>1, <1>1 DEF Once
    <2> QED BY <2>2
  <1>4. Elems(t) = Elems(s) \ {Head(s)}
    <2>1. ASSUME NEW x \in Elems(t) PROVE x \in Elems(s) /\ x # s[1]
      <3>1. PICK i \in 1 .. n - 1 : x = t[i]
        BY <2>1, <1>1 DEF Elems
      <3>2. x = s[i + 1] /\ i + 1 \in 1 .. n /\ 1 \in 1 .. n /\ i + 1 # 1
        BY <3>1, <1>1
      <3>3. x # s[1]
        BY <3>2, <1>1 DEF Once
      <3> QED BY <3>2, <3>3, <1>1 DEF Elems
    <2>2. ASSUME NEW x \in Elems(s), x # s[1] PROVE x \in Elems(t)
      <3>1. PICK i \in 1 .. n : x = s[i]
        BY <2>2, <1>1 DEF Elems
      <3>2. i - 1 \in 1 .. n - 1 /\ t[i - 1] = x
        <4>1. i # 1
          BY <3>1, <2>2
        <4>2. i - 1 \in 1 .. n - 1 /\ (i - 1) + 1 = i
          BY <4>1, <1>1
        <4> QED BY <4>2, <3>1, <1>1
      <3> QED BY <3>2, <1>1 DEF Elems
    <2> QED BY <2>1, <2>2, <1>1
  <1>5. s[n] # Head(s) => t[Len(t)] = s[n]
    <2> SUFFICES ASSUME s[n] # s[1] PROVE t[n - 1] = s[n]
      BY <1>1
    <2>1. n # 1 /\ n - 1 \in 1 .. n - 1 /\ (n - 1) + 1 = n
      BY <1>1
    <2> QED BY <2>1, <1>1
  <1>6. s[n] = Head(s) => t = <<>>
    BY <1>1, <1>e DEF Once
  <1> QED BY <1>1, <1>2, <1>3, <1>4, <1>5, <1>6 DEF t, n

LEMMA EmptyLen == ASSUME NEW S, NEW s \in Seq(S) PROVE s = <<>> <=> Len(s) = 0
  BY EmptySeq

LEMMA PrefixElems ==
    ASSUME NEW S, NEW s \in Seq(S), NEW m \in Nat, m <= Len(s)
    PROVE  /\ SubSeq(s, 1, m) \in Seq(S) /\ Len(SubSeq(s, 1, m)) = m
           /\ \A i \in 1 .. m : SubSeq(s, 1, m)[i] = s[i]
  OBVIOUS

LEMMA EmptyElems == Elems(<<>>) = {} /\ Once(<<>>)
  BY DEF Elems, Once

-----------------------------------------------------------------------------
(* Types *)

LEMMA TypeInit == Init => TypeOK /\ WorkerInv
  <1> SUFFICES ASSUME Init PROVE TypeOK /\ WorkerInv
    OBVIOUS
  <1>1. queue \in Seq(Ops \cup {Sentinel})
    BY DEF Init
  <1>2. fut \in [Ops -> FutState] /\ tx \in [Ops -> {"none", "open", "committed", "rolledback"}]
    BY DEF Init, FutState
  <1>3. stopping \in BOOLEAN /\ dead \in BOOLEAN /\ stopDone \in BOOLEAN
    BY DEF Init
  <1>4. 0 \in 0 .. MaxGen /\ 0 \in 0 .. 2
    BY QueueAssumption
  <1>5. TypeOK
    BY <1>1, <1>2, <1>3, <1>4 DEF Init, TypeOK, Ended
  <1> QED
    BY <1>5 DEF Init, WorkerInv

LEMMA TypeStep == TypeOK /\ WorkerInv /\ [Next]_vars => TypeOK' /\ WorkerInv'
  <1> SUFFICES ASSUME TypeOK, WorkerInv, [Next]_vars PROVE TypeOK' /\ WorkerInv'
    OBVIOUS
  <1> USE QueueAssumption DEF TypeOK, WorkerInv, FutState, Refusals, Answers, Ended,
          workerVars, supVars, stopVars
  <1>1. ASSUME NEW o \in Ops, Submit(o) PROVE TypeOK' /\ WorkerInv'
    BY <1>1 DEF Submit, Enter, Refusal
  <1>2. ASSUME NEW o \in Ops, SubmitFromWork(o) PROVE TypeOK' /\ WorkerInv'
    BY <1>2 DEF SubmitFromWork, Enter, Refusal
  <1>3. ASSUME NEW o \in Ops, SpawnAndAwait(o) PROVE TypeOK' /\ WorkerInv'
    BY <1>3 DEF SpawnAndAwait, Enter, Refusal
  <1>4. ASSUME NEW o \in Ops, CancelCaller(o) PROVE TypeOK' /\ WorkerInv'
    BY <1>4 DEF CancelCaller
  <1>5. ASSUME NEW o \in Ops, ShieldedClose(o) PROVE TypeOK' /\ WorkerInv'
    BY <1>5 DEF ShieldedClose
  <1>6. CASE Start
    BY <1>6 DEF Start
  <1>7. CASE WorkerTake
    BY <1>7 DEF WorkerTake
  <1>8. CASE WorkerExit
    BY <1>8 DEF WorkerExit, Answered, SessionClosed
  <1>9. CASE WorkerCrash
    BY <1>9 DEF WorkerCrash, SessionClosed
  <1>10. CASE WorkCommit
    BY <1>10 DEF WorkCommit
  <1>11. CASE WorkReturn
    BY <1>11 DEF WorkReturn, WorkEnds
  <1>12. CASE WorkRaise
    BY <1>12 DEF WorkRaise, WorkEnds
  <1>13. CASE WorkCancels
    BY <1>13 DEF WorkCancels, WorkEnds
  <1>14. CASE WorkTimeout
    BY <1>14 DEF WorkTimeout, WorkEnds
  <1>15. CASE SupervisorReturn
    BY <1>15 DEF SupervisorReturn
  <1>16. CASE SupervisorRespawn
    BY <1>16 DEF SupervisorRespawn
  <1>17. CASE SupervisorDeclareDead
    BY EmptySeq, <1>17 DEF SupervisorDeclareDead, FailAllPending
  <1>18. CASE WindowPasses
    BY <1>18 DEF WindowPasses
  <1>19. CASE StopFull
    BY <1>19 DEF StopFull
  <1>20. CASE StopBeginLost
    BY EmptySeq, <1>20 DEF StopBeginLost, FailAllPending
  <1>21. CASE StopBegin
    <2>1. Append(queue, Sentinel) \in Seq(Ops \cup {Sentinel})
      OBVIOUS
    <2>2. stopper' \in {"idle", "draining", "returned"} /\ stopDone' \in BOOLEAN
      BY <1>21 DEF StopBegin
    <2> QED BY <1>21, <2>1, <2>2 DEF StopBegin
  <1>22. CASE StopDrained
    BY <1>22 DEF StopDrained, StopReturns
  <1>23. CASE StopWorkerLost
    BY EmptySeq, <1>23 DEF StopWorkerLost, FailAllPending, StopReturns
  <1>24. CASE StopTimeout
    BY <1>24 DEF StopTimeout, Answered
  <1>25. CASE StopAgain
    BY <1>25 DEF StopAgain
  <1>26. CASE UNCHANGED vars
    BY <1>26 DEF vars
  <1> QED
    BY <1>1, <1>2, <1>3, <1>4, <1>5, <1>6, <1>7, <1>8, <1>9, <1>10, <1>11, <1>12,
       <1>13, <1>14, <1>15, <1>16, <1>17, <1>18, <1>19, <1>20, <1>21, <1>22,
       <1>23, <1>24, <1>25, <1>26
    DEF Next, Callers, Worker, Callback, Supervisor, Stop

\* In every reachable state each variable has its type.
THEOREM TypeCorrect == Spec => []TypeOK
  <1>1. Init => TypeOK /\ WorkerInv
    BY TypeInit
  <1>2. TypeOK /\ WorkerInv /\ [Next]_vars => TypeOK' /\ WorkerInv'
    BY TypeStep
  <1> QED
    BY <1>1, <1>2, PTL DEF Spec

-----------------------------------------------------------------------------
(* Sessions and queue *)

\* The part of the invariant that is not about types and the worker's place.
OpsInv ==
    /\ Once(queue)
    /\ SentinelInv
    /\ \A o \in Ops : OpInv(o)
    /\ SingleSession

LEMMA QueuedElems == Queued = Elems(queue) /\ Queued' = Elems(queue')
  BY DEF Queued, Elems

LEMMA EnterStep ==
    ASSUME TypeOK, OpsInv, NEW o \in Ops, NEW b \in BOOLEAN, Enter(o, b),
           UNCHANGED <<tx, inflight, wpc, stopping>>
    PROVE  OpsInv'
  <1>1. o \notin Queued /\ o # inflight /\ tx[o] = "none" /\ fut[o] = "none"
    BY DEF OpsInv, OpInv, Enter
  <1>2. CASE Refusal(b) = "none"
    <2>1. ~stopping /\ Sentinel \notin Queued /\ wpc # "done"
      BY <1>2 DEF Refusal, OpsInv, SentinelInv
    <2>2. queue' = Append(queue, o) /\ fut' = [fut EXCEPT ![o] = "pending"]
      BY <1>2 DEF Enter
    <2>3. Once(queue') /\ Queued' = Queued \cup {o}
      BY <1>1, <2>2, AppendElems, QueuedElems DEF TypeOK, OpsInv
    <2>4. SentinelInv'
      BY <2>1, <2>3, QueueAssumption DEF SentinelInv
    <2>5. SingleSession'
      BY DEF SingleSession, OpsInv
    <2>6. \A p \in Ops : OpInv(p)'
      BY <1>1, <2>2, <2>3 DEF OpsInv, OpInv, TypeOK, Refusals
    <2> QED BY <2>3, <2>4, <2>5, <2>6 DEF OpsInv
  <1>3. CASE Refusal(b) # "none"
    <2>1. queue' = queue /\ Queued' = Queued
      BY <1>3, QueuedElems DEF Enter
    <2>2. Refusal(b) \in Refusals /\ fut' = [fut EXCEPT ![o] = Refusal(b)]
      BY <1>3 DEF Enter, Refusal, Refusals
    <2>3. \A p \in Ops : OpInv(p)'
      BY <1>1, <2>1, <2>2 DEF OpsInv, OpInv, TypeOK, Refusals
    <2> QED BY <2>1, <2>3 DEF OpsInv, SentinelInv, SingleSession
  <1> QED BY <1>2, <1>3

LEMMA TakeStep == ASSUME TypeOK, WorkerInv, OpsInv, WorkerTake PROVE OpsInv'
  <1> DEFINE h == Head(queue)
  <1>1. queue # <<>> /\ queue' = Tail(queue) /\ wpc = "idle" /\ inflight = NoOp /\ fut' = fut /\ stopping' = stopping
    BY DEF WorkerTake, WorkerInv, stopVars
  <1>2. /\ h \in Items /\ h \in Queued
        /\ Once(queue') /\ Queued' = Queued \ {h}
        /\ queue[Len(queue)] # h => queue'[Len(queue')] = queue[Len(queue)]
        /\ queue[Len(queue)] = h => queue' = <<>>
    BY <1>1, TailElems, QueuedElems DEF TypeOK, OpsInv, Items
  <1>3. \A o \in Ops : tx[o] # "open"
    BY <1>1, QueueAssumption DEF OpsInv, OpInv
  <1>4. CASE h = Sentinel
    <2>1. queue' = <<>> /\ stopping /\ wpc' = "done" /\ tx' = tx /\ inflight' = inflight
      BY <1>2, <1>4 DEF OpsInv, SentinelInv, WorkerTake
    <2>2. Queued' = {}
      BY <2>1, EmptyElems, QueuedElems
    <2>3. SentinelInv'
      BY <1>1, <2>1, <2>2 DEF SentinelInv
    <2>4. \A o \in Ops : OpInv(o)'
      BY <1>1, <1>3, <2>1, <2>2 DEF OpsInv, OpInv
    <2> QED BY <1>2, <2>1, <2>3, <2>4 DEF OpsInv, SingleSession
  <1>5. CASE h # Sentinel
    <2>1. wpc' = "work" /\ inflight' = h /\ tx' = [tx EXCEPT ![h] = "open"] /\ h \in Ops
      BY <1>2, <1>5 DEF WorkerTake, Items
    <2>2. SentinelInv'
      BY <1>1, <1>2, <1>5, <2>1 DEF OpsInv, SentinelInv
    <2>3. \A o \in Ops : OpInv(o)'
      BY <1>1, <1>2, <1>3, <2>1, QueueAssumption DEF OpsInv, OpInv, TypeOK, Refusals
    <2>4. SingleSession'
      BY <1>3, <2>1 DEF SingleSession, TypeOK
    <2> QED BY <1>2, <2>2, <2>3, <2>4 DEF OpsInv
  <1> QED BY <1>4, <1>5

LEMMA FailStep ==
    ASSUME TypeOK, OpsInv, FailAllPending, tx' = tx, inflight' = inflight, wpc' = wpc,
           stopping => stopping'
    PROVE  OpsInv'
  <1>1. queue' = <<>> /\ Queued' = {} /\ Once(queue')
    BY EmptyElems, QueuedElems DEF FailAllPending
  <1>2. SentinelInv'
    BY <1>1 DEF OpsInv, SentinelInv
  <1>3. ASSUME NEW o \in Ops PROVE OpInv(o)'
    <2>1. fut'[o] = IF o \in Queued /\ fut[o] = "pending" THEN "dropped" ELSE fut[o]
      BY DEF FailAllPending
    <2> QED BY <1>1, <2>1 DEF OpsInv, OpInv
  <1> QED BY <1>1, <1>2, <1>3 DEF OpsInv, SingleSession

LEMMA OpsInit == Init => OpsInv
  <1> SUFFICES ASSUME Init PROVE OpsInv
    OBVIOUS
  <1>1. Once(queue) /\ Queued = {}
    BY EmptyElems, QueuedElems DEF Init
  <1> QED BY <1>1, QueueAssumption DEF Init, OpsInv, SentinelInv, OpInv, SingleSession

LEMMA OpsStep == IInv /\ [Next]_vars => OpsInv'
  <1> SUFFICES ASSUME IInv, [Next]_vars PROVE OpsInv'
    OBVIOUS
  <1>0. TypeOK /\ WorkerInv /\ OpsInv
    BY DEF IInv, OpsInv
  <1> DEFINE Still == queue' = queue /\ Queued' = Queued
  <1>q. UNCHANGED queue => Still
    BY QueuedElems
  <1> USE <1>0
  <1> USE QueueAssumption DEF OpsInv, SentinelInv, OpInv, SingleSession,
          TypeOK, workerVars, supVars, stopVars
  <1>1. ASSUME NEW o \in Ops, Submit(o) PROVE OpsInv'
    BY <1>1, EnterStep DEF Submit, workerVars, supVars, stopVars
  <1>2. ASSUME NEW o \in Ops, SubmitFromWork(o) PROVE OpsInv'
    BY <1>2, EnterStep DEF SubmitFromWork, workerVars, supVars, stopVars
  <1>3. ASSUME NEW o \in Ops, SpawnAndAwait(o) PROVE OpsInv'
    BY <1>3, EnterStep DEF SpawnAndAwait, workerVars, supVars, stopVars
  <1>4. ASSUME NEW o \in Ops, CancelCaller(o) PROVE OpsInv'
    BY <1>4, <1>q DEF CancelCaller, Refusals
  <1>5. ASSUME NEW o \in Ops, ShieldedClose(o) PROVE OpsInv'
    BY <1>5, <1>q DEF ShieldedClose, Refusals
  <1>6. CASE WorkerTake
    BY <1>6, TakeStep
  <1>7. CASE Start
    BY <1>7, <1>q DEF Start, WorkerInv
  <1>8. CASE WorkCommit
    BY <1>8, <1>q DEF WorkCommit, WorkerInv, Refusals
  <1>9. CASE WorkReturn
    BY <1>9, <1>q DEF WorkReturn, WorkEnds
  <1>10. CASE WorkRaise
    BY <1>10, <1>q DEF WorkRaise, WorkEnds
  <1>11. CASE WorkCancels
    BY <1>11, <1>q DEF WorkCancels, WorkEnds
  <1>12. CASE WorkTimeout
    BY <1>12, <1>q DEF WorkTimeout, WorkEnds
  <1>13. CASE WorkerExit
    BY <1>13, <1>q DEF WorkerExit, WorkerInv, SessionClosed, Answered, Refusals
  <1>14. CASE WorkerCrash
    BY <1>14, <1>q DEF WorkerCrash, WorkerInv, SessionClosed, Refusals
  <1>15. CASE SupervisorReturn
    BY <1>15, <1>q DEF SupervisorReturn
  <1>16. CASE SupervisorRespawn
    BY <1>16, <1>q DEF SupervisorRespawn, WorkerInv
  <1>17. CASE SupervisorDeclareDead
    BY <1>17, FailStep DEF SupervisorDeclareDead, workerVars, stopVars
  <1>18. CASE WindowPasses
    BY <1>18, <1>q DEF WindowPasses
  <1>19. CASE StopFull
    BY <1>19, <1>q DEF StopFull
  <1>20. CASE StopBeginLost
    BY <1>20, FailStep DEF StopBeginLost, workerVars
  <1>21. CASE StopBegin
    <2>1. Sentinel \notin Queued /\ wpc \notin Ended
      BY <1>21 DEF StopBegin, OpsInv, SentinelInv
    <2>2. queue' = Append(queue, Sentinel) /\ stopping' /\ UNCHANGED <<fut, tx, wpc, inflight>>
      BY <1>21 DEF StopBegin, workerVars
    <2>3. /\ Once(queue') /\ Queued' = Queued \cup {Sentinel}
          /\ queue'[Len(queue')] = Sentinel
      BY <2>1, <2>2, AppendElems, QueuedElems DEF TypeOK, OpsInv
    <2>4. SentinelInv'
      BY <2>1, <2>2, <2>3 DEF SentinelInv, Ended
    <2>5. \A o \in Ops : OpInv(o)'
      BY <2>2, <2>3 DEF OpsInv, OpInv
    <2> QED BY <2>2, <2>3, <2>4, <2>5 DEF OpsInv, SingleSession
  <1>22. CASE StopDrained
    BY <1>22, <1>q DEF StopDrained, StopReturns
  <1>23. CASE StopWorkerLost
    BY <1>23, FailStep DEF StopWorkerLost, workerVars
  <1>24. CASE StopTimeout
    BY <1>24, <1>q DEF StopTimeout, Answered, WorkerInv, Refusals
  <1>25. CASE StopAgain
    BY <1>25, <1>q DEF StopAgain
  <1>26. CASE UNCHANGED vars
    BY <1>26, <1>q DEF vars
  <1> QED
    BY <1>1, <1>2, <1>3, <1>4, <1>5, <1>6, <1>7, <1>8, <1>9, <1>10, <1>11, <1>12,
       <1>13, <1>14, <1>15, <1>16, <1>17, <1>18, <1>19, <1>20, <1>21, <1>22,
       <1>23, <1>24, <1>25, <1>26
    DEF Next, Callers, Worker, Callback, Supervisor, Stop

LEMMA Invariance == Spec => []IInv
  <1>1. Init => IInv
    BY TypeInit, OpsInit DEF IInv, OpsInv
  <1>2. IInv /\ [Next]_vars => IInv'
    BY TypeStep, OpsStep DEF IInv, OpsInv
  <1> QED
    BY <1>1, <1>2, PTL DEF Spec

\* One writer session at a time, whatever crashes, is cancelled or times out.
THEOREM SessionsExclusive == Spec => []SingleSession
  <1>1. IInv => SingleSession
    BY DEF IInv
  <1> QED
    BY <1>1, Invariance, PTL

\* A callback whose caller was refused or dropped never touches the database.
THEOREM RefusalsFinal == Spec => []RefusedNeverRuns
  <1>1. IInv => RefusedNeverRuns
    BY DEF IInv, OpInv, RefusedNeverRuns
  <1> QED
    BY <1>1, Invariance, PTL

-----------------------------------------------------------------------------
(* Answers: what holds while no session's closing has raised *)

AnswerInv ==
    /\ \A o \in Ops : fut[o] = "pending" => o \in Queued \/ o = inflight
    /\ wpc # "crashed"
    /\ gen = 0 => \A o \in Ops : fut[o] # "pending"
    /\ stopper # "idle" => stopping
    /\ stopper \in {"draining", "cancelling"} => gen = stopGen /\ gen # 0
    /\ stopper = "returned" => \A o \in Ops : fut[o] # "pending"

CalmInv == NeverCrashed => AnswerInv

LEMMA EnterAnswer ==
    ASSUME TypeOK, Once(queue), AnswerInv, NEW o \in Ops, NEW b \in BOOLEAN, Enter(o, b),
           IInv, UNCHANGED <<wpc, gen, inflight, stopping, stopper, stopGen>>
    PROVE  AnswerInv'
  <1>1. CASE Refusal(b) = "none"
    <2>1. ~stopping /\ gen # 0 /\ o \notin Queued
      BY <1>1 DEF Refusal, Enter, IInv, OpInv
    <2>2. queue' = Append(queue, o) /\ fut' = [fut EXCEPT ![o] = "pending"]
      BY <1>1 DEF Enter
    <2>3. Queued' = Queued \cup {o}
      BY <2>1, <2>2, AppendElems, QueuedElems DEF TypeOK
    <2> QED BY <2>1, <2>2, <2>3 DEF AnswerInv, TypeOK
  <1>2. CASE Refusal(b) # "none"
    <2>1. queue' = queue /\ Queued' = Queued
      BY <1>2 DEF Enter, Queued
    <2>2. Refusal(b) # "pending" /\ fut' = [fut EXCEPT ![o] = Refusal(b)]
      BY <1>2 DEF Enter, Refusal
    <2> QED BY <2>1, <2>2 DEF AnswerInv, TypeOK
  <1> QED BY <1>1, <1>2

LEMMA AnswerStep ==
    ASSUME IInv, AnswerInv, [Next]_vars, IInv', NeverCrashed'
    PROVE  AnswerInv'
  <1>q. queue' = queue => Queued' = Queued
    BY DEF Queued
  <1>i. TypeOK /\ WorkerInv /\ SentinelInv /\ Once(queue)
    BY DEF IInv
  <1> USE QueueAssumption DEF AnswerInv,
          TypeOK, workerVars, supVars, stopVars
  <1>1. ASSUME NEW o \in Ops, Submit(o) PROVE AnswerInv'
    <2> DEFINE b == FALSE
    <2>1. Enter(o, b) /\ UNCHANGED <<wpc, gen, inflight, stopping, stopper, stopGen>>
      BY <1>1 DEF Submit, workerVars, stopVars
    <2> QED BY <2>1, EnterAnswer, <1>i
  <1>2. ASSUME NEW o \in Ops, SubmitFromWork(o) PROVE AnswerInv'
    <2> DEFINE b == TRUE
    <2>1. Enter(o, b) /\ UNCHANGED <<wpc, gen, inflight, stopping, stopper, stopGen>>
      BY <1>2 DEF SubmitFromWork, workerVars, stopVars
    <2> QED BY <2>1, EnterAnswer, <1>i
  <1>3. ASSUME NEW o \in Ops, SpawnAndAwait(o) PROVE AnswerInv'
    <2> DEFINE b == FALSE
    <2>1. Enter(o, b) /\ UNCHANGED <<wpc, gen, inflight, stopping, stopper, stopGen>>
      BY <1>3 DEF SpawnAndAwait, workerVars, stopVars
    <2> QED BY <2>1, EnterAnswer, <1>i
  <1>4. ASSUME NEW o \in Ops, CancelCaller(o) PROVE AnswerInv'
    BY <1>4, <1>q, <1>i DEF CancelCaller
  <1>5. ASSUME NEW o \in Ops, ShieldedClose(o) PROVE AnswerInv'
    BY <1>5, <1>q, <1>i DEF ShieldedClose
  <1>6. CASE WorkerTake
    <2>1. queue # <<>> /\ queue' = Tail(queue)
      BY <1>6 DEF WorkerTake
    <2>2. Queued' = Queued \ {Head(queue)}
      BY <1>i, <2>1, TailElems, QueuedElems DEF TypeOK
    <2> QED BY <1>6, <1>i, <2>2 DEF WorkerTake, WorkerInv
  <1>7. CASE Start
    BY <1>7, <1>q, <1>i DEF Start, WorkerInv
  <1>8. CASE WorkCommit
    BY <1>8, <1>q, <1>i DEF WorkCommit
  <1>9. CASE WorkReturn
    BY <1>9, <1>q, <1>i DEF WorkReturn, WorkEnds
  <1>10. CASE WorkRaise
    BY <1>10, <1>q, <1>i DEF WorkRaise, WorkEnds
  <1>11. CASE WorkCancels
    BY <1>11, <1>q, <1>i DEF WorkCancels, WorkEnds
  <1>12. CASE WorkTimeout
    BY <1>12, <1>q, <1>i DEF WorkTimeout, WorkEnds
  <1>13. CASE WorkerExit
    BY <1>13, <1>q, <1>i DEF WorkerExit, WorkerInv, Answered
  <1>14. CASE WorkerCrash
    BY <1>14 DEF WorkerCrash, NeverCrashed
  <1>15. CASE SupervisorReturn
    BY <1>15, <1>q, <1>i DEF SupervisorReturn
  <1>16. CASE SupervisorRespawn
    BY <1>16, <1>q, <1>i DEF SupervisorRespawn
  <1>17. CASE SupervisorDeclareDead
    BY <1>17, <1>q, <1>i DEF SupervisorDeclareDead
  <1>18. CASE WindowPasses
    BY <1>18, <1>q, <1>i DEF WindowPasses
  <1>19. CASE StopFull
    BY <1>19, <1>q, <1>i DEF StopFull
  <1>20. CASE StopBeginLost
    <2>0. inflight = NoOp /\ FailAllPending
      BY <1>20, <1>i DEF StopBeginLost, WorkerInv, Ended
    <2>1. ASSUME NEW o \in Ops PROVE fut'[o] # "pending"
      <3>1. fut'[o] = IF o \in Queued /\ fut[o] = "pending" THEN "dropped" ELSE fut[o]
        BY <2>0 DEF FailAllPending
      <3> QED BY <2>0, <3>1 DEF AnswerInv
    <2>2. wpc' = wpc /\ gen' = gen /\ stopping' /\ stopper' = "returned"
      BY <1>20, <1>i DEF StopBeginLost, StopReturns
    <2> QED BY <2>1, <2>2 DEF AnswerInv
  <1>21. CASE StopBegin
    <2>1. Sentinel \notin Queued
      BY <1>21, <1>i DEF StopBegin, SentinelInv
    <2>2. queue' = Append(queue, Sentinel)
      BY <1>21 DEF StopBegin
    <2>3. Queued' = Queued \cup {Sentinel}
      BY <1>i, <2>1, <2>2, AppendElems, QueuedElems DEF TypeOK
    <2>4. stopper' = (IF gen = 0 THEN "returned" ELSE "draining") /\ stopGen' = gen /\ stopping'
      BY <1>21 DEF StopBegin
    <2>5. UNCHANGED <<fut, wpc, gen, inflight>>
      BY <1>21 DEF StopBegin, workerVars
    <2> QED BY <2>3, <2>4, <2>5 DEF AnswerInv
  <1>22. CASE StopDrained
    <2>1. queue = <<>> /\ wpc = "done"
      BY <1>22, <1>i DEF StopDrained, SentinelInv
    <2>2. Queued = {} /\ inflight = NoOp
      BY <1>i, <2>1, EmptyElems, QueuedElems DEF WorkerInv
    <2>3. \A o \in Ops : fut[o] # "pending"
      BY <2>2 DEF AnswerInv
    <2>4. stopper' = "returned" /\ UNCHANGED <<fut, wpc, gen, inflight, stopping>> /\ stopping
      BY <1>22 DEF StopDrained, StopReturns, workerVars, AnswerInv
    <2> QED BY <2>3, <2>4 DEF AnswerInv
  <1>23. CASE StopWorkerLost
    <2>0. inflight = NoOp /\ FailAllPending
      BY <1>23, <1>i DEF StopWorkerLost, WorkerInv, Ended, AnswerInv
    <2>1. ASSUME NEW o \in Ops PROVE fut'[o] # "pending"
      <3>1. fut'[o] = IF o \in Queued /\ fut[o] = "pending" THEN "dropped" ELSE fut[o]
        BY <2>0 DEF FailAllPending
      <3> QED BY <2>0, <3>1 DEF AnswerInv
    <2>2. wpc' = wpc /\ gen' = gen /\ stopping' /\ stopper' = "returned"
      BY <1>23, <1>i DEF StopWorkerLost, StopReturns
    <2> QED BY <2>1, <2>2 DEF AnswerInv
  <1>24. CASE StopTimeout
    BY <1>24, <1>q, <1>i DEF StopTimeout, Answered, WorkerInv
  <1>25. CASE StopAgain
    BY <1>25, <1>q, <1>i DEF StopAgain
  <1>26. CASE UNCHANGED vars
    BY <1>26, <1>q, <1>i DEF vars
  <1> QED
    BY <1>1, <1>2, <1>3, <1>4, <1>5, <1>6, <1>7, <1>8, <1>9, <1>10, <1>11, <1>12,
       <1>13, <1>14, <1>15, <1>16, <1>17, <1>18, <1>19, <1>20, <1>21, <1>22,
       <1>23, <1>24, <1>25, <1>26
    DEF Next, Callers, Worker, Callback, Supervisor, Stop

\* A crash is never undone: the worker that crashed stays, or a later one
\* takes its place.
LEMMA CrashStays ==
    ASSUME TypeOK, WorkerInv, [Next]_vars, NeverCrashed'
    PROVE  NeverCrashed
  <1> USE QueueAssumption DEF NeverCrashed, TypeOK, WorkerInv, workerVars, supVars, stopVars
  <1>1. gen' = gen /\ (wpc = "crashed" => wpc' = "crashed") => NeverCrashed
    OBVIOUS
  <1>2. CASE Start
    BY <1>2 DEF Start
  <1>3. CASE SupervisorRespawn
    BY <1>3 DEF SupervisorRespawn
  <1>4. CASE Callers
    BY <1>1, <1>4 DEF Callers, Submit, SubmitFromWork, SpawnAndAwait, CancelCaller, ShieldedClose
  <1>5. CASE Worker
    BY <1>1, <1>5 DEF Worker, WorkerTake, WorkerExit, WorkerCrash
  <1>6. CASE Callback
    BY <1>1, <1>6 DEF Callback, WorkCommit, WorkReturn, WorkRaise, WorkCancels, WorkTimeout, WorkEnds
  <1>7. CASE SupervisorReturn \/ SupervisorDeclareDead \/ WindowPasses
    BY <1>1, <1>7 DEF SupervisorReturn, SupervisorDeclareDead, WindowPasses
  <1>8. CASE Stop
    BY <1>1, <1>8 DEF Stop, StopFull, StopBeginLost, StopBegin, StopDrained, StopWorkerLost,
                      StopTimeout, StopAgain, StopReturns
  <1>9. CASE UNCHANGED vars
    BY <1>1, <1>9 DEF vars
  <1>10. ASSUME NEW o \in Ops, ShieldedClose(o) PROVE NeverCrashed
    BY <1>1, <1>10 DEF ShieldedClose
  <1> QED
    BY <1>2, <1>3, <1>4, <1>5, <1>6, <1>7, <1>8, <1>9, <1>10 DEF Next, Supervisor

LEMMA AnswerInvariance == Spec => []CalmInv
  <1>1. Init => CalmInv
    BY DEF Init, CalmInv, AnswerInv
  <1>2. IInv /\ CalmInv /\ [Next]_vars /\ IInv' => CalmInv'
    <2> SUFFICES ASSUME IInv, CalmInv, [Next]_vars, IInv', NeverCrashed'
                 PROVE  AnswerInv'
      BY DEF CalmInv
    <2>1. NeverCrashed
      BY CrashStays DEF IInv
    <2> QED BY <2>1, AnswerStep DEF CalmInv
  <1> QED
    BY <1>1, <1>2, Invariance, PTL DEF Spec

\* Unless closing a session raised, whoever waits is queued or in flight.
THEOREM NoCallerForgotten == Spec => []NoLostFuture
  <1>1. CalmInv => NoLostFuture
    BY DEF CalmInv, AnswerInv, NoLostFuture
  <1> QED
    BY <1>1, AnswerInvariance, PTL

\* Unless closing a session raised, nobody waits once stop() has returned.
THEOREM StopLeavesNobody == Spec => []StopAnswersAll
  <1>1. CalmInv => StopAnswersAll
    BY DEF CalmInv, AnswerInv, StopAnswersAll
  <1> QED
    BY <1>1, AnswerInvariance, PTL

\* The two together: unless closing a session raised, no caller is forgotten,
\* neither on the way nor by stop().
THEOREM NobodyIsForgotten == Spec => []NobodyForgotten
  <1>1. NoLostFuture /\ StopAnswersAll => NobodyForgotten
    BY DEF NobodyForgotten
  <1> QED
    BY <1>1, NoCallerForgotten, StopLeavesNobody, PTL

-----------------------------------------------------------------------------
(* Acceptance: who takes what submit() parks                               *)

AcceptInv ==
    /\ ~stopping => wpc # "done"
    /\ ~stopping /\ ~dead /\ gen > 0 => wpc # "none" /\ (sup = "awaiting" \/ wpc = "cancelled")
    /\ stopper # "idle" => stopping

LEMMA AcceptStep ==
    ASSUME IInv, AcceptInv, [Next]_vars
    PROVE  AcceptInv'
  <1>i. TypeOK /\ WorkerInv /\ SentinelInv /\ Once(queue)
    BY DEF IInv
  <1> USE QueueAssumption DEF AcceptInv, TypeOK, WorkerInv, workerVars, supVars, stopVars
  <1>1. ASSUME NEW o \in Ops, Submit(o) PROVE AcceptInv'
    BY <1>1 DEF Submit
  <1>2. ASSUME NEW o \in Ops, SubmitFromWork(o) PROVE AcceptInv'
    BY <1>2 DEF SubmitFromWork
  <1>3. ASSUME NEW o \in Ops, SpawnAndAwait(o) PROVE AcceptInv'
    BY <1>3 DEF SpawnAndAwait
  <1>4. ASSUME NEW o \in Ops, CancelCaller(o) PROVE AcceptInv'
    BY <1>4 DEF CancelCaller
  <1>5. ASSUME NEW o \in Ops, ShieldedClose(o) PROVE AcceptInv'
    BY <1>5 DEF ShieldedClose
  <1>6. CASE Start
    BY <1>6, <1>i DEF Start
  <1>7. CASE WorkerExit
    BY <1>7, <1>i DEF WorkerExit
  <1>8. CASE WorkerCrash
    BY <1>8, <1>i DEF WorkerCrash
  <1>9. CASE WorkCommit
    BY <1>9, <1>i DEF WorkCommit
  <1>10. CASE WorkReturn
    BY <1>10, <1>i DEF WorkReturn, WorkEnds
  <1>11. CASE WorkRaise
    BY <1>11, <1>i DEF WorkRaise, WorkEnds
  <1>12. CASE WorkCancels
    BY <1>12, <1>i DEF WorkCancels, WorkEnds
  <1>13. CASE WorkTimeout
    BY <1>13, <1>i DEF WorkTimeout, WorkEnds
  <1>14. CASE SupervisorReturn
    BY <1>14, <1>i DEF SupervisorReturn
  <1>15. CASE SupervisorRespawn
    BY <1>15, <1>i DEF SupervisorRespawn
  <1>16. CASE SupervisorDeclareDead
    BY <1>16, <1>i DEF SupervisorDeclareDead
  <1>17. CASE WindowPasses
    BY <1>17, <1>i DEF WindowPasses
  <1>18. CASE StopFull
    BY <1>18, <1>i DEF StopFull
  <1>19. CASE StopBeginLost
    BY <1>19, <1>i DEF StopBeginLost
  <1>20. CASE StopBegin
    BY <1>20, <1>i DEF StopBegin
  <1>21. CASE StopDrained
    BY <1>21, <1>i DEF StopDrained, StopReturns
  <1>22. CASE StopWorkerLost
    BY <1>22, <1>i DEF StopWorkerLost, StopReturns
  <1>23. CASE StopTimeout
    BY <1>23, <1>i DEF StopTimeout
  <1>24. CASE StopAgain
    BY <1>24, <1>i DEF StopAgain
  <1>25. CASE WorkerTake
    <2>1. wpc' = "done" => stopping
      <3>1. ASSUME Head(queue) = Sentinel, queue # <<>> PROVE Sentinel \in Queued
        BY <3>1, <1>i, TailElems, QueuedElems DEF TypeOK
      <3> QED BY <1>25, <1>i, <3>1 DEF WorkerTake, SentinelInv
    <2>2. wpc = "idle" /\ wpc' \in {"done", "work"} /\ UNCHANGED <<stopping, dead, gen, sup, stopper>>
      BY <1>25 DEF WorkerTake, supVars, stopVars
    <2> QED BY <2>1, <2>2 DEF AcceptInv
  <1>26. CASE UNCHANGED vars
    BY <1>26 DEF vars
  <1> QED
    BY <1>1, <1>2, <1>3, <1>4, <1>5, <1>6, <1>7, <1>8, <1>9, <1>10, <1>11, <1>12,
       <1>13, <1>14, <1>15, <1>16, <1>17, <1>18, <1>19, <1>20, <1>21, <1>22,
       <1>23, <1>24, <1>25, <1>26
    DEF Next, Callers, Worker, Callback, Supervisor, Stop

\* Unless a callback that cancels itself has wedged the queue, what submit()
\* accepts finds a worker.
THEOREM AcceptedIsServed == Spec => []AcceptingHasWorker
  <1>1. Init => AcceptInv
    BY DEF Init, AcceptInv
  <1>2. IInv /\ AcceptInv /\ [Next]_vars => AcceptInv'
    BY AcceptStep
  <1>3. IInv /\ AcceptInv => AcceptingHasWorker
    BY DEF IInv, TypeOK, AcceptInv, AcceptingHasWorker, Wedged, Ended
  <1> QED
    BY <1>1, <1>2, <1>3, Invariance, PTL DEF Spec

-----------------------------------------------------------------------------
(* The queue implements WriterService *)

State == [o \in Ops |-> ServiceState(o)]

\* A step that moves nothing the service sees.
Stutter == State' = State /\ Backlog' = Backlog /\ inflight' = inflight

LEMMA BacklogEmpty ==
    ASSUME TypeOK, SentinelInv, NEW o \in Queued, o # Sentinel PROVE Backlog # <<>>
  <1> DEFINE n == Len(queue)
             u == SubSeq(queue, 1, n - 1)
  <1>1. queue \in Seq(Items) /\ n \in Nat
    BY DEF TypeOK, Items
  <1>2. PICK i \in 1 .. n : queue[i] = o
    BY <1>1 DEF Queued
  <1>3. CASE Sentinel \in Queued
    <2>0. queue[n] = Sentinel
      BY <1>3 DEF SentinelInv
    <2>1. n - 1 \in Nat /\ n - 1 # 0 /\ n - 1 <= n
      BY <1>1, <1>2, <2>0
    <2>2. u \in Seq(Items) /\ Len(u) = n - 1
      BY <1>1, <2>1, PrefixElems
    <2> HIDE DEF u
    <2>3. u # <<>>
      BY <2>1, <2>2, EmptyLen
    <2> QED BY <1>3, <2>3 DEF Backlog, u
  <1>4. CASE Sentinel \notin Queued
    BY <1>1, <1>2, <1>4, EmptyLen DEF Backlog
  <1> QED BY <1>3, <1>4

LEMMA BacklogTail ==
    ASSUME TypeOK, SentinelInv, Once(queue), queue # <<>>, Head(queue) # Sentinel,
           queue' = Tail(queue)
    PROVE  Backlog # <<>> /\ Head(Backlog) = Head(queue) /\ Backlog' = Tail(Backlog)
  <1>1. queue \in Seq(Items) /\ Head(queue) \in Items /\ Queued' = Queued \ {Head(queue)}
    BY TailElems, QueuedElems DEF TypeOK, Items
  <1>2. CASE Sentinel \notin Queued
    BY <1>1, <1>2 DEF Backlog
  <1>3. CASE Sentinel \in Queued
    <2> DEFINE n == Len(queue)
               b == SubSeq(queue, 1, n - 1)
               t == SubSeq(Tail(queue), 1, n - 2)
    <2>1. n \in Nat /\ n > 1 /\ queue[n] = Sentinel
      <3>1. n \in Nat /\ n >= 1 /\ Head(queue) = queue[1] /\ queue[n] = Sentinel
        BY <1>1, <1>3 DEF SentinelInv
      <3> QED BY <3>1
    <2>2. Backlog = b /\ Len(Tail(queue)) = n - 1
      BY <1>1, <1>3 DEF Backlog
    <2>3. Backlog' = t
      <3>1. Sentinel \in Queued'
        BY <1>1, <1>3
      <3>2. (n - 1) - 1 = n - 2
        BY <2>1
      <3> QED BY <2>2, <3>1, <3>2 DEF Backlog
    <2>4. b \in Seq(Items) /\ Len(b) = n - 1 /\ \A i \in 1 .. n - 1 : b[i] = queue[i]
      BY <1>1, <2>1
    <2>5. t \in Seq(Items) /\ Len(t) = n - 2 /\ \A i \in 1 .. n - 2 : t[i] = queue[i + 1]
      <3> DEFINE q == Tail(queue)
      <3>1. q \in Seq(Items) /\ \A i \in 1 .. n - 1 : q[i] = queue[i + 1]
        BY <1>1, <2>1
      <3>2. \A i \in 1 .. n - 2 : i \in 1 .. n - 1 /\ q[i] \in Items
        BY <3>1, <2>1, <2>2
      <3> HIDE DEF q
      <3>3. n - 2 \in Nat /\ n - 2 <= Len(q)
        BY <2>1, <2>2 DEF q
      <3>4. /\ SubSeq(q, 1, n - 2) \in Seq(Items) /\ Len(SubSeq(q, 1, n - 2)) = n - 2
            /\ \A i \in 1 .. n - 2 : SubSeq(q, 1, n - 2)[i] = q[i]
        BY <3>1, <3>3, PrefixElems
      <3> QED BY <3>1, <3>2, <3>3, <3>4 DEF q
    <2>6. b # <<>> /\ Head(b) = Head(queue)
      <3>1. b[1] = queue[1] /\ Head(queue) = queue[1]
        BY <1>1, <2>1, <2>4
      <3> HIDE DEF b
      <3>2. Len(b) # 0
        BY <2>1, <2>4
      <3>3. b # <<>>
        BY <3>2, EmptySeq
      <3> QED BY <2>4, <3>1, <3>3
    <2>7. Tail(b) \in Seq(Items) /\ Len(Tail(b)) = n - 2 /\ \A i \in 1 .. n - 2 : Tail(b)[i] = queue[i + 1]
      BY <2>1, <2>4, <2>6
    <2>8. t = Tail(b)
      BY <2>1, <2>5, <2>7, SeqEqual
    <2> QED BY <2>2, <2>3, <2>6, <2>8
  <1> QED BY <1>2, <1>3

LEMMA BacklogSentinel ==
    ASSUME TypeOK, Sentinel \notin Queued, Once(queue), queue' = Append(queue, Sentinel)
    PROVE  Backlog' = Backlog
  <1>1. queue \in Seq(Items) /\ Sentinel \in Queued' /\ Len(queue') = Len(queue) + 1
    BY AppendElems, QueuedElems DEF TypeOK, Items
  <1> DEFINE b == SubSeq(queue', 1, Len(queue') - 1)
  <1>2. Backlog' = b /\ Backlog = queue
    BY <1>1 DEF Backlog
  <1>3. queue' \in Seq(Items) /\ Len(queue) \in Nat /\ \A i \in 1 .. Len(queue) : queue'[i] = queue[i]
    BY <1>1 DEF Items
  <1>4. b \in Seq(Items) /\ Len(b) = Len(queue) /\ \A i \in 1 .. Len(queue) : b[i] = queue[i]
    BY <1>1, <1>3
  <1> HIDE DEF b
  <1>5. b = queue
    BY <1>1, <1>4, SeqEqual
  <1> QED BY <1>2, <1>5

\* What decides where the service sees a callback.
LEMMA StateSame ==
    ASSUME Queued' \cap Ops = Queued \cap Ops, inflight' = inflight,
           \A o \in Ops : /\ fut'[o] = "none" <=> fut[o] = "none"
                          /\ fut'[o] \in Refusals <=> fut[o] \in Refusals
                          /\ tx'[o] = "none" <=> tx[o] = "none"
    PROVE  State' = State
  BY DEF State, ServiceState

LEMMA StutterStep ==
    ASSUME queue' = queue, inflight' = inflight,
           \A o \in Ops : /\ fut'[o] = "none" <=> fut[o] = "none"
                          /\ fut'[o] \in Refusals <=> fut[o] \in Refusals
                          /\ tx'[o] = "none" <=> tx[o] = "none"
    PROVE  Stutter
  <1>1. Queued' = Queued /\ Backlog' = Backlog
    BY DEF Queued, Backlog
  <1> QED BY <1>1, StateSame DEF Stutter

LEMMA EnterServed ==
    ASSUME IInv, NEW o \in Ops, NEW b \in BOOLEAN, Enter(o, b), UNCHANGED <<tx, inflight>>
    PROVE  Service!Refuse(o) \/ Service!Accept(o)
  <1>1. fut[o] = "none" /\ o \notin Queued /\ o # inflight /\ tx[o] = "none" /\ TypeOK /\ Once(queue)
    BY DEF IInv, OpInv, Enter
  <1>2. CASE Refusal(b) = "none"
    <2>1. queue' = Append(queue, o) /\ fut' = [fut EXCEPT ![o] = "pending"] /\ ~stopping
      BY <1>2 DEF Enter, Refusal
    <2>2. Queued' = Queued \cup {o} /\ Sentinel \notin Queued
      BY <1>1, <2>1, AppendElems, QueuedElems DEF TypeOK, IInv, SentinelInv
    <2>3. Backlog' = Append(Backlog, o)
      BY <2>1, <2>2, QueueAssumption DEF Backlog
    <2>4. State[o] = "new"
      BY <1>1 DEF State, ServiceState
    <2>5. State' = [State EXCEPT ![o] = "waiting"]
      BY <1>1, <2>1, <2>2 DEF State, ServiceState, TypeOK, Refusals
    <2> QED BY <2>3, <2>4, <2>5 DEF Service!Accept, State
  <1>3. CASE Refusal(b) # "none"
    <2>1. queue' = queue /\ Queued' = Queued /\ Backlog' = Backlog
      BY <1>3 DEF Enter, Queued, Backlog
    <2>2. Refusal(b) \in Refusals /\ fut' = [fut EXCEPT ![o] = Refusal(b)]
      BY <1>3 DEF Enter, Refusal, Refusals
    <2>3. State[o] = "new"
      BY <1>1 DEF State, ServiceState
    <2>4. State' = [State EXCEPT ![o] = "refused"]
      BY <1>1, <2>1, <2>2 DEF State, ServiceState, TypeOK, Refusals
    <2> QED BY <2>1, <2>3, <2>4 DEF Service!Refuse, State
  <1> QED BY <1>2, <1>3

LEMMA TakeServed == ASSUME IInv, WorkerTake PROVE Service!Begin \/ Stutter
  <1>0. PICK h : h = Head(queue)
    OBVIOUS
  <1>1. TypeOK /\ Once(queue) /\ SentinelInv
    BY DEF IInv
  <1>2. queue # <<>> /\ queue' = Tail(queue) /\ wpc = "idle" /\ inflight = NoOp /\ fut' = fut
    BY DEF WorkerTake, IInv, WorkerInv
  <1>3. /\ h \in Items /\ h \in Queued /\ Queued' = Queued \ {h}
        /\ queue[Len(queue)] = h => queue' = <<>>
    BY <1>0, <1>1, <1>2, TailElems, QueuedElems DEF TypeOK, Items
  <1>4. CASE h = Sentinel
    <2>1. queue' = <<>> /\ tx' = tx /\ inflight' = inflight
      BY <1>0, <1>1, <1>3, <1>4 DEF SentinelInv, WorkerTake
    <2>2. Queued' = {} /\ Queued \subseteq {Sentinel}
      BY <1>3, <1>4, <2>1, EmptyElems, QueuedElems
    <2>3. Backlog' = <<>>
      BY <2>1, <2>2 DEF Backlog
    <2>4. Backlog = <<>>
      <3>1. Len(queue) = 1
        <4> DEFINE n == Len(queue)
                   m == Len(Tail(queue))
        <4>1. Tail(queue) \in Seq(Items) /\ n \in Nat /\ m = n - 1
          BY <1>1, <1>2, TailElems DEF TypeOK, Items
        <4>2. m = 0
          BY <4>1, <1>2, <2>1, EmptyLen
        <4>3. n \in Nat /\ m = n - 1
          BY <4>1
        <4> HIDE DEF n, m
        <4>4. n = 1
          BY <4>2, <4>3
        <4> QED BY <4>4 DEF n
      <3>2. SubSeq(queue, 1, 0) \in Seq(Items) /\ Len(SubSeq(queue, 1, 0)) = 0
        BY <1>1, PrefixElems DEF TypeOK, Items
      <3>3. SubSeq(queue, 1, 0) = <<>>
        BY <3>2, EmptyLen
      <3> QED BY <1>3, <1>4, <3>1, <3>3 DEF Backlog
    <2>5. State' = State
      BY <1>2, <2>1, <2>2, StateSame, QueueAssumption
    <2> QED BY <2>1, <2>3, <2>4, <2>5 DEF Stutter
  <1>5. CASE h # Sentinel
    <2>1. inflight' = h /\ tx' = [tx EXCEPT ![h] = "open"] /\ h \in Ops
      BY <1>0, <1>3, <1>5 DEF WorkerTake, Items
    <2>2. Backlog # <<>> /\ Head(Backlog) = h /\ Backlog' = Tail(Backlog)
      BY <1>0, <1>1, <1>2, <1>5, BacklogTail
    <2>3. fut[h] \notin {"none"} \cup Refusals /\ \A o \in Ops : o # inflight
      BY <1>2, <1>3, <2>1, QueueAssumption DEF IInv, OpInv
    <2>4. State' = [State EXCEPT ![h] = "running"]
      <3>1. ASSUME NEW o \in Ops, o # h PROVE ServiceState(o)' = ServiceState(o)
        BY <1>2, <1>3, <2>1, <2>3, <3>1 DEF ServiceState, TypeOK
      <3>2. ServiceState(h)' = "running"
        BY <1>2, <1>3, <2>1, <2>3 DEF ServiceState
      <3> QED BY <2>1, <3>1, <3>2 DEF State
    <2> QED BY <1>2, <2>1, <2>2, <2>4 DEF Service!Begin, State
  <1> QED BY <1>4, <1>5

LEMMA FinishServed ==
    ASSUME TypeOK, inflight \in Ops, queue' = queue, inflight' = NoOp,
           inflight \notin Queued, fut[inflight] \notin {"none"} \cup Refusals,
           tx'[inflight] # "none", \A o \in Ops \ {inflight} : tx'[o] = tx[o],
           \A o \in Ops : /\ fut'[o] = "none" <=> fut[o] = "none"
                          /\ fut'[o] \in Refusals <=> fut[o] \in Refusals
    PROVE  Service!Finish
  <1>1. Queued' = Queued /\ Backlog' = Backlog
    BY DEF Queued, Backlog
  <1>2. PICK h \in Ops : h = inflight
    OBVIOUS
  <1>3. ServiceState(h)' = "over"
    BY <1>1, <1>2, QueueAssumption DEF ServiceState
  <1>4. ASSUME NEW o \in Ops, o # h PROVE ServiceState(o)' = ServiceState(o)
    BY <1>1, <1>2, <1>4, QueueAssumption DEF ServiceState
  <1>5. State' = [State EXCEPT ![h] = "over"]
    BY <1>3, <1>4 DEF State
  <1> QED BY <1>1, <1>2, <1>5, QueueAssumption DEF Service!Finish, State

LEMMA FailServed ==
    ASSUME IInv, FailAllPending, tx' = tx, inflight' = inflight
    PROVE  Service!Drop \/ Stutter
  <1>1. queue' = <<>> /\ Queued' = {} /\ Backlog' = <<>>
    BY EmptyElems, QueuedElems DEF FailAllPending, Backlog
  <1>2. ASSUME NEW o \in Ops
        PROVE  ServiceState(o)' = IF ServiceState(o) = "waiting" THEN "dropped" ELSE ServiceState(o)
    <2>1. fut'[o] = IF o \in Queued /\ fut[o] = "pending" THEN "dropped" ELSE fut[o]
      BY DEF FailAllPending
    <2>2. o \in Queued => tx[o] = "none" /\ fut[o] \in {"pending", "abandoned"} /\ o # inflight
      BY DEF IInv, OpInv
    <2> QED BY <1>1, <2>1, <2>2 DEF ServiceState, Refusals
  <1>3. CASE Backlog = <<>>
    <2>1. Queued \cap Ops = {}
      BY <1>3, BacklogEmpty, QueueAssumption DEF IInv
    <2>2. \A o \in Ops : ServiceState(o) # "waiting"
      BY <2>1 DEF ServiceState
    <2>3. State' = State
      BY <1>2, <2>2 DEF State
    <2> QED BY <1>1, <1>3, <2>3 DEF Stutter
  <1>4. CASE Backlog # <<>>
    <2>1. State' = [o \in Ops |-> IF State[o] = "waiting" THEN "dropped" ELSE State[o]]
      BY <1>2 DEF State
    <2> QED BY <1>1, <1>4, <2>1 DEF Service!Drop, State
  <1> QED BY <1>3, <1>4

LEMMA ServiceStep ==
    ASSUME IInv, [Next]_vars
    PROVE  Service!Next \/ Stutter
  <1> USE QueueAssumption DEF workerVars, supVars, stopVars, Refusals
  <1>i. /\ TypeOK /\ WorkerInv
        /\ inflight \in Ops => /\ inflight \notin Queued /\ tx[inflight] # "none"
                               /\ fut[inflight] \notin {"none"} \cup Refusals
    BY DEF IInv, OpInv
  <1>1. ASSUME NEW o \in Ops, Submit(o) \/ SubmitFromWork(o) \/ SpawnAndAwait(o)
        PROVE  Service!Next
    <2>1. \E b \in BOOLEAN : Enter(o, b)
      BY <1>1 DEF Submit, SubmitFromWork, SpawnAndAwait
    <2>2. UNCHANGED <<tx, inflight>>
      BY <1>1 DEF Submit, SubmitFromWork, SpawnAndAwait
    <2> QED BY <2>1, <2>2, EnterServed DEF Service!Next
  <1>2. ASSUME NEW o \in Ops, CancelCaller(o) PROVE Stutter
    BY <1>2, <1>i, StutterStep DEF CancelCaller, TypeOK
  <1>3. ASSUME NEW o \in Ops, ShieldedClose(o) PROVE Stutter
    BY <1>3, <1>i, StutterStep DEF ShieldedClose, TypeOK
  <1>4. CASE Start
    BY <1>4, <1>i, StutterStep DEF Start
  <1>5. CASE WorkCommit
    BY <1>5, <1>i, StutterStep DEF WorkCommit, TypeOK, WorkerInv
  <1>6. CASE WorkReturn
    BY <1>6, <1>i, StutterStep DEF WorkReturn, WorkEnds
  <1>7. CASE WorkRaise
    BY <1>7, <1>i, StutterStep DEF WorkRaise, WorkEnds
  <1>8. CASE WorkCancels
    BY <1>8, <1>i, StutterStep DEF WorkCancels, WorkEnds
  <1>9. CASE WorkTimeout
    BY <1>9, <1>i, StutterStep DEF WorkTimeout, WorkEnds
  <1>10. CASE SupervisorReturn
    BY <1>10, <1>i, StutterStep DEF SupervisorReturn
  <1>11. CASE SupervisorRespawn
    BY <1>11, <1>i, StutterStep DEF SupervisorRespawn
  <1>12. CASE WindowPasses
    BY <1>12, <1>i, StutterStep DEF WindowPasses
  <1>13. CASE StopFull
    BY <1>13, <1>i, StutterStep DEF StopFull
  <1>14. CASE StopDrained
    BY <1>14, <1>i, StutterStep DEF StopDrained, StopReturns
  <1>15. CASE StopAgain
    BY <1>15, <1>i, StutterStep DEF StopAgain
  <1>16. CASE UNCHANGED vars
    BY <1>16, <1>i, StutterStep DEF vars
  <1>17. CASE WorkerTake
    BY <1>17, TakeServed DEF Service!Next
  <1>18. CASE WorkerExit
    <2>1. inflight \in Ops /\ queue' = queue /\ inflight' = NoOp
      BY <1>18, <1>i DEF WorkerExit, TypeOK, WorkerInv
    <2>2. tx'[inflight] # "none" /\ \A o \in Ops \ {inflight} : tx'[o] = tx[o]
      BY <1>18, <1>i, <2>1 DEF WorkerExit, SessionClosed, TypeOK
    <2>3. \A o \in Ops : /\ fut'[o] = "none" <=> fut[o] = "none"
                         /\ fut'[o] \in Refusals <=> fut[o] \in Refusals
      BY <1>18, <1>i, <2>1 DEF WorkerExit, Answered, TypeOK, WorkerInv
    <2> QED BY <1>i, <2>1, <2>2, <2>3, FinishServed DEF Service!Next
  <1>19. CASE WorkerCrash
    <2>1. inflight \in Ops /\ queue' = queue /\ inflight' = NoOp
      BY <1>19, <1>i DEF WorkerCrash, TypeOK, WorkerInv
    <2>2. tx'[inflight] # "none" /\ \A o \in Ops \ {inflight} : tx'[o] = tx[o]
      BY <1>19, <1>i, <2>1 DEF WorkerCrash, SessionClosed, TypeOK
    <2>3. \A o \in Ops : /\ fut'[o] = "none" <=> fut[o] = "none"
                         /\ fut'[o] \in Refusals <=> fut[o] \in Refusals
      BY <1>19, <1>i, <2>1 DEF WorkerCrash, Answered, TypeOK, WorkerInv
    <2> QED BY <1>i, <2>1, <2>2, <2>3, FinishServed DEF Service!Next
  <1>20. CASE SupervisorDeclareDead
    BY <1>20, FailServed DEF SupervisorDeclareDead, Service!Next
  <1>21. CASE StopBeginLost
    BY <1>21, FailServed DEF StopBeginLost, Service!Next
  <1>22. CASE StopWorkerLost
    BY <1>22, FailServed DEF StopWorkerLost, Service!Next
  <1>23. CASE StopBegin
    <2>1. queue' = Append(queue, Sentinel) /\ UNCHANGED <<fut, tx, inflight>>
      BY <1>23 DEF StopBegin
    <2>2. Sentinel \notin Queued /\ Once(queue)
      BY <1>23 DEF StopBegin, IInv, SentinelInv
    <2>3. Backlog' = Backlog
      BY <1>i, <2>1, <2>2, BacklogSentinel
    <2>4. Queued' = Queued \cup {Sentinel}
      BY <1>i, <2>1, <2>2, AppendElems, QueuedElems DEF TypeOK
    <2>5. State' = State
      BY <2>1, <2>4, StateSame
    <2> QED BY <2>1, <2>3, <2>5 DEF Stutter
  <1>24. CASE StopTimeout
    <2>1. CASE wpc = "exit"
      <3>1. inflight \in Ops /\ queue' = queue /\ inflight' = NoOp /\ tx' = tx
        BY <1>24, <1>i, <2>1 DEF StopTimeout, TypeOK, WorkerInv
      <3>2. \A o \in Ops : /\ fut'[o] = "none" <=> fut[o] = "none"
                           /\ fut'[o] \in Refusals <=> fut[o] \in Refusals
        BY <1>24, <1>i, <2>1, <3>1 DEF StopTimeout, Answered, TypeOK
      <3> QED BY <1>i, <3>1, <3>2, FinishServed DEF Service!Next
    <2>2. CASE wpc # "exit"
      BY <1>24, <2>2, StutterStep DEF StopTimeout
    <2> QED BY <2>1, <2>2
  <1> QED
    BY <1>1, <1>2, <1>3, <1>4, <1>5, <1>6, <1>7, <1>8, <1>9, <1>10, <1>11, <1>12,
       <1>13, <1>14, <1>15, <1>16, <1>17, <1>18, <1>19, <1>20, <1>21, <1>22,
       <1>23, <1>24
    DEF Next, Callers, Worker, Callback, Supervisor, Stop

\* The queue implements the abstract serial writer: one callback at a time,
\* each at most once, in the order of their acceptance.
THEOREM ServiceImplemented == Spec => ServiceRefined
  <1>1. Init => Service!Init
    <2> SUFFICES ASSUME Init PROVE Service!Init
      OBVIOUS
    <2>1. Queued = {} /\ queue = <<>>
      BY EmptyElems, QueuedElems DEF Init
    <2> QED BY <2>1 DEF Init, Service!Init, ServiceState, Backlog
  <1>2. IInv /\ [Next]_vars => [Service!Next]_(Service!svars)
    BY ServiceStep DEF Stutter, State, Service!svars
  <1> QED
    BY <1>1, <1>2, Invariance, PTL DEF Spec, ServiceRefined, Service!Spec
=============================================================================
