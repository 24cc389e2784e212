----------------------------- MODULE RunStream -----------------------------
(***************************************************************************)
(* The event stream of a single run: POST /api/probes and POST             *)
(* /api/seed/stream subscribe to the event bus for a run id, start the run *)
(* (module RunLifecycle) as a task of its own and forward what the bus     *)
(* says of that run until its generator's closing event.                   *)
(*                                                                         *)
(* The subscription's queue receives every event of the bus and is         *)
(* filtered when it is read (event_bus.py, _RunSubscription).  Events of   *)
(* anything but the streamed runs are those of NoRun.                      *)
(***************************************************************************)
EXTENDS RunLifecycle

CONSTANTS
    BoxSize,     \* the subscription's queue (256)
    MaxSteps,    \* bound on the progress events of a run
    MaxOther     \* bound on the events of others

ASSUME BoxAssumption == BoxSize \in Nat \ {0} /\ MaxSteps \in Nat /\ MaxOther \in Nat

VARIABLES
    stream,    \* the response of a run's stream: none, open, closed
    box,       \* its subscription's queue
    heard,     \* the closing event it forwarded
    steps,     \* progress events published by a run
    other,     \* events published by others
    lost       \* runs whose closing event a full queue gave up

streamVars == <<stream, box, heard, steps, other, lost>>
allVars == <<vars, streamVars>>

Kinds  == {"step", "completed", "failed"}
Event(k, r) == [kind |-> k, run |-> r]
Boxes  == Seq([kind : Kinds, run : Runs \cup {NoRun}])

StreamTypeOK ==
    /\ stream \in [Runs -> {"none", "open", "closed"}]
    /\ box \in [Runs -> Boxes] /\ \A r \in Runs : Len(box[r]) <= BoxSize
    /\ heard \in [Runs -> {"none", "completed", "failed"}]
    /\ steps \in [Runs -> 0 .. MaxSteps]
    /\ other \in 0 .. MaxOther /\ lost \subseteq Runs

StreamInit ==
    /\ Init
    /\ stream = [r \in Runs |-> "none"] /\ box = [r \in Runs |-> <<>>]
    /\ heard = [r \in Runs |-> "none"] /\ steps = [r \in Runs |-> 0]
    /\ other = 0 /\ lost = {}

-----------------------------------------------------------------------------

GivenUp(r) == stream[r] = "open" /\ Len(box[r]) = BoxSize
                /\ Head(box[r]).run = r /\ Head(box[r]).kind # "step"

\* publish(): every open subscription gets the event, at the expense of its
\* oldest one when it is full.
Publish(e) ==
    /\ box' = [r \in Runs |->
                 IF stream[r] # "open" THEN box[r]
                 ELSE IF Len(box[r]) < BoxSize THEN Append(box[r], e)
                 ELSE Append(Tail(box[r]), e)]
    /\ lost' = lost \cup {r \in Runs : GivenUp(r)}

Quiet == UNCHANGED streamVars

\* Subscribe first, then start the run.
StartStream(r) ==
    /\ Call(r, Backend, "run")
    /\ stream' = [stream EXCEPT ![r] = "open"]
    /\ UNCHANGED <<box, heard, steps, other, lost>>

\* Whatever else the backend publishes, closing events of other runs included.
Other(k) ==
    /\ other < MaxOther /\ other' = other + 1
    /\ Publish(Event(k, NoRun))
    /\ UNCHANGED <<vars, stream, heard, steps>>

\* The generators' progress events: started, grounding, prompt completed, ...
Progress(r) ==
    /\ task[r] = "generating" /\ steps[r] < MaxSteps
    /\ steps' = [steps EXCEPT ![r] = @ + 1]
    /\ Publish(Event("step", r))
    /\ UNCHANGED <<vars, stream, heard, other>>

\* Mutant: the closing event says "completed" of every run that returned.
ClosingsAlways(v) == {"completed"}

\* What the closing event may say of a classification: a seed run that could
\* not persist its prompts publishes seed_failed and returns "partial".
Closings(v) ==
    IF v = "completed" THEN {"completed"}
    ELSE IF v = "failed" THEN {"failed"} ELSE {"completed", "failed"}

\* Mutant: the generator returns without its closing event.
ReturnsSilently(r, v) == GeneratorReturns(r, v) /\ Quiet

\* The closing event is published just before the generator returns.
Returns(r, v) ==
    /\ GeneratorReturns(r, v)
    /\ \E k \in Closings(v) : Publish(Event(k, r))
    /\ UNCHANGED <<stream, heard, steps, other>>

\* A generator that raises, as a probe's does when it cannot persist its
\* prompts, or that is cancelled says nothing.
Raises(r) == GeneratorRaises(r) /\ Quiet

\* The response's loop: skip the events of other runs, forward those of this
\* one, leave after a closing event.
Read(r) ==
    /\ stream[r] = "open" /\ box[r] # <<>>
    /\ box' = [box EXCEPT ![r] = Tail(@)]
    /\ IF Head(box[r]).run = r /\ Head(box[r]).kind # "step"
         THEN /\ heard' = [heard EXCEPT ![r] = Head(box[r]).kind]
              /\ stream' = [stream EXCEPT ![r] = "closed"]
         ELSE UNCHANGED <<stream, heard>>
    /\ UNCHANGED <<vars, steps, other, lost>>

\* The client goes away: the subscription is closed, the run goes on.
Disconnect(r) ==
    /\ stream[r] = "open"
    /\ stream' = [stream EXCEPT ![r] = "closed"]
    /\ UNCHANGED <<vars, box, heard, steps, other, lost>>

\* The other steps of RunLifecycle; nobody cancels the task of a streamed run.
Lifecycle ==
    \/ \E r \in Runs :
         \/ Created(r) \/ CreateFails(r) \/ Return(r)
         \/ Persisted(r) \/ PersistFails(r) \/ Marked(r) \/ Age(r) \/ DeleteRun(r)
    \/ SweepTick
    \/ \E p \in Procs : Worker(p)

StreamNext ==
    \/ \E r \in Runs :
         \/ StartStream(r) \/ Progress(r) \/ Raises(r) \/ Read(r) \/ Disconnect(r)
         \/ \E v \in Terminal : Returns(r, v)
    \/ \E k \in Kinds : Other(k)
    \/ Lifecycle /\ Quiet

\* As in RunLifecycle; besides, responses are written, and a generator ends.
StreamFairness ==
    /\ \A p \in Procs : WF_allVars(Worker(p) /\ Quiet)
    /\ \A r \in Runs :
         /\ WF_allVars((Persisted(r) \/ PersistFails(r) \/ Marked(r)) /\ Quiet)
         /\ WF_allVars((Created(r) \/ CreateFails(r) \/ Return(r)) /\ Quiet)
         /\ WF_allVars(Read(r))
         /\ WF_allVars(Raises(r) \/ \E v \in Terminal : Returns(r, v))

StreamSpec == StreamInit /\ [][StreamNext]_allVars /\ StreamFairness

-----------------------------------------------------------------------------
(* Properties *)

\* A stream closes on its own run's closing event, never on another run's, and
\* only once that run's generator has classified it; a part of HeardIsStored.
HeardIsVerdict ==
    \A r \in Runs : heard[r] # "none" => verdict[r] # "none" /\ heard[r] \in Closings(verdict[r])

\* What the stream said of a run and what its row says once its task reported
\* success never contradict each other, although the event was published before
\* the row was written; the row may be swept or deleted meanwhile.
HeardIsStored ==
    /\ StreamTypeOK /\ HeardIsVerdict
    /\ \A r \in Runs : heard[r] # "none" /\ done[r] = "ok" =>
         \/ row[r] = "absent"
         \/ heard[r] = "completed" /\ row[r] \in {"completed", "partial"}
         \/ heard[r] = "failed" /\ row[r] \in {"failed", "partial"}

\* The stream of a generator that returned ends, whatever other runs publish,
\* as long as the subscription's queue kept the closing event.
ReturnedStreamEnds ==
    \A r \in Runs : verdict[r] # "none" /\ stream[r] = "open" ~> stream[r] = "closed" \/ r \in lost
=============================================================================
