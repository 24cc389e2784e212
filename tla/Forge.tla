------------------------------- MODULE Forge --------------------------------
(***************************************************************************)
(* One optimization from the button to the row, and back to the tab: the   *)
(* pipeline behind POST /api/optimize and behind the MCP tool, the writes  *)
(* it parks, its response and its events, and the store of the browser     *)
(* tab, which hears of an optimization by four ways: its own stream, the   *)
(* polls that follow a broken one, the event bus, and what it remembers    *)
(* across a reload of the page.                                            *)
(*                                                                         *)
(* The tab's requests are numbered; Mcp is one that somebody makes in an   *)
(* IDE meanwhile. An optimization is named by its trace.                   *)
(*                                                                         *)
(* Sources: services/{pipeline,pipeline_phases,sampling_pipeline,gc,       *)
(* optimization_service}.py, routers/{optimize,history}.py,                *)
(* tools/{optimize,save_result}.py, stores/forge.svelte.ts, api/client.ts, *)
(* routes/app/+page.svelte, components/layout/HistoryPanel.svelte.         *)
(***************************************************************************)
EXTENDS Integers, Sequences

CONSTANTS MaxMade,    \* bound: requests of the tab and of the IDE
          Mcp,        \* the optimization of an IDE
          None,       \* no optimization
          MaxPolls,   \* maxAttempts of reconnect
          Budget      \* bound: breaks, failed writes, lost events, reloads, resets,
                      \* records opened and deleted, pending rows collected, all together

ASSUME ForgeAssumption ==
  /\ MaxMade \in Nat /\ MaxPolls \in Nat \ {0} /\ Budget \in Nat
  /\ Mcp \notin Nat /\ None \notin Nat /\ Mcp # None

Own  == 1..MaxMade
Jobs == Own \cup {Mcp}

VARIABLES
  row,       \* Optimization.status by trace: "none", "pending", "completed", "failed", "gone"
  pc,        \* where the server is with each
  parked,    \* the callbacks in the write queue: <<trace, what>>
  troubled,  \* history: those whose write failed, or whose result could not be built
  errored,   \* history: those whose caller was told "error"
  deleted,   \* history: those whose completed row somebody deleted
  pipe,      \* messages of the tab's stream on their way
  bus,       \* events on their way to the tab
  stream,    \* the request whose response the tab reads
  status, trace, pt, shown,  \* status, traceId, passthroughTraceId, result
  rec,       \* reconnect(): its step, the polls it has left, what it found
  gets,      \* records asked for outside of reconnect
  saving,    \* the passthrough being saved and the server's answer
  last,      \* localStorage: synthesis:last_trace_id
  kept,      \* localStorage: synthesis:passthrough_state
  restoring, \* what restoreSession waits for
  current,   \* history: the tab's last request, None once the user turned away
  made,      \* bound: requests made
  spent      \* bound: how much of Budget is used

server == <<row, pc, parked, troubled, errored>>
memory == <<last, kept>>
page   == <<status, trace, pt, shown>>
aside  == <<rec, gets, saving, restoring>>
ghost  == <<current, made, deleted>>
vars   == <<server, pipe, bus, stream, page, aside, memory, ghost, spent>>

Spend == spent < Budget /\ spent' = spent + 1

-----------------------------------------------------------------------------
(* The server.                                                             *)

\* What a caller is told, if it still listens; the MCP tool forwards what the
\* tab's store has a use for to the bus, and an error to its own caller only.
Say(j, m) ==
  /\ pipe' = IF j = stream THEN pipe \o m ELSE pipe
  /\ bus' = IF j = Mcp /\ m[1] \in {"start", "status"} THEN Append(bus, <<m[1], j>>) ELSE bus

At(j, from, to) == pc[j] = from /\ pc' = [pc EXCEPT ![j] = to]
Park(j, what)   == parked' = parked \cup {<<j, what>>}

\* POST /api/optimize: refused, answered with an assembled prompt for another
\* model once its pending row is stored, or run. The tool is only run.
Admit(j) ==
  /\ \/ At(j, "posted", "run") /\ Say(j, <<"start">>) /\ UNCHANGED parked
     \/ j \in Own /\ At(j, "posted", "prepare") /\ Park(j, "pending") /\ UNCHANGED <<pipe, bus>>
     \/ j \in Own /\ At(j, "posted", "over") /\ Say(j, <<"refused">>) /\ UNCHANGED parked
  /\ UNCHANGED <<row, troubled, errored, stream, page, aside, memory, ghost, spent>>

\* The provider's calls: analyze, then optimize and score.
Phase(j) ==
  /\ At(j, "run", "late") /\ Say(j, <<"status">>)
  /\ UNCHANGED <<row, parked, troubled, errored, stream, page, aside, memory, ghost, spent>>

\* An exception of any phase parks the failed row.
Fail(j) ==
  /\ At(j, "run", "record") \/ At(j, "late", "record")
  /\ Park(j, "failed")
  /\ UNCHANGED <<row, troubled, errored, pipe, bus, stream, page, aside, memory, ghost, spent>>

\* Mutant: the completion is told, and announced, before the row is stored.
PersistUnheard(j) ==
  /\ At(j, "late", "over") /\ Park(j, "completed")
  /\ pipe' = IF j = stream THEN pipe \o <<"complete", "end">> ELSE pipe
  /\ bus' = Append(bus, <<"created", j>>)
  /\ UNCHANGED <<row, troubled, errored, stream, page, aside, memory, ghost, spent>>

\* The result is parked; persist_and_propagate awaits the write.
Persist(j) ==
  /\ At(j, "late", "persist") /\ Park(j, "completed")
  /\ UNCHANGED <<row, troubled, errored, pipe, bus, stream, page, aside, memory, ghost, spent>>

\* persist_and_propagate is answered: the row is announced, the result sent;
\* or the result cannot be built, which fails the run with the row stored.
Finish(j) ==
  /\ \/ /\ At(j, "stored", "over")
        /\ pipe' = IF j = stream THEN pipe \o <<"complete", "end">> ELSE pipe
        /\ bus' = Append(bus, <<"created", j>>)
        /\ UNCHANGED <<parked, troubled, spent>>
     \/ /\ At(j, "stored", "record") /\ Park(j, "failed") /\ Spend
        /\ troubled' = troubled \cup {j}
        /\ bus' = IF j = Mcp THEN bus ELSE Append(bus, <<"created", j>>)
        /\ UNCHANGED pipe
  /\ UNCHANGED <<row, errored, stream, page, aside, memory, ghost>>

\* The client of a streamed run is gone: the task is cancelled where it is, and
\* no handler of an exception runs. A parked write stays parked.
Hangup(j) ==
  /\ j \in Own /\ stream # j
  /\ pc[j] \in {"run", "late", "persist", "stored", "record"} /\ pc' = [pc EXCEPT ![j] = "cut"]
  /\ UNCHANGED <<row, parked, troubled, errored, pipe, bus, stream, page, aside, memory, ghost, spent>>

Announce(e) == bus' = Append(bus, <<e, Mcp>>) /\ UNCHANGED parked

\* The sampling tier: the IDE's own model is called, with the start and the phases
\* told to the bus, the result is parked, and announced when the write is answered.
\* Nobody tells the bus of a failure, whose row has no trace.
Sample ==
  /\ \/ At(Mcp, "posted", "sample") /\ Announce("start")
     \/ At(Mcp, "sample", "sampling") /\ Announce("status")
     \/ At(Mcp, "sampling", "sampled") /\ Park(Mcp, "sampled") /\ UNCHANGED bus
     \/ At(Mcp, "answered", "over") /\ Announce("created")
     \/ \E at \in {"posted", "sample", "sampling"} : At(Mcp, at, "over") /\ UNCHANGED <<parked, bus>>
  /\ UNCHANGED <<row, troubled, errored, pipe, stream, page, aside, memory, ghost, spent>>

\* The passthrough tier of an IDE: its pending row is rolled back as the sampled one
\* is (WriteSampled), so the IDE holds a trace without a row. No event is sent.
Offer ==
  /\ At(Mcp, "posted", "offered")
  /\ UNCHANGED <<row, parked, troubled, errored, pipe, bus, stream, page, aside, memory, ghost, spent>>

-----------------------------------------------------------------------------
(* The write queue: each callback runs once, also if its caller is gone.   *)

Take(j, what) == <<j, what>> \in parked

\* The completed row. A write that fails, stored or not, fails the run.
WriteCompleted(j) ==
  /\ Take(j, "completed")
  /\ \/ /\ row' = [row EXCEPT ![j] = "completed"]
        /\ pc' = [pc EXCEPT ![j] = IF @ = "persist" THEN "stored" ELSE @]
        /\ parked' = parked \ {<<j, "completed">>}
        /\ UNCHANGED <<troubled, spent>>
     \/ /\ Spend
        /\ row' \in {row, [row EXCEPT ![j] = "completed"]}
        /\ troubled' = troubled \cup {j}
        /\ pc' = [pc EXCEPT ![j] = IF @ = "persist" THEN "record" ELSE @]
        /\ parked' = (parked \ {<<j, "completed">>})
                       \cup (IF pc[j] = "persist" THEN {<<j, "failed">>} ELSE {})
  /\ UNCHANGED <<errored, pipe, bus, stream, page, aside, memory, ghost>>

\* The failed row has the identifier of the completed one, and gives way to it
\* unless that was deleted meanwhile.
\* Whether it is stored or not, the caller is told of an error.
WriteFailed(j) ==
  /\ Take(j, "failed") /\ parked' = parked \ {<<j, "failed">>}
  /\ \/ row' = [row EXCEPT ![j] = IF @ \in {"none", "gone"} THEN "failed" ELSE @]
        /\ UNCHANGED spent
     \/ Spend /\ UNCHANGED row
  /\ pc' = [pc EXCEPT ![j] = IF @ = "record" THEN "over" ELSE @]
  /\ errored' = IF pc[j] = "record" THEN errored \cup {j} ELSE errored
  /\ IF pc[j] = "record" THEN Say(j, <<"error", "end">>) ELSE UNCHANGED <<pipe, bus>>
  /\ UNCHANGED <<troubled, stream, page, aside, memory, ghost>>

WritePending(j) ==
  /\ Take(j, "pending") /\ parked' = parked \ {<<j, "pending">>}
  /\ At(j, "prepare", "over")
  /\ \/ row' = [row EXCEPT ![j] = "pending"] /\ Say(j, <<"passthrough", "end">>) /\ UNCHANGED spent
     \/ Spend /\ UNCHANGED row /\ Say(j, <<"refused">>)
  /\ UNCHANGED <<troubled, errored, stream, page, aside, memory, ghost>>

\* passthrough_save and synthesis_save_result: the row is completed and announced.
Completes(j) == /\ row' = [row EXCEPT ![j] = "completed"]
                /\ bus' = Append(bus, <<"created", j>>)

WriteSave(j) ==
  /\ Take(j, "save") /\ parked' = parked \ {<<j, "save">>}
  /\ LET answer(a) == saving' = IF saving = <<j, "asked">> THEN <<j, a>> ELSE saving
     IN  \/ row[j] # "gone" /\ Completes(j) /\ answer("saved") /\ UNCHANGED spent
         \/ row[j] = "gone" /\ answer("refused") /\ UNCHANGED <<row, bus, spent>>
         \/ /\ Spend /\ answer("refused") /\ UNCHANGED bus
            /\ row' \in {row, [row EXCEPT ![j] = IF @ = "gone" THEN @ ELSE "completed"]}
  /\ UNCHANGED <<pc, troubled, errored, pipe, stream, page, rec, gets, restoring, memory, ghost>>

\* The callback of the sampling tier leaves the commit to submit(), which leaves
\* it to the callback: the session is closed, and the insert rolled back.
WriteSampled ==
  /\ Take(Mcp, "sampled") /\ parked' = parked \ {<<Mcp, "sampled">>}
  /\ \/ At(Mcp, "sampled", "answered") /\ UNCHANGED spent
     \/ At(Mcp, "sampled", "over") /\ Spend
  /\ UNCHANGED <<row, troubled, errored, pipe, bus, stream, page, aside, memory, ghost>>

\* synthesis_save_result of a passthrough nobody saved yet, which completes the
\* pending row or, when that was collected or never stored, makes a new one.
SaveElsewhere(j) ==
  /\ \/ row[j] = "pending"
     \/ row[j] = "gone" /\ j \notin deleted
     \/ row[j] = "none" /\ pc[j] = "offered"
  /\ Completes(j)
  /\ UNCHANGED <<pc, parked, troubled, errored, pipe, stream, page, aside, memory, ghost, spent>>

\* _gc_stuck_pending_optimizations, seven days later.
Collect(j) ==
  /\ row[j] = "pending" /\ row' = [row EXCEPT ![j] = "gone"] /\ Spend
  /\ UNCHANGED <<pc, parked, troubled, errored, pipe, bus, stream, page, aside, memory, ghost>>

\* A completed row is deleted, from the history of this tab or by another client.
\* The page forwards the event to the list of the history alone.
Delete(j) ==
  /\ row[j] = "completed" /\ row' = [row EXCEPT ![j] = "gone"] /\ Spend
  /\ deleted' = deleted \cup {j}
  /\ UNCHANGED <<pc, parked, troubled, errored, pipe, bus, stream, page, aside, memory, current, made>>

\* GET /api/optimize/{trace_id} answers with the row, whatever its status, or 404.
Found(j) == row[j] \notin {"none", "gone"}

-----------------------------------------------------------------------------
(* The tab.                                                                *)

\* analyzing, optimizing or scoring, by the request's own events or by the IDE's.
AtWork == {"working", "following"}

Idle == [step |-> "off", left |-> 0, found |-> None]

\* loadFromRecord, with _saveSession.
Load(j) ==
  /\ shown' = j /\ status' = "complete"
  /\ last' = j /\ kept' = None
  /\ UNCHANGED <<trace, pt>>

\* forge(): the button offers it unless the tab is at work.
Start ==
  /\ status \notin AtWork /\ made < MaxMade /\ made' = made + 1
  /\ current' = made'
  /\ stream' = made' /\ pipe' = <<>> /\ pc' = [pc EXCEPT ![made'] = "posted"]
  /\ status' = "working" /\ trace' = None /\ pt' = None /\ shown' = None
  /\ UNCHANGED <<row, parked, troubled, errored, bus, aside, memory, deleted, spent>>

\* The tool call of an IDE.
StartElsewhere ==
  /\ At(Mcp, "idle", "posted") /\ made < MaxMade /\ made' = made + 1
  /\ UNCHANGED <<row, parked, troubled, errored, pipe, bus, stream, page, aside, memory, current,
                 deleted, spent>>

\* reconnect() begins, unless it is under way or has nothing to ask for.
Reconnect ==
  rec' = IF trace # None /\ rec.step = "off"
         THEN [step |-> "asleep", left |-> MaxPolls, found |-> None] ELSE rec

\* Mutant: the error is left to reconnect(), also where there is no trace to ask for.
StreamFailsQuietly ==
  /\ stream' = None /\ UNCHANGED status
  /\ IF pt = None THEN Reconnect ELSE UNCHANGED rec
  /\ UNCHANGED <<trace, pt, shown, memory>>

\* onError of optimizeSSE.
StreamFails ==
  /\ stream' = None /\ status' = "error"
  /\ IF pt = None THEN Reconnect ELSE UNCHANGED rec
  /\ UNCHANGED <<trace, pt, shown, memory>>

\* onComplete.
StreamEnds ==
  /\ stream' = None
  /\ IF status \in {"complete", "error", "passthrough"} THEN UNCHANGED <<status, rec>>
     ELSE IF trace # None THEN Reconnect /\ UNCHANGED status
     ELSE status' = (IF pt # None THEN "error" ELSE status) /\ UNCHANGED rec
  /\ UNCHANGED <<trace, pt, shown, memory>>

\* Mutant: a passthrough is not remembered.
RememberNot(j) == UNCHANGED memory

\* _saveSession: a result is remembered before a passthrough is.
Remember(j) ==
  IF shown # None THEN last' = shown /\ kept' = None ELSE kept' = j /\ UNCHANGED last

\* handleEvent for the tab's own stream, and the callbacks at its end.
Receive ==
  /\ pipe # <<>> /\ pipe' = Tail(pipe)
  /\ LET m == Head(pipe)
     IN  \/ m = "start" /\ trace' = stream /\ UNCHANGED <<status, pt, shown, memory, stream, rec>>
         \/ m = "status" /\ status' = "working" /\ UNCHANGED <<trace, pt, shown, memory, stream, rec>>
         \/ m = "error" /\ status' = "error" /\ UNCHANGED <<trace, pt, shown, memory, stream, rec>>
         \/ m = "complete" /\ Load(stream) /\ UNCHANGED <<stream, rec>>
         \/ /\ m = "passthrough" /\ pt' = stream /\ status' = "passthrough" /\ Remember(stream)
            /\ UNCHANGED <<trace, shown, stream, rec>>
         \/ m = "end" /\ StreamEnds
         \/ m = "refused" /\ StreamFails
  /\ UNCHANGED <<server, bus, gets, saving, restoring, ghost, spent>>

\* The connection breaks.
Break ==
  /\ stream # None /\ Spend /\ pipe' = <<>>
  /\ StreamFails
  /\ UNCHANGED <<server, bus, gets, saving, restoring, ghost>>

\* reconnect(): two seconds, and the record of whatever traceId is now.
Poll ==
  /\ rec.step = "asleep"
  /\ rec' = [rec EXCEPT !.step = "asked",
                        !.found = IF trace # None /\ row[trace] = "completed" THEN trace ELSE None]
  /\ UNCHANGED <<server, pipe, bus, stream, page, gets, saving, restoring, memory, ghost, spent>>

\* The end of the loop.
GiveUp ==
  /\ status' = IF status \in {"complete", "idle"} THEN status ELSE "error"
  /\ UNCHANGED <<trace, pt, shown>>

PollAnswered ==
  /\ rec.step = "asked"
  /\ \/ rec.found # None /\ Load(rec.found) /\ rec' = Idle /\ UNCHANGED spent
     \/ /\ \/ rec.found = None /\ UNCHANGED spent
           \/ rec.found # None /\ Spend
        /\ IF rec.left = 1 \/ status \in {"idle", "complete"}
           THEN rec' = Idle /\ GiveUp
           ELSE rec' = [step |-> "asleep", left |-> rec.left - 1, found |-> None] /\ UNCHANGED page
        /\ UNCHANGED memory
  /\ UNCHANGED <<server, pipe, bus, stream, gets, saving, restoring, ghost>>

\* The page's listener to the bus: handleExternalEvent and the auto-load.
Hear ==
  /\ bus # <<>> /\ bus' = Tail(bus)
  /\ LET e == Head(bus)
     IN  \/ e[1] = "start" /\ trace' = e[2] /\ UNCHANGED <<status, gets>>
         \/ /\ e[1] = "status" /\ UNCHANGED <<trace, gets>>
            /\ status' = IF trace \in {None, e[2]} THEN "following" ELSE status
         \/ /\ e[1] = "created" /\ UNCHANGED <<status, trace>>
            /\ gets' = IF status # "complete" /\ shown # e[2] THEN gets \cup {<<e[2], "auto">>} ELSE gets
  /\ UNCHANGED <<server, pipe, stream, pt, shown, rec, saving, restoring, memory, ghost, spent>>

LoseEvent ==
  /\ bus # <<>> /\ bus' = Tail(bus) /\ Spend
  /\ UNCHANGED <<server, pipe, stream, page, aside, memory, ghost>>

\* A record asked for by the auto-load is shown if it is there, unless a result is
\* shown by then; one the user asked for is shown in any case, unless it is gone.
GetAnswered(j, why) ==
  /\ <<j, why>> \in gets /\ gets' = gets \ {<<j, why>>}
  /\ \/ /\ IF why = "opened" THEN Found(j) ELSE row[j] = "completed" /\ status # "complete"
        /\ Load(j) /\ UNCHANGED spent
     \/ /\ why = "auto" /\ (row[j] # "completed" \/ status = "complete")
        /\ UNCHANGED <<page, memory, spent>>
     \/ /\ why = "opened" /\ (Spend \/ (~Found(j) /\ UNCHANGED spent))
        /\ status' = "idle" /\ UNCHANGED <<trace, pt, shown, memory>>
  /\ UNCHANGED <<server, pipe, bus, stream, rec, saving, restoring, ghost>>

\* The user opens a record of the history; work under way is cancelled first.
Abandon == stream' = None /\ pipe' = <<>> /\ trace' = None /\ pt' = None /\ status' = "idle"

Open(j) ==
  /\ row[j] = "completed" /\ Spend /\ current' = None
  /\ gets' = gets \cup {<<j, "opened">>}
  /\ IF status \in AtWork \cup {"passthrough"} THEN Abandon
     ELSE UNCHANGED <<stream, pipe, trace, pt, status>>
  /\ UNCHANGED <<server, bus, shown, rec, saving, restoring, memory, made, deleted>>

Cancel ==
  /\ status \in AtWork \cup {"passthrough"} /\ Abandon /\ current' = None
  /\ UNCHANGED <<server, bus, shown, aside, memory, made, deleted, spent>>

\* reset(): a new prompt.
Reset ==
  /\ Spend /\ Abandon /\ current' = None
  /\ shown' = None /\ kept' = None
  /\ UNCHANGED <<server, bus, aside, last, made, deleted>>

Dismiss ==
  /\ status = "error" /\ status' = "idle" /\ current' = None
  /\ UNCHANGED <<server, pipe, bus, stream, trace, pt, shown, aside, memory, made,
                 deleted, spent>>

\* submitPassthrough: the row is looked up before the save is parked.
Save ==
  /\ status = "passthrough" /\ pt # None /\ saving = None
  /\ \/ row[pt] # "gone" /\ Park(pt, "save") /\ saving' = <<pt, "asked">>
     \/ row[pt] = "gone" /\ saving' = <<pt, "refused">> /\ UNCHANGED parked
  /\ UNCHANGED <<row, pc, troubled, errored, pipe, bus, stream, page, rec, gets, restoring, memory,
                 ghost, spent>>

\* The row is read once more for the answer, which fails if it is deleted by then.
SaveAnswered ==
  /\ saving # None /\ saving[2] # "asked" /\ saving' = None
  /\ \/ saving[2] = "saved" /\ Load(saving[1])
     \/ /\ saving[2] = "refused" \/ ~Found(saving[1])
        /\ status' = "error" /\ UNCHANGED <<trace, pt, shown, memory>>
  /\ UNCHANGED <<server, pipe, bus, stream, rec, gets, restoring, ghost, spent>>

\* The page is loaded again: restoreSession asks for what is remembered.
Reload ==
  /\ Spend /\ current' = None
  /\ stream' = None /\ pipe' = <<>> /\ bus' = <<>>
  /\ status' = "idle" /\ trace' = None /\ pt' = None /\ shown' = None
  /\ rec' = Idle /\ gets' = {} /\ saving' = None
  /\ restoring' = IF last # None THEN <<last, "result">>
                  ELSE IF kept # None THEN <<kept, "passthrough">> ELSE None
  /\ UNCHANGED <<server, memory, made, deleted>>

Forget == last' = None /\ kept' = None

\* The answer, whatever the tab has begun meanwhile: a result is shown, and so is
\* a passthrough completed by now; any other passthrough is offered again. If the
\* result is gone or the answer an error, a toast says so, and all that is
\* remembered goes, a passthrough begun meanwhile included.
Restored ==
  /\ restoring # None /\ restoring' = None
  /\ LET j == restoring[1]
         result == restoring[2] = "result"
     IN  \/ /\ IF result THEN Found(j) ELSE row[j] = "completed"
            /\ Load(j) /\ UNCHANGED <<current, spent>>
         \/ /\ ~result
            /\ \/ row[j] # "completed" /\ UNCHANGED spent
               \/ row[j] = "completed" /\ Spend
            /\ pt' = j /\ status' = "passthrough" /\ UNCHANGED <<trace, shown, memory, current>>
         \/ /\ result /\ (Spend \/ (~Found(j) /\ UNCHANGED spent))
            /\ Forget /\ current' = None /\ UNCHANGED page
  /\ UNCHANGED <<server, pipe, bus, stream, rec, gets, saving, made, deleted>>

-----------------------------------------------------------------------------
Init ==
  /\ row = [j \in Jobs |-> "none"] /\ pc = [j \in Jobs |-> "idle"]
  /\ parked = {} /\ troubled = {} /\ errored = {} /\ deleted = {}
  /\ pipe = <<>> /\ bus = <<>> /\ stream = None
  /\ status = "idle" /\ trace = None /\ pt = None /\ shown = None
  /\ rec = Idle /\ gets = {} /\ saving = None /\ restoring = None
  /\ last = None /\ kept = None /\ current = None /\ made = 0 /\ spent = 0

Task(j)  == \/ Admit(j) \/ Phase(j) \/ Fail(j) \/ Persist(j) \/ Finish(j)
            \/ j = Mcp /\ (Sample \/ Offer)
Write(j) == \/ WriteCompleted(j) \/ WriteFailed(j) \/ WritePending(j) \/ WriteSave(j)
            \/ j = Mcp /\ WriteSampled
User     == Start \/ Cancel \/ Reset \/ Dismiss \/ Save \/ Reload \/ \E j \in Jobs : Open(j)
Answers  == \/ PollAnswered \/ SaveAnswered \/ Restored
            \/ \E j \in Jobs, why \in {"auto", "opened"} : GetAnswered(j, why)

Next ==
  \/ \E j \in Jobs : Task(j) \/ Write(j) \/ Hangup(j) \/ SaveElsewhere(j) \/ Collect(j) \/ Delete(j)
  \/ User \/ StartElsewhere \/ Receive \/ Break \/ Poll \/ Hear \/ LoseEvent \/ Answers

\* The server goes on with what it has begun, and what is on its way to the tab
\* arrives: messages, events, timers, answers.
Serves   == \E j \in Jobs : Task(j) \/ Write(j)
Arrives  == Receive \/ Poll \/ Hear \/ Answers
Fairness == WF_vars(Serves) /\ WF_vars(Arrives)

Spec == Init /\ [][Next]_vars /\ Fairness

-----------------------------------------------------------------------------
(* Properties.                                                             *)

TypeOK ==
  /\ row \in [Jobs -> {"none", "pending", "completed", "failed", "gone"}]
  /\ pc \in [Jobs -> {"idle", "posted", "run", "late", "prepare", "persist", "stored", "record",
                      "sample", "sampling", "sampled", "answered", "offered", "over", "cut"}]
  /\ parked \subseteq Jobs \X {"pending", "completed", "failed", "save", "sampled"}
  /\ troubled \cup errored \cup deleted \subseteq Jobs
  /\ status \in AtWork \cup {"idle", "complete", "error", "passthrough"}
  /\ {trace, shown, last} \subseteq Jobs \cup {None} /\ {pt, kept, stream} \subseteq Own \cup {None}
  /\ rec.step \in {"off", "asleep", "asked"} /\ rec.left \in 0..MaxPolls
  /\ current \in Own \cup {None} /\ made \in 0..MaxMade /\ spent \in 0..Budget

\* Those whose row is completed, or was until somebody deleted it.
Stored == {j \in Jobs : row[j] = "completed"} \cup deleted

\* What is shown as complete is stored as completed, whichever of the ways it
\* came by, unless somebody deleted it since (nothing takes it from the tab); so
\* is what a reload asks for; and whoever was told of an error has no completed
\* row, unless the write queue or the result's own building failed.
TruthTold ==
  /\ TypeOK
  /\ status = "complete" => shown \in Stored
  /\ last # None => last \in Stored
  /\ \A j \in errored : row[j] = "completed" => j \in troubled

\* What is announced as completed is stored.
AnnouncedStored ==
  \A i \in DOMAIN bus : bus[i][1] = "created" => bus[i][2] \in Stored

\* What the tab shows for its own request is what a reload asks for: a result is
\* the one remembered, a passthrough is remembered unless a result came before it.
\* (Whether a result is still there to be found is TruthTold's question.)
Recoverable ==
  /\ status = "complete" /\ current # None => last = shown
  /\ status = "passthrough" /\ pt = current => kept = pt \/ shown # None

\* The tab never stays at work on a request of its own, although its stream
\* breaks or is refused, reconnect() is shared by all requests, and events of an
\* IDE change the trace it follows and the status it shows: it comes to rest, and
\* not only by taking up the work of the IDE in its stead. (At work for an IDE it
\* may stay: nobody tells it of an optimization that failed there, and one of the
\* sampling tier is announced without a row to load.)
WorkEnds == status = "working" ~> status \notin AtWork

=============================================================================
