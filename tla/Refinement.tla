----------------------------- MODULE Refinement -----------------------------
(***************************************************************************)
(* One result is refined turn by turn. A request reads the branch it goes  *)
(* on, calls the provider without a session and writes the turn through    *)
(* the write queue; the first one seeds a branch with the result itself. A *)
(* rollback forks a branch that begins with a copy of an older turn. The   *)
(* store of the tab that shows the result follows its request by the       *)
(* stream, hears of every stored turn by an event, and polls the list when *)
(* its stream has ended.                                                   *)
(*                                                                         *)
(* Sources: tools/refine.py, services/refinement_service.py,               *)
(* services/refinement_context.py, routers/refinement.py, models.py,       *)
(* services/optimization_service.py, stores/refinement.svelte.ts,          *)
(* api/client.ts, routes/app/+page.svelte.                                 *)
(***************************************************************************)
EXTENDS Integers, FiniteSets

CONSTANTS Requests,   \* bound: requests to refine, by the tab or over MCP
          Forks,      \* requests to roll back, each made once
          MaxPolls,   \* bound: polls of a recovery (ten in the code)
          MaxFaults   \* bound: failures

ASSUME RefinementAssumption ==
  Requests \in Nat /\ IsFiniteSet(Forks) /\ MaxPolls \in Nat \ {0} /\ MaxFaults \in Nat

VARIABLES
  gone,      \* the optimization was deleted
  branches,  \* rows of refinement_branches; ids in order of creation
  turns,     \* rows of refinement_turns
  born,      \* branches ever created
  task,      \* each request, numbered as they are made: its step and what it read
  fork,      \* each rollback: its step and the turn it copies
  tab,       \* the store: activeBranchId, status, turns
  stream,    \* the tab's request, how its stream stands, the branch it asked for
  rec,       \* attemptRecovery: polls left and prevCount
  gets,      \* GETs of the list of turns that have not arrived
  news,      \* requests whose refinement_turn event has not arrived
  faults,    \* how many failures there were
  raced,     \* history: branches two requests went on from at once; 0 when two seeded
  crossed    \* history: an older list arrived after a newer one

rows == <<gone, branches, turns, born>>
client == <<tab, stream, rec, gets, crossed>>
vars == <<rows, task, fork, client, news, faults, raced>>

Tasks == 1 .. Requests
NoBranch == 0
NoStream == [of |-> 0, is |-> "closed", branch |-> NoBranch]
NoRec == [left |-> 0, prev |-> 0]
Blank == [pc |-> "new", on |-> NoBranch, web |-> FALSE, cut |-> FALSE, version |-> 0, base |-> 0]

Fault == faults < MaxFaults /\ faults' = faults + 1

On(b) == {t \in turns : t.branch = b}
\* Mutant: the oldest turn, for want of a descending order.
Oldest(S) == {t \in S : \A u \in S : t.version <= u.version}
Latest(S) == {t \in S : \A u \in S : u.version <= t.version}

\* The requests, other than k, that have read branch b and not written.
Reading(k, b) == {j \in Tasks \ {k} : task[j].pc = "llm" /\ task[j].on = b}
Seeding(k) == {j \in Tasks \ {k} : task[j].pc = "seed"}

Moves(k, step) == task' = [task EXCEPT ![k].pc = step]
Ends(k, step) == task' = [task EXCEPT ![k] = [Blank EXCEPT !.pc = step]]

-----------------------------------------------------------------------------
(* handle_refine *)

Asks(k, b, web) ==
  /\ \A j \in Tasks : task[j].pc = "new" <=> j >= k
  /\ task' = [task EXCEPT ![k] = [Blank EXCEPT !.pc = "check", !.on = b, !.web = web]]

\* A tool call over MCP names a branch or none.
AskMcp(k) ==
  /\ \E b \in {NoBranch} \cup {r.id : r \in branches} : Asks(k, b, FALSE)
  /\ UNCHANGED <<rows, fork, client, news, faults, raced>>

\* Read session 1: is there an optimization, and is it refined for the first time?
Check(k) ==
  /\ task[k].pc = "check"
  /\ IF gone THEN Ends(k, "error") ELSE Moves(k, IF turns = {} THEN "seed" ELSE "read")
  /\ raced' = IF ~gone /\ turns = {} /\ Seeding(k) # {} THEN raced \cup {0} ELSE raced
  /\ UNCHANGED <<rows, fork, client, news, faults>>

AddBranch(parent, at) ==
  /\ born' = born + 1
  /\ branches' = branches \cup {[id |-> born + 1, parent |-> parent, at |-> at]}

Refused == gone

\* The queue's worker runs a write whether or not its caller still waits.
Resumes(k, step) ==
  IF task[k].cut THEN Ends(k, "cut") ELSE IF step = "error" THEN Ends(k, step) ELSE Moves(k, step)

\* The branch and its first turn, the result itself, in one commit.
Seed(k) ==
  /\ task[k].pc = "seed" /\ ~Refused
  /\ AddBranch(NoBranch, 0)
  /\ turns' = turns \cup {[branch |-> born + 1, version |-> 1, parent |-> 0, text |-> 0, of |-> 0]}
  /\ IF task[k].cut THEN Ends(k, "cut")
     ELSE task' = [task EXCEPT ![k].pc = "read",
                               ![k].on = IF @ = NoBranch THEN born + 1 ELSE @]
  /\ UNCHANGED <<gone, fork, client, news, faults, raced>>

\* Read session 2: the branch asked for, the one just seeded, or the latest one.
ResolvedBranch(b) ==
  {r \in branches : IF b # NoBranch THEN r.id = b ELSE \A s \in branches : s.id <= r.id}

\* Mutant: the latest turn of the optimization, whatever its branch.
LatestAnywhere(b) == Latest(turns)
LatestTurn(b) == Latest(On(b))

Read(k) ==
  /\ task[k].pc = "read"
  /\ \/ /\ ResolvedBranch(task[k].on) = {}
        /\ Ends(k, "error") /\ UNCHANGED raced
     \/ \E r \in ResolvedBranch(task[k].on) : \E t \in LatestTurn(r.id) :
          /\ task' = [task EXCEPT ![k].pc = "llm", ![k].on = r.id,
                                  ![k].version = t.version, ![k].base = t.text]
          /\ raced' = IF Reading(k, r.id) # {} THEN raced \cup {r.id} ELSE raced
  /\ UNCHANGED <<rows, fork, client, news, faults>>

\* The gathering of the context, or one of four calls of the provider.
Fails(k) ==
  /\ task[k].pc \in {"read", "llm"} /\ ~task[k].cut
  /\ Ends(k, "error")
  /\ UNCHANGED <<rows, fork, client, news, faults, raced>>

\* The provider answered, and the queue's worker has come to the write. The
\* version is counted from what was read before, and no constraint keeps two
\* turns of a branch apart.
Persist(k) ==
  /\ task[k].pc = "llm" /\ ~Refused
  /\ turns' = turns \cup {[branch |-> task[k].on, version |-> task[k].version + 1,
                           parent |-> task[k].version, text |-> k, of |-> task[k].base]}
  /\ Resumes(k, "notify")
  /\ UNCHANGED <<gone, branches, born, fork, client, news, faults, raced>>

WriteRefused(k) ==
  /\ task[k].pc \in {"seed", "llm"} /\ Refused
  /\ Resumes(k, "error")
  /\ UNCHANGED <<rows, fork, client, news, faults, raced>>

\* One attempt to publish, whose failure is only logged.
Notify(k) ==
  /\ task[k].pc = "notify"
  /\ \/ news' = news \cup {k} /\ UNCHANGED faults
     \/ UNCHANGED news /\ Fault
  /\ Ends(k, "told")
  /\ UNCHANGED <<rows, fork, client, raced>>

\* The tab gave the stream up: the request may be cancelled at any await, and
\* leaves a write that is in the queue to the worker.
Cut(k) ==
  /\ task[k].web /\ ~task[k].cut /\ ~(stream.of = k /\ stream.is = "open")
  /\ \/ task[k].pc \in {"check", "read", "llm", "notify"} /\ Ends(k, "cut")
     \/ task[k].pc \in {"seed", "llm"} /\ task' = [task EXCEPT ![k].cut = TRUE]
  /\ UNCHANGED <<rows, fork, client, news, faults, raced>>

-----------------------------------------------------------------------------
(* Rollback, and deletion. *)

\* Any turn of the version: versions are looked up across the branches.
Rollback(f) ==
  /\ fork[f].pc = "new"
  /\ \E t \in turns : fork' = [fork EXCEPT ![f] = [pc |-> "write", src |-> t]]
  /\ UNCHANGED <<rows, task, client, news, faults, raced>>

BeginsWith(b, t) == turns \cup {[t EXCEPT !.branch = b, !.version = 1, !.parent = 0, !.of = 0]}

PersistFork(f) ==
  /\ fork[f].pc = "write"
  /\ fork' = [fork EXCEPT ![f] = [pc |-> "over", src |-> "none"]]
  /\ LET t == fork[f].src IN
     IF Refused THEN UNCHANGED rows
     ELSE /\ AddBranch(t.branch, t.version)
          /\ turns' = BeginsWith(born + 1, t)
          /\ UNCHANGED gone
  /\ UNCHANGED <<task, client, news, faults, raced>>

\* The foreign keys take the branches and the turns along.
Delete ==
  /\ ~gone /\ gone' = TRUE
  /\ branches' = {} /\ turns' = {}
  /\ UNCHANGED <<born, task, fork, client, news, faults, raced>>

-----------------------------------------------------------------------------
(* The store of the tab. *)

\* init(), with its answer: the user opens the result, and then stays on it.
Open ==
  /\ ~gone /\ stream.of = 0
  /\ IF turns = {} THEN tab' = [tab EXCEPT !.list = {}, !.status = "idle"]
     ELSE \E t \in Latest(turns) : tab' = [branch |-> t.branch, list |-> turns, status |-> "idle"]
  /\ UNCHANGED <<rows, task, fork, stream, rec, gets, news, faults, raced, crossed>>

\* A GET holds what the server read when it was asked; what is open is the
\* time of its arrival. There is none to read once the optimization is deleted.
Get(kind, b, ok) ==
  gets' = gets \cup {[kind |-> kind, branch |-> b, ok |-> ok /\ ~gone,
                      got |-> IF ok THEN turns ELSE {}]}

\* refine(): the chips under the list can be clicked while another request runs.
Refine(k) ==
  /\ Asks(k, tab.branch, TRUE)
  /\ tab' = [tab EXCEPT !.status = "refining"]
  /\ stream' = [of |-> k, is |-> "open", branch |-> tab.branch]
  /\ rec' = NoRec /\ gets' = {g \in gets : g.kind # "poll"}
  /\ UNCHANGED <<rows, fork, news, faults, raced, crossed>>

Recovers == rec' = [left |-> MaxPolls, prev |-> Cardinality(tab.list)]

\* The stream told of its turn and ended: no event of it is one the store knows.
StreamEnds ==
  /\ stream.is = "open" /\ task[stream.of].pc = "told"
  /\ stream' = [stream EXCEPT !.is = "ended"]
  /\ IF tab.status = "error" THEN UNCHANGED rec ELSE Recovers
  /\ UNCHANGED <<rows, task, fork, tab, gets, news, faults, raced, crossed>>

StreamErrs ==
  /\ stream.is = "open" /\ task[stream.of].pc = "error"
  /\ stream' = [stream EXCEPT !.is = "closed"]
  /\ tab' = [tab EXCEPT !.status = "error"]
  /\ UNCHANGED <<rows, task, fork, rec, gets, news, faults, raced, crossed>>

StreamBreaks ==
  /\ stream.is = "open" /\ Fault
  /\ stream' = [stream EXCEPT !.is = "closed"]
  /\ tab' = [tab EXCEPT !.status = "error"]
  /\ Recovers
  /\ UNCHANGED <<rows, task, fork, gets, news, raced, crossed>>

\* Every two seconds.
Poll ==
  /\ rec.left > 0 /\ ~\E g \in gets : g.kind = "poll"
  /\ \/ Get("poll", stream.branch, TRUE) /\ UNCHANGED faults
     \/ Get("poll", stream.branch, FALSE) /\ Fault
  /\ UNCHANGED <<rows, task, fork, tab, stream, rec, news, raced, crossed>>

\* A GET that fails leaves what an event that was lost leaves: nothing.
Hear(k) ==
  /\ k \in news /\ news' = news \ {k}
  /\ Get("reload", tab.branch, TRUE)
  /\ UNCHANGED <<rows, task, fork, tab, stream, rec, faults, raced, crossed>>

Arrives(g, kind) == g \in gets /\ g.kind = kind /\ gets' = gets \ {g}

Shows(g) == [tab EXCEPT !.list = g.got, !.branch = IF g.branch # NoBranch THEN g.branch ELSE @]

ReloadAnswered(g) ==
  /\ Arrives(g, "reload")
  /\ crossed' = (crossed \/ (g.ok /\ ~(tab.list \subseteq g.got)))
  /\ tab' = IF g.ok THEN Shows(g) ELSE tab
  /\ UNCHANGED <<rows, task, fork, stream, rec, news, faults, raced>>

\* Mutant: two new turns are waited for, as if each request also seeded one.
PollFindsTwo(g) == g.ok /\ Cardinality(g.got) > rec.prev + 1
PollFinds(g) == g.ok /\ Cardinality(g.got) > rec.prev

PollLess ==
  /\ rec' = [rec EXCEPT !.left = @ - 1]
  /\ tab' = IF rec.left > 1 THEN tab ELSE [tab EXCEPT !.status = "error"]

PollAnswered(g) ==
  /\ Arrives(g, "poll")
  /\ IF PollFinds(g) THEN tab' = [Shows(g) EXCEPT !.status = "complete"] /\ rec' = NoRec
                     ELSE PollLess
  /\ UNCHANGED <<rows, task, fork, stream, news, faults, raced, crossed>>

-----------------------------------------------------------------------------
Init ==
  /\ gone = FALSE /\ branches = {} /\ turns = {} /\ born = 0
  /\ task = [k \in Tasks |-> Blank]
  /\ fork = [f \in Forks |-> [pc |-> "new", src |-> "none"]]
  /\ tab = [branch |-> NoBranch, status |-> "idle", list |-> {}]
  /\ stream = NoStream /\ rec = NoRec /\ gets = {} /\ news = {}
  /\ faults = 0 /\ raced = {} /\ crossed = FALSE

TaskStep(k) ==
  Check(k) \/ Seed(k) \/ Read(k) \/ Fails(k) \/ Persist(k) \/ WriteRefused(k) \/ Notify(k)

TabStep ==
  StreamEnds \/ StreamErrs \/ Poll \/ \E g \in gets : ReloadAnswered(g) \/ PollAnswered(g)

Next ==
  \/ \E k \in Tasks : TaskStep(k) \/ Cut(k) \/ Refine(k) \/ Hear(k) \/ AskMcp(k)
  \/ \E f \in Forks : Rollback(f) \/ PersistFork(f)
  \/ Delete \/ Open \/ StreamBreaks \/ TabStep

\* The event loop goes on with a request, the provider answers or fails, the
\* browser sees the end of a stream, wakes its timer and gets its answers. What
\* each of them has to do is finite, so none is kept waiting by the others.
Fairness == WF_vars(TabStep \/ \E k \in Tasks : TaskStep(k))

Spec == Init /\ [][Next]_vars /\ Fairness

-----------------------------------------------------------------------------
Steps == {"new", "check", "seed", "read", "llm", "notify", "told", "error", "cut"}
Ids == 0 .. Requests + Cardinality(Forks)

\* Every variable has its type.
TypeOK ==
  /\ gone \in BOOLEAN /\ born \in Ids /\ raced \subseteq Ids /\ crossed \in BOOLEAN
  /\ \A b \in branches : b.id \in 1 .. born /\ b.parent \in 0 .. born /\ b.at \in 0 .. Requests + 1
  /\ \A t \in turns : t.branch \in 1 .. born /\ t.version \in 1 .. Requests + 1 /\ t.text \in 0 .. Requests
  /\ \A k \in Tasks : task[k].pc \in Steps /\ task[k].on \in Ids /\ task[k].cut \in BOOLEAN
  /\ \A f \in Forks : fork[f].pc \in {"new", "write", "over"}
  /\ tab.branch \in Ids /\ tab.status \in {"idle", "refining", "complete", "error"}
  /\ stream.of \in 0 .. Requests /\ stream.is \in {"open", "ended", "closed"}
  /\ rec.left \in 0 .. MaxPolls /\ rec.prev \in Nat
  /\ \A g \in gets : g.kind \in {"reload", "poll"} /\ g.ok \in BOOLEAN
  /\ news \subseteq Tasks /\ faults \in 0 .. MaxFaults

\* A turn was made from the turn its parent_version names on its own branch,
\* whatever was seeded, forked or stored meanwhile; a part of RowsSound. The parent is read before
\* the calls of the provider and the turn written after them
\* (tools/refine.py:127-145, 372-388).
Lineage ==
  \A t \in turns : t.parent # 0 =>
    /\ t.version = t.parent + 1
    /\ \E u \in On(t.branch) : u.version = t.parent /\ u.text = t.of

\* A branch begins with one turn of its own, and one that was forked with a
\* copy of the version it was forked at: a request that finds the branch finds
\* a turn to go on from; a part of RowsSound (refinement_service.py:516-524, routers/
\* refinement.py:181-201).
BranchesBegin ==
  \A b \in branches : \E t \in On(b.id) :
    /\ {u \in On(b.id) : u.parent = 0} = {t} /\ t.version = 1
    /\ b.parent # NoBranch => \E u \in On(b.parent) : u.version = b.at /\ u.text = t.text

\* Turns descend from what they were made from, branches begin, and a deleted
\* optimization leaves no turn and no branch, not even by a write that waited
\* in the queue when it was deleted, or whose client has gone (models.py:487-513,
\* optimization_service.py:454-463).
RowsSound == TypeOK /\ Lineage /\ BranchesBegin /\ (gone => branches = {} /\ turns = {})

\* The versions of a branch are 1, 2, 3, ..., each once unless two requests
\* went on from it at a time; and one branch has no parent unless two requests
\* seeded one at a time (refinement_service.py:579-580 calls branch_id + version
\* the unique key of turns; the table has none).
Numbered ==
  /\ \A b \in branches :
       LET versions == {t.version : t \in On(b.id)} IN
       /\ versions = 1 .. Cardinality(versions)
       /\ b.id \notin raced => Cardinality(On(b.id)) = Cardinality(versions)
  /\ 0 \notin raced => Cardinality({b \in branches : b.parent = NoBranch}) <= 1

Own == stream.is = "ended" /\ ~gone /\ ~crossed
Listed == \E t \in tab.list : t.text = stream.of

\* The tab does not go on refining for ever, with its input disabled, whatever
\* becomes of the stream; and a turn whose request ran to the end of its stream
\* comes to be listed, its event lost or not, unless the user asks again or
\* deletes the optimization, or the answer of an older reload comes last
\* (refinement.svelte.ts:79-127, 212-248).
OwnTurnListed ==
  /\ (tab.status = "refining") ~> (tab.status # "refining")
  /\ Own ~> (Listed \/ ~Own)
=============================================================================
