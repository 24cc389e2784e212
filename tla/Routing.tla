------------------------------ MODULE Routing ------------------------------
(***************************************************************************)
(* Whether an MCP client is there and whether it can sample: what the MCP  *)
(* server learns from requests and streams, what its RoutingManager tells  *)
(* the backend and when it holds its tongue, the session file both keep an *)
(* eye on, and the loops that give up on a silent client or find it again. *)
(*                                                                         *)
(* Time is three ages: under a minute, under five, older. A request is one *)
(* step: nothing in it awaits between its reads and its writes.            *)
(*                                                                         *)
(* Sources: services/routing.py, services/mcp_session_file.py,             *)
(* mcp_server.py, routers/events.py, services/event_notification.py.       *)
(***************************************************************************)
EXTENDS Integers, FiniteSets, Sequences, SequencesExt

CONSTANTS Bridges,     \* clients that declare sampling
          Plain,       \* clients that do not
          MaxOut,      \* bound: notifications on their way
          MaxTimers,   \* bound: deferred broadcasts that have not ended
          MaxFaults    \* bound: notifications lost, processes restarted

ASSUME RoutingAssumption ==
  /\ IsFiniteSet(Bridges \cup Plain) /\ Bridges \cap Plain = {}
  /\ {MaxOut, MaxTimers} \subseteq Nat \ {0} /\ MaxFaults \in Nat

Clients == Bridges \cup Plain

VARIABLES
  mcp,         \* the manager of the MCP server, its notifications and the file
  backend,     \* the manager of the backend
  open,        \* clients with an SSE stream: _active_sse_streams
  registered,  \* _sampling_session_ids
  streams,     \* _sampling_sse_sessions
  heard,       \* history: a bridge spoke since the last bridge's stream closed
  spent        \* history: how much of MaxFaults is used

vars == <<mcp, backend, open, registered, streams, heard, spent>>

Fresh == 0
Minute == 1   \* older than the 60 s of the disconnect loop
Stale == 2    \* older than MCP_ACTIVITY_STALENESS_SECONDS

Caps == {"yes", "no", "unknown"}
NoFile == [there |-> FALSE, cap |-> FALSE, streams |-> "absent", last |-> Stale]
\* Nobody reads the time of the last activity of a client that is away.
Away == [conn |-> FALSE, cap |-> "unknown", last |-> Stale]

\* `handle' says whether _pending_disconnect_task is set; `asleep' and `dying' count
\* the deferred broadcasts that sleep and those that are cancelled but have not run.
\* `told' is the last thing said, `leaked' whether it was said within a debounce.
NewManager == [conn |-> FALSE, cap |-> "unknown", last |-> Stale, handle |-> FALSE,
               asleep |-> 0, dying |-> 0, pre |-> "unknown", file |-> NoFile,
               out |-> <<>>, told |-> <<>>, leaked |-> FALSE]

Fault == spent < MaxFaults /\ spent' = spent + 1

-----------------------------------------------------------------------------
(* RoutingManager of the MCP server: each operator is a method.            *)

Payload(m) == <<m.conn, m.cap>>

Broadcast(m) == [m EXCEPT !.out = IF Len(@) < MaxOut THEN Append(@, Payload(m)) ELSE @,
                          !.told = Payload(m), !.leaked = m.handle]

\* _persist rewrites the whole file and forgets the stream count.
Persist(m) == [m EXCEPT !.file = [there |-> TRUE, cap |-> m.cap = "yes",
                                  streams |-> "absent", last |-> Fresh]]
Forget(m) == [m EXCEPT !.file = NoFile]

Cancel(m) == IF m.handle THEN [m EXCEPT !.handle = FALSE, !.asleep = @ - 1, !.dying = @ + 1]
             ELSE m

\* Mutant: an initialize within the debounce is taken to change nothing.
OnInitializeHushed(m, cap) ==
  LET now == Persist([Cancel(m) EXCEPT !.conn = TRUE, !.cap = cap, !.last = Fresh])
  IN  IF m.handle \/ (m.conn /\ m.cap = cap) THEN now ELSE Broadcast(now)

OnInitialize(m, cap) ==
  LET hit == m.handle
      was == [Cancel(m) EXCEPT !.pre = IF hit THEN "unknown" ELSE @]
      now == Persist([was EXCEPT !.conn = TRUE, !.cap = cap, !.last = Fresh])
  IN  IF (hit /\ m.pre = cap) \/ (m.conn /\ m.cap = cap) THEN now ELSE Broadcast(now)

OnActivity(m) ==
  LET now == Persist([m EXCEPT !.conn = TRUE, !.last = Fresh])
  IN  IF m.conn THEN now ELSE Broadcast(now)

OnDisconnect(m) ==
  IF ~m.conn /\ m.cap = "unknown" THEN m
  ELSE [Cancel(Forget([m EXCEPT !.conn = FALSE, !.cap = "unknown", !.pre = m.cap, !.last = Stale]))
          EXCEPT !.handle = TRUE, !.asleep = @ + 1]

OnSamplingDisconnect(m) ==
  IF m.cap = "unknown" THEN m ELSE Broadcast(Persist([m EXCEPT !.cap = "unknown"]))

OnSessionInvalidated(m) ==
  IF ~m.conn /\ m.cap = "unknown" /\ ~m.handle THEN m
  ELSE Broadcast(Forget(Cancel([m EXCEPT !.conn = FALSE, !.cap = "unknown", !.last = Stale,
                                         !.pre = IF m.handle THEN "unknown" ELSE @])))

\* _deferred_disconnect_broadcast, to its end or cancelled: both clear the handle,
\* whoever holds it; without one, nobody reads the snapshot of the capability.
Deferred ==
  /\ UNCHANGED <<backend, open, registered, streams, heard, spent>>
  /\ \/ /\ mcp.asleep > 0
        /\ mcp' = Broadcast([mcp EXCEPT !.asleep = @ - 1, !.handle = FALSE, !.pre = "unknown"])
     \/ /\ mcp.dying > 0
        /\ mcp' = [mcp EXCEPT !.dying = @ - 1, !.handle = FALSE, !.pre = "unknown"]

-----------------------------------------------------------------------------
(* Clients, as the middleware of the MCP server sees them.                 *)

Speaks(c) == heard' = (heard \/ c \in Bridges)

\* _touch_session_file adds time and stream count to a file that is there, unless it
\* did so less than ten seconds ago: then the file is Fresh.
Touched(m, o) ==
  LET t == [m EXCEPT !.file.last = Fresh, !.file.streams = IF o = {} THEN "none" ELSE "some"]
  IN  IF ~m.file.there THEN {m} ELSE IF m.file.last = Fresh THEN {m, t} ELSE {t}

\* A request of a session that is registered counts as activity.
Request(m, c) == IF c \in registered THEN OnActivity(m) ELSE m

\* _inspect_initialize: a plain client does not take sampling from a bridge.
Inspect(m, c) ==
  IF c \in Bridges THEN OnInitialize(m, "yes")
  ELSE IF m.cap = "yes" \/ streams # {} THEN m
  ELSE OnInitialize(m, "no")

\* An initialize of a new session carries no identifier, and registers nothing.
Initialize(c, sid) ==
  /\ UNCHANGED <<backend, open, streams, spent>>
  /\ \E m \in Touched(Request(mcp, c), open) : mcp' = Inspect(m, c)
  /\ registered' = IF ~sid THEN registered
                   ELSE IF c \in Bridges THEN registered \cup {c} ELSE registered \ {c}
  /\ Speaks(c)

Post(c) ==
  /\ UNCHANGED <<backend, open, registered, streams, spent>>
  /\ mcp' \in Touched(Request(mcp, c), open)
  /\ Speaks(c)

\* A GET without an identifier is a client that comes back after a restart.
OpenStream(c, sid) ==
  /\ UNCHANGED <<backend, registered, spent>>
  /\ c \notin open /\ open' = open \cup {c}
  /\ streams' = IF c \in registered THEN streams \cup {c} ELSE streams
  /\ mcp' = IF ~sid
            THEN [OnActivity(mcp) EXCEPT !.file = [there |-> TRUE, cap |-> mcp.cap = "yes",
                                                   streams |-> "some", last |-> Fresh]]
            ELSE Request(mcp, c)
  /\ Speaks(c)

\* Something is sent down the stream: a session registered since is noticed.
Chunk(c) ==
  /\ UNCHANGED <<backend, open, registered, heard, spent>>
  /\ c \in open \cap registered /\ streams' = streams \cup {c}
  /\ mcp' \in Touched(Request(mcp, c), open)

\* Mutant: the last stream of a bridge matters only if no other is left.
CloseStreamAlone(c) ==
  /\ UNCHANGED <<backend, registered, spent>>
  /\ c \in open /\ open' = open \ {c} /\ streams' = streams \ {c}
  /\ LET m == [mcp EXCEPT !.file.streams = IF ~mcp.file.there THEN @
                                           ELSE IF open' = {} THEN "none" ELSE "some"]
     IN  mcp' = IF open' = {} THEN OnDisconnect(m) ELSE m
  /\ heard' = (heard /\ ~(c \in streams /\ streams' = {}))

CloseStream(c) ==
  /\ UNCHANGED <<backend, registered, spent>>
  /\ c \in open /\ open' = open \ {c} /\ streams' = streams \ {c}
  /\ LET m == [mcp EXCEPT !.file.streams = IF ~mcp.file.there THEN @
                                           ELSE IF open' = {} THEN "none" ELSE "some"]
     IN  mcp' = IF open' = {} THEN OnDisconnect(m)
                ELSE IF c \in streams /\ streams' = {} THEN OnSamplingDisconnect(m)
                ELSE m
  /\ heard' = (heard /\ ~(c \in streams /\ streams' = {}))

\* A request of a session the transport does not know: 400 or 404.
Rejected(c) ==
  /\ UNCHANGED <<backend, open, registered, streams, spent>>
  /\ \E m \in Touched(Request(mcp, c), open) :
       mcp' = IF m.file.there THEN OnSessionInvalidated(Forget(m)) ELSE m
  /\ Speaks(c)

\* A session that its client deletes, or that breaks, leaves the lifespan that it
\* entered, which deletes the file of all of them.
SessionEnds ==
  /\ UNCHANGED <<backend, open, registered, streams, heard, spent>>
  /\ mcp.file.there /\ mcp' = Forget(mcp)

ClientStep == mcp.asleep + mcp.dying < MaxTimers /\
  \/ SessionEnds
  \/ \E c \in Clients :
       \/ Post(c) \/ Chunk(c) \/ CloseStream(c) \/ Rejected(c)
       \/ \E sid \in BOOLEAN : Initialize(c, sid) \/ OpenStream(c, sid)

-----------------------------------------------------------------------------
(* The backend.                                                            *)

\* sync_from_event: notifications are tasks of their own, and come in any order.
Notified(i) ==
  /\ UNCHANGED <<open, registered, streams, heard, spent>>
  /\ i \in DOMAIN mcp.out /\ mcp' = [mcp EXCEPT !.out = RemoveAt(@, i)]
  /\ LET p == mcp.out[i]
     IN  backend' = [conn |-> p[1], cap |-> p[2], last |-> IF p[1] THEN Fresh ELSE Stale]

\* The one attempt fails.
Lost(i) ==
  /\ UNCHANGED <<backend, open, registered, streams, heard>>
  /\ i \in DOMAIN mcp.out /\ mcp' = [mcp EXCEPT !.out = RemoveAt(@, i)]
  /\ Fault

\* _disconnect_loop, for either manager: r reads the file, and may delete it.
Found(r, file) == [r EXCEPT !.conn = TRUE, !.cap = IF file.cap THEN "yes" ELSE "unknown",
                            !.last = file.last]
\* Mutant: only a client that samples is worth finding.
FindsSampling(r, file) == ~r.conn /\ file.there /\ file.cap /\ file.last < Stale
Finds(r, file) == ~r.conn /\ file.there /\ file.last < Stale
Silent(r) == r.conn /\ r.last >= Minute
Averted(r, file) == Silent(r) /\ file.there /\ file.last = Fresh
\* Mutant: a client without a file is not given up.
GivesUpWithFile(r, file) == Silent(r) /\ file.there /\ file.last # Fresh
GivesUp(r, file) == Silent(r) /\ ~(file.there /\ file.last = Fresh)

PollBackend ==
  /\ UNCHANGED <<open, registered, streams, heard, spent>>
  /\ LET f == mcp.file
     IN  \/ /\ Finds(backend, f)
            /\ backend' = Found(backend, f) /\ UNCHANGED mcp
         \/ /\ Averted(backend, f)
            /\ backend' = [backend EXCEPT !.last = Fresh] /\ UNCHANGED mcp
         \/ /\ GivesUp(backend, f)
            /\ backend' = Away
            /\ mcp' = Forget(mcp)

PollMcp ==
  /\ UNCHANGED <<backend, open, registered, streams, heard, spent>>
  /\ LET f == mcp.file
     IN  \/ Finds(mcp, f) /\ mcp' = Broadcast(Found(mcp, f))
         \/ Averted(mcp, f) /\ mcp' = [mcp EXCEPT !.last = Fresh]
         \/ GivesUp(mcp, f) /\ mcp' = Broadcast(Forget([mcp EXCEPT !.conn = FALSE,
                                                     !.cap = "unknown", !.last = Stale]))

Older(r) == [r EXCEPT !.last = IF @ = Stale THEN @ ELSE @ + 1]

\* Some minutes pass: longer than a debounce, or a notification, takes.
TimePasses ==
  /\ UNCHANGED <<open, registered, streams, heard, spent>>
  /\ mcp.asleep = 0 /\ mcp.dying = 0 /\ mcp.out = <<>>
  /\ mcp' = [Older(mcp) EXCEPT !.file = Older(@)]
  /\ backend' = Older(backend)
  /\ <<mcp, backend>>' # <<mcp, backend>>

\* The file is cleared before the MCP server serves again; with a provider it says at
\* once that nobody is there.
RestartMcp ==
  /\ UNCHANGED backend
  /\ Fault
  /\ mcp' \in {NewManager, Broadcast(NewManager)}
  /\ open' = {} /\ registered' = {} /\ streams' = {} /\ heard' = FALSE

\* detect_disconnect
FileSaysConnected(f) ==
  f.there /\ (f.streams = "some" \/ (f.streams = "absent" /\ f.last < Stale))

\* _recover_state: the file is believed, unless it was written over half an hour ago.
RestartBackend ==
  /\ UNCHANGED <<mcp, open, registered, streams, heard>>
  /\ Fault
  /\ LET f == mcp.file
     IN  \/ FileSaysConnected(f) /\ backend' = Found(Away, f)
         \/ backend' = Away

-----------------------------------------------------------------------------
Init ==
  /\ mcp = NewManager /\ backend = Away
  /\ open = {} /\ registered = {} /\ streams = {} /\ heard = FALSE /\ spent = 0

Delivery == \E i \in DOMAIN mcp.out : Notified(i)

Next ==
  \/ ClientStep \/ Deferred \/ Delivery \/ PollBackend \/ PollMcp \/ TimePasses
  \/ RestartMcp \/ RestartBackend
  \/ \E i \in DOMAIN mcp.out : Lost(i)

\* Timers, notifications and loops go on.
Fairness == WF_vars(Deferred) /\ WF_vars(Delivery) /\ WF_vars(TimePasses)
            /\ WF_vars(PollBackend) /\ WF_vars(PollMcp)

Spec == Init /\ [][Next]_vars /\ Fairness

-----------------------------------------------------------------------------
(* Properties.                                                             *)

\* Shapes; a manager that holds a deferred broadcast has one asleep, only streams of
\* registered bridges count as such, and who is not connected samples nothing.
TypeOK ==
  /\ {open, registered, streams} \subseteq SUBSET Clients
  /\ streams \subseteq open \cap registered /\ registered \subseteq Bridges
  /\ {mcp.cap, mcp.pre, backend.cap} \subseteq Caps
  /\ {mcp.last, backend.last, mcp.file.last} \subseteq Fresh..Stale
  /\ mcp.asleep \in Nat /\ mcp.dying \in Nat /\ (mcp.handle => mcp.asleep > 0)
  /\ Len(mcp.out) <= MaxOut /\ spent \in 0..MaxFaults
  /\ ~mcp.conn => mcp.cap = "unknown"

\* What the server last said is what it is, save while it waits to say that the client
\* left, and when something was said in that time: then the initialize that ends it
\* compares with what was true before and stays silent. Every variable has its type.
ToldUnlessLeaked ==
  /\ TypeOK
  /\ mcp.told \in {Payload(mcp), <<>>} \/ mcp.asleep > 0 \/ mcp.leaked

\* Once the last stream of a bridge that is known as one has closed, the server does
\* not offer sampling until a bridge speaks again, whatever plain clients do.
SamplingHeard == mcp.cap = "yes" => heard

\* Clients that fall silent are given up by both processes, for good, whichever
\* notifications were lost or came late, and whatever the file said.
AllLetGo == <>[][~ClientStep]_vars => <>[](~mcp.conn /\ ~backend.conn /\ backend.cap # "yes")

\* A bridge that keeps working, so that the file never gets old, is seen by the backend
\* again and again, though the notification of its arrival may be lost and the backend
\* restart.
SteadySeen == \A c \in Bridges :
  /\ <>[](c \in registered)
  /\ []<><<Post(c)>>_vars
  /\ <>[][ClientStep => Post(c)]_vars
  /\ <>[](mcp.file.there => mcp.file.last < Stale)
  => []<>(backend.conn)

=============================================================================
