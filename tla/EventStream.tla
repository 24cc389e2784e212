---------------------------- MODULE EventStream ----------------------------
(***************************************************************************)
(* The event stream of the web client: backend/app/services/event_bus.py,  *)
(* the generator of GET /api/events in backend/app/routers/events.py, and  *)
(* the store that owns the browser's EventSource,                          *)
(* frontend/src/lib/stores/sse-health.svelte.ts.                           *)
(*                                                                         *)
(* publish() numbers an event, keeps the last ones for replay and puts it  *)
(* on the bounded queue of every subscriber, at the expense of the oldest. *)
(* A stream replays what its client missed, sends a sync with the current  *)
(* number and then what its queue holds.  The client reconnects with the   *)
(* highest number it has seen and, after an error, refetches a part of its *)
(* state: what the onReconnect callback of routes/app/+page.svelte covers. *)
(*                                                                         *)
(* An event is named by its place among all events ever published; its     *)
(* sequence number counts from the start of the server that published it.  *)
(***************************************************************************)
EXTENDS Naturals, Sequences, FiniteSets

CONSTANTS
    Clients,
    Sentinel,     \* _SHUTDOWN_SENTINEL
    Refetched,    \* events about state that onReconnect refetches (clusters, routing...);
                  \* an optimization_created or a refinement_turn is not one of them
    QueueSize,    \* a subscriber's queue (100)
    BufferSize,   \* _REPLAY_BUFFER_SIZE
    Window,       \* bound on what is sent and not yet received
    MaxEvents,    \* bound on the events published
    MaxBreaks,    \* bound on the connections lost
    MaxRestarts   \* bound on the server's restarts

ASSUME StreamAssumption ==
    /\ QueueSize \in Nat \ {0} /\ BufferSize \in Nat \ {0} /\ Window \in Nat \ {0}
    /\ MaxEvents \in Nat /\ MaxBreaks \in Nat /\ MaxRestarts \in Nat
    /\ Sentinel \notin Nat

VARIABLES
    published,   \* how many events were ever published
    base,        \* how many of them before this server started
    shutting,    \* _shutting_down
    gen,         \* each client's stream on the server: none, replay, live
    sq,          \* its queue
    todo,        \* what it still has to replay
    upTo,        \* replayed_up_to
    pipe,        \* what it sent and the client has not received
    es,          \* the client's EventSource: new, waiting, connecting, open
    last,        \* _lastSeq
    hadError,    \* _hadError
    since,       \* events before its first subscription
    got,         \* events delivered to the client, in the order it got them
    fresh,       \* events published when it last refetched
    dropped,     \* events its queue gave up
    passed,      \* events in its queue when a sync carried a later number
    foreign,     \* clients whose number may be one of an earlier server
    lost,        \* events that a reconnection found beyond any replay
    stale,       \* clients whose staleness timer reconnected them
    breaks, restarts

busVars    == <<published, base, shutting>>
genVars    == <<gen, sq, todo, upTo>>
clientVars == <<es, last, hadError, got, fresh>>
missVars   == <<dropped, passed, lost>>
vars == <<busVars, genVars, pipe, clientVars, since, missVars, foreign, stale, breaks, restarts>>

Events == 1 .. MaxEvents
Msgs   == [kind : {"open", "event", "sync", "end"}, id : 0 .. MaxEvents]
Msg(k, e) == [kind |-> k, id |-> e]

TypeOK ==
    /\ published \in 0 .. MaxEvents /\ base \in 0 .. published /\ shutting \in BOOLEAN
    /\ gen \in [Clients -> {"none", "replay", "live"}]
    /\ sq \in [Clients -> Seq(Events \cup {Sentinel})]
    /\ \A c \in Clients : Len(sq[c]) <= QueueSize
    /\ todo \in [Clients -> Seq(Events)]
    /\ upTo \in [Clients -> 0 .. MaxEvents]
    /\ pipe \in [Clients -> Seq(Msgs)]
    /\ es \in [Clients -> {"new", "waiting", "connecting", "open"}]
    /\ last \in [Clients -> 0 .. MaxEvents]
    /\ hadError \in [Clients -> BOOLEAN]
    /\ since \in [Clients -> 0 .. MaxEvents] /\ fresh \in [Clients -> 0 .. MaxEvents]
    /\ got \in [Clients -> Seq(Events)] /\ dropped \in [Clients -> SUBSET Events]
    /\ passed \in [Clients -> SUBSET Events] /\ lost \in [Clients -> SUBSET Events]
    /\ stale \subseteq Clients /\ foreign \subseteq Clients
    /\ breaks \in 0 .. MaxBreaks /\ restarts \in 0 .. MaxRestarts

Init ==
    /\ published = 0 /\ base = 0 /\ shutting = FALSE
    /\ gen = [c \in Clients |-> "none"] /\ sq = [c \in Clients |-> <<>>]
    /\ todo = [c \in Clients |-> <<>>] /\ upTo = [c \in Clients |-> 0]
    /\ pipe = [c \in Clients |-> <<>>]
    /\ es = [c \in Clients |-> "new"] /\ last = [c \in Clients |-> 0]
    /\ hadError = [c \in Clients |-> FALSE] /\ since = [c \in Clients |-> 0]
    /\ got = [c \in Clients |-> <<>>] /\ fresh = [c \in Clients |-> 0]
    /\ dropped = [c \in Clients |-> {}] /\ passed = [c \in Clients |-> {}]
    /\ lost = [c \in Clients |-> {}] /\ foreign = {} /\ stale = {}
    /\ breaks = 0 /\ restarts = 0

SeqNo(e) == e - base
Subscribed == {c \in Clients : gen[c] # "none"}
Larger(m, n) == IF m > n THEN m ELSE n

-----------------------------------------------------------------------------
(* The bus *)

\* publish(): a full queue loses its oldest event for the new one.
Publish ==
    /\ ~shutting /\ published < MaxEvents
    /\ published' = published + 1
    /\ sq' = [c \in Clients |->
                IF c \notin Subscribed THEN sq[c]
                ELSE IF Len(sq[c]) < QueueSize THEN Append(sq[c], published')
                ELSE Append(Tail(sq[c]), published')]
    /\ dropped' = [c \in Clients |->
                     IF c \in Subscribed /\ Len(sq[c]) = QueueSize
                       THEN dropped[c] \cup {Head(sq[c])} ELSE dropped[c]]
    /\ UNCHANGED <<base, shutting, gen, todo, upTo, pipe, clientVars, since, passed, lost, foreign, stale, breaks, restarts>>

\* Mutant: the event of that number is replayed too.
ReplayFrom(n) ==
    LET first == Larger(base, IF published > BufferSize THEN published - BufferSize ELSE 0) IN
    LET from  == Larger(first, base + n - 1) IN
        [i \in 1 .. IF published > from THEN published - from ELSE 0 |-> from + i]

\* replay_since(): what the buffer holds above a sequence number.
ReplaySince(n) ==
    LET first == Larger(base, IF published > BufferSize THEN published - BufferSize ELSE 0) IN
    LET from  == Larger(first, base + n) IN
        [i \in 1 .. IF published > from THEN published - from ELSE 0 |-> from + i]

\* shutdown(): a sentinel for every queue that has room.
Shutdown ==
    /\ ~shutting /\ shutting' = TRUE
    /\ sq' = [c \in Clients |-> IF c \in Subscribed /\ Len(sq[c]) < QueueSize
                                  THEN Append(sq[c], Sentinel) ELSE sq[c]]
    /\ UNCHANGED <<published, base, gen, todo, upTo, pipe, clientVars, since, missVars, foreign, stale, breaks, restarts>>

\* A new server: the numbers, the buffer and the streams start again.
Restart ==
    /\ restarts < MaxRestarts /\ restarts' = restarts + 1
    /\ base' = published /\ shutting' = FALSE
    /\ gen' = [c \in Clients |-> "none"] /\ sq' = [c \in Clients |-> <<>>]
    /\ todo' = [c \in Clients |-> <<>>] /\ upTo' = [c \in Clients |-> 0]
    /\ pipe' = [c \in Clients |-> <<>>] /\ foreign' = Clients
    /\ UNCHANGED <<published, clientVars, since, missVars, stale, breaks>>

-----------------------------------------------------------------------------
(* The stream: generate() of GET /api/events *)

Given(c) == {got[c][i] : i \in DOMAIN got[c]}

\* What no replay can give a client that reconnects: anything if it has no number
\* yet; what the buffer forgot; what its number has passed, because a sync was ahead
\* of the queue or because the number is one of an earlier server's.
Beyond(c) ==
    passed[c] \cup {e \in 1 .. published :
                      \/ last[c] = 0 \/ e + BufferSize <= published
                      \/ c \in foreign /\ e <= base + last[c]}

\* The request is served: subscribe, take what has to be replayed and run to
\* the first yield, which is the sync when there is nothing to replay.
Accept(c) ==
    LET missed == IF last[c] > 0 THEN ReplaySince(last[c]) ELSE <<>> IN
    /\ es[c] = "connecting" /\ gen[c] = "none" /\ pipe[c] = <<>>
    /\ sq' = [sq EXCEPT ![c] = <<>>]
    /\ todo' = [todo EXCEPT ![c] = missed]
    /\ upTo' = [upTo EXCEPT ![c] = 0]
    /\ gen' = [gen EXCEPT ![c] = IF missed = <<>> THEN "live" ELSE "replay"]
    /\ pipe' = [pipe EXCEPT ![c] = IF missed = <<>> THEN <<Msg("open", 0), Msg("sync", published)>>
                                                    ELSE <<Msg("open", 0)>>]
    /\ since' = [since EXCEPT ![c] = IF got[c] = <<>> /\ last[c] = 0 /\ fresh[c] = 0 /\ ~hadError[c]
                                       THEN published ELSE @]
    /\ lost' = [lost EXCEPT ![c] = @ \cup {e \in Beyond(c) : e > since'[c] /\ e \notin Given(c)}]
    /\ passed' = [passed EXCEPT ![c] = {}]
    /\ UNCHANGED <<busVars, clientVars, dropped, foreign, stale, breaks, restarts>>

Send(c, m) == Len(pipe[c]) < Window /\ pipe' = [pipe EXCEPT ![c] = Append(@, m)]

SendReplay(c) ==
    /\ gen[c] = "replay" /\ todo[c] # <<>>
    /\ Send(c, Msg("event", Head(todo[c])))
    /\ todo' = [todo EXCEPT ![c] = Tail(@)]
    /\ upTo' = [upTo EXCEPT ![c] = Larger(@, SeqNo(Head(todo[c])))]
    /\ UNCHANGED <<busVars, gen, sq, clientVars, since, missVars, foreign, stale, breaks, restarts>>

\* The sync after the replay carries the current number, whatever is queued.
SendSync(c) ==
    /\ gen[c] = "replay" /\ todo[c] = <<>>
    /\ Send(c, Msg("sync", published))
    /\ gen' = [gen EXCEPT ![c] = "live"]
    /\ passed' = [passed EXCEPT ![c] = @ \cup ({sq[c][i] : i \in DOMAIN sq[c]} \ {Sentinel})]
    /\ UNCHANGED <<busVars, sq, todo, upTo, clientVars, since, dropped, lost, foreign, stale, breaks, restarts>>

SendLive(c) ==
    /\ gen[c] = "live" /\ sq[c] # <<>> /\ Head(sq[c]) # Sentinel
    /\ IF SeqNo(Head(sq[c])) > upTo[c]
         THEN Send(c, Msg("event", Head(sq[c])))
         ELSE UNCHANGED pipe
    /\ sq' = [sq EXCEPT ![c] = Tail(@)]
    /\ UNCHANGED <<busVars, gen, todo, upTo, clientVars, since, missVars, foreign, stale, breaks, restarts>>

\* wait_for(queue.get(), 30) times out on an idle stream.
KeepAlive(c) ==
    /\ gen[c] = "live" /\ pipe[c] = <<>> /\ sq[c] = <<>>
    /\ Send(c, Msg("sync", published))
    /\ UNCHANGED <<busVars, genVars, clientVars, since, missVars, foreign, stale, breaks, restarts>>

SendEnd(c) ==
    /\ gen[c] = "live" /\ sq[c] # <<>> /\ Head(sq[c]) = Sentinel
    /\ Send(c, Msg("end", 0))
    /\ gen' = [gen EXCEPT ![c] = "none"]
    /\ sq' = [sq EXCEPT ![c] = <<>>]
    /\ UNCHANGED <<busVars, todo, upTo, clientVars, since, missVars, foreign, stale, breaks, restarts>>

-----------------------------------------------------------------------------
(* The client: SSEHealthStore *)

Mount(c) ==
    /\ es[c] = "new"
    /\ es' = [es EXCEPT ![c] = "connecting"]
    /\ UNCHANGED <<busVars, genVars, pipe, last, hadError, got, fresh, since, missVars, foreign, stale, breaks, restarts>>

\* Mutant: the store forgets that it reconnects.
OnOpenPlain(c) ==
    /\ es' = [es EXCEPT ![c] = "open"]
    /\ hadError' = [hadError EXCEPT ![c] = FALSE]
    /\ UNCHANGED <<last, foreign, got, fresh>>

\* _onOpen: after an error, refetch.
OnOpen(c) ==
    /\ es' = [es EXCEPT ![c] = "open"]
    /\ hadError' = [hadError EXCEPT ![c] = FALSE]
    /\ fresh' = [fresh EXCEPT ![c] = IF hadError[c] THEN published ELSE @]
    /\ UNCHANGED <<last, foreign, got>>

OnMessage(c, m) ==
    /\ last' = [last EXCEPT ![c] = Larger(@, SeqNo(m.id))]
    /\ foreign' = IF SeqNo(m.id) > last[c] THEN foreign \ {c} ELSE foreign
    /\ got' = [got EXCEPT ![c] = IF m.kind = "event" THEN Append(@, m.id) ELSE @]
    /\ UNCHANGED <<es, hadError, fresh>>

\* _onError: close the EventSource and schedule a reconnection.
OnError(c) ==
    /\ es' = [es EXCEPT ![c] = "waiting"]
    /\ hadError' = [hadError EXCEPT ![c] = TRUE]
    /\ UNCHANGED <<last, foreign, got, fresh>>

Receive(c) ==
    /\ es[c] \in {"connecting", "open"} /\ pipe[c] # <<>>
    /\ pipe' = [pipe EXCEPT ![c] = Tail(@)]
    /\ CASE Head(pipe[c]).kind = "open" -> OnOpen(c)
         [] Head(pipe[c]).kind = "end"  -> OnError(c)
         [] Head(pipe[c]).kind \in {"event", "sync"} -> OnMessage(c, Head(pipe[c]))
    /\ UNCHANGED <<busVars, genVars, since, missVars, stale, breaks, restarts>>

\* The connection and what was on it are gone; the server ends the stream.
Cut(c) ==
    /\ pipe' = [pipe EXCEPT ![c] = <<>>]
    /\ gen' = [gen EXCEPT ![c] = "none"] /\ sq' = [sq EXCEPT ![c] = <<>>]
    /\ todo' = [todo EXCEPT ![c] = <<>>]

\* The browser sees it: onerror.
Break(c) ==
    /\ breaks < MaxBreaks \/ gen[c] = "none"
    /\ breaks' = IF gen[c] = "none" THEN breaks ELSE breaks + 1
    /\ es[c] \in {"connecting", "open"}
    /\ gen[c] = "none" => es[c] = "open" /\ pipe[c] = <<>>
    /\ Cut(c) /\ OnError(c)
    /\ UNCHANGED <<busVars, upTo, since, missVars, stale, restarts>>

\* It does not, and STALENESS_MS pass without a message: reconnect, without
\* having seen an error.
Stale(c) ==
    /\ breaks < MaxBreaks /\ breaks' = breaks + 1
    /\ stale' = stale \cup {c}
    /\ es[c] \in {"connecting", "open"}
    /\ Cut(c)
    /\ es' = [es EXCEPT ![c] = "waiting"]
    /\ UNCHANGED <<busVars, upTo, last, hadError, got, fresh, since, missVars, foreign, restarts>>

\* Mutant: only an error schedules another attempt.
RetryAfterError(c) ==
    /\ es[c] = "waiting" /\ hadError[c]
    /\ es' = [es EXCEPT ![c] = "connecting"]
    /\ UNCHANGED <<busVars, genVars, pipe, last, hadError, got, fresh, since, missVars, foreign, stale, breaks, restarts>>

\* Backoff, slow poll or a tab that becomes visible: another attempt.
Retry(c) ==
    /\ es[c] = "waiting"
    /\ es' = [es EXCEPT ![c] = "connecting"]
    /\ UNCHANGED <<busVars, genVars, pipe, last, hadError, got, fresh, since, missVars, foreign, stale, breaks, restarts>>

-----------------------------------------------------------------------------

Stream(c) == SendReplay(c) \/ SendSync(c) \/ SendLive(c) \/ SendEnd(c)
Client(c) == Mount(c) \/ Accept(c) \/ Receive(c) \/ Retry(c)

Next ==
    \/ Publish \/ Shutdown \/ Restart
    \/ \E c \in Clients : Stream(c) \/ KeepAlive(c) \/ Client(c) \/ Break(c) \/ Stale(c)

\* The server sends what it can, the network delivers, timers fire, and a
\* browser notices a stream the server has ended.
Fairness ==
    \A c \in Clients :
        /\ WF_vars(Stream(c)) /\ WF_vars(Client(c))
        /\ WF_vars(gen[c] = "none" /\ Break(c))

Spec == Init /\ [][Next]_vars /\ Fairness

-----------------------------------------------------------------------------
(* Properties *)

Settled(c) == es[c] = "open" /\ gen[c] = "live" /\ sq[c] = <<>> /\ pipe[c] = <<>>

\* What a client with nothing left in flight misses, of all that was published since
\* it first subscribed, its own queue gave up, or a reconnection found beyond any
\* replay; and what the refetch is about it has refetched since, unless its
\* staleness timer reconnected it, which skips the refetch.
NothingMissed ==
    \A c \in Clients : Settled(c) =>
        \A e \in (since[c] + 1 .. published) \ (Given(c) \cup dropped[c]) :
            e \in lost[c] /\ (e \in Refetched /\ c \notin stale => e <= fresh[c])

\* No event reaches a client twice or after a later one, whatever was replayed,
\* dropped, reconnected or restarted; and every variable has its type.
DeliveredInOrder ==
    /\ TypeOK
    /\ \A c \in Clients : \A i, j \in DOMAIN got[c] : i < j => got[c][i] < got[c][j]

\* Once connections last, a client that is not connected becomes so.
ClientReconnects == \A c \in Clients : es[c] # "open" ~> es[c] = "open"
=============================================================================
