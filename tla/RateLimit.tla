----------------------------- MODULE RateLimit -----------------------------
(***************************************************************************)
(* Which providers are known to refuse calls: the store of rate limits,    *)
(* the copy the RoutingManager decides by, the bus between them, and the   *)
(* four that take a limit away: the watcher, the probes, a stored batch,   *)
(* and whoever merely asks.                                                *)
(*                                                                         *)
(* Two paths change the store and tell nobody: a question that finds an    *)
(* elapsed entry deletes it (health, a failing probe), and a probe clears  *)
(* or records what it learns. The properties say what remains true.        *)
(*                                                                         *)
(* The names of the specification begin with Limit, because RoutingProofs  *)
(* extends this module and Routing.                                        *)
(*                                                                         *)
(* Sources: services/rate_limit_state.py, services/routing.py, main.py,    *)
(* providers/base.py, services/batch_persistence.py, routers/health.py.    *)
(***************************************************************************)
EXTENDS Integers, FiniteSets, Sequences

CONSTANTS Providers, Own,  \* Own: the provider the backend calls and probes
          MaxBus,          \* bound: events the consumer has not taken
          MaxMishaps       \* bound: odd failures of a probe, restarts, writes of the MCP server

ASSUME RateLimitAssumption ==
  /\ IsFiniteSet(Providers) /\ Own \in Providers
  /\ MaxBus \in Nat \ {0} /\ MaxMishaps \in Nat

VARIABLES
  refuses,   \* the providers that refuse calls at present
  entry,     \* RateLimitStateStore._state
  theirs,    \* the file holds what the MCP server wrote last
  limited,   \* RoutingState.rate_limited
  bus,       \* events for _rate_limit_event_consumer
  watcher,   \* _watcher_loop: its place, and to_clear while it awaits its probe
  starting,  \* the probe of a start has not ended
  batch,     \* providers with a row in the batch that runs
  excused,   \* history: those that answered since they last refused, or refused after
             \* it was decided to clear them
  unheard,   \* history: those whose entry came or went without an event
  mishaps    \* history: how much of MaxMishaps is used

store == <<entry, theirs>>
history == <<excused, unheard>>
limitVars == <<refuses, store, limited, bus, watcher, starting, batch, history, mishaps>>

\* A limit has a known end or counts as five minutes; either may be past.
On == {"until", "guess"}
Due == {"late", "old"}
Kinds == On \cup Due \cup {"none"}

\* Whether the end is known matters only to a provider that can be probed.
KindsOf(p) == IF p = Own THEN On ELSE {"until"}
Asleep == [at |-> "asleep", clear |-> {}]

Mishap == mishaps < MaxMishaps /\ mishaps' = mishaps + 1

-----------------------------------------------------------------------------
(* The store. Every change is written to the file.                         *)

Write(s) == entry' = s /\ theirs' = FALSE

Recorded(p, kind) == [entry EXCEPT ![p] = kind]

\* Mutant: a clear takes every entry.
ClearedAll(s, ps) == [p \in Providers |-> IF ps = {} THEN s[p] ELSE "none"]
Cleared(s, ps) == [p \in Providers |-> IF p \in ps THEN "none" ELSE s[p]]

Publish(events) == Len(bus) + Len(events) <= MaxBus /\ bus' = bus \o events

\* One event for each of a set, in some order.
ClearEvents(ps) ==
  {s \in [1..Cardinality(ps) -> {[ev |-> "cleared", p |-> p, kind |-> "none"] : p \in ps}] :
     \A p \in ps : \E i \in DOMAIN s : s[i].p = p}

\* Asked for any limit, get_active walks the entries in their order. An elapsed one is
\* deleted, which ends the walk with an error; an active one that comes first is the answer.
Reads(s) ==
  {[raised |-> TRUE, s |-> Cleared(s, {p}), gone |-> {p}, found |-> FALSE] :
     p \in {q \in Providers : s[q] \in Due}}
  \cup {[raised |-> FALSE, s |-> s, gone |-> {}, found |-> TRUE] :
          p \in {q \in Providers : s[q] \in On}}
  \cup {[raised |-> FALSE, s |-> s, gone |-> {}, found |-> FALSE] :
          x \in {s} \cap {[p \in Providers |-> "none"]}}

-----------------------------------------------------------------------------
(* Calls and what they bring.                                              *)

Turns(p) ==
  /\ refuses' = IF p \in refuses THEN refuses \ {p} ELSE refuses \cup {p}
  /\ UNCHANGED <<store, limited, bus, watcher, starting, batch, history, mishaps>>

\* Those who will be cleared by what has been seen up to now.
Decided == watcher.clear \cup batch
           \cup {p \in Providers : \E i \in DOMAIN bus : bus[i].ev = "cleared" /\ bus[i].p = p}
           \cup (IF watcher.at = "probing" THEN {Own} ELSE {})

Refusal(p) == excused' = IF p \in Decided THEN excused \cup {p} ELSE excused \ {p}
Answer(p) == p \notin refuses /\ excused' = excused \cup {p}

\* call_provider_with_retry gives up: publish_rate_limit_active records and publishes.
Refused(p) ==
  /\ p \in refuses
  /\ \E kind \in KindsOf(p) :
       /\ Write(Recorded(p, kind))
       /\ Publish(<<[ev |-> "active", p |-> p, kind |-> kind]>>)
  /\ Refusal(p)
  /\ UNCHANGED <<refuses, limited, watcher, starting, batch, unheard, mishaps>>

\* A prompt of a batch is answered: its row will carry the provider.
BatchCall(p) ==
  /\ Answer(p) /\ batch' = batch \cup {p}
  /\ UNCHANGED <<refuses, store, limited, bus, watcher, starting, unheard, mishaps>>

\* bulk_persist: one event for each provider of a stored row.
BatchStored ==
  /\ batch # {} /\ batch' = {}
  /\ \E es \in ClearEvents(batch) : Publish(es)
  /\ UNCHANGED <<refuses, store, limited, watcher, starting, history, mishaps>>

\* Five minutes or the announced time pass; an event about it has been taken long before.
Elapses(p) ==
  /\ entry[p] \in On /\ \A i \in DOMAIN bus : bus[i] \notin [ev : {"active"}, p : {p}, kind : On]
  /\ entry' = [entry EXCEPT ![p] = IF @ = "until" THEN "late" ELSE "old"]
  /\ UNCHANGED <<refuses, theirs, limited, bus, watcher, starting, batch, history, mishaps>>

\* Mutant: the consumer leaves routing alone when the store does not know the provider.
ConsumeKnown ==
  /\ bus # <<>> /\ bus' = Tail(bus)
  /\ LET e == Head(bus)
     IN  IF e.ev = "active"
         THEN Write(Recorded(e.p, e.kind)) /\ limited' = limited \cup {e.p}
         ELSE /\ (IF entry[e.p] = "none" THEN UNCHANGED store ELSE Write(Cleared(entry, {e.p})))
              /\ limited' = IF entry[e.p] = "none" THEN limited ELSE limited \ {e.p}
  /\ unheard' = unheard \ {Head(bus).p}
  /\ UNCHANGED <<refuses, watcher, starting, batch, excused, mishaps>>

\* _rate_limit_event_consumer: the store first, then sync_rate_limit.
Consume ==
  /\ bus # <<>> /\ bus' = Tail(bus)
  /\ LET e == Head(bus)
     IN  IF e.ev = "active"
         THEN Write(Recorded(e.p, e.kind)) /\ limited' = limited \cup {e.p}
         ELSE /\ (IF entry[e.p] = "none" THEN UNCHANGED store ELSE Write(Cleared(entry, {e.p})))
              /\ limited' = limited \ {e.p}
  /\ unheard' = unheard \ {Head(bus).p}
  /\ UNCHANGED <<refuses, watcher, starting, batch, excused, mishaps>>

-----------------------------------------------------------------------------
(* Those who ask and those who probe.                                      *)

Keep(r) == IF r.gone = {} THEN UNCHANGED store ELSE Write(r.s)

\* GET /api/health
Health ==
  /\ \E r \in Reads(entry) : Keep(r) /\ unheard' = unheard \cup r.gone
  /\ UNCHANGED <<refuses, limited, bus, watcher, starting, batch, excused, mishaps>>

Sweepable == {p \in Providers : entry[p] = "late" \/ (entry[p] = "old" /\ p # Own)}

\* What the watcher does at the end of a round: it clears, and says so.
ClearAndTell(s, ps) ==
  /\ (IF \E p \in ps : s[p] # "none" THEN Write(Cleared(s, ps))
      ELSE IF s # entry THEN Write(s) ELSE UNCHANGED store)
  /\ \E es \in ClearEvents(ps) : Publish(es)

\* Mutant: a limit of the provider itself that has no known end is not looked at.
WakesKnown ==
  /\ watcher.at = "asleep" /\ Sweepable # {} /\ ClearAndTell(entry, Sweepable)
  /\ UNCHANGED <<refuses, limited, watcher, starting, batch, history, mishaps>>

\* A limit of the provider itself that has no known end is probed before it is cleared;
\* what else is due was decided before the wait.
Wakes ==
  /\ watcher.at = "asleep"
  /\ IF entry[Own] = "old"
     THEN watcher' = [at |-> "probing", clear |-> Sweepable] /\ UNCHANGED <<store, bus>>
     ELSE /\ Sweepable # {} /\ UNCHANGED watcher
          /\ ClearAndTell(entry, Sweepable)
  /\ UNCHANGED <<refuses, limited, starting, batch, history, mishaps>>

\* The probe clears the store itself; the watcher then publishes.
ProbeAnswered ==
  /\ watcher.at = "probing" /\ watcher' = Asleep
  /\ Answer(Own)
  /\ ClearAndTell(Cleared(entry, {Own}), watcher.clear \cup {Own})
  /\ UNCHANGED <<refuses, limited, starting, batch, unheard, mishaps>>

\* It records without an event.
ProbeRefused ==
  /\ watcher.at = "probing" /\ watcher' = Asleep
  /\ Own \in refuses /\ Refusal(Own)
  /\ \E kind \in KindsOf(Own) : ClearAndTell(Recorded(Own, kind), watcher.clear)
  /\ unheard' = unheard \cup ({Own} \ limited)
  /\ UNCHANGED <<refuses, limited, starting, batch, mishaps>>

\* An error of another kind is taken for an answer.
ProbeFailed ==
  /\ watcher.at = "probing" /\ watcher' = Asleep
  /\ Mishap
  /\ ClearAndTell(entry, watcher.clear \cup {Own})
  /\ UNCHANGED <<refuses, limited, starting, batch, history>>

\* An unexpected one asks the store, which may raise: then the watcher is no more.
ProbeRaised ==
  /\ watcher.at = "probing"
  /\ Mishap
  /\ \E r \in Reads(entry) :
       IF r.raised
       THEN /\ watcher' = [at |-> "dead", clear |-> {}] /\ Write(r.s)
            /\ unheard' = unheard \cup r.gone /\ UNCHANGED bus
       ELSE /\ watcher' = Asleep /\ UNCHANGED unheard
            /\ ClearAndTell(entry, watcher.clear \cup (IF r.found THEN {} ELSE {Own}))
  /\ UNCHANGED <<refuses, limited, starting, batch, excused>>

\* The probe of a start tells nobody what it finds.
StartProbe ==
  /\ starting /\ starting' = FALSE
  /\ \/ /\ Answer(Own)
        /\ (IF entry[Own] = "none" THEN UNCHANGED store ELSE Write(Cleared(entry, {Own})))
        /\ unheard' = IF Own \in limited THEN unheard \cup {Own} ELSE unheard
     \/ /\ Own \in refuses /\ Refusal(Own)
        /\ \E kind \in KindsOf(Own) : Write(Recorded(Own, kind))
        /\ unheard' = IF Own \in limited THEN unheard ELSE unheard \cup {Own}
     \/ UNCHANGED <<store, history>>
     \/ /\ mishaps < MaxMishaps /\ UNCHANGED excused
        /\ \E r \in Reads(entry) : Keep(r) /\ unheard' = unheard \cup r.gone
  /\ UNCHANGED <<refuses, limited, bus, watcher, batch, mishaps>>

-----------------------------------------------------------------------------
(* Two processes, one file.                                                *)

\* A call of the MCP server is refused: its own store overwrites the file.
McpRefused ==
  /\ ~theirs /\ theirs' = TRUE
  /\ Mishap
  /\ UNCHANGED <<refuses, entry, limited, bus, watcher, starting, batch, history>>

Files == {e \in [Providers -> Kinds] :
            \A p \in Providers : e[p] \in {"none", "late"} \cup KindsOf(p)}

\* The store is read back, routing takes over every entry of it, elapsed or not.
Restart ==
  /\ Mishap
  /\ entry' \in IF theirs THEN Files ELSE {entry}
  /\ limited' = {p \in Providers : entry'[p] # "none"}
  /\ bus' = <<>> /\ watcher' = Asleep /\ starting' = TRUE /\ batch' = {}
  /\ unheard' = {} /\ excused' = IF theirs THEN Providers ELSE excused
  /\ UNCHANGED <<refuses, theirs>>

-----------------------------------------------------------------------------
LimitInit ==
  /\ refuses = {} /\ entry \in Files /\ theirs = FALSE
  /\ limited = {p \in Providers : entry[p] # "none"} /\ bus = <<>> /\ watcher = Asleep /\ starting = TRUE /\ batch = {}
  /\ excused = {} /\ unheard = {} /\ mishaps = 0

ProbeEnds == ProbeAnswered \/ ProbeRefused \/ ProbeFailed \/ ProbeRaised

LimitNext ==
  \/ \E p \in Providers : Turns(p) \/ Refused(p) \/ BatchCall(p) \/ Elapses(p)
  \/ BatchStored \/ Consume \/ Health \/ Wakes \/ ProbeEnds \/ StartProbe
  \/ McpRefused \/ Restart

\* Time, the consumer, the watcher and its probe go on.
LimitFairness ==
  /\ \A p \in Providers : WF_limitVars(Elapses(p))
  /\ WF_limitVars(Consume) /\ WF_limitVars(Wakes) /\ WF_limitVars(ProbeEnds)

LimitSpec == LimitInit /\ [][LimitNext]_limitVars /\ LimitFairness

-----------------------------------------------------------------------------
(* Properties.                                                             *)

\* Shapes; the watcher holds a decision only while it waits for its probe.
LimitTypeOK ==
  /\ {refuses, limited, batch, excused, unheard} \subseteq SUBSET Providers
  /\ entry \in [Providers -> Kinds] /\ {theirs, starting} \subseteq BOOLEAN
  /\ watcher.at \in {"asleep", "probing", "dead"} /\ watcher.clear \subseteq Providers
  /\ watcher.clear # {} => watcher.at = "probing"
  /\ Len(bus) <= MaxBus /\ mishaps \in 0..MaxMishaps

\* Routing decides by what the store says, once the consumer has caught up, save for
\* a provider whose entry was deleted by a question or changed by a probe. Every
\* variable has its type.
RoutingFollowsStore ==
  /\ LimitTypeOK
  /\ bus = <<>> => \A p \in Providers : (p \in limited <=> entry[p] # "none") \/ p \in unheard

\* A limit that has not elapsed leaves the store because the provider answered after it
\* was recorded, or because it was decided to clear it before it was recorded.
LimitKept ==
  [][\A p \in Providers :
       entry[p] \in On /\ entry'[p] = "none" => p \in excused']_limitVars

Quiet == <>[](refuses = {} /\ batch = {})

\* When providers refuse no more and no batch runs, every limit goes from routing, save
\* those that went unheard and those of a watcher that died.
LimitsLift == Quiet => <>[](limited \subseteq unheard \/ watcher.at = "dead")

=============================================================================
