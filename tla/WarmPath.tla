------------------------------ MODULE WarmPath ------------------------------
(***************************************************************************)
(* The warm path of the taxonomy engine: the dirty set, the timer that     *)
(* runs a cycle, the phases of the cycle and where each may fail, the      *)
(* scheduler that bounds what a cycle looks at, the breaker that asks for  *)
(* the cold path, the cold path itself, and the listener that turns bus    *)
(* events into requests for a cycle.                                       *)
(*                                                                         *)
(* Sources: services/taxonomy/{engine,warm_path,cold_path}.py, main.py.    *)
(* The contents of a cluster are abstracted away: see Membership.          *)
(***************************************************************************)
EXTENDS Integers, FiniteSets, FiniteSetsExt, Functions

CONSTANTS Clusters,     \* cluster identifiers
          Projects,     \* keys of the by-project grouping
          Legacy,       \* the key of clusters marked without a project
          Boundaries,   \* what _compute_boundary may return
          MinQuota,     \* AdaptiveScheduler._MIN_QUOTA
          Breaker,      \* DEADLOCK_BREAKER_THRESHOLD
          Cadence,      \* MAINTENANCE_CYCLE_INTERVAL
          MaxMarks,     \* bound: changes made to clusters and domains
          MaxFaults     \* bound: failed phases, operator's runs and restarts, together

ASSUME WarmAssumption ==
  /\ IsFiniteSet(Clusters) /\ IsFiniteSet(Projects) /\ Legacy \in Projects
  /\ Boundaries \subseteq Nat \ {0}
  /\ MinQuota \in Nat \ {0} /\ Breaker \in Nat \ {0} /\ Cadence \in Nat \ {0}
  /\ {MaxMarks, MaxFaults} \subseteq Nat

VARIABLES
  dirty,         \* engine._dirty_set: changed cluster |-> project
  age,           \* engine._warm_path_age: 0, then 1..Cadence standing for age mod Cadence
  maintPending,  \* engine._maintenance_pending
  vocabPending,  \* engine._vocab_regen_pending # {}
  coldNeeded,    \* engine._cold_path_needed
  rejects,       \* engine._phase_rejection_counters
  lock,          \* who holds engine._warm_path_lock: "free", "timer" or "operator"
  at,            \* the step the lock holder is at
  cycle,         \* what the running cycle took and decided
  timer,         \* where _warm_path_timer is
  pending,       \* _warm_path_pending
  deletions,     \* clusters named by bulk_delete events the listener has yet to handle
  unseen,        \* history: changed clusters no completed cycle has considered
  lost,          \* history: those whose cycle failed after taking them
  spent          \* history: how much of each bound is used

engineVars == <<dirty, age, maintPending, vocabPending, coldNeeded, rejects>>
runVars    == <<lock, at, cycle>>
loopVars   == <<timer, pending, deletions>>
history    == <<unseen, lost, spent>>
vars == <<engineVars, runVars, loopVars, history>>

Speculative == {"split_emerge", "merge", "retire"}
Phases == {"reconcile", "speculate", "refresh", "maintain", "audit"}
ColdPhases == {"reembed", "reassign", "repair"}
PartialFns == UNION {[S -> Projects] : S \in SUBSET Clusters}
NoCycle == [taken |-> <<>>, scope |-> {}, robin |-> FALSE]
Bounds == [marks |-> MaxMarks, faults |-> MaxFaults]

Spend(b) == spent[b] < Bounds[b] /\ spent' = [spent EXCEPT ![b] = @ + 1]

-----------------------------------------------------------------------------
(* The scheduler.                                                          *)

DirtyOf(taken, p) == {c \in DOMAIN taken : taken[c] = p}
DirtyProjects(taken) == {taken[c] : c \in DOMAIN taken}

\* Python's round of a/b: to the nearest, a tie to the even one.
RoundDiv(a, b) ==
  LET q == a \div b
      r == a % b
  IN  IF 2 * r > b \/ (2 * r = b /\ q % 2 = 1) THEN q + 1 ELSE q

\* The share of project p, never below the floor and never above what it has.
\* The boost of starved projects is left out: see NoneSkipped.
Budget(taken, p, boundary) ==
  LET n   == Cardinality(DirtyOf(taken, p))
      raw == RoundDiv(n * boundary, Cardinality(DOMAIN taken))
  IN  Min({Max({MinQuota, raw}), n})

\* list(cids)[:budget] of a set: some budget-many clusters of each project.
Scoped(taken, boundary) ==
  {S \in SUBSET DOMAIN taken :
     \A p \in DirtyProjects(taken) :
       Cardinality(S \cap DirtyOf(taken, p)) = Budget(taken, p, boundary)}

\* What decide_mode may return for the snapshot it is given.
Modes(taken) ==
  UNION {IF Cardinality(DOMAIN taken) <= b
         THEN {[scope |-> DOMAIN taken, robin |-> FALSE]}
         ELSE {[scope |-> S, robin |-> TRUE] : S \in Scoped(taken, b)}
         : b \in Boundaries}

-----------------------------------------------------------------------------
(* Marks and events.                                                       *)

Overlay(f, S, g) == [c \in DOMAIN f \cup S |-> IF c \in S THEN g[c] ELSE f[c]]

MarkDirty(c, p) == dirty' = Overlay(dirty, {c}, [x \in {c} |-> p])

\* A change of cluster c that its author marks at once.
Touch(c, p) ==
  /\ Spend("marks")
  /\ MarkDirty(c, p)
  /\ unseen' = unseen \cup {c}
  /\ lost' = lost \ {c}

\* Mutant: the listener does not tell the events of a cycle from others.
IgnoredTwo == {"cold_path", "candidate_evaluation"}
\* A taxonomy_changed event with this trigger ("" when it carries none, as the
\* hot path's and domain_created): the listener hands it on to the timer, save
\* those the warm and the cold path send. Its hop over the bus is no step here.
IgnoredTriggers == {"warm_path", "cold_path", "candidate_evaluation"}
Publish(trigger) == pending' = (pending \/ trigger \notin IgnoredTriggers)

\* The hot path assigns an optimization, commits and publishes.
HotAssign ==
  /\ \E c \in Clusters, p \in Projects : Touch(c, p)
  /\ Publish("")
  /\ UNCHANGED <<age, maintPending, vocabPending, coldNeeded, rejects, runVars,
                 timer, deletions>>

\* A delete in another process: only the event carries the changed clusters.
ForeignDelete ==
  /\ Spend("marks")
  /\ \E c \in Clusters : /\ deletions' = deletions \cup {c}
                         /\ unseen' = unseen \cup {c}
  /\ UNCHANGED <<engineVars, runVars, timer, pending, lost>>

\* _apply_cross_process_dirty_marks: no project is known there.
ListenDeletion ==
  /\ \E c \in deletions :
       /\ deletions' = deletions \ {c}
       /\ MarkDirty(c, Legacy)
       /\ lost' = lost \ {c}
  /\ Publish("bulk_delete")
  /\ UNCHANGED <<age, maintPending, vocabPending, coldNeeded, rejects, runVars,
                 timer, unseen, spent>>

\* A seed batch assigns clusters and publishes, but marks none of them changed.
SeedAssign ==
  /\ Spend("marks")
  /\ Publish("batch_seed")
  /\ UNCHANGED <<engineVars, runVars, timer, deletions, unseen, lost>>

\* An operator creates or promotes a domain.
CreateDomain ==
  /\ Spend("marks")
  /\ Publish("")
  /\ UNCHANGED <<engineVars, runVars, timer, deletions, unseen, lost>>

-----------------------------------------------------------------------------
(* The start of a cycle.                                                   *)

NextAge(a) == IF a = Cadence THEN 1 ELSE a + 1
FirstCycle == age = 0
CadenceGate == age = Cadence
ShouldMaintain == CadenceGate \/ maintPending \/ vocabPending

\* Where the timer goes when it calls, and when what it called has returned.
Calling(by) == timer' = IF by # "timer" THEN timer
                        ELSE IF timer = "boot" THEN "booting" ELSE "warm"

AfterCall(by) == timer' = IF by = "timer"
                          THEN (IF timer \in {"warm", "call"} THEN "lifecycle" ELSE "wait")
                          ELSE timer

\* The first cycle looks at every cluster and leaves the dirty set as it is.
BeginFull(by) ==
  /\ FirstCycle
  /\ lock' = by /\ at' = "reconcile"
  /\ cycle' = [NoCycle EXCEPT !.scope = Clusters]
  /\ Calling(by)
  /\ UNCHANGED <<engineVars, pending, deletions>>

\* Later ones take the dirty set, clear it, and ask the scheduler for a scope.
BeginDirty(by) ==
  /\ ~FirstCycle /\ DOMAIN dirty # {}
  /\ lock' = by /\ at' = "reconcile"
  /\ \E m \in Modes(dirty) :
       cycle' = [NoCycle EXCEPT !.taken = dirty, !.scope = m.scope, !.robin = m.robin]
  /\ dirty' = <<>>
  /\ Calling(by)
  /\ UNCHANGED <<age, maintPending, vocabPending, coldNeeded, rejects, pending, deletions>>

\* Nothing changed: only the maintenance phases, when they are due.
BeginMaintenance(by) ==
  /\ ~FirstCycle /\ DOMAIN dirty = {} /\ ShouldMaintain
  /\ lock' = by /\ at' = "maintain"
  /\ cycle' = NoCycle
  /\ Calling(by)
  /\ UNCHANGED <<engineVars, pending, deletions>>

\* Nothing changed and nothing is due.
SkipCycle(by) ==
  /\ ~FirstCycle /\ DOMAIN dirty = {} /\ ~ShouldMaintain
  /\ age' = NextAge(age)
  /\ AfterCall(by)
  /\ UNCHANGED <<dirty, maintPending, vocabPending, coldNeeded, rejects, runVars,
                 pending, deletions>>

\* run_warm_path: a caller that finds the lock held returns without a result.
RunWarm(by) ==
  IF lock # "free"
  THEN AfterCall(by) /\ UNCHANGED <<engineVars, runVars, pending, deletions>>
  ELSE BeginFull(by) \/ BeginDirty(by) \/ BeginMaintenance(by) \/ SkipCycle(by)

-----------------------------------------------------------------------------
(* The phases of a cycle.                                                  *)

InCycle(phase) == lock # "free" /\ at = phase

\* Phase 0 and phase 0.5 commit their repairs; promotions are announced.
Reconcile ==
  /\ InCycle("reconcile")
  /\ at' = "speculate"
  /\ Publish("candidate_evaluation")
  /\ UNCHANGED <<engineVars, lock, cycle, timer, deletions, history>>

\* Merging and retiring mark the survivors, and the marks stay when the gate
\* rolls the phase back.
PhaseMarks == \/ UNCHANGED <<dirty, unseen, lost, spent>>
              \/ \E c \in Clusters, p \in Projects : Touch(c, p)

\* _update_phase_rejection_counters, once the three verdicts are in.
CountRejections(rejected) ==
  LET count == [p \in Speculative |->
                  IF p \in rejected THEN Min({rejects[p] + 1, Breaker}) ELSE 0]
  IN  /\ rejects' = count
      /\ coldNeeded' = (coldNeeded \/ \E p \in Speculative : count[p] >= Breaker)

\* Phases 1 to 3, each kept or rolled back by its quality gate.
Speculate ==
  /\ InCycle("speculate")
  /\ \E rejected \in SUBSET Speculative : CountRejections(rejected)
  /\ PhaseMarks
  /\ at' = "refresh"
  /\ UNCHANGED <<age, maintPending, vocabPending, lock, cycle, loopVars>>

\* Phases 4 to 4.76: stale patterns are extracted again, wherever they are.
Refresh ==
  /\ InCycle("refresh")
  /\ at' = "maintain"
  /\ UNCHANGED <<engineVars, lock, cycle, loopVars, unseen, lost, spent>>

\* The vocabulary pass regenerates what is pending, or fails and is caught.
RefreshVocab(left) == left \in {vocabPending, FALSE}

\* Discovery may create a domain, which is announced, or a sub-domain, which
\* asks for a vocabulary. A failure is caught and asks for a retry.
Discover(left) ==
  \/ /\ maintPending' = FALSE
     /\ \/ vocabPending' = left /\ UNCHANGED <<pending, spent>>
        \/ Spend("marks") /\ vocabPending' = TRUE /\ UNCHANGED pending
        \/ Spend("marks") /\ vocabPending' = left /\ Publish("")
  \/ /\ Spend("faults")
     /\ maintPending' = TRUE /\ vocabPending' = left
     /\ UNCHANGED pending

\* Phases 4.95 to 5.9.
Maintain ==
  /\ InCycle("maintain")
  /\ \E left \in BOOLEAN : RefreshVocab(left) /\ Discover(left)
  /\ at' = "audit"
  /\ UNCHANGED <<dirty, age, coldNeeded, rejects, lock, cycle, timer, deletions,
                 unseen, lost>>

Release == lock' = "free" /\ at' = "idle" /\ cycle' = NoCycle

\* Mutant: what the budgets left out is forgotten.
ReinjectNothing == dirty' = dirty

\* Mutant: everything taken goes back, and the next cycle begins again.
ReinjectAll == dirty' = IF cycle.robin THEN Overlay(dirty, DOMAIN cycle.taken, cycle.taken)
                        ELSE dirty

\* What the budgets left out goes back into the dirty set.
Reinject ==
  dirty' = IF cycle.robin
           THEN Overlay(dirty, DOMAIN cycle.taken \ cycle.scope, cycle.taken)
           ELSE dirty

\* Phase 6 and the end of the cycle.
Audit ==
  /\ InCycle("audit")
  /\ age' = NextAge(age)
  /\ Publish("warm_path")
  /\ Reinject
  /\ unseen' = unseen \ (cycle.scope \ DOMAIN dirty')
  /\ Release /\ AfterCall(lock)
  /\ UNCHANGED <<maintPending, vocabPending, coldNeeded, rejects, deletions, lost, spent>>

\* A phase that nothing guards raises: run_warm_path counts the cycle and
\* reports an error. What the cycle had taken is in no set any more.
CycleRaises ==
  /\ lock # "free" /\ at \in Phases \ {"maintain"}
  /\ Spend("faults")
  /\ age' \in {NextAge(age)} \cup (IF at = "audit" THEN {NextAge(NextAge(age))} ELSE {})
  /\ lost' = (lost \cup (unseen \cap (cycle.scope \cup DOMAIN cycle.taken))) \ DOMAIN dirty
  /\ Release /\ AfterCall(lock)
  /\ UNCHANGED <<dirty, maintPending, vocabPending, coldNeeded, rejects, pending, deletions,
                 unseen>>

-----------------------------------------------------------------------------
(* The cold path and the projection.                                       *)

\* run_cold_path: like the warm path, it returns at once when the lock is held.
RunCold(by) ==
  /\ IF lock # "free"
     THEN UNCHANGED runVars /\ timer' = IF by = "timer" THEN "wait" ELSE timer
     ELSE /\ lock' = by /\ at' = "reembed" /\ cycle' = NoCycle
          /\ timer' = IF by = "timer" THEN "cold" ELSE timer
  /\ UNCHANGED <<engineVars, pending, deletions>>

ColdEnds == Release /\ AfterCall(lock)

\* Too few clusters to refit: an accepted run that changes nothing.
ColdShortCircuit ==
  /\ InCycle("reembed")
  /\ ColdEnds
  /\ UNCHANGED <<engineVars, pending, deletions, history>>

\* Phases 1 and 2 pass their quality gate, phase 3 has none.
ColdAdvance ==
  /\ \/ InCycle("reembed")  /\ at' = "reassign"
     \/ InCycle("reassign") /\ at' = "repair"
  /\ UNCHANGED <<engineVars, lock, cycle, loopVars, history>>

\* A failed gate rolls the refit back and leaves the request for one standing.
ColdReject ==
  /\ InCycle("reembed") \/ InCycle("reassign")
  /\ Publish("cold_path_rejected")
  /\ ColdEnds
  /\ UNCHANGED <<engineVars, deletions, history>>

\* Phases 3 and 4 complete the refit.
ColdAccept ==
  /\ InCycle("repair")
  /\ coldNeeded' = FALSE
  /\ Publish("cold_path")
  /\ ColdEnds
  /\ UNCHANGED <<dirty, age, maintPending, vocabPending, rejects, deletions, history>>

\* It raises: in phase 4 perhaps after the request was taken as served.
ColdRaises ==
  /\ lock # "free" /\ at \in ColdPhases
  /\ Spend("faults")
  /\ coldNeeded' \in {coldNeeded} \cup (IF at = "repair" THEN {FALSE} ELSE {})
  /\ ColdEnds
  /\ UNCHANGED <<dirty, age, maintPending, vocabPending, rejects, pending, deletions,
                 unseen, lost>>

\* The timer projects clusters without a position, when no refit is needed.
RunProjection ==
  /\ timer = "refit" /\ ~coldNeeded /\ lock = "free"
  /\ lock' = "timer" /\ at' = "umap" /\ timer' = "cold"
  /\ UNCHANGED <<engineVars, cycle, pending, deletions, history>>

ProjectionEnds ==
  /\ InCycle("umap")
  /\ Release /\ AfterCall(lock)
  /\ UNCHANGED <<engineVars, pending, deletions, history>>

-----------------------------------------------------------------------------
(* The timer.                                                              *)

\* The first run, as soon as a provider is there; the loop starts after it.
TimerBoot ==
  /\ timer = "boot"
  /\ RunWarm("timer")
  /\ UNCHANGED history

\* An event wakes it; every further one starts the debounce again.
TimerWake ==
  /\ timer \in {"wait", "debounce"} /\ pending
  /\ pending' = FALSE /\ timer' = "debounce"
  /\ UNCHANGED <<engineVars, runVars, deletions, history>>

\* The interval passes without an event, or the debounce without another.
TimerElapses ==
  /\ timer \in {"wait", "debounce"} /\ ~pending
  /\ timer' = "call"
  /\ UNCHANGED <<engineVars, runVars, pending, deletions, history>>

TimerRunsWarm ==
  /\ timer = "call"
  /\ RunWarm("timer")
  /\ UNCHANGED history

\* curate and decay_usage, their failure caught, then scan_and_recover, which
\* assigns orphans and marks their clusters without an event.
TimerRecovers ==
  /\ timer = "lifecycle"
  /\ timer' = "refit"
  /\ PhaseMarks
  /\ UNCHANGED <<age, maintPending, vocabPending, coldNeeded, rejects, runVars,
                 pending, deletions>>

TimerRefits ==
  /\ timer = "refit" /\ coldNeeded
  /\ RunCold("timer")
  /\ UNCHANGED history

\* Nothing to refit, and nothing to project or the lock is held.
TimerRests ==
  /\ timer = "refit" /\ ~coldNeeded
  /\ timer' = "wait"
  /\ UNCHANGED <<engineVars, runVars, pending, deletions, history>>

\* POST /api/taxonomy/reset and POST /api/clusters/recluster.
Operator ==
  /\ Spend("faults")
  /\ RunWarm("operator") \/ RunCold("operator")
  /\ UNCHANGED <<unseen, lost>>

\* A restart keeps the database only: every cluster is looked at again.
Crash ==
  /\ Spend("faults")
  /\ dirty' = <<>> /\ age' = 0 /\ maintPending' = FALSE /\ vocabPending' = FALSE
  /\ coldNeeded' = FALSE /\ rejects' = [p \in Speculative |-> 0]
  /\ Release
  /\ timer' = "boot" /\ pending' = FALSE /\ deletions' = {}
  /\ lost' = {}
  /\ UNCHANGED <<unseen>>

-----------------------------------------------------------------------------
Init ==
  /\ dirty = <<>> /\ age = 0 /\ maintPending = FALSE /\ vocabPending = FALSE
  /\ coldNeeded = FALSE /\ rejects = [p \in Speculative |-> 0]
  /\ lock = "free" /\ at = "idle" /\ cycle = NoCycle
  /\ timer = "boot" /\ pending = FALSE /\ deletions = {}
  /\ unseen = {} /\ lost = {}
  /\ spent = [b \in DOMAIN Bounds |-> 0]

CycleStep ==
  \/ Reconcile \/ Speculate \/ Refresh \/ Maintain \/ Audit \/ CycleRaises
  \/ ColdShortCircuit \/ ColdAdvance \/ ColdReject \/ ColdAccept \/ ColdRaises
  \/ ProjectionEnds

TimerStep ==
  \/ TimerBoot \/ TimerWake \/ TimerElapses \/ TimerRunsWarm
  \/ TimerRecovers \/ TimerRefits \/ RunProjection \/ TimerRests

Outside == HotAssign \/ ForeignDelete \/ SeedAssign \/ CreateDomain \/ Operator \/ Crash

Next == CycleStep \/ TimerStep \/ ListenDeletion \/ Outside

\* The event loop runs every task that is ready; nothing forces the outside.
Fairness == /\ WF_vars(CycleStep) /\ WF_vars(TimerStep)
            /\ WF_vars(ListenDeletion)

Spec == Init /\ [][Next]_vars /\ Fairness

-----------------------------------------------------------------------------
(* Properties.                                                             *)

TypeOK ==
  /\ dirty \in PartialFns /\ age \in 0..Cadence
  /\ {maintPending, vocabPending, coldNeeded, pending} \subseteq BOOLEAN
  /\ rejects \in [Speculative -> 0..Breaker]
  /\ lock \in {"free", "timer", "operator"}
  /\ at \in {"idle", "umap"} \cup Phases \cup ColdPhases
  /\ (lock = "free") = (at = "idle")
  /\ cycle.taken \in PartialFns /\ cycle.scope \subseteq Clusters
  /\ cycle.robin \in BOOLEAN
  /\ timer \in {"boot", "booting", "wait", "debounce", "call", "warm", "lifecycle", "refit", "cold"}
  /\ (lock = "timer") = (timer \in {"booting", "warm", "cold"})
  /\ unseen \cup lost \cup deletions \subseteq Clusters

\* A changed cluster is never dropped silently: until a completed cycle has
\* considered it, it is in the dirty set, in what the running cycle took, on
\* its way from another process, or was lost by a cycle that raised. Before
\* the first cycle completes, that cycle will look at everything. A cycle
\* with budgets works on some cluster of every project that has a changed one.
Accounted ==
  /\ TypeOK
  /\ FirstCycle \/ unseen \subseteq DOMAIN dirty \cup DOMAIN cycle.taken \cup cycle.scope
                                     \cup deletions \cup lost
  /\ cycle.robin => \A p \in DirtyProjects(cycle.taken) :
                      DirtyOf(cycle.taken, p) \cap cycle.scope # {}

\* When changes, failures, operators and restarts stop, every changed cluster
\* that no failure lost has been considered, and stays so: budgets, held
\* locks, consumed events and restarts delay it but never strand it; and a
\* refit the breaker asks for is attempted, or the request is taken back.
Drains ==
  /\ <>[](unseen \subseteq lost)
  /\ coldNeeded ~> (at \in ColdPhases \/ ~coldNeeded)

\* The warm and the cold path do not wake the timer again (main.py:1148-1154):
\* a system to which nothing more happens comes to rest, unless refits are
\* rejected over and over, each of which does wake it.
ComesToRest == <>[]~pending \/ []<><<ColdReject>>_vars
=============================================================================
