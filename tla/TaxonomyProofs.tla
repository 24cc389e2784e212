--------------------------- MODULE TaxonomyProofs ---------------------------
(***************************************************************************)
(* The taxonomy, in two parts: the dirty set of the warm path (WarmPath),  *)
(* then who belongs to which cluster (Membership). Neither part uses a     *)
(* variable of the other.                                                  *)
(*                                                                         *)
(* A changed cluster is in the dirty set, taken by the running cycle, on   *)
(* its way from another process, or lost by a cycle that raised, until a   *)
(* completed cycle has considered it.                                      *)
(*                                                                         *)
(* The argument follows what a cycle took: without budgets its scope is    *)
(* all of it, with budgets what the scope leaves out goes back, and the    *)
(* first cycle looks at everything. A budget is never zero.                *)
(***************************************************************************)
EXTENDS WarmPath, Membership, FiniteSetTheorems, SequenceTheorems, TLAPS

\* Only the phases of a warm cycle have something taken.
Quiet == at \notin Phases => cycle = NoCycle

\* The first cycle looks at everything.
First == FirstCycle /\ at \in Phases => cycle.scope = Clusters /\ ~cycle.robin

\* Without budgets, what was taken is looked at.
Whole == ~cycle.robin => DOMAIN cycle.taken \subseteq cycle.scope

Remembered == FirstCycle \/ unseen \subseteq DOMAIN dirty \cup DOMAIN cycle.taken \cup cycle.scope
                                          \cup deletions \cup lost

Shared == cycle.robin => \A p \in DirtyProjects(cycle.taken) :
                           DirtyOf(cycle.taken, p) \cap cycle.scope # {}

IInv == TypeOK /\ Quiet /\ First /\ Whole /\ Remembered /\ Shared

-----------------------------------------------------------------------------
(* The scheduler.                                                          *)

LEMMA NoneIsFn == <<>> \in PartialFns /\ DOMAIN <<>> = {}
  <1>1. <<>> \in [{} -> Projects] /\ DOMAIN <<>> = {}
    OBVIOUS
  <1>2. [{} -> Projects] \in {[S -> Projects] : S \in SUBSET Clusters}
    OBVIOUS
  <1>. QED  BY <1>1, <1>2 DEF PartialFns

LEMMA FnIs ==
    ASSUME NEW f
    PROVE  f \in PartialFns <=> f \in [DOMAIN f -> Projects] /\ DOMAIN f \subseteq Clusters
  BY DEF PartialFns

LEMMA OverlayIs ==
    ASSUME NEW f \in PartialFns, NEW S \in SUBSET Clusters, NEW g, \A c \in S : g[c] \in Projects
    PROVE  Overlay(f, S, g) \in PartialFns /\ DOMAIN Overlay(f, S, g) = DOMAIN f \cup S
  <1>1. f \in [DOMAIN f -> Projects] /\ DOMAIN f \subseteq Clusters
    BY FnIs
  <1>2. Overlay(f, S, g) \in [DOMAIN f \cup S -> Projects]
    BY <1>1 DEF Overlay
  <1>3. DOMAIN Overlay(f, S, g) = DOMAIN f \cup S
    BY DEF Overlay
  <1>. QED  BY <1>1, <1>2, <1>3, FnIs

LEMMA MaxOfTwo ==
    ASSUME NEW a \in Int, NEW b \in Int
    PROVE  Max({a, b}) \in {a, b} /\ Max({a, b}) >= a /\ Max({a, b}) >= b
  <1>1. \E x \in {a, b} : \A y \in {a, b} : x >= y
    OBVIOUS
  <1>. QED  BY <1>1 DEF Max

LEMMA MinOfTwo ==
    ASSUME NEW a \in Int, NEW b \in Int
    PROVE  Min({a, b}) \in {a, b} /\ Min({a, b}) <= a /\ Min({a, b}) <= b
  <1>1. \E x \in {a, b} : \A y \in {a, b} : x =< y
    OBVIOUS
  <1>. QED  BY <1>1 DEF Min

LEMMA ShareIsSome ==
    ASSUME NEW taken \in PartialFns, NEW p \in DirtyProjects(taken), NEW b \in Nat \ {0}
    PROVE  Budget(taken, p, b) \in Nat \ {0}
  <1> DEFINE n == Cardinality(DirtyOf(taken, p))
             d == Cardinality(DOMAIN taken)
             raw == RoundDiv(n * b, d)
  <1>1. IsFiniteSet(DOMAIN taken)
    BY FnIs, FS_Subset, WarmAssumption
  <1>2. IsFiniteSet(DirtyOf(taken, p)) /\ DirtyOf(taken, p) # {} /\ DOMAIN taken # {}
    BY <1>1, FS_Subset DEF DirtyOf, DirtyProjects
  <1>3. n \in Nat \ {0} /\ d \in Nat \ {0}
    BY <1>1, <1>2, FS_CardinalityType, FS_EmptySet
  <1> HIDE DEF n, d
  <1>4. n * b \in Nat
    BY <1>3
  <1>5. raw \in Int
    <2> DEFINE a == n * b
    <2>1. a \in Int /\ d \in Nat \ {0}
      BY <1>3, <1>4
    <2> HIDE DEF a
    <2>2. a \div d \in Int /\ a % d \in Int
      BY <2>1
    <2>3. RoundDiv(a, d) \in Int
      BY <2>2 DEF RoundDiv
    <2>4. QED  BY <2>3 DEF a
  <1> HIDE DEF raw
  <1>6. PICK x \in Int : x = Max({MinQuota, raw}) /\ x >= 1
    <2>1. MinQuota \in Int /\ MinQuota >= 1
      BY WarmAssumption
    <2>2. Max({MinQuota, raw}) \in {MinQuota, raw} /\ Max({MinQuota, raw}) >= MinQuota
      BY <1>5, <2>1, MaxOfTwo
    <2>3. QED  BY <1>5, <2>1, <2>2
  <1>7. Min({Max({MinQuota, raw}), n}) \in Nat \ {0}
    <2>1. n \in Int
      BY <1>3
    <2>2. Min({x, n}) \in {x, n}
      BY <2>1, MinOfTwo
    <2>3. QED  BY <1>3, <1>6, <2>2
  <1>8. Budget(taken, p, b) = Min({Max({MinQuota, raw}), n})
    BY DEF Budget, n, d, raw
  <1>. QED  BY <1>7, <1>8

LEMMA ModesAre ==
    ASSUME NEW taken \in PartialFns, NEW m \in Modes(taken)
    PROVE  /\ m.scope \subseteq DOMAIN taken /\ m.robin \in BOOLEAN
           /\ ~m.robin => DOMAIN taken \subseteq m.scope
           /\ m.robin => \A p \in DirtyProjects(taken) : DirtyOf(taken, p) \cap m.scope # {}
  <1>1. PICK b \in Boundaries :
          m \in IF Cardinality(DOMAIN taken) <= b
                THEN {[scope |-> DOMAIN taken, robin |-> FALSE]}
                ELSE {[scope |-> S, robin |-> TRUE] : S \in Scoped(taken, b)}
    BY DEF Modes
  <1>2. CASE Cardinality(DOMAIN taken) <= b
    <2>1. m = [scope |-> DOMAIN taken, robin |-> FALSE]
      BY <1>1, <1>2
    <2>2. QED  BY <2>1
  <1>3. CASE ~(Cardinality(DOMAIN taken) <= b)
    <2>1. PICK S \in Scoped(taken, b) : m = [scope |-> S, robin |-> TRUE]
      BY <1>1, <1>3
    <2>2. S \subseteq DOMAIN taken
      BY DEF Scoped
    <2>3. ASSUME NEW p \in DirtyProjects(taken), DirtyOf(taken, p) \cap S = {}
          PROVE  FALSE
      <3>1. Cardinality(S \cap DirtyOf(taken, p)) = Budget(taken, p, b)
        BY DEF Scoped
      <3>2. S \cap DirtyOf(taken, p) = {}
        BY <2>3
      <3>3. Budget(taken, p, b) \in Nat \ {0}
        BY ShareIsSome, WarmAssumption
      <3>4. QED  BY <3>1, <3>2, <3>3, FS_EmptySet
    <2>. QED  BY <2>1, <2>2, <2>3
  <1>. QED  BY <1>2, <1>3

-----------------------------------------------------------------------------
(* The steps.                                                              *)

\* The engine, its lock and its timer are typed and go together.
Engine == /\ age \in 0..Cadence
          /\ maintPending \in BOOLEAN /\ vocabPending \in BOOLEAN /\ coldNeeded \in BOOLEAN
          /\ pending \in BOOLEAN /\ rejects \in [Speculative -> 0..Breaker]

Times == {"boot", "booting", "wait", "debounce", "call", "warm", "lifecycle", "refit", "cold"}

Held == /\ lock \in {"free", "timer", "operator"}
        /\ at \in {"idle", "umap"} \cup Phases \cup ColdPhases
        /\ lock = "free" <=> at = "idle"
        /\ timer \in Times
        /\ lock = "timer" <=> timer \in {"booting", "warm", "cold"}

Sets == /\ dirty \in PartialFns
        /\ cycle.taken \in PartialFns /\ cycle.scope \subseteq Clusters /\ cycle.robin \in BOOLEAN
        /\ unseen \subseteq Clusters /\ lost \subseteq Clusters /\ deletions \subseteq Clusters

\* The conjuncts about what a cycle took.
Cycle == Quiet /\ First /\ Whole /\ Shared

LEMMA Builds == ASSUME Engine', Held', Sets', Cycle', Remembered' PROVE IInv'
  <1>1. TypeOK'
    BY DEF TypeOK, Engine, Held, Sets, Times
  <1>. QED  BY <1>1 DEF IInv, Cycle

LEMMA Gives == ASSUME IInv PROVE Engine /\ Held /\ Sets /\ Cycle /\ Remembered
  <1>1. TypeOK
    BY DEF IInv
  <1>2. Engine /\ Held /\ Sets
    BY <1>1 DEF TypeOK, Engine, Held, Sets, Times
  <1>. QED  BY <1>2 DEF IInv, Cycle

LEMMA MarkIs ==
    ASSUME IInv, NEW c \in Clusters, NEW p \in Projects, MarkDirty(c, p)
    PROVE  dirty' \in PartialFns /\ DOMAIN dirty' = DOMAIN dirty \cup {c}
  <1>1. dirty \in PartialFns
    BY Gives DEF Sets
  <1>. QED  BY <1>1, OverlayIs DEF MarkDirty

\* What was taken, and the rest of the cycle, stays; a change may be marked.
LEMMA MarksKeep ==
    ASSUME IInv, UNCHANGED <<age, cycle, deletions>>,
           \/ UNCHANGED <<dirty, unseen, lost>>
           \/ \E c \in Clusters, p \in Projects : Touch(c, p)
    PROVE  Sets' /\ Remembered' /\ Whole' /\ Shared'
  <1>1. Sets /\ Whole /\ Shared /\ Remembered
    BY Gives DEF Cycle
  <1>2. Whole' /\ Shared'
    BY <1>1 DEF Whole, Shared
  <1>3. CASE UNCHANGED <<dirty, unseen, lost>>
    BY <1>1, <1>2, <1>3 DEF Sets, Remembered, FirstCycle
  <1>4. ASSUME NEW c \in Clusters, NEW p \in Projects, Touch(c, p)
        PROVE  Sets' /\ Remembered'
    <2>1. dirty' \in PartialFns /\ DOMAIN dirty' = DOMAIN dirty \cup {c}
          /\ unseen' = unseen \cup {c} /\ lost' = lost \ {c}
      BY <1>4, MarkIs DEF Touch
    <2>2. Sets'
      BY <1>1, <2>1 DEF Sets
    <2>3. Remembered'
      BY <1>1, <2>1 DEF Remembered, FirstCycle
    <2>4. QED  BY <2>2, <2>3
  <1>. QED  BY <1>2, <1>3, <1>4

\* Nothing that the sets are about changes but the place in the cycle.
LEMMA MovesKeep ==
    ASSUME IInv, UNCHANGED <<age, cycle, deletions>>,
           \/ UNCHANGED <<dirty, unseen, lost>>
           \/ \E c \in Clusters, p \in Projects : Touch(c, p),
           at' \in Phases => at \in Phases,
           at' \notin Phases => at \notin Phases,
           Engine', Held'
    PROVE  IInv'
  <1>1. Sets' /\ Remembered' /\ Whole' /\ Shared'
    BY MarksKeep
  <1>2. Quiet' /\ First'
    BY Gives DEF Cycle, Quiet, First, FirstCycle
  <1>. QED  BY <1>1, <1>2, Builds DEF Cycle

LEMMA IdleCycle ==
    ASSUME IInv, at \notin Phases
    PROVE  cycle = NoCycle /\ cycle.taken = <<>> /\ cycle.scope = {} /\ cycle.robin = FALSE
           /\ DOMAIN cycle.taken = {}
  BY Gives, NoneIsFn DEF Cycle, Quiet, NoCycle

\* A cycle ends, or none begins.
LEMMA NoCycleIs ==
    ASSUME cycle' = NoCycle, at' \notin Phases
    PROVE  (/\ Cycle /\ cycle.taken \in PartialFns /\ cycle.scope = {} /\ cycle.robin = FALSE
            /\ DOMAIN cycle.taken = {})'
  BY NoneIsFn DEF Cycle, Quiet, First, Whole, Shared, NoCycle

LEMMA NextAgeIs ==
    ASSUME NEW a \in 0..Cadence
    PROVE  NextAge(a) \in 1..Cadence
  BY WarmAssumption DEF NextAge

LEMMA FreeKeeps ==
    ASSUME IInv, at \notin Phases, cycle' = NoCycle, at' \notin Phases,
           UNCHANGED <<dirty, unseen, lost, deletions>>, FirstCycle' \/ ~FirstCycle,
           Engine', Held'
    PROVE  IInv'
  <1>1. Cycle' /\ (cycle.taken \in PartialFns /\ cycle.scope = {} /\ cycle.robin = FALSE)'
        /\ (DOMAIN cycle.taken = {})'
    BY NoCycleIs
  <1>2. DOMAIN cycle.taken = {} /\ cycle.scope = {}
    BY IdleCycle
  <1>3. Sets'
    BY <1>1, Gives DEF Sets
  <1>4. Remembered'
    BY <1>1, <1>2, Gives DEF Remembered
  <1>. QED  BY <1>1, <1>3, <1>4, Builds

LEMMA ReleaseIs ==
    ASSUME IInv, lock # "free", Release, AfterCall(lock)
    PROVE  Held' /\ cycle' = NoCycle /\ at' \notin Phases
  BY Gives DEF Release, AfterCall, Held, Times, Phases

LEMMA ReconcileKeeps == ASSUME IInv, Reconcile PROVE IInv'
  <1>1. Engine' /\ Held'
    BY Gives DEF Reconcile, InCycle, Publish, Engine, Held, Times, Phases, engineVars
  <1>. QED  BY <1>1, MovesKeep DEF Reconcile, InCycle, Phases, engineVars, history

LEMMA SpeculateKeeps == ASSUME IInv, Speculate PROVE IInv'
  <1>1. rejects' \in [Speculative -> 0..Breaker] /\ coldNeeded' \in BOOLEAN
    <2>1. PICK rejected \in SUBSET Speculative : CountRejections(rejected)
      BY DEF Speculate
    <2>2. rejects \in [Speculative -> 0..Breaker] /\ Breaker \in Nat \ {0}
      BY Gives, WarmAssumption DEF Engine
    <2>3. ASSUME NEW q \in Speculative
          PROVE  (IF q \in rejected THEN Min({rejects[q] + 1, Breaker}) ELSE 0) \in 0..Breaker
      <3>1. PICK n \in Int : n = rejects[q] + 1 /\ n > 0
        BY <2>2
      <3>2. Min({n, Breaker}) \in {n, Breaker} /\ Min({n, Breaker}) <= Breaker
        BY <2>2, MinOfTwo
      <3>3. QED  BY <2>2, <3>1, <3>2
    <2>4. QED  BY <2>1, <2>3, Gives DEF CountRejections, Engine
  <1>2. PhaseMarks /\ InCycle("speculate") /\ at' = "refresh"
        /\ UNCHANGED <<age, maintPending, vocabPending, lock, cycle, timer, pending, deletions>>
    BY DEF Speculate, loopVars
  <1>3. Engine' /\ Held'
    BY <1>1, <1>2, Gives DEF InCycle, Engine, Held, Phases
  <1>4. \/ UNCHANGED <<dirty, unseen, lost>>
        \/ \E c \in Clusters, p \in Projects : Touch(c, p)
    BY <1>2 DEF PhaseMarks
  <1>. QED  BY <1>2, <1>3, <1>4, MovesKeep DEF InCycle, Phases

LEMMA RefreshKeeps == ASSUME IInv, Refresh PROVE IInv'
  <1>1. Engine' /\ Held'
    BY Gives DEF Refresh, InCycle, Engine, Held, Times, Phases, engineVars, loopVars
  <1>. QED  BY <1>1, MovesKeep DEF Refresh, InCycle, Phases, engineVars, loopVars

LEMMA MaintainKeeps == ASSUME IInv, Maintain PROVE IInv'
  <1>1. maintPending' \in BOOLEAN /\ vocabPending' \in BOOLEAN /\ pending' \in BOOLEAN
    BY Gives DEF Maintain, RefreshVocab, Discover, Publish, Engine
  <1>2. Engine' /\ Held'
    BY <1>1, Gives DEF Maintain, InCycle, Engine, Held, Times, Phases
  <1>. QED  BY <1>2, MovesKeep DEF Maintain, InCycle, Phases

LEMMA AuditKeeps == ASSUME IInv, Audit PROVE IInv'
  <1>1. /\ lock # "free" /\ at = "audit" /\ at \in Phases /\ age' = NextAge(age) /\ Reinject
        /\ unseen' = unseen \ (cycle.scope \ DOMAIN dirty')
        /\ Release /\ AfterCall(lock) /\ pending' \in BOOLEAN
        /\ UNCHANGED <<maintPending, vocabPending, coldNeeded, rejects, deletions, lost>>
    BY Gives DEF Audit, InCycle, Publish, Engine, Phases
  <1>2. Held' /\ cycle' = NoCycle /\ at' \notin Phases
    BY <1>1, ReleaseIs
  <1>3. age' \in 1..Cadence
    BY <1>1, NextAgeIs, Gives DEF Engine
  <1>4. Engine'
    BY <1>1, <1>3, Gives DEF Engine
  <1>5. /\ dirty' \in PartialFns /\ DOMAIN dirty \subseteq DOMAIN dirty'
        /\ cycle.robin => DOMAIN cycle.taken \ cycle.scope \subseteq DOMAIN dirty'
    <2>1. dirty \in PartialFns /\ cycle.taken \in PartialFns
      BY Gives DEF Sets
    <2>2. \A c \in DOMAIN cycle.taken : c \in Clusters /\ cycle.taken[c] \in Projects
      BY <2>1, FnIs
    <2>3. cycle.robin =>
            /\ Overlay(dirty, DOMAIN cycle.taken \ cycle.scope, cycle.taken) \in PartialFns
            /\ DOMAIN Overlay(dirty, DOMAIN cycle.taken \ cycle.scope, cycle.taken)
                 = DOMAIN dirty \cup (DOMAIN cycle.taken \ cycle.scope)
      <3> DEFINE S == DOMAIN cycle.taken \ cycle.scope
      <3>1. S \in SUBSET Clusters /\ \A c \in S : cycle.taken[c] \in Projects
        BY <2>2
      <3> HIDE DEF S
      <3>2. /\ Overlay(dirty, S, cycle.taken) \in PartialFns
            /\ DOMAIN Overlay(dirty, S, cycle.taken) = DOMAIN dirty \cup S
        BY <2>1, <3>1, OverlayIs
      <3>3. QED  BY <3>2 DEF S
    <2>4. QED  BY <1>1, <2>1, <2>3 DEF Reinject
  <1>6. (/\ Cycle /\ cycle.taken \in PartialFns /\ cycle.scope = {} /\ cycle.robin = FALSE
         /\ DOMAIN cycle.taken = {})'
    BY <1>2, NoCycleIs
  <1>7. Sets'
    BY <1>1, <1>5, <1>6, Gives DEF Sets
  <1>8. Remembered'
    <2>1. Remembered /\ First /\ Whole /\ unseen \subseteq Clusters
      BY Gives DEF Cycle, Sets
    <2>2. CASE FirstCycle
      BY <1>1, <2>1, <2>2 DEF First, Remembered
    <2>3. CASE ~FirstCycle
      BY <1>1, <1>5, <2>1, <2>3 DEF Remembered, Whole
    <2>. QED  BY <2>2, <2>3
  <1>. QED  BY <1>2, <1>4, <1>6, <1>7, <1>8, Builds

LEMMA CycleRaisesKeeps == ASSUME IInv, CycleRaises PROVE IInv'
  <1>1. /\ lock # "free" /\ at \in Phases /\ at # "maintain"
        /\ age' \in {NextAge(age), NextAge(NextAge(age))}
        /\ lost' = (lost \cup (unseen \cap (cycle.scope \cup DOMAIN cycle.taken))) \ DOMAIN dirty
        /\ Release /\ AfterCall(lock)
        /\ UNCHANGED <<dirty, maintPending, vocabPending, coldNeeded, rejects, pending, deletions, unseen>>
    BY DEF CycleRaises
  <1>2. Held' /\ cycle' = NoCycle /\ at' \notin Phases
    BY <1>1, ReleaseIs
  <1>3. age' \in 1..Cadence
    <2>1. NextAge(age) \in 1..Cadence
      BY NextAgeIs, Gives DEF Engine
    <2>2. NextAge(age) \in 0..Cadence
      BY <2>1, WarmAssumption
    <2>3. QED  BY <1>1, <2>1, <2>2, NextAgeIs
  <1>4. Engine'
    BY <1>1, <1>3, Gives DEF Engine
  <1>5. (/\ Cycle /\ cycle.taken \in PartialFns /\ cycle.scope = {} /\ cycle.robin = FALSE
         /\ DOMAIN cycle.taken = {})'
    BY <1>2, NoCycleIs
  <1>6. Sets'
    BY <1>1, <1>5, Gives DEF Sets
  <1>7. Remembered'
    BY <1>1, Gives DEF Remembered, Cycle, First, Sets
  <1>. QED  BY <1>2, <1>4, <1>5, <1>6, <1>7, Builds

LEMMA ColdKeeps ==
    ASSUME IInv, lock # "free", at \notin Phases, Release, AfterCall(lock),
           UNCHANGED <<dirty, age, maintPending, vocabPending, rejects, deletions, unseen, lost>>,
           coldNeeded' \in BOOLEAN, pending' \in BOOLEAN
    PROVE  IInv'
  <1>1. Held' /\ cycle' = NoCycle /\ at' \notin Phases
    BY ReleaseIs
  <1>2. Engine' /\ (FirstCycle' \/ ~FirstCycle)
    BY Gives DEF Engine, FirstCycle
  <1>. QED  BY <1>1, <1>2, FreeKeeps

LEMMA ColdAdvanceKeeps == ASSUME IInv, ColdAdvance PROVE IInv'
  <1>1. Engine' /\ Held' /\ at \notin Phases /\ at' \notin Phases
        /\ UNCHANGED <<age, cycle, deletions, dirty, unseen, lost>>
    BY Gives DEF ColdAdvance, InCycle, Engine, Held, Phases, ColdPhases, engineVars, loopVars, history
  <1>. QED  BY <1>1, MovesKeep

LEMMA ColdEndsKeeps ==
    ASSUME IInv, ColdShortCircuit \/ ColdReject \/ ColdAccept \/ ColdRaises \/ ProjectionEnds
    PROVE  IInv'
  <1>1. /\ lock # "free" /\ at \notin Phases /\ Release /\ AfterCall(lock)
    BY DEF ColdShortCircuit, ColdReject, ColdAccept, ColdRaises, ProjectionEnds, ColdEnds, InCycle,
           Phases, ColdPhases
  <1>2. /\ UNCHANGED <<dirty, age, maintPending, vocabPending, rejects, deletions, unseen, lost>>
        /\ coldNeeded' \in BOOLEAN /\ pending' \in BOOLEAN
    BY Gives DEF ColdShortCircuit, ColdReject, ColdAccept, ColdRaises, ProjectionEnds, Publish, Engine,
           engineVars, history
  <1>. QED  BY <1>1, <1>2, ColdKeeps

LEMMA RunProjectionKeeps == ASSUME IInv, RunProjection PROVE IInv'
  <1>1. Engine' /\ Held' /\ at \notin Phases /\ at' \notin Phases
        /\ UNCHANGED <<age, cycle, deletions, dirty, unseen, lost>>
    BY Gives DEF RunProjection, Engine, Held, Times, Phases, ColdPhases, engineVars, history
  <1>. QED  BY <1>1, MovesKeep

LEMMA RunWarmKeeps ==
    ASSUME IInv, NEW by \in {"timer", "operator"}, by = "timer" => timer \in {"boot", "call"},
           RunWarm(by), UNCHANGED <<unseen, lost>>
    PROVE  IInv'
  <1>1. CASE lock # "free"
    <2>1. AfterCall(by) /\ UNCHANGED <<dirty, age, maintPending, vocabPending, coldNeeded, rejects,
                                       lock, at, cycle, pending, deletions>>
      BY <1>1 DEF RunWarm, engineVars, runVars
    <2>2. Engine' /\ Held'
      BY <1>1, <2>1, Gives DEF AfterCall, Engine, Held, Times
    <2>3. QED  BY <2>1, <2>2, MovesKeep
  <1>2. CASE lock = "free"
    <2>1. at = "idle" /\ at \notin Phases /\ DOMAIN cycle.taken = {} /\ cycle.scope = {}
          /\ dirty \in PartialFns
      BY <1>2, IdleCycle, Gives DEF Held, Sets, Phases
    <2>2. CASE BeginFull(by)
      <3>1. /\ FirstCycle /\ lock' = by /\ at' = "reconcile" /\ Calling(by)
            /\ cycle' = [NoCycle EXCEPT !.scope = Clusters]
            /\ UNCHANGED <<dirty, age, maintPending, vocabPending, coldNeeded, rejects, pending, deletions>>
        BY <2>2 DEF BeginFull, engineVars
      <3>2. cycle'.taken = <<>> /\ cycle'.scope = Clusters /\ cycle'.robin = FALSE
        BY <3>1 DEF NoCycle
      <3>3. Engine' /\ Held'
        BY <1>2, <3>1, Gives DEF Calling, Engine, Held, Times, Phases
      <3>4. Sets' /\ Remembered'
        BY <3>1, <3>2, NoneIsFn, Gives DEF Sets, Remembered, FirstCycle
      <3>5. Cycle'
        BY <3>1, <3>2, NoneIsFn DEF Cycle, Quiet, First, Whole, Shared, Phases
      <3>6. QED  BY <3>3, <3>4, <3>5, Builds
    <2>3. CASE BeginDirty(by)
      <3>1. PICK m \in Modes(dirty) :
              cycle' = [NoCycle EXCEPT !.taken = dirty, !.scope = m.scope, !.robin = m.robin]
        BY <2>3 DEF BeginDirty
      <3>2. cycle'.taken = dirty /\ cycle'.scope = m.scope /\ cycle'.robin = m.robin
        BY <3>1 DEF NoCycle
      <3>3. /\ ~FirstCycle /\ lock' = by /\ at' = "reconcile" /\ Calling(by) /\ dirty' = <<>>
            /\ UNCHANGED <<age, maintPending, vocabPending, coldNeeded, rejects, pending, deletions>>
        BY <2>3 DEF BeginDirty
      <3>4. /\ m.scope \subseteq DOMAIN dirty /\ m.robin \in BOOLEAN
            /\ ~m.robin => DOMAIN dirty \subseteq m.scope
            /\ m.robin => \A p \in DirtyProjects(dirty) : DirtyOf(dirty, p) \cap m.scope # {}
        BY <2>1, ModesAre
      <3>5. Engine' /\ Held'
        BY <1>2, <3>3, Gives DEF Calling, Engine, Held, Times, Phases
      <3>6. DOMAIN dirty \subseteq Clusters
        BY <2>1, FnIs
      <3>7. Sets'
        BY <2>1, <3>2, <3>3, <3>4, <3>6, NoneIsFn, Gives DEF Sets
      <3>8. Remembered'
        BY <2>1, <3>2, <3>3, Gives DEF Remembered, FirstCycle
      <3>9. Cycle'
        BY <3>2, <3>3, <3>4 DEF Cycle, Quiet, First, Whole, Shared, Phases, FirstCycle, DirtyProjects, DirtyOf
      <3>10. QED  BY <3>5, <3>7, <3>8, <3>9, Builds
    <2>4. CASE BeginMaintenance(by)
      <3>1. /\ ~FirstCycle /\ lock' = by /\ at' = "maintain" /\ Calling(by) /\ cycle' = NoCycle
            /\ UNCHANGED <<dirty, age, maintPending, vocabPending, coldNeeded, rejects, pending, deletions>>
        BY <2>4 DEF BeginMaintenance, engineVars
      <3>2. cycle'.taken = <<>> /\ cycle'.scope = {} /\ cycle'.robin = FALSE
        BY <3>1 DEF NoCycle
      <3>3. Engine' /\ Held'
        BY <1>2, <3>1, Gives DEF Calling, Engine, Held, Times, Phases
      <3>4. Sets' /\ Remembered'
        BY <2>1, <3>1, <3>2, NoneIsFn, Gives DEF Sets, Remembered, FirstCycle
      <3>5. Cycle'
        BY <3>1, <3>2, NoneIsFn DEF Cycle, Quiet, First, Whole, Shared, Phases, FirstCycle
      <3>6. QED  BY <3>3, <3>4, <3>5, Builds
    <2>5. CASE SkipCycle(by)
      <3>1. /\ ~FirstCycle /\ age' = NextAge(age) /\ AfterCall(by)
            /\ UNCHANGED <<dirty, maintPending, vocabPending, coldNeeded, rejects, lock, at, cycle,
                           pending, deletions>>
        BY <2>5 DEF SkipCycle, runVars
      <3>2. age' \in 1..Cadence
        BY <3>1, NextAgeIs, Gives DEF Engine
      <3>3. Engine' /\ Held'
        BY <1>2, <3>1, <3>2, Gives DEF AfterCall, Engine, Held, Times
      <3>4. cycle' = NoCycle
        BY <2>1, <3>1, IdleCycle
      <3>5. QED  BY <2>1, <3>1, <3>3, <3>4, FreeKeeps
    <2>. QED  BY <1>2, <2>2, <2>3, <2>4, <2>5 DEF RunWarm
  <1>. QED  BY <1>1, <1>2

LEMMA RunColdKeeps ==
    ASSUME IInv, NEW by \in {"timer", "operator"}, by = "timer" => timer = "refit",
           RunCold(by), UNCHANGED <<unseen, lost>>
    PROVE  IInv'
  <1>1. UNCHANGED <<dirty, age, maintPending, vocabPending, coldNeeded, rejects, pending, deletions>>
    BY DEF RunCold, engineVars
  <1>2. CASE lock # "free"
    <2>1. UNCHANGED <<lock, at, cycle>> /\ timer' = IF by = "timer" THEN "wait" ELSE timer
      BY <1>2 DEF RunCold, runVars
    <2>2. Engine' /\ Held'
      BY <1>1, <1>2, <2>1, Gives DEF Engine, Held, Times
    <2>3. QED  BY <1>1, <2>1, <2>2, MovesKeep
  <1>3. CASE lock = "free"
    <2>1. /\ lock' = by /\ at' = "reembed" /\ cycle' = NoCycle
          /\ timer' = IF by = "timer" THEN "cold" ELSE timer
      BY <1>3 DEF RunCold
    <2>2. Engine' /\ Held' /\ at \notin Phases /\ at' \notin Phases
      BY <1>1, <1>3, <2>1, Gives DEF Engine, Held, Times, Phases, ColdPhases
    <2>3. FirstCycle' \/ ~FirstCycle
      BY <1>1 DEF FirstCycle
    <2>4. QED  BY <1>1, <2>1, <2>2, <2>3, FreeKeeps
  <1>. QED  BY <1>2, <1>3

\* Steps that change neither the lock nor the cycle.
LEMMA AsideKeeps ==
    ASSUME IInv, UNCHANGED <<age, maintPending, vocabPending, coldNeeded, rejects, lock, at, cycle, deletions>>,
           \/ UNCHANGED <<dirty, unseen, lost>>
           \/ \E c \in Clusters, p \in Projects : Touch(c, p),
           pending' \in BOOLEAN,
           \/ timer' = timer
           \/ timer \in {"wait", "debounce", "lifecycle", "refit"} /\ timer' \in {"wait", "debounce", "call", "refit"}
    PROVE  IInv'
  <1>1. Engine' /\ Held'
    BY Gives DEF Engine, Held, Times
  <1>. QED  BY <1>1, MovesKeep

LEMMA TimerKeeps == ASSUME IInv, TimerStep PROVE IInv'
  <1>1. CASE TimerBoot \/ TimerRunsWarm
    BY <1>1, RunWarmKeeps DEF TimerBoot, TimerRunsWarm, history
  <1>2. CASE TimerWake \/ TimerElapses \/ TimerRests
    BY <1>2, AsideKeeps, Gives DEF TimerWake, TimerElapses, TimerRests, engineVars, runVars, history, Engine
  <1>3. CASE TimerRecovers
    BY <1>3, AsideKeeps, Gives DEF TimerRecovers, PhaseMarks, runVars, Engine
  <1>4. CASE TimerRefits
    BY <1>4, RunColdKeeps DEF TimerRefits, history
  <1>5. CASE RunProjection
    BY <1>5, RunProjectionKeeps
  <1>. QED  BY <1>1, <1>2, <1>3, <1>4, <1>5 DEF TimerStep

LEMMA ForeignDeleteKeeps == ASSUME IInv, ForeignDelete PROVE IInv'
  <1>1. PICK c \in Clusters : deletions' = deletions \cup {c} /\ unseen' = unseen \cup {c}
    BY DEF ForeignDelete
  <1>2. UNCHANGED <<dirty, age, maintPending, vocabPending, coldNeeded, rejects, lock, at, cycle, timer,
                   pending, lost>>
    BY DEF ForeignDelete, engineVars, runVars
  <1>3. Engine' /\ Held' /\ Cycle'
    BY <1>2, Gives DEF Engine, Held, Cycle, Quiet, First, Whole, Shared, FirstCycle
  <1>4. Sets' /\ Remembered'
    BY <1>1, <1>2, Gives DEF Sets, Remembered, FirstCycle
  <1>. QED  BY <1>3, <1>4, Builds

LEMMA ListenDeletionKeeps == ASSUME IInv, ListenDeletion PROVE IInv'
  <1>1. PICK c \in deletions : deletions' = deletions \ {c} /\ MarkDirty(c, Legacy) /\ lost' = lost \ {c}
    BY DEF ListenDeletion
  <1>2. /\ UNCHANGED <<age, maintPending, vocabPending, coldNeeded, rejects, lock, at, cycle, timer, unseen>>
        /\ pending' \in BOOLEAN
    BY Gives DEF ListenDeletion, Publish, Engine, runVars
  <1>3. dirty' \in PartialFns /\ DOMAIN dirty' = DOMAIN dirty \cup {c}
    BY <1>1, MarkIs, WarmAssumption, Gives DEF Sets
  <1>4. Engine' /\ Held' /\ Cycle'
    BY <1>2, Gives DEF Engine, Held, Cycle, Quiet, First, Whole, Shared, FirstCycle
  <1>5. Sets' /\ Remembered'
    BY <1>1, <1>2, <1>3, Gives DEF Sets, Remembered, FirstCycle
  <1>. QED  BY <1>4, <1>5, Builds

LEMMA CrashKeeps == ASSUME IInv, Crash PROVE IInv'
  <1>1. /\ dirty' = <<>> /\ age' = 0 /\ maintPending' = FALSE /\ vocabPending' = FALSE
        /\ coldNeeded' = FALSE /\ rejects' = [p \in Speculative |-> 0]
        /\ lock' = "free" /\ at' = "idle" /\ cycle' = NoCycle
        /\ timer' = "boot" /\ pending' = FALSE /\ deletions' = {} /\ lost' = {} /\ unseen' = unseen
    BY DEF Crash, Release
  <1>2. Engine' /\ Held' /\ at' \notin Phases
    <2>1. 0 \in 0..Cadence /\ 0 \in 0..Breaker
      BY WarmAssumption
    <2>2. rejects' \in [Speculative -> 0..Breaker]
      BY <1>1, <2>1
    <2>3. Engine'
      BY <1>1, <2>1, <2>2 DEF Engine
    <2>4. Held' /\ at' \notin Phases
      BY <1>1 DEF Held, Times, Phases
    <2>. QED  BY <2>3, <2>4
  <1>3. (/\ Cycle /\ cycle.taken \in PartialFns /\ cycle.scope = {} /\ cycle.robin = FALSE
         /\ DOMAIN cycle.taken = {})'
    BY <1>1, <1>2, NoCycleIs
  <1>4. Sets' /\ Remembered'
    BY <1>1, <1>3, NoneIsFn, Gives DEF Sets, Remembered, FirstCycle
  <1>. QED  BY <1>2, <1>3, <1>4, Builds

LEMMA OutsideKeeps == ASSUME IInv, Outside PROVE IInv'
  <1>1. CASE HotAssign
    BY <1>1, AsideKeeps, Gives DEF HotAssign, Publish, runVars, Engine
  <1>2. CASE SeedAssign \/ CreateDomain
    BY <1>2, AsideKeeps, Gives DEF SeedAssign, CreateDomain, Publish, engineVars, runVars, Engine
  <1>3. CASE Operator
    BY <1>3, RunWarmKeeps, RunColdKeeps DEF Operator
  <1>. QED  BY <1>1, <1>2, <1>3, ForeignDeleteKeeps, CrashKeeps DEF Outside

LEMMA CycleStepKeeps == ASSUME IInv, CycleStep PROVE IInv'
  BY ReconcileKeeps, SpeculateKeeps, RefreshKeeps, MaintainKeeps, AuditKeeps, CycleRaisesKeeps,
     ColdAdvanceKeeps, ColdEndsKeeps
  DEF CycleStep

LEMMA NextKeeps == ASSUME IInv, [Next]_vars PROVE IInv'
  <1>1. CASE UNCHANGED vars
    BY <1>1, AsideKeeps, Gives DEF vars, engineVars, runVars, loopVars, history, Engine
  <1>. QED  BY <1>1, CycleStepKeeps, TimerKeeps, ListenDeletionKeeps, OutsideKeeps DEF Next

LEMMA InitIInv == ASSUME Init PROVE IInv
  <1>1. /\ cycle.taken = <<>> /\ cycle.scope = {} /\ cycle.robin = FALSE /\ at \notin Phases
    BY DEF Init, NoCycle, Phases
  <1>2. TypeOK
    <2>1. 0 \in 0..Cadence /\ 0 \in 0..Breaker
      BY WarmAssumption
    <2>2. rejects \in [Speculative -> 0..Breaker]
      BY <2>1 DEF Init
    <2>3. Engine
      BY <2>1, <2>2 DEF Init, Engine
    <2>4. Held
      BY DEF Init, Held, Times
    <2>5. Sets
      BY <1>1, NoneIsFn DEF Init, Sets
    <2>. QED  BY <2>3, <2>4, <2>5 DEF TypeOK, Engine, Held, Sets, Times
  <1>3. Quiet /\ First /\ Whole /\ Remembered /\ Shared
    BY <1>1, NoneIsFn DEF Init, Quiet, First, Whole, Remembered, Shared, FirstCycle
  <1>. QED  BY <1>2, <1>3 DEF IInv

\* A changed cluster that no completed cycle has considered is in the dirty set, in
\* what the running cycle took, on its way from another process, or was lost by a
\* cycle that raised; and a cycle with budgets looks at some cluster of each project
\* that has a changed one (the dirty set of the engine, run_warm_path, the scheduler).
THEOREM ChangesAreKept == Spec => []Accounted
  <1>1. IInv => Accounted
    BY DEF IInv, Remembered, Shared, Accounted
  <1>2. Spec => []IInv
    BY InitIInv, NextKeeps, PTL DEF Spec
  <1>. QED  BY <1>1, <1>2, PTL

-----------------------------------------------------------------------------
(* Membership. A source pattern of a row names its cluster or nothing live *)
(* (Named): a new cluster takes an identifier no pattern names, and what   *)
(* moves the rows of a live cluster moves their patterns. That recovery    *)
(* and the cycle act on what they asked for needs the queue (Queued): one  *)
(* orphan is on its way at a time, and one part of a cycle.                *)

Parts      == {"reconcile", "evaluate", "split", "merge", "retire"}
Recoveries == {"recover", "retry"}

\* The rows: what is not saved has no cluster, what has tries left is not given up.
RowsAre ==
  /\ saved \subseteq Opts /\ embedded \subseteq saved /\ exhausted \subseteq saved
  /\ ejected \subseteq saved
  /\ home \in [Opts -> ClusterIds \cup {None}] /\ sources \in [Opts -> Seq(ClusterIds)]
  /\ tries \in [Opts -> 0..MaxTries]
  /\ \A o \in Opts \ exhausted : tries[o] < MaxTries
  /\ \A o \in Opts \ saved : home[o] = None /\ sources[o] = <<>>

ClustersAre ==
  /\ state \in [ClusterIds -> {"absent", "candidate", "active", "archived"}]
  /\ count \in [ClusterIds -> Nat]
  /\ index \subseteq ClusterIds /\ cached \subseteq ClusterIds /\ snap \subseteq ClusterIds

TasksAre ==
  /\ told \subseteq saved /\ seeding \subseteq saved
  /\ dispatched \subseteq Opts /\ following \subseteq Opts
  /\ scanning \in (saved \ exhausted) \cup {None}
  /\ batch \in {"running", "stored", "over"} /\ (batch = "stored" => Batched \subseteq saved)
  /\ stage \in Parts \cup {"idle", "refresh"} /\ slips \in Nat

\* What may be in the queue.
Legal == ({"hot"} \X saved) \cup ({"promote"} \X ClusterIds)
         \cup (Recoveries \X ({scanning} \cap (saved \ exhausted)))
         \cup {e \in {<<"batch", None>>} : Batched \subseteq saved}
         \cup ((Parts \cap {stage}) \X {None})

\* One orphan is recovered at a time, and one part of a cycle waits.
Queued ==
  /\ queue \in Seq(Legal)
  /\ \A i, j \in DOMAIN queue : i # j => /\ ~({queue[i][1], queue[j][1]} \subseteq Recoveries)
                                         /\ ~({queue[i][1], queue[j][1]} \subseteq Parts)

\* A pattern of a row names the cluster it is in, or nothing that is live.
Named == \A o \in saved \ (Batched \cup ejected) : \A i \in DOMAIN sources[o] :
           sources[o][i] = home[o] \/ sources[o][i] \notin Live

MemberInv == RowsAre /\ ClustersAre /\ TasksAre /\ Queued /\ Named

-----------------------------------------------------------------------------
LEMMA ToSeqIs ==
    ASSUME NEW S, IsFiniteSet(S)
    PROVE  SetToSeq(S) \in [1..Cardinality(S) -> S] /\ Cardinality(S) \in Nat
  <1>1. Cardinality(S) \in Nat /\ ExistsBijection(1..Cardinality(S), S)
    BY FS_CardinalityType
  <1>2. \E f \in [1..Cardinality(S) -> S] : IsInjective(f)
    BY <1>1 DEF ExistsBijection, Bijection, Injection
  <1>. QED  BY <1>1, <1>2 DEF SetToSeq

\* Nobody has an identifier that is new, and nobody remembers it.
LEMMA FreshIs ==
    ASSUME NEW n, NEW c \in Fresh(n)
    PROVE  c \in Unused
  <1>1. IsFiniteSet(Unused)
    BY FS_Subset, MembershipAssumption DEF Unused
  <1>2. SetToSeq(Unused) \in [1..Cardinality(Unused) -> Unused]
    BY <1>1, ToSeqIs
  <1>. QED  BY <1>2 DEF Fresh

\* Where rows may be assigned: to live clusters or new ones.
Assigned(D, f) ==
  /\ home' \in [Opts -> ClusterIds \cup {None}]
  /\ \A o \in Opts : home'[o] = IF o \in D THEN f[o] ELSE home[o]
  /\ state' \in [ClusterIds -> {"absent", "candidate", "active", "archived"}]
  /\ count' \in [ClusterIds -> Nat]
  /\ index' \subseteq ClusterIds
  /\ Live' = Live \cup {f[o] : o \in D}
  /\ index' = index \cup {f[o] : o \in D}

LEMMA CountedIs ==
    ASSUME ClustersAre, NEW D \in SUBSET Opts, NEW f \in [D -> Live \cup Unused], Counted(f)
    PROVE  /\ state' \in [ClusterIds -> {"absent", "candidate", "active", "archived"}]
           /\ count' \in [ClusterIds -> Nat]
           /\ Live' = Live \cup {f[o] : o \in D}
  <1>0. Live \subseteq ClusterIds /\ Unused \subseteq ClusterIds \ Live
    BY DEF Live, Active, Unused
  <1>2. state' = [c \in ClusterIds |-> IF c \notin Live /\ \E o \in D : f[o] = c THEN "active"
                                       ELSE state[c]]
    BY DEF Counted
  <1>3. state' \in [ClusterIds -> {"absent", "candidate", "active", "archived"}]
    BY <1>2 DEF ClustersAre
  <1>4. count' \in [ClusterIds -> Nat]
    <2>1. \A c \in ClusterIds : Cardinality({o \in D : f[o] = c}) \in Nat
      <3>1. TAKE c \in ClusterIds
      <3>2. IsFiniteSet({o \in D : f[o] = c})
        BY FS_Subset, MembershipAssumption
      <3>. QED  BY <3>2, FS_CardinalityType
    <2>2. count' = [c \in ClusterIds |-> count[c] + Cardinality({o \in D : f[o] = c})]
      BY DEF Counted
    <2>. QED  BY <2>1, <2>2 DEF ClustersAre
  <1>6. Live' = Live \cup {f[o] : o \in D}
    <2>1. \A c \in ClusterIds : c \in Live' <=> state'[c] = "active" \/ state'[c] = "candidate"
      BY DEF Live, Active
    <2>2. \A c \in ClusterIds : c \in Live <=> state[c] = "active" \/ state[c] = "candidate"
      BY DEF Live, Active
    <2>3. \A c \in ClusterIds : c \in Live' <=> c \in Live \/ \E o \in D : f[o] = c
      BY <1>2, <2>1, <2>2
    <2>4. Live' \subseteq ClusterIds
      BY DEF Live, Active
    <2>. QED  BY <1>0, <2>3, <2>4
  <1>. QED  BY <1>3, <1>4, <1>6

LEMMA AssignIs ==
    ASSUME RowsAre, ClustersAre, NEW D \in SUBSET Opts, NEW f \in [D -> Live \cup Unused], Assign(f)
    PROVE  Assigned(D, f)
  <1>0. Live \subseteq ClusterIds /\ Unused \subseteq ClusterIds \ Live
    BY DEF Live, Active, Unused
  <1>1. home' \in [Opts -> ClusterIds \cup {None}]
        /\ \A o \in Opts : home'[o] = IF o \in D THEN f[o] ELSE home[o]
    BY <1>0 DEF Assign, RowsAre
  <1>2. Counted(f) /\ index' = index \cup {f[o] : o \in D}
    BY DEF Assign
  <1>3. index' \subseteq ClusterIds
    BY <1>0, <1>2 DEF ClustersAre
  <1>. QED  BY <1>1, <1>2, <1>3, CountedIs DEF Assigned

-----------------------------------------------------------------------------
(* The queue.                                                              *)

LEMMA RetypedSeq ==
    ASSUME NEW S, NEW s \in Seq(S), NEW T, \A i \in DOMAIN s : s[i] \in T
    PROVE  s \in Seq(T)
  <1>1. Len(s) \in Nat /\ s \in [1..Len(s) -> T]
    BY LenProperties
  <1>. QED  BY <1>1, SeqDef

LEMMA TailIs ==
    ASSUME NEW S, NEW s \in Seq(S), s # <<>>
    PROVE  /\ Tail(s) \in Seq(S) /\ Head(s) = s[1] /\ Head(s) \in S /\ 1 \in DOMAIN s
           /\ \A i \in DOMAIN Tail(s) : /\ i \in Nat /\ i # 0 /\ i + 1 \in DOMAIN s
                                        /\ Tail(s)[i] = s[i + 1]
  <1>1. Len(s) \in Nat /\ Len(s) > 0 /\ DOMAIN s = 1..Len(s)
    BY LenProperties, EmptySeq
  <1>2. Head(s) \in S /\ Tail(s) \in Seq(S) /\ Len(Tail(s)) = Len(s) - 1
        /\ \A i \in 1..Len(Tail(s)) : Tail(s)[i] = s[i + 1]
    BY HeadTailProperties
  <1>3. DOMAIN Tail(s) = 1..Len(Tail(s))
    BY <1>2, LenProperties
  <1>4. Head(s) = s[1]
    OBVIOUS
  <1>. QED  BY <1>1, <1>2, <1>3, <1>4

LEMMA AppendIs ==
    ASSUME NEW S, NEW s \in Seq(S), NEW e \in S
    PROVE  /\ Append(s, e) \in Seq(S)
           /\ \A i \in DOMAIN Append(s, e) : (i \in DOMAIN s /\ Append(s, e)[i] = s[i])
                                             \/ (i = Len(s) + 1 /\ Append(s, e)[i] = e)
  <1>1. /\ Append(s, e) \in Seq(S) /\ Len(Append(s, e)) = Len(s) + 1 /\ Len(s) \in Nat
        /\ DOMAIN s = 1..Len(s) /\ DOMAIN Append(s, e) = 1..Len(s) + 1
        /\ \A i \in 1..Len(s) : Append(s, e)[i] = s[i]
        /\ Append(s, e)[Len(s) + 1] = e
    BY AppendProperties, LenProperties
  <1> DEFINE t == Append(s, e)
             n == Len(s)
  <1>2. \A i \in 1..n + 1 : i \in 1..n \/ i = n + 1
    BY <1>1
  <1> HIDE DEF t, n
  <1>3. \A i \in DOMAIN t : (i \in DOMAIN s /\ t[i] = s[i]) \/ (i = n + 1 /\ t[i] = e)
    BY <1>1, <1>2 DEF t, n
  <1>4. t \in Seq(S)
    BY <1>1 DEF t
  <1>. QED  BY <1>3, <1>4 DEF t, n

LEMMA WaitsKeeps ==
    ASSUME Queued, queue' = queue, saved \subseteq saved', scanning' = scanning,
           exhausted' = exhausted, stage' = stage \/ stage \notin Parts
    PROVE  Queued'
  <1>1. Legal \subseteq Legal'
    BY DEF Legal
  <1>. QED  BY <1>1 DEF Queued

LEMMA ServedKeeps ==
    ASSUME Queued, queue # <<>>, queue' = Tail(queue), saved \subseteq saved',
           \/ Head(queue)[1] \in Recoveries
           \/ scanning' = scanning /\ exhausted' = exhausted,
           stage' = stage \/ stage \notin Parts \/ Head(queue)[1] \in Parts
    PROVE  Queued'
  <1>1. /\ queue' \in Seq(Legal) /\ Head(queue) = queue[1] /\ 1 \in DOMAIN queue
        /\ \A i \in DOMAIN queue' : i \in Nat /\ i # 0 /\ queue'[i] = queue[i + 1] /\ i + 1 \in DOMAIN queue
    BY TailIs DEF Queued
  <1>2. \A i \in DOMAIN queue' : i + 1 # 1
    BY <1>1
  <1>3. \A i \in DOMAIN queue' : queue'[i] \in Legal'
    <2>1. TAKE i \in DOMAIN queue'
    <2>2. queue'[i] \in Legal
      BY <1>1, LenProperties
    <2>3. Head(queue)[1] \in Recoveries => queue'[i][1] \notin Recoveries
      BY <1>1, <1>2 DEF Queued
    <2>4. Head(queue)[1] \in Parts => queue'[i][1] \notin Parts
      BY <1>1, <1>2 DEF Queued
    <2>. QED  BY <2>2, <2>3, <2>4 DEF Legal
  <1>4. queue' \in Seq(Legal')
    <2>1. queue' \in Seq(Legal)
      BY <1>1
    <2>. QED  BY <1>3, <2>1, RetypedSeq
  <1>5. ASSUME NEW i \in DOMAIN queue', NEW j \in DOMAIN queue', i # j
        PROVE  /\ ~({queue'[i][1], queue'[j][1]} \subseteq Recoveries)
               /\ ~({queue'[i][1], queue'[j][1]} \subseteq Parts)
    <2>1. i + 1 # j + 1
      BY <1>1, <1>5
    <2>. QED  BY <1>1, <2>1 DEF Queued
  <1>. QED  BY <1>4, <1>5 DEF Queued

LEMMA AsksKeeps ==
    ASSUME Queued, NEW e, queue' = Append(queue, e), e \in Legal', saved \subseteq saved',
           \/ scanning' = scanning
           \/ \A i \in DOMAIN queue : queue[i][1] \notin Recoveries,
           exhausted' = exhausted,
           stage' = stage \/ stage \notin Parts,
           e[1] \in Recoveries => \A i \in DOMAIN queue : queue[i][1] \notin Recoveries,
           e[1] \in Parts => \A i \in DOMAIN queue : queue[i][1] \notin Parts
    PROVE  Queued'
  <1>1. \A i \in DOMAIN queue : queue[i] \in Legal'
    <2>1. \A i \in DOMAIN queue : queue[i] \in Legal
      BY LenProperties DEF Queued
    <2>. QED  BY <2>1 DEF Legal
  <1>2. queue \in Seq(Legal')
    <2>1. queue \in Seq(Legal)
      BY DEF Queued
    <2>. QED  BY <1>1, <2>1, RetypedSeq
  <1>3. /\ queue' \in Seq(Legal')
        /\ \A i \in DOMAIN queue' : (i \in DOMAIN queue /\ queue'[i] = queue[i])
                                    \/ (i = Len(queue) + 1 /\ queue'[i] = e)
    BY <1>2, AppendIs
  <1>4. ASSUME NEW i \in DOMAIN queue', NEW j \in DOMAIN queue', i # j
        PROVE  /\ ~({queue'[i][1], queue'[j][1]} \subseteq Recoveries)
               /\ ~({queue'[i][1], queue'[j][1]} \subseteq Parts)
    BY <1>3, <1>4 DEF Queued
  <1>. QED  BY <1>3, <1>4 DEF Queued

LEMMA HeadIs ==
    ASSUME Queued, queue # <<>>
    PROVE  /\ Head(queue)[1] = "hot" => Subject \in saved
           /\ Head(queue)[1] = "promote" => Subject \in ClusterIds
           /\ Head(queue)[1] \in Recoveries => Subject = scanning /\ Subject \in saved \ exhausted
           /\ Head(queue)[1] = "batch" => Batched \subseteq saved
           /\ Head(queue)[1] \in Parts => Head(queue)[1] = stage
  <1>1. Head(queue) \in Legal
    BY TailIs DEF Queued
  <1>. QED  BY <1>1 DEF Legal, Subject, Recoveries, Parts

-----------------------------------------------------------------------------
(* Who is where.                                                           *)

LEMMA LiveIs ==
    /\ Live \subseteq ClusterIds /\ Active \subseteq Live
    /\ \A c \in ClusterIds : /\ c \in Live <=> state[c] = "active" \/ state[c] = "candidate"
                             /\ c \in Active <=> state[c] = "active"
  BY DEF Live, Active

LEMMA LiveWillBe ==
    /\ Live' \subseteq ClusterIds /\ Active' \subseteq Live'
    /\ \A c \in ClusterIds : /\ c \in Live' <=> state'[c] = "active" \/ state'[c] = "candidate"
                             /\ c \in Active' <=> state'[c] = "active"
  BY DEF Live, Active

LEMMA UnusedIs ==
    ASSUME NEW c \in Unused
    PROVE  /\ c \in ClusterIds /\ c \notin Live /\ c \notin index /\ c \notin cached
           /\ \A o \in Opts : home[o] # c /\ \A i \in DOMAIN sources[o] : sources[o][i] # c
  BY DEF Unused

\* Nothing stored has changed.
LEMMA StandKeeps ==
    ASSUME MemberInv, UNCHANGED <<db, ejected>>, index' \subseteq ClusterIds,
           cached' \subseteq ClusterIds, snap' \subseteq ClusterIds
    PROVE  RowsAre' /\ ClustersAre' /\ Named'
  <1>1. RowsAre'
    BY DEF MemberInv, RowsAre, db, rows
  <1>2. ClustersAre'
    BY DEF MemberInv, ClustersAre, db, clusters
  <1>3. Named'
    BY DEF MemberInv, Named, db, rows, clusters, Live, Active
  <1>. QED  BY <1>1, <1>2, <1>3

\* No row leaves the clusters that are live, and the index goes with them.
Stays   == \A o \in embedded : home[o] \in Live => home'[o] \in Live'
Follows == index = Live => index' = Live'

\* One row is assigned, its pattern names where it goes or what is not live.
Takes(o, c, s) == /\ Assign([x \in {o} |-> c]) /\ sources' = [sources EXCEPT ![o] = s]
                  /\ embedded' = embedded \cup {o}

LEMMA OneAssigned ==
    ASSUME MemberInv, NEW o \in saved, NEW c \in Candidates, NEW s \in Seq(ClusterIds), Takes(o, c, s),
           \A i \in DOMAIN s : s[i] = c \/ \E j \in DOMAIN sources[o] : s[i] = sources[o][j],
           \A j \in DOMAIN sources[o] : o \notin Batched \cup ejected => sources[o][j] \notin Live,
           UNCHANGED <<saved, tries, exhausted, ejected, cached, snap>>
    PROVE  RowsAre' /\ ClustersAre' /\ Named' /\ Stays /\ Follows
  <1> DEFINE f == [x \in {o} |-> c]
  <1>0. sources' = [sources EXCEPT ![o] = s] /\ embedded' = embedded \cup {o}
    BY DEF Takes
  <1>1. RowsAre /\ ClustersAre /\ Named /\ o \in Opts
    BY DEF MemberInv, RowsAre
  <1>2. c \in Live \cup Unused
    BY FreshIs DEF Candidates
  <1>3. f \in [{o} -> Live \cup Unused] /\ {o} \in SUBSET Opts
    BY <1>1, <1>2
  <1>4. /\ home' \in [Opts -> ClusterIds \cup {None}]
        /\ \A x \in Opts : home'[x] = IF x \in {o} THEN f[x] ELSE home[x]
        /\ state' \in [ClusterIds -> {"absent", "candidate", "active", "archived"}]
        /\ count' \in [ClusterIds -> Nat]
        /\ index' \subseteq ClusterIds
        /\ Live' = Live \cup {f[x] : x \in {o}}
        /\ index' = index \cup {f[x] : x \in {o}}
    <2> HIDE DEF f
    <2>1. Assign(f)
      BY DEF f, Takes
    <2>2. Assigned({o}, f)
      BY <1>1, <1>3, <2>1, AssignIs
    <2>. QED  BY <2>2 DEF Assigned
  <1>5. /\ Live' = Live \cup {c} /\ index' = index \cup {c}
        /\ \A x \in Opts : home'[x] = IF x = o THEN c ELSE home[x]
    BY <1>4
  <1>6. sources' \in [Opts -> Seq(ClusterIds)] /\ \A x \in Opts : sources'[x] = IF x = o THEN s ELSE sources[x]
    BY <1>0, <1>1 DEF RowsAre
  <1>7. RowsAre'
    BY <1>0, <1>1, <1>4, <1>5, <1>6 DEF RowsAre
  <1>8. ClustersAre'
    BY <1>1, <1>4 DEF ClustersAre
  <1>9. Named'
    <2>1. SUFFICES ASSUME NEW x \in saved \ (Batched \cup ejected), NEW i \in DOMAIN sources'[x]
                   PROVE  sources'[x][i] = home'[x] \/ sources'[x][i] \notin Live'
      BY DEF Named
    <2>2. x \in Opts /\ saved \subseteq Opts
      BY <1>1 DEF RowsAre
    <2>3. \A y \in Opts : \A j \in DOMAIN sources[y] : sources[y][j] \in Live' => sources[y][j] \in Live
      <3>1. CASE c \in Live
        BY <1>5, <3>1
      <3>2. CASE c \in Unused
        BY <1>5, <3>2, UnusedIs
      <3>. QED  BY <1>2, <3>1, <3>2
    <2>4. CASE x = o
      BY <1>5, <1>6, <2>1, <2>2, <2>3, <2>4
    <2>5. CASE x # o
      BY <1>1, <1>5, <1>6, <2>1, <2>2, <2>3, <2>5 DEF Named
    <2>. QED  BY <2>4, <2>5
  <1>10. Stays /\ Follows
    BY <1>0, <1>1, <1>5 DEF Stays, Follows, RowsAre
  <1>. QED  BY <1>7, <1>8, <1>9, <1>10

\* The callback failed, whether the index was told or not.
LEMMA FailedIs ==
    ASSUME MemberInv, NEW c \in Candidates, AssignFails(c), UNCHANGED <<ejected, cached, snap>>
    PROVE  RowsAre' /\ ClustersAre' /\ Named' /\ Stays /\ slips' \in Nat /\ slips' # slips
           /\ UNCHANGED <<saved, exhausted, embedded, home, state>>
  <1>1. c \in ClusterIds
    BY FreshIs, UnusedIs, LiveIs DEF Candidates
  <1>2. UNCHANGED db /\ index' \in {index, index \cup {c}} /\ slips' = slips + 1 /\ slips \in Nat
    BY DEF AssignFails, Slip, MemberInv, TasksAre
  <1>3. UNCHANGED <<saved, exhausted, embedded, home, state>>
    BY <1>2 DEF db, rows, clusters
  <1>4. RowsAre' /\ ClustersAre' /\ Named'
    <2>1. index' \subseteq ClusterIds /\ cached' \subseteq ClusterIds /\ snap' \subseteq ClusterIds
      BY <1>1, <1>2 DEF MemberInv, ClustersAre
    <2>. QED  BY <1>2, <2>1, StandKeeps
  <1>5. Stays
    BY <1>3 DEF Stays, Live, Active
  <1>. QED  BY <1>2, <1>3, <1>4, <1>5

LEMMA HotPathIs ==
    ASSUME MemberInv, NEW o \in saved, HotPath(o), UNCHANGED <<ejected, cached, snap>>
    PROVE  /\ RowsAre' /\ ClustersAre' /\ Named' /\ Stays /\ slips' \in Nat
           /\ slips' = slips => Follows
           /\ UNCHANGED <<saved, exhausted>>
  <1>1. o \in Opts /\ slips \in Nat
    BY DEF MemberInv, RowsAre, TasksAre
  <1>2. CASE UNCHANGED <<db, index, slips>>
    <2>1. index' \subseteq ClusterIds /\ cached' \subseteq ClusterIds /\ snap' \subseteq ClusterIds
      BY <1>2 DEF MemberInv, ClustersAre
    <2>2. RowsAre' /\ ClustersAre' /\ Named'
      BY <1>2, <2>1, StandKeeps
    <2>3. Stays /\ Follows /\ UNCHANGED <<saved, exhausted>>
      BY <1>2 DEF Stays, Follows, db, rows, clusters, Live, Active
    <2>. QED  BY <1>1, <1>2, <2>2, <2>3
  <1>3. ASSUME sources[o] = <<>>, NEW c \in Candidates, Assign([x \in {o} |-> c]),
               sources' = [sources EXCEPT ![o] = <<c>>], embedded' = embedded \cup {o},
               UNCHANGED <<saved, tries, exhausted, slips>>
        PROVE  RowsAre' /\ ClustersAre' /\ Named' /\ Stays /\ Follows
    <2>1. c \in ClusterIds
      BY FreshIs, UnusedIs, LiveIs DEF Candidates
    <2>2. <<c>> \in Seq(ClusterIds) /\ \A i \in DOMAIN <<c>> : <<c>>[i] = c
      BY <2>1
    <2>3. \A j \in DOMAIN sources[o] : FALSE
      BY <1>3
    <2>4. Takes(o, c, <<c>>)
      BY <1>3 DEF Takes
    <2>. QED  BY <1>3, <2>2, <2>3, <2>4, OneAssigned
  <1>4. ASSUME NEW c \in Candidates, AssignFails(c)
        PROVE  RowsAre' /\ ClustersAre' /\ Named' /\ Stays /\ slips' \in Nat /\ slips' # slips
               /\ UNCHANGED <<saved, exhausted>>
    BY <1>4, FailedIs
  <1>5. CASE sources[o] = <<>> /\ \E c \in Candidates : /\ Assign([x \in {o} |-> c])
                                                        /\ sources' = [sources EXCEPT ![o] = <<c>>]
                                                        /\ embedded' = embedded \cup {o}
                                                        /\ UNCHANGED <<saved, tries, exhausted, slips>>
    BY <1>1, <1>3, <1>5
  <1>. QED  BY <1>2, <1>4, <1>5 DEF HotPath

LEMMA RecoveredIs ==
    ASSUME MemberInv, NEW o \in saved, Recovered(o),
           UNCHANGED <<saved, tries, exhausted, ejected, cached, snap>>
    PROVE  RowsAre' /\ ClustersAre' /\ Named' /\ Stays /\ Follows
  <1> DEFINE kept == IF home[o] # None /\ state[home[o]] = "archived" THEN None ELSE home[o]
  <1>1. RowsAre /\ ClustersAre /\ Named /\ o \in Opts /\ None \notin ClusterIds
    BY MembershipAssumption DEF MemberInv, RowsAre
  <1>2. sources' = [sources EXCEPT ![o] = IF @ = <<>> THEN <<home'[o]>> ELSE @]
        /\ embedded' = embedded \cup {o}
    BY DEF Recovered
  <1>3. CASE kept # None /\ UNCHANGED <<clusters, home, index>>
    <2>1. home[o] \in ClusterIds /\ UNCHANGED <<state, count, home, index>>
      BY <1>1, <1>3 DEF RowsAre, clusters
    <2>2. PICK s \in Seq(ClusterIds) : /\ sources' = [sources EXCEPT ![o] = s]
                                       /\ \A i \in DOMAIN s : s[i] = home[o] \/ s = sources[o]
      <3>1. CASE sources[o] = <<>>
        <4>1. <<home[o]>> \in Seq(ClusterIds) /\ \A i \in DOMAIN <<home[o]>> : <<home[o]>>[i] = home[o]
          BY <2>1
        <4>2. sources' = [sources EXCEPT ![o] = <<home[o]>>]
          BY <1>1, <1>2, <2>1, <3>1 DEF RowsAre
        <4>. QED  BY <4>1, <4>2
      <3>2. CASE sources[o] # <<>>
        BY <1>1, <1>2, <3>2 DEF RowsAre
      <3>. QED  BY <3>1, <3>2
    <2>3. \A x \in Opts : sources'[x] = IF x = o THEN s ELSE sources[x]
      BY <1>1, <2>2 DEF RowsAre
    <2>4. RowsAre'
      BY <1>1, <1>2, <2>1, <2>2, <2>3 DEF RowsAre
    <2>5. ClustersAre'
      BY <1>1, <2>1 DEF ClustersAre
    <2>6. Live' = Live
      BY <2>1 DEF Live, Active
    <2>7. Named'
      BY <1>1, <2>1, <2>2, <2>3, <2>6 DEF Named, RowsAre
    <2>8. Stays /\ Follows
      BY <2>1, <2>6 DEF Stays, Follows
    <2>. QED  BY <2>4, <2>5, <2>7, <2>8
  <1>4. ASSUME kept = None, NEW c \in Candidates, Assign([x \in {o} |-> c])
        PROVE  RowsAre' /\ ClustersAre' /\ Named' /\ Stays /\ Follows
    <2>1. c \in ClusterIds
      BY FreshIs, UnusedIs, LiveIs DEF Candidates
    <2>2. home'[o] = c
      BY <1>1, <1>4 DEF Assign
    <2>3. home[o] \notin Live
      BY <1>1, <1>4, LiveIs DEF RowsAre
    <2>4. \A j \in DOMAIN sources[o] : o \notin Batched \cup ejected => sources[o][j] \notin Live
      BY <1>1, <2>3 DEF Named
    <2>5. PICK s \in Seq(ClusterIds) :
            /\ sources' = [sources EXCEPT ![o] = s]
            /\ \A i \in DOMAIN s : s[i] = c \/ \E j \in DOMAIN sources[o] : s[i] = sources[o][j]
      <3>1. CASE sources[o] = <<>>
        <4>1. <<c>> \in Seq(ClusterIds) /\ \A i \in DOMAIN <<c>> : <<c>>[i] = c
          BY <2>1
        <4>2. sources' = [sources EXCEPT ![o] = <<c>>]
          BY <1>1, <1>2, <2>2, <3>1 DEF RowsAre
        <4>. QED  BY <4>1, <4>2
      <3>2. CASE sources[o] # <<>>
        BY <1>1, <1>2, <3>2 DEF RowsAre
      <3>. QED  BY <3>1, <3>2
    <2>6. Takes(o, c, s)
      BY <1>2, <1>4, <2>5 DEF Takes
    <2>. QED  BY <1>4, <2>4, <2>5, <2>6, OneAssigned
  <1>. QED  BY <1>3, <1>4 DEF Recovered

\* A batch assigns its rows.
LEMMA BatchIs ==
    ASSUME MemberInv, Batched \subseteq saved, NEW D \in SUBSET Batched,
           NEW f \in [D -> Live \cup Unused], Assign(f),
           sources' = [o \in Opts |-> IF o \in D THEN Append(sources[o], f[o]) ELSE sources[o]],
           UNCHANGED <<saved, embedded, tries, exhausted, ejected, cached, snap>>
    PROVE  RowsAre' /\ ClustersAre' /\ Named' /\ Stays /\ Follows
  <1>1. RowsAre /\ ClustersAre /\ Named /\ D \in SUBSET Opts
    BY DEF MemberInv, RowsAre
  <1>2. /\ home' \in [Opts -> ClusterIds \cup {None}]
        /\ \A o \in Opts : home'[o] = IF o \in D THEN f[o] ELSE home[o]
        /\ state' \in [ClusterIds -> {"absent", "candidate", "active", "archived"}]
        /\ count' \in [ClusterIds -> Nat]
        /\ index' \subseteq ClusterIds
        /\ Live' = Live \cup {f[o] : o \in D}
        /\ index' = index \cup {f[o] : o \in D}
    <2>1. Assigned(D, f)
      BY <1>1, AssignIs
    <2>. QED  BY <2>1 DEF Assigned
  <1>3. \A o \in D : f[o] \in ClusterIds
    BY UnusedIs, LiveIs
  <1>4. sources' \in [Opts -> Seq(ClusterIds)]
    <2>1. ASSUME NEW o \in D PROVE Append(sources[o], f[o]) \in Seq(ClusterIds)
      BY <1>1, <1>3, AppendProperties DEF RowsAre
    <2>. QED  BY <1>1, <2>1 DEF RowsAre
  <1>5. RowsAre'
    BY <1>1, <1>2, <1>4 DEF RowsAre
  <1>6. ClustersAre'
    BY <1>1, <1>2 DEF ClustersAre
  <1>7. Named'
    <2>1. SUFFICES ASSUME NEW x \in saved \ (Batched \cup ejected), NEW i \in DOMAIN sources'[x]
                   PROVE  sources'[x][i] = home'[x] \/ sources'[x][i] \notin Live'
      BY DEF Named
    <2>2. x \in Opts /\ x \notin D /\ sources'[x] = sources[x] /\ home'[x] = home[x]
      BY <1>1, <1>2, <2>1 DEF RowsAre
    <2>3. sources[x][i] \in Live' => sources[x][i] \in Live
      BY <1>2, <2>1, <2>2, UnusedIs
    <2>. QED  BY <1>1, <2>1, <2>2, <2>3 DEF Named
  <1>8. Stays /\ Follows
    BY <1>1, <1>2 DEF Stays, Follows, RowsAre
  <1>. QED  BY <1>5, <1>6, <1>7, <1>8

-----------------------------------------------------------------------------
(* Phase 0.                                                                *)

\* What is left of a pattern names where the row is, or something live.
LEMMA RepairedIs ==
    ASSUME NEW list \in Seq(ClusterIds), NEW h \in ClusterIds \cup {None}
    PROVE  /\ Repaired(list, h) \in Seq(ClusterIds)
           /\ \A i \in DOMAIN Repaired(list, h) :
                \/ Repaired(list, h)[i] = h
                \/ \E j \in DOMAIN list : /\ Repaired(list, h)[i] = list[j]
                                          /\ state'[list[j]] \in {"candidate", "active"}
  <1> DEFINE dead(i) == state'[list[i]] \notin {"candidate", "active"}
             K       == {i \in DOMAIN list : dead(i) => h # None /\ state'[h] # "archived"}
             kept    == SetToSeq(K)
             n       == Cardinality(K)
             rest    == [i \in DOMAIN kept |-> IF dead(kept[i]) THEN h ELSE list[kept[i]]]
  <1>1. Repaired(list, h) = IF kept = <<>> /\ h # None THEN <<h>> ELSE rest
    BY DEF Repaired
  <1>2. DOMAIN list = 1..Len(list) /\ Len(list) \in Nat /\ \A j \in DOMAIN list : list[j] \in ClusterIds
    BY LenProperties, ElementOfSeq
  <1>3. IsFiniteSet(K)
    <2>1. IsFiniteSet(1..Len(list)) /\ K \subseteq 1..Len(list)
      BY <1>2, FS_Interval
    <2>. QED  BY <2>1, FS_Subset
  <1> HIDE DEF n
  <1>4. kept \in [1..n -> K] /\ n \in Nat
    BY <1>3, ToSeqIs DEF n
  <1> HIDE DEF kept
  <1>5. /\ DOMAIN rest = 1..n
        /\ \A i \in 1..n : (rest[i] = h /\ h \in ClusterIds)
                           \/ \E j \in DOMAIN list : rest[i] = list[j] /\ ~dead(j)
    <2>1. DOMAIN kept = 1..n
      BY <1>4
    <2>2. ASSUME NEW i \in 1..n
          PROVE  (rest[i] = h /\ h \in ClusterIds) \/ \E j \in DOMAIN list : rest[i] = list[j] /\ ~dead(j)
      <3>1. kept[i] \in K
        BY <1>4
      <3>. QED  BY <2>1, <3>1
    <2>. QED  BY <2>1, <2>2
  <1> HIDE DEF rest, K
  <1>6. rest \in Seq(ClusterIds)
    <2>1. \A i \in 1..n : rest[i] \in ClusterIds
      BY <1>2, <1>5
    <2>2. rest = [i \in DOMAIN rest |-> rest[i]]
      BY DEF rest
    <2>3. rest \in [1..n -> ClusterIds]
      BY <1>5, <2>1, <2>2
    <2>. QED  BY <1>4, <2>3
  <1>7. CASE kept = <<>> /\ h # None
    <2>1. Repaired(list, h) = <<h>> /\ h \in ClusterIds
      BY <1>1, <1>7
    <2>. QED  BY <2>1
  <1>8. CASE ~(kept = <<>> /\ h # None)
    <2>1. Repaired(list, h) = rest
      BY <1>1, <1>8
    <2>2. \A i \in DOMAIN rest : \/ rest[i] = h
                                 \/ \E j \in DOMAIN list : /\ rest[i] = list[j]
                                                           /\ state'[list[j]] \in {"candidate", "active"}
      BY <1>5
    <2>. QED  BY <1>6, <2>1, <2>2
  <1>. QED  BY <1>7, <1>8

-----------------------------------------------------------------------------
(* Each action.                                                            *)

\* What a step may do to the members and to the index, and to the invariant.
MembersStay == \A o \in embedded : home[o] \in Live =>
                 home'[o] \in Live' \/ slips' # slips \/ NoRefuge(o)
IndexStays  == index = Live => \/ index' = Live' \/ slips' # slips \/ Undone
                               \/ Serve("evaluate") /\ Live' \subseteq index'
                               \/ Serve("reconcile") /\ index' \subseteq Live'
Sound       == MemberInv' /\ MembersStay /\ IndexStays

LEMMA SoundIs ==
    ASSUME RowsAre', ClustersAre', TasksAre', Queued', Named',
           Stays \/ slips' # slips, Follows \/ slips' # slips
    PROVE  Sound
  BY DEF Sound, MemberInv, MembersStay, IndexStays, Stays, Follows

\* Nothing stored and nothing in the index has changed.
LEMMA QuietIs ==
    ASSUME MemberInv, UNCHANGED <<db, index, ejected>>,
           cached' \subseteq ClusterIds, snap' \subseteq ClusterIds
    PROVE  RowsAre' /\ ClustersAre' /\ Named' /\ Stays /\ Follows
           /\ UNCHANGED <<saved, embedded, home, sources, exhausted>>
  <1>1. index' \subseteq ClusterIds
    BY DEF MemberInv, ClustersAre
  <1>2. RowsAre' /\ ClustersAre' /\ Named'
    BY <1>1, StandKeeps
  <1>3. Stays /\ Follows /\ UNCHANGED <<saved, embedded, home, sources, exhausted>>
    BY DEF Stays, Follows, db, rows, clusters, Live, Active
  <1>. QED  BY <1>2, <1>3

LEMMA SaveKeeps == ASSUME MemberInv, NEW o, Save(o) PROVE Sound
  <1>1. RowsAre /\ ClustersAre /\ TasksAre /\ Queued /\ Named /\ o \in Opts \ saved
        /\ UNCHANGED <<embedded, home, sources, state, count, tries, exhausted, index, cached,
                       queue, dispatched, following, scanning, batch, stage, snap, seeding, slips,
                       ejected>>
        /\ saved' = saved \cup {o} /\ told' = told \cup {o}
    BY DEF MemberInv, Save, clusters, noted
  <1>2. RowsAre'
    BY <1>1 DEF RowsAre
  <1>3. ClustersAre'
    BY <1>1 DEF ClustersAre
  <1>4. TasksAre'
    BY <1>1 DEF TasksAre
  <1>5. Queued'
    BY <1>1, WaitsKeeps
  <1>6. Live' = Live
    BY <1>1 DEF Live, Active
  <1>7. Named'
    <2>1. sources[o] = <<>>
      BY <1>1 DEF RowsAre
    <2>. QED  BY <1>1, <1>6, <2>1 DEF Named
  <1>8. Stays /\ Follows
    BY <1>1, <1>6 DEF Stays, Follows
  <1>. QED  BY <1>2, <1>3, <1>4, <1>5, <1>7, <1>8, SoundIs

LEMMA DispatchKeeps == ASSUME MemberInv, NEW o, Dispatch(o) PROVE Sound
  <1>1. RowsAre /\ ClustersAre /\ TasksAre /\ Queued
        /\ UNCHANGED <<db, index, cached, following, scanning, batch, stage, snap, seeding, slips,
                       ejected>>
        /\ o \in told /\ told' = told \ {o} /\ dispatched' = dispatched \cup {o}
    BY DEF MemberInv, Dispatch, noted
  <1>2. RowsAre' /\ ClustersAre' /\ Named' /\ Stays /\ Follows
        /\ UNCHANGED <<saved, embedded, home, sources, exhausted>>
    BY <1>1, QuietIs DEF ClustersAre
  <1>3. TasksAre' /\ o \in saved
    BY <1>1, <1>2 DEF TasksAre, RowsAre
  <1>4. Queued'
    <2>1. CASE queue' = queue
      BY <1>1, <1>2, <2>1, WaitsKeeps
    <2>2. CASE queue' = Append(queue, <<"hot", o>>)
      <3>1. <<"hot", o>> \in Legal' /\ <<"hot", o>>[1] = "hot"
        BY <1>2, <1>3 DEF Legal
      <3>. QED  BY <1>1, <1>2, <2>2, <3>1, AsksKeeps DEF Recoveries, Parts
    <2>. QED  BY <2>1, <2>2 DEF Dispatch
  <1>. QED  BY <1>2, <1>3, <1>4, SoundIs

LEMMA LoseEventKeeps == ASSUME MemberInv, NEW o, LoseEvent(o) PROVE Sound
  <1>1. RowsAre /\ ClustersAre /\ TasksAre /\ Queued
        /\ UNCHANGED <<db, index, cached, queue, dispatched, following, scanning, batch, stage, snap,
                       seeding, ejected>>
        /\ told' = told \ {o} /\ slips' = slips + 1
    BY DEF MemberInv, LoseEvent, Slip, noted
  <1>2. RowsAre' /\ ClustersAre' /\ Named' /\ Stays /\ Follows
        /\ UNCHANGED <<saved, embedded, home, sources, exhausted>>
    BY <1>1, QuietIs DEF ClustersAre
  <1>3. TasksAre'
    BY <1>1, <1>2 DEF TasksAre
  <1>4. Queued'
    BY <1>1, <1>2, WaitsKeeps
  <1>. QED  BY <1>2, <1>3, <1>4, SoundIs

LEMMA FollowUpKeeps == ASSUME MemberInv, NEW o \in Opts, FollowUp(o) PROVE Sound
  <1>1. RowsAre /\ ClustersAre /\ TasksAre /\ Queued
        /\ UNCHANGED <<db, index, cached, told, dispatched, scanning, batch, stage, snap, seeding,
                       slips, ejected>>
        /\ following' = following \ {o}
    BY DEF MemberInv, FollowUp, noted
  <1>2. RowsAre' /\ ClustersAre' /\ Named' /\ Stays /\ Follows
        /\ UNCHANGED <<saved, embedded, home, sources, exhausted>>
    BY <1>1, QuietIs DEF ClustersAre
  <1>3. TasksAre'
    BY <1>1, <1>2 DEF TasksAre
  <1>4. Queued'
    <2>1. CASE queue' = queue
      BY <1>1, <1>2, <2>1, WaitsKeeps
    <2>2. CASE Len(sources[o]) = 1 /\ queue' = Append(queue, <<"promote", sources[o][1]>>)
      <3>1. sources[o] \in Seq(ClusterIds)
        BY <1>1 DEF RowsAre
      <3>2. sources[o][1] \in ClusterIds
        BY <2>2, <3>1, ElementOfSeq
      <3>3. <<"promote", sources[o][1]>> \in Legal' /\ <<"promote", sources[o][1]>>[1] = "promote"
        BY <3>2 DEF Legal
      <3>. QED  BY <1>1, <1>2, <2>2, <3>3, AsksKeeps DEF Recoveries, Parts
    <2>. QED  BY <2>1, <2>2 DEF FollowUp
  <1>. QED  BY <1>2, <1>3, <1>4, SoundIs

LEMMA ScanKeeps == ASSUME MemberInv, NEW o, Scan(o) PROVE Sound
  <1>1. RowsAre /\ ClustersAre /\ TasksAre /\ Queued
        /\ UNCHANGED <<db, index, cached, told, dispatched, following, batch, stage, snap, seeding,
                       slips, ejected>>
        /\ o \in saved \ exhausted /\ scanning = None /\ scanning' = o
        /\ queue' = Append(queue, <<"recover", o>>)
    BY DEF MemberInv, Scan, noted
  <1>2. RowsAre' /\ ClustersAre' /\ Named' /\ Stays /\ Follows
        /\ UNCHANGED <<saved, embedded, home, sources, exhausted>>
    BY <1>1, QuietIs DEF ClustersAre
  <1>3. TasksAre'
    BY <1>1, <1>2 DEF TasksAre
  <1>4. Queued'
    <2>1. \A i \in DOMAIN queue : queue[i][1] \notin Recoveries
      <3>1. \A i \in DOMAIN queue : queue[i] \in Legal
        BY <1>1, LenProperties DEF Queued
      <3>2. None \notin saved
        BY <1>1, MembershipAssumption DEF RowsAre
      <3>. QED  BY <1>1, <3>1, <3>2 DEF Legal, Recoveries, Parts
    <2>2. <<"recover", o>> \in Legal' /\ <<"recover", o>>[1] = "recover"
      BY <1>1, <1>2 DEF Legal, Recoveries
    <2>. QED  BY <1>1, <1>2, <2>1, <2>2, AsksKeeps DEF Recoveries, Parts
  <1>. QED  BY <1>2, <1>3, <1>4, SoundIs

LEMMA SubmitAssignKeeps == ASSUME MemberInv, SubmitAssign PROVE Sound
  <1>1. RowsAre /\ ClustersAre /\ TasksAre /\ Queued
        /\ UNCHANGED <<db, index, cached, told, dispatched, following, scanning, stage, snap, seeding,
                       slips, ejected>>
        /\ batch = "stored" /\ batch' = "over" /\ queue' = Append(queue, <<"batch", None>>)
    BY DEF MemberInv, SubmitAssign, noted
  <1>2. RowsAre' /\ ClustersAre' /\ Named' /\ Stays /\ Follows
        /\ UNCHANGED <<saved, embedded, home, sources, exhausted>>
    BY <1>1, QuietIs DEF ClustersAre
  <1>3. TasksAre' /\ Batched \subseteq saved
    BY <1>1, <1>2 DEF TasksAre
  <1>4. Queued'
    <2>1. <<"batch", None>> \in Legal' /\ <<"batch", None>>[1] = "batch"
      BY <1>2, <1>3 DEF Legal
    <2>. QED  BY <1>1, <1>2, <2>1, AsksKeeps DEF Recoveries, Parts
  <1>. QED  BY <1>2, <1>3, <1>4, SoundIs

LEMMA StartCycleKeeps == ASSUME MemberInv, StartCycle PROVE Sound
  <1>1. RowsAre /\ ClustersAre /\ TasksAre /\ Queued
        /\ UNCHANGED <<db, index, cached, told, dispatched, following, scanning, batch, snap, seeding,
                       ejected>>
        /\ stage = "idle" /\ stage' = "reconcile" /\ slips' = slips + 1
        /\ queue' = Append(queue, <<"reconcile", None>>)
    BY DEF MemberInv, StartCycle, Slip, noted
  <1>2. RowsAre' /\ ClustersAre' /\ Named' /\ Stays /\ Follows
        /\ UNCHANGED <<saved, embedded, home, sources, exhausted>>
    BY <1>1, QuietIs DEF ClustersAre
  <1>3. TasksAre'
    BY <1>1, <1>2 DEF TasksAre, Parts
  <1>4. Queued'
    <2>1. \A i \in DOMAIN queue : queue[i][1] \notin Parts
      <3>1. \A i \in DOMAIN queue : queue[i] \in Legal
        BY <1>1, LenProperties DEF Queued
      <3>. QED  BY <1>1, <3>1 DEF Legal, Recoveries, Parts
    <2>2. <<"reconcile", None>> \in Legal' /\ <<"reconcile", None>>[1] = "reconcile"
      BY <1>1 DEF Legal, Parts
    <2>3. stage \notin Parts
      BY <1>1 DEF Parts
    <2>. QED  BY <1>1, <1>2, <2>1, <2>2, <2>3, AsksKeeps DEF Recoveries, Parts
  <1>. QED  BY <1>2, <1>3, <1>4, SoundIs

\* The cycle asks for its next part.
LEMMA SubmitKeeps ==
    ASSUME MemberInv, NEW part \in Parts, Submit(part), UNCHANGED <<saved, scanning, exhausted, stage>>
    PROVE  Queued'
  <1>1. Queued /\ stage = part /\ queue' = Append(queue, <<part, None>>)
        /\ \A i \in DOMAIN queue : queue[i] # <<part, None>>
    BY DEF MemberInv, Submit, Asked
  <1>2. \A i \in DOMAIN queue : queue[i][1] \notin Parts
    <2>1. \A i \in DOMAIN queue : queue[i] \in Legal
      BY <1>1, LenProperties DEF Queued
    <2>. QED  BY <1>1, <2>1 DEF Legal, Recoveries, Parts
  <1>3. <<part, None>> \in Legal' /\ <<part, None>>[1] = part
    BY <1>1 DEF Legal
  <1>4. part \notin Recoveries
    BY DEF Parts, Recoveries
  <1>. QED  BY <1>1, <1>2, <1>3, <1>4, AsksKeeps

LEMMA AskEvaluateKeeps == ASSUME MemberInv, AskEvaluate PROVE Sound
  <1>1. RowsAre /\ ClustersAre /\ TasksAre /\ Queued
        /\ UNCHANGED <<db, index, cached, told, dispatched, following, scanning, batch, stage, snap,
                       seeding, slips, ejected>>
        /\ Submit("evaluate") /\ "evaluate" \in Parts
    BY DEF MemberInv, AskEvaluate, Parts, noted
  <1>2. RowsAre' /\ ClustersAre' /\ Named' /\ Stays /\ Follows
        /\ UNCHANGED <<saved, embedded, home, sources, exhausted>>
    BY <1>1, QuietIs DEF ClustersAre
  <1>3. TasksAre'
    BY <1>1, <1>2 DEF TasksAre
  <1>4. Queued'
    BY <1>1, <1>2, SubmitKeeps
  <1>. QED  BY <1>2, <1>3, <1>4, SoundIs

LEMMA SnapshotKeeps == ASSUME MemberInv, Snapshot PROVE Sound
  <1>1. RowsAre /\ ClustersAre /\ TasksAre /\ Queued
        /\ UNCHANGED <<db, index, cached, told, dispatched, following, scanning, batch, stage, seeding,
                       slips, ejected>>
        /\ snap' = index /\ \E part \in Parts : Submit(part)
    BY DEF MemberInv, Snapshot, Parts, noted
  <1>2. RowsAre' /\ ClustersAre' /\ Named' /\ Stays /\ Follows
        /\ UNCHANGED <<saved, embedded, home, sources, exhausted>>
    BY <1>1, QuietIs DEF ClustersAre
  <1>3. TasksAre'
    BY <1>1, <1>2 DEF TasksAre
  <1>4. Queued'
    BY <1>1, <1>2, SubmitKeeps
  <1>. QED  BY <1>2, <1>3, <1>4, SoundIs

LEMMA EndCycleKeeps == ASSUME MemberInv, EndCycle PROVE Sound
  <1>1. RowsAre /\ ClustersAre /\ TasksAre /\ Queued
        /\ UNCHANGED <<db, index, queue, told, dispatched, following, scanning, batch, snap, seeding,
                       ejected>>
        /\ stage = "refresh" /\ stage' = "idle" /\ slips' \in Nat
        /\ cached' \in {index, cached}
    BY DEF MemberInv, EndCycle, Slip, TasksAre, noted
  <1>2. RowsAre' /\ ClustersAre' /\ Named' /\ Stays /\ Follows
        /\ UNCHANGED <<saved, embedded, home, sources, exhausted>>
    BY <1>1, QuietIs DEF ClustersAre
  <1>3. TasksAre' /\ stage \notin Parts
    BY <1>1, <1>2 DEF TasksAre, Parts
  <1>4. Queued'
    BY <1>1, <1>2, <1>3, WaitsKeeps
  <1>. QED  BY <1>2, <1>3, <1>4, SoundIs

LEMMA RunHotKeeps == ASSUME MemberInv, RunHot PROVE Sound
  <1>1. RowsAre /\ ClustersAre /\ TasksAre /\ Queued
        /\ UNCHANGED <<cached, told, dispatched, scanning, batch, stage, snap, seeding, ejected>>
        /\ queue # <<>> /\ Head(queue)[1] = "hot" /\ queue' = Tail(queue)
        /\ HotPath(Subject) /\ following' = following \cup {Subject}
    BY DEF MemberInv, RunHot, Serve, noted
  <1>2. Subject \in saved
    BY <1>1, HeadIs
  <1>3. PICK o \in saved : o = Subject
    BY <1>2
  <1>4. /\ RowsAre' /\ ClustersAre' /\ Named' /\ Stays /\ slips' \in Nat
        /\ slips' = slips => Follows
        /\ UNCHANGED <<saved, exhausted>>
    BY <1>1, <1>3, HotPathIs
  <1>5. TasksAre'
    BY <1>1, <1>3, <1>4 DEF TasksAre, RowsAre
  <1>6. Queued'
    BY <1>1, <1>4, ServedKeeps
  <1>. QED  BY <1>4, <1>5, <1>6, SoundIs

\* What a seeding cut short leaves: an embedding, no pattern, and a cluster or none.
LEMMA CutShortIs ==
    ASSUME MemberInv, NEW o \in saved, CutShort(o), UNCHANGED <<ejected, cached, snap>>
    PROVE  /\ RowsAre' /\ ClustersAre' /\ Named' /\ Stays /\ slips' \in Nat
           /\ slips' # slips /\ UNCHANGED <<saved, exhausted>>
  <1>1. /\ RowsAre /\ ClustersAre /\ Named /\ o \in Opts /\ slips \in Nat /\ slips' = slips + 1
        /\ sources[o] = <<>> /\ embedded' = embedded \cup {o}
        /\ UNCHANGED <<saved, sources, tries, exhausted>>
    BY DEF CutShort, Slip, MemberInv, RowsAre, TasksAre
  <1>2. CASE UNCHANGED <<clusters, home, index>>
    <2>1. RowsAre' /\ ClustersAre'
      BY <1>1, <1>2 DEF RowsAre, ClustersAre, clusters
    <2>2. Live' = Live /\ home' = home
      BY <1>2 DEF Live, Active, clusters
    <2>3. Named' /\ Stays
      BY <1>1, <2>2 DEF Named, Stays
    <2>. QED  BY <1>1, <2>1, <2>3
  <1>3. ASSUME NEW c \in Candidates, Counted([x \in {o} |-> c]), home' = home,
               index' \in {index, index \cup {c}}
        PROVE  RowsAre' /\ ClustersAre' /\ Named' /\ Stays
    <2> DEFINE f == [x \in {o} |-> c]
    <2>1. c \in ClusterIds /\ c \in Live \cup Unused
      BY FreshIs, UnusedIs, LiveIs DEF Candidates
    <2>2. f \in [{o} -> Live \cup Unused] /\ {o} \in SUBSET Opts /\ Counted(f)
      BY <1>1, <1>3, <2>1
    <2>3. /\ state' \in [ClusterIds -> {"absent", "candidate", "active", "archived"}]
          /\ count' \in [ClusterIds -> Nat] /\ Live' = Live \cup {f[x] : x \in {o}}
      <3> HIDE DEF f
      <3>. QED  BY <1>1, <2>2, CountedIs
    <2>4. Live' = Live \cup {c}
      BY <2>3
    <2>5. RowsAre'
      BY <1>1, <1>3 DEF RowsAre
    <2>6. ClustersAre'
      BY <1>1, <1>3, <2>1, <2>3 DEF ClustersAre
    <2>7. c \in Unused => \A x \in Opts : \A i \in DOMAIN sources[x] : sources[x][i] # c
      BY DEF Unused
    <2>8. Named'
      BY <1>1, <1>3, <2>1, <2>4, <2>7 DEF Named, RowsAre
    <2>9. Stays
      BY <1>3, <2>4 DEF Stays
    <2>. QED  BY <2>5, <2>6, <2>8, <2>9
  <1>4. ASSUME NEW c \in Candidates, Assign([x \in {o} |-> c])
        PROVE  RowsAre' /\ ClustersAre' /\ Named' /\ Stays
    <2>1. <<>> \in Seq(ClusterIds) /\ \A i \in DOMAIN <<>> : FALSE
      BY EmptySeq
    <2>2. \A j \in DOMAIN sources[o] : FALSE
      BY <1>1
    <2>3. sources' = [sources EXCEPT ![o] = <<>>]
      BY <1>1 DEF RowsAre
    <2>4. Takes(o, c, <<>>)
      BY <1>1, <1>4, <2>3 DEF Takes
    <2>. QED  BY <1>1, <2>1, <2>2, <2>4, OneAssigned
  <1>5. RowsAre' /\ ClustersAre' /\ Named' /\ Stays
    BY <1>2, <1>3, <1>4 DEF CutShort
  <1>. QED  BY <1>1, <1>5

LEMMA SeedKeeps == ASSUME MemberInv, NEW o, Seed(o) PROVE Sound
  <1>1. RowsAre /\ ClustersAre /\ TasksAre /\ Queued
        /\ UNCHANGED <<cached, queue, told, dispatched, following, scanning, batch, stage, snap,
                       ejected>>
        /\ o \in seeding /\ seeding' = seeding \ {o} /\ (HotPath(o) \/ CutShort(o))
    BY DEF MemberInv, Seed
  <1>2. o \in saved
    BY <1>1 DEF TasksAre
  <1>3. /\ RowsAre' /\ ClustersAre' /\ Named' /\ Stays /\ slips' \in Nat
        /\ slips' = slips => Follows
        /\ UNCHANGED <<saved, exhausted>>
    BY <1>1, <1>2, HotPathIs, CutShortIs
  <1>4. TasksAre'
    BY <1>1, <1>3 DEF TasksAre
  <1>5. Queued'
    BY <1>1, <1>3, WaitsKeeps
  <1>. QED  BY <1>3, <1>4, <1>5, SoundIs

LEMMA GiveUpOtherKeeps == ASSUME MemberInv, GiveUpOther PROVE Sound
  <1>1. /\ UNCHANGED <<db, index, cached, snap, ejected>>
        /\ UNCHANGED <<queue, told, dispatched, following, scanning, batch, stage, seeding>>
        /\ slips' \in Nat
    BY DEF GiveUpOther, Slip, tasks, MemberInv, TasksAre
  <1>2. RowsAre' /\ ClustersAre' /\ Named' /\ Stays /\ Follows /\ UNCHANGED <<saved, exhausted>>
    BY <1>1, QuietIs DEF MemberInv, ClustersAre
  <1>3. TasksAre'
    BY <1>1, <1>2 DEF MemberInv, TasksAre
  <1>4. Queued'
    BY <1>1, <1>2, WaitsKeeps DEF MemberInv
  <1>. QED  BY <1>2, <1>3, <1>4, SoundIs

LEMMA RunPromoteKeeps == ASSUME MemberInv, RunPromote PROVE Sound
  <1>1. RowsAre /\ ClustersAre /\ TasksAre /\ Queued /\ Named
        /\ UNCHANGED <<saved, embedded, home, sources, tries, exhausted, count, index, cached, told,
                       dispatched, following, scanning, batch, stage, snap, seeding, slips, ejected>>
        /\ queue # <<>> /\ Head(queue)[1] = "promote" /\ queue' = Tail(queue)
        /\ state' = [state EXCEPT ![Subject] = IF @ = "candidate" THEN "active" ELSE @]
    BY DEF MemberInv, RunPromote, Serve, rows, noted
  <1>2. Subject \in ClusterIds
    BY <1>1, HeadIs
  <1>3. PICK d \in ClusterIds : d = Subject
    BY <1>2
  <1>4. /\ state' \in [ClusterIds -> {"absent", "candidate", "active", "archived"}]
        /\ \A c \in ClusterIds : state'[c] = IF c = d /\ state[c] = "candidate" THEN "active"
                                             ELSE state[c]
    BY <1>1, <1>3 DEF ClustersAre
  <1>5. Live' = Live
    BY <1>4, LiveIs, LiveWillBe
  <1>6. RowsAre'
    BY <1>1 DEF RowsAre
  <1>7. ClustersAre'
    BY <1>1, <1>4 DEF ClustersAre
  <1>8. TasksAre'
    BY <1>1 DEF TasksAre
  <1>9. Queued'
    BY <1>1, ServedKeeps
  <1>10. Named' /\ Stays /\ Follows
    BY <1>1, <1>5 DEF Named, Stays, Follows
  <1>. QED  BY <1>6, <1>7, <1>8, <1>9, <1>10, SoundIs

\* What failed is tried again: the retry takes the place of the recovery.
LEMMA RetriedKeeps ==
    ASSUME MemberInv, queue # <<>>, Head(queue)[1] = "recover",
           queue' = Append(Tail(queue), <<"retry", Subject>>),
           UNCHANGED <<saved, exhausted, scanning, stage>>
    PROVE  Queued'
  <1>1. Queued /\ Subject \in {scanning} \cap (saved \ exhausted)
    BY HeadIs DEF MemberInv, Recoveries
  <1>2. /\ Tail(queue) \in Seq(Legal) /\ Head(queue) = queue[1] /\ 1 \in DOMAIN queue
        /\ \A i \in DOMAIN Tail(queue) : i \in Nat /\ i # 0 /\ i + 1 \in DOMAIN queue
                                         /\ Tail(queue)[i] = queue[i + 1]
    BY <1>1, TailIs DEF Queued
  <1>3. Legal' = Legal
    BY DEF Legal
  <1>4. PICK e \in Legal : e = <<"retry", Subject>> /\ e[1] = "retry"
    <2>1. <<"retry", Subject>> \in Recoveries \X ({scanning} \cap (saved \ exhausted))
      BY <1>1 DEF Recoveries
    <2>2. <<"retry", Subject>> \in Legal
      BY <2>1 DEF Legal
    <2>3. <<"retry", Subject>>[1] = "retry"
      OBVIOUS
    <2>. QED  BY <2>2, <2>3
  <1>5. /\ queue' \in Seq(Legal)
        /\ \A i \in DOMAIN queue' : (i \in DOMAIN Tail(queue) /\ queue'[i] = Tail(queue)[i])
                                    \/ (i = Len(Tail(queue)) + 1 /\ queue'[i] = e)
    BY <1>2, <1>4, AppendIs
  <1>6. \A i \in DOMAIN Tail(queue) : Tail(queue)[i][1] \notin Recoveries
    <2>1. \A i \in DOMAIN Tail(queue) : i + 1 # 1
      BY <1>2
    <2>. QED  BY <1>1, <1>2, <2>1 DEF Queued, Recoveries
  <1>7. ASSUME NEW i \in DOMAIN Tail(queue), NEW j \in DOMAIN Tail(queue), i # j
        PROVE  ~({Tail(queue)[i][1], Tail(queue)[j][1]} \subseteq Parts)
    <2>1. i + 1 # j + 1
      BY <1>2, <1>7
    <2>. QED  BY <1>1, <1>2, <2>1 DEF Queued
  <1>8. ASSUME NEW i \in DOMAIN queue', NEW j \in DOMAIN queue', i # j
        PROVE  /\ ~({queue'[i][1], queue'[j][1]} \subseteq Recoveries)
               /\ ~({queue'[i][1], queue'[j][1]} \subseteq Parts)
    <2>1. e[1] \notin Parts
      BY <1>4 DEF Parts
    <2>2. CASE i \in DOMAIN Tail(queue) /\ j \in DOMAIN Tail(queue)
               /\ queue'[i] = Tail(queue)[i] /\ queue'[j] = Tail(queue)[j]
      BY <1>6, <1>7, <1>8, <2>2
    <2>3. CASE queue'[i] = e
      BY <1>5, <1>6, <1>8, <2>1, <2>3
    <2>4. CASE queue'[j] = e
      BY <1>5, <1>6, <1>8, <2>1, <2>4
    <2>. QED  BY <1>5, <2>2, <2>3, <2>4
  <1>. QED  BY <1>3, <1>5, <1>8 DEF Queued

LEMMA RunRecoverKeeps == ASSUME MemberInv, RunRecover PROVE Sound
  <1>1. RowsAre /\ ClustersAre /\ TasksAre /\ Queued
        /\ UNCHANGED <<cached, told, dispatched, following, batch, stage, snap, seeding, ejected>>
        /\ queue # <<>> /\ Head(queue)[1] = "recover"
    BY DEF MemberInv, RunRecover, noted
  <1>2. Subject \in saved
    BY <1>1, HeadIs DEF Recoveries
  <1>3. PICK o \in saved : o = Subject
    BY <1>2
  <1>4. ASSUME queue' = Tail(queue), scanning' = None, slips' = slips, saved' = saved,
               exhausted' \subseteq saved, RowsAre', ClustersAre', Named', Stays, Follows
        PROVE  Sound
    <2>1. TasksAre'
      BY <1>1, <1>4 DEF TasksAre
    <2>2. Queued'
      BY <1>1, <1>4, ServedKeeps DEF Recoveries
    <2>. QED  BY <1>4, <2>1, <2>2, SoundIs
  <1>5. CASE /\ UNCHANGED <<db, index, slips>>
             /\ queue' = Tail(queue) /\ scanning' = None
    <2>1. RowsAre' /\ ClustersAre' /\ Named' /\ Stays /\ Follows
          /\ UNCHANGED <<saved, exhausted>>
      BY <1>1, <1>5, QuietIs DEF ClustersAre
    <2>. QED  BY <1>1, <1>4, <1>5, <2>1 DEF RowsAre
  <1>6. CASE /\ exhausted' = exhausted \cup {o}
             /\ UNCHANGED <<saved, embedded, home, sources, tries, clusters, index, slips>>
             /\ queue' = Tail(queue) /\ scanning' = None
    <2>1. RowsAre'
      BY <1>1, <1>6 DEF RowsAre
    <2>2. UNCHANGED <<state, count>> /\ Live' = Live
      BY <1>6 DEF clusters, Live, Active
    <2>3. ClustersAre'
      BY <1>1, <1>6, <2>2 DEF ClustersAre
    <2>4. Named' /\ Stays /\ Follows
      BY <1>1, <1>6, <2>2 DEF MemberInv, Named, Stays, Follows
    <2>. QED  BY <1>4, <1>6, <2>1, <2>3, <2>4 DEF RowsAre
  <1>7. CASE /\ Recovered(o) /\ UNCHANGED <<saved, tries, exhausted, slips>>
             /\ queue' = Tail(queue) /\ scanning' = None
    <2>1. RowsAre' /\ ClustersAre' /\ Named' /\ Stays /\ Follows
      BY <1>1, <1>7, RecoveredIs
    <2>. QED  BY <1>1, <1>4, <1>7, <2>1 DEF RowsAre
  <1>8. ASSUME NEW c \in Candidates, AssignFails(c),
               queue' = Append(Tail(queue), <<"retry", Subject>>), scanning' = scanning
        PROVE  Sound
    <2>1. RowsAre' /\ ClustersAre' /\ Named' /\ Stays /\ slips' \in Nat /\ slips' # slips
          /\ UNCHANGED <<saved, exhausted>>
      BY <1>1, <1>8, FailedIs
    <2>2. TasksAre'
      BY <1>1, <1>8, <2>1 DEF TasksAre
    <2>3. Queued'
      BY <1>1, <1>8, <2>1, RetriedKeeps
    <2>. QED  BY <2>1, <2>2, <2>3, SoundIs
  <1>. QED  BY <1>3, <1>5, <1>6, <1>7, <1>8 DEF RunRecover

LEMMA RunRetryKeeps == ASSUME MemberInv, RunRetry PROVE Sound
  <1>1. RowsAre /\ ClustersAre /\ TasksAre /\ Queued
        /\ UNCHANGED <<index, cached, told, dispatched, following, batch, stage, snap, seeding,
                       ejected>>
        /\ queue # <<>> /\ Head(queue)[1] = "retry" /\ queue' = Tail(queue) /\ scanning' = None
    BY DEF MemberInv, RunRetry, Serve, noted
  <1>2. Subject \in saved \ exhausted
    BY <1>1, HeadIs DEF Recoveries
  <1>3. PICK o \in saved \ exhausted : o = Subject
    BY <1>2
  <1>4. Queued' \/ saved' # saved
    BY <1>1, ServedKeeps DEF Recoveries
  <1>5. CASE /\ tries' = [tries EXCEPT ![o] = @ + 1]
             /\ exhausted' = IF tries'[o] >= MaxTries THEN exhausted \cup {o} ELSE exhausted
             /\ UNCHANGED <<saved, embedded, home, sources, clusters, slips>>
    <2>1. o \in Opts /\ tries[o] \in Nat /\ tries[o] < MaxTries /\ MaxTries \in Nat
      BY <1>1, <1>3, MembershipAssumption DEF RowsAre
    <2>2. tries[o] + 1 \in 0..MaxTries
      BY <2>1
    <2>3. tries' \in [Opts -> 0..MaxTries]
          /\ \A x \in Opts : tries'[x] = IF x = o THEN tries[o] + 1 ELSE tries[x]
      BY <1>1, <1>5, <2>1, <2>2 DEF RowsAre
    <2>4. exhausted' \subseteq saved /\ \A x \in Opts \ exhausted' : tries'[x] < MaxTries
      BY <1>1, <1>3, <1>5, <2>1, <2>2, <2>3 DEF RowsAre
    <2>5. RowsAre'
      BY <1>1, <1>5, <2>3, <2>4 DEF RowsAre
    <2>6. UNCHANGED <<state, count>> /\ Live' = Live
      BY <1>5 DEF clusters, Live, Active
    <2>7. ClustersAre'
      BY <1>1, <2>6 DEF ClustersAre
    <2>8. TasksAre'
      BY <1>1, <1>5 DEF TasksAre
    <2>9. Named' /\ Stays /\ Follows
      BY <1>1, <1>5, <2>6 DEF MemberInv, Named, Stays, Follows
    <2>. QED  BY <1>4, <1>5, <2>5, <2>7, <2>8, <2>9, SoundIs
  <1>6. CASE Slip /\ UNCHANGED db
    <2>1. RowsAre' /\ ClustersAre' /\ Named' /\ Stays /\ Follows
          /\ UNCHANGED <<saved, exhausted>>
      BY <1>1, <1>6, QuietIs DEF ClustersAre
    <2>2. TasksAre'
      BY <1>1, <1>6, <2>1 DEF TasksAre, Slip
    <2>. QED  BY <1>4, <2>1, <2>2, SoundIs
  <1>. QED  BY <1>3, <1>5, <1>6 DEF RunRetry

LEMMA PersistBatchKeeps == ASSUME MemberInv, PersistBatch PROVE Sound
  <1>1. RowsAre /\ ClustersAre /\ TasksAre /\ Queued /\ Named
        /\ UNCHANGED <<home, sources, state, count, tries, exhausted, index, cached, queue,
                       dispatched, following, scanning, stage, snap, seeding, slips, ejected>>
        /\ saved' = saved \cup Batched /\ embedded' = embedded \cup Batched
        /\ told' = told \cup Batched /\ batch' = "stored"
    BY DEF MemberInv, PersistBatch, clusters, noted
  <1>2. RowsAre'
    BY <1>1, MembershipAssumption DEF RowsAre
  <1>3. ClustersAre'
    BY <1>1 DEF ClustersAre
  <1>4. TasksAre'
    BY <1>1 DEF TasksAre
  <1>5. Queued'
    BY <1>1, WaitsKeeps
  <1>6. Live' = Live
    BY <1>1 DEF Live, Active
  <1>7. Named' /\ Stays /\ Follows
    BY <1>1, <1>6 DEF Named, Stays, Follows
  <1>. QED  BY <1>2, <1>3, <1>4, <1>5, <1>7, SoundIs

LEMMA RunBatchKeeps == ASSUME MemberInv, RunBatch PROVE Sound
  <1>1. RowsAre /\ ClustersAre /\ TasksAre /\ Queued
        /\ UNCHANGED <<cached, told, dispatched, following, scanning, batch, stage, snap, seeding,
                       ejected>>
        /\ queue # <<>> /\ Head(queue)[1] = "batch" /\ queue' = Tail(queue)
    BY DEF MemberInv, RunBatch, Serve, noted
  <1>2. Batched \subseteq saved /\ slips \in Nat
    BY <1>1, HeadIs DEF TasksAre
  <1>3. PICK D \in SUBSET Batched : \E f \in [D -> Live \cup Fresh(Cardinality(D))] :
          \/ /\ Assign(f)
             /\ sources' = [o \in Opts |-> IF o \in D THEN Append(sources[o], f[o]) ELSE sources[o]]
             /\ slips' = IF D = Batched THEN slips ELSE slips + 1
             /\ UNCHANGED <<saved, embedded, tries, exhausted>>
          \/ Slip /\ index' = index \cup {f[o] : o \in D} /\ UNCHANGED db
    BY DEF RunBatch
  <1>4. PICK f \in [D -> Live \cup Unused] :
          \/ /\ Assign(f)
             /\ sources' = [o \in Opts |-> IF o \in D THEN Append(sources[o], f[o]) ELSE sources[o]]
             /\ slips' = IF D = Batched THEN slips ELSE slips + 1
             /\ UNCHANGED <<saved, embedded, tries, exhausted>>
          \/ Slip /\ index' = index \cup {f[o] : o \in D} /\ UNCHANGED db
    <2>1. [D -> Live \cup Fresh(Cardinality(D))] \subseteq [D -> Live \cup Unused]
      BY FreshIs
    <2>. QED  BY <1>3, <2>1
  <1>5. ASSUME RowsAre', ClustersAre', Named', Stays, Follows \/ slips' # slips,
               saved' = saved, exhausted' = exhausted, slips' \in Nat
        PROVE  Sound
    <2>1. TasksAre'
      BY <1>1, <1>5 DEF TasksAre
    <2>2. Queued'
      BY <1>1, <1>5, ServedKeeps
    <2>. QED  BY <1>5, <2>1, <2>2, SoundIs
  <1>6. CASE /\ Assign(f)
             /\ sources' = [o \in Opts |-> IF o \in D THEN Append(sources[o], f[o]) ELSE sources[o]]
             /\ slips' = IF D = Batched THEN slips ELSE slips + 1
             /\ UNCHANGED <<saved, embedded, tries, exhausted>>
    <2>1. RowsAre' /\ ClustersAre' /\ Named' /\ Stays /\ Follows
      BY <1>1, <1>2, <1>4, <1>6, BatchIs
    <2>2. slips' \in Nat
      BY <1>2, <1>6
    <2>. QED  BY <1>5, <1>6, <2>1, <2>2
  <1>7. CASE Slip /\ index' = index \cup {f[o] : o \in D} /\ UNCHANGED db
    <2>1. index' \subseteq ClusterIds /\ cached' \subseteq ClusterIds /\ snap' \subseteq ClusterIds
      BY <1>1, <1>4, <1>7, UnusedIs, LiveIs DEF ClustersAre
    <2>2. RowsAre' /\ ClustersAre' /\ Named'
      BY <1>1, <1>7, <2>1, StandKeeps
    <2>3. slips' \in Nat /\ slips' # slips
      BY <1>2, <1>7 DEF Slip
    <2>4. Stays /\ UNCHANGED <<saved, exhausted>>
      BY <1>7 DEF Stays, db, rows, clusters, Live, Active
    <2>. QED  BY <1>5, <2>2, <2>3, <2>4
  <1>. QED  BY <1>4, <1>6, <1>7

LEMMA CurateKeeps == ASSUME MemberInv, Curate PROVE Sound
  <1>1. RowsAre /\ ClustersAre /\ TasksAre /\ Queued /\ Named
        /\ UNCHANGED <<saved, embedded, home, sources, tries, exhausted, index, cached, queue, told,
                       dispatched, following, scanning, batch, stage, snap, seeding, ejected>>
        /\ slips' = slips + 1
    BY DEF MemberInv, Curate, Slip, rows, tasks, noted
  <1>2. PICK c \in Live : /\ state' = [state EXCEPT ![c] = "archived"]
                          /\ count' = [count EXCEPT ![c] = 0]
    BY DEF Curate
  <1>3. RowsAre'
    BY <1>1 DEF RowsAre
  <1>4. ClustersAre'
    BY <1>1, <1>2, LiveIs DEF ClustersAre
  <1>5. TasksAre'
    BY <1>1 DEF TasksAre
  <1>6. Queued'
    BY <1>1, WaitsKeeps
  <1>7. Live' \subseteq Live
    BY <1>1, <1>2, LiveIs, LiveWillBe DEF ClustersAre
  <1>8. Named'
    BY <1>1, <1>7 DEF Named
  <1>9. slips' # slips
    BY <1>1 DEF TasksAre
  <1>. QED  BY <1>3, <1>4, <1>5, <1>6, <1>8, <1>9, SoundIs

LEMMA RebuildKeeps == ASSUME MemberInv, Rebuild PROVE Sound
  <1>1. TasksAre /\ Queued /\ ClustersAre
        /\ UNCHANGED <<db, queue, told, dispatched, following, scanning, batch, stage, snap, seeding,
                       ejected>>
        /\ slips' = slips + 1 /\ index' = Live /\ cached' = Live
    BY DEF MemberInv, Rebuild, Slip, tasks, noted
  <1>2. RowsAre' /\ ClustersAre' /\ Named'
    BY <1>1, LiveIs, StandKeeps DEF ClustersAre
  <1>3. UNCHANGED <<saved, exhausted>>
    BY <1>1 DEF db, rows
  <1>4. TasksAre'
    BY <1>1, <1>3 DEF TasksAre
  <1>5. Queued'
    BY <1>1, <1>3, WaitsKeeps
  <1>6. slips' # slips
    BY <1>1 DEF TasksAre
  <1>. QED  BY <1>2, <1>4, <1>5, <1>6, SoundIs

LEMMA RestartKeeps == ASSUME MemberInv, Restart PROVE Sound
  <1>1. RowsAre /\ TasksAre /\ ClustersAre
        /\ UNCHANGED <<db, ejected>>
        /\ queue' = <<>> /\ told' = {} /\ dispatched' = {} /\ following' = {} /\ scanning' = None
        /\ batch' = "over" /\ stage' = "idle" /\ snap' = {} /\ seeding' = {}
        /\ slips' = slips + 1 /\ index' \in {Live, cached} /\ cached' \in {Live, cached}
    BY DEF MemberInv, Restart, Slip, noted
  <1>2. RowsAre' /\ ClustersAre' /\ Named'
    BY <1>1, LiveIs, StandKeeps DEF ClustersAre
  <1>3. UNCHANGED <<saved, exhausted>>
    BY <1>1 DEF db, rows
  <1>4. TasksAre'
    BY <1>1, <1>3 DEF TasksAre
  <1>5. Queued'
    BY <1>1 DEF Queued
  <1>6. slips' # slips
    BY <1>1 DEF TasksAre
  <1>. QED  BY <1>2, <1>4, <1>5, <1>6, SoundIs

LEMMA BackfillKeeps == ASSUME MemberInv, Backfill PROVE Sound
  <1>1. RowsAre /\ ClustersAre /\ TasksAre /\ Queued /\ Named
        /\ UNCHANGED <<saved, embedded, tries, exhausted, state, count, index, cached, queue, told,
                       dispatched, following, scanning, batch, stage, snap, slips, ejected>>
        /\ seeding' \subseteq saved
    BY DEF MemberInv, Backfill, clusters, noted
  <1>2. ClustersAre'
    BY <1>1 DEF ClustersAre
  <1>3. TasksAre'
    BY <1>1 DEF TasksAre
  <1>4. Queued'
    BY <1>1, WaitsKeeps
  <1>5. Live' = Live /\ Homeless \subseteq saved
    BY <1>1 DEF Live, Active, Homeless
  <1>6. ASSUME NEW S \in SUBSET Homeless, NEW f \in [S -> ClusterIds],
               home' = [o \in Opts |-> IF o \in S THEN f[o] ELSE home[o]],
               sources' = [o \in Opts |-> IF o \in S THEN Append(sources[o], f[o]) ELSE sources[o]]
        PROVE  RowsAre' /\ Named' /\ Stays /\ Follows
    <2>1. S \in SUBSET saved /\ \A o \in S : home[o] \notin Live
      BY <1>5 DEF Homeless
    <2>2. \A o \in Opts : home'[o] = IF o \in S THEN f[o] ELSE home[o]
      BY <1>6
    <2>3. ASSUME NEW o \in S
          PROVE  /\ Append(sources[o], f[o]) \in Seq(ClusterIds)
                 /\ \A i \in DOMAIN Append(sources[o], f[o]) :
                      (i \in DOMAIN sources[o] /\ Append(sources[o], f[o])[i] = sources[o][i])
                      \/ Append(sources[o], f[o])[i] = f[o]
      BY <1>1, <1>6, <2>1, AppendIs DEF RowsAre
    <2>4. home' \in [Opts -> ClusterIds \cup {None}] /\ sources' \in [Opts -> Seq(ClusterIds)]
      BY <1>1, <1>6, <2>3 DEF RowsAre
    <2>5. RowsAre'
      BY <1>1, <1>6, <2>1, <2>4 DEF RowsAre
    <2>6. Named'
      <3>1. SUFFICES ASSUME NEW x \in saved \ (Batched \cup ejected), NEW i \in DOMAIN sources'[x]
                     PROVE  sources'[x][i] = home'[x] \/ sources'[x][i] \notin Live
        BY <1>1, <1>5 DEF Named
      <3>2. x \in Opts
        BY <1>1 DEF RowsAre
      <3>3. CASE x \in S
        BY <1>1, <1>6, <2>1, <2>2, <2>3, <3>1, <3>2, <3>3 DEF Named
      <3>4. CASE x \notin S
        BY <1>1, <1>6, <2>2, <3>1, <3>2, <3>4 DEF Named
      <3>. QED  BY <3>3, <3>4
    <2>7. Stays /\ Follows
      BY <1>1, <1>5, <2>1, <2>2 DEF Stays, Follows, RowsAre
    <2>. QED  BY <2>5, <2>6, <2>7
  <1>7. ASSUME NEW S \in SUBSET Homeless,
               NEW f \in [S -> {c \in index \cup Live : state[c] # "absent"}],
               home' = [o \in Opts |-> IF o \in S THEN f[o] ELSE home[o]],
               sources' = [o \in Opts |-> IF o \in S THEN Append(sources[o], f[o]) ELSE sources[o]]
        PROVE  RowsAre' /\ Named' /\ Stays /\ Follows
    <2>1. {c \in index \cup Live : state[c] # "absent"} \subseteq ClusterIds
      BY <1>1, LiveIs DEF ClustersAre
    <2>2. f \in [S -> ClusterIds]
      BY <2>1
    <2>. QED  BY <1>6, <1>7, <2>2
  <1>8. ASSUME UNCHANGED <<home, sources>>
        PROVE  RowsAre' /\ Named' /\ Stays /\ Follows
    <2>1. RowsAre'
      BY <1>1, <1>8 DEF RowsAre
    <2>2. Named' /\ Stays /\ Follows
      BY <1>1, <1>5, <1>8 DEF Named, Stays, Follows
    <2>. QED  BY <2>1, <2>2
  <1>9. RowsAre' /\ Named' /\ Stays /\ Follows
    <2>1. \/ \E S \in SUBSET Homeless : \E f \in [S -> {c \in index \cup Live : state[c] # "absent"}] :
               /\ home' = [o \in Opts |-> IF o \in S THEN f[o] ELSE home[o]]
               /\ sources' = [o \in Opts |-> IF o \in S THEN Append(sources[o], f[o]) ELSE sources[o]]
          \/ UNCHANGED <<home, sources>>
      BY DEF Backfill
    <2>. QED  BY <1>7, <1>8, <2>1
  <1>. QED  BY <1>2, <1>3, <1>4, <1>9, SoundIs

-----------------------------------------------------------------------------
(* The parts of a warm cycle.                                              *)

\* A set of optimizations has a number of elements.
LEMMA CountIs ==
    ASSUME NEW S \in SUBSET Opts
    PROVE  Cardinality(S) \in Nat
  BY FS_Subset, FS_CardinalityType, MembershipAssumption

LEMMA PartServed ==
    ASSUME MemberInv, NEW part \in Parts, Serve(part),
           UNCHANGED <<saved, exhausted, told, dispatched, following, scanning, batch, seeding>>,
           stage' \in Parts \cup {"idle", "refresh"}, slips' \in Nat
    PROVE  TasksAre' /\ Queued'
  <1>1. TasksAre /\ Queued /\ queue # <<>> /\ Head(queue)[1] \in Parts /\ queue' = Tail(queue)
    BY DEF MemberInv, Serve
  <1>2. TasksAre'
    BY <1>1 DEF TasksAre
  <1>3. Queued'
    BY <1>1, ServedKeeps
  <1>. QED  BY <1>2, <1>3

\* The part is rolled back: what it told the index stays.
LEMMA PartFails ==
    ASSUME MemberInv, NEW part \in Parts, Serve(part), Slip, UNCHANGED <<db, ejected>>, stage' = "idle",
           UNCHANGED <<cached, told, dispatched, following, scanning, batch, seeding>>,
           index' \subseteq ClusterIds, snap' \subseteq ClusterIds
    PROVE  Sound
  <1>1. TasksAre /\ ClustersAre
    BY DEF MemberInv
  <1>2. RowsAre' /\ ClustersAre' /\ Named'
    BY <1>1, StandKeeps DEF ClustersAre
  <1>3. UNCHANGED <<saved, exhausted>>
    BY DEF db, rows
  <1>4. slips' \in Nat /\ slips' # slips
    BY <1>1 DEF TasksAre, Slip
  <1>5. TasksAre' /\ Queued'
    BY <1>3, <1>4, PartServed
  <1>. QED  BY <1>2, <1>4, <1>5, SoundIs

LEMMA ReassignIs ==
    ASSUME RowsAre, ClustersAre, NEW X \in SUBSET Opts, NEW T \in SUBSET ClusterIds,
           NEW g \in Reassignments(X, T), NEW gone, Reassign(g, gone)
    PROVE  /\ home' \in [Opts -> ClusterIds \cup {None}] /\ count' \in [ClusterIds -> Nat]
           /\ \A o \in Opts : \/ home'[o] = home[o] /\ (o \in X => T = {})
                              \/ o \in X /\ home'[o] \in T
  <1>1. /\ \A o \in Opts : home'[o] = IF o \in DOMAIN g THEN g[o] ELSE home[o]
        /\ home' = [o \in Opts |-> IF o \in DOMAIN g THEN g[o] ELSE home[o]]
    BY DEF Reassign
  <1>2. DOMAIN g \subseteq X /\ (T # {} => DOMAIN g = X) /\ \A o \in DOMAIN g : g[o] \in T
    <2>1. CASE T = {}
      BY <2>1 DEF Reassignments
    <2>2. CASE T # {}
      BY <2>2 DEF Reassignments
    <2>. QED  BY <2>1, <2>2
  <1>3. home' \in [Opts -> ClusterIds \cup {None}]
    BY <1>1, <1>2 DEF RowsAre
  <1>4. count' \in [ClusterIds -> Nat]
    <2>1. \A c \in ClusterIds : Cardinality({o \in DOMAIN g : g[o] = c}) \in Nat
      <3>1. TAKE c \in ClusterIds
      <3>2. {o \in DOMAIN g : g[o] = c} \in SUBSET Opts
        BY <1>2
      <3>. QED  BY <3>2, CountIs
    <2>2. count' = [c \in ClusterIds |-> IF c \in gone THEN 0
                                         ELSE count[c] + Cardinality({o \in DOMAIN g : g[o] = c})]
      BY DEF Reassign
    <2>. QED  BY <2>1, <2>2 DEF ClustersAre
  <1>. QED  BY <1>1, <1>2, <1>3, <1>4

LEMMA RunEvaluateKeeps == ASSUME MemberInv, RunEvaluate PROVE Sound
  <1> DEFINE candidates == Live \ Active
             empty      == {c \in candidates : Known(c) = {}}
             rejected(R) == UNION {Known(c) : c \in R}
  <1>1. RowsAre /\ ClustersAre /\ TasksAre /\ Named
        /\ UNCHANGED <<index, cached, told, dispatched, following, scanning, batch, snap, seeding,
                       ejected>>
        /\ Serve("evaluate") /\ "evaluate" \in Parts
    BY DEF MemberInv, RunEvaluate, Parts, noted
  <1>2. CASE Slip /\ stage' = "idle" /\ UNCHANGED db
    BY <1>1, <1>2, PartFails DEF ClustersAre
  <1>3. ASSUME NEW R \in SUBSET (candidates \ empty), NEW g \in Reassignments(rejected(R), Active),
               Reassign(g, R),
               state' = [c \in ClusterIds |-> IF c \in R \cup empty THEN "archived"
                                              ELSE IF c \in candidates THEN "active" ELSE state[c]],
               stage' = "split", UNCHANGED <<saved, embedded, sources, tries, exhausted, slips>>
        PROVE  Sound
    <2>1. rejected(R) \in SUBSET saved /\ \A o \in rejected(R) : home[o] \in R
      BY DEF Known, Members
    <2>2. rejected(R) \in SUBSET Opts /\ Active \in SUBSET ClusterIds
      BY <1>1, <2>1, LiveIs DEF RowsAre
    <2>3. /\ home' \in [Opts -> ClusterIds \cup {None}] /\ count' \in [ClusterIds -> Nat]
          /\ \A o \in Opts : \/ home'[o] = home[o] /\ (o \in rejected(R) => Active = {})
                             \/ o \in rejected(R) /\ home'[o] \in Active
      BY <1>1, <1>3, <2>2, ReassignIs
    <2>4. Live' = Live \ (R \cup empty) /\ Active \subseteq Live'
      <3>1. \A c \in ClusterIds : state'[c] = IF c \in R \cup empty THEN "archived"
                                              ELSE IF c \in candidates THEN "active" ELSE state[c]
        BY <1>3
      <3>2. R \cup empty \subseteq candidates
        OBVIOUS
      <3> HIDE DEF empty
      <3>3. \A c \in ClusterIds : c \in Live' <=> c \in Live /\ c \notin R \cup empty
        BY <3>1, <3>2, LiveIs, LiveWillBe
      <3>4. Live' = Live \ (R \cup empty)
        BY <3>3, LiveIs, LiveWillBe
      <3>. QED  BY <3>2, <3>4, LiveIs
    <2>5. RowsAre'
      BY <1>1, <1>3, <2>1, <2>3 DEF RowsAre
    <2>6. ClustersAre'
      BY <1>1, <1>3, <2>3 DEF ClustersAre
    <2>7. TasksAre' /\ Queued'
      BY <1>1, <1>3, PartServed DEF TasksAre, Parts
    <2>8. Named'
      <3>1. SUFFICES ASSUME NEW x \in saved \ (Batched \cup ejected), NEW i \in DOMAIN sources[x],
                            sources[x][i] \in Live'
                     PROVE  sources[x][i] = home'[x]
        BY <1>1, <1>3 DEF Named
      <3>2. x \in Opts /\ sources[x][i] = home[x] /\ home[x] \notin R
        BY <1>1, <2>4, <3>1 DEF RowsAre, Named
      <3>. QED  BY <2>1, <2>3, <3>2
    <2>9. MembersStay
      <3>1. SUFFICES ASSUME NEW o \in embedded, home[o] \in Live, home'[o] \notin Live'
                     PROVE  NoRefuge(o)
        BY DEF MembersStay
      <3>2. o \in Opts /\ o \in saved
        BY <1>1 DEF RowsAre
      <3>3. home[o] \notin empty
        BY <3>1, <3>2 DEF Known, Members
      <3>4. home[o] \in R
        BY <2>3, <2>4, <3>1, <3>2, <3>3
      <3>5. o \in rejected(R)
        BY <3>2, <3>4 DEF Known, Members
      <3>6. Active = {}
        BY <2>3, <2>4, <3>1, <3>2, <3>5
      <3>. QED  BY <1>1, <3>6 DEF NoRefuge
    <2>10. IndexStays
      BY <1>1, <2>4 DEF IndexStays
    <2>. QED  BY <2>5, <2>6, <2>7, <2>8, <2>9, <2>10 DEF Sound, MemberInv
  <1>. QED  BY <1>2, <1>3 DEF RunEvaluate

\* A sequence whose elements are replaced one by one.
LEMMA MappedSeq ==
    ASSUME NEW S, NEW s \in Seq(S), NEW t, t = [i \in DOMAIN s |-> t[i]],
           \A i \in DOMAIN s : t[i] \in S
    PROVE  t \in Seq(S) /\ DOMAIN t = DOMAIN s /\ (s = <<>> => t = <<>>)
  <1>1. Len(s) \in Nat /\ DOMAIN s = 1..Len(s) /\ (s = <<>> <=> Len(s) = 0)
    BY LenProperties, EmptySeq
  <1>2. t \in [1..Len(s) -> S]
    BY <1>1
  <1>3. t \in Seq(S) /\ DOMAIN t = 1..Len(s)
    BY <1>1, <1>2
  <1>4. Len(t) = Len(s)
    BY <1>1, <1>3, LenProperties
  <1>. QED  BY <1>1, <1>3, <1>4, EmptySeq

\* What a merge, a retirement or a split may do: the rows are where they should be.
Moved == RowsAre' /\ ClustersAre' /\ Named' /\ MembersStay /\ Follows

LEMMA MoveAllIs ==
    ASSUME MemberInv, NEW c \in Live, NEW d \in Active, c # d, MoveAll(c, d),
           index' \in {(index \ {c}) \cup {d}, index \ {c}},
           UNCHANGED <<saved, embedded, tries, exhausted, ejected, cached>>, snap' = {}
    PROVE  Moved
  <1>1. RowsAre /\ ClustersAre /\ Named /\ c \in ClusterIds /\ d \in ClusterIds /\ d \in Live
    BY LiveIs DEF MemberInv
  <1>2. /\ home' \in [Opts -> ClusterIds \cup {None}]
        /\ \A o \in Opts : home'[o] = IF home[o] = c THEN d ELSE home[o]
    BY <1>1 DEF MoveAll, RowsAre
  <1>3. /\ sources' = [o \in Opts |-> [i \in DOMAIN sources[o] |->
                                         IF sources[o][i] = c THEN d ELSE sources[o][i]]]
        /\ state' = [state EXCEPT ![c] = "archived"]
        /\ count' = [count EXCEPT ![c] = 0, ![d] = @ + Cardinality(Members(c))]
    BY DEF MoveAll
  <1>4. /\ \A o \in Opts : DOMAIN sources'[o] = DOMAIN sources[o]
        /\ \A o \in Opts : \A i \in DOMAIN sources[o] :
             sources'[o][i] = IF sources[o][i] = c THEN d ELSE sources[o][i]
    BY <1>3
  <1>5. /\ sources' \in [Opts -> Seq(ClusterIds)]
        /\ \A o \in Opts : sources[o] = <<>> => sources'[o] = <<>>
    <2>1. ASSUME NEW o \in Opts
          PROVE  sources'[o] \in Seq(ClusterIds) /\ (sources[o] = <<>> => sources'[o] = <<>>)
      <3>1. sources[o] \in Seq(ClusterIds)
        BY <1>1 DEF RowsAre
      <3>2. \A i \in DOMAIN sources[o] : sources'[o][i] \in ClusterIds
        BY <1>1, <1>4, <3>1, ElementOfSeq, LenProperties
      <3>3. sources'[o] = [i \in DOMAIN sources[o] |-> IF sources[o][i] = c THEN d ELSE sources[o][i]]
        BY <1>3
      <3>4. sources'[o] = [i \in DOMAIN sources[o] |-> sources'[o][i]]
        BY <3>3
      <3>. QED  BY <3>1, <3>2, <3>4, MappedSeq
    <2>2. sources' = [o \in Opts |-> sources'[o]]
      BY <1>3
    <2>. QED  BY <2>1, <2>2
  <1>6. RowsAre'
    <2>1. \A o \in Opts \ saved : home'[o] = None /\ sources'[o] = <<>>
      BY <1>1, <1>2, <1>5, MembershipAssumption DEF RowsAre
    <2>. QED  BY <1>1, <1>2, <1>5, <2>1 DEF RowsAre
  <1>7. ClustersAre'
    <2>1. Members(c) \in SUBSET Opts
      BY <1>1 DEF RowsAre, Members
    <2>2. PICK n \in Nat : n = Cardinality(Members(c))
      BY <2>1, CountIs
    <2>3. count' \in [ClusterIds -> Nat]
      BY <1>1, <1>3, <2>2 DEF ClustersAre
    <2>4. state' \in [ClusterIds -> {"absent", "candidate", "active", "archived"}]
      BY <1>1, <1>3 DEF ClustersAre
    <2>5. index' \subseteq ClusterIds
      BY <1>1 DEF ClustersAre
    <2>. QED  BY <1>1, <2>3, <2>4, <2>5 DEF ClustersAre
  <1>8. Live' = Live \ {c} /\ d \in Live'
    <2>1. \A x \in ClusterIds : state'[x] = IF x = c THEN "archived" ELSE state[x]
      BY <1>1, <1>3 DEF ClustersAre
    <2>. QED  BY <1>1, <2>1, LiveIs, LiveWillBe
  <1>9. Named'
    <2>1. SUFFICES ASSUME NEW x \in saved \ (Batched \cup ejected), NEW i \in DOMAIN sources'[x],
                          sources'[x][i] \in Live'
                   PROVE  sources'[x][i] = home'[x]
      BY DEF Named
    <2>2. x \in Opts /\ i \in DOMAIN sources[x]
      BY <1>1, <1>4, <2>1 DEF RowsAre
    <2>3. sources[x][i] = home[x]
      BY <1>1, <1>4, <1>8, <2>1, <2>2 DEF Named
    <2>. QED  BY <1>2, <1>4, <2>2, <2>3
  <1>10. MembersStay
    BY <1>1, <1>2, <1>8 DEF MembersStay, RowsAre
  <1>11. Follows
    BY <1>1, <1>8 DEF Follows
  <1>. QED  BY <1>6, <1>7, <1>9, <1>10, <1>11 DEF Moved

LEMMA SplitIs ==
    ASSUME MemberInv, NEW c \in Live, NEW f \in [Known(c) -> Unused], NEW noise \in SUBSET Known(c),
           Split(c, f, noise),
           UNCHANGED <<saved, embedded, tries, exhausted, ejected, cached>>, snap' = {}
    PROVE  Moved
  <1> DEFINE children == {f[o] : o \in DOMAIN f}
  <1>1. RowsAre /\ ClustersAre /\ Named /\ c \in ClusterIds
    BY LiveIs DEF MemberInv
  <1>2. /\ Known(c) \subseteq embedded /\ \A o \in Opts : o \in Known(c) <=> o \in embedded /\ home[o] = c
        /\ Known(c) \in SUBSET Opts /\ DOMAIN f = Known(c)
    BY <1>1 DEF Known, Members, RowsAre
  <1>3. \A o \in Known(c) : f[o] \in ClusterIds /\ f[o] \notin Live
    BY UnusedIs
  <1>4. /\ home' = [o \in Opts |-> IF o \in Known(c) THEN f[o] ELSE home[o]]
        /\ sources' = [o \in Opts |-> [i \in DOMAIN sources[o] |->
                         IF sources[o][i] = c /\ o \in Known(c) \ noise THEN f[o] ELSE sources[o][i]]]
        /\ state' = [x \in ClusterIds |-> IF x = c THEN "archived"
                                         ELSE IF x \in children THEN "candidate" ELSE state[x]]
        /\ count' = [x \in ClusterIds |-> IF x = c THEN 0
                       ELSE IF x \in children THEN Cardinality({o \in Known(c) : f[o] = x}) ELSE count[x]]
        /\ index' = (index \ {c}) \cup children
    BY <1>2 DEF Split
  <1>5. \A o \in Opts : home'[o] = IF o \in Known(c) THEN f[o] ELSE home[o]
    BY <1>4
  <1>6. \A o \in Opts : \A i \in DOMAIN sources[o] :
          sources'[o][i] = IF sources[o][i] = c /\ o \in Known(c) \ noise THEN f[o] ELSE sources[o][i]
    BY <1>4
  <1>7. /\ sources' \in [Opts -> Seq(ClusterIds)]
        /\ \A o \in Opts : DOMAIN sources'[o] = DOMAIN sources[o] /\ (sources[o] = <<>> => sources'[o] = <<>>)
    <2>1. ASSUME NEW o \in Opts
          PROVE  /\ sources'[o] \in Seq(ClusterIds) /\ DOMAIN sources'[o] = DOMAIN sources[o]
                 /\ sources[o] = <<>> => sources'[o] = <<>>
      <3>1. sources[o] \in Seq(ClusterIds)
        BY <1>1 DEF RowsAre
      <3>2. \A i \in DOMAIN sources[o] : sources'[o][i] \in ClusterIds
        BY <1>1, <1>3, <1>6, <3>1, ElementOfSeq, LenProperties
      <3>3. sources'[o] = [i \in DOMAIN sources[o] |->
              IF sources[o][i] = c /\ o \in Known(c) \ noise THEN f[o] ELSE sources[o][i]]
        BY <1>4
      <3>4. sources'[o] = [i \in DOMAIN sources[o] |-> sources'[o][i]]
        BY <3>3
      <3>. QED  BY <3>1, <3>2, <3>4, MappedSeq
    <2>2. sources' = [o \in Opts |-> sources'[o]]
      BY <1>4
    <2>. QED  BY <2>1, <2>2
  <1>8. RowsAre'
    <2>1. \A o \in Opts \ saved : home'[o] = None /\ sources'[o] = <<>>
      BY <1>1, <1>2, <1>5, <1>7 DEF RowsAre
    <2>2. home' \in [Opts -> ClusterIds \cup {None}]
      BY <1>1, <1>3, <1>4 DEF RowsAre
    <2>. QED  BY <1>1, <1>7, <2>1, <2>2 DEF RowsAre
  <1>9. children \subseteq ClusterIds /\ \A x \in children : x \notin Live /\ x \in Unused
    BY <1>2, <1>3
  <1>10. ClustersAre'
    <2>1. \A x \in ClusterIds : Cardinality({o \in Known(c) : f[o] = x}) \in Nat
      <3>1. TAKE x \in ClusterIds
      <3>2. {o \in Known(c) : f[o] = x} \in SUBSET Opts
        BY <1>2
      <3>. QED  BY <3>2, CountIs
    <2> HIDE DEF children
    <2>2. count' \in [ClusterIds -> Nat]
      BY <1>1, <1>4, <2>1 DEF ClustersAre
    <2>3. state' \in [ClusterIds -> {"absent", "candidate", "active", "archived"}]
      BY <1>1, <1>4 DEF ClustersAre
    <2>4. index' \subseteq ClusterIds
      BY <1>1, <1>4, <1>9 DEF ClustersAre
    <2>. QED  BY <1>1, <2>2, <2>3, <2>4 DEF ClustersAre
  <1>11. Live' = (Live \ {c}) \cup children
    <2> HIDE DEF children
    <2>1. \A x \in ClusterIds : state'[x] = IF x = c THEN "archived"
                                            ELSE IF x \in children THEN "candidate" ELSE state[x]
      BY <1>4
    <2>. QED  BY <1>1, <1>9, <2>1, LiveIs, LiveWillBe
  <1>12. Named'
    <2>1. SUFFICES ASSUME NEW x \in saved \ (Batched \cup ejected), NEW i \in DOMAIN sources'[x],
                          sources'[x][i] \in Live'
                   PROVE  sources'[x][i] = home'[x]
      BY DEF Named
    <2>2. x \in Opts /\ i \in DOMAIN sources[x]
      BY <1>1, <1>7, <2>1 DEF RowsAre
    <2>3. CASE sources[x][i] = c /\ x \in Known(c) \ noise
      BY <1>5, <1>6, <2>2, <2>3
    <2>4. CASE ~(sources[x][i] = c /\ x \in Known(c) \ noise)
      <3>1. sources'[x][i] = sources[x][i] /\ sources[x][i] \notin Unused
        BY <1>6, <2>2, <2>4, UnusedIs
      <3>2. sources[x][i] \in Live \ {c}
        BY <1>9, <1>11, <2>1, <3>1
      <3>3. sources[x][i] = home[x] /\ home[x] # c
        BY <1>1, <2>1, <2>2, <3>2 DEF Named
      <3>. QED  BY <1>2, <1>5, <2>2, <3>1, <3>3
    <2>. QED  BY <2>3, <2>4
  <1>13. MembersStay
    <2>1. SUFFICES ASSUME NEW o \in embedded, home[o] \in Live
                   PROVE  home'[o] \in Live'
      BY DEF MembersStay
    <2>2. o \in Opts
      BY <1>1 DEF RowsAre
    <2>3. CASE home[o] = c
      BY <1>2, <1>5, <1>11, <2>2, <2>3
    <2>4. CASE home[o] # c
      BY <1>2, <1>5, <1>11, <2>1, <2>2, <2>4
    <2>. QED  BY <2>3, <2>4
  <1>14. Follows
    BY <1>4, <1>11 DEF Follows
  <1>. QED  BY <1>8, <1>10, <1>12, <1>13, <1>14 DEF Moved

LEMMA DissolveIs ==
    ASSUME MemberInv, Serve("retire"), DissolveOne,
           UNCHANGED <<saved, embedded, tries, exhausted, ejected, cached>>, snap' = {}
    PROVE  Moved
  <1>1. RowsAre /\ ClustersAre /\ Named
    BY DEF MemberInv
  <1>2. PICK c \in Active : /\ \E g \in Reassignments(Known(c), Active \ {c}) : Reassign(g, {c})
                            /\ state' = [state EXCEPT ![c] = "archived"]
                            /\ index' = index \ {c} /\ UNCHANGED sources
    BY DEF DissolveOne
  <1>3. PICK g \in Reassignments(Known(c), Active \ {c}) : Reassign(g, {c})
    BY <1>2
  <1>4. /\ \A o \in Opts : o \in Known(c) <=> o \in embedded /\ home[o] = c
        /\ Known(c) \in SUBSET Opts /\ Known(c) \subseteq saved
        /\ Active \ {c} \in SUBSET ClusterIds /\ c \in ClusterIds /\ c \in Live
    BY <1>1, <1>2, LiveIs DEF Known, Members, RowsAre
  <1>5. /\ home' \in [Opts -> ClusterIds \cup {None}] /\ count' \in [ClusterIds -> Nat]
        /\ \A o \in Opts : \/ home'[o] = home[o] /\ (o \in Known(c) => Active \ {c} = {})
                           \/ o \in Known(c) /\ home'[o] \in Active \ {c}
    BY <1>1, <1>3, <1>4, ReassignIs
  <1>6. /\ state' \in [ClusterIds -> {"absent", "candidate", "active", "archived"}]
        /\ \A x \in ClusterIds : state'[x] = IF x = c THEN "archived" ELSE state[x]
    BY <1>1, <1>2, <1>4 DEF ClustersAre
  <1>7. Live' = Live \ {c} /\ Active \ {c} \subseteq Live'
    BY <1>4, <1>6, LiveIs, LiveWillBe
  <1>8. RowsAre'
    BY <1>1, <1>2, <1>4, <1>5 DEF RowsAre
  <1>9. ClustersAre'
    BY <1>1, <1>2, <1>5, <1>6 DEF ClustersAre
  <1>10. Named'
    <2>1. SUFFICES ASSUME NEW x \in saved \ (Batched \cup ejected), NEW i \in DOMAIN sources[x],
                          sources[x][i] \in Live'
                   PROVE  sources[x][i] = home'[x]
      BY <1>2 DEF Named
    <2>2. x \in Opts /\ sources[x][i] = home[x] /\ home[x] # c
      BY <1>1, <1>7, <2>1 DEF RowsAre, Named
    <2>. QED  BY <1>4, <1>5, <2>2
  <1>11. MembersStay
    <2>1. SUFFICES ASSUME NEW o \in embedded, home[o] \in Live, home'[o] \notin Live'
                   PROVE  NoRefuge(o)
      BY DEF MembersStay
    <2>2. o \in Opts
      BY <1>1 DEF RowsAre
    <2>3. home'[o] = home[o] /\ home[o] = c /\ Active \ {c} = {}
      BY <1>4, <1>5, <1>7, <2>1, <2>2
    <2>. QED  BY <2>3 DEF NoRefuge
  <1>12. Follows
    BY <1>2, <1>7 DEF Follows
  <1>. QED  BY <1>8, <1>9, <1>10, <1>11, <1>12 DEF Moved

LEMMA TransformIs ==
    ASSUME MemberInv, NEW part, Serve(part), Transform(part),
           UNCHANGED <<saved, embedded, tries, exhausted, ejected, cached>>, snap' = {}
    PROVE  Moved
  <1>1. CASE SplitOne
    <2>1. PICK c \in Live : \E s \in Splits(c) : Split(c, s[1], s[2])
      BY <1>1 DEF SplitOne
    <2>2. PICK s \in Splits(c) : Split(c, s[1], s[2])
      BY <2>1
    <2>3. s[1] \in [Known(c) -> Fresh(Cardinality(Known(c)))] /\ s[2] \in SUBSET Known(c)
      BY DEF Splits
    <2>4. PICK f \in [Known(c) -> Unused], noise \in SUBSET Known(c) : f = s[1] /\ noise = s[2]
      BY <2>3, FreshIs
    <2>. QED  BY <2>2, <2>4, SplitIs
  <1>2. CASE MergeTwo
    <2>1. PICK c \in Active, d \in Active : c # d /\ MoveAll(c, d) /\ MoveInIndex(c, d)
      BY <1>2 DEF MergeTwo
    <2>2. c \in Live /\ index' = (index \ {c}) \cup {d}
      BY <2>1, LiveIs DEF MoveInIndex
    <2>. QED  BY <2>1, <2>2, MoveAllIs
  <1>3. CASE RetireOne
    <2>1. PICK c \in Live, d \in Active : c # d /\ MoveAll(c, d) /\ index' = index \ {c}
      BY <1>3 DEF RetireOne
    <2>. QED  BY <2>1, MoveAllIs
  <1>4. CASE part = "retire" /\ DissolveOne
    BY <1>4, DissolveIs
  <1>. QED  BY <1>1, <1>2, <1>3, <1>4 DEF Transform

LEMMA FollowingIs ==
    /\ Following("split") = "merge" /\ Following("merge") = "retire"
    /\ Following("retire") = "refresh"
  <1>1. DOMAIN PhaseOrder = 1..4 /\ PhaseOrder[1] = "split" /\ PhaseOrder[2] = "merge"
        /\ PhaseOrder[3] = "retire" /\ PhaseOrder[4] = "refresh"
    BY DEF PhaseOrder
  <1>2. \A i \in DOMAIN PhaseOrder : i = 1 \/ i = 2 \/ i = 3 \/ i = 4
    BY <1>1
  <1>3. ASSUME NEW n \in 1..3, NEW part, PhaseOrder[n] = part,
               \A i \in 1..4 : PhaseOrder[i] = part => i = n
        PROVE  Following(part) = PhaseOrder[n + 1]
    <2>1. n \in DOMAIN PhaseOrder
      BY <1>1
    <2>2. (CHOOSE i \in DOMAIN PhaseOrder : PhaseOrder[i] = part) = n
      BY <1>1, <1>3, <2>1
    <2>. QED  BY <2>2 DEF Following
  <1>4. Following("split") = PhaseOrder[1 + 1]
    BY <1>1, <1>2, <1>3
  <1>5. Following("merge") = PhaseOrder[2 + 1]
    BY <1>1, <1>2, <1>3
  <1>6. Following("retire") = PhaseOrder[3 + 1]
    BY <1>1, <1>2, <1>3
  <1>. QED  BY <1>1, <1>4, <1>5, <1>6

LEMMA RunPhaseKeeps ==
    ASSUME MemberInv, NEW part \in {"split", "merge", "retire"}, RunPhase(part)
    PROVE  Sound
  <1>1. RowsAre /\ ClustersAre /\ TasksAre /\ Named
        /\ UNCHANGED <<cached, told, dispatched, following, scanning, batch, seeding, ejected>>
        /\ Serve(part) /\ snap' = {} /\ part \in Parts
    BY DEF MemberInv, RunPhase, Parts, noted
  <1>2. Following(part) \in Parts \cup {"idle", "refresh"}
    BY FollowingIs DEF Parts
  <1>3. CASE stage' = Following(part) /\ UNCHANGED <<db, index, slips>>
    <2>1. RowsAre' /\ ClustersAre' /\ Named' /\ Stays /\ Follows
          /\ UNCHANGED <<saved, exhausted>>
      BY <1>1, <1>3, QuietIs DEF ClustersAre
    <2>2. TasksAre' /\ Queued'
      BY <1>1, <1>2, <1>3, <2>1, PartServed DEF TasksAre
    <2>. QED  BY <2>1, <2>2, SoundIs
  <1>4. CASE /\ Transform(part) /\ stage' = Following(part)
             /\ UNCHANGED <<saved, embedded, tries, exhausted, slips>>
    <2>1. Moved
      BY <1>1, <1>4, TransformIs
    <2>2. TasksAre' /\ Queued'
      BY <1>1, <1>2, <1>4, PartServed DEF TasksAre
    <2>. QED  BY <2>1, <2>2 DEF Moved, Sound, MemberInv, IndexStays, Follows
  <1>5. CASE stage' = Following(part) /\ index' = snap /\ UNCHANGED <<db, slips>>
    <2>1. RowsAre' /\ ClustersAre' /\ Named'
      BY <1>1, <1>5, StandKeeps DEF ClustersAre
    <2>2. UNCHANGED <<saved, exhausted, home, state>>
      BY <1>5 DEF db, rows, clusters
    <2>3. TasksAre' /\ Queued'
      BY <1>1, <1>2, <1>5, <2>2, PartServed DEF TasksAre
    <2>4. MembersStay
      BY <2>2 DEF MembersStay, Live, Active
    <2>5. IndexStays
      BY <1>1, <1>5 DEF IndexStays, Undone
    <2>. QED  BY <2>1, <2>3, <2>4, <2>5 DEF Sound, MemberInv
  <1>6. CASE /\ Slip /\ stage' = "idle"
             /\ \E c \in Live, K \in SUBSET Added(part) : index' = (index \ {c}) \cup K
             /\ UNCHANGED db
    <2>1. Added(part) \subseteq ClusterIds
      BY FreshIs, UnusedIs, LiveIs DEF Added
    <2>2. index' \subseteq ClusterIds /\ snap' \subseteq ClusterIds
      BY <1>1, <1>6, <2>1 DEF ClustersAre
    <2>. QED  BY <1>1, <1>6, <2>2, PartFails
  <1>. QED  BY <1>3, <1>4, <1>5, <1>6 DEF RunPhase

LEMMA EjectIs ==
    ASSUME MemberInv, NEW S \in SUBSET SemiOrphans,
           NEW h \in [Opts -> ClusterIds \cup {None}], \A o \in Opts \ S : h[o] = home[o],
           NEW X \in SUBSET (embedded \ ejected), NEW g \in [X -> (Active \cap Peopled) \cup Unused],
           Eject(X, h, g), index' = index \ (Live \ Peopled),
           sources' = [o \in Opts |-> IF o \in saved THEN Repaired(sources[o], home'[o])
                                      ELSE sources[o]],
           UNCHANGED <<saved, embedded, tries, exhausted, cached, snap>>
    PROVE  RowsAre' /\ ClustersAre' /\ Named' /\ Stays /\ (index = Live => index' \subseteq Live')
  <1>1. RowsAre /\ ClustersAre /\ Named /\ X \in SUBSET saved /\ X \in SUBSET Opts
        /\ S \in SUBSET saved /\ saved \in SUBSET Opts
    BY DEF MemberInv, RowsAre, SemiOrphans
  <1>2. Peopled \subseteq Live /\ Live \subseteq ClusterIds /\ Active \subseteq Live
    BY LiveIs DEF Peopled
  <1>3. \A o \in X : g[o] \in ClusterIds /\ (g[o] \in Peopled \/ g[o] \in Unused)
    BY <1>2, UnusedIs
  <1>4. /\ home' = [o \in Opts |-> IF o \in X THEN g[o] ELSE h[o]]
        /\ state' = [c \in ClusterIds |-> IF c \in Live \ Peopled THEN "archived"
                                         ELSE IF c \notin Live /\ \E o \in X : g[o] = c THEN "active"
                                         ELSE state[c]]
        /\ ejected' = ejected \cup X
    BY DEF Eject
  <1>5. /\ home' \in [Opts -> ClusterIds \cup {None}]
        /\ \A o \in Opts : home'[o] = IF o \in X THEN g[o] ELSE h[o]
    BY <1>1, <1>3, <1>4
  <1>6. \A c \in ClusterIds : c \in Live' <=> c \in Peopled \/ (c \notin Live /\ \E o \in X : g[o] = c)
    BY <1>2, <1>4, LiveIs, LiveWillBe
  <1>7. sources' \in [Opts -> Seq(ClusterIds)]
    <2>1. \A o \in Opts : sources'[o] \in Seq(ClusterIds)
      <3>1. TAKE o \in Opts
      <3>2. PICK list \in Seq(ClusterIds), k \in ClusterIds \cup {None} : list = sources[o] /\ k = home'[o]
        BY <1>1, <1>5 DEF RowsAre
      <3>3. Repaired(list, k) \in Seq(ClusterIds)
        BY RepairedIs
      <3>4. sources'[o] = Repaired(list, k) \/ sources'[o] = list
        BY <3>2
      <3>. QED  BY <3>3, <3>4
    <2>2. sources' = [o \in Opts |-> sources'[o]]
      OBVIOUS
    <2>. QED  BY <2>1, <2>2
  <1>8. RowsAre'
    <2>1. \A o \in Opts \ saved : home'[o] = None /\ sources'[o] = <<>>
      BY <1>1, <1>5 DEF RowsAre
    <2>2. ejected' \subseteq saved
      BY <1>1, <1>4 DEF RowsAre
    <2>. QED  BY <1>1, <1>5, <1>7, <2>1, <2>2 DEF RowsAre
  <1>9. count' \in [ClusterIds -> Nat]
    <2>1. PICK early \in SUBSET X :
            count' = [c \in ClusterIds |->
                        Less(Size(c) + Cardinality({o \in early : g[o] = c}),
                             Cardinality({o \in X : h[o] = c}))
                        + Cardinality({o \in X \ early : g[o] = c})]
      BY DEF Eject
    <2>2. ASSUME NEW c \in ClusterIds
          PROVE  Less(Size(c) + Cardinality({o \in early : g[o] = c}),
                      Cardinality({o \in X : h[o] = c}))
                 + Cardinality({o \in X \ early : g[o] = c}) \in Nat
      <3>1. /\ {o \in early : g[o] = c} \in SUBSET Opts /\ {o \in X : h[o] = c} \in SUBSET Opts
            /\ {o \in X \ early : g[o] = c} \in SUBSET Opts /\ Members(c) \in SUBSET Opts
        BY <1>1 DEF Members
      <3>2. /\ Cardinality({o \in early : g[o] = c}) \in Nat /\ Cardinality({o \in X : h[o] = c}) \in Nat
            /\ Cardinality({o \in X \ early : g[o] = c}) \in Nat /\ Cardinality(Members(c)) \in Nat
        BY <3>1, CountIs
      <3>3. Size(c) \in Nat
        BY <1>1, <3>2 DEF Size, ClustersAre
      <3>4. \A m, n, k, l \in Nat : Less(m + n, k) + l \in Nat
        BY DEF Less
      <3>. QED  BY <3>2, <3>3, <3>4
    <2>. QED  BY <2>1, <2>2
  <1>10. ClustersAre'
    <2>1. state' \in [ClusterIds -> {"absent", "candidate", "active", "archived"}]
      BY <1>1, <1>4 DEF ClustersAre
    <2>. QED  BY <1>1, <1>9, <2>1 DEF ClustersAre
  <1>11. Named'
    <2>1. SUFFICES ASSUME NEW x \in saved \ (Batched \cup ejected'), NEW i \in DOMAIN sources'[x],
                          sources'[x][i] # home'[x], sources'[x][i] \in Live'
                   PROVE  FALSE
      BY DEF Named
    <2>2. x \in Opts /\ x \notin X /\ x \notin Batched \cup ejected /\ home'[x] = h[x]
      BY <1>1, <1>4, <1>5, <2>1
    <2>3. PICK list \in Seq(ClusterIds), k \in ClusterIds \cup {None} : list = sources[x] /\ k = home'[x]
      BY <1>1, <1>5, <2>2 DEF RowsAre
    <2>4. sources'[x] = Repaired(list, k)
      BY <2>1, <2>2, <2>3
    <2>5. PICK j \in DOMAIN list : sources'[x][i] = list[j]
      <3>1. \A m \in DOMAIN Repaired(list, k) : \/ Repaired(list, k)[m] = k
                                               \/ \E j \in DOMAIN list : Repaired(list, k)[m] = list[j]
        BY RepairedIs
      <3>2. \A m \in DOMAIN sources'[x] : \/ sources'[x][m] = k
                                          \/ \E j \in DOMAIN list : sources'[x][m] = list[j]
        BY <2>4, <3>1, Zenon
      <3>. QED  BY <2>1, <2>3, <3>2
    <2>6. list[j] \in ClusterIds /\ list[j] \notin Unused
      BY <2>2, <2>3, LenProperties, ElementOfSeq, UnusedIs
    <2>7. list[j] \in Peopled
      BY <1>3, <1>6, <1>2, <2>1, <2>5, <2>6
    <2>8. list[j] = home[x]
      BY <1>1, <1>2, <2>1, <2>2, <2>3, <2>7 DEF Named
    <2>9. x \notin S
      BY <2>7, <2>8 DEF SemiOrphans
    <2>. QED  BY <2>1, <2>2, <2>5, <2>8, <2>9
  <1>12. Stays
    <2>1. SUFFICES ASSUME NEW o \in embedded, home[o] \in Live
                   PROVE  home'[o] \in Live'
      BY DEF Stays
    <2>2. o \in Opts /\ home[o] \in Peopled
      BY <1>1, <2>1 DEF RowsAre, Peopled, Members
    <2>3. h[o] = home[o]
      BY <2>2 DEF SemiOrphans
    <2>4. CASE o \in X
      <3>1. g[o] \in Unused => g[o] \notin Live
        BY UnusedIs
      <3>. QED  BY <1>3, <1>5, <1>6, <2>2, <2>4, <3>1
    <2>5. CASE o \notin X
      BY <1>2, <1>5, <1>6, <2>2, <2>3, <2>5
    <2>. QED  BY <2>4, <2>5
  <1>13. index = Live => index' \subseteq Live'
    BY <1>2, <1>6
  <1>. QED  BY <1>8, <1>10, <1>11, <1>12, <1>13

LEMMA RunReconcileKeeps == ASSUME MemberInv, RunReconcile PROVE Sound
  <1>1. RowsAre /\ ClustersAre /\ TasksAre /\ Named
        /\ UNCHANGED <<cached, told, dispatched, following, scanning, batch, snap, seeding>>
        /\ Serve("reconcile") /\ "reconcile" \in Parts /\ index' = index \ (Live \ Peopled)
    BY DEF MemberInv, RunReconcile, Parts
  <1>2. index' \subseteq ClusterIds
    BY <1>1 DEF ClustersAre
  <1>3. CASE Slip /\ stage' = "idle" /\ UNCHANGED <<db, ejected>>
    BY <1>1, <1>2, <1>3, PartFails DEF ClustersAre
  <1>4. CASE stage' = "idle" /\ UNCHANGED <<db, slips, ejected>>
    <2>1. RowsAre' /\ ClustersAre' /\ Named'
      BY <1>1, <1>2, <1>4, StandKeeps DEF ClustersAre
    <2>2. UNCHANGED <<saved, exhausted, home, state>>
      BY <1>4 DEF db, rows, clusters
    <2>3. TasksAre' /\ Queued'
      BY <1>1, <1>4, <2>2, PartServed DEF TasksAre
    <2>4. Live' = Live
      BY <2>2 DEF Live, Active
    <2>5. MembersStay /\ IndexStays
      BY <1>1, <2>2, <2>4 DEF MembersStay, IndexStays
    <2>. QED  BY <2>1, <2>3, <2>5 DEF Sound, MemberInv
  <1>5. CASE /\ \E S \in SUBSET SemiOrphans :
                \E f \in [S -> {c \in index' : state[c] # "absent"}] :
                  LET h == [o \in Opts |-> IF o \in S THEN f[o] ELSE home[o]]
                      crowded == {o \in embedded : h[o] \in Active \cap Peopled /\ Size(h[o]) >= EjectMin}
                  IN  \E X \in SUBSET (crowded \ ejected) : \E g \in Ejections(X, h) : Eject(X, h, g)
             /\ sources' = [o \in Opts |-> IF o \in saved THEN Repaired(sources[o], home'[o])
                                           ELSE sources[o]]
             /\ stage' = "evaluate"
             /\ UNCHANGED <<saved, embedded, tries, exhausted, slips>>
    <2>1. PICK S \in SUBSET SemiOrphans :
            \E f \in [S -> {c \in index' : state[c] # "absent"}] :
              LET h == [o \in Opts |-> IF o \in S THEN f[o] ELSE home[o]]
                  crowded == {o \in embedded : h[o] \in Active \cap Peopled /\ Size(h[o]) >= EjectMin}
              IN  \E X \in SUBSET (crowded \ ejected) : \E g \in Ejections(X, h) : Eject(X, h, g)
      BY <1>5
    <2>2. PICK f \in [S -> {c \in index' : state[c] # "absent"}] :
            LET h == [o \in Opts |-> IF o \in S THEN f[o] ELSE home[o]]
                crowded == {o \in embedded : h[o] \in Active \cap Peopled /\ Size(h[o]) >= EjectMin}
            IN  \E X \in SUBSET (crowded \ ejected) : \E g \in Ejections(X, h) : Eject(X, h, g)
      BY <2>1
    <2>3. PICK h \in [Opts -> ClusterIds \cup {None}] :
            /\ h = [o \in Opts |-> IF o \in S THEN f[o] ELSE home[o]]
            /\ \A o \in Opts \ S : h[o] = home[o]
      <3>1. \A o \in S : f[o] \in ClusterIds
        BY <1>2
      <3>2. [o \in Opts |-> IF o \in S THEN f[o] ELSE home[o]] \in [Opts -> ClusterIds \cup {None}]
        BY <1>1, <3>1 DEF RowsAre
      <3>. QED  BY <3>2
    <2>4. PICK X \in SUBSET (embedded \ ejected) : \E g \in Ejections(X, h) : Eject(X, h, g)
      BY <2>2, <2>3
    <2>5. PICK g \in Ejections(X, h) : Eject(X, h, g)
      BY <2>4
    <2>6. g \in [X -> (Active \cap Peopled) \cup Unused]
      BY FreshIs DEF Ejections
    <2>7. RowsAre' /\ ClustersAre' /\ Named' /\ Stays /\ (index = Live => index' \subseteq Live')
      BY <1>1, <1>5, <2>3, <2>5, <2>6, EjectIs
    <2>8. TasksAre' /\ Queued'
      BY <1>1, <1>5, PartServed DEF TasksAre, Parts
    <2>9. MembersStay /\ IndexStays
      BY <1>1, <2>7 DEF MembersStay, IndexStays, Stays
    <2>. QED  BY <2>7, <2>8, <2>9 DEF Sound, MemberInv
  <1>. QED  BY <1>3, <1>4, <1>5 DEF RunReconcile

-----------------------------------------------------------------------------
LEMMA MembersBegin == MemberInit => MemberInv
  <1> SUFFICES ASSUME MemberInit PROVE MemberInv
    OBVIOUS
  <1> USE DEF MemberInit
  <1>1. RowsAre
    BY MembershipAssumption DEF RowsAre
  <1>2. ClustersAre
    BY DEF ClustersAre
  <1>3. TasksAre
    BY DEF TasksAre
  <1>4. Queued
    BY DEF Queued
  <1>5. Named
    BY DEF Named
  <1>. QED  BY <1>1, <1>2, <1>3, <1>4, <1>5 DEF MemberInv

LEMMA MembersStep == ASSUME MemberInv, MemberNext PROVE Sound
  <1>1. CASE Worker
    BY <1>1, RunHotKeeps, RunPromoteKeeps, RunRecoverKeeps, RunRetryKeeps, RunBatchKeeps,
       RunReconcileKeeps, RunEvaluateKeeps, RunPhaseKeeps DEF Worker
  <1>2. CASE PersistBatch \/ SubmitAssign \/ StartCycle \/ AskEvaluate \/ Snapshot \/ EndCycle
             \/ Curate \/ Rebuild \/ Restart \/ Backfill \/ GiveUpOther
    BY <1>2, PersistBatchKeeps, SubmitAssignKeeps, StartCycleKeeps, AskEvaluateKeeps, SnapshotKeeps,
       EndCycleKeeps, CurateKeeps, RebuildKeeps, RestartKeeps, BackfillKeeps, GiveUpOtherKeeps
  <1>3. CASE \E o \in Opts : Save(o) \/ Dispatch(o) \/ FollowUp(o) \/ LoseEvent(o) \/ Scan(o) \/ Seed(o)
    BY <1>3, SaveKeeps, DispatchKeeps, FollowUpKeeps, LoseEventKeeps, ScanKeeps, SeedKeeps
  <1>. QED  BY <1>1, <1>2, <1>3 DEF MemberNext

LEMMA MembersStutter == MemberInv /\ UNCHANGED memberVars => MemberInv'
  <1> SUFFICES ASSUME MemberInv, UNCHANGED memberVars PROVE MemberInv'
    OBVIOUS
  <1>1. /\ UNCHANGED <<db, index, cached, snap, ejected>>
        /\ UNCHANGED <<queue, told, dispatched, following, scanning, batch, stage, seeding, slips>>
    BY DEF memberVars, tasks, noted
  <1>2. RowsAre' /\ ClustersAre' /\ Named' /\ UNCHANGED <<saved, exhausted>>
    BY <1>1, QuietIs DEF MemberInv, ClustersAre
  <1>3. TasksAre'
    BY <1>1, <1>2 DEF MemberInv, TasksAre
  <1>4. Queued'
    BY <1>1, <1>2, WaitsKeeps DEF MemberInv
  <1>. QED  BY <1>2, <1>3, <1>4 DEF MemberInv

\* The histories no other part of the invariant is about.
Noticed == cut \subseteq Opts /\ others \in Nat

LEMMA NoticedKeeps == ASSUME MemberInv, Noticed, [MemberNext]_memberVars PROVE Noticed'
  <1>1. CASE \E o \in Opts : Seed(o)
    BY <1>1 DEF Noticed, Seed, CutShort
  <1>2. CASE GiveUpOther
    <2>1. cut' = cut /\ (others' = others + 1 \/ (others > 0 /\ others' = others - 1))
      BY <1>2 DEF GiveUpOther
    <2>. QED  BY <2>1 DEF Noticed
  <1>3. CASE Worker
    BY <1>3 DEF Noticed, noted, Worker, RunHot, RunPromote, RunRecover, RunRetry, RunBatch,
                RunReconcile, RunEvaluate, RunPhase
  <1>4. CASE PersistBatch \/ SubmitAssign \/ StartCycle \/ AskEvaluate \/ Snapshot \/ EndCycle
    BY <1>4 DEF Noticed, noted, PersistBatch, SubmitAssign, StartCycle, AskEvaluate, Snapshot, EndCycle
  <1>5. CASE Curate \/ Rebuild \/ Restart \/ Backfill
    BY <1>5 DEF Noticed, noted, Curate, Rebuild, Restart, Backfill
  <1>6. CASE \E o \in Opts : Save(o) \/ Dispatch(o) \/ FollowUp(o) \/ LoseEvent(o) \/ Scan(o)
    BY <1>6 DEF Noticed, noted, Save, Dispatch, FollowUp, LoseEvent, Scan
  <1>7. CASE UNCHANGED memberVars
    BY <1>7 DEF Noticed, noted, memberVars
  <1>. QED  BY <1>1, <1>2, <1>3, <1>4, <1>5, <1>6, <1>7 DEF MemberNext

LEMMA MembersAlways == MemberSpec => []MemberInv
  <1>1. MemberInv /\ [MemberNext]_memberVars => MemberInv'
    BY MembersStep, MembersStutter DEF Sound
  <1>. QED  BY <1>1, MembersBegin, PTL DEF MemberSpec

LEMMA NoticedAlways == MemberSpec => []Noticed
  <1>1. MemberInit => Noticed
    BY MembershipAssumption DEF MemberInit, Noticed
  <1>. QED  BY <1>1, NoticedKeeps, MembersAlways, PTL DEF MemberSpec

LEMMA MemberInvTypes == MemberInv /\ Noticed => MemberTypeOK
  <1> SUFFICES ASSUME MemberInv, Noticed PROVE MemberTypeOK
    OBVIOUS
  <1>1. RowsAre /\ ClustersAre /\ TasksAre /\ Queued
    BY DEF MemberInv
  <1>2. /\ {saved, embedded, exhausted, told, dispatched, following, seeding, ejected, cut}
             \subseteq SUBSET Opts
        /\ others \in Nat
        /\ embedded \cup exhausted \cup seeding \cup ejected \subseteq saved
        /\ home \in [Opts -> ClusterIds \cup {None}] /\ \A o \in Opts : sources[o] \in Seq(ClusterIds)
        /\ tries \in [Opts -> 0..MaxTries] /\ batch \in {"running", "stored", "over"}
    BY <1>1 DEF RowsAre, TasksAre, Noticed
  <1>3. /\ state \in [ClusterIds -> {"absent", "candidate", "active", "archived"}]
        /\ count \in [ClusterIds -> Nat] /\ {index, cached, snap} \subseteq SUBSET ClusterIds
        /\ stage \in {"idle", "reconcile", "evaluate", "split", "merge", "retire", "refresh"}
    BY <1>1 DEF ClustersAre, TasksAre, Parts
  <1>4. \A i \in DOMAIN queue : queue[i] \in Legal
    BY <1>1, LenProperties DEF Queued
  <1>5. None \notin saved /\ None \notin ClusterIds
    BY <1>1, MembershipAssumption DEF RowsAre
  <1>6. \A i \in DOMAIN queue : queue[i][1] \in {"recover", "retry"} => queue[i][2] = scanning
    BY <1>4 DEF Legal, Parts
  <1>7. \A i \in DOMAIN queue : queue[i][2] = None => queue[i][1] \in {stage, "batch"}
    BY <1>4, <1>5 DEF Legal
  <1>. QED  BY <1>2, <1>3, <1>6, <1>7 DEF MemberTypeOK

\* Whoever comes first - the hot path, recovery, a start, any part of a warm cycle - a
\* source pattern that names a live cluster names the one its row is in, except where a
\* batch assigned without looking or the row was taken out as an outlier; and every
\* variable has its type.
THEOREM PatternsNameHome == MemberSpec => []SourcesNameHome
  <1>1. MemberInv /\ Noticed => SourcesNameHome
    BY MemberInvTypes DEF MemberInv, Named, SourcesNameHome
  <1>. QED  BY <1>1, MembersAlways, NoticedAlways, PTL

\* No callback takes an embedded row out of the live clusters, but the reassignment that
\* finds no active cluster, and what counts as a failure or as curation.
THEOREM MembersAreKept == MemberSpec => MembershipKept
  <1>1. MemberInv /\ [MemberNext]_memberVars =>
          [\A o \in embedded : home[o] \in Live =>
             home'[o] \in Live' \/ slips' # slips \/ NoRefuge(o)]_memberVars
    BY MembersStep DEF Sound, MembersStay
  <1>. QED  BY <1>1, MembersAlways, PTL DEF MemberSpec, MembershipKept

\* An index that holds the live clusters and no other holds them after every step, but
\* for a failure, a rejected phase that puts its copy back, the candidates a judgement
\* leaves in it and the singletons phase 0 does not tell it of.
THEOREM IndexIsKept == MemberSpec => IndexKept
  <1>1. MemberInv /\ [MemberNext]_memberVars =>
          [index = Live => \/ index' = Live' \/ slips' # slips \/ Undone
                           \/ Serve("evaluate") /\ Live' \subseteq index'
                           \/ Serve("reconcile") /\ index' \subseteq Live']_memberVars
    BY MembersStep DEF Sound, IndexStays
  <1>. QED  BY <1>1, MembersAlways, PTL DEF MemberSpec, IndexKept
=============================================================================
