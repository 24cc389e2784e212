----------------------------- MODULE Membership -----------------------------
(***************************************************************************)
(* Who belongs to which cluster, who says so, and what the in-memory index *)
(* of the clusters knows of it: the hot path an insert asks for, orphan    *)
(* recovery with its retries, the assignment pass of a batch, the parts    *)
(* of a warm cycle (repair, judgement of candidates, split, merge,         *)
(* retirement), curation, the backfill and the seeding of a start.         *)
(*                                                                         *)
(* Writers are callbacks of one write queue, run to their end one at a     *)
(* time (WriteQueue); a callback that fails is rolled back, but what it    *)
(* did to the index stays. Distances are left to nondeterminism.           *)
(*                                                                         *)
(* The names of the specification begin with Member, because               *)
(* TaxonomyProofs extends this module and WarmPath.                        *)
(*                                                                         *)
(* Sources: services/taxonomy/{engine,family_ops,warm_path,warm_phases,    *)
(* split,lifecycle}.py, services/{orphan_recovery,batch_persistence,       *)
(* prompt_lifecycle}.py, main.py.                                          *)
(***************************************************************************)
EXTENDS Integers, FiniteSets, Sequences, SequencesExt

CONSTANTS Opts,       \* optimizations
          Batched,    \* those of a batch, saved with their embedding
          ClusterIds, \* cluster identifiers
          None,       \* no cluster, no optimization
          MaxTries,   \* _MAX_RETRY_ATTEMPTS
          ScanLimit,  \* _MAX_ORPHANS_PER_SCAN
          GivenUp,    \* rows outside Opts that recovery gave up in earlier days
          SplitMin,   \* SPLIT_MIN_MEMBERS, which is twice FORCED_SPLIT_MIN_MEMBERS
          EjectMin,   \* fewest members of a cluster that loses outliers
          MaxEjects,  \* bound: rows taken out as outliers
          MaxSlips    \* bound: warm cycles, cold paths, failed callbacks, lost events,
                      \* archived stale clusters, restarts and rows outside Opts that
                      \* are given up, all together

ASSUME MembershipAssumption ==
  /\ IsFiniteSet(Opts) /\ Batched \subseteq Opts /\ IsFiniteSet(ClusterIds)
  /\ None \notin ClusterIds \cup Opts
  /\ {MaxTries, ScanLimit} \subseteq Nat \ {0} /\ {GivenUp, MaxSlips} \subseteq Nat
  /\ SplitMin \in Nat /\ EjectMin \in Nat /\ MaxEjects \in Nat

VARIABLES
  saved,       \* optimizations with a completed row
  embedded,    \* those whose row has an embedding
  home,        \* Optimization.cluster_id
  sources,     \* the source patterns of each: the clusters they name
  state,       \* PromptCluster: "absent", "candidate", "active" or "archived"
  count,       \* PromptCluster.member_count
  tries,       \* recovery attempts noted in the row
  exhausted,   \* rows recovery has given up
  index,       \* the clusters in the embedding index
  cached,      \* those in its cache file
  queue,       \* the callbacks parked in the write queue
  told,        \* optimization_created events on their way
  dispatched,  \* _recently_dispatched
  following,   \* rows whose extraction task has its promotion to ask for
  scanning,    \* the orphan that scan_and_recover waits for
  batch,       \* where the batch is
  stage,       \* the part of the warm cycle that is next, or under way
  snap,        \* idx_snapshot of its phase
  boot,        \* the backend is starting
  seeding,     \* the rows it has yet to assign before it listens
  slips,       \* history: how much of MaxSlips is used
  ejected,     \* history: rows a cycle took out of their cluster as outliers
  cut,         \* history: rows whose seeding failed and was stored half-way
  others        \* how many rows outside Opts recovery has given up

rows       == <<saved, embedded, home, sources, tries, exhausted>>
clusters   == <<state, count>>
db         == <<rows, clusters>>
tasks      == <<queue, told, dispatched, following, scanning, batch, stage, snap, boot, seeding>>
noted      == <<ejected, cut, others>>
memberVars == <<db, index, cached, tasks, slips, noted>>

Up     == ~boot /\ seeding = {}
Active == {c \in ClusterIds : state[c] = "active"}
Live   == Active \cup {c \in ClusterIds : state[c] = "candidate"}
Members(c) == {o \in saved : home[o] = c}
Known(c)   == Members(c) \cap embedded

\* A step the bound counts.
Slip == slips < MaxSlips /\ slips' = slips + 1

-----------------------------------------------------------------------------
(* assign_cluster and its callers.                                         *)

\* A new cluster takes an identifier nobody has, or one nobody remembers.
Unused == {c \in ClusterIds \ (Live \cup index \cup cached \cup snap) :
             \A o \in Opts : home[o] # c /\ \A i \in DOMAIN sources[o] : sources[o][i] # c}

\* The first n of them: which identifiers are new makes no difference.
Fresh(n) == LET s == SetToSeq(Unused) IN {s[i] : i \in 1..n \cap DOMAIN s}

\* It merges into a live cluster or creates one.
Candidates == Live \cup Fresh(1)

\* The clusters that are to have the rows of f: new ones are stored, all count them.
Counted(f) ==
  /\ state' = [c \in ClusterIds |-> IF c \notin Live /\ \E o \in DOMAIN f : f[o] = c THEN "active"
                                   ELSE state[c]]
  /\ count' = [c \in ClusterIds |->
                 count[c] + Cardinality({o \in DOMAIN f : f[o] = c})]

\* Each o goes to f[o], which gains a member. (The hot path also takes one from
\* a cluster the row leaves; a row without a source pattern leaves none here.)
Assign(f) ==
  /\ Counted(f)
  /\ home' = [o \in Opts |-> IF o \in DOMAIN f THEN f[o] ELSE home[o]]
  /\ index' = index \cup {f[o] : o \in DOMAIN f}

\* The callback raises, before assign_cluster or after it: the index keeps what it
\* was told.
AssignFails(c) == Slip /\ index' \in {index, index \cup {c}} /\ UNCHANGED db

\* process_optimization: nothing for a row with a source pattern.
HotPath(o) ==
  \/ sources[o] # <<>> /\ UNCHANGED <<db, index, slips>>
  \/ /\ sources[o] = <<>>
     /\ \/ \E c \in Candidates :
             /\ Assign([x \in {o} |-> c])
             /\ sources' = [sources EXCEPT ![o] = <<c>>]
             /\ embedded' = embedded \cup {o}
             /\ UNCHANGED <<saved, tries, exhausted, slips>>
        \/ \E c \in Candidates : AssignFails(c)

\* The optimization is stored, and its event sent: a batch stores embeddings.
Save(o) ==
  /\ o \in Opts \ (saved \cup Batched)
  /\ saved' = saved \cup {o} /\ told' = told \cup {o}
  /\ UNCHANGED <<embedded, home, sources, tries, exhausted, clusters, index, cached, queue,
                 dispatched, following, scanning, batch, stage, snap, boot, seeding, slips,
                 noted>>

\* The listener dispatches each optimization once, or the event is lost.
Dispatch(o) ==
  /\ Up /\ o \in told /\ told' = told \ {o}
  /\ dispatched' = dispatched \cup {o}
  /\ queue' = IF o \in dispatched THEN queue ELSE Append(queue, <<"hot", o>>)
  /\ UNCHANGED <<db, index, cached, following, scanning, batch, stage, snap, boot, seeding,
                 slips, noted>>

LoseEvent(o) ==
  /\ o \in told /\ told' = told \ {o}
  /\ Slip
  /\ UNCHANGED <<db, index, cached, queue, dispatched, following, scanning, batch, stage, snap,
                 boot, seeding, noted>>

-----------------------------------------------------------------------------
(* The callbacks: Head(queue) runs to its end.                             *)

Serve(kind) == queue # <<>> /\ Head(queue)[1] = kind /\ queue' = Tail(queue)
Subject == Head(queue)[2]

RunHot ==
  /\ Serve("hot")
  /\ HotPath(Subject)
  /\ following' = following \cup {Subject}
  /\ UNCHANGED <<cached, told, dispatched, scanning, batch, stage, snap, boot, seeding, noted>>

\* The task of the hot path goes on: it reads the source pattern (two are an
\* error, none is nothing) and asks for the promotion of the cluster it names.
FollowUp(o) ==
  /\ o \in following /\ following' = following \ {o}
  /\ queue' = IF Len(sources[o]) = 1 THEN Append(queue, <<"promote", sources[o][1]>>) ELSE queue
  /\ UNCHANGED <<db, index, cached, told, dispatched, scanning, batch, stage, snap, boot, seeding,
                 slips, noted>>

RunPromote ==
  /\ Serve("promote")
  /\ state' = [state EXCEPT ![Subject] = IF @ = "candidate" THEN "active" ELSE @]
  /\ UNCHANGED <<rows, count, index, cached, told, dispatched, following, scanning, batch, stage,
                 snap, boot, seeding, slips, noted>>

\* Mutant: only rows without a cluster count as orphans.
ScanUnlinked(o) ==
  /\ Up /\ scanning = None
  /\ o \in saved \ (embedded \cup exhausted) /\ home[o] = None
  /\ scanning' = o
  /\ queue' = Append(queue, <<"recover", o>>)
  /\ UNCHANGED <<db, index, cached, told, dispatched, following, batch, stage, snap, boot, seeding,
                 slips, noted>>

\* _scan_orphans and the submit of scan_and_recover. The scan looks at ScanLimit of
\* the rows without an embedding, in whatever order the database has them, and
\* only then puts aside the ones it has given up: any other may be found, and one
\* is for certain only if those cannot fill the window.
Scan(o) ==
  /\ Up /\ scanning = None
  /\ o \in saved \ (embedded \cup exhausted)
  /\ scanning' = o
  /\ queue' = Append(queue, <<"recover", o>>)
  /\ UNCHANGED <<db, index, cached, told, dispatched, following, batch, stage, snap, boot, seeding,
                 slips, noted>>

\* Mutant: a row the backfill has linked is assigned afresh.
RecoveredAnew(o) ==
  /\ \E c \in Candidates : Assign([x \in {o} |-> c])
  /\ sources' = [sources EXCEPT ![o] = Append(@, home'[o])]
  /\ embedded' = embedded \cup {o}

Crowded == others + Cardinality(exhausted \ embedded) >= ScanLimit

\* A row outside Opts is given up as well, or one of those is deleted.
GiveUpOther ==
  /\ \/ Slip /\ others' = others + 1
     \/ others > 0 /\ others' = others - 1 /\ UNCHANGED slips
  /\ UNCHANGED <<db, index, cached, tasks, ejected, cut>>

\* _do_recover assigns a row that has no cluster, or an archived one.
Recovered(o) ==
  LET kept == IF home[o] # None /\ state[home[o]] = "archived" THEN None ELSE home[o]
  IN  /\ \/ /\ kept # None
            /\ UNCHANGED <<clusters, home, index>>
         \/ /\ kept = None
            /\ \E c \in Candidates : Assign([x \in {o} |-> c])
      /\ sources' = [sources EXCEPT ![o] = IF @ = <<>> THEN <<home'[o]>> ELSE @]
      /\ embedded' = embedded \cup {o}

RunRecover ==
  /\ queue # <<>> /\ Head(queue)[1] = "recover"
  /\ LET o == Subject
     IN  \/ /\ \/ o \in embedded /\ UNCHANGED <<db, index>>
               \/ /\ o \notin embedded /\ tries[o] >= MaxTries
                  /\ exhausted' = exhausted \cup {o}
                  /\ UNCHANGED <<saved, embedded, home, sources, tries, clusters, index>>
               \/ /\ o \notin embedded /\ tries[o] < MaxTries
                  /\ Recovered(o)
                  /\ UNCHANGED <<saved, tries, exhausted>>
            /\ queue' = Tail(queue) /\ scanning' = None
            /\ UNCHANGED slips
         \/ /\ o \notin embedded
            /\ \E c \in Candidates : AssignFails(c)
            /\ queue' = Append(Tail(queue), <<"retry", o>>)
            /\ UNCHANGED scanning
  /\ UNCHANGED <<cached, told, dispatched, following, batch, stage, snap, boot, seeding, noted>>

\* _increment_retry; when it fails the attempt is not counted.
RunRetry ==
  /\ Serve("retry") /\ scanning' = None
  /\ \/ LET o == Subject
        IN  /\ tries' = [tries EXCEPT ![o] = @ + 1]
            /\ exhausted' = IF tries'[o] >= MaxTries THEN exhausted \cup {o} ELSE exhausted
            /\ UNCHANGED <<saved, embedded, home, sources, clusters, slips>>
     \/ Slip /\ UNCHANGED db
  /\ UNCHANGED <<index, cached, told, dispatched, following, batch, stage, snap, boot, seeding,
                 noted>>

-----------------------------------------------------------------------------
(* A batch: one callback stores its rows, a second one assigns them.       *)

PersistBatch ==
  /\ Up /\ batch = "running" /\ batch' = "stored"
  /\ saved' = saved \cup Batched /\ embedded' = embedded \cup Batched
  /\ told' = told \cup Batched
  /\ UNCHANGED <<home, sources, tries, exhausted, clusters, index, cached, queue,
                 dispatched, following, scanning, stage, snap, boot, seeding, slips, noted>>

SubmitAssign ==
  /\ batch = "stored" /\ batch' = "over"
  /\ queue' = Append(queue, <<"batch", None>>)
  /\ UNCHANGED <<db, index, cached, told, dispatched, following, scanning, stage, snap, boot,
                 seeding, slips, noted>>

\* Every row is assigned, without a look at what it has; the rows that raise
\* are skipped, and a commit that fails leaves nothing but the index.
RunBatch ==
  /\ Serve("batch")
  /\ \E D \in {Batched} \cup {S \in SUBSET Batched : slips < MaxSlips} :
     \E f \in [D -> Live \cup Fresh(Cardinality(D))] :
       \/ /\ Assign(f)
          /\ sources' = [o \in Opts |-> IF o \in D THEN Append(sources[o], f[o]) ELSE sources[o]]
          /\ slips' = IF D = Batched THEN slips ELSE slips + 1
          /\ UNCHANGED <<saved, embedded, tries, exhausted>>
       \/ Slip /\ index' = index \cup {f[o] : o \in D} /\ UNCHANGED db
  /\ UNCHANGED <<cached, told, dispatched, following, scanning, batch, stage, snap, boot, seeding,
                 noted>>

-----------------------------------------------------------------------------
(* A warm cycle, its parts in order: reconcile, evaluate, and the phases   *)
(* split, merge and retire, each a callback of its own. Its lock keeps a   *)
(* second cycle and the cold path away.                                    *)

Asked(part)  == \E i \in DOMAIN queue : queue[i] = <<part, None>>
Submit(part) == stage = part /\ ~Asked(part) /\ queue' = Append(queue, <<part, None>>)

StartCycle ==
  /\ Up /\ stage = "idle" /\ stage' = "reconcile" /\ Slip
  /\ queue' = Append(queue, <<"reconcile", None>>)
  /\ UNCHANGED <<db, index, cached, told, dispatched, following, scanning, batch, snap, boot,
                 seeding, noted>>

\* Phase 0, in its order: counts; clusters without a member are archived;
\* embedded rows without a live cluster go where the index says; outliers leave
\* for another cluster or for a new one, which the index is not told of;
\* patterns that name a dead cluster follow their row or go; rows without one
\* get one.
Peopled     == {c \in Live : Members(c) # {}}
SemiOrphans == {o \in saved \cap embedded : home[o] \notin Peopled}
Size(c)     == IF c \in Live THEN Cardinality(Members(c)) ELSE count[c]
Less(n, k)  == IF n > k THEN n - k ELSE 0

\* The places the rows of X may go to, h being where everyone is: no two go to
\* the same new cluster.
Ejections(X, h) ==
  {g \in [X -> (Active \cap Peopled) \cup Fresh(Cardinality(X))] :
     \A o \in X : /\ g[o] # h[o]
                  /\ \A x \in X \ {o} : g[x] = g[o] => g[o] \in Active}

\* The rows of X leave h for g. The clusters that lose rows do so one after the
\* other, never to less than nothing: those in early have come before theirs lost.
Eject(X, h, g) ==
  /\ home' = [o \in Opts |-> IF o \in X THEN g[o] ELSE h[o]]
  /\ state' = [c \in ClusterIds |-> IF c \in Live \ Peopled THEN "archived"
                                     ELSE IF c \notin Live /\ \E o \in X : g[o] = c THEN "active"
                                     ELSE state[c]]
  /\ \E early \in SUBSET X :
       count' = [c \in ClusterIds |->
                   Less(Size(c) + Cardinality({o \in early : g[o] = c}),
                        Cardinality({o \in X : h[o] = c}))
                   + Cardinality({o \in X \ early : g[o] = c})]
  /\ ejected' = ejected \cup X /\ Cardinality(ejected') <= MaxEjects

\* The patterns of a row that is in h. In what order they are makes no difference.
Repaired(list, h) ==
  LET dead(i) == state'[list[i]] \notin {"candidate", "active"}
      kept    == SetToSeq({i \in DOMAIN list : dead(i) => h # None /\ state'[h] # "archived"})
  IN  IF kept = <<>> /\ h # None THEN <<h>>
      ELSE [i \in DOMAIN kept |-> IF dead(kept[i]) THEN h ELSE list[kept[i]]]

RunReconcile ==
  /\ Serve("reconcile")
  /\ index' = index \ (Live \ Peopled)
  /\ \/ /\ \E S \in SUBSET SemiOrphans :
          \E f \in [S -> {c \in index' : state[c] # "absent"}] :
            LET h == [o \in Opts |-> IF o \in S THEN f[o] ELSE home[o]]
                crowded == {o \in embedded : /\ h[o] \in Active \cap Peopled
                                             /\ Size(h[o]) >= EjectMin}
            IN  \E X \in SUBSET (crowded \ ejected) : \E g \in Ejections(X, h) : Eject(X, h, g)
        /\ sources' = [o \in Opts |-> IF o \in saved THEN Repaired(sources[o], home'[o])
                                      ELSE sources[o]]
        /\ stage' = "evaluate"
        /\ UNCHANGED <<saved, embedded, tries, exhausted, slips>>
     \/ \* a phantom is found: the foreign key refuses it and phase 0 raises
        /\ SemiOrphans # {} /\ \E c \in index : state[c] = "absent"
        /\ stage' = "idle"
        /\ UNCHANGED <<db, slips, ejected>>
     \/ /\ Slip /\ stage' = "idle"
        /\ UNCHANGED <<db, ejected>>
  /\ UNCHANGED <<cached, told, dispatched, following, scanning, batch, snap, boot, seeding, cut,
                 others>>

AskEvaluate ==
  /\ Submit("evaluate")
  /\ UNCHANGED <<db, index, cached, told, dispatched, following, scanning, batch, stage, snap, boot,
                 seeding, slips, noted>>

\* _reassign_to_active: each row of X goes to one of the targets, if there is one.
Reassignments(X, targets) == [IF targets = {} THEN {} ELSE X -> targets]

Reassign(g, gone) ==
  /\ home' = [o \in Opts |-> IF o \in DOMAIN g THEN g[o] ELSE home[o]]
  /\ count' = [c \in ClusterIds |-> IF c \in gone THEN 0
                                    ELSE count[c] + Cardinality({o \in DOMAIN g : g[o] = c})]

\* phase_evaluate_candidates: a candidate becomes active, or is archived after
\* its embedded rows have gone to the clusters that were active before. It stays
\* in the index, and its rows in it when no cluster was active.
RunEvaluate ==
  /\ Serve("evaluate")
  /\ LET candidates == Live \ Active
         empty      == {c \in candidates : Known(c) = {}}
     IN  \/ /\ \E R \in SUBSET (candidates \ empty) :
               \E g \in Reassignments(UNION {Known(c) : c \in R}, Active) :
                 /\ Reassign(g, R)
                 /\ state' = [c \in ClusterIds |-> IF c \in R \cup empty THEN "archived"
                                                   ELSE IF c \in candidates THEN "active"
                                                   ELSE state[c]]
            /\ stage' = "split"
            /\ UNCHANGED <<saved, embedded, sources, tries, exhausted, slips>>
         \/ Slip /\ stage' = "idle" /\ UNCHANGED db
  /\ UNCHANGED <<index, cached, told, dispatched, following, scanning, batch, snap, boot, seeding,
                 noted>>

PhaseOrder == <<"split", "merge", "retire", "refresh">>

\* The index is copied before the phase waits for its turn in the queue.
Snapshot ==
  /\ \E part \in {"split", "merge", "retire"} : Submit(part)
  /\ snap' = index
  /\ UNCHANGED <<db, index, cached, told, dispatched, following, scanning, batch, stage, boot,
                 seeding, slips, noted>>

\* How split_cluster may split c: where each of its embedded rows goes, and
\* which of them are noise, put with the others at the end.
Splits(c) ==
  {s \in [Known(c) -> Fresh(Cardinality(Known(c)))] \X SUBSET Known(c) :
     LET groups == {s[1][o] : o \in Known(c) \ s[2]}
     IN  Cardinality(groups) >= 2 /\ \A o \in s[2] : s[1][o] \in groups}

\* The patterns of the rows move before the noise has a new cluster.
Split(c, f, noise) ==
  LET children == {f[o] : o \in DOMAIN f}
  IN  /\ home' = [o \in Opts |-> IF o \in DOMAIN f THEN f[o] ELSE home[o]]
      /\ sources' = [o \in Opts |-> [i \in DOMAIN sources[o] |->
                                         IF sources[o][i] = c /\ o \in DOMAIN f \ noise
                                         THEN f[o] ELSE sources[o][i]]]
      /\ state' = [x \in ClusterIds |-> IF x = c THEN "archived"
                                        ELSE IF x \in children THEN "candidate" ELSE state[x]]
      /\ count' = [x \in ClusterIds |->
                     IF x = c THEN 0
                     ELSE IF x \in children THEN Cardinality({o \in DOMAIN f : f[o] = x})
                     ELSE count[x]]
      /\ index' = (index \ {c}) \cup children

\* Mutant: the rows stay where they are.
MoveNone(c, d) ==
  /\ state' = [state EXCEPT ![c] = "archived"]
  /\ count' = [count EXCEPT ![c] = 0]
  /\ UNCHANGED <<home, sources>>

\* A merge or a retirement of c into d: rows and patterns move, c is archived.
MoveAll(c, d) ==
  /\ home' = [o \in Opts |-> IF home[o] = c THEN d ELSE home[o]]
  /\ sources' = [o \in Opts |-> [i \in DOMAIN sources[o] |->
                                   IF sources[o][i] = c THEN d ELSE sources[o][i]]]
  /\ state' = [state EXCEPT ![c] = "archived"]
  /\ count' = [count EXCEPT ![c] = 0, ![d] = @ + Cardinality(Members(c))]

\* Mutant: the archived cluster is forgotten in the index.
MoveInIndexHalf(c, d) == index' = index \cup {d}

MoveInIndex(c, d) == index' = (index \ {c}) \cup {d}

SplitOne == \E c \in Live : /\ 2 * count[c] >= SplitMin /\ Cardinality(Known(c)) >= SplitMin
                            /\ \E s \in Splits(c) : Split(c, s[1], s[2])

\* The children of a split are kept from the merge after it.
MergeTwo == \E c, d \in Active : c # d /\ MoveAll(c, d) /\ MoveInIndex(c, d)

RetireOne == \E c \in Live, d \in Active :
  c # d /\ count[c] = 0 /\ MoveAll(c, d) /\ index' = index \ {c}

\* A small one, two hours old: its embedded rows are reassigned, their patterns left.
DissolveOne == \E c \in Active :
  /\ count[c] > 0
  /\ \E g \in Reassignments(Known(c), Active \ {c}) : Reassign(g, {c})
  /\ state' = [state EXCEPT ![c] = "archived"]
  /\ index' = index \ {c} /\ UNCHANGED sources

Transform(part) ==
  \/ part = "split" /\ SplitOne
  \/ part = "merge" /\ MergeTwo
  \/ part = "retire" /\ (RetireOne \/ DissolveOne)

\* What a phase that raises may have put in the index.
Added(part) == IF part = "split" THEN Fresh(Cardinality(saved))
               ELSE IF part = "merge" THEN Active ELSE {}

Following(part) == PhaseOrder[(CHOOSE i \in DOMAIN PhaseOrder : PhaseOrder[i] = part) + 1]

\* Kept, with or without a change; or rolled back, the index set to the copy;
\* or raised, which ends the cycle, the index as far as the phase got with it.
RunPhase(part) ==
  /\ Serve(part) /\ snap' = {}
  /\ \/ stage' = Following(part) /\ UNCHANGED <<db, index, slips>>
     \/ /\ Transform(part) /\ stage' = Following(part)
        /\ UNCHANGED <<saved, embedded, tries, exhausted, slips>>
     \/ stage' = Following(part) /\ index' = snap /\ UNCHANGED <<db, slips>>
     \/ /\ Slip /\ stage' = "idle"
        /\ \E c \in Live, K \in SUBSET Added(part) : index' = (index \ {c}) \cup K
        /\ UNCHANGED db
  /\ UNCHANGED <<cached, told, dispatched, following, scanning, batch, boot, seeding, noted>>

\* After the refresh, which moves nobody, the index is saved.
EndCycle ==
  /\ stage = "refresh" /\ stage' = "idle"
  /\ \/ cached' = index /\ UNCHANGED slips
     \/ Slip /\ UNCHANGED cached
  /\ UNCHANGED <<db, index, queue, told, dispatched, following, scanning, batch, snap, boot, seeding,
                 noted>>

\* curate archives a stale cluster with its rows still in it; the removal from
\* the index is a coroutine nobody awaits.
Curate ==
  /\ Up /\ Slip
  /\ \E c \in Live : /\ state' = [state EXCEPT ![c] = "archived"]
                     /\ count' = [count EXCEPT ![c] = 0]
  /\ UNCHANGED <<rows, index, cached, tasks, noted>>

\* The cold path rebuilds the index and writes the cache.
Rebuild ==
  /\ Up /\ stage = "idle" /\ Slip
  /\ index' = Live /\ cached' = Live
  /\ UNCHANGED <<db, tasks, noted>>

-----------------------------------------------------------------------------
(* A restart. The index comes from the cache if that is recent and not too *)
(* small, or from the database.                                            *)

Restart ==
  /\ Slip
  /\ \/ 2 * Cardinality(cached) >= Cardinality(Live) /\ index' = cached /\ UNCHANGED cached
     \/ index' = Live /\ cached' = Live
  /\ queue' = <<>> /\ told' = {} /\ dispatched' = {} /\ following' = {} /\ scanning' = None
  /\ batch' = "over" /\ stage' = "idle" /\ snap' = {} /\ boot' = TRUE /\ seeding' = {}
  /\ UNCHANGED <<db, noted>>

Homeless == {o \in saved : home[o] \notin Live}

\* backfill_orphans links rows to a cluster of the index, or to a live one,
\* with a further pattern and without a word to the cluster; a phantom makes it
\* fail as a whole. If no cluster is live, the rows without one are seeded.
Backfill ==
  /\ boot /\ boot' = FALSE
  /\ \/ \E S \in SUBSET Homeless : \E f \in [S -> {c \in index \cup Live : state[c] # "absent"}] :
          /\ home' = [o \in Opts |-> IF o \in S THEN f[o] ELSE home[o]]
          /\ sources' = [o \in Opts |-> IF o \in S THEN Append(sources[o], f[o]) ELSE sources[o]]
     \/ Homeless # {} /\ (\E c \in index : state[c] = "absent") /\ UNCHANGED <<home, sources>>
  /\ seeding' = IF Live = {} THEN {o \in saved : home'[o] = None} ELSE {}
  /\ UNCHANGED <<saved, embedded, tries, exhausted, clusters, index, cached, queue, told,
                 dispatched, following, scanning, batch, stage, snap, slips, noted>>

\* process_optimization keeps to itself what it meets, and the start commits what
\* is written by then: the embedding; also the cluster, which counts the row; or
\* all but the source pattern.
CutShort(o) ==
  /\ sources[o] = <<>> /\ Slip
  /\ embedded' = embedded \cup {o} /\ cut' = cut \cup {o}
  /\ \/ UNCHANGED <<clusters, home, index>>
     \/ \E c \in Candidates : /\ Counted([x \in {o} |-> c]) /\ UNCHANGED home
                              /\ index' \in {index, index \cup {c}}
     \/ \E c \in Candidates : Assign([x \in {o} |-> c])
  /\ UNCHANGED <<saved, sources, tries, exhausted>>

\* The hot path for one of them, in a session of its own: one that the database
\* refuses is rolled back.
Seed(o) ==
  /\ o \in seeding /\ seeding' = seeding \ {o}
  /\ \/ HotPath(o) /\ UNCHANGED cut
     \/ CutShort(o)
  /\ UNCHANGED <<cached, queue, told, dispatched, following, scanning, batch, stage, snap, boot,
                 ejected, others>>

-----------------------------------------------------------------------------
MemberInit ==
  /\ saved = {} /\ embedded = {} /\ home = [o \in Opts |-> None]
  /\ sources = [o \in Opts |-> <<>>]
  /\ state = [c \in ClusterIds |-> "absent"] /\ count = [c \in ClusterIds |-> 0]
  /\ tries = [o \in Opts |-> 0] /\ exhausted = {}
  /\ index = {} /\ cached = {} /\ queue = <<>> /\ told = {} /\ dispatched = {} /\ following = {}
  /\ scanning = None /\ batch = "running" /\ stage = "idle" /\ snap = {} /\ boot = FALSE
  /\ seeding = {}
  /\ slips = 0 /\ ejected = {} /\ cut = {} /\ others = GivenUp

Worker ==
  \/ RunHot \/ RunPromote \/ RunRecover \/ RunRetry \/ RunBatch \/ RunReconcile \/ RunEvaluate
  \/ \E part \in {"split", "merge", "retire"} : RunPhase(part)

MemberNext ==
  \/ Worker \/ PersistBatch \/ SubmitAssign
  \/ StartCycle \/ AskEvaluate \/ Snapshot \/ EndCycle
  \/ Curate \/ Rebuild \/ Restart \/ Backfill \/ GiveUpOther
  \/ \E o \in Opts : Save(o) \/ Dispatch(o) \/ FollowUp(o) \/ LoseEvent(o) \/ Scan(o) \/ Seed(o)

\* The queue serves, a start gets to its end, and the timer comes round: it finds
\* a row that waits for recovery, whichever, as long as there is room in the window.
MemberFairness ==
  /\ WF_memberVars(Worker) /\ WF_memberVars(Backfill)
  /\ \A o \in Opts : WF_memberVars(Dispatch(o)) /\ WF_memberVars(Seed(o))
  /\ WF_memberVars(~Crowded /\ \E o \in Opts : Scan(o))

MemberSpec == MemberInit /\ [][MemberNext]_memberVars /\ MemberFairness

-----------------------------------------------------------------------------
(* Properties.                                                             *)

\* Shapes; one orphan is recovered at a time, and one part of a cycle waits.
MemberTypeOK ==
  /\ {saved, embedded, exhausted, told, dispatched, following, seeding, ejected, cut}
       \subseteq SUBSET Opts
  /\ embedded \cup exhausted \cup seeding \cup ejected \subseteq saved /\ others \in Nat
  /\ home \in [Opts -> ClusterIds \cup {None}] /\ \A o \in Opts : sources[o] \in Seq(ClusterIds)
  /\ state \in [ClusterIds -> {"absent", "candidate", "active", "archived"}]
  /\ count \in [ClusterIds -> Nat]
  /\ tries \in [Opts -> 0..MaxTries] /\ {index, cached, snap} \subseteq SUBSET ClusterIds
  /\ batch \in {"running", "stored", "over"}
  /\ stage \in {"idle", "reconcile", "evaluate", "split", "merge", "retire", "refresh"}
  /\ \A i \in DOMAIN queue : queue[i][1] \in {"recover", "retry"} => queue[i][2] = scanning
  /\ \A i \in DOMAIN queue : queue[i][2] = None => queue[i][1] \in {stage, "batch"}

\* The hot path, recovery, the start and the warm cycle all write the source
\* pattern of a row; they never leave one that names a live cluster the row is
\* not in, whoever comes first, but in two cases: a batch assigns without
\* looking, and a row taken out as an outlier leaves its pattern behind. Every
\* variable has its type.
SourcesNameHome ==
  /\ MemberTypeOK
  /\ \A o \in saved \ (Batched \cup ejected) : \A i \in DOMAIN sources[o] :
       sources[o][i] = home[o] \/ sources[o][i] \notin Live

\* An embedded row in a live cluster stays in one, through splits, merges,
\* retirements, repairs and rolled-back work. Only curation archives a cluster
\* under its rows, and the reassignment that has no active cluster to offer.
NoRefuge(o) == (Serve("evaluate") \/ Serve("retire")) /\ Active \subseteq {home[o]}
MembershipKept ==
  [][\A o \in embedded : home[o] \in Live =>
       home'[o] \in Live' \/ slips' # slips \/ NoRefuge(o)]_memberVars

\* The index goes wrong in few ways: something failed or was curated; a rejected
\* phase put back a copy older than what was assigned meanwhile; the evaluation
\* leaves the candidates it rejects, and phase 0 says nothing of new singletons.
Undone == (\E part \in {"split", "merge", "retire"} : Serve(part)) /\ index' = snap
IndexKept ==
  [][index = Live => \/ index' = Live' \/ slips' # slips \/ Undone
                     \/ Serve("evaluate") /\ Live' \subseteq index'
                     \/ Serve("reconcile") /\ index' \subseteq Live']_memberVars

\* A stored optimization is assigned or, after its attempts, given up, although
\* its event may be lost, its callback fail and the process restart; unless the
\* rows recovery has given up fill its window for good, or a start stored the row
\* half-way, embedded, where recovery does not look. (Or the instance runs out of
\* identifiers, which the program does not.)
RowSettles == <>[]~Crowded =>
  \A o \in Opts \ Batched :
    o \in saved ~> \/ o \in embedded /\ home[o] # None
                   \/ o \in exhausted \cup cut
                   \/ Candidates = {}

=============================================================================
