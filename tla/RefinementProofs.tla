-------------------------- MODULE RefinementProofs --------------------------
(***************************************************************************)
(* The rows of a result's refinement are sound, and numbered without gap   *)
(* or double unless two requests went on from one branch at a time.        *)
(*                                                                         *)
(* What a request read before it called the provider still stands when it  *)
(* writes: turns are only added, unless all of them are deleted. A branch  *)
(* that was not raced has one reader at most, who read its last turn.      *)
(***************************************************************************)
EXTENDS Refinement, FiniteSetTheorems, TLAPS

BranchRec == [id : Nat, parent : Nat, at : Nat]
TurnRec   == [branch : Nat, version : Nat, parent : Nat, text : 0 .. Requests, of : Nat]
TaskRec   == [pc : Steps, on : Ids, web : BOOLEAN, cut : BOOLEAN, version : Nat, base : 0 .. Requests]
GetRec    == [kind : {"reload", "poll"}, branch : Ids, ok : BOOLEAN, got : SUBSET TurnRec]
TabRec    == [branch : Ids, status : {"idle", "refining", "complete", "error"}, list : SUBSET TurnRec]

\* The requests that may still seed a branch, and those that have made their turn.
Early  == {"new", "check", "seed"}
Before == {k \in Tasks : task[k].pc \in Early}
Done   == {k \in Tasks : task[k].pc \notin Early \cup {"read", "llm"}}
ToFork == {f \in Forks : fork[f].pc # "over"}

Shaped ==
  /\ gone \in BOOLEAN /\ born \in Nat
  /\ turns \subseteq TurnRec /\ IsFiniteSet(turns) /\ branches \subseteq BranchRec
  /\ task \in [Tasks -> TaskRec]
  /\ DOMAIN fork = Forks /\ \A f \in Forks : fork[f].pc \in {"new", "write", "over"}

\* One poll is asked at a time, and none once no poll is left.
Polled ==
  /\ \A g, h \in gets : g.kind = "poll" /\ h.kind = "poll" => g = h
  /\ \A g \in gets : g.kind = "poll" => rec.left > 0

Client ==
  /\ tab \in TabRec /\ IsFiniteSet(tab.list)
  /\ stream \in [of : 0 .. Requests, is : {"open", "ended", "closed"}, branch : Ids]
  /\ rec \in [left : 0 .. MaxPolls, prev : Nat]
  /\ gets \subseteq GetRec /\ \A g \in gets : IsFiniteSet(g.got)
  /\ news \subseteq Tasks /\ faults \in 0 .. MaxFaults /\ crossed \in BOOLEAN
  /\ Polled

\* A branch is made by a request that seeds or by a rollback, and a version by a
\* request that wrote its turn.
Counted ==
  /\ born + Cardinality(Before) + Cardinality(ToFork) <= Requests + Cardinality(Forks)
  /\ raced \subseteq 0 .. born
  /\ \A b \in branches : b.id \in 1 .. born /\ b.parent \in 0 .. born /\ b.at \in 0 .. 1 + Cardinality(Done)
  /\ \A t \in turns : t.branch \in 1 .. born /\ t.version \in 1 .. 1 + Cardinality(Done)
  /\ \A k \in Tasks : task[k].pc = "llm" =>
       task[k].on \in 1 .. born /\ task[k].version \in 1 .. 1 + Cardinality(Done)
  /\ \A f \in Forks : fork[f].pc = "write" =>
       /\ fork[f].src \in TurnRec
       /\ fork[f].src.branch \in 1 .. born /\ fork[f].src.version \in 1 .. 1 + Cardinality(Done)

Gapless(b) ==
  \E n \in Nat : \A v \in Nat \ {0} : v <= n <=> \E t \in turns : t.branch = b /\ t.version = v

\* The rows: the versions of a branch run from 1 without a gap, and once each
\* unless the branch was raced.
Rows ==
  /\ Lineage /\ BranchesBegin /\ (gone => branches = {} /\ turns = {})
  /\ \A b, d \in branches : b.id = d.id => b = d
  /\ \A t \in turns : \E b \in branches : b.id = t.branch
  /\ \A b \in 1 .. born : Gapless(b)
  /\ \A t, u \in turns :
       t.branch = u.branch /\ t.version = u.version /\ t.branch \notin raced => t = u
  /\ 0 \notin raced => \A b, d \in branches : b.parent = NoBranch /\ d.parent = NoBranch => b = d

\* What a request or a rollback has read is there to go on from, and is the last
\* turn of a branch that was not raced.
Based ==
  ~gone =>
    /\ \A k \in Tasks : task[k].pc = "llm" =>
         /\ \E r \in branches : r.id = task[k].on
         /\ \E u \in On(task[k].on) : u.version = task[k].version /\ u.text = task[k].base
         /\ task[k].on \notin raced => \A t \in On(task[k].on) : t.version <= task[k].version
    /\ \A k \in Tasks : task[k].pc = "seed" /\ 0 \notin raced => turns = {}
    /\ \A f \in Forks : fork[f].pc = "write" => fork[f].src \in turns

\* Two readers of a branch, or two requests that seed, are remembered.
Alone ==
  \A k, j \in Tasks : k # j =>
    /\ task[k].pc = "llm" /\ task[j].pc = "llm" /\ task[k].on = task[j].on => task[k].on \in raced
    /\ task[k].pc = "seed" /\ task[j].pc = "seed" => 0 \in raced

IInv == Shaped /\ Client /\ Counted /\ Rows /\ Based /\ Alone

-----------------------------------------------------------------------------
(* Sizes, and what a request's step does to its record.                    *)

LEMMA Bounds == Requests \in Nat /\ Cardinality(Forks) \in Nat /\ MaxPolls \in Nat /\ MaxFaults \in Nat
  BY RefinementAssumption, FS_CardinalityType

LEMMA TaskSets ==
    ASSUME NEW S, S \subseteq Tasks
    PROVE  IsFiniteSet(S) /\ Cardinality(S) \in Nat /\ Cardinality(S) <= Requests
  <1>1. IsFiniteSet(Tasks) /\ Cardinality(Tasks) = Requests
    BY Bounds, FS_Interval DEF Tasks
  <1>2. QED  BY <1>1, FS_Subset, FS_CardinalityType

LEMMA ForkSets ==
    ASSUME NEW S, S \subseteq Forks
    PROVE  IsFiniteSet(S) /\ Cardinality(S) \in Nat /\ Cardinality(S) <= Cardinality(Forks)
  BY RefinementAssumption, FS_Subset, FS_CardinalityType

LEMMA Counts ==
    /\ Cardinality(Before) \in Nat /\ Cardinality(ToFork) \in Nat
    /\ Cardinality(Done) \in Nat /\ Cardinality(Done) <= Requests
    /\ Cardinality(Before') \in Nat /\ Cardinality(ToFork') \in Nat
    /\ Cardinality(Done') \in Nat /\ Cardinality(Done') <= Requests
  <1>1. Before \subseteq Tasks /\ Done \subseteq Tasks /\ Before' \subseteq Tasks /\ Done' \subseteq Tasks
    BY DEF Before, Done
  <1>2. ToFork \subseteq Forks /\ ToFork' \subseteq Forks
    BY DEF ToFork
  <1>3. QED  BY <1>1, <1>2, TaskSets, ForkSets

LEMMA Shrinks ==
    ASSUME NEW S, NEW T, IsFiniteSet(T), S \subseteq T
    PROVE  Cardinality(S) <= Cardinality(T)
  BY FS_Subset

LEMMA ShrinksByOne ==
    ASSUME NEW S, NEW T, NEW x \in T, IsFiniteSet(T), S \subseteq T \ {x}
    PROVE  Cardinality(S) + 1 <= Cardinality(T)
  <1>1. IsFiniteSet(T \ {x}) /\ Cardinality(T \ {x}) = Cardinality(T) - 1
    BY FS_RemoveElement
  <1>2. Cardinality(S) \in Nat /\ Cardinality(T) \in Nat /\ Cardinality(S) <= Cardinality(T \ {x})
    BY <1>1, FS_Subset, FS_CardinalityType
  <1>3. QED  BY <1>1, <1>2

LEMMA TaskFields ==
    ASSUME Shaped, NEW k \in Tasks
    PROVE  /\ task[k] \in TaskRec /\ task[k].pc \in Steps /\ task[k].on \in Ids
           /\ task[k].version \in Nat /\ task[k].base \in 0 .. Requests
  BY DEF Shaped, TaskRec

LEMMA BlankIs == ASSUME NEW s \in Steps
                 PROVE  [Blank EXCEPT !.pc = s] \in TaskRec /\ [Blank EXCEPT !.pc = s].pc = s
  <1>1. 0 \in Ids /\ 0 \in 0 .. Requests
    BY Bounds DEF Ids
  <1>2. Blank \in TaskRec
    <2>1. "new" \in Steps
      BY DEF Steps
    <2>2. QED  BY <1>1, <2>1 DEF Blank, NoBranch, TaskRec
  <1>3. QED  BY <1>2 DEF TaskRec

LEMMA MovesIs ==
    ASSUME Shaped, NEW k \in Tasks, NEW s \in Steps, Moves(k, s)
    PROVE  /\ task' \in [Tasks -> TaskRec]
           /\ \A j \in Tasks \ {k} : task'[j] = task[j]
           /\ task'[k].pc = s /\ task'[k].on = task[k].on
           /\ task'[k].version = task[k].version /\ task'[k].base = task[k].base
  BY DEF Shaped, Moves, TaskRec

LEMMA EndsIs ==
    ASSUME Shaped, NEW k \in Tasks, NEW s \in Steps, Ends(k, s)
    PROVE  /\ task' \in [Tasks -> TaskRec]
           /\ \A j \in Tasks \ {k} : task'[j] = task[j]
           /\ task'[k].pc = s
  BY BlankIs DEF Shaped, Ends

-----------------------------------------------------------------------------
(* Steps that leave the rows alone, and by which no request comes to seed  *)
(* or to call the provider.                                                *)

Abates ==
  /\ task' \in [Tasks -> TaskRec]
  /\ \A j \in Tasks :
       /\ task'[j].pc = "llm" =>
            /\ task[j].pc = "llm" /\ task'[j].on = task[j].on
            /\ task'[j].version = task[j].version /\ task'[j].base = task[j].base
       /\ task'[j].pc = "seed" => task[j].pc = "seed"
       /\ task'[j].pc \in Early => task[j].pc \in Early
       /\ j \in Done => j \in Done'

LEMMA CountsStay ==
    ASSUME Before' \subseteq Before, ToFork' \subseteq ToFork, Done \subseteq Done'
    PROVE  /\ Cardinality(Before') <= Cardinality(Before)
           /\ Cardinality(ToFork') <= Cardinality(ToFork)
           /\ Cardinality(Done) <= Cardinality(Done')
  <1>1. Before \subseteq Tasks /\ Done' \subseteq Tasks /\ ToFork \subseteq Forks
    BY DEF Before, Done, ToFork
  <1>2. QED  BY <1>1, TaskSets, ForkSets, Shrinks

LEMMA AbatesCounts ==
    ASSUME Abates
    PROVE  Before' \subseteq Before /\ Done \subseteq Done'
  BY DEF Abates, Before, Done

LEMMA AbatesShaped ==
    ASSUME IInv, Abates, UNCHANGED <<rows, fork>>
    PROVE  Shaped'
  BY DEF IInv, Shaped, Abates, rows

LEMMA AbatesCounted ==
    ASSUME IInv, Abates, UNCHANGED <<rows, fork, raced>>
    PROVE  Counted'
  <1>1. ToFork' = ToFork
    BY DEF ToFork
  <1>2. /\ Cardinality(Before') <= Cardinality(Before)
        /\ Cardinality(ToFork') <= Cardinality(ToFork)
        /\ Cardinality(Done) <= Cardinality(Done')
    BY <1>1, AbatesCounts, CountsStay
  <1>3. born \in Nat /\ born' = born
    BY DEF IInv, Shaped, rows
  <1>4. (born + Cardinality(Before) + Cardinality(ToFork) <= Requests + Cardinality(Forks))'
    BY <1>2, <1>3, Counts, Bounds DEF IInv, Counted
  <1>5. 1 .. 1 + Cardinality(Done) \subseteq 1 .. 1 + Cardinality(Done')
        /\ 0 .. 1 + Cardinality(Done) \subseteq 0 .. 1 + Cardinality(Done')
    BY <1>2, Counts
  <1>6. (\A b \in branches : b.id \in 1 .. born /\ b.parent \in 0 .. born /\ b.at \in 0 .. 1 + Cardinality(Done))'
    BY <1>5 DEF IInv, Counted, rows
  <1>7. (\A t \in turns : t.branch \in 1 .. born /\ t.version \in 1 .. 1 + Cardinality(Done))'
    BY <1>5 DEF IInv, Counted, rows
  <1>8. (\A k \in Tasks : task[k].pc = "llm" =>
           task[k].on \in 1 .. born /\ task[k].version \in 1 .. 1 + Cardinality(Done))'
    BY <1>5 DEF IInv, Counted, Abates, rows
  <1>9. (\A f \in Forks : fork[f].pc = "write" =>
           /\ fork[f].src \in TurnRec
           /\ fork[f].src.branch \in 1 .. born /\ fork[f].src.version \in 1 .. 1 + Cardinality(Done))'
    BY <1>5 DEF IInv, Counted, rows
  <1>10. (raced \subseteq 0 .. born)'
    BY <1>3 DEF IInv, Counted
  <1>. QED  BY <1>4, <1>6, <1>7, <1>8, <1>9, <1>10 DEF Counted

LEMMA RowsStay ==
    ASSUME IInv, UNCHANGED rows, raced \subseteq raced'
    PROVE  Rows'
  <1>1. Lineage' /\ BranchesBegin'
    BY DEF IInv, Rows, Lineage, BranchesBegin, On, rows
  <1>2. (\A b \in 1 .. born : Gapless(b))'
    <2>1. born' = born /\ turns' = turns
      BY DEF rows
    <2>2. ASSUME NEW b \in 1 .. born PROVE Gapless(b)'
      BY <2>1 DEF IInv, Rows, Gapless
    <2>3. QED  BY <2>1, <2>2
  <1>. QED  BY <1>1, <1>2 DEF IInv, Rows, rows

LEMMA AbatesBased ==
    ASSUME IInv, Abates, UNCHANGED <<rows, fork, raced>>
    PROVE  Based' /\ Alone'
  <1>1. Based'
    BY DEF IInv, Based, Abates, On, rows
  <1>2. Alone'
    BY DEF IInv, Alone, Abates
  <1>. QED  BY <1>1, <1>2

LEMMA AbatesKeeps ==
    ASSUME IInv, Abates, UNCHANGED <<rows, fork, raced>>
    PROVE  Shaped' /\ Counted' /\ Rows' /\ Based' /\ Alone'
  BY AbatesShaped, AbatesCounted, RowsStay, AbatesBased

\* The requests' steps of this kind.

LEMMA StillAbates == ASSUME IInv, UNCHANGED task PROVE Abates
  BY DEF IInv, Shaped, Abates, Done

LEMMA EndsAbates ==
    ASSUME IInv, NEW k \in Tasks, NEW s \in {"notify", "told", "error", "cut"},
           Ends(k, s) \/ Moves(k, s)
    PROVE  Abates
  <1>1. s \in Steps /\ s \notin Early \cup {"read", "llm"}
    BY DEF Steps, Early
  <1>2. /\ task' \in [Tasks -> TaskRec] /\ task'[k].pc = s
        /\ \A j \in Tasks \ {k} : task'[j] = task[j]
    BY <1>1, EndsIs, MovesIs DEF IInv
  <1>. QED  BY <1>1, <1>2 DEF Abates, Done

LEMMA AsksAbates ==
    ASSUME IInv, NEW k \in Tasks, NEW b \in Ids, NEW w \in BOOLEAN, Asks(k, b, w)
    PROVE  Abates
  <1>1. task[k].pc = "new"
    BY DEF Asks, Tasks
  <1>2. task' = [task EXCEPT ![k] = [Blank EXCEPT !.pc = "check", !.on = b, !.web = w]]
    BY DEF Asks
  <1>3. [Blank EXCEPT !.pc = "check", !.on = b, !.web = w] \in TaskRec
    <2>1. Blank \in TaskRec /\ "check" \in Steps
      <3>1. 0 \in Ids /\ 0 \in 0 .. Requests
        BY Bounds DEF Ids
      <3>2. QED  BY <3>1 DEF Blank, NoBranch, TaskRec, Steps
    <2>2. QED  BY <2>1 DEF TaskRec
  <1>4. [Blank EXCEPT !.pc = "check", !.on = b, !.web = w].pc = "check"
    BY DEF Blank
  <1>5. /\ task' \in [Tasks -> TaskRec] /\ task'[k].pc = "check"
        /\ \A j \in Tasks \ {k} : task'[j] = task[j]
    BY <1>2, <1>3, <1>4 DEF IInv, Shaped
  <1>. QED  BY <1>1, <1>5 DEF Abates, Done, Early

LEMMA FailsAbates == ASSUME IInv, NEW k \in Tasks, Fails(k) PROVE Abates
  BY EndsAbates DEF Fails

LEMMA ResumesAbates ==
    ASSUME IInv, NEW k \in Tasks, NEW s \in {"notify", "error"}, Resumes(k, s)
    PROVE  Abates
  BY EndsAbates DEF Resumes

LEMMA NotifyAbates == ASSUME IInv, NEW k \in Tasks, Notify(k) PROVE Abates
  BY EndsAbates DEF Notify

LEMMA CutAbates == ASSUME IInv, NEW k \in Tasks, Cut(k) PROVE Abates
  <1>1. CASE Ends(k, "cut")
    BY <1>1, EndsAbates
  <1>2. CASE task' = [task EXCEPT ![k].cut = TRUE]
    <2>1. /\ task' \in [Tasks -> TaskRec] /\ task'[k].pc = task[k].pc /\ task'[k].on = task[k].on
          /\ task'[k].version = task[k].version /\ task'[k].base = task[k].base
          /\ \A j \in Tasks \ {k} : task'[j] = task[j]
      BY <1>2 DEF IInv, Shaped, TaskRec
    <2>2. QED  BY <2>1 DEF Abates, Done
  <1>. QED  BY <1>1, <1>2 DEF Cut

-----------------------------------------------------------------------------
(* The requests that look.                                                 *)

\* A request that has checked may seed when there is no turn.
LEMMA CheckKeeps ==
    ASSUME IInv, NEW k \in Tasks, Check(k)
    PROVE  Shaped' /\ Counted' /\ Rows' /\ Based' /\ Alone'
  <1>1. CASE gone
    <2>1. Ends(k, "error") /\ raced' = raced
      BY <1>1 DEF Check
    <2>2. Abates
      BY <2>1, EndsAbates
    <2>3. QED  BY <2>1, <2>2, AbatesKeeps DEF Check
  <1>2. CASE ~gone /\ turns # {}
    <2>1. Moves(k, "read") /\ raced' = raced
      BY <1>2 DEF Check
    <2>2. /\ task' \in [Tasks -> TaskRec] /\ task'[k].pc = "read"
          /\ \A j \in Tasks \ {k} : task'[j] = task[j]
      BY <2>1, MovesIs DEF IInv, Steps
    <2>3. task[k].pc = "check"
      BY DEF Check
    <2>4. Abates
      BY <2>2, <2>3 DEF Abates, Done, Early
    <2>5. QED  BY <2>1, <2>4, AbatesKeeps DEF Check
  <1>3. CASE ~gone /\ turns = {}
    <2>1. Moves(k, "seed")
      BY <1>3 DEF Check
    <2>2. /\ task' \in [Tasks -> TaskRec] /\ task'[k].pc = "seed"
          /\ \A j \in Tasks \ {k} : task'[j] = task[j]
      BY <2>1, MovesIs DEF IInv, Steps
    <2>3. task[k].pc = "check"
      BY DEF Check
    <2>4. UNCHANGED <<rows, fork>>
      BY DEF Check
    <2>5. raced \subseteq raced' /\ raced' \subseteq raced \cup {0}
          /\ \A j \in Tasks \ {k} : task[j].pc = "seed" => 0 \in raced'
      BY <1>3 DEF Check, Seeding
    <2>6. Before' = Before /\ Done' = Done /\ ToFork' = ToFork
      BY <2>2, <2>3, <2>4 DEF Before, Done, ToFork, Early
    <2>7. Shaped'
      BY <2>2, <2>4 DEF IInv, Shaped, rows
    <2>8. Counted'
      <3>1. (raced \subseteq 0 .. born)'
        BY <2>4, <2>5 DEF IInv, Shaped, Counted, rows
      <3>2. (\A j \in Tasks : task[j].pc = "llm" =>
               task[j].on \in 1 .. born /\ task[j].version \in 1 .. 1 + Cardinality(Done))'
        BY <2>2, <2>4, <2>6 DEF IInv, Counted, rows
      <3>. QED  BY <2>4, <2>6, <3>1, <3>2 DEF IInv, Counted, rows
    <2>9. Rows'
      BY <2>4, <2>5, RowsStay
    <2>10. Based'
      BY <1>3, <2>2, <2>4, <2>5 DEF IInv, Based, On, rows
    <2>11. Alone'
      BY <2>2, <2>5 DEF IInv, Alone
    <2>. QED  BY <2>7, <2>8, <2>9, <2>10, <2>11
  <1>. QED  BY <1>1, <1>2, <1>3

LEMMA ReaderIs ==
    ASSUME Shaped, NEW k \in Tasks, NEW b \in Ids, NEW v \in Nat, NEW x \in 0 .. Requests,
           task' = [task EXCEPT ![k].pc = "llm", ![k].on = b, ![k].version = v, ![k].base = x]
    PROVE  /\ task' \in [Tasks -> TaskRec]
           /\ task'[k].pc = "llm" /\ task'[k].on = b /\ task'[k].version = v /\ task'[k].base = x
           /\ \A j \in Tasks \ {k} : task'[j] = task[j]
  <1>1. task \in [Tasks -> TaskRec]
    BY DEF Shaped
  <1>2. task' = [task EXCEPT ![k] = [task[k] EXCEPT !.pc = "llm", !.on = b, !.version = v, !.base = x]]
    BY <1>1
  <1>3. ASSUME NEW r \in TaskRec
        PROVE  [r EXCEPT !.pc = "llm", !.on = b, !.version = v, !.base = x] \in TaskRec
    <2>1. "llm" \in Steps
      BY DEF Steps
    <2>2. QED  BY <2>1 DEF TaskRec
  <1>4. ASSUME NEW r \in TaskRec
        PROVE  LET s == [r EXCEPT !.pc = "llm", !.on = b, !.version = v, !.base = x] IN
               s.pc = "llm" /\ s.on = b /\ s.version = v /\ s.base = x
    BY DEF TaskRec
  <1> DEFINE s == [task[k] EXCEPT !.pc = "llm", !.on = b, !.version = v, !.base = x]
  <1>5. s \in TaskRec /\ s.pc = "llm" /\ s.on = b /\ s.version = v /\ s.base = x
    BY <1>1, <1>3, <1>4
  <1>6. task' = [task EXCEPT ![k] = s]
    BY <1>2
  <1> HIDE DEF s
  <1>7. task'[k] = s /\ \A j \in Tasks \ {k} : task'[j] = task[j]
    BY <1>1, <1>6
  <1>8. task' \in [Tasks -> TaskRec]
    BY <1>1, <1>5, <1>6
  <1>9. QED  BY <1>5, <1>7, <1>8

\* The turn a request goes on from is the last one of its branch.
LEMMA ReadKeeps ==
    ASSUME IInv, NEW k \in Tasks, Read(k)
    PROVE  Shaped' /\ Counted' /\ Rows' /\ Based' /\ Alone'
  <1>1. CASE Ends(k, "error") /\ UNCHANGED raced
    BY <1>1, EndsAbates, AbatesKeeps DEF Read
  <1>2. CASE \E r \in ResolvedBranch(task[k].on) : \E t \in LatestTurn(r.id) :
               /\ task' = [task EXCEPT ![k].pc = "llm", ![k].on = r.id,
                                       ![k].version = t.version, ![k].base = t.text]
               /\ raced' = IF Reading(k, r.id) # {} THEN raced \cup {r.id} ELSE raced
    <2>1. PICK r \in ResolvedBranch(task[k].on) : \E t \in LatestTurn(r.id) :
               /\ task' = [task EXCEPT ![k].pc = "llm", ![k].on = r.id,
                                       ![k].version = t.version, ![k].base = t.text]
               /\ raced' = IF Reading(k, r.id) # {} THEN raced \cup {r.id} ELSE raced
      BY <1>2
    <2>2. PICK t \in LatestTurn(r.id) :
               /\ task' = [task EXCEPT ![k].pc = "llm", ![k].on = r.id,
                                       ![k].version = t.version, ![k].base = t.text]
               /\ raced' = IF Reading(k, r.id) # {} THEN raced \cup {r.id} ELSE raced
      BY <2>1
    <2>3. r \in branches /\ t \in turns /\ t.branch = r.id
          /\ \A u \in On(r.id) : u.version <= t.version
      BY DEF ResolvedBranch, LatestTurn, Latest, On
    <2>4. r.id \in 1 .. born /\ t.version \in 1 .. 1 + Cardinality(Done) /\ t.text \in 0 .. Requests
      BY <2>3 DEF IInv, Counted, Shaped, TurnRec
    <2>5. born \in Nat /\ born \in Ids
      BY Counts, Bounds DEF IInv, Shaped, Counted, Ids
    <2>6. r.id \in Ids /\ t.version \in Nat /\ "llm" \in Steps
      BY <2>4, <2>5, Bounds, Counts DEF Ids, Steps
    <2>7. /\ task' \in [Tasks -> TaskRec]
          /\ task'[k].pc = "llm" /\ task'[k].on = r.id
          /\ task'[k].version = t.version /\ task'[k].base = t.text
          /\ \A j \in Tasks \ {k} : task'[j] = task[j]
      <3>1. PICK b, v, x : b = r.id /\ v = t.version /\ x = t.text
        OBVIOUS
      <3>2. task' = [task EXCEPT ![k].pc = "llm", ![k].on = b, ![k].version = v, ![k].base = x]
        BY <2>2, <3>1
      <3>3. Shaped /\ b \in Ids /\ v \in Nat /\ x \in 0 .. Requests
        BY <2>4, <2>6, <3>1 DEF IInv
      <3>4. /\ task' \in [Tasks -> TaskRec]
            /\ task'[k].pc = "llm" /\ task'[k].on = b /\ task'[k].version = v /\ task'[k].base = x
            /\ \A j \in Tasks \ {k} : task'[j] = task[j]
        BY <3>2, <3>3, ReaderIs
      <3>5. QED  BY <3>1, <3>4
    <2>8. task[k].pc = "read" /\ UNCHANGED <<rows, fork>>
      BY DEF Read
    <2>9. raced \subseteq raced' /\ raced' \subseteq raced \cup {r.id}
          /\ \A j \in Tasks \ {k} : task[j].pc = "llm" /\ task[j].on = r.id => r.id \in raced'
      BY <2>2 DEF Reading
    <2>10. Before' = Before /\ Done' = Done /\ ToFork' = ToFork
      BY <2>7, <2>8 DEF Before, Done, ToFork, Early
    <2>11. Shaped'
      BY <2>7, <2>8 DEF IInv, Shaped, rows
    <2>12. Counted'
      <3>1. (raced \subseteq 0 .. born)'
        BY <2>4, <2>5, <2>8, <2>9 DEF IInv, Counted, rows
      <3>2. (\A j \in Tasks : task[j].pc = "llm" =>
               task[j].on \in 1 .. born /\ task[j].version \in 1 .. 1 + Cardinality(Done))'
        BY <2>4, <2>7, <2>8, <2>10 DEF IInv, Counted, rows
      <3>. QED  BY <2>8, <2>10, <3>1, <3>2 DEF IInv, Counted, rows
    <2>13. Rows'
      BY <2>8, <2>9, RowsStay
    <2>14. Based'
      BY <2>3, <2>7, <2>8, <2>9 DEF IInv, Based, On, rows
    <2>15. Alone'
      BY <2>7, <2>9 DEF IInv, Alone
    <2>. QED  BY <2>11, <2>12, <2>13, <2>14, <2>15
  <1>. QED  BY <1>1, <1>2 DEF Read

-----------------------------------------------------------------------------
(* The steps that write.                                                   *)

\* The types of what IInv says of rows and of what requests have read.
LEMMA RowTypes ==
    ASSUME IInv
    PROVE  /\ born \in Nat
           /\ \A t \in turns : /\ t \in TurnRec /\ t.branch \in 1 .. born /\ t.branch \in Nat \ {0}
                               /\ t.version \in Nat \ {0} /\ t.version <= 1 + Cardinality(Done)
           /\ \A b \in branches : /\ b \in BranchRec /\ b.id \in 1 .. born /\ b.id \in Nat \ {0}
                                  /\ b.parent \in 0 .. born /\ b.at \in 0 .. 1 + Cardinality(Done)
  BY Counts DEF IInv, Shaped, Counted

\* A branch that is made, with its one turn: a copy of the one it forks, if it forks.
LEMMA GrownRows ==
    ASSUME IInv, ~gone, NEW nb \in BranchRec, NEW nt \in TurnRec,
           nb.id = born + 1, nt.branch = born + 1, nt.version = 1, nt.parent = 0,
           nb.parent # NoBranch => nb.parent \in 1 .. born /\
             \E u \in On(nb.parent) : u.version = nb.at /\ u.text = nt.text,
           nb.parent = NoBranch /\ 0 \notin raced => turns = {},
           born' = born + 1, branches' = branches \cup {nb}, turns' = turns \cup {nt},
           UNCHANGED <<gone, raced>>
    PROVE  Rows'
  <1>1. /\ born \in Nat /\ born + 1 \in Nat \ {0}
        /\ \A t \in turns : t.branch # born + 1 /\ t.branch \in 1 .. born
        /\ \A b \in branches : b.id # born + 1 /\ b.id \in 1 .. born
        /\ born + 1 \notin 0 .. born
    BY RowTypes
  <1>2. /\ \A b : b # nb.id => On(b)' = On(b)
        /\ On(nb.id)' = {nt}
        /\ \A b : On(b) \subseteq On(b)'
    <2>1. ASSUME NEW b, b # nb.id
          PROVE  On(b)' = On(b)
      BY <2>1 DEF On
    <2>2. On(nb.id)' = {nt}
      BY <1>1 DEF On
    <2>3. QED  BY <2>1, <2>2 DEF On
  <1>3. Lineage'
    BY <1>2 DEF IInv, Rows, Lineage
  <1>4. BranchesBegin'
    <2>1. ASSUME NEW b \in branches
          PROVE  (\E t \in On(b.id) :
                    /\ {u \in On(b.id) : u.parent = 0} = {t} /\ t.version = 1
                    /\ b.parent # NoBranch => \E u \in On(b.parent) : u.version = b.at /\ u.text = t.text)'
      <3>1. b.id # born + 1
        BY <1>1
      <3>2. (On(b.id))' = On(b.id)
        BY <1>2, <3>1
      <3>3. On(b.parent) \subseteq On(b.parent)'
        BY <1>2
      <3>4. PICK t \in On(b.id) :
              /\ {u \in On(b.id) : u.parent = 0} = {t} /\ t.version = 1
              /\ b.parent # NoBranch => \E u \in On(b.parent) : u.version = b.at /\ u.text = t.text
        BY DEF IInv, Rows, BranchesBegin
      <3>5. QED  BY <3>2, <3>3, <3>4
    <2>2. (\E t \in On(nb.id) :
             /\ {u \in On(nb.id) : u.parent = 0} = {t} /\ t.version = 1
             /\ nb.parent # NoBranch => \E u \in On(nb.parent) : u.version = nb.at /\ u.text = t.text)'
      <3>1. (On(nb.id))' = {nt}
        BY <1>2
      <3>2. {u \in On(nb.id)' : u.parent = 0} = {nt}
        BY <3>1
      <3>3. nb.parent # NoBranch => \E u \in On(nb.parent)' : u.version = nb.at /\ u.text = nt.text
        BY <1>2
      <3>4. QED  BY <3>1, <3>2, <3>3
    <2>3. QED  BY <2>1, <2>2 DEF BranchesBegin
  <1>5. (gone => branches = {} /\ turns = {})'
    OBVIOUS
  <1>6. (\A b, d \in branches : b.id = d.id => b = d)'
    BY <1>1 DEF IInv, Rows
  <1>7. (\A t \in turns : \E b \in branches : b.id = t.branch)'
    BY DEF IInv, Rows
  <1>8. (\A b \in 1 .. born : Gapless(b))'
    <2>1. ASSUME NEW b \in 1 .. born
          PROVE  (Gapless(b))'
      <3>1. b # born + 1
        BY <1>1
      <3>2. PICK n \in Nat : \A v \in Nat \ {0} : v <= n <=> \E t \in turns : t.branch = b /\ t.version = v
        BY DEF IInv, Rows, Gapless
      <3>3. QED  BY <3>1, <3>2 DEF Gapless
    <2>3. \A v \in Nat \ {0} : v <= 1 <=> \E t \in turns' : t.branch = born + 1 /\ t.version = v
      BY <1>1
    <2>4. 1 \in Nat
      OBVIOUS
    <2>5. ASSUME NEW b \in 1 .. born', b = born + 1
          PROVE  (Gapless(b))'
      <3>1. (\E n \in Nat : \A v \in Nat \ {0} : v <= n <=> \E t \in turns : t.branch = b /\ t.version = v)'
        BY <2>3, <2>4, <2>5
      <3>2. QED  BY <3>1 DEF Gapless
    <2>6. 1 .. born' = 1 .. born \cup {born + 1}
      BY <1>1
    <2>7. QED  BY <2>1, <2>5, <2>6
  <1>9. (\A t, u \in turns :
           t.branch = u.branch /\ t.version = u.version /\ t.branch \notin raced => t = u)'
    BY <1>1 DEF IInv, Rows
  <1>10. (0 \notin raced => \A b, d \in branches : b.parent = NoBranch /\ d.parent = NoBranch => b = d)'
    <2>1. turns = {} => branches = {}
      BY DEF IInv, Rows, BranchesBegin, On
    <2>2. QED  BY <2>1 DEF IInv, Rows
  <1>. QED  BY <1>3, <1>4, <1>5, <1>6, <1>7, <1>8, <1>9, <1>10 DEF Rows

LEMMA SeedKeeps ==
    ASSUME IInv, NEW k \in Tasks, Seed(k)
    PROVE  Shaped' /\ Counted' /\ Rows' /\ Based' /\ Alone'
  <1> DEFINE nb == [id |-> born + 1, parent |-> NoBranch, at |-> 0]
             nt == [branch |-> born + 1, version |-> 1, parent |-> 0, text |-> 0, of |-> 0]
  <1>1. /\ task[k].pc = "seed" /\ ~gone
        /\ born' = born + 1 /\ branches' = branches \cup {nb} /\ turns' = turns \cup {nt}
        /\ UNCHANGED <<gone, fork, raced>>
    BY DEF Seed, AddBranch, Refused
  <1>2. born \in Nat
    BY RowTypes
  <1>3. k \in Before /\ Before \subseteq Tasks
    BY <1>1 DEF Before, Early
  <1>4. born + 1 \in Ids
    <2>1. Cardinality(Before) \in Nat /\ Cardinality(Before) >= 1
      <3>1. Cardinality({}) + 1 <= Cardinality(Before)
        BY <1>3, TaskSets, ShrinksByOne
      <3>2. Cardinality({}) \in Nat /\ Cardinality(Before) \in Nat
        BY TaskSets, Counts
      <3>3. QED  BY <3>1, <3>2
    <2>2. born + Cardinality(Before) + Cardinality(ToFork) <= Requests + Cardinality(Forks)
      BY DEF IInv, Counted
    <2>3. QED  BY <1>2, <2>1, <2>2, Counts, Bounds DEF Ids
  <1>5. /\ task' \in [Tasks -> TaskRec] /\ task'[k].pc \in {"read", "cut"}
        /\ \A j \in Tasks \ {k} : task'[j] = task[j]
    <2>1. CASE task[k].cut
      BY <2>1, EndsIs DEF IInv, Seed, Steps
    <2>2. CASE ~task[k].cut
      <3>1. task' = [task EXCEPT ![k].pc = "read",
                                 ![k].on = IF @ = NoBranch THEN born + 1 ELSE @]
        BY <2>2 DEF Seed
      <3>2. "read" \in Steps
        BY DEF Steps
      <3>3. QED  BY <1>4, <3>1, <3>2 DEF IInv, Shaped, TaskRec
    <2>. QED  BY <2>1, <2>2
  <1>6. nb \in BranchRec /\ nt \in TurnRec
    BY <1>2, Bounds DEF BranchRec, TurnRec, NoBranch
  <1>7. 0 \notin raced => turns = {}
    BY <1>1 DEF IInv, Based
  <1>8. Rows'
    <2>1. /\ nb.id = born + 1 /\ nt.branch = born + 1 /\ nt.version = 1 /\ nt.parent = 0
          /\ nb.parent = NoBranch
      OBVIOUS
    <2> HIDE DEF nb, nt
    <2>2. QED  BY <1>1, <1>6, <1>7, <2>1, GrownRows
  <1>9. Shaped'
    <2>1. IsFiniteSet(turns')
      BY <1>1, FS_AddElement DEF IInv, Shaped
    <2> HIDE DEF nb, nt
    <2>2. QED  BY <1>1, <1>2, <1>5, <1>6, <2>1 DEF IInv, Shaped
  <1>10. Before' \subseteq Before \ {k} /\ Done \subseteq Done' /\ ToFork' = ToFork
    BY <1>1, <1>5 DEF Before, Done, ToFork, Early
  <1>11. Counted'
    <2>1. /\ Cardinality(Before') + 1 <= Cardinality(Before)
          /\ Cardinality(Done) <= Cardinality(Done')
      <3>1. Cardinality(Before') + 1 <= Cardinality(Before)
        BY <1>3, <1>10, TaskSets, ShrinksByOne
      <3>2. QED  BY <1>10, <3>1, CountsStay
    <2>2. (born + Cardinality(Before) + Cardinality(ToFork) <= Requests + Cardinality(Forks))'
      BY <1>1, <1>2, <1>10, <2>1, Counts, Bounds DEF IInv, Counted
    <2>3. /\ 1 .. 1 + Cardinality(Done) \subseteq 1 .. 1 + Cardinality(Done')
          /\ 0 .. 1 + Cardinality(Done) \subseteq 0 .. 1 + Cardinality(Done')
          /\ 1 .. born \subseteq 1 .. born' /\ 0 .. born \subseteq 0 .. born'
          /\ born + 1 \in 1 .. born' /\ 1 \in 1 .. 1 + Cardinality(Done')
          /\ 0 \in 0 .. born' /\ 0 \in 0 .. 1 + Cardinality(Done')
      BY <1>1, <1>2, <2>1, Counts
    <2>4. (raced \subseteq 0 .. born)'
      BY <1>1, <2>3 DEF IInv, Counted
    <2>5. (\A b \in branches : b.id \in 1 .. born /\ b.parent \in 0 .. born /\ b.at \in 0 .. 1 + Cardinality(Done))'
      <3>1. nb.id = born + 1 /\ nb.parent = 0 /\ nb.at = 0
        BY DEF NoBranch
      <3> HIDE DEF nb
      <3>2. QED  BY <1>1, <2>3, <3>1 DEF IInv, Counted
    <2>6. (\A t \in turns : t.branch \in 1 .. born /\ t.version \in 1 .. 1 + Cardinality(Done))'
      BY <1>1, <2>3 DEF IInv, Counted
    <2>7. (\A j \in Tasks : task[j].pc = "llm" =>
             task[j].on \in 1 .. born /\ task[j].version \in 1 .. 1 + Cardinality(Done))'
      BY <1>5, <2>3 DEF IInv, Counted
    <2>8. (\A f \in Forks : fork[f].pc = "write" =>
             /\ fork[f].src \in TurnRec
             /\ fork[f].src.branch \in 1 .. born /\ fork[f].src.version \in 1 .. 1 + Cardinality(Done))'
      BY <1>1, <2>3 DEF IInv, Counted
    <2>. QED  BY <2>2, <2>4, <2>5, <2>6, <2>7, <2>8 DEF Counted
  <1>12. Based'
    <2>1. ASSUME NEW j \in Tasks, task'[j].pc = "llm"
          PROVE  (/\ \E r \in branches : r.id = task[j].on
                  /\ \E u \in On(task[j].on) : u.version = task[j].version /\ u.text = task[j].base
                  /\ task[j].on \notin raced => \A t \in On(task[j].on) : t.version <= task[j].version)'
      <3>1. task'[j] = task[j] /\ task[j].pc = "llm"
        BY <1>5, <2>1
      <3>2. /\ \E r \in branches : r.id = task[j].on
            /\ \E u \in On(task[j].on) : u.version = task[j].version /\ u.text = task[j].base
            /\ task[j].on \notin raced => \A t \in On(task[j].on) : t.version <= task[j].version
        BY <1>1, <3>1 DEF IInv, Based
      <3>3. task[j].on # born + 1
        BY <3>1, <1>2 DEF IInv, Counted
      <3>4. On(task[j].on)' = {t \in turns : t.branch = task[j].on}
        BY <1>1, <3>1, <3>3 DEF On
      <3>5. QED  BY <1>1, <3>1, <3>2, <3>4 DEF On
    <2>2. ASSUME NEW j \in Tasks, task'[j].pc = "seed", 0 \notin raced'
          PROVE  FALSE
      BY <1>1, <1>5, <2>2 DEF IInv, Alone
    <2>3. (\A f \in Forks : fork[f].pc = "write" => fork[f].src \in turns)'
      BY <1>1 DEF IInv, Based
    <2>. QED  BY <2>1, <2>2, <2>3 DEF Based
  <1>13. Alone'
    BY <1>1, <1>5 DEF IInv, Alone
  <1>. QED  BY <1>8, <1>9, <1>11, <1>12, <1>13

LEMMA CopyIs ==
    ASSUME NEW t \in TurnRec, NEW b \in Nat
    PROVE  LET nt == [t EXCEPT !.branch = b, !.version = 1, !.parent = 0, !.of = 0] IN
           /\ nt \in TurnRec /\ nt.branch = b /\ nt.version = 1
           /\ nt.parent = 0 /\ nt.text = t.text
  BY DEF TurnRec

LEMMA PersistForkKeeps ==
    ASSUME IInv, NEW f \in Forks, PersistFork(f)
    PROVE  Shaped' /\ Counted' /\ Rows' /\ Based' /\ Alone'
  <1>1. /\ fork[f].pc = "write" /\ UNCHANGED <<task, raced>>
        /\ fork' = [fork EXCEPT ![f] = [pc |-> "over", src |-> "none"]]
    BY DEF PersistFork
  <1>2. /\ DOMAIN fork' = Forks /\ fork'[f].pc = "over"
        /\ \A g \in Forks \ {f} : fork'[g] = fork[g]
    BY <1>1 DEF IInv, Shaped
  <1>3. /\ \A g \in Forks : fork'[g].pc \in {"new", "write", "over"}
        /\ \A g \in Forks : fork'[g].pc = "write" => fork[g].pc = "write" /\ fork'[g] = fork[g]
    BY <1>2 DEF IInv, Shaped
  <1>4. /\ f \in ToFork /\ ToFork' \subseteq ToFork \ {f} /\ ToFork \subseteq Forks
        /\ Before' = Before /\ Done' = Done
    BY <1>1, <1>2 DEF ToFork, Before, Done
  <1>5. Cardinality(ToFork') + 1 <= Cardinality(ToFork)
    BY <1>4, ForkSets, ShrinksByOne
  <1>6. born \in Nat
    BY RowTypes
  <1>7. Alone'
    BY <1>1 DEF IInv, Alone
  <1>8. CASE gone
    <2>1. UNCHANGED rows
      BY <1>8 DEF PersistFork, Refused
    <2>2. Shaped'
      BY <1>1, <1>2, <1>3, <2>1 DEF IInv, Shaped, rows
    <2>3. Counted'
      <3>1. (born + Cardinality(Before) + Cardinality(ToFork) <= Requests + Cardinality(Forks))'
        BY <1>4, <1>5, <1>6, <2>1, Counts, Bounds DEF IInv, Counted, rows
      <3>2. QED  BY <1>1, <1>3, <1>4, <2>1, <3>1 DEF IInv, Counted, rows
    <2>4. Rows'
      BY <1>1, <2>1, RowsStay
    <2>5. Based'
      BY <1>8, <2>1 DEF Based, rows
    <2>. QED  BY <1>7, <2>2, <2>3, <2>4, <2>5
  <1>9. CASE ~gone
    <2> DEFINE t  == fork[f].src
               nb == [id |-> born + 1, parent |-> t.branch, at |-> t.version]
               nt == [t EXCEPT !.branch = born + 1, !.version = 1, !.parent = 0, !.of = 0]
    <2>1. /\ born' = born + 1 /\ branches' = branches \cup {nb}
          /\ turns' = turns \cup {nt} /\ UNCHANGED gone
      BY <1>9 DEF PersistFork, AddBranch, BeginsWith, Refused
    <2>2. /\ t \in TurnRec /\ t \in turns
          /\ t.branch \in 1 .. born /\ t.version \in 1 .. 1 + Cardinality(Done)
      BY <1>1, <1>9 DEF IInv, Counted, Based
    <2>3. /\ nb.id = born + 1 /\ nb.parent = t.branch /\ nb.at = t.version
          /\ nt \in TurnRec /\ nt.branch = born + 1 /\ nt.version = 1
          /\ nt.parent = 0 /\ nt.text = t.text
      <3>1. born + 1 \in Nat
        BY <1>6
      <3>2. t \in TurnRec
        BY <2>2
      <3> HIDE DEF t
      <3>3. QED  BY <3>1, <3>2, CopyIs
    <2>4. t.branch \in Nat /\ t.version \in Nat /\ t.branch # NoBranch
      BY <2>2, <1>6, Counts DEF NoBranch
    <2>5. nb \in BranchRec
      BY <1>6, <2>4 DEF BranchRec
    <2>6. \E u \in On(nb.parent) : u.version = nb.at /\ u.text = nt.text
      BY <2>2, <2>3 DEF On
    <2> HIDE DEF t, nb, nt
    <2>7. Rows'
      BY <1>1, <1>9, <2>1, <2>2, <2>3, <2>4, <2>5, <2>6, GrownRows
    <2>8. Shaped'
      <3>1. IsFiniteSet(turns')
        BY <2>1, FS_AddElement DEF IInv, Shaped
      <3>2. QED  BY <1>1, <1>2, <1>3, <1>6, <2>1, <2>3, <2>5, <3>1 DEF IInv, Shaped
    <2>9. Counted'
      <3>1. (born + Cardinality(Before) + Cardinality(ToFork) <= Requests + Cardinality(Forks))'
        BY <1>4, <1>5, <1>6, <2>1, Counts, Bounds DEF IInv, Counted
      <3>2. /\ 1 .. born \subseteq 1 .. born' /\ 0 .. born \subseteq 0 .. born'
            /\ born + 1 \in 1 .. born' /\ 1 \in 1 .. 1 + Cardinality(Done)
            /\ t.branch \in 0 .. born' /\ t.version \in 0 .. 1 + Cardinality(Done)
        BY <1>6, <2>1, <2>2, Counts
      <3>3. (raced \subseteq 0 .. born)'
        BY <1>1, <3>2 DEF IInv, Counted
      <3>4. (\A b \in branches : b.id \in 1 .. born /\ b.parent \in 0 .. born /\ b.at \in 0 .. 1 + Cardinality(Done))'
        BY <1>4, <2>1, <2>3, <3>2 DEF IInv, Counted
      <3>5. (\A u \in turns : u.branch \in 1 .. born /\ u.version \in 1 .. 1 + Cardinality(Done))'
        BY <1>4, <2>1, <2>3, <3>2 DEF IInv, Counted
      <3>6. (\A j \in Tasks : task[j].pc = "llm" =>
               task[j].on \in 1 .. born /\ task[j].version \in 1 .. 1 + Cardinality(Done))'
        BY <1>1, <1>4, <3>2 DEF IInv, Counted
      <3>7. (\A g \in Forks : fork[g].pc = "write" =>
               /\ fork[g].src \in TurnRec
               /\ fork[g].src.branch \in 1 .. born /\ fork[g].src.version \in 1 .. 1 + Cardinality(Done))'
        BY <1>3, <1>4, <3>2 DEF IInv, Counted
      <3>. QED  BY <3>1, <3>3, <3>4, <3>5, <3>6, <3>7 DEF Counted
    <2>10. Based'
      <3>1. ASSUME NEW j \in Tasks, task[j].pc = "llm"
            PROVE  (/\ \E r \in branches : r.id = task[j].on
                    /\ \E u \in On(task[j].on) : u.version = task[j].version /\ u.text = task[j].base
                    /\ task[j].on \notin raced => \A u \in On(task[j].on) : u.version <= task[j].version)'
        <4>1. /\ \E r \in branches : r.id = task[j].on
              /\ \E u \in On(task[j].on) : u.version = task[j].version /\ u.text = task[j].base
              /\ task[j].on \notin raced => \A u \in On(task[j].on) : u.version <= task[j].version
          BY <1>9, <3>1 DEF IInv, Based
        <4>2. task[j].on # born + 1
          BY <3>1, <1>6 DEF IInv, Counted
        <4>3. On(task[j].on)' = {u \in turns : u.branch = task[j].on}
          BY <1>1, <2>1, <2>3, <4>2 DEF On
        <4>4. QED  BY <1>1, <2>1, <4>1, <4>3 DEF On
      <3>2. (\A j \in Tasks : task[j].pc = "seed" /\ 0 \notin raced => turns = {})'
        BY <1>1, <1>9, <2>2 DEF IInv, Based
      <3>3. (\A g \in Forks : fork[g].pc = "write" => fork[g].src \in turns)'
        BY <1>3, <1>9, <2>1 DEF IInv, Based
      <3>. QED  BY <1>1, <3>1, <3>2, <3>3 DEF Based
    <2>. QED  BY <1>7, <2>7, <2>8, <2>9, <2>10
  <1>. QED  BY <1>8, <1>9

LEMMA RollbackKeeps ==
    ASSUME IInv, NEW f \in Forks, Rollback(f)
    PROVE  Shaped' /\ Counted' /\ Rows' /\ Based' /\ Alone'
  <1>1. PICK t \in turns : fork' = [fork EXCEPT ![f] = [pc |-> "write", src |-> t]]
    BY DEF Rollback
  <1>2. fork[f].pc = "new" /\ UNCHANGED <<rows, task, raced>>
    BY DEF Rollback
  <1>3. /\ DOMAIN fork' = Forks /\ fork'[f].pc = "write" /\ fork'[f].src = t
        /\ \A g \in Forks \ {f} : fork'[g] = fork[g]
    BY <1>1 DEF IInv, Shaped
  <1>4. ToFork' = ToFork /\ Before' = Before /\ Done' = Done
    BY <1>2, <1>3 DEF ToFork, Before, Done
  <1>5. Shaped'
    BY <1>2, <1>3 DEF IInv, Shaped, rows
  <1>6. Counted'
    <2>1. t \in TurnRec /\ t.branch \in 1 .. born /\ t.version \in 1 .. 1 + Cardinality(Done)
      BY DEF IInv, Shaped, Counted
    <2>2. (\A g \in Forks : fork[g].pc = "write" =>
             /\ fork[g].src \in TurnRec
             /\ fork[g].src.branch \in 1 .. born /\ fork[g].src.version \in 1 .. 1 + Cardinality(Done))'
      BY <1>2, <1>3, <1>4, <2>1 DEF IInv, Counted, rows
    <2>3. QED  BY <1>2, <1>4, <2>2 DEF IInv, Counted, rows
  <1>7. Rows'
    BY <1>2, RowsStay
  <1>8. Based'
    BY <1>2, <1>3 DEF IInv, Based, On, rows
  <1>9. Alone'
    BY <1>2 DEF IInv, Alone
  <1>. QED  BY <1>5, <1>6, <1>7, <1>8, <1>9

LEMMA DeleteKeeps ==
    ASSUME IInv, Delete
    PROVE  Shaped' /\ Counted' /\ Rows' /\ Based' /\ Alone'
  <1>1. /\ gone' = TRUE /\ branches' = {} /\ turns' = {}
        /\ UNCHANGED <<born, task, fork, raced>>
    BY DEF Delete
  <1>2. ToFork' = ToFork /\ Before' = Before /\ Done' = Done
    BY <1>1 DEF ToFork, Before, Done
  <1>3. Shaped'
    BY <1>1, FS_EmptySet DEF IInv, Shaped
  <1>4. Counted'
    BY <1>1, <1>2 DEF IInv, Counted
  <1>5. Rows'
    <2>1. (\A b \in 1 .. born : Gapless(b))'
      <3>1. ASSUME NEW b PROVE Gapless(b)'
        <4>1. 0 \in Nat /\ \A v \in Nat \ {0} : v <= 0 <=> \E t \in turns' : t.branch = b /\ t.version = v
          BY <1>1
        <4>2. QED  BY <4>1 DEF Gapless
      <3>2. QED  BY <3>1
    <2>2. QED  BY <1>1, <2>1 DEF Rows, Lineage, BranchesBegin
  <1>6. Based' /\ Alone'
    BY <1>1 DEF IInv, Based, Alone
  <1>. QED  BY <1>3, <1>4, <1>5, <1>6

\* A turn that is added to a branch, after a turn of it, which is the last one
\* unless the branch was raced.
LEMMA AddedRows ==
    ASSUME IInv, ~gone, NEW nt \in TurnRec, NEW b \in 1 .. born, NEW v \in Nat \ {0},
           nt.branch = b, nt.version = v + 1, nt.parent = v,
           \E r \in branches : r.id = b,
           \E u \in On(b) : u.version = v /\ u.text = nt.of,
           b \notin raced => \A t \in On(b) : t.version <= v,
           turns' = turns \cup {nt}, UNCHANGED <<gone, branches, born, raced>>
    PROVE  Rows'
  <1>1. /\ \A d : On(d) \subseteq On(d)'
        /\ \A d : \A u \in On(d)' : u \in On(d) \/ (u = nt /\ d = b)
        /\ nt.parent # 0 /\ nt \in On(b)'
    BY DEF On
  <1>2. Lineage'
    <2>1. ASSUME NEW t \in turns, t.parent # 0
          PROVE  t.version = t.parent + 1 /\ \E u \in On(t.branch)' : u.version = t.parent /\ u.text = t.of
      BY <1>1, <2>1 DEF IInv, Rows, Lineage
    <2>2. nt.version = nt.parent + 1 /\ \E u \in On(nt.branch)' : u.version = nt.parent /\ u.text = nt.of
      BY <1>1
    <2>3. QED  BY <2>1, <2>2 DEF Lineage
  <1>3. BranchesBegin'
    <2>1. ASSUME NEW d \in branches
          PROVE  \E t \in On(d.id)' :
                    /\ {u \in On(d.id)' : u.parent = 0} = {t} /\ t.version = 1
                    /\ d.parent # NoBranch => \E u \in On(d.parent)' : u.version = d.at /\ u.text = t.text
      <3>1. PICK t \in On(d.id) :
              /\ {u \in On(d.id) : u.parent = 0} = {t} /\ t.version = 1
              /\ d.parent # NoBranch => \E u \in On(d.parent) : u.version = d.at /\ u.text = t.text
        BY DEF IInv, Rows, BranchesBegin
      <3>2. {u \in On(d.id)' : u.parent = 0} = {u \in On(d.id) : u.parent = 0}
        BY <1>1
      <3>3. QED  BY <1>1, <3>1, <3>2
    <2>2. QED  BY <2>1 DEF BranchesBegin
  <1>4. (\A d \in 1 .. born : Gapless(d))'
    <2>1. ASSUME NEW d \in 1 .. born
          PROVE  \E n \in Nat : \A w \in Nat \ {0} :
                   w <= n <=> \E t \in turns' : t.branch = d /\ t.version = w
      <3>1. PICK n \in Nat : \A w \in Nat \ {0} : w <= n <=> \E t \in turns : t.branch = d /\ t.version = w
        BY DEF IInv, Rows, Gapless
      <3>2. CASE d # b
        BY <3>1, <3>2
      <3>3. CASE d = b
        <4>1. v <= n
          BY <3>1, <3>3 DEF On
        <4>2. CASE n = v
          <5>1. \A w \in Nat \ {0} : w <= n + 1 <=> \E t \in turns' : t.branch = d /\ t.version = w
            BY <3>1, <3>3, <4>2
          <5>2. QED  BY <5>1
        <4>3. CASE v + 1 <= n
          <5>1. \A w \in Nat \ {0} : w <= n <=> \E t \in turns' : t.branch = d /\ t.version = w
            BY <3>1, <3>3, <4>3
          <5>2. QED  BY <5>1
        <4>4. QED  BY <4>1, <4>2, <4>3
      <3>4. QED  BY <3>2, <3>3
    <2>2. QED  BY <2>1 DEF Gapless
  <1>5. (\A t, u \in turns :
           t.branch = u.branch /\ t.version = u.version /\ t.branch \notin raced => t = u)'
    <2>1. ASSUME b \notin raced, NEW t \in turns, t.branch = b
          PROVE  t.version # v + 1
      BY <2>1, RowTypes DEF On
    <2>2. QED  BY <2>1 DEF IInv, Rows
  <1>. QED  BY <1>2, <1>3, <1>4, <1>5 DEF IInv, Rows

\* The turn a request made follows the one it read, on a branch where nobody
\* else made one meanwhile, or which is remembered as raced.
LEMMA PersistKeeps ==
    ASSUME IInv, NEW k \in Tasks, Persist(k)
    PROVE  Shaped' /\ Counted' /\ Rows' /\ Based' /\ Alone'
  <1> DEFINE b == task[k].on
             v == task[k].version
             nt == [branch |-> b, version |-> v + 1, parent |-> v, text |-> k, of |-> task[k].base]
  <1>1. /\ task[k].pc = "llm" /\ ~gone /\ turns' = turns \cup {nt}
        /\ UNCHANGED <<gone, branches, born, fork, raced>>
    BY DEF Persist, Refused
  <1>2. Resumes(k, "notify")
    BY DEF Persist
  <1>3. Abates
    BY <1>2, ResumesAbates
  <1>4. task'[k].pc \in {"notify", "cut"}
    BY <1>2, EndsIs, MovesIs DEF IInv, Resumes, Steps
  <1>5. /\ \A j \in Tasks : task'[j].pc = "llm" =>
             /\ j # k /\ task[j].pc = "llm" /\ task'[j].on = task[j].on
             /\ task'[j].version = task[j].version /\ task'[j].base = task[j].base
        /\ \A j \in Tasks : task'[j].pc = "seed" => task[j].pc = "seed"
    BY <1>3, <1>4 DEF Abates
  <1>6. born \in Nat /\ b \in 1 .. born /\ v \in 1 .. 1 + Cardinality(Done) /\ v \in Nat \ {0}
    BY <1>1, RowTypes, Counts DEF IInv, Counted
  <1>7. k \in Nat /\ k \in 0 .. Requests /\ task[k].base \in 0 .. Requests /\ task[k].base \in Nat
    BY TaskFields, Bounds DEF IInv, Tasks
  <1>8. nt \in TurnRec
    BY <1>6, <1>7 DEF TurnRec
  <1>9. nt.branch = b /\ nt.version = v + 1 /\ nt.parent = v /\ nt.parent # 0 /\ nt.of = task[k].base
    BY <1>6
  <1>10. /\ \E r \in branches : r.id = b
         /\ \E u \in On(b) : u.version = v /\ u.text = task[k].base
         /\ b \notin raced => \A t \in On(b) : t.version <= v
    BY <1>1 DEF IInv, Based
  <1>11. \A j \in Tasks \ {k} : task[j].pc = "llm" /\ task[j].on = b => b \in raced
    BY <1>1 DEF IInv, Alone
  <1>12. ToFork' = ToFork /\ Before' \subseteq Before /\ Done \subseteq Done' \ {k}
    BY <1>1, <1>3, <1>4, AbatesCounts DEF ToFork, Done, Early
  <1>13. /\ Cardinality(Before') <= Cardinality(Before)
         /\ Cardinality(Done) + 1 <= Cardinality(Done')
    <2>1. k \in Done' /\ Done' \subseteq Tasks
      BY <1>4 DEF Done, Early
    <2>2. Cardinality(Done) + 1 <= Cardinality(Done')
      BY <1>12, <2>1, TaskSets, ShrinksByOne
    <2>3. QED  BY <1>12, <2>2, CountsStay
  <1> HIDE DEF nt
  <1>14. Shaped'
    <2>1. IsFiniteSet(turns')
      BY <1>1, FS_AddElement DEF IInv, Shaped
    <2>2. QED  BY <1>1, <1>3, <1>8, <2>1 DEF IInv, Shaped, Abates
  <1>15. Counted'
    <2>1. (born + Cardinality(Before) + Cardinality(ToFork) <= Requests + Cardinality(Forks))'
      BY <1>1, <1>6, <1>12, <1>13, Counts, Bounds DEF IInv, Counted
    <2>2. /\ 1 .. 1 + Cardinality(Done) \subseteq 1 .. 1 + Cardinality(Done')
          /\ 0 .. 1 + Cardinality(Done) \subseteq 0 .. 1 + Cardinality(Done')
          /\ v + 1 \in 1 .. 1 + Cardinality(Done')
      BY <1>6, <1>13, Counts
    <2>3. (raced \subseteq 0 .. born)'
      BY <1>1 DEF IInv, Counted
    <2>4. (\A d \in branches : d.id \in 1 .. born /\ d.parent \in 0 .. born /\ d.at \in 0 .. 1 + Cardinality(Done))'
      BY <1>1, <2>2 DEF IInv, Counted
    <2>5. (\A t \in turns : t.branch \in 1 .. born /\ t.version \in 1 .. 1 + Cardinality(Done))'
      BY <1>1, <1>6, <1>9, <2>2 DEF IInv, Counted
    <2>6. (\A j \in Tasks : task[j].pc = "llm" =>
             task[j].on \in 1 .. born /\ task[j].version \in 1 .. 1 + Cardinality(Done))'
      BY <1>1, <1>5, <2>2 DEF IInv, Counted
    <2>7. (\A f \in Forks : fork[f].pc = "write" =>
             /\ fork[f].src \in TurnRec
             /\ fork[f].src.branch \in 1 .. born /\ fork[f].src.version \in 1 .. 1 + Cardinality(Done))'
      BY <1>1, <2>2 DEF IInv, Counted
    <2>. QED  BY <2>1, <2>3, <2>4, <2>5, <2>6, <2>7 DEF Counted
  <1>16. Rows'
    BY <1>1, <1>6, <1>8, <1>9, <1>10, AddedRows
  <1>17. Based'
    <2>1. ASSUME NEW j \in Tasks, task'[j].pc = "llm"
          PROVE  (/\ \E r \in branches : r.id = task[j].on
                  /\ \E u \in On(task[j].on) : u.version = task[j].version /\ u.text = task[j].base
                  /\ task[j].on \notin raced => \A u \in On(task[j].on) : u.version <= task[j].version)'
      <3>1. /\ \E r \in branches : r.id = task[j].on
            /\ \E u \in On(task[j].on) : u.version = task[j].version /\ u.text = task[j].base
            /\ task[j].on \notin raced => \A u \in On(task[j].on) : u.version <= task[j].version
        BY <1>1, <1>5, <2>1 DEF IInv, Based
      <3>2. task[j].on \notin raced => task[j].on # b
        BY <1>5, <1>11, <2>1
      <3>3. task[j].on # b => {u \in turns' : u.branch = task[j].on} = On(task[j].on)
        BY <1>1, <1>9 DEF On
      <3>4. On(task[j].on) \subseteq {u \in turns' : u.branch = task[j].on}
        BY <1>1 DEF On
      <3>5. On(task[j].on)' = {u \in turns' : u.branch = task[j].on}
        BY <1>5, <2>1 DEF On
      <3>6. /\ task'[j].on = task[j].on /\ task'[j].version = task[j].version
            /\ task'[j].base = task[j].base
        BY <1>5, <2>1
      <3>. HIDE DEF b, v
      <3>7. QED  BY <1>1, <3>1, <3>2, <3>3, <3>4, <3>5, <3>6
    <2>2. (\A j \in Tasks : task[j].pc = "seed" /\ 0 \notin raced => turns = {})'
      <3>1. turns # {}
        BY <1>10 DEF On
      <3>2. QED  BY <1>1, <1>5, <3>1 DEF IInv, Based
    <2>3. (\A f \in Forks : fork[f].pc = "write" => fork[f].src \in turns)'
      BY <1>1 DEF IInv, Based
    <2>. QED  BY <2>1, <2>2, <2>3 DEF Based
  <1>18. Alone'
    BY <1>1, <1>5 DEF IInv, Alone
  <1>. QED  BY <1>14, <1>15, <1>16, <1>17, <1>18

-----------------------------------------------------------------------------
(* The store of the tab: its variables keep their types, and it changes no *)
(* row.                                                                    *)

LEMMA IdsHold ==
    ASSUME IInv
    PROVE  /\ NoBranch \in Ids
           /\ \A b \in branches : b.id \in Ids
           /\ \A t \in turns : t.branch \in Ids
  <1>1. 0 .. born \subseteq Ids
    BY Counts, Bounds DEF IInv, Counted, Shaped, Ids
  <1>2. NoBranch \in 0 .. born /\ 1 .. born \subseteq 0 .. born
    BY RowTypes DEF NoBranch
  <1>. QED  BY <1>1, <1>2, RowTypes

LEMMA FaultIs == ASSUME IInv, Fault PROVE faults' \in 0 .. MaxFaults
  BY Bounds DEF IInv, Client, Fault

LEMMA TabFields ==
    ASSUME IInv
    PROVE  /\ tab \in TabRec /\ tab.branch \in Ids /\ tab.list \subseteq TurnRec /\ IsFiniteSet(tab.list)
           /\ stream.branch \in Ids /\ rec.left \in 0 .. MaxPolls
           /\ Cardinality(tab.list) \in Nat
  BY FS_CardinalityType DEF IInv, Client, TabRec

LEMMA GetIs ==
    ASSUME IInv, NEW kind \in {"reload", "poll"}, NEW b \in Ids, NEW ok \in BOOLEAN, Get(kind, b, ok)
    PROVE  gets' \subseteq GetRec /\ \A g \in gets' : IsFiniteSet(g.got)
  <1> DEFINE g == [kind |-> kind, branch |-> b, ok |-> ok /\ ~gone, got |-> IF ok THEN turns ELSE {}]
  <1>1. g \in GetRec /\ IsFiniteSet(g.got)
    <2>1. (ok /\ ~gone) \in BOOLEAN
      OBVIOUS
    <2>2. (IF ok THEN turns ELSE {}) \subseteq TurnRec /\ IsFiniteSet(IF ok THEN turns ELSE {})
      BY FS_EmptySet DEF IInv, Shaped
    <2>3. QED  BY <2>1, <2>2 DEF GetRec
  <1>2. gets' = gets \cup {g}
    BY DEF Get
  <1> HIDE DEF g
  <1>3. QED  BY <1>1, <1>2 DEF IInv, Client

LEMMA ShowsIs ==
    ASSUME IInv, NEW g \in gets
    PROVE  Shows(g) \in TabRec /\ Shows(g).list = g.got /\ IsFiniteSet(g.got)
  <1>1. g \in GetRec /\ IsFiniteSet(g.got) /\ g.branch \in Ids /\ g.got \subseteq TurnRec
    BY DEF IInv, Client, GetRec
  <1>2. QED  BY <1>1, TabFields DEF Shows, TabRec

LEMMA StatusIs ==
    ASSUME NEW t \in TabRec, NEW s \in {"idle", "refining", "complete", "error"}
    PROVE  [t EXCEPT !.status = s] \in TabRec /\ [t EXCEPT !.status = s].list = t.list
  BY DEF TabRec

LEMMA RecoversIs == ASSUME IInv, Recovers PROVE rec' \in [left : 0 .. MaxPolls, prev : Nat]
  BY TabFields, Bounds DEF Recovers

LEMMA NoRecIs == NoRec \in [left : 0 .. MaxPolls, prev : Nat]
  BY Bounds DEF NoRec

\* The requests, the rollbacks and the deletion leave the tab alone.
LEMMA ServerClient ==
    ASSUME IInv, UNCHANGED client, news' \subseteq Tasks, faults' \in 0 .. MaxFaults
    PROVE  Client'
  BY DEF IInv, Client, Polled, client

LEMMA OpenClient == ASSUME IInv, Open PROVE Client'
  <1>1. UNCHANGED <<stream, rec, gets, news, faults, crossed>>
    BY DEF Open
  <1>2. tab' \in TabRec /\ IsFiniteSet(tab'.list)
    <2>1. CASE turns = {}
      <3>1. tab' = [tab EXCEPT !.list = {}, !.status = "idle"]
        BY <2>1 DEF Open
      <3>2. QED  BY <3>1, TabFields, FS_EmptySet DEF TabRec
    <2>2. CASE turns # {}
      <3>1. PICK t \in Latest(turns) : tab' = [branch |-> t.branch, list |-> turns, status |-> "idle"]
        BY <2>2 DEF Open
      <3>2. t.branch \in Ids /\ turns \subseteq TurnRec /\ IsFiniteSet(turns)
        BY IdsHold DEF IInv, Shaped, Latest
      <3>3. QED  BY <3>1, <3>2 DEF TabRec
    <2>. QED  BY <2>1, <2>2
  <1>. QED  BY <1>1, <1>2 DEF IInv, Client, Polled

LEMMA RefineClient == ASSUME IInv, NEW k \in Tasks, Refine(k) PROVE Client'
  <1>1. UNCHANGED <<news, faults, crossed>>
    BY DEF Refine
  <1>2. tab' \in TabRec /\ IsFiniteSet(tab'.list)
    BY TabFields, StatusIs DEF Refine
  <1>3. stream' \in [of : 0 .. Requests, is : {"open", "ended", "closed"}, branch : Ids]
    BY TabFields, Bounds DEF Refine, Tasks
  <1>4. rec' \in [left : 0 .. MaxPolls, prev : Nat] /\ gets' \subseteq gets
    BY NoRecIs DEF Refine
  <1>5. Polled'
    BY DEF Refine, Polled
  <1>. QED  BY <1>1, <1>2, <1>3, <1>4, <1>5 DEF IInv, Client

LEMMA StreamClient == ASSUME IInv, StreamEnds \/ StreamErrs \/ StreamBreaks PROVE Client'
  <1>1. UNCHANGED <<gets, news, crossed>>
    BY DEF StreamEnds, StreamErrs, StreamBreaks
  <1>2. tab' \in TabRec /\ IsFiniteSet(tab'.list)
    BY TabFields, StatusIs DEF StreamEnds, StreamErrs, StreamBreaks
  <1>3. stream' \in [of : 0 .. Requests, is : {"open", "ended", "closed"}, branch : Ids]
    BY DEF IInv, Client, StreamEnds, StreamErrs, StreamBreaks
  <1>4. rec' \in [left : 0 .. MaxPolls, prev : Nat]
    BY RecoversIs DEF IInv, Client, StreamEnds, StreamErrs, StreamBreaks
  <1>5. faults' \in 0 .. MaxFaults
    BY FaultIs DEF IInv, Client, StreamEnds, StreamErrs, StreamBreaks
  <1>6. rec' = rec \/ rec'.left > 0
    BY RefinementAssumption DEF StreamEnds, StreamErrs, StreamBreaks, Recovers
  <1>7. Polled'
    BY <1>1, <1>6 DEF IInv, Client, Polled
  <1>. QED  BY <1>1, <1>2, <1>3, <1>4, <1>5, <1>7 DEF IInv, Client

LEMMA PollClient == ASSUME IInv, Poll PROVE Client'
  <1>1. UNCHANGED <<tab, stream, rec, news, crossed>>
    BY DEF Poll
  <1>2. gets' \subseteq GetRec /\ \A g \in gets' : IsFiniteSet(g.got)
    BY TabFields, GetIs DEF Poll
  <1>3. faults' \in 0 .. MaxFaults
    BY FaultIs DEF IInv, Client, Poll
  <1>4. Polled'
    BY <1>1 DEF Poll, Get, Polled
  <1>. QED  BY <1>1, <1>2, <1>3, <1>4 DEF IInv, Client

LEMMA HearClient == ASSUME IInv, NEW k \in Tasks, Hear(k) PROVE Client'
  <1>1. UNCHANGED <<tab, stream, rec, faults, crossed>> /\ news' \subseteq news
    BY DEF Hear
  <1>2. gets' \subseteq GetRec /\ \A g \in gets' : IsFiniteSet(g.got)
    BY TabFields, GetIs DEF Hear
  <1>3. Polled'
    BY <1>1 DEF IInv, Client, Hear, Get, Polled
  <1>. QED  BY <1>1, <1>2, <1>3 DEF IInv, Client

LEMMA ReloadClient == ASSUME IInv, NEW g \in gets, ReloadAnswered(g) PROVE Client'
  <1>1. UNCHANGED <<stream, rec, news, faults>> /\ gets' \subseteq gets
    BY DEF ReloadAnswered, Arrives
  <1>2. tab' \in TabRec /\ IsFiniteSet(tab'.list)
    BY TabFields, ShowsIs DEF ReloadAnswered
  <1>3. crossed' \in BOOLEAN
    BY DEF ReloadAnswered
  <1>4. Polled'
    BY <1>1 DEF IInv, Client, Polled
  <1>. QED  BY <1>1, <1>2, <1>3, <1>4 DEF IInv, Client

LEMMA PollAnsweredClient == ASSUME IInv, NEW g \in gets, PollAnswered(g) PROVE Client'
  <1>1. UNCHANGED <<stream, news, faults, crossed>> /\ gets' \subseteq gets
    BY DEF PollAnswered, Arrives
  <1>2. Polled'
    BY DEF IInv, Client, PollAnswered, Arrives, Polled
  <1>3. CASE tab' = [Shows(g) EXCEPT !.status = "complete"] /\ rec' = NoRec
    <2>1. tab' \in TabRec /\ IsFiniteSet(tab'.list)
      BY <1>3, ShowsIs, StatusIs
    <2>2. QED  BY <1>1, <1>2, <1>3, <2>1, NoRecIs DEF IInv, Client
  <1>4. CASE PollLess
    <2>1. tab' \in TabRec /\ IsFiniteSet(tab'.list)
      BY <1>4, TabFields, StatusIs DEF PollLess
    <2>2. rec' \in [left : 0 .. MaxPolls, prev : Nat]
      <3>1. rec.left > 0
        BY DEF IInv, Client, Polled, PollAnswered, Arrives
      <3>2. rec' = [rec EXCEPT !.left = @ - 1]
        BY <1>4 DEF PollLess
      <3>3. rec.left - 1 \in 0 .. MaxPolls
        BY <3>1, TabFields, Bounds
      <3>4. QED  BY <3>2, <3>3 DEF IInv, Client
    <2>3. QED  BY <1>1, <1>2, <2>1, <2>2 DEF IInv, Client
  <1>. QED  BY <1>3, <1>4 DEF PollAnswered

-----------------------------------------------------------------------------
(* The invariant.                                                          *)

LEMMA InitKeeps == ASSUME Init PROVE IInv
  <1>1. 0 \in Ids /\ NoBranch = 0 /\ Requests \in Nat /\ 0 \in 0 .. Requests
    BY Bounds DEF Ids, NoBranch
  <1>2. Shaped
    <2>1. Blank \in TaskRec
      BY <1>1 DEF Blank, TaskRec, Steps
    <2>2. QED  BY <2>1, FS_EmptySet DEF Init, Shaped
  <1>3. Client
    <2>1. tab \in TabRec /\ tab.list = {}
      BY <1>1 DEF Init, TabRec
    <2>2. stream \in [of : 0 .. Requests, is : {"open", "ended", "closed"}, branch : Ids]
      BY <1>1 DEF Init, NoStream
    <2>3. rec \in [left : 0 .. MaxPolls, prev : Nat]
      BY NoRecIs DEF Init
    <2>4. faults \in 0 .. MaxFaults /\ gets = {} /\ news = {} /\ crossed = FALSE
      BY Bounds DEF Init
    <2>5. QED  BY <2>1, <2>2, <2>3, <2>4, FS_EmptySet DEF Client, Polled
  <1>4. Counted
    <2>1. Cardinality(Before) <= Requests /\ Cardinality(ToFork) <= Cardinality(Forks)
      BY TaskSets, ForkSets DEF Before, ToFork
    <2>2. \A k \in Tasks : task[k].pc = "new"
      BY DEF Init, Blank
    <2>3. \A f \in Forks : fork[f].pc = "new"
      BY DEF Init
    <2>4. born + Cardinality(Before) + Cardinality(ToFork) <= Requests + Cardinality(Forks)
      BY <2>1, Counts, Bounds DEF Init
    <2>5. QED  BY <2>2, <2>3, <2>4 DEF Init, Counted
  <1>5. Rows
    BY DEF Init, Rows, Lineage, BranchesBegin
  <1>6. Based /\ Alone
    BY DEF Init, Blank, Based, Alone
  <1>. QED  BY <1>2, <1>3, <1>4, <1>5, <1>6 DEF IInv

\* Whatever leaves the requests, the rollbacks and the rows alone.
LEMMA TabKeeps ==
    ASSUME IInv, UNCHANGED <<rows, task, fork, raced>>, Client'
    PROVE  IInv'
  BY StillAbates, AbatesKeeps DEF IInv

LEMMA ServerKeeps ==
    ASSUME IInv, Shaped' /\ Counted' /\ Rows' /\ Based' /\ Alone',
           UNCHANGED client, news' \subseteq Tasks, faults' \in 0 .. MaxFaults
    PROVE  IInv'
  BY ServerClient DEF IInv

LEMMA Spent == ASSUME IInv PROVE news \subseteq Tasks /\ faults \in 0 .. MaxFaults
  BY DEF IInv, Client

LEMMA TaskKeeps ==
    ASSUME IInv, NEW k \in Tasks, TaskStep(k) \/ Cut(k)
    PROVE  IInv'
  <1>1. CASE Check(k)
    BY <1>1, CheckKeeps, ServerKeeps, Spent DEF Check
  <1>2. CASE Seed(k)
    BY <1>2, SeedKeeps, ServerKeeps, Spent DEF Seed
  <1>3. CASE Read(k)
    BY <1>3, ReadKeeps, ServerKeeps, Spent DEF Read
  <1>4. CASE Fails(k)
    <2>1. UNCHANGED <<rows, fork, raced, client, news, faults>>
      BY <1>4 DEF Fails
    <2>2. QED  BY <1>4, <2>1, FailsAbates, AbatesKeeps, ServerKeeps, Spent
  <1>5. CASE Persist(k)
    BY <1>5, PersistKeeps, ServerKeeps, Spent DEF Persist
  <1>6. CASE WriteRefused(k)
    <2>1. UNCHANGED <<rows, fork, raced, client, news, faults>> /\ Resumes(k, "error")
      BY <1>6 DEF WriteRefused
    <2>2. QED  BY <2>1, ResumesAbates, AbatesKeeps, ServerKeeps, Spent
  <1>7. CASE Notify(k)
    <2>1. UNCHANGED <<rows, fork, raced, client>>
      BY <1>7 DEF Notify
    <2>2. news' \subseteq Tasks /\ faults' \in 0 .. MaxFaults
      BY <1>7, Spent, FaultIs DEF Notify
    <2>3. QED  BY <1>7, <2>1, <2>2, NotifyAbates, AbatesKeeps, ServerKeeps
  <1>8. CASE Cut(k)
    <2>1. UNCHANGED <<rows, fork, raced, client, news, faults>>
      BY <1>8 DEF Cut
    <2>2. QED  BY <1>8, <2>1, CutAbates, AbatesKeeps, ServerKeeps, Spent
  <1>. QED  BY <1>1, <1>2, <1>3, <1>4, <1>5, <1>6, <1>7, <1>8 DEF TaskStep

LEMMA AskKeeps ==
    ASSUME IInv, NEW k \in Tasks, Refine(k) \/ AskMcp(k)
    PROVE  IInv'
  <1>1. CASE Refine(k)
    <2>1. UNCHANGED <<rows, fork, raced>> /\ Asks(k, tab.branch, TRUE)
      BY <1>1 DEF Refine
    <2>2. Abates
      BY <2>1, TabFields, AsksAbates
    <2>3. QED  BY <1>1, <2>1, <2>2, AbatesKeeps, RefineClient DEF IInv
  <1>2. CASE AskMcp(k)
    <2>1. PICK b \in {NoBranch} \cup {r.id : r \in branches} : Asks(k, b, FALSE)
      BY <1>2 DEF AskMcp
    <2>2. b \in Ids
      BY IdsHold
    <2>3. Abates
      BY <2>1, <2>2, AsksAbates
    <2>4. UNCHANGED <<rows, fork, raced, client, news, faults>>
      BY <1>2 DEF AskMcp
    <2>5. QED  BY <2>3, <2>4, AbatesKeeps, ServerKeeps, Spent
  <1>. QED  BY <1>1, <1>2

LEMMA NextKeeps == ASSUME IInv, [Next]_vars PROVE IInv'
  <1>1. CASE \E k \in Tasks : TaskStep(k) \/ Cut(k) \/ Refine(k) \/ AskMcp(k)
    BY <1>1, TaskKeeps, AskKeeps
  <1>2. CASE \E k \in Tasks : Hear(k)
    <2>1. PICK k \in Tasks : Hear(k)
      BY <1>2
    <2>2. QED  BY <2>1, HearClient, TabKeeps DEF Hear
  <1>3. CASE \E f \in Forks : Rollback(f) \/ PersistFork(f)
    <2>1. PICK f \in Forks : Rollback(f) \/ PersistFork(f)
      BY <1>3
    <2>2. UNCHANGED <<client, news, faults>>
      BY <2>1 DEF Rollback, PersistFork
    <2>3. QED  BY <2>1, <2>2, RollbackKeeps, PersistForkKeeps, ServerKeeps, Spent
  <1>4. CASE Delete
    BY <1>4, DeleteKeeps, ServerKeeps, Spent DEF Delete
  <1>5. CASE Open
    BY <1>5, OpenClient, TabKeeps DEF Open
  <1>6. CASE StreamEnds \/ StreamErrs \/ StreamBreaks
    BY <1>6, StreamClient, TabKeeps DEF StreamEnds, StreamErrs, StreamBreaks
  <1>7. CASE Poll
    BY <1>7, PollClient, TabKeeps DEF Poll
  <1>8. CASE \E g \in gets : ReloadAnswered(g) \/ PollAnswered(g)
    <2>1. PICK g \in gets : ReloadAnswered(g) \/ PollAnswered(g)
      BY <1>8
    <2>2. QED  BY <2>1, ReloadClient, PollAnsweredClient, TabKeeps DEF ReloadAnswered, PollAnswered
  <1>9. CASE UNCHANGED vars
    BY <1>9, ServerClient, Spent, TabKeeps DEF vars
  <1>. QED  BY <1>1, <1>2, <1>3, <1>4, <1>5, <1>6, <1>7, <1>8, <1>9 DEF Next, TabStep

\* Whatever requests, rollbacks, the deletion and the tab do, in any order, what
\* each has read stays good for what it writes.
THEOREM Inductive == Spec => []IInv
  BY InitKeeps, NextKeeps, PTL DEF Spec

-----------------------------------------------------------------------------
(* What the invariant says.                                                *)

LEMMA Typed == ASSUME IInv PROVE TypeOK
  <1>1. 0 .. born \subseteq Ids /\ born \in Ids
    BY Counts, Bounds DEF IInv, Counted, Shaped, Ids
  <1>2. /\ 1 .. 1 + Cardinality(Done) \subseteq 1 .. Requests + 1
        /\ 0 .. 1 + Cardinality(Done) \subseteq 0 .. Requests + 1
    BY Counts, Bounds
  <1>3. gone \in BOOLEAN /\ born \in Ids /\ raced \subseteq Ids /\ crossed \in BOOLEAN
    BY <1>1 DEF IInv, Shaped, Counted, Client
  <1>4. \A b \in branches : b.id \in 1 .. born /\ b.parent \in 0 .. born /\ b.at \in 0 .. Requests + 1
    BY <1>2 DEF IInv, Counted
  <1>5. \A t \in turns : t.branch \in 1 .. born /\ t.version \in 1 .. Requests + 1 /\ t.text \in 0 .. Requests
    BY <1>2 DEF IInv, Shaped, Counted, TurnRec
  <1>6. \A k \in Tasks : task[k].pc \in Steps /\ task[k].on \in Ids /\ task[k].cut \in BOOLEAN
    BY DEF IInv, Shaped, TaskRec
  <1>7. \A f \in Forks : fork[f].pc \in {"new", "write", "over"}
    BY DEF IInv, Shaped
  <1>8. /\ tab.branch \in Ids /\ tab.status \in {"idle", "refining", "complete", "error"}
        /\ stream.of \in 0 .. Requests /\ stream.is \in {"open", "ended", "closed"}
        /\ rec.left \in 0 .. MaxPolls /\ rec.prev \in Nat
        /\ news \subseteq Tasks /\ faults \in 0 .. MaxFaults
    BY DEF IInv, Client, TabRec
  <1>9. \A g \in gets : g.kind \in {"reload", "poll"} /\ g.ok \in BOOLEAN
    BY DEF IInv, Client, GetRec
  <1>. QED  BY <1>3, <1>4, <1>5, <1>6, <1>7, <1>8, <1>9 DEF TypeOK

\* Every turn descends from the turn of its branch that its request had read, every
\* branch begins with one turn, a copy where it was forked, and a deleted result
\* keeps neither, whoever races, is cut or waits in the queue.
THEOREM RowsAreSound == Spec => []RowsSound
  <1>1. IInv => RowsSound
    BY Typed DEF IInv, Rows, RowsSound
  <1>. QED  BY <1>1, Inductive, PTL

LEMMA NumberedIs == ASSUME IInv PROVE Numbered
  <1>1. ASSUME NEW b \in branches
        PROVE  LET versions == {t.version : t \in On(b.id)} IN
               /\ versions = 1 .. Cardinality(versions)
               /\ b.id \notin raced => Cardinality(On(b.id)) = Cardinality(versions)
    <2> DEFINE mine == On(b.id)
               versions == {t.version : t \in mine}
    <2>1. PICK n \in Nat : \A v \in Nat \ {0} : v <= n <=> \E t \in turns : t.branch = b.id /\ t.version = v
      BY RowTypes DEF IInv, Rows, Gapless
    <2>2. versions = 1 .. n
      BY <2>1, RowTypes DEF On
    <2>3. Cardinality(1 .. n) = n
      BY FS_Interval
    <2>4. ASSUME b.id \notin raced
          PROVE  Cardinality(mine) = Cardinality(versions)
      <3>1. IsFiniteSet(mine)
        BY FS_Subset DEF On, IInv, Shaped
      <3>2. \A t, u \in mine : t.version = u.version => t = u
        BY <2>4 DEF IInv, Rows, On
      <3> DEFINE f == [t \in mine |-> t.version]
      <3>3. f \in Bijection(mine, versions)
        <4> HIDE DEF mine
        <4>1. QED  BY <3>2 DEF Bijection, Injection, Surjection, IsInjective
      <3>4. ExistsBijection(mine, versions)
        <4> HIDE DEF mine, versions, f
        <4>1. QED  BY <3>3 DEF ExistsBijection
      <3> HIDE DEF mine, versions
      <3>5. QED  BY <3>1, <3>4, FS_Bijection
    <2>5. QED  BY <2>2, <2>3, <2>4
  <1>2. ASSUME 0 \notin raced
        PROVE  Cardinality({b \in branches : b.parent = NoBranch}) <= 1
    <2> DEFINE roots == {b \in branches : b.parent = NoBranch}
    <2>1. \A b, d \in roots : b = d
      BY <1>2 DEF IInv, Rows
    <2>2. roots = {} \/ \E b : roots = {b}
      BY <2>1
    <2> HIDE DEF roots
    <2>3. Cardinality(roots) <= 1
      BY <2>2, FS_EmptySet, FS_Singleton
    <2>4. QED  BY <2>3 DEF roots
  <1>. QED  BY <1>1, <1>2 DEF Numbered

\* The versions of a branch run from 1 without a gap, and once each unless two requests
\* went on from it at a time; one branch has no parent unless two seeded at a time.
THEOREM VersionsAreNumbered == Spec => []Numbered
  BY NumberedIs, Inductive, PTL
=============================================================================
