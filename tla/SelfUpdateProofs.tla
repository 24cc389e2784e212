-------------------------- MODULE SelfUpdateProofs --------------------------
(***************************************************************************)
(* A restart is asked for only on a migrated checkout, an apply that is    *)
(* over has brought the user's edits back, and nothing the drain waited    *)
(* for is cut short.                                                       *)
(*                                                                         *)
(* The argument follows one apply: once its stash or its checkout has been *)
(* made, no command of an earlier apply is left that could undo it, and    *)
(* nobody else takes from the stashes.                                     *)
(***************************************************************************)
EXTENDS SelfUpdate, TLAPS

\* The steps from which an apply has its own stash, while made is TRUE.
Stashed == made /\ pc \in {"checkout", "migrate", "rollback", "unstash", "pop"}

\* The bounds: every stash, and the edit in the tree, was once an edit.
Counted ==
  /\ used \in [applies : Nat, edits : Nat, faults : Nat] /\ used.edits <= MaxEdits
  /\ stashes + (IF tree = "dirty" THEN 1 ELSE 0) <= used.edits
  /\ tree = "unmerged" => stashes > 0
  /\ pc # "idle" => ~timer

\* What the new version needs is in place where the restart is decided, and no
\* command that outlived an earlier apply can take it away.
Checked ==
  /\ pc = "migrate" => head = "new" /\ ~Locked
  /\ pc \in {"pop", "mark"} \/ timer => head = "new" /\ schema = "new" /\ ~Locked
  /\ Stashed => stashes > 0 /\ ~Locked
  /\ pc \in {"pop", "unstash"} => made

\* The stash of an apply that nothing disturbed is the one on top of what it found.
Kept ==
  ~excused =>
    /\ pc \in {"probe", "begin", "drain", "fetch", "stash"} => stashes <= left
    /\ Stashed => tree = "clean" /\ stashes <= left + 1
    /\ ~Stashed => stashes <= left \/ (tree = "unmerged" /\ stashes <= left + 1)

\* What is owed started before the gate closed, and is tracked until it ends.
Held ==
  /\ \A o \in tracked : opt[o] \in {"announced", "streaming", "over"}
  /\ \A o \in owed : opt[o] \notin {"new", "admitted"}
  /\ ~Alive => Running = {}
  /\ pc = "drain" => owed \cap Running \subseteq tracked /\ (force => owed = {})
  /\ pc # "drain" => owed \cap Running = {}
  /\ lost = {}

IInv == TypeOK /\ Counted /\ Checked /\ Kept /\ Held

-----------------------------------------------------------------------------
(* Optimizations and the user's edits.                                     *)

LEMMA AdmitKeeps ==
    ASSUME IInv, NEW o \in Opts, Admit(o)
    PROVE  IInv'
  <1>1. TypeOK' /\ Counted'
    BY DEF IInv, TypeOK, Counted, Admit, Alive, apply, disk, history, process
  <1>2. Checked' /\ Kept'
    BY DEF IInv, Checked, Kept, Admit, Locked, Stashed, apply, disk, history, process
  <1>3. Held'
    BY DEF IInv, Held, Admit, Alive, Running, apply, disk, history, process
  <1> QED BY <1>1, <1>2, <1>3 DEF IInv

LEMMA BeginKeeps ==
    ASSUME IInv, NEW o \in Opts, Begin(o)
    PROVE  IInv'
  <1>1. TypeOK'
    <2>1. opt[o] = "admitted" /\ o \in Running /\ Alive
      BY DEF Begin, Running, IInv, Held
    <2>2. /\ opt' \in [Opts -> {"new", "admitted", "announced", "streaming", "over", "killed"}]
          /\ tracked' \subseteq Opts
      BY DEF Begin, IInv, TypeOK
    <2>3. Alive'
      BY <2>1 DEF Begin, Alive, process
    <2> QED BY <2>2, <2>3 DEF Begin, IInv, TypeOK, process, apply, disk, history
  <1>2. Counted'
    BY DEF IInv, TypeOK, Counted, Begin, apply, disk, history, process
  <1>3. Checked' /\ Kept'
    BY DEF IInv, Checked, Kept, Begin, Locked, Stashed, apply, disk, history, process
  <1>4. Held'
    BY DEF IInv, TypeOK, Held, Begin, Alive, Running, apply, disk, history, process
  <1> QED BY <1>1, <1>2, <1>3, <1>4 DEF IInv

LEMMA StreamKeeps ==
    ASSUME IInv, NEW o \in Opts, Stream(o)
    PROVE  IInv'
  <1>1. TypeOK' /\ Counted'
    BY DEF IInv, TypeOK, Counted, Stream, Alive, apply, disk, history, process
  <1>2. Checked' /\ Kept'
    BY DEF IInv, Checked, Kept, Stream, Locked, Stashed, apply, disk, history, process
  <1>3. Held'
    BY DEF IInv, Held, Stream, Alive, Running, apply, disk, history, process
  <1> QED BY <1>1, <1>2, <1>3 DEF IInv

LEMMA LeaveEarlyKeeps ==
    ASSUME IInv, NEW o \in Opts, LeaveEarly(o)
    PROVE  IInv'
  <1>1. TypeOK' /\ Counted'
    BY DEF IInv, TypeOK, Counted, LeaveEarly, Alive, apply, disk, history, process
  <1>2. Checked' /\ Kept'
    BY DEF IInv, Checked, Kept, LeaveEarly, Locked, Stashed, apply, disk, history, process
  <1>3. Held'
    BY DEF IInv, Held, LeaveEarly, Alive, Running, apply, disk, history, process
  <1> QED BY <1>1, <1>2, <1>3 DEF IInv

LEMMA EndKeeps ==
    ASSUME IInv, NEW o \in Opts, End(o)
    PROVE  IInv'
  <1>1. TypeOK' /\ Counted'
    BY DEF IInv, TypeOK, Counted, End, Alive, apply, disk, history, process
  <1>2. Checked' /\ Kept'
    BY DEF IInv, Checked, Kept, End, Locked, Stashed, apply, disk, history, process
  <1>3. Held'
    BY DEF IInv, TypeOK, Held, End, Alive, Running, apply, disk, history, process
  <1> QED BY <1>1, <1>2, <1>3 DEF IInv

LEMMA EditKeeps ==
    ASSUME IInv, Edit
    PROVE  IInv'
  <1>1. TypeOK' /\ Counted'
    BY SelfUpdateAssumption DEF IInv, TypeOK, Counted, Edit, Alive, Use, apply, flights, process
  <1>2. Checked' /\ Kept'
    BY DEF IInv, Checked, Kept, Edit, Locked, Stashed, Use, apply, flights, process
  <1>3. Held'
    BY DEF IInv, Held, Edit, Alive, Running, Use, apply, flights, process
  <1> QED BY <1>1, <1>2, <1>3 DEF IInv

LEMMA SettleKeeps ==
    ASSUME IInv, Settle
    PROVE  IInv'
  <1>1. CASE tree = "dirty" /\ tree' = "clean" /\ stashes' = stashes
    <2>1. TypeOK' /\ Counted'
      BY <1>1 DEF IInv, TypeOK, Counted, Settle, Alive, apply, flights, history, process
    <2>2. Checked' /\ Kept'
      BY <1>1 DEF IInv, Checked, Kept, Settle, Locked, Stashed, apply, flights, history, process
    <2>3. Held'
      BY <1>1 DEF IInv, Held, Settle, Alive, Running, apply, flights, history, process
    <2> QED BY <2>1, <2>2, <2>3 DEF IInv
  <1>2. CASE tree = "unmerged" /\ pc = "idle" /\ tree' = "dirty" /\ stashes' = stashes - 1
    <2>1. TypeOK' /\ Counted'
      BY SelfUpdateAssumption, <1>2 DEF IInv, TypeOK, Counted, Settle, Alive, apply, flights,
         history, process
    <2>2. Checked' /\ Kept'
      BY <1>2 DEF IInv, TypeOK, Checked, Kept, Settle, Locked, Stashed, apply, flights, history,
         process
    <2>3. Held'
      BY <1>2 DEF IInv, Held, Settle, Alive, Running, apply, flights, history, process
    <2> QED BY <2>1, <2>2, <2>3 DEF IInv
  <1> QED BY <1>1, <1>2 DEF Settle

-----------------------------------------------------------------------------
(* An apply, from its preflight to its checkout.                           *)

LEMMA ApplyKeeps ==
    ASSUME IInv, NEW f \in BOOLEAN, Apply(f)
    PROVE  IInv'
  <1>1. TypeOK'
    BY DEF IInv, TypeOK, Apply, Alive, Use, disk, flights, process
  <1>2. Counted'
    BY DEF IInv, Counted, Apply, Use, disk, flights, process
  <1>3. Checked'
    BY DEF IInv, Checked, Apply, Stashed, Use
  <1>4. Kept'
    BY DEF IInv, TypeOK, Kept, Apply, Stashed, Use, disk, flights, process
  <1>5. Held'
    BY DEF IInv, Held, Apply, Alive, Running, Use, disk, flights, process
  <1> QED BY <1>1, <1>2, <1>3, <1>4, <1>5 DEF IInv

LEMMA ProbeKeeps ==
    ASSUME IInv, Probe
    PROVE  IInv'
  <1>1. TypeOK' /\ Counted'
    BY DEF IInv, TypeOK, Counted, Probe, Alive, disk, flights, history, process
  <1>2. Checked' /\ Kept'
    BY DEF IInv, Checked, Kept, Probe, Locked, Stashed, disk, flights, history, process
  <1>3. Held'
    BY DEF IInv, Held, Probe, Alive, Running, disk, flights, history, process
  <1> QED BY <1>1, <1>2, <1>3 DEF IInv

LEMMA RefusedKeeps ==
    ASSUME IInv, Refused
    PROVE  IInv'
  <1>1. TypeOK' /\ Counted'
    BY DEF IInv, TypeOK, Counted, Refused, Alive, Ends, Fails, disk, flights, process
  <1>2. Checked' /\ Kept'
    BY DEF IInv, Checked, Kept, Refused, Ends, Fails, Locked, Stashed, disk, flights, process
  <1>3. Held'
    BY DEF IInv, Held, Refused, Alive, Ends, Fails, Running, disk, flights, process
  <1> QED BY <1>1, <1>2, <1>3 DEF IInv

LEMMA BeginUpdateKeeps ==
    ASSUME IInv, BeginUpdate
    PROVE  IInv'
  <1>1. TypeOK' /\ Counted'
    BY DEF IInv, TypeOK, Counted, BeginUpdate, Alive, disk, flights, process
  <1>2. Checked' /\ Kept'
    BY DEF IInv, Checked, Kept, BeginUpdate, Locked, Stashed, disk, flights, process
  <1>3. Held'
    BY DEF IInv, Held, BeginUpdate, Alive, Running, disk, flights, process
  <1> QED BY <1>1, <1>2, <1>3 DEF IInv

LEMMA DrainedKeeps ==
    ASSUME IInv, Drained
    PROVE  IInv'
  <1>1. TypeOK' /\ Counted'
    BY DEF IInv, TypeOK, Counted, Drained, Alive, Goes, disk, flights, history, process
  <1>2. Checked' /\ Kept'
    BY DEF IInv, Checked, Kept, Drained, Goes, Locked, Stashed, disk, flights, history, process
  <1>3. Held'
    BY DEF IInv, Held, Drained, Alive, Goes, Running, disk, flights, history, process
  <1> QED BY <1>1, <1>2, <1>3 DEF IInv

LEMMA DrainTimesOutKeeps ==
    ASSUME IInv, DrainTimesOut
    PROVE  IInv'
  <1>1. CASE force /\ Goes("fetch") /\ UNCHANGED <<made, disk>>
    <2>1. TypeOK'
      BY <1>1 DEF IInv, TypeOK, DrainTimesOut, Alive, Ends, Fails, Goes, disk, flights, history,
         process
    <2>2. Counted'
      BY <1>1 DEF IInv, TypeOK, Counted, DrainTimesOut, Ends, Fails, Goes, disk, flights, history,
         process
    <2>3. Checked'
      BY <1>1 DEF IInv, TypeOK, Checked, DrainTimesOut, Ends, Fails, Goes, Locked, Stashed, disk,
         flights, history, process
    <2>4. Kept'
      BY <1>1 DEF IInv, TypeOK, Kept, DrainTimesOut, Ends, Fails, Goes, Stashed, disk, flights,
         history, process
    <2>5. Held'
      BY <1>1 DEF IInv, TypeOK, Held, DrainTimesOut, Alive, Ends, Fails, Goes, Running, disk,
         flights, history, process
    <2> QED BY <2>1, <2>2, <2>3, <2>4, <2>5 DEF IInv
  <1>2. CASE ~force /\ Fails /\ UNCHANGED <<disk, excused, used>>
    <2>1. TypeOK'
      BY <1>2 DEF IInv, TypeOK, DrainTimesOut, Alive, Ends, Fails, Goes, disk, flights, history,
         process
    <2>2. Counted'
      BY <1>2 DEF IInv, TypeOK, Counted, DrainTimesOut, Ends, Fails, Goes, disk, flights, history,
         process
    <2>3. Checked'
      BY <1>2 DEF IInv, TypeOK, Checked, DrainTimesOut, Ends, Fails, Goes, Locked, Stashed, disk,
         flights, history, process
    <2>4. Kept'
      BY <1>2 DEF IInv, TypeOK, Kept, DrainTimesOut, Ends, Fails, Goes, Stashed, disk, flights,
         history, process
    <2>5. Held'
      BY <1>2 DEF IInv, TypeOK, Held, DrainTimesOut, Alive, Ends, Fails, Goes, Running, disk,
         flights, history, process
    <2> QED BY <2>1, <2>2, <2>3, <2>4, <2>5 DEF IInv
  <1> QED BY <1>1, <1>2 DEF DrainTimesOut

LEMMA FetchedKeeps ==
    ASSUME IInv, Fetched
    PROVE  IInv'
  <1>1. TypeOK'
    <2>1. pc' \in {"stash", "checkout"} /\ pc = "fetch" /\ made' = FALSE /\ back' = head
      BY DEF Fetched
    <2>2. UNCHANGED <<process, flights, gate, force, will, disk, timer, told, history>>
      BY DEF Fetched
    <2>3. gate' /\ pc' \notin {"idle", "probe", "begin"} /\ Alive'
      BY <2>1, <2>2 DEF IInv, TypeOK, Alive, process
    <2>4. {head', schema', back'} \subseteq {"old", "new"} /\ {force', will', made', excused'} \subseteq BOOLEAN
      BY <2>1, <2>2 DEF IInv, TypeOK, disk, history
    <2> QED BY <2>1, <2>2, <2>3, <2>4 DEF IInv, TypeOK, process, flights, disk, history
  <1>2. Counted'
    BY DEF IInv, TypeOK, Counted, Fetched, disk, flights, history, process
  <1>3. Checked' /\ Kept'
    BY DEF IInv, Checked, Kept, Fetched, Locked, Stashed, disk, flights, history, process
  <1>4. Held'
    BY DEF IInv, Held, Fetched, Alive, Running, disk, flights, history, process
  <1> QED BY <1>1, <1>2, <1>3, <1>4 DEF IInv

LEMMA NotFetchedKeeps ==
    ASSUME IInv, NotFetched
    PROVE  IInv'
  <1>1. TypeOK' /\ Counted'
    BY DEF IInv, TypeOK, Counted, NotFetched, Alive, Ends, Fails, disk, flights, process
  <1>2. Checked' /\ Kept'
    BY DEF IInv, Checked, Kept, NotFetched, Ends, Fails, Locked, Stashed, disk, flights, process
  <1>3. Held'
    BY DEF IInv, Held, NotFetched, Alive, Ends, Fails, Running, disk, flights, process
  <1> QED BY <1>1, <1>2, <1>3 DEF IInv

LEMMA StashKeeps ==
    ASSUME IInv, Stash
    PROVE  IInv'
  <1>1. TypeOK' /\ Counted'
    BY SelfUpdateAssumption DEF IInv, TypeOK, Counted, Stash, Alive, Goes, flights, history, process
  <1>2. Checked'
    BY DEF IInv, TypeOK, Checked, Stash, Goes, Locked, Stashed, flights, history, process
  <1>3. Kept'
    BY DEF IInv, TypeOK, Kept, Stash, Goes, Locked, Stashed, flights, history, process
  <1>4. Held'
    BY DEF IInv, Held, Stash, Alive, Goes, Running, flights, history, process
  <1> QED BY <1>1, <1>2, <1>3, <1>4 DEF IInv

LEMMA NotStashedKeeps ==
    ASSUME IInv, NotStashed
    PROVE  IInv'
  <1>1. TypeOK'
    <2>1. pc' = "checkout" /\ pc = "stash" /\ made' = FALSE
      BY DEF NotStashed, Goes
    <2>2. UNCHANGED <<process, flights, gate, force, will, back, disk, timer, told, history>>
      BY DEF NotStashed, Goes
    <2>3. gate' /\ pc' \notin {"idle", "probe", "begin"} /\ Alive'
      BY <2>1, <2>2 DEF IInv, TypeOK, Alive, process
    <2>4. {head', schema', back'} \subseteq {"old", "new"} /\ {force', will', made', excused'} \subseteq BOOLEAN
      BY <2>1, <2>2 DEF IInv, TypeOK, disk, history
    <2> QED BY <2>1, <2>2, <2>3, <2>4 DEF IInv, TypeOK, process, flights, disk, history
  <1>2. Counted'
    BY DEF IInv, TypeOK, Counted, NotStashed, Goes, Locked, disk, flights, history, process
  <1>3. Checked' /\ Kept'
    BY DEF IInv, Checked, Kept, NotStashed, Goes, Locked, Stashed, disk, flights, history, process
  <1>4. Held'
    BY DEF IInv, Held, NotStashed, Alive, Goes, Running, disk, flights, history, process
  <1> QED BY <1>1, <1>2, <1>3, <1>4 DEF IInv

LEMMA CheckoutKeeps ==
    ASSUME IInv, Checkout
    PROVE  IInv'
  <1>1. TypeOK' /\ Counted'
    BY DEF IInv, TypeOK, Counted, Checkout, Alive, flights, history
  <1>2. Checked' /\ Kept'
    BY DEF IInv, Checked, Kept, Checkout, Locked, Stashed, flights, history
  <1>3. Held'
    BY DEF IInv, Held, Checkout, Alive, Running, flights, history
  <1> QED BY <1>1, <1>2, <1>3 DEF IInv

LEMMA CheckoutRefusedKeeps ==
    ASSUME IInv, CheckoutRefused
    PROVE  IInv'
  <1>1. CASE made /\ Goes("unstash") /\ UNCHANGED <<made, disk>>
    <2>1. TypeOK' /\ Counted'
      BY <1>1 DEF IInv, TypeOK, Counted, CheckoutRefused, Alive, Ends, Fails, Goes, disk, flights,
         history, process
    <2>2. Checked' /\ Kept'
      BY <1>1 DEF IInv, Checked, Kept, CheckoutRefused, Ends, Fails, Goes, Locked, Stashed, disk,
         flights, history, process
    <2>3. Held'
      BY <1>1 DEF IInv, Held, CheckoutRefused, Alive, Ends, Fails, Goes, Running, disk, flights,
         history, process
    <2> QED BY <2>1, <2>2, <2>3 DEF IInv
  <1>2. CASE ~made /\ Fails /\ UNCHANGED <<disk, excused, used>>
    <2>1. TypeOK' /\ Counted'
      BY <1>2 DEF IInv, TypeOK, Counted, CheckoutRefused, Alive, Ends, Fails, Goes, disk, flights,
         history, process
    <2>2. Checked' /\ Kept'
      BY <1>2 DEF IInv, Checked, Kept, CheckoutRefused, Ends, Fails, Goes, Locked, Stashed, disk,
         flights, history, process
    <2>3. Held'
      BY <1>2 DEF IInv, Held, CheckoutRefused, Alive, Ends, Fails, Goes, Running, disk, flights,
         history, process
    <2> QED BY <2>1, <2>2, <2>3 DEF IInv
  <1> QED BY <1>1, <1>2 DEF CheckoutRefused

-----------------------------------------------------------------------------
(* From the migration to the restart that is asked for.                    *)

LEMMA MigrateKeeps ==
    ASSUME IInv, Migrate
    PROVE  IInv'
  <1>1. TypeOK' /\ Counted'
    BY DEF IInv, TypeOK, Counted, Migrate, Alive, Goes, flights, history, process
  <1>2. Checked' /\ Kept'
    BY DEF IInv, Checked, Kept, Migrate, Goes, Locked, Stashed, flights, history, process
  <1>3. Held'
    BY DEF IInv, Held, Migrate, Alive, Goes, Running, flights, history, process
  <1> QED BY <1>1, <1>2, <1>3 DEF IInv

LEMMA MigrationFailsKeeps ==
    ASSUME IInv, MigrationFails
    PROVE  IInv'
  <1>1. TypeOK' /\ Counted'
    BY DEF IInv, TypeOK, Counted, MigrationFails, Alive, Goes, disk, flights, history, process
  <1>2. Checked' /\ Kept'
    BY DEF IInv, Checked, Kept, MigrationFails, Goes, Locked, Stashed, disk, flights, history,
       process
  <1>3. Held'
    BY DEF IInv, Held, MigrationFails, Alive, Goes, Running, disk, flights, history, process
  <1> QED BY <1>1, <1>2, <1>3 DEF IInv

LEMMA MigrationTimesOutKeeps ==
    ASSUME IInv, MigrationTimesOut
    PROVE  IInv'
  <1>1. TypeOK' /\ Counted'
    BY DEF IInv, TypeOK, Counted, MigrationTimesOut, Alive, TimesOut, Use, flights, process
  <1>2. Checked' /\ Kept'
    BY DEF IInv, Checked, Kept, MigrationTimesOut, Locked, Stashed, TimesOut, Use
  <1>3. Held'
    BY DEF IInv, Held, MigrationTimesOut, Alive, Running, TimesOut, Use, flights, process
  <1> QED BY <1>1, <1>2, <1>3 DEF IInv

LEMMA RollbackKeeps ==
    ASSUME IInv, Rollback
    PROVE  IInv'
  <1>1. CASE made
    <2>1. TypeOK' /\ Counted'
      BY <1>1 DEF IInv, TypeOK, Counted, Rollback, Alive, Ends, flights
    <2>2. Checked' /\ Kept'
      BY <1>1 DEF IInv, Counted, Checked, Kept, Rollback, Ends, Locked, Stashed
    <2>3. Held'
      BY <1>1 DEF IInv, Held, Rollback, Alive, Ends, Running, flights
    <2> QED BY <2>1, <2>2, <2>3 DEF IInv
  <1>2. CASE ~made
    <2>1. TypeOK' /\ Counted'
      BY <1>2 DEF IInv, TypeOK, Counted, Rollback, Alive, Ends, flights
    <2>2. Checked' /\ Kept'
      BY <1>2 DEF IInv, Counted, Checked, Kept, Rollback, Ends, Stashed
    <2>3. Held'
      BY <1>2 DEF IInv, Held, Rollback, Alive, Ends, Running, flights
    <2> QED BY <2>1, <2>2, <2>3 DEF IInv
  <1> QED BY <1>1, <1>2 DEF Rollback

LEMMA NoMore ==
    ASSUME NEW s \in Nat, NEW t \in Nat, NEW i \in Nat, NEW j \in Nat, NEW n \in Nat,
           s + i <= n, t + j <= s + i
    PROVE  t + j <= n
  OBVIOUS

\* What comes back of the stash of an apply leaves no more than was there, or a conflict.
LEMMA PoppedIs ==
    ASSUME IInv, Stashed, Popped
    PROVE  /\ stashes > 0 /\ ~Locked
           /\ tree' \in {"clean", "dirty", "unmerged"} /\ stashes' \in Nat /\ stashes' <= stashes
           /\ stashes' + (IF tree' = "dirty" THEN 1 ELSE 0) <= stashes + (IF tree = "dirty" THEN 1 ELSE 0)
           /\ tree' = "unmerged" => stashes' > 0
           /\ ~excused => stashes' <= left \/ (tree' = "unmerged" /\ stashes' <= left + 1)
  BY SelfUpdateAssumption DEF IInv, TypeOK, Counted, Checked, Kept, Popped, Stashed

LEMMA PopKeeps ==
    ASSUME IInv, Pop
    PROVE  IInv'
  <1>1. /\ stashes > 0 /\ ~Locked
        /\ tree' \in {"clean", "dirty", "unmerged"} /\ stashes' \in Nat /\ stashes' <= stashes
        /\ stashes' + (IF tree' = "dirty" THEN 1 ELSE 0) <= stashes + (IF tree = "dirty" THEN 1 ELSE 0)
        /\ tree' = "unmerged" => stashes' > 0
        /\ ~excused => stashes' <= left \/ (tree' = "unmerged" /\ stashes' <= left + 1)
    BY PoppedIs DEF Pop, IInv, Checked, Stashed
  <1>2. TypeOK'
    <2>1. stashes' \in 0 .. MaxEdits
      BY <1>1, SelfUpdateAssumption DEF IInv, TypeOK
    <2> QED BY <1>1, <2>1 DEF Pop, Goes, IInv, TypeOK, Alive, process, flights, history
  <1>3. Counted'
    <2> DEFINE n == used.edits
               i == IF tree = "dirty" THEN 1 ELSE 0
               j == IF tree' = "dirty" THEN 1 ELSE 0
    <2>1. used' = used /\ timer' = timer /\ pc # "idle"
      BY DEF Pop, Goes
    <2>2. n \in Nat /\ stashes + i <= n
      BY DEF IInv, Counted
    <2>3. i \in Nat /\ j \in Nat
      OBVIOUS
    <2>4. stashes \in Nat /\ stashes' \in Nat
      BY <1>1, SelfUpdateAssumption DEF IInv, TypeOK
    <2>5. stashes' + j <= stashes + i
      BY <1>1
    <2> HIDE DEF n, i, j
    <2>6. stashes' + j <= n
      BY <2>2, <2>3, <2>4, <2>5, NoMore
    <2> QED BY <1>1, <2>1, <2>6 DEF IInv, Counted, n, j
  <1>4. Checked'
    BY <1>1 DEF Pop, Goes, IInv, Checked, Stashed, Locked
  <1>5. Kept'
    BY <1>1 DEF Pop, Goes, Kept, Stashed, history
  <1>6. Held'
    BY DEF IInv, Held, Pop, Alive, Goes, Popped, Running, flights, history, process
  <1> QED BY <1>2, <1>3, <1>4, <1>5, <1>6 DEF IInv

LEMMA UnstashKeeps ==
    ASSUME IInv, Unstash
    PROVE  IInv'
  <1>1. /\ stashes > 0 /\ ~Locked
        /\ tree' \in {"clean", "dirty", "unmerged"} /\ stashes' \in Nat /\ stashes' <= stashes
        /\ stashes' + (IF tree' = "dirty" THEN 1 ELSE 0) <= stashes + (IF tree = "dirty" THEN 1 ELSE 0)
        /\ tree' = "unmerged" => stashes' > 0
        /\ ~excused => stashes' <= left \/ (tree' = "unmerged" /\ stashes' <= left + 1)
    BY PoppedIs DEF Unstash, IInv, Checked, Stashed
  <1>2. TypeOK'
    <2>1. stashes' \in 0 .. MaxEdits
      BY <1>1, SelfUpdateAssumption DEF IInv, TypeOK
    <2> QED BY <1>1, <2>1 DEF Unstash, Fails, Ends, IInv, TypeOK, Alive, process, flights
  <1>3. Counted'
    <2> DEFINE n == used.edits
               i == IF tree = "dirty" THEN 1 ELSE 0
               j == IF tree' = "dirty" THEN 1 ELSE 0
    <2>1. used' = used /\ timer' = timer /\ pc # "idle"
      BY DEF Unstash, Fails, Ends
    <2>2. n \in Nat /\ stashes + i <= n
      BY DEF IInv, Counted
    <2>3. i \in Nat /\ j \in Nat
      OBVIOUS
    <2>4. stashes \in Nat /\ stashes' \in Nat
      BY <1>1, SelfUpdateAssumption DEF IInv, TypeOK
    <2>5. stashes' + j <= stashes + i
      BY <1>1
    <2> HIDE DEF n, i, j
    <2>6. stashes' + j <= n
      BY <2>2, <2>3, <2>4, <2>5, NoMore
    <2> QED BY <1>1, <2>1, <2>6 DEF IInv, Counted, n, j
  <1>4. Checked'
    BY <1>1 DEF Unstash, Fails, Ends, IInv, Counted, Checked, Stashed, Locked
  <1>5. Kept'
    BY <1>1 DEF Unstash, Fails, Ends, Kept, Stashed
  <1>6. Held'
    BY DEF IInv, Held, Unstash, Alive, Ends, Fails, Popped, Running, flights, process
  <1> QED BY <1>2, <1>3, <1>4, <1>5, <1>6 DEF IInv

LEMMA MarkKeeps ==
    ASSUME IInv, Mark
    PROVE  IInv'
  <1>1. TypeOK' /\ Counted'
    BY DEF IInv, TypeOK, Counted, Mark, Alive, Ends, flights, history, process
  <1>2. Checked' /\ Kept'
    BY DEF IInv, Checked, Kept, Mark, Ends, Locked, Stashed, flights, history, process
  <1>3. Held'
    BY DEF IInv, Held, Mark, Alive, Ends, Running, flights, history, process
  <1> QED BY <1>1, <1>2, <1>3 DEF IInv

-----------------------------------------------------------------------------
(* Commands that time out, and the worker's ends and starts.               *)

LEMMA GivesUpKeeps ==
    ASSUME IInv, NEW step \in {"stash", "checkout", "rollback", "pop", "unstash"},
           NEW command \in {"none", "stash", "checkout", "rollback", "pop"}, GivesUp(step, command)
    PROVE  IInv'
  <1>1. TypeOK'
    BY DEF IInv, TypeOK, GivesUp, Alive, Ends, Fails, TimesOut, Use, flights, process
  <1>2. Counted'
    BY DEF IInv, Counted, GivesUp, Ends, Fails, TimesOut, Use
  <1>3. Checked'
    BY DEF IInv, Counted, Checked, GivesUp, Ends, Fails, Stashed, TimesOut, Use
  <1>4. Kept'
    BY DEF IInv, Kept, GivesUp, Ends, Fails, TimesOut, Use
  <1>5. Held'
    BY DEF IInv, Held, GivesUp, Alive, Ends, Fails, Running, TimesOut, Use, flights, process
  <1> QED BY <1>1, <1>2, <1>3, <1>4, <1>5 DEF IInv

LEMMA LateEndsKeeps ==
    ASSUME IInv, LateEnds
    PROVE  IInv'
  <1>1. TypeOK'
    BY SelfUpdateAssumption DEF IInv, TypeOK, Counted, LateEnds, Alive, apply, flights
  <1>2. Counted'
    BY DEF IInv, TypeOK, Counted, LateEnds, apply, flights
  <1>3. Checked'
    BY DEF IInv, Checked, LateEnds, Locked, Stashed, apply, flights
  <1>4. Kept'
    BY DEF IInv, Kept, LateEnds
  <1>5. Held'
    BY DEF IInv, Held, LateEnds, Alive, Running, apply, flights
  <1> QED BY <1>1, <1>2, <1>3, <1>4, <1>5 DEF IInv

LEMMA RestartKeeps ==
    ASSUME IInv, Restart
    PROVE  IInv'
  <1>1. TypeOK'
    BY DEF IInv, TypeOK, Restart, Abandoned, Alive, CutShort, Dies, Ends, Running
  <1>2. Counted'
    BY DEF IInv, TypeOK, Counted, Restart, Abandoned, Alive, CutShort, Dies, Ends, Running
  <1>3. Checked' /\ Kept'
    BY DEF IInv, Checked, Kept, Restart, CutShort, Dies, Ends, Stashed
  <1>4. Held'
    BY DEF IInv, Held, Restart, Alive, CutShort, Dies, Ends, Running
  <1> QED BY <1>1, <1>2, <1>3, <1>4 DEF IInv

LEMMA ReloadBeginsKeeps ==
    ASSUME IInv, ReloadBegins
    PROVE  IInv'
  <1>1. TypeOK'
    <2>1. Alive /\ Alive' /\ worker' \in {"serving", "stopping", "restarting", "down"}
      BY DEF ReloadBegins, Alive
    <2>2. stale' \in BOOLEAN
      BY DEF ReloadBegins
    <2> QED BY <2>1, <2>2 DEF ReloadBegins, IInv, TypeOK, flights, apply, disk, history
  <1>2. Counted'
    BY DEF IInv, TypeOK, Counted, ReloadBegins, apply, disk, flights, history
  <1>3. Checked' /\ Kept'
    BY DEF IInv, Checked, Kept, ReloadBegins, Locked, Stashed, apply, disk, flights, history
  <1>4. Held'
    BY DEF IInv, Held, ReloadBegins, Alive, Running, apply, disk, flights, history
  <1> QED BY <1>1, <1>2, <1>3, <1>4 DEF IInv

LEMMA ReloadEndsKeeps ==
    ASSUME IInv, ReloadEnds
    PROVE  IInv'
  <1>1. TypeOK'
    BY DEF IInv, TypeOK, ReloadEnds, Abandoned, Alive, CutShort, Dies, Ends, Running
  <1>2. Counted'
    BY DEF IInv, TypeOK, Counted, ReloadEnds, Abandoned, CutShort, Dies, Ends, Running
  <1>3. Checked' /\ Kept'
    BY DEF IInv, Checked, Kept, ReloadEnds, CutShort, Dies, Ends, Stashed
  <1>4. Held'
    BY DEF IInv, Held, ReloadEnds, Alive, CutShort, Dies, Ends, Running
  <1> QED BY <1>1, <1>2, <1>3, <1>4 DEF IInv

LEMMA CrashKeeps ==
    ASSUME IInv, Crash
    PROVE  IInv'
  <1>1. TypeOK'
    BY DEF IInv, TypeOK, Crash, Abandoned, Alive, Dies, Ends, Running, Use
  <1>2. Counted'
    BY DEF IInv, TypeOK, Counted, Crash, Abandoned, Alive, Dies, Ends, Running, Use
  <1>3. Checked' /\ Kept'
    BY DEF IInv, Checked, Kept, Crash, Dies, Ends, Stashed, Use
  <1>4. Held'
    BY DEF IInv, Held, Crash, Alive, Dies, Ends, Running, Use
  <1> QED BY <1>1, <1>2, <1>3, <1>4 DEF IInv

LEMMA BootKeeps ==
    ASSUME IInv, Boot
    PROVE  IInv'
  <1>1. TypeOK' /\ Counted'
    BY DEF IInv, TypeOK, Counted, Boot, Alive, apply, disk, flights, history
  <1>2. Checked' /\ Kept'
    BY DEF IInv, Checked, Kept, Boot, Locked, Stashed, apply, disk, flights, history
  <1>3. Held'
    BY DEF IInv, Held, Boot, Alive, Running, apply, disk, flights, history
  <1> QED BY <1>1, <1>2, <1>3 DEF IInv

LEMMA ResumeKeeps ==
    ASSUME IInv, Resume
    PROVE  IInv'
  <1>1. TypeOK'
    <2>1. told' \in {"none", "success", "failure"}
      BY DEF Resume, IInv, TypeOK
    <2>2. /\ checking' \in BOOLEAN /\ marker' \in BOOLEAN
          /\ UNCHANGED <<worker, stale, flights, gate, apply, head, tree, stashes, schema, late, timer,
                         history>>
      BY DEF Resume
    <2> QED BY <2>1, <2>2 DEF IInv, TypeOK, Alive, flights, apply, history
  <1>2. Counted'
    BY DEF IInv, TypeOK, Counted, Resume, Alive, apply, flights, history
  <1>3. Checked' /\ Kept'
    BY DEF IInv, Checked, Kept, Resume, Locked, Stashed, apply, flights, history
  <1>4. Held'
    BY DEF IInv, Held, Resume, Alive, Running, apply, flights, history
  <1> QED BY <1>1, <1>2, <1>3, <1>4 DEF IInv

-----------------------------------------------------------------------------
(* The invariant, and what it says to a reader.                            *)

LEMMA InitIInv == Init => IInv
  <1> SUFFICES ASSUME Init PROVE IInv
    OBVIOUS
  <1>1. TypeOK /\ Counted
    <2>1. 0 \in 0 .. MaxEdits /\ 0 <= MaxEdits
      BY SelfUpdateAssumption
    <2>2. used \in [applies : Nat, edits : Nat, faults : Nat] /\ used.edits = 0
      BY DEF Init
    <2>3. opt \in [Opts -> {"new", "admitted", "announced", "streaming", "over", "killed"}]
      BY DEF Init
    <2>4. TypeOK
      BY <2>1, <2>3 DEF Init, TypeOK, Alive
    <2> QED BY <2>1, <2>2, <2>4 DEF Init, Counted
  <1>2. Checked /\ Kept
    BY DEF Init, Checked, Kept, Stashed, Locked
  <1>3. Held
    BY DEF Init, Held, Running, Alive
  <1> QED BY <1>1, <1>2, <1>3 DEF IInv

LEMMA ApplyStepKeeps ==
    ASSUME IInv, ApplyStep
    PROVE  IInv'
  <1>1. CASE GiveUp
    <2>1. CASE GivesUp("stash", "stash")
      BY <2>1, GivesUpKeeps
    <2>2. CASE GivesUp("checkout", "checkout")
      BY <2>2, GivesUpKeeps
    <2>3. CASE GivesUp("rollback", IF back = "old" THEN "rollback" ELSE "none")
      <3>1. GivesUp("rollback", "rollback") \/ GivesUp("rollback", "none")
        BY <2>3
      <3> QED BY <3>1, GivesUpKeeps
    <2>4. CASE GivesUp("pop", "pop")
      BY <2>4, GivesUpKeeps
    <2>5. CASE GivesUp("unstash", "pop")
      BY <2>5, GivesUpKeeps
    <2> QED BY <1>1, <2>1, <2>2, <2>3, <2>4, <2>5 DEF GiveUp
  <1>2. CASE Probe \/ Refused \/ BeginUpdate \/ Drained \/ DrainTimesOut \/ Fetched \/ NotFetched
    BY <1>2, ProbeKeeps, RefusedKeeps, BeginUpdateKeeps, DrainedKeeps, DrainTimesOutKeeps,
       FetchedKeeps, NotFetchedKeeps
  <1>3. CASE Stash \/ NotStashed \/ Checkout \/ CheckoutRefused
    BY <1>3, StashKeeps, NotStashedKeeps, CheckoutKeeps, CheckoutRefusedKeeps
  <1>4. CASE Migrate \/ MigrationFails \/ MigrationTimesOut \/ Rollback
    BY <1>4, MigrateKeeps, MigrationFailsKeeps, MigrationTimesOutKeeps, RollbackKeeps
  <1>5. CASE Pop \/ Unstash \/ Mark
    BY <1>5, PopKeeps, UnstashKeeps, MarkKeeps
  <1> QED BY <1>1, <1>2, <1>3, <1>4, <1>5 DEF ApplyStep

LEMMA NextIInv == IInv /\ [Next]_vars => IInv'
  <1> SUFFICES ASSUME IInv, [Next]_vars PROVE IInv'
    OBVIOUS
  <1>1. ASSUME NEW o \in Opts, Admit(o) \/ Begin(o) \/ Stream(o) \/ LeaveEarly(o) \/ End(o) PROVE IInv'
    BY <1>1, AdmitKeeps, BeginKeeps, StreamKeeps, LeaveEarlyKeeps, EndKeeps
  <1>2. ASSUME NEW f \in BOOLEAN, Apply(f) PROVE IInv'
    BY <1>2, ApplyKeeps
  <1>3. CASE Edit \/ Settle \/ LateEnds
    BY <1>3, EditKeeps, SettleKeeps, LateEndsKeeps
  <1>4. CASE ApplyStep
    BY <1>4, ApplyStepKeeps
  <1>5. CASE Restart \/ ReloadBegins \/ ReloadEnds \/ Crash \/ Boot \/ Resume
    BY <1>5, RestartKeeps, ReloadBeginsKeeps, ReloadEndsKeeps, CrashKeeps, BootKeeps, ResumeKeeps
  <1>6. CASE UNCHANGED vars
    <2> USE <1>6 DEF vars, process, flights, apply, disk, history
    <2>1. TypeOK' /\ Counted'
      BY DEF IInv, TypeOK, Counted, Alive
    <2>2. Checked' /\ Kept'
      BY DEF IInv, Checked, Kept, Stashed, Locked
    <2>3. Held'
      BY DEF IInv, Held, Running, Alive
    <2> QED BY <2>1, <2>2, <2>3 DEF IInv
  <1> QED BY <1>1, <1>2, <1>3, <1>4, <1>5, <1>6 DEF Next

\* A restart is asked for only on a checkout of the new version with its database migrated:
\* no step after the migration, and no command that outlived an earlier apply, undoes either.
THEOREM RestartIsMigrated == Spec => []RestartsMigrated
  <1>1. IInv => RestartsMigrated
    BY DEF IInv, RestartsMigrated, Checked
  <1> QED BY <1>1, InitIInv, NextIInv, PTL DEF Spec

\* An apply that is over has brought the edits back that its stash took, or shows a conflict,
\* unless it was cut or timed out or the user edited meanwhile.
THEOREM StashIsReturned == Spec => []StashReturned
  <1>1. IInv => StashReturned
    BY DEF IInv, TypeOK, Kept, StashReturned, Stashed
  <1> QED BY <1>1, InitIInv, NextIInv, PTL DEF Spec

\* No optimization the drain of an unforced apply waited for is cut short by the restart or
\* the reload which that apply brings about.
THEOREM DrainedAreSafe == Spec => []DrainedSurvive
  <1>1. IInv => DrainedSurvive
    BY DEF IInv, Held, DrainedSurvive
  <1> QED BY <1>1, InitIInv, NextIInv, PTL DEF Spec
=============================================================================
