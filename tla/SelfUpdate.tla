----------------------------- MODULE SelfUpdate -----------------------------
(***************************************************************************)
(* The program updates itself: apply_update closes the gate to new         *)
(* optimizations, waits for the tracked ones, sets the user's edits under  *)
(* prompts/ aside in a git stash, checks the new tag out, migrates the     *)
(* database, brings the edits back, leaves a marker and asks init.sh for   *)
(* a restart; the next start reads the marker and says how it went.        *)
(*                                                                         *)
(* init.sh runs the backend under `uvicorn --reload --reload-dir app`, so  *)
(* the checkout itself makes uvicorn replace the worker: it waits ten      *)
(* seconds for the request that is applying the update, then cancels it.   *)
(* A command that outlives its timeout goes on by itself, and a git        *)
(* command that goes on holds index.lock against the ones after it.        *)
(*                                                                         *)
(* Sources: services/update_service.py, routers/update.py, init.sh,        *)
(* services/pipeline.py, routers/optimize.py, routers/strategies.py.       *)
(***************************************************************************)
EXTENDS Integers, FiniteSets

CONSTANTS Opts,        \* optimizations asked for over the web
          Reload,      \* the worker runs under uvicorn --reload, as init.sh starts it
          MaxApplies,  \* bound: calls of apply_update
          MaxEdits,    \* bound: edits of a file under prompts/
          MaxFaults    \* bound: commands that time out, crashes

ASSUME SelfUpdateAssumption ==
  /\ IsFiniteSet(Opts) /\ Reload \in BOOLEAN
  /\ MaxApplies \in Nat /\ MaxEdits \in Nat /\ MaxFaults \in Nat

VARIABLES
  worker,    \* "serving", "stopping" for a reload, "restarting", "down"
  stale,     \* files under app/ changed since the worker started
  checking,  \* the start's check_for_updates has not read the marker
  opt,       \* each optimization: its request and its pipeline
  tracked,   \* UpdateInflightTracker._running
  gate,      \* UpdateInflightTracker._update_in_progress
  pc,        \* the step of apply_update; the service's lock is held unless "idle"
  force,     \* its argument
  will,      \* preflight.will_auto_stash
  made,      \* stash_created
  back,      \* old_head
  head,      \* the version checked out
  tree,      \* prompts/: "clean", "dirty" or "unmerged"
  stashes,   \* how many auto-stashes git keeps
  schema,    \* the version the database is migrated to
  late,      \* the command that outlived its caller, or "none"
  marker,    \* the marker file exists
  timer,     \* _deferred_restart sleeps
  told,      \* the last update_complete since the last marker
  owed,      \* history: tracked when the gate closed, by an apply that is not forced
  lost,      \* history: those of them that a restart or a reload cut short
  left,      \* history: stashes when the apply began
  excused,   \* history: the apply was cut or timed out, or an edit was made during it
  used       \* how much of each bound is used

process == <<worker, stale, checking>>
flights == <<opt, tracked>>
apply == <<pc, force, will, made, back>>
disk == <<head, tree, stashes, schema, late, marker>>
history == <<owed, lost, left, excused>>
vars == <<process, flights, gate, apply, disk, timer, told, history, used>>

Alive == worker \in {"serving", "stopping"}
Locked == late \in {"stash", "checkout", "rollback", "pop"}
Running == {o \in Opts : opt[o] \in {"admitted", "announced", "streaming"}}

Use(bound, max) == used[bound] < max /\ used' = [used EXCEPT ![bound] = @ + 1]

\* A fault leaves a command running; there is one such command at a time.
TimesOut(command) == Use("faults", MaxFaults) /\ late = "none" /\ late' = command

-----------------------------------------------------------------------------
(* Optimizations. The gate is asked when the request comes in, and the     *)
(* trace is tracked when the pipeline starts, after the context has been   *)
(* gathered.                                                               *)

Admit(o) ==
  /\ worker = "serving" /\ ~gate /\ opt[o] = "new"
  /\ opt' = [opt EXCEPT ![o] = "admitted"]
  /\ UNCHANGED <<process, tracked, gate, apply, disk, timer, told, history, used>>

Begin(o) ==
  /\ opt[o] = "admitted"
  /\ opt' = [opt EXCEPT ![o] = "announced"]
  /\ tracked' = tracked \cup {o}
  /\ UNCHANGED <<process, gate, apply, disk, timer, told, history, used>>

Stream(o) ==
  /\ opt[o] = "announced"
  /\ opt' = [opt EXCEPT ![o] = "streaming"]
  /\ UNCHANGED <<process, tracked, gate, apply, disk, timer, told, history, used>>

\* The client goes away at the first event, which is sent before the try: nobody ends it.
LeaveEarly(o) ==
  /\ opt[o] = "announced"
  /\ opt' = [opt EXCEPT ![o] = "over"]
  /\ UNCHANGED <<process, tracked, gate, apply, disk, timer, told, history, used>>

\* The pipeline ends, fails, or is left by its client.
End(o) ==
  /\ opt[o] = "streaming"
  /\ opt' = [opt EXCEPT ![o] = "over"]
  /\ tracked' = tracked \ {o}
  /\ UNCHANGED <<process, gate, apply, disk, timer, told, history, used>>

-----------------------------------------------------------------------------
(* The user, at the editor, the strategies API or the shell.               *)

Edit ==
  /\ Use("edits", MaxEdits) /\ tree = "clean"
  /\ tree' = "dirty"
  /\ excused' = (excused \/ pc # "idle")
  /\ UNCHANGED <<process, flights, gate, apply, head, stashes, schema, late, marker, timer, told,
                 owed, lost, left>>

\* Edits are committed or dropped; a conflict is settled, and its stash with it.
Settle ==
  /\ tree # "clean" /\ ~Locked
  /\ \/ tree = "dirty" /\ tree' = "clean" /\ stashes' = stashes
     \/ tree = "unmerged" /\ pc = "idle" /\ tree' = "dirty" /\ stashes' = stashes - 1
  /\ UNCHANGED <<process, flights, gate, apply, head, schema, late, marker, timer, told, history, used>>

-----------------------------------------------------------------------------
(* apply_update, one action per outcome of a step.                         *)

Ends == pc' = "idle" /\ gate' = FALSE

Fails == Ends /\ owed' = {} /\ UNCHANGED <<process, flights, force, will, made, back, timer, told, lost, left>>

Goes(step) ==
  /\ pc' = step
  /\ UNCHANGED <<process, flights, gate, force, will, back, timer, told, history, used>>

\* A minute passes between two calls, and the restart comes after one second.
Apply(f) ==
  /\ worker = "serving" /\ pc = "idle" /\ ~timer
  /\ Use("applies", MaxApplies)
  /\ pc' = "probe" /\ force' = f
  /\ left' = stashes /\ excused' = FALSE
  /\ UNCHANGED <<process, flights, gate, will, made, back, disk, timer, told, owed, lost>>

Probe ==
  /\ pc = "probe"
  /\ pc' = "begin" /\ will' = (tree # "clean")
  /\ UNCHANGED <<process, flights, gate, force, made, back, disk, timer, told, history, used>>

\* A tag that is not valid, or edits outside prompts/ and no force.
Refused == pc = "begin" /\ Fails /\ UNCHANGED <<disk, excused, used>>

BeginUpdate ==
  /\ pc = "begin"
  /\ pc' = "drain" /\ gate' = TRUE
  /\ owed' = IF force THEN {} ELSE tracked
  /\ UNCHANGED <<process, flights, force, will, made, back, disk, timer, told, lost, left, excused, used>>

Drained == pc = "drain" /\ tracked = {} /\ Goes("fetch") /\ UNCHANGED <<made, disk>>

\* Mutant: the answer of drain is not looked at.
DrainAnyway == pc = "drain" /\ tracked # {} /\ Goes("fetch") /\ UNCHANGED <<made, disk>>
DrainTimesOut ==
  /\ pc = "drain" /\ tracked # {}
  /\ \/ force /\ Goes("fetch") /\ UNCHANGED <<made, disk>>
     \/ ~force /\ Fails /\ UNCHANGED <<disk, excused, used>>

Fetched ==
  /\ pc = "fetch"
  /\ pc' = (IF will THEN "stash" ELSE "checkout")
  /\ made' = FALSE /\ back' = head
  /\ UNCHANGED <<process, flights, gate, force, will, disk, timer, told, history, used>>

NotFetched == pc = "fetch" /\ Fails /\ UNCHANGED <<disk, excused, used>>

Stash ==
  /\ pc = "stash" /\ tree = "dirty" /\ ~Locked
  /\ Goes("checkout") /\ made' = TRUE
  /\ tree' = "clean" /\ stashes' = stashes + 1
  /\ UNCHANGED <<head, schema, late, marker>>

\* Nothing to stash, or git refuses: both are no reason to stop.
NotStashed ==
  /\ pc = "stash" /\ (tree # "dirty" \/ Locked)
  /\ Goes("checkout") /\ made' = FALSE
  /\ UNCHANGED disk

GivesUp(step, command) ==
  /\ pc = step
  /\ TimesOut(command)
  /\ Fails /\ excused' = TRUE
  /\ UNCHANGED <<head, tree, stashes, schema, marker>>

\* git refuses while a conflict is open and may refuse over any file in the way.
Checkout ==
  /\ pc = "checkout" /\ tree # "unmerged" /\ ~Locked
  /\ pc' = "migrate" /\ head' = "new"
  /\ stale' = (stale \/ (Reload /\ head # "new"))
  /\ UNCHANGED <<worker, checking, flights, gate, force, will, made, back, tree, stashes, schema, late,
                 marker, timer, told, history, used>>

\* Mutant: the edits stay in the stash when the checkout is refused.
CheckoutGivenUp == pc = "checkout" /\ Fails /\ UNCHANGED <<disk, excused, used>>
CheckoutRefused ==
  /\ pc = "checkout"
  /\ \/ made /\ Goes("unstash") /\ UNCHANGED <<made, disk>>
     \/ ~made /\ Fails /\ UNCHANGED <<disk, excused, used>>

Migrate ==
  /\ pc = "migrate"
  /\ Goes(IF made THEN "pop" ELSE "mark") /\ schema' = "new"
  /\ UNCHANGED <<made, head, tree, stashes, late, marker>>

\* Mutant: a migration that fails is a warning, as a failed install of dependencies is.
MigrationWarns == pc = "migrate" /\ Goes(IF made THEN "pop" ELSE "mark") /\ UNCHANGED <<made, disk>>
MigrationFails == pc = "migrate" /\ Goes("rollback") /\ UNCHANGED <<made, disk>>

MigrationTimesOut ==
  /\ pc = "migrate" /\ pc' = "rollback"
  /\ TimesOut("migrate") /\ excused' = TRUE
  /\ UNCHANGED <<process, flights, gate, force, will, made, back, head, tree, stashes, schema, marker,
                 timer, told, owed, lost, left>>

\* Whether git obeyed is not looked at.
Rollback ==
  /\ pc = "rollback"
  /\ \/ tree # "unmerged" /\ ~Locked /\ head' = back
     \/ head' = head
  /\ stale' = (stale \/ (Reload /\ head' # head))
  /\ IF made THEN pc' = "unstash" /\ UNCHANGED <<gate, owed>> ELSE Ends /\ owed' = {}
  /\ UNCHANGED <<worker, checking, flights, force, will, made, back, tree, stashes, schema, late, marker,
                 timer, told, lost, left, excused, used>>

\* On a clean tree the stash applies or meets the changes of the other version; on a
\* dirty one git may refuse, and a refusal with no conflict in it passes for success.
Popped ==
  \/ /\ tree # "unmerged" /\ ~Locked
     /\ \/ tree' = "dirty" /\ stashes' = stashes - 1
        \/ head # back /\ tree' = "unmerged" /\ stashes' = stashes
  \/ (tree # "clean" \/ Locked) /\ UNCHANGED <<tree, stashes>>

Pop == pc = "pop" /\ Popped /\ Goes("mark") /\ UNCHANGED <<made, head, schema, late, marker>>

Unstash == pc = "unstash" /\ Popped /\ Fails /\ UNCHANGED <<head, schema, late, marker, excused, used>>

\* Mutant: the restart is asked for and no marker is left.
MarkNothing ==
  /\ pc = "mark"
  /\ Ends /\ timer' = TRUE /\ told' = "none"
  /\ UNCHANGED <<process, flights, force, will, made, back, disk, history, used>>
Mark ==
  /\ pc = "mark"
  /\ marker' = TRUE /\ told' = "none" /\ timer' = TRUE
  /\ Ends
  /\ UNCHANGED <<process, flights, force, will, made, back, head, tree, stashes, schema, late, history, used>>

GiveUp ==
  \/ GivesUp("stash", "stash") \/ GivesUp("checkout", "checkout")
  \/ GivesUp("rollback", IF back = "old" THEN "rollback" ELSE "none")
  \/ GivesUp("pop", "pop") \/ GivesUp("unstash", "pop")

\* The command nobody waits for takes effect, or fails.
LateEnds ==
  /\ late # "none" /\ late' = "none"
  /\ \/ UNCHANGED <<stale, head, tree, stashes, schema>>
     \/ late = "migrate" /\ schema' = "new" /\ UNCHANGED <<stale, head, tree, stashes>>
     \/ late = "stash" /\ tree = "dirty" /\ tree' = "clean" /\ stashes' = stashes + 1
        /\ UNCHANGED <<stale, head, schema>>
     \/ late = "pop" /\ stashes > 0 /\ tree = "clean" /\ tree' = "dirty" /\ stashes' = stashes - 1
        /\ UNCHANGED <<stale, head, schema>>
     \/ /\ late \in {"checkout", "rollback"} /\ tree # "unmerged"
        /\ head' = (IF late = "checkout" THEN "new" ELSE "old")
        /\ stale' = (stale \/ (Reload /\ Alive /\ head' # head))
        /\ UNCHANGED <<tree, stashes, schema>>
  /\ excused' = TRUE
  /\ UNCHANGED <<worker, checking, flights, gate, apply, marker, timer, told, owed, lost, left, used>>

-----------------------------------------------------------------------------
(* The worker ends and starts.                                             *)

\* What the step was waiting for may go on without it.
Abandoned ==
  {late} \cup (CASE late # "none" -> {}
                 [] pc \in {"stash", "checkout", "migrate", "pop"} -> {pc}
                 [] pc = "unstash" -> {"pop"}
                 [] pc = "rollback" /\ back = "old" -> {"rollback"}
                 [] OTHER -> {})

Dies(next) ==
  /\ worker' = next
  /\ stale' = FALSE /\ checking' = FALSE
  /\ opt' = [o \in Opts |-> IF o \in Running THEN "killed" ELSE opt[o]]
  /\ tracked' = {} /\ timer' = FALSE /\ owed' = {}
  /\ Ends /\ late' \in Abandoned
  /\ excused' = (excused \/ pc # "idle")
  /\ UNCHANGED <<force, will, made, back, head, tree, stashes, schema, marker, told, left>>

CutShort == lost' = lost \cup IF pc = "drain" THEN {} ELSE owed \cap Running

Restart == timer /\ Alive /\ Dies("restarting") /\ CutShort /\ UNCHANGED used

ReloadBegins ==
  /\ stale /\ worker = "serving"
  /\ worker' = "stopping" /\ stale' = FALSE
  /\ UNCHANGED <<checking, flights, gate, apply, disk, timer, told, history, used>>

\* The requests are done, or the ten seconds are over and what still runs is cancelled:
\* a cancelled apply_update runs its finally and nothing else.
ReloadEnds == worker = "stopping" /\ Dies("restarting") /\ CutShort /\ UNCHANGED used

Crash == Alive /\ Use("faults", MaxFaults) /\ Dies("down") /\ UNCHANGED lost

Boot ==
  /\ worker \in {"restarting", "down"}
  /\ worker' = "serving" /\ checking' = TRUE
  /\ UNCHANGED <<stale, flights, gate, apply, disk, timer, told, history, used>>

Resume ==
  /\ checking /\ Alive
  /\ checking' = FALSE /\ marker' = FALSE
  /\ told' = CASE ~marker -> told
               [] marker /\ head = "new" /\ schema = "new" -> "success"
               [] OTHER -> "failure"
  /\ UNCHANGED <<worker, stale, flights, gate, apply, head, tree, stashes, schema, late, timer, history, used>>

-----------------------------------------------------------------------------
Init ==
  /\ worker = "serving" /\ stale = FALSE /\ checking = FALSE
  /\ opt = [o \in Opts |-> "new"] /\ tracked = {}
  /\ gate = FALSE /\ pc = "idle" /\ force = FALSE /\ will = FALSE /\ made = FALSE /\ back = "old"
  /\ head = "old" /\ schema = "old" /\ tree = "clean" /\ stashes = 0
  /\ late = "none" /\ marker = FALSE /\ timer = FALSE /\ told = "none"
  /\ owed = {} /\ lost = {} /\ left = 0 /\ excused = FALSE
  /\ used = [applies |-> 0, edits |-> 0, faults |-> 0]

ApplyStep ==
  \/ Probe \/ Refused \/ BeginUpdate \/ Drained \/ DrainTimesOut \/ Fetched \/ NotFetched
  \/ Stash \/ NotStashed \/ Checkout \/ CheckoutRefused
  \/ Migrate \/ MigrationFails \/ MigrationTimesOut \/ Rollback
  \/ Pop \/ Unstash \/ GiveUp \/ Mark

Next ==
  \/ \E o \in Opts : Admit(o) \/ Begin(o) \/ Stream(o) \/ LeaveEarly(o) \/ End(o)
  \/ \E f \in BOOLEAN : Apply(f)
  \/ Edit \/ Settle \/ ApplyStep \/ LateEnds
  \/ Restart \/ ReloadBegins \/ ReloadEnds \/ Crash \/ Boot \/ Resume

\* Every wait of apply_update has a timeout; the timer, uvicorn and init.sh do their
\* part; a worker that crashed is started again by nobody.
Fairness ==
  /\ WF_vars(ApplyStep) /\ WF_vars(Restart)
  /\ WF_vars(ReloadEnds)
  /\ WF_vars(worker = "restarting" /\ Boot) /\ WF_vars(Resume)

Spec == Init /\ [][Next]_vars /\ Fairness

-----------------------------------------------------------------------------
(* Properties.                                                             *)

\* Every variable keeps its type; the gate is closed only while an apply is past its
\* preflight, and only a living worker tracks, applies or waits to restart.
TypeOK ==
  /\ worker \in {"serving", "stopping", "restarting", "down"}
  /\ stale \in BOOLEAN /\ checking \in BOOLEAN /\ timer \in BOOLEAN /\ marker \in BOOLEAN
  /\ opt \in [Opts -> {"new", "admitted", "announced", "streaming", "over", "killed"}]
  /\ tracked \subseteq Opts /\ owed \subseteq Opts /\ lost \subseteq Opts
  /\ pc \in {"idle", "probe", "begin", "drain", "fetch", "stash", "checkout", "migrate", "rollback",
             "unstash", "pop", "mark"}
  /\ {head, schema, back} \subseteq {"old", "new"} /\ tree \in {"clean", "dirty", "unmerged"}
  /\ stashes \in 0..MaxEdits /\ left \in 0..MaxEdits
  /\ late \in {"none", "stash", "checkout", "rollback", "migrate", "pop"}
  /\ told \in {"none", "success", "failure"}
  /\ {force, will, made, excused} \subseteq BOOLEAN
  /\ gate <=> pc \notin {"idle", "probe", "begin"}
  /\ ~Alive => tracked = {} /\ pc = "idle" /\ ~timer

\* A restart is asked for only with the new version checked out and the database migrated
\* to it (update_service.py:812-834: a migration that fails rolls the checkout back),
\* whatever earlier applies left half done. Every variable has its type.
RestartsMigrated == TypeOK /\ (timer => head = "new" /\ schema = "new")

\* An apply that is over has brought the user's edits back, or shows a conflict, unless it
\* was cut or timed out or the user edited while it ran (update_service.py:794-796, 830-831, 836).
StashReturned == pc = "idle" /\ stashes > left => excused \/ tree = "unmerged"

\* An optimization the tracker held when the gate closed is never cut short by the restart or
\* the reload that an unforced apply brings about (update_service.py:44-47).
DrainedSurvive == lost = {}

\* An apply ends and opens the gate, even when a client that left early is tracked for
\* ever (update_service.py:93-110, 881-882). After the restart it asks for somebody reads
\* the marker and says how it went, unless the worker crashed and nobody started it
\* (390-425).
ApplyEnds ==
  /\ pc # "idle" ~> pc = "idle" /\ ~gate
  /\ timer ~> told # "none" \/ worker = "down"

=============================================================================
