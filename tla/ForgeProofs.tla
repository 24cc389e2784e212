---------------------------- MODULE ForgeProofs -----------------------------
(***************************************************************************)
(* What the tab shows as complete is stored, nobody is told of an error    *)
(* for a result that is there, and what the tab shows of its own request   *)
(* survives a reload.                                                      *)
(*                                                                         *)
(* A completed row stays completed until somebody deletes it (Stored only  *)
(* grows), so it is enough that each of the ways by which the tab hears of *)
(* a result was taken when the row was there. An optimization whose caller *)
(* was told of an error has no write left.                                 *)
(***************************************************************************)
EXTENDS Forge, SequenceTheorems, TLAPS

Told   == {"start", "status", "error", "complete", "passthrough", "end", "refused"}
Writes == {"pending", "completed", "failed", "save", "sampled"}

Events == {"start", "status", "created"}
Where  == {"idle", "posted", "run", "late", "prepare", "persist", "stored", "record",
           "sample", "sampling", "sampled", "answered", "offered", "over", "cut"}

ServerTyped ==
  /\ row \in [Jobs -> {"none", "pending", "completed", "failed", "gone"}] /\ pc \in [Jobs -> Where]
  /\ parked \subseteq Jobs \X Writes /\ <<Mcp, "save">> \notin parked /\ troubled \subseteq Jobs /\ errored \subseteq Jobs
  /\ deleted \subseteq Jobs

Channels == pipe \in Seq(Told) /\ bus \in Seq(Events \X Jobs)

PageTyped ==
  /\ status \in AtWork \cup {"idle", "complete", "error", "passthrough"}
  /\ trace \in Jobs \cup {None} /\ shown \in Jobs \cup {None} /\ last \in Jobs \cup {None}
  /\ pt \in Own \cup {None} /\ kept \in Own \cup {None} /\ stream \in Own \cup {None}
  /\ rec \in [step : {"off", "asleep", "asked"}, left : 0..MaxPolls, found : Jobs \cup {None}]
  /\ rec.step # "off" => rec.left > 0
  /\ gets \subseteq Jobs \X {"auto", "opened"}
  /\ saving = None \/ saving \in Own \X {"asked", "saved", "refused"}
  /\ restoring = None \/ restoring \in Jobs \X {"result"} \/ restoring \in Own \X {"passthrough"}

Counted == current \in Own \cup {None} /\ made \in 0..MaxMade /\ spent \in 0..Budget

\* No write of j is parked but of these kinds.
Holds(j, S) == \A w \in Writes : <<j, w>> \in parked => w \in S

\* What is stored and parked of an optimization, by the step it is at.
JobInv(j) ==
  /\ pc[j] \in {"idle", "posted", "run", "late", "sample", "sampling", "answered"} => row[j] = "none" /\ Holds(j, {})
  /\ pc[j] = "prepare" => row[j] = "none" /\ Holds(j, {"pending"})
  /\ pc[j] = "persist" => row[j] = "none" /\ Holds(j, {"completed"})
  /\ pc[j] = "stored"  => row[j] \in {"completed", "gone"} /\ j \in Stored /\ Holds(j, {})
  /\ pc[j] = "record"  => /\ row[j] \in {"none", "completed", "gone"} /\ Holds(j, {"failed"})
                          /\ row[j] = "completed" => j \in troubled
                          /\ row[j] = "gone" => j \in deleted
  /\ pc[j] = "sampled" => row[j] = "none" /\ Holds(j, {"sampled"})
  /\ pc[j] = "offered" => row[j] # "pending" /\ Holds(j, {})
  /\ pc[j] = "cut"  => Holds(j, {"completed", "failed"})
  /\ pc[j] = "over" => Holds(j, {"save"})
  /\ j \in errored  => /\ pc[j] = "over" /\ row[j] # "pending" /\ Holds(j, {})
                       /\ row[j] = "completed" => j \in troubled
                       /\ row[j] = "gone" => j \in deleted

Fresh == \A j \in Own : j > made => pc[j] = "idle"

\* One that was answered by a prompt for another model: its pipeline is over
\* and no error was told of it.
Offered(j) == pc[j] = "over" /\ j \notin errored

\* The stream ends with its last message, which follows all that was told of it.
Piped ==
  /\ stream = None => pipe = <<>>
  /\ \A i \in DOMAIN pipe :
       /\ pipe[i] \in {"end", "refused"} => i = Len(pipe) /\ pc[stream] = "over"
       /\ pipe[i] = "complete" => stream \in Stored
       /\ pipe[i] = "passthrough" => Offered(stream)

\* The ways by which a result reaches the tab.
Shown ==
  /\ status = "complete" => shown # None
  /\ shown # None => shown \in Stored
  /\ last # None => last \in Stored
  /\ rec.found # None => rec.found \in Stored
  /\ saving # None => (saving[2] = "saved" => saving[1] \in Stored)
  /\ restoring # None => (restoring[2] = "result" => restoring[1] \in Stored)
  /\ \A g \in gets : g[2] = "opened" => g[1] \in Stored

\* The ways by which a passthrough reaches the tab.
Offers ==
  /\ status = "passthrough" => pt # None
  /\ pt # None => Offered(pt)
  /\ kept # None => Offered(kept)
  /\ restoring # None =>
       (restoring[2] = "passthrough" => Offered(restoring[1]) /\ restoring[1] # current)

IInv ==
  /\ ServerTyped /\ Channels /\ PageTyped /\ Counted
  /\ (\A j \in Jobs : JobInv(j)) /\ Fresh
  /\ Piped /\ Shown /\ Offers /\ Recoverable

-----------------------------------------------------------------------------
(* Sequences, and what a step of an optimization leaves alone.             *)

LEMMA TailIs ==
    ASSUME NEW S, NEW s \in Seq(S), s # <<>>
    PROVE  /\ Tail(s) \in Seq(S) /\ Len(s) \in Nat /\ Len(s) > 0 /\ Len(Tail(s)) = Len(s) - 1
           /\ DOMAIN s = 1 .. Len(s) /\ DOMAIN Tail(s) = 1 .. Len(s) - 1
           /\ Head(s) = s[1] /\ Head(s) \in S
           /\ \A i \in 1 .. Len(s) - 1 : Tail(s)[i] = s[i + 1]
  <1>1. Len(s) \in Nat /\ Len(s) > 0 /\ DOMAIN s = 1 .. Len(s)
    BY LenProperties, EmptySeq
  <1>2. Head(s) \in S /\ Tail(s) \in Seq(S) /\ Len(Tail(s)) = Len(s) - 1
        /\ \A i \in 1 .. Len(Tail(s)) : Tail(s)[i] = s[i + 1]
    BY HeadTailProperties
  <1>3. DOMAIN Tail(s) = 1 .. Len(Tail(s))
    BY <1>2, LenProperties
  <1>. QED  BY <1>1, <1>2, <1>3

LEMMA ConcatIs ==
    ASSUME NEW S, NEW s \in Seq(S), NEW m \in Seq(S)
    PROVE  /\ s \o m \in Seq(S) /\ Len(s) \in Nat /\ Len(m) \in Nat /\ Len(s \o m) = Len(s) + Len(m)
           /\ DOMAIN s = 1 .. Len(s) /\ DOMAIN m = 1 .. Len(m)
           /\ DOMAIN (s \o m) = 1 .. Len(s) + Len(m)
           /\ \A i \in 1 .. Len(s) + Len(m) :
                (s \o m)[i] = IF i <= Len(s) THEN s[i] ELSE m[i - Len(s)]
  BY ConcatProperties, LenProperties

LEMMA NoneIsNoJob == None \notin Jobs /\ Mcp \in Jobs /\ Own \subseteq Jobs /\ Own \subseteq Nat
                     /\ Mcp \notin Own /\ MaxMade \in Nat /\ Budget \in Nat /\ MaxPolls \in Nat \ {0}
  BY ForgeAssumption DEF Jobs, Own

LEMMA StoredSame == ASSUME UNCHANGED <<row, deleted>> PROVE Stored' = Stored
  BY DEF Stored

\* What is said of j by a step of it.
SaysOf(j, m) ==
  \A i \in DOMAIN m :
    /\ m[i] \in {"end", "refused"} => i = Len(m) /\ pc'[j] = "over"
    /\ m[i] = "complete" => j \in Stored'
    /\ m[i] = "passthrough" => Offered(j)'

\* A completed row stays, and so does what a pipeline that is over has told.
Steady ==
  /\ Stored \subseteq Stored'
  /\ \A j \in Jobs : /\ pc[j] = "over" => pc'[j] = "over"
                     /\ Offered(j) => Offered(j)'

LEMMA PipeStays ==
    ASSUME IInv, Steady, UNCHANGED <<pipe, stream>>
    PROVE  Piped'
  <1>1. CASE stream = None
    BY <1>1 DEF IInv, Piped
  <1>2. CASE stream # None
    <2>1. stream \in Jobs
      BY <1>2, NoneIsNoJob DEF IInv, PageTyped
    <2>2. QED  BY <2>1 DEF IInv, Piped, Steady, Offered
  <1>. QED  BY <1>1, <1>2

LEMMA PipeGrows ==
    ASSUME IInv, Steady, NEW j \in Jobs, NEW m \in Seq(Told), SaysOf(j, m),
           pc[j] # "over", stream' = stream,
           pipe' = IF j = stream THEN pipe \o m ELSE pipe
    PROVE  Piped' /\ pipe' \in Seq(Told)
  <1>1. CASE j # stream
    BY <1>1, PipeStays DEF IInv, Channels
  <1>2. CASE j = stream
    <2>1. pipe \in Seq(Told) /\ j # None
      BY NoneIsNoJob DEF IInv, Channels
    <2>2. /\ pipe' = pipe \o m /\ pipe' \in Seq(Told) /\ Len(pipe) \in Nat /\ Len(m) \in Nat
          /\ Len(pipe') = Len(pipe) + Len(m)
          /\ DOMAIN pipe = 1 .. Len(pipe) /\ DOMAIN m = 1 .. Len(m)
          /\ DOMAIN pipe' = 1 .. Len(pipe) + Len(m)
          /\ \A i \in 1 .. Len(pipe) + Len(m) :
               pipe'[i] = IF i <= Len(pipe) THEN pipe[i] ELSE m[i - Len(pipe)]
      BY <1>2, <2>1, ConcatIs
    <2>3. ASSUME NEW i \in DOMAIN pipe'
          PROVE  /\ pipe'[i] \in {"end", "refused"} => i = Len(pipe') /\ pc'[j] = "over"
                 /\ pipe'[i] = "complete" => j \in Stored'
                 /\ pipe'[i] = "passthrough" => Offered(j)'
      <3>1. CASE i <= Len(pipe)
        <4>1. i \in DOMAIN pipe /\ pipe'[i] = pipe[i]
          BY <2>2, <3>1
        <4>2. /\ pipe[i] \notin {"end", "refused"}
              /\ pipe[i] = "complete" => j \in Stored
              /\ pipe[i] = "passthrough" => Offered(j)
          BY <1>2, <4>1 DEF IInv, Piped
        <4>3. QED  BY <4>1, <4>2 DEF Steady
      <3>2. CASE i > Len(pipe)
        <4> DEFINE k == i - Len(pipe)
        <4>0. i \in 1 .. Len(pipe) + Len(m) /\ ~(i <= Len(pipe))
          BY <2>2, <3>2
        <4>1. k \in DOMAIN m /\ pipe'[i] = m[k] /\ (k = Len(m) => i = Len(pipe'))
          <5>1. k \in 1 .. Len(m) /\ (k = Len(m) => i = Len(pipe) + Len(m))
            BY <2>2, <4>0
          <5>2. pipe'[i] = m[k]
            BY <2>2, <4>0
          <5>3. QED  BY <2>2, <5>1, <5>2
        <4> HIDE DEF k
        <4>2. QED  BY <4>1 DEF SaysOf
      <3>3. i \in Nat
        BY <2>2
      <3>. QED  BY <2>2, <3>1, <3>2, <3>3
    <2>4. stream' # None
      BY <1>2, <2>1
    <2>5. QED  BY <1>2, <2>2, <2>3, <2>4 DEF Piped
  <1>. QED  BY <1>1, <1>2

LEMMA PageStays ==
    ASSUME IInv, Steady, UNCHANGED <<page, rec, gets, restoring, memory, current>>,
           saving' # None => (saving'[2] = "saved" => saving'[1] \in Stored')
    PROVE  Shown' /\ Offers' /\ Recoverable'
  <1>1. UNCHANGED <<status, trace, pt, shown, rec, gets, restoring, last, kept, current>>
    BY DEF page, memory
  <1>2. /\ shown \in Jobs \cup {None} /\ last \in Jobs \cup {None} /\ rec.found \in Jobs \cup {None}
        /\ pt \in Jobs \cup {None} /\ kept \in Jobs \cup {None}
        /\ restoring # None => restoring[1] \in Jobs
    BY NoneIsNoJob DEF IInv, PageTyped
  <1>3. Shown'
    BY <1>1, <1>2 DEF IInv, Shown, Steady
  <1>4. Offers'
    <2>1. status' = "passthrough" => pt' # None
      BY <1>1 DEF IInv, Offers
    <2>2. (pt # None => Offered(pt))' /\ (kept # None => Offered(kept))'
      BY <1>1, <1>2 DEF IInv, Offers, Steady, Offered
    <2>3. (restoring # None =>
            (restoring[2] = "passthrough" => Offered(restoring[1]) /\ restoring[1] # current))'
      BY <1>1, <1>2 DEF IInv, Offers, Steady, Offered
    <2>. QED  BY <2>1, <2>2, <2>3 DEF Offers
  <1>5. Recoverable'
    BY <1>1 DEF IInv, Recoverable
  <1>. QED  BY <1>3, <1>4, <1>5

-----------------------------------------------------------------------------
(* The server's steps, each of one optimization.                           *)

Local(j) ==
  \A i \in Jobs \ {j} :
    /\ row'[i] = row[i] /\ pc'[i] = pc[i]
    /\ \A w \in Writes : <<i, w>> \in parked' => <<i, w>> \in parked
    /\ (i \in troubled => i \in troubled') /\ (i \in deleted => i \in deleted')
    /\ i \in errored' <=> i \in errored

Advances(j) ==
  /\ j \in Stored => j \in Stored'
  /\ pc[j] = "over" => pc'[j] = "over" /\ (j \in errored' => j \in errored)
  /\ pc[j] = "idle" => pc'[j] = "idle" \/ j = Mcp

LEMMA OthersKeep ==
    ASSUME IInv, NEW j \in Jobs, Local(j), JobInv(j)'
    PROVE  \A i \in Jobs : JobInv(i)'
  <1>1. ASSUME NEW i \in Jobs \ {j}
        PROVE  JobInv(i)'
    <2>1. JobInv(i)
      BY DEF IInv
    <2>2. /\ row'[i] = row[i] /\ pc'[i] = pc[i]
          /\ \A w \in Writes : <<i, w>> \in parked' => <<i, w>> \in parked
          /\ (i \in troubled => i \in troubled') /\ (i \in deleted => i \in deleted')
          /\ i \in errored' <=> i \in errored
      BY DEF Local
    <2>3. \A S : Holds(i, S) => \A w \in Writes : <<i, w>> \in parked' => w \in S
      BY <2>2 DEF Holds
    <2>4. QED  BY <2>1, <2>2, <2>3 DEF JobInv, Holds, Stored
  <1>. QED  BY <1>1

LEMMA SteadyIs ==
    ASSUME IInv, NEW j \in Jobs, Local(j), Advances(j)
    PROVE  Steady
  <1>1. Stored \subseteq Stored'
    BY DEF IInv, ServerTyped, Local, Advances, Stored
  <1>2. QED  BY <1>1 DEF Steady, Local, Advances, Offered

LEMMA FreshIs ==
    ASSUME IInv, NEW j \in Jobs, Local(j), Advances(j), made' = made
    PROVE  Fresh'
  BY NoneIsNoJob DEF IInv, Fresh, Local, Advances

LEMMA ServerKeeps ==
    ASSUME IInv, NEW j \in Jobs, Local(j), Advances(j), JobInv(j)',
           ServerTyped', Channels', Piped', spent' \in 0..Budget,
           UNCHANGED <<stream, page, aside, memory, current, made>>
    PROVE  IInv'
  <1>1. UNCHANGED <<status, trace, pt, shown, rec, gets, saving, restoring, last, kept, current, made, stream>>
    BY DEF page, aside, memory
  <1>2. Steady /\ Fresh'
    BY <1>1, SteadyIs, FreshIs
  <1>3. saving' # None => (saving'[2] = "saved" => saving'[1] \in Stored')
    <2>1. saving # None => saving[1] \in Jobs
      BY NoneIsNoJob DEF IInv, PageTyped
    <2>2. QED  BY <1>1, <1>2, <2>1 DEF IInv, Shown, Steady
  <1>4. Shown' /\ Offers' /\ Recoverable'
    BY <1>1, <1>2, <1>3, PageStays
  <1>5. PageTyped' /\ Counted'
    BY <1>1 DEF IInv, PageTyped, Counted
  <1>6. \A i \in Jobs : JobInv(i)'
    BY OthersKeep
  <1>. QED  BY <1>2, <1>4, <1>5, <1>6 DEF IInv

LEMMA Spends == ASSUME IInv PROVE spent \in 0..Budget /\ (Spend => spent' \in 0..Budget)
  BY NoneIsNoJob DEF IInv, Counted, Spend

LEMMA BusGrows ==
    ASSUME IInv, NEW e \in Events, NEW j \in Jobs
    PROVE  Append(bus, <<e, j>>) \in Seq(Events \X Jobs) /\ bus \in Seq(Events \X Jobs)
  <1>1. bus \in Seq(Events \X Jobs) /\ <<e, j>> \in Events \X Jobs
    BY DEF IInv, Channels
  <1>. QED  BY <1>1, AppendProperties

LEMMA SaidIs ==
    ASSUME IInv, Steady, NEW j \in Jobs, NEW m \in Seq(Told), SaysOf(j, m),
           pc[j] # "over", stream' = stream, Say(j, m)
    PROVE  Piped' /\ Channels'
  <1>1. Piped' /\ pipe' \in Seq(Told)
    BY PipeGrows DEF Say
  <1>2. bus' \in Seq(Events \X Jobs)
    <2>1. bus' = bus \/ \E e \in Events : bus' = Append(bus, <<e, j>>)
      BY DEF Say, Events
    <2>2. "start" \in Events
      BY DEF Events
    <2>3. QED  BY <2>1, <2>2, BusGrows
  <1>. QED  BY <1>1, <1>2 DEF Channels

LEMMA SilentIs ==
    ASSUME IInv, Steady, UNCHANGED <<pipe, bus, stream>>
    PROVE  Piped' /\ Channels'
  BY PipeStays DEF IInv, Channels

LEMMA OneWord ==
    ASSUME NEW w \in Told
    PROVE  <<w>> \in Seq(Told) /\ DOMAIN <<w>> = {1} /\ <<w>>[1] = w
  OBVIOUS

LEMMA LastWords ==
    ASSUME NEW w \in Told, NEW v \in Told
    PROVE  /\ <<w, v>> \in Seq(Told) /\ DOMAIN <<w, v>> = {1, 2} /\ Len(<<w, v>>) = 2
           /\ <<w, v>>[1] = w /\ <<w, v>>[2] = v
  OBVIOUS

LEMMA AdmitKeeps == ASSUME IInv, NEW j \in Jobs, Admit(j) PROVE IInv'
  <1>1. /\ pc[j] = "posted" /\ row[j] = "none" /\ Holds(j, {}) /\ j \notin errored
        /\ UNCHANGED <<row, troubled, errored, stream, page, aside, memory, current, made, deleted, spent>>
    BY DEF ghost, Admit, At, IInv, JobInv
  <1>2. CASE At(j, "posted", "run") /\ Say(j, <<"start">>) /\ UNCHANGED parked
    <2>1. pc' = [pc EXCEPT ![j] = "run"]
      BY <1>2 DEF At
    <2>2. Local(j) /\ Advances(j) /\ ServerTyped' /\ pc'[j] = "run"
      BY <1>1, <1>2, <2>1 DEF IInv, ServerTyped, Where, Local, Advances, Stored
    <2>3. JobInv(j)'
      BY <1>1, <1>2, <2>2 DEF JobInv, Holds
    <2>4. <<"start">> \in Seq(Told) /\ SaysOf(j, <<"start">>)
      BY OneWord DEF Told, SaysOf
    <2>5. Piped' /\ Channels'
      BY <1>1, <1>2, <2>2, <2>4, SteadyIs, SaidIs
    <2>6. QED  BY <1>1, <2>2, <2>3, <2>5, ServerKeeps, Spends
  <1>3. CASE At(j, "posted", "prepare") /\ Park(j, "pending") /\ UNCHANGED <<pipe, bus>>
    <2>1. pc' = [pc EXCEPT ![j] = "prepare"] /\ parked' = parked \cup {<<j, "pending">>}
      BY <1>3 DEF At, Park
    <2>2. Local(j) /\ Advances(j) /\ ServerTyped' /\ pc'[j] = "prepare"
      BY <1>1, <2>1 DEF IInv, ServerTyped, Where, Local, Advances, Writes, Stored
    <2>3. JobInv(j)'
      BY <1>1, <2>1, <2>2 DEF JobInv, Holds
    <2>4. Piped' /\ Channels'
      BY <1>1, <1>3, <2>2, SteadyIs, SilentIs
    <2>5. QED  BY <1>1, <2>2, <2>3, <2>4, ServerKeeps, Spends
  <1>4. CASE At(j, "posted", "over") /\ Say(j, <<"refused">>) /\ UNCHANGED parked
    <2>1. pc' = [pc EXCEPT ![j] = "over"]
      BY <1>4 DEF At
    <2>2. Local(j) /\ Advances(j) /\ ServerTyped' /\ pc'[j] = "over"
      BY <1>1, <1>4, <2>1 DEF IInv, ServerTyped, Where, Local, Advances, Stored
    <2>3. JobInv(j)'
      BY <1>1, <1>4, <2>2 DEF JobInv, Holds
    <2>4. <<"refused">> \in Seq(Told) /\ SaysOf(j, <<"refused">>)
      BY <2>2, OneWord DEF Told, SaysOf
    <2>5. Piped' /\ Channels'
      BY <1>1, <1>4, <2>2, <2>4, SteadyIs, SaidIs
    <2>6. QED  BY <1>1, <2>2, <2>3, <2>5, ServerKeeps, Spends
  <1>. QED  BY <1>2, <1>3, <1>4 DEF Admit

LEMMA PhaseKeeps == ASSUME IInv, NEW j \in Jobs, Phase(j) PROVE IInv'
  <1>1. /\ pc[j] = "run" /\ row[j] = "none" /\ Holds(j, {}) /\ j \notin errored
        /\ pc' = [pc EXCEPT ![j] = "late"]
        /\ UNCHANGED <<row, parked, troubled, errored, stream, page, aside, memory, current, made, deleted, spent>>
    BY DEF ghost, Phase, At, IInv, JobInv
  <1>2. Local(j) /\ Advances(j) /\ ServerTyped' /\ pc'[j] = "late"
    BY <1>1 DEF IInv, ServerTyped, Where, Local, Advances, Stored
  <1>3. JobInv(j)'
    BY <1>1, <1>2 DEF JobInv, Holds
  <1>4. <<"status">> \in Seq(Told) /\ SaysOf(j, <<"status">>)
    BY OneWord DEF Told, SaysOf
  <1>5. Say(j, <<"status">>)
    BY DEF Phase
  <1>6. Piped' /\ Channels'
    BY <1>1, <1>2, <1>4, <1>5, SteadyIs, SaidIs
  <1>. QED  BY <1>1, <1>2, <1>3, <1>6, ServerKeeps, Spends

LEMMA FailKeeps == ASSUME IInv, NEW j \in Jobs, Fail(j) PROVE IInv'
  <1>1. /\ pc[j] \in {"run", "late"} /\ row[j] = "none" /\ Holds(j, {}) /\ j \notin errored
        /\ pc' = [pc EXCEPT ![j] = "record"] /\ parked' = parked \cup {<<j, "failed">>}
        /\ UNCHANGED <<row, troubled, errored, pipe, bus, stream, page, aside, memory, current, made, deleted, spent>>
    BY DEF ghost, Fail, At, Park, IInv, JobInv
  <1>2. Local(j) /\ Advances(j) /\ ServerTyped' /\ pc'[j] = "record"
    BY <1>1 DEF IInv, ServerTyped, Where, Local, Advances, Writes, Stored
  <1>3. JobInv(j)'
    BY <1>1, <1>2 DEF JobInv, Holds
  <1>4. Piped' /\ Channels'
    BY <1>1, <1>2, SteadyIs, SilentIs
  <1>. QED  BY <1>1, <1>2, <1>3, <1>4, ServerKeeps, Spends

LEMMA PersistKeeps == ASSUME IInv, NEW j \in Jobs, Persist(j) PROVE IInv'
  <1>1. /\ pc[j] = "late" /\ row[j] = "none" /\ Holds(j, {}) /\ j \notin errored
        /\ pc' = [pc EXCEPT ![j] = "persist"] /\ parked' = parked \cup {<<j, "completed">>}
        /\ UNCHANGED <<row, troubled, errored, pipe, bus, stream, page, aside, memory, current, made, deleted, spent>>
    BY DEF ghost, Persist, At, Park, IInv, JobInv
  <1>2. Local(j) /\ Advances(j) /\ ServerTyped' /\ pc'[j] = "persist"
    BY <1>1 DEF IInv, ServerTyped, Where, Local, Advances, Writes, Stored
  <1>3. JobInv(j)'
    BY <1>1, <1>2 DEF JobInv, Holds
  <1>4. Piped' /\ Channels'
    BY <1>1, <1>2, SteadyIs, SilentIs
  <1>. QED  BY <1>1, <1>2, <1>3, <1>4, ServerKeeps, Spends

LEMMA FinishKeeps == ASSUME IInv, NEW j \in Jobs, Finish(j) PROVE IInv'
  <1>1. /\ pc[j] = "stored" /\ row[j] \in {"completed", "gone"} /\ j \in Stored
        /\ Holds(j, {}) /\ j \notin errored
        /\ UNCHANGED <<row, errored, stream, page, aside, memory, current, made, deleted>>
    BY DEF ghost, Finish, At, IInv, JobInv
  <1>2. "created" \in Events
    BY DEF Events
  <1>3. CASE /\ At(j, "stored", "over")
             /\ pipe' = IF j = stream THEN pipe \o <<"complete", "end">> ELSE pipe
             /\ bus' = Append(bus, <<"created", j>>)
             /\ UNCHANGED <<parked, troubled, spent>>
    <2>1. pc' = [pc EXCEPT ![j] = "over"]
      BY <1>3 DEF At
    <2>2. Local(j) /\ Advances(j) /\ ServerTyped' /\ pc'[j] = "over"
      BY <1>1, <1>3, <2>1 DEF IInv, ServerTyped, Where, Local, Advances, Stored
    <2>3. JobInv(j)'
      BY <1>1, <1>3, <2>2 DEF JobInv, Holds
    <2>4. <<"complete", "end">> \in Seq(Told) /\ SaysOf(j, <<"complete", "end">>)
      BY <1>1, <2>2, LastWords DEF Told, SaysOf, Advances
    <2>5. Piped' /\ pipe' \in Seq(Told)
      BY <1>1, <1>3, <2>2, <2>4, SteadyIs, PipeGrows
    <2>6. Channels'
      BY <1>2, <1>3, <2>5, BusGrows DEF Channels
    <2>7. QED  BY <1>1, <1>3, <2>2, <2>3, <2>5, <2>6, ServerKeeps, Spends
  <1>4. CASE /\ At(j, "stored", "record") /\ Park(j, "failed") /\ Spend
             /\ troubled' = troubled \cup {j}
             /\ bus' = IF j = Mcp THEN bus ELSE Append(bus, <<"created", j>>)
             /\ UNCHANGED pipe
    <2>1. pc' = [pc EXCEPT ![j] = "record"] /\ parked' = parked \cup {<<j, "failed">>}
      BY <1>4 DEF At, Park
    <2>2. Local(j) /\ Advances(j) /\ ServerTyped' /\ pc'[j] = "record"
      BY <1>1, <1>4, <2>1 DEF IInv, ServerTyped, Where, Local, Advances, Writes, Stored
    <2>3. JobInv(j)'
      BY <1>1, <1>4, <2>1, <2>2 DEF JobInv, Holds, Stored
    <2>4. Piped'
      BY <1>1, <1>4, <2>2, SteadyIs, PipeStays
    <2>5. Channels'
      BY <1>2, <1>4, BusGrows DEF IInv, Channels
    <2>6. QED  BY <1>1, <1>4, <2>2, <2>3, <2>4, <2>5, ServerKeeps, Spends
  <1>. QED  BY <1>3, <1>4 DEF Finish

LEMMA HangupKeeps == ASSUME IInv, NEW j \in Jobs, Hangup(j) PROVE IInv'
  <1>1. /\ pc[j] \in {"run", "late", "persist", "stored", "record"}
        /\ Holds(j, {"completed", "failed"}) /\ j \notin errored
        /\ pc' = [pc EXCEPT ![j] = "cut"]
        /\ UNCHANGED <<row, parked, troubled, errored, pipe, bus, stream, page, aside, memory, current, made, deleted, spent>>
    BY DEF ghost, Hangup, IInv, JobInv, Holds
  <1>2. Local(j) /\ Advances(j) /\ ServerTyped' /\ pc'[j] = "cut"
    BY <1>1 DEF IInv, ServerTyped, Where, Local, Advances, Stored
  <1>3. JobInv(j)'
    BY <1>1, <1>2 DEF JobInv, Holds
  <1>4. Piped' /\ Channels'
    BY <1>1, <1>2, SteadyIs, SilentIs
  <1>. QED  BY <1>1, <1>2, <1>3, <1>4, ServerKeeps, Spends

LEMMA SampleKeeps == ASSUME IInv, Sample PROVE IInv'
  <1>1. /\ Mcp \in Jobs /\ pc[Mcp] \in {"posted", "sample", "sampling", "answered"}
        /\ UNCHANGED <<row, troubled, errored, pipe, stream, page, aside, memory, current, made, deleted, spent>>
    BY NoneIsNoJob DEF Sample, At, ghost
  <1>2. row[Mcp] = "none" /\ Holds(Mcp, {}) /\ Mcp \notin errored
    BY <1>1 DEF IInv, JobInv
  <1>3. CASE pc' = [pc EXCEPT ![Mcp] = "sampled"] /\ Park(Mcp, "sampled") /\ UNCHANGED bus
    <2>1. parked' = parked \cup {<<Mcp, "sampled">>}
      BY <1>3 DEF Park
    <2>2. Local(Mcp) /\ Advances(Mcp) /\ ServerTyped' /\ pc'[Mcp] = "sampled"
      BY <1>1, <1>3, <2>1, StoredSame DEF IInv, ServerTyped, Where, Local, Advances, Writes
    <2>3. JobInv(Mcp)'
      BY <1>1, <1>2, <2>1, <2>2 DEF JobInv, Holds
    <2>4. Piped' /\ Channels'
      BY <1>1, <1>3, <2>2, SteadyIs, SilentIs
    <2>5. QED  BY <1>1, <2>2, <2>3, <2>4, ServerKeeps, Spends
  <1>4. ASSUME NEW to \in {"sample", "sampling", "over"}, pc' = [pc EXCEPT ![Mcp] = to],
               UNCHANGED parked, bus' = bus \/ \E e \in Events : bus' = Append(bus, <<e, Mcp>>)
        PROVE  IInv'
    <2>1. Local(Mcp) /\ Advances(Mcp) /\ ServerTyped' /\ pc'[Mcp] = to
      BY <1>1, <1>4, StoredSame DEF IInv, ServerTyped, Where, Local, Advances
    <2>2. JobInv(Mcp)'
      BY <1>1, <1>2, <1>4, <2>1 DEF JobInv, Holds
    <2>3. Piped'
      BY <1>1, <2>1, SteadyIs, PipeStays
    <2>4. Channels'
      BY <1>1, <1>4, BusGrows DEF IInv, Channels
    <2>5. QED  BY <1>1, <2>1, <2>2, <2>3, <2>4, ServerKeeps, Spends
  <1>5. {"start", "status", "created"} = Events
    BY DEF Events
  <1>. QED  BY <1>3, <1>4, <1>5 DEF Sample, At, Announce

LEMMA OfferKeeps == ASSUME IInv, Offer PROVE IInv'
  <1>1. /\ Mcp \in Jobs /\ pc[Mcp] = "posted" /\ pc' = [pc EXCEPT ![Mcp] = "offered"]
        /\ UNCHANGED <<row, parked, troubled, errored, pipe, bus, stream, page, aside, memory,
                       current, made, deleted, spent>>
    BY NoneIsNoJob DEF Offer, At, ghost
  <1>2. row[Mcp] = "none" /\ Holds(Mcp, {}) /\ Mcp \notin errored
    BY <1>1 DEF IInv, JobInv
  <1>3. Local(Mcp) /\ Advances(Mcp) /\ ServerTyped' /\ pc'[Mcp] = "offered"
    BY <1>1, StoredSame DEF IInv, ServerTyped, Where, Local, Advances
  <1>4. JobInv(Mcp)'
    BY <1>1, <1>2, <1>3 DEF JobInv, Holds
  <1>5. Piped' /\ Channels'
    BY <1>1, <1>3, SteadyIs, SilentIs
  <1>. QED  BY <1>1, <1>3, <1>4, <1>5, ServerKeeps, Spends

-----------------------------------------------------------------------------
(* The write queue's steps.                                                *)

LEMMA WriteCompletedKeeps == ASSUME IInv, NEW j \in Jobs, WriteCompleted(j) PROVE IInv'
  <1>1. /\ <<j, "completed">> \in parked
        /\ UNCHANGED <<errored, pipe, bus, stream, page, aside, memory, current, made, deleted>>
    BY DEF ghost, WriteCompleted, Take
  <1>2. pc[j] \in {"persist", "cut"} /\ j \notin errored
    <2>1. \A S : Holds(j, S) => "completed" \in S
      BY <1>1 DEF Holds, Writes
    <2>2. "completed" \notin {} /\ "completed" \notin {"pending"} /\ "completed" \notin {"failed"}
          /\ "completed" \notin {"save"} /\ "completed" \notin {"sampled"}
      OBVIOUS
    <2>3. pc[j] \in Where
      BY DEF IInv, ServerTyped
    <2>4. QED  BY <2>1, <2>2, <2>3 DEF IInv, JobInv, Where
  <1>3. CASE /\ row' = [row EXCEPT ![j] = "completed"]
             /\ pc' = [pc EXCEPT ![j] = IF @ = "persist" THEN "stored" ELSE @]
             /\ parked' = parked \ {<<j, "completed">>}
             /\ UNCHANGED <<troubled, spent>>
    <2>1. /\ Local(j) /\ ServerTyped' /\ row'[j] = "completed"
          /\ pc'[j] = IF pc[j] = "persist" THEN "stored" ELSE pc[j]
      BY <1>1, <1>2, <1>3 DEF IInv, ServerTyped, Where, Local
    <2>2. Advances(j)
      BY <1>1, <1>2, <2>1 DEF Advances, Stored
    <2>3. JobInv(j)'
      BY <1>1, <1>2, <1>3, <2>1 DEF IInv, JobInv, Holds, Stored
    <2>4. Piped' /\ Channels'
      BY <1>1, <2>1, <2>2, SteadyIs, SilentIs
    <2>5. QED  BY <1>1, <1>3, <2>1, <2>2, <2>3, <2>4, ServerKeeps, Spends
  <1>4. CASE /\ Spend
             /\ row' \in {row, [row EXCEPT ![j] = "completed"]}
             /\ troubled' = troubled \cup {j}
             /\ pc' = [pc EXCEPT ![j] = IF @ = "persist" THEN "record" ELSE @]
             /\ parked' = (parked \ {<<j, "completed">>})
                            \cup (IF pc[j] = "persist" THEN {<<j, "failed">>} ELSE {})
    <2>1. /\ Local(j) /\ ServerTyped' /\ row'[j] \in {row[j], "completed"}
          /\ pc'[j] = IF pc[j] = "persist" THEN "record" ELSE pc[j]
      <3>1. row' \in [Jobs -> {"none", "pending", "completed", "failed", "gone"}]
            /\ row'[j] \in {row[j], "completed"} /\ \A i \in Jobs \ {j} : row'[i] = row[i]
        BY <1>4 DEF IInv, ServerTyped
      <3>2. pc' \in [Jobs -> Where] /\ \A i \in Jobs \ {j} : pc'[i] = pc[i]
            /\ pc'[j] = IF pc[j] = "persist" THEN "record" ELSE pc[j]
        BY <1>4 DEF IInv, ServerTyped, Where
      <3>3. parked' \subseteq Jobs \X Writes
            /\ \A i \in Jobs \ {j} : \A w \in Writes : <<i, w>> \in parked' => <<i, w>> \in parked
        BY <1>4 DEF IInv, ServerTyped, Writes
      <3>4. QED  BY <1>1, <1>4, <3>1, <3>2, <3>3 DEF IInv, ServerTyped, Local
    <2>2. Advances(j)
      BY <1>1, <1>2, <2>1 DEF Advances, Stored
    <2>3. JobInv(j)'
      BY <1>1, <1>2, <1>4, <2>1 DEF IInv, JobInv, Holds
    <2>4. Piped' /\ Channels'
      BY <1>1, <2>1, <2>2, SteadyIs, SilentIs
    <2>5. QED  BY <1>1, <1>4, <2>1, <2>2, <2>3, <2>4, ServerKeeps, Spends
  <1>. QED  BY <1>3, <1>4 DEF WriteCompleted

LEMMA WriteFailedKeeps == ASSUME IInv, NEW j \in Jobs, WriteFailed(j) PROVE IInv'
  <1>1. /\ <<j, "failed">> \in parked /\ parked' = parked \ {<<j, "failed">>}
        /\ pc' = [pc EXCEPT ![j] = IF @ = "record" THEN "over" ELSE @]
        /\ errored' = IF pc[j] = "record" THEN errored \cup {j} ELSE errored
        /\ UNCHANGED <<troubled, stream, page, aside, memory, current, made, deleted>>
    BY DEF ghost, WriteFailed, Take
  <1>2. pc[j] \in {"record", "cut"} /\ j \notin errored
    <2>1. \A S : Holds(j, S) => "failed" \in S
      BY <1>1 DEF Holds, Writes
    <2>2. "failed" \notin {} /\ "failed" \notin {"pending"} /\ "failed" \notin {"completed"}
          /\ "failed" \notin {"save"} /\ "failed" \notin {"sampled"}
      OBVIOUS
    <2>3. pc[j] \in Where
      BY DEF IInv, ServerTyped
    <2>4. QED  BY <2>1, <2>2, <2>3 DEF IInv, JobInv, Where
  <1>3. row' = [row EXCEPT ![j] = IF @ \in {"none", "gone"} THEN "failed" ELSE @] \/ row' = row
    BY DEF WriteFailed
  <1>4. /\ row' \in [Jobs -> {"none", "pending", "completed", "failed", "gone"}]
        /\ row'[j] \in {row[j], "failed"} /\ (row[j] \notin {"none", "gone"} => row'[j] = row[j])
        /\ \A i \in Jobs \ {j} : row'[i] = row[i]
    BY <1>3 DEF IInv, ServerTyped
  <1>5. /\ pc' \in [Jobs -> Where] /\ \A i \in Jobs \ {j} : pc'[i] = pc[i]
        /\ pc'[j] = IF pc[j] = "record" THEN "over" ELSE pc[j]
    BY <1>1 DEF IInv, ServerTyped, Where
  <1>6. Local(j) /\ ServerTyped'
    BY <1>1, <1>4, <1>5 DEF IInv, ServerTyped, Local
  <1>7. Advances(j)
    BY <1>1, <1>2, <1>4, <1>5 DEF Advances, Stored
  <1>8. JobInv(j)'
    BY <1>1, <1>2, <1>4, <1>5 DEF IInv, JobInv, Holds
  <1>9. Piped' /\ Channels'
    <2>1. CASE pc[j] = "record"
      <3>1. <<"error", "end">> \in Seq(Told) /\ SaysOf(j, <<"error", "end">>)
        BY <1>5, <2>1, LastWords DEF Told, SaysOf
      <3>2. Say(j, <<"error", "end">>)
        BY <2>1 DEF WriteFailed
      <3>3. QED  BY <1>1, <1>6, <1>7, <2>1, <3>1, <3>2, SteadyIs, SaidIs
    <2>2. CASE pc[j] # "record"
      <3>1. UNCHANGED <<pipe, bus>>
        BY <2>2 DEF WriteFailed
      <3>2. QED  BY <1>1, <1>6, <1>7, <3>1, SteadyIs, SilentIs
    <2>. QED  BY <2>1, <2>2
  <1>10. spent' \in 0..Budget
    BY Spends DEF WriteFailed
  <1>. QED  BY <1>1, <1>6, <1>7, <1>8, <1>9, <1>10, ServerKeeps

LEMMA WritePendingKeeps == ASSUME IInv, NEW j \in Jobs, WritePending(j) PROVE IInv'
  <1>1. /\ parked' = parked \ {<<j, "pending">>} /\ pc[j] = "prepare"
        /\ pc' = [pc EXCEPT ![j] = "over"]
        /\ UNCHANGED <<troubled, errored, stream, page, aside, memory, current, made, deleted>>
    BY DEF ghost, WritePending, At
  <1>2. row[j] = "none" /\ Holds(j, {"pending"}) /\ j \notin errored
    BY <1>1 DEF IInv, JobInv
  <1>3. row' = [row EXCEPT ![j] = "pending"] \/ row' = row
    BY DEF WritePending
  <1>4. Local(j) /\ ServerTyped' /\ pc'[j] = "over"
    BY <1>1, <1>3 DEF IInv, ServerTyped, Where, Local
  <1>5. Advances(j)
    BY <1>1, <1>2, <1>4 DEF Advances, Stored
  <1>6. JobInv(j)'
    BY <1>1, <1>2, <1>4 DEF JobInv, Holds
  <1>7. Piped' /\ Channels'
    <2>1. CASE Say(j, <<"passthrough", "end">>)
      <3>1. <<"passthrough", "end">> \in Seq(Told) /\ SaysOf(j, <<"passthrough", "end">>)
        BY <1>1, <1>2, <1>4, LastWords DEF Told, SaysOf, Offered
      <3>2. QED  BY <1>1, <1>4, <1>5, <2>1, <3>1, SteadyIs, SaidIs
    <2>2. CASE Say(j, <<"refused">>)
      <3>1. <<"refused">> \in Seq(Told) /\ SaysOf(j, <<"refused">>)
        BY <1>4, OneWord DEF Told, SaysOf
      <3>2. QED  BY <1>1, <1>4, <1>5, <2>2, <3>1, SteadyIs, SaidIs
    <2>. QED  BY <2>1, <2>2 DEF WritePending
  <1>8. spent' \in 0..Budget
    BY Spends DEF WritePending
  <1>. QED  BY <1>1, <1>4, <1>5, <1>6, <1>7, <1>8, ServerKeeps

LEMMA SavingKeeps ==
    ASSUME IInv, NEW j \in Jobs, Local(j), Advances(j), JobInv(j)',
           ServerTyped', Channels', Piped', spent' \in 0..Budget,
           UNCHANGED <<stream, page, rec, gets, restoring, memory, current, made, deleted>>,
           saving' = None \/ saving' \in Own \X {"asked", "saved", "refused"},
           saving' # None => (saving'[2] = "saved" => saving'[1] \in Stored')
    PROVE  IInv'
  <1>1. UNCHANGED <<status, trace, pt, shown, rec, gets, restoring, last, kept, current, made, stream>>
    BY DEF page, memory
  <1>2. Steady /\ Fresh'
    BY <1>1, SteadyIs, FreshIs
  <1>3. Shown' /\ Offers' /\ Recoverable'
    BY <1>1, <1>2, PageStays
  <1>4. PageTyped' /\ Counted'
    BY <1>1 DEF IInv, PageTyped, Counted
  <1>5. \A i \in Jobs : JobInv(i)'
    BY OthersKeep
  <1>. QED  BY <1>2, <1>3, <1>4, <1>5 DEF IInv

LEMMA WriteSaveKeeps == ASSUME IInv, NEW j \in Jobs, WriteSave(j) PROVE IInv'
  <1>1. /\ <<j, "save">> \in parked /\ parked' = parked \ {<<j, "save">>}
        /\ UNCHANGED <<pc, troubled, errored, pipe, stream, page, rec, gets, restoring, memory, current, made, deleted>>
    BY DEF ghost, WriteSave, Take
  <1>2. pc[j] = "over" /\ j \notin errored
    <2>1. \A S : Holds(j, S) => "save" \in S
      BY <1>1 DEF Holds, Writes
    <2>2. "save" \notin {} /\ "save" \notin {"pending"} /\ "save" \notin {"completed"}
          /\ "save" \notin {"failed"} /\ "save" \notin {"sampled"}
          /\ "save" \notin {"completed", "failed"}
      OBVIOUS
    <2>3. pc[j] \in Where
      BY DEF IInv, ServerTyped
    <2>4. QED  BY <2>1, <2>2, <2>3 DEF IInv, JobInv, Where
  <1>3. \E a \in {"saved", "refused"} :
          /\ saving' = IF saving = <<j, "asked">> THEN <<j, a>> ELSE saving
          /\ a = "saved" => row' = [row EXCEPT ![j] = "completed"]
    BY DEF WriteSave, Completes
  <1>4. \/ row' = row
        \/ row' = [row EXCEPT ![j] = "completed"]
        \/ row' = [row EXCEPT ![j] = IF @ = "gone" THEN @ ELSE "completed"]
    BY DEF WriteSave, Completes
  <1>5. /\ row' \in [Jobs -> {"none", "pending", "completed", "failed", "gone"}]
        /\ row'[j] \in {row[j], "completed"}
        /\ \A i \in Jobs \ {j} : row'[i] = row[i]
    BY <1>4 DEF IInv, ServerTyped
  <1>6. Local(j) /\ ServerTyped' /\ Advances(j)
    BY <1>1, <1>5 DEF IInv, ServerTyped, Local, Advances, Stored
  <1>7. JobInv(j)'
    BY <1>1, <1>2, <1>5 DEF IInv, JobInv, Holds
  <1>8. Piped'
    BY <1>1, <1>6, SteadyIs, PipeStays
  <1>9. Channels'
    <2>1. bus' = bus \/ bus' = Append(bus, <<"created", j>>)
      BY DEF WriteSave, Completes
    <2>2. "created" \in Events
      BY DEF Events
    <2>3. QED  BY <1>1, <2>1, <2>2, BusGrows DEF IInv, Channels
  <1>10. spent' \in 0..Budget
    BY Spends DEF WriteSave
  <1>11. Steady
    BY <1>6, SteadyIs
  <1>12. saving' = None \/ saving' \in Own \X {"asked", "saved", "refused"}
    <2>1. PICK a \in {"saved", "refused"} : saving' = IF saving = <<j, "asked">> THEN <<j, a>> ELSE saving
      BY <1>3
    <2>2. CASE saving # <<j, "asked">>
      BY <2>1, <2>2 DEF IInv, PageTyped
    <2>3. CASE saving = <<j, "asked">>
      <3>1. j \in Own
        BY <1>1 DEF IInv, ServerTyped, Jobs
      <3>2. QED  BY <2>1, <2>3, <3>1
    <2>. QED  BY <2>2, <2>3
  <1>13. saving' # None => (saving'[2] = "saved" => saving'[1] \in Stored')
    <2>1. PICK a \in {"saved", "refused"} :
            /\ saving' = IF saving = <<j, "asked">> THEN <<j, a>> ELSE saving
            /\ a = "saved" => row' = [row EXCEPT ![j] = "completed"]
      BY <1>3
    <2>2. CASE saving = <<j, "asked">>
      BY <2>1, <2>2 DEF IInv, ServerTyped, Stored
    <2>3. CASE saving # <<j, "asked">>
      <3>1. saving # None => saving[1] \in Jobs
        BY NoneIsNoJob DEF IInv, PageTyped
      <3>2. saving' = saving
        BY <2>1, <2>3
      <3>3. QED  BY <1>11, <3>1, <3>2 DEF IInv, Shown, Steady
    <2>. QED  BY <2>2, <2>3
  <1>. QED  BY <1>1, <1>6, <1>7, <1>8, <1>9, <1>10, <1>12, <1>13, SavingKeeps

LEMMA WriteSampledKeeps == ASSUME IInv, WriteSampled PROVE IInv'
  <1>1. /\ Mcp \in Jobs /\ pc[Mcp] = "sampled" /\ parked' = parked \ {<<Mcp, "sampled">>}
        /\ UNCHANGED <<row, troubled, errored, pipe, bus, stream, page, aside, memory, current, made, deleted>>
    BY NoneIsNoJob DEF ghost, WriteSampled, At
  <1>2. row[Mcp] = "none" /\ Holds(Mcp, {"sampled"}) /\ Mcp \notin errored
    BY <1>1 DEF IInv, JobInv
  <1>3. PICK to \in {"answered", "over"} : pc' = [pc EXCEPT ![Mcp] = to]
    BY DEF WriteSampled, At
  <1>4. Local(Mcp) /\ ServerTyped' /\ Advances(Mcp) /\ pc'[Mcp] = to
    BY <1>1, <1>3 DEF IInv, ServerTyped, Where, Local, Advances, Stored
  <1>5. JobInv(Mcp)'
    BY <1>1, <1>2, <1>4 DEF JobInv, Holds
  <1>6. Piped' /\ Channels'
    BY <1>1, <1>4, SteadyIs, SilentIs
  <1>7. spent' \in 0..Budget
    BY Spends DEF WriteSampled
  <1>. QED  BY <1>1, <1>4, <1>5, <1>6, <1>7, ServerKeeps

LEMMA SaveElsewhereKeeps == ASSUME IInv, NEW j \in Jobs, SaveElsewhere(j) PROVE IInv'
  <1>1. /\ row' = [row EXCEPT ![j] = "completed"] /\ bus' = Append(bus, <<"created", j>>)
        /\ \/ row[j] = "pending"
           \/ row[j] = "gone" /\ j \notin deleted
           \/ pc[j] = "offered"
        /\ UNCHANGED <<pc, parked, troubled, errored, pipe, stream, page, aside, memory,
                       current, made, deleted, spent>>
    BY DEF SaveElsewhere, Completes, ghost
  <1>2. pc[j] \in {"cut", "over", "offered"} /\ j \notin errored
    <2>1. pc[j] \in Where
      BY DEF IInv, ServerTyped
    <2>2. QED  BY <1>1, <2>1 DEF IInv, JobInv, Where, Stored
  <1>3. Local(j) /\ ServerTyped' /\ Advances(j)
    BY <1>1 DEF IInv, ServerTyped, Local, Advances, Stored
  <1>4. JobInv(j)'
    BY <1>1, <1>2 DEF IInv, JobInv, Holds
  <1>5. Piped'
    BY <1>1, <1>3, SteadyIs, PipeStays
  <1>6. "created" \in Events
    BY DEF Events
  <1>7. Channels'
    BY <1>1, <1>6, BusGrows DEF IInv, Channels
  <1>. QED  BY <1>1, <1>3, <1>4, <1>5, <1>7, ServerKeeps, Spends

LEMMA CollectKeeps == ASSUME IInv, NEW j \in Jobs, Collect(j) PROVE IInv'
  <1>1. /\ row[j] = "pending" /\ row' = [row EXCEPT ![j] = "gone"] /\ Spend
        /\ UNCHANGED <<pc, parked, troubled, errored, pipe, bus, stream, page, aside, memory, current, made, deleted>>
    BY DEF ghost, Collect
  <1>2. pc[j] \in {"cut", "over"} /\ j \notin errored
    <2>1. pc[j] \in Where
      BY DEF IInv, ServerTyped
    <2>2. QED  BY <1>1, <2>1 DEF IInv, JobInv, Where
  <1>3. Local(j) /\ ServerTyped' /\ Advances(j)
    BY <1>1 DEF IInv, ServerTyped, Local, Advances, Stored
  <1>4. JobInv(j)'
    BY <1>1, <1>2 DEF IInv, JobInv, Holds
  <1>5. Piped' /\ Channels'
    BY <1>1, <1>3, SteadyIs, SilentIs
  <1>. QED  BY <1>1, <1>3, <1>4, <1>5, ServerKeeps, Spends

LEMMA DeleteKeeps == ASSUME IInv, NEW j \in Jobs, Delete(j) PROVE IInv'
  <1>1. /\ row[j] = "completed" /\ row' = [row EXCEPT ![j] = "gone"] /\ Spend
        /\ deleted' = deleted \cup {j}
        /\ UNCHANGED <<pc, parked, troubled, errored, pipe, bus, stream, page, aside, memory, current, made>>
    BY DEF Delete
  <1>2. Local(j) /\ ServerTyped' /\ Advances(j)
    BY <1>1 DEF IInv, ServerTyped, Local, Advances, Stored
  <1>3. JobInv(j)'
    <2>1. j \in Stored' /\ row'[j] = "gone" /\ j \in deleted' /\ JobInv(j)
      BY <1>1 DEF IInv, ServerTyped, Stored
    <2>2. pc[j] \notin {"idle", "posted", "run", "late", "sample", "sampling", "answered",
                       "prepare", "persist", "sampled"}
      BY <1>1, <2>1 DEF JobInv
    <2>3. \A S : Holds(j, S) => Holds(j, S)'
      BY <1>1 DEF Holds
    <2>. QED  BY <1>1, <2>1, <2>2, <2>3 DEF JobInv
  <1>4. Piped' /\ Channels'
    BY <1>1, <1>2, SteadyIs, SilentIs
  <1>. QED  BY <1>1, <1>2, <1>3, <1>4, ServerKeeps, Spends

-----------------------------------------------------------------------------
(* The tab's steps.                                                        *)

Tab == PageTyped /\ Shown /\ Offers /\ Recoverable

LEMMA TabKeeps ==
    ASSUME IInv, UNCHANGED <<row, pc, parked, troubled, errored, deleted, made>>, Channels', Piped', Tab',
           current' \in Own \cup {None}, spent' \in 0..Budget
    PROVE  IInv'
  <1>1. ServerTyped' /\ Fresh'
    BY DEF IInv, ServerTyped, Fresh
  <1>2. Counted'
    BY DEF IInv, Counted
  <1>3. \A j \in Jobs : JobInv(j)'
    BY DEF IInv, JobInv, Holds, Stored
  <1>. QED  BY <1>1, <1>2, <1>3 DEF IInv, Tab

LEMMA PipeSame ==
    ASSUME IInv, UNCHANGED <<row, pc, errored, deleted, pipe, stream>>
    PROVE  Piped' /\ pipe' \in Seq(Told)
  <1>1. Steady
    BY StoredSame DEF Steady, Offered
  <1>. QED  BY <1>1, PipeStays DEF IInv, Channels

LEMMA PipeEmpties == ASSUME pipe' = <<>> PROVE Piped' /\ pipe' \in Seq(Told)
  BY DEF Piped

LEMMA BusSame ==
    ASSUME IInv, pipe' \in Seq(Told), UNCHANGED bus
    PROVE  Channels'
  BY DEF IInv, Channels

LEMMA BusShrinks ==
    ASSUME IInv, bus # <<>>, bus' = Tail(bus), UNCHANGED pipe
    PROVE  Channels' /\ Head(bus) \in Events \X Jobs
  <1>1. bus \in Seq(Events \X Jobs)
    BY DEF IInv, Channels
  <1>2. Tail(bus) \in Seq(Events \X Jobs) /\ Head(bus) \in Events \X Jobs
    BY <1>1, TailIs
  <1>. QED  BY <1>2 DEF IInv, Channels

LEMMA PipeShrinks ==
    ASSUME IInv, pipe # <<>>, pipe' = Tail(pipe), UNCHANGED <<row, pc, errored, deleted>>
    PROVE  /\ stream \in Own /\ Head(pipe) \in Told /\ pipe' \in Seq(Told)
           /\ Head(pipe) \in {"end", "refused"} => pipe' = <<>>
           /\ Head(pipe) = "complete" => stream \in Stored
           /\ Head(pipe) = "passthrough" => Offered(stream)
           /\ stream' = stream => Piped'
  <1>1. pipe \in Seq(Told) /\ stream # None /\ stream \in Own
    BY DEF IInv, Channels, Piped, PageTyped
  <1>2. /\ Tail(pipe) \in Seq(Told) /\ Len(pipe) \in Nat /\ Len(pipe) > 0
        /\ Len(Tail(pipe)) = Len(pipe) - 1
        /\ DOMAIN pipe = 1 .. Len(pipe) /\ DOMAIN Tail(pipe) = 1 .. Len(pipe) - 1
        /\ Head(pipe) = pipe[1] /\ Head(pipe) \in Told
        /\ \A i \in 1 .. Len(pipe) - 1 : Tail(pipe)[i] = pipe[i + 1]
    BY <1>1, TailIs
  <1>3. 1 \in DOMAIN pipe
    BY <1>2
  <1>4. /\ pipe[1] \in {"end", "refused"} => 1 = Len(pipe)
        /\ pipe[1] = "complete" => stream \in Stored
        /\ pipe[1] = "passthrough" => Offered(stream)
    BY <1>3 DEF IInv, Piped
  <1>5. Head(pipe) \in {"end", "refused"} => pipe' = <<>>
    <2>1. 1 = Len(pipe) => Len(Tail(pipe)) = 0
      BY <1>2
    <2>2. QED  BY <1>2, <1>4, <2>1, EmptySeq
  <1>6. ASSUME stream' = stream
        PROVE  Piped'
    <2>1. ASSUME NEW i \in DOMAIN pipe'
          PROVE  /\ pipe'[i] \in {"end", "refused"} => i = Len(pipe') /\ pc'[stream] = "over"
                 /\ pipe'[i] = "complete" => stream \in Stored'
                 /\ pipe'[i] = "passthrough" => Offered(stream)
      <3>1. i + 1 \in DOMAIN pipe /\ pipe'[i] = pipe[i + 1] /\ (i + 1 = Len(pipe) => i = Len(pipe'))
        BY <1>2
      <3>2. /\ pipe[i + 1] \in {"end", "refused"} => i + 1 = Len(pipe) /\ pc[stream] = "over"
            /\ pipe[i + 1] = "complete" => stream \in Stored
            /\ pipe[i + 1] = "passthrough" => Offered(stream)
        BY <3>1 DEF IInv, Piped
      <3>3. QED  BY <3>1, <3>2 DEF Stored
    <2>2. Offered(stream)' <=> Offered(stream)
      BY <1>6 DEF Offered
    <2>3. QED  BY <1>1, <1>6, <2>1, <2>2 DEF Piped
  <1>. QED  BY <1>1, <1>2, <1>4, <1>5, <1>6

\* A result is shown.
LEMMA LoadKeeps ==
    ASSUME IInv, NEW j \in Jobs, j \in Stored, Load(j),
           UNCHANGED <<row, pc, errored, deleted, stream, current>>,
           rec' \in {rec, Idle}, gets' \subseteq gets, saving' \in {saving, None},
           restoring' \in {restoring, None}
    PROVE  Tab'
  <1>1. /\ shown' = j /\ status' = "complete" /\ last' = j /\ kept' = None
        /\ trace' = trace /\ pt' = pt /\ j # None
    BY NoneIsNoJob DEF Load
  <1>2. rec' \in [step : {"off", "asleep", "asked"}, left : 0..MaxPolls, found : Jobs \cup {None}]
        /\ (rec'.step # "off" => rec'.left > 0) /\ (rec'.found # None => rec'.found \in Stored')
    BY NoneIsNoJob DEF IInv, PageTyped, Shown, Idle, Stored
  <1>3. PageTyped'
    BY <1>1, <1>2, NoneIsNoJob DEF IInv, PageTyped
  <1>4. Shown'
    BY <1>1, <1>2 DEF IInv, Shown, Stored
  <1>5. Offers'
    BY <1>1 DEF IInv, Offers, Offered
  <1>6. Recoverable'
    BY <1>1 DEF Recoverable
  <1>. QED  BY <1>3, <1>4, <1>5, <1>6 DEF Tab

\* The page is left alone, but for what the step itself changes of it.
LEMMA PageKeeps ==
    ASSUME IInv, UNCHANGED <<row, pc, errored, deleted, shown, memory, saving>>,
           status' = status \/ status' \in {"working", "following", "idle", "error"},
           trace' \in Jobs \cup {None}, pt' \in {pt, None}, status' = "passthrough" => pt' = pt,
           stream' \in {stream, None}, restoring' = restoring, current' \in {current, None},
           rec' \in [step : {"off", "asleep", "asked"}, left : 0..MaxPolls, found : Jobs \cup {None}],
           rec'.step # "off" => rec'.left > 0,
           rec'.found # None => rec'.found \in Stored,
           gets' \subseteq Jobs \X {"auto", "opened"},
           \A g \in gets' : g[2] = "opened" => g[1] \in Stored
    PROVE  Tab'
  <1>1. last' = last /\ kept' = kept
    BY DEF memory
  <1>2. PageTyped'
    BY <1>1 DEF IInv, PageTyped, AtWork
  <1>3. Shown'
    BY <1>1 DEF IInv, Shown, Stored
  <1>4. Offers'
    <2>1. restoring # None /\ restoring[2] = "passthrough" => restoring[1] # None
      BY NoneIsNoJob DEF IInv, PageTyped
    <2>2. QED  BY <1>1, <2>1 DEF IInv, Offers, Offered
  <1>5. Recoverable'
    <2>1. status' = "passthrough" /\ pt' = current' => pt = current
      BY NoneIsNoJob DEF IInv, PageTyped, Offers
    <2>2. QED  BY <1>1, <2>1 DEF IInv, Recoverable
  <1>. QED  BY <1>2, <1>3, <1>4, <1>5 DEF Tab

LEMMA Typed ==
    ASSUME IInv
    PROVE  /\ trace \in Jobs \cup {None} /\ current \in Own \cup {None} /\ spent \in 0..Budget
           /\ rec \in [step : {"off", "asleep", "asked"}, left : 0..MaxPolls, found : Jobs \cup {None}]
           /\ rec.step # "off" => rec.left > 0
           /\ rec.found # None => rec.found \in Stored
           /\ gets \subseteq Jobs \X {"auto", "opened"}
           /\ \A g \in gets : g[2] = "opened" => g[1] \in Stored
  BY DEF IInv, PageTyped, Counted, Shown

LEMMA StartElsewhereKeeps == ASSUME IInv, StartElsewhere PROVE IInv'
  <1>1. /\ Mcp \in Jobs /\ pc[Mcp] = "idle" /\ pc' = [pc EXCEPT ![Mcp] = "posted"]
        /\ made < MaxMade /\ made' = made + 1
        /\ UNCHANGED <<row, parked, troubled, errored, deleted, pipe, bus, stream, page, aside, memory,
                       current, spent>>
    BY NoneIsNoJob DEF StartElsewhere, At
  <1>2. row[Mcp] = "none" /\ Holds(Mcp, {}) /\ Mcp \notin errored
    BY <1>1 DEF IInv, JobInv
  <1>3. Local(Mcp) /\ ServerTyped' /\ pc'[Mcp] = "posted"
    BY <1>1 DEF IInv, ServerTyped, Where, Local, Stored
  <1>4. Steady
    BY <1>1, <1>2, <1>3 DEF Steady, Local, Offered, Stored
  <1>5. JobInv(Mcp)'
    BY <1>1, <1>2, <1>3 DEF JobInv, Holds
  <1>6. \A j \in Jobs : JobInv(j)'
    BY <1>1, <1>3, <1>5, OthersKeep
  <1>7. Counted' /\ Fresh'
    BY <1>1, <1>3, NoneIsNoJob DEF IInv, Counted, Fresh, Local
  <1>8. Piped' /\ Channels'
    BY <1>1, <1>4, SilentIs
  <1>9. PageTyped'
    BY <1>1 DEF IInv, PageTyped, page, aside, memory
  <1>10. Shown' /\ Offers' /\ Recoverable'
    <2>1. UNCHANGED <<page, rec, gets, saving, restoring, memory, current>>
      BY <1>1 DEF aside
    <2>2. saving' # None => (saving'[2] = "saved" => saving'[1] \in Stored')
      BY <1>1, <2>1 DEF IInv, Shown, Stored
    <2>3. QED  BY <1>4, <2>1, <2>2, PageStays
  <1>. QED  BY <1>3, <1>6, <1>7, <1>8, <1>9, <1>10 DEF IInv

LEMMA StartKeeps == ASSUME IInv, Start PROVE IInv'
  <1>1. /\ status \notin AtWork /\ made < MaxMade /\ made' = made + 1 /\ current' = made + 1
        /\ stream' = made + 1 /\ pipe' = <<>> /\ pc' = [pc EXCEPT ![made + 1] = "posted"]
        /\ status' = "working" /\ trace' = None /\ pt' = None /\ shown' = None
        /\ UNCHANGED <<row, parked, troubled, errored, deleted, bus, rec, gets, saving, restoring, last, kept, spent>>
    BY DEF Start, aside, memory
  <1>2. PICK j \in Own : j = made + 1
    BY <1>1, NoneIsNoJob DEF IInv, Counted, Own
  <1>3. j \in Jobs /\ j # Mcp /\ j # None /\ pc[j] = "idle" /\ pc' = [pc EXCEPT ![j] = "posted"]
    BY <1>1, <1>2, NoneIsNoJob DEF IInv, Fresh, Counted
  <1>4. row[j] = "none" /\ Holds(j, {}) /\ j \notin errored
    BY <1>3 DEF IInv, JobInv
  <1>5. Local(j) /\ ServerTyped' /\ pc'[j] = "posted"
    BY <1>1, <1>3 DEF IInv, ServerTyped, Where, Local, Stored
  <1>6. Steady
    BY <1>1, <1>3, <1>4, <1>5 DEF Steady, Local, Offered, Stored
  <1>7. JobInv(j)'
    BY <1>1, <1>4, <1>5 DEF JobInv, Holds
  <1>8. \A i \in Jobs : JobInv(i)'
    BY <1>3, <1>5, <1>7, OthersKeep
  <1>9. Counted' /\ Fresh'
    BY <1>1, <1>2, <1>5, NoneIsNoJob DEF IInv, Counted, Fresh, Local
  <1>10. Piped' /\ Channels'
    BY <1>1, PipeEmpties, BusSame
  <1>11. PageTyped'
    BY <1>1, <1>2 DEF IInv, PageTyped, AtWork
  <1>12. Shown'
    BY <1>1 DEF IInv, Shown, Stored
  <1>13. Offers'
    <2>1. (kept # None => Offered(kept))'
      BY <1>1, <1>6, NoneIsNoJob DEF IInv, PageTyped, Offers, Steady, Offered
    <2>2. ASSUME restoring # None, restoring[2] = "passthrough"
          PROVE  Offered(restoring[1])' /\ restoring'[1] # current'
      <3>1. restoring[1] \in Jobs /\ Offered(restoring[1])
        BY <2>2, NoneIsNoJob DEF IInv, PageTyped, Offers
      <3>2. restoring[1] # j
        BY <1>3, <3>1 DEF Offered
      <3>3. QED  BY <1>1, <1>2, <1>6, <3>1, <3>2 DEF Steady, Offered
    <2>3. QED  BY <1>1, <2>1, <2>2 DEF Offers
  <1>14. Recoverable'
    BY <1>1 DEF Recoverable
  <1>. QED  BY <1>5, <1>8, <1>9, <1>10, <1>11, <1>12, <1>13, <1>14 DEF IInv

LEMMA RecOn ==
    ASSUME IInv, rec' = rec \/ Reconnect
    PROVE  /\ rec' \in [step : {"off", "asleep", "asked"}, left : 0..MaxPolls, found : Jobs \cup {None}]
           /\ rec'.step # "off" => rec'.left > 0
           /\ rec'.found # None => rec'.found \in Stored
  BY Typed, NoneIsNoJob DEF Reconnect

LEMMA ReceiveKeeps == ASSUME IInv, Receive PROVE IInv'
  <1> DEFINE m == Head(pipe)
  <1>1. /\ pipe # <<>> /\ pipe' = Tail(pipe)
        /\ UNCHANGED <<row, pc, parked, troubled, errored, deleted, bus, gets, saving, restoring, current, made, spent>>
    BY DEF Receive, server, ghost
  <1>2. /\ stream \in Own /\ m \in Told /\ pipe' \in Seq(Told)
        /\ m \in {"end", "refused"} => pipe' = <<>>
        /\ m = "complete" => stream \in Stored
        /\ m = "passthrough" => Offered(stream)
        /\ stream' = stream => Piped'
    BY <1>1, PipeShrinks
  <1>3. Channels' /\ current' \in Own \cup {None} /\ spent' \in 0..Budget
    BY <1>1, <1>2, BusSame, Typed
  <1>4. stream \in Jobs
    BY <1>2, NoneIsNoJob
  <1>5. \/ m = "start" /\ trace' = stream /\ UNCHANGED <<status, pt, shown, memory, stream, rec>>
        \/ m = "status" /\ status' = "working" /\ UNCHANGED <<trace, pt, shown, memory, stream, rec>>
        \/ m = "error" /\ status' = "error" /\ UNCHANGED <<trace, pt, shown, memory, stream, rec>>
        \/ m = "complete" /\ Load(stream) /\ UNCHANGED <<stream, rec>>
        \/ /\ m = "passthrough" /\ pt' = stream /\ status' = "passthrough" /\ Remember(stream)
           /\ UNCHANGED <<trace, shown, stream, rec>>
        \/ m = "end" /\ StreamEnds
        \/ m = "refused" /\ StreamFails
    BY DEF Receive
  <1> HIDE DEF m
  <1>6. CASE /\ UNCHANGED <<pt, shown, memory, stream, rec>> /\ trace' \in {trace, stream}
             /\ status' = status \/ status' \in {"working", "error"}
    <2>1. Tab'
      BY <1>1, <1>4, <1>6, PageKeeps, Typed
    <2>2. QED  BY <1>1, <1>2, <1>3, <1>6, <2>1, TabKeeps
  <1>7. CASE m = "complete" /\ Load(stream) /\ UNCHANGED <<stream, rec>>
    <2>1. Tab'
      BY <1>1, <1>2, <1>4, <1>7, LoadKeeps
    <2>2. QED  BY <1>1, <1>2, <1>3, <1>7, <2>1, TabKeeps
  <1>8. CASE /\ m = "passthrough" /\ pt' = stream /\ status' = "passthrough" /\ Remember(stream)
             /\ UNCHANGED <<trace, shown, stream, rec>>
    <2>1. \/ shown # None /\ last' = shown /\ kept' = None
          \/ shown = None /\ kept' = stream /\ last' = last
      BY <1>8 DEF Remember
    <2>2. Offered(stream)' /\ stream # None
      BY <1>1, <1>2, <1>8, NoneIsNoJob DEF Offered
    <2>3. PageTyped'
      BY <1>1, <1>2, <1>8, <2>1 DEF IInv, PageTyped
    <2>4. Shown'
      BY <1>1, <1>8, <2>1 DEF IInv, Shown, Stored
    <2>5. Offers'
      BY <1>1, <1>8, <2>1, <2>2 DEF IInv, Offers, Offered
    <2>6. Recoverable'
      BY <1>1, <1>8, <2>1 DEF Recoverable
    <2>7. Tab'
      BY <2>3, <2>4, <2>5, <2>6 DEF Tab
    <2>8. QED  BY <1>1, <1>2, <1>3, <1>8, <2>7, TabKeeps
  <1>9. CASE m \in {"end", "refused"} /\ (StreamEnds \/ StreamFails)
    <2>1. /\ stream' = None /\ (rec' = rec \/ Reconnect)
          /\ status' = status \/ status' = "error"
          /\ UNCHANGED <<trace, pt, shown, memory>>
      BY <1>9 DEF StreamEnds, StreamFails
    <2>2. /\ rec' \in [step : {"off", "asleep", "asked"}, left : 0..MaxPolls, found : Jobs \cup {None}]
          /\ rec'.step # "off" => rec'.left > 0
          /\ rec'.found # None => rec'.found \in Stored
      BY <2>1, RecOn
    <2>3. /\ UNCHANGED <<row, pc, errored, deleted, shown, memory, saving, gets>> /\ trace' \in Jobs \cup {None}
          /\ status' = status \/ status' \in {"working", "following", "idle", "error"}
          /\ pt' \in {pt, None} /\ pt' = pt /\ stream' \in {stream, None} /\ restoring' = restoring
          /\ current' \in {current, None} /\ gets' \subseteq Jobs \X {"auto", "opened"}
          /\ \A g \in gets' : g[2] = "opened" => g[1] \in Stored
      BY <1>1, <2>1, Typed
    <2>4. Tab'
      BY <2>2, <2>3, PageKeeps
    <2>5. Piped'
      BY <1>2, <1>9, PipeEmpties
    <2>6. QED  BY <1>1, <1>3, <2>4, <2>5, TabKeeps
  <1>. QED  BY <1>5, <1>6, <1>7, <1>8, <1>9

LEMMA BreakKeeps == ASSUME IInv, Break PROVE IInv'
  <1>1. /\ pipe' = <<>> /\ Spend /\ stream' = None /\ status' = "error"
        /\ rec' = rec \/ Reconnect
        /\ UNCHANGED <<row, pc, parked, troubled, errored, deleted, bus, gets, saving, restoring, current, made,
                       trace, pt, shown, memory>>
    BY DEF Break, StreamFails, server, ghost
  <1>2. /\ rec' \in [step : {"off", "asleep", "asked"}, left : 0..MaxPolls, found : Jobs \cup {None}]
        /\ rec'.step # "off" => rec'.left > 0
        /\ rec'.found # None => rec'.found \in Stored
    BY <1>1, RecOn
  <1>3. Tab'
    BY <1>1, <1>2, PageKeeps, Typed
  <1>4. Piped' /\ Channels'
    BY <1>1, PipeEmpties, BusSame
  <1>. QED  BY <1>1, <1>3, <1>4, TabKeeps, Spends, Typed

LEMMA PollKeeps == ASSUME IInv, Poll PROVE IInv'
  <1>1. /\ rec.step = "asleep"
        /\ rec' = [rec EXCEPT !.step = "asked",
                              !.found = IF trace # None /\ row[trace] = "completed" THEN trace ELSE None]
        /\ UNCHANGED <<row, pc, parked, troubled, errored, deleted, pipe, bus, stream, page, gets, saving, restoring,
                       memory, current, made, spent, status, trace, pt, shown>>
    BY DEF Poll, server, ghost, page
  <1>2. /\ rec' \in [step : {"off", "asleep", "asked"}, left : 0..MaxPolls, found : Jobs \cup {None}]
        /\ rec'.step # "off" => rec'.left > 0
        /\ rec'.found # None => rec'.found \in Stored
    BY <1>1, Typed DEF Stored
  <1>3. Tab'
    BY <1>1, <1>2, PageKeeps, Typed
  <1>4. Piped' /\ Channels'
    BY <1>1, PipeSame, BusSame
  <1>. QED  BY <1>1, <1>3, <1>4, TabKeeps, Typed

LEMMA PollAnsweredKeeps == ASSUME IInv, PollAnswered PROVE IInv'
  <1>1. /\ rec.step = "asked"
        /\ UNCHANGED <<row, pc, parked, troubled, errored, deleted, pipe, bus, stream, gets, saving, restoring,
                       current, made>>
    BY DEF PollAnswered, server, ghost
  <1>2. Piped' /\ Channels'
    BY <1>1, PipeSame, BusSame
  <1>3. CASE rec.found # None /\ Load(rec.found) /\ rec' = Idle /\ UNCHANGED spent
    <2>1. rec.found \in Jobs /\ rec.found \in Stored
      BY <1>3, Typed
    <2>2. Tab'
      BY <1>1, <1>3, <2>1, LoadKeeps
    <2>3. QED  BY <1>1, <1>2, <1>3, <2>2, TabKeeps, Typed
  <1>4. CASE /\ spent' = spent \/ Spend
             /\ IF rec.left = 1 \/ status \in {"idle", "complete"}
                THEN rec' = Idle /\ GiveUp
                ELSE rec' = [step |-> "asleep", left |-> rec.left - 1, found |-> None] /\ UNCHANGED page
             /\ UNCHANGED memory
    <2>1. /\ rec' \in [step : {"off", "asleep", "asked"}, left : 0..MaxPolls, found : Jobs \cup {None}]
          /\ rec'.step # "off" => rec'.left > 0
          /\ rec'.found # None => rec'.found \in Stored
      <3>1. rec.left \in 0..MaxPolls /\ rec.left > 0 /\ MaxPolls \in Nat
        BY <1>1, Typed, NoneIsNoJob
      <3>2. CASE rec' = Idle
        BY <3>1, <3>2 DEF Idle
      <3>3. CASE rec.left # 1 /\ rec' = [step |-> "asleep", left |-> rec.left - 1, found |-> None]
        BY <3>1, <3>3
      <3>. QED  BY <1>4, <3>2, <3>3
    <2>2. (status' = status \/ status' = "error") /\ UNCHANGED <<trace, pt, shown>>
      BY <1>4 DEF GiveUp, page
    <2>3. Tab'
      BY <1>1, <1>4, <2>1, <2>2, PageKeeps, Typed
    <2>4. spent' \in 0..Budget
      BY <1>4, Spends
    <2>5. QED  BY <1>1, <1>2, <2>3, <2>4, TabKeeps, Typed
  <1>. QED  BY <1>3, <1>4 DEF PollAnswered

LEMMA HearKeeps == ASSUME IInv, Hear PROVE IInv'
  <1> DEFINE e == Head(bus)
  <1>1. /\ bus # <<>> /\ bus' = Tail(bus)
        /\ UNCHANGED <<row, pc, parked, troubled, errored, deleted, pipe, stream, pt, shown, rec, saving, restoring,
                       memory, current, made, spent>>
    BY DEF Hear, server, ghost
  <1>2. Channels' /\ e \in Events \X Jobs
    BY <1>1, BusShrinks
  <1>3. Piped'
    BY <1>1, PipeSame
  <1>4. e[2] \in Jobs /\ <<e[2], "auto">> \in Jobs \X {"auto", "opened"}
    BY <1>2
  <1>5. /\ trace' \in {trace, e[2]} /\ (status' = status \/ status' = "following")
        /\ gets' \subseteq gets \cup {<<e[2], "auto">>}
    BY DEF Hear
  <1> HIDE DEF e
  <1>6. /\ trace' \in Jobs \cup {None} /\ gets' \subseteq Jobs \X {"auto", "opened"}
        /\ \A g \in gets' : g[2] = "opened" => g[1] \in Stored
    BY <1>4, <1>5, Typed
  <1>7. Tab'
    BY <1>1, <1>5, <1>6, PageKeeps, Typed
  <1>. QED  BY <1>1, <1>2, <1>3, <1>7, TabKeeps, Typed

LEMMA LoseEventKeeps == ASSUME IInv, LoseEvent PROVE IInv'
  <1>1. /\ bus # <<>> /\ bus' = Tail(bus) /\ Spend
        /\ UNCHANGED <<row, pc, parked, troubled, errored, deleted, pipe, stream, page, aside, memory, current, made>>
    BY DEF LoseEvent, server, ghost
  <1>2. UNCHANGED <<status, trace, pt, shown, rec, gets, saving, restoring>>
    BY <1>1 DEF page, aside
  <1>3. Channels' /\ Piped'
    BY <1>1, BusShrinks, PipeSame
  <1>4. Tab'
    BY <1>1, <1>2, PageKeeps, Typed
  <1>. QED  BY <1>1, <1>3, <1>4, TabKeeps, Spends, Typed

LEMMA GetAnsweredKeeps ==
    ASSUME IInv, NEW j \in Jobs, NEW why \in {"auto", "opened"}, GetAnswered(j, why)
    PROVE  IInv'
  <1>1. /\ gets' = gets \ {<<j, why>>} /\ (spent' = spent \/ Spend)
        /\ UNCHANGED <<row, pc, parked, troubled, errored, deleted, pipe, bus, stream, rec, saving, restoring,
                       current, made>>
    BY DEF GetAnswered, server, ghost
  <1>2. Piped' /\ Channels' /\ spent' \in 0..Budget
    BY <1>1, PipeSame, BusSame, Spends
  <1>3. CASE /\ IF why = "opened" THEN Found(j) ELSE row[j] = "completed" /\ status # "complete"
             /\ Load(j)
    <2>0. j \in Stored
      <3>1. <<j, why>> \in gets
        BY DEF GetAnswered
      <3>2. why = "opened" => j \in Stored
        BY <3>1, Typed
      <3>3. QED  BY <1>3, <3>2 DEF Stored
    <2>1. Tab'
      BY <1>1, <1>3, <2>0, LoadKeeps
    <2>2. QED  BY <1>1, <1>2, <2>1, TabKeeps, Typed
  <1>4. CASE status' \in {status, "idle"} /\ UNCHANGED <<trace, pt, shown, memory>>
    <2>1. Tab'
      BY <1>1, <1>4, PageKeeps, Typed
    <2>2. QED  BY <1>1, <1>2, <2>1, TabKeeps, Typed
  <1>. QED  BY <1>3, <1>4 DEF GetAnswered, page

LEMMA OpenKeeps == ASSUME IInv, NEW j \in Jobs, Open(j) PROVE IInv'
  <1>1. /\ Spend /\ current' = None /\ gets' = gets \cup {<<j, "opened">>}
        /\ UNCHANGED <<row, pc, parked, troubled, errored, deleted, bus, shown, rec, saving, restoring, memory, made>>
    BY DEF Open, server
  <1>2. \/ Abandon
        \/ UNCHANGED <<stream, pipe, trace, pt, status>>
    BY DEF Open
  <1>3. Piped' /\ Channels'
    BY <1>1, <1>2, PipeEmpties, PipeSame, BusSame DEF Abandon
  <1>4. /\ status' = status \/ status' = "idle"
        /\ trace' \in Jobs \cup {None} /\ pt' \in {pt, None} /\ stream' \in {stream, None}
        /\ status' = "passthrough" => pt' = pt
    BY <1>2, Typed DEF Abandon
  <1>5. /\ gets' \subseteq Jobs \X {"auto", "opened"}
        /\ \A g \in gets' : g[2] = "opened" => g[1] \in Stored
    <2>1. j \in Stored
      BY DEF Open, Stored
    <2>2. QED  BY <1>1, <2>1, Typed
  <1>6. Tab'
    BY <1>1, <1>4, <1>5, PageKeeps, Typed
  <1>. QED  BY <1>1, <1>3, <1>6, TabKeeps, Spends

LEMMA CancelKeeps == ASSUME IInv, Cancel PROVE IInv'
  <1>1. /\ Abandon /\ current' = None
        /\ UNCHANGED <<row, pc, parked, troubled, errored, deleted, bus, shown, rec, gets, saving, restoring, memory,
                       made, spent>>
    BY DEF Cancel, server, aside
  <1>2. Piped' /\ Channels'
    BY <1>1, PipeEmpties, BusSame DEF Abandon
  <1>3. Tab'
    BY <1>1, PageKeeps, Typed DEF Abandon
  <1>. QED  BY <1>1, <1>2, <1>3, TabKeeps, Typed

LEMMA DismissKeeps == ASSUME IInv, Dismiss PROVE IInv'
  <1>1. /\ status' = "idle" /\ current' = None
        /\ UNCHANGED <<row, pc, parked, troubled, errored, deleted, pipe, bus, stream, trace, pt, shown, rec, gets,
                       saving, restoring, memory, made, spent>>
    BY DEF Dismiss, server, aside
  <1>2. Piped' /\ Channels'
    BY <1>1, PipeSame, BusSame
  <1>3. Tab'
    BY <1>1, PageKeeps, Typed
  <1>. QED  BY <1>1, <1>2, <1>3, TabKeeps, Typed

LEMMA ResetKeeps == ASSUME IInv, Reset PROVE IInv'
  <1>1. /\ Spend /\ Abandon /\ current' = None /\ shown' = None /\ kept' = None
        /\ UNCHANGED <<row, pc, parked, troubled, errored, deleted, bus, rec, gets, saving, restoring, last, made>>
    BY DEF Reset, server, aside
  <1>2. Piped' /\ Channels'
    BY <1>1, PipeEmpties, BusSame DEF Abandon
  <1>3. PageTyped'
    BY <1>1 DEF IInv, PageTyped, Abandon
  <1>4. Shown' /\ Recoverable'
    BY <1>1 DEF IInv, Shown, Recoverable, Abandon, Stored
  <1>5. restoring # None /\ restoring[2] = "passthrough" => restoring[1] # None
    BY NoneIsNoJob DEF IInv, PageTyped
  <1>6. Offers'
    BY <1>1, <1>5 DEF IInv, Offers, Offered, Abandon
  <1>7. Tab'
    BY <1>3, <1>4, <1>6 DEF Tab
  <1>. QED  BY <1>1, <1>2, <1>7, TabKeeps, Spends

LEMMA ReloadKeeps == ASSUME IInv, Reload PROVE IInv'
  <1>1. /\ Spend /\ current' = None /\ stream' = None /\ pipe' = <<>> /\ bus' = <<>>
        /\ status' = "idle" /\ trace' = None /\ pt' = None /\ shown' = None
        /\ rec' = Idle /\ gets' = {} /\ saving' = None
        /\ restoring' = IF last # None THEN <<last, "result">>
                        ELSE IF kept # None THEN <<kept, "passthrough">> ELSE None
        /\ UNCHANGED <<row, pc, parked, troubled, errored, deleted, last, kept, made>>
    BY DEF Reload, server, memory
  <1>2. Piped' /\ Channels'
    BY <1>1, PipeEmpties DEF Channels
  <1>3. \/ last # None /\ restoring' = <<last, "result">> /\ last \in Jobs
        \/ kept # None /\ restoring' = <<kept, "passthrough">> /\ kept \in Own
        \/ restoring' = None
    BY <1>1 DEF IInv, PageTyped
  <1>4. rec' \in [step : {"off", "asleep", "asked"}, left : 0..MaxPolls, found : Jobs \cup {None}]
        /\ rec'.step = "off" /\ rec'.found = None
    BY <1>1, NoneIsNoJob DEF Idle
  <1>5. PageTyped'
    BY <1>1, <1>3, <1>4 DEF IInv, PageTyped
  <1>6. Shown'
    BY <1>1, <1>3, <1>4 DEF IInv, Shown, Stored
  <1>7. Offers'
    BY <1>1, <1>3 DEF IInv, Offers, Offered
  <1>8. Recoverable'
    BY <1>1 DEF Recoverable
  <1>9. Tab'
    BY <1>5, <1>6, <1>7, <1>8 DEF Tab
  <1>. QED  BY <1>1, <1>2, <1>9, TabKeeps, Spends

LEMMA SaveKeeps == ASSUME IInv, Save PROVE IInv'
  <1>1. PICK j \in Own : j = pt
    BY NoneIsNoJob DEF Save, IInv, PageTyped
  <1>2. /\ j \in Jobs /\ j # Mcp /\ j # None /\ pc[j] = "over" /\ j \notin errored
        /\ UNCHANGED <<row, pc, troubled, errored, pipe, bus, stream, page, rec, gets, restoring, memory,
                       current, made, deleted, spent>>
    BY <1>1, NoneIsNoJob DEF Save, IInv, Offers, Offered, ghost
  <1>3. parked' \subseteq parked \cup {<<j, "save">>} /\ saving' \in Own \X {"asked", "refused"}
    BY <1>1 DEF Save, Park
  <1>4. Local(j) /\ ServerTyped' /\ Advances(j)
    BY <1>2, <1>3 DEF IInv, ServerTyped, Local, Advances, Writes, Stored
  <1>5. JobInv(j)'
    BY <1>2, <1>3 DEF IInv, JobInv, Holds
  <1>6. Piped' /\ Channels'
    BY <1>2, PipeSame, BusSame
  <1>7. /\ saving' = None \/ saving' \in Own \X {"asked", "saved", "refused"}
        /\ saving' # None => (saving'[2] = "saved" => saving'[1] \in Stored')
    BY <1>3
  <1>. QED  BY <1>2, <1>4, <1>5, <1>6, <1>7, SavingKeeps, Spends

LEMMA SaveAnsweredKeeps == ASSUME IInv, SaveAnswered PROVE IInv'
  <1>1. /\ saving # None /\ saving' = None
        /\ UNCHANGED <<row, pc, parked, troubled, errored, deleted, pipe, bus, stream, rec, gets, restoring,
                       current, made, spent>>
    BY DEF SaveAnswered, server, ghost
  <1>2. Piped' /\ Channels'
    BY <1>1, PipeSame, BusSame
  <1>3. CASE saving[2] = "saved" /\ Load(saving[1])
    <2>1. saving[1] \in Jobs /\ saving[1] \in Stored
      BY <1>1, <1>3, NoneIsNoJob DEF IInv, PageTyped, Shown
    <2>2. Tab'
      BY <1>1, <1>3, <2>1, LoadKeeps
    <2>3. QED  BY <1>1, <1>2, <2>2, TabKeeps, Typed
  <1>4. CASE status' = "error" /\ UNCHANGED <<trace, pt, shown, memory>>
    <2>1. PageTyped'
      BY <1>1, <1>4 DEF IInv, PageTyped, memory
    <2>2. Shown' /\ Recoverable'
      BY <1>1, <1>4 DEF IInv, Shown, Recoverable, memory, Stored
    <2>3. Offers'
      BY <1>1, <1>4 DEF IInv, Offers, Offered, memory
    <2>4. Tab'
      BY <2>1, <2>2, <2>3 DEF Tab
    <2>5. QED  BY <1>1, <1>2, <2>4, TabKeeps, Typed
  <1>. QED  BY <1>3, <1>4 DEF SaveAnswered

LEMMA RestoredKeeps == ASSUME IInv, Restored PROVE IInv'
  <1>1. /\ restoring # None /\ restoring' = None
        /\ UNCHANGED <<row, pc, parked, troubled, errored, deleted, pipe, bus, stream, rec, gets, saving, made>>
    BY DEF Restored, server
  <1>2. Piped' /\ Channels'
    BY <1>1, PipeSame, BusSame
  <1>3. /\ restoring[1] \in Jobs /\ restoring[2] \in {"result", "passthrough"}
        /\ restoring[2] = "result" => restoring[1] \in Stored
        /\ restoring[2] = "passthrough" =>
             restoring[1] \in Own /\ Offered(restoring[1]) /\ restoring[1] # current
    BY <1>1, NoneIsNoJob DEF IInv, PageTyped, Shown, Offers
  <1>4. PICK j \in Jobs : j = restoring[1]
    BY <1>3
  <1>5. CASE /\ IF restoring[2] = "result" THEN Found(j) ELSE row[j] = "completed"
             /\ Load(j) /\ UNCHANGED <<current, spent>>
    <2>1. j \in Stored
      BY <1>3, <1>4, <1>5 DEF Stored
    <2>2. Tab'
      BY <1>1, <1>5, <2>1, LoadKeeps
    <2>3. QED  BY <1>1, <1>2, <1>5, <2>2, TabKeeps, Typed
  <1>6. CASE /\ restoring[2] # "result" /\ (spent' = spent \/ Spend)
             /\ pt' = j /\ status' = "passthrough" /\ UNCHANGED <<trace, shown, memory, current>>
    <2>1. j \in Own /\ Offered(j) /\ j # current /\ j # None
      BY <1>3, <1>4, <1>6, NoneIsNoJob
    <2>2. PageTyped'
      BY <1>1, <1>6, <2>1 DEF IInv, PageTyped, memory
    <2>3. Shown' /\ Recoverable'
      BY <1>1, <1>6, <2>1 DEF IInv, Shown, Recoverable, memory, Stored
    <2>4. Offers'
      BY <1>1, <1>6, <2>1 DEF IInv, Offers, Offered, memory
    <2>5. Tab'
      BY <2>2, <2>3, <2>4 DEF Tab
    <2>6. QED  BY <1>1, <1>2, <1>6, <2>5, TabKeeps, Spends, Typed
  <1>7. CASE restoring[2] = "result" /\ (spent' = spent \/ Spend) /\ Forget /\ current' = None /\ UNCHANGED page
    <2>1. last' = None /\ kept' = None /\ UNCHANGED <<status, trace, pt, shown>>
      BY <1>7 DEF Forget, page
    <2>2. PageTyped'
      BY <1>1, <2>1 DEF IInv, PageTyped
    <2>3. Shown' /\ Offers'
      BY <1>1, <2>1, StoredSame DEF IInv, Shown, Offers, Offered
    <2>4. Recoverable'
      BY <1>7, <2>1 DEF IInv, Recoverable, Offers
    <2>5. Tab'
      BY <2>2, <2>3, <2>4 DEF Tab
    <2>6. QED  BY <1>1, <1>2, <1>7, <2>5, TabKeeps, Spends, Typed
  <1>. QED  BY <1>4, <1>5, <1>6, <1>7 DEF Restored

-----------------------------------------------------------------------------

LEMMA StutterKeeps == ASSUME IInv, UNCHANGED vars PROVE IInv'
  <1>1. /\ UNCHANGED <<row, pc, parked, troubled, errored, deleted, pipe, bus, stream, page, rec, gets, saving,
                       restoring, memory, current, made, spent, status, trace, pt, shown>>
    BY DEF vars, server, page, aside, memory, ghost
  <1>2. Piped' /\ Channels'
    BY <1>1, PipeSame, BusSame
  <1>3. Tab'
    BY <1>1, PageKeeps, Typed
  <1>. QED  BY <1>1, <1>2, <1>3, TabKeeps, Typed

LEMMA InitIInv == ASSUME Init PROVE IInv
  <1>1. ServerTyped
    BY DEF Init, ServerTyped, Where
  <1>2. Channels
    BY DEF Init, Channels
  <1>3. PageTyped /\ Counted
    BY NoneIsNoJob DEF Init, PageTyped, Counted, Idle
  <1>4. (\A j \in Jobs : JobInv(j)) /\ Fresh
    BY NoneIsNoJob DEF Init, JobInv, Holds, Fresh
  <1>5. Piped /\ Shown /\ Offers /\ Recoverable
    BY NoneIsNoJob DEF Init, Piped, Shown, Offers, Recoverable, Idle
  <1>. QED  BY <1>1, <1>2, <1>3, <1>4, <1>5 DEF IInv

LEMMA NextKeeps == ASSUME IInv, [Next]_vars PROVE IInv'
  <1>1. ASSUME NEW j \in Jobs, Task(j)
        PROVE  IInv'
    BY <1>1, AdmitKeeps, PhaseKeeps, FailKeeps, PersistKeeps, FinishKeeps, SampleKeeps, OfferKeeps DEF Task
  <1>2. ASSUME NEW j \in Jobs, Write(j)
        PROVE  IInv'
    BY <1>2, WriteCompletedKeeps, WriteFailedKeeps, WritePendingKeeps, WriteSaveKeeps, WriteSampledKeeps
    DEF Write
  <1>3. ASSUME NEW j \in Jobs, Hangup(j) \/ SaveElsewhere(j) \/ Collect(j) \/ Delete(j)
        PROVE  IInv'
    BY <1>3, HangupKeeps, SaveElsewhereKeeps, CollectKeeps, DeleteKeeps
  <1>4. CASE User
    BY <1>4, StartKeeps, CancelKeeps, ResetKeeps, DismissKeeps, SaveKeeps, ReloadKeeps, OpenKeeps DEF User
  <1>5. CASE Answers
    BY <1>5, PollAnsweredKeeps, SaveAnsweredKeeps, RestoredKeeps, GetAnsweredKeeps DEF Answers
  <1>6. CASE StartElsewhere \/ Receive \/ Break \/ Poll \/ Hear \/ LoseEvent
    BY <1>6, StartElsewhereKeeps, ReceiveKeeps, BreakKeeps, PollKeeps, HearKeeps, LoseEventKeeps
  <1>7. CASE UNCHANGED vars
    BY <1>7, StutterKeeps
  <1>. QED  BY <1>1, <1>2, <1>3, <1>4, <1>5, <1>6, <1>7 DEF Next

LEMMA IInvAlways == Spec => []IInv
  BY InitIInv, NextKeeps, PTL DEF Spec

LEMMA IInvTyped == ASSUME IInv PROVE TypeOK
  <1>1. rec.step \in {"off", "asleep", "asked"} /\ rec.left \in 0..MaxPolls
    BY Typed
  <1>2. /\ troubled \cup errored \subseteq Jobs
        /\ {trace, shown, last} \subseteq Jobs \cup {None} /\ {pt, kept, stream} \subseteq Own \cup {None}
    BY DEF IInv, ServerTyped, PageTyped
  <1>. QED  BY <1>1, <1>2 DEF IInv, TypeOK, ServerTyped, PageTyped, Counted, Where, Writes

\* What the tab shows as complete, by its own stream, a poll, an event, a record
\* asked for, a saved passthrough or after a reload, is stored as completed, or was
\* until somebody deleted it (onRowDelete of HistoryPanel.svelte takes nothing from the
\* tab); so is what a reload asks for; and whoever was told of an error has no completed
\* row unless a write or the building of the result failed (handleEvent, reconnect and
\* loadFromRecord of the store; the pipeline's persist_and_propagate).
THEOREM ToldIsStored == Spec => []TruthTold
  <1>1. ASSUME IInv
        PROVE  TruthTold
    <2>1. TypeOK
      BY <1>1, IInvTyped
    <2>2. \A j \in errored : row[j] = "completed" => j \in troubled
      BY <1>1 DEF IInv, JobInv, ServerTyped
    <2>3. QED  BY <1>1, <2>1, <2>2 DEF IInv, Shown, TruthTold
  <1>. QED  BY <1>1, IInvAlways, PTL

\* A result the tab shows for its own request is the one it remembers, and a
\* passthrough it offers is remembered unless a result was shown before it
\* (_saveSession of the store).
THEOREM ShownIsRemembered == Spec => []Recoverable
  <1>1. IInv => Recoverable
    BY DEF IInv
  <1>. QED  BY <1>1, IInvAlways, PTL
=============================================================================
