--------------------------- MODULE RoutingProofs ---------------------------
(***************************************************************************)
(* What the MCP server said last is what it is, unless it waits or spoke   *)
(* within a debounce; and it offers sampling only while a bridge is heard. *)
(* Both are proved method by method: each operator of the manager takes a  *)
(* sound manager to a sound one, and a step of the system is one of them.  *)
(***************************************************************************)
EXTENDS Routing, RateLimit, SequenceTheorems, FiniteSetTheorems, TLAPS

Payloads == BOOLEAN \X Caps
SessionFiles == [there : BOOLEAN, cap : BOOLEAN, streams : {"absent", "none", "some"}, last : Fresh..Stale]
Managers == [conn : BOOLEAN, cap : Caps, last : Fresh..Stale, handle : BOOLEAN, asleep : Nat, dying : Nat,
             pre : Caps, file : SessionFiles, out : Seq(Payloads), told : {<<>>} \cup Payloads, leaked : BOOLEAN]

\* What needs nothing to have been said: a handle has a broadcast asleep, who is
\* not connected samples nothing, and the file offers no more than the manager.
Base(m) ==
  /\ m \in Managers /\ Len(m.out) <= MaxOut
  /\ m.handle => m.asleep > 0
  /\ ~m.conn => m.cap = "unknown"
  /\ m.file.cap => m.cap = "yes"

\* What was said last. A client that is back within the debounce was announced in
\* it; and a lone sleeper keeps what was said before its client left.
Said(m) ==
  /\ m.handle /\ m.conn => m.leaked
  /\ m.told \in {Payload(m), <<>>} \/ m.asleep > 0 \/ m.leaked
  /\ m.handle /\ m.asleep = 1 /\ ~m.leaked => m.told \in {<<>>, <<TRUE, m.pre>>}

Sound(m) == Base(m) /\ Said(m)

\* The backend and the streams.
Surroundings ==
  /\ backend \in [conn : BOOLEAN, cap : Caps, last : Fresh..Stale]
  /\ {open, registered, streams} \subseteq SUBSET Clients
  /\ streams \subseteq open \cap registered /\ registered \subseteq Bridges
  /\ spent \in 0..MaxFaults /\ heard \in BOOLEAN

IInv == Sound(mcp) /\ Surroundings /\ (mcp.cap = "yes" => heard)

-----------------------------------------------------------------------------
(* The methods of the manager.                                             *)

\* Whatever changed, saying so makes it sound.
LEMMA BroadcastSound ==
    ASSUME NEW m, Base(m)
    PROVE  Sound(Broadcast(m)) /\ Broadcast(m).cap = m.cap /\ Broadcast(m).conn = m.conn
  <1>1. Payload(m) \in Payloads
    BY DEF Base, Managers, Payload, Payloads
  <1>2. /\ (IF Len(m.out) < MaxOut THEN Append(m.out, Payload(m)) ELSE m.out) \in Seq(Payloads)
        /\ Len(IF Len(m.out) < MaxOut THEN Append(m.out, Payload(m)) ELSE m.out) <= MaxOut
    BY <1>1, RoutingAssumption, AppendProperties, LenProperties DEF Base, Managers
  <1> DEFINE out == IF Len(m.out) < MaxOut THEN Append(m.out, Payload(m)) ELSE m.out
  <1>3. Broadcast(m) = [m EXCEPT !.out = out, !.told = Payload(m), !.leaked = m.handle]
    BY DEF Broadcast
  <1> HIDE DEF out
  <1>4. out \in Seq(Payloads) /\ Len(out) <= MaxOut
    BY <1>2 DEF out
  <1>5. Base(Broadcast(m))
    BY <1>1, <1>3, <1>4 DEF Base, Managers
  <1>6. Said(Broadcast(m))
    BY <1>3 DEF Base, Managers, Said, Payload
  <1> QED BY <1>3, <1>5, <1>6 DEF Sound, Base, Managers

\* Cancelling hands the sleeper over.
LEMMA CancelIs ==
    ASSUME NEW m, Base(m)
    PROVE  /\ Base(Cancel(m)) /\ ~ Cancel(m).handle
           /\ Cancel(m).asleep = (IF m.handle THEN m.asleep - 1 ELSE m.asleep)
           /\ \A f \in {"conn", "cap", "last", "pre", "file", "out", "told", "leaked"} :
                Cancel(m)[f] = m[f]
  <1>1. CASE ~m.handle
    BY <1>1 DEF Base, Cancel
  <1>2. CASE m.handle
    <2>1. Cancel(m) = [m EXCEPT !.handle = FALSE, !.asleep = m.asleep - 1, !.dying = m.dying + 1]
      BY <1>2 DEF Cancel
    <2>2. m.asleep - 1 \in Nat /\ m.dying + 1 \in Nat
      BY <1>2 DEF Base, Managers
    <2> DEFINE a == m.asleep - 1
               d == m.dying + 1
    <2>3. a \in Nat /\ d \in Nat /\ Cancel(m) = [m EXCEPT !.handle = FALSE, !.asleep = a, !.dying = d]
      BY <2>1, <2>2
    <2>4. a = m.asleep - 1
      OBVIOUS
    <2> HIDE DEF a, d
    <2>5. Cancel(m) \in Managers
      BY <2>3 DEF Base, Managers
    <2> QED BY <1>2, <2>3, <2>4, <2>5 DEF Base, Managers
  <1> QED BY <1>1, <1>2

\* What was said is sound as long as none of what it speaks of changes.
LEMMA SaidFrame ==
    ASSUME NEW m, NEW n, Said(m),
           \A f \in {"conn", "cap", "handle", "asleep", "pre", "told", "leaked"} : n[f] = m[f]
    PROVE  Said(n)
  BY DEF Said, Payload

\* Rewriting the file, or deleting it, disturbs nothing else.
LEMMA PersistIs ==
    ASSUME NEW m, m \in Managers, Len(m.out) <= MaxOut, m.handle => m.asleep > 0,
           ~m.conn => m.cap = "unknown"
    PROVE  /\ Base(Persist(m)) /\ Base(Forget(m))
           /\ \A f \in {"conn", "cap", "last", "handle", "asleep", "dying", "pre", "out", "told", "leaked"} :
                Persist(m)[f] = m[f] /\ Forget(m)[f] = m[f]
  <1> DEFINE f == [there |-> TRUE, cap |-> m.cap = "yes", streams |-> "absent", last |-> Fresh]
  <1>1. f \in SessionFiles /\ NoFile \in SessionFiles /\ ~NoFile.cap /\ (f.cap => m.cap = "yes")
    <2>1. NoFile \in SessionFiles /\ ~NoFile.cap /\ Fresh \in Fresh..Stale
      BY DEF SessionFiles, NoFile, Fresh, Stale
    <2> DEFINE b == m.cap = "yes"
    <2>2. b \in BOOLEAN
      OBVIOUS
    <2>3. f = [there |-> TRUE, cap |-> b, streams |-> "absent", last |-> Fresh]
      OBVIOUS
    <2> HIDE DEF b, f
    <2>4. f \in SessionFiles /\ f.cap = b
      BY <2>1, <2>2, <2>3 DEF SessionFiles
    <2> QED BY <2>1, <2>4 DEF b
  <1>2. Persist(m) = [m EXCEPT !.file = f] /\ Forget(m) = [m EXCEPT !.file = NoFile]
    BY DEF Persist, Forget
  <1> HIDE DEF f
  <1>3. Persist(m) \in Managers /\ Forget(m) \in Managers
    BY <1>1, <1>2 DEF Managers
  <1>4. /\ \A g \in {"conn", "cap", "last", "handle", "asleep", "dying", "pre", "out", "told", "leaked"} :
             Persist(m)[g] = m[g] /\ Forget(m)[g] = m[g]
        /\ Persist(m).file = f /\ Forget(m).file = NoFile
    BY <1>2 DEF Managers
  <1> QED BY <1>1, <1>3, <1>4 DEF Base

LEMMA OnInitializeSound ==
    ASSUME NEW m, Sound(m), NEW cap \in {"yes", "no"}
    PROVE  Sound(OnInitialize(m, cap)) /\ OnInitialize(m, cap).cap = cap
  <1> DEFINE pre == IF m.handle THEN "unknown" ELSE m.pre
             was == [Cancel(m) EXCEPT !.pre = pre]
             here == [was EXCEPT !.conn = TRUE, !.cap = cap, !.last = Fresh]
             now == Persist(here)
             same == (m.handle /\ m.pre = cap) \/ (m.conn /\ m.cap = cap)
  <1>1. OnInitialize(m, cap) = IF same THEN now ELSE Broadcast(now)
    BY CancelIs DEF OnInitialize, Sound
  <1>2. Base(m) /\ Said(m)
    BY DEF Sound
  <1>3. Base(Cancel(m)) /\ ~ Cancel(m).handle
    BY <1>2, CancelIs
  <1>4. pre \in Caps
    BY <1>2 DEF Base, Managers, Caps
  <1> HIDE DEF pre
  <1>5. /\ here \in Managers /\ Len(here.out) <= MaxOut /\ ~here.handle /\ here.conn /\ here.cap = cap
        /\ here.asleep = Cancel(m).asleep /\ here.told = Cancel(m).told /\ here.leaked = Cancel(m).leaked
    <2>1. Fresh \in Fresh..Stale /\ cap \in Caps /\ cap # "unknown"
      BY DEF Fresh, Stale, Caps
    <2> DEFINE c == Cancel(m)
    <2>2. here = [c EXCEPT !.pre = pre, !.conn = TRUE, !.cap = cap, !.last = Fresh]
      OBVIOUS
    <2>3. c \in Managers /\ Len(c.out) <= MaxOut /\ ~c.handle
      BY <1>3 DEF Base
    <2> HIDE DEF c, here, was
    <2>4. here \in Managers
      BY <1>4, <2>1, <2>2, <2>3 DEF Managers
    <2>5. here.conn /\ here.cap = cap /\ \A f \in {"handle", "out", "asleep", "told", "leaked"} : here[f] = c[f]
      BY <2>2, <2>3 DEF Managers
    <2> QED BY <2>3, <2>4, <2>5 DEF c
  <1> HIDE DEF was, here
  <1>6. /\ Base(now) /\ ~now.handle /\ now.conn /\ now.cap = cap
        /\ now.asleep = here.asleep /\ now.told = here.told /\ now.leaked = here.leaked
    BY <1>5, PersistIs
  <1>7. /\ now.asleep = IF m.handle THEN m.asleep - 1 ELSE m.asleep
        /\ now.told = m.told /\ now.leaked = m.leaked
    BY <1>2, <1>5, <1>6, CancelIs
  <1> HIDE DEF now
  <1>8. CASE same
    <2>1. Payload(now) = <<TRUE, cap>>
      BY <1>6, <1>2 DEF Payload, Base, Managers
    <2>2. m.asleep \in Nat /\ (m.handle => m.asleep > 0) /\ m.conn \in BOOLEAN
      BY <1>2 DEF Base, Managers
    <2>3. now.told \in {<<TRUE, cap>>, <<>>} \/ now.asleep > 0 \/ now.leaked
      <3>1. CASE m.handle /\ m.asleep = 1
        BY <3>1, <1>2, <1>7, <1>8 DEF Said, Payload
      <3>2. CASE m.handle /\ m.asleep > 1
        <4> DEFINE a == m.asleep
        <4>1. a \in Nat /\ a > 1 /\ now.asleep = a - 1
          BY <3>2, <1>7, <2>2
        <4> HIDE DEF a
        <4>2. a - 1 > 0
          BY <4>1
        <4> QED BY <4>1, <4>2
      <3>3. CASE ~m.handle
        BY <3>3, <1>2, <1>7, <1>8, <2>2 DEF Said, Payload
      <3>4. m.handle => m.asleep = 1 \/ m.asleep > 1
        BY <2>2
      <3> QED BY <3>1, <3>2, <3>3, <3>4
    <2>4. Said(now)
      BY <1>6, <2>1, <2>3 DEF Said
    <2> QED BY <1>1, <1>6, <1>8, <2>4 DEF Sound
  <1>9. CASE ~same
    BY <1>1, <1>6, <1>9, BroadcastSound
  <1> QED BY <1>8, <1>9

LEMMA OnActivitySound ==
    ASSUME NEW m, Sound(m)
    PROVE  Sound(OnActivity(m)) /\ OnActivity(m).cap = m.cap
  <1> DEFINE here == [m EXCEPT !.conn = TRUE, !.last = Fresh]
             now == Persist(here)
  <1>1. OnActivity(m) = IF m.conn THEN now ELSE Broadcast(now)
    BY DEF OnActivity
  <1>2. Base(m) /\ Said(m)
    BY DEF Sound
  <1>3. /\ here \in Managers /\ Len(here.out) <= MaxOut /\ (here.handle => here.asleep > 0) /\ here.conn
        /\ \A f \in {"cap", "handle", "asleep", "pre", "told", "leaked"} : here[f] = m[f]
    <2>1. Fresh \in Fresh..Stale
      BY DEF Fresh, Stale
    <2>2. here \in Managers
      BY <1>2, <2>1 DEF Base, Managers
    <2>3. here.conn /\ \A f \in {"out", "cap", "handle", "asleep", "pre", "told", "leaked"} : here[f] = m[f]
      BY <1>2 DEF Base, Managers
    <2> QED BY <1>2, <2>2, <2>3 DEF Base
  <1> HIDE DEF here
  <1>4. /\ Base(now) /\ now.conn
        /\ \A f \in {"cap", "handle", "asleep", "pre", "told", "leaked"} : now[f] = m[f]
    BY <1>3, PersistIs
  <1>5. m.conn \in BOOLEAN /\ now.conn \in BOOLEAN
    BY <1>2, <1>4 DEF Base, Managers
  <1> HIDE DEF now
  <1>6. CASE m.conn
    <2>1. now.conn = m.conn
      BY <1>4, <1>5, <1>6
    <2>2. Said(now)
      BY <1>2, <1>4, <2>1, SaidFrame
    <2> QED BY <1>1, <1>4, <1>6, <2>2 DEF Sound
  <1>7. CASE ~m.conn
    BY <1>1, <1>4, <1>7, BroadcastSound
  <1> QED BY <1>6, <1>7

LEMMA OnDisconnectSound ==
    ASSUME NEW m, Sound(m)
    PROVE  Sound(OnDisconnect(m)) /\ OnDisconnect(m).cap # "yes"
  <1>1. Base(m) /\ Said(m)
    BY DEF Sound
  <1>2. CASE ~m.conn /\ m.cap = "unknown"
    BY <1>1, <1>2 DEF OnDisconnect, Sound
  <1>3. CASE ~(~m.conn /\ m.cap = "unknown")
    <2> DEFINE left == [m EXCEPT !.conn = FALSE, !.cap = "unknown", !.pre = m.cap, !.last = Stale]
               gone == Cancel(Forget(left))
               now == [gone EXCEPT !.handle = TRUE, !.asleep = gone.asleep + 1]
    <2>1. OnDisconnect(m) = now
      BY <1>3 DEF OnDisconnect
    <2>2. /\ left \in Managers /\ Len(left.out) <= MaxOut /\ (left.handle => left.asleep > 0)
          /\ ~left.conn /\ left.cap = "unknown" /\ left.pre = m.cap
          /\ \A f \in {"handle", "asleep", "told", "leaked"} : left[f] = m[f]
      <3>1. Stale \in Fresh..Stale /\ "unknown" \in Caps
        BY DEF Fresh, Stale, Caps
      <3>2. left \in Managers
        BY <1>1, <3>1 DEF Base, Managers
      <3>3. /\ ~left.conn /\ left.cap = "unknown" /\ left.pre = m.cap
            /\ \A f \in {"out", "handle", "asleep", "told", "leaked"} : left[f] = m[f]
        BY <1>1 DEF Base, Managers
      <3> QED BY <1>1, <3>2, <3>3 DEF Base
    <2> HIDE DEF left
    <2>3. /\ Base(Forget(left)) /\ ~Forget(left).conn /\ Forget(left).cap = "unknown" /\ Forget(left).pre = m.cap
          /\ \A f \in {"handle", "asleep", "told", "leaked"} : Forget(left)[f] = m[f]
      BY <2>2, PersistIs
    <2>4. /\ Base(gone) /\ ~gone.conn /\ gone.cap = "unknown" /\ gone.pre = m.cap
          /\ gone.told = m.told /\ gone.leaked = m.leaked
          /\ gone.asleep = IF m.handle THEN m.asleep - 1 ELSE m.asleep
      BY <2>3, CancelIs
    <2> HIDE DEF gone
    <2>5. /\ Base(now) /\ ~now.conn /\ now.cap = "unknown" /\ now.handle /\ now.pre = m.cap
          /\ now.told = m.told /\ now.leaked = m.leaked /\ now.asleep = gone.asleep + 1
      <3>1. gone.asleep \in Nat
        BY <2>4 DEF Base, Managers
      <3>2. gone.asleep + 1 \in Nat /\ gone.asleep + 1 > 0
        BY <3>1
      <3> DEFINE a == gone.asleep + 1
      <3>3. a \in Nat /\ a > 0 /\ now = [gone EXCEPT !.handle = TRUE, !.asleep = a]
        BY <3>2
      <3> HIDE DEF a
      <3>4. now \in Managers
        BY <2>4, <3>3 DEF Base, Managers
      <3>5. now.asleep = a
        BY <2>4, <3>3 DEF Base, Managers
      <3>6. Base(now) /\ ~now.conn /\ now.cap = "unknown" /\ now.handle /\ now.pre = m.cap
            /\ now.told = m.told /\ now.leaked = m.leaked
        BY <2>4, <3>3, <3>4 DEF Base, Managers
      <3> QED BY <3>5, <3>6 DEF a
    <2>6. m.asleep \in Nat /\ (m.handle => m.asleep > 0) /\ m.conn
      BY <1>1, <1>3 DEF Base, Managers
    <2>7. now.asleep > 0
      BY <2>4, <2>5, <2>6
    <2>8. now.asleep = 1 /\ ~now.leaked => now.told \in {<<>>, <<TRUE, now.pre>>}
      <3>1. CASE m.handle
        BY <3>1, <1>1, <2>5, <2>6 DEF Said
      <3>2. CASE ~m.handle /\ now.asleep = 1
        <4>1. m.asleep = 0
          BY <3>2, <2>4, <2>5, <2>6
        <4>2. m.conn = TRUE
          BY <1>1, <2>6 DEF Base, Managers
        <4>3. m.told \in {<<TRUE, m.cap>>, <<>>} \/ m.leaked
          <5>1. m.asleep > 0 <=> FALSE
            BY <4>1
          <5>2. Payload(m) = <<TRUE, m.cap>>
            BY <4>2 DEF Payload
          <5> QED BY <5>1, <5>2, <1>1 DEF Said
        <4> HIDE DEF now
        <4> QED BY <4>3, <2>5
      <3> QED BY <3>1, <3>2
    <2> HIDE DEF now
    <2>9. Said(now)
      BY <2>5, <2>7, <2>8 DEF Said
    <2> QED BY <2>1, <2>5, <2>9 DEF Sound
  <1> QED BY <1>2, <1>3

LEMMA OnSamplingDisconnectSound ==
    ASSUME NEW m, Sound(m)
    PROVE  Sound(OnSamplingDisconnect(m)) /\ OnSamplingDisconnect(m).cap # "yes"
  <1>1. Base(m) /\ Said(m)
    BY DEF Sound
  <1>2. CASE m.cap = "unknown"
    BY <1>2 DEF OnSamplingDisconnect
  <1>3. CASE m.cap # "unknown"
    <2> DEFINE quiet == [m EXCEPT !.cap = "unknown"]
    <2>1. quiet \in Managers /\ Len(quiet.out) <= MaxOut /\ (quiet.handle => quiet.asleep > 0) /\ quiet.cap = "unknown"
      BY <1>1 DEF Base, Managers, Caps
    <2>2. OnSamplingDisconnect(m) = Broadcast(Persist(quiet))
      BY <1>3 DEF OnSamplingDisconnect
    <2> HIDE DEF quiet
    <2>3. Base(Persist(quiet)) /\ Persist(quiet).cap = "unknown"
      BY <2>1, PersistIs
    <2> QED BY <2>2, <2>3, BroadcastSound
  <1> QED BY <1>2, <1>3

LEMMA OnSessionInvalidatedSound ==
    ASSUME NEW m, Sound(m)
    PROVE  Sound(OnSessionInvalidated(m)) /\ OnSessionInvalidated(m).cap # "yes"
  <1>1. Base(m) /\ Said(m)
    BY DEF Sound
  <1>2. CASE ~m.conn /\ m.cap = "unknown" /\ ~m.handle
    BY <1>2 DEF OnSessionInvalidated
  <1>3. CASE ~(~m.conn /\ m.cap = "unknown" /\ ~m.handle)
    <2> DEFINE pre == IF m.handle THEN "unknown" ELSE m.pre
               left == [m EXCEPT !.conn = FALSE, !.cap = "unknown", !.last = Stale, !.pre = pre]
    <2>0. pre \in Caps
      BY <1>1 DEF Base, Managers, Caps
    <2>1. OnSessionInvalidated(m) = Broadcast(Forget(Cancel(left)))
      BY <1>3 DEF OnSessionInvalidated
    <2>2. m.file \in SessionFiles
      BY <1>1 DEF Base, Managers
    <2> HIDE DEF pre
    <2>3. left \in Managers /\ Len(left.out) <= MaxOut /\ (left.handle => left.asleep > 0)
          /\ ~left.conn /\ left.cap = "unknown"
      <3>1. Stale \in Fresh..Stale /\ "unknown" \in Caps
        BY DEF Fresh, Stale, Caps
      <3>2. left \in Managers
        BY <1>1, <2>0, <3>1 DEF Base, Managers
      <3>3. /\ ~left.conn /\ left.cap = "unknown"
            /\ \A f \in {"out", "handle", "asleep"} : left[f] = m[f]
        BY <1>1 DEF Base, Managers
      <3> QED BY <1>1, <3>2, <3>3 DEF Base
    <2> HIDE DEF left
    <2>4. Cancel(left) \in Managers /\ Len(Cancel(left).out) <= MaxOut /\ ~Cancel(left).handle
          /\ ~Cancel(left).conn /\ Cancel(left).cap = "unknown"
      <3> DEFINE a == left.asleep - 1
                 d == left.dying + 1
      <3>1. left.handle => a \in Nat /\ d \in Nat
        BY <2>3 DEF Managers
      <3>2. Cancel(left) = IF left.handle THEN [left EXCEPT !.handle = FALSE, !.asleep = a, !.dying = d] ELSE left
        BY DEF Cancel
      <3> HIDE DEF a, d
      <3> QED BY <2>3, <3>1, <3>2 DEF Managers
    <2> DEFINE c == Cancel(left)
    <2> HIDE DEF c
    <2>5. Base(Forget(c)) /\ Forget(c).cap = "unknown"
      BY <2>4, PersistIs DEF c
    <2> QED BY <2>1, <2>5, BroadcastSound DEF c
  <1> QED BY <1>2, <1>3

-----------------------------------------------------------------------------
(* Clients.                                                                *)

LEMMA TouchedSound ==
    ASSUME NEW m, Sound(m), NEW o, NEW n \in Touched(m, o)
    PROVE  Sound(n) /\ n.cap = m.cap
  <1>1. Base(m) /\ Said(m) /\ m.file \in SessionFiles
    BY DEF Sound, Base, Managers
  <1> DEFINE s == IF o = {} THEN "none" ELSE "some"
             f == [m.file EXCEPT !.last = Fresh, !.streams = s]
  <1>2. n = m \/ n = [m EXCEPT !.file = f]
    BY <1>1 DEF Touched, SessionFiles
  <1>3. f \in SessionFiles /\ f.cap = m.file.cap
    <2>1. Fresh \in Fresh..Stale /\ s \in {"absent", "none", "some"}
      BY DEF Fresh, Stale
    <2> HIDE DEF s
    <2> QED BY <1>1, <2>1 DEF SessionFiles
  <1> HIDE DEF f
  <1>4. CASE n = [m EXCEPT !.file = f]
    <2>1. n \in Managers
      BY <1>1, <1>3, <1>4 DEF Base, Managers
    <2>2. /\ n.file = f
          /\ \A g \in {"conn", "cap", "handle", "asleep", "pre", "out", "told", "leaked"} : n[g] = m[g]
      BY <1>1, <1>4 DEF Base, Managers
    <2>3. Base(n)
      BY <1>1, <1>3, <2>1, <2>2 DEF Base
    <2>4. Said(n)
      BY <1>1, <2>2, SaidFrame
    <2> QED BY <2>2, <2>3, <2>4 DEF Sound
  <1> QED BY <1>2, <1>4

LEMMA RequestSound ==
    ASSUME NEW m, Sound(m), NEW c
    PROVE  Sound(Request(m, c)) /\ Request(m, c).cap = m.cap
  BY OnActivitySound DEF Request

LEMMA TouchedRequestSound ==
    ASSUME NEW m, Sound(m), NEW c, NEW o, NEW n \in Touched(Request(m, c), o)
    PROVE  Sound(n) /\ n.cap = m.cap
  <1> DEFINE q == Request(m, c)
  <1>1. Sound(q) /\ q.cap = m.cap
    BY RequestSound
  <1> HIDE DEF q
  <1>2. \A k \in Touched(q, o) : Sound(k) /\ k.cap = q.cap
    BY <1>1, TouchedSound
  <1> QED BY <1>1, <1>2 DEF q

LEMMA InspectSound ==
    ASSUME NEW m, Sound(m), NEW c
    PROVE  Sound(Inspect(m, c)) /\ (Inspect(m, c).cap = "yes" => m.cap = "yes" \/ c \in Bridges)
  <1>1. CASE c \in Bridges
    BY <1>1, OnInitializeSound DEF Inspect
  <1>2. CASE c \notin Bridges
    <2>1. Sound(OnInitialize(m, "no")) /\ OnInitialize(m, "no").cap = "no"
      BY OnInitializeSound
    <2> QED BY <1>2, <2>1 DEF Inspect
  <1> QED BY <1>1, <1>2

\* Closing a stream with other streams open, or the last one, or the last bridge's.
LEMMA ClosingSound ==
    ASSUME NEW m, Sound(m), NEW s \in {"absent", "none", "some"}
    PROVE  LET n == [m EXCEPT !.file.streams = s] IN Sound(n) /\ n.cap = m.cap
  <1> DEFINE n == [m EXCEPT !.file.streams = s]
             f == [m.file EXCEPT !.streams = s]
  <1>1. Base(m) /\ Said(m) /\ m.file \in SessionFiles
    BY DEF Sound, Base, Managers
  <1>2. n = [m EXCEPT !.file = f]
    BY <1>1 DEF Base, Managers
  <1>3. f \in SessionFiles /\ f.cap = m.file.cap
    BY <1>1 DEF SessionFiles
  <1> HIDE DEF f, n
  <1>4. n \in Managers
    BY <1>1, <1>2, <1>3 DEF Base, Managers
  <1>5. /\ n.file = f
        /\ \A g \in {"conn", "cap", "handle", "asleep", "pre", "out", "told", "leaked"} : n[g] = m[g]
    BY <1>1, <1>2 DEF Base, Managers
  <1>6. Base(n)
    BY <1>1, <1>3, <1>4, <1>5 DEF Base
  <1>7. Said(n)
    BY <1>1, <1>5, SaidFrame
  <1>8. Sound(n) /\ n.cap = m.cap
    BY <1>5, <1>6, <1>7 DEF Sound
  <1> QED BY <1>8 DEF n

\* What a step of a client has to leave for the invariant to hold.
LEMMA ClientLeaves ==
    ASSUME IInv, UNCHANGED <<backend, spent>>,
           Sound(mcp'), mcp'.cap = "yes" => heard', heard' \in BOOLEAN,
           open' \subseteq Clients, registered' \subseteq Bridges,
           streams' \subseteq open' \cap registered'
    PROVE  IInv'
  BY DEF IInv, Surroundings, Clients

LEMMA SessionEndsKeeps ==
    ASSUME IInv, SessionEnds
    PROVE  IInv'
  <1>1. /\ Base(Forget(mcp)) /\ mcp' = Forget(mcp)
        /\ \A f \in {"conn", "cap", "handle", "asleep", "pre", "told", "leaked"} : Forget(mcp)[f] = mcp[f]
    BY PersistIs DEF IInv, Sound, Base, SessionEnds
  <1>2. Sound(mcp')
    BY <1>1, SaidFrame DEF IInv, Sound
  <1> QED BY <1>1, <1>2 DEF IInv, Surroundings, SessionEnds

LEMMA ClientKeeps ==
    ASSUME IInv, ClientStep
    PROVE  IInv'
  <1>1. /\ Sound(mcp) /\ (mcp.cap = "yes" => heard) /\ heard \in BOOLEAN
        /\ open \subseteq Clients /\ registered \subseteq Bridges /\ streams \subseteq open \cap registered
    BY DEF IInv, Surroundings
  <1>10. CASE SessionEnds
    BY <1>10, SessionEndsKeeps
  <1> SUFFICES ASSUME ~SessionEnds PROVE IInv'
    BY <1>10
  <1>2. PICK c \in Clients :
            Post(c) \/ Chunk(c) \/ CloseStream(c) \/ Rejected(c)
            \/ \E sid \in BOOLEAN : Initialize(c, sid) \/ OpenStream(c, sid)
    BY DEF ClientStep
  <1>3. heard' \in BOOLEAN
    BY <1>1, <1>2 DEF Post, Chunk, CloseStream, Rejected, Initialize, OpenStream, Speaks
  <1>4. CASE Post(c)
    <2>1. Sound(mcp') /\ mcp'.cap = mcp.cap
      BY <1>1, <1>4, TouchedRequestSound DEF Post
    <2> QED BY <1>1, <1>3, <1>4, <2>1, ClientLeaves DEF Post, Speaks
  <1>5. CASE Chunk(c)
    <2>1. Sound(mcp') /\ mcp'.cap = mcp.cap
      BY <1>1, <1>5, TouchedRequestSound DEF Chunk
    <2> QED BY <1>1, <1>3, <1>5, <2>1, ClientLeaves DEF Chunk
  <1>6. CASE CloseStream(c)
    <2> DEFINE s == IF ~mcp.file.there THEN mcp.file.streams
                    ELSE IF open' = {} THEN "none" ELSE "some"
               m == [mcp EXCEPT !.file.streams = s]
    <2>1. /\ UNCHANGED <<backend, registered, spent>>
          /\ c \in open /\ open' = open \ {c} /\ streams' = streams \ {c}
          /\ heard' = (heard /\ ~(c \in streams /\ streams' = {}))
      BY <1>6 DEF CloseStream
    <2>2. mcp' = IF open' = {} THEN OnDisconnect(m)
                 ELSE IF c \in streams /\ streams' = {} THEN OnSamplingDisconnect(m) ELSE m
      BY <1>6 DEF CloseStream
    <2>3. s \in {"absent", "none", "some"}
      BY <1>1 DEF Sound, Base, Managers, SessionFiles
    <2> HIDE DEF s
    <2>4. Sound(m) /\ m.cap = mcp.cap
      BY <1>1, <2>3, ClosingSound
    <2> HIDE DEF m
    <2>5. Sound(mcp') /\ (mcp'.cap = "yes" => mcp.cap = "yes" /\ ~(c \in streams /\ streams' = {}))
      <3>1. CASE open' = {}
        BY <2>2, <2>4, <3>1, OnDisconnectSound
      <3>2. CASE open' # {} /\ c \in streams /\ streams' = {}
        BY <2>2, <2>4, <3>2, OnSamplingDisconnectSound
      <3>3. CASE open' # {} /\ ~(c \in streams /\ streams' = {})
        BY <2>2, <2>4, <3>3
      <3> QED BY <3>1, <3>2, <3>3
    <2> QED BY <1>1, <1>3, <2>1, <2>5, ClientLeaves
  <1>7. CASE Rejected(c)
    <2>1. PICK m \in Touched(Request(mcp, c), open) :
              mcp' = IF m.file.there THEN OnSessionInvalidated(Forget(m)) ELSE m
      BY <1>7 DEF Rejected
    <2>2. Sound(m) /\ m.cap = mcp.cap
      BY <1>1, TouchedRequestSound
    <2>3. /\ Base(Forget(m))
          /\ \A f \in {"conn", "cap", "handle", "asleep", "pre", "told", "leaked"} : Forget(m)[f] = m[f]
      BY <2>2, PersistIs DEF Sound, Base
    <2>4. Sound(Forget(m))
      BY <2>2, <2>3, SaidFrame DEF Sound
    <2>5. Sound(mcp') /\ (mcp'.cap = "yes" => mcp.cap = "yes")
      BY <2>1, <2>2, <2>4, OnSessionInvalidatedSound
    <2> QED BY <1>1, <1>3, <1>7, <2>5, ClientLeaves DEF Rejected, Speaks
  <1>8. ASSUME NEW sid \in BOOLEAN, Initialize(c, sid) PROVE IInv'
    <2>1. PICK m \in Touched(Request(mcp, c), open) : mcp' = Inspect(m, c)
      BY <1>8 DEF Initialize
    <2>2. Sound(m) /\ m.cap = mcp.cap
      BY <1>1, TouchedRequestSound
    <2>3. Sound(mcp') /\ (mcp'.cap = "yes" => mcp.cap = "yes" \/ c \in Bridges)
      BY <2>1, <2>2, InspectSound
    <2>4. registered' \subseteq Bridges /\ (registered' = registered \/ registered' = registered \cup {c}
                                            \/ (registered' = registered \ {c} /\ c \notin Bridges))
      BY <1>1, <1>8 DEF Initialize
    <2>5. streams' \subseteq open' \cap registered'
      BY <1>1, <1>8, <2>4 DEF Initialize
    <2> QED BY <1>1, <1>3, <1>8, <2>3, <2>4, <2>5, ClientLeaves DEF Initialize, Speaks
  <1>9. ASSUME NEW sid \in BOOLEAN, OpenStream(c, sid) PROVE IInv'
    <2>1. Sound(mcp') /\ mcp'.cap = mcp.cap
      <3>1. CASE sid
        BY <1>1, <1>9, <3>1, RequestSound DEF OpenStream
      <3>2. CASE ~sid
        <4> DEFINE n == OnActivity(mcp)
                   b == mcp.cap = "yes"
                   f == [there |-> TRUE, cap |-> b, streams |-> "some", last |-> Fresh]
        <4>1. mcp' = [n EXCEPT !.file = f]
          BY <1>9, <3>2 DEF OpenStream
        <4>2. Sound(n) /\ n.cap = mcp.cap
          BY <1>1, OnActivitySound
        <4>3. b \in BOOLEAN /\ Fresh \in Fresh..Stale
          BY DEF Fresh, Stale
        <4>4. f.cap => n.cap = "yes"
          BY <4>2
        <4> HIDE DEF b, n
        <4>5. f \in SessionFiles
          BY <4>3 DEF SessionFiles
        <4> HIDE DEF f
        <4>6. mcp' \in Managers
          BY <4>1, <4>2, <4>5 DEF Sound, Base, Managers
        <4>7. /\ mcp'.file = f
              /\ \A g \in {"conn", "cap", "handle", "asleep", "pre", "out", "told", "leaked"} : mcp'[g] = n[g]
          BY <4>1, <4>2, <4>5 DEF Sound, Base, Managers
        <4>8. Base(mcp')
          BY <4>2, <4>4, <4>6, <4>7 DEF Sound, Base
        <4>9. Said(mcp')
          BY <4>2, <4>7, SaidFrame DEF Sound
        <4> QED BY <4>2, <4>7, <4>8, <4>9 DEF Sound
      <3> QED BY <3>1, <3>2
    <2> QED BY <1>1, <1>3, <1>9, <2>1, ClientLeaves DEF OpenStream, Speaks
  <1> QED BY <1>2, <1>4, <1>5, <1>6, <1>7, <1>8, <1>9

-----------------------------------------------------------------------------
(* The deferred broadcast, the notifications, the loops and the restarts.  *)

LEMMA DeferredKeeps ==
    ASSUME IInv, Deferred
    PROVE  IInv'
  <1>1. Sound(mcp) /\ Base(mcp) /\ Said(mcp)
    BY DEF IInv, Sound
  <1>2. "unknown" \in Caps
    BY DEF Caps
  <1> SUFFICES Sound(mcp') /\ mcp'.cap = mcp.cap
    BY DEF IInv, Surroundings, Deferred
  <1>3. CASE mcp.asleep > 0 /\ mcp' = Broadcast([mcp EXCEPT !.asleep = @ - 1, !.handle = FALSE, !.pre = "unknown"])
    <2> DEFINE a == mcp.asleep - 1
               m == [mcp EXCEPT !.asleep = a, !.handle = FALSE, !.pre = "unknown"]
    <2>1. a \in Nat
      BY <1>1, <1>3 DEF Base, Managers
    <2>2. mcp' = Broadcast(m)
      BY <1>3
    <2> HIDE DEF a
    <2>3. m \in Managers
      BY <1>1, <1>2, <2>1 DEF Base, Managers
    <2>4. ~m.handle /\ \A f \in {"conn", "cap", "out", "file"} : m[f] = mcp[f]
      BY <1>1 DEF Base, Managers
    <2> HIDE DEF m
    <2>5. Base(m)
      BY <1>1, <2>3, <2>4 DEF Base
    <2> QED BY <2>2, <2>4, <2>5, BroadcastSound
  <1>4. CASE mcp.dying > 0 /\ mcp' = [mcp EXCEPT !.dying = @ - 1, !.handle = FALSE, !.pre = "unknown"]
    <2> DEFINE d == mcp.dying - 1
    <2>1. d \in Nat
      BY <1>1, <1>4 DEF Base, Managers
    <2>2. mcp' = [mcp EXCEPT !.dying = d, !.handle = FALSE, !.pre = "unknown"]
      BY <1>4
    <2> HIDE DEF d
    <2>3. mcp' \in Managers
      BY <1>1, <1>2, <2>1, <2>2 DEF Base, Managers
    <2>4. ~mcp'.handle /\ \A f \in {"conn", "cap", "out", "file", "asleep", "told", "leaked"} : mcp'[f] = mcp[f]
      BY <1>1, <2>2 DEF Base, Managers
    <2>5. Base(mcp')
      BY <1>1, <2>3, <2>4 DEF Base
    <2>6. Said(mcp')
      BY <1>1, <2>4 DEF Said, Payload
    <2> QED BY <2>4, <2>5, <2>6 DEF Sound
  <1> QED BY <1>3, <1>4 DEF Deferred

\* Taking a notification off the wire leaves a shorter sequence of payloads.
LEMMA TakingIs ==
    ASSUME NEW s \in Seq(Payloads), NEW i \in DOMAIN s
    PROVE  RemoveAt(s, i) \in Seq(Payloads) /\ Len(RemoveAt(s, i)) = Len(s) - 1 /\ s[i] \in Payloads
  <1>1. Len(s) \in Nat /\ i \in 1..Len(s) /\ DOMAIN s = 1..Len(s)
    BY LenProperties
  <1>2. \A j \in 1..Len(s) : s[j] \in Payloads
    BY ElementOfSeq
  <1> DEFINE a == i - 1
             b == i + 1
             l == Len(s)
  <1>3. a \in Int /\ b \in Int /\ l \in Int /\ 1 \in Int /\ (\A j \in 1..a : s[j] \in Payloads)
        /\ (\A j \in b..l : s[j] \in Payloads)
    BY <1>1, <1>2
  <1>4. a >= 0 /\ a < l /\ b = a + 2 /\ b <= l + 1
    BY <1>1
  <1>5. RemoveAt(s, i) = SubSeq(s, 1, a) \o SubSeq(s, b, l)
    BY DEF RemoveAt
  <1>6. l = Len(s)
    OBVIOUS
  <1> HIDE DEF a, b, l
  <1>7. SubSeq(s, 1, a) \in Seq(Payloads) /\ Len(SubSeq(s, 1, a)) = IF 1 <= a THEN a - 1 + 1 ELSE 0
    BY <1>3, SubSeqProperties
  <1>8. SubSeq(s, b, l) \in Seq(Payloads) /\ Len(SubSeq(s, b, l)) = IF b <= l THEN l - b + 1 ELSE 0
    BY <1>3, SubSeqProperties
  <1> DEFINE p == SubSeq(s, 1, a)
             q == SubSeq(s, b, l)
  <1>9. p \in Seq(Payloads) /\ q \in Seq(Payloads) /\ Len(p) = a /\ Len(q) = l - b + 1
    BY <1>3, <1>4, <1>7, <1>8
  <1> HIDE DEF p, q
  <1>10. p \o q \in Seq(Payloads) /\ Len(p \o q) = Len(p) + Len(q)
    BY <1>9, ConcatProperties
  <1>11. Len(p \o q) = l - 1
    BY <1>3, <1>4, <1>9, <1>10
  <1> QED BY <1>1, <1>2, <1>5, <1>6, <1>10, <1>11 DEF p, q

\* A manager that loses a notification is as sound as before.
LEMMA TakenSound ==
    ASSUME NEW m, Sound(m), NEW i \in DOMAIN m.out, NEW n, n = [m EXCEPT !.out = RemoveAt(@, i)]
    PROVE  Sound(n) /\ n.cap = m.cap
  <1>1. Base(m) /\ Said(m) /\ m.out \in Seq(Payloads)
    BY DEF Sound, Base, Managers
  <1> DEFINE s == m.out
             o == RemoveAt(s, i)
  <1>2. o \in Seq(Payloads) /\ Len(o) = Len(s) - 1 /\ Len(s) \in Nat
    BY <1>1, TakingIs, LenProperties
  <1>3. n = [m EXCEPT !.out = o]
    OBVIOUS
  <1>4. Len(s) <= MaxOut
    BY <1>1 DEF Base
  <1> HIDE DEF o
  <1>5. n \in Managers
    BY <1>1, <1>2, <1>3 DEF Base, Managers
  <1>6. /\ n.out = o
        /\ \A g \in {"conn", "cap", "handle", "asleep", "pre", "file", "told", "leaked"} : n[g] = m[g]
    BY <1>1, <1>3 DEF Base, Managers
  <1> HIDE DEF s
  <1>7. Len(o) <= MaxOut
    BY <1>2, <1>4, RoutingAssumption
  <1>8. Base(n)
    BY <1>1, <1>5, <1>6, <1>7 DEF Base
  <1>9. Said(n)
    BY <1>1, <1>6 DEF Said, Payload
  <1> QED BY <1>6, <1>8, <1>9 DEF Sound

LEMMA NotifiedKeeps ==
    ASSUME IInv, NEW i, Notified(i)
    PROVE  IInv'
  <1>1. Sound(mcp) /\ mcp.out \in Seq(Payloads) /\ i \in DOMAIN mcp.out
        /\ mcp' = [mcp EXCEPT !.out = RemoveAt(@, i)]
    BY DEF IInv, Sound, Base, Managers, Notified
  <1>2. Sound(mcp') /\ mcp'.cap = mcp.cap
    BY <1>1, TakenSound
  <1> DEFINE p == mcp.out[i]
  <1>3. p \in Payloads
    BY <1>1, TakingIs
  <1>4. backend' = [conn |-> p[1], cap |-> p[2], last |-> IF p[1] THEN Fresh ELSE Stale]
    BY DEF Notified
  <1> HIDE DEF p
  <1>5. backend' \in [conn : BOOLEAN, cap : Caps, last : Fresh..Stale]
    BY <1>3, <1>4 DEF Payloads, Fresh, Stale
  <1> QED BY <1>2, <1>5 DEF IInv, Surroundings, Notified

LEMMA LostKeeps ==
    ASSUME IInv, NEW i, Lost(i)
    PROVE  IInv'
  <1>1. Sound(mcp) /\ i \in DOMAIN mcp.out /\ mcp' = [mcp EXCEPT !.out = RemoveAt(@, i)]
    BY DEF IInv, Lost
  <1>2. Sound(mcp') /\ mcp'.cap = mcp.cap
    BY <1>1, TakenSound
  <1>3. spent' \in 0..MaxFaults
    BY RoutingAssumption DEF IInv, Surroundings, Lost, Fault
  <1> QED BY <1>2, <1>3 DEF IInv, Surroundings, Lost

\* The loops, of either process, work on a file and never touch what was said.
LEMMA FoundIs ==
    ASSUME NEW file \in SessionFiles
    PROVE  (IF file.cap THEN "yes" ELSE "unknown") \in Caps /\ file.last \in Fresh..Stale
           /\ file.cap \in BOOLEAN
  BY DEF SessionFiles, Caps

LEMMA PollBackendKeeps ==
    ASSUME IInv, PollBackend
    PROVE  IInv'
  <1>1. Sound(mcp) /\ Base(mcp) /\ Said(mcp) /\ mcp.file \in SessionFiles
        /\ backend \in [conn : BOOLEAN, cap : Caps, last : Fresh..Stale]
    BY DEF IInv, Sound, Base, Managers, Surroundings
  <1>2. Fresh \in Fresh..Stale /\ Away \in [conn : BOOLEAN, cap : Caps, last : Fresh..Stale]
    BY DEF Away, Caps, Fresh, Stale
  <1>3. /\ Base(Forget(mcp))
        /\ \A f \in {"conn", "cap", "handle", "asleep", "pre", "told", "leaked"} : Forget(mcp)[f] = mcp[f]
    BY <1>1, PersistIs DEF Base
  <1>4. Sound(Forget(mcp)) /\ Forget(mcp).cap = mcp.cap
    BY <1>1, <1>3, SaidFrame DEF Sound
  <1>5. Sound(mcp') /\ mcp'.cap = mcp.cap
    BY <1>1, <1>4 DEF PollBackend
  <1>6. backend' \in [conn : BOOLEAN, cap : Caps, last : Fresh..Stale]
    <2>1. CASE backend' = Found(backend, mcp.file)
      BY <1>1, <2>1, FoundIs DEF Found
    <2>2. CASE backend' = [backend EXCEPT !.last = Fresh]
      BY <1>1, <1>2, <2>2
    <2>3. CASE backend' = Away
      BY <1>2, <2>3
    <2> QED BY <2>1, <2>2, <2>3 DEF PollBackend
  <1> QED BY <1>5, <1>6 DEF IInv, Surroundings, PollBackend

\* The loop of the server announces a sampling client only when its file says so,
\* and then the manager never stopped offering it.
LEMMA PollMcpKeeps ==
    ASSUME IInv, PollMcp
    PROVE  IInv'
  <1>1. Sound(mcp) /\ Base(mcp) /\ Said(mcp) /\ mcp.file \in SessionFiles
    BY DEF IInv, Sound, Base, Managers
  <1> SUFFICES Sound(mcp') /\ (mcp'.cap = "yes" => mcp.cap = "yes")
    BY DEF IInv, Surroundings, PollMcp
  <1>2. CASE mcp' = Broadcast(Found(mcp, mcp.file))
    <2> DEFINE cap == IF mcp.file.cap THEN "yes" ELSE "unknown"
               last == mcp.file.last
               n == Found(mcp, mcp.file)
    <2>1. cap \in Caps /\ last \in Fresh..Stale /\ mcp.file.cap \in BOOLEAN
      BY <1>1, FoundIs
    <2>2. n = [mcp EXCEPT !.conn = TRUE, !.cap = cap, !.last = last]
      BY DEF Found
    <2>3. cap = "yes" <=> mcp.file.cap
      BY <2>1
    <2> HIDE DEF cap, last, n
    <2>4. n \in Managers
      BY <1>1, <2>1, <2>2 DEF Base, Managers
    <2>5. n.conn /\ n.cap = cap /\ \A g \in {"handle", "asleep", "out", "file"} : n[g] = mcp[g]
      BY <1>1, <2>2 DEF Base, Managers
    <2>6. Base(n) /\ (n.cap = "yes" => mcp.cap = "yes")
      BY <1>1, <2>3, <2>4, <2>5 DEF Base
    <2> QED BY <1>2, <2>6, BroadcastSound DEF n
  <1>3. CASE mcp' = [mcp EXCEPT !.last = Fresh]
    <2>1. Fresh \in Fresh..Stale
      BY DEF Fresh, Stale
    <2>2. mcp' \in Managers
      BY <1>1, <1>3, <2>1 DEF Base, Managers
    <2>3. \A g \in {"conn", "cap", "handle", "asleep", "pre", "out", "file", "told", "leaked"} : mcp'[g] = mcp[g]
      BY <1>1, <1>3 DEF Base, Managers
    <2>4. Base(mcp')
      BY <1>1, <2>2, <2>3 DEF Base
    <2>5. Said(mcp')
      BY <1>1, <2>3, SaidFrame
    <2> QED BY <2>3, <2>4, <2>5 DEF Sound
  <1>4. CASE mcp' = Broadcast(Forget([mcp EXCEPT !.conn = FALSE, !.cap = "unknown", !.last = Stale]))
    <2> DEFINE n == [mcp EXCEPT !.conn = FALSE, !.cap = "unknown", !.last = Stale]
    <2>1. Stale \in Fresh..Stale /\ "unknown" \in Caps
      BY DEF Fresh, Stale, Caps
    <2>2. n \in Managers
      BY <1>1, <2>1 DEF Base, Managers
    <2>3. ~n.conn /\ n.cap = "unknown" /\ \A g \in {"handle", "asleep", "out"} : n[g] = mcp[g]
      BY <1>1 DEF Base, Managers
    <2>4. mcp' = Broadcast(Forget(n))
      BY <1>4
    <2> HIDE DEF n
    <2>5. Base(Forget(n)) /\ Forget(n).cap = "unknown"
      BY <1>1, <2>2, <2>3, PersistIs DEF Base
    <2> QED BY <2>4, <2>5, BroadcastSound
  <1> QED BY <1>2, <1>3, <1>4 DEF PollMcp

LEMMA OlderIs ==
    ASSUME NEW r, r.last \in Fresh..Stale
    PROVE  \E last \in Fresh..Stale : Older(r) = [r EXCEPT !.last = last]
  <1> DEFINE last == IF r.last = Stale THEN r.last ELSE r.last + 1
  <1>1. last \in Fresh..Stale
    BY DEF Fresh, Stale
  <1>2. Older(r) = [r EXCEPT !.last = last]
    BY DEF Older
  <1> QED BY <1>1, <1>2

LEMMA TimePassesKeeps ==
    ASSUME IInv, TimePasses
    PROVE  IInv'
  <1>1. Sound(mcp) /\ Base(mcp) /\ Said(mcp) /\ mcp.file \in SessionFiles /\ mcp.last \in Fresh..Stale
        /\ mcp.file.last \in Fresh..Stale
        /\ backend \in [conn : BOOLEAN, cap : Caps, last : Fresh..Stale]
    BY DEF IInv, Sound, Base, Managers, Surroundings, SessionFiles
  <1>2. PICK l \in Fresh..Stale : Older(mcp) = [mcp EXCEPT !.last = l]
    BY <1>1, OlderIs
  <1>3. PICK k \in Fresh..Stale : Older(mcp.file) = [mcp.file EXCEPT !.last = k]
    BY <1>1, OlderIs
  <1>4. PICK b \in Fresh..Stale : Older(backend) = [backend EXCEPT !.last = b]
    BY <1>1, OlderIs
  <1> DEFINE f == [mcp.file EXCEPT !.last = k]
  <1>5. f \in SessionFiles /\ f.cap = mcp.file.cap
    BY <1>1 DEF SessionFiles
  <1>6. mcp' = [mcp EXCEPT !.last = l, !.file = f]
    <2>1. mcp' = [Older(mcp) EXCEPT !.file = Older(Older(mcp).file)]
      BY DEF TimePasses
    <2>2. Older(mcp).file = mcp.file
      BY <1>1, <1>2 DEF Base, Managers
    <2>3. mcp' = [[mcp EXCEPT !.last = l] EXCEPT !.file = f]
      BY <1>2, <1>3, <2>1, <2>2
    <2> HIDE DEF f
    <2> QED BY <1>1, <2>3 DEF Base, Managers
  <1> HIDE DEF f
  <1>7. mcp' \in Managers
    BY <1>1, <1>5, <1>6 DEF Base, Managers
  <1>8. /\ mcp'.file = f
        /\ \A g \in {"conn", "cap", "handle", "asleep", "pre", "out", "told", "leaked"} : mcp'[g] = mcp[g]
    BY <1>1, <1>6 DEF Base, Managers
  <1>9. Base(mcp')
    BY <1>1, <1>5, <1>7, <1>8 DEF Base
  <1>10. Said(mcp')
    BY <1>1, <1>8, SaidFrame
  <1>11. backend' \in [conn : BOOLEAN, cap : Caps, last : Fresh..Stale]
    BY <1>1, <1>4 DEF TimePasses
  <1> QED BY <1>8, <1>9, <1>10, <1>11 DEF IInv, Surroundings, TimePasses, Sound

\* A server that starts has said nothing.
LEMMA NewManagerSound == Sound(NewManager) /\ NewManager.cap = "unknown"
  <1>1. NoFile \in SessionFiles /\ ~NoFile.cap /\ "unknown" \in Caps /\ Stale \in Fresh..Stale
    BY DEF NoFile, SessionFiles, Caps, Fresh, Stale
  <1>2. <<>> \in Seq(Payloads) /\ Len(<<>>) = 0
    BY EmptySeq
  <1>3. NewManager \in Managers
    BY <1>1, <1>2 DEF NewManager, Managers
  <1>4. /\ ~NewManager.conn /\ NewManager.cap = "unknown" /\ ~NewManager.handle
        /\ NewManager.file = NoFile /\ NewManager.out = <<>> /\ NewManager.told = <<>>
    BY DEF NewManager
  <1>5. 0 <= MaxOut
    BY RoutingAssumption
  <1> QED BY <1>1, <1>2, <1>3, <1>4, <1>5 DEF Sound, Base, Said

LEMMA RestartMcpKeeps ==
    ASSUME IInv, RestartMcp
    PROVE  IInv'
  <1>1. Sound(mcp') /\ mcp'.cap = "unknown"
    BY NewManagerSound, BroadcastSound DEF RestartMcp, Sound
  <1>2. spent' \in 0..MaxFaults
    BY RoutingAssumption DEF IInv, Surroundings, RestartMcp, Fault
  <1> QED BY <1>1, <1>2 DEF IInv, Surroundings, RestartMcp

LEMMA RestartBackendKeeps ==
    ASSUME IInv, RestartBackend
    PROVE  IInv'
  <1>1. mcp.file \in SessionFiles
    BY DEF IInv, Sound, Base, Managers
  <1>2. Away \in [conn : BOOLEAN, cap : Caps, last : Fresh..Stale]
    BY DEF Away, Caps, Fresh, Stale
  <1>3. backend' \in [conn : BOOLEAN, cap : Caps, last : Fresh..Stale]
    <2>1. CASE backend' = Found(Away, mcp.file)
      BY <1>1, <2>1, FoundIs DEF Found, Away
    <2> QED BY <1>2, <2>1 DEF RestartBackend
  <1>4. spent' \in 0..MaxFaults
    BY RoutingAssumption DEF IInv, Surroundings, RestartBackend, Fault
  <1> QED BY <1>3, <1>4 DEF IInv, Surroundings, RestartBackend

-----------------------------------------------------------------------------
(* The invariant, and what it says to a reader.                            *)

LEMMA InitIInv == Init => IInv
  <1> SUFFICES ASSUME Init PROVE IInv
    OBVIOUS
  <1>1. Away \in [conn : BOOLEAN, cap : Caps, last : Fresh..Stale]
    BY DEF Away, Caps, Fresh, Stale
  <1>2. Sound(mcp) /\ mcp.cap = "unknown"
    BY NewManagerSound DEF Init
  <1>3. 0 \in 0..MaxFaults
    BY RoutingAssumption
  <1>4. Surroundings
    BY <1>1, <1>3 DEF Init, Surroundings
  <1> QED BY <1>2, <1>4 DEF IInv

LEMMA NextIInv == IInv /\ [Next]_vars => IInv'
  <1> SUFFICES ASSUME IInv, [Next]_vars PROVE IInv'
    OBVIOUS
  <1>1. CASE ClientStep
    BY <1>1, ClientKeeps
  <1>2. CASE Deferred
    BY <1>2, DeferredKeeps
  <1>3. CASE Delivery
    BY <1>3, NotifiedKeeps DEF Delivery
  <1>4. CASE PollBackend
    BY <1>4, PollBackendKeeps
  <1>5. CASE PollMcp
    BY <1>5, PollMcpKeeps
  <1>6. CASE TimePasses
    BY <1>6, TimePassesKeeps
  <1>7. CASE RestartMcp
    BY <1>7, RestartMcpKeeps
  <1>8. CASE RestartBackend
    BY <1>8, RestartBackendKeeps
  <1>9. CASE \E i \in DOMAIN mcp.out : Lost(i)
    BY <1>9, LostKeeps
  <1>10. CASE UNCHANGED vars
    BY <1>10 DEF vars, IInv, Surroundings
  <1> QED BY <1>1, <1>2, <1>3, <1>4, <1>5, <1>6, <1>7, <1>8, <1>9, <1>10 DEF Next

LEMMA IInvTyped == IInv => TypeOK
  <1> SUFFICES ASSUME IInv PROVE TypeOK
    OBVIOUS
  <1>1. Base(mcp) /\ mcp.file \in SessionFiles
    BY DEF IInv, Sound, Base, Managers
  <1>2. mcp.file.last \in Fresh..Stale
    BY <1>1 DEF SessionFiles
  <1>3. mcp.cap \in Caps /\ mcp.pre \in Caps /\ mcp.last \in Fresh..Stale /\ mcp.asleep \in Nat /\ mcp.dying \in Nat
    BY <1>1 DEF Base, Managers
  <1>4. (mcp.handle => mcp.asleep > 0) /\ Len(mcp.out) <= MaxOut /\ (~mcp.conn => mcp.cap = "unknown")
    BY <1>1 DEF Base
  <1>5. backend.cap \in Caps /\ backend.last \in Fresh..Stale
    BY DEF IInv, Surroundings
  <1> QED BY <1>2, <1>3, <1>4, <1>5 DEF IInv, Surroundings, TypeOK

\* What the MCP server said last about its client is what it is, unless a broadcast
\* is deferred or something was said while one was (RoutingManager._broadcast).
THEOREM ToldIsTrue == Spec => []ToldUnlessLeaked
  <1>1. IInv => ToldUnlessLeaked
    BY IInvTyped DEF IInv, Sound, Said, ToldUnlessLeaked
  <1> QED BY <1>1, InitIInv, NextIInv, PTL DEF Spec

\* The server offers sampling only while a bridge has spoken since the last stream of
\* one closed: no plain client, loop, file or late broadcast brings the offer back.
THEOREM OfferIsHeard == Spec => []SamplingHeard
  <1>1. IInv => SamplingHeard
    BY DEF IInv, SamplingHeard
  <1> QED BY <1>1, InitIInv, NextIInv, PTL DEF Spec

-----------------------------------------------------------------------------
(* Rate limits, in RateLimit: routing follows the store, and a live limit  *)
(* leaves the store only for a reason, for any providers and any bounds.   *)
(* What an event says is nothing here but whom it is about and which way   *)
(* it goes: a lemma states what publishing and consuming do to these two,  *)
(* and the rest never looks into the bus.                                  *)

Events == [ev : {"active"}, p : Providers, kind : On] \cup [ev : {"cleared"}, p : Providers, kind : {"none"}]

\* An event of each kind about p is on its way.
ActiveSent(p) == \E i \in DOMAIN bus : bus[i].p = p /\ bus[i].ev = "active"
ClearSent(p) == \E i \in DOMAIN bus : bus[i].p = p /\ bus[i].ev = "cleared"

BusOK == bus \in Seq(Events)

\* Routing and the store may differ on a provider that an event is about.
Agree == \A p \in Providers :
  \/ p \in unheard \/ ActiveSent(p) \/ ClearSent(p)
  \/ p \in limited <=> entry[p] # "none"

\* A limit is announced before its time is over.
Timely == \A p \in Providers : ActiveSent(p) => entry[p] \notin Due

\* A limit that is on, or will be when its event is taken, is cleared for a reason.
Justified == \A p \in Providers :
  p \in Decided /\ (entry[p] \in On \/ ActiveSent(p)) => p \in excused

LimitInv == LimitTypeOK /\ BusOK /\ Agree /\ Timely /\ Justified

-----------------------------------------------------------------------------
(* What publishing and consuming do to the bus.                            *)

\* The events of a set of clears are events.
LEMMA ClearsAreEvents ==
    ASSUME NEW ps \in SUBSET Providers, NEW es \in ClearEvents(ps)
    PROVE  /\ es \in Seq(Events)
           /\ \A i \in DOMAIN es : es[i].ev = "cleared" /\ es[i].p \in ps
           /\ \A p \in ps : \E i \in DOMAIN es : es[i].p = p
  <1>1. Cardinality(ps) \in Nat
    BY RateLimitAssumption, FS_Subset, FS_CardinalityType
  <1>2. es \in [1..Cardinality(ps) -> {[ev |-> "cleared", p |-> p, kind |-> "none"] : p \in ps}]
    BY DEF ClearEvents
  <1>3. {[ev |-> "cleared", p |-> p, kind |-> "none"] : p \in ps} \subseteq Events
    BY DEF Events
  <1>4. es \in [1..Cardinality(ps) -> Events]
    BY <1>2, <1>3
  <1>5. es \in Seq(Events)
    BY <1>1, <1>4, IsASeq
  <1>6. \A p \in ps : \E i \in DOMAIN es : es[i].p = p
    BY DEF ClearEvents
  <1> QED BY <1>2, <1>5, <1>6

\* What is published is added to what is on its way.
LEMMA PublishAdds ==
    ASSUME BusOK, NEW es \in Seq(Events), Publish(es)
    PROVE  /\ BusOK' /\ Len(bus') <= MaxBus
           /\ \A i \in DOMAIN bus : \E k \in DOMAIN bus' : bus'[k] = bus[i]
           /\ \A j \in DOMAIN es : \E k \in DOMAIN bus' : bus'[k] = es[j]
           /\ \A k \in DOMAIN bus' : \/ \E i \in DOMAIN bus : bus'[k] = bus[i]
                                     \/ \E j \in DOMAIN es : bus'[k] = es[j]
  <1>1. bus' = bus \o es /\ Len(bus) + Len(es) <= MaxBus
    BY DEF Publish
  <1>2. /\ bus' \in Seq(Events) /\ Len(bus') = Len(bus) + Len(es)
        /\ \A k \in 1 .. Len(bus) + Len(es) :
             bus'[k] = IF k <= Len(bus) THEN bus[k] ELSE es[k - Len(bus)]
    BY <1>1, ConcatProperties DEF BusOK
  <1>3. Len(bus) \in Nat /\ DOMAIN bus = 1..Len(bus) /\ Len(es) \in Nat /\ DOMAIN es = 1..Len(es)
        /\ DOMAIN bus' = 1..Len(bus')
    BY <1>2, LenProperties DEF BusOK
  <1>4. ASSUME NEW i \in DOMAIN bus PROVE i \in DOMAIN bus' /\ bus'[i] = bus[i]
    BY <1>2, <1>3
  <1>5. ASSUME NEW j \in DOMAIN es
        PROVE  Len(bus) + j \in DOMAIN bus' /\ bus'[Len(bus) + j] = es[j]
    BY <1>2, <1>3
  <1>6. ASSUME NEW k \in DOMAIN bus'
        PROVE  \/ \E i \in DOMAIN bus : bus'[k] = bus[i]
               \/ \E j \in DOMAIN es : bus'[k] = es[j]
    <2>1. CASE k <= Len(bus)
      BY <1>2, <1>3, <2>1
    <2>2. CASE k > Len(bus)
      <3>1. k - Len(bus) \in DOMAIN es /\ bus'[k] = es[k - Len(bus)]
        BY <1>2, <1>3, <2>2
      <3> QED BY <3>1
    <2> QED BY <1>2, <1>3, <2>1, <2>2
  <1> QED BY <1>1, <1>2, <1>4, <1>5, <1>6 DEF BusOK

\* Publishing clears adds those clears and nothing else.
LEMMA ClearsSent ==
    ASSUME BusOK, NEW ps \in SUBSET Providers, NEW es \in ClearEvents(ps), Publish(es)
    PROVE  /\ BusOK' /\ Len(bus') <= MaxBus
           /\ \A p \in Providers : /\ ActiveSent(p)' <=> ActiveSent(p)
                                   /\ ClearSent(p)' <=> ClearSent(p) \/ p \in ps
  <1>1. /\ es \in Seq(Events)
        /\ \A i \in DOMAIN es : es[i].ev = "cleared" /\ es[i].p \in ps
        /\ \A p \in ps : \E i \in DOMAIN es : es[i].p = p
    BY ClearsAreEvents
  <1>2. /\ BusOK' /\ Len(bus') <= MaxBus
        /\ \A i \in DOMAIN bus : \E k \in DOMAIN bus' : bus'[k] = bus[i]
        /\ \A j \in DOMAIN es : \E k \in DOMAIN bus' : bus'[k] = es[j]
        /\ \A k \in DOMAIN bus' : \/ \E i \in DOMAIN bus : bus'[k] = bus[i]
                                  \/ \E j \in DOMAIN es : bus'[k] = es[j]
    BY <1>1, PublishAdds
  <1>3. ASSUME NEW p \in Providers PROVE ActiveSent(p)' <=> ActiveSent(p)
    BY <1>1, <1>2 DEF ActiveSent
  <1>4. ASSUME NEW p \in Providers PROVE ClearSent(p)' <=> ClearSent(p) \/ p \in ps
    BY <1>1, <1>2 DEF ClearSent
  <1> QED BY <1>2, <1>3, <1>4

\* Publishing a limit adds it and nothing else.
LEMMA ActiveIsSent ==
    ASSUME BusOK, NEW q \in Providers, NEW kind \in On,
           Publish(<<[ev |-> "active", p |-> q, kind |-> kind]>>)
    PROVE  /\ BusOK' /\ Len(bus') <= MaxBus
           /\ \A p \in Providers : /\ ActiveSent(p)' <=> ActiveSent(p) \/ p = q
                                   /\ ClearSent(p)' <=> ClearSent(p)
  <1> DEFINE es == <<[ev |-> "active", p |-> q, kind |-> kind]>>
  <1>1. es \in Seq(Events) /\ DOMAIN es = {1} /\ es[1].ev = "active" /\ es[1].p = q
    BY DEF Events
  <1> HIDE DEF es
  <1>2. /\ BusOK' /\ Len(bus') <= MaxBus
        /\ \A i \in DOMAIN bus : \E k \in DOMAIN bus' : bus'[k] = bus[i]
        /\ \A j \in DOMAIN es : \E k \in DOMAIN bus' : bus'[k] = es[j]
        /\ \A k \in DOMAIN bus' : \/ \E i \in DOMAIN bus : bus'[k] = bus[i]
                                  \/ \E j \in DOMAIN es : bus'[k] = es[j]
    BY <1>1, PublishAdds DEF es
  <1>3. ASSUME NEW p \in Providers PROVE ActiveSent(p)' <=> ActiveSent(p) \/ p = q
    BY <1>1, <1>2 DEF ActiveSent
  <1>4. ASSUME NEW p \in Providers PROVE ClearSent(p)' <=> ClearSent(p)
    BY <1>1, <1>2 DEF ClearSent
  <1> QED BY <1>2, <1>3, <1>4

\* Taking the first event removes no event about another provider, and adds none.
LEMMA TailKeeps ==
    ASSUME BusOK, bus # <<>>, bus' = Tail(bus)
    PROVE  /\ BusOK' /\ Len(bus') <= Len(bus) /\ Head(bus) \in Events
           /\ Head(bus).ev = "active" => ActiveSent(Head(bus).p)
           /\ Head(bus).ev # "active" => ClearSent(Head(bus).p)
           /\ \A p \in Providers : /\ ActiveSent(p)' => ActiveSent(p)
                                   /\ ClearSent(p)' => ClearSent(p)
                                   /\ p # Head(bus).p => /\ ActiveSent(p)' <=> ActiveSent(p)
                                                         /\ ClearSent(p)' <=> ClearSent(p)
  <1>1. /\ Head(bus) \in Events /\ bus' \in Seq(Events) /\ Len(bus') = Len(bus) - 1
        /\ \A i \in 1 .. Len(bus') : bus'[i] = bus[i + 1]
    BY HeadTailProperties DEF BusOK
  <1>2. /\ Len(bus) \in Nat \ {0} /\ DOMAIN bus = 1..Len(bus) /\ DOMAIN bus' = 1..Len(bus')
        /\ Head(bus) = bus[1]
    BY <1>1, LenProperties, EmptySeq DEF BusOK
  <1>3. ASSUME NEW i \in DOMAIN bus' PROVE \E k \in DOMAIN bus : bus'[i] = bus[k]
    <2>1. i + 1 \in DOMAIN bus /\ bus'[i] = bus[i + 1]
      BY <1>1, <1>2
    <2> QED BY <2>1
  <1>4. ASSUME NEW k \in DOMAIN bus, k # 1 PROVE \E i \in DOMAIN bus' : bus'[i] = bus[k]
    <2>1. k - 1 \in DOMAIN bus' /\ bus'[k - 1] = bus[k]
      BY <1>1, <1>2, <1>4
    <2> QED BY <2>1
  <1>5. ASSUME NEW p \in Providers
        PROVE  /\ ActiveSent(p)' => ActiveSent(p)
               /\ ClearSent(p)' => ClearSent(p)
               /\ p # Head(bus).p => /\ ActiveSent(p)' <=> ActiveSent(p)
                                     /\ ClearSent(p)' <=> ClearSent(p)
    BY <1>2, <1>3, <1>4 DEF ActiveSent, ClearSent
  <1>6. /\ Head(bus).ev = "active" => ActiveSent(Head(bus).p)
        /\ Head(bus).ev # "active" => ClearSent(Head(bus).p)
    BY <1>1, <1>2 DEF ActiveSent, ClearSent, Events
  <1> QED BY <1>1, <1>2, <1>5, <1>6 DEF BusOK

\* The end of a round of the watcher: what it clears is gone and announced.
LEMMA RoundEnds ==
    ASSUME BusOK, LimitTypeOK, NEW s \in [Providers -> Kinds], NEW ps \in SUBSET Providers,
           ClearAndTell(s, ps)
    PROVE  /\ BusOK' /\ Len(bus') <= MaxBus
           /\ entry' \in [Providers -> Kinds] /\ theirs' \in BOOLEAN
           /\ \A p \in Providers : /\ entry'[p] = IF p \in ps THEN "none" ELSE s[p]
                                   /\ ActiveSent(p)' <=> ActiveSent(p)
                                   /\ ClearSent(p)' <=> ClearSent(p) \/ p \in ps
  <1>1. PICK es \in ClearEvents(ps) : Publish(es)
    BY DEF ClearAndTell
  <1>2. /\ entry' \in [Providers -> Kinds] /\ theirs' \in BOOLEAN
        /\ \A p \in Providers : entry'[p] = IF p \in ps THEN "none" ELSE s[p]
    BY DEF ClearAndTell, Write, Cleared, store, LimitTypeOK, Kinds
  <1> QED BY <1>1, <1>2, ClearsSent

\* What a question may find: a deleted entry had elapsed, and the others stay.
LEMMA ReadsDelete ==
    ASSUME LimitTypeOK, NEW r \in Reads(entry)
    PROVE  /\ r.s \in [Providers -> Kinds] /\ r.gone \subseteq {p \in Providers : entry[p] \in Due}
           /\ \A p \in Providers : r.s[p] = IF p \in r.gone THEN "none" ELSE entry[p]
           /\ ~ r.raised => r.s = entry
           /\ ~ r.raised /\ ~ r.found => \A p \in Providers : entry[p] = "none"
           /\ r.gone = {} => r.s = entry
  <1>1. CASE \E p \in Providers :
               /\ entry[p] \in Due
               /\ r = [raised |-> TRUE, s |-> Cleared(entry, {p}), gone |-> {p}, found |-> FALSE]
    BY <1>1 DEF Cleared, LimitTypeOK, Kinds
  <1>2. CASE \E p \in Providers :
               entry[p] \in On /\ r = [raised |-> FALSE, s |-> entry, gone |-> {}, found |-> TRUE]
    BY <1>2 DEF LimitTypeOK
  <1>3. CASE /\ entry = [p \in Providers |-> "none"]
             /\ r = [raised |-> FALSE, s |-> entry, gone |-> {}, found |-> FALSE]
    BY <1>3 DEF LimitTypeOK
  <1> QED BY <1>1, <1>2, <1>3 DEF Reads

\* What a question leaves in the store.
LEMMA KeepDeletes ==
    ASSUME LimitTypeOK, NEW r \in Reads(entry), Keep(r)
    PROVE  /\ r.gone \subseteq {p \in Providers : entry[p] \in Due}
           /\ entry' \in [Providers -> Kinds] /\ theirs' \in BOOLEAN
           /\ \A p \in Providers : entry'[p] = IF p \in r.gone THEN "none" ELSE entry[p]
  <1>1. /\ r.s \in [Providers -> Kinds] /\ r.gone \subseteq {p \in Providers : entry[p] \in Due}
        /\ \A p \in Providers : r.s[p] = IF p \in r.gone THEN "none" ELSE entry[p]
    BY ReadsDelete
  <1>2. CASE r.gone = {}
    BY <1>1, <1>2 DEF Keep, store, LimitTypeOK
  <1>3. CASE r.gone # {}
    BY <1>1, <1>3 DEF Keep, Write
  <1> QED BY <1>2, <1>3

-----------------------------------------------------------------------------
(* Every step keeps the invariant.                                         *)

\* Who has been decided on, without looking into the bus.
LEMMA DecidedIs ==
    ASSUME NEW p \in Providers
    PROVE  /\ p \in Decided <=> \/ p \in watcher.clear \/ p \in batch \/ ClearSent(p)
                                \/ watcher.at = "probing" /\ p = Own
           /\ (p \in Decided)' <=> \/ p \in watcher'.clear \/ p \in batch' \/ ClearSent(p)'
                                   \/ watcher'.at = "probing" /\ p = Own
  BY RateLimitAssumption DEF Decided, ClearSent

LEMMA InitOK == LimitInit => LimitInv
  <1> SUFFICES ASSUME LimitInit PROVE LimitInv
    OBVIOUS
  <1>1. LimitTypeOK
    <2>1. entry \in [Providers -> Kinds]
      BY DEF LimitInit, Files, Kinds, On, Due
    <2>2. Len(bus) <= MaxBus /\ mishaps \in 0..MaxMishaps
      BY RateLimitAssumption DEF LimitInit
    <2> QED BY <2>1, <2>2 DEF LimitInit, LimitTypeOK, Asleep
  <1>2. BusOK /\ DOMAIN bus = {}
    BY DEF LimitInit, BusOK
  <1>3. \A p \in Providers : ~ ActiveSent(p) /\ ~ ClearSent(p)
    BY <1>2 DEF ActiveSent, ClearSent
  <1>4. Agree /\ Timely /\ Justified
    BY <1>3, DecidedIs DEF Agree, Timely, Justified, LimitInit, Asleep
  <1> QED BY <1>1, <1>2, <1>4 DEF LimitInv

LEMMA StepKeeps == ASSUME LimitInv, [LimitNext]_limitVars PROVE LimitInv'
  <1> USE RateLimitAssumption
  <1>0. ASSUME UNCHANGED bus
        PROVE  /\ BusOK' /\ Len(bus') <= MaxBus
               /\ \A p \in Providers : (ActiveSent(p)' <=> ActiveSent(p)) /\ (ClearSent(p)' <=> ClearSent(p))
    BY <1>0 DEF LimitInv, LimitTypeOK, BusOK, ActiveSent, ClearSent
  <1>1. ASSUME NEW q \in Providers, Turns(q) PROVE LimitInv'
    BY <1>0, <1>1, DecidedIs DEF Turns, LimitInv, LimitTypeOK, Agree, Timely, Justified, store, history
  <1>2. ASSUME NEW q \in Providers, Refused(q) PROVE LimitInv'
    <2>1. PICK kind \in KindsOf(q) : /\ Write(Recorded(q, kind))
                                     /\ Publish(<<[ev |-> "active", p |-> q, kind |-> kind]>>)
      BY <1>2 DEF Refused
    <2>2. kind \in On
      BY DEF KindsOf, On
    <2>3. /\ BusOK' /\ Len(bus') <= MaxBus
          /\ \A p \in Providers : /\ ActiveSent(p)' <=> ActiveSent(p) \/ p = q
                                  /\ ClearSent(p)' <=> ClearSent(p)
      BY <2>1, <2>2, ActiveIsSent DEF LimitInv
    <2>4. /\ entry' \in [Providers -> Kinds] /\ theirs' = FALSE
          /\ \A p \in Providers : entry'[p] = IF p = q THEN kind ELSE entry[p]
      BY <2>1, <2>2 DEF Write, Recorded, LimitInv, LimitTypeOK, Kinds
    <2>5. LimitTypeOK'
      BY <1>2, <2>3, <2>4 DEF Refused, Refusal, LimitInv, LimitTypeOK
    <2>6. Agree'
      BY <1>2, <2>3, <2>4 DEF Refused, LimitInv, Agree
    <2>7. Timely'
      BY <2>2, <2>3, <2>4 DEF LimitInv, Timely, On, Due
    <2>8. Justified'
      BY <1>2, <2>3, <2>4, DecidedIs DEF Refused, Refusal, LimitInv, Justified
    <2> QED BY <2>3, <2>5, <2>6, <2>7, <2>8 DEF LimitInv
  <1>3. ASSUME NEW q \in Providers, BatchCall(q) PROVE LimitInv'
    BY <1>0, <1>3, DecidedIs DEF BatchCall, Answer, LimitInv, LimitTypeOK, Agree, Timely, Justified, store
  <1>4. ASSUME NEW q \in Providers, Elapses(q) PROVE LimitInv'
    <2>1. UNCHANGED bus /\ entry' = [entry EXCEPT ![q] = IF @ = "until" THEN "late" ELSE "old"]
      BY <1>4 DEF Elapses
    <2>2. ~ ActiveSent(q)
      BY <1>4, LenProperties, ElementOfSeq DEF Elapses, ActiveSent, LimitInv, BusOK, Events
    <2>3. LimitTypeOK' /\ Agree' /\ Timely'
      BY <1>0, <1>4, <2>1, <2>2 DEF Elapses, LimitInv, LimitTypeOK, Agree, Timely, history, Kinds, On, Due
    <2>4. Justified'
      BY <1>0, <1>4, <2>1, <2>2, DecidedIs DEF Elapses, LimitInv, LimitTypeOK, Justified, history, On, Due
    <2> QED BY <1>0, <2>1, <2>3, <2>4 DEF LimitInv
  <1>5. CASE BatchStored
    <2>1. PICK es \in ClearEvents(batch) : Publish(es)
      BY <1>5 DEF BatchStored
    <2>2. /\ BusOK' /\ Len(bus') <= MaxBus
          /\ \A p \in Providers : /\ ActiveSent(p)' <=> ActiveSent(p)
                                  /\ ClearSent(p)' <=> ClearSent(p) \/ p \in batch
      BY <2>1, ClearsSent DEF LimitInv, LimitTypeOK
    <2> QED BY <1>5, <2>2, DecidedIs DEF BatchStored, LimitInv, LimitTypeOK, Agree, Timely, Justified, store, history
  <1>6. CASE Consume
    <2> DEFINE e == Head(bus)
    <2>1. /\ BusOK' /\ Len(bus') <= Len(bus) /\ e \in Events
          /\ e.ev = "active" => ActiveSent(e.p)
          /\ e.ev # "active" => ClearSent(e.p)
          /\ \A p \in Providers : /\ ActiveSent(p)' => ActiveSent(p)
                                  /\ ClearSent(p)' => ClearSent(p)
                                  /\ p # e.p => /\ ActiveSent(p)' <=> ActiveSent(p)
                                                /\ ClearSent(p)' <=> ClearSent(p)
      BY <1>6, TailKeeps DEF Consume, LimitInv
    <2>2. /\ e.p \in Providers
          /\ entry' \in [Providers -> Kinds] /\ theirs' \in BOOLEAN /\ limited' \subseteq Providers
          /\ \A p \in Providers : p # e.p => entry'[p] = entry[p] /\ (p \in limited' <=> p \in limited)
          /\ \/ e.ev = "active" /\ entry'[e.p] \in On /\ e.p \in limited'
             \/ e.ev # "active" /\ entry'[e.p] = "none" /\ e.p \notin limited'
      <3>1. e.p \in Providers
        BY <2>1 DEF Events
      <3>2. CASE e.ev = "active"
        <4>1. e.kind \in On
          BY <2>1, <3>2 DEF Events
        <4>2. entry' = [entry EXCEPT ![e.p] = e.kind] /\ theirs' = FALSE /\ limited' = limited \cup {e.p}
          BY <1>6, <3>2 DEF Consume, Write, Recorded
        <4> QED BY <3>1, <3>2, <4>1, <4>2 DEF LimitInv, LimitTypeOK, Kinds
      <3>3. CASE e.ev # "active"
        <4>1. /\ limited' = limited \ {e.p}
              /\ IF entry[e.p] = "none" THEN UNCHANGED store ELSE Write(Cleared(entry, {e.p}))
          BY <1>6, <3>3 DEF Consume
        <4> HIDE DEF e
        <4>2. CASE entry[e.p] = "none"
          BY <3>1, <3>3, <4>1, <4>2 DEF store, LimitInv, LimitTypeOK
        <4>3. CASE entry[e.p] # "none"
          <5>1. entry' = [p \in Providers |-> IF p \in {e.p} THEN "none" ELSE entry[p]] /\ theirs' = FALSE
            BY <4>1, <4>3 DEF Write, Cleared
          <5>2. entry \in [Providers -> Kinds] /\ "none" \in Kinds /\ limited \subseteq Providers
            BY DEF LimitInv, LimitTypeOK, Kinds
          <5>3. entry' \in [Providers -> Kinds]
            BY <5>1, <5>2
          <5> QED BY <3>1, <3>3, <4>1, <5>1, <5>2, <5>3
        <4> QED BY <4>2, <4>3
      <3> QED BY <3>2, <3>3
    <2>3. Len(bus) \in Nat /\ Len(bus') \in Nat
      BY <2>1, LenProperties DEF LimitInv, BusOK
    <2> HIDE DEF e
    <2>4. LimitTypeOK'
      <3>1. Len(bus') <= MaxBus
        BY <2>1, <2>3 DEF LimitInv, LimitTypeOK
      <3> QED BY <1>6, <2>2, <3>1 DEF Consume, LimitInv, LimitTypeOK
    <2>5. Agree'
      BY <1>6, <2>1, <2>2 DEF Consume, LimitInv, LimitTypeOK, Agree, On, e
    <2>6. Timely'
      BY <2>1, <2>2 DEF LimitInv, LimitTypeOK, Timely, On, Due
    <2>7. Justified'
      BY <1>6, <2>1, <2>2, DecidedIs DEF Consume, LimitInv, LimitTypeOK, Justified, On
    <2> QED BY <2>1, <2>4, <2>5, <2>6, <2>7 DEF LimitInv
  <1>7. CASE Health
    <2>1. PICK r \in Reads(entry) : Keep(r) /\ unheard' = unheard \cup r.gone
      BY <1>7 DEF Health
    <2>2. /\ r.gone \subseteq {p \in Providers : entry[p] \in Due}
          /\ entry' \in [Providers -> Kinds] /\ theirs' \in BOOLEAN
          /\ \A p \in Providers : entry'[p] = IF p \in r.gone THEN "none" ELSE entry[p]
      BY <2>1, KeepDeletes DEF LimitInv
    <2> QED BY <1>0, <1>7, <2>1, <2>2, DecidedIs
            DEF Health, LimitInv, LimitTypeOK, Agree, Timely, Justified, On, Due
  <1>8. CASE Wakes
    <2>1. Sweepable \subseteq Providers /\ \A p \in Sweepable : entry[p] \in Due
      BY DEF Sweepable, Due
    <2>2. CASE entry[Own] = "old"
      <3>1. watcher' = [at |-> "probing", clear |-> Sweepable] /\ UNCHANGED <<store, bus>>
        BY <1>8, <2>2 DEF Wakes
      <3> QED BY <1>0, <1>8, <2>1, <2>2, <3>1, DecidedIs
              DEF Wakes, LimitInv, LimitTypeOK, Agree, Timely, Justified, store, history, On, Due
    <2>3. CASE entry[Own] # "old"
      <3>1. UNCHANGED watcher /\ ClearAndTell(entry, Sweepable)
        BY <1>8, <2>3 DEF Wakes
      <3>2. /\ BusOK' /\ Len(bus') <= MaxBus
            /\ entry' \in [Providers -> Kinds] /\ theirs' \in BOOLEAN
            /\ \A p \in Providers : /\ entry'[p] = IF p \in Sweepable THEN "none" ELSE entry[p]
                                    /\ ActiveSent(p)' <=> ActiveSent(p)
                                    /\ ClearSent(p)' <=> ClearSent(p) \/ p \in Sweepable
        BY <2>1, <3>1, RoundEnds DEF LimitInv, LimitTypeOK
      <3> QED BY <1>8, <2>1, <3>1, <3>2, DecidedIs
              DEF Wakes, LimitInv, LimitTypeOK, Agree, Timely, Justified, history, On, Due
    <2> QED BY <2>2, <2>3
  <1>9. CASE ProbeAnswered
    <2>1. Cleared(entry, {Own}) \in [Providers -> Kinds] /\ watcher.clear \cup {Own} \subseteq Providers
      BY DEF Cleared, LimitInv, LimitTypeOK, Kinds
    <2>2. /\ BusOK' /\ Len(bus') <= MaxBus
          /\ entry' \in [Providers -> Kinds] /\ theirs' \in BOOLEAN
          /\ \A p \in Providers :
                /\ entry'[p] = IF p \in watcher.clear \cup {Own} THEN "none" ELSE entry[p]
                /\ ActiveSent(p)' <=> ActiveSent(p)
                /\ ClearSent(p)' <=> ClearSent(p) \/ p \in watcher.clear \cup {Own}
      BY <1>9, <2>1, RoundEnds DEF ProbeAnswered, Cleared, LimitInv, LimitTypeOK
    <2> QED BY <1>9, <2>2, DecidedIs
            DEF ProbeAnswered, Answer, Asleep, LimitInv, LimitTypeOK, Agree, Timely, Justified, On, Due
  <1>10. CASE ProbeRefused
    <2>1. PICK kind \in KindsOf(Own) : ClearAndTell(Recorded(Own, kind), watcher.clear)
      BY <1>10 DEF ProbeRefused
    <2>2. kind \in On /\ Recorded(Own, kind) \in [Providers -> Kinds] /\ watcher.clear \subseteq Providers
      BY DEF KindsOf, Recorded, LimitInv, LimitTypeOK, Kinds, On
    <2>3. /\ BusOK' /\ Len(bus') <= MaxBus
          /\ entry' \in [Providers -> Kinds] /\ theirs' \in BOOLEAN
          /\ \A p \in Providers :
                /\ entry'[p] = IF p \in watcher.clear THEN "none" ELSE IF p = Own THEN kind ELSE entry[p]
                /\ ActiveSent(p)' <=> ActiveSent(p)
                /\ ClearSent(p)' <=> ClearSent(p) \/ p \in watcher.clear
      <3>1. \A p \in Providers : Recorded(Own, kind)[p] = IF p = Own THEN kind ELSE entry[p]
        BY DEF Recorded, LimitInv, LimitTypeOK
      <3> QED BY <2>1, <2>2, <3>1, RoundEnds DEF LimitInv
    <2>4. excused' = excused \cup {Own}
      BY <1>10, DecidedIs DEF ProbeRefused, Refusal
    <2> QED BY <1>10, <2>2, <2>3, <2>4, DecidedIs
            DEF ProbeRefused, Asleep, LimitInv, LimitTypeOK, Agree, Timely, Justified, On, Due
  <1>11. CASE ProbeFailed
    <2>1. watcher.clear \cup {Own} \subseteq Providers
      BY DEF LimitInv, LimitTypeOK
    <2>2. /\ BusOK' /\ Len(bus') <= MaxBus
          /\ entry' \in [Providers -> Kinds] /\ theirs' \in BOOLEAN
          /\ \A p \in Providers :
                /\ entry'[p] = IF p \in watcher.clear \cup {Own} THEN "none" ELSE entry[p]
                /\ ActiveSent(p)' <=> ActiveSent(p)
                /\ ClearSent(p)' <=> ClearSent(p) \/ p \in watcher.clear \cup {Own}
      BY <1>11, <2>1, RoundEnds DEF ProbeFailed, LimitInv, LimitTypeOK
    <2> QED BY <1>11, <2>2, DecidedIs
            DEF ProbeFailed, Mishap, Asleep, LimitInv, LimitTypeOK, Agree, Timely, Justified, history, On, Due
  <1>12. CASE ProbeRaised
    <2>1. PICK r \in Reads(entry) :
            IF r.raised
            THEN /\ watcher' = [at |-> "dead", clear |-> {}] /\ Write(r.s)
                 /\ unheard' = unheard \cup r.gone /\ UNCHANGED bus
            ELSE /\ watcher' = Asleep /\ UNCHANGED unheard
                 /\ ClearAndTell(entry, watcher.clear \cup (IF r.found THEN {} ELSE {Own}))
      BY <1>12 DEF ProbeRaised
    <2>2. CASE r.raised
      <3>1. /\ r.gone \subseteq {p \in Providers : entry[p] \in Due}
            /\ entry' \in [Providers -> Kinds] /\ theirs' = FALSE
            /\ \A p \in Providers : entry'[p] = IF p \in r.gone THEN "none" ELSE entry[p]
        BY <2>1, <2>2, ReadsDelete DEF Write, LimitInv
      <3>2. watcher' = [at |-> "dead", clear |-> {}] /\ unheard' = unheard \cup r.gone /\ UNCHANGED bus
        BY <2>1, <2>2
      <3>3. LimitTypeOK'
        <4>1. unheard' \subseteq Providers /\ watcher'.at = "dead" /\ watcher'.clear = {}
          BY <3>1, <3>2 DEF LimitInv, LimitTypeOK
        <4>2. mishaps' \in 0..MaxMishaps /\ UNCHANGED <<refuses, limited, batch, excused, starting>>
          BY <1>12 DEF ProbeRaised, Mishap, LimitInv, LimitTypeOK
        <4>3. watcher'.at \in {"asleep", "probing", "dead"} /\ watcher'.clear \subseteq Providers
              /\ (watcher'.clear # {} => watcher'.at = "probing")
          BY <4>1
        <4>4. Len(bus') <= MaxBus /\ {theirs', starting'} \subseteq BOOLEAN
          BY <1>0, <3>1, <3>2, <4>2 DEF LimitInv, LimitTypeOK
        <4>5. {refuses', limited', batch', excused', unheard'} \subseteq SUBSET Providers
          BY <4>1, <4>2 DEF LimitInv, LimitTypeOK
        <4> QED BY <3>1, <4>2, <4>3, <4>4, <4>5 DEF LimitTypeOK
      <3>4. Agree' /\ Timely' /\ Justified'
        BY <1>0, <1>12, <3>1, <3>2, DecidedIs
        DEF ProbeRaised, Mishap, LimitInv, LimitTypeOK, Agree, Timely, Justified, On, Due
      <3> QED BY <1>0, <3>2, <3>3, <3>4 DEF LimitInv
    <2>3. CASE ~ r.raised
      <3> DEFINE ps == watcher.clear \cup (IF r.found THEN {} ELSE {Own})
      <3>1. ps \subseteq Providers /\ (Own \in ps => Own \in watcher.clear \/ ~ r.found)
        BY DEF LimitInv, LimitTypeOK
      <3>2. /\ BusOK' /\ Len(bus') <= MaxBus
            /\ entry' \in [Providers -> Kinds] /\ theirs' \in BOOLEAN
            /\ \A p \in Providers : /\ entry'[p] = IF p \in ps THEN "none" ELSE entry[p]
                                    /\ ActiveSent(p)' <=> ActiveSent(p)
                                    /\ ClearSent(p)' <=> ClearSent(p) \/ p \in ps
        BY <2>1, <2>3, <3>1, RoundEnds DEF LimitInv, LimitTypeOK
      <3> QED BY <1>12, <2>1, <2>3, <3>1, <3>2, DecidedIs
              DEF ProbeRaised, Mishap, Asleep, LimitInv, LimitTypeOK, Agree, Timely, Justified, On, Due
    <2> QED BY <2>2, <2>3
  <1>13. CASE StartProbe
    <2>1. CASE /\ Answer(Own)
               /\ (IF entry[Own] = "none" THEN UNCHANGED store ELSE Write(Cleared(entry, {Own})))
               /\ unheard' = IF Own \in limited THEN unheard \cup {Own} ELSE unheard
      <3>1. /\ entry' \in [Providers -> Kinds] /\ theirs' \in BOOLEAN
            /\ \A p \in Providers : entry'[p] = IF p = Own THEN "none" ELSE entry[p]
        BY <2>1 DEF Write, Cleared, store, LimitInv, LimitTypeOK, Kinds
      <3>2. LimitTypeOK' /\ BusOK'
        BY <1>0, <1>13, <2>1, <3>1 DEF StartProbe, Answer, LimitInv, LimitTypeOK
      <3>3. Agree'
        BY <1>0, <1>13, <2>1, <3>1, DecidedIs DEF StartProbe, Answer, LimitInv, LimitTypeOK, Agree, On, Due
      <3>4. Timely' /\ Justified'
        BY <1>0, <1>13, <2>1, <3>1, DecidedIs DEF StartProbe, Answer, LimitInv, LimitTypeOK, Timely, Justified, On, Due
      <3> QED BY <3>2, <3>3, <3>4 DEF LimitInv
    <2>2. CASE /\ Own \in refuses /\ Refusal(Own)
               /\ \E kind \in KindsOf(Own) : Write(Recorded(Own, kind))
               /\ unheard' = IF Own \in limited THEN unheard ELSE unheard \cup {Own}
      <3>1. PICK kind \in KindsOf(Own) : Write(Recorded(Own, kind))
        BY <2>2
      <3>2. /\ kind \in On /\ entry' \in [Providers -> Kinds] /\ theirs' = FALSE
            /\ \A p \in Providers : entry'[p] = IF p = Own THEN kind ELSE entry[p]
        BY <3>1 DEF KindsOf, Write, Recorded, LimitInv, LimitTypeOK, Kinds, On
      <3>3. LimitTypeOK' /\ BusOK'
        <4>1. excused' \subseteq Providers /\ unheard' \subseteq Providers /\ starting' = FALSE
          BY <1>13, <2>2 DEF StartProbe, Refusal, LimitInv, LimitTypeOK
        <4> QED BY <1>0, <1>13, <3>2, <4>1 DEF StartProbe, LimitInv, LimitTypeOK
      <3>4. Agree'
        BY <1>0, <1>13, <2>2, <3>2, DecidedIs DEF StartProbe, Refusal, LimitInv, LimitTypeOK, Agree, On, Due
      <3>5. Timely' /\ Justified'
        BY <1>0, <1>13, <2>2, <3>2, DecidedIs DEF StartProbe, Refusal, LimitInv, LimitTypeOK, Timely, Justified, On, Due
      <3> QED BY <3>3, <3>4, <3>5 DEF LimitInv
    <2>3. CASE UNCHANGED <<store, history>>
      BY <1>0, <1>13, <2>3, DecidedIs
      DEF StartProbe, LimitInv, LimitTypeOK, Agree, Timely, Justified, store, history
    <2>4. ASSUME UNCHANGED excused, NEW r \in Reads(entry), Keep(r), unheard' = unheard \cup r.gone
          PROVE  LimitInv'
      <3>1. /\ r.gone \subseteq {p \in Providers : entry[p] \in Due}
            /\ entry' \in [Providers -> Kinds] /\ theirs' \in BOOLEAN
            /\ \A p \in Providers : entry'[p] = IF p \in r.gone THEN "none" ELSE entry[p]
        BY <2>4, KeepDeletes DEF LimitInv
      <3>2. LimitTypeOK' /\ BusOK'
        BY <1>0, <1>13, <2>4, <3>1 DEF StartProbe, LimitInv, LimitTypeOK
      <3>3. Agree'
        BY <1>0, <1>13, <2>4, <3>1, DecidedIs DEF StartProbe, LimitInv, LimitTypeOK, Agree, On, Due
      <3>4. Timely' /\ Justified'
        BY <1>0, <1>13, <2>4, <3>1, DecidedIs DEF StartProbe, LimitInv, LimitTypeOK, Timely, Justified, On, Due
      <3> QED BY <3>2, <3>3, <3>4 DEF LimitInv
    <2> QED BY <1>13, <2>1, <2>2, <2>3, <2>4 DEF StartProbe
  <1>14. CASE McpRefused
    BY <1>0, <1>14, DecidedIs DEF McpRefused, Mishap, LimitInv, LimitTypeOK, Agree, Timely, Justified, history
  <1>15. CASE Restart
    <2>1. entry' \in [Providers -> Kinds]
      BY <1>15 DEF Restart, Files, Kinds, KindsOf, On, Due, LimitInv, LimitTypeOK
    <2>2. BusOK' /\ \A p \in Providers : ~ ActiveSent(p)' /\ ~ ClearSent(p)'
      BY <1>15 DEF Restart, BusOK, ActiveSent, ClearSent
    <2> QED BY <1>15, <2>1, <2>2, DecidedIs
            DEF Restart, Mishap, Asleep, LimitInv, LimitTypeOK, Agree, Timely, Justified
  <1>16. CASE UNCHANGED limitVars
    BY <1>0, <1>16, DecidedIs DEF limitVars, store, history, LimitInv, LimitTypeOK, Agree, Timely, Justified
  <1> QED BY <1>1, <1>2, <1>3, <1>4, <1>5, <1>6, <1>7, <1>8, <1>9, <1>10, <1>11, <1>12, <1>13,
             <1>14, <1>15, <1>16 DEF LimitNext, ProbeEnds

\* The invariant holds in every state.
LEMMA Invariance == LimitSpec => []LimitInv
  BY InitOK, StepKeeps, PTL DEF LimitSpec

-----------------------------------------------------------------------------
(* What it is for.                                                         *)

\* Routing decides by what the store says, once the consumer has caught up,
\* save for a provider whose entry came or went without an event.
THEOREM RoutingAgrees == LimitSpec => []RoutingFollowsStore
  <1>1. LimitInv => RoutingFollowsStore
    <2>1. ASSUME LimitInv, bus = <<>>
          PROVE  \A p \in Providers : ~ ActiveSent(p) /\ ~ ClearSent(p)
      BY <2>1 DEF ActiveSent, ClearSent
    <2> QED BY <2>1 DEF LimitInv, Agree, RoutingFollowsStore
  <1> QED BY <1>1, Invariance, PTL

\* The steps that take a live limit away: the provider is excused.
LEMMA KeptStep ==
    ASSUME LimitInv, LimitNext, NEW p \in Providers, entry[p] \in On, entry'[p] = "none"
    PROVE  p \in excused'
  <1> USE RateLimitAssumption DEF LimitInv
  <1>0. entry[p] # "none" /\ entry[p] \notin Due
    BY DEF On, Due
  <1>1. ASSUME NEW q \in Providers, Turns(q) \/ BatchCall(q) PROVE FALSE
    BY <1>0, <1>1 DEF Turns, BatchCall, store
  <1>2. ASSUME NEW q \in Providers, Refused(q) PROVE FALSE
    BY <1>0, <1>2 DEF Refused, Write, Recorded, KindsOf, On, LimitTypeOK
  <1>3. ASSUME NEW q \in Providers, Elapses(q) PROVE FALSE
    BY <1>0, <1>3 DEF Elapses, LimitTypeOK
  <1>4. ~ BatchStored /\ ~ McpRefused
    BY <1>0 DEF BatchStored, McpRefused, store
  <1>5. CASE Consume
    <2>1. Head(bus) \in Events /\ (Head(bus).ev # "active" => ClearSent(Head(bus).p))
      BY <1>5, TailKeeps DEF Consume
    <2>2. CASE Head(bus).ev = "active"
      BY <1>0, <1>5, <2>1, <2>2 DEF Consume, Write, Recorded, Events, On, LimitTypeOK
    <2>3. CASE Head(bus).ev # "active" /\ Head(bus).p = p
      BY <1>5, <2>1, <2>3, DecidedIs DEF Consume, Justified
    <2>4. CASE Head(bus).ev # "active" /\ Head(bus).p # p
      BY <1>0, <1>5, <2>4 DEF Consume, Write, Cleared, store, LimitTypeOK
    <2> QED BY <2>2, <2>3, <2>4
  <1>6. ~ Health
    <2>1. ASSUME NEW r \in Reads(entry), Keep(r) PROVE FALSE
      BY <1>0, <2>1, KeepDeletes
    <2> QED BY <2>1 DEF Health
  <1>7. ~ Wakes
    <2>1. Sweepable \subseteq Providers /\ p \notin Sweepable /\ entry \in [Providers -> Kinds]
      BY <1>0 DEF Sweepable, Due, LimitTypeOK
    <2>2. ASSUME ClearAndTell(entry, Sweepable) PROVE FALSE
      BY <1>0, <2>1, <2>2, RoundEnds
    <2> QED BY <1>0, <2>2 DEF Wakes, store
  <1>8. CASE ProbeAnswered
    <2>1. Cleared(entry, {Own}) \in [Providers -> Kinds] /\ watcher.clear \cup {Own} \subseteq Providers
      BY DEF Cleared, LimitTypeOK, Kinds
    <2> DEFINE s == Cleared(entry, {Own})
               ps == watcher.clear \cup {Own}
    <2>2. ClearAndTell(s, ps)
      BY <1>8 DEF ProbeAnswered
    <2> HIDE DEF s, ps
    <2>3. entry'[p] = IF p \in ps THEN "none" ELSE s[p]
      <3>1. s \in [Providers -> Kinds] /\ ps \in SUBSET Providers
        BY <2>1 DEF s, ps
      <3>2. BusOK /\ LimitTypeOK
        OBVIOUS
      <3> QED BY <2>2, <3>1, <3>2, RoundEnds
    <2> QED BY <1>0, <1>8, <2>3, DecidedIs DEF ProbeAnswered, Answer, Cleared, Justified, s, ps
  <1>9. CASE ProbeRefused
    <2>1. PICK kind \in KindsOf(Own) : ClearAndTell(Recorded(Own, kind), watcher.clear)
      BY <1>9 DEF ProbeRefused
    <2>2. kind # "none" /\ Recorded(Own, kind) \in [Providers -> Kinds] /\ watcher.clear \subseteq Providers
      BY DEF KindsOf, Recorded, LimitTypeOK, Kinds, On
    <2>3. entry'[p] = IF p \in watcher.clear THEN "none" ELSE Recorded(Own, kind)[p]
      BY <2>1, <2>2, RoundEnds
    <2> QED BY <1>0, <1>9, <2>2, <2>3, DecidedIs DEF ProbeRefused, Refusal, Recorded, Justified, LimitTypeOK
  <1>10. CASE ProbeFailed
    <2>1. watcher.clear \cup {Own} \subseteq Providers /\ entry \in [Providers -> Kinds]
      BY DEF LimitTypeOK
    <2>2. entry'[p] = IF p \in watcher.clear \cup {Own} THEN "none" ELSE entry[p]
      BY <1>10, <2>1, RoundEnds DEF ProbeFailed
    <2> QED BY <1>0, <1>10, <2>2, DecidedIs DEF ProbeFailed, history, Justified
  <1>11. CASE ProbeRaised
    <2>1. PICK r \in Reads(entry) :
            IF r.raised
            THEN Write(r.s)
            ELSE ClearAndTell(entry, watcher.clear \cup (IF r.found THEN {} ELSE {Own}))
      BY <1>11 DEF ProbeRaised
    <2>2. /\ r.gone \subseteq {q \in Providers : entry[q] \in Due}
          /\ \A q \in Providers : r.s[q] = IF q \in r.gone THEN "none" ELSE entry[q]
          /\ ~ r.raised /\ ~ r.found => \A q \in Providers : entry[q] = "none"
      BY ReadsDelete
    <2>3. ~ r.raised
      BY <1>0, <2>1, <2>2 DEF Write
    <2>4. r.found
      BY <1>0, <2>2, <2>3
    <2>5. watcher.clear \subseteq Providers /\ entry \in [Providers -> Kinds]
      BY DEF LimitTypeOK
    <2>6. ClearAndTell(entry, watcher.clear)
      BY <2>1, <2>3, <2>4
    <2>7. p \in watcher.clear
      BY <1>0, <2>5, <2>6, RoundEnds
    <2> QED BY <1>11, <2>7, DecidedIs DEF ProbeRaised, Justified
  <1>12. CASE StartProbe
    <2>1. CASE Answer(Own) /\ (IF entry[Own] = "none" THEN UNCHANGED store ELSE Write(Cleared(entry, {Own})))
      BY <1>0, <2>1 DEF Answer, store, Write, Cleared
    <2>2. ASSUME NEW kind \in KindsOf(Own), Write(Recorded(Own, kind)) PROVE FALSE
      BY <1>0, <2>2 DEF Write, Recorded, KindsOf, On, LimitTypeOK
    <2>3. ASSUME NEW r \in Reads(entry), Keep(r) PROVE FALSE
      BY <1>0, <2>3, KeepDeletes
    <2> QED BY <1>0, <1>12, <2>1, <2>2, <2>3 DEF StartProbe, store
  <1>13. CASE Restart
    BY <1>0, <1>13 DEF Restart
  <1> QED BY <1>1, <1>2, <1>3, <1>4, <1>5, <1>6, <1>7, <1>8, <1>9, <1>10, <1>11, <1>12, <1>13
          DEF LimitNext, ProbeEnds

\* A limit that has not elapsed leaves the store because the provider answered
\* after it was recorded, or because it was decided to clear it before.
THEOREM LimitIsKept == LimitSpec => LimitKept
  <1> DEFINE Kept == \A p \in Providers : entry[p] \in On /\ entry'[p] = "none" => p \in excused'
  <1>1. LimitInv /\ [LimitNext]_limitVars => [Kept]_limitVars
    BY KeptStep
  <1> QED BY <1>1, Invariance, PTL DEF LimitSpec, LimitKept


============================================================================
