------------------------- MODULE EventStreamProofs -------------------------
(***************************************************************************)
(* No event reaches a client twice or out of order, and a client with      *)
(* nothing in flight missed nothing its queue did not give up.             *)
(*                                                                         *)
(* What is on its way to a client forms one rising chain: what it got,     *)
(* what the connection holds, what is left to replay and what is queued.   *)
(* Operators on these four sequences carry the argument; the lemmas about  *)
(* them come first.                                                        *)
(***************************************************************************)
EXTENDS EventStream, SequenceTheorems, TLAPS

\* The events of a queue, a replay or a delivery, and those of a connection.
Evs(s) == {s[i] : i \in DOMAIN s} \ {Sentinel}
PEvs(p) == {p[i].id : i \in {j \in DOMAIN p : p[j].kind = "event"}}
InFlight(p, t, q) == PEvs(p) \cup Evs(t) \cup Evs(q)

Below(S, T) == \A x \in S, y \in T : x < y

Rising(s) == \A i, j \in DOMAIN s : i < j /\ s[i] # Sentinel /\ s[j] # Sentinel => s[i] < s[j]
PRising(p) == \A i, j \in DOMAIN p :
                i < j /\ p[i].kind = "event" /\ p[j].kind = "event" => p[i].id < p[j].id

Flow(g, p, t, q) ==
  /\ Rising(g) /\ PRising(p) /\ Rising(t) /\ Rising(q)
  /\ Below(Evs(g), InFlight(p, t, q))
  /\ Below(PEvs(p), Evs(t) \cup Evs(q))
  /\ Below(Evs(t), Evs(q))

\* Numbers lie between the server's first and its last; a client's number covers
\* what it got; the replay is over when the queue's events begin.
Bounded(c) ==
  /\ \A e \in InFlight(pipe[c], todo[c], sq[c]) : base < e /\ e <= published
  /\ \A i \in DOMAIN pipe[c] : pipe[c][i].kind \in {"event", "sync"} =>
       base <= pipe[c][i].id /\ pipe[c][i].id <= published
  /\ \A e \in Evs(got[c]) : e <= published /\ e <= base + last[c]
  /\ \A e \in Evs(sq[c]) : e > base + upTo[c]
  /\ gen[c] # "none" => base + upTo[c] <= published

\* How the client's end and the server's end of a stream go together.
Phase(c) ==
  /\ gen[c] # "replay" => todo[c] = <<>>
  /\ gen[c] = "none" => sq[c] = <<>>
  /\ es[c] \in {"new", "waiting"} => gen[c] = "none" /\ pipe[c] = <<>>
  /\ es[c] = "connecting" => /\ pipe[c] # <<>> => Head(pipe[c]).kind = "open"
                             /\ gen[c] # "none" => pipe[c] # <<>>
  /\ \A i \in DOMAIN pipe[c] : pipe[c][i].kind = "end" => i = Len(pipe[c]) /\ gen[c] = "none"
  /\ hadError[c] => es[c] \in {"waiting", "connecting"}
  /\ es[c] = "waiting" => hadError[c] \/ c \in stale
  /\ es[c] \in {"new", "connecting"} /\ ~hadError[c] /\ c \notin stale =>
       got[c] = <<>> /\ last[c] = 0 /\ fresh[c] = 0

\* A client was told of an event, or its refetch came later, or its queue gave it up.
Told(c, e) == e \in Given(c) \/ e <= fresh[c] \/ e \in dropped[c]

\* A stream that will not end in a refetch has told, or still carries, everything.
Covered(c) ==
  c \notin stale /\ ~hadError[c] /\ gen[c] # "none" =>
    \A e \in since[c] + 1 .. published :
      Told(c, e) \/ e \in InFlight(pipe[c], todo[c], sq[c])

ClientInv(c) ==
  /\ Flow(got[c], pipe[c], todo[c], sq[c])
  /\ Bounded(c) /\ Phase(c) /\ Covered(c)

\* The sentinel is queued by the shutdown, after which nothing is published.
Quiet == ~shutting => \A c \in Clients : \A i \in DOMAIN sq[c] : sq[c][i] # Sentinel

IInv == TypeOK /\ Quiet /\ \A c \in Clients : ClientInv(c)

-----------------------------------------------------------------------------
(* Sequences of events and messages: at the front and at the back.         *)

LEMMA AppendIs ==
    ASSUME NEW S, NEW s \in Seq(S), NEW e \in S
    PROVE  /\ Append(s, e) \in Seq(S) /\ Len(Append(s, e)) = Len(s) + 1 /\ Len(s) \in Nat
           /\ DOMAIN s = 1 .. Len(s) /\ DOMAIN Append(s, e) = 1 .. Len(s) + 1
           /\ \A i \in 1 .. Len(s) : Append(s, e)[i] = s[i]
           /\ Append(s, e)[Len(s) + 1] = e
  BY AppendProperties, LenProperties

LEMMA TailIs ==
    ASSUME NEW S, NEW s \in Seq(S), s # <<>>
    PROVE  /\ Tail(s) \in Seq(S) /\ Len(s) \in Nat /\ Len(s) > 0 /\ Len(Tail(s)) = Len(s) - 1
           /\ DOMAIN s = 1 .. Len(s) /\ DOMAIN Tail(s) = 1 .. Len(s) - 1
           /\ Head(s) = s[1] /\ Head(s) \in S
           /\ \A i \in 1 .. Len(s) - 1 : Tail(s)[i] = s[i + 1]
  <1>1. Len(s) \in Nat /\ Len(s) > 0 /\ DOMAIN s = 1 .. Len(s)
    BY LenProperties, EmptySeq
  <1>2. Head(s) \in S /\ Tail(s) \in Seq(S) /\ Len(Tail(s)) = Len(s) - 1
        /\ \A i \in 1 .. Len(Tail(s)) : Tail(s)[i] = s[i + 1]
    BY HeadTailProperties
  <1>3. DOMAIN Tail(s) = 1 .. Len(Tail(s))
    BY <1>2, LenProperties
  <1>4. Head(s) = s[1]
    OBVIOUS
  <1> QED BY <1>1, <1>2, <1>3, <1>4

LEMMA EvsAppend ==
    ASSUME NEW S, NEW s \in Seq(S), NEW e \in S
    PROVE  Evs(Append(s, e)) = Evs(s) \cup ({e} \ {Sentinel})
  <1> DEFINE t == Append(s, e)
             n == Len(s)
  <1>1. /\ n \in Nat /\ DOMAIN s = 1 .. n /\ DOMAIN t = 1 .. n + 1
        /\ \A i \in 1 .. n : t[i] = s[i]
        /\ t[n + 1] = e
    BY AppendIs
  <1> HIDE DEF t, n
  <1>2. \A x \in Evs(t) : x \in Evs(s) \cup ({e} \ {Sentinel})
    <2> SUFFICES ASSUME NEW i \in DOMAIN t, t[i] # Sentinel PROVE t[i] \in Evs(s) \cup ({e} \ {Sentinel})
      BY DEF Evs
    <2>1. i \in 1 .. n \/ i = n + 1
      BY <1>1
    <2>2. CASE i \in 1 .. n
      BY <1>1, <2>2 DEF Evs
    <2> QED BY <1>1, <2>1, <2>2
  <1>3. \A x \in Evs(s) : x \in Evs(t)
    <2> SUFFICES ASSUME NEW i \in DOMAIN s, s[i] # Sentinel PROVE s[i] \in Evs(t)
      BY DEF Evs
    <2>1. i \in DOMAIN t /\ t[i] = s[i]
      BY <1>1
    <2> QED BY <2>1 DEF Evs
  <1>4. e # Sentinel => e \in Evs(t)
    <2>1. n + 1 \in DOMAIN t
      BY <1>1
    <2> QED BY <1>1, <2>1 DEF Evs
  <1> QED BY <1>2, <1>3, <1>4 DEF t

LEMMA EvsTail ==
    ASSUME NEW S, NEW s \in Seq(S), s # <<>>
    PROVE  Evs(s) = Evs(Tail(s)) \cup ({Head(s)} \ {Sentinel})
  <1> DEFINE t == Tail(s)
             n == Len(s)
             h == Head(s)
  <1>1. /\ n \in Nat /\ n > 0 /\ DOMAIN s = 1 .. n /\ DOMAIN t = 1 .. n - 1 /\ h = s[1]
        /\ \A i \in 1 .. n - 1 : t[i] = s[i + 1]
    BY TailIs
  <1> HIDE DEF t, n, h
  <1>2. \A x \in Evs(s) : x \in Evs(t) \cup ({h} \ {Sentinel})
    <2> SUFFICES ASSUME NEW i \in DOMAIN s, s[i] # Sentinel PROVE s[i] \in Evs(t) \cup ({h} \ {Sentinel})
      BY DEF Evs
    <2>1. CASE i = 1
      BY <1>1, <2>1
    <2>2. CASE i # 1
      <3> DEFINE j == i - 1
      <3>1. j \in DOMAIN t /\ t[j] = s[i]
        BY <1>1, <2>2
      <3> HIDE DEF j
      <3> QED BY <3>1 DEF Evs
    <2> QED BY <2>1, <2>2
  <1>3. \A x \in Evs(t) : x \in Evs(s)
    <2> SUFFICES ASSUME NEW i \in DOMAIN t, t[i] # Sentinel PROVE t[i] \in Evs(s)
      BY DEF Evs
    <2> DEFINE j == i + 1
    <2>1. j \in DOMAIN s /\ s[j] = t[i]
      BY <1>1
    <2> HIDE DEF j
    <2> QED BY <2>1 DEF Evs
  <1>4. h # Sentinel => h \in Evs(s)
    <2>1. 1 \in DOMAIN s
      BY <1>1
    <2> QED BY <1>1, <2>1 DEF Evs
  <1> QED BY <1>2, <1>3, <1>4 DEF t, h

LEMMA RisingAppend ==
    ASSUME NEW S, NEW s \in Seq(S), NEW e \in S, Rising(s), e # Sentinel => \A x \in Evs(s) : x < e
    PROVE  Rising(Append(s, e))
  <1> DEFINE t == Append(s, e)
             n == Len(s)
  <1>1. /\ n \in Nat /\ DOMAIN s = 1 .. n /\ DOMAIN t = 1 .. n + 1
        /\ \A i \in 1 .. n : t[i] = s[i]
        /\ t[n + 1] = e
    BY AppendIs
  <1> HIDE DEF t, n
  <1> SUFFICES ASSUME NEW i \in DOMAIN t, NEW j \in DOMAIN t, i < j, t[i] # Sentinel, t[j] # Sentinel
               PROVE  t[i] < t[j]
    BY DEF Rising, t
  <1>2. i \in 1 .. n /\ (j \in 1 .. n \/ j = n + 1)
    BY <1>1
  <1>3. CASE j \in 1 .. n
    BY <1>1, <1>2, <1>3 DEF Rising
  <1>4. CASE j = n + 1
    <2>1. s[i] \in Evs(s)
      BY <1>1, <1>2 DEF Evs
    <2> QED BY <1>1, <1>2, <1>4, <2>1
  <1> QED BY <1>2, <1>3, <1>4

LEMMA RisingTail ==
    ASSUME NEW S, NEW s \in Seq(S), s # <<>>, Rising(s)
    PROVE  Rising(Tail(s)) /\ (Head(s) # Sentinel => \A x \in Evs(Tail(s)) : Head(s) < x)
  <1> DEFINE t == Tail(s)
             n == Len(s)
             h == Head(s)
  <1>1. /\ n \in Nat /\ n > 0 /\ DOMAIN s = 1 .. n /\ DOMAIN t = 1 .. n - 1 /\ h = s[1]
        /\ \A i \in 1 .. n - 1 : t[i] = s[i + 1]
    BY TailIs
  <1> HIDE DEF t, n, h
  <1>2. ASSUME NEW i \in DOMAIN t, NEW j \in DOMAIN t, i < j, t[i] # Sentinel, t[j] # Sentinel
        PROVE  t[i] < t[j]
    <2> DEFINE k == i + 1
               l == j + 1
    <2>1. k \in DOMAIN s /\ l \in DOMAIN s /\ k < l /\ t[i] = s[k] /\ t[j] = s[l]
      BY <1>1, <1>2
    <2> HIDE DEF k, l
    <2> QED BY <1>2, <2>1 DEF Rising
  <1>3. ASSUME h # Sentinel, NEW i \in DOMAIN t, t[i] # Sentinel PROVE h < t[i]
    <2> DEFINE k == i + 1
    <2>1. k \in DOMAIN s /\ 1 \in DOMAIN s /\ 1 < k /\ t[i] = s[k]
      BY <1>1
    <2> HIDE DEF k
    <2> QED BY <1>1, <1>3, <2>1 DEF Rising
  <1>4. Rising(t)
    BY <1>2 DEF Rising
  <1>5. h # Sentinel => \A x \in Evs(t) : h < x
    BY <1>3 DEF Evs
  <1> QED BY <1>4, <1>5 DEF t, h

LEMMA PEvsAppend ==
    ASSUME NEW p \in Seq(Msgs), NEW m \in Msgs
    PROVE  PEvs(Append(p, m)) = PEvs(p) \cup IF m.kind = "event" THEN {m.id} ELSE {}
  <1> DEFINE t == Append(p, m)
             n == Len(p)
  <1>1. /\ n \in Nat /\ DOMAIN p = 1 .. n /\ DOMAIN t = 1 .. n + 1
        /\ \A i \in 1 .. n : t[i] = p[i]
        /\ t[n + 1] = m
    BY AppendIs
  <1> HIDE DEF t, n
  <1>2. \A x \in PEvs(t) : x \in PEvs(p) \cup IF m.kind = "event" THEN {m.id} ELSE {}
    <2> SUFFICES ASSUME NEW i \in DOMAIN t, t[i].kind = "event"
                 PROVE  t[i].id \in PEvs(p) \cup IF m.kind = "event" THEN {m.id} ELSE {}
      BY DEF PEvs
    <2>1. i \in 1 .. n \/ i = n + 1
      BY <1>1
    <2>2. CASE i \in 1 .. n
      <3>1. i \in DOMAIN p /\ p[i].kind = "event" /\ t[i].id = p[i].id
        BY <1>1, <2>2
      <3> QED BY <3>1 DEF PEvs
    <2> QED BY <1>1, <2>1, <2>2
  <1>3. \A x \in PEvs(p) : x \in PEvs(t)
    <2> SUFFICES ASSUME NEW i \in DOMAIN p, p[i].kind = "event" PROVE p[i].id \in PEvs(t)
      BY DEF PEvs
    <2>1. i \in DOMAIN t /\ t[i] = p[i]
      BY <1>1
    <2>2. t[i].kind = "event" /\ t[i].id = p[i].id
      BY <2>1
    <2> QED BY <2>1, <2>2 DEF PEvs
  <1>4. m.kind = "event" => m.id \in PEvs(t)
    <2> DEFINE k == n + 1
    <2>1. k \in DOMAIN t /\ t[k] = m
      BY <1>1
    <2> HIDE DEF k
    <2>2. m.kind = "event" => k \in DOMAIN t /\ t[k].kind = "event" /\ t[k].id = m.id
      BY <2>1
    <2> QED BY <2>2 DEF PEvs
  <1> QED BY <1>2, <1>3, <1>4 DEF t

LEMMA PEvsTail ==
    ASSUME NEW p \in Seq(Msgs), p # <<>>
    PROVE  PEvs(p) = PEvs(Tail(p)) \cup IF Head(p).kind = "event" THEN {Head(p).id} ELSE {}
  <1> DEFINE t == Tail(p)
             n == Len(p)
             h == Head(p)
  <1>1. /\ n \in Nat /\ n > 0 /\ DOMAIN p = 1 .. n /\ DOMAIN t = 1 .. n - 1 /\ h = p[1]
        /\ \A i \in 1 .. n - 1 : t[i] = p[i + 1]
    BY TailIs
  <1> HIDE DEF t, n, h
  <1>2. \A x \in PEvs(p) : x \in PEvs(t) \cup IF h.kind = "event" THEN {h.id} ELSE {}
    <2> SUFFICES ASSUME NEW i \in DOMAIN p, p[i].kind = "event"
                 PROVE  p[i].id \in PEvs(t) \cup IF h.kind = "event" THEN {h.id} ELSE {}
      BY DEF PEvs
    <2>1. CASE i = 1
      BY <1>1, <2>1
    <2>2. CASE i # 1
      <3> DEFINE j == i - 1
      <3>1. j \in DOMAIN t /\ t[j] = p[i]
        BY <1>1, <2>2
      <3> HIDE DEF j
      <3>2. j \in DOMAIN t /\ t[j].kind = "event" /\ t[j].id = p[i].id
        BY <3>1
      <3> QED BY <3>2 DEF PEvs
    <2> QED BY <2>1, <2>2
  <1>3. \A x \in PEvs(t) : x \in PEvs(p)
    <2> SUFFICES ASSUME NEW i \in DOMAIN t, t[i].kind = "event" PROVE t[i].id \in PEvs(p)
      BY DEF PEvs
    <2> DEFINE j == i + 1
    <2>1. j \in DOMAIN p /\ p[j] = t[i]
      BY <1>1
    <2> HIDE DEF j
    <2>2. p[j].kind = "event" /\ p[j].id = t[i].id
      BY <2>1
    <2> QED BY <2>1, <2>2 DEF PEvs
  <1>4. h.kind = "event" => h.id \in PEvs(p)
    <2>1. 1 \in DOMAIN p /\ p[1] = h
      BY <1>1
    <2>2. h.kind = "event" => p[1].kind = "event" /\ p[1].id = h.id
      BY <2>1
    <2> QED BY <2>1, <2>2 DEF PEvs
  <1> QED BY <1>2, <1>3, <1>4 DEF t, h

LEMMA PRisingAppend ==
    ASSUME NEW p \in Seq(Msgs), NEW m \in Msgs, PRising(p),
           m.kind = "event" => \A x \in PEvs(p) : x < m.id
    PROVE  PRising(Append(p, m))
  <1> DEFINE t == Append(p, m)
             n == Len(p)
  <1>1. /\ n \in Nat /\ DOMAIN p = 1 .. n /\ DOMAIN t = 1 .. n + 1
        /\ \A i \in 1 .. n : t[i] = p[i]
        /\ t[n + 1] = m
    BY AppendIs
  <1> HIDE DEF t, n
  <1> SUFFICES ASSUME NEW i \in DOMAIN t, NEW j \in DOMAIN t, i < j,
                      t[i].kind = "event", t[j].kind = "event"
               PROVE  t[i].id < t[j].id
    BY DEF PRising, t
  <1>2. i \in 1 .. n /\ (j \in 1 .. n \/ j = n + 1)
    BY <1>1
  <1>3. CASE j \in 1 .. n
    <2>1. i \in DOMAIN p /\ j \in DOMAIN p /\ t[i] = p[i] /\ t[j] = p[j]
      BY <1>1, <1>2, <1>3
    <2>2. p[i].kind = "event" /\ p[j].kind = "event" /\ t[i].id = p[i].id /\ t[j].id = p[j].id
      BY <2>1
    <2> QED BY <2>1, <2>2 DEF PRising
  <1>4. CASE j = n + 1
    <2>1. i \in DOMAIN p /\ t[i] = p[i] /\ t[j] = m
      BY <1>1, <1>2, <1>4
    <2>2. p[i].kind = "event" /\ m.kind = "event" /\ t[i].id = p[i].id /\ t[j].id = m.id
      BY <2>1
    <2>3. p[i].id \in PEvs(p)
      BY <2>1, <2>2 DEF PEvs
    <2> QED BY <2>2, <2>3
  <1> QED BY <1>2, <1>3, <1>4

LEMMA PRisingTail ==
    ASSUME NEW p \in Seq(Msgs), p # <<>>, PRising(p)
    PROVE  /\ PRising(Tail(p))
           /\ Head(p).kind = "event" => \A x \in PEvs(Tail(p)) : Head(p).id < x
  <1> DEFINE t == Tail(p)
             n == Len(p)
             h == Head(p)
  <1>1. /\ n \in Nat /\ n > 0 /\ DOMAIN p = 1 .. n /\ DOMAIN t = 1 .. n - 1 /\ h = p[1]
        /\ \A i \in 1 .. n - 1 : t[i] = p[i + 1]
    BY TailIs
  <1> HIDE DEF t, n, h
  <1>2. ASSUME NEW i \in DOMAIN t, NEW j \in DOMAIN t, i < j, t[i].kind = "event", t[j].kind = "event"
        PROVE  t[i].id < t[j].id
    <2> DEFINE k == i + 1
               l == j + 1
    <2>1. k \in DOMAIN p /\ l \in DOMAIN p /\ k < l /\ t[i] = p[k] /\ t[j] = p[l]
      BY <1>1, <1>2
    <2> HIDE DEF k, l
    <2>2. p[k].kind = "event" /\ p[l].kind = "event" /\ t[i].id = p[k].id /\ t[j].id = p[l].id
      BY <1>2, <2>1
    <2> QED BY <2>1, <2>2 DEF PRising
  <1>3. ASSUME h.kind = "event", NEW i \in DOMAIN t, t[i].kind = "event" PROVE h.id < t[i].id
    <2> DEFINE k == i + 1
    <2>1. k \in DOMAIN p /\ 1 \in DOMAIN p /\ 1 < k /\ t[i] = p[k] /\ h = p[1]
      BY <1>1
    <2> HIDE DEF k
    <2>2. p[k].kind = "event" /\ p[1].kind = "event" /\ t[i].id = p[k].id /\ h.id = p[1].id
      BY <1>3, <2>1
    <2> QED BY <2>1, <2>2 DEF PRising
  <1>4. PRising(t)
    BY <1>2 DEF PRising
  <1>5. h.kind = "event" => \A x \in PEvs(t) : h.id < x
    BY <1>3 DEF PEvs
  <1> QED BY <1>4, <1>5 DEF t, h

LEMMA EmptyIs ==
    /\ Evs(<<>>) = {} /\ PEvs(<<>>) = {} /\ Rising(<<>>) /\ PRising(<<>>)
  <1>1. DOMAIN <<>> = {}
    OBVIOUS
  <1> QED BY <1>1 DEF Evs, PEvs, Rising, PRising

-----------------------------------------------------------------------------
(* The chain of what is on its way, as one event after the other moves on. *)

Queues == Seq(Events \cup {Sentinel})

LEMMA EventsAreNat ==
    /\ Events \subseteq Nat /\ Sentinel \notin Events
    /\ \A s \in Seq(Events) : s \in Queues
    /\ \A s \in Queues : Evs(s) \subseteq Events
    /\ \A p \in Seq(Msgs) : PEvs(p) \subseteq 0 .. MaxEvents
  <1>1. Events \subseteq Nat /\ Sentinel \notin Events
    BY StreamAssumption DEF Events
  <1>2. \A s \in Seq(Events) : s \in Queues
    BY SeqMonotonic DEF Queues
  <1>3. ASSUME NEW s \in Queues PROVE Evs(s) \subseteq Events
    BY LenProperties, ElementOfSeq DEF Evs, Queues
  <1>4. ASSUME NEW p \in Seq(Msgs) PROVE PEvs(p) \subseteq 0 .. MaxEvents
    <2>1. \A i \in DOMAIN p : p[i] \in Msgs
      BY LenProperties, ElementOfSeq
    <2> QED BY <2>1 DEF PEvs, Msgs
  <1> QED BY <1>1, <1>2, <1>3, <1>4

\* The client takes an event off the connection.
LEMMA Delivers ==
    ASSUME NEW g \in Seq(Events), NEW p \in Seq(Msgs), NEW t \in Seq(Events), NEW q \in Queues,
           Flow(g, p, t, q), p # <<>>, Head(p).kind = "event", Head(p).id \in Events
    PROVE  /\ Flow(Append(g, Head(p).id), Tail(p), t, q)
           /\ InFlight(p, t, q) = InFlight(Tail(p), t, q) \cup {Head(p).id}
           /\ Evs(Append(g, Head(p).id)) = Evs(g) \cup {Head(p).id}
  <1> DEFINE e == Head(p).id
             k == Tail(p)
             h == Append(g, e)
  <1>1. e \in Events /\ e # Sentinel
    BY EventsAreNat
  <1>2. PEvs(p) = PEvs(k) \cup {e} /\ PRising(k) /\ \A x \in PEvs(k) : e < x
    BY PEvsTail, PRisingTail DEF Flow
  <1> HIDE DEF e, k
  <1>3. Evs(h) = Evs(g) \cup {e}
    BY <1>1, EvsAppend
  <1>4. \A x \in Evs(g) : x < e
    BY <1>2 DEF Flow, Below, InFlight
  <1>5. Rising(h)
    BY <1>1, <1>4, RisingAppend DEF Flow
  <1> HIDE DEF h
  <1>6. InFlight(p, t, q) = InFlight(k, t, q) \cup {e}
    BY <1>2 DEF InFlight
  <1>7. Below(Evs(h), InFlight(k, t, q)) /\ Below(PEvs(k), Evs(t) \cup Evs(q))
    BY <1>2, <1>3 DEF Flow, Below, InFlight
  <1>8. Flow(h, k, t, q)
    BY <1>2, <1>5, <1>7 DEF Flow
  <1> QED BY <1>3, <1>6, <1>8 DEF e, k, h

\* The client takes something else off it.
LEMMA Passes ==
    ASSUME NEW g, NEW p \in Seq(Msgs), NEW t, NEW q,
           Flow(g, p, t, q), p # <<>>, Head(p).kind # "event"
    PROVE  Flow(g, Tail(p), t, q) /\ InFlight(p, t, q) = InFlight(Tail(p), t, q)
  <1> DEFINE k == Tail(p)
  <1>1. PEvs(p) = PEvs(k) /\ PRising(k)
    BY PEvsTail, PRisingTail DEF Flow
  <1> HIDE DEF k
  <1>2. Flow(g, k, t, q) /\ InFlight(p, t, q) = InFlight(k, t, q)
    BY <1>1 DEF Flow, InFlight
  <1> QED BY <1>2 DEF k

\* The server sends what is no event.
LEMMA Announces ==
    ASSUME NEW g, NEW p \in Seq(Msgs), NEW t, NEW q, NEW m \in Msgs,
           Flow(g, p, t, q), m.kind # "event"
    PROVE  Flow(g, Append(p, m), t, q) /\ InFlight(Append(p, m), t, q) = InFlight(p, t, q)
  <1> DEFINE k == Append(p, m)
  <1>1. PEvs(k) = PEvs(p) /\ PRising(k)
    BY PEvsAppend, PRisingAppend DEF Flow
  <1> HIDE DEF k
  <1>2. Flow(g, k, t, q) /\ InFlight(p, t, q) = InFlight(k, t, q)
    BY <1>1 DEF Flow, InFlight
  <1> QED BY <1>2 DEF k

\* The server sends the next event of the replay.
LEMMA Replays ==
    ASSUME NEW g, NEW p \in Seq(Msgs), NEW t \in Seq(Events), NEW q, NEW m \in Msgs,
           Flow(g, p, t, q), t # <<>>, m.kind = "event", m.id = Head(t)
    PROVE  /\ Flow(g, Append(p, m), Tail(t), q)
           /\ InFlight(Append(p, m), Tail(t), q) = InFlight(p, t, q)
  <1> DEFINE e == Head(t)
             k == Append(p, m)
             r == Tail(t)
  <1>1. e \in Events /\ e # Sentinel
    BY HeadTailProperties, EventsAreNat
  <1>2. Evs(t) = Evs(r) \cup {e} /\ Rising(r) /\ \A x \in Evs(r) : e < x
    BY <1>1, EvsTail, RisingTail DEF Flow
  <1> HIDE DEF e, r
  <1>3. \A x \in PEvs(p) : x < m.id
    BY <1>2 DEF Flow, Below, e
  <1>4. PEvs(k) = PEvs(p) \cup {e} /\ PRising(k)
    BY <1>3, PEvsAppend, PRisingAppend DEF Flow, e
  <1> HIDE DEF k
  <1>5. InFlight(k, r, q) = InFlight(p, t, q)
    BY <1>2, <1>4 DEF InFlight
  <1>6. Below(Evs(g), InFlight(k, r, q)) /\ Below(PEvs(k), Evs(r) \cup Evs(q)) /\ Below(Evs(r), Evs(q))
    BY <1>2, <1>4, <1>5 DEF Flow, Below
  <1> QED BY <1>2, <1>4, <1>5, <1>6 DEF Flow, k, r

\* The server sends the event at the head of the queue.
LEMMA Forwards ==
    ASSUME NEW g, NEW p \in Seq(Msgs), NEW q \in Queues, NEW m \in Msgs,
           Flow(g, p, <<>>, q), q # <<>>, Head(q) # Sentinel, m.kind = "event", m.id = Head(q)
    PROVE  /\ Flow(g, Append(p, m), <<>>, Tail(q))
           /\ InFlight(Append(p, m), <<>>, Tail(q)) = InFlight(p, <<>>, q)
  <1> DEFINE e == Head(q)
             k == Append(p, m)
             r == Tail(q)
  <1>1. Evs(q) = Evs(r) \cup {e} /\ Rising(r) /\ \A x \in Evs(r) : e < x
    BY EvsTail, RisingTail DEF Flow, Queues
  <1> HIDE DEF e, r
  <1>2. \A x \in PEvs(p) : x < m.id
    BY <1>1 DEF Flow, Below, e
  <1>3. PEvs(k) = PEvs(p) \cup {e} /\ PRising(k)
    BY <1>2, PEvsAppend, PRisingAppend DEF Flow, e
  <1> HIDE DEF k
  <1>4. InFlight(k, <<>>, r) = InFlight(p, <<>>, q)
    BY <1>1, <1>3 DEF InFlight
  <1>5. Below(Evs(g), InFlight(k, <<>>, r)) /\ Below(PEvs(k), Evs(<<>>) \cup Evs(r)) /\ Below(Evs(<<>>), Evs(r))
    BY <1>1, <1>3, <1>4, EmptyIs DEF Flow, Below
  <1> QED BY <1>1, <1>3, <1>4, <1>5 DEF Flow, k, r

\* The queue loses its head, an event or a sentinel.
LEMMA Drops ==
    ASSUME NEW g, NEW p, NEW t, NEW q \in Queues, Flow(g, p, t, q), q # <<>>
    PROVE  /\ Flow(g, p, t, Tail(q)) /\ Tail(q) \in Queues
           /\ Head(q) # Sentinel =>
                \A y : y \in InFlight(p, t, q) <=> y \in InFlight(p, t, Tail(q)) \/ y = Head(q)
  <1> DEFINE r == Tail(q)
             x == {Head(q)} \ {Sentinel}
  <1>1. Evs(q) = Evs(r) \cup x /\ Rising(r) /\ r \in Queues
    BY EvsTail, RisingTail, HeadTailProperties DEF Flow, Queues
  <1>2. Head(q) # Sentinel => x = {Head(q)}
    OBVIOUS
  <1> HIDE DEF r, x
  <1>3. Flow(g, p, t, r) /\ InFlight(p, t, q) = InFlight(p, t, r) \cup x
    BY <1>1 DEF Flow, Below, InFlight
  <1> QED BY <1>1, <1>2, <1>3 DEF r

\* The queue gains an event above all others, or a sentinel.
LEMMA Queued ==
    ASSUME NEW g, NEW p, NEW t, NEW q \in Queues, NEW e \in Events \cup {Sentinel}, Flow(g, p, t, q),
           e # Sentinel => \A x \in Evs(g) \cup InFlight(p, t, q) : x < e
    PROVE  /\ Flow(g, p, t, Append(q, e)) /\ Append(q, e) \in Queues
           /\ InFlight(p, t, Append(q, e)) = InFlight(p, t, q) \cup ({e} \ {Sentinel})
           /\ Evs(Append(q, e)) = Evs(q) \cup ({e} \ {Sentinel})
  <1> DEFINE r == Append(q, e)
             x == {e} \ {Sentinel}
  <1>1. e # Sentinel => \A y \in Evs(q) : y < e
    BY DEF InFlight
  <1>2. Evs(r) = Evs(q) \cup x /\ Rising(r) /\ r \in Queues
    BY <1>1, EvsAppend, RisingAppend, AppendProperties DEF Flow, Queues
  <1>3. \A y \in x : \A z \in Evs(g) \cup InFlight(p, t, q) : z < y
    OBVIOUS
  <1> HIDE DEF r, x
  <1>4. InFlight(p, t, r) = InFlight(p, t, q) \cup x
    BY <1>2 DEF InFlight
  <1>5. Below(Evs(g), InFlight(p, t, r)) /\ Below(PEvs(p), Evs(t) \cup Evs(r)) /\ Below(Evs(t), Evs(r))
    BY <1>2, <1>3, <1>4 DEF Flow, Below, InFlight
  <1> QED BY <1>2, <1>4, <1>5 DEF Flow, r, x

\* One message more, or one less, on a connection.
LEMMA MoreMessages ==
    ASSUME NEW p \in Seq(Msgs), NEW m \in Msgs
    PROVE  /\ Append(p, m) \in Seq(Msgs) /\ Append(p, m) # <<>>
           /\ p # <<>> => Head(Append(p, m)) = Head(p)
           /\ \A i \in DOMAIN Append(p, m) :
                \/ i \in DOMAIN p /\ Append(p, m)[i] = p[i]
                \/ i = Len(Append(p, m)) /\ Append(p, m)[i] = m
  <1> DEFINE t == Append(p, m)
             n == Len(p)
  <1>1. /\ n \in Nat /\ DOMAIN p = 1 .. n /\ DOMAIN t = 1 .. n + 1 /\ Len(t) = n + 1 /\ t \in Seq(Msgs)
        /\ \A i \in 1 .. n : t[i] = p[i]
        /\ t[n + 1] = m
    BY AppendIs
  <1>2. p # <<>> => n > 0 /\ Head(p) = p[1]
    BY TailIs
  <1>3. t # <<>> /\ Head(t) = t[1]
    BY <1>1, EmptySeq, TailIs
  <1> HIDE DEF t, n
  <1>4. p # <<>> => Head(t) = Head(p)
    BY <1>1, <1>2, <1>3
  <1>5. \A i \in DOMAIN t : (i \in DOMAIN p /\ t[i] = p[i]) \/ (i = Len(t) /\ t[i] = m)
    BY <1>1
  <1> QED BY <1>1, <1>3, <1>4, <1>5 DEF t

LEMMA FewerMessages ==
    ASSUME NEW p \in Seq(Msgs), p # <<>>
    PROVE  /\ Tail(p) \in Seq(Msgs) /\ Head(p) \in Msgs
           /\ 1 \in DOMAIN p /\ Head(p) = p[1] /\ Len(Tail(p)) = Len(p) - 1 /\ Len(p) \in Nat
           /\ Len(p) = 1 => Tail(p) = <<>>
           /\ \A i \in DOMAIN Tail(p) : i \in Nat /\ i + 1 \in DOMAIN p /\ Tail(p)[i] = p[i + 1]
  <1> DEFINE t == Tail(p)
             n == Len(p)
  <1>1. /\ n \in Nat /\ n > 0 /\ DOMAIN p = 1 .. n /\ DOMAIN t = 1 .. n - 1 /\ Len(t) = n - 1 /\ t \in Seq(Msgs)
        /\ Head(p) = p[1] /\ Head(p) \in Msgs
        /\ \A i \in 1 .. n - 1 : t[i] = p[i + 1]
    BY TailIs
  <1>2. t # <<>> => Len(t) > 0
    BY <1>1, EmptySeq
  <1> HIDE DEF t, n
  <1> QED BY <1>1, <1>2 DEF t, n

\* What is replayed rises, and lies above the number it is asked for.
LEMMA ReplayIs ==
    ASSUME TypeOK, NEW n \in 0 .. MaxEvents
    PROVE  /\ ReplaySince(n) \in Seq(Events) /\ Rising(ReplaySince(n))
           /\ \A e \in Evs(ReplaySince(n)) : base + n < e /\ base < e /\ e <= published
  <1> DEFINE first == Larger(base, IF published > BufferSize THEN published - BufferSize ELSE 0)
             from == Larger(first, base + n)
             k == IF published > from THEN published - from ELSE 0
             s == [i \in 1 .. k |-> from + i]
  <1>1. base \in Nat /\ published \in Nat /\ published <= MaxEvents /\ n \in Nat /\ MaxEvents \in Nat /\ BufferSize \in Nat
    BY StreamAssumption DEF TypeOK
  <1>2. first \in Nat /\ first >= base
    BY <1>1 DEF Larger
  <1> HIDE DEF first
  <1>3. from \in Nat /\ from >= base + n /\ from >= base
    BY <1>1, <1>2 DEF Larger
  <1> HIDE DEF from
  <1>4. k \in Nat /\ (k > 0 => from + k = published)
    BY <1>1, <1>3
  <1> HIDE DEF k
  <1>5. \A i \in 1 .. k : from + i \in Events /\ from + i <= published
    BY <1>1, <1>3, <1>4 DEF Events
  <1>6. s \in [1 .. k -> Events]
    BY <1>5
  <1>7. s \in Seq(Events) /\ DOMAIN s = 1 .. k
    BY <1>4, <1>6
  <1>8. Rising(s)
    BY <1>3, <1>4, <1>7 DEF Rising
  <1>9. \A e \in Evs(s) : base + n < e /\ base < e /\ e <= published
    BY <1>1, <1>3, <1>5, <1>7 DEF Evs
  <1>10. ReplaySince(n) = s
    BY DEF ReplaySince, k, from, first
  <1> QED BY <1>7, <1>8, <1>9, <1>10

\* What lies above that number and is still in the buffer is replayed.
LEMMA InReplay ==
    ASSUME TypeOK, NEW n \in 0 .. MaxEvents, NEW e \in 1 .. published,
           e > base + n, e + BufferSize > published
    PROVE  e \in Evs(ReplaySince(n))
  <1> DEFINE first == Larger(base, IF published > BufferSize THEN published - BufferSize ELSE 0)
             from == Larger(first, base + n)
             k == IF published > from THEN published - from ELSE 0
             s == [i \in 1 .. k |-> from + i]
             i == e - from
  <1>1. /\ base \in Nat /\ published \in Nat /\ n \in Nat /\ BufferSize \in Nat /\ e \in Nat
        /\ e <= published /\ e \in Events
    BY StreamAssumption DEF TypeOK, Events
  <1>2. first \in Nat /\ first < e
    BY <1>1 DEF Larger
  <1> HIDE DEF first
  <1>3. from \in Nat /\ from < e
    BY <1>1, <1>2 DEF Larger
  <1> HIDE DEF from
  <1>4. i \in 1 .. k /\ from + i = e
    BY <1>1, <1>3
  <1> HIDE DEF i, k
  <1>5. i \in DOMAIN s /\ s[i] = e /\ e # Sentinel
    BY <1>1, <1>4, EventsAreNat
  <1>6. ReplaySince(n) = s
    BY DEF ReplaySince, k, from, first
  <1> HIDE DEF s
  <1> QED BY <1>5, <1>6 DEF Evs

-----------------------------------------------------------------------------
(* One client's step leaves the others alone.                              *)

Same(c) ==
  /\ gen'[c] = gen[c] /\ sq'[c] = sq[c] /\ todo'[c] = todo[c] /\ upTo'[c] = upTo[c]
  /\ pipe'[c] = pipe[c] /\ es'[c] = es[c] /\ last'[c] = last[c] /\ hadError'[c] = hadError[c]
  /\ since'[c] = since[c] /\ got'[c] = got[c] /\ fresh'[c] = fresh[c] /\ dropped'[c] = dropped[c]
  /\ (c \in stale' <=> c \in stale)

LEMMA SameKeeps ==
    ASSUME NEW c \in Clients, ClientInv(c), Same(c), UNCHANGED <<base, published>>
    PROVE  ClientInv(c)'
  BY DEF Same, ClientInv, Bounded, Phase, Covered, Told, Given

LEMMA OneClient ==
    ASSUME IInv, NEW d \in Clients, UNCHANGED <<base, published, shutting>>, TypeOK', ClientInv(d)',
           \A c \in Clients \ {d} : Same(c),
           \A i \in DOMAIN sq'[d] : sq'[d][i] = Sentinel => \E j \in DOMAIN sq[d] : sq[d][j] = Sentinel
    PROVE  IInv'
  <1>1. \A c \in Clients : ClientInv(c)'
    BY SameKeeps DEF IInv
  <1>2. Quiet'
    BY DEF IInv, Quiet, Same
  <1> QED BY <1>1, <1>2 DEF IInv

\* What is known of one client.
LEMMA ClientIs ==
    ASSUME IInv, NEW c \in Clients
    PROVE  /\ gen[c] \in {"none", "replay", "live"} /\ sq[c] \in Queues /\ Len(sq[c]) <= QueueSize
           /\ todo[c] \in Seq(Events) /\ upTo[c] \in 0 .. MaxEvents /\ pipe[c] \in Seq(Msgs)
           /\ es[c] \in {"new", "waiting", "connecting", "open"} /\ last[c] \in 0 .. MaxEvents
           /\ hadError[c] \in BOOLEAN /\ since[c] \in 0 .. MaxEvents /\ fresh[c] \in 0 .. MaxEvents
           /\ got[c] \in Seq(Events) /\ dropped[c] \subseteq Events
           /\ published \in 0 .. MaxEvents /\ published \in Nat /\ base \in Nat /\ base <= published
           /\ MaxEvents \in Nat
           /\ Flow(got[c], pipe[c], todo[c], sq[c]) /\ Bounded(c) /\ Phase(c) /\ Covered(c)
  BY StreamAssumption DEF IInv, TypeOK, ClientInv, Queues

\* What a client got, and what is on its way, are numbers.
LEMMA NumbersAre ==
    ASSUME IInv, NEW c \in Clients
    PROVE  /\ \A y \in InFlight(pipe[c], todo[c], sq[c]) \cup Evs(got[c]) : y \in Nat
           /\ \A i \in DOMAIN pipe[c] : pipe[c][i].id \in Nat
  <1>1. sq[c] \in Queues /\ todo[c] \in Queues /\ got[c] \in Queues /\ pipe[c] \in Seq(Msgs)
    <2>1. sq[c] \in Queues /\ todo[c] \in Seq(Events) /\ got[c] \in Seq(Events) /\ pipe[c] \in Seq(Msgs)
      BY ClientIs
    <2> QED BY <2>1, EventsAreNat
  <1>2. /\ Evs(sq[c]) \subseteq Events /\ Evs(todo[c]) \subseteq Events /\ Evs(got[c]) \subseteq Events
        /\ PEvs(pipe[c]) \subseteq 0 .. MaxEvents /\ Events \subseteq Nat
    BY <1>1, EventsAreNat
  <1>3. 0 .. MaxEvents \subseteq Nat
    OBVIOUS
  <1>4. \A y \in InFlight(pipe[c], todo[c], sq[c]) \cup Evs(got[c]) : y \in Nat
    BY <1>2, <1>3 DEF InFlight
  <1>5. ASSUME NEW i \in DOMAIN pipe[c] PROVE pipe[c][i].id \in Nat
    <2>1. pipe[c][i] \in Msgs
      BY <1>1, LenProperties, ElementOfSeq
    <2>2. pipe[c][i].id \in 0 .. MaxEvents
      BY <2>1 DEF Msgs
    <2> QED BY <1>3, <2>2
  <1> QED BY <1>4, <1>5

LEMMA MountKeeps ==
    ASSUME IInv, NEW d \in Clients, Mount(d)
    PROVE  IInv'
  <1>1. TypeOK'
    BY DEF IInv, TypeOK, Mount, busVars, genVars, missVars
  <1>2. \A c \in Clients \ {d} : Same(c)
    BY DEF IInv, TypeOK, Mount, busVars, genVars, Same, missVars
  <1>3. /\ es[d] = "new" /\ es'[d] = "connecting"
        /\ UNCHANGED <<base, published, shutting, gen, sq, todo, upTo, pipe, last, hadError, got, fresh, since, dropped, passed, lost, foreign, stale>>
    BY DEF IInv, TypeOK, Mount, busVars, genVars, missVars
  <1>4. ClientInv(d)'
    BY <1>3, ClientIs DEF ClientInv, Bounded, Phase, Covered, Told, Given
  <1> QED BY <1>1, <1>2, <1>3, <1>4, OneClient

LEMMA RetryKeeps ==
    ASSUME IInv, NEW d \in Clients, Retry(d)
    PROVE  IInv'
  <1>1. TypeOK'
    BY DEF IInv, TypeOK, Retry, busVars, genVars, missVars
  <1>2. \A c \in Clients \ {d} : Same(c)
    BY DEF IInv, TypeOK, Retry, busVars, genVars, Same, missVars
  <1>3. /\ es[d] = "waiting" /\ es'[d] = "connecting"
        /\ UNCHANGED <<base, published, shutting, gen, sq, todo, upTo, pipe, last, hadError, got, fresh, since, dropped, passed, lost, foreign, stale>>
    BY DEF IInv, TypeOK, Retry, busVars, genVars, missVars
  <1>4. ClientInv(d)'
    BY <1>3, ClientIs DEF ClientInv, Bounded, Phase, Covered, Told, Given
  <1> QED BY <1>1, <1>2, <1>3, <1>4, OneClient

\* The stream sends a message, an event or not: the connection stays as it should.
LEMMA SendsPhase ==
    ASSUME IInv, NEW d \in Clients, gen[d] # "none", NEW m \in Msgs,
           m.kind \in {"event", "sync"} => base <= m.id /\ m.id <= published, m.kind # "open"
    PROVE  LET p == Append(pipe[d], m) IN
           /\ p \in Seq(Msgs) /\ p # <<>>
           /\ es[d] = "connecting" => Head(p).kind = "open"
           /\ \A i \in DOMAIN p : p[i].kind = "end" => i = Len(p) /\ m.kind = "end"
           /\ \A i \in DOMAIN p : p[i].kind \in {"event", "sync"} => base <= p[i].id /\ p[i].id <= published
  <1> DEFINE p == Append(pipe[d], m)
  <1>1. pipe[d] \in Seq(Msgs) /\ Bounded(d) /\ Phase(d)
    BY ClientIs
  <1>2. /\ p \in Seq(Msgs) /\ p # <<>>
        /\ pipe[d] # <<>> => Head(p) = Head(pipe[d])
        /\ \A i \in DOMAIN p : (i \in DOMAIN pipe[d] /\ p[i] = pipe[d][i]) \/ (i = Len(p) /\ p[i] = m)
    BY <1>1, MoreMessages
  <1> HIDE DEF p
  <1>3. es[d] = "connecting" => Head(p).kind = "open"
    BY <1>1, <1>2 DEF Phase
  <1>4. \A i \in DOMAIN p : p[i].kind = "end" => i = Len(p) /\ m.kind = "end"
    BY <1>1, <1>2 DEF Phase
  <1>5. \A i \in DOMAIN p : p[i].kind \in {"event", "sync"} => base <= p[i].id /\ p[i].id <= published
    BY <1>1, <1>2 DEF Bounded
  <1> QED BY <1>2, <1>3, <1>4, <1>5 DEF p

LEMMA SendReplayKeeps ==
    ASSUME IInv, NEW d \in Clients, SendReplay(d)
    PROVE  IInv'
  <1> DEFINE e == Head(todo[d])
             m == Msg("event", e)
             p == Append(pipe[d], m)
             u == Larger(upTo[d], SeqNo(e))
  <1>1. /\ gen[d] = "replay" /\ todo[d] # <<>>
        /\ pipe' = [pipe EXCEPT ![d] = p]
        /\ todo' = [todo EXCEPT ![d] = Tail(todo[d])]
        /\ upTo' = [upTo EXCEPT ![d] = u]
        /\ UNCHANGED <<published, base, shutting, gen, sq, es, last, hadError, got, fresh, since, dropped, passed, lost, foreign, stale, breaks, restarts>>
    BY DEF SendReplay, Send, busVars, clientVars, missVars
  <1>2. e \in Events /\ Tail(todo[d]) \in Seq(Events) /\ e \in Evs(todo[d])
    BY <1>1, ClientIs, HeadTailProperties, EvsTail, EventsAreNat
  <1>3. e \in Nat /\ base < e /\ e <= published
    BY <1>2, ClientIs DEF Bounded, InFlight, Events
  <1>4. m \in Msgs /\ m.kind = "event" /\ m.id = e
    BY <1>2 DEF Msg, Msgs, Events
  <1> HIDE DEF m
  <1>5. /\ p \in Seq(Msgs) /\ p # <<>>
        /\ es[d] = "connecting" => Head(p).kind = "open"
        /\ \A i \in DOMAIN p : p[i].kind = "end" => i = Len(p) /\ m.kind = "end"
        /\ \A i \in DOMAIN p : p[i].kind \in {"event", "sync"} => base <= p[i].id /\ p[i].id <= published
    <2> HIDE DEF e
    <2>1. gen[d] # "none" /\ m \in Msgs /\ m.kind # "open" /\ base <= m.id /\ m.id <= published
      BY <1>1, <1>3, <1>4, ClientIs
    <2> QED BY <2>1, SendsPhase
  <1>6. /\ Flow(got[d], p, Tail(todo[d]), sq[d])
        /\ InFlight(p, Tail(todo[d]), sq[d]) = InFlight(pipe[d], todo[d], sq[d])
    <2>1. /\ Flow(got[d], pipe[d], todo[d], sq[d]) /\ pipe[d] \in Seq(Msgs) /\ todo[d] \in Seq(Events)
          /\ todo[d] # <<>> /\ m \in Msgs /\ m.kind = "event" /\ m.id = Head(todo[d])
      BY <1>1, <1>4, ClientIs
    <2> QED BY <2>1, Replays
  <1>7. \A x \in Evs(sq[d]) : e < x
    BY <1>2, ClientIs DEF Flow, Below
  <1>8. u \in 0 .. MaxEvents /\ (u = upTo[d] \/ base + u = e)
    BY <1>3, ClientIs DEF Larger, SeqNo
  <1> HIDE DEF e, p, u
  <1>9. TypeOK'
    BY <1>1, <1>2, <1>5, <1>8 DEF IInv, TypeOK
  <1>10. \A c \in Clients \ {d} : Same(c)
    BY <1>1 DEF IInv, TypeOK, Same
  <1>11. pipe'[d] = p /\ todo'[d] = Tail(todo[d]) /\ upTo'[d] = u
    BY <1>1 DEF IInv, TypeOK
  <1>12. Bounded(d)'
    BY <1>1, <1>3, <1>5, <1>6, <1>7, <1>8, <1>11, ClientIs DEF Bounded
  <1>13. Phase(d)'
    BY <1>1, <1>4, <1>5, <1>11, ClientIs DEF Phase
  <1>14. Covered(d)'
    BY <1>1, <1>6, <1>11, ClientIs DEF Covered, Told, Given
  <1>15. ClientInv(d)'
    BY <1>1, <1>6, <1>11, <1>12, <1>13, <1>14 DEF ClientInv
  <1> QED BY <1>1, <1>9, <1>10, <1>15, OneClient

LEMMA SendSyncKeeps ==
    ASSUME IInv, NEW d \in Clients, SendSync(d)
    PROVE  IInv'
  <1> DEFINE m == Msg("sync", published)
             p == Append(pipe[d], m)
  <1>1. /\ gen[d] = "replay" /\ todo[d] = <<>>
        /\ pipe' = [pipe EXCEPT ![d] = p]
        /\ gen' = [gen EXCEPT ![d] = "live"]
        /\ passed' = [passed EXCEPT ![d] = passed[d] \cup Evs(sq[d])]
        /\ UNCHANGED <<published, base, shutting, sq, todo, upTo, es, last, hadError, got, fresh, since, dropped, lost, foreign, stale, breaks, restarts>>
    BY DEF SendSync, Send, busVars, clientVars, missVars, Evs
  <1>2. m \in Msgs /\ m.kind = "sync" /\ base <= m.id /\ m.id <= published /\ gen[d] # "none"
    BY <1>1, ClientIs DEF Msg, Msgs
  <1> HIDE DEF m
  <1>3. /\ p \in Seq(Msgs) /\ p # <<>>
        /\ es[d] = "connecting" => Head(p).kind = "open"
        /\ \A i \in DOMAIN p : p[i].kind = "end" => i = Len(p) /\ m.kind = "end"
        /\ \A i \in DOMAIN p : p[i].kind \in {"event", "sync"} => base <= p[i].id /\ p[i].id <= published
    <2>1. m.kind # "open"
      BY <1>2
    <2> QED BY <1>2, <2>1, SendsPhase
  <1>4. Flow(got[d], p, todo[d], sq[d]) /\ InFlight(p, todo[d], sq[d]) = InFlight(pipe[d], todo[d], sq[d])
    <2>1. Flow(got[d], pipe[d], todo[d], sq[d]) /\ pipe[d] \in Seq(Msgs) /\ m.kind # "event"
      BY <1>2, ClientIs
    <2> QED BY <1>2, <2>1, Announces
  <1> HIDE DEF p
  <1>5. TypeOK'
    <2>1. passed' \in [Clients -> SUBSET Events]
      <3>1. Evs(sq[d]) \subseteq Events
        BY ClientIs, EventsAreNat
      <3> QED BY <1>1, <3>1 DEF IInv, TypeOK
    <2> QED BY <1>1, <1>3, <2>1 DEF IInv, TypeOK
  <1>6. \A c \in Clients \ {d} : Same(c)
    BY <1>1 DEF IInv, TypeOK, Same
  <1>7. pipe'[d] = p /\ gen'[d] = "live"
    BY <1>1 DEF IInv, TypeOK
  <1>8. Bounded(d)'
    BY <1>1, <1>3, <1>4, <1>7, ClientIs DEF Bounded
  <1>9. Phase(d)'
    BY <1>1, <1>2, <1>3, <1>7, ClientIs DEF Phase
  <1>10. Covered(d)'
    BY <1>1, <1>4, <1>7, ClientIs DEF Covered, Told, Given
  <1>11. ClientInv(d)'
    BY <1>1, <1>4, <1>7, <1>8, <1>9, <1>10 DEF ClientInv
  <1> QED BY <1>1, <1>5, <1>6, <1>11, OneClient

LEMMA KeepAliveKeeps ==
    ASSUME IInv, NEW d \in Clients, KeepAlive(d)
    PROVE  IInv'
  <1> DEFINE m == Msg("sync", published)
             p == Append(pipe[d], m)
  <1>1. /\ gen[d] = "live"
        /\ pipe' = [pipe EXCEPT ![d] = p]
        /\ UNCHANGED <<published, base, shutting, gen, sq, todo, upTo, es, last, hadError, got, fresh, since, dropped, passed, lost, foreign, stale, breaks, restarts>>
    BY DEF KeepAlive, Send, busVars, genVars, clientVars, missVars
  <1>2. m \in Msgs /\ m.kind = "sync" /\ base <= m.id /\ m.id <= published /\ gen[d] # "none"
    BY <1>1, ClientIs DEF Msg, Msgs
  <1> HIDE DEF m
  <1>3. /\ p \in Seq(Msgs) /\ p # <<>>
        /\ es[d] = "connecting" => Head(p).kind = "open"
        /\ \A i \in DOMAIN p : p[i].kind = "end" => i = Len(p) /\ m.kind = "end"
        /\ \A i \in DOMAIN p : p[i].kind \in {"event", "sync"} => base <= p[i].id /\ p[i].id <= published
    <2>1. m.kind # "open"
      BY <1>2
    <2> QED BY <1>2, <2>1, SendsPhase
  <1>4. Flow(got[d], p, todo[d], sq[d]) /\ InFlight(p, todo[d], sq[d]) = InFlight(pipe[d], todo[d], sq[d])
    <2>1. Flow(got[d], pipe[d], todo[d], sq[d]) /\ pipe[d] \in Seq(Msgs) /\ m.kind # "event"
      BY <1>2, ClientIs
    <2> QED BY <1>2, <2>1, Announces
  <1> HIDE DEF p
  <1>5. TypeOK'
    BY <1>1, <1>3 DEF IInv, TypeOK
  <1>6. \A c \in Clients \ {d} : Same(c)
    BY <1>1 DEF IInv, TypeOK, Same
  <1>7. pipe'[d] = p
    BY <1>1 DEF IInv, TypeOK
  <1>8. Bounded(d)'
    BY <1>1, <1>3, <1>4, <1>7, ClientIs DEF Bounded
  <1>9. Phase(d)'
    BY <1>1, <1>2, <1>3, <1>7, ClientIs DEF Phase
  <1>10. Covered(d)'
    BY <1>1, <1>4, <1>7, ClientIs DEF Covered, Told, Given
  <1>11. ClientInv(d)'
    BY <1>1, <1>4, <1>7, <1>8, <1>9, <1>10 DEF ClientInv
  <1> QED BY <1>1, <1>5, <1>6, <1>11, OneClient

\* The queue's event is above all that was replayed, so it is sent.
LEMMA SendLiveKeeps ==
    ASSUME IInv, NEW d \in Clients, SendLive(d)
    PROVE  IInv'
  <1> DEFINE e == Head(sq[d])
             m == Msg("event", e)
             p == Append(pipe[d], m)
             q == Tail(sq[d])
  <1>1. /\ gen[d] = "live" /\ sq[d] # <<>> /\ e # Sentinel
        /\ sq' = [sq EXCEPT ![d] = q]
        /\ UNCHANGED <<published, base, shutting, gen, todo, upTo, es, last, hadError, got, fresh, since, dropped, passed, lost, foreign, stale, breaks, restarts>>
    BY DEF SendLive, Send, busVars, clientVars, missVars
  <1>2. /\ e \in Events /\ q \in Queues /\ Len(q) <= QueueSize
        /\ Evs(sq[d]) = Evs(q) \cup {e}
        /\ \A i \in DOMAIN q : q[i] = Sentinel => \E j \in DOMAIN sq[d] : sq[d][j] = Sentinel
    <2>1. sq[d] \in Seq(Events \cup {Sentinel}) /\ Len(sq[d]) <= QueueSize
      BY ClientIs DEF Queues
    <2>2. /\ q \in Queues /\ Len(sq[d]) \in Nat /\ Len(q) = Len(sq[d]) - 1
          /\ e \in Events \cup {Sentinel}
          /\ DOMAIN sq[d] = 1 .. Len(sq[d]) /\ DOMAIN q = 1 .. Len(sq[d]) - 1
          /\ \A i \in 1 .. Len(sq[d]) - 1 : q[i] = sq[d][i + 1]
      BY <1>1, <2>1, TailIs DEF Queues
    <2>3. Evs(sq[d]) = Evs(q) \cup {e}
      BY <1>1, <2>1, EvsTail
    <2> HIDE DEF q, e
    <2>4. Len(q) <= QueueSize
      BY <2>1, <2>2, StreamAssumption
    <2>5. \A i \in DOMAIN q : i + 1 \in DOMAIN sq[d] /\ q[i] = sq[d][i + 1]
      BY <2>2
    <2> QED BY <1>1, <2>2, <2>3, <2>4, <2>5
  <1>3. e \in Nat /\ base < e /\ e <= published /\ e > base + upTo[d]
    BY <1>2, ClientIs DEF Bounded, InFlight, Events
  <1>4. SeqNo(e) > upTo[d]
    BY <1>3, ClientIs DEF SeqNo
  <1>5. pipe' = [pipe EXCEPT ![d] = p]
    BY <1>4 DEF SendLive, Send
  <1>6. m \in Msgs /\ m.kind = "event" /\ m.id = e /\ gen[d] # "none"
    BY <1>1, <1>2 DEF Msg, Msgs, Events
  <1> HIDE DEF m
  <1>7. /\ p \in Seq(Msgs) /\ p # <<>>
        /\ es[d] = "connecting" => Head(p).kind = "open"
        /\ \A i \in DOMAIN p : p[i].kind = "end" => i = Len(p) /\ m.kind = "end"
        /\ \A i \in DOMAIN p : p[i].kind \in {"event", "sync"} => base <= p[i].id /\ p[i].id <= published
    <2> HIDE DEF e
    <2>1. m.kind # "open" /\ base <= m.id /\ m.id <= published
      BY <1>3, <1>6, ClientIs
    <2> QED BY <1>6, <2>1, SendsPhase
  <1>8. todo[d] = <<>>
    BY <1>1, ClientIs DEF Phase
  <1>9. Flow(got[d], p, todo[d], q) /\ InFlight(p, todo[d], q) = InFlight(pipe[d], todo[d], sq[d])
    <2>1. /\ Flow(got[d], pipe[d], <<>>, sq[d]) /\ pipe[d] \in Seq(Msgs) /\ sq[d] \in Queues
          /\ sq[d] # <<>> /\ Head(sq[d]) # Sentinel /\ m \in Msgs /\ m.kind = "event" /\ m.id = Head(sq[d])
      BY <1>1, <1>6, <1>8, ClientIs
    <2> QED BY <1>8, <2>1, Forwards
  <1> HIDE DEF e, p, q
  <1>10. TypeOK'
    BY <1>1, <1>2, <1>5, <1>7 DEF IInv, TypeOK, Queues
  <1>11. \A c \in Clients \ {d} : Same(c)
    BY <1>1, <1>5 DEF IInv, TypeOK, Same
  <1>12. pipe'[d] = p /\ sq'[d] = q
    BY <1>1, <1>5 DEF IInv, TypeOK
  <1>13. Bounded(d)'
    BY <1>1, <1>2, <1>7, <1>9, <1>12, ClientIs DEF Bounded
  <1>14. Phase(d)'
    BY <1>1, <1>6, <1>7, <1>12, ClientIs DEF Phase
  <1>15. Covered(d)'
    BY <1>1, <1>9, <1>12, ClientIs DEF Covered, Told, Given
  <1>16. ClientInv(d)'
    BY <1>1, <1>9, <1>12, <1>13, <1>14, <1>15 DEF ClientInv
  <1> QED BY <1>1, <1>2, <1>10, <1>11, <1>12, <1>16, OneClient

LEMMA EmptyQueue == <<>> \in Queues /\ <<>> \in Seq(Events) /\ <<>> \in Seq(Msgs) /\ Len(<<>>) = 0 /\ DOMAIN <<>> = {}
  BY EmptySeq DEF Queues

\* A chain that loses its end is a chain.
LEMMA Shortened ==
    ASSUME NEW g, NEW p, NEW t, NEW q, Flow(g, p, t, q)
    PROVE  Flow(g, p, t, <<>>) /\ Flow(g, <<>>, <<>>, <<>>)
           /\ InFlight(<<>>, <<>>, <<>>) = {} /\ InFlight(p, t, <<>>) \subseteq InFlight(p, t, q)
  BY EmptyIs DEF Flow, Below, InFlight

LEMMA SendEndKeeps ==
    ASSUME IInv, NEW d \in Clients, SendEnd(d)
    PROVE  IInv'
  <1> DEFINE m == Msg("end", 0)
             p == Append(pipe[d], m)
  <1>1. /\ gen[d] = "live"
        /\ pipe' = [pipe EXCEPT ![d] = p]
        /\ gen' = [gen EXCEPT ![d] = "none"]
        /\ sq' = [sq EXCEPT ![d] = <<>>]
        /\ UNCHANGED <<published, base, shutting, todo, upTo, es, last, hadError, got, fresh, since, dropped, passed, lost, foreign, stale, breaks, restarts>>
    BY DEF SendEnd, Send, busVars, clientVars, missVars
  <1>2. m \in Msgs /\ m.kind = "end" /\ gen[d] # "none"
    BY <1>1, ClientIs DEF Msg, Msgs
  <1> HIDE DEF m
  <1>3. /\ p \in Seq(Msgs) /\ p # <<>>
        /\ es[d] = "connecting" => Head(p).kind = "open"
        /\ \A i \in DOMAIN p : p[i].kind = "end" => i = Len(p) /\ m.kind = "end"
        /\ \A i \in DOMAIN p : p[i].kind \in {"event", "sync"} => base <= p[i].id /\ p[i].id <= published
    <2>1. m.kind # "open" /\ m.kind \notin {"event", "sync"}
      BY <1>2
    <2> QED BY <1>2, <2>1, SendsPhase
  <1>4. Flow(got[d], p, todo[d], sq[d]) /\ InFlight(p, todo[d], sq[d]) = InFlight(pipe[d], todo[d], sq[d])
    <2>1. Flow(got[d], pipe[d], todo[d], sq[d]) /\ pipe[d] \in Seq(Msgs) /\ m.kind # "event"
      BY <1>2, ClientIs
    <2> QED BY <1>2, <2>1, Announces
  <1> HIDE DEF p
  <1>5. Flow(got[d], p, todo[d], <<>>) /\ InFlight(p, todo[d], <<>>) \subseteq InFlight(pipe[d], todo[d], sq[d])
        /\ Evs(<<>>) = {}
    BY <1>4, Shortened, EmptyIs
  <1>6. TypeOK'
    <2>1. sq' \in [Clients -> Seq(Events \cup {Sentinel})] /\ \A c \in Clients : Len(sq'[c]) <= QueueSize
      <3>1. <<>> \in Seq(Events \cup {Sentinel}) /\ Len(<<>>) <= QueueSize
        BY EmptyQueue, StreamAssumption DEF Queues
      <3> QED BY <1>1, <3>1 DEF IInv, TypeOK
    <2>2. pipe' \in [Clients -> Seq(Msgs)] /\ gen' \in [Clients -> {"none", "replay", "live"}]
      BY <1>1, <1>3 DEF IInv, TypeOK
    <2> QED BY <1>1, <2>1, <2>2 DEF IInv, TypeOK
  <1>7. \A c \in Clients \ {d} : Same(c)
    BY <1>1 DEF IInv, TypeOK, Same
  <1>8. pipe'[d] = p /\ gen'[d] = "none" /\ sq'[d] = <<>>
    BY <1>1 DEF IInv, TypeOK
  <1>9. Bounded(d)'
    BY <1>1, <1>3, <1>5, <1>8, ClientIs DEF Bounded
  <1>10. Phase(d)'
    BY <1>1, <1>2, <1>3, <1>8, ClientIs DEF Phase
  <1>11. Covered(d)'
    BY <1>8 DEF Covered
  <1>12. ClientInv(d)'
    BY <1>1, <1>5, <1>8, <1>9, <1>10, <1>11 DEF ClientInv
  <1> QED BY <1>1, <1>6, <1>7, <1>8, <1>12, EmptyQueue, OneClient

\* A connection that is gone leaves nothing on its way.
LEMMA CutIs ==
    ASSUME IInv, NEW d \in Clients, Cut(d)
    PROVE  /\ pipe' \in [Clients -> Seq(Msgs)] /\ gen' \in [Clients -> {"none", "replay", "live"}]
           /\ sq' \in [Clients -> Seq(Events \cup {Sentinel})] /\ todo' \in [Clients -> Seq(Events)]
           /\ \A c \in Clients : Len(sq'[c]) <= QueueSize
           /\ pipe'[d] = <<>> /\ gen'[d] = "none" /\ sq'[d] = <<>> /\ todo'[d] = <<>>
           /\ \A c \in Clients \ {d} :
                pipe'[c] = pipe[c] /\ gen'[c] = gen[c] /\ sq'[c] = sq[c] /\ todo'[c] = todo[c]
  <1>1. <<>> \in Seq(Events \cup {Sentinel}) /\ Len(<<>>) <= QueueSize /\ <<>> \in Seq(Events) /\ <<>> \in Seq(Msgs)
    BY EmptyQueue, StreamAssumption DEF Queues
  <1>2. /\ pipe \in [Clients -> Seq(Msgs)] /\ gen \in [Clients -> {"none", "replay", "live"}]
        /\ sq \in [Clients -> Seq(Events \cup {Sentinel})] /\ todo \in [Clients -> Seq(Events)]
        /\ \A c \in Clients : Len(sq[c]) <= QueueSize
    BY DEF IInv, TypeOK
  <1> QED BY <1>1, <1>2 DEF Cut

LEMMA CutBounded ==
    ASSUME IInv, NEW d \in Clients, UNCHANGED <<base, published, upTo, last, got>>,
           pipe'[d] = <<>>, gen'[d] = "none", sq'[d] = <<>>, todo'[d] = <<>>
    PROVE  Flow(got[d], pipe[d], todo[d], sq[d])' /\ Bounded(d)'
  <1>1. Flow(got[d], <<>>, <<>>, <<>>) /\ InFlight(<<>>, <<>>, <<>>) = {} /\ Evs(<<>>) = {} /\ DOMAIN <<>> = {}
    BY ClientIs, Shortened, EmptyIs, EmptyQueue
  <1> QED BY <1>1, ClientIs DEF Bounded

LEMMA BreakKeeps ==
    ASSUME IInv, NEW d \in Clients, Break(d)
    PROVE  IInv'
  <1>1. /\ Cut(d) /\ breaks' \in 0 .. MaxBreaks /\ es' = [es EXCEPT ![d] = "waiting"]
        /\ hadError' = [hadError EXCEPT ![d] = TRUE]
        /\ UNCHANGED <<published, base, shutting, upTo, last, got, fresh, since, dropped, passed, lost, foreign, stale, restarts>>
    BY StreamAssumption DEF Break, OnError, busVars, IInv, TypeOK, missVars
  <1>2. TypeOK'
    BY <1>1, CutIs DEF IInv, TypeOK
  <1>3. \A c \in Clients \ {d} : Same(c)
    <2>1. \A c \in Clients \ {d} : es'[c] = es[c] /\ hadError'[c] = hadError[c]
      BY <1>1 DEF IInv, TypeOK
    <2>2. \A c \in Clients \ {d} :
            pipe'[c] = pipe[c] /\ gen'[c] = gen[c] /\ sq'[c] = sq[c] /\ todo'[c] = todo[c]
      BY <1>1, CutIs
    <2> QED BY <1>1, <2>1, <2>2 DEF Same
  <1>4. pipe'[d] = <<>> /\ gen'[d] = "none" /\ sq'[d] = <<>> /\ todo'[d] = <<>>
        /\ es'[d] = "waiting" /\ hadError'[d]
    BY <1>1, CutIs DEF IInv, TypeOK
  <1>5. Flow(got[d], pipe[d], todo[d], sq[d])' /\ Bounded(d)'
    BY <1>1, <1>4, CutBounded
  <1>6. Phase(d)' /\ Covered(d)'
    BY <1>1, <1>4, EmptyQueue DEF Phase, Covered
  <1>7. ClientInv(d)'
    BY <1>5, <1>6 DEF ClientInv
  <1> QED BY <1>1, <1>2, <1>3, <1>4, <1>7, EmptyQueue, OneClient

LEMMA StaleKeeps ==
    ASSUME IInv, NEW d \in Clients, Stale(d)
    PROVE  IInv'
  <1>1. /\ Cut(d) /\ breaks' \in 0 .. MaxBreaks /\ es' = [es EXCEPT ![d] = "waiting"]
        /\ stale' = stale \cup {d} /\ es[d] \in {"connecting", "open"}
        /\ UNCHANGED <<published, base, shutting, upTo, last, hadError, got, fresh, since, dropped, passed, lost, foreign, restarts>>
    BY StreamAssumption DEF Stale, busVars, IInv, TypeOK, missVars
  <1>2. TypeOK'
    BY <1>1, CutIs DEF IInv, TypeOK
  <1>3. \A c \in Clients \ {d} : Same(c)
    BY <1>1, CutIs DEF IInv, TypeOK, Same
  <1>4. pipe'[d] = <<>> /\ gen'[d] = "none" /\ sq'[d] = <<>> /\ todo'[d] = <<>>
        /\ es'[d] = "waiting" /\ d \in stale'
    BY <1>1, CutIs DEF IInv, TypeOK
  <1>5. Flow(got[d], pipe[d], todo[d], sq[d])' /\ Bounded(d)'
    BY <1>1, <1>4, CutBounded
  <1>6. Phase(d)' /\ Covered(d)'
    BY <1>1, <1>4, EmptyQueue DEF Phase, Covered
  <1>7. ClientInv(d)'
    BY <1>5, <1>6 DEF ClientInv
  <1> QED BY <1>1, <1>2, <1>3, <1>4, <1>7, EmptyQueue, OneClient

\* A stream that begins replays what lies above the client's number, and that
\* covers all the client got; one that needs no refetch is the client's first.
LEMMA AcceptKeeps ==
    ASSUME IInv, NEW d \in Clients, Accept(d)
    PROVE  IInv'
  <1> DEFINE t == IF last[d] > 0 THEN ReplaySince(last[d]) ELSE <<>>
             g == IF t = <<>> THEN "live" ELSE "replay"
             p == IF t = <<>> THEN <<Msg("open", 0), Msg("sync", published)>> ELSE <<Msg("open", 0)>>
             x == {e \in Beyond(d) : e > since'[d] /\ e \notin Given(d)}
             n == IF got[d] = <<>> /\ last[d] = 0 /\ fresh[d] = 0 /\ ~hadError[d] THEN published ELSE since[d]
  <1>1. /\ es[d] = "connecting" /\ gen[d] = "none" /\ pipe[d] = <<>>
        /\ sq' = [sq EXCEPT ![d] = <<>>] /\ todo' = [todo EXCEPT ![d] = t]
        /\ upTo' = [upTo EXCEPT ![d] = 0] /\ gen' = [gen EXCEPT ![d] = g]
        /\ pipe' = [pipe EXCEPT ![d] = p] /\ since' = [since EXCEPT ![d] = n]
        /\ lost' = [lost EXCEPT ![d] = lost[d] \cup x] /\ passed' = [passed EXCEPT ![d] = {}]
        /\ UNCHANGED <<published, base, shutting, es, last, hadError, got, fresh, dropped, foreign, stale, breaks, restarts>>
    BY DEF Accept, busVars, clientVars, missVars
  <1>2. /\ t \in Seq(Events) /\ Rising(t)
        /\ \A e \in Evs(t) : base + last[d] < e /\ base < e /\ e <= published
    <2>1. CASE last[d] > 0
      BY <2>1, ClientIs, ReplayIs DEF IInv
    <2>2. CASE ~(last[d] > 0)
      BY <2>2, EmptyQueue, EmptyIs
    <2> QED BY <2>1, <2>2
  <1>3. g \in {"live", "replay"} /\ (g = "live" => t = <<>>)
    OBVIOUS
  <1>4. /\ p \in Seq(Msgs) /\ p # <<>> /\ Head(p).kind = "open" /\ PEvs(p) = {} /\ PRising(p)
        /\ \A i \in DOMAIN p : p[i].kind # "end"
        /\ \A i \in DOMAIN p : p[i].kind \in {"event", "sync"} => p[i].id = published
    <2> DEFINE a == Msg("open", 0)
               b == Msg("sync", published)
    <2>1. a \in Msgs /\ b \in Msgs /\ a.kind = "open" /\ b.kind = "sync" /\ b.id = published
      BY ClientIs DEF Msg, Msgs
    <2> HIDE DEF a, b
    <2>2. <<a>> \in Seq(Msgs) /\ <<a, b>> \in Seq(Msgs) /\ <<a>> # <<>> /\ <<a, b>> # <<>>
          /\ DOMAIN <<a>> = {1} /\ DOMAIN <<a, b>> = {1, 2} /\ Head(<<a>>) = a /\ Head(<<a, b>>) = a
      BY <2>1
    <2>3. p = <<a>> \/ p = <<a, b>>
      BY DEF a, b
    <2>4. /\ \A i \in DOMAIN p : p[i] = a \/ p[i] = b
          /\ Head(p) = a /\ p \in Seq(Msgs) /\ p # <<>>
      BY <2>2, <2>3
    <2> HIDE DEF p
    <2>5. \A i \in DOMAIN p : p[i].kind # "event" /\ p[i].kind # "end"
      BY <2>1, <2>4
    <2> QED BY <2>1, <2>4, <2>5 DEF PEvs, PRising
  <1>5. n \in 0 .. MaxEvents
    BY ClientIs
  <1>6. d \notin stale /\ ~hadError[d] => n = published
    BY <1>1, ClientIs DEF Phase
  <1> HIDE DEF t, g, p, n, x
  <1>7. Flow(got[d], p, t, <<>>) /\ InFlight(p, t, <<>>) = Evs(t) /\ Evs(<<>>) = {} /\ DOMAIN <<>> = {}
    <2>1. Rising(got[d]) /\ \A e \in Evs(got[d]) : e <= base + last[d]
      BY ClientIs DEF Flow, Bounded
    <2>2. Evs(got[d]) \subseteq Nat /\ Evs(t) \subseteq Nat /\ base + last[d] \in Nat
      <3>1. got[d] \in Queues /\ t \in Queues /\ base + last[d] \in Nat
        BY <1>2, ClientIs, EventsAreNat
      <3>2. Evs(got[d]) \subseteq Events /\ Evs(t) \subseteq Events
        BY <3>1, EventsAreNat
      <3> QED BY <3>1, <3>2, EventsAreNat
    <2>3. \A v \in Evs(got[d]), w \in Evs(t) : v < w
      BY <1>2, <2>1, <2>2
    <2>4. InFlight(p, t, <<>>) = Evs(t)
      BY <1>4, EmptyIs DEF InFlight
    <2> QED BY <1>2, <1>4, <2>1, <2>3, <2>4, EmptyIs DEF Flow, Below
  <1>8. TypeOK'
    <2>1. sq' \in [Clients -> Seq(Events \cup {Sentinel})] /\ \A c \in Clients : Len(sq'[c]) <= QueueSize
      <3>1. <<>> \in Seq(Events \cup {Sentinel}) /\ Len(<<>>) <= QueueSize
        BY EmptyQueue, StreamAssumption DEF Queues
      <3> QED BY <1>1, <3>1 DEF IInv, TypeOK
    <2>2. /\ pipe' \in [Clients -> Seq(Msgs)] /\ gen' \in [Clients -> {"none", "replay", "live"}]
          /\ todo' \in [Clients -> Seq(Events)] /\ upTo' \in [Clients -> 0 .. MaxEvents]
          /\ since' \in [Clients -> 0 .. MaxEvents]
      <3>1. pipe' \in [Clients -> Seq(Msgs)]
        BY <1>1, <1>4 DEF IInv, TypeOK
      <3>2. gen' \in [Clients -> {"none", "replay", "live"}]
        <4>1. gen \in [Clients -> {"none", "replay", "live"}] /\ g \in {"none", "replay", "live"}
          BY <1>3 DEF IInv, TypeOK
        <4>2. gen' = [gen EXCEPT ![d] = g]
          BY <1>1
        <4> HIDE DEF g
        <4> QED BY <4>1, <4>2
      <3>3. todo' \in [Clients -> Seq(Events)]
        BY <1>1, <1>2 DEF IInv, TypeOK
      <3>4. upTo' \in [Clients -> 0 .. MaxEvents] /\ since' \in [Clients -> 0 .. MaxEvents]
        BY <1>1, <1>5, StreamAssumption DEF IInv, TypeOK
      <3> QED BY <3>1, <3>2, <3>3, <3>4
    <2>3. lost' \in [Clients -> SUBSET Events] /\ passed' \in [Clients -> SUBSET Events]
      <3>1. x \subseteq Events
        <4>1. passed[d] \subseteq Events /\ 1 .. published \subseteq Events
            <5>1. passed[d] \subseteq Events
            BY DEF IInv, TypeOK
          <5>2. 1 .. published \subseteq Events
            BY ClientIs DEF Events
          <5> QED BY <5>1, <5>2
        <4> QED BY <4>1 DEF x, Beyond
      <3> QED BY <1>1, <3>1 DEF IInv, TypeOK
    <2> QED BY <1>1, <2>1, <2>2, <2>3 DEF IInv, TypeOK
  <1>9. \A c \in Clients \ {d} : Same(c)
    BY <1>1 DEF IInv, TypeOK, Same
  <1>10. pipe'[d] = p /\ gen'[d] = g /\ sq'[d] = <<>> /\ todo'[d] = t /\ upTo'[d] = 0 /\ since'[d] = n
    BY <1>1 DEF IInv, TypeOK
  <1>11. Bounded(d)'
    BY <1>1, <1>2, <1>4, <1>7, <1>10, ClientIs DEF Bounded
  <1>12. Phase(d)'
    BY <1>1, <1>3, <1>4, <1>10, ClientIs DEF Phase
  <1>13. Covered(d)'
    BY <1>1, <1>6, <1>10, ClientIs DEF Covered
  <1>14. ClientInv(d)'
    BY <1>1, <1>7, <1>10, <1>11, <1>12, <1>13 DEF ClientInv
  <1> QED BY <1>1, <1>8, <1>9, <1>10, <1>14, EmptyQueue, OneClient

\* Being told of an event by its delivery.
LEMMA ToldIs ==
    ASSUME NEW g \in Seq(Events)
    PROVE  {g[i] : i \in DOMAIN g} = Evs(g)
  <1>1. \A i \in DOMAIN g : g[i] \in Events
    BY LenProperties, ElementOfSeq
  <1> QED BY <1>1, EventsAreNat DEF Evs

\* What the client takes off a connection, and what it leaves there.
LEMMA ReceivedIs ==
    ASSUME IInv, NEW d \in Clients, Receive(d)
    PROVE  LET m == Head(pipe[d])
               k == Tail(pipe[d])
           IN
           /\ m \in Msgs /\ k \in Seq(Msgs) /\ pipe[d] # <<>> /\ pipe' = [pipe EXCEPT ![d] = k]
           /\ es[d] = "connecting" => m.kind = "open"
           /\ m.kind = "end" => gen[d] = "none" /\ k = <<>>
           /\ m.kind \in {"event", "sync"} => base <= m.id /\ m.id <= published
           /\ m.kind = "event" => m.id \in InFlight(pipe[d], todo[d], sq[d])
           /\ \A i \in DOMAIN k : k[i].kind = "end" => i = Len(k) /\ gen[d] = "none"
           /\ \A i \in DOMAIN k : k[i].kind \in {"event", "sync"} => base <= k[i].id /\ k[i].id <= published
           /\ UNCHANGED <<published, base, shutting, gen, sq, todo, upTo, since, dropped, passed, lost, stale, breaks, restarts>>
           /\ m.kind = "open" \/ m.kind = "end" \/ m.kind = "event" \/ m.kind = "sync"
  <1> DEFINE p == pipe[d]
             m == Head(p)
             k == Tail(p)
  <1>1. p # <<>> /\ p \in Seq(Msgs) /\ pipe' = [pipe EXCEPT ![d] = k]
        /\ UNCHANGED <<published, base, shutting, gen, sq, todo, upTo, since, dropped, passed, lost, stale, breaks, restarts>>
    BY ClientIs DEF Receive, busVars, genVars, missVars
  <1>2. /\ k \in Seq(Msgs) /\ m \in Msgs
        /\ 1 \in DOMAIN p /\ m = p[1] /\ Len(k) = Len(p) - 1 /\ Len(p) \in Nat
        /\ Len(p) = 1 => k = <<>>
        /\ \A i \in DOMAIN k : i \in Nat /\ i + 1 \in DOMAIN p /\ k[i] = p[i + 1]
    BY <1>1, FewerMessages
  <1>3. /\ \A i \in DOMAIN p : p[i].kind = "end" => i = Len(p) /\ gen[d] = "none"
        /\ \A i \in DOMAIN p : p[i].kind \in {"event", "sync"} => base <= p[i].id /\ p[i].id <= published
        /\ es[d] = "connecting" => m.kind = "open"
    BY <1>1, ClientIs DEF Phase, Bounded
  <1>4. m.kind = "event" => m.id \in PEvs(p)
    BY <1>1, PEvsTail
  <1>5. m.kind = "open" \/ m.kind = "end" \/ m.kind = "event" \/ m.kind = "sync"
    BY <1>2 DEF Msgs
  <1> HIDE DEF k, m, p
  <1>6. m.kind = "end" => gen[d] = "none" /\ k = <<>>
    BY <1>2, <1>3
  <1>7. m.kind \in {"event", "sync"} => base <= m.id /\ m.id <= published
    BY <1>2, <1>3
  <1>8. \A i \in DOMAIN k : k[i].kind = "end" => i = Len(k) /\ gen[d] = "none"
    <2> SUFFICES ASSUME NEW i \in DOMAIN k, k[i].kind = "end" PROVE i = Len(k) /\ gen[d] = "none"
      OBVIOUS
    <2> DEFINE j == i + 1
    <2>1. i \in Nat /\ j \in DOMAIN p /\ p[j] = k[i]
      BY <1>2
    <2> HIDE DEF j
    <2>2. p[j].kind = "end"
      BY <2>1
    <2>3. j = Len(p) /\ gen[d] = "none"
      BY <1>3, <2>1, <2>2
    <2> QED BY <1>2, <2>1, <2>3 DEF j
  <1>9. \A i \in DOMAIN k : k[i].kind \in {"event", "sync"} => base <= k[i].id /\ k[i].id <= published
    <2> SUFFICES ASSUME NEW i \in DOMAIN k, k[i].kind \in {"event", "sync"}
                 PROVE  base <= k[i].id /\ k[i].id <= published
      OBVIOUS
    <2> DEFINE j == i + 1
    <2>1. j \in DOMAIN p /\ p[j] = k[i]
      BY <1>2
    <2> HIDE DEF j
    <2>2. p[j].kind \in {"event", "sync"} /\ p[j].id = k[i].id
      BY <2>1
    <2> QED BY <1>3, <2>1, <2>2
  <1>10. m.kind = "event" => m.id \in InFlight(p, todo[d], sq[d])
    BY <1>4 DEF InFlight
  <1> QED BY <1>1, <1>2, <1>3, <1>5, <1>6, <1>7, <1>8, <1>9, <1>10 DEF k, m, p

LEMMA ReceiveKeeps ==
    ASSUME IInv, NEW d \in Clients, Receive(d)
    PROVE  IInv'
  <1> DEFINE m == Head(pipe[d])
             k == Tail(pipe[d])
  <1>1. /\ m \in Msgs /\ k \in Seq(Msgs) /\ pipe[d] # <<>> /\ pipe' = [pipe EXCEPT ![d] = k]
        /\ es[d] = "connecting" => m.kind = "open"
        /\ m.kind = "end" => gen[d] = "none" /\ k = <<>>
        /\ m.kind \in {"event", "sync"} => base <= m.id /\ m.id <= published
        /\ m.kind = "event" => m.id \in InFlight(pipe[d], todo[d], sq[d])
        /\ \A i \in DOMAIN k : k[i].kind = "end" => i = Len(k) /\ gen[d] = "none"
        /\ \A i \in DOMAIN k : k[i].kind \in {"event", "sync"} => base <= k[i].id /\ k[i].id <= published
        /\ UNCHANGED <<published, base, shutting, gen, sq, todo, upTo, since, dropped, passed, lost, stale, breaks, restarts>>
        /\ m.kind = "open" \/ m.kind = "end" \/ m.kind = "event" \/ m.kind = "sync"
    BY ReceivedIs
  <1>2. /\ pipe'[d] = k /\ \A c \in Clients \ {d} : pipe'[c] = pipe[c]
        /\ pipe' \in [Clients -> Seq(Msgs)] /\ es[d] \in {"connecting", "open"}
    BY <1>1 DEF IInv, TypeOK, Receive
  <1>3. m.kind # "event" => /\ Flow(got[d], k, todo[d], sq[d])
                            /\ InFlight(k, todo[d], sq[d]) = InFlight(pipe[d], todo[d], sq[d])
    <2>1. Flow(got[d], pipe[d], todo[d], sq[d]) /\ pipe[d] \in Seq(Msgs) /\ pipe[d] # <<>>
      BY <1>1, ClientIs
    <2> QED BY <2>1, Passes
  <1>4. CASE m.kind = "open"
    <2> DEFINE f == IF hadError[d] THEN published ELSE fresh[d]
    <2>1. /\ es' = [es EXCEPT ![d] = "open"] /\ hadError' = [hadError EXCEPT ![d] = FALSE]
          /\ fresh' = [fresh EXCEPT ![d] = f] /\ UNCHANGED <<last, foreign, got>>
      BY <1>4 DEF Receive, OnOpen
    <2>2. f \in 0 .. MaxEvents /\ (hadError[d] => f = published) /\ (~hadError[d] => f = fresh[d])
      BY ClientIs
    <2> HIDE DEF f, m, k
    <2>3. TypeOK'
      BY <1>1, <1>2, <2>1, <2>2 DEF IInv, TypeOK
    <2>4. \A c \in Clients \ {d} : Same(c)
      BY <1>1, <1>2, <2>1 DEF IInv, TypeOK, Same
    <2>5. es'[d] = "open" /\ hadError'[d] = FALSE /\ fresh'[d] = f
      BY <2>1 DEF IInv, TypeOK
    <2>6. m.kind # "event"
      BY <1>4
    <2>7. Bounded(d)'
      BY <1>1, <1>2, <1>3, <2>1, <2>6, ClientIs DEF Bounded
    <2>8. Phase(d)'
      BY <1>1, <1>2, <2>1, <2>5, ClientIs DEF Phase
    <2>9. Covered(d)'
      <3>1. /\ UNCHANGED <<since, published, got, gen, stale, dropped, todo, sq>> /\ pipe'[d] = k
            /\ InFlight(k, todo[d], sq[d]) = InFlight(pipe[d], todo[d], sq[d])
        BY <1>1, <1>2, <1>3, <2>1, <2>6
      <3>2. CASE hadError[d]
        BY <2>2, <2>5, <3>1, <3>2, ClientIs DEF Covered, Told, Given
      <3>3. CASE ~hadError[d]
        <4>1. fresh'[d] = fresh[d] /\ Covered(d)
          BY <2>2, <2>5, <3>3, ClientIs
        <4> QED BY <3>1, <3>3, <4>1 DEF Covered, Told, Given
      <3> QED BY <3>2, <3>3
    <2>10. ClientInv(d)'
      BY <1>1, <1>2, <1>3, <2>1, <2>6, <2>7, <2>8, <2>9 DEF ClientInv
    <2> QED BY <1>1, <2>3, <2>4, <2>10, OneClient
  <1>5. CASE m.kind = "end"
    <2>1. /\ es' = [es EXCEPT ![d] = "waiting"] /\ hadError' = [hadError EXCEPT ![d] = TRUE]
          /\ UNCHANGED <<last, foreign, got, fresh>>
      BY <1>5 DEF Receive, OnError
    <2> HIDE DEF m, k
    <2>2. TypeOK'
      BY <1>1, <1>2, <2>1 DEF IInv, TypeOK
    <2>3. \A c \in Clients \ {d} : Same(c)
      BY <1>1, <1>2, <2>1 DEF IInv, TypeOK, Same
    <2>4. es'[d] = "waiting" /\ hadError'[d]
      BY <2>1 DEF IInv, TypeOK
    <2>5. m.kind # "event"
      BY <1>5
    <2>6. Bounded(d)'
      BY <1>1, <1>2, <1>3, <2>1, <2>5, ClientIs DEF Bounded
    <2>7. Phase(d)'
      BY <1>1, <1>2, <1>5, <2>1, <2>4, ClientIs DEF Phase
    <2>8. Covered(d)'
      BY <2>4 DEF Covered
    <2>9. ClientInv(d)'
      BY <1>1, <1>2, <1>3, <2>1, <2>5, <2>6, <2>7, <2>8 DEF ClientInv
    <2> QED BY <1>1, <2>2, <2>3, <2>9, OneClient
  <1>6. CASE m.kind = "event" \/ m.kind = "sync"
    <2> DEFINE l == Larger(last[d], SeqNo(m.id))
               g == IF m.kind = "event" THEN Append(got[d], m.id) ELSE got[d]
    <2>1. /\ last' = [last EXCEPT ![d] = l] /\ got' = [got EXCEPT ![d] = g]
          /\ UNCHANGED <<es, hadError, fresh>> /\ foreign' \subseteq foreign
      BY <1>6 DEF Receive, OnMessage
    <2>2. es[d] = "open"
      BY <1>1, <1>2, <1>6
    <2>3. base <= m.id /\ m.id <= published /\ m.id \in Nat
      BY <1>1, <1>6 DEF Msgs
    <2>4. l \in 0 .. MaxEvents /\ l >= last[d] /\ m.id <= base + l
      BY <2>3, ClientIs DEF Larger, SeqNo
    <2>5. m.kind = "event" => m.id \in Events
      BY <1>1, <2>3, ClientIs DEF Bounded, Events
    <2>6. /\ g \in Seq(Events) /\ Flow(g, k, todo[d], sq[d])
          /\ \A e \in InFlight(k, todo[d], sq[d]) : e \in InFlight(pipe[d], todo[d], sq[d])
          /\ \A e \in InFlight(pipe[d], todo[d], sq[d]) : e \in InFlight(k, todo[d], sq[d]) \/ e \in Evs(g)
          /\ \A e \in Evs(got[d]) : e \in Evs(g)
          /\ \A e \in Evs(g) : e \in Evs(got[d]) \/ e = m.id
      <3>1. CASE m.kind = "sync"
        <4>1. m.kind # "event" /\ g = got[d]
          BY <3>1
        <4> QED BY <1>3, <4>1, ClientIs
      <3>2. CASE m.kind = "event"
        <4>1. /\ Flow(got[d], pipe[d], todo[d], sq[d]) /\ pipe[d] \in Seq(Msgs) /\ pipe[d] # <<>>
              /\ got[d] \in Seq(Events) /\ todo[d] \in Seq(Events) /\ sq[d] \in Queues /\ m.id \in Events
          BY <1>1, <2>5, <3>2, ClientIs
        <4>2. g = Append(got[d], m.id) /\ g \in Seq(Events)
          BY <3>2, <4>1, AppendProperties
        <4>3. /\ Flow(Append(got[d], m.id), k, todo[d], sq[d])
              /\ InFlight(pipe[d], todo[d], sq[d]) = InFlight(k, todo[d], sq[d]) \cup {m.id}
              /\ Evs(Append(got[d], m.id)) = Evs(got[d]) \cup {m.id}
          BY <3>2, <4>1, Delivers
        <4> HIDE DEF g, m, k
        <4> QED BY <4>2, <4>3
      <3> QED BY <1>6, <3>1, <3>2
    <2> HIDE DEF l, g, m, k
    <2>7. TypeOK'
      BY <1>1, <1>2, <2>1, <2>4, <2>6 DEF IInv, TypeOK
    <2>8. \A c \in Clients \ {d} : Same(c)
      BY <1>1, <1>2, <2>1 DEF IInv, TypeOK, Same
    <2>9. last'[d] = l /\ got'[d] = g
      BY <2>1 DEF IInv, TypeOK
    <2>10. Bounded(d)'
      <3>1. \A e \in Evs(g) : e <= published /\ e <= base + l
        <4>1. \A e \in Evs(got[d]) : e \in Nat /\ e <= published /\ e <= base + last[d]
          BY ClientIs, EventsAreNat DEF Bounded
        <4> QED BY <2>3, <2>4, <2>6, <4>1, ClientIs
      <3> QED BY <1>1, <1>2, <2>1, <2>6, <2>9, <3>1, ClientIs DEF Bounded
    <2>11. Phase(d)'
      BY <1>1, <1>2, <2>1, <2>2, ClientIs DEF Phase
    <2>12. Covered(d)'
      <3>1. \A e : Told(d, e) => Told(d, e)'
        <4>1. {g[i] : i \in DOMAIN g} = Evs(g) /\ {got[d][i] : i \in DOMAIN got[d]} = Evs(got[d])
          BY <2>6, ClientIs, ToldIs
        <4>2. got'[d] = g /\ fresh' = fresh /\ dropped' = dropped
          BY <1>1, <2>1, <2>9
        <4>3. \A e : Told(d, e) <=> e \in Evs(got[d]) \/ e <= fresh[d] \/ e \in dropped[d]
          BY <4>1 DEF Told, Given
        <4>4. \A e : Told(d, e)' <=> e \in Evs(g) \/ e <= fresh[d] \/ e \in dropped[d]
          BY <4>1, <4>2 DEF Told, Given
        <4> QED BY <2>6, <4>3, <4>4
      <3>2. \A e \in Evs(g) : Told(d, e)'
        BY <2>6, <2>9, ToldIs DEF Told, Given
      <3> QED BY <1>1, <1>2, <2>1, <2>6, <3>1, <3>2, ClientIs DEF Covered
    <2>13. ClientInv(d)'
      BY <1>1, <1>2, <2>1, <2>6, <2>9, <2>10, <2>11, <2>12 DEF ClientInv
    <2> QED BY <1>1, <2>7, <2>8, <2>13, OneClient
  <1> QED BY <1>1, <1>4, <1>5, <1>6

-----------------------------------------------------------------------------
(* The bus and the server, for every client at once.                       *)

\* What a publication does to one client.
LEMMA PublishOne ==
    ASSUME IInv, Publish, NEW c \in Clients
    PROVE  /\ sq'[c] \in Queues /\ Len(sq'[c]) <= QueueSize /\ dropped'[c] \subseteq Events
           /\ \A i \in DOMAIN sq'[c] : sq'[c][i] # Sentinel
           /\ ClientInv(c)'
  <1> DEFINE e == published + 1
             q == sq[c]
             r == IF Len(q) < QueueSize THEN q ELSE Tail(q)
             x == IF Len(q) < QueueSize THEN {} ELSE {Head(q)}
  <1>1. /\ ~shutting /\ published < MaxEvents /\ published' = e
        /\ UNCHANGED <<base, shutting, gen, todo, upTo, pipe, es, last, hadError, got, fresh, since, passed, lost, foreign, stale, breaks, restarts>>
    BY DEF Publish, clientVars, missVars
  <1>2. sq'[c] = IF gen[c] = "none" THEN q ELSE IF Len(q) < QueueSize THEN Append(q, e) ELSE Append(Tail(q), e)
    BY <1>1 DEF Publish, Subscribed
  <1>3. dropped'[c] = IF gen[c] # "none" /\ Len(q) = QueueSize THEN dropped[c] \cup {Head(q)} ELSE dropped[c]
    BY DEF Publish, Subscribed
  <1>4. \A i \in DOMAIN q : q[i] # Sentinel
    BY <1>1 DEF IInv, Quiet
  <1>5. e \in Events /\ e \in Nat /\ e > published /\ e # Sentinel
    BY <1>1, ClientIs, EventsAreNat DEF Events
  <1>6. q \in Queues /\ Len(q) \in Nat /\ Len(q) <= QueueSize /\ QueueSize \in Nat \ {0}
        /\ Flow(got[c], pipe[c], todo[c], q) /\ Bounded(c) /\ Phase(c) /\ Covered(c)
    BY ClientIs, LenProperties, StreamAssumption DEF Queues
  <1>7. CASE gen[c] = "none"
    <2>1. sq'[c] = q /\ dropped'[c] = dropped[c]
      BY <1>2, <1>3, <1>7
    <2>2. \A y \in InFlight(pipe[c], todo[c], q) : y \in Nat
      BY NumbersAre
    <2>3. \A y \in Evs(got[c]) : y \in Nat
      BY NumbersAre
    <2>4. \A i \in DOMAIN pipe[c] : pipe[c][i].id \in Nat
      BY NumbersAre
    <2>5. Bounded(c)'
      BY <1>1, <1>5, <1>6, <1>7, <2>1, <2>2, <2>3, <2>4, ClientIs DEF Bounded
    <2>6. Phase(c)' /\ Covered(c)'
      BY <1>1, <1>6, <1>7, <2>1 DEF Phase, Covered
    <2>7. ClientInv(c)'
      BY <1>1, <1>6, <2>1, <2>5, <2>6 DEF ClientInv
    <2> QED BY <1>4, <1>6, <2>1, <2>7, ClientIs
  <1>8. CASE gen[c] # "none"
    <2>1. sq'[c] = Append(r, e)
      BY <1>2, <1>8
    <2>2. /\ r \in Queues /\ Flow(got[c], pipe[c], todo[c], r) /\ Len(r) \in Nat /\ Len(r) < QueueSize
          /\ InFlight(pipe[c], todo[c], q) = InFlight(pipe[c], todo[c], r) \cup x
          /\ x \subseteq Events /\ Evs(r) \subseteq Evs(q)
          /\ \A i \in DOMAIN r : r[i] # Sentinel
          /\ dropped'[c] = dropped[c] \cup x
      <3>1. CASE Len(q) < QueueSize
        BY <1>3, <1>4, <1>6, <3>1
      <3>2. CASE ~(Len(q) < QueueSize)
        <4>1. Len(q) = QueueSize /\ r = Tail(q) /\ x = {Head(q)}
          BY <1>6, <3>2
        <4>2. q # <<>>
          BY <1>6, <4>1, EmptySeq
        <4>3. q \in Seq(Events \cup {Sentinel})
          BY <1>6 DEF Queues
        <4>4. /\ Tail(q) \in Queues /\ Len(Tail(q)) = Len(q) - 1
              /\ DOMAIN q = 1 .. Len(q) /\ DOMAIN Tail(q) = 1 .. Len(q) - 1
              /\ Head(q) = q[1] /\ Head(q) \in Events \cup {Sentinel}
              /\ \A i \in 1 .. Len(q) - 1 : Tail(q)[i] = q[i + 1]
          BY <4>2, <4>3, TailIs DEF Queues
        <4>5. q \in Queues /\ Flow(got[c], pipe[c], todo[c], q) /\ q # <<>>
          BY <1>6, <4>2
        <4> HIDE DEF q, r, x
        <4>6. /\ Flow(got[c], pipe[c], todo[c], Tail(q))
              /\ Head(q) # Sentinel =>
                   \A y : y \in InFlight(pipe[c], todo[c], q)
                             <=> y \in InFlight(pipe[c], todo[c], Tail(q)) \/ y = Head(q)
          BY <4>5, Drops
        <4>7. Evs(Tail(q)) \subseteq Evs(q)
          BY <4>2, <4>3, EvsTail
        <4>8. Head(q) # Sentinel
          <5>1. 1 \in DOMAIN q
            BY <1>6, <4>1, <4>4
          <5> QED BY <1>4, <4>4, <5>1
        <4>9. \A i \in DOMAIN r : r[i] # Sentinel
          <5>1. \A i \in DOMAIN r : i + 1 \in DOMAIN q /\ r[i] = q[i + 1]
            BY <1>6, <4>1, <4>4
          <5> QED BY <1>4, <5>1
        <4>10. Len(r) \in Nat /\ Len(r) < QueueSize
          BY <1>6, <4>1, <4>4
        <4>11. dropped'[c] = dropped[c] \cup x
          BY <1>3, <1>8, <4>1 DEF q
        <4>12. InFlight(pipe[c], todo[c], q) = InFlight(pipe[c], todo[c], r) \cup x
          BY <4>1, <4>6, <4>8
        <4> QED BY <4>1, <4>4, <4>6, <4>7, <4>8, <4>9, <4>10, <4>11, <4>12
      <3> QED BY <3>1, <3>2
    <2>3. \A y \in Evs(got[c]) \cup InFlight(pipe[c], todo[c], r) : y < e
      <3>1. \A y \in Evs(got[c]) \cup InFlight(pipe[c], todo[c], r) : y \in Nat
        BY <2>2, NumbersAre
      <3>2. \A y \in Evs(got[c]) \cup InFlight(pipe[c], todo[c], r) : y <= published
        BY <1>6, <2>2 DEF Bounded
      <3> QED BY <1>5, <3>1, <3>2, ClientIs
    <2> HIDE DEF e, r, x
    <2>4. /\ Flow(got[c], pipe[c], todo[c], Append(r, e)) /\ Append(r, e) \in Queues
          /\ InFlight(pipe[c], todo[c], Append(r, e)) = InFlight(pipe[c], todo[c], r) \cup {e}
          /\ Evs(Append(r, e)) = Evs(r) \cup {e}
      <3>1. e \in Events \cup {Sentinel} /\ {e} \ {Sentinel} = {e}
        BY <1>5
      <3>2. r \in Queues /\ Flow(got[c], pipe[c], todo[c], r)
        BY <2>2
      <3> QED BY <2>3, <3>1, <3>2, Queued
    <2>5. Len(sq'[c]) <= QueueSize /\ \A i \in DOMAIN sq'[c] : sq'[c][i] # Sentinel
      <3>1. r \in Seq(Events \cup {Sentinel}) /\ e \in Events \cup {Sentinel}
        BY <1>5, <2>2 DEF Queues
      <3>2. /\ Len(Append(r, e)) = Len(r) + 1 /\ DOMAIN r = 1 .. Len(r) /\ DOMAIN Append(r, e) = 1 .. Len(r) + 1
            /\ \A i \in 1 .. Len(r) : Append(r, e)[i] = r[i]
            /\ Append(r, e)[Len(r) + 1] = e
        BY <3>1, AppendIs
      <3>3. Len(Append(r, e)) <= QueueSize
        BY <1>6, <2>2, <3>2
      <3>4. \A i \in DOMAIN Append(r, e) : Append(r, e)[i] # Sentinel
        BY <1>5, <2>2, <3>2
      <3> QED BY <2>1, <3>3, <3>4
    <2>6. Bounded(c)'
      <3>1. \A y \in InFlight(pipe[c], todo[c], Append(r, e)) : base < y /\ y <= e
        <4>1. \A y \in InFlight(pipe[c], todo[c], r) : y \in Nat /\ base < y /\ y <= published
          BY <1>6, <2>2, NumbersAre DEF Bounded
        <4> QED BY <1>5, <2>4, <4>1, ClientIs
      <3>2. \A i \in DOMAIN pipe[c] : pipe[c][i].kind \in {"event", "sync"} => base <= pipe[c][i].id /\ pipe[c][i].id <= e
        <4>1. \A i \in DOMAIN pipe[c] : pipe[c][i].id \in Nat
          BY NumbersAre
        <4> QED BY <1>5, <1>6, <4>1, ClientIs DEF Bounded
      <3>3. \A y \in Evs(got[c]) : y <= e /\ y <= base + last[c]
        <4>1. \A y \in Evs(got[c]) : y \in Nat
          BY NumbersAre
        <4> QED BY <1>5, <1>6, <4>1, ClientIs DEF Bounded
      <3>4. \A y \in Evs(Append(r, e)) : y > base + upTo[c]
        BY <1>5, <1>6, <1>8, <2>2, <2>4, ClientIs DEF Bounded
      <3>5. base + upTo[c] <= e
        BY <1>5, <1>6, <1>8, ClientIs DEF Bounded
      <3> QED BY <1>1, <2>1, <3>1, <3>2, <3>3, <3>4, <3>5 DEF Bounded
    <2>7. Phase(c)'
      BY <1>1, <1>6, <1>8 DEF Phase
    <2>8. Covered(c)'
      <3>1. \A y \in since[c] + 1 .. published' : y \in since[c] + 1 .. published \/ y = e
        BY <1>1, ClientIs DEF e
      <3>2. \A y : Told(c, y) => Told(c, y)'
        BY <1>1, <2>2 DEF Told, Given
      <3>3. \A y \in x : Told(c, y)'
        BY <2>2 DEF Told, Given
      <3>4. \A y \in InFlight(pipe[c], todo[c], q) : y \in InFlight(pipe[c], todo[c], Append(r, e)) \/ y \in x
        BY <2>2, <2>4
      <3>5. e \in InFlight(pipe[c], todo[c], Append(r, e))
        BY <2>4
      <3> QED BY <1>1, <1>6, <2>1, <3>1, <3>2, <3>3, <3>4, <3>5 DEF Covered
    <2>9. ClientInv(c)'
      BY <1>1, <2>1, <2>4, <2>6, <2>7, <2>8 DEF ClientInv
    <2>10. dropped'[c] \subseteq Events
      BY <2>2, ClientIs
    <2> QED BY <2>1, <2>4, <2>5, <2>9, <2>10
  <1> QED BY <1>7, <1>8

LEMMA PublishKeeps ==
    ASSUME IInv, Publish
    PROVE  IInv'
  <1>1. /\ published < MaxEvents /\ published' = published + 1
        /\ UNCHANGED <<base, shutting, gen, todo, upTo, pipe, es, last, hadError, got, fresh, since, passed, lost, foreign, stale, breaks, restarts>>
    BY DEF Publish, clientVars, missVars
  <1>2. \A c \in Clients : /\ sq'[c] \in Queues /\ Len(sq'[c]) <= QueueSize /\ dropped'[c] \subseteq Events
                           /\ \A i \in DOMAIN sq'[c] : sq'[c][i] # Sentinel
                           /\ ClientInv(c)'
    BY PublishOne
  <1>3. sq' \in [Clients -> Queues] /\ dropped' \in [Clients -> SUBSET Events]
    <2>1. DOMAIN sq' = Clients /\ DOMAIN dropped' = Clients /\ sq' = [c \in Clients |-> sq'[c]]
          /\ dropped' = [c \in Clients |-> dropped'[c]]
      BY DEF Publish
    <2> QED BY <1>2, <2>1
  <1>4. published' \in 0 .. MaxEvents /\ base' \in 0 .. published'
    BY <1>1, StreamAssumption DEF IInv, TypeOK
  <1>5. TypeOK'
    BY <1>1, <1>2, <1>3, <1>4 DEF IInv, TypeOK, Queues
  <1>6. Quiet'
    BY <1>2 DEF Quiet
  <1> QED BY <1>2, <1>5, <1>6 DEF IInv

LEMMA ShutdownKeeps ==
    ASSUME IInv, Shutdown
    PROVE  IInv'
  <1>1. /\ shutting' = TRUE
        /\ UNCHANGED <<published, base, gen, todo, upTo, pipe, es, last, hadError, got, fresh, since, dropped, passed, lost, foreign, stale, breaks, restarts>>
    BY DEF Shutdown, clientVars, missVars
  <1>2. ASSUME NEW c \in Clients
        PROVE  /\ sq'[c] \in Queues /\ Len(sq'[c]) <= QueueSize /\ (gen[c] = "none" => sq'[c] = sq[c])
               /\ Flow(got[c], pipe[c], todo[c], sq'[c]) /\ Evs(sq'[c]) = Evs(sq[c])
               /\ InFlight(pipe[c], todo[c], sq'[c]) = InFlight(pipe[c], todo[c], sq[c])
    <2>1. sq'[c] = IF gen[c] # "none" /\ Len(sq[c]) < QueueSize THEN Append(sq[c], Sentinel) ELSE sq[c]
      BY DEF Shutdown, Subscribed
    <2>2. sq[c] \in Queues /\ Flow(got[c], pipe[c], todo[c], sq[c]) /\ Len(sq[c]) <= QueueSize
      BY ClientIs
    <2>3. CASE gen[c] # "none" /\ Len(sq[c]) < QueueSize
      <3> DEFINE a == Append(sq[c], Sentinel)
      <3>1. /\ Flow(got[c], pipe[c], todo[c], a) /\ a \in Queues
            /\ InFlight(pipe[c], todo[c], a) = InFlight(pipe[c], todo[c], sq[c]) \cup ({Sentinel} \ {Sentinel})
            /\ Evs(a) = Evs(sq[c]) \cup ({Sentinel} \ {Sentinel})
        BY <2>2, Queued
      <3>2. Len(a) = Len(sq[c]) + 1 /\ Len(sq[c]) \in Nat
        BY <2>2, AppendIs DEF Queues
      <3> HIDE DEF a
      <3>3. Len(a) <= QueueSize
        BY <2>3, <3>2, StreamAssumption
      <3> QED BY <2>1, <2>3, <3>1, <3>3 DEF a
    <2> QED BY <2>1, <2>2, <2>3
  <1>3. sq' \in [Clients -> Queues]
    <2>1. sq' = [c \in Clients |-> sq'[c]]
      BY DEF Shutdown
    <2> QED BY <1>2, <2>1
  <1>4. TypeOK'
    BY <1>1, <1>2, <1>3 DEF IInv, TypeOK, Queues
  <1>5. Quiet'
    BY <1>1 DEF Quiet
  <1>6. ASSUME NEW c \in Clients PROVE ClientInv(c)'
    <2>1. Bounded(c)'
      BY <1>1, <1>2, ClientIs DEF Bounded
    <2>2. Phase(c)'
      BY <1>1, <1>2, ClientIs DEF Phase
    <2>3. Covered(c)'
      BY <1>1, <1>2, ClientIs DEF Covered, Told, Given
    <2> QED BY <1>1, <1>2, <2>1, <2>2, <2>3 DEF ClientInv
  <1> QED BY <1>4, <1>5, <1>6 DEF IInv

LEMMA RestartKeeps ==
    ASSUME IInv, Restart
    PROVE  IInv'
  <1>1. /\ base' = published /\ shutting' = FALSE /\ restarts' \in 0 .. MaxRestarts
        /\ UNCHANGED <<published, es, last, hadError, got, fresh, since, dropped, passed, lost, stale, breaks>>
        /\ gen' = [c \in Clients |-> "none"] /\ sq' = [c \in Clients |-> <<>>]
        /\ todo' = [c \in Clients |-> <<>>] /\ upTo' = [c \in Clients |-> 0]
        /\ pipe' = [c \in Clients |-> <<>>] /\ foreign' = Clients
    BY StreamAssumption DEF Restart, clientVars, IInv, TypeOK, missVars
  <1>2. <<>> \in Seq(Events \cup {Sentinel}) /\ Len(<<>>) <= QueueSize /\ <<>> \in Seq(Events) /\ <<>> \in Seq(Msgs)
        /\ DOMAIN <<>> = {}
    BY EmptyQueue, StreamAssumption DEF Queues
  <1>3. TypeOK'
    <2>1. /\ sq' \in [Clients -> Seq(Events \cup {Sentinel})] /\ todo' \in [Clients -> Seq(Events)]
          /\ pipe' \in [Clients -> Seq(Msgs)] /\ \A c \in Clients : Len(sq'[c]) <= QueueSize
      BY <1>1, <1>2
    <2>2. gen' \in [Clients -> {"none", "replay", "live"}] /\ upTo' \in [Clients -> 0 .. MaxEvents]
      BY <1>1, StreamAssumption
    <2>3. base' \in 0 .. published' /\ shutting' \in BOOLEAN
      <3>1. published \in Nat
        BY StreamAssumption DEF IInv, TypeOK
      <3>2. base' = published /\ published' = published
        BY <1>1
      <3>3. base' \in 0 .. published'
        BY <3>1, <3>2
      <3>4. shutting' \in BOOLEAN
        BY <1>1
      <3> QED BY <3>3, <3>4
    <2> QED BY <1>1, <2>1, <2>2, <2>3 DEF IInv, TypeOK
  <1>4. Quiet'
    BY <1>1, <1>2 DEF Quiet
  <1>5. ASSUME NEW c \in Clients PROVE ClientInv(c)'
    <2>1. gen'[c] = "none" /\ sq'[c] = <<>> /\ todo'[c] = <<>> /\ upTo'[c] = 0 /\ pipe'[c] = <<>>
      BY <1>1
    <2>2. Flow(got[c], <<>>, <<>>, <<>>) /\ InFlight(<<>>, <<>>, <<>>) = {} /\ Evs(<<>>) = {}
      BY ClientIs, Shortened, EmptyIs
    <2>3. \A e \in Evs(got[c]) : e <= published /\ e <= published + last[c]
      <3>1. \A e \in Evs(got[c]) : e \in Nat /\ e <= published
        BY ClientIs, NumbersAre DEF Bounded
      <3> QED BY <3>1, ClientIs
    <2>4. Bounded(c)'
      BY <1>1, <1>2, <2>1, <2>2, <2>3 DEF Bounded
    <2>5. Phase(c)' /\ Covered(c)'
      BY <1>1, <1>2, <2>1, ClientIs DEF Phase, Covered
    <2> QED BY <1>1, <2>1, <2>2, <2>4, <2>5 DEF ClientInv
  <1> QED BY <1>3, <1>4, <1>5 DEF IInv

-----------------------------------------------------------------------------
(* The invariant.                                                          *)

LEMMA InitIInv == Init => IInv
  <1> SUFFICES ASSUME Init PROVE IInv
    OBVIOUS
  <1>1. <<>> \in Seq(Events \cup {Sentinel}) /\ Len(<<>>) <= QueueSize /\ <<>> \in Seq(Events) /\ <<>> \in Seq(Msgs)
        /\ DOMAIN <<>> = {}
    BY EmptyQueue, StreamAssumption DEF Queues
  <1>2. TypeOK
    <2>1. /\ sq \in [Clients -> Seq(Events \cup {Sentinel})] /\ todo \in [Clients -> Seq(Events)]
          /\ pipe \in [Clients -> Seq(Msgs)] /\ got \in [Clients -> Seq(Events)]
          /\ \A c \in Clients : Len(sq[c]) <= QueueSize
      BY <1>1 DEF Init
    <2>2. 0 \in 0 .. 0 /\ 0 \in 0 .. MaxEvents /\ 0 \in 0 .. MaxBreaks /\ 0 \in 0 .. MaxRestarts
      BY StreamAssumption
    <2>3. /\ upTo \in [Clients -> 0 .. MaxEvents] /\ last \in [Clients -> 0 .. MaxEvents]
          /\ since \in [Clients -> 0 .. MaxEvents] /\ fresh \in [Clients -> 0 .. MaxEvents]
      BY <2>2 DEF Init
    <2>4. /\ gen \in [Clients -> {"none", "replay", "live"}] /\ hadError \in [Clients -> BOOLEAN]
          /\ es \in [Clients -> {"new", "waiting", "connecting", "open"}]
          /\ dropped \in [Clients -> SUBSET Events] /\ passed \in [Clients -> SUBSET Events]
          /\ lost \in [Clients -> SUBSET Events] /\ stale \subseteq Clients /\ foreign \subseteq Clients
      BY DEF Init
    <2>5. /\ published \in 0 .. MaxEvents /\ base \in 0 .. published /\ shutting \in BOOLEAN
          /\ breaks \in 0 .. MaxBreaks /\ restarts \in 0 .. MaxRestarts
      BY <2>2 DEF Init
    <2> QED BY <2>1, <2>3, <2>4, <2>5 DEF TypeOK
  <1>3. Quiet
    BY <1>1 DEF Init, Quiet
  <1>4. ASSUME NEW c \in Clients PROVE ClientInv(c)
    <2>1. /\ gen[c] = "none" /\ sq[c] = <<>> /\ todo[c] = <<>> /\ upTo[c] = 0 /\ pipe[c] = <<>>
          /\ es[c] = "new" /\ last[c] = 0 /\ hadError[c] = FALSE /\ got[c] = <<>> /\ fresh[c] = 0
      BY <1>4 DEF Init
    <2>2. InFlight(<<>>, <<>>, <<>>) = {} /\ Evs(<<>>) = {} /\ Flow(<<>>, <<>>, <<>>, <<>>)
      BY EmptyIs DEF InFlight, Flow, Below
    <2>3. Bounded(c)
      BY <1>1, <2>1, <2>2 DEF Bounded
    <2>4. Phase(c) /\ Covered(c)
      BY <1>1, <2>1 DEF Phase, Covered
    <2> QED BY <2>1, <2>2, <2>3, <2>4 DEF ClientInv
  <1> QED BY <1>2, <1>3, <1>4 DEF IInv

LEMMA NextIInv == IInv /\ [Next]_vars => IInv'
  <1> SUFFICES ASSUME IInv, [Next]_vars PROVE IInv'
    OBVIOUS
  <1>1. CASE Publish
    BY <1>1, PublishKeeps
  <1>2. CASE Shutdown
    BY <1>2, ShutdownKeeps
  <1>3. CASE Restart
    BY <1>3, RestartKeeps
  <1>4. ASSUME NEW c \in Clients, Stream(c) PROVE IInv'
    BY <1>4, SendReplayKeeps, SendSyncKeeps, SendLiveKeeps, SendEndKeeps DEF Stream
  <1>5. ASSUME NEW c \in Clients, Client(c) PROVE IInv'
    BY <1>5, MountKeeps, AcceptKeeps, ReceiveKeeps, RetryKeeps DEF Client
  <1>6. ASSUME NEW c \in Clients, KeepAlive(c) \/ Break(c) \/ Stale(c) PROVE IInv'
    BY <1>6, KeepAliveKeeps, BreakKeeps, StaleKeeps
  <1>7. CASE UNCHANGED vars
    BY <1>7 DEF vars, busVars, genVars, clientVars, IInv, TypeOK, Quiet, ClientInv, Bounded, Phase, Covered, Told, Given, missVars
  <1> QED BY <1>1, <1>2, <1>3, <1>4, <1>5, <1>6, <1>7 DEF Next

-----------------------------------------------------------------------------
(* What is missed is accounted for: a second invariant, on top of the      *)
(* first, for the events that no refetch is about.                         *)

Known(c) == Evs(got[c]) \cup dropped[c] \cup lost[c]

\* The events of a connection up to a place on it.
Ahead(p, i) == {p[j].id : j \in {k \in DOMAIN p : k <= i /\ p[k].kind = "event"}}

\* Whatever carries a number has what lies between s and that number, unless in K,
\* ahead of it.
Carries(p, s, K) ==
  \A i \in DOMAIN p : p[i].kind \in {"event", "sync"} =>
    \A e \in s + 1 .. p[i].id : e \in K \cup Ahead(p, i)

\* An event is known of or on its way while there is a stream; it is known of, or
\* was passed by a sync, if the client's own number, or one on its way, lies above it.
Accounted(c) ==
  /\ gen[c] # "none" => \A e \in since[c] + 1 .. published :
                          e \in Known(c) \cup InFlight(pipe[c], todo[c], sq[c])
  /\ c \notin foreign => \A e \in since[c] + 1 .. base + last[c] : e \in Known(c) \cup passed[c]
  /\ Carries(pipe[c], since[c], Known(c) \cup passed[c])

Account == \A c \in Clients : Accounted(c)

LEMMA CarriesMore ==
    ASSUME NEW p \in Seq(Msgs), NEW m \in Msgs, NEW s, NEW K, NEW L, K \subseteq L, Carries(p, s, K),
           m.kind \in {"event", "sync"} => \A e \in s + 1 .. m.id : e \in L \cup PEvs(Append(p, m))
    PROVE  Carries(Append(p, m), s, L)
  <1> DEFINE t == Append(p, m)
             n == Len(p)
  <1>1. /\ n \in Nat /\ DOMAIN p = 1 .. n /\ DOMAIN t = 1 .. n + 1
        /\ \A i \in 1 .. n : t[i] = p[i]
        /\ t[n + 1] = m
    BY AppendIs
  <1>2. m.kind \in {"event", "sync"} => \A e \in s + 1 .. m.id : e \in L \cup PEvs(t)
    OBVIOUS
  <1> HIDE DEF t, n
  <1> SUFFICES ASSUME NEW i \in DOMAIN t, t[i].kind \in {"event", "sync"}, NEW e \in s + 1 .. t[i].id
               PROVE  e \in L \cup Ahead(t, i)
    BY DEF Carries, t
  <1>3. CASE i \in 1 .. n
    <2>1. i \in DOMAIN p /\ t[i] = p[i]
      BY <1>1, <1>3
    <2>2. e \in K \cup Ahead(p, i)
      BY <2>1 DEF Carries
    <2>3. \A k \in DOMAIN p : k \in DOMAIN t /\ t[k] = p[k]
      BY <1>1
    <2>4. Ahead(p, i) \subseteq Ahead(t, i)
      <3> SUFFICES ASSUME NEW k \in DOMAIN p, k <= i, p[k].kind = "event" PROVE p[k].id \in Ahead(t, i)
        BY DEF Ahead
      <3>1. k \in DOMAIN t /\ k <= i /\ t[k].kind = "event" /\ t[k].id = p[k].id
        BY <2>3
      <3> QED BY <3>1 DEF Ahead
    <2> QED BY <2>2, <2>4
  <1>4. CASE i = n + 1
    <2>1. e \in L \cup PEvs(t)
      BY <1>1, <1>2, <1>4
    <2>2. PEvs(t) \subseteq Ahead(t, i)
      BY <1>1, <1>4 DEF PEvs, Ahead
    <2> QED BY <2>1, <2>2
  <1> QED BY <1>1, <1>3, <1>4

LEMMA CarriesLess ==
    ASSUME NEW p \in Seq(Msgs), p # <<>>, NEW s, NEW K, NEW L, K \subseteq L, Carries(p, s, K),
           Head(p).kind = "event" => Head(p).id \in L
    PROVE  /\ Carries(Tail(p), s, L)
           /\ Head(p).kind \in {"event", "sync"} => \A e \in s + 1 .. Head(p).id : e \in L
  <1> DEFINE t == Tail(p)
             h == Head(p)
             n == Len(p)
  <1>1. /\ n \in Nat /\ n > 0 /\ DOMAIN p = 1 .. n /\ DOMAIN t = 1 .. n - 1 /\ h = p[1]
        /\ \A i \in 1 .. n - 1 : t[i] = p[i + 1]
    BY TailIs
  <1>2. h.kind = "event" => h.id \in L
    OBVIOUS
  <1> HIDE DEF t, h, n
  <1>3. ASSUME NEW i \in DOMAIN t, t[i].kind \in {"event", "sync"}, NEW e \in s + 1 .. t[i].id
        PROVE  e \in L \cup Ahead(t, i)
    <2> DEFINE j == i + 1
    <2>1. j \in DOMAIN p /\ p[j] = t[i] /\ i \in Nat
      BY <1>1
    <2>2. e \in K \cup Ahead(p, j)
      BY <1>3, <2>1 DEF Carries
    <2>3. ASSUME NEW k \in DOMAIN p, k <= j, p[k].kind = "event"
          PROVE  p[k].id \in L \cup Ahead(t, i)
      <3>1. CASE k = 1
        BY <1>1, <1>2, <2>3, <3>1
      <3>2. CASE k # 1
        <4> DEFINE l == k - 1
        <4>1. l \in DOMAIN t /\ t[l] = p[k] /\ l <= i
          BY <1>1, <2>1, <2>3, <3>2
        <4> HIDE DEF l
        <4>2. t[l].kind = "event" /\ t[l].id = p[k].id
          BY <2>3, <4>1
        <4> QED BY <4>1, <4>2 DEF Ahead
      <3> QED BY <3>1, <3>2
    <2>4. Ahead(p, j) \subseteq L \cup Ahead(t, i)
      BY <2>3 DEF Ahead
    <2> QED BY <2>2, <2>4
  <1>4. ASSUME h.kind \in {"event", "sync"}, NEW e \in s + 1 .. h.id PROVE e \in L
    <2>1. 1 \in DOMAIN p /\ p[1].kind \in {"event", "sync"} /\ e \in s + 1 .. p[1].id
      BY <1>1, <1>4
    <2>2. e \in K \cup Ahead(p, 1)
      BY <2>1 DEF Carries
    <2>3. \A k \in DOMAIN p : k <= 1 => k = 1
      BY <1>1
    <2>4. Ahead(p, 1) \subseteq L
      BY <1>1, <1>2, <2>3 DEF Ahead
    <2> QED BY <2>2, <2>4
  <1> QED BY <1>3, <1>4 DEF Carries, t, h

\* What the second invariant speaks of, for one client.
Alike(c) ==
  /\ gen'[c] = gen[c] /\ pipe'[c] = pipe[c] /\ since'[c] = since[c]
  /\ InFlight(pipe[c], todo[c], sq[c])' = InFlight(pipe[c], todo[c], sq[c])
  /\ Known(c) \subseteq Known(c)' /\ passed'[c] = passed[c] /\ last'[c] = last[c]
  /\ (c \in foreign' <=> c \in foreign)

LEMMA AlikeAccounts ==
    ASSUME NEW c \in Clients, Accounted(c), Alike(c), base' = base, published' = published
    PROVE  Accounted(c)'
  BY DEF Alike, Accounted, Carries

\* A step of one client, which leaves the others as they are.
LEMMA OneAccounts ==
    ASSUME Account, NEW d \in Clients, UNCHANGED <<base, published>>, Accounted(d)',
           \A c \in Clients \ {d} : Same(c) /\ passed'[c] = passed[c] /\ lost'[c] = lost[c]
                                    /\ (c \in foreign' <=> c \in foreign)
    PROVE  Account'
  <1>1. ASSUME NEW c \in Clients \ {d} PROVE Alike(c)
    BY DEF Same, Alike, Known
  <1> QED BY <1>1, AlikeAccounts DEF Account

\* The stream sends one message more, from its replay, its queue or of its own.
LEMMA SendsAccounts ==
    ASSUME IInv, NEW d \in Clients, Accounted(d), NEW m \in Msgs, pipe'[d] = Append(pipe[d], m),
           UNCHANGED <<base, published, since, got, dropped, lost, last, foreign>>,
           passed[d] \subseteq passed'[d],
           gen'[d] # "none" =>
             gen[d] # "none" /\ InFlight(pipe[d], todo[d], sq[d])' = InFlight(pipe[d], todo[d], sq[d]),
           m.kind \in {"event", "sync"} => \A e \in since[d] + 1 .. m.id :
             e \in Known(d) \cup passed'[d] \cup PEvs(Append(pipe[d], m))
    PROVE  Accounted(d)'
  <1>1. Known(d)' = Known(d)
    BY DEF Known
  <1>2. pipe[d] \in Seq(Msgs) /\ Carries(pipe[d], since[d], Known(d) \cup passed[d])
        /\ Known(d) \cup passed[d] \subseteq Known(d) \cup passed'[d]
    BY ClientIs DEF Accounted
  <1>3. Carries(Append(pipe[d], m), since[d], Known(d) \cup passed'[d])
    BY <1>2, CarriesMore
  <1> QED BY <1>1, <1>3 DEF Accounted

\* What a stream still has, below the event it sends next.
LEMMA NextIsLeast ==
    ASSUME IInv, Account, NEW d \in Clients, gen[d] # "none", NEW x \in Events,
           NEW m \in Msgs, m.kind = "event", m.id = x,
           \A y \in Evs(todo[d]) \cup Evs(sq[d]) : x <= y
    PROVE  \A e \in since[d] + 1 .. x : x <= published =>
             e \in Known(d) \cup PEvs(Append(pipe[d], m))
  <1> SUFFICES ASSUME NEW e \in since[d] + 1 .. x, x <= published
               PROVE  e \in Known(d) \cup PEvs(Append(pipe[d], m))
    OBVIOUS
  <1>1. e \in since[d] + 1 .. published /\ e \in Nat /\ x \in Nat /\ e <= x
    BY ClientIs DEF Events
  <1>2. e \in Known(d) \cup PEvs(pipe[d]) \cup Evs(todo[d]) \cup Evs(sq[d])
    BY <1>1 DEF Account, Accounted, InFlight
  <1>3. PEvs(Append(pipe[d], m)) = PEvs(pipe[d]) \cup {x}
    BY ClientIs, PEvsAppend
  <1>4. e \in Evs(todo[d]) \cup Evs(sq[d]) => e = x
    BY <1>1
  <1> QED BY <1>2, <1>3, <1>4

LEMMA StreamAccounts ==
    ASSUME IInv, Account, NEW d \in Clients, Stream(d) \/ KeepAlive(d)
    PROVE  Account'
  <1>1. ASSUME SendReplay(d) PROVE Account'
    <2> DEFINE x == Head(todo[d])
               m == Msg("event", x)
    <2>1. /\ gen[d] = "replay" /\ todo[d] # <<>>
          /\ pipe' = [pipe EXCEPT ![d] = Append(pipe[d], m)]
          /\ todo' = [todo EXCEPT ![d] = Tail(todo[d])]
          /\ upTo' = [upTo EXCEPT ![d] = Larger(upTo[d], SeqNo(x))]
          /\ UNCHANGED <<published, base, gen, sq, es, last, hadError, got, fresh, since, dropped, passed, lost, foreign, stale>>
      BY <1>1 DEF SendReplay, Send, busVars, clientVars, missVars
    <2>2. x \in Events /\ x # Sentinel /\ Evs(todo[d]) = Evs(Tail(todo[d])) \cup {x}
          /\ \A y \in Evs(Tail(todo[d])) : x < y
      <3>1. todo[d] \in Seq(Events) /\ Rising(todo[d])
        BY ClientIs DEF Flow
      <3>2. x \in Events /\ x # Sentinel
        BY <2>1, <3>1, HeadTailProperties, EventsAreNat
      <3> QED BY <2>1, <3>1, <3>2, EvsTail, RisingTail
    <2>3. m \in Msgs /\ m.kind = "event" /\ m.id = x
      BY <2>2 DEF Msg, Msgs, Events
    <2>4. x <= published /\ \A y \in Evs(todo[d]) \cup Evs(sq[d]) : x <= y
      <3>1. \A y \in Evs(sq[d]) : x < y
        BY <2>2, ClientIs DEF Flow, Below
      <3>2. \A y \in Evs(todo[d]) \cup Evs(sq[d]) : y \in Nat
        BY NumbersAre DEF InFlight
      <3>3. x \in InFlight(pipe[d], todo[d], sq[d])
        BY <2>2 DEF InFlight
      <3>4. x <= published
        BY <3>3, ClientIs DEF Bounded
      <3> HIDE DEF x
      <3> QED BY <2>2, <3>1, <3>2, <3>4 DEF Events
    <2>5. InFlight(Append(pipe[d], m), Tail(todo[d]), sq[d]) = InFlight(pipe[d], todo[d], sq[d])
      <3>1. /\ Flow(got[d], pipe[d], todo[d], sq[d]) /\ pipe[d] \in Seq(Msgs) /\ todo[d] \in Seq(Events)
            /\ todo[d] # <<>> /\ m \in Msgs /\ m.kind = "event" /\ m.id = Head(todo[d])
        BY <2>1, <2>3, ClientIs
      <3> HIDE DEF m
      <3> QED BY <3>1, Replays
    <2> HIDE DEF x, m
    <2>6. \A e \in since[d] + 1 .. m.id : e \in Known(d) \cup PEvs(Append(pipe[d], m))
      BY <2>1, <2>2, <2>3, <2>4, NextIsLeast
    <2>7. pipe'[d] = Append(pipe[d], m) /\ todo'[d] = Tail(todo[d])
      BY <2>1 DEF IInv, TypeOK
    <2>8. Accounted(d)'
      BY <2>1, <2>3, <2>5, <2>6, <2>7, SendsAccounts DEF Account
    <2>9. \A c \in Clients \ {d} : Same(c)
      BY <2>1 DEF IInv, TypeOK, Same
    <2> QED BY <2>1, <2>8, <2>9, OneAccounts
  <1>2. ASSUME SendSync(d) PROVE Account'
    <2> DEFINE m == Msg("sync", published)
    <2>1. /\ gen[d] = "replay" /\ todo[d] = <<>>
          /\ pipe' = [pipe EXCEPT ![d] = Append(pipe[d], m)]
          /\ gen' = [gen EXCEPT ![d] = "live"]
          /\ passed' = [passed EXCEPT ![d] = passed[d] \cup Evs(sq[d])]
          /\ UNCHANGED <<published, base, sq, todo, upTo, es, last, hadError, got, fresh, since, dropped, lost, foreign, stale>>
      BY <1>2 DEF SendSync, Send, busVars, clientVars, missVars, Evs
    <2>2. m \in Msgs /\ m.kind = "sync" /\ m.id = published
      BY ClientIs DEF Msg, Msgs
    <2> HIDE DEF m
    <2>3. pipe'[d] = Append(pipe[d], m) /\ passed'[d] = passed[d] \cup Evs(sq[d])
      BY <2>1 DEF IInv, TypeOK
    <2>4. PEvs(Append(pipe[d], m)) = PEvs(pipe[d]) /\ Evs(todo[d]) = {}
      <3>1. pipe[d] \in Seq(Msgs) /\ m.kind # "event"
        BY <2>2, ClientIs
      <3> QED BY <2>1, <2>2, <3>1, PEvsAppend, EmptyIs
    <2>5. \A e \in since[d] + 1 .. published : e \in Known(d) \cup PEvs(pipe[d]) \cup Evs(sq[d])
      BY <2>1, <2>4 DEF Account, Accounted, InFlight
    <2>6. InFlight(Append(pipe[d], m), todo[d], sq[d]) = InFlight(pipe[d], todo[d], sq[d])
      BY <2>4 DEF InFlight
    <2>7. Accounted(d)'
      BY <2>1, <2>2, <2>3, <2>4, <2>5, <2>6, SendsAccounts DEF Account
    <2>8. \A c \in Clients \ {d} : Same(c) /\ passed'[c] = passed[c]
      BY <2>1 DEF IInv, TypeOK, Same
    <2> QED BY <2>1, <2>7, <2>8, OneAccounts
  <1>3. ASSUME SendLive(d) PROVE Account'
    <2> DEFINE x == Head(sq[d])
               m == Msg("event", x)
    <2>1. /\ gen[d] = "live" /\ sq[d] # <<>> /\ x # Sentinel
          /\ sq' = [sq EXCEPT ![d] = Tail(sq[d])]
          /\ UNCHANGED <<published, base, gen, todo, upTo, es, last, hadError, got, fresh, since, dropped, passed, lost, foreign, stale>>
      BY <1>3 DEF SendLive, Send, busVars, clientVars, missVars
    <2>2. todo[d] = <<>> /\ Evs(todo[d]) = {}
      BY <2>1, ClientIs, EmptyIs DEF Phase
    <2>3. x \in Events /\ Evs(sq[d]) = Evs(Tail(sq[d])) \cup {x} /\ \A y \in Evs(Tail(sq[d])) : x < y
      <3>1. sq[d] \in Seq(Events \cup {Sentinel}) /\ Rising(sq[d])
        BY ClientIs DEF Flow, Queues
      <3>2. x \in Events
        BY <2>1, <3>1, HeadTailProperties
      <3> QED BY <2>1, <3>1, <3>2, EvsTail, RisingTail
    <2>4. m \in Msgs /\ m.kind = "event" /\ m.id = x
      BY <2>3 DEF Msg, Msgs, Events
    <2>5. x <= published /\ x \in Nat /\ x > base + upTo[d] /\ \A y \in Evs(todo[d]) \cup Evs(sq[d]) : x <= y
      <3>1. \A y \in Evs(sq[d]) : y \in Nat
        BY NumbersAre DEF InFlight
      <3>2. x \in InFlight(pipe[d], todo[d], sq[d]) /\ x \in Evs(sq[d])
        BY <2>3 DEF InFlight
      <3>3. x <= published /\ x > base + upTo[d]
        BY <3>2, ClientIs DEF Bounded
      <3>4. x \in Nat /\ \A y \in Evs(sq[d]) : y \in Nat /\ (y = x \/ x < y)
        BY <2>3, <3>1, <3>2
      <3> HIDE DEF x
      <3>5. \A y \in Evs(sq[d]) : x <= y
        BY <3>4
      <3> QED BY <2>2, <3>3, <3>4, <3>5
    <2>6. pipe' = [pipe EXCEPT ![d] = Append(pipe[d], m)]
      <3>1. SeqNo(x) > upTo[d]
        <4> HIDE DEF x
        <4> QED BY <2>5, ClientIs DEF SeqNo
      <3> QED BY <1>3, <3>1 DEF SendLive, Send
    <2>7. InFlight(Append(pipe[d], m), todo[d], Tail(sq[d])) = InFlight(pipe[d], todo[d], sq[d])
      <3>1. /\ Flow(got[d], pipe[d], <<>>, sq[d]) /\ pipe[d] \in Seq(Msgs) /\ sq[d] \in Queues
            /\ sq[d] # <<>> /\ Head(sq[d]) # Sentinel /\ m \in Msgs /\ m.kind = "event" /\ m.id = Head(sq[d])
        BY <2>1, <2>2, <2>4, ClientIs
      <3> HIDE DEF m
      <3> QED BY <2>2, <3>1, Forwards
    <2> HIDE DEF x, m
    <2>8. \A e \in since[d] + 1 .. m.id : e \in Known(d) \cup PEvs(Append(pipe[d], m))
      BY <2>1, <2>3, <2>4, <2>5, NextIsLeast
    <2>9. pipe'[d] = Append(pipe[d], m) /\ sq'[d] = Tail(sq[d])
      BY <2>1, <2>6 DEF IInv, TypeOK
    <2>10. Accounted(d)'
      BY <2>1, <2>4, <2>7, <2>8, <2>9, SendsAccounts DEF Account
    <2>11. \A c \in Clients \ {d} : Same(c)
      BY <2>1, <2>6 DEF IInv, TypeOK, Same
    <2> QED BY <2>1, <2>10, <2>11, OneAccounts
  <1>4. ASSUME SendEnd(d) PROVE Account'
    <2> DEFINE m == Msg("end", 0)
    <2>1. /\ pipe' = [pipe EXCEPT ![d] = Append(pipe[d], m)]
          /\ gen' = [gen EXCEPT ![d] = "none"] /\ sq' = [sq EXCEPT ![d] = <<>>]
          /\ UNCHANGED <<published, base, todo, upTo, es, last, hadError, got, fresh, since, dropped, passed, lost, foreign, stale>>
      BY <1>4 DEF SendEnd, Send, busVars, clientVars, missVars
    <2>2. m \in Msgs /\ m.kind = "end"
      BY ClientIs DEF Msg, Msgs
    <2> HIDE DEF m
    <2>3. pipe'[d] = Append(pipe[d], m) /\ gen'[d] = "none"
      BY <2>1 DEF IInv, TypeOK
    <2>4. Accounted(d)'
      BY <2>1, <2>2, <2>3, SendsAccounts DEF Account
    <2>5. \A c \in Clients \ {d} : Same(c)
      BY <2>1 DEF IInv, TypeOK, Same
    <2> QED BY <2>1, <2>4, <2>5, OneAccounts
  <1>5. ASSUME KeepAlive(d) PROVE Account'
    <2> DEFINE m == Msg("sync", published)
    <2>1. /\ gen[d] = "live" /\ sq[d] = <<>>
          /\ pipe' = [pipe EXCEPT ![d] = Append(pipe[d], m)]
          /\ UNCHANGED <<published, base, gen, sq, todo, upTo, es, last, hadError, got, fresh, since, dropped, passed, lost, foreign, stale>>
      BY <1>5 DEF KeepAlive, Send, busVars, genVars, clientVars, missVars
    <2>2. m \in Msgs /\ m.kind = "sync" /\ m.id = published
      BY ClientIs DEF Msg, Msgs
    <2> HIDE DEF m
    <2>3. pipe'[d] = Append(pipe[d], m)
      BY <2>1 DEF IInv, TypeOK
    <2>4. PEvs(Append(pipe[d], m)) = PEvs(pipe[d]) /\ Evs(todo[d]) = {} /\ Evs(sq[d]) = {}
      <3>1. todo[d] = <<>>
        BY <2>1, ClientIs DEF Phase
      <3>2. pipe[d] \in Seq(Msgs) /\ m.kind # "event"
        BY <2>2, ClientIs
      <3> QED BY <2>1, <2>2, <3>1, <3>2, PEvsAppend, EmptyIs
    <2>5. \A e \in since[d] + 1 .. published : e \in Known(d) \cup PEvs(pipe[d])
      BY <2>1, <2>4 DEF Account, Accounted, InFlight
    <2>6. InFlight(Append(pipe[d], m), todo[d], sq[d]) = InFlight(pipe[d], todo[d], sq[d])
      BY <2>4 DEF InFlight
    <2>7. Accounted(d)'
      BY <2>1, <2>2, <2>3, <2>4, <2>5, <2>6, SendsAccounts DEF Account
    <2>8. \A c \in Clients \ {d} : Same(c)
      BY <2>1 DEF IInv, TypeOK, Same
    <2> QED BY <2>1, <2>7, <2>8, OneAccounts
  <1> QED BY <1>1, <1>2, <1>3, <1>4, <1>5 DEF Stream

\* What a reconnection cannot be given it has been given, or loses now.
LEMMA AcceptAccounts ==
    ASSUME IInv, Account, NEW d \in Clients, Accept(d)
    PROVE  Account'
  <1> DEFINE t == IF last[d] > 0 THEN ReplaySince(last[d]) ELSE <<>>
             p == IF t = <<>> THEN <<Msg("open", 0), Msg("sync", published)>> ELSE <<Msg("open", 0)>>
             n == IF got[d] = <<>> /\ last[d] = 0 /\ fresh[d] = 0 /\ ~hadError[d] THEN published ELSE since[d]
             x == {e \in Beyond(d) : e > n /\ e \notin Given(d)}
  <1>1. /\ pipe[d] = <<>> /\ gen[d] = "none"
        /\ sq' = [sq EXCEPT ![d] = <<>>] /\ todo' = [todo EXCEPT ![d] = t]
        /\ upTo' = [upTo EXCEPT ![d] = 0]
        /\ gen' = [gen EXCEPT ![d] = IF t = <<>> THEN "live" ELSE "replay"]
        /\ pipe' = [pipe EXCEPT ![d] = p] /\ since' = [since EXCEPT ![d] = n]
        /\ passed' = [passed EXCEPT ![d] = {}]
        /\ UNCHANGED <<published, base, es, last, hadError, got, fresh, dropped, foreign, stale>>
    BY DEF Accept, busVars, clientVars
  <1>2. since'[d] = n /\ pipe'[d] = p /\ passed'[d] = {} /\ todo'[d] = t /\ sq'[d] = <<>>
    BY <1>1 DEF IInv, TypeOK
  <1>3. lost' = [lost EXCEPT ![d] = lost[d] \cup x]
    BY <1>2 DEF Accept
  <1>4. lost'[d] = lost[d] \cup x
    BY <1>3 DEF IInv, TypeOK
  <1>5. n = since[d] \/ (n = published /\ last[d] = 0)
    BY ClientIs
  <1>6. /\ base \in Nat /\ published \in Nat /\ base <= published /\ last[d] \in Nat /\ since[d] \in Nat
        /\ BufferSize \in Nat /\ n \in Nat
    BY ClientIs, StreamAssumption
  <1>7. Given(d) = Evs(got[d])
    BY ClientIs, ToldIs DEF Given
  <1>8. ASSUME NEW e \in n + 1 .. published PROVE e \in Known(d) \cup x \cup Evs(t)
    <2>1. e \in Nat /\ e > n /\ e \in 1 .. published /\ (n = since[d] => e \in since[d] + 1 .. published)
      BY <1>6
    <2>2. CASE last[d] = 0 \/ e + BufferSize <= published \/ (d \in foreign /\ e <= base + last[d])
      BY <1>7, <2>1, <2>2 DEF Beyond, Known
    <2>3. CASE ~(last[d] = 0 \/ e + BufferSize <= published \/ (d \in foreign /\ e <= base + last[d]))
      <3>1. n = since[d]
        BY <2>3
      <3>2. CASE e <= base + last[d]
        <4>1. e \in since[d] + 1 .. base + last[d] /\ d \notin foreign
          BY <1>6, <2>1, <2>3, <3>1, <3>2
        <4>2. e \in Known(d) \cup passed[d]
          BY <4>1 DEF Account, Accounted
        <4> HIDE DEF n
        <4> QED BY <1>7, <2>1, <4>2 DEF Beyond, Known
      <3>3. CASE ~(e <= base + last[d])
        <4>1. last[d] > 0 /\ t = ReplaySince(last[d])
          BY <1>6, <2>3
        <4>2. e \in Evs(ReplaySince(last[d]))
          <5>1. TypeOK /\ last[d] \in 0 .. MaxEvents /\ e \in 1 .. published
                /\ e > base + last[d] /\ e + BufferSize > published
            BY <1>6, <2>1, <2>3, <3>3, ClientIs DEF IInv
          <5> QED BY <5>1, InReplay
        <4> QED BY <4>1, <4>2
      <3> QED BY <3>2, <3>3
    <2> QED BY <2>2, <2>3
  <1>9. passed[d] \subseteq Known(d) \cup x \cup {e \in Nat : e <= n}
    <2>1. passed[d] \subseteq Nat
      BY EventsAreNat DEF IInv, TypeOK
    <2> HIDE DEF n
    <2> QED BY <1>6, <1>7, <2>1 DEF Beyond, Known
  <1>10. /\ \A i \in DOMAIN p : p[i].kind = "open" \/ (p[i].kind = "sync" /\ p[i].id = published /\ t = <<>>)
         /\ PEvs(p) = {}
    <2> DEFINE a == Msg("open", 0)
               b == Msg("sync", published)
    <2>1. a.kind = "open" /\ b.kind = "sync" /\ b.id = published
      BY DEF Msg
    <2> HIDE DEF a, b
    <2>2. DOMAIN <<a>> = {1} /\ DOMAIN <<a, b>> = {1, 2}
      OBVIOUS
    <2>3. (p = <<a>>) \/ (p = <<a, b>> /\ t = <<>>)
      BY DEF a, b
    <2> HIDE DEF p, t
    <2>4. \A i \in DOMAIN p : p[i] = a \/ (p[i] = b /\ t = <<>>)
      BY <2>2, <2>3
    <2>5. \A i \in DOMAIN p : p[i].kind # "event"
      BY <2>1, <2>4
    <2> QED BY <2>1, <2>4, <2>5 DEF PEvs
  <1> HIDE DEF n, p, t, x
  <1>11. Known(d)' = Known(d) \cup x
    BY <1>1, <1>4 DEF Known
  <1>12. InFlight(p, t, <<>>) = Evs(t)
    BY <1>10, EmptyIs DEF InFlight
  <1>13. \A e \in n + 1 .. base + last[d] : d \notin foreign => e \in Known(d) \cup x
    <2> SUFFICES ASSUME NEW e \in n + 1 .. base + last[d], d \notin foreign PROVE e \in Known(d) \cup x
      OBVIOUS
    <2>1. n = since[d]
      BY <1>5, <1>6
    <2>2. e \in Nat /\ ~(e <= n)
      BY <1>6
    <2>3. e \in Known(d) \cup passed[d]
      BY <2>1 DEF Account, Accounted
    <2> QED BY <1>9, <2>2, <2>3
  <1>14. Carries(p, n, Known(d)' \cup passed'[d])
    <2> SUFFICES ASSUME NEW i \in DOMAIN p, p[i].kind \in {"event", "sync"}, NEW e \in n + 1 .. p[i].id
                 PROVE  e \in Known(d)'
      BY DEF Carries
    <2>1. p[i].id = published /\ t = <<>>
      BY <1>10
    <2>2. e \in Known(d) \cup x \cup Evs(t) /\ Evs(t) = {}
      BY <1>8, <2>1, EmptyIs
    <2> QED BY <1>11, <2>2
  <1>15. Accounted(d)'
    BY <1>1, <1>2, <1>8, <1>11, <1>12, <1>13, <1>14 DEF Accounted
  <1>16. \A c \in Clients \ {d} : Same(c) /\ passed'[c] = passed[c] /\ lost'[c] = lost[c]
    BY <1>1, <1>3 DEF IInv, TypeOK, Same
  <1> QED BY <1>1, <1>15, <1>16, OneAccounts

\* The client takes a message off the connection.
LEMMA ReceiveAccounts ==
    ASSUME IInv, Account, NEW d \in Clients, Receive(d)
    PROVE  Account'
  <1> DEFINE m == Head(pipe[d])
             k == Tail(pipe[d])
  <1>1. /\ m \in Msgs /\ pipe[d] # <<>> /\ pipe' = [pipe EXCEPT ![d] = k] /\ pipe[d] \in Seq(Msgs)
        /\ m.kind \in {"event", "sync"} => base <= m.id /\ m.id <= published
        /\ UNCHANGED <<published, base, shutting, gen, sq, todo, upTo, since, dropped, passed, lost, stale>>
        /\ m.kind = "open" \/ m.kind = "end" \/ m.kind = "event" \/ m.kind = "sync"
    BY ReceivedIs, ClientIs
  <1>2. pipe'[d] = k /\ \A c \in Clients \ {d} : pipe'[c] = pipe[c]
    BY <1>1 DEF IInv, TypeOK
  <1>3. ASSUME m.kind # "event", m.kind # "sync" PROVE Account'
    <2>1. /\ m.kind = "open" => OnOpen(d)
          /\ m.kind = "end" => OnError(d)
      BY DEF Receive
    <2>2. /\ UNCHANGED <<last, foreign, got>>
          /\ \A c \in Clients \ {d} : es'[c] = es[c] /\ hadError'[c] = hadError[c] /\ fresh'[c] = fresh[c]
      <3>1. CASE m.kind = "open"
        BY <2>1, <3>1 DEF OnOpen, IInv, TypeOK
      <3>2. CASE m.kind = "end"
        BY <2>1, <3>2 DEF OnError, IInv, TypeOK
      <3> QED BY <1>1, <1>3, <3>1, <3>2
    <2>3. Carries(k, since[d], Known(d) \cup passed[d])
      BY <1>1, <1>3, CarriesLess DEF Account, Accounted
    <2>4. InFlight(k, todo[d], sq[d]) = InFlight(pipe[d], todo[d], sq[d])
      BY <1>1, <1>3, PEvsTail DEF InFlight
    <2>5. Known(d)' = Known(d)
      BY <1>1, <2>2 DEF Known
    <2> HIDE DEF k, m
    <2>6. Accounted(d)'
      BY <1>1, <1>2, <2>2, <2>3, <2>4, <2>5 DEF Account, Accounted
    <2>7. \A c \in Clients \ {d} : Same(c)
      BY <1>1, <1>2, <2>2 DEF Same
    <2> QED BY <1>1, <2>2, <2>6, <2>7, OneAccounts
  <1>4. ASSUME m.kind \in {"event", "sync"} PROVE Account'
    <2> DEFINE g == IF m.kind = "event" THEN Append(got[d], m.id) ELSE got[d]
               l == Larger(last[d], SeqNo(m.id))
    <2>1. /\ last' = [last EXCEPT ![d] = l] /\ got' = [got EXCEPT ![d] = g]
          /\ foreign' = IF SeqNo(m.id) > last[d] THEN foreign \ {d} ELSE foreign
          /\ UNCHANGED <<es, hadError, fresh>>
      BY <1>4 DEF Receive, OnMessage
    <2>2. base <= m.id /\ m.id <= published /\ m.id \in Nat /\ last[d] \in Nat /\ base \in Nat
      BY <1>1, <1>4, ClientIs DEF Msgs
    <2>3. m.kind = "event" => m.id \in Events
      <3>1. m.kind = "event" => m.id \in InFlight(pipe[d], todo[d], sq[d])
        BY ReceivedIs
      <3>2. m.kind = "event" => base < m.id
        BY <3>1, ClientIs DEF Bounded
      <3> HIDE DEF m
      <3> QED BY <2>2, <3>2, ClientIs DEF Events
    <2>4. Evs(g) = Evs(got[d]) \cup IF m.kind = "event" THEN {m.id} ELSE {}
      <3>1. CASE m.kind = "event"
        <4>1. g = Append(got[d], m.id) /\ got[d] \in Seq(Events) /\ m.id \in Events /\ m.id # Sentinel
          BY <2>3, <3>1, ClientIs, EventsAreNat
        <4> HIDE DEF g
        <4>2. Evs(g) = Evs(got[d]) \cup ({m.id} \ {Sentinel})
          BY <4>1, EvsAppend
        <4> QED BY <3>1, <4>1, <4>2
      <3>2. CASE m.kind # "event"
        BY <3>2
      <3> QED BY <3>1, <3>2
    <2>5. last'[d] = l /\ got'[d] = g /\ \A c \in Clients \ {d} : last'[c] = last[c] /\ got'[c] = got[c]
      BY <2>1 DEF IInv, TypeOK
    <2>6. Known(d)' = Known(d) \cup IF m.kind = "event" THEN {m.id} ELSE {}
      BY <1>1, <2>4, <2>5 DEF Known
    <2>7. InFlight(pipe[d], todo[d], sq[d]) = InFlight(k, todo[d], sq[d]) \cup IF m.kind = "event" THEN {m.id} ELSE {}
      BY <1>1, PEvsTail DEF InFlight
    <2>8. /\ Carries(k, since[d], Known(d)' \cup passed[d])
          /\ \A e \in since[d] + 1 .. m.id : e \in Known(d)' \cup passed[d]
      <3>1. Known(d) \cup passed[d] \subseteq Known(d)' \cup passed[d] /\ (m.kind = "event" => m.id \in Known(d)' \cup passed[d])
        BY <2>6
      <3>2. Carries(pipe[d], since[d], Known(d) \cup passed[d])
        BY DEF Account, Accounted
      <3> QED BY <1>1, <1>4, <3>1, <3>2, CarriesLess
    <2>9. d \notin foreign' => \A e \in since[d] + 1 .. base + l : e \in Known(d)' \cup passed[d]
      <3>1. CASE SeqNo(m.id) > last[d]
        <4>1. base + l = m.id
          <5> HIDE DEF m
          <5> QED BY <2>2, <3>1 DEF Larger, SeqNo
        <4> HIDE DEF l
        <4> QED BY <2>8, <4>1
      <3>2. CASE ~(SeqNo(m.id) > last[d])
        <4>1. l = last[d] /\ foreign' = foreign
          <5> HIDE DEF m
          <5>1. SeqNo(m.id) \in Int
            BY <2>2 DEF SeqNo
          <5> QED BY <2>1, <2>2, <3>2, <5>1 DEF Larger
        <4> HIDE DEF l
        <4>2. Known(d) \subseteq Known(d)'
          BY <2>6
        <4> QED BY <4>1, <4>2 DEF Account, Accounted
      <3> QED BY <3>1, <3>2
    <2> HIDE DEF l, g, k, m
    <2>10. Accounted(d)'
      <3>1. gen[d] # "none" => \A e \in since[d] + 1 .. published : e \in Known(d)' \cup InFlight(k, todo[d], sq[d])
        BY <2>6, <2>7 DEF Account, Accounted
      <3> QED BY <1>1, <1>2, <2>5, <2>8, <2>9, <3>1 DEF Accounted
    <2>11. \A c \in Clients \ {d} : Same(c) /\ (c \in foreign' <=> c \in foreign)
      BY <1>1, <1>2, <2>1, <2>5 DEF Same
    <2> QED BY <1>1, <2>10, <2>11, OneAccounts
  <1> QED BY <1>1, <1>3, <1>4

\* The client starts, tries again, or its connection is gone.
LEMMA ClientAccounts ==
    ASSUME IInv, Account, NEW d \in Clients, Mount(d) \/ Retry(d) \/ Break(d) \/ Stale(d)
    PROVE  Account'
  <1>1. ASSUME Mount(d) \/ Retry(d) PROVE Account'
    <2>1. UNCHANGED <<base, published, gen, sq, todo, upTo, pipe, last, got, since, dropped, passed, lost, foreign>>
      BY <1>1 DEF Mount, Retry, busVars, genVars, missVars
    <2> QED BY <2>1 DEF Account, Accounted, Carries, Known
  <1>2. ASSUME Break(d) \/ Stale(d) PROVE Account'
    <2>1. Cut(d) /\ UNCHANGED <<published, base, last, got, since, dropped, passed, lost, foreign>>
      BY <1>2 DEF Break, Stale, OnError, busVars, missVars
    <2>2. /\ pipe'[d] = <<>> /\ gen'[d] = "none"
          /\ \A c \in Clients \ {d} :
               pipe'[c] = pipe[c] /\ gen'[c] = gen[c] /\ sq'[c] = sq[c] /\ todo'[c] = todo[c]
      BY <2>1, CutIs
    <2>3. Carries(<<>>, since[d], Known(d) \cup passed[d])
      BY EmptyQueue DEF Carries
    <2>4. Accounted(d)'
      BY <2>1, <2>2, <2>3 DEF Account, Accounted, Known
    <2>5. ASSUME NEW c \in Clients \ {d} PROVE Accounted(c)'
      <3>1. Alike(c)
        BY <2>1, <2>2 DEF Alike, Known
      <3> QED BY <2>1, <3>1, AlikeAccounts DEF Account
    <2> QED BY <2>4, <2>5 DEF Account
  <1> QED BY <1>1, <1>2

\* The bus: an event more, in the queue of every stream, or the end of the server.
LEMMA BusAccounts ==
    ASSUME IInv, Account, Publish \/ Shutdown \/ Restart
    PROVE  Account'
  <1>1. ASSUME Publish, NEW c \in Clients PROVE Accounted(c)'
    <2>1. /\ published' = published + 1 /\ ~shutting
          /\ UNCHANGED <<base, gen, todo, upTo, pipe, last, got, since, passed, lost, foreign>>
      BY <1>1 DEF Publish, clientVars
    <2>2. Known(c) \subseteq Known(c)' /\ Carries(pipe[c], since[c], Known(c)' \cup passed[c])
      <3>1. dropped[c] \subseteq dropped'[c]
        BY <1>1 DEF Publish, Subscribed
      <3>2. Known(c) \subseteq Known(c)'
        BY <2>1, <3>1 DEF Known
      <3> QED BY <3>2 DEF Account, Accounted, Carries
    <2>3. ASSUME gen[c] # "none", NEW e \in since[c] + 1 .. published + 1
          PROVE  e \in Known(c)' \cup InFlight(pipe[c], todo[c], sq'[c])
      <3> DEFINE q == sq[c]
                 n == published + 1
      <3>1. /\ q \in Seq(Events \cup {Sentinel}) /\ Len(q) \in Nat /\ Len(q) <= QueueSize /\ QueueSize \in Nat \ {0}
            /\ n \in Events \cup {Sentinel} /\ n # Sentinel
        <4>1. q \in Seq(Events \cup {Sentinel}) /\ Len(q) <= QueueSize /\ published \in Nat
          BY ClientIs DEF Queues
        <4>2. n \in Events
          <5>1. published < MaxEvents /\ MaxEvents \in Nat
            BY <1>1, StreamAssumption DEF Publish
          <5> QED BY <4>1, <5>1 DEF Events
        <4> QED BY <4>1, <4>2, EventsAreNat, LenProperties, StreamAssumption
      <3>2. Len(q) < QueueSize => sq'[c] = Append(q, n)
        BY <1>1, <2>1, <2>3 DEF Publish, Subscribed
      <3>3. ~(Len(q) < QueueSize) => /\ sq'[c] = Append(Tail(q), n) /\ dropped'[c] = dropped[c] \cup {Head(q)}
        BY <1>1, <2>1, <2>3, <3>1 DEF Publish, Subscribed
      <3>4. Evs(Append(q, n)) = Evs(q) \cup {n}
        <4>1. Evs(Append(q, n)) = Evs(q) \cup ({n} \ {Sentinel})
          BY <3>1, EvsAppend
        <4> QED BY <3>1, <4>1
      <3>5. ~(Len(q) < QueueSize) => Evs(q) \subseteq Evs(Tail(q)) \cup {Head(q)} /\ Evs(Append(Tail(q), n)) = Evs(Tail(q)) \cup {n}
        <4> SUFFICES ASSUME ~(Len(q) < QueueSize)
                     PROVE  Evs(q) \subseteq Evs(Tail(q)) \cup {Head(q)} /\ Evs(Append(Tail(q), n)) = Evs(Tail(q)) \cup {n}
          OBVIOUS
        <4>1. q # <<>>
          BY <3>1, EmptySeq
        <4>2. Tail(q) \in Seq(Events \cup {Sentinel})
          BY <3>1, <4>1, HeadTailProperties
        <4>3. Evs(q) = Evs(Tail(q)) \cup ({Head(q)} \ {Sentinel})
          BY <3>1, <4>1, EvsTail
        <4> HIDE DEF n, q
        <4> DEFINE r == Tail(q)
        <4>4. Evs(Append(r, n)) = Evs(r) \cup ({n} \ {Sentinel})
          <5>1. n \in Events \cup {Sentinel} /\ r \in Seq(Events \cup {Sentinel})
            BY <3>1, <4>2
          <5> HIDE DEF r
          <5> QED BY <5>1, EvsAppend
        <4> QED BY <3>1, <4>3, <4>4
      <3>6. n \in Evs(sq'[c]) /\ \A y \in Evs(q) : y \in Evs(sq'[c]) \cup dropped'[c]
        <4> HIDE DEF n, q
        <4> QED BY <3>2, <3>3, <3>4, <3>5
      <3>7. e = n \/ e \in since[c] + 1 .. published
        BY ClientIs
      <3>8. e \in since[c] + 1 .. published => e \in Known(c) \cup InFlight(pipe[c], todo[c], q)
        BY <2>3 DEF Account, Accounted
      <3>9. dropped'[c] \subseteq Known(c)'
        BY DEF Known
      <3> HIDE DEF n, q
      <3> QED BY <2>2, <3>6, <3>7, <3>8, <3>9 DEF InFlight
    <2>4. c \notin foreign => \A e \in since[c] + 1 .. base + last[c] : e \in Known(c)' \cup passed[c]
      BY <2>2 DEF Account, Accounted
    <2> QED BY <2>1, <2>2, <2>3, <2>4 DEF Accounted
  <1>2. ASSUME Shutdown, NEW c \in Clients PROVE Accounted(c)'
    <2>1. UNCHANGED <<published, base, gen, todo, upTo, pipe, last, got, since, dropped, passed, lost, foreign>>
      BY <1>2 DEF Shutdown, clientVars, missVars
    <2>2. InFlight(pipe[c], todo[c], sq'[c]) = InFlight(pipe[c], todo[c], sq[c])
      <3>1. sq'[c] = sq[c] \/ sq'[c] = Append(sq[c], Sentinel)
        BY <1>2 DEF Shutdown
      <3>2. Evs(Append(sq[c], Sentinel)) = Evs(sq[c])
        <4>1. sq[c] \in Seq(Events \cup {Sentinel})
          BY ClientIs DEF Queues
        <4>2. Evs(Append(sq[c], Sentinel)) = Evs(sq[c]) \cup ({Sentinel} \ {Sentinel})
          BY <4>1, EvsAppend
        <4> QED BY <4>2
      <3> QED BY <3>1, <3>2 DEF InFlight
    <2>3. Alike(c)
      BY <2>1, <2>2 DEF Alike, Known
    <2> QED BY <2>1, <2>3, AlikeAccounts DEF Account
  <1>3. ASSUME Restart, NEW c \in Clients PROVE Accounted(c)'
    <2>1. gen'[c] = "none" /\ pipe'[c] = <<>> /\ c \in foreign'
      BY <1>3 DEF Restart
    <2> QED BY <2>1, EmptyQueue DEF Accounted, Carries
  <1> QED BY <1>1, <1>2, <1>3 DEF Account

LEMMA InitAccount == Init => Account
  <1> SUFFICES ASSUME Init, NEW c \in Clients PROVE Accounted(c)
    BY DEF Account
  <1>1. /\ gen[c] = "none" /\ pipe[c] = <<>> /\ since[c] = 0 /\ base = 0 /\ last[c] = 0
    BY DEF Init
  <1>2. Carries(<<>>, since[c], Known(c) \cup passed[c])
    BY EmptyQueue DEF Carries
  <1> QED BY <1>1, <1>2 DEF Accounted

LEMMA NextAccount == IInv /\ Account /\ [Next]_vars => Account'
  <1> SUFFICES ASSUME IInv, Account, [Next]_vars PROVE Account'
    OBVIOUS
  <1>1. CASE Publish \/ Shutdown \/ Restart
    BY <1>1, BusAccounts
  <1>2. ASSUME NEW c \in Clients, Stream(c) \/ KeepAlive(c) PROVE Account'
    BY <1>2, StreamAccounts
  <1>3. ASSUME NEW c \in Clients, Client(c) \/ Break(c) \/ Stale(c) PROVE Account'
    BY <1>3, ClientAccounts, AcceptAccounts, ReceiveAccounts DEF Client
  <1>4. CASE UNCHANGED vars
    BY <1>4 DEF vars, busVars, genVars, clientVars, missVars, Account, Accounted, Carries, Known
  <1> QED BY <1>1, <1>2, <1>3, <1>4 DEF Next

-----------------------------------------------------------------------------
(* What the invariants say to a reader.                                    *)

\* No event reaches a client twice or after a later one, through replays, drops,
\* reconnections and restarts (replay_since and the filter on replayed_up_to).
THEOREM InOrder == Spec => []DeliveredInOrder
  <1>1. IInv => DeliveredInOrder
    <2> SUFFICES ASSUME IInv, NEW c \in Clients, NEW i \in DOMAIN got[c], NEW j \in DOMAIN got[c], i < j
                 PROVE  got[c][i] < got[c][j]
      BY DEF DeliveredInOrder, IInv
    <2>1. got[c][i] # Sentinel /\ got[c][j] # Sentinel
      BY ClientIs, LenProperties, ElementOfSeq, EventsAreNat
    <2> QED BY <2>1, ClientIs DEF Flow, Rising
  <1> QED BY <1>1, InitIInv, NextIInv, PTL DEF Spec

\* What a client with nothing in flight missed its queue gave up or a reconnection
\* found beyond any replay, and it has refetched since what the refetch is about
\* unless its staleness timer reconnected it: whatever that is, and for every size
\* of the queue, the buffer and the connection.
THEOREM NothingIsMissed == Spec => []NothingMissed
  <1>1. IInv /\ Account => NothingMissed
    <2> SUFFICES ASSUME IInv, Account, NEW c \in Clients, Settled(c),
                        NEW e \in since[c] + 1 .. published, e \notin Given(c) \cup dropped[c]
                 PROVE  e \in lost[c] /\ (e \in Refetched /\ c \notin stale => e <= fresh[c])
      BY DEF NothingMissed
    <2>1. es[c] = "open" /\ gen[c] = "live" /\ sq[c] = <<>> /\ pipe[c] = <<>>
      BY DEF Settled
    <2>2. todo[c] = <<>> /\ ~hadError[c]
      BY <2>1, ClientIs DEF Phase
    <2>3. InFlight(<<>>, <<>>, <<>>) = {}
      BY EmptyIs DEF InFlight
    <2>4. Given(c) = Evs(got[c])
      BY ClientIs, ToldIs DEF Given
    <2>5. e \in lost[c]
      BY <2>1, <2>2, <2>3, <2>4 DEF Account, Accounted, Known
    <2>6. c \notin stale => e <= fresh[c]
      BY <2>1, <2>2, <2>3, ClientIs DEF Covered, Told
    <2> QED BY <2>5, <2>6
  <1> QED BY <1>1, InitIInv, NextIInv, InitAccount, NextAccount, PTL DEF Spec
=============================================================================
