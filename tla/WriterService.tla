---------------------------- MODULE WriterService ----------------------------
(***************************************************************************)
(* What the write queue promises the rest of the program: the callbacks    *)
(* accepted are run one at a time, each at most once, in the order of      *)
(* their acceptance; a callback that is not run is refused on entry or     *)
(* dropped with everything that waits behind it.                           *)
(***************************************************************************)
EXTENDS Naturals, Sequences

CONSTANTS Ops, NoOp

VARIABLES state, backlog, running

svars == <<state, backlog, running>>

Init ==
    /\ state = [o \in Ops |-> "new"]
    /\ backlog = <<>>
    /\ running = NoOp

Refuse(o) ==
    /\ state[o] = "new"
    /\ state' = [state EXCEPT ![o] = "refused"]
    /\ UNCHANGED <<backlog, running>>

Accept(o) ==
    /\ state[o] = "new"
    /\ state' = [state EXCEPT ![o] = "waiting"]
    /\ backlog' = Append(backlog, o)
    /\ UNCHANGED running

Begin ==
    /\ running = NoOp /\ backlog # <<>>
    /\ running' = Head(backlog) /\ backlog' = Tail(backlog)
    /\ state' = [state EXCEPT ![Head(backlog)] = "running"]

Finish ==
    /\ running # NoOp
    /\ state' = [state EXCEPT ![running] = "over"]
    /\ running' = NoOp
    /\ UNCHANGED backlog

Drop ==
    /\ backlog # <<>>
    /\ backlog' = <<>>
    /\ state' = [o \in Ops |-> IF state[o] = "waiting" THEN "dropped" ELSE state[o]]
    /\ UNCHANGED running

Next == (\E o \in Ops : Refuse(o) \/ Accept(o)) \/ Begin \/ Finish \/ Drop

Spec == Init /\ [][Next]_svars
=============================================================================
