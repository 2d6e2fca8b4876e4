-------------------------------- MODULE Fifo ---------------------------------
(***************************************************************************)
(* What a ring promises: a bounded queue whose operations are atomic.      *)
(* sent and got are the results of the last push and of the last pop.      *)
(***************************************************************************)
EXTENDS Naturals, Sequences

CONSTANTS Vals, N, None
VARIABLES q, sent, got

Init == q = <<>> /\ sent = "idle" /\ got = None

\* push(v) is called; what it returned before is forgotten.
Call == sent' = "idle" /\ UNCHANGED <<q, got>>

Push(v) == /\ Len(q) < N
           /\ q' = Append(q, v) /\ sent' = "ok"
           /\ UNCHANGED got

PushFull == Len(q) = N /\ sent' = "full" /\ UNCHANGED <<q, got>>

Pop == /\ q # <<>>
       /\ got' = Head(q) /\ q' = Tail(q)
       /\ UNCHANGED sent

PopEmpty == q = <<>> /\ got' = None /\ UNCHANGED <<q, sent>>

Next == Call \/ (\E v \in Vals : Push(v)) \/ PushFull \/ Pop \/ PopEmpty

Spec == Init /\ [][Next]_<<q, sent, got>>
=============================================================================
