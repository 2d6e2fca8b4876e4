-------------------------------- MODULE Ring ---------------------------------
(***************************************************************************)
(* The lock-free SPSC ring of crates/ygg-rings/src/lib.rs.  One producer   *)
(* and one consumer interleave at every access of a shared cell: the load  *)
(* of the other side's cursor, the access of the slot, the store of the    *)
(* own cursor.  A side's own cursor is only written by that side, so its   *)
(* load is part of the step that follows it.  The acquire and release      *)
(* orderings make the slot accesses take effect in program order.          *)
(*                                                                         *)
(* Cursors are unsigned words of Word values (2^32 in the code) that wrap. *)
(* The consumer is pump's: is_empty, then pop().unwrap(); or a plain pop.  *)
(***************************************************************************)
EXTENDS Integers, Sequences

CONSTANTS
  Vals,      \* the values of T
  Default,   \* T::default(), in every slot at first
  None,      \* no value
  N,         \* capacity; a power of two in the code
  Word       \* number of values of a cursor; 2^32 in the code

ASSUME SizeAssumption ==
  N \in Nat \ {0} /\ Word \in Nat /\ N < Word /\ Word % N = 0
ASSUME ValsAssumption == Default \in Vals /\ None \notin Vals

VARIABLES
  entries, head, tail,
  ppc, item,    \* producer: where it is in push(item)
  cpc, value,   \* consumer: where it is in pop, and the value it read
  sent, got     \* what the last push and the last pop returned

cell_vars == <<entries, head, tail>>
vars == <<cell_vars, ppc, item, cpc, value, sent, got>>

Cursors == 0 .. Word - 1

\* Mutant: the difference of the cursors does not wrap.
Used_Signed(t, h) == t - h

\* tail.wrapping_sub(head)
Used(t, h) == (t - h) % Word

Slot(i) == i % N

\* cursor.wrapping_add(1)
Succ(i) == (i + 1) % Word

Init ==
  /\ entries = [i \in 0 .. N - 1 |-> Default]
  /\ head = 0 /\ tail = 0
  /\ ppc = "idle" /\ item = None /\ cpc = "idle" /\ value = None
  /\ sent = "idle" /\ got = None

\* push: the caller has a value.
PushCall(v) ==
  /\ ppc = "idle"
  /\ ppc' = "check" /\ item' = v /\ sent' = "idle"
  /\ UNCHANGED <<cell_vars, cpc, value, got>>

\* Mutant: the check lets one entry too many in.
PushCheck_Late ==
  /\ ppc = "check"
  /\ IF Used(tail, head) > N
     THEN ppc' = "idle" /\ item' = None /\ sent' = "full"
     ELSE ppc' = "write" /\ UNCHANGED <<item, sent>>
  /\ UNCHANGED <<cell_vars, cpc, value, got>>

\* push: load head, return Full.
PushCheck ==
  /\ ppc = "check"
  /\ IF Used(tail, head) = N
     THEN ppc' = "idle" /\ item' = None /\ sent' = "full"
     ELSE ppc' = "write" /\ UNCHANGED <<item, sent>>
  /\ UNCHANGED <<cell_vars, cpc, value, got>>

PushWrite ==
  /\ ppc = "write"
  /\ entries' = [entries EXCEPT ![Slot(tail)] = item]
  /\ ppc' = "publish"
  /\ UNCHANGED <<head, tail, item, cpc, value, sent, got>>

PushPublish ==
  /\ ppc = "publish"
  /\ tail' = Succ(tail) /\ ppc' = "idle" /\ item' = None /\ sent' = "ok"
  /\ UNCHANGED <<entries, head, cpc, value, got>>

\* Mutant: the loop of pump tests the wrong end.
SeesEntry_NotFull ==
  /\ cpc = "idle" /\ Used(tail, head) # N
  /\ cpc' = "unwrap"
  /\ UNCHANGED <<cell_vars, ppc, item, value, sent, got>>

\* is_empty, when it returns false to the loop of pump.
SeesEntry ==
  /\ cpc = "idle" /\ Used(tail, head) # 0
  /\ cpc' = "unwrap"
  /\ UNCHANGED <<cell_vars, ppc, item, value, sent, got>>

\* pop: load tail, return None.  A pop() to be unwrapped panics on None.
PopCheck ==
  /\ cpc \in {"idle", "unwrap"}
  /\ IF head = tail
     THEN /\ cpc' = IF cpc = "unwrap" THEN "panic" ELSE "idle"
          /\ got' = None
     ELSE cpc' = "read" /\ UNCHANGED got
  /\ UNCHANGED <<cell_vars, ppc, item, value, sent>>

\* Mutant: the slot is given back before it is read.
PopRead_Late ==
  /\ cpc = "read"
  /\ value' = entries[Slot(head)] /\ cpc' = "advance"
  /\ head' = Succ(head)
  /\ UNCHANGED <<entries, tail, ppc, item, sent, got>>

PopRead ==
  /\ cpc = "read"
  /\ value' = entries[Slot(head)] /\ cpc' = "advance"
  /\ UNCHANGED <<cell_vars, ppc, item, sent, got>>

PopAdvance ==
  /\ cpc = "advance"
  /\ head' = Succ(head) /\ cpc' = "idle" /\ got' = value /\ value' = None
  /\ UNCHANGED <<entries, tail, ppc, item, sent>>

Next == \/ PopCheck \/ PopRead \/ PopAdvance \/ SeesEntry
        \/ \E v \in Vals : PushCall(v)
        \/ PushCheck \/ PushWrite \/ PushPublish

Spec == Init /\ [][Next]_vars

-----------------------------------------------------------------------------
\* Every cell and local has the type of the Rust value it stands for; the
\* cursors stay words (wrapping_add), and a push under way has its value.
TypeOK ==
  /\ entries \in [0 .. N - 1 -> Vals] /\ head \in Cursors /\ tail \in Cursors
  /\ ppc \in {"idle", "check", "write", "publish"} /\ item \in Vals \cup {None}
  /\ cpc \in {"idle", "unwrap", "read", "advance", "panic"} /\ value \in Vals \cup {None}
  /\ sent \in {"idle", "ok", "full"} /\ got \in Vals \cup {None}
  /\ ppc # "idle" => item \in Vals
  /\ cpc = "advance" => value \in Vals

\* push and pop never access the same slot at the same time: the slot the
\* producer is about to write, or has written and not yet published, is not the
\* one the consumer is about to read, also once the cursors have wrapped.
\* (The unsafe accesses of entries in push and pop.)
SlotsDisjoint ==
  ppc \in {"write", "publish"} /\ cpc \in {"read", "advance"} => Slot(tail) # Slot(head)

\* The consumer's is_empty stays true of the ring until it pops: no
\* pop().unwrap() of pump panics, whatever the producer does in between.
UnwrapSucceeds == cpc # "panic"

\* The entries from head to tail, oldest first.
Contents == [i \in 1 .. Used(tail, head) |-> entries[Slot(head + i - 1)]]

F == INSTANCE Fifo WITH q <- Contents

\* The ring is a FIFO queue of N entries: push and pop take effect at one
\* instant, nothing is lost, duplicated or reordered, push returns Full only
\* when N entries are in it and pop None only when none is.
IsFifo == F!Spec
=============================================================================
