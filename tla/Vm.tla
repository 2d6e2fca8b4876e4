---------------------------------- MODULE Vm ----------------------------------
(***************************************************************************)
(* What both engines compute with: terms as values, the heap quota, and    *)
(* the kernel around a process (mailbox, ports, buffers, spawning).  The   *)
(* layout of terms in memory is module Terms.  A word has IntBits + 3      *)
(* bits, three of them tag.                                                *)
(***************************************************************************)
EXTENDS Integers, Sequences, FiniteSets, SequencesExt

CONSTANTS
  IntBits,    \* bits of an integer term: 61
  HalfBits,   \* bits of the u32 an operation number is cast to
  MaxByte,    \* 255
  MaxBuf      \* bytes of the largest buffer: 64 MiB

WordBits == IntBits + 3

Signed(v, bits) == LET m == v % 2^bits IN IF m >= 2^(bits - 1) THEN m - 2^bits ELSE m
Unsigned(v, bits) == v % 2^bits

\* Term::int, which drops the bits above the tag's room in a release build.
IntTerm(v) == <<"int", Signed(v, IntBits)>>
Bool(b) == IntTerm(IF b THEN 1 ELSE 0)
Nil == <<"nil", 0>>
Pid(p) == <<"pid", p>>
Sentinel == <<"tail", 7>>
IsInt(t) == t[1] = "int"
AllInt(ts) == \A k \in DOMAIN ts : IsInt(ts[k])
IsBoxed(t) == t[1] \in {"tuple", "cons", "binary", "map"}
IsBin(t) == t[1] = "binary"
IsMap(t) == t[1] = "map"

RECURSIVE Items(_)
Items(t) == IF t[1] = "cons" THEN <<t[2]>> \o Items(t[3]) ELSE <<>>
RECURSIVE End(_)
End(t) == IF t[1] = "cons" THEN End(t[3]) ELSE t
RECURSIVE List(_, _)
List(s, end) == IF s = <<>> THEN end ELSE <<"cons", Head(s), List(Tail(s), end)>>

-----------------------------------------------------------------------------
(* What an operation comes to: a value and a world, or a reason to end. *)

Ok(v, w) == [why |-> "", v |-> v, w |-> w]
Trap(why, w) == [why |-> why, v |-> Nil, w |-> w]
Exit(atom, w) == [why |-> "exit", v |-> atom, w |-> w]
Check(c, v, w) == IF c THEN Ok(v, w) ELSE Trap("badarg", w)

\* An allocation of n words: the heap grows up to its quota.
Alloc(v, n, w) ==
  IF n <= w.room THEN Ok(v, [w EXCEPT !.room = @ - n]) ELSE Trap("heap quota exceeded", w)

NewTuple(s, w) == Alloc(<<"tuple", s>>, 1 + Len(s), w)
NewCons(h, t, w) == Alloc(<<"cons", h, t>>, 3, w)
NewBin(s, w) == Alloc(<<"binary", s>>, 1 + (Len(s) + 7) \div 8, w)
NewList(s, end, w) == Alloc(List(s, end), 3 * Len(s), w)

\* map_from_pairs: keys are immediates, and the last of equal keys stays.
NewMap(pairs, w) ==
  LET keys == {pairs[k][1] : k \in DOMAIN pairs}
      last(key) == CHOOSE k \in DOMAIN pairs : /\ pairs[k][1] = key
                                               /\ \A j \in DOMAIN pairs : pairs[j][1] = key => j <= k
  IN  IF \E key \in keys : IsBoxed(key) THEN Trap("badarg", w)
      ELSE Alloc(<<"map", [key \in keys |-> pairs[last(key)][2]]>>, 1 + 2 * Cardinality(keys), w)

\* map_put, on the pairs of a map in any order.
PutMap(m, key, v, w) ==
  LET keys == SetToSeq(DOMAIN m[2]) IN
  NewMap([k \in 1 .. Len(keys) + 1 |-> IF k <= Len(keys) THEN <<keys[k], m[2][keys[k]]>> ELSE <<key, v>>], w)

-----------------------------------------------------------------------------
(* The kernel.  A world is the words left in the heap's quota, the messages *)
(* that wait, the open ports, the buffers (Gone where one was taken) and    *)
(* what was done so far.                                                    *)

Gone == <<-1>>
Self == 1
Did(w, what) == [w EXCEPT !.log = Append(@, what)]

ProcSend(to, msg, w) == Ok(Nil, Did(w, <<"send", to, msg>>))
ProcRecv(w) == IF w.inbox = <<>> THEN Trap("blocked", w) ELSE Ok(Head(w.inbox), [w EXCEPT !.inbox = Tail(@)])
SpawnFn(m, fn, arg, w) == Ok(Pid(Self + 1 + Len(w.log)), Did(w, <<"spawn", m, fn, arg>>))
SleepFor(ms, w) == Ok(Nil, Did(w, <<"sleep", ms>>))

\* ports::open for kinds that have a device, and submit to an open port.
PortOpen(kind, w) ==
  IF kind \in w.devices THEN Ok(<<"port", w.ports + 1>>, [w EXCEPT !.ports = @ + 1]) ELSE Trap("badarg", w)
Submit(id, sqe, w) == IF id \in 1 .. w.ports THEN Ok(Nil, Did(w, <<"sqe", id, sqe>>)) ELSE Trap("badarg", w)

\* The buffer store; an id is an integer seen as unsigned.
Buf(id, w) == LET k == Unsigned(id, WordBits) IN
  IF k \in DOMAIN w.bufs THEN w.bufs[k] ELSE Gone
BufCreate(s, w) == Ok(IntTerm(Len(w.bufs) + 1), [w EXCEPT !.bufs = Append(@, s)])
BufTake(id, w) == IF Buf(id, w) = Gone THEN Trap("badarg", w)
                  ELSE NewBin(Buf(id, w), [w EXCEPT !.bufs[id] = Gone])
BufWrite(id, off, s, w) ==
  LET b == Buf(id, w) IN
  IF b = Gone \/ off + Len(s) > Len(b) THEN Trap("badarg", w)
  ELSE Ok(IntTerm(0), [w EXCEPT !.bufs[id] = [k \in DOMAIN @ |-> IF k - off \in DOMAIN s THEN s[k - off] ELSE @[k]]])
BufRead(id, off, len, w) ==
  LET b == Buf(id, w) IN
  IF b = Gone \/ off + len > Len(b) THEN Trap("badarg", w)
  ELSE NewBin(SubSeq(b, off + 1, off + len), w)
=============================================================================
