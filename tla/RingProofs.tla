------------------------------ MODULE RingProofs -----------------------------
(***************************************************************************)
(* The ring is a FIFO queue for every capacity and every cursor width the  *)
(* capacity divides: the cursors may wrap any number of times.             *)
(***************************************************************************)
EXTENDS Ring, TLAPS

-----------------------------------------------------------------------------
(* Remainders. *)

\* A remainder is in range and comes with a quotient.
LEMMA ModRange ==
  ASSUME NEW n \in Nat \ {0}, NEW a \in Int
  PROVE  a % n \in 0 .. n - 1 /\ a \div n \in Int /\ a = n * (a \div n) + (a % n)
OBVIOUS

\* A remainder in range is the remainder.
LEMMA ModUnique ==
  ASSUME NEW n \in Nat \ {0}, NEW k \in Int, NEW r \in 0 .. n - 1
  PROVE  (n * k + r) % n = r
OBVIOUS

\* Numbers less than n apart have different remainders.
LEMMA ModDistinct ==
  ASSUME NEW n \in Nat \ {0}, NEW a \in Int, NEW d \in 1 .. n - 1
  PROVE  a % n # (a + d) % n
<1> SUFFICES ASSUME a % n = (a + d) % n PROVE FALSE
  OBVIOUS
<1>1. PICK r \in Int : r = a % n /\ r = (a + d) % n
  <2>1. a % n \in Int
    BY ModRange
  <2>2. QED
    BY <2>1
<1>2. PICK k \in Int : a = n * k + r
  BY <1>1, ModRange, Zenon
<1>3. PICK l \in Int : a + d = n * l + r
  <2>1. a + d \in Int
    OBVIOUS
  <2>2. QED
    BY <1>1, <2>1, ModRange, Zenon
<1>4. d = n * (l - k)
  BY <1>2, <1>3
<1>5. l - k > 0 => n * (l - k) >= n
  OBVIOUS
<1>6. l - k <= 0 => n * (l - k) <= 0
  OBVIOUS
<1>7. QED
  BY <1>4, <1>5, <1>6

-----------------------------------------------------------------------------
(* wrapping_sub, wrapping_add and the index into entries. *)

\* wrapping_sub, by cases.
LEMMA UsedCases ==
  ASSUME NEW t \in Cursors, NEW h \in Cursors
  PROVE  Used(t, h) = IF h <= t THEN t - h ELSE t - h + Word
<1> USE SizeAssumption
<1>1. CASE h <= t
  <2>1. (Word * 0 + (t - h)) % Word = t - h
    BY <1>1, ModUnique DEF Cursors
  <2>2. QED
    BY <1>1, <2>1 DEF Used, Cursors
<1>2. CASE h > t
  <2>1. t - h + Word \in 0 .. Word - 1
    BY <1>2 DEF Cursors
  <2>2. (Word * (-1) + (t - h + Word)) % Word = t - h + Word
    BY <2>1, ModUnique
  <2>3. Word * (-1) + (t - h + Word) = t - h
    BY DEF Cursors
  <2>4. QED
    BY <1>2, <2>2, <2>3 DEF Used, Cursors
<1>3. QED
  BY <1>1, <1>2 DEF Cursors

\* wrapping_add, by cases.
LEMMA SuccCases ==
  ASSUME NEW i \in Cursors
  PROVE  Succ(i) = (IF i = Word - 1 THEN 0 ELSE i + 1) /\ Succ(i) \in Cursors
<1> USE SizeAssumption
<1>1. CASE i = Word - 1
  <2>1. (Word * 1 + 0) % Word = 0
    BY ModUnique
  <2>2. QED
    BY <1>1, <2>1 DEF Succ, Cursors
<1>2. CASE i # Word - 1
  <2>1. (Word * 0 + (i + 1)) % Word = i + 1
    BY <1>2, ModUnique DEF Cursors
  <2>2. QED
    BY <1>2, <2>1 DEF Succ, Cursors
<1>3. QED
  BY <1>1, <1>2

\* The producer's store of tail makes the ring one longer.
LEMMA UsedGrows ==
  ASSUME NEW t \in Cursors, NEW h \in Cursors, Used(t, h) < N
  PROVE  Used(Succ(t), h) = Used(t, h) + 1
<1>1. PICK s \in Cursors : s = Succ(t) /\ s = IF t = Word - 1 THEN 0 ELSE t + 1
  BY SuccCases, Zenon
<1>2. Used(t, h) = IF h <= t THEN t - h ELSE t - h + Word
  BY UsedCases
<1>3. Used(s, h) = IF h <= s THEN s - h ELSE s - h + Word
  BY UsedCases
<1>4. QED
  BY <1>1, <1>2, <1>3, SizeAssumption DEF Cursors

\* The consumer's store of head makes it one shorter.
LEMMA UsedShrinks ==
  ASSUME NEW t \in Cursors, NEW h \in Cursors, Used(t, h) > 0
  PROVE  Used(t, Succ(h)) = Used(t, h) - 1
<1>1. PICK s \in Cursors : s = Succ(h) /\ s = IF h = Word - 1 THEN 0 ELSE h + 1
  BY SuccCases, Zenon
<1>2. Used(t, h) = IF h <= t THEN t - h ELSE t - h + Word
  BY UsedCases
<1>3. Used(t, s) = IF s <= t THEN t - s ELSE t - s + Word
  BY UsedCases
<1>4. QED
  BY <1>1, <1>2, <1>3, SizeAssumption DEF Cursors

\* A turn of the cursor does not move a slot, because N divides Word.
LEMMA SlotTurn ==
  ASSUME NEW i \in Int
  PROVE  Slot(i + Word) = Slot(i) /\ Slot(i) \in 0 .. N - 1
<1> USE SizeAssumption
<1>1. PICK r \in 0 .. N - 1 : r = i % N
  BY ModRange, Zenon
<1>2. PICK k \in Int : i = N * k + r
  BY <1>1, ModRange, Zenon
<1>3. PICK l \in Int : Word = N * l
  BY ModRange
<1>4. i + Word = N * (k + l) + r
  BY <1>2, <1>3
<1>5. (N * (k + l) + r) % N = r
  BY ModUnique
<1>6. QED
  BY <1>1, <1>4, <1>5 DEF Slot

LEMMA SlotSucc ==
  ASSUME NEW h \in Cursors, NEW i \in Int
  PROVE  Slot(Succ(h) + i) = Slot(h + 1 + i)
<1>1. CASE h = Word - 1
  <2>1. h + 1 + i = i + Word /\ Succ(h) + i = i
    BY <1>1, SuccCases, SizeAssumption
  <2>2. QED
    BY <2>1, SlotTurn
<1>2. CASE h # Word - 1
  BY <1>2, SuccCases DEF Cursors
<1>3. QED
  BY <1>1, <1>2

\* tail is Used entries after head.
LEMMA SlotTail ==
  ASSUME NEW t \in Cursors, NEW h \in Cursors
  PROVE  Slot(h + Used(t, h)) = Slot(t)
<1>1. h + Used(t, h) = t \/ h + Used(t, h) = t + Word
  BY UsedCases, SizeAssumption DEF Cursors
<1>2. t \in Int
  BY DEF Cursors
<1>3. QED
  BY <1>1, <1>2, SlotTurn

-----------------------------------------------------------------------------
(* The invariant. *)

\* How full the ring is, as far as each side has found out, and what the slots
\* at the cursors hold between the accesses of push and of pop.
Inv ==
  /\ TypeOK
  /\ Used(tail, head) \in 0 .. N
  /\ ppc \in {"write", "publish"} => Used(tail, head) < N
  /\ ppc = "publish" => entries[Slot(tail)] = item
  /\ cpc \in {"unwrap", "read", "advance"} => Used(tail, head) > 0
  /\ cpc = "advance" => value = entries[Slot(head)]
  /\ cpc # "panic"

\* Two slots at most N - 1 entries apart differ.
LEMMA SlotsDiffer ==
  ASSUME NEW i \in Int, NEW d \in 1 .. N - 1
  PROVE  Slot(i) # Slot(i + d)
BY ModDistinct, SizeAssumption, Zenon DEF Slot

\* The producer's slot is none of those in use.
LEMMA TailIsFree ==
  ASSUME NEW t \in Cursors, NEW h \in Cursors, Used(t, h) \in 0 .. N - 1, NEW i \in 1 .. Used(t, h)
  PROVE  Slot(h + i - 1) # Slot(t)
<1>1. PICK u \in 0 .. N - 1 : u = Used(t, h)
  OBVIOUS
<1>2. PICK d \in 1 .. N - 1 : h + u = (h + i - 1) + d
  <2>1. u - i + 1 \in 1 .. N - 1 /\ h + u = (h + i - 1) + (u - i + 1)
    BY <1>1, SizeAssumption DEF Cursors
  <2>2. QED
    BY <2>1
<1>3. h + i - 1 \in Int
  BY <1>1 DEF Cursors
<1>4. Slot(h + i - 1) # Slot(h + u)
  BY <1>2, <1>3, SlotsDiffer
<1>5. QED
  BY <1>1, <1>4, SlotTail

LEMMA InvInit == Init => Inv
<1> SUFFICES ASSUME Init PROVE Inv
  OBVIOUS
<1>1. TypeOK
  BY SizeAssumption, ValsAssumption DEF Init, TypeOK, Cursors
<1>2. Used(tail, head) = 0
  BY <1>1, UsedCases, SMTT(30) DEF Init, TypeOK
<1>3. QED
  BY <1>1, <1>2, SizeAssumption DEF Init, Inv

\* Each step of push and of pop keeps the invariant.
LEMMA InvNext == Inv /\ [Next]_vars => Inv'
<1> SUFFICES ASSUME Inv, [Next]_vars PROVE Inv'
  OBVIOUS
<1> USE SizeAssumption, ValsAssumption DEF Inv, TypeOK
<1>0. /\ head \in Cursors /\ tail \in Cursors /\ Slot(tail) \in 0 .. N - 1
      /\ Slot(head) \in 0 .. N - 1
  BY SlotTurn DEF Cursors
<1>1. ASSUME NEW v \in Vals, PushCall(v) PROVE Inv'
  BY <1>1 DEF PushCall, cell_vars
<1>2. CASE PushCheck
  BY <1>2 DEF PushCheck, cell_vars
<1>3. CASE PushWrite
  <2>1. /\ entries' \in [0 .. N - 1 -> Vals] /\ entries'[Slot(tail)] = item
        /\ \A j \in 0 .. N - 1 : j # Slot(tail) => entries'[j] = entries[j]
    BY <1>0, <1>3 DEF PushWrite
  <2>2. cpc = "advance" => Slot(head) # Slot(tail)
    <3>1. SUFFICES ASSUME cpc = "advance" PROVE Slot(head) # Slot(tail)
      OBVIOUS
    <3>2. 1 \in 1 .. Used(tail, head) /\ Used(tail, head) \in 0 .. N - 1 /\ head + 1 - 1 = head
      BY <1>0, <1>3, <3>1 DEF PushWrite, Cursors
    <3>3. QED
      BY <1>0, <3>2, TailIsFree
  <2>3. QED
    BY <1>0, <1>3, <2>1, <2>2 DEF PushWrite
<1>4. CASE PushPublish
  <2>1. tail' \in Cursors /\ Used(tail', head) = Used(tail, head) + 1
    BY <1>0, <1>4, SuccCases, UsedGrows DEF PushPublish
  <2>2. QED
    BY <1>4, <2>1 DEF PushPublish
<1>5. CASE SeesEntry
  BY <1>5 DEF SeesEntry, cell_vars
<1>6. CASE PopCheck
  <2>1. Used(tail, head) = IF head <= tail THEN tail - head ELSE tail - head + Word
    BY <1>0, UsedCases
  <2>2. (head # tail => Used(tail, head) > 0) /\ (head = tail => Used(tail, head) = 0)
    BY <1>0, <2>1 DEF Cursors
  <2>3. QED
    BY <1>6, <2>2 DEF PopCheck, cell_vars
<1>7. CASE PopRead
  BY <1>0, <1>7 DEF PopRead, cell_vars
<1>8. CASE PopAdvance
  <2>1. head' \in Cursors /\ Used(tail, head') = Used(tail, head) - 1
    BY <1>0, <1>8, SuccCases, UsedShrinks DEF PopAdvance
  <2>2. QED
    BY <1>8, <2>1 DEF PopAdvance
<1>9. CASE UNCHANGED vars
  BY <1>9 DEF vars, cell_vars
<1>10. QED
  BY <1>1, <1>2, <1>3, <1>4, <1>5, <1>6, <1>7, <1>8, <1>9 DEF Next

\* push and pop are never at the same slot, and pump's unwrap never panics.
LEMMA InvImplies == Inv => SlotsDisjoint /\ UnwrapSucceeds
<1> SUFFICES ASSUME Inv, ppc \in {"write", "publish"}, cpc \in {"read", "advance"}
             PROVE  Slot(tail) # Slot(head)
  BY DEF Inv, SlotsDisjoint, UnwrapSucceeds
<1>1. 1 \in 1 .. Used(tail, head) /\ Used(tail, head) \in 0 .. N - 1
  BY SizeAssumption DEF Inv
<1>2. head \in Cursors /\ tail \in Cursors /\ head + 1 - 1 = head
  BY DEF Inv, TypeOK, Cursors
<1>3. QED
  BY <1>1, <1>2, TailIsFree

-----------------------------------------------------------------------------
(* The ring implements the queue. *)

\* Append and Tail, entry by entry.
LEMMA AppendIs ==
  ASSUME NEW S, NEW s \in Seq(S), NEW x \in S
  PROVE  Append(s, x) = [i \in 1 .. Len(s) + 1 |-> IF i <= Len(s) THEN s[i] ELSE x]
<1>1. PICK t \in Seq(S) : t = Append(s, x)
  <2>1. Append(s, x) \in Seq(S)
    OBVIOUS
  <2>2. QED
    BY <2>1, Zenon
<1>2. Len(t) = Len(s) + 1 /\ \A i \in 1 .. Len(s) + 1 : t[i] = IF i <= Len(s) THEN s[i] ELSE x
  BY <1>1
<1>3. t = [i \in 1 .. Len(t) |-> t[i]]
  OBVIOUS
<1>4. QED
  BY <1>1, <1>2, <1>3, Zenon

LEMMA TailIs ==
  ASSUME NEW S, NEW s \in Seq(S), Len(s) > 0
  PROVE  Tail(s) = [i \in 1 .. Len(s) - 1 |-> s[i + 1]]
<1>1. PICK t \in Seq(S) : t = Tail(s)
  <2>1. Tail(s) \in Seq(S)
    OBVIOUS
  <2>2. QED
    BY <2>1, Zenon
<1>2. Len(t) = Len(s) - 1 /\ \A i \in 1 .. Len(s) - 1 : t[i] = s[i + 1]
  BY <1>1
<1>3. t = [i \in 1 .. Len(t) |-> t[i]]
  OBVIOUS
<1>4. QED
  BY <1>1, <1>2, <1>3, Zenon

\* The contents are Used(tail, head) values.
LEMMA ContentsType ==
  ASSUME Inv
  PROVE  /\ Contents \in Seq(Vals) /\ Len(Contents) = Used(tail, head)
         /\ \A i \in 1 .. Used(tail, head) : Contents[i] = entries[Slot(head + i - 1)]
<1>1. \A i \in 1 .. Used(tail, head) : entries[Slot(head + i - 1)] \in Vals
  <2>1. SUFFICES ASSUME NEW i \in 1 .. Used(tail, head) PROVE entries[Slot(head + i - 1)] \in Vals
    OBVIOUS
  <2>2. head + i - 1 \in Int
    BY DEF Inv, TypeOK, Cursors
  <2>3. QED
    BY <2>2, SlotTurn DEF Inv, TypeOK
<1>2. Used(tail, head) \in Nat
  BY SizeAssumption DEF Inv
<1>3. QED
  BY <1>1, <1>2 DEF Contents

\* PushWrite touches no entry of the queue.
LEMMA WriteKeeps == Inv /\ PushWrite => UNCHANGED Contents
<1> SUFFICES ASSUME Inv, PushWrite PROVE Contents' = Contents
  OBVIOUS
<1>1. head \in Cursors /\ tail \in Cursors /\ Used(tail, head) \in 0 .. N - 1
  BY SizeAssumption DEF Inv, TypeOK, PushWrite
<1>2. ASSUME NEW i \in 1 .. Used(tail, head)
      PROVE  entries'[Slot(head + i - 1)] = entries[Slot(head + i - 1)]
  <2>1. Slot(head + i - 1) # Slot(tail)
    BY <1>1, TailIsFree
  <2>2. QED
    BY <2>1 DEF PushWrite, Inv, TypeOK
<1>3. head' = head /\ tail' = tail
  BY DEF PushWrite
<1>4. QED
  BY <1>2, <1>3 DEF Contents

\* PushPublish appends the item.
LEMMA PublishAppends == Inv /\ PushPublish => F!Push(item)
<1> SUFFICES ASSUME Inv, PushPublish PROVE F!Push(item)
  OBVIOUS
<1>1. head \in Cursors /\ tail \in Cursors /\ item \in Vals /\ Inv'
  BY InvNext DEF Inv, TypeOK, PushPublish, Next
<1>2. PICK u \in 0 .. N - 1 : u = Used(tail, head)
  BY SizeAssumption DEF Inv, PushPublish
<1>3. Used(tail', head') = u + 1
  <2>1. Used(tail, head) < N
    BY <1>2, SizeAssumption
  <2>2. Used(Succ(tail), head) = Used(tail, head) + 1
    BY <1>1, <2>1, UsedGrows
  <2>3. QED
    BY <1>2, <2>2 DEF PushPublish
<1>4. /\ Len(Contents) = u /\ Contents \in Seq(Vals)
      /\ \A i \in 1 .. u : Contents[i] = entries[Slot(head + i - 1)]
  BY <1>2, ContentsType
<1>5. Contents' = [i \in 1 .. u + 1 |-> entries[Slot(head + i - 1)]]
  BY <1>3 DEF Contents, PushPublish
<1>6. entries[Slot(head + (u + 1) - 1)] = item
  <2>1. head + (u + 1) - 1 = head + u
    BY <1>1 DEF Cursors
  <2>2. QED
    BY <1>1, <1>2, <2>1, SlotTail DEF Inv, PushPublish
<1>7. Contents' = Append(Contents, item)
  <2>1. \A i \in 1 .. u + 1 : Contents'[i] = IF i <= u THEN Contents[i] ELSE item
    BY <1>4, <1>5, <1>6
  <2>2. Contents' = [i \in 1 .. Len(Contents) + 1 |-> IF i <= Len(Contents) THEN Contents[i] ELSE item]
    BY <1>4, <1>5, <2>1
  <2>3. Contents \in Seq(Vals) /\ item \in Vals
    BY <1>1, <1>4
  <2>4. QED
    <3>1. Append(Contents, item)
            = [i \in 1 .. Len(Contents) + 1 |-> IF i <= Len(Contents) THEN Contents[i] ELSE item]
      BY <2>3, AppendIs
    <3>2. QED
      BY <2>2, <3>1
<1>8. Len(Contents) < N
  BY <1>2, <1>4, SizeAssumption
<1>9. QED
  BY <1>7, <1>8 DEF F!Push, PushPublish

\* PopAdvance removes the oldest entry and returns it.
LEMMA AdvancePops == Inv /\ PopAdvance => F!Pop
<1> SUFFICES ASSUME Inv, PopAdvance PROVE F!Pop
  OBVIOUS
<1>1. head \in Cursors /\ tail \in Cursors
  BY DEF Inv, TypeOK
<1>2. PICK u \in 1 .. N : u = Used(tail, head)
  BY SizeAssumption DEF Inv, PopAdvance
<1>3. Used(tail', head') = u - 1
  BY <1>1, <1>2, UsedShrinks DEF PopAdvance
<1>4. /\ Len(Contents) = u /\ Contents \in Seq(Vals)
      /\ \A i \in 1 .. u : Contents[i] = entries[Slot(head + i - 1)]
  BY <1>2, ContentsType
<1>5. Contents' = [i \in 1 .. u - 1 |-> entries[Slot(Succ(head) + i - 1)]]
  BY <1>3 DEF Contents, PopAdvance
<1>6. ASSUME NEW i \in 1 .. u - 1 PROVE Slot(Succ(head) + i - 1) = Slot(head + (i + 1) - 1)
  <2>1. /\ Succ(head) + i - 1 = Succ(head) + (i - 1) /\ head + (i + 1) - 1 = head + 1 + (i - 1)
        /\ i - 1 \in Int
    BY <1>1, SuccCases DEF Cursors
  <2>2. Slot(Succ(head) + (i - 1)) = Slot(head + 1 + (i - 1))
    BY <1>1, <2>1, SlotSucc
  <2>3. QED
    BY <2>1, <2>2
<1>7. Tail(Contents) = [i \in 1 .. u - 1 |-> Contents[i + 1]]
  <2>1. Len(Contents) > 0
    BY <1>2, <1>4
  <2>2. QED
    BY <1>4, <2>1, TailIs, Zenon
<1>8. \A i \in 1 .. u - 1 : Contents[i + 1] = entries[Slot(head + (i + 1) - 1)]
  BY <1>2, <1>4
<1>9. Contents' = Tail(Contents)
  BY <1>5, <1>6, <1>7, <1>8, Zenon
<1>10. Contents # <<>> /\ Head(Contents) = value
  <2>1. head + 1 - 1 = head
    BY <1>1 DEF Cursors
  <2>2. Contents[1] = entries[Slot(head)]
    BY <1>2, <1>4, <2>1
  <2>3. QED
    BY <1>2, <1>4, <2>2 DEF Inv, PopAdvance
<1>11. QED
  BY <1>9, <1>10 DEF F!Pop, PopAdvance

LEMMA StepRefines == Inv /\ [Next]_vars => [F!Next]_<<Contents, sent, got>>
<1> SUFFICES ASSUME Inv, [Next]_vars PROVE [F!Next]_<<Contents, sent, got>>
  OBVIOUS
<1>0. cell_vars' = cell_vars => Contents' = Contents
  BY DEF cell_vars, Contents
<1>1. ASSUME NEW v \in Vals, PushCall(v) PROVE F!Next
  BY <1>0, <1>1 DEF PushCall, F!Next, F!Call
<1>2. CASE PushCheck
  BY <1>0, <1>2, ContentsType DEF PushCheck, F!Next, F!PushFull
<1>3. CASE PushWrite
  BY <1>3, WriteKeeps DEF PushWrite
<1>4. CASE PushPublish
  <2>1. item \in Vals
    BY <1>4 DEF PushPublish, Inv, TypeOK
  <2>2. QED
    BY <1>4, <2>1, PublishAppends DEF F!Next
<1>5. CASE SeesEntry
  BY <1>0, <1>5 DEF SeesEntry
<1>6. CASE PopCheck
  <2>1. head = tail => Contents = <<>>
    <3>1. head = tail => Used(tail, head) = 0
      BY UsedCases DEF Inv, TypeOK, Cursors
    <3>2. QED
      BY <3>1, ContentsType
  <2>2. QED
    BY <1>0, <1>6, <2>1 DEF PopCheck, F!Next, F!PopEmpty
<1>7. CASE PopRead
  BY <1>0, <1>7 DEF PopRead
<1>8. CASE PopAdvance
  BY <1>8, AdvancePops DEF F!Next
<1>9. CASE UNCHANGED vars
  BY <1>0, <1>9 DEF vars
<1>10. QED
  BY <1>1, <1>2, <1>3, <1>4, <1>5, <1>6, <1>7, <1>8, <1>9 DEF Next

-----------------------------------------------------------------------------
\* push and pop of Ring never touch the same slot at the same time.
THEOREM NoSlotRace == Spec => []SlotsDisjoint
<1>1. QED
  BY InvInit, InvNext, InvImplies, PTL DEF Spec

\* The pop().unwrap() that pump does after is_empty never panics.
THEOREM UnwrapNeverPanics == Spec => []UnwrapSucceeds
<1>1. QED
  BY InvInit, InvNext, InvImplies, PTL DEF Spec

\* Ring implements an atomic FIFO queue of N entries.
THEOREM RingIsFifo == Spec => IsFifo
<1>1. Init => F!Init
  <2>1. SUFFICES ASSUME Init PROVE F!Init
    OBVIOUS
  <2>2. Inv
    BY <2>1, InvInit, SMTT(30)
  <2>3. Len(Contents) = 0
    BY <2>1, <2>2, ContentsType, UsedCases DEF Init, Inv, TypeOK
  <2>4. Contents = <<>>
    BY <2>2, <2>3, ContentsType
  <2>5. QED
    BY <2>1, <2>4 DEF Init, F!Init
<1>2. QED
  BY <1>1, InvInit, InvNext, StepRefines, PTL DEF Spec, IsFifo, F!Spec

=============================================================================
