-------------------------------- MODULE Terms --------------------------------
(***************************************************************************)
(* ygg-term: tagged words, the objects they point to, and the operations   *)
(* that copy, evacuate, measure and compare them.  A word is a pair of its *)
(* tag and its payload; a boxed word's payload is the address of a header. *)
(* An operation that allocates takes a heap and returns one, full once an  *)
(* allocation did not fit (HeapFull).                                      *)
(***************************************************************************)
EXTENDS Integers, Sequences, SequencesExt, TLC

CONSTANT WordBytes   \* bytes of a binary per word: 8

\* FoldLeft, in a form TLC evaluates fast.
RECURSIVE Fold(_, _, _)
Fold(op(_, _), base, s) == IF s = <<>> THEN base ELSE Fold(op, op(base, Head(s)), Tail(s))

Nil == <<"special", 0>>
Box(a) == <<"box", a>>
IsBoxed(t) == t[1] = "box"

\* The raw word of an immediate, by which maps are sorted: payload above the tag.
TagOf == [int |-> 1, atom |-> 2, pid |-> 3, ref |-> 4, special |-> 5, port |-> 6]
Raw(t) == t[2] * 8 + TagOf[t[1]]

\* A heap: the memory it is part of, where it starts, its words and its bump pointer.
NewHeap(m, base, cap) == [m |-> m, base |-> base, cap |-> cap, top |-> 0, full |-> FALSE]

Poke(h, a, w) == IF h.full THEN h ELSE [h EXCEPT !.m[a] = w]

\* Heap::alloc of an object's words, and their writing.
Put(h, ws) ==
  IF h.full \/ h.top + Len(ws) > h.cap
  THEN [h |-> [h EXCEPT !.full = TRUE], t |-> Nil]
  ELSE LET a == h.base + h.top IN
       [h |-> [h EXCEPT !.top = @ + Len(ws),
                        !.m = [x \in DOMAIN @ |-> IF x - a \in 0 .. Len(ws) - 1
                                                  THEN ws[x - a + 1] ELSE @[x]]],
        t |-> Box(a)]

-----------------------------------------------------------------------------
(* Objects: a header with a kind and a count, then fields. *)

DivCeil(a, b) == (a + b - 1) \div b

Words(hd) ==
  CASE hd[1] = "tuple" -> 1 + hd[2]
    [] hd[1] = "cons" -> 3
    [] hd[1] = "binary" -> 1 + DivCeil(hd[2], WordBytes)
    [] hd[1] = "map" -> 1 + 2 * hd[2]

\* The offsets of the fields that evacuate's scan traces: a map's values, not its
\* keys, which are immediates.
TermFields(hd) ==
  CASE hd[1] = "tuple" -> [j \in 1 .. hd[2] |-> j]
    [] hd[1] = "cons" -> <<1, 2>>
    [] hd[1] = "binary" -> <<>>
    [] hd[1] = "map" -> [j \in 1 .. hd[2] |-> hd[2] + j]

Object(m, a) == [j \in 1 .. Words(m[a]) |-> m[a + j - 1]]

TupleWords(elems) == <<<<"tuple", Len(elems)>>>> \o elems
ConsWords(head, tail) == <<<<"cons", 0>>, head, tail>>
BinaryWords(n, data) == <<<<"binary", n>>>> \o data

Before(x, y) == Raw(x[1]) < Raw(y[1]) \/ (Raw(x[1]) = Raw(y[1]) /\ x[3] < y[3])

Dedup(s, x) ==
  IF s # <<>> /\ Last(s)[1] = x[1] THEN Append(Front(s), x) ELSE Append(s, x)

\* Mutant: the keys are sorted and the values stay in place.
MapWords_Keys(pairs) ==
  LET numbered == [j \in DOMAIN pairs |-> Append(pairs[j], j)]
      kept == Fold(Dedup, <<>>, SortSeq(numbered, Before))
      n == Len(kept)
  IN  <<<<"map", n>>>> \o [j \in 1 .. n |-> kept[j][1]] \o [j \in 1 .. n |-> pairs[j][2]]

\* map_from_pairs: a stable sort by raw key, and the last of equal keys stays.
MapWords(pairs) ==
  LET numbered == [j \in DOMAIN pairs |-> Append(pairs[j], j)]
      kept == Fold(Dedup, <<>>, SortSeq(numbered, Before))
      n == Len(kept)
  IN  <<<<"map", n>>>> \o [j \in 1 .. n |-> kept[j][1]] \o [j \in 1 .. n |-> kept[j][2]]

PairsOf(m, t) == LET a == t[2] n == m[a][2] IN [j \in 1 .. n |-> <<m[a + j], m[a + n + j]>>]

\* map_put: the pairs of the map and the new one.
MapPutWords(m, t, key, val) == MapWords(Append(PairsOf(m, t), <<key, val>>))

\* map_get: binary search over the sorted keys, from lo below hi.
RECURSIVE MapSearch(_, _, _, _, _)
MapSearch(m, t, key, lo, hi) ==
  IF lo >= hi THEN <<"none", 0>>
  ELSE LET n == m[t[2]][2]
           mid == (lo + hi) \div 2
           k == m[t[2] + 1 + mid]
       IN  IF k = key THEN m[t[2] + 1 + n + mid]
           ELSE IF Raw(k) < Raw(key) THEN MapSearch(m, t, key, mid + 1, hi)
           ELSE MapSearch(m, t, key, lo, mid)
MapGet(m, t, key) == MapSearch(m, t, key, 0, m[t[2]][2])

-----------------------------------------------------------------------------
(* Copying. *)

\* copy_term: t, in memory m, into heap h.  A list's tail is copied before its
\* head, every other object before its fields.
RECURSIVE CopyTerm(_, _, _)
CopyTerm(t, m, h) ==
  IF ~IsBoxed(t) THEN [h |-> h, t |-> t]
  ELSE LET a == t[2] hd == m[a] IN
    IF hd[1] = "cons"
    THEN LET tail == CopyTerm(m[a + 2], m, h)
             head == CopyTerm(m[a + 1], m, tail.h)
         IN  Put(head.h, ConsWords(head.t, tail.t))
    ELSE LET new == Put(h, Object(m, a))
             field(g, j) == LET c == CopyTerm(m[a + j], m, g)
                            IN  Poke(c.h, new.t[2] + j, c.t)
         IN  [h |-> IF new.h.full THEN new.h ELSE Fold(field, new.h, TermFields(hd)),
              t |-> new.t]

\* term_size_words
RECURSIVE TermSize(_, _)
TermSize(t, m) ==
  IF ~IsBoxed(t) THEN 0
  ELSE LET add(n, j) == n + TermSize(m[t[2] + j], m)
       IN  Fold(add, Words(m[t[2]]), TermFields(m[t[2]]))

\* evac_one: copied once, and its old header forwards to the copy.
\* Mutant: it does not.
EvacOne_NoForward(t, h) ==
  IF ~IsBoxed(t) THEN [h |-> h, t |-> t]
  ELSE LET hd == h.m[t[2]] IN
    IF hd[1] = "fwd" THEN [h |-> h, t |-> Box(hd[2])] ELSE Put(h, Object(h.m, t[2]))

EvacOne(t, h) ==
  IF ~IsBoxed(t) THEN [h |-> h, t |-> t]
  ELSE LET hd == h.m[t[2]] IN
    IF hd[1] = "fwd" THEN [h |-> h, t |-> Box(hd[2])]
    ELSE LET new == Put(h, Object(h.m, t[2]))
         IN  [h |-> Poke(new.h, t[2], <<"fwd", new.t[2]>>), t |-> new.t]

\* Mutant: only the roots' own objects are copied.
EvacScan_None(h, scan) == h

\* The scan of what was copied, in the order of the copies.
RECURSIVE EvacScan(_, _)
EvacScan(h, scan) ==
  IF h.full \/ scan >= h.top THEN h
  ELSE LET a == h.base + scan
           hd == h.m[a]
           field(g, j) == LET e == EvacOne(g.m[a + j], g) IN Poke(e.h, a + j, e.t)
       IN  EvacScan(Fold(field, h, TermFields(hd)), scan + Words(hd))

\* evacuate: the roots, then what they reach.
Evacuate(roots, h) ==
  LET root(r, t) == LET e == EvacOne(t, r.h) IN [h |-> e.h, ts |-> Append(r.ts, e.t)]
      r == Fold(root, [h |-> h, ts |-> <<>>], roots)
  IN  [h |-> EvacScan(r.h, h.top), ts |-> r.ts]

-----------------------------------------------------------------------------
(* Meaning. *)

\* Mutant: two boxed terms are equal only when their pointers are.
Eq_Pointers(s, t, m) == s = t

\* eq: structural equality of two terms in memory m.
RECURSIVE Eq(_, _, _)
Eq(s, t, m) ==
  \/ s = t
  \/ /\ IsBoxed(s) /\ IsBoxed(t)
     /\ LET a == s[2] b == t[2] IN
        /\ m[a] = m[b]
        /\ \A j \in 1 .. Words(m[a]) - 1 :
             IF j \in ToSet(TermFields(m[a])) THEN Eq(m[a + j], m[b + j], m)
             ELSE m[a + j] = m[b + j]

\* The value a term stands for, whatever its layout and sharing.
RECURSIVE Denote(_, _)
Denote(t, m) ==
  IF ~IsBoxed(t) THEN t
  ELSE LET a == t[2] hd == m[a] n == hd[2] IN
    CASE hd[1] = "tuple" -> <<"tuple", [j \in 1 .. n |-> Denote(m[a + j], m)]>>
      [] hd[1] = "cons" -> <<"cons", Denote(m[a + 1], m), Denote(m[a + 2], m)>>
      [] hd[1] = "binary" -> <<"binary", Object(m, a)>>
      [] hd[1] = "map" ->
           <<"map", [k \in {m[a + j] : j \in 1 .. n} |->
                       Denote(m[a + n + (CHOOSE j \in 1 .. n : m[a + j] = k)], m)]>>

Kinds == {"tuple", "cons", "binary", "map"}

\* The addresses of the objects a term reaches.
RECURSIVE Reach(_, _)
Reach(t, m) ==
  IF ~IsBoxed(t) THEN {}
  ELSE IF m[t[2]][1] \notin Kinds THEN {t[2]}
  ELSE {t[2]} \cup UNION {Reach(m[t[2] + j], m) : j \in 1 .. Words(m[t[2]]) - 1}
=============================================================================
