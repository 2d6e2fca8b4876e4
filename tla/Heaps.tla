-------------------------------- MODULE Heaps --------------------------------
(***************************************************************************)
(* Process heaps: ProcHeap of kernel/src/proc.rs over the frame allocator, *)
(* with the terms of ygg-term in them.  A heap is a chain of spans; it     *)
(* grows without moving up to its quota, and a tail call to the outermost  *)
(* trampoline may compact it into a new span.  Messages travel in          *)
(* fragments.  The registers of a process are its roots.                   *)
(***************************************************************************)
EXTENDS Terms, FiniteSets

CONSTANTS
  Procs,
  NRegs,         \* registers of a process
  Arg,           \* the immediate a process is spawned with
  KeyPairs,      \* the keys of the maps that are built, in the order given
  Blobs,         \* binaries that are built, as their words
  NFrames,       \* frames of memory
  PageWords,     \* words of a page: 512
  InitialPages,  \* 16
  MaxPages,      \* a heap's quota
  MinCompact,    \* pages of the smallest compaction target: 4
  Slack,         \* added to the live estimate: 32
  Operands,      \* the pairs of registers that instructions combine
  MaxMail,       \* bound on a mailbox
  MaxOps         \* bound on the operations of all processes

Regs == 1 .. NRegs
Addrs == 0 .. NFrames * PageWords - 1
Junk == <<"junk", 0>>
Keys == UNION {ToSet(kk) : kk \in KeyPairs}

\* The smallest target is within the quota: clamp panics otherwise.
ASSUME HeapAssumption == MinCompact <= MaxPages /\ InitialPages >= 1

VARIABLES
  alive,
  regs,     \* terms
  mail,     \* fragments: a memory of their own and a root
  spans,    \* per process, <<first frame, pages>>, newest last
  cur,      \* the newest span's base, capacity and top, in words
  mem,
  freeset,  \* free frames
  tofree,   \* spans on their way back to the allocator
  panic,    \* an expect of the kernel failed
  ops       \* bounded work so far

vars == <<alive, regs, mail, spans, cur, mem, freeset, tofree, panic, ops>>

\* alloc_contig, as the frame allocator promises it.
FF == INSTANCE FreeFrames WITH up <- TRUE, held <- {}, call <- 0, ret <- 0, Boot <- {},
        Sizes <- {}, Aligns <- {}, None <- 0, NoCall <- 0

Contig(F, n) == FF!Fits(F, n, 1)
Lowest(S) == CHOOSE b \in S : FF!IsLowest(b, S)

NoSpan == [base |-> 0, cap |-> 0, top |-> 0]
Fresh == [r \in Regs |-> IF r = 1 THEN Arg ELSE Nil]

Init ==
  /\ alive = [p \in Procs |-> FALSE] /\ regs = [p \in Procs |-> Fresh]
  /\ mail = [p \in Procs |-> <<>>] /\ spans = [p \in Procs |-> <<>>]
  /\ cur = [p \in Procs |-> NoSpan] /\ mem = [a \in Addrs |-> Junk]
  /\ freeset = 0 .. NFrames - 1 /\ tofree = {} /\ panic = "none" /\ ops = 0

-----------------------------------------------------------------------------
(* ProcHeap.  A heap under construction is [spans, cur, F, m]: the process's *)
(* spans and newest span, the free frames, and the memory.                   *)

Total(ss) == Fold(LAMBDA n, s : n + s[2], 0, ss)

NewSpan(b, n) == [base |-> b * PageWords, cap |-> n * PageWords, top |-> 0]

HeapOf(p) == [spans |-> spans[p], cur |-> cur[p], F |-> freeset, m |-> mem]

\* As a heap that terms are put into, and back.
Arena(H) == [m |-> H.m, base |-> H.cur.base, cap |-> H.cur.cap, top |-> H.cur.top, full |-> FALSE]
Filled(H, h) == [H EXCEPT !.m = h.m, !.cur.top = h.top]

MinOf(a, b) == IF a < b THEN a ELSE b
MaxOf(a, b) == IF a > b THEN a ELSE b

\* Doubling, clamped to the quota.
NextSpan(H) == MinOf(Total(H.spans), MaxPages - Total(H.spans))

CanGrow(H) == Total(H.spans) < MaxPages /\ Contig(H.F, NextSpan(H)) # {}

\* Mutant: the chain of spans is replaced by the new one.
Grow_Replace(H) ==
  LET n == NextSpan(H)
      b == Lowest(Contig(H.F, n))
  IN  [H EXCEPT !.spans = <<<<b, n>>>>, !.cur = NewSpan(b, n), !.F = @ \ FF!Run(b, n)]

Grow(H) ==
  LET n == NextSpan(H)
      b == Lowest(Contig(H.F, n))
  IN  [H EXCEPT !.spans = Append(@, <<b, n>>), !.cur = NewSpan(b, n),
                !.F = @ \ FF!Run(b, n)]

\* alloc_retry: allocate, growing until it fits or the quota is reached.
RECURSIVE AllocRetry(_, _)
AllocRetry(H, ws) ==
  LET r == Put(Arena(H), ws) IN
    IF ~r.h.full THEN [ok |-> TRUE, H |-> Filled(H, r.h), t |-> r.t]
    ELSE IF CanGrow(H) THEN AllocRetry(Grow(H), ws)
    ELSE [ok |-> FALSE, H |-> H, t |-> Nil]

\* The live estimate of maybe_compact: shared structure is counted more than once.
LiveEstimate(roots, m) ==
  Fold(LAMBDA n, t : n + TermSize(t, m), 0, roots) + Len(roots) + Slack

\* The pages begin_compact asks for.
TargetPages(live) == MinOf(MaxOf(DivCeil(live, PageWords), MinCompact), MaxPages)

Pressured(H) == Len(H.spans) > 1 \/ H.cur.top * 2 > H.cur.cap

-----------------------------------------------------------------------------
(* Actions. *)

Adopt(p, H) ==
  /\ spans' = [spans EXCEPT ![p] = H.spans] /\ cur' = [cur EXCEPT ![p] = H.cur]
  /\ mem' = H.m /\ freeset' = H.F

Work == panic = "none" /\ ops < MaxOps /\ ops' = ops + 1

\* ProcHeap::new; without frames for it the kernel panics.
Spawn(p) ==
  /\ Work /\ ~alive[p]
  /\ LET n == MaxOf(MinOf(InitialPages, MaxPages), 1)
         S == Contig(freeset, n)
     IN  IF S = {}
         THEN panic' = "no frames" /\ UNCHANGED <<alive, spans, cur, freeset>>
         ELSE /\ spans' = [spans EXCEPT ![p] = <<<<Lowest(S), n>>>>]
              /\ cur' = [cur EXCEPT ![p] = NewSpan(Lowest(S), n)]
              /\ freeset' = freeset \ FF!Run(Lowest(S), n)
              /\ alive' = [alive EXCEPT ![p] = TRUE] /\ UNCHANGED panic
  /\ UNCHANGED <<regs, mail, mem, tofree>>

\* Spans no term points into any more; what they hold is not kept.
Dropped(m, ss) ==
  [a \in Addrs |-> IF \E s \in ss : a \div PageWords \in FF!Run(s[1], s[2]) THEN Junk ELSE m[a]]

\* exit or kill, and the reap: the spans go to finalize.
Leave(p, H) ==
  /\ alive' = [alive EXCEPT ![p] = FALSE] /\ regs' = [regs EXCEPT ![p] = Fresh]
  /\ mail' = [mail EXCEPT ![p] = <<>>]
  /\ spans' = [spans EXCEPT ![p] = <<>>] /\ cur' = [cur EXCEPT ![p] = NoSpan]
  /\ mem' = Dropped(H.m, ToSet(H.spans)) /\ freeset' = H.F
  /\ tofree' = tofree \cup ToSet(H.spans)

Exit(p) == Work /\ alive[p] /\ Leave(p, HeapOf(p)) /\ UNCHANGED panic

\* free_spans, after TABLE is released: one span at a time.
FreeSpan(s) ==
  /\ panic = "none" /\ s \in tofree
  /\ panic' = IF FF!Run(s[1], s[2]) \cap freeset = {} THEN panic ELSE "double free"
  /\ freeset' = freeset \cup FF!Run(s[1], s[2]) /\ tofree' = tofree \ {s}
  /\ UNCHANGED <<alive, regs, mail, spans, cur, mem, ops>>

Is(t, kind) == IsBoxed(t) /\ mem[t[2]][1] = kind

\* The objects that the instructions allocate from registers R.
Requests(R) ==
  Blobs \cup UNION {
    {TupleWords(<<R[o[1]], R[o[2]]>>), ConsWords(R[o[1]], R[o[2]])}
    \cup {MapWords(<<<<kk[1], R[o[1]]>>, <<kk[2], R[o[2]]>>>>) : kk \in KeyPairs}
    \cup (IF Is(R[o[1]], "map") THEN {MapPutWords(mem, R[o[1]], k, R[o[2]]) : k \in Keys} ELSE {})
    : o \in Operands}

\* build: an object into register r, or the end of the process at its quota.
Build(p, r, ws) ==
  /\ Work /\ alive[p]
  /\ LET a == AllocRetry(HeapOf(p), ws) IN
       IF a.ok
       THEN /\ Adopt(p, a.H) /\ regs' = [regs EXCEPT ![p][r] = a.t]
            /\ UNCHANGED <<alive, mail, tofree>>
       ELSE Leave(p, a.H)
  /\ UNCHANGED panic

\* What can be read out of a register without allocating.
Parts(R) ==
  {R[a] : a \in Regs}
  \cup UNION {
    CASE Is(R[a], "tuple") \/ Is(R[a], "cons") -> ToSet(Tail(Object(mem, R[a][2])))
      [] Is(R[a], "map") -> {MapGet(mem, R[a], k) : k \in Keys} \ {<<"none", 0>>}
      [] OTHER -> {} : a \in Regs}

Load(p, r, t) ==
  /\ Work /\ alive[p] /\ regs' = [regs EXCEPT ![p][r] = t]
  /\ UNCHANGED <<alive, mail, spans, cur, mem, freeset, tofree, panic>>

\* An outermost tail call with the registers args as its arguments, and
\* maybe_compact on them.
Hop(p, args) ==
  /\ Work /\ alive[p]
  /\ LET H == HeapOf(p)
         roots == [j \in DOMAIN args |-> regs[p][args[j]]]
         n == TargetPages(LiveEstimate(roots, mem))
         S == Contig(freeset, n)
         b == Lowest(S)
         e == Evacuate(roots, NewHeap(mem, b * PageWords, n * PageWords))
         loaded(ts) == regs' = [regs EXCEPT ![p] = [r \in Regs |-> IF r \in DOMAIN ts THEN ts[r] ELSE Nil]]
     IN  IF Pressured(H) /\ S # {}
         THEN /\ spans' = [spans EXCEPT ![p] = <<<<b, n>>>>]
              /\ cur' = [cur EXCEPT ![p] = [NewSpan(b, n) EXCEPT !.top = e.h.top]]
              /\ mem' = Dropped(e.h.m, ToSet(spans[p])) /\ freeset' = freeset \ FF!Run(b, n)
              /\ tofree' = tofree \cup ToSet(spans[p])
              /\ panic' = IF e.h.full THEN "evacuate" ELSE panic
              /\ loaded(e.ts)
         ELSE /\ loaded(roots) /\ UNCHANGED <<spans, cur, mem, freeset, tofree, panic>>
  /\ UNCHANGED <<alive, mail>>

\* The words of a fragment's backing.
FragmentWords(t, m) == MaxOf(TermSize(t, m), 1)

\* send: Fragment::copy_from, into the mailbox of q.
Send(p, q, r) ==
  /\ Work /\ alive[p] /\ alive[q] /\ Len(mail[q]) < MaxMail
  /\ LET n == FragmentWords(regs[p][r], mem)
         c == CopyTerm(regs[p][r], mem, NewHeap([a \in 0 .. n - 1 |-> Junk], 0, n))
     IN  /\ mail' = [mail EXCEPT ![q] = Append(@, [m |-> c.h.m, root |-> c.t])]
         /\ panic' = IF c.h.full THEN "fragment" ELSE panic
  /\ UNCHANGED <<alive, regs, spans, cur, mem, freeset, tofree>>

\* The scan of recv_where: every message is copied before the predicate looks at
\* it, and a miss rolls the bump pointer back over the copy.  After growing it goes
\* on with the next.
RECURSIVE ScanMail(_, _, _, _)
ScanMail(H, box, i, pred) ==
  IF i > Len(box) THEN [end |-> "none", H |-> H]
  ELSE LET c == CopyTerm(box[i].root, box[i].m, Arena(H)) IN
    IF c.h.full
    THEN IF CanGrow(H) THEN ScanMail(Grow(H), box, i + 1, pred)
         ELSE [end |-> "quota", H |-> H]
    ELSE IF (pred = "boxed") => IsBoxed(c.t)
         THEN [end |-> "match", H |-> Filled(H, c.h), t |-> c.t, i |-> i]
         ELSE ScanMail(H, box, i + 1, pred)

\* recv_where, with a predicate that takes any message or only boxed ones.
Receive(p, r, pred) ==
  /\ Work /\ alive[p] /\ mail[p] # <<>>
  /\ LET s == ScanMail(HeapOf(p), mail[p], 1, pred) IN
       CASE s.end = "match" ->
              /\ Adopt(p, s.H) /\ regs' = [regs EXCEPT ![p][r] = s.t]
              /\ mail' = [mail EXCEPT ![p] = RemoveAt(@, s.i)]
              /\ UNCHANGED <<alive, tofree>>
         [] s.end = "quota" -> Leave(p, s.H)
         [] OTHER -> Adopt(p, s.H) /\ UNCHANGED <<alive, regs, mail, tofree>>
  /\ UNCHANGED panic

Next ==
  \/ \E s \in tofree : FreeSpan(s)
  \/ \E p \in Procs :
       \/ Spawn(p) \/ Exit(p)
       \/ \E ws \in Requests(regs[p]) : Build(p, 1, ws)
       \/ \E t \in Parts(regs[p]) \ {regs[p][2]} : Load(p, 2, t)
       \/ \E q \in Procs : Send(p, q, 1)
       \/ \E pred \in {"any", "boxed"} : Receive(p, 1, pred)
       \/ \E args \in Operands \cup {<<1>>, <<>>} : Hop(p, args)

Spec == Init /\ [][Next]_vars

-----------------------------------------------------------------------------
Spans(p) == ToSet(spans[p])
Roots(p) == {regs[p][r] : r \in Regs}

\* The words of p's spans that hold objects: all of them may, in the newest those
\* below its top.
Allocated(p) ==
  {a \in Addrs : \/ a \in cur[p].base .. cur[p].base + cur[p].top - 1
                 \/ \E s \in Spans(p) : /\ s # Last(spans[p])
                                        /\ a \div PageWords \in FF!Run(s[1], s[2])}

\* The heap's record agrees with its spans: the newest is the one allocated from, and
\* the total is within the quota.  (ProcHeap)
TypeOK ==
  /\ alive \in [Procs -> BOOLEAN] /\ ops \in 0 .. MaxOps /\ freeset \subseteq 0 .. NFrames - 1
  /\ panic \in {"none", "no frames", "evacuate", "fragment", "double free"}
  /\ \A p \in Procs :
       /\ alive[p] <=> spans[p] # <<>>
       /\ alive[p] => /\ Total(spans[p]) <= MaxPages
                      /\ cur[p].base = Last(spans[p])[1] * PageWords
                      /\ cur[p].top <= cur[p].cap /\ cur[p].cap = Last(spans[p])[2] * PageWords

\* A pointer a process can reach leads to an object in its own live spans: no
\* compaction, growth, rollback or exit leaves one behind, and no forwarding word
\* is ever seen.  ("Boxed terms must point into a live heap.")
NoDangling ==
  \A p \in Procs : \A t \in Roots(p) : \A a \in Reach(t, mem) :
    /\ mem[a][1] \in Kinds
    /\ a .. a + Words(mem[a]) - 1 \subseteq Allocated(p)

\* The frames are divided among the heaps, the spans being freed and the allocator:
\* none is shared and none is lost, and no heap exceeds its quota.  (grow, free_spans,
\* begin_compact, take_spans)
FramesDivided ==
  LET all == UNION {Spans(p) : p \in Procs} \cup tofree IN
  /\ TypeOK
  /\ \A p, q \in Procs : p # q => Spans(p) \cap Spans(q) = {}
  /\ \A p \in Procs : Spans(p) \cap tofree = {} /\ Len(spans[p]) = Cardinality(Spans(p))
  /\ \A s, u \in all : s # u => FF!Run(s[1], s[2]) \cap FF!Run(u[1], u[2]) = {}
  /\ freeset = (0 .. NFrames - 1) \ UNION {FF!Run(s[1], s[2]) : s \in all}

\* The expects of the kernel hold: a fragment is "sized exactly", a compaction target
\* always holds what is live, also when the quota cuts the estimate, and no span is
\* freed twice.  Only a spawn without frames stops the kernel.
\* (Fragment::copy_from, maybe_compact, free_frames)
NeverPanics == panic \in {"none", "no frames"}

\* eq is equality of values, whatever their layout and sharing, and map_get's binary
\* search finds exactly the keys of the map with their values.
ReadsAreExact ==
  \A p \in Procs : \A s \in Roots(p) :
    /\ \A t \in Roots(p) : Eq(s, t, mem) <=> Denote(s, mem) = Denote(t, mem)
    /\ Is(s, "map") => LET f == Denote(s, mem)[2] IN \A k \in Keys :
         IF k \in DOMAIN f THEN Denote(MapGet(mem, s, k), mem) = f[k]
         ELSE MapGet(mem, s, k) = <<"none", 0>>

\* What the heaps implement: processes whose registers and messages are values.
V == INSTANCE Values WITH
  Start <- Fresh, NilValue <- Nil,
  regs <- [p \in Procs |-> [r \in Regs |-> Denote(regs[p][r], mem)]],
  mail <- [p \in Procs |-> [i \in DOMAIN mail[p] |-> Denote(mail[p][i].root, mail[p][i].m)]]

\* Whatever is built, compacted, copied, rolled back or freed, registers and messages
\* behave as values: no process sees another's memory, a message is received as it was
\* sent, map_get agrees with the value of the map, and a collection changes nothing.
IsValues == V!Spec
=============================================================================
