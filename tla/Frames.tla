------------------------------- MODULE Frames -------------------------------
(***************************************************************************)
(* The bitmap of physical frames: ygg-alloc's FrameBitmap, set up by       *)
(* mm::init and used under the lock PMM.  A call is a request followed by  *)
(* the iterations of its search loop, so that what the loop has refuted so *)
(* far is a property of the state.  The bitmap is the set of frames whose  *)
(* bit is set.  It starts at physical address 0, as mm::init makes it:     *)
(* a frame's address is its index.                                         *)
(***************************************************************************)
EXTENDS Integers, Sequences, FiniteSets

CONSTANTS
  FrameSize,      \* FRAME_SIZE, in the unit of lengths
  Memmap,         \* the usable entries of the boot loader's map, as <<base, length>>
  Storage,        \* length of the bitmap's own storage
  Sizes, Aligns,  \* what callers of alloc_contig ask for
  None, NoCall

Entries == DOMAIN Memmap

\* The end of the highest usable region, in whole frames.
NFrames == (CHOOSE t \in {Memmap[e][1] + Memmap[e][2] : e \in Entries} :
              \A e \in Entries : Memmap[e][1] + Memmap[e][2] <= t) \div FrameSize

Frames == 0 .. NFrames - 1

\* The first region that can hold the bitmap does.
Host == CHOOSE e \in Entries : /\ Memmap[e][2] >= Storage
                               /\ \A d \in 1 .. e - 1 : Memmap[d][2] < Storage

ASSUME FrameAssumption ==
  /\ FrameSize \in Nat \ {0} /\ Storage \in Nat
  /\ Memmap \in Seq(Nat \X Nat) /\ Host \in Entries
  /\ NFrames \in Nat \ {0}
  /\ Sizes \subseteq Nat \ {0} /\ Aligns \subseteq Nat \ {0}
  /\ None \notin Int /\ NoCall \notin [op : {"one", "contig"}, n : Int, al : Int]

VARIABLES
  used,       \* bits
  free,       \* the counter of clear bits
  cursor,     \* where the next single-frame search starts
  pc,         \* where the code under PMM is
  ent,        \* the entry mm::init marks next
  i,          \* index of the search loop
  call, ret,  \* request and its outcome
  held        \* runs that callers hold, as <<base, length>>

vars == <<used, free, cursor, pc, ent, i, call, ret, held>>

Run(b, n) == b .. b + n - 1

\* FrameBitmap::new: every frame starts used.
Init ==
  /\ used = Frames /\ free = 0 /\ cursor = 0
  /\ pc = "boot" /\ ent = 1 /\ i = 0
  /\ call = NoCall /\ ret = None /\ held = {}

\* set_used over a range of frames; the counter follows the bits that change.
SetFree(R) == used' = used \ R /\ free' = free + Cardinality(R \cap used)

\* Mutant: it follows the length of the range.
SetUsed_Blind(R) == used' = used \cup R /\ free' = free - Cardinality(R)

SetUsed(R) == used' = used \cup R /\ free' = free - Cardinality(R \ used)

\* The frames mark_free_range frees for an entry,
FreeRange(e) ==
  LET first == Memmap[e][1] \div FrameSize
      n == Memmap[e][2] \div FrameSize
  IN  {k \in Frames : first <= k /\ k < first + n}

\* and those mark_used_range takes for the bitmap: whole frames, rounded up.
StorageRange ==
  LET first == Memmap[Host][1] \div FrameSize
      n == (Storage + FrameSize - 1) \div FrameSize
  IN  {k \in Frames : first <= k /\ k < first + n}

\* mm::init: usable regions one by one, then the bitmap's frames and frame 0.
BootFree ==
  /\ pc = "boot" /\ ent \in Entries
  /\ SetFree(FreeRange(ent)) /\ ent' = ent + 1
  /\ UNCHANGED <<cursor, pc, i, call, ret, held>>

BootReserve ==
  /\ pc = "boot" /\ ent \notin Entries
  /\ SetUsed(StorageRange \cup {0}) /\ pc' = "idle"
  /\ UNCHANGED <<cursor, ent, i, call, ret, held>>

\* alloc and alloc_contig: the lock is taken,
Call(op, n, al) ==
  /\ pc = "idle"
  /\ call' = [op |-> op, n |-> n, al |-> al] /\ ret' = None /\ pc' = "check"
  /\ UNCHANGED <<used, free, cursor, ent, i, held>>

Refuse == pc' = "idle" /\ call' = NoCall /\ UNCHANGED <<used, free, cursor, i, ret, held>>

\* Mutant: the last frame of the run stays clear.
Give_Short(b) ==
  /\ SetUsed(Run(b, call.n - 1)) /\ held' = held \cup {<<b, call.n>>}
  /\ ret' = b /\ pc' = "idle" /\ call' = NoCall /\ UNCHANGED i

Give(b) ==
  /\ SetUsed(Run(b, call.n)) /\ held' = held \cup {<<b, call.n>>}
  /\ ret' = b /\ pc' = "idle" /\ call' = NoCall /\ UNCHANGED i

\* the counter may refuse at once,
Check ==
  /\ pc = "check"
  /\ IF free < call.n
     THEN Refuse
     ELSE /\ pc' = call.op /\ i' = IF call.op = "one" THEN cursor ELSE 0
          /\ UNCHANGED <<used, free, cursor, call, ret, held>>
  /\ UNCHANGED ent

Wrap(k) == (k + 1) % NFrames

\* then an iteration of alloc's loop: next fit, once around from the cursor,
AllocStep ==
  /\ pc = "one"
  /\ IF i \notin used
     THEN Give(i) /\ cursor' = Wrap(i)
     ELSE IF Wrap(i) = cursor THEN Refuse
     ELSE i' = Wrap(i) /\ UNCHANGED <<used, free, cursor, pc, call, ret, held>>
  /\ UNCHANGED ent

\* Mutant: the search goes on one frame too far.
PastUsed_Off(b, n) ==
  LET j == CHOOSE j \in 0 .. n - 1 : b + j \in used /\ \A k \in 0 .. j - 1 : b + k \notin used
  IN  b + j + 2

\* Where alloc_contig goes on when a frame of the run at b is used.
PastUsed(b, n) ==
  LET j == CHOOSE j \in 0 .. n - 1 : b + j \in used /\ \A k \in 0 .. j - 1 : b + k \notin used
  IN  b + j + 1

\* or of alloc_contig's: first fit from the bottom, aligned.
ContigStep ==
  /\ pc = "contig"
  /\ LET n == call.n
         skip(k) == i' = k /\ UNCHANGED <<used, free, pc, call, ret, held>>
     IN  IF i + n > NFrames THEN Refuse
         ELSE /\ IF i % call.al # 0 THEN skip(i + (call.al - (i % call.al)))
                 ELSE IF Run(i, n) \cap used # {} THEN skip(PastUsed(i, n))
                 ELSE Give(i)
              /\ UNCHANGED cursor
  /\ UNCHANGED ent

\* free_frames of a run that its caller holds.
FreeFrames(h) ==
  /\ pc = "idle" /\ h \in held
  /\ SetFree(Run(h[1], h[2])) /\ held' = held \ {h}
  /\ UNCHANGED <<cursor, pc, ent, i, call, ret>>

Next ==
  \/ BootFree \/ BootReserve
  \/ Call("one", 1, 1) \/ \E n \in Sizes, al \in Aligns : Call("contig", n, al)
  \/ Check \/ AllocStep \/ ContigStep
  \/ \E h \in held : FreeFrames(h)

Spec == Init /\ [][Next]_vars

-----------------------------------------------------------------------------
\* Every variable has the type of what it stands for.
TypeOK ==
  /\ used \in SUBSET Frames /\ free \in Nat /\ cursor \in Frames /\ i \in Nat
  /\ pc \in {"boot", "idle", "check", "one", "contig"} /\ ent \in 1 .. Len(Memmap) + 1
  /\ call \in [op : {"one", "contig"}, n : Sizes \cup {1}, al : Aligns \cup {1}] \cup {NoCall}
  /\ ret \in Frames \cup {None} /\ held \in SUBSET (Frames \X Nat)

\* The counter that alloc and alloc_contig trust is the number of clear bits,
\* whatever was marked twice at boot, allocated and freed.  (set_used)
FreeExact == free = Cardinality(Frames \ used)

\* Frame 0, the bitmap's frames and what the memory map leaves out.
Reserved == (Frames \ UNION {FreeRange(e) : e \in Entries}) \cup StorageRange \cup {0}

\* Every frame has one owner: it is reserved, in exactly one run a caller holds,
\* or clear in the bitmap; so free_frames never meets its assertion "double free".
OneOwner ==
  pc # "boot" =>
    /\ used = Reserved \cup UNION {Run(h[1], h[2]) : h \in held}
    /\ \A h \in held : Run(h[1], h[2]) \cap Reserved = {}
    /\ \A g, h \in held : g # h => Run(g[1], g[2]) \cap Run(h[1], h[2]) = {}

\* What the bitmap is read as: the set of its clear frames, none before mm::init is done.
A == INSTANCE FreeFrames WITH
  up <- pc # "boot", freeset <- IF pc = "boot" THEN {} ELSE Frames \ used,
  Boot <- Frames \ Reserved

\* The bitmap with its counter, cursor and skipping searches implements a set of
\* free frames: a request is refused only when nothing serves it, and the run
\* alloc_contig gives is aligned and the lowest.  ("First-fit from the bottom.")
IsFreeSet == A!Spec
=============================================================================
