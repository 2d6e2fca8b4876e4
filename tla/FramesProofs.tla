---------------------------- MODULE FramesProofs ----------------------------
(***************************************************************************)
(* The frame bitmap is a set of free frames, for every memory map and      *)
(* every size and alignment: the counter is exact, every frame has one     *)
(* owner, and neither search loop skips a frame or a run that would serve. *)
(***************************************************************************)
EXTENDS Frames, FiniteSetTheorems, WellFoundedInduction, TLAPS

-----------------------------------------------------------------------------
(* The inductive invariant. *)

\* A call is under way exactly while the code is past its entry.
CallInv ==
  /\ pc \in {"boot", "idle"} => call = NoCall
  /\ pc \in {"check", "one", "contig"} => call # NoCall /\ (call.op = "one" => call.n = 1)
  /\ pc \in {"one", "contig"} => pc = call.op /\ free >= call.n

\* What mm::init has marked so far.
BootInv ==
  pc = "boot" => used = Frames \ UNION {FreeRange(e) : e \in 1 .. ent - 1} /\ held = {}

\* alloc has met only used frames from the cursor up to i.
NextInv ==
  pc = "one" => /\ i \in Frames
                /\ cursor <= i => \A k \in cursor .. i - 1 : k \in used
                /\ i < cursor => \A k \in Frames : k < i \/ k >= cursor => k \in used

\* alloc_contig has refuted every run below i.
ContigInv ==
  pc = "contig" => \A b \in A!Fits(Frames \ used, call.n, call.al) : i <= b

IInv == TypeOK /\ FreeExact /\ CallInv /\ BootInv /\ NextInv /\ ContigInv /\ OneOwner

-----------------------------------------------------------------------------
(* The bitmap and its counter. *)

\* The next multiple of an alignment: what the skip of alloc_contig passes over
\* is not aligned.
LEMMA NextMultiple ==
  ASSUME NEW al \in Nat \ {0}, NEW k \in Nat, NEW b \in Nat,
         b % al = 0, k % al # 0, k <= b
  PROVE  k + (al - (k % al)) <= b /\ k % al \in 1 .. al - 1
<1>1. PICK q \in Int, r \in 1 .. al - 1 : k = al * q + r /\ r = k % al
  <2>1. k % al \in 0 .. al - 1 /\ k \div al \in Int /\ k = al * (k \div al) + (k % al)
    OBVIOUS
  <2>2. k % al \in 1 .. al - 1
    BY <2>1
  <2>3. QED
    BY <2>1, <2>2, Zenon
<1>2. PICK p \in Int : b = al * p
  <2>1. b \div al \in Int /\ b = al * (b \div al) + (b % al)
    OBVIOUS
  <2>2. b = al * (b \div al)
    BY <2>1
  <2>3. QED
    BY <2>1, <2>2, Zenon
<1>3. al * (p - q) >= r
  BY <1>1, <1>2
<1>4. p - q <= 0 => al * (p - q) <= 0
  OBVIOUS
<1>5. p - q >= 1 => al * (p - q) >= al
  OBVIOUS
<1>6. al * (p - q) >= al
  BY <1>3, <1>4, <1>5
<1>7. b >= al * q + al
  BY <1>2, <1>6
<1>8. QED
  BY <1>1, <1>7

\* What callers ask for.
LEMMA AskedFor == \A x \in Sizes \cup Aligns \cup {1} : x \in Nat \ {0}
<1>1. Sizes \subseteq Nat \ {0} /\ Aligns \subseteq Nat \ {0}
  BY FrameAssumption, Zenon
<1>2. QED
  BY <1>1

\* A set of numbers has a least one.
LEMMA NatMin ==
  ASSUME NEW S \in SUBSET Nat, NEW x \in S
  PROVE  \E j \in S : \A k \in S : j <= k
<1>1. \E j \in S : \A k \in S : ~(<<k, j>> \in OpToRel(<, Nat))
  <2>1. S \subseteq Nat /\ S # {}
    OBVIOUS
  <2>2. QED
    BY <2>1, WFMin, NatLessThanWellFounded, ZenonT(30)
<1>2. \A k, j \in S : k < j => <<k, j>> \in OpToRel(<, Nat)
  BY DEF OpToRel
<1>3. PICK j \in S : \A k \in S : ~(k < j)
  BY <1>1, <1>2, Zenon
<1>4. \A k \in S : j <= k
  BY <1>3
<1>5. QED
  BY <1>4

LEMMA FramesFinite ==
  /\ NFrames \in Nat \ {0} /\ IsFiniteSet(Frames)
  /\ \A S \in SUBSET Frames : IsFiniteSet(S) /\ Cardinality(S) \in Nat
<1>1. NFrames \in Nat \ {0}
  BY FrameAssumption
<1>2. IsFiniteSet(Frames)
  BY <1>1, FS_Interval DEF Frames
<1>3. QED
  BY <1>1, <1>2, FS_Subset, FS_CardinalityType

\* Taking frames keeps the counter exact, whether or not they were free.
LEMMA TakeExact ==
  ASSUME used \in SUBSET Frames, free \in Nat, FreeExact, NEW R \in SUBSET Frames, SetUsed(R)
  PROVE  used' \in SUBSET Frames /\ free' \in Nat /\ FreeExact'
<1> DEFINE F == Frames \ used
<1> DEFINE T == R \ used
<1>1. Frames \ used' = F \ T /\ F \cap T = T
  BY DEF SetUsed
<1>2. Cardinality(F \ T) = Cardinality(F) - Cardinality(T)
  <2>1. IsFiniteSet(F)
    BY FramesFinite
  <2>2. Cardinality(F \ T) = Cardinality(F) - Cardinality(F \cap T)
    BY <2>1, FS_Difference, ZenonT(30)
  <2>3. QED
    BY <1>1, <2>2
<1>3. Cardinality(F \ T) \in Nat /\ used' \in SUBSET Frames
  BY FramesFinite DEF SetUsed
<1>4. free' = Cardinality(F \ T)
  BY <1>2 DEF SetUsed, FreeExact
<1>5. QED
  BY <1>1, <1>3, <1>4 DEF FreeExact

\* And so does giving them back.
LEMMA GiveBackExact ==
  ASSUME used \in SUBSET Frames, free \in Nat, FreeExact, NEW R \in SUBSET Frames, SetFree(R)
  PROVE  used' \in SUBSET Frames /\ free' \in Nat /\ FreeExact'
<1> DEFINE F == Frames \ used
<1> DEFINE T == R \cap used
<1>1. Frames \ used' = F \cup T /\ F \cap T = {}
  BY DEF SetFree
<1>2. Cardinality(F \cup T) = Cardinality(F) + Cardinality(T) - Cardinality({})
  <2>1. IsFiniteSet(F) /\ IsFiniteSet(T)
    BY FramesFinite
  <2>2. Cardinality(F \cup T) = Cardinality(F) + Cardinality(T) - Cardinality(F \cap T)
    BY <2>1, FS_Union
  <2>3. QED
    BY <1>1, <2>2
<1>3. Cardinality({}) = 0
  BY FS_EmptySet
<1>4. Cardinality(F \cup T) \in Nat /\ Cardinality(F) \in Nat /\ Cardinality(T) \in Nat
        /\ used' \in SUBSET Frames
  BY FramesFinite DEF SetFree
<1>5. free' = Cardinality(F \cup T)
  BY <1>2, <1>3, <1>4 DEF SetFree, FreeExact
<1>6. QED
  BY <1>1, <1>4, <1>5 DEF FreeExact

\* The ranges mm::init marks are frames.
LEMMA RangesAreFrames ==
  /\ \A e : FreeRange(e) \in SUBSET Frames
  /\ StorageRange \in SUBSET Frames /\ 0 \in Frames
  /\ Reserved \in SUBSET Frames
BY FramesFinite DEF FreeRange, StorageRange, Reserved, Frames

\* The index stays on the bitmap.
LEMMA WrapIn ==
  ASSUME NEW k \in Frames
  PROVE  Wrap(k) \in Frames /\ Wrap(k) = IF k = NFrames - 1 THEN 0 ELSE k + 1
<1>1. NFrames \in Nat \ {0}
  BY FramesFinite
<1>2. CASE k = NFrames - 1
  <2>1. k + 1 = NFrames * 1 + 0
    BY <1>1, <1>2
  <2>2. (NFrames * 1 + 0) % NFrames = 0
    BY <1>1
  <2>3. QED
    BY <1>1, <1>2, <2>1, <2>2 DEF Wrap, Frames
<1>3. CASE k # NFrames - 1
  <2>1. k + 1 \in 0 .. NFrames - 1
    BY <1>1, <1>3 DEF Frames
  <2>2. (k + 1) % NFrames = k + 1
    BY <1>1, <2>1
  <2>3. QED
    BY <1>1, <1>3, <2>1, <2>2 DEF Wrap, Frames
<1>4. QED
  BY <1>2, <1>3

-----------------------------------------------------------------------------
(* Every step keeps the invariant. *)

LEMMA InitInv == Init => IInv
<1> SUFFICES ASSUME Init PROVE IInv
  OBVIOUS
<1> USE DEF Init
<1>1. NFrames \in Nat \ {0} /\ Frames = 0 .. NFrames - 1 /\ Memmap \in Seq(Nat \X Nat)
  BY FrameAssumption DEF Frames
<1>2. TypeOK
  BY <1>1 DEF TypeOK
<1>3. FreeExact
  <2>1. Frames \ used = {}
    OBVIOUS
  <2>2. QED
    BY <2>1, FS_EmptySet DEF FreeExact
<1>4. BootInv
  <2>1. 1 .. ent - 1 = {}
    OBVIOUS
  <2>2. QED
    BY <2>1 DEF BootInv
<1>5. QED
  BY <1>2, <1>3, <1>4 DEF IInv, CallInv, NextInv, ContigInv, OneOwner

LEMMA BootFreeInv == IInv /\ BootFree => IInv'
<1> SUFFICES ASSUME IInv, BootFree PROVE IInv'
  OBVIOUS
<1>1. used' \in SUBSET Frames /\ free' \in Nat /\ FreeExact'
  BY GiveBackExact, RangesAreFrames DEF IInv, TypeOK, BootFree
<1>2. ent \in 1 .. Len(Memmap) /\ ent' = ent + 1 /\ Len(Memmap) \in Nat
  BY FrameAssumption, SMTT(30) DEF BootFree, Entries
<1>3. TypeOK'
  BY <1>1, <1>2 DEF IInv, TypeOK, BootFree
<1>4. BootInv'
  <2>1. 1 .. ent' - 1 = (1 .. ent - 1) \cup {ent}
    BY <1>2
  <2>2. used = Frames \ UNION {FreeRange(e) : e \in 1 .. ent - 1} /\ held' = {}
          /\ used' = used \ FreeRange(ent)
    BY DEF IInv, BootInv, BootFree, SetFree
  <2>3. used' = Frames \ UNION {FreeRange(e) : e \in (1 .. ent - 1) \cup {ent}}
    BY <2>2, Zenon
  <2>4. QED
    BY <2>1, <2>2, <2>3, Zenon DEF BootInv
<1>5. QED
  BY <1>1, <1>3, <1>4 DEF IInv, CallInv, NextInv, ContigInv, OneOwner, BootFree

LEMMA BootReserveInv == IInv /\ BootReserve => IInv' /\ used' = Reserved
<1> SUFFICES ASSUME IInv, BootReserve PROVE IInv' /\ used' = Reserved
  OBVIOUS
<1> DEFINE R == StorageRange \cup {0}
<1>1. used' \in SUBSET Frames /\ free' \in Nat /\ FreeExact'
  <2>1. R \in SUBSET Frames /\ SetUsed(R)
    BY RangesAreFrames DEF BootReserve
  <2>2. QED
    BY <2>1, TakeExact DEF IInv, TypeOK
<1>2. TypeOK'
  BY <1>1 DEF IInv, TypeOK, BootReserve
<1>3. used' = Reserved
  <2>1. 1 .. ent - 1 = Entries
    BY FrameAssumption DEF IInv, TypeOK, BootReserve, Entries
  <2>2. used = Frames \ UNION {FreeRange(e) : e \in Entries}
    BY <2>1, ZenonT(30) DEF IInv, BootInv, BootReserve
  <2>3. QED
    BY <2>2 DEF BootReserve, SetUsed, Reserved
<1>4. OneOwner'
  <2>1. held' = {}
    BY DEF IInv, BootInv, BootReserve
  <2>2. Reserved' = Reserved
    BY DEF Reserved
  <2>3. QED
    BY <1>3, <2>1, <2>2 DEF OneOwner
<1>5. QED
  BY <1>1, <1>2, <1>3, <1>4 DEF IInv, CallInv, BootInv, NextInv, ContigInv, BootReserve

LEMMA CallKeeps ==
  ASSUME NEW op \in {"one", "contig"}, NEW n \in Sizes \cup {1}, NEW al \in Aligns \cup {1},
         op = "one" => n = 1, IInv, Call(op, n, al)
  PROVE  IInv'
<1>1. [op |-> op, n |-> n, al |-> al] # NoCall
  <2>1. op \in {"one", "contig"} /\ n \in Int /\ al \in Int
    BY AskedFor
  <2>2. [op |-> op, n |-> n, al |-> al] \in [op : {"one", "contig"}, n : Int, al : Int]
    BY <2>1
  <2>3. QED
    BY <2>2, FrameAssumption
<1>2. TypeOK' /\ CallInv'
  BY <1>1 DEF IInv, TypeOK, CallInv, Call
<1>3. FreeExact' /\ OneOwner'
  BY SMTT(30) DEF IInv, FreeExact, OneOwner, Call, Reserved
<1>4. QED
  BY <1>2, <1>3 DEF IInv, BootInv, NextInv, ContigInv, Call

\* What a call under way asks for.
LEMMA CallTyped ==
  ASSUME TypeOK, CallInv, pc \in {"check", "one", "contig"}
  PROVE  /\ call \in [op : {"one", "contig"}, n : Sizes \cup {1}, al : Aligns \cup {1}]
         /\ call.n \in Nat \ {0} /\ call.al \in Nat \ {0}
<1>1. call \in [op : {"one", "contig"}, n : Sizes \cup {1}, al : Aligns \cup {1}]
  BY DEF TypeOK, CallInv
<1>2. call.n \in Sizes \cup {1} /\ call.al \in Aligns \cup {1}
  BY <1>1
<1>3. call.n \in Nat \ {0} /\ call.al \in Nat \ {0}
  BY <1>2, AskedFor, Zenon
<1>4. QED
  BY <1>1, <1>3

LEMMA RefuseKeeps ==
  ASSUME IInv, pc \in {"check", "one", "contig"}, Refuse, ent' = ent
  PROVE  IInv'
<1>1. TypeOK'
  BY DEF IInv, TypeOK, Refuse
<1>2. FreeExact' /\ OneOwner'
  BY SMTT(30) DEF IInv, FreeExact, OneOwner, Refuse, Reserved
<1>3. QED
  BY <1>1, <1>2 DEF IInv, CallInv, BootInv, NextInv, ContigInv, Refuse

\* A run of clear bits is given: it is nobody else's.
LEMMA GiveKeeps ==
  ASSUME IInv, pc \in {"one", "contig"}, NEW b \in Frames,
         Run(b, call.n) \subseteq Frames \ used,
         Give(b), ent' = ent, cursor' \in Frames
  PROVE  IInv'
<1>1. used' \in SUBSET Frames /\ free' \in Nat /\ FreeExact'
  BY TakeExact DEF IInv, TypeOK, Give
<1>2. call.n \in Nat
  BY CallTyped DEF IInv
<1>3. TypeOK'
  BY <1>1, <1>2 DEF IInv, TypeOK, Give
<1>4. OneOwner'
  <2> DEFINE r == Run(b, call.n)
  <2>1. used = Reserved \cup UNION {Run(h[1], h[2]) : h \in held}
    BY DEF IInv, OneOwner
  <2>2. r \cap Reserved = {} /\ \A h \in held : r \cap Run(h[1], h[2]) = {}
    BY <2>1
  <2>3. used' = used \cup r /\ held' = held \cup {<<b, call.n>>}
          /\ <<b, call.n>>[1] = b /\ <<b, call.n>>[2] = call.n
    BY DEF Give, SetUsed
  <2>4. Reserved' = Reserved
    BY DEF Reserved
  <2>5. used' = Reserved' \cup UNION {Run(h[1], h[2]) : h \in held'}
    BY <2>1, <2>3, <2>4, ZenonT(30)
  <2>6. \A h \in held' : Run(h[1], h[2]) \cap Reserved' = {}
    BY <2>2, <2>3, <2>4 DEF IInv, OneOwner
  <2>7. \A g, h \in held' : g # h => Run(g[1], g[2]) \cap Run(h[1], h[2]) = {}
    BY <2>2, <2>3 DEF IInv, OneOwner
  <2>8. QED
    BY <2>5, <2>6, <2>7 DEF OneOwner
<1>5. QED
  BY <1>1, <1>3, <1>4 DEF IInv, CallInv, BootInv, NextInv, ContigInv, Give

\* A frame of a run is a frame, and a run has as many frames as it is long.
LEMMA RunFacts ==
  ASSUME NEW b \in Nat, NEW n \in Nat
  PROVE  /\ IsFiniteSet(Run(b, n)) /\ Cardinality(Run(b, n)) = n
         /\ \A k : k \in Run(b, n) <=> k \in Nat /\ b <= k /\ k < b + n
<1>1. b \in Int /\ b + n - 1 \in Int
  OBVIOUS
<1>2. Cardinality(b .. b + n - 1) = n /\ IsFiniteSet(b .. b + n - 1)
  BY <1>1, FS_Interval
<1>3. QED
  BY <1>2 DEF Run

\* The runs that serve a request.
LEMMA FitsFacts ==
  ASSUME NEW F \in SUBSET Frames, NEW n \in Nat \ {0}, NEW al \in Nat \ {0}, NEW b
  PROVE  b \in A!Fits(F, n, al) <=>
           b \in Nat /\ b + n <= NFrames /\ b % al = 0 /\ Run(b, n) \subseteq F
BY FramesFinite DEF A!Fits, A!Run, Run

\* When the counter refuses, nothing serves the request.
LEMMA TooFew ==
  ASSUME IInv, pc = "check", free < call.n
  PROVE  /\ A!Fits(Frames \ used, call.n, call.al) = {}
         /\ call.op = "one" => Frames \ used = {}
<1>1. call.n \in Nat \ {0} /\ call.al \in Nat \ {0} /\ free \in Nat
  BY CallTyped DEF IInv, TypeOK
<1>2. IsFiniteSet(Frames \ used) /\ free = Cardinality(Frames \ used)
  BY FramesFinite DEF IInv, FreeExact
<1>3. \A b \in A!Fits(Frames \ used, call.n, call.al) : FALSE
  <2> SUFFICES ASSUME NEW b \in A!Fits(Frames \ used, call.n, call.al) PROVE FALSE
    OBVIOUS
  <2>1. b \in Nat /\ Run(b, call.n) \in SUBSET (Frames \ used)
    <3>1. Frames \ used \in SUBSET Frames
      OBVIOUS
    <3>2. b \in Nat /\ Run(b, call.n) \subseteq Frames \ used
      BY <1>1, <3>1, FitsFacts, ZenonT(30)
    <3>3. QED
      BY <3>2
  <2>2. Cardinality(Run(b, call.n)) <= Cardinality(Frames \ used)
    BY <1>2, <2>1, FS_Subset
  <2>3. QED
    BY <1>1, <1>2, <2>1, <2>2, RunFacts
<1>4. call.op = "one" => Frames \ used = {}
  <2> SUFFICES ASSUME call.op = "one" PROVE Frames \ used = {}
    OBVIOUS
  <2>1. call.n = 1
    BY DEF IInv, CallInv
  <2>2. free = 0
    BY <1>1, <2>1
  <2>3. QED
    BY <1>2, <2>2, FS_EmptySet, ZenonT(30)
<1>5. QED
  BY <1>3, <1>4

\* alloc never comes around to where it started: the counter promised a frame.
LEMMA NeverAround ==
  ASSUME IInv, pc = "one", i \in used
  PROVE  Wrap(i) # cursor
<1> SUFFICES ASSUME Wrap(i) = cursor PROVE FALSE
  OBVIOUS
<1>1. i \in Frames /\ cursor \in Frames /\ NFrames \in Nat \ {0} /\ free \in Nat
  BY FramesFinite DEF IInv, NextInv, TypeOK
<1>2. Wrap(i) = IF i = NFrames - 1 THEN 0 ELSE i + 1
  BY <1>1, WrapIn
<1>3. \A k \in Frames : k \in used
  BY <1>1, <1>2 DEF IInv, NextInv, Frames
<1>4. Frames \ used = {}
  BY <1>3
<1>5. free = 0
  BY <1>4, FS_EmptySet DEF IInv, FreeExact
<1>6. free >= 1
  BY CallTyped DEF IInv, CallInv
<1>7. QED
  BY <1>5, <1>6

LEMMA CheckInv == IInv /\ Check => IInv'
<1> SUFFICES ASSUME IInv, Check PROVE IInv'
  OBVIOUS
<1>1. CASE free < call.n
  BY <1>1, RefuseKeeps DEF Check
<1>2. CASE ~(free < call.n)
  <2>1. UNCHANGED <<used, free, cursor, call, ret, held, ent>> /\ pc' = call.op /\ pc = "check"
          /\ i' = IF call.op = "one" THEN cursor ELSE 0
    BY <1>2 DEF Check
  <2>2. call.op \in {"one", "contig"} /\ call.n \in Nat \ {0} /\ call.al \in Nat \ {0}
    BY <2>1, CallTyped DEF IInv
  <2>3. TypeOK'
    BY <2>1, <2>2, FramesFinite DEF IInv, TypeOK, Frames
  <2>4. FreeExact' /\ OneOwner'
    BY <2>1, <2>2 DEF IInv, FreeExact, OneOwner, Reserved
  <2>5. CallInv'
    BY <1>2, <2>1, <2>2, CallTyped DEF IInv, CallInv, TypeOK
  <2>6. NextInv'
    BY <2>1, <2>2, FramesFinite DEF IInv, TypeOK, NextInv, Frames
  <2>7. ContigInv'
    <3>1. \A b \in A!Fits(Frames \ used, call.n, call.al) : b \in Nat
      BY <2>2, FitsFacts, ZenonT(30)
    <3>2. pc' = "contig" => i' = 0
      BY <2>1, <2>2
    <3>3. QED
      BY <2>1, <3>1, <3>2 DEF ContigInv
  <2>8. QED
    BY <2>1, <2>2, <2>3, <2>4, <2>5, <2>6, <2>7 DEF IInv, BootInv
<1>3. QED
  BY <1>1, <1>2

LEMMA AllocStepInv == IInv /\ AllocStep => IInv'
<1> SUFFICES ASSUME IInv, AllocStep PROVE IInv'
  OBVIOUS
<1>1. pc = "one" /\ i \in Frames /\ cursor \in Frames /\ call.n = 1 /\ NFrames \in Nat \ {0}
  BY FramesFinite DEF IInv, AllocStep, NextInv, TypeOK, CallInv
<1>2. Wrap(i) \in Frames /\ Wrap(i) = IF i = NFrames - 1 THEN 0 ELSE i + 1
  BY <1>1, WrapIn
<1>3. CASE i \notin used
  <2>1. Run(i, call.n) \subseteq Frames \ used
    BY <1>1, <1>3 DEF Run, Frames
  <2>2. Give(i) /\ cursor' = Wrap(i) /\ ent' = ent
    BY <1>3 DEF AllocStep
  <2>3. QED
    BY <1>1, <1>2, <2>1, <2>2, GiveKeeps
<1>4. CASE i \in used
  <2>1. Wrap(i) # cursor
    BY <1>1, <1>4, NeverAround
  <2>2. i' = Wrap(i) /\ UNCHANGED <<used, free, cursor, pc, call, ret, held, ent>>
    BY <1>4, <2>1 DEF AllocStep
  <2>3. TypeOK'
    BY <1>2, <2>2, FramesFinite DEF IInv, TypeOK, Frames
  <2>4. FreeExact' /\ OneOwner' /\ CallInv'
    BY <2>2, SMTT(30) DEF IInv, FreeExact, OneOwner, Reserved, CallInv
  <2>5. NextInv'
    BY <1>1, <1>2, <1>4, <2>1, <2>2 DEF IInv, NextInv, Frames
  <2>6. QED
    BY <1>1, <2>2, <2>3, <2>4, <2>5 DEF IInv, BootInv, ContigInv
<1>5. QED
  BY <1>3, <1>4

\* Where the search goes on after a used frame: no run that serves is passed over.
LEMMA PastUsedFacts ==
  ASSUME IInv, pc = "contig", Run(i, call.n) \cap used # {}
  PROVE  /\ PastUsed(i, call.n) \in Nat
         /\ \A b \in A!Fits(Frames \ used, call.n, call.al) : i <= b => PastUsed(i, call.n) <= b
<1> DEFINE n == call.n
<1> DEFINE P(j) == i + j \in used /\ \A k \in 0 .. j - 1 : i + k \notin used
<1>1. n \in Nat \ {0} /\ call.al \in Nat \ {0} /\ i \in Nat /\ used \in SUBSET Frames
  BY CallTyped DEF IInv, TypeOK
<1>2. PICK u \in used : u \in Nat /\ i <= u /\ u < i + n
  BY <1>1, RunFacts
<1>3. \E j \in 0 .. n - 1 : P(j)
  <2> DEFINE S == {j \in Nat : i + j \in used}
  <2>1. u - i \in S
    BY <1>1, <1>2
  <2>2. \E j \in S : \A k \in S : j <= k
    BY <2>1, NatMin, ZenonT(30)
  <2>3. PICK j \in S : \A k \in S : j <= k
    BY <2>2
  <2>4. j <= u - i
    BY <2>1, <2>3
  <2>5. j \in 0 .. n - 1
    BY <1>1, <1>2, <2>3, <2>4
  <2>6. \A k \in 0 .. j - 1 : i + k \notin used
    BY <2>3, <2>5
  <2>7. QED
    BY <2>3, <2>5, <2>6
<1>4. PICK j \in 0 .. n - 1 : P(j) /\ PastUsed(i, n) = i + j + 1
  <2>1. P(CHOOSE j \in 0 .. n - 1 : P(j)) /\ (CHOOSE j \in 0 .. n - 1 : P(j)) \in 0 .. n - 1
    BY <1>3, Zenon
  <2>2. PastUsed(i, n) = i + (CHOOSE j \in 0 .. n - 1 : P(j)) + 1
    BY DEF PastUsed
  <2>3. QED
    BY <2>1, <2>2
<1>5. ASSUME NEW b \in A!Fits(Frames \ used, n, call.al), i <= b
      PROVE  i + j + 1 <= b
  <2>1. b \in Nat /\ Run(b, n) \subseteq Frames \ used
    <3>1. Frames \ used \in SUBSET Frames
      OBVIOUS
    <3>2. QED
      BY <1>1, <3>1, FitsFacts, ZenonT(30)
  <2>2. i + j \notin Run(b, n)
    BY <1>4, <2>1
  <2>3. \A k : k \in Run(b, n) <=> k \in Nat /\ b <= k /\ k < b + n
    BY <1>1, <2>1, RunFacts
  <2>4. ~(i + j \in Nat /\ b <= i + j /\ i + j < b + n)
    BY <2>2, <2>3, Zenon
  <2>5. QED
    BY <1>1, <2>1, <2>4, <1>5
<1>6. i + j + 1 \in Nat
  BY <1>1
<1>7. QED
  BY <1>4, <1>5, <1>6, Zenon

LEMMA ContigStepInv == IInv /\ ContigStep => IInv'
<1> SUFFICES ASSUME IInv, ContigStep PROVE IInv'
  OBVIOUS
<1> DEFINE n == call.n
<1>1. /\ pc = "contig" /\ n \in Nat \ {0} /\ call.al \in Nat \ {0} /\ i \in Nat
      /\ used \in SUBSET Frames /\ NFrames \in Nat \ {0} /\ ent' = ent
  BY CallTyped, FramesFinite DEF IInv, TypeOK, ContigStep
<1>2. ASSUME NEW k \in Nat,
             \A b \in A!Fits(Frames \ used, n, call.al) : i <= b => k <= b,
             i' = k, UNCHANGED <<used, free, cursor, pc, call, ret, held, ent>>
      PROVE  IInv'
  <2>1. TypeOK' /\ FreeExact' /\ OneOwner' /\ CallInv'
    BY <1>2, ZenonT(30) DEF IInv, TypeOK, FreeExact, OneOwner, Reserved, CallInv
  <2>2. ContigInv'
    BY <1>1, <1>2 DEF IInv, ContigInv
  <2>3. QED
    BY <1>1, <1>2, <2>1, <2>2 DEF IInv, BootInv, NextInv
<1>3. CASE i + n > NFrames
  BY <1>1, <1>3, RefuseKeeps DEF ContigStep
<1>4. CASE ~(i + n > NFrames) /\ i % call.al # 0
  <2>1. i + (call.al - (i % call.al)) \in Nat
    BY <1>1
  <2>2. \A b \in A!Fits(Frames \ used, n, call.al) : i <= b => i + (call.al - (i % call.al)) <= b
    <3>1. Frames \ used \in SUBSET Frames
      OBVIOUS
    <3>2. \A b \in A!Fits(Frames \ used, n, call.al) : b \in Nat /\ b % call.al = 0
      BY <1>1, <3>1, FitsFacts, ZenonT(30)
    <3>3. QED
      BY <1>1, <1>4, <3>2, NextMultiple
  <2>3. i' = i + (call.al - (i % call.al)) /\ UNCHANGED <<used, free, cursor, pc, call, ret, held, ent>>
    BY <1>4 DEF ContigStep
  <2>4. QED
    BY <1>2, <2>1, <2>2, <2>3, ZenonT(30)
<1>5. CASE ~(i + n > NFrames) /\ i % call.al = 0 /\ Run(i, n) \cap used # {}
  <2>1. i' = PastUsed(i, n) /\ UNCHANGED <<used, free, cursor, pc, call, ret, held, ent>>
    BY <1>5 DEF ContigStep
  <2>2. QED
    BY <1>1, <1>2, <1>5, <2>1, PastUsedFacts, ZenonT(30)
<1>6. CASE ~(i + n > NFrames) /\ i % call.al = 0 /\ Run(i, n) \cap used = {}
  <2>1. Give(i) /\ UNCHANGED <<cursor, ent>>
    BY <1>6 DEF ContigStep
  <2>2. i \in Frames /\ Run(i, n) \subseteq Frames \ used
    BY <1>1, <1>6, RunFacts DEF Frames
  <2>3. cursor' \in Frames
    BY <2>1 DEF IInv, TypeOK
  <2>4. QED
    BY <1>1, <2>1, <2>2, <2>3, GiveKeeps
<1>7. QED
  BY <1>3, <1>4, <1>5, <1>6

\* A run goes back whole: its frames are set, and nobody else's.
LEMMA FreeFramesInv == ASSUME IInv, NEW h \in held, FreeFrames(h) PROVE IInv'
<1> DEFINE r == Run(h[1], h[2])
<1>1. used = Reserved \cup UNION {Run(g[1], g[2]) : g \in held} /\ used \in SUBSET Frames
  BY DEF IInv, OneOwner, FreeFrames, TypeOK
<1>2. r \in SUBSET Frames /\ r \subseteq used
  BY <1>1
<1>3. used' \in SUBSET Frames /\ free' \in Nat /\ FreeExact'
  BY <1>2, GiveBackExact DEF IInv, TypeOK, FreeFrames
<1>4. TypeOK'
  BY <1>3 DEF IInv, TypeOK, FreeFrames
<1>5. OneOwner'
  <2>1. r \cap Reserved = {} /\ \A g \in held \ {h} : r \cap Run(g[1], g[2]) = {}
    BY DEF IInv, OneOwner, FreeFrames
  <2>2. used' = used \ r /\ held' = held \ {h} /\ Reserved' = Reserved
    BY DEF FreeFrames, SetFree, Reserved
  <2>3. used' = Reserved \cup UNION {Run(g[1], g[2]) : g \in held'}
    <3>1. UNION {Run(g[1], g[2]) : g \in held} = r \cup UNION {Run(g[1], g[2]) : g \in held \ {h}}
      BY Zenon
    <3>2. r \cap UNION {Run(g[1], g[2]) : g \in held \ {h}} = {}
      BY <2>1
    <3>3. QED
      BY <1>1, <2>1, <2>2, <3>1, <3>2
  <2>4. QED
    BY <2>2, <2>3 DEF IInv, OneOwner, FreeFrames
<1>6. QED
  BY <1>3, <1>4, <1>5 DEF IInv, CallInv, BootInv, NextInv, ContigInv, FreeFrames

LEMMA NextKeeps == IInv /\ [Next]_vars => IInv'
<1> SUFFICES ASSUME IInv, [Next]_vars PROVE IInv'
  BY SMTT(30)
<1>1. CASE UNCHANGED vars
  BY <1>1, ZenonT(30) DEF vars, IInv, TypeOK, FreeExact, CallInv, BootInv, NextInv, ContigInv, OneOwner,
              Reserved
<1>2. CASE Call("one", 1, 1)
  BY <1>2, CallKeeps
<1>3. CASE \E n \in Sizes, al \in Aligns : Call("contig", n, al)
  BY <1>3, CallKeeps
<1>4. QED
  BY <1>1, <1>2, <1>3, BootFreeInv, BootReserveInv, CheckInv, AllocStepInv, ContigStepInv,
     FreeFramesInv DEF Next

\* The invariant holds in every reachable state.
LEMMA Invariance == Spec => []IInv
<1>1. Init => IInv
  BY InitInv
<1>2. IInv /\ [Next]_vars => IInv'
  BY NextKeeps
<1>3. QED
  BY <1>1, <1>2, PTL DEF Spec

\* For every memory map and every history of calls the counter of free frames is
\* the number of clear bits.  (set_used)
THEOREM CounterExact == Spec => []FreeExact
<1>1. IInv => FreeExact
  BY DEF IInv
<1>2. QED
  BY <1>1, Invariance, PTL

\* For every memory map and every history of calls, each frame is reserved, free,
\* or in one run that one caller holds: free_frames never panics on a run it gave.
THEOREM FramesHaveOneOwner == Spec => []OneOwner
<1>1. IInv => OneOwner
  BY DEF IInv
<1>2. QED
  BY <1>1, Invariance, PTL

-----------------------------------------------------------------------------
(* The refinement. *)

\* Outside mm::init the abstract free set is the clear bits.
LEMMA Up ==
  ASSUME pc # "boot", pc' # "boot"
  PROVE  /\ (IF pc = "boot" THEN {} ELSE Frames \ used) = Frames \ used
         /\ (IF pc' = "boot" THEN {} ELSE Frames \ used') = Frames \ used'
         /\ (pc # "boot") = TRUE /\ (pc' # "boot") = TRUE
OBVIOUS

\* What is given leaves the free set.
LEMMA GiveMaps ==
  ASSUME NEW b, pc # "boot", Give(b)
  PROVE  A!Give(b)
<1>1. Frames \ used' = (Frames \ used) \ Run(b, call.n)
  BY DEF Give, SetUsed
<1>2. pc' # "boot" /\ A!Run(b, call.n) = Run(b, call.n)
  BY DEF Give, A!Run, Run
<1>3. QED
  BY <1>1, <1>2, Up DEF Give, A!Give

LEMMA RefuseMaps ==
  ASSUME pc # "boot", Refuse
  PROVE  A!Refuse
BY DEF Refuse, A!Refuse

LEMMA AllocStepMaps ==
  ASSUME IInv, AllocStep
  PROVE  A!One \/ UNCHANGED A!vars
<1>1. pc = "one" /\ call # NoCall /\ call.op = "one" /\ i \in Frames
  BY DEF IInv, CallInv, NextInv, AllocStep
<1>2. CASE i \notin used
  <2>1. A!Give(i)
    BY <1>1, <1>2, GiveMaps DEF AllocStep
  <2>2. QED
    BY <1>1, <1>2, <2>1 DEF A!One
<1>3. CASE i \in used
  <2>1. UNCHANGED <<used, pc, call, ret, held>>
    BY <1>1, <1>3, NeverAround DEF AllocStep
  <2>2. QED
    BY <2>1 DEF A!vars
<1>4. QED
  BY <1>2, <1>3

LEMMA ContigStepMaps ==
  ASSUME IInv, ContigStep
  PROVE  A!Contig \/ UNCHANGED A!vars
<1> DEFINE n == call.n
<1> DEFINE S == A!Fits(Frames \ used, n, call.al)
<1>1. /\ pc = "contig" /\ call # NoCall /\ call.op = "contig" /\ i \in Nat
      /\ n \in Nat \ {0} /\ call.al \in Nat \ {0} /\ NFrames \in Nat
  BY CallTyped, FramesFinite DEF IInv, TypeOK, CallInv, ContigStep
<1>2. \A b : b \in S <=>
        b \in Nat /\ b + n <= NFrames /\ b % call.al = 0 /\ Run(b, n) \subseteq Frames \ used
  <2>1. Frames \ used \in SUBSET Frames
    OBVIOUS
  <2>2. QED
    BY <1>1, <2>1, FitsFacts, ZenonT(30)
<1>3. \A b \in S : i <= b
  BY <1>1 DEF IInv, ContigInv
<1>4. CASE i + n > NFrames
  <2>1. S = {}
    <3>1. \A b \in S : b \in Nat /\ b + n <= NFrames /\ i <= b
      BY <1>2, <1>3, Zenon
    <3>2. \A b \in S : FALSE
      BY <1>1, <1>4, <3>1
    <3>3. QED
      BY <3>2, Zenon
  <2>2. A!Refuse
    BY <1>1, <1>4, RefuseMaps DEF ContigStep
  <2>3. QED
    BY <1>1, <2>1, <2>2 DEF A!Contig
<1>5. CASE ~(i + n > NFrames) /\ (i % call.al # 0 \/ Run(i, n) \cap used # {})
  <2>1. UNCHANGED <<used, pc, call, ret, held>>
    BY <1>5 DEF ContigStep
  <2>2. QED
    BY <2>1 DEF A!vars
<1>6. CASE ~(i + n > NFrames) /\ i % call.al = 0 /\ Run(i, n) \cap used = {}
  <2>1. A!Give(i)
    BY <1>1, <1>6, GiveMaps DEF ContigStep
  <2>2. i \in S
    <3>1. Run(i, n) \subseteq Frames \ used
      BY <1>1, <1>6, RunFacts DEF Frames
    <3>2. i + n <= NFrames
      BY <1>1, <1>6
    <3>3. QED
      BY <1>1, <1>2, <1>6, <3>1, <3>2, Zenon
  <2>3. A!IsLowest(i, S)
    BY <1>3, <2>2 DEF A!IsLowest
  <2>4. QED
    BY <1>1, <2>1, <2>2, <2>3 DEF A!Contig
<1>7. QED
  BY <1>4, <1>5, <1>6, SMTT(30)

LEMMA CheckMaps ==
  ASSUME IInv, Check
  PROVE  A!One \/ A!Contig \/ UNCHANGED A!vars
<1>1. pc = "check" /\ call # NoCall /\ call.op \in {"one", "contig"}
  BY CallTyped DEF IInv, CallInv, Check
<1>2. CASE free < call.n
  <2>1. A!Refuse
    BY <1>1, <1>2, RefuseMaps DEF Check
  <2>2. QED
    BY <1>1, <1>2, <2>1, TooFew DEF A!One, A!Contig
<1>3. CASE ~(free < call.n)
  <2>1. UNCHANGED <<used, call, ret, held>> /\ pc' = call.op
    BY <1>3 DEF Check
  <2>2. QED
    BY <1>1, <2>1 DEF A!vars
<1>4. QED
  BY <1>2, <1>3

LEMMA StepMaps ==
  ASSUME IInv, [Next]_vars
  PROVE  [A!Next]_(A!vars)
<1>1. CASE UNCHANGED vars
  BY <1>1 DEF vars, A!vars
<1>2. CASE BootFree
  BY <1>2 DEF BootFree, A!vars
<1>3. CASE BootReserve
  <2>1. used' = Reserved
    BY <1>3, BootReserveInv
  <2>2. A!Start
    BY <1>3, <2>1 DEF BootReserve, A!Start
  <2>3. QED
    BY <2>2 DEF A!Next
<1>4. ASSUME NEW op, NEW n, NEW al, Call(op, n, al) PROVE A!Call(op, n, al)
  BY <1>4 DEF IInv, CallInv, Call, A!Call
<1>5. CASE Call("one", 1, 1) \/ \E n \in Sizes, al \in Aligns : Call("contig", n, al)
  BY <1>4, <1>5 DEF A!Next
<1>6. CASE Check \/ AllocStep \/ ContigStep
  BY <1>6, CheckMaps, AllocStepMaps, ContigStepMaps DEF A!Next
<1>7. ASSUME NEW h \in held, FreeFrames(h) PROVE A!Return(h)
  <2>1. Run(h[1], h[2]) \subseteq Frames
    BY <1>7 DEF IInv, OneOwner, TypeOK, FreeFrames
  <2>2. Frames \ used' = (Frames \ used) \cup Run(h[1], h[2])
    BY <1>7, <2>1 DEF FreeFrames, SetFree
  <2>3. A!Run(h[1], h[2]) = Run(h[1], h[2])
    BY DEF A!Run, Run
  <2>4. QED
    BY <1>7, <2>2, <2>3 DEF IInv, CallInv, FreeFrames, A!Return
<1>8. CASE \E h \in held : FreeFrames(h)
  BY <1>7, <1>8 DEF A!Next
<1>9. QED
  BY <1>1, <1>2, <1>3, <1>5, <1>6, <1>8 DEF Next

\* For every memory map, size and alignment the bitmap implements the set of free
\* frames: nothing that serves a request is ever passed over, and a run that is
\* given is the lowest.  (alloc, alloc_contig)
THEOREM BitmapIsFreeSet == Spec => IsFreeSet
<1>1. Init => A!Init
  BY DEF Init, A!Init
<1>2. IInv /\ [Next]_vars => [A!Next]_(A!vars)
  BY StepMaps
<1>3. QED
  BY <1>1, <1>2, Invariance, PTL DEF Spec, IsFreeSet, A!Spec
=============================================================================
