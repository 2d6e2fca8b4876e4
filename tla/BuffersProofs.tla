---------------------------- MODULE BuffersProofs ----------------------------
(***************************************************************************)
(* For any number of cores and buffers: a buffer has one owner, and a pin  *)
(* made while no take is under way holds for ever.                         *)
(***************************************************************************)
EXTENDS Buffers, TLAPS

\* Ids that are not handed out are nowhere.
Unborn == \A b \in Ids : b >= next_buf => b \notin bufs /\ taken[b] = 0

\* A core past its call knows a buffer that was handed out, in an attach the backing
\* too, and one that is about to tell the device has recorded the pin.
Knows ==
  \A c \in Cores :
    /\ pc[c] # "idle" => id[c] \in Ids /\ id[c] < next_buf
    /\ backing[c] # NoBuf => backing[c] < next_buf
    /\ pc[c] = "give" => id[c] \in pinned

IInv == TakenOnce /\ Unborn /\ Knows

Counted == \A b \in Ids : b < next_buf => taken[b] + (IF b \in bufs THEN 1 ELSE 0) = 1

Places == [Cores -> {"idle", "check", "remove", "pin", "record", "give"}]
Names == [Cores -> Ids \cup {NoBuf}]

LEMMA FlagSet ==
  ASSUME NEW f \in [Cores -> BOOLEAN], NEW c \in Cores, NEW v \in BOOLEAN
  PROVE  [f EXCEPT ![c] = v] \in [Cores -> BOOLEAN]
OBVIOUS

LEMMA InitInv == Init => IInv
BY BufAssumption DEF Init, IInv, TakenOnce, TypeOK, Unborn, Knows, Ids, Cores

-----------------------------------------------------------------------------
(* What happens to the table. *)

LEMMA TableKept ==
  ASSUME IInv, UNCHANGED <<bufs, next_buf, taken>>
  PROVE  Counted' /\ Unborn' /\ bufs' \in SUBSET Ids /\ next_buf' \in 1 .. MaxBuf + 1 /\ taken' \in [Ids -> Nat]
BY DEF IInv, TakenOnce, TypeOK, Counted, Unborn

\* A new buffer has an id that nobody took before.
LEMMA TableGrows ==
  ASSUME IInv, next_buf <= MaxBuf,
         bufs' = bufs \cup {next_buf}, next_buf' = next_buf + 1, taken' = taken
  PROVE  Counted' /\ Unborn' /\ bufs' \in SUBSET Ids /\ next_buf' \in 1 .. MaxBuf + 1 /\ taken' \in [Ids -> Nat]
<1>1. /\ next_buf \in Ids /\ next_buf \in Nat /\ bufs \in SUBSET Ids
      /\ next_buf' \in 1 .. MaxBuf + 1 /\ taken \in [Ids -> Nat]
  BY BufAssumption DEF IInv, TakenOnce, TypeOK, Ids
<1>2. next_buf \notin bufs /\ taken[next_buf] = 0
  BY <1>1 DEF IInv, Unborn
<1>3. \A b \in Ids : b \in Nat /\ (b < next_buf' <=> b < next_buf \/ b = next_buf)
  BY <1>1 DEF Ids
<1>4. Counted'
  BY <1>1, <1>2, <1>3 DEF IInv, TakenOnce, Counted
<1>5. Unborn'
  BY <1>1, <1>3 DEF IInv, Unborn
<1> QED
  BY <1>1, <1>4, <1>5

LEMMA Assembled ==
  ASSUME Counted', Unborn', Knows', bufs' \in SUBSET Ids, next_buf' \in 1 .. MaxBuf + 1,
         taken' \in [Ids -> Nat], pinned' \in SUBSET Ids, device' \in SUBSET pinned',
         pc' \in Places, id' \in Names, backing' \in Names, cmd' \in [Cores -> BOOLEAN]
  PROVE  IInv'
BY DEF IInv, TakenOnce, TypeOK, Counted, Places, Names

\* The types of IInv.
LEMMA Types ==
  ASSUME IInv
  PROVE  /\ bufs \in SUBSET Ids /\ pinned \in SUBSET Ids /\ device \in SUBSET pinned
         /\ next_buf \in Nat /\ taken \in [Ids -> Nat]
         /\ pc \in Places /\ id \in Names /\ backing \in Names /\ cmd \in [Cores -> BOOLEAN]
BY BufAssumption DEF IInv, TakenOnce, TypeOK, Places, Names

-----------------------------------------------------------------------------
(* The actions. *)

LEMMA CreateInv == ASSUME IInv, NEW c \in Cores, BufCreate(c) PROVE IInv'
<1>1. Knows'
  <2>1. \A d \in Ids : d < next_buf => d < next_buf'
    BY Types DEF BufCreate, Ids
  <2>2. \A d \in Cores : backing[d] # NoBuf => backing[d] \in Ids
    BY Types DEF Names
  <2> QED
    BY <2>1, <2>2 DEF BufCreate, IInv, Knows
<1> QED
  BY <1>1, TableGrows, Assembled, Types DEF BufCreate

LEMMA CallInv ==
  ASSUME IInv, NEW c \in Cores, NEW b \in Ids,
         TakeCall(c, b) \/ \E k \in Ids : AttachCall(c, b, k)
  PROVE  IInv'
<1>1. pc' \in Places /\ id' \in Names /\ backing' \in Names
  BY Types DEF TakeCall, AttachCall, Goto, Places, Names
<1>2. Knows'
  BY Types DEF TakeCall, AttachCall, Goto, IInv, Knows, Places, Names
<1>3. UNCHANGED <<bufs, next_buf, taken, pinned, device, cmd>>
  BY DEF TakeCall, AttachCall
<1> QED
  BY <1>1, <1>2, <1>3, TableKept, Assembled, Types

\* Where buf_take returns to.
LEMMA ReturnedKeeps ==
  ASSUME IInv, NEW c \in Cores, NEW got \in BOOLEAN, Returned(c, got)
  PROVE  /\ pc' \in Places /\ id' \in Names /\ cmd' \in [Cores -> BOOLEAN]
         /\ UNCHANGED <<next_buf, backing, pinned>> => Knows'
<1>1. pc' \in Places /\ id' \in Names
  BY Types DEF Returned, Goto, Places, Names
<1>2. cmd' \in [Cores -> BOOLEAN]
  BY Types, FlagSet DEF Returned
<1>3. ASSUME UNCHANGED <<next_buf, backing, pinned>> PROVE Knows'
  BY <1>3, Types DEF Returned, Goto, IInv, Knows, Places, Names
<1> QED
  BY <1>1, <1>2, <1>3

LEMMA TakeCheckInv == ASSUME IInv, NEW c \in Cores, TakeCheck(c) PROVE IInv'
<1>1. UNCHANGED <<bufs, pinned, next_buf, device, taken, backing>>
  BY DEF TakeCheck
<1>2. CASE Returned(c, FALSE)
  BY <1>1, <1>2, ReturnedKeeps, TableKept, Assembled, Types, ZenonT(30)
<1>3. CASE Goto(c, "remove") /\ UNCHANGED <<id, cmd>>
  <2>1. pc' \in Places
    BY <1>3, Types DEF Goto, Places
  <2>2. Knows'
    BY <1>1, <1>3, Types DEF TakeCheck, Goto, IInv, Knows, Places
  <2> QED
    BY <1>1, <1>3, <2>1, <2>2, TableKept, Assembled, Types
<1> QED
  BY <1>2, <1>3, ZenonT(30) DEF TakeCheck

\* The buffer leaves the table in the step that counts it.
LEMMA TakeRemoveInv == ASSUME IInv, NEW c \in Cores, TakeRemove(c) PROVE IInv'
<1> DEFINE b == id[c]
<1>1. b \in Ids /\ b < next_buf /\ bufs' = bufs \ {b}
  BY DEF TakeRemove, Removed, IInv, Knows
<1>2. taken' = IF b \in bufs THEN [taken EXCEPT ![b] = @ + 1] ELSE taken
  BY DEF TakeRemove
<1>3. UNCHANGED <<pinned, next_buf, device, backing>>
  BY DEF TakeRemove
<1>4. taken' \in [Ids -> Nat]
  BY <1>1, <1>2, Types
<1>5. Counted'
  BY <1>1, <1>2, <1>3, Types DEF IInv, TakenOnce, Counted
<1>6. Unborn'
  BY <1>1, <1>2, <1>3, Types DEF IInv, Unborn, Ids
<1>7. /\ pc' \in Places /\ id' \in Names /\ cmd' \in [Cores -> BOOLEAN] /\ Knows'
  <2>1. (id[c] \in bufs) \in BOOLEAN
    OBVIOUS
  <2>2. Returned(c, id[c] \in bufs)
    BY DEF TakeRemove
  <2> QED
    BY <2>1, <2>2, <1>3, ReturnedKeeps, ZenonT(30)
<1>8. next_buf' \in 1 .. MaxBuf + 1
  BY <1>3 DEF IInv, TakenOnce, TypeOK
<1> QED
  BY <1>1, <1>3, <1>4, <1>5, <1>6, <1>7, <1>8, Assembled, Types

\* The end of an attach.
LEMMA AttachedKeeps ==
  ASSUME IInv, NEW c \in Cores, Attached(c), pinned' = pinned, next_buf' \in Nat, next_buf' >= next_buf
  PROVE  /\ pc' \in Places /\ id' \in Names /\ backing' \in Names /\ cmd' \in [Cores -> BOOLEAN]
         /\ Knows'
<1>1. pc' \in Places /\ id' \in Names /\ backing' \in Names
  BY Types DEF Attached, Goto, Places, Names
<1>2. cmd' \in [Cores -> BOOLEAN]
  BY Types, FlagSet DEF Attached
<1>3. \A d \in Ids : d < next_buf => d < next_buf'
  BY Types DEF Ids
<1>4. \A d \in Cores : backing[d] # NoBuf => backing[d] \in Ids
  BY Types DEF Names
<1>5. Knows'
  BY <1>3, <1>4, Types DEF Attached, Goto, IInv, Knows, Places, Names
<1> QED
  BY <1>1, <1>2, <1>5

LEMMA PinLookInv == ASSUME IInv, NEW c \in Cores, PinLook(c) PROVE IInv'
<1>1. UNCHANGED <<bufs, pinned, next_buf, device, taken>>
  BY DEF PinLook
<1>2. CASE Attached(c)
  BY <1>1, <1>2, AttachedKeeps, TableKept, Assembled, Types
<1>3. CASE Goto(c, "record") /\ UNCHANGED <<id, backing, cmd>>
  <2>1. pc' \in Places
    BY <1>3, Types DEF Goto, Places
  <2>2. Knows'
    BY <1>1, <1>3, Types DEF PinLook, Goto, IInv, Knows, Places
  <2> QED
    BY <1>1, <1>3, <2>1, <2>2, TableKept, Assembled, Types
<1> QED
  BY <1>2, <1>3 DEF PinLook

LEMMA PinRecordInv == ASSUME IInv, NEW c \in Cores, PinRecord(c) PROVE IInv'
<1>1. UNCHANGED <<bufs, next_buf, device, taken, id, backing, cmd>>
  BY DEF PinRecord
<1>2. pc' \in Places /\ pinned' \in SUBSET Ids /\ device' \in SUBSET pinned'
  BY Types DEF PinRecord, Recorded, Goto, Places, IInv, Knows
<1>3. Knows'
  BY <1>1, Types DEF PinRecord, Recorded, Goto, IInv, Knows, Places
<1> QED
  BY <1>1, <1>2, <1>3, TableKept, Assembled, Types

LEMMA GiveInv == ASSUME IInv, NEW c \in Cores, Give(c) PROVE IInv'
<1>1. Attached(c) /\ UNCHANGED <<pinned, taken>>
  BY DEF Give
<1>2. device' \in SUBSET pinned'
  BY <1>1, Types DEF Give, IInv, Knows
<1>3. CASE UNCHANGED <<bufs, next_buf>>
  BY <1>1, <1>2, <1>3, AttachedKeeps, TableKept, Assembled, Types
<1>4. CASE next_buf <= MaxBuf /\ bufs' = bufs \cup {next_buf} /\ next_buf' = next_buf + 1
  <2>1. next_buf' \in Nat /\ next_buf' >= next_buf
    BY <1>4, Types
  <2> QED
    BY <1>1, <1>2, <1>4, <2>1, AttachedKeeps, TableGrows, Assembled, Types
<1> QED
  BY <1>3, <1>4 DEF Give

-----------------------------------------------------------------------------
(* The theorems. *)

LEMMA Invariance == Spec => []IInv
<1>1. IInv /\ [Next]_vars => IInv'
  <2> SUFFICES ASSUME IInv, [Next]_vars PROVE IInv'
    OBVIOUS
  <2>1. CASE UNCHANGED vars
    BY <2>1 DEF vars, IInv, TakenOnce, TypeOK, Unborn, Knows
  <2>2. CASE Next
    BY <2>2, CreateInv, CallInv, TakeCheckInv, TakeRemoveInv, PinLookInv, PinRecordInv, GiveInv DEF Next
  <2> QED
    BY <2>1, <2>2
<1> QED
  BY InitInv, <1>1, PTL DEF Spec

\* However many cores take, pin and attach, a buffer is moved out at most once and is
\* in the table until then.  (buf_take's remove under BUFFERS)
THEOREM BufferHasOneOwner == Spec => []TakenOnce
<1>1. IInv => TakenOnce
  BY DEF IInv
<1> QED
  BY Invariance, <1>1, PTL

\* Once a buffer is pinned with no take past its check, no step of any core takes it
\* out: every later take sees the pin.  (buf_pin, buf_take)
THEOREM PinIsForEver == Spec => PinHolds
<1>1. IInv /\ [Next]_vars => [SafelyPinned \subseteq SafelyPinned']_vars
  <2> SUFFICES ASSUME IInv, Next, NEW b \in SafelyPinned
               PROVE  b \in SafelyPinned'
    OBVIOUS
  <2>1. b \in pinned /\ b \in bufs /\ \A c \in Cores : ~(pc[c] = "remove" /\ id[c] = b)
    BY DEF SafelyPinned
  <2>2. PICK c \in Cores : \/ BufCreate(c)
                           \/ \E k \in Ids : TakeCall(c, k) \/ \E l \in Ids : AttachCall(c, k, l)
                           \/ TakeCheck(c) \/ TakeRemove(c) \/ PinLook(c) \/ PinRecord(c) \/ Give(c)
    BY SMTT(30) DEF Next
  <2>3. b \in pinned'
    BY <2>1, <2>2, ZenonT(30) DEF BufCreate, TakeCall, AttachCall, TakeCheck, TakeRemove, PinLook, PinRecord,
                      Recorded, Give
  <2>4. b \in bufs'
    BY <2>1, <2>2, ZenonT(30) DEF BufCreate, TakeCall, AttachCall, TakeCheck, TakeRemove, Removed, PinLook,
                      PinRecord, Give
  <2>5. \A d \in Cores : ~(pc'[d] = "remove" /\ id'[d] = b)
    BY <2>1, <2>2 DEF BufCreate, TakeCall, AttachCall, TakeCheck, IsPinned, TakeRemove, Returned,
                      PinLook, PinRecord, Give, Attached, Goto, IInv, TakenOnce, TypeOK
  <2> QED
    BY <2>3, <2>4, <2>5 DEF SafelyPinned
<1> QED
  BY Invariance, <1>1, PTL DEF Spec, PinHolds
=============================================================================
