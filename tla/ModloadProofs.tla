---------------------------- MODULE ModloadProofs ----------------------------
(***************************************************************************)
(* For any number of modules, processes and loaders: what a compiled call  *)
(* is bound to stays, versions are told apart, and a purge kills exactly   *)
(* the processes left behind.                                              *)
(***************************************************************************)
EXTENDS Modload, TLAPS

\* Time limits of the steps that name no prover.
USE SMTT(30), ZenonT(30)

InstRec == [name : Names, ver : Nat, sealed : BOOLEAN, jit : BOOLEAN, binds : SUBSET Nat]
SlotRec == [cur : Nat, old : Nat]
Frame == [inst : Nat, kind : {"noted", "direct", "resumed"}, back : Notes]
CallRec == [how : {"none", "call", "tail"}, inst : Nat, back : Notes]
NotingRec == [inst : Nat, by : Procs \cup {"kernel", "nobody"}]
LoadRec == [on : {TRUE}, name : Names, sealed : BOOLEAN, jit : BOOLEAN, binds : SUBSET Nat,
            todo : SUBSET Names]
States == {"new", "alive", "killed", "dead"}

CodeTypes ==
  /\ insts \in Seq(InstRec)
  /\ slots \in [Names -> SlotRec]
  /\ loading \in [Loaders -> {Idle} \cup LoadRec]

ProcTypes ==
  /\ running \in [Procs -> Notes] /\ procs \in [Procs -> States]
  /\ stack \in [Procs -> Seq(Frame)] /\ call \in [Procs -> CallRec]
  /\ noting \in [Procs -> NotingRec]

\* Sealed and compiled: what a direct call may be bound to.
Immortal(b) == b \in Insts /\ insts[b].sealed /\ insts[b].jit

\* Instance k, which is i, under a name whose current instance is cur, which is now:
\* the current version is the newest there ever was, and a sealed one is it for ever.
Ranked(k, i, cur, now) ==
  /\ cur # None
  /\ k = cur \/ i.ver < now.ver
  /\ 1 <= i.ver /\ i.ver <= k
  /\ i.sealed => cur = k

CurOf(k) == slots[insts[k].name].cur

InstInv == \A k \in Insts : Ranked(k, insts[k], CurOf(k), insts[CurOf(k)])

SlotInv ==
  \A m \in Names : \A k \in {slots[m].cur, slots[m].old} \ {None} : k \in Insts /\ insts[k].name = m

\* Only immortal instances are bound.
BindInv ==
  /\ \A k \in Insts : \A b \in insts[k].binds : Immortal(b)
  /\ \A l \in Loaders : loading[l].on => \A b \in loading[l].binds : Immortal(b)

CodeInv == CodeTypes /\ VersionsDistinct /\ InstInv /\ SlotInv /\ BindInv

\* What holds of process p: it has frames while it lives, and a frame that keeps no
\* instance itself is in an immortal one.
ProcAt(p) ==
  /\ stack[p] # <<>> <=> Live(p)
  /\ Len(stack[p]) <= MaxFrames
  /\ call[p].how # "none" => Live(p) /\ call[p].inst \in Insts
  /\ call[p].how = "none" => call[p] = NoCall
  /\ call[p].how = "call" => Len(stack[p]) < MaxFrames
  /\ call[p].how = "tail" /\ Len(stack[p]) = 1 => call[p].back = NoNote
  /\ noting[p].inst # None => noting[p].inst \in Insts
  /\ \A j \in DOMAIN stack[p] : stack[p][j].inst \in Insts
  /\ \A j \in DOMAIN stack[p] : stack[p][j].kind # "noted" => Immortal(stack[p][j].inst)
  /\ ~Live(p) => running[p] = NoNote

\* Frame k is the innermost noted one of the first n.
InnerAt(st, n, k) == k \in 1 .. n /\ st[k].kind = "noted" /\ \A j \in k + 1 .. n : st[j].kind # "noted"

\* note is what RUNNING should say in the first n frames, with instances ins.
Says(ins, st, n, note) ==
  \A k \in 1 .. n : InnerAt(st, n, k) => note = <<ins[st[k].inst].name, ins[st[k].inst].ver>>

\* The shape of a stack: its first frame is noted.
Shape(st) ==
  /\ st # <<>> => st[1].kind = "noted" /\ st[1].back = NoNote
  /\ \A i \in DOMAIN st : \E k \in 1 .. i : InnerAt(st, i, k)
  /\ \A j \in DOMAIN st : st[j].kind = "direct" => st[j].back = NoNote

\* A process that spawn_fn has not noted yet is still in its first function.
Unnoted(st, run, cl, first) ==
  /\ run = NoNote /\ first = st[1].inst
  /\ \A j \in 2 .. Len(st) : st[j].kind = "direct"
  /\ cl.how # "none" => cl.how = "tail" /\ Len(st) = 1

\* Every return, and every call under way, will restore what RUNNING should say.
Restores(ins, st, cl) ==
  /\ \A j \in 2 .. Len(st) : st[j].kind # "direct" => Says(ins, st, j - 1, st[j].back)
  /\ cl.how = "call" => Says(ins, st, Len(st), cl.back)
  /\ cl.how = "tail" /\ Len(st) > 1 => Says(ins, st, Len(st) - 1, cl.back)

\* RUNNING tells what the process executes.
Tells(ins, st, run, cl, first) ==
  /\ first = None => Says(ins, st, Len(st), run)
  /\ first # None => Unnoted(st, run, cl, first)
  /\ Restores(ins, st, cl)

NotedAt(p) == Tells(insts, stack[p], running[p], call[p], noting[p].inst)

Holds(p) == ProcAt(p) /\ Shape(stack[p]) /\ (Live(p) /\ p \notin stray => NotedAt(p))

ProcInv == \A p \in Procs : Holds(p)

IInv == CodeInv /\ ProcTypes /\ ProcInv /\ PurgeIsExact

-----------------------------------------------------------------------------
(* Sequences, notes and types. *)

LEMMA AppendFacts ==
  ASSUME NEW S, NEW s \in Seq(S), NEW e \in S
  PROVE  /\ Append(s, e) \in Seq(S) /\ Append(s, e) # <<>>
         /\ Len(s) \in Nat /\ Len(Append(s, e)) = Len(s) + 1
         /\ DOMAIN s = 1 .. Len(s) /\ DOMAIN Append(s, e) = 1 .. Len(s) + 1
         /\ \A i \in 1 .. Len(s) : Append(s, e)[i] = s[i]
         /\ Append(s, e)[Len(s) + 1] = e
OBVIOUS

LEMMA BelowFacts ==
  ASSUME NEW S, NEW s \in Seq(S), s # <<>>
  PROVE  /\ Below(s) \in Seq(S)
         /\ Len(s) \in Nat \ {0} /\ Len(Below(s)) = Len(s) - 1
         /\ DOMAIN s = 1 .. Len(s) /\ DOMAIN Below(s) = 1 .. Len(s) - 1
         /\ \A i \in 1 .. Len(s) - 1 : Below(s)[i] = s[i]
         /\ Top(s) = s[Len(s)] /\ Top(s) \in S
<1>1. Len(s) \in Nat \ {0} /\ DOMAIN s = 1 .. Len(s) /\ Len(s) \in DOMAIN s
  OBVIOUS
<1> QED
  BY <1>1 DEF Below, Top

\* A version is noted with a number the bound allows.
LEMMA NoteType ==
  ASSUME CodeInv, NEW k \in Insts
  PROVE  /\ Note(k) \in Notes /\ Note(k) # NoNote
         /\ Note(k)[1] = insts[k].name /\ Note(k)[2] = insts[k].ver
         /\ insts[k].name \in Names /\ insts[k].ver \in 1 .. Len(insts) /\ k \in Nat \ {0}
<1>2. insts[k] \in InstRec /\ k \in 1 .. Len(insts) /\ Len(insts) \in Nat
  BY DEF CodeInv, CodeTypes, Insts
<1> QED
  BY <1>2 DEF Note, Notes, NoNote, InstRec, CodeInv, InstInv, Ranked

LEMMA SlotTypes ==
  ASSUME CodeInv, NEW m \in Names
  PROVE  /\ slots[m].cur \in Nat /\ slots[m].old \in Nat
         /\ slots[m].cur # None => slots[m].cur \in Insts /\ insts[slots[m].cur].name = m
         /\ slots[m].old # None => slots[m].old \in Insts /\ insts[slots[m].old].name = m
BY ZenonT(30) DEF CodeInv, CodeTypes, SlotRec, SlotInv

LEMMA FrameTypes ==
  ASSUME ProcTypes, NEW p \in Procs
  PROVE  /\ stack[p] \in Seq(Frame) /\ call[p] \in CallRec /\ noting[p] \in NotingRec
         /\ running[p] \in Notes /\ procs[p] \in States
         /\ \A j \in DOMAIN stack[p] : stack[p][j] \in Frame
BY DEF ProcTypes

-----------------------------------------------------------------------------
(* Code. *)

\* The instances there are stay as they are.
Grows == /\ Insts \subseteq Insts' /\ \A k \in Insts : insts'[k] = insts[k]

LEMMA BeginCode ==
  ASSUME CodeInv, NEW l \in Loaders, NEW m \in Names, NEW kind \in Kinds[m],
         LoadBegin(l, m, kind.sealed, kind.jit, kind.sites)
  PROVE  CodeInv' /\ Grows
<1> DEFINE ld == [on |-> TRUE, name |-> m, sealed |-> kind.sealed, jit |-> kind.jit,
                  binds |-> {}, todo |-> kind.sites]
<1>1. /\ ~loading[l].on
      /\ loading' = [loading EXCEPT ![l] = ld] /\ insts' = insts /\ slots' = slots
  BY DEF LoadBegin
<1>2. ld \in LoadRec
  BY LoadsAssumption DEF LoadRec
<1> QED
  BY <1>1, <1>2 DEF CodeInv, CodeTypes, VersionsDistinct, InstInv, CurOf, SlotInv, Insts, Grows, BindInv, Immortal

LEMMA BindCode ==
  ASSUME CodeInv, NEW l \in Loaders, LoadBind(l)
  PROVE  CodeInv' /\ Grows
<1>1. PICK m \in loading[l].todo :
        loading' = [loading EXCEPT ![l].todo = @ \ {m},
                                   ![l].binds = @ \cup IF Bindable(m) THEN {slots[m].cur} ELSE {}]
  BY ZenonT(30) DEF LoadBind
<1>2. loading[l].on /\ insts' = insts /\ slots' = slots
  BY DEF LoadBind
<1>3. loading[l] \in LoadRec
  BY <1>2 DEF CodeInv, CodeTypes, Idle
<1>4. m \in Names
  BY <1>3, ZenonT(30) DEF LoadRec
<1> DEFINE new == loading[l].binds \cup IF Bindable(m) THEN {slots[m].cur} ELSE {}
           ld == [loading[l] EXCEPT !.todo = @ \ {m}, !.binds = new]
<1>6. new \in SUBSET Nat
  BY <1>3, <1>4, SlotTypes, ZenonT(30) DEF LoadRec
<1>7. loading' = [loading EXCEPT ![l] = ld]
  BY <1>1, <1>3, ZenonT(30) DEF CodeInv, CodeTypes, LoadRec
<1>8. ld \in LoadRec /\ ld.on /\ ld.binds = new
  BY <1>3, <1>6, ZenonT(30) DEF LoadRec
<1>9. \A b \in new : Immortal(b)
  BY <1>2, <1>4, SlotTypes DEF CodeInv, BindInv, Immortal, Bindable, Sealed
<1> HIDE DEF new, ld
<1>12. BindInv'
  BY <1>2, <1>7, <1>8, <1>9, ZenonT(30) DEF CodeInv, CodeTypes, BindInv, Insts, Immortal
<1> QED
  BY <1>2, <1>7, <1>8, <1>12, ZenonT(30) DEF CodeInv, CodeTypes, VersionsDistinct, InstInv, CurOf, SlotInv, Insts, Grows

\* A committed version is newer than every other of its name, and takes the place
\* of one that is not sealed.
LEMMA CommitCode ==
  ASSUME CodeInv, NEW l \in Loaders, LoadCommit(l)
  PROVE  CodeInv' /\ Grows
<1> DEFINE ld == loading[l]
           m == loading[l].name
           new == Len(insts) + 1
           inst == [name |-> m, ver |-> NextVersion(m), sealed |-> ld.sealed, jit |-> ld.jit, binds |-> ld.binds]
<1>1. /\ ld.on /\ loading' = [loading EXCEPT ![l] = Idle]
      /\ IF Replaces(m)
         THEN /\ insts' = Append(insts, inst)
              /\ slots' = [slots EXCEPT ![m] = [cur |-> new, old |-> slots[m].cur]]
         ELSE UNCHANGED <<insts, slots>>
  BY ZenonT(30) DEF LoadCommit
<1>2. ld \in LoadRec /\ m \in Names
  <2>1. ld \in LoadRec
    BY <1>1 DEF CodeInv, CodeTypes, Idle
  <2> QED
    BY <2>1, ZenonT(30) DEF LoadRec
<1>5. Len(insts) \in Nat /\ Insts = 1 .. Len(insts)
  BY DEF CodeInv, CodeTypes, Insts
<1>6. CASE ~Replaces(m)
  <2>1. insts' = insts /\ slots' = slots
    BY <1>1, <1>6, ZenonT(30)
  <2>2. CodeTypes'
    BY <1>1, <2>1, ZenonT(30) DEF CodeInv, CodeTypes
  <2>4. (VersionsDistinct /\ InstInv /\ SlotInv)' /\ Grows
    BY <2>1, ZenonT(30) DEF CodeInv, VersionsDistinct, InstInv, CurOf, SlotInv, Insts, Grows
  <2>5. BindInv'
    BY <1>1, <2>1, ZenonT(30) DEF CodeInv, CodeTypes, BindInv, Insts, Immortal, Idle
  <2> QED
    BY <2>2, <2>4, <2>5 DEF CodeInv
<1>7. CASE Replaces(m)
  <2>1. insts' = Append(insts, inst) /\ slots' = [slots EXCEPT ![m] = [cur |-> new, old |-> slots[m].cur]]
    BY <1>1, <1>7, ZenonT(30)
  <2>2. NextVersion(m) \in Nat /\ 1 <= NextVersion(m) /\ NextVersion(m) <= new
    <3>1. slots[m].cur # None => slots[m].cur \in Insts
      BY <1>2, SlotTypes, ZenonT(30)
    <3> HIDE DEF m
    <3>2. slots[m].cur # None => insts[slots[m].cur].ver \in 1 .. Len(insts)
      BY <3>1, NoteType, ZenonT(30)
    <3> QED
      BY <1>5, <3>2 DEF NextVersion
  <2>3. inst \in InstRec
    BY <1>2, <2>2, ZenonT(30) DEF InstRec, LoadRec
  <2>4. /\ insts' \in Seq(InstRec) /\ Len(insts') = new /\ Insts' = 1 .. new
        /\ (\A k \in Insts : insts'[k] = insts[k]) /\ insts'[new] = inst
    BY <1>5, <2>1, <2>3, AppendFacts DEF CodeInv, CodeTypes, Insts
  <2>5. \A k \in Insts' : k \in Insts \/ k = new
    BY <1>5, <2>4
  <2>6. new \in Nat /\ new # None /\ new \notin Insts /\ Insts \subseteq Insts' /\ new \in Insts'
    BY <1>5, <2>4 DEF None
  <2>0. /\ inst.name = m /\ inst.ver = NextVersion(m) /\ inst.binds = ld.binds
        /\ [cur |-> new, old |-> slots[m].cur].cur = new /\ [cur |-> new, old |-> slots[m].cur].old = slots[m].cur
    BY ZenonT(30)
  <2>9. \A b \in ld.binds : Immortal(b)
    BY <1>1, ZenonT(30) DEF CodeInv, BindInv
  <2> HIDE DEF ld, m, new, inst
  <2>7. Grows
    BY <2>4, <2>6 DEF Grows
  <2>8. CodeTypes'
    <3>1. [cur |-> new, old |-> slots[m].cur] \in SlotRec
      BY <1>2, <2>6, SlotTypes, ZenonT(30) DEF SlotRec
    <3> QED
      BY <1>1, <2>1, <2>4, <3>1, ZenonT(30) DEF CodeInv, CodeTypes
  <2>10. slots'[m] = [cur |-> new, old |-> slots[m].cur] /\ \A n \in Names : n # m => slots'[n] = slots[n]
    BY <1>2, <2>1 DEF CodeInv, CodeTypes
  <2>11. ASSUME NEW k \in Insts, insts[k].name = m PROVE insts[k].ver < NextVersion(m) /\ ~insts[k].sealed
    <3>1. Ranked(k, insts[k], slots[m].cur, insts[slots[m].cur])
      BY <2>11, ZenonT(30) DEF CodeInv, InstInv, CurOf
    <3>2. slots[m].cur # None /\ slots[m].cur \in Insts
      BY <1>2, <3>1, SlotTypes, ZenonT(30) DEF Ranked
    <3>3. insts[k].ver \in Nat /\ insts[slots[m].cur].ver \in Nat
      BY <3>2, NoteType
    <3>4. ~insts[slots[m].cur].sealed
      BY <1>7, <3>2, ZenonT(30) DEF Replaces, Sealed
    <3> QED
      BY <3>1, <3>2, <3>3, <3>4 DEF NextVersion, Ranked
  <2>13. VersionsDistinct'
    <3>1. \A k \in Insts : insts[k].ver \in Nat
      BY NoteType
    <3> QED
      BY <2>0, <2>2, <2>4, <2>5, <2>11, <3>1 DEF CodeInv, VersionsDistinct
  <2>14. ASSUME NEW k \in Insts' PROVE Ranked(k, insts'[k], CurOf(k)', insts'[CurOf(k)'])
    <3>1. CASE k = new
      BY <2>0, <2>2, <2>4, <2>6, <2>10, <3>1, ZenonT(30) DEF Ranked, CurOf
    <3>2. CASE k \in Insts /\ insts[k].name = m
      <4>1. CurOf(k)' = new /\ insts'[k] = insts[k] /\ insts'[new] = inst
        BY <2>0, <2>4, <2>10, <3>2 DEF CurOf
      <4>2. 1 <= insts[k].ver /\ insts[k].ver <= k
        BY <3>2 DEF CodeInv, InstInv, Ranked
      <4>3. insts[k].ver < inst.ver /\ ~insts[k].sealed
        BY <2>0, <2>11, <3>2, ZenonT(30)
      <4> QED
        BY <2>6, <4>1, <4>2, <4>3, ZenonT(30) DEF Ranked
    <3>3. CASE k \in Insts /\ insts[k].name # m
      <4>1. insts[k].name \in Names /\ insts'[k] = insts[k]
        BY <2>4, <3>3, NoteType, ZenonT(30)
      <4>2. CurOf(k)' = CurOf(k)
        BY <2>10, <3>3, <4>1, ZenonT(30) DEF CurOf
      <4>3. Ranked(k, insts[k], CurOf(k), insts[CurOf(k)])
        BY <3>3 DEF CodeInv, InstInv
      <4>4. CurOf(k) \in Insts
        BY <4>1, <4>3, SlotTypes, ZenonT(30) DEF CurOf, Ranked
      <4> QED
        BY <2>4, <4>1, <4>2, <4>3, <4>4
    <3> QED
      BY <2>5, <3>1, <3>2, <3>3, ZenonT(30)
  <2>15. SlotInv'
    <3> SUFFICES ASSUME NEW n \in Names, NEW k \in {slots'[n].cur, slots'[n].old} \ {None}
                 PROVE  k \in Insts' /\ insts'[k].name = n
      BY DEF SlotInv
    <3>1. CASE n = m /\ k = new
      BY <2>0, <2>4, <2>6, <3>1, ZenonT(30)
    <3>2. CASE n = m /\ k # new
      BY <2>4, <2>6, <2>10, <3>2, SlotTypes
    <3>3. CASE n # m
      BY <2>4, <2>6, <2>10, <3>3, SlotTypes
    <3> QED
      BY <3>1, <3>2, <3>3
  <2>16. BindInv'
    <3>1. \A b : Immortal(b) => Immortal(b)'
      BY <2>4, <2>6 DEF Immortal
    <3>3. \A k \in Insts' : \A b \in insts'[k].binds : Immortal(b)'
      BY <2>0, <2>4, <2>5, <2>9, <3>1, ZenonT(30) DEF CodeInv, BindInv
    <3>4. \A j \in Loaders : loading'[j].on => loading[j].on /\ loading'[j].binds = loading[j].binds
      BY <1>1, ZenonT(30) DEF CodeInv, CodeTypes, Idle
    <3> QED
      BY <3>1, <3>3, <3>4, ZenonT(30) DEF CodeInv, BindInv
  <2> QED
    BY <2>7, <2>8, <2>13, <2>14, <2>15, <2>16 DEF CodeInv, InstInv
<1> QED
  BY <1>6, <1>7

LEMMA DropCode ==
  ASSUME CodeInv, NEW m \in Names, PurgeDrop(m)
  PROVE  CodeInv' /\ Grows
<1>1. slots' = [slots EXCEPT ![m].old = None] /\ insts' = insts /\ loading' = loading
  BY DEF PurgeDrop
<1>3. slots' \in [Names -> SlotRec]
  BY <1>1 DEF CodeInv, CodeTypes, SlotRec, None
<1>4. \A n \in Names : slots'[n].cur = slots[n].cur /\ slots'[n].old \in {None, slots[n].old}
  BY <1>1 DEF CodeInv, CodeTypes, SlotRec
<1>5. \A k \in Insts : insts[k].name \in Names
  BY NoteType
<1>6. SlotInv'
  BY <1>1, <1>4 DEF CodeInv, SlotInv, Insts
<1>7. InstInv'
  BY <1>1, <1>4, <1>5 DEF CodeInv, InstInv, CurOf, Insts
<1>8. (VersionsDistinct /\ BindInv)' /\ Grows
  BY <1>1 DEF CodeInv, VersionsDistinct, BindInv, Immortal, Insts, Grows
<1> QED
  BY <1>1, <1>3, <1>6, <1>7, <1>8 DEF CodeInv, CodeTypes

LEMMA SameCode ==
  ASSUME CodeInv, UNCHANGED code
  PROVE  CodeInv' /\ Grows
BY ZenonT(30) DEF code, CodeInv, CodeTypes, VersionsDistinct, InstInv, CurOf, SlotInv, BindInv, Immortal, Insts, Grows

-----------------------------------------------------------------------------
(* Processes, one at a time. *)

Same(q) ==
  /\ running'[q] = running[q] /\ procs'[q] = procs[q] /\ stack'[q] = stack[q]
  /\ call'[q] = call[q] /\ noting'[q] = noting[q] /\ (q \in stray' <=> q \in stray)

\* Code that grows leaves what is true of a stack.
LEMMA SaysKept ==
  ASSUME NEW ins, NEW ins2, NEW st, NEW n, NEW note,
         \A k \in 1 .. n : ins2[st[k].inst] = ins[st[k].inst], Says(ins, st, n, note)
  PROVE  Says(ins2, st, n, note)
BY ZenonT(30) DEF Says

LEMMA NotedKept ==
  ASSUME NEW ins, NEW ins2, NEW st \in Seq(Frame), NEW run, NEW cl, NEW first,
         \A k \in DOMAIN st : ins2[st[k].inst] = ins[st[k].inst], Tells(ins, st, run, cl, first)
  PROVE  Tells(ins2, st, run, cl, first)
<1>1. Len(st) \in Nat /\ DOMAIN st = 1 .. Len(st)
  OBVIOUS
<1>2. \A i \in 0 .. Len(st) : \A note : Says(ins, st, i, note) => Says(ins2, st, i, note)
  <2> SUFFICES ASSUME NEW i \in 0 .. Len(st), NEW note, Says(ins, st, i, note) PROVE Says(ins2, st, i, note)
    OBVIOUS
  <2> QED
    BY <1>1, SaysKept
<1>3. Restores(ins2, st, cl)
  <2>1. \A j \in 2 .. Len(st) : j - 1 \in 0 .. Len(st)
    BY <1>1
  <2>2. Len(st) \in 0 .. Len(st) /\ (Len(st) > 1 => Len(st) - 1 \in 0 .. Len(st))
    BY <1>1
  <2> QED
    BY <1>2, <2>1, <2>2, ZenonT(30) DEF Tells, Restores
<1> QED
  BY <1>3, <1>1, <1>2 DEF Tells

\* What a step does not touch stays as it is, while code may be added.
LEMMA SameHolds ==
  ASSUME ProcTypes, Grows, NEW q \in Procs, Same(q), Holds(q)
  PROVE  Holds(q)'
<1>1. stack[q] \in Seq(Frame)
  BY FrameTypes
<1>2. \A b : (b \in Insts => b \in Insts') /\ (Immortal(b) => Immortal(b)')
  BY DEF Grows, Immortal
<1>3. ProcAt(q)'
  BY <1>2, ZenonT(30) DEF Same, Holds, ProcAt, Live
<1>5. ASSUME Live(q), q \notin stray PROVE NotedAt(q)'
  <2>1. \A k \in DOMAIN stack[q] : insts'[stack[q][k].inst] = insts[stack[q][k].inst]
    BY ZenonT(30) DEF Holds, ProcAt, Grows
  <2>2. Tells(insts, stack[q], running[q], call[q], noting[q].inst)
    BY <1>5 DEF Holds, NotedAt
  <2>3. Tells(insts', stack[q], running[q], call[q], noting[q].inst)
    BY <1>1, <2>1, <2>2, NotedKept, ZenonT(30)
  <2> QED
    BY <2>3 DEF Same, NotedAt
<1> QED
  BY <1>3, <1>5, ZenonT(30) DEF Same, Holds, Live

-----------------------------------------------------------------------------
(* Stacks that differ only at the top. *)

LEMMA AgreeSays ==
  ASSUME NEW ins, NEW st, NEW t, NEW n \in Nat, \A j \in 1 .. n : t[j] = st[j], NEW note
  PROVE  /\ \A k \in 1 .. n : InnerAt(t, n, k) <=> InnerAt(st, n, k)
         /\ Says(ins, t, n, note) <=> Says(ins, st, n, note)
<1>1. \A k \in 1 .. n : InnerAt(t, n, k) <=> InnerAt(st, n, k)
  <2> SUFFICES ASSUME NEW k \in 1 .. n PROVE InnerAt(t, n, k) <=> InnerAt(st, n, k)
    OBVIOUS
  <2> QED
    BY DEF InnerAt
<1> QED
  BY <1>1, ZenonT(30) DEF Says

\* A noted top frame is what RUNNING should name; any other says nothing.
LEMMA TopSays ==
  ASSUME NEW ins, NEW st, NEW n \in Nat \ {0}, NEW note
  PROVE  /\ st[n].kind = "noted" =>
              /\ InnerAt(st, n, n)
              /\ Says(ins, st, n, note) <=> note = <<ins[st[n].inst].name, ins[st[n].inst].ver>>
         /\ st[n].kind # "noted" =>
              /\ \A k \in 1 .. n - 1 : InnerAt(st, n - 1, k) => InnerAt(st, n, k)
              /\ Says(ins, st, n, note) <=> Says(ins, st, n - 1, note)
<1>1. ASSUME st[n].kind = "noted"
      PROVE  InnerAt(st, n, n) /\ \A k \in 1 .. n : InnerAt(st, n, k) => k = n
  BY <1>1 DEF InnerAt
<1>2. ASSUME st[n].kind # "noted"
      PROVE  \A k \in 1 .. n : InnerAt(st, n, k) <=> k \in 1 .. n - 1 /\ InnerAt(st, n - 1, k)
  <2> SUFFICES ASSUME NEW k \in 1 .. n
               PROVE  InnerAt(st, n, k) <=> k \in 1 .. n - 1 /\ InnerAt(st, n - 1, k)
    OBVIOUS
  <2> QED
    BY <1>2 DEF InnerAt
<1>3. n \in 1 .. n /\ \A k \in 1 .. n - 1 : k \in 1 .. n
  OBVIOUS
<1>4. ASSUME st[n].kind = "noted"
      PROVE  Says(ins, st, n, note) <=> note = <<ins[st[n].inst].name, ins[st[n].inst].ver>>
  BY <1>1, <1>3, <1>4, ZenonT(30) DEF Says
<1>5. ASSUME st[n].kind # "noted" PROVE Says(ins, st, n, note) <=> Says(ins, st, n - 1, note)
  BY <1>2, <1>3, <1>5, ZenonT(30) DEF Says
<1> QED
  BY <1>1, <1>2, <1>3, <1>4, <1>5, ZenonT(30)

\* t keeps the first m frames of st and has at most one more.
Differs(t, st, m) ==
  /\ m \in 0 .. Len(st) /\ Len(t) \in {m, m + 1} /\ \A j \in 1 .. m : t[j] = st[j]

LEMMA ShapeKept ==
  ASSUME NEW st \in Seq(Frame), NEW t \in Seq(Frame), NEW m, Differs(t, st, m), Shape(st),
         Len(t) = m + 1 => /\ t[m + 1].kind = "direct" => t[m + 1].back = NoNote
                           /\ m = 0 => t[1].kind = "noted" /\ t[1].back = NoNote
  PROVE  Shape(t)
<1>0. m \in Nat /\ \A j \in 1 .. m : t[j] = st[j]
  BY DEF Differs
<1>1. /\ Len(st) \in Nat /\ Len(t) \in Nat /\ m \in Nat
      /\ DOMAIN st = 1 .. Len(st) /\ DOMAIN t = 1 .. Len(t)
      /\ \A j \in 1 .. m : j \in DOMAIN st /\ t[j] = st[j]
      /\ \A j \in DOMAIN t : j \in 1 .. m \/ (j = m + 1 /\ Len(t) = m + 1)
  BY DEF Differs
<1>2. t # <<>> => t[1].kind = "noted" /\ t[1].back = NoNote
  <2>1. CASE m = 0
    BY <1>1, <2>1
  <2>2. CASE m # 0
    <3>1. 1 \in 1 .. m
      BY <1>0, <2>2
    <3>2. 1 \in DOMAIN st /\ t[1] = st[1]
      BY <1>1, <3>1, ZenonT(30)
    <3>3. st # <<>>
      BY <3>2
    <3> QED
      BY <3>2, <3>3, ZenonT(30) DEF Shape
  <2> QED
    BY <2>1, <2>2, ZenonT(30)
<1>3. \A j \in DOMAIN t : t[j].kind = "direct" => t[j].back = NoNote
  BY <1>1, ZenonT(30) DEF Shape
<1>4. \A i \in 1 .. m : \E k \in 1 .. i : InnerAt(t, i, k)
  <2> SUFFICES ASSUME NEW i \in 1 .. m PROVE \E k \in 1 .. i : InnerAt(t, i, k)
    OBVIOUS
  <2>1. PICK k \in 1 .. i : InnerAt(st, i, k)
    BY <1>1, ZenonT(30) DEF Shape
  <2>2. i \in Nat /\ \A j \in 1 .. i : t[j] = st[j]
    BY <1>0
  <2> QED
    BY <2>1, <2>2, AgreeSays, ZenonT(30)
<1>5. ASSUME Len(t) = m + 1 PROVE \E k \in 1 .. m + 1 : InnerAt(t, m + 1, k)
  <2>1. m + 1 \in Nat \ {0} /\ m + 1 \in 1 .. m + 1 /\ (m + 1) - 1 = m /\ \A k \in 1 .. m : k \in 1 .. m + 1
    BY <1>0
  <2>2. CASE t[m + 1].kind = "noted"
    BY <2>1, <2>2, TopSays, ZenonT(30)
  <2>3. CASE t[m + 1].kind # "noted"
    <3>2. m \in 1 .. m
      BY <1>0, <1>5, <2>3
    <3>3. PICK k \in 1 .. m : InnerAt(t, m, k)
      BY <1>4, <3>2, ZenonT(30)
    <3>4. InnerAt(t, m + 1, k)
      BY <2>1, <2>3, <3>3, TopSays
    <3> QED
      BY <2>1, <3>4, ZenonT(30)
  <2> QED
    BY <2>2, <2>3, ZenonT(30)
<1>6. \A i \in DOMAIN t : \E k \in 1 .. i : InnerAt(t, i, k)
  BY <1>1, <1>4, <1>5, ZenonT(30)
<1> QED
  BY <1>2, <1>3, <1>6, ZenonT(30) DEF Shape

LEMMA RestoresKept ==
  ASSUME NEW ins, NEW st \in Seq(Frame), NEW t \in Seq(Frame), NEW m, NEW cl, Differs(t, st, m),
         Restores(ins, st, cl),
         Len(t) = m + 1 /\ m # 0 /\ t[m + 1].kind # "direct" => Says(ins, st, m, t[m + 1].back)
  PROVE  Restores(ins, t, NoCall)
<1> SUFFICES ASSUME NEW j \in 2 .. Len(t), t[j].kind # "direct" PROVE Says(ins, t, j - 1, t[j].back)
  BY ZenonT(30) DEF Restores, NoCall
<1>2. j - 1 \in Nat /\ \A i \in 1 .. j - 1 : t[i] = st[i]
  BY DEF Differs
<1>3. Says(ins, st, j - 1, t[j].back)
  <2>1. CASE j = m + 1
    BY <2>1 DEF Differs
  <2>2. CASE j # m + 1
    BY <2>2 DEF Restores, Differs
  <2> QED
    BY <2>1, <2>2, ZenonT(30)
<1> QED
  BY <1>2, <1>3, AgreeSays, ZenonT(30)

-----------------------------------------------------------------------------
(* The steps of a process. *)

LEMMA LiveFacts ==
  ASSUME ProcTypes, NEW p \in Procs, Holds(p), Live(p)
  PROVE  /\ stack[p] \in Seq(Frame) /\ stack[p] # <<>> /\ Len(stack[p]) \in Nat \ {0}
         /\ DOMAIN stack[p] = 1 .. Len(stack[p]) /\ Len(stack[p]) \in DOMAIN stack[p]
         /\ Top(stack[p]) = stack[p][Len(stack[p])] /\ Top(stack[p]) \in Frame
         /\ Inst(p) = stack[p][Len(stack[p])].inst /\ Inst(p) \in Insts
<1>2. /\ Len(stack[p]) \in Nat \ {0} /\ DOMAIN stack[p] = 1 .. Len(stack[p])
      /\ Top(stack[p]) = stack[p][Len(stack[p])] /\ Top(stack[p]) \in Frame
  BY FrameTypes, BelowFacts, ZenonT(30) DEF Holds, ProcAt
<1> QED
  BY FrameTypes, <1>2 DEF Inst, Holds, ProcAt

\* rt_current_module finds the version RUNNING names as long as the table has it.
LEMMA ModuleIs ==
  ASSUME CodeInv, NEW p \in Procs, NEW i \in Insts, running[p] = Note(i), ~Gone(p)
  PROVE  ProcessModule(p) # None /\ Note(ProcessModule(p)) = running[p]
<1> DEFINE s == slots[running[p][1]]
<1>1. /\ running[p] # NoNote /\ running[p][1] \in Names
      /\ running[p] = <<running[p][1], running[p][2]>>
  BY NoteType, ZenonT(30) DEF Note
<1>2. /\ s.cur # None => insts[s.cur].name = running[p][1]
      /\ s.old # None => insts[s.old].name = running[p][1]
  BY <1>1, SlotTypes, ZenonT(30)
<1>3. PICK k \in {s.cur, s.old} \ {None} : insts[k].ver = running[p][2]
  BY <1>1, ZenonT(30) DEF Gone
<1>4. ProcessModule(p) = IF s.old # None /\ insts[s.old].ver = running[p][2] THEN s.old ELSE s.cur
  BY <1>1, ZenonT(30) DEF ProcessModule
<1> HIDE DEF s
<1>5. /\ ProcessModule(p) # None
      /\ insts[ProcessModule(p)].name = running[p][1] /\ insts[ProcessModule(p)].ver = running[p][2]
  BY <1>2, <1>3, <1>4
<1> QED
  BY <1>1, <1>5, ZenonT(30) DEF Note

\* What the process would have RUNNING restored to is what RUNNING should say now.
LEMMA BackIs ==
  ASSUME CodeInv, ProcTypes, NEW p \in Procs, Holds(p), Live(p), p \notin stray, ~Strays(p)
  PROVE  Says(insts, stack[p], Len(stack[p]), Back(p))
<1> DEFINE st == stack[p]
           n == Len(stack[p])
<1>1. /\ n \in Nat \ {0} /\ n \in DOMAIN st /\ Inst(p) = st[n].inst /\ Inst(p) \in Insts
      /\ DOMAIN st = 1 .. n
  BY LiveFacts, ZenonT(30)
<1>3. CASE ~insts[Inst(p)].jit
  BY <1>1, <1>3, TopSays, ZenonT(30) DEF Holds, ProcAt, Immortal, Back, Note
<1>4. CASE insts[Inst(p)].jit
  <2>1. noting[p].inst = None /\ ~Gone(p)
    BY <1>4 DEF Strays
  <2>2. PICK k \in 1 .. n : InnerAt(st, n, k)
    BY <1>1, ZenonT(30) DEF Holds, Shape
  <2>3. Says(insts, st, n, running[p])
    BY <2>1, ZenonT(30) DEF Holds, NotedAt, Tells
  <2>4. running[p] = Note(st[k].inst) /\ st[k].inst \in Insts
    BY <1>1, <2>2, <2>3, ZenonT(30) DEF Says, Note, Holds, ProcAt
  <2>5. Back(p) = running[p]
    BY <1>4, <2>1, <2>4, ModuleIs, ZenonT(30) DEF Back
  <2> QED
    BY <2>3, <2>5
<1> QED
  BY <1>3, <1>4, ZenonT(30)

LEMMA BackType ==
  ASSUME CodeInv, ProcTypes, NEW p \in Procs, Holds(p), Live(p)
  PROVE  /\ Back(p) \in Notes
         /\ ProcessModule(p) # None => ProcessModule(p) \in Insts
<1>1. running[p] # NoNote => running[p][1] \in Names
  BY FrameTypes, ZenonT(30) DEF Notes
<1>2. running[p] # NoNote =>
        \A k \in {slots[running[p][1]].cur, slots[running[p][1]].old} : k # None => k \in Insts
  BY <1>1, SlotTypes
<1>3. ProcessModule(p) # None => ProcessModule(p) \in Insts
  BY <1>2, ZenonT(30) DEF ProcessModule
<1>4. NoNote \in Notes /\ Inst(p) \in Insts
  BY LiveFacts DEF Notes
<1> QED
  BY <1>3, <1>4, NoteType, ZenonT(30) DEF Back

LEMMA OneProc ==
  ASSUME ProcTypes, Grows, ProcInv, NEW p \in Procs, \A q \in Procs \ {p} : Same(q), Holds(p)'
  PROVE  ProcInv'
<1>1. \A q \in Procs : Holds(q)'
  <2> SUFFICES ASSUME NEW q \in Procs, q # p PROVE Holds(q)'
    OBVIOUS
  <2> QED
    BY SameHolds DEF ProcInv
<1> QED
  BY <1>1 DEF ProcInv

\* A new process is alone in its first function and waits to be noted.
LEMMA SpawnProc ==
  ASSUME CodeInv, ProcTypes, ProcInv, UNCHANGED <<running, call, stray>>, UNCHANGED code,
         NEW by \in Procs \cup {"kernel"}, NEW q \in Procs, NEW k \in Insts, SpawnOf(by, q, k)
  PROVE  ProcTypes' /\ ProcInv'
<1> DEFINE f == [inst |-> k, kind |-> "noted", back |-> NoNote]
           t == <<f>>
<1>1. /\ procs[q] = "new" /\ procs' = [procs EXCEPT ![q] = "alive"]
      /\ stack' = [stack EXCEPT ![q] = t] /\ noting' = [noting EXCEPT ![q] = [inst |-> k, by |-> by]]
      /\ running' = running /\ call' = call /\ stray' = stray /\ insts' = insts
  BY DEF SpawnOf, code
<1>2. k \in Nat \ {0}
  BY NoteType
<1>3. f \in Frame /\ t \in Seq(Frame) /\ Len(t) = 1 /\ t[1] = f /\ DOMAIN t = {1} /\ t # <<>>
  BY <1>2 DEF Frame, Notes
<1>0. t[1].inst = k /\ t[1].kind = "noted" /\ t[1].back = NoNote
  BY <1>3
<1> HIDE DEF t
<1>5. /\ procs'[q] = "alive" /\ stack'[q] = t /\ noting'[q].inst = k /\ running'[q] = running[q] /\ call'[q] = call[q]
  BY <1>1, ZenonT(30) DEF ProcTypes
<1>8. Live(q)' /\ NoCall.how = "none" /\ k # None
  BY <1>2, <1>5 DEF Live, NoCall, None
<1>9. ProcAt(q)'
  <2>0. 1 <= MaxFrames
    BY FramesAssumption
  <2>3. \A j \in DOMAIN stack'[q] : stack'[q][j].inst \in Insts' /\ stack'[q][j].kind = "noted"
    BY <1>0, <1>1, <1>3, <1>5 DEF Insts
  <2> QED
    BY <1>8, <1>3, <1>5, <2>0, <1>1, FrameTypes, <2>3, ZenonT(30) DEF ProcAt, Insts, Holds, CallRec, ProcInv, Live
<1>10. Shape(t)
  BY <1>0, <1>3 DEF Shape, InnerAt
<1>11. NotedAt(q)'
  <2>1. Unnoted(t, NoNote, NoCall, k)
    BY <1>0, <1>3, <1>8 DEF Unnoted
  <2>2. Restores(insts, t, NoCall)
    BY <1>3, <1>8 DEF Restores
  <2> QED
    BY <1>1, <1>5, FrameTypes, <1>8, <2>1, <2>2, ZenonT(30) DEF NotedAt, Tells, Holds, ProcAt, CallRec, ProcInv, Live
<1> QED
  BY <1>1, <1>3, <1>2, <1>5, <1>9, <1>10, <1>11, SameCode, OneProc, ZenonT(30) DEF Holds, Same, ProcTypes, States, NotingRec

LEMMA EndsProc ==
  ASSUME CodeInv, ProcTypes, ProcInv, UNCHANGED code, UNCHANGED noting, NEW p \in Procs, Ends(p)
  PROVE  ProcTypes' /\ ProcInv'
<1>1. /\ procs' = [procs EXCEPT ![p] = "dead"] /\ running' = [running EXCEPT ![p] = NoNote]
      /\ stack' = [stack EXCEPT ![p] = <<>>] /\ call' = [call EXCEPT ![p] = NoCall]
      /\ stray' = stray \ {p} /\ noting' = noting /\ insts' = insts
  BY DEF Ends, code
<1>4. procs'[p] = "dead" /\ stack'[p] = <<>> /\ running'[p] = NoNote /\ call'[p] = NoCall
  BY <1>1 DEF ProcTypes
<1>7. Shape(<<>>)
  BY DEF Shape
<1>8. Holds(p)'
  BY <1>4, <1>1, FramesAssumption, <1>7 DEF Holds, Live, ProcAt, Insts, ProcInv, NoCall, CallRec, None, Notes
<1>9. \A r \in Procs \ {p} : Same(r)
  BY <1>1 DEF Same, ProcTypes
<1> QED
  BY <1>1, <1>8, <1>9, SameCode, OneProc DEF ProcTypes, States, NoCall, CallRec, None, Notes

\* note_running of spawn_fn: the process, if it did not stray, is still in the function
\* it was spawned with.
LEMMA NoteSpawnProc ==
  ASSUME CodeInv, ProcTypes, ProcInv, NEW q \in Procs, NoteSpawn(q)
  PROVE  ProcTypes' /\ ProcInv'
<1> DEFINE k == noting[q].inst
           st == stack[q]
<1>1. /\ k # None /\ running' = IF Live(q) THEN [running EXCEPT ![q] = Note(k)] ELSE running
      /\ noting' = [noting EXCEPT ![q] = [inst |-> None, by |-> "nobody"]]
      /\ procs' = procs /\ stack' = stack /\ call' = call /\ stray' = stray /\ insts' = insts
      /\ UNCHANGED code
  BY DEF NoteSpawn, code
<1>2. Holds(q) /\ k \in Insts
  BY <1>1, ZenonT(30) DEF ProcInv, Holds, ProcAt
<1>3. /\ noting'[q].inst = None /\ (Live(q) => running'[q] = Note(k)) /\ (~Live(q) => running'[q] = running[q])
      /\ Insts' = Insts /\ (Live(q)' <=> Live(q)) /\ \A b : Immortal(b)' <=> Immortal(b)
  BY <1>1, ZenonT(30) DEF ProcTypes, Insts, Live, Immortal
<1>7. ASSUME Live(q), q \notin stray PROVE NotedAt(q)'
  <2>1. Unnoted(st, running[q], call[q], k) /\ Restores(insts, st, call[q])
    BY <1>1, <1>2, <1>7, ZenonT(30) DEF Holds, NotedAt, Tells
  <2>2. /\ Len(st) \in Nat /\ st[1].kind = "noted" /\ k = st[1].inst
        /\ \A j \in 2 .. Len(st) : st[j].kind # "noted"
    BY <1>2, <1>7, <2>1, LiveFacts, ZenonT(30) DEF Unnoted, Holds, Shape
  <2>3. Says(insts, st, Len(st), Note(k))
    BY <2>2 DEF Says, InnerAt, Note
  <2> QED
    BY <1>1, <1>3, <1>7, <2>1, <2>3, ZenonT(30) DEF NotedAt, Tells
<1>8. Holds(q)'
  BY <1>1, <1>2, <1>3, <1>7, ZenonT(30) DEF Holds, ProcAt
<1> QED
  BY <1>1, <1>2, NoteType, <1>8, SameCode, OneProc, ZenonT(30) DEF Same, ProcTypes, NotingRec, None

\* A call that is resolved will restore what RUNNING should say in the frame it
\* returns to.
LEMMA ResolveProc ==
  ASSUME CodeInv, ProcTypes, ProcInv, NEW p \in Procs, NEW m \in Names, NEW how \in {"call", "tail"},
         Resolve(p, m, how)
  PROVE  ProcTypes' /\ ProcInv'
<1> DEFINE st == stack[p]
           n == Len(stack[p])
           top == Top(stack[p])
           replaces == how = "tail" /\ top.kind # "direct"
           back == IF replaces THEN top.back ELSE Back(p)
           cl == [how |-> how, inst |-> slots[m].cur, back |-> back]
<1>1. /\ Live(p) /\ call[p] = NoCall /\ slots[m].cur # None /\ (how = "call" => n < MaxFrames)
      /\ call' = [call EXCEPT ![p] = cl]
      /\ stray' = IF ~replaces /\ Strays(p) THEN stray \cup {p} ELSE stray
      /\ running' = running /\ procs' = procs /\ stack' = stack /\ noting' = noting /\ insts' = insts
      /\ UNCHANGED code
  BY ZenonT(30) DEF Resolve, Live, code
<1>2. Holds(p)
  BY DEF ProcInv
<1>3. /\ st \in Seq(Frame) /\ n \in Nat \ {0} /\ DOMAIN st = 1 .. n /\ n \in DOMAIN st
      /\ top = st[n] /\ top \in Frame
  BY <1>1, <1>2, LiveFacts, ZenonT(30)
<1>4. /\ replaces <=> how = "tail" /\ st[n].kind # "direct"
      /\ replaces => back = st[n].back
      /\ ~replaces => back = Back(p)
      /\ back \in Notes
  <2>1. Back(p) \in Notes /\ top.back \in Notes
    BY <1>1, <1>2, <1>3, BackType, ZenonT(30) DEF Frame
  <2> QED
    BY <1>3, <2>1, ZenonT(30)
<1>5. slots[m].cur \in Insts /\ slots[m].cur \in Nat
  BY <1>1, SlotTypes, ZenonT(30)
<1> HIDE DEF top, replaces, back
<1>6. cl \in CallRec /\ cl.how = how /\ cl.inst = slots[m].cur /\ cl.back = back
  BY <1>4, <1>5, ZenonT(30) DEF CallRec
<1>8. call'[p] = cl
  BY <1>1, ZenonT(30) DEF ProcTypes
<1> HIDE DEF cl
<1>9. Insts' = Insts /\ (Live(p)' <=> Live(p)) /\ \A b : Immortal(b)' <=> Immortal(b)
  BY <1>1, ZenonT(30) DEF Insts, Live, Immortal
<1>7. how = "tail" /\ n = 1 => back = NoNote
  BY <1>2, <1>3, <1>4 DEF Holds, Shape
<1>10. ProcAt(p)'
  <2>1. ProcAt(p) /\ call'[p].how = how /\ call'[p].inst \in Insts /\ call'[p].back = back /\ how \in {"call", "tail"}
    BY <1>2, <1>5, <1>6, <1>8, ZenonT(30) DEF Holds
  <2>2. /\ call'[p].how # "none" /\ (call'[p].how = "call" => n < MaxFrames)
        /\ call'[p].how = "tail" /\ n = 1 => call'[p].back = NoNote
    BY <1>1, <1>7, <2>1
  <2> QED
    BY <1>1, <1>9, <2>1, <2>2, ZenonT(30) DEF ProcAt
<1>11. ASSUME p \notin stray' PROVE NotedAt(p)'
  <2>2. Tells(insts, st, running[p], NoCall, noting[p].inst)
    BY <1>1, <1>2, <1>11, ZenonT(30) DEF Holds, NotedAt
  <2>3. CASE ~replaces
    <3>1. Says(insts, st, n, back) /\ noting[p].inst = None
      BY <1>1, <1>2, <1>4, <1>11, <2>3, BackIs, ZenonT(30) DEF Strays
    <3>3. how = "tail" => Says(insts, st, n - 1, back)
      BY <1>3, <1>4, <3>1, <2>3, TopSays, ZenonT(30)
    <3> QED
      BY <1>1, <1>8, <2>2, <3>1, <1>6, <3>3, ZenonT(30) DEF NotedAt, Tells, Restores
  <2>4. CASE replaces
    <3>1. ASSUME n > 1 PROVE Says(insts, st, n - 1, back)
      BY <1>3, <1>4, <2>2, <2>4, <3>1 DEF Tells, Restores
    <3>3. noting[p].inst # None => Unnoted(st, running[p], cl, noting[p].inst)
      <4>1. noting[p].inst # None => n = 1
        <5> HIDE DEF n
        <5>1. n # 1 => n \in 2 .. n
          BY <1>3
        <5> USE DEF n
        <5> QED
          BY <1>3, <1>4, <2>2, <2>4, <5>1, ZenonT(30) DEF Tells, Unnoted
      <4> QED
        BY <1>4, <1>6, <2>2, <2>4, <4>1, ZenonT(30) DEF Tells, Unnoted
    <3> QED
      BY <1>1, <1>4, <1>8, <2>2, <1>6, <2>4, <3>1, <3>3, ZenonT(30) DEF NotedAt, Tells, Restores
  <2> QED
    BY <2>3, <2>4
<1>12. ProcTypes' /\ (\A q \in Procs \ {p} : Same(q)) /\ Grows
  BY <1>1, <1>6, SameCode, ZenonT(30) DEF ProcTypes, Same
<1>13. Holds(p)'
  BY <1>1, <1>2, <1>10, <1>11, ZenonT(30) DEF Holds
<1> QED
  BY <1>12, <1>13, OneProc, ZenonT(30)

\* A step that makes t the stack of p, which has no call under way after it; t keeps m
\* frames and has a sound new one, if any, and RUNNING and what is to be restored fit.
Retops(p, t, m) ==
  /\ Live(p) /\ UNCHANGED <<procs, noting>> /\ UNCHANGED code
  /\ stack' = [stack EXCEPT ![p] = t] /\ call' \in [Procs -> CallRec] /\ call'[p] = NoCall
  /\ running' \in [Procs -> Notes] /\ (p \in stray => p \in stray')
  /\ \A q \in Procs \ {p} : running'[q] = running[q] /\ call'[q] = call[q] /\ (q \in stray' <=> q \in stray)
  /\ Differs(t, stack[p], m) /\ t # <<>> /\ Len(t) <= MaxFrames
  /\ Len(t) = m + 1 => /\ t[m + 1].inst \in Insts
                       /\ t[m + 1].kind # "noted" => Immortal(t[m + 1].inst)
                       /\ t[m + 1].kind = "direct" => t[m + 1].back = NoNote
                       /\ m = 0 => t[1].kind = "noted" /\ t[1].back = NoNote
  /\ p \notin stray' =>
       /\ Len(t) = m + 1 /\ m # 0 /\ t[m + 1].kind # "direct" => Says(insts, stack[p], m, t[m + 1].back)
       /\ noting[p].inst = None => Says(insts, t, Len(t), running'[p])
       /\ noting[p].inst # None =>
            running'[p] = NoNote /\ 1 \in 1 .. m /\ (Len(t) = m + 1 => t[m + 1].kind = "direct")

LEMMA TopProc ==
  ASSUME CodeInv, ProcTypes, ProcInv, NEW p \in Procs, NEW t \in Seq(Frame), NEW m, Retops(p, t, m)
  PROVE  ProcTypes' /\ ProcInv'
<1> DEFINE st == stack[p]
<1>1. Holds(p) /\ st \in Seq(Frame)
  BY FrameTypes DEF ProcInv
<1>2. /\ procs' = procs /\ noting' = noting /\ insts' = insts /\ UNCHANGED code
      /\ Live(p) /\ Live(p)' /\ stack'[p] = t /\ call'[p] = NoCall /\ (p \in stray => p \in stray')
  BY ZenonT(30) DEF Retops, ProcTypes, code, Live
<1>3. ProcTypes' /\ \A r \in Procs \ {p} : Same(r)
  BY <1>2, ZenonT(30) DEF Retops, ProcTypes, Same
<1>4. /\ Differs(t, st, m) /\ t # <<>> /\ Len(t) <= MaxFrames
      /\ Len(t) = m + 1 => /\ t[m + 1].kind = "direct" => t[m + 1].back = NoNote
                           /\ m = 0 => t[1].kind = "noted" /\ t[1].back = NoNote
  BY ZenonT(30) DEF Retops
<1>5. Len(t) = m + 1 => /\ t[m + 1].inst \in Insts
                        /\ t[m + 1].kind # "noted" => Immortal(t[m + 1].inst)
  BY ZenonT(30) DEF Retops
<1>6. /\ m \in Nat /\ m <= Len(st) /\ (Len(t) = m \/ Len(t) = m + 1) /\ \A j \in 1 .. m : t[j] = st[j]
      /\ \A j \in DOMAIN t : (j \in 1 .. m /\ j \in DOMAIN st) \/ (j = m + 1 /\ Len(t) = m + 1)
  BY <1>1, <1>4 DEF Differs
<1>7. \A j \in DOMAIN t : t[j].inst \in Insts /\ (t[j].kind # "noted" => Immortal(t[j].inst))
  <2>1. /\ \A j \in DOMAIN st : st[j].inst \in Insts
        /\ \A j \in DOMAIN st : st[j].kind # "noted" => Immortal(st[j].inst)
    BY <1>1, ZenonT(30) DEF Holds, ProcAt
  <2> SUFFICES ASSUME NEW j \in DOMAIN t
               PROVE  t[j].inst \in Insts /\ (t[j].kind # "noted" => Immortal(t[j].inst))
    OBVIOUS
  <2>2. CASE j \in 1 .. m /\ j \in DOMAIN st
    <3>1. t[j] = st[j] /\ j \in DOMAIN st
      BY <1>6, <2>2, ZenonT(30)
    <3> QED
      BY <2>1, <3>1, ZenonT(30)
  <2>3. CASE j = m + 1 /\ Len(t) = m + 1
    BY <1>5, <2>3
  <2> QED
    BY <1>6, <2>2, <2>3, ZenonT(30)
<1>8. ProcAt(p)'
  <2>1. NoCall.how = "none" /\ (noting[p].inst # None => noting[p].inst \in Insts)
    BY <1>1, ZenonT(30) DEF Holds, ProcAt, NoCall
  <2>2. Insts' = Insts /\ \A b : Immortal(b)' <=> Immortal(b)
    BY <1>2 DEF Insts, Immortal
  <2> QED
    BY <1>2, <1>4, <1>7, <2>1, <2>2, ZenonT(30) DEF ProcAt
<1>9. Shape(t)
  BY <1>1, <1>4, ShapeKept, ZenonT(30) DEF Holds
<1>10. ASSUME p \notin stray' PROVE NotedAt(p)'
  <2>1. Tells(insts, st, running[p], call[p], noting[p].inst)
    BY <1>1, <1>2, <1>10, ZenonT(30) DEF Holds, NotedAt
  <2>2. /\ Len(t) = m + 1 /\ m # 0 /\ t[m + 1].kind # "direct" => Says(insts, st, m, t[m + 1].back)
        /\ noting[p].inst = None => Says(insts, t, Len(t), running'[p])
        /\ noting[p].inst # None =>
             running'[p] = NoNote /\ 1 \in 1 .. m /\ (Len(t) = m + 1 => t[m + 1].kind = "direct")
    BY <1>10, ZenonT(30) DEF Retops
  <2>3. Restores(insts, t, NoCall)
    BY <1>1, <1>4, <2>1, <2>2, RestoresKept, ZenonT(30) DEF Tells
  <2>4. ASSUME noting[p].inst # None PROVE Unnoted(t, running'[p], NoCall, noting[p].inst)
    <3>1. noting[p].inst = st[1].inst /\ \A j \in 2 .. Len(st) : st[j].kind = "direct"
      BY <2>1, <2>4, ZenonT(30) DEF Tells, Unnoted
    <3>2. \A j \in 2 .. Len(t) : (j \in 1 .. m /\ j \in 2 .. Len(st)) \/ (j = m + 1 /\ Len(t) = m + 1)
      BY <1>6
    <3>3. \A j \in 2 .. Len(t) : t[j].kind = "direct"
      BY <1>6, <2>2, <2>4, <3>1, <3>2, ZenonT(30)
    <3> QED
      BY <1>6, <2>2, <2>4, <3>1, <3>3, ZenonT(30) DEF Unnoted, NoCall
  <2> QED
    BY <1>2, <2>2, <2>3, <2>4, ZenonT(30) DEF NotedAt, Tells
<1> QED
  BY <1>1, <1>2, <1>3, <1>8, <1>9, <1>10, SameCode, OneProc, ZenonT(30) DEF Holds

LEMMA EnterProc ==
  ASSUME CodeInv, ProcTypes, ProcInv, NEW p \in Procs, Enter(p)
  PROVE  ProcTypes' /\ ProcInv'
<1> DEFINE st == stack[p]
           n == Len(stack[p])
           cl == call[p]
           f == [inst |-> cl.inst, kind |-> "noted", back |-> cl.back]
           m == IF cl.how = "call" THEN n ELSE n - 1
           low == IF cl.how = "call" THEN st ELSE Below(st)
           t == Append(low, f)
<1>1. /\ Live(p) /\ cl # NoCall /\ call' = [call EXCEPT ![p] = NoCall]
      /\ running' = [running EXCEPT ![p] = Note(cl.inst)]
      /\ stack' = [stack EXCEPT ![p] = t]
      /\ stray' = IF noting[p].inst # None THEN stray \cup {p} ELSE stray
      /\ UNCHANGED <<procs, noting>> /\ UNCHANGED code
  BY ZenonT(30) DEF Enter, Free, Noted
<1>2. Holds(p) /\ cl \in CallRec
  BY FrameTypes DEF ProcInv
<1>3. st \in Seq(Frame) /\ st # <<>> /\ n \in Nat \ {0}
  BY <1>1, <1>2, LiveFacts, ZenonT(30)
<1>4. /\ cl.how \in {"call", "tail"} /\ cl.inst \in Insts /\ n <= MaxFrames
      /\ cl.how = "call" => n < MaxFrames
      /\ cl.how = "tail" /\ n = 1 => cl.back = NoNote
  BY <1>1, <1>2, ZenonT(30) DEF Holds, ProcAt, CallRec
<1>5. f \in Frame /\ f.inst = cl.inst /\ f.kind = "noted" /\ f.back = cl.back
  BY <1>2 DEF CallRec, Frame
<1>6. low \in Seq(Frame) /\ Len(low) = m /\ \A j \in 1 .. m : low[j] = st[j]
  BY <1>3, <1>4, BelowFacts, ZenonT(30)
<1> HIDE DEF f, low
<1>7. m \in Nat /\ m <= n /\ m + 1 <= MaxFrames
  BY <1>3, <1>4, FramesAssumption
<1>8. /\ t \in Seq(Frame) /\ t # <<>> /\ Len(t) = m + 1 /\ t[m + 1] = f
      /\ \A j \in 1 .. m : t[j] = st[j]
  BY <1>5, <1>6, AppendFacts
<1>9. Differs(t, st, m)
  BY <1>3, <1>7, <1>8 DEF Differs
<1>10. /\ call' \in [Procs -> CallRec] /\ call'[p] = NoCall
       /\ running' \in [Procs -> Notes] /\ running'[p] = Note(cl.inst)
       /\ \A q \in Procs \ {p} : running'[q] = running[q] /\ call'[q] = call[q] /\ (q \in stray' <=> q \in stray)
       /\ p \in stray => p \in stray'
  BY <1>1, <1>4, NoteType, ZenonT(30) DEF ProcTypes, NoCall, CallRec, None, Notes
<1>11. m = 0 => f.back = NoNote
  BY <1>3, <1>4, <1>5
<1>12. ASSUME p \notin stray'
       PROVE  /\ m # 0 => Says(insts, st, m, f.back)
              /\ Says(insts, t, m + 1, running'[p])
              /\ noting[p].inst = None
  <2>1. Restores(insts, st, cl) /\ noting[p].inst = None
    BY <1>1, <1>2, <1>12, ZenonT(30) DEF Holds, NotedAt, Tells
  <2>2. m # 0 => Says(insts, st, m, f.back)
    <3>1. CASE cl.how = "call"
      BY <1>5, <2>1, <3>1, ZenonT(30) DEF Restores
    <3>2. CASE cl.how = "tail"
      <4>1. m = Len(st) - 1 /\ \A x \in Nat \ {0} : x - 1 # 0 => x > 1
        BY <3>2
      <4> QED
        BY <1>5, <2>1, <3>2, <4>1, <1>3, ZenonT(30) DEF Restores
    <3> QED
      BY <1>4, <3>1, <3>2, ZenonT(30)
  <2>3. m + 1 \in Nat \ {0}
    BY <1>7
  <2>4. running'[p] = <<insts[t[m + 1].inst].name, insts[t[m + 1].inst].ver>> /\ t[m + 1].kind = "noted"
    BY <1>5, <1>8, <1>10, ZenonT(30) DEF Note
  <2> QED
    BY <2>1, <2>2, <2>3, <2>4, TopSays, ZenonT(30)
<1> HIDE DEF m, t
<1>13. Len(t) = m + 1 /\ Len(t) <= MaxFrames
  BY <1>7, <1>8
<1>14. Len(t) = m + 1 => /\ t[m + 1].inst \in Insts
                         /\ t[m + 1].kind # "noted" => Immortal(t[m + 1].inst)
                         /\ t[m + 1].kind = "direct" => t[m + 1].back = NoNote
                         /\ m = 0 => t[1].kind = "noted" /\ t[1].back = NoNote
  BY <1>4, <1>5, <1>8, <1>11
<1> QED
  BY <1>1, <1>8, <1>9, <1>10, <1>13, <1>14, <1>12, TopProc, ZenonT(30) DEF Retops

\* What a compiled call is bound to is immortal.
LEMMA DirectProc ==
  ASSUME CodeInv, ProcTypes, ProcInv, NEW p \in Procs, DirectCall(p)
  PROVE  ProcTypes' /\ ProcInv'
<1> DEFINE st == stack[p]
           n == Len(stack[p])
<1>1. PICK b \in insts[Inst(p)].binds :
        stack' = [stack EXCEPT ![p] = Append(@, [inst |-> b, kind |-> "direct", back |-> NoNote])]
  BY ZenonT(30) DEF DirectCall
<1> DEFINE f == [inst |-> b, kind |-> "direct", back |-> NoNote]
           t == Append(st, f)
<1>2. /\ Live(p) /\ call[p] = NoCall /\ n < MaxFrames /\ running' = running /\ call' = call /\ stray' = stray
      /\ UNCHANGED <<procs, noting>> /\ UNCHANGED code
  BY ZenonT(30) DEF DirectCall, Free
<1>3. Holds(p) /\ stack' = [stack EXCEPT ![p] = t]
  BY <1>1, ZenonT(30) DEF ProcInv, ProcTypes
<1>4. st \in Seq(Frame) /\ st # <<>> /\ n \in Nat \ {0} /\ Inst(p) \in Insts
  BY <1>2, <1>3, LiveFacts, ZenonT(30)
<1>6. f \in Frame /\ f.inst = b /\ f.kind = "direct" /\ f.back = NoNote
  BY <1>4, NoteType, ZenonT(30) DEF Frame, Notes, CodeInv, BindInv, Immortal
<1> HIDE DEF f
<1>7. /\ t \in Seq(Frame) /\ t # <<>> /\ Len(t) = n + 1 /\ t[n + 1] = f
      /\ \A j \in 1 .. n : t[j] = st[j]
  BY <1>4, <1>6, AppendFacts
<1>8. Differs(t, st, n)
  BY <1>4, <1>7 DEF Differs
<1>10. ASSUME p \notin stray'
       PROVE  /\ noting[p].inst = None => Says(insts, t, n + 1, running'[p])
              /\ noting[p].inst # None => running'[p] = NoNote
  <2>2. ASSUME noting[p].inst = None PROVE Says(insts, t, n + 1, running'[p])
    <3>2. n \in Nat /\ n + 1 \in Nat \ {0} /\ (n + 1) - 1 = n
      BY <1>4
    <3>3. Says(insts, t, n, running'[p])
      BY <1>7, <1>2, <1>3, <1>10, <2>2, <3>2, AgreeSays, ZenonT(30) DEF Tells, Holds, NotedAt
    <3>5. Says(insts, t, n + 1, running'[p]) <=> Says(insts, t, (n + 1) - 1, running'[p])
      BY <3>2, <1>6, <1>7, TopSays, ZenonT(30)
    <3> QED
      BY <3>2, <3>3, <3>5, ZenonT(30)
  <2> QED
    BY <1>2, <1>3, <1>10, <2>2, ZenonT(30) DEF Tells, Unnoted, Holds, NotedAt
<1>11. Len(t) <= MaxFrames /\ 1 \in 1 .. n /\ n # 0
  BY <1>2, <1>4, <1>7, FramesAssumption
<1> HIDE DEF t
<1>12. Len(t) = n + 1 => /\ t[n + 1].inst \in Insts
                         /\ t[n + 1].kind # "noted" => Immortal(t[n + 1].inst)
                         /\ t[n + 1].kind = "direct" => t[n + 1].back = NoNote
                         /\ n = 0 => t[1].kind = "noted" /\ t[1].back = NoNote
  BY <1>4, NoteType, <1>6, <1>7, <1>11, ZenonT(30) DEF CodeInv, BindInv, Immortal
<1>13. p \notin stray' =>
         /\ Len(t) = n + 1 /\ n # 0 /\ t[n + 1].kind # "direct" => Says(insts, stack[p], n, t[n + 1].back)
         /\ noting[p].inst = None => Says(insts, t, Len(t), running'[p])
         /\ noting[p].inst # None =>
              running'[p] = NoNote /\ 1 \in 1 .. n /\ (Len(t) = n + 1 => t[n + 1].kind = "direct")
  BY <1>6, <1>7, <1>10, <1>11, ZenonT(30)
<1> QED
  BY <1>2, <1>3, <1>7, <1>8, <1>11, <1>12, <1>13, TopProc, ZenonT(30) DEF ProcTypes, Retops

\* A tail call in code that was bound: what is restored later is what the frames
\* below say now.
LEMMA ResumeProc ==
  ASSUME CodeInv, ProcTypes, ProcInv, NEW p \in Procs, ResumeLocal(p)
  PROVE  ProcTypes' /\ ProcInv'
<1> DEFINE st == stack[p]
           n == Len(stack[p])
           f == [st[n] EXCEPT !.kind = "resumed", !.back = Back(p)]
           t == [st EXCEPT ![n] = f]
           m == n - 1
<1>1. /\ Live(p) /\ call[p] = NoCall /\ Top(st).kind = "direct" /\ running' = running /\ call' = call
      /\ stack' = [stack EXCEPT ![p][n] = [@ EXCEPT !.kind = "resumed", !.back = Back(p)]]
      /\ stray' = IF Strays(p) THEN stray \cup {p} ELSE stray
      /\ UNCHANGED <<procs, noting>> /\ UNCHANGED code
  BY DEF ResumeLocal, Free
<1>2. Holds(p) /\ stack' = [stack EXCEPT ![p] = t]
  BY <1>1 DEF ProcInv, ProcTypes
<1>3. /\ st \in Seq(Frame) /\ st # <<>> /\ n \in Nat \ {0} /\ Top(st) = st[n] /\ st[n] \in Frame
      /\ n \in DOMAIN st /\ DOMAIN st = 1 .. n
  BY <1>1, <1>2, LiveFacts, ZenonT(30)
<1>4. st[n].kind = "direct" /\ Immortal(st[n].inst) /\ st[n].inst \in Insts /\ n # 1
  <2>1. st[n].kind = "direct"
    BY <1>1, <1>3, ZenonT(30)
  <2>2. st[1].kind = "noted" /\ "direct" # "noted"
    BY <1>2, <1>3, ZenonT(30) DEF Holds, Shape
  <2>3. st[n].inst \in Insts /\ (st[n].kind # "noted" => Immortal(st[n].inst))
    BY <1>2, <1>3, ZenonT(30) DEF Holds, ProcAt
  <2> QED
    BY <2>1, <2>2, <2>3, ZenonT(30)
<1>6. f \in Frame /\ f.inst = st[n].inst /\ f.kind = "resumed" /\ f.back = Back(p)
  BY <1>3, <1>1, <1>2, BackType, ZenonT(30) DEF Frame
<1> HIDE DEF f
<1>7. /\ t \in Seq(Frame) /\ Len(t) = n /\ t[n] = f /\ \A j \in 1 .. n : j # n => t[j] = st[j]
  BY <1>3, <1>6
<1> HIDE DEF n
<1>8. m \in Nat /\ m # 0 /\ m >= 1 /\ m + 1 = n /\ m <= n /\ \A j \in 1 .. m : j \in 1 .. n /\ j # n
  BY <1>3, <1>4
<1> HIDE DEF t, m
<1>9. Differs(t, st, m) /\ t # <<>>
  BY <1>7, <1>8, <1>3 DEF Differs, n
<1>11. Len(t) = m + 1 /\ t[m + 1] = f /\ Len(t) <= MaxFrames
  BY <1>2, <1>7, <1>8, ZenonT(30) DEF Holds, ProcAt, n
<1>12. ASSUME p \notin stray'
       PROVE  Says(insts, st, m, f.back) /\ Says(insts, t, n, running'[p]) /\ noting[p].inst = None
  <2>1. p \notin stray /\ ~Strays(p) /\ noting[p].inst = None
    BY <1>1, <1>12, ZenonT(30) DEF Strays
  <2>2. Says(insts, st, n, Back(p))
    BY <1>1, <1>2, <2>1, BackIs, ZenonT(30) DEF n
  <2>3. Says(insts, st, n, running[p])
    BY <1>1, <1>2, <2>1, ZenonT(30) DEF Holds, NotedAt, Tells, n
  <2>5. Says(insts, st, m, Back(p)) /\ Says(insts, st, m, running[p])
    BY <1>3, <2>2, <2>3, <1>4, <1>6, <1>7, TopSays, ZenonT(30) DEF m
  <2>6. Says(insts, t, m, running[p])
    <3>1. m \in Nat /\ \A j \in 1 .. m : t[j] = st[j]
      BY <1>7, <1>8, ZenonT(30)
    <3> QED
      BY <2>5, <3>1, AgreeSays, ZenonT(30)
  <2>7. Says(insts, t, n, running[p])
    BY <1>3, <1>4, <1>6, <1>7, <2>6, TopSays, ZenonT(30) DEF m
  <2> QED
    BY <1>1, <1>6, <2>1, <2>5, <2>7
<1>13. Len(t) = m + 1 => /\ t[m + 1].inst \in Insts
                         /\ t[m + 1].kind # "noted" => Immortal(t[m + 1].inst)
                         /\ t[m + 1].kind = "direct" => t[m + 1].back = NoNote
                         /\ m = 0 => t[1].kind = "noted" /\ t[1].back = NoNote
  BY <1>4, <1>6, <1>8, <1>11, ZenonT(30)
<1> QED
  BY <1>1, <1>2, <1>7, <1>9, <1>11, <1>13, <1>12, TopProc, ZenonT(30) DEF ProcTypes, Retops

\* A return restores what RUNNING should say in the caller.
LEMMA ReturnProc ==
  ASSUME CodeInv, ProcTypes, ProcInv, NEW p \in Procs, Return(p)
  PROVE  ProcTypes' /\ ProcInv'
<1> DEFINE st == stack[p]
           n == Len(stack[p])
           t == Below(stack[p])
           m == n - 1
           top == Top(stack[p])
<1>1. /\ Live(p) /\ call[p] = NoCall /\ n > 1 /\ call' = call /\ stack' = [stack EXCEPT ![p] = t]
      /\ running' = IF top.back = NoNote THEN running ELSE [running EXCEPT ![p] = top.back]
      /\ stray' = IF top.back # NoNote /\ noting[p].inst # None THEN stray \cup {p} ELSE stray
      /\ UNCHANGED <<procs, noting>> /\ UNCHANGED code
  BY ZenonT(30) DEF Return, Free
<1>2. Holds(p)
  BY DEF ProcInv
<1>3. /\ st \in Seq(Frame) /\ st # <<>> /\ n \in Nat \ {0} /\ top = st[n] /\ top \in Frame
      /\ n \in DOMAIN st
  BY <1>1, <1>2, LiveFacts, ZenonT(30)
<1>4. t \in Seq(Frame) /\ Len(t) = m /\ \A j \in 1 .. m : t[j] = st[j]
  BY <1>3, BelowFacts, ZenonT(30)
<1> HIDE DEF t, n
<1>6. m \in Nat /\ 1 \in 1 .. m /\ m <= n /\ m # m + 1 /\ n \in 2 .. n
  BY <1>1, <1>3
<1>7. n = Len(st) /\ n <= MaxFrames
  BY <1>2, ZenonT(30) DEF n, Holds, ProcAt
<1> HIDE DEF m
<1>8. Differs(t, st, m) /\ t # <<>> /\ Len(t) <= MaxFrames
  BY <1>4, <1>3, <1>6, <1>7, FramesAssumption DEF Differs
<1>9. /\ call' \in [Procs -> CallRec] /\ call'[p] = NoCall /\ running' \in [Procs -> Notes]
      /\ \A q \in Procs \ {p} : running'[q] = running[q] /\ call'[q] = call[q] /\ (q \in stray' <=> q \in stray)
      /\ p \in stray => p \in stray'
      /\ running'[p] = IF top.back = NoNote THEN running[p] ELSE top.back
  BY <1>1, <1>3, ZenonT(30) DEF ProcTypes, Frame
<1>10. ASSUME p \notin stray'
       PROVE  /\ noting[p].inst = None => Says(insts, t, m, running'[p])
              /\ noting[p].inst # None => running'[p] = NoNote
  <2>1. Tells(insts, st, running[p], call[p], noting[p].inst)
    BY <1>1, <1>2, <1>10, ZenonT(30) DEF Holds, NotedAt
  <2>2. ASSUME noting[p].inst = None PROVE Says(insts, t, m, running'[p])
    <3>1. Says(insts, st, m, running'[p])
      <4>1. CASE top.kind = "direct"
        <5>2. Says(insts, st, n, running'[p])
          BY <1>7, <1>9, <2>1, <2>2, <1>2, <1>3, <4>1, ZenonT(30) DEF Tells, Holds, Shape
        <5> QED
          BY <1>3, <5>2, <4>1, TopSays, ZenonT(30) DEF m
      <4>2. CASE top.kind # "direct"
        <5>1. Says(insts, st, m, top.back)
          BY <1>3, <1>6, <1>7, <2>1, <4>2, ZenonT(30) DEF Tells, Restores, m
        <5>2. PICK k \in 1 .. m : InnerAt(st, m, k)
          BY <1>2, <1>3, <1>6, <1>7 DEF Holds, Shape
        <5>3. top.back = <<insts[st[k].inst].name, insts[st[k].inst].ver>>
          BY <5>1, <5>2, ZenonT(30) DEF Says
        <5>4. top.back # NoNote
          BY <5>3 DEF NoNote
        <5> QED
          BY <1>9, <5>1, <5>4, ZenonT(30)
      <4> QED
        BY <4>1, <4>2
    <3> QED
      BY <1>4, <1>6, <3>1, AgreeSays, ZenonT(30)
  <2>3. ASSUME noting[p].inst # None PROVE running'[p] = NoNote
    BY <1>1, <1>9, <1>10, <2>3, <2>1, ZenonT(30) DEF Tells, Unnoted
  <2> QED
    BY <2>2, <2>3
<1>11. Len(t) # m + 1
  BY <1>4, <1>6
<1> QED
  BY <1>1, <1>4, <1>8, <1>9, <1>11, <1>6, <1>10, TopProc, ZenonT(30) DEF Retops

-----------------------------------------------------------------------------
(* Purges. *)

LEMMA KillProc ==
  ASSUME CodeInv, ProcTypes, ProcInv, NEW p \in Procs, PurgeKill(p)
  PROVE  ProcTypes' /\ ProcInv'
<1>1. /\ procs' = Marked(p) /\ running' = running /\ stack' = stack /\ call' = call /\ noting' = noting
      /\ stray' = stray /\ insts' = insts
  BY DEF PurgeKill, code
<1>2. procs' \in [Procs -> States] /\ \A q \in Procs : Live(q)' <=> Live(q)
  BY <1>1 DEF ProcTypes, Marked, Live, States
<1>4. ASSUME NEW q \in Procs PROVE Holds(q)'
  BY <1>1, <1>2, ZenonT(30) DEF ProcInv, Holds, ProcAt, NotedAt, Insts, Immortal
<1> QED
  BY <1>1, <1>2, <1>4 DEF ProcInv, ProcTypes

\* For a process that did not stray, RUNNING names what it executes.
LEMMA RunningIs ==
  ASSUME ProcTypes, NEW p \in Procs, Holds(p), Live(p), p \notin stray, noting[p].inst = None
  PROVE  /\ running[p] = Note(Executing(p))
         /\ \E k \in DOMAIN stack[p] : Executing(p) = stack[p][k].inst
<1> DEFINE st == stack[p]
           n == Len(stack[p])
           S == {k \in DOMAIN stack[p] : stack[p][k].kind = "noted"}
<1>1. n \in Nat \ {0} /\ DOMAIN st = 1 .. n /\ n \in DOMAIN st
  BY LiveFacts, ZenonT(30)
<1>2. PICK k \in 1 .. n : InnerAt(st, n, k)
  BY <1>1, ZenonT(30) DEF Holds, Shape
<1>5. (CHOOSE j \in S : \A i \in S : i <= j) = k
  BY <1>1, <1>2 DEF InnerAt
<1> QED
  BY <1>1, <1>5, <1>2, ZenonT(30) DEF Executing, Holds, NotedAt, Tells, Says, Note

LEMMA ScanExact ==
  ASSUME CodeInv, ProcTypes, ProcInv, PurgeScan
  PROVE  PurgeIsExact'
<1>1. missed' = {}
  <2>1. ASSUME NEW p \in Procs \ stray, Live(p), p \notin Holdouts, noting[p].inst = None,
               OutOfDate(Executing(p))
        PROVE  FALSE
    <3>1. Holds(p) /\ running[p] = Note(Executing(p)) /\ \E k \in DOMAIN stack[p] : Executing(p) = stack[p][k].inst
      BY <2>1, RunningIs, ZenonT(30) DEF ProcInv
    <3>2. Executing(p) \in Insts
      BY <3>1, ZenonT(30) DEF Holds, ProcAt
    <3> QED
      BY <2>1, <3>1, <3>2, NoteType DEF OutOfDate, Holdouts
  <2> QED
    BY <2>1 DEF PurgeScan
<1>2. wronged' = {}
  <2>1. ASSUME NEW p \in Holdouts \ stray, \A k \in DOMAIN stack[p] : ~OutOfDate(stack[p][k].inst)
        PROVE  FALSE
    <3>1. /\ p \in Procs /\ running[p] # NoNote /\ running[p][1] = purging.name
          /\ running[p][2] < purging.ver
      BY DEF Holdouts
    <3>2. Holds(p)
      BY <3>1 DEF ProcInv
    <3>4. running[p] = Note(Executing(p)) /\ \E k \in DOMAIN stack[p] : Executing(p) = stack[p][k].inst
      BY <2>1, <3>1, <3>2, RunningIs, ZenonT(30) DEF Holds, ProcAt, NotedAt, Tells, Unnoted
    <3>7. OutOfDate(Executing(p))
      BY <3>1, <3>4, <3>2, NoteType, ZenonT(30) DEF OutOfDate, Holds, ProcAt
    <3> QED
      BY <2>1, <3>4, <3>7, ZenonT(30)
  <2> QED
    BY <2>1, ZenonT(30) DEF PurgeScan
<1> QED
  BY <1>1, <1>2 DEF PurgeIsExact

-----------------------------------------------------------------------------
(* The theorems. *)

LEMMA InitInv == Init => IInv
<1> SUFFICES ASSUME Init PROVE IInv
  OBVIOUS
<1>1. Insts = {} /\ insts \in Seq(InstRec)
  BY DEF Init, Insts
<1>2. CodeInv
  <2>4. BindInv
    BY <1>1, ZenonT(30) DEF BindInv, Init, Idle
  <2> QED
    BY <1>1, <2>4, ZenonT(30) DEF CodeInv, Init, CodeTypes, SlotRec, None, VersionsDistinct, InstInv, SlotInv
<1>3. ProcTypes
  BY DEF Init, ProcTypes, Notes, States, CallRec, NoCall, NotingRec, None
<1>4. ProcInv
  <2> SUFFICES ASSUME NEW p \in Procs PROVE Holds(p)
    BY DEF ProcInv
  <2>1. /\ stack[p] = <<>> /\ call[p] = NoCall /\ noting[p].inst = None /\ running[p] = NoNote
        /\ procs[p] = "new"
    BY DEF Init
  <2> QED
    BY <2>1, FramesAssumption DEF Holds, Live, NoCall, ProcAt, Shape
<1> QED
  BY <1>2, <1>3, <1>4 DEF IInv, PurgeIsExact, Init

\* A step of loading or of a purge leaves the processes alone.
LEMMA CodeStep ==
  ASSUME ProcTypes, ProcInv, Grows, UNCHANGED proc
  PROVE  ProcTypes' /\ ProcInv'
<1>2. ASSUME NEW q \in Procs PROVE Holds(q)'
  BY SameHolds DEF ProcInv, proc, ProcTypes, Same
<1> QED
  BY <1>2 DEF ProcInv, proc, ProcTypes, Same

LEMMA NextInv == IInv /\ [Next]_vars => IInv'
<1> SUFFICES ASSUME IInv, [Next]_vars PROVE IInv'
  OBVIOUS
<1> USE DEF IInv
<1>1. ASSUME UNCHANGED purge PROVE PurgeIsExact'
  BY <1>1 DEF purge, PurgeIsExact
<1>2. ASSUME NEW l \in Loaders, NEW m \in Names, NEW kind \in Kinds[m],
             LoadBegin(l, m, kind.sealed, kind.jit, kind.sites)
      PROVE  IInv'
  <2>1. UNCHANGED proc /\ UNCHANGED purge
    BY <1>2, ZenonT(30) DEF LoadBegin
  <2> QED
    BY <1>1, <1>2, <2>1, BeginCode, CodeStep
<1>3. ASSUME NEW l \in Loaders, LoadBind(l) PROVE IInv'
  <2>1. UNCHANGED proc /\ UNCHANGED purge
    BY <1>3, ZenonT(30) DEF LoadBind
  <2> QED
    BY <1>1, <1>3, <2>1, BindCode, CodeStep
<1>4. ASSUME NEW l \in Loaders, LoadCommit(l) PROVE IInv'
  <2>1. UNCHANGED proc /\ UNCHANGED purge
    BY <1>4, ZenonT(30) DEF LoadCommit
  <2> QED
    BY <1>1, <1>4, <2>1, CommitCode, CodeStep
<1>5. ASSUME NEW p \in Procs, NEW m \in Names, Spawn(p, m) PROVE IInv'
  BY <1>1, <1>5, SlotTypes, SameCode, SpawnProc, ZenonT(30) DEF Spawn
<1>6. ASSUME NEW p \in Procs, NEW m \in Names, NEW how \in {"call", "tail"}, Resolve(p, m, how) PROVE IInv'
  <2>1. UNCHANGED code /\ UNCHANGED purge
    BY <1>6, ZenonT(30) DEF Resolve
  <2> QED
    BY <1>1, <1>6, <2>1, SameCode, ResolveProc
<1>7. ASSUME NEW p \in Procs, NEW q \in Procs, SpawnHere(p, q) PROVE IInv'
  <2> DEFINE k == IF insts[Inst(p)].jit THEN ProcessModule(p) ELSE Inst(p)
  <2>1. /\ Live(p) /\ UNCHANGED code /\ UNCHANGED purge
        /\ \/ Ends(p) /\ UNCHANGED noting
           \/ k # None /\ SpawnOf(p, q, k) /\ UNCHANGED <<running, call, stray>>
    BY <1>7, ZenonT(30) DEF SpawnHere, Free
  <2>3. CASE Ends(p) /\ UNCHANGED noting
    BY <1>1, <2>1, <2>3, SameCode, EndsProc
  <2>4. CASE k # None /\ SpawnOf(p, q, k) /\ UNCHANGED <<running, call, stray>>
    BY <1>1, <2>1, LiveFacts, BackType, <2>4, SameCode, SpawnProc, ZenonT(30) DEF ProcInv
  <2> QED
    BY <2>1, <2>3, <2>4, ZenonT(30)
<1>8. ASSUME NEW p \in Procs, NoteSpawn(p) PROVE IInv'
  <2>1. UNCHANGED code /\ UNCHANGED purge
    BY <1>8 DEF NoteSpawn
  <2> QED
    BY <1>1, <1>8, <2>1, SameCode, NoteSpawnProc
<1>9. ASSUME NEW p \in Procs, Enter(p) PROVE IInv'
  <2>1. UNCHANGED code /\ UNCHANGED purge
    BY <1>9, ZenonT(30) DEF Enter
  <2> QED
    BY <1>1, <1>9, <2>1, SameCode, EnterProc
<1>10. ASSUME NEW p \in Procs, DirectCall(p) PROVE IInv'
  <2>1. UNCHANGED code /\ UNCHANGED purge
    BY <1>10, ZenonT(30) DEF DirectCall
  <2> QED
    BY <1>1, <1>10, <2>1, SameCode, DirectProc
<1>11. ASSUME NEW p \in Procs, ResumeLocal(p) PROVE IInv'
  <2>1. UNCHANGED code /\ UNCHANGED purge
    BY <1>11 DEF ResumeLocal
  <2> QED
    BY <1>1, <1>11, <2>1, SameCode, ResumeProc
<1>12. ASSUME NEW p \in Procs, Return(p) PROVE IInv'
  <2>1. UNCHANGED code /\ UNCHANGED purge
    BY <1>12, ZenonT(30) DEF Return
  <2> QED
    BY <1>1, <1>12, <2>1, SameCode, ReturnProc
<1>13. ASSUME NEW p \in Procs, Die(p) PROVE IInv'
  BY <1>1, <1>13, SameCode, EndsProc DEF Die
<1>14. ASSUME NEW m \in Names, PurgeDrop(m) PROVE IInv'
  <2>1. UNCHANGED proc /\ PurgeIsExact'
    BY <1>14, ZenonT(30) DEF PurgeDrop, PurgeIsExact
  <2> QED
    BY <1>14, <2>1, DropCode, CodeStep
<1>15. ASSUME PurgeScan PROVE IInv'
  BY <1>15, ScanExact, SameCode, CodeStep DEF PurgeScan
<1>16. ASSUME NEW p \in Procs, PurgeKill(p) PROVE IInv'
  BY <1>16, SameCode, KillProc DEF PurgeKill, PurgeIsExact
<1>17. ASSUME UNCHANGED vars PROVE IInv'
  BY <1>1, <1>17, SameCode, CodeStep DEF vars, code, proc, purge
<1> QED
  BY <1>2, <1>3, <1>4, <1>5, <1>6, <1>7, <1>8, <1>9, <1>10, <1>11, <1>12, <1>13, <1>14, <1>15, <1>16, <1>17, ZenonT(30)
     DEF Next

LEMMA ImmortalKept ==
  ASSUME CodeInv, NEW b, Immortal(b)
  PROVE  Kept(b)
BY NoteType, ZenonT(30) DEF Immortal, CodeInv, InstInv, CurOf, Ranked, Kept

LEMMA InvKept == IInv => BoundIsKept
<1> SUFFICES ASSUME IInv PROVE BoundIsKept
  OBVIOUS
<1> USE DEF IInv
<1>1. TypeOK
  <2>4. ASSUME NEW p \in Procs
        PROVE  /\ procs[p] \in {"new", "alive", "killed", "dead"}
               /\ (stack[p] # <<>>) = Live(p) /\ Len(stack[p]) <= MaxFrames
    BY DEF ProcInv, Holds, ProcAt, ProcTypes, States, Live
  <2> QED
    <3>1. /\ \A k \in Insts : insts[k].name \in Names /\ insts[k].ver \in 1 .. Len(insts) /\ insts[k].binds \subseteq Insts
      BY NoteType DEF CodeInv, BindInv, Immortal
    <3>2. \A m \in Names : {slots[m].cur, slots[m].old} \subseteq Insts \cup {None}
      BY SlotTypes
    <3> QED
      BY <3>1, <3>2, <2>4, ZenonT(30) DEF TypeOK, ProcTypes
<1>4. ASSUME NEW p \in Procs, NEW j \in DOMAIN stack[p] PROVE Kept(stack[p][j].inst)
  <2>1. CASE stack[p][j].kind = "direct"
    BY <2>1, ImmortalKept, ZenonT(30) DEF ProcInv, Holds, ProcAt
  <2>2. CASE stack[p][j].kind # "direct"
    BY <2>2, ZenonT(30) DEF Kept
  <2> QED
    BY <2>1, <2>2, ZenonT(30)
<1> QED
  BY <1>1, ImmortalKept, <1>4, ZenonT(30) DEF BoundIsKept, CodeInv, BindInv

LEMMA AlwaysInv == Spec => []IInv
BY InitInv, NextInv, PTL DEF Spec

\* resolve_ext_direct and resume_tail_from: whatever a kept instance, a load under way
\* or a running direct call is bound to is kept, for any modules, loads and purges.
THEOREM BoundStays == Spec => []BoundIsKept
BY AlwaysInv, InvKept, PTL

\* load: two instances of a name never have the same version, however their
\* compilations overlap.
THEOREM VersionsTellApart == Spec => []VersionsDistinct
<1> QED
  BY AlwaysInv, PTL DEF IInv, CodeInv

\* purge: the scan of RUNNING lists every process that executes an older version and
\* none that left the older versions behind.
THEOREM PurgeKillsExactly == Spec => []PurgeIsExact
<1> QED
  BY AlwaysInv, PTL DEF IInv
=============================================================================
