------------------------------- MODULE Engines -------------------------------
(***************************************************************************)
(* The two engines over the same modules: a process that only interprets   *)
(* (i) and one that runs compiled code where it can (n) start from the     *)
(* same call in the same world and execute one instruction each per step.  *)
(* modload.rs loads the modules, dispatches calls between them and runs    *)
(* the trampoline that tail calls return to.                               *)
(***************************************************************************)
EXTENDS Jit, Interp, Native

CONSTANTS
  Cases,      \* [mods, args, w]: modules in the order they load, each [name, blob,
              \* sealed]; arguments of the first function of the last; the world
  MaxNative,  \* most arguments of a compiled entry: 16
  MaxDepth,   \* bound on frames
  MaxLog,     \* bound on what a process does to others
  MaxSince    \* most instructions between two polls

VARIABLES given, phase, mods, i, n

vars == <<given, phase, mods, i, n>>

-----------------------------------------------------------------------------
(* Loading: decode, verify, compile against the sealed modules that are there. *)

\* function_named: the first function of that name, counted from 1, or 0.
FunctionNamed(md, name) ==
  LET S == {k \in DOMAIN md.fns : md.atoms[md.fns[k].name + 1] = name} IN
  IF S = {} THEN 0 ELSE CHOOSE k \in S : \A j \in S : k <= j

\* load_full
LoadFull(entry, loaded) ==
  LET d == Decode(entry.blob)
      md == [atoms |-> d.atoms, fns |-> d.fns]
      comp == [k \in DOMAIN d.fns |-> Compiled(md, d.fns[k])]
  IN  IF d.at = Bad THEN [ok |-> FALSE, mods |-> loaded]
      ELSE IF ~Verify(md) THEN [ok |-> FALSE, mods |-> loaded]
      ELSE [ok |-> TRUE, mods |-> [m \in DOMAIN loaded \cup {entry.name} |->
             IF m # entry.name THEN loaded[m]
             ELSE [atoms |-> d.atoms, fns |-> d.fns, sealed |-> entry.sealed,
                   tailers |-> SentinelReturners(md),
                   jit |-> \A k \in DOMAIN comp : comp[k].ok,
                   emitted |-> [k \in DOMAIN comp |-> comp[k].emitted],
                   before |-> DOMAIN loaded]]]

RECURSIVE LoadAll(_, _)
LoadAll(entries, r) ==
  IF entries = <<>> \/ ~r.ok THEN r ELSE LoadAll(Tail(entries), LoadFull(Head(entries), r.mods))

\* resolve_ext_direct, as the compiler of module m saw it: the callee is sealed,
\* compiled and there already.
Direct(ms, m, target, name, nargs) ==
  /\ target \in ms[m].before /\ ms[target].sealed /\ ms[target].jit
  /\ LET k == FunctionNamed(ms[target], name) IN k # 0 /\ ms[target].fns[k].arity = nargs
  /\ nargs <= MaxNative

-----------------------------------------------------------------------------
(* A machine: its engine, frames, why and with what it stopped, its world, the *)
(* instructions since the last poll, the tail target stashed on its CPU, the   *)
(* module RUNNING names, and how it left what the engines agree on.            *)

NoTarget == [how |-> "none", m |-> 0, f |-> 0, args |-> <<>>]
NoModule == 0

Stop(mc, why, v) == [mc EXCEPT !.why = why, !.v = v]
Top(mc) == Last(mc.stack)

\* safepoint: another process may run, here or after a move on another CPU, and
\* whatever was stashed on this one is not there any more.
Poll(mc) == [mc EXCEPT !.since = 0, !.stash = NoTarget]

SetTop(mc, r, v, pc) ==
  [mc EXCEPT !.stack = [@ EXCEPT ![Len(@)] = [@ EXCEPT !.regs[r + 1] = v, !.pc = pc]]]
Goto(mc, pc) == [mc EXCEPT !.stack = [@ EXCEPT ![Len(@)] = [@ EXCEPT !.pc = pc]]]

\* A frame for function f of module m.  kind is how it was entered: "hop" from the
\* trampoline, "call" by a sibling, "direct" at its published address.
Push(mc, m, f, args, fr) ==
  LET fn == mods[m].fns[f] IN
  IF Len(mc.stack) >= MaxDepth THEN Stop(mc, "overflow", Nil)
  ELSE IF ~fr.nat /\ Len(args) # fn.arity THEN Stop(mc, "badarg", Nil)
  ELSE [mc EXCEPT !.stack = Append(@,
         [m |-> m, f |-> f, pc |-> 0,
          regs |-> [k \in 1 .. fn.nregs |-> IF k \in DOMAIN args THEN args[k] ELSE Nil],
          rd |-> fr.rd, kind |-> fr.kind, nat |-> fr.nat, back |-> fr.back])]

\* invoke_once: compiled code for as many arguments as it is entered with.
InvokeOnce(mc, m, f, args, rd, back) ==
  Push(mc, m, f, args, [rd |-> rd, kind |-> "hop", back |-> back,
                        nat |-> mc.jit /\ mods[m].jit /\ Len(args) <= MaxNative])

\* call_ext_dynamic, and next_tail_target for another module: the current module of
\* that name, which RUNNING names from then on.
Dispatch(mc, target, name, args, rd, back) ==
  IF target \notin DOMAIN mods THEN Stop(mc, "badarg", Nil)
  ELSE LET f == FunctionNamed(mods[target], name) IN
    IF f = 0 THEN Stop(mc, "badarg", Nil)
    ELSE IF mods[target].fns[f].arity # Len(args) THEN Stop(mc, "badarg", Nil)
    ELSE InvokeOnce([mc EXCEPT !.run = target], target, f, args, rd, back)

\* One turn of the trampoline, for the frame a sentinel came back to.
Hop(mc, m, rd, back) ==
  LET t == mc.stash
      taken == [mc EXCEPT !.stash = NoTarget]
  IN  CASE t.how = "none" -> Stop(mc, "badcode", Nil)
        [] t.how = "ext" -> Dispatch(taken, t.m, t.f, t.args, rd, back)
        [] t.how = "local" -> InvokeOnce(taken, m, t.f, t.args, rd, back)

\* The top frame returns v: to the register of its caller, whose module RUNNING
\* names again after a dynamic call; or the sentinel unwinds to a trampoline.
RECURSIVE Return(_, _)
Return(mc, v) ==
  LET fr == Top(mc)
      below == [mc EXCEPT !.stack = Front(@)]
      home == IF fr.back = NoModule THEN below ELSE [below EXCEPT !.run = fr.back]
  IN  IF v = Sentinel /\ fr.kind = "call" THEN Return(below, v)
      ELSE IF v = Sentinel /\ fr.kind = "hop" THEN Hop(below, fr.m, fr.rd, fr.back)
      ELSE IF v = Sentinel /\ fr.f \in mods[fr.m].tailers THEN Hop(below, fr.m, fr.rd, mc.run)
      ELSE IF below.stack = <<>> THEN Stop(below, "done", v)
      ELSE SetTop(home, fr.rd, v, Top(below).pc)

\* Mutant: the target is stashed before the poll.
TailCall_Early(mc, target) == Return(Poll([mc EXCEPT !.stash = target]), Sentinel)

\* A tail call polls, stashes its target and returns the sentinel.
TailCall(mc, target) == Return([Poll(mc) EXCEPT !.stash = target], Sentinel)

-----------------------------------------------------------------------------
(* One instruction. *)

NoDest == {"NOP", "SEND", "PRINT", "PORT_SUBMIT", "PORT_SUBMIT2", "SLEEP_MS"}

\* Mutant: compiled code does not poll.
JumpPolls_Interp(nat, off, taken) == off < 0 /\ taken /\ ~nat

\* The interpreter polls on the back edges it takes, compiled code before it knows.
JumpPolls(nat, off, taken) == off < 0 /\ (nat \/ taken)

Jump(mc, fr, len, next, off, taken) ==
  LET at == IF taken THEN next + off ELSE next
      polled == IF JumpPolls(fr.nat, off, taken) THEN Poll(mc) ELSE mc
  IN  IF at < 0 \/ at > len THEN Stop(polled, "badcode", Nil) ELSE Goto(polled, at)

\* A call of another module: bound at compile time, without a poll, or dynamic.
CallExt(mc, fr, rd, target, name, args) ==
  IF fr.nat /\ Direct(mods, fr.m, target, name, Len(args))
  THEN Push(mc, target, FunctionNamed(mods[target], name), args,
         [rd |-> rd, kind |-> "direct", back |-> NoModule, nat |-> TRUE])
  ELSE Dispatch(Poll(mc), target, name, args, rd, IF fr.nat THEN mc.run ELSE fr.m)

\* Where the engines are known to differ: a product beyond a machine word traps only
\* when interpreted, and compiled code spawns a function of the module RUNNING names,
\* which is not its own below a direct call.
Oddity(mc, fr, o, x) ==
  CASE o = "MUL" -> IF IsInt(x[2]) /\ IsInt(x[3]) /\ x[2][2] * x[3][2] # Signed(x[2][2] * x[3][2], WordBits)
                    THEN "product" ELSE mc.odd
    [] o = "SPAWN" -> IF fr.nat /\ mc.run # fr.m THEN "spawn" ELSE mc.odd
    [] OTHER -> mc.odd

Plain(mc, fr, o, x, rd, next) ==
  LET r == IF fr.nat THEN NativeOp(o, x, fr.m, mc.run, mods, mc.w)
           ELSE InterpOp(o, x, fr.m, mods[fr.m], mc.w)
      after == [(IF o = "SLEEP_MS" THEN Poll(mc) ELSE mc) EXCEPT !.w = r.w, !.odd = Oddity(mc, fr, o, x)]
  IN  IF r.why # "" THEN Stop(after, r.why, r.v)
      ELSE IF o \in NoDest THEN Goto(after, next)
      ELSE SetTop(after, rd, r.v, next)

StepOf(was) ==
  LET fr == Top(was)
      md == mods[fr.m]
      fn == md.fns[fr.f]
      here == fr.pc < Len(fn.code) /\ (fr.nat => fr.pc \in md.emitted[fr.f])
      o == OpAt(fn.code, fr.pc)
      layout == IF fr.nat THEN CompileLayout(o) ELSE InterpLayout(o)
      next == Decoded(layout, fn.code, fr.pc)
      raw == Values(layout, fn.code, fr.pc + 1)
      inside == \A k \in DOMAIN layout :
                  CASE layout[k] = "r" -> raw[k] < fn.nregs
                    [] layout[k] \in {"regs", "pairs"} -> \A j \in DOMAIN raw[k] : raw[k][j] < fn.nregs
                    [] OTHER -> TRUE
      x == [k \in DOMAIN layout |->
              CASE layout[k] = "r" -> fr.regs[raw[k] + 1]
                [] layout[k] \in {"regs", "pairs"} -> [j \in DOMAIN raw[k] |-> fr.regs[raw[k][j] + 1]]
                [] layout[k] = "atom" -> IF o = "LOAD_ATOM" THEN raw[k] ELSE md.atoms[raw[k] + 1]
                [] OTHER -> raw[k]]
      mc == Goto([was EXCEPT !.since = @ + 1], next)
  IN  IF ~here THEN Stop(was, "badcode", Nil)
      ELSE IF next = Bad THEN Stop(was, "badcode", Nil)
      ELSE IF ~inside THEN Stop(was, "badcode", Nil)
      ELSE CASE o = "JMP" -> Jump(mc, fr, Len(fn.code), next, x[1], TRUE)
             [] o = "JMP_IF" -> IF IsInt(x[1]) THEN Jump(mc, fr, Len(fn.code), next, x[2], x[1][2] # 0)
                                ELSE Stop(mc, "badarg", Nil)
             [] o = "CALL" -> Push(Poll(mc), fr.m, x[2] + 1, x[3],
                                [rd |-> raw[1], kind |-> "call", back |-> NoModule, nat |-> fr.nat])
             [] o = "RET" -> Return(mc, x[1])
             [] o = "TAIL_CALL" -> TailCall(mc, [how |-> "local", m |-> 0, f |-> x[1] + 1, args |-> x[2]])
             [] o = "TAIL_CALL_EXT" -> TailCall(mc, [how |-> "ext", m |-> x[1], f |-> x[2], args |-> x[3]])
             [] o = "CALL_EXT" -> CallExt(mc, fr, raw[1], x[2], x[3], x[4])
             [] OTHER -> Plain(mc, fr, o, x, raw[1], next)

-----------------------------------------------------------------------------

Idle == [jit |-> FALSE, stack |-> <<>>, why |-> "idle", v |-> Nil, w |-> 0, since |-> 0,
         stash |-> NoTarget, run |-> NoModule, odd |-> ""]

Init == /\ given \in Cases /\ phase = "load" /\ mods = <<>>
        /\ i = Idle /\ n = Idle

\* Both processes begin in bytecode_entry, or the load fails.
Load ==
  /\ phase = "load" /\ UNCHANGED <<given, i, n>>
  /\ LET r == LoadAll(given.mods, [ok |-> TRUE, mods |-> <<>>]) IN
     IF r.ok THEN mods' = r.mods /\ phase' = "enter" ELSE mods' = mods /\ phase' = "rejected"

Entry == Last(given.mods).name

Enter ==
  /\ phase = "enter" /\ phase' = "run" /\ UNCHANGED <<given, mods>>
  /\ LET start(jit) == InvokeOnce([Idle EXCEPT !.jit = jit, !.why = "", !.w = given.w, !.run = Entry],
                                  Entry, 1, given.args, 0, NoModule)
     IN  i' = start(FALSE) /\ n' = start(TRUE)

Running(mc) == mc.why = "" /\ Len(mc.w.log) < MaxLog

Step ==
  /\ phase = "run" /\ (Running(i) \/ Running(n))
  /\ i' = IF Running(i) THEN StepOf(i) ELSE i
  /\ n' = IF Running(n) THEN StepOf(n) ELSE n
  /\ UNCHANGED <<given, phase, mods>>

Next == Load \/ Enter \/ Step

Spec == Init /\ [][Next]_vars

-----------------------------------------------------------------------------
(* Correctness. *)

Whys == {"idle", "", "done", "exit", "badarg", "badcode", "blocked", "overflow", "heap quota exceeded"}

\* Machines are well formed: registers as many as their function has, offsets inside
\* its code, and a stack that is empty only before the start and after the end.
TypeOK ==
  /\ phase \in {"load", "enter", "run", "rejected"}
  /\ \A mc \in {i, n} :
       /\ mc.why \in Whys /\ (mc.why = "" => mc.stack # <<>>) /\ Len(mc.stack) <= MaxDepth
       /\ \A k \in DOMAIN mc.stack :
            LET fr == mc.stack[k] fn == mods[fr.m].fns[fr.f] IN
            /\ Len(fr.regs) = fn.nregs /\ fr.pc \in 0 .. Len(fn.code)
            /\ fr.nat => mc.jit

Starts(code) == SkipScan(code, 0).starts

\* Where a decoder of the given layouts finds instructions, by its own stride.
RECURSIVE Stride(_, _, _)
Stride(Layout(_), code, at) ==
  IF at = Bad THEN {Bad}
  ELSE IF at >= Len(code) THEN {}
  ELSE {at} \cup Stride(Layout, code, Decoded(Layout(OpAt(code, at)), code, at))

\* Every decoder (verify_fn, skip_operands, find_leaders, skip_insn, the translation
\* and the interpreter) finds the same instructions in code that was loaded, and
\* compiles it: verified code never fails to compile, and the translation leaves out
\* nothing.
DecodersAgree ==
  \A m \in DOMAIN mods : \A k \in DOMAIN mods[m].fns :
    LET code == mods[m].fns[k].code
        bounds == Scanned(mods[m], mods[m].fns[k]).bounds
    IN  /\ Starts(code) = bounds
        /\ Stride(LeaderLayout, code, 0) = bounds
        /\ Stride(SkipLayout, code, 0) = bounds
        /\ Stride(InterpLayout, code, 0) = bounds
        /\ mods[m].jit /\ mods[m].emitted[k] = bounds

\* What CodeBuilder and encode make is what loads, whole: the labels land where the
\* verifier accepts them, a blob that decodes is not refused, and one that was cut
\* short never loads.
LoadsWhole ==
  /\ phase \in {"enter", "run"} => \A k \in DOMAIN given.mods :
       Encode(mods[given.mods[k].name]) = given.mods[k].blob
  /\ phase = "rejected" => \E k \in DOMAIN given.mods : Decode(given.mods[k].blob).at = Bad

\* The verifier's promise: no loaded code runs off its end, jumps between
\* instructions, names a register outside its frame, or returns the sentinel to a
\* trampoline with nothing stashed, in either engine.
NeverBadCode == TypeOK /\ i.why # "badcode" /\ n.why # "badcode"

\* The sentinel stays between a tail call and its trampoline: it is never in a
\* register, sent, or returned from a process.
SentinelContained ==
  \A mc \in {i, n} :
    /\ mc.v # Sentinel
    /\ \A k \in DOMAIN mc.stack : \A r \in DOMAIN mc.stack[k].regs : mc.stack[k].regs[r] # Sentinel

Seen(mc) ==
  [why |-> mc.why, v |-> mc.v, w |-> mc.w,
   frames |-> [k \in DOMAIN mc.stack |-> [m |-> mc.stack[k].m, f |-> mc.stack[k].f,
                                         pc |-> mc.stack[k].pc, regs |-> mc.stack[k].regs]]]

\* Compiled code does what the interpreter does, instruction by instruction: the same
\* registers, effects, results and exits, except after the two known oddities.
EnginesAgree == i.odd = "" /\ n.odd = "" => Seen(i) = Seen(n)

\* No process keeps its CPU: however it loops or calls, it polls again within a
\* number of instructions that depends on the code and not on its input.
PollsOften == i.since <= MaxSince /\ n.since <= MaxSince
=============================================================================
