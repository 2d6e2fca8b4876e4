------------------------------- MODULE Modload -------------------------------
(***************************************************************************)
(* Hot code loading (kernel/src/modload.rs): the table of modules with a   *)
(* current and an old version each, the registry RUNNING of which version  *)
(* a process executes, loads that compile before they commit, calls that   *)
(* move a process to the current version, and purges that kill the         *)
(* processes left behind.  The steps are those between two locks.          *)
(***************************************************************************)
EXTENDS Integers, Sequences, FiniteSets

CONSTANTS
  Names, Procs, Loaders,
  Booted,      \* the processes the kernel spawns; the others are spawned by processes
  Kinds,       \* per name the loads there may be: [sealed, jit : BOOLEAN, sites : SUBSET Names]
  MaxLoads,    \* bound on committed loads
  MaxFrames,   \* bound on nested calls of other modules
  MaxCalls,    \* bound on calls of other modules, of all processes together
  MaxPurges    \* bound on purges

ASSUME FramesAssumption == MaxFrames \in Nat \ {0}
ASSUME LoadsAssumption ==
  \A m \in Names : Kinds[m] \subseteq [sealed : BOOLEAN, jit : BOOLEAN, sites : SUBSET Names]

None == 0
NoNote == <<>>

VARIABLES
  insts,    \* LoadedModules, in the order of their commits: [name, ver, sealed, jit, binds]
  slots,    \* MODULES: per name the places in insts of the current and the old version
  running,  \* RUNNING: per process NoNote or <<name, version>>; what it says of the dead
            \* is left out, as purge drops it before it reads the rest
  procs,    \* per process "new", "alive", "killed" or "dead"
  stack,    \* its trampolines and direct calls: [inst, kind, back]
  call,     \* the call it has resolved and not entered yet
  noting,   \* spawn_fn between proc::spawn and note_running: the instance of the new
            \* process, and who spawned it
  loading,  \* per loader: Idle, or the load under way
  purging,  \* the purge under way, between its two locks
  purges, calls,   \* how many there were
  stray,    \* processes that ran before they were noted, or outlived their version
  missed,   \* what the last purge should have killed and did not
  wronged   \* what it should not have killed and did

vars == <<insts, slots, running, procs, stack, call, noting, loading, purging, purges, calls, stray, missed, wronged>>
code == <<insts, slots, loading>>
proc == <<running, procs, stack, call, noting, calls, stray>>
purge == <<purging, purges, missed, wronged>>

Idle == [on |-> FALSE]
NoCall == [how |-> "none", inst |-> None, back |-> NoNote]

Init ==
  /\ insts = <<>> /\ slots = [m \in Names |-> [cur |-> None, old |-> None]]
  /\ running = [p \in Procs |-> NoNote] /\ procs = [p \in Procs |-> "new"]
  /\ stack = [p \in Procs |-> <<>>] /\ call = [p \in Procs |-> NoCall]
  /\ noting = [p \in Procs |-> [inst |-> None, by |-> "nobody"]]
  /\ loading = [l \in Loaders |-> Idle] /\ purging = Idle /\ purges = 0 /\ calls = 0
  /\ stray = {} /\ missed = {} /\ wronged = {}

\* The innermost frame of a stack, and the frames it will return to.
Top(st) == st[Len(st)]
Below(st) == SubSeq(st, 1, Len(st) - 1)

Sealed(m) == slots[m].cur # None /\ insts[slots[m].cur].sealed
Note(k) == <<insts[k].name, insts[k].ver>>

-----------------------------------------------------------------------------
(* Loading. *)

\* load_sealed or load: decoded and verified, and about to compile code that calls
\* the modules in sites.
LoadBegin(l, m, sealed, jit, sites) ==
  /\ ~loading[l].on /\ Len(insts) + Cardinality({k \in Loaders : loading[k].on}) < MaxLoads
  /\ ~(sealed /\ Sealed(m))      \* already there: returned as it is
  /\ loading' = [loading EXCEPT ![l] = [on |-> TRUE, name |-> m, sealed |-> sealed, jit |-> jit,
                                        binds |-> {}, todo |-> sites]]
  /\ UNCHANGED <<insts, slots>> /\ UNCHANGED proc /\ UNCHANGED purge

\* Mutant: any compiled module is bound.
Bindable_Any(m) == slots[m].cur # None /\ insts[slots[m].cur].jit

\* resolve_ext_direct binds only what is sealed and compiled.
Bindable(m) == Sealed(m) /\ insts[slots[m].cur].jit

\* One call site's module is looked up.
LoadBind(l) ==
  /\ loading[l].on
  /\ \E m \in loading[l].todo :
       loading' = [loading EXCEPT ![l].todo = @ \ {m},
                                  ![l].binds = @ \cup IF Bindable(m) THEN {slots[m].cur} ELSE {}]
  /\ UNCHANGED <<insts, slots>> /\ UNCHANGED proc /\ UNCHANGED purge

\* A sealed instance is never swapped out.
Replaces(m) == ~Sealed(m)

\* Mutant: the version is that of the slot's old instance.
NextVersion_Old(m) == IF slots[m].old = None THEN 1 ELSE insts[slots[m].old].ver + 1

NextVersion(m) == IF slots[m].cur = None THEN 1 ELSE insts[slots[m].cur].ver + 1

\* Under the lock of MODULES: the version, and the new current instance.
LoadCommit(l) ==
  LET ld == loading[l] m == ld.name new == Len(insts) + 1 IN
  /\ ld.on /\ ld.todo = {}
  /\ loading' = [loading EXCEPT ![l] = Idle]
  /\ IF Replaces(m)
     THEN /\ insts' = Append(insts, [name |-> m, ver |-> NextVersion(m), sealed |-> ld.sealed,
                                     jit |-> ld.jit, binds |-> ld.binds])
          /\ slots' = [slots EXCEPT ![m] = [cur |-> new, old |-> slots[m].cur]]
     ELSE UNCHANGED <<insts, slots>>
  /\ UNCHANGED proc /\ UNCHANGED purge

-----------------------------------------------------------------------------
(* Processes. *)

\* Can take a step: nothing it spawned is still to be noted.  A killed process runs on until it
\* polls.
Live(p) == procs[p] \in {"alive", "killed"}
Free(p) == Live(p) /\ \A q \in Procs : noting[q].by # p
Inst(p) == Top(stack[p]).inst

\* current_process_module: the instance RUNNING names, or the current one of that
\* name when the version is gone.
Gone(p) == /\ running[p] # NoNote
           /\ LET s == slots[running[p][1]] IN
              \A k \in {s.cur, s.old} \ {None} : insts[k].ver # running[p][2]
ProcessModule(p) ==
  IF running[p] = NoNote THEN None
  ELSE LET s == slots[running[p][1]] IN
    IF s.old # None /\ insts[s.old].ver = running[p][2] THEN s.old ELSE s.cur

\* spawn_fn, up to proc::spawn: the new process can run from here on.
SpawnOf(by, q, k) ==
  /\ procs[q] = "new"
  /\ procs' = [procs EXCEPT ![q] = "alive"]
  /\ stack' = [stack EXCEPT ![q] = <<[inst |-> k, kind |-> "noted", back |-> NoNote]>>]
  /\ noting' = [noting EXCEPT ![q] = [inst |-> k, by |-> by]]

\* modload::spawn, from the kernel.
Spawn(q, m) ==
  /\ q \in Booted /\ slots[m].cur # None /\ SpawnOf("kernel", q, slots[m].cur)
  /\ UNCHANGED <<running, call, calls, stray>> /\ UNCHANGED code /\ UNCHANGED purge

\* A process ends, with whatever it had under way.
Ends(p) ==
  /\ procs' = [procs EXCEPT ![p] = "dead"] /\ running' = [running EXCEPT ![p] = NoNote]
  /\ stack' = [stack EXCEPT ![p] = <<>>] /\ call' = [call EXCEPT ![p] = NoCall]
  /\ stray' = stray \ {p}

\* The instruction: the interpreter spawns in its own module, rt_spawn in the one
\* RUNNING names, and without one the process exits with badarg.
SpawnHere(p, q) ==
  LET k == IF insts[Inst(p)].jit THEN ProcessModule(p) ELSE Inst(p) IN
  /\ Free(p) /\ call[p] = NoCall /\ q \notin Booted
  /\ IF k = None
     THEN Ends(p) /\ UNCHANGED noting
     ELSE SpawnOf(p, q, k) /\ UNCHANGED <<running, call, stray>>
  /\ UNCHANGED calls /\ UNCHANGED code /\ UNCHANGED purge

\* note_running of spawn_fn, whatever became of the process since.
NoteSpawn(q) ==
  /\ noting[q].inst # None
  /\ running' = IF Live(q) THEN [running EXCEPT ![q] = Note(noting[q].inst)] ELSE running
  /\ noting' = [noting EXCEPT ![q] = [inst |-> None, by |-> "nobody"]]
  /\ UNCHANGED <<procs, stack, call, calls, stray>> /\ UNCHANGED code /\ UNCHANGED purge

\* What RUNNING goes back to when a frame that is entered returns: the caller's own
\* instance when it is interpreted, what RUNNING named when it is compiled.
Back(p) ==
  IF ~insts[Inst(p)].jit THEN Note(Inst(p))
  ELSE IF ProcessModule(p) = None THEN NoNote ELSE Note(ProcessModule(p))

\* A call before spawn_fn noted the process, or from a version that is gone.
Strays(p) == noting[p].inst # None \/ (insts[Inst(p)].jit /\ Gone(p))

\* A call or tail call of another module polls, which ends a killed process, and
\* takes the current instance ...
Resolve(p, m, how) ==
  /\ procs[p] = "alive" /\ Free(p) /\ call[p] = NoCall /\ slots[m].cur # None /\ calls < MaxCalls /\ calls' = calls + 1
  /\ how = "call" => Len(stack[p]) < MaxFrames /\ \A b \in insts[Inst(p)].binds : insts[b].name # m
  /\ LET top == Top(stack[p])
         replaces == how = "tail" /\ top.kind # "direct"
         back == IF replaces THEN top.back ELSE Back(p)
     IN  /\ call' = [call EXCEPT ![p] = [how |-> how, inst |-> slots[m].cur, back |-> back]]
         /\ stray' = IF ~replaces /\ Strays(p) THEN stray \cup {p} ELSE stray
  /\ UNCHANGED <<running, procs, stack, noting>> /\ UNCHANGED code /\ UNCHANGED purge

Noted(p) == Note(call[p].inst)

\* ... notes it and runs it: call_ext_dynamic in a frame of its own, next_tail_target
\* in place of the frame that tail-called.
Enter(p) ==
  /\ Free(p) /\ call[p] # NoCall /\ call' = [call EXCEPT ![p] = NoCall]
  /\ running' = [running EXCEPT ![p] = Noted(p)]
  /\ stack' = [stack EXCEPT ![p] = Append(IF call[p].how = "call" THEN @ ELSE Below(@),
                 [inst |-> call[p].inst, kind |-> "noted", back |-> call[p].back])]
  /\ stray' = IF noting[p].inst # None THEN stray \cup {p} ELSE stray
  /\ UNCHANGED <<procs, noting, calls>> /\ UNCHANGED code /\ UNCHANGED purge

\* A call bound at compile time: no lookup, no note, no reference is taken.
DirectCall(p) ==
  /\ Free(p) /\ call[p] = NoCall /\ Len(stack[p]) < MaxFrames
  /\ calls < MaxCalls /\ calls' = calls + 1
  /\ \E b \in insts[Inst(p)].binds :
       stack' = [stack EXCEPT ![p] = Append(@, [inst |-> b, kind |-> "direct", back |-> NoNote])]
  /\ UNCHANGED <<running, procs, call, noting, stray>> /\ UNCHANGED code /\ UNCHANGED purge

\* Its callee tail-calls a function of its own: resume_tail_from takes a reference
\* through the token and goes on in the same instance, which stays unnoted.
ResumeLocal(p) ==
  /\ Free(p) /\ call[p] = NoCall /\ Top(stack[p]).kind = "direct"
  /\ stack' = [stack EXCEPT ![p][Len(stack[p])] = [@ EXCEPT !.kind = "resumed", !.back = Back(p)]]
  /\ stray' = IF Strays(p) THEN stray \cup {p} ELSE stray
  /\ UNCHANGED <<running, procs, call, noting, calls>> /\ UNCHANGED code /\ UNCHANGED purge

\* A return to the caller, which restores RUNNING after a dynamic call.
Return(p) ==
  /\ Free(p) /\ call[p] = NoCall /\ Len(stack[p]) > 1
  /\ LET top == Top(stack[p]) IN
     /\ running' = IF top.back = NoNote THEN running ELSE [running EXCEPT ![p] = top.back]
     /\ stray' = IF top.back # NoNote /\ noting[p].inst # None THEN stray \cup {p} ELSE stray
  /\ stack' = [stack EXCEPT ![p] = Below(@)]
  /\ UNCHANGED <<procs, call, noting, calls>> /\ UNCHANGED code /\ UNCHANGED purge

\* A process ends: its entry returns, a poll finds it killed, or it traps, on a call
\* of what is not there, a bad argument, its quota.
Die(p) == Free(p) /\ Ends(p) /\ UNCHANGED <<noting, calls>> /\ UNCHANGED code /\ UNCHANGED purge

-----------------------------------------------------------------------------
(* Purging. *)

\* Its first lock: the old version leaves the table.
PurgeDrop(m) ==
  /\ ~purging.on /\ purges < MaxPurges /\ slots[m].cur # None
  /\ slots' = [slots EXCEPT ![m].old = None]
  /\ purging' = [on |-> TRUE, name |-> m, ver |-> insts[slots[m].cur].ver, listed |-> FALSE, kill |-> {}]
  /\ purges' = purges + 1
  /\ UNCHANGED <<insts, loading, missed, wronged>> /\ UNCHANGED proc

\* The innermost frame that was entered with a note.
Executing(p) ==
  LET S == {k \in DOMAIN stack[p] : stack[p][k].kind = "noted"} IN
  stack[p][CHOOSE k \in S : \A j \in S : j <= k].inst

OutOfDate(k) == insts[k].name = purging.name /\ insts[k].ver < purging.ver

\* Mutant: the version before the current one is no holdout.
Holdouts_Older ==
  {p \in Procs : running[p] # NoNote /\ running[p][1] = purging.name /\ running[p][2] < purging.ver - 1}

Holdouts ==
  {p \in Procs : running[p] # NoNote /\ running[p][1] = purging.name /\ running[p][2] < purging.ver}

\* Its second, of RUNNING: who runs an older version is listed ...
PurgeScan ==
  /\ purging.on /\ ~purging.listed
  /\ purging' = IF Holdouts = {} THEN Idle ELSE [purging EXCEPT !.listed = TRUE, !.kill = Holdouts]
  /\ missed' = {p \in Procs \ stray : /\ Live(p) /\ p \notin Holdouts /\ noting[p].inst = None
                                       /\ OutOfDate(Executing(p))}
  /\ wronged' = {p \in Holdouts \ stray : \A k \in DOMAIN stack[p] : ~OutOfDate(stack[p][k].inst)}
  /\ UNCHANGED purges /\ UNCHANGED proc /\ UNCHANGED code

\* mark_dead leaves the dead alone.
Marked(p) == IF Live(p) THEN [procs EXCEPT ![p] = "killed"] ELSE procs

\* ... and killed, one after the other, whatever they did meanwhile.
PurgeKill(p) ==
  /\ purging.on /\ p \in purging.kill
  /\ purging' = IF purging.kill = {p} THEN Idle ELSE [purging EXCEPT !.kill = @ \ {p}]
  /\ procs' = Marked(p)
  /\ UNCHANGED <<running, stack, call, noting, calls, purges, stray, missed, wronged>> /\ UNCHANGED code

-----------------------------------------------------------------------------

Next ==
  \/ \E l \in Loaders :
       \/ \E m \in Names : \E kind \in Kinds[m] : LoadBegin(l, m, kind.sealed, kind.jit, kind.sites)
       \/ LoadBind(l) \/ LoadCommit(l)
  \/ \E p \in Procs :
       \/ \E m \in Names : Spawn(p, m) \/ Resolve(p, m, "call") \/ Resolve(p, m, "tail")
       \/ \E q \in Procs : SpawnHere(p, q)
       \/ NoteSpawn(p) \/ Enter(p) \/ DirectCall(p) \/ ResumeLocal(p) \/ Return(p) \/ Die(p)
  \/ \E m \in Names : PurgeDrop(m)
  \/ PurgeScan
  \/ \E p \in Procs : PurgeKill(p)

Spec == Init /\ [][Next]_vars

-----------------------------------------------------------------------------
(* Correctness. *)

Insts == DOMAIN insts
Notes == {NoNote} \cup (Names \X (Nat \ {0}))

\* A process has frames exactly while it lives, and no version number exceeds the loads.
TypeOK ==
  /\ \A k \in Insts : insts[k].name \in Names /\ insts[k].ver \in 1 .. Len(insts) /\ insts[k].binds \subseteq Insts
  /\ \A m \in Names : {slots[m].cur, slots[m].old} \subseteq Insts \cup {None}
  /\ running \in [Procs -> Notes]
  /\ \A p \in Procs : /\ procs[p] \in {"new", "alive", "killed", "dead"}
                       /\ (stack[p] # <<>>) = Live(p) /\ Len(stack[p]) <= MaxFrames

\* An instance is kept by the table, by a frame of a trampoline, by a call under way
\* or by a spawn; a direct call keeps nothing.
Kept(k) ==
  \/ \E m \in Names : k \in {slots[m].cur, slots[m].old}
  \/ \E p \in Procs : \/ call[p].inst = k \/ noting[p].inst = k
                       \/ \E j \in DOMAIN stack[p] : stack[p][j].inst = k /\ stack[p][j].kind # "direct"

\* resolve_ext_direct and resume_tail_from rest on sealed instances being immortal:
\* whatever a kept instance or a load under way is bound to, and whatever code a
\* process is in by a direct call, is kept, however loads, purges and exits fall.
BoundIsKept ==
  /\ TypeOK
  /\ \A k \in Insts : Kept(k) => \A b \in insts[k].binds : Kept(b)
  /\ \A l \in Loaders : loading[l].on => \A b \in loading[l].binds : Kept(b)
  /\ \A p \in Procs : \A j \in DOMAIN stack[p] : Kept(stack[p][j].inst)

\* Versions of a name are told apart: no two instances share one, even when loads of
\* that name race from compilation to commit.
VersionsDistinct ==
  \A k, j \in Insts : insts[k].name = insts[j].name /\ insts[k].ver = insts[j].ver => k = j

\* purge kills every process that executes an older version of the module, if the
\* process was noted before it called out and its version was not dropped before, and
\* spares every process that had left the older versions behind when it looked.
PurgeIsExact == missed = {} /\ wronged = {}
=============================================================================
