------------------------------- MODULE Values -------------------------------
(***************************************************************************)
(* What heaps, copies and collections promise the processes: registers and *)
(* messages are values.  Building a value changes one register, sending    *)
(* one changes nothing, receiving it yields what was sent, and a tail call *)
(* keeps its arguments.  No process ever sees another's memory, and memory *)
(* that runs out ends a process but never changes a value.                 *)
(***************************************************************************)
EXTENDS Integers, Sequences, SequencesExt

CONSTANTS Procs, Regs, Start, Operands, KeyPairs, Keys, Blobs, NilValue

VARIABLES alive, regs, mail

vars == <<alive, regs, mail>>

Init == /\ alive = [p \in Procs |-> FALSE] /\ regs = [p \in Procs |-> Start]
        /\ mail = [p \in Procs |-> <<>>]

Spawn(p) == ~alive[p] /\ alive' = [alive EXCEPT ![p] = TRUE] /\ UNCHANGED <<regs, mail>>

\* An exit, a kill, or a quota that is exceeded.
End(p) == /\ alive[p] /\ alive' = [alive EXCEPT ![p] = FALSE]
          /\ regs' = [regs EXCEPT ![p] = Start] /\ mail' = [mail EXCEPT ![p] = <<>>]

With(f, k, v) == [x \in DOMAIN f \cup {k} |-> IF x = k THEN v ELSE f[x]]

\* What the instructions make of the registers R, or take out of them.
Made(R) ==
  {<<"binary", b>> : b \in Blobs} \cup UNION {
    LET x == R[o[1]] y == R[o[2]] IN
    {<<"tuple", <<x, y>>>>, <<"cons", x, y>>}
    \cup {<<"map", With([k \in {kk[1]} |-> x], kk[2], y)>> : kk \in KeyPairs}
    \cup (IF x[1] = "map" THEN {<<"map", With(x[2], k, y)>> : k \in Keys} ELSE {})
    : o \in Operands}

Taken(R) ==
  {R[a] : a \in Regs} \cup UNION {
    CASE R[a][1] = "tuple" -> ToSet(R[a][2])
      [] R[a][1] = "cons" -> {R[a][2], R[a][3]}
      [] R[a][1] = "map" -> {R[a][2][k] : k \in DOMAIN R[a][2]}
      [] OTHER -> {} : a \in Regs}

Step(p) ==
  /\ alive[p] /\ UNCHANGED <<alive, mail>>
  /\ LET R == regs IN \E r \in Regs : \E v \in {regs'[p][r]} :
       /\ regs' = [R EXCEPT ![p][r] = v]
       /\ v \in Made(R[p]) \cup Taken(R[p])

\* A tail call: the arguments are the only registers that stay.
Hop(p, args) ==
  /\ alive[p] /\ UNCHANGED <<alive, mail>>
  /\ regs' = [regs EXCEPT ![p] = [r \in Regs |-> IF r \in DOMAIN args THEN @[args[r]] ELSE NilValue]]

Send(p, q, r) ==
  /\ alive[p] /\ alive[q] /\ mail' = [mail EXCEPT ![q] = Append(@, regs[p][r])]
  /\ UNCHANGED <<alive, regs>>

Receive(p, r) ==
  /\ alive[p]
  /\ \E i \in DOMAIN mail[p] : /\ regs' = [regs EXCEPT ![p][r] = mail[p][i]]
                               /\ mail' = [mail EXCEPT ![p] = RemoveAt(@, i)]
  /\ UNCHANGED alive

Next == \E p \in Procs :
  \/ Spawn(p) \/ End(p) \/ Step(p)
  \/ \E args \in Operands \cup {<<1>>, <<>>} : Hop(p, args)
  \/ \E r \in Regs : Receive(p, r) \/ \E q \in Procs : Send(p, q, r)

Spec == Init /\ [][Next]_vars
=============================================================================
