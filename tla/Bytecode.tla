------------------------------ MODULE Bytecode ------------------------------
(***************************************************************************)
(* ygg-bytecode: modules as blobs, their code as bytes, and the verifier.  *)
(* Code is a sequence of cells, one per byte; an operand wider than a byte *)
(* has its value in its first cell and Pad in the others.  Offsets count   *)
(* from 0.  What decodes an instruction knows its operands as a layout, a  *)
(* sequence of kinds: a register, a byte, an atom, a function, an offset,  *)
(* a long, or a counted list of registers, pairs or bytes.                 *)
(***************************************************************************)
EXTENDS Integers, Sequences, FiniteSets, SequencesExt

Pad == 250
Bad == -1     \* truncated or unknown

\* An opcode is its place in this list.
Ops == <<
  "NOP", "LOAD_INT", "LOAD_ATOM", "LOAD_NIL", "MOVE", "SELF_PID", "MAKE_TUPLE", "GET_ELEM",
  "CONS", "HEAD", "TAIL", "ADD", "SUB", "MUL", "CMP_EQ", "CMP_LT", "JMP", "JMP_IF", "CALL",
  "RET", "SPAWN", "SEND", "RECV", "PRINT", "EXIT_ATOM", "PORT_OPEN", "PORT_SUBMIT", "CALL_EXT",
  "BAND", "BOR", "BXOR", "BSL", "BSR", "BNOT", "BIN_NEW", "BIN_FROM_LIST", "BIN_TO_LIST",
  "BIN_SIZE", "BUF_TO_BIN", "BIN_TO_BUF", "MAP_NEW", "MAP_GET", "MAP_PUT", "IS_BINARY",
  "BIN_CAT", "LIST_CAT", "BIN_PART", "TAIL_CALL_EXT", "PORT_SUBMIT2", "TAIL_CALL", "BUF_WRITE",
  "SLEEP_MS", "BUF_NEW", "BUF_READ", "TICKS", "BIN_AT" >>

OpAt(code, at) == IF code[at + 1] \in 0 .. Len(Ops) - 1 THEN Ops[code[at + 1] + 1] ELSE "unknown"

-----------------------------------------------------------------------------
(* Reading operands: the cursors Scan, Frame, Dec and Reader. *)

Fits(code, at, n) == at + n <= Len(code)

Width(kind, code, at) ==
  LET count(n) == IF Fits(code, at, n) THEN code[at + 1] ELSE 0 IN
  CASE kind \in {"r", "byte"} -> 1
    [] kind \in {"atom", "fn", "off"} -> 4
    [] kind = "long" -> 8
    [] kind = "regs" -> 1 + count(1)
    [] kind = "pairs" -> 1 + 2 * count(1)
    [] kind = "bytes" -> 4 + count(4)

\* The offset after the operands of a layout.
RECURSIVE After(_, _, _)
After(layout, code, at) ==
  IF layout = <<>> THEN at
  ELSE LET n == Width(Head(layout), code, at) IN
       IF Fits(code, at, n) THEN After(Tail(layout), code, at + n) ELSE Bad

\* Their values.
RECURSIVE Values(_, _, _)
Values(layout, code, at) ==
  IF layout = <<>> THEN <<>>
  ELSE LET kind == Head(layout)
           n == Width(kind, code, at)
           first == IF kind = "bytes" THEN at + 5 ELSE at + 2
           v == IF kind \in {"regs", "pairs", "bytes"} THEN SubSeq(code, first, at + n)
                ELSE code[at + 1]
       IN  <<v>> \o Values(Tail(layout), code, at + n)

-----------------------------------------------------------------------------
(* skip_operands and sentinel_returners. *)

SkipOperands(o, code, at) ==
  LET fixed(n) == IF Fits(code, at, n) THEN at + n ELSE Bad
      counted(k, unit) == IF Fits(code, at, k + 1) THEN fixed(k + 1 + unit * code[at + k + 1]) ELSE Bad
  IN
  CASE o = "NOP" -> fixed(0)
    [] o = "LOAD_INT" -> fixed(9)
    [] o = "LOAD_ATOM" -> fixed(5)
    [] o = "SPAWN" -> fixed(6)
    [] o \in {"LOAD_NIL", "SELF_PID", "RECV", "RET", "EXIT_ATOM", "PRINT", "TICKS", "SLEEP_MS"} -> fixed(1)
    [] o \in {"MOVE", "HEAD", "TAIL", "SEND", "BNOT", "BIN_FROM_LIST", "BIN_TO_LIST", "BIN_SIZE",
              "BUF_TO_BIN", "BIN_TO_BUF", "IS_BINARY", "PORT_OPEN", "BUF_NEW"} -> fixed(2)
    [] o \in {"GET_ELEM", "CONS", "ADD", "SUB", "MUL", "CMP_EQ", "CMP_LT", "BAND", "BOR", "BXOR",
              "BSL", "BSR", "BIN_CAT", "LIST_CAT", "MAP_GET", "BIN_AT"} -> fixed(3)
    [] o \in {"MAP_PUT", "BIN_PART", "PORT_SUBMIT", "BUF_WRITE", "BUF_READ"} -> fixed(4)
    [] o = "PORT_SUBMIT2" -> fixed(5)
    [] o = "JMP" -> fixed(4)
    [] o = "JMP_IF" -> fixed(5)
    [] o = "MAKE_TUPLE" -> counted(1, 1)
    [] o = "MAP_NEW" -> counted(1, 2)
    [] o = "BIN_NEW" -> IF Fits(code, at, 5) THEN fixed(5 + code[at + 2]) ELSE Bad
    [] o = "CALL" -> counted(5, 1)
    [] o = "TAIL_CALL" -> counted(4, 1)
    [] o = "CALL_EXT" -> counted(9, 1)
    [] o = "TAIL_CALL_EXT" -> counted(8, 1)
    [] OTHER -> Bad

\* Where its instructions start and which siblings a function calls; Bad among the
\* starts when one does not decode.
RECURSIVE SkipScan(_, _)
SkipScan(code, at) ==
  IF at = Bad THEN [starts |-> {Bad}, calls |-> {}]
  ELSE IF at >= Len(code) THEN [starts |-> {}, calls |-> {}]
  ELSE LET o == OpAt(code, at)
           rest == SkipScan(code, SkipOperands(o, code, at + 1))
       IN  [starts |-> rest.starts \cup {at},
            calls |-> rest.calls \cup IF o = "CALL" /\ Fits(code, at, 6) THEN {code[at + 3]} ELSE {}]

TailsOut(code) ==
  \E at \in SkipScan(code, 0).starts :
    at = Bad \/ OpAt(code, at) \in {"TAIL_CALL", "TAIL_CALL_EXT"}

\* Mutant: only functions that tail-call themselves.
SentinelReturners_Direct(m) == {i \in DOMAIN m.fns : TailsOut(m.fns[i].code)}

\* The functions (counted from 1) that can return the sentinel: the fixpoint over
\* sibling calls.
SentinelReturners(m) ==
  LET scan == [i \in DOMAIN m.fns |-> SkipScan(m.fns[i].code, 0)]
      RECURSIVE Grow(_)
      Grow(S) == LET T == S \cup {i \in DOMAIN m.fns : \E c \in scan[i].calls : c + 1 \in S \/ c >= Len(m.fns)}
                 IN  IF T = S THEN S ELSE Grow(T)
  IN  Grow({i \in DOMAIN m.fns : TailsOut(m.fns[i].code)})

-----------------------------------------------------------------------------
(* The verifier.  A module is [atoms, fns], a function [name, arity, nregs, code]. *)

\* The operands verify_fn reads, or "unknown".
VerifyLayout(o) ==
  CASE o = "NOP" -> <<>>
    [] o = "LOAD_INT" -> <<"r", "long">>
    [] o = "LOAD_ATOM" -> <<"r", "atom">>
    [] o \in {"LOAD_NIL", "SELF_PID", "RECV", "TICKS", "RET", "EXIT_ATOM", "PRINT", "SLEEP_MS"} -> <<"r">>
    [] o \in {"MOVE", "HEAD", "TAIL", "SEND", "BUF_NEW", "BNOT", "BIN_FROM_LIST", "BIN_TO_LIST",
              "BIN_SIZE", "BUF_TO_BIN", "BIN_TO_BUF", "IS_BINARY"} -> <<"r", "r">>
    [] o = "MAKE_TUPLE" -> <<"r", "regs">>
    [] o = "GET_ELEM" -> <<"r", "r", "byte">>
    [] o \in {"CONS", "ADD", "SUB", "MUL", "CMP_EQ", "CMP_LT", "BAND", "BOR", "BXOR", "BSL", "BSR",
              "BIN_CAT", "LIST_CAT", "MAP_GET", "BIN_AT"} -> <<"r", "r", "r">>
    [] o = "JMP" -> <<"off">>
    [] o = "JMP_IF" -> <<"r", "off">>
    [] o = "CALL" -> <<"r", "fn", "regs">>
    [] o = "SPAWN" -> <<"r", "fn", "r">>
    [] o = "PORT_OPEN" -> <<"r", "byte">>
    [] o = "PORT_SUBMIT" -> <<"r", "byte", "r", "r">>
    [] o = "PORT_SUBMIT2" -> <<"r", "r", "r", "r", "r">>
    [] o \in {"BUF_WRITE", "BUF_READ", "MAP_PUT", "BIN_PART"} -> <<"r", "r", "r", "r">>
    [] o = "CALL_EXT" -> <<"r", "atom", "atom", "regs">>
    [] o = "TAIL_CALL" -> <<"fn", "regs">>
    [] o = "TAIL_CALL_EXT" -> <<"atom", "atom", "regs">>
    [] o = "BIN_NEW" -> <<"r", "bytes">>
    [] o = "MAP_NEW" -> <<"r", "pairs">>
    [] OTHER -> <<"unknown">>

Terminal == {"JMP", "RET", "EXIT_ATOM", "TAIL_CALL", "TAIL_CALL_EXT"}

\* Registers in the frame, atoms in the table, calls with the arity of their target.
OperandsOk(m, f, o, layout, v) ==
  \A k \in DOMAIN layout :
    CASE layout[k] = "r" -> v[k] < f.nregs
      [] layout[k] \in {"regs", "pairs"} -> \A j \in DOMAIN v[k] : v[k][j] < f.nregs
      [] layout[k] = "atom" -> v[k] < Len(m.atoms)
      [] layout[k] = "fn" -> /\ v[k] < Len(m.fns)
                             /\ m.fns[v[k] + 1].arity = IF o = "SPAWN" THEN 1 ELSE Len(v[k + 1])
      [] OTHER -> TRUE

\* The scan of verify_fn: whether it was accepted, the boundaries, the jump targets,
\* and whether the last instruction falls through.
RECURSIVE VerifyScan(_, _, _, _)
VerifyScan(m, f, at, acc) ==
  IF ~acc.ok \/ at >= Len(f.code) THEN acc
  ELSE LET o == OpAt(f.code, at)
           layout == VerifyLayout(o)
           next == IF layout = <<"unknown">> THEN Bad ELSE After(layout, f.code, at + 1)
           v == Values(layout, f.code, at + 1)
           ok == next # Bad /\ OperandsOk(m, f, o, layout, v)
       IN  VerifyScan(m, f, next,
             [ok |-> ok, fell |-> o \notin Terminal, bounds |-> acc.bounds \cup {at},
              jumps |-> acc.jumps \cup IF ok /\ o \in {"JMP", "JMP_IF"} THEN {next + v[Len(v)]} ELSE {}])

Scanned(m, f) == VerifyScan(m, f, 0, [ok |-> TRUE, fell |-> TRUE, bounds |-> {}, jumps |-> {}])

VerifyFn(m, f) ==
  LET s == Scanned(m, f) IN
  /\ f.name < Len(m.atoms) /\ f.arity <= f.nregs
  /\ s.ok /\ ~s.fell /\ s.jumps \subseteq s.bounds

Verify(m) == \A i \in DOMAIN m.fns : VerifyFn(m, m.fns[i])

-----------------------------------------------------------------------------
(* The blob. *)

Magic == <<89, 71, 71, 77, 49, 10>>
U16(v) == <<v, Pad>>
U32(v) == <<v, Pad, Pad, Pad>>
I64(v) == <<v, Pad, Pad, Pad, Pad, Pad, Pad, Pad>>
OpCode(name) == (CHOOSE k \in DOMAIN Ops : Ops[k] = name) - 1

\* Module::encode; an atom's name is one byte.
Encode(m) ==
  Magic \o U32(Len(m.atoms)) \o FlattenSeq([i \in DOMAIN m.atoms |-> U16(1) \o <<m.atoms[i]>>])
  \o U32(Len(m.fns))
  \o FlattenSeq([i \in DOMAIN m.fns |-> LET f == m.fns[i] IN
       U32(f.name) \o <<f.arity, f.nregs>> \o U32(Len(f.code)) \o f.code])

Truncated == [atoms |-> <<>>, fns |-> <<>>, at |-> Bad]

RECURSIVE DecodeAtoms(_, _, _, _)
DecodeAtoms(b, at, n, acc) ==
  IF n = 0 THEN [Truncated EXCEPT !.atoms = acc, !.at = at]
  ELSE IF ~Fits(b, at, 2) THEN Truncated
  ELSE IF ~Fits(b, at + 2, b[at + 1]) THEN Truncated
  ELSE DecodeAtoms(b, at + 2 + b[at + 1], n - 1, Append(acc, b[at + 3]))

\* Mutant: the code of the last function may be shorter than its length says.
DecodeFns_Short(b, at, n, acc) ==
  LET end == at + 10 + b[at + 7]
      f == [name |-> b[at + 1], arity |-> b[at + 5], nregs |-> b[at + 6],
            code |-> SubSeq(b, at + 11, IF end > Len(b) THEN Len(b) ELSE end)]
  IN  IF ~Fits(b, at, 10) THEN Truncated
      ELSE [Truncated EXCEPT !.fns = Append(acc, f), !.at = Len(b)]

RECURSIVE DecodeFns(_, _, _, _)
DecodeFns(b, at, n, acc) ==
  IF n = 0 THEN [Truncated EXCEPT !.fns = acc, !.at = at]
  ELSE IF ~Fits(b, at, 10) THEN Truncated
  ELSE IF ~Fits(b, at + 10, b[at + 7]) THEN Truncated
  ELSE DecodeFns(b, at + 10 + b[at + 7], n - 1,
         Append(acc, [name |-> b[at + 1], arity |-> b[at + 5], nregs |-> b[at + 6],
                      code |-> SubSeq(b, at + 11, at + 10 + b[at + 7])]))

\* Module::decode
Decode(b) ==
  IF ~Fits(b, 0, 10) \/ SubSeq(b, 1, 6) # Magic THEN Truncated
  ELSE LET a == DecodeAtoms(b, 10, b[7], <<>>) IN
    IF a.at = Bad \/ ~Fits(b, a.at, 4) THEN Truncated
    ELSE LET f == DecodeFns(b, a.at + 4, b[a.at + 1], <<>>) IN
         [atoms |-> a.atoms, fns |-> f.fns, at |-> f.at]

-----------------------------------------------------------------------------
(* CodeBuilder.  What is emitted is a sequence of cells, label references      *)
(* [ref |-> l] and bindings [bind |-> l].                                      *)

EmitSize(e) == CASE "ref" \in DOMAIN e -> 4 [] "bind" \in DOMAIN e -> 0 [] OTHER -> Len(e.cells)

\* relative to the next instruction, since offsets end instructions.
Offset(target, pos) == target - (pos + 4)

\* finish: every reference becomes an offset to its label.
Finish(em) ==
  LET pos[k \in 0 .. Len(em)] == IF k = 0 THEN 0 ELSE pos[k - 1] + EmitSize(em[k])
      label(l) == pos[CHOOSE k \in DOMAIN em : "bind" \in DOMAIN em[k] /\ em[k].bind = l]
  IN  FlattenSeq([k \in DOMAIN em |->
        CASE "ref" \in DOMAIN em[k] -> U32(Offset(label(em[k].ref), pos[k - 1]))
          [] "bind" \in DOMAIN em[k] -> <<>>
          [] OTHER -> em[k].cells])
=============================================================================
