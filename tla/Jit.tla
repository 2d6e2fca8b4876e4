--------------------------------- MODULE Jit ---------------------------------
(***************************************************************************)
(* ygg-jit: the passes over the bytecode of a function.  find_leaders cuts *)
(* it into blocks, and the translation emits every instruction it reaches, *)
(* skipping what follows a terminator up to the next block.                *)
(***************************************************************************)
EXTENDS Bytecode

\* Mutant: MAP_NEW is taken for as many registers as it has pairs.
LeaderLayout_Pairs(o) == IF o = "MAP_NEW" THEN <<"byte", "regs">> ELSE VerifyLayout(o)

\* The operands find_leaders reads.
LeaderLayout(o) ==
  CASE o = "NOP" -> <<>>
    [] o = "LOAD_INT" -> <<"byte", "long">>
    [] o = "LOAD_ATOM" -> <<"byte", "atom">>
    [] o \in {"LOAD_NIL", "SELF_PID", "RECV", "RET", "EXIT_ATOM", "PRINT", "TICKS", "SLEEP_MS"} -> <<"byte">>
    [] o \in {"MOVE", "HEAD", "TAIL", "SEND", "BNOT", "BIN_FROM_LIST", "BIN_TO_LIST", "BIN_SIZE",
              "BUF_TO_BIN", "BIN_TO_BUF", "IS_BINARY", "PORT_OPEN", "BUF_NEW"} -> <<"byte", "byte">>
    [] o \in {"GET_ELEM", "CONS", "ADD", "SUB", "MUL", "CMP_EQ", "CMP_LT", "BAND", "BOR", "BXOR",
              "BSL", "BSR", "BIN_CAT", "LIST_CAT", "MAP_GET", "BIN_AT"} -> <<"byte", "byte", "byte">>
    [] o \in {"MAP_PUT", "BIN_PART", "PORT_SUBMIT", "BUF_WRITE", "BUF_READ"} -> <<"byte", "byte", "byte", "byte">>
    [] o = "PORT_SUBMIT2" -> <<"byte", "byte", "byte", "byte", "byte">>
    [] o = "MAKE_TUPLE" -> <<"byte", "regs">>
    [] o = "MAP_NEW" -> <<"byte", "pairs">>
    [] o = "BIN_NEW" -> <<"byte", "bytes">>
    [] o = "JMP" -> <<"off">>
    [] o = "JMP_IF" -> <<"byte", "off">>
    [] o = "CALL" -> <<"byte", "fn", "regs">>
    [] o = "SPAWN" -> <<"byte", "fn", "byte">>
    [] o = "CALL_EXT" -> <<"byte", "atom", "atom", "regs">>
    [] o = "TAIL_CALL_EXT" -> <<"atom", "atom", "regs">>
    [] o = "TAIL_CALL" -> <<"fn", "regs">>
    [] OTHER -> <<"unknown">>

\* The operands skip_insn reads.
SkipLayout(o) ==
  CASE o = "NOP" -> <<>>
    [] o = "LOAD_INT" -> <<"byte", "long">>
    [] o = "LOAD_ATOM" -> <<"byte", "atom">>
    [] o \in {"LOAD_NIL", "SELF_PID", "RECV", "RET", "EXIT_ATOM", "PRINT", "TICKS", "SLEEP_MS"} -> <<"byte">>
    [] o \in {"MOVE", "HEAD", "TAIL", "SEND", "BNOT", "BIN_FROM_LIST", "BIN_TO_LIST", "BIN_SIZE",
              "BUF_TO_BIN", "BIN_TO_BUF", "IS_BINARY", "PORT_OPEN", "BUF_NEW"} -> <<"byte", "byte">>
    [] o = "MAKE_TUPLE" -> <<"byte", "regs">>
    [] o \in {"GET_ELEM", "CONS", "ADD", "SUB", "MUL", "CMP_EQ", "CMP_LT", "BAND", "BOR", "BXOR",
              "BSL", "BSR", "BIN_CAT", "LIST_CAT", "MAP_GET", "BIN_AT"} -> <<"byte", "byte", "byte">>
    [] o = "BIN_NEW" -> <<"byte", "bytes">>
    [] o = "MAP_NEW" -> <<"byte", "pairs">>
    [] o \in {"MAP_PUT", "BIN_PART", "PORT_SUBMIT", "BUF_WRITE", "BUF_READ"} -> <<"byte", "byte", "byte", "byte">>
    [] o = "PORT_SUBMIT2" -> <<"byte", "byte", "byte", "byte", "byte">>
    [] o = "JMP" -> <<"off">>
    [] o = "JMP_IF" -> <<"byte", "off">>
    [] o = "CALL" -> <<"byte", "fn", "regs">>
    [] o = "SPAWN" -> <<"byte", "fn", "byte">>
    [] o = "CALL_EXT" -> <<"byte", "atom", "atom", "regs">>
    [] o = "TAIL_CALL_EXT" -> <<"atom", "atom", "regs">>
    [] o = "TAIL_CALL" -> <<"fn", "regs">>
    [] OTHER -> <<"unknown">>

\* The operands the translation in compile_fn reads.
CompileLayout(o) ==
  CASE o = "NOP" -> <<>>
    [] o = "LOAD_INT" -> <<"r", "long">>
    [] o = "LOAD_ATOM" -> <<"r", "atom">>
    [] o \in {"LOAD_NIL", "SELF_PID", "TICKS", "RET", "RECV", "PRINT", "EXIT_ATOM", "SLEEP_MS"} -> <<"r">>
    [] o \in {"MOVE", "HEAD", "TAIL", "SEND", "BUF_NEW", "BNOT", "BIN_FROM_LIST", "BIN_TO_LIST",
              "BIN_SIZE", "BUF_TO_BIN", "BIN_TO_BUF", "IS_BINARY"} -> <<"r", "r">>
    [] o = "MAKE_TUPLE" -> <<"r", "regs">>
    [] o = "GET_ELEM" -> <<"r", "r", "byte">>
    [] o \in {"CONS", "ADD", "SUB", "MUL", "CMP_EQ", "CMP_LT", "BAND", "BOR", "BXOR", "BSL", "BSR",
              "MAP_GET", "BIN_AT", "BIN_CAT", "LIST_CAT"} -> <<"r", "r", "r">>
    [] o = "JMP" -> <<"off">>
    [] o = "JMP_IF" -> <<"r", "off">>
    [] o = "CALL" -> <<"r", "fn", "regs">>
    [] o = "SPAWN" -> <<"r", "fn", "r">>
    [] o = "PORT_OPEN" -> <<"r", "byte">>
    [] o = "PORT_SUBMIT" -> <<"r", "byte", "r", "r">>
    [] o = "PORT_SUBMIT2" -> <<"r", "r", "r", "r", "r">>
    [] o \in {"BUF_WRITE", "BUF_READ", "MAP_PUT", "BIN_PART"} -> <<"r", "r", "r", "r">>
    [] o = "CALL_EXT" -> <<"r", "atom", "atom", "regs">>
    [] o = "TAIL_CALL_EXT" -> <<"atom", "atom", "regs">>
    [] o = "TAIL_CALL" -> <<"fn", "regs">>
    [] o = "BIN_NEW" -> <<"r", "bytes">>
    [] o = "MAP_NEW" -> <<"r", "pairs">>
    [] OTHER -> <<"unknown">>

Decoded(layout, code, at) == IF layout = <<"unknown">> THEN Bad ELSE After(layout, code, at + 1)

\* Leaders: offset 0, the targets of jumps, and what follows a jump or a terminator;
\* Bad among them when an instruction does not decode.
RECURSIVE LeaderScan(_, _)
LeaderScan(code, at) ==
  IF at = Bad THEN {Bad}
  ELSE IF at >= Len(code) THEN {}
  ELSE LET o == OpAt(code, at)
           layout == LeaderLayout(o)
           next == Decoded(layout, code, at)
           target == next + Last(Values(layout, code, at + 1))
       IN  LeaderScan(code, next) \cup
           CASE next = Bad -> {}
             [] o \in {"JMP", "JMP_IF"} -> {target, next}
             [] o \in {"RET", "EXIT_ATOM", "TAIL_CALL", "TAIL_CALL_EXT"} -> {next}
             [] OTHER -> {}

FindLeaders(code) == (LeaderScan(code, 0) \cup {0}) \ {Len(code)}

\* The translation: the offsets it emits, and whether it succeeds.  An operand out
\* of range panics or fails.
RECURSIVE CompileScan(_, _, _, _, _, _)
CompileScan(m, f, at, leaders, filled, acc) ==
  IF ~acc.ok \/ at >= Len(f.code) THEN acc
  ELSE LET o == OpAt(f.code, at)
           dead == filled /\ at \notin leaders
           layout == IF dead THEN SkipLayout(o) ELSE CompileLayout(o)
           next == Decoded(layout, f.code, at)
           v == Values(layout, f.code, at + 1)
           ok == /\ next # Bad
                 /\ ~dead => \A k \in DOMAIN layout :
                      CASE layout[k] = "r" -> v[k] < f.nregs
                        [] layout[k] \in {"regs", "pairs"} -> \A j \in DOMAIN v[k] : v[k][j] < f.nregs
                        [] layout[k] = "atom" -> v[k] < Len(m.atoms)
                        [] layout[k] = "fn" -> o # "CALL" \/ v[k] < Len(m.fns)
                        [] layout[k] = "off" -> {next + v[k]} \cup (IF o = "JMP_IF" THEN {next} ELSE {}) \subseteq leaders
                        [] OTHER -> TRUE
       IN  CompileScan(m, f, next, leaders,
             dead \/ o \in Terminal \cup {"JMP_IF"},
             [ok |-> ok, emitted |-> acc.emitted \cup IF dead THEN {} ELSE {at}])

Compiled(m, f) ==
  LET leaders == FindLeaders(f.code) IN
  CompileScan(m, f, 0, leaders, TRUE, [ok |-> Bad \notin leaders, emitted |-> {}])
=============================================================================
