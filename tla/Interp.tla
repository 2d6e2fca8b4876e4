-------------------------------- MODULE Interp --------------------------------
(***************************************************************************)
(* ygg-interp's run_function over KernelApi: what each instruction that    *)
(* does not transfer control comes to.  x holds its operands, registers    *)
(* read; md is the module whose code runs, w the world.                    *)
(***************************************************************************)
EXTENDS Vm, Bitwise

\* The operands the interpreter reads.
InterpLayout(o) ==
  CASE o = "NOP" -> <<>>
    [] o = "LOAD_INT" -> <<"r", "long">>
    [] o = "LOAD_ATOM" -> <<"r", "atom">>
    [] o \in {"LOAD_NIL", "SELF_PID", "TICKS", "RET", "RECV", "PRINT", "EXIT_ATOM", "SLEEP_MS"} -> <<"r">>
    [] o \in {"MOVE", "HEAD", "TAIL", "SEND", "BUF_NEW", "BNOT", "BIN_FROM_LIST", "BIN_TO_LIST",
              "BIN_SIZE", "BUF_TO_BIN", "BIN_TO_BUF", "IS_BINARY"} -> <<"r", "r">>
    [] o = "MAKE_TUPLE" -> <<"r", "regs">>
    [] o = "GET_ELEM" -> <<"r", "r", "byte">>
    [] o \in {"CONS", "ADD", "SUB", "MUL", "CMP_EQ", "CMP_LT", "BAND", "BOR", "BXOR", "BSL", "BSR",
              "BIN_CAT", "LIST_CAT", "BIN_AT", "MAP_GET"} -> <<"r", "r", "r">>
    [] o = "JMP" -> <<"off">>
    [] o = "JMP_IF" -> <<"r", "off">>
    [] o = "CALL" -> <<"r", "fn", "regs">>
    [] o = "SPAWN" -> <<"r", "fn", "r">>
    [] o = "PORT_OPEN" -> <<"r", "byte">>
    [] o = "PORT_SUBMIT" -> <<"r", "byte", "r", "r">>
    [] o \in {"BUF_WRITE", "BUF_READ", "BIN_PART", "MAP_PUT"} -> <<"r", "r", "r", "r">>
    [] o = "PORT_SUBMIT2" -> <<"r", "r", "r", "r", "r">>
    [] o = "TAIL_CALL" -> <<"fn", "regs">>
    [] o = "TAIL_CALL_EXT" -> <<"atom", "atom", "regs">>
    [] o = "CALL_EXT" -> <<"r", "atom", "atom", "regs">>
    [] o = "BIN_NEW" -> <<"r", "bytes">>
    [] o = "MAP_NEW" -> <<"r", "pairs">>
    [] OTHER -> <<"unknown">>

ILoad(o, x, md, w) ==
  CASE o = "NOP" -> Ok(Nil, w)
    [] o = "LOAD_INT" -> Ok(IntTerm(x[2]), w)
    [] o = "LOAD_ATOM" -> Ok(<<"atom", md.atoms[x[2] + 1]>>, w)
    [] o = "LOAD_NIL" -> Ok(Nil, w)
    [] o = "MOVE" -> Ok(x[2], w)
    [] o = "SELF_PID" -> Ok(Pid(Self), w)
    [] o = "TICKS" -> Ok(IntTerm(w.now), w)

IData(o, x, w) ==
  CASE o = "MAKE_TUPLE" -> NewTuple(x[2], w)
    [] o = "GET_ELEM" -> Check(x[2][1] = "tuple" /\ x[3] < Len(x[2][2]), x[2][2][x[3] + 1], w)
    [] o = "CONS" -> NewCons(x[2], x[3], w)
    [] o = "HEAD" -> Check(x[2][1] = "cons", x[2][2], w)
    [] o = "TAIL" -> Check(x[2][1] = "cons", x[2][3], w)

Raw(o, a, b) == CASE o = "ADD" -> a + b [] o = "SUB" -> a - b [] o = "MUL" -> a * b

\* checked_add and its like fail only beyond a machine word.
Checked(v, w) == Check(v = Signed(v, WordBits), IntTerm(v), w)

IArith(o, x, w) ==
  CASE o = "CMP_EQ" -> Ok(Bool(x[2] = x[3]), w)
    [] OTHER -> IF ~AllInt(<<x[2], x[3]>>) THEN Trap("badarg", w)
                ELSE IF o = "CMP_LT" THEN Ok(Bool(x[2][2] < x[3][2]), w)
                ELSE Checked(Raw(o, x[2][2], x[3][2]), w)

ISpawn(x, m, md, w) ==
  IF IsBoxed(x[3]) THEN Trap("badarg", w)
  ELSE IF x[2] >= Len(md.fns) THEN Trap("badcode", w)
  ELSE SpawnFn(m, x[2], x[3], w)

IMessage(o, x, w) ==
  CASE o = "SEND" -> IF x[1][1] = "pid" THEN ProcSend(x[1][2], x[2], w) ELSE Trap("badarg", w)
    [] o = "RECV" -> ProcRecv(w)
    [] o = "PRINT" -> Ok(Nil, Did(w, <<"print", x[1]>>))
    [] o = "EXIT_ATOM" -> IF x[1][1] = "atom" THEN Exit(x[1], w) ELSE Trap("badarg", w)

IPort(o, x, w) ==
  CASE o = "PORT_OPEN" -> PortOpen(x[2], w)
    [] o = "PORT_SUBMIT" ->
         IF x[1][1] # "port" \/ ~AllInt(<<x[3], x[4]>>) THEN Trap("badarg", w)
         ELSE Submit(x[1][2], <<x[2], x[4][2], Unsigned(x[3][2], WordBits), 0>>, w)
    [] o = "PORT_SUBMIT2" ->
         IF x[1][1] # "port" \/ ~AllInt(<<x[2], x[3], x[4], x[5]>>) THEN Trap("badarg", w)
         ELSE Submit(x[1][2], <<Unsigned(x[2][2], HalfBits), x[5][2], Unsigned(x[3][2], WordBits),
                                Unsigned(x[4][2], WordBits)>>, w)
    [] o = "SLEEP_MS" -> IF IsInt(x[1]) /\ x[1][2] >= 0 THEN SleepFor(x[1][2], w) ELSE Trap("badarg", w)

IBuffer(o, x, w) ==
  CASE o = "BUF_WRITE" ->
         IF ~AllInt(<<x[2], x[3]>>) \/ ~IsBin(x[4]) THEN Trap("badarg", w)
         ELSE IF x[3][2] < 0 THEN Trap("badarg", w)
         ELSE BufWrite(x[2][2], x[3][2], x[4][2], w)
    [] o = "BUF_NEW" ->
         IF ~IsInt(x[2]) THEN Trap("badarg", w)
         ELSE IF x[2][2] < 0 \/ x[2][2] > MaxBuf THEN Trap("badarg", w)
         ELSE BufCreate([k \in 1 .. x[2][2] |-> 0], w)
    [] o = "BUF_READ" ->
         IF ~AllInt(<<x[2], x[3], x[4]>>) THEN Trap("badarg", w)
         ELSE IF x[3][2] < 0 \/ x[4][2] < 0 THEN Trap("badarg", w)
         ELSE BufRead(x[2][2], x[3][2], x[4][2], w)
    [] o = "BUF_TO_BIN" -> IF IsInt(x[2]) THEN BufTake(x[2][2], w) ELSE Trap("badarg", w)
    [] o = "BIN_TO_BUF" -> IF IsBin(x[2]) THEN BufCreate(x[2][2], w) ELSE Trap("badarg", w)

\* Bitwise operations on the two's complement of a machine word.
Bits(o, a, b) ==
  LET ua == Unsigned(a, WordBits) ub == Unsigned(b, WordBits) IN
  Signed(CASE o = "BAND" -> ua & ub [] o = "BOR" -> ua | ub [] o = "BXOR" -> ua ^^ ub, WordBits)

IBits(o, x, w) ==
  IF ~IsInt(x[2]) \/ (o # "BNOT" /\ ~IsInt(x[3])) THEN Trap("badarg", w)
  ELSE LET a == x[2][2] IN
    CASE o = "BNOT" -> Ok(IntTerm(-a - 1), w)
      [] o \in {"BAND", "BOR", "BXOR"} -> Ok(IntTerm(Bits(o, a, x[3][2])), w)
      [] OTHER -> IF x[3][2] \notin 0 .. IntBits - 1 THEN Trap("badarg", w)
                  ELSE IF o = "BSL" THEN Ok(IntTerm(Signed(a * 2^x[3][2], WordBits)), w)
                  ELSE Ok(IntTerm(a \div 2^x[3][2]), w)

IBinary(o, x, w) ==
  CASE o = "BIN_NEW" -> NewBin(x[2], w)
    [] o = "BIN_FROM_LIST" ->
         LET s == Items(x[2]) IN
         IF ~AllInt(s) \/ End(x[2]) # Nil THEN Trap("badarg", w)
         ELSE IF \E k \in DOMAIN s : s[k][2] \notin 0 .. MaxByte THEN Trap("badarg", w)
         ELSE NewBin([k \in DOMAIN s |-> s[k][2]], w)
    [] o = "BIN_TO_LIST" -> IF IsBin(x[2]) THEN NewList([k \in DOMAIN x[2][2] |-> IntTerm(x[2][2][k])], Nil, w)
                            ELSE Trap("badarg", w)
    [] o = "BIN_SIZE" -> Check(IsBin(x[2]), IntTerm(Len(x[2][2])), w)
    [] o = "IS_BINARY" -> Ok(Bool(IsBin(x[2])), w)
    [] o = "BIN_CAT" -> IF IsBin(x[2]) /\ IsBin(x[3]) THEN NewBin(x[2][2] \o x[3][2], w) ELSE Trap("badarg", w)
    [] o = "LIST_CAT" -> IF End(x[2]) = Nil THEN NewList(Items(x[2]), x[3], w) ELSE Trap("badarg", w)
    [] o = "BIN_AT" ->
         IF ~IsInt(x[3]) \/ ~IsBin(x[2]) THEN Trap("badarg", w)
         ELSE Check(x[3][2] >= 0 /\ x[3][2] < Len(x[2][2]), IntTerm(x[2][2][x[3][2] + 1]), w)
    [] o = "BIN_PART" ->
         IF ~AllInt(<<x[3], x[4]>>) \/ ~IsBin(x[2]) THEN Trap("badarg", w)
         ELSE LET off == x[3][2] len == x[4][2] IN
              IF off < 0 \/ len < 0 \/ off + len > Len(x[2][2]) THEN Trap("badarg", w)
              ELSE NewBin(SubSeq(x[2][2], off + 1, off + len), w)

Pairs(flat) == [k \in 1 .. Len(flat) \div 2 |-> <<flat[2 * k - 1], flat[2 * k]>>]

IMap(o, x, w) ==
  CASE o = "MAP_NEW" -> NewMap(Pairs(x[2]), w)
    [] o = "MAP_GET" -> IF IsMap(x[2]) THEN Check(x[3] \in DOMAIN x[2][2], x[2][2][x[3]], w) ELSE Trap("badarg", w)
    [] o = "MAP_PUT" -> IF IsMap(x[2]) THEN PutMap(x[2], x[3], x[4], w) ELSE Trap("badarg", w)

\* The dispatch of run_function; m names the module md.
InterpOp(o, x, m, md, w) ==
  CASE o \in {"NOP", "LOAD_INT", "LOAD_ATOM", "LOAD_NIL", "MOVE", "SELF_PID", "TICKS"} -> ILoad(o, x, md, w)
    [] o \in {"MAKE_TUPLE", "GET_ELEM", "CONS", "HEAD", "TAIL"} -> IData(o, x, w)
    [] o \in {"ADD", "SUB", "MUL", "CMP_EQ", "CMP_LT"} -> IArith(o, x, w)
    [] o = "SPAWN" -> ISpawn(x, m, md, w)
    [] o \in {"SEND", "RECV", "PRINT", "EXIT_ATOM"} -> IMessage(o, x, w)
    [] o \in {"PORT_OPEN", "PORT_SUBMIT", "PORT_SUBMIT2", "SLEEP_MS"} -> IPort(o, x, w)
    [] o \in {"BUF_WRITE", "BUF_NEW", "BUF_READ", "BUF_TO_BIN", "BIN_TO_BUF"} -> IBuffer(o, x, w)
    [] o \in {"BAND", "BOR", "BXOR", "BSL", "BSR", "BNOT"} -> IBits(o, x, w)
    [] o \in {"MAP_NEW", "MAP_GET", "MAP_PUT"} -> IMap(o, x, w)
    [] OTHER -> IBinary(o, x, w)
=============================================================================
