-------------------------------- MODULE Native --------------------------------
(***************************************************************************)
(* Compiled code: what compile_fn of ygg-jit emits for each instruction    *)
(* that does not transfer control, the runtime helpers of kernel/jit.rs it *)
(* calls included.  x holds the operands, registers read; run is the       *)
(* module RUNNING names.                                                   *)
(***************************************************************************)
EXTENDS Vm, Bitwise

\* expect_int branches to the trap block; retag_int shifts the tag in.
Retag(raw) == <<"int", Signed(raw, WordBits - 3)>>
TrapBadarg(w) == Trap("badarg", w)

NLoad(o, x, md, w) ==
  CASE o = "NOP" -> Ok(Nil, w)
    [] o = "LOAD_INT" -> Ok(IntTerm(x[2]), w)
    [] o = "LOAD_ATOM" -> Ok(<<"atom", md.atoms[x[2] + 1]>>, w)
    [] o = "LOAD_NIL" -> Ok(Nil, w)
    [] o = "MOVE" -> Ok(x[2], w)
    [] o = "SELF_PID" -> Ok(Pid(Self), w)
    [] o = "TICKS" -> Ok(IntTerm(w.now), w)

\* Machine arithmetic wraps; an integer that does not fit loses its upper bits.
NArith(o, x, w) ==
  IF o = "CMP_EQ" THEN Ok(Retag(IF x[2] = x[3] THEN 1 ELSE 0), w)
  ELSE IF ~IsInt(x[2]) \/ ~IsInt(x[3]) THEN TrapBadarg(w)
  ELSE LET a == x[2][2] b == x[3][2] IN
    Ok(Retag(CASE o = "ADD" -> a + b [] o = "SUB" -> a - b [] o = "MUL" -> a * b
               [] o = "CMP_LT" -> IF a < b THEN 1 ELSE 0), w)

\* Mutant: a shift by the width of an integer is let through.
NShift_Wide(o, a, b, w) ==
  IF Unsigned(b, WordBits) > IntBits THEN TrapBadarg(w)
  ELSE Ok(Retag(IF o = "BSL" THEN a * 2^b ELSE a \div 2^b), w)

\* The amount is compared unsigned, so that a negative one traps.
NShift(o, a, b, w) ==
  IF Unsigned(b, WordBits) > IntBits - 1 THEN TrapBadarg(w)
  ELSE Ok(Retag(IF o = "BSL" THEN a * 2^b ELSE a \div 2^b), w)

NBits(o, x, w) ==
  IF ~IsInt(x[2]) THEN TrapBadarg(w)
  ELSE IF o = "BNOT" THEN Ok(Retag(-x[2][2] - 1), w)
  ELSE IF ~IsInt(x[3]) THEN TrapBadarg(w)
  ELSE LET a == x[2][2] b == x[3][2] ua == Unsigned(a, WordBits) ub == Unsigned(b, WordBits) IN
    CASE o = "BAND" -> Ok(Retag(ua & ub), w)
      [] o = "BOR" -> Ok(Retag(ua | ub), w)
      [] o = "BXOR" -> Ok(Retag(ua ^^ ub), w)
      [] OTHER -> NShift(o, a, b, w)

-----------------------------------------------------------------------------
(* The helpers. *)

RtSend(to, msg, w) == IF to[1] = "pid" THEN ProcSend(to[2], msg, w) ELSE TrapBadarg(w)

\* A function of the module RUNNING names, whatever module the code is of.
RtSpawn(fn, arg, run, mods, w) ==
  IF IsBoxed(arg) THEN TrapBadarg(w)
  ELSE IF fn >= Len(mods[run].fns) THEN TrapBadarg(w)
  ELSE SpawnFn(run, fn, arg, w)

RtGetElem(t, idx, w) ==
  IF IsBoxed(t) /\ t[1] = "tuple" THEN Check(idx < Len(t[2]), t[2][idx + 1], w) ELSE TrapBadarg(w)

RtHead(t, w) == Check(IsBoxed(t) /\ t[1] = "cons", t[2], w)
RtTail(t, w) == Check(IsBoxed(t) /\ t[1] = "cons", t[3], w)

RtPortSubmit(port, op, arg0, tag, w) ==
  IF port[1] = "port" /\ IsInt(arg0) /\ IsInt(tag)
  THEN Submit(port[2], <<op, tag[2], Unsigned(arg0[2], WordBits), 0>>, w) ELSE TrapBadarg(w)

RtPortSubmit2(port, op, arg0, arg1, tag, w) ==
  IF port[1] = "port" /\ AllInt(<<op, arg0, arg1, tag>>)
  THEN Submit(port[2], <<Unsigned(op[2], HalfBits), tag[2], Unsigned(arg0[2], WordBits),
                         Unsigned(arg1[2], WordBits)>>, w)
  ELSE TrapBadarg(w)

RtBufWrite(buf, off, bin, w) ==
  IF ~IsInt(buf) \/ ~IsInt(off) THEN TrapBadarg(w)
  ELSE IF ~IsBin(bin) \/ off[2] < 0 THEN TrapBadarg(w)
  ELSE BufWrite(buf[2], off[2], bin[2], w)

RtBufNew(size, w) ==
  IF ~IsInt(size) THEN TrapBadarg(w)
  ELSE IF size[2] < 0 \/ size[2] > MaxBuf THEN TrapBadarg(w)
  ELSE BufCreate([k \in 1 .. size[2] |-> 0], w)

RtBufRead(buf, off, len, w) ==
  IF ~AllInt(<<buf, off, len>>) THEN TrapBadarg(w)
  ELSE IF off[2] < 0 \/ len[2] < 0 THEN TrapBadarg(w)
  ELSE BufRead(buf[2], off[2], len[2], w)

RtSleepMs(ms, w) ==
  IF ~IsInt(ms) THEN TrapBadarg(w) ELSE IF ms[2] < 0 THEN TrapBadarg(w) ELSE SleepFor(ms[2], w)

RtExitAtom(a, w) == IF a[1] = "atom" THEN Exit(a, w) ELSE TrapBadarg(w)

RtBinFromList(list, w) ==
  LET s == Items(list) IN
  IF \E k \in DOMAIN s : IF IsInt(s[k]) THEN s[k][2] \notin 0 .. MaxByte ELSE TRUE THEN TrapBadarg(w)
  ELSE IF End(list) # Nil THEN TrapBadarg(w)
  ELSE NewBin([k \in DOMAIN s |-> s[k][2]], w)

RtBinToList(bin, w) ==
  IF IsBin(bin) THEN NewList([k \in DOMAIN bin[2] |-> IntTerm(bin[2][k])], Nil, w) ELSE TrapBadarg(w)

RtBinSize(bin, w) == Check(IsBin(bin), IntTerm(Len(bin[2])), w)
RtBufToBin(id, w) == IF IsInt(id) THEN BufTake(id[2], w) ELSE TrapBadarg(w)
RtBinToBuf(bin, w) == IF IsBin(bin) THEN BufCreate(bin[2], w) ELSE TrapBadarg(w)

RtMapNew(flat, w) == NewMap([k \in 1 .. Len(flat) \div 2 |-> <<flat[2 * k - 1], flat[2 * k]>>], w)
RtMapGet(map, key, w) == IF IsMap(map) THEN Check(key \in DOMAIN map[2], map[2][key], w) ELSE TrapBadarg(w)
RtMapPut(map, key, val, w) == IF IsMap(map) THEN PutMap(map, key, val, w) ELSE TrapBadarg(w)

RtBinCat(a, b, w) == IF IsBin(a) /\ IsBin(b) THEN NewBin(a[2] \o b[2], w) ELSE TrapBadarg(w)
RtListCat(a, b, w) == IF End(a) # Nil THEN TrapBadarg(w) ELSE NewList(Items(a), b, w)

RtBinAt(bin, idx, w) ==
  IF ~IsInt(idx) THEN TrapBadarg(w)
  ELSE IF ~IsBin(bin) \/ idx[2] < 0 THEN TrapBadarg(w)
  ELSE Check(idx[2] < Len(bin[2]), IntTerm(bin[2][idx[2] + 1]), w)

RtBinPart(bin, off, len, w) ==
  IF ~AllInt(<<off, len>>) THEN TrapBadarg(w)
  ELSE IF ~IsBin(bin) \/ off[2] < 0 \/ len[2] < 0 THEN TrapBadarg(w)
  ELSE IF off[2] + len[2] > Len(bin[2]) THEN TrapBadarg(w)
  ELSE NewBin(SubSeq(bin[2], off[2] + 1, off[2] + len[2]), w)

-----------------------------------------------------------------------------
(* Which helper an instruction calls. *)

NHelper(o, x, run, mods, w) ==
  CASE o = "MAKE_TUPLE" -> NewTuple(x[2], w)
    [] o = "GET_ELEM" -> RtGetElem(x[2], x[3], w)
    [] o = "CONS" -> NewCons(x[2], x[3], w)
    [] o = "HEAD" -> RtHead(x[2], w)
    [] o = "TAIL" -> RtTail(x[2], w)
    [] o = "SPAWN" -> RtSpawn(x[2], x[3], run, mods, w)
    [] o = "SEND" -> RtSend(x[1], x[2], w)
    [] o = "RECV" -> ProcRecv(w)
    [] o = "PRINT" -> Ok(Nil, Did(w, <<"print", x[1]>>))
    [] o = "EXIT_ATOM" -> RtExitAtom(x[1], w)
    [] o = "PORT_OPEN" -> PortOpen(x[2], w)
    [] o = "PORT_SUBMIT" -> RtPortSubmit(x[1], x[2], x[3], x[4], w)
    [] o = "PORT_SUBMIT2" -> RtPortSubmit2(x[1], x[2], x[3], x[4], x[5], w)
    [] o = "BUF_WRITE" -> RtBufWrite(x[2], x[3], x[4], w)
    [] o = "SLEEP_MS" -> RtSleepMs(x[1], w)
    [] o = "BUF_NEW" -> RtBufNew(x[2], w)
    [] o = "BUF_READ" -> RtBufRead(x[2], x[3], x[4], w)

NHelperTail(o, x, w) ==
  CASE o = "BIN_NEW" -> NewBin(x[2], w)
    [] o = "MAP_NEW" -> RtMapNew(x[2], w)
    [] o = "MAP_GET" -> RtMapGet(x[2], x[3], w)
    [] o = "MAP_PUT" -> RtMapPut(x[2], x[3], x[4], w)
    [] o = "BIN_FROM_LIST" -> RtBinFromList(x[2], w)
    [] o = "BIN_TO_LIST" -> RtBinToList(x[2], w)
    [] o = "BIN_SIZE" -> RtBinSize(x[2], w)
    [] o = "BUF_TO_BIN" -> RtBufToBin(x[2], w)
    [] o = "BIN_TO_BUF" -> RtBinToBuf(x[2], w)
    [] o = "BIN_AT" -> RtBinAt(x[2], x[3], w)
    [] o = "BIN_PART" -> RtBinPart(x[2], x[3], x[4], w)
    [] o = "IS_BINARY" -> Ok(Retag(IF IsBin(x[2]) THEN 1 ELSE 0), w)
    [] o = "BIN_CAT" -> RtBinCat(x[2], x[3], w)
    [] o = "LIST_CAT" -> RtListCat(x[2], x[3], w)

NativeOp(o, x, m, run, mods, w) ==
  CASE o \in {"NOP", "LOAD_INT", "LOAD_ATOM", "LOAD_NIL", "MOVE", "SELF_PID", "TICKS"} -> NLoad(o, x, mods[m], w)
    [] o \in {"ADD", "SUB", "MUL", "CMP_EQ", "CMP_LT"} -> NArith(o, x, w)
    [] o \in {"BAND", "BOR", "BXOR", "BSL", "BSR", "BNOT"} -> NBits(o, x, w)
    [] o \in {"MAKE_TUPLE", "GET_ELEM", "CONS", "HEAD", "TAIL", "SPAWN", "SEND", "RECV", "PRINT", "EXIT_ATOM",
              "PORT_OPEN", "PORT_SUBMIT", "PORT_SUBMIT2", "BUF_WRITE", "SLEEP_MS", "BUF_NEW", "BUF_READ"}
         -> NHelper(o, x, run, mods, w)
    [] OTHER -> NHelperTail(o, x, w)
=============================================================================
