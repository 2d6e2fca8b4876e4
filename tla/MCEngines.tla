------------------------------ MODULE MCEngines ------------------------------
(* Programs for both engines: every instruction that computes, on operands of   *)
(* every kind and at the edges of its range; small control programs over two    *)
(* modules, the second sealed or not; and blobs that are cut short.             *)
EXTENDS Engines

\* Instructions as CodeBuilder emits them; jumps name an instruction by its number.
Emit(name, cells) == <<[cells |-> <<OpCode(name)>> \o cells]>>
Branch(name, cells, l) == Emit(name, cells) \o <<[ref |-> l]>>
Assemble(body) == Finish(FlattenSeq([k \in DOMAIN body |-> <<[bind |-> k]>> \o body[k]]))

A == 1
B == 2
F == 3
G == 4
H == 5
Atoms == <<A, B, F, G, H>>
AtomA == U32(0)
AtomB == U32(1)
Named(name, arity, nregs, body) == [name |-> name - 1, arity |-> arity, nregs |-> nregs, code |-> Assemble(body)]
Module(fns) == Encode([atoms |-> Atoms, fns |-> fns])

Edge == {2^(IntBits - 1) - 1, -(2^(IntBits - 1))}
Scalars == {IntTerm(v) : v \in Edge \cup {-1, 0, 1, 2, IntBits}} \cup {<<"atom", A>>, Pid(2), <<"port", 1>>, Nil}
Bin == <<"binary", <<0, 1>>>>
Boxed == {<<"tuple", <<IntTerm(1)>>>>, List(<<IntTerm(1), IntTerm(0)>>, Nil), List(<<IntTerm(1)>>, IntTerm(2)),
          List(<<IntTerm(-1)>>, Nil), Bin, <<"map", [k \in {IntTerm(1)} |-> Nil]>>}
Samples == Scalars \cup Boxed
Few == {IntTerm(-1), IntTerm(0), IntTerm(1), IntTerm(2), <<"port", 1>>, Bin, <<"map", [k \in {IntTerm(1)} |-> Nil]>>}

World(room) == [room |-> room, inbox |-> <<IntTerm(1)>>, devices |-> {0}, ports |-> 1, bufs |-> <<<<0, 1>>, Gone>>,
                now |-> 2, log |-> <<>>]

\* One instruction on registers 0, 1, 2 into register 3, and its return.
Single(ins) == <<[name |-> A, sealed |-> FALSE, blob |-> Module(<<Named(F, 3, 4, <<ins, Emit("RET", <<3>>)>>)>>)]>>
Unary == {Emit(o, <<3, 0>>) : o \in {"MOVE", "HEAD", "TAIL", "BUF_NEW", "BNOT", "BIN_FROM_LIST", "BIN_TO_LIST",
                                     "BIN_SIZE", "BUF_TO_BIN", "BIN_TO_BUF", "IS_BINARY"}}
   \cup {Emit(o, <<0>>) : o \in {"PRINT", "EXIT_ATOM", "SLEEP_MS", "RECV", "LOAD_NIL", "SELF_PID", "TICKS"}}
   \cup {Emit("GET_ELEM", <<3, 0, k>>) : k \in {0, 1}} \cup {Emit("PORT_OPEN", <<3, k>>) : k \in {0, 1}}
   \cup {Emit("NOP", <<>>), Emit("LOAD_INT", <<3>> \o I64(2^IntBits + 1)), Emit("LOAD_ATOM", <<3>> \o AtomB),
         Emit("BIN_NEW", <<3>> \o U32(2) \o <<0, 1>>)}
Binary == {Emit(o, <<3, 0, 1>>) : o \in {"CONS", "ADD", "SUB", "MUL", "CMP_EQ", "CMP_LT", "BAND", "BOR", "BXOR", "BSL",
                                         "BSR", "BIN_CAT", "LIST_CAT", "MAP_GET", "BIN_AT"}}
   \cup {Emit("SEND", <<0, 1>>), Emit("MAKE_TUPLE", <<3, 2, 0, 1>>), Emit("MAP_NEW", <<3, 2, 0, 1, 1, 0>>)}
Ternary == {Emit(o, <<3, 0, 1, 2>>) : o \in {"MAP_PUT", "BIN_PART", "BUF_WRITE", "BUF_READ"}}
   \cup {Emit("PORT_SUBMIT", <<0, 1, 1, 2>>), Emit("PORT_SUBMIT2", <<0, 1, 2, 1, 2>>)}

\* More arguments than a compiled entry takes, at the entry and in a call.
Wide == <<[name |-> A, sealed |-> FALSE, blob |-> Module(<<
           Named(F, 4, 4, <<Emit("CALL", <<3>> \o U32(1) \o <<4, 0, 1, 2, 3>>), Emit("RET", <<3>>)>>),
           Named(G, 4, 4, <<Emit("ADD", <<3, 0, 1>>), Emit("TAIL_CALL", U32(2) \o <<1, 3>>)>>),
           Named(H, 1, 2, <<Emit("CALL_EXT", <<1>> \o AtomA \o U32(G - 1) \o <<4, 0, 0, 0, 0>>), Emit("RET", <<1>>)>>)>>)]>>

Case(mods_, args, room) == [mods |-> mods_, args |-> args, w |-> World(room)]
Computing ==
       {Case(Single(p[1]), <<p[2], Nil, Nil>>, p[3]) : p \in Unary \X Samples \X {2, 20}}
  \cup {Case(Single(p[1]), <<p[2], p[3], Nil>>, 20) : p \in Binary \X Samples \X Samples}
  \cup {Case(Wide, <<x, IntTerm(1), Nil, Nil>>, 20) : x \in Scalars}
  \cup {Case(Single(p[1]), <<p[2], p[3], p[4]>>, 20) : p \in Ternary \X Few \X Few \X Few}

\* A first function of two instructions and a return, a second one, and a function
\* of another module with a sibling of its own.
Stays == {
  Branch("JMP", <<>>, 1), Branch("JMP", <<>>, 3), Branch("JMP_IF", <<0>>, 1), Branch("JMP_IF", <<1>>, 3),
  Emit("SUB", <<0, 0, 1>>), Emit("RECV", <<1>>), Emit("CALL", <<1>> \o U32(0) \o <<1, 1>>),
  Emit("TAIL_CALL", U32(0) \o <<1, 0>>), Emit("EXIT_ATOM", <<0>>) }
Inner == {
  Emit("CALL", <<1>> \o U32(1) \o <<1, 0>>), Emit("TAIL_CALL", U32(1) \o <<1, 0>>), Emit("SPAWN", <<1>> \o U32(1) \o <<0>>) }
Leaves == {
  Emit("CALL_EXT", <<1>> \o AtomB \o U32(F - 1) \o <<1, 0>>), Emit("CALL_EXT", <<1>> \o AtomB \o U32(F - 1) \o <<2, 0, 0>>),
  Emit("TAIL_CALL_EXT", AtomB \o U32(F - 1) \o <<1, 0>>), Emit("TAIL_CALL_EXT", AtomB \o U32(G - 1) \o <<1, 1>>) }
Letters == Stays \cup Inner \cup Leaves
Nop == Emit("NOP", <<>>)
SecondLeaves == Emit("TAIL_CALL_EXT", AtomB \o U32(F - 1) \o <<1, 0>>)
SecondStays == {Nop, Emit("TAIL_CALL", U32(0) \o <<1, 1>>), Emit("SPAWN", <<1>> \o U32(0) \o <<0>>)}
Outers == {
  Nop, Emit("CALL", <<1>> \o U32(1) \o <<1, 0>>), Emit("TAIL_CALL", U32(1) \o <<1, 0>>),
  Emit("CALL_EXT", <<1>> \o AtomA \o U32(G - 1) \o <<1, 1>>), Emit("SPAWN", <<1>> \o U32(1) \o <<0>>) }
OuterSeconds == { Nop, Emit("TAIL_CALL_EXT", AtomA \o U32(G - 1) \o <<1, 1>>) }

Ret(r) == Emit("RET", <<r>>)
Pair(a1, a2, second, outer, outer2, sealed) ==
  << [name |-> B, sealed |-> sealed,
      blob |-> Module(<<Named(F, 1, 2, <<outer, Ret(0)>>), Named(G, 1, 2, <<outer2, Ret(1)>>)>>)],
     [name |-> A, sealed |-> FALSE,
      blob |-> Module(<<Named(F, 1, 2, <<a1, a2, Ret(1)>>), Named(G, 1, 2, <<second, Ret(0)>>)>>)] >>
\* The other module is varied where the first one can get to it.
Alone == (Stays \cup Inner) \X (Stays \cup Inner) \X SecondStays \X {Nop} \X {Nop} \X {FALSE}
Firsts == {p \in Letters \X Letters \X (SecondStays \cup {SecondLeaves}) :
             \/ {p[1], p[2]} \cap Leaves # {}
             \/ {p[1], p[2]} \cap Inner # {} /\ p[3] = SecondLeaves}
Together == {<<p[1][1], p[1][2], p[1][3], p[2], p[3], p[4]>> : p \in Firsts \X Outers \X OuterSeconds \X BOOLEAN}
Controlling ==
  {Case(Pair(p[1], p[2], p[3], p[4], p[5], p[6]), <<IntTerm(1)>>, 20) : p \in Alone \cup Together}

\* Every prefix of two modules that hold every kind of operand between them.
Whole == { Module(<<Named(F, 1, 2, <<Emit("SUB", <<0, 0, 1>>), Branch("JMP_IF", <<0>>, 1), Ret(1)>>)>>),
           Module(<<Named(F, 0, 1, <<Emit("LOAD_INT", <<0>> \o I64(1)), Emit("BIN_NEW", <<0>> \o U32(1) \o <<0>>),
                                     Emit("MAP_NEW", <<0, 1, 0, 0>>), Emit("TAIL_CALL", U32(0) \o <<0>>)>>)>>) }
Cut == UNION {{Case(<<[name |-> A, sealed |-> FALSE, blob |-> SubSeq(b, 1, k)]>>, <<Nil>>, 20) : k \in 0 .. Len(b) - 1} : b \in Whole}

AllCases == Computing \cup Controlling \cup Cut
=============================================================================
