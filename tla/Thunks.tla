------------------------------- MODULE Thunks -------------------------------
(***************************************************************************)
(* The x86 code around a call from the guest into C: the stub at the head  *)
(* of a translation unit, which calls translate_tu(), and the thunk of a   *)
(* library function, which the guest reaches by JSR.  The code is emitted  *)
(* as a sequence of instructions and then executed, one by one.            *)
(*                                                                         *)
(* A value is a tagged tuple: what the guest had in a register, a position *)
(* of the stack pointer, a constant, or what a C function has left.        *)
(***************************************************************************)
EXTENDS Integers, SequencesExt

CONSTANT Functions    \* the library functions that are implemented

\* In the order of the enumerations of codegen.h.
X86 == <<"r8", "r9", "r10", "r11", "r12", "r13", "r14", "r15",
         "rax", "rcx", "rdx", "rbx", "rsp", "rbp", "rsi", "rdi">>
Register == {X86[i] : i \in 1 .. 16}

\* 680x0 registers: D0 .. D7 are 0 .. 7, A0 .. A7 are 8 .. 15.
M68k == 0 .. 15
X86RegForM68kReg ==
    [m \in M68k |-> <<"r8", "r9", "r10", "r11", "r12", "r13", "r14", "r15",
                      "rax", "rcx", "rdx", "rbx", "rdi", "rbp", "rsi", "rsp">>[m + 1]]
R(m) == X86RegForM68kReg[m]

X86RegsForFuncArgs == <<"rdi", "rsi", "rdx", "rcx", "r8", "r9">>

\* Mutant: A3 is taken for A4.
AmigaOsRegsToPreserveUnswapped == <<2, 3, 10, 11, 14>>

\* D2, D3, A2, A4, A6; a C function keeps D4 .. D7, A3, A5 and A7.
AmigaOsRegsToPreserve == <<2, 3, 10, 12, 14>>

\* What the x86-64 ABI lets a C function change.
CallerSaved == {"rax", "rcx", "rdx", "rsi", "rdi", "r8", "r9", "r10", "r11"}

ASSUME FunctionsAssumption ==
    \A f \in Functions : /\ f.args \in Seq(M68k) /\ Len(f.args) <= 6
                         /\ f.result \in M68k

\* The rows of the functions that are implemented are such that the moves of
\* the arguments, one after the other, do not get in each other's way: none is
\* into a register that a later one takes an argument from.  No argument is in
\* A6, the library's base, or A7, and the result is in a register that the
\* guest does not expect to be kept.
ASSUME RowsAssumption ==
    \A f \in Functions :
        /\ f.name # "log_func_name"
        /\ f.result \in {0, 1, 8, 9}
        /\ \A i \in 1 .. Len(f.args) :
              /\ f.args[i] \notin {14, 15}
              /\ \A j \in i + 1 .. Len(f.args) :
                    R(f.args[j]) # X86RegsForFuncArgs[Len(f.args) - i + 1]

-----------------------------------------------------------------------------
(* Emitting code                                                           *)

Push(r)         == [op |-> "push", r |-> r]
Pop(r)          == [op |-> "pop", r |-> r]
Mov(src, dst)   == [op |-> "mov", src |-> src, dst |-> dst]
MovImm(v, dst)  == [op |-> "movi", v |-> v, dst |-> dst]
AddImm(dst)     == [op |-> "add", dst |-> dst]
CallC(f)        == [op |-> "callc", f |-> f]
Plain(op)       == [op |-> op]        \* pushf, popf, align, call, ret

SaveAmigaOsRegisters ==
    [i \in 1 .. 5 |-> Push(R(AmigaOsRegsToPreserve[i]))]
RestoreAmigaOsRegisters ==
    [i \in 1 .. 5 |-> Pop(R(AmigaOsRegsToPreserve[6 - i]))]

SaveProgramState ==
    SaveAmigaOsRegisters \o <<Push(R(0)), Push(R(1)), Push(R(8)), Push(R(9)),
                              Plain("pushf")>>

\* Mutant: D1 and A0 are restored in the order they were saved.
RestoreProgramStateSwapped ==
    <<Plain("popf"), Pop(R(9)), Pop(R(1)), Pop(R(8)), Pop(R(0))>>
        \o RestoreAmigaOsRegisters

RestoreProgramState ==
    <<Plain("popf"), Pop(R(9)), Pop(R(8)), Pop(R(1)), Pop(R(0))>>
        \o RestoreAmigaOsRegisters

\* Mutant: the stack is not aligned.
AbsCallUnaligned(f) ==
    <<Push("rbp"), Mov("rsp", "rbp"), MovImm(f, "rax"),
      CallC(f), Mov("rbp", "rsp"), Pop("rbp")>>

\* Mutant: RSP is not taken back from RBP.
AbsCallKeepsPadding(f) ==
    <<Push("rbp"), Mov("rsp", "rbp"), Plain("align"), MovImm(f, "rax"),
      CallC(f), Pop("rbp")>>

AbsCallToFunc(f) ==
    <<Push("rbp"), Mov("rsp", "rbp"), Plain("align"), MovImm(f, "rax"),
      CallC(f), Mov("rbp", "rsp"), Pop("rbp")>>

\* The stub setup_tu() writes.
Stub ==
    SaveProgramState \o <<MovImm("p_m68k_code", "rdi")>>
        \o AbsCallToFunc("translate_tu") \o RestoreProgramState

\* Mutant: the arguments are taken to be given first to last.
ArgMovesForward(f) ==
    [i \in 1 .. Len(f.args) |-> Mov(R(f.args[i]), X86RegsForFuncArgs[i])]

\* The arguments' registers are given last argument first.
ArgMoves(f) ==
    [i \in 1 .. Len(f.args) |->
        Mov(R(f.args[i]), X86RegsForFuncArgs[Len(f.args) - i + 1])]

\* Mutant: the state saved for logging is left on the stack.
ThunkWithoutRestore(f) ==
    SaveProgramState \o <<MovImm("p_func_name", "rdi")>>
        \o AbsCallToFunc("log_func_name")
        \o SaveAmigaOsRegisters \o ArgMoves(f) \o AbsCallToFunc(f.name)
        \o <<Mov("rax", X86[f.result + 1])>>
        \o RestoreAmigaOsRegisters \o <<Plain("ret")>>

\* The register of the result is not translated by X86RegForM68kReg.
Thunk(f) ==
    SaveProgramState \o <<MovImm("p_func_name", "rdi")>>
        \o AbsCallToFunc("log_func_name") \o RestoreProgramState
        \o SaveAmigaOsRegisters \o ArgMoves(f) \o AbsCallToFunc(f.name)
        \o <<Mov("rax", X86[f.result + 1])>>
        \o RestoreAmigaOsRegisters \o <<Plain("ret")>>

\* What m68k_jsr() makes of a JSR through A6, with the thunk it leads to.
Jsr(f) ==
    <<Push("rsi"), AddImm("rsi"), Plain("call")>> \o Thunk(f) \o <<Pop("rsi")>>

-----------------------------------------------------------------------------
(* Executing it                                                            *)

VARIABLES what,     \* the function called, or Stub's
          code,     \* the instructions
          pc,       \* number of the next one
          reg,      \* registers except RSP
          flags,
          stack,    \* what the guest's stack holds since the start
          skew      \* whether RSP was off a 16-byte boundary at the start

vars == <<what, code, pc, reg, flags, stack, skew>>

StubCall == [name |-> "translate_tu", args |-> <<>>, result |-> 0]

GuestValue(r) == <<"guest", r>>
Left          == <<"left">>      \* whatever a C function leaves
Result        == <<"result">>
Position(n)   == <<"sp", n>>

Init ==
    /\ what \in Functions \cup {StubCall}
    /\ code = IF what = StubCall THEN Stub ELSE Jsr(what)
    /\ pc = 1
    /\ reg = [r \in Register \ {"rsp"} |-> GuestValue(r)]
    /\ flags = GuestValue("flags")
    /\ stack = <<>>
    /\ skew \in {0, 1}

At(op) == pc <= Len(code) /\ code[pc].op = op
I      == code[pc]
Goes   == pc' = pc + 1 /\ UNCHANGED <<what, code, skew>>
Top    == stack[Len(stack)]

ExecPush ==
    /\ At("push")
    /\ stack' = Append(stack, reg[I.r])
    /\ Goes /\ UNCHANGED <<reg, flags>>

ExecPop ==
    /\ At("pop")
    /\ stack # <<>>
    /\ reg' = [reg EXCEPT ![I.r] = Top]
    /\ stack' = Front(stack)
    /\ Goes /\ UNCHANGED flags

ExecPushf ==
    /\ At("pushf")
    /\ stack' = Append(stack, flags)
    /\ Goes /\ UNCHANGED <<reg, flags>>

ExecPopf ==
    /\ At("popf")
    /\ stack # <<>>
    /\ flags' = Top
    /\ stack' = Front(stack)
    /\ Goes /\ UNCHANGED reg

ExecMov ==
    /\ At("mov")
    /\ \/ /\ "rsp" \notin {I.src, I.dst}
          /\ reg' = [reg EXCEPT ![I.dst] = reg[I.src]]
          /\ stack' = stack
       \/ /\ I.src = "rsp"
          /\ reg' = [reg EXCEPT ![I.dst] = Position(Len(stack))]
          /\ stack' = stack
       \/ /\ I.dst = "rsp"
          /\ reg[I.src] \in {Position(n) : n \in 0 .. Len(stack)}
          /\ stack' = SubSeq(stack, 1, reg[I.src][2])
          /\ reg' = reg
    /\ Goes /\ UNCHANGED flags

ExecMovImm ==
    /\ At("movi")
    /\ reg' = [reg EXCEPT ![I.dst] = <<"imm", I.v>>]
    /\ Goes /\ UNCHANGED <<flags, stack>>

ExecAdd ==
    /\ At("add")
    /\ reg' = [reg EXCEPT ![I.dst] = Left]
    /\ flags' = Left
    /\ Goes /\ UNCHANGED stack

Misaligned == (Len(stack) + skew) % 2

ExecAlign ==
    /\ At("align")
    /\ stack' = IF Misaligned = 0 THEN stack ELSE Append(stack, Left)
    /\ flags' = Left
    /\ Goes /\ UNCHANGED reg

\* A C function changes what it may: any of these registers, and the flags.
ExecCallC ==
    /\ At("callc")
    /\ \E changed \in SUBSET (CallerSaved \ {"rax"}) :
          reg' = [r \in DOMAIN reg |-> CASE r = "rax"     -> Result
                                         [] r \in changed -> Left
                                         [] OTHER         -> reg[r]]
    /\ flags' = Left
    /\ Goes /\ UNCHANGED stack

ExecCall ==
    /\ At("call")
    /\ stack' = Append(stack, <<"return">>)
    /\ Goes /\ UNCHANGED <<reg, flags>>

\* To the instruction behind the call, if that is what the stack has.
ExecRet ==
    /\ At("ret")
    /\ stack # <<>> /\ Top = <<"return">>
    /\ stack' = Front(stack)
    /\ Goes /\ UNCHANGED <<reg, flags>>

Exec == ExecPush \/ ExecPop \/ ExecPushf \/ ExecPopf \/ ExecMov \/ ExecMovImm
        \/ ExecAdd \/ ExecAlign \/ ExecCallC \/ ExecCall \/ ExecRet

Finished == pc > Len(code)

\* The guest goes on.
GoesOn == Finished /\ UNCHANGED vars

Next == Exec \/ GoesOn

Spec == Init /\ [][Next]_vars

-----------------------------------------------------------------------------
(* Properties                                                              *)

Value == {GuestValue(r) : r \in Register \cup {"flags"}}
         \cup {Left, Result, <<"return">>}
         \cup {Position(n) : n \in 0 .. 14}
         \cup {<<"imm", v>> : v \in {"p_m68k_code", "p_func_name", "translate_tu",
                                     "log_func_name"} \cup {f.name : f \in Functions}}
TypeOK ==
    /\ what \in Functions \cup {StubCall}
    /\ pc \in 1 .. Len(code) + 1
    /\ reg \in [Register \ {"rsp"} -> Value]
    /\ flags \in Value
    /\ stack \in Seq(Value) /\ Len(stack) <= 14
    /\ skew \in {0, 1}

\* Every C function is called with the stack on a 16-byte boundary, wherever
\* the guest has its stack.
CalledAligned == At("callc") => Misaligned = 0

\* A library function finds its arguments, first to last, as the guest had
\* them in the registers the function's row names, last to first: neither the
\* logging of its name nor the moves of the other arguments have changed them.
ArgumentsArrive ==
    At("callc") /\ I.f = what.name =>
        \A i \in 1 .. Len(what.args) :
            reg[X86RegsForFuncArgs[i]] =
                GuestValue(R(what.args[Len(what.args) - i + 1]))

\* The comment in setup_tu(): the call of translate_tu() is "completely
\* transparent", whatever registers translate_tu() uses.
StubTransparent ==
    Finished /\ what = StubCall =>
        /\ reg = [r \in Register \ {"rsp"} |-> GuestValue(r)]
        /\ flags = GuestValue("flags")

\* After a library call the guest's stack is as before, D2 to D7 and A2 to A6
\* have their values, and the result is where the row says.
CallKeepsRegisters ==
    Finished =>
        /\ stack = <<>>
        /\ what # StubCall =>
              /\ \A m \in 2 .. 7 \cup 10 .. 14 : reg[R(m)] = GuestValue(R(m))
              /\ reg[R(what.result)] = Result

\* A thunk comes to its RET with the stack as it found it: under the return
\* address is the guest's A6, which the JSR has pushed.
ReturnsToCaller ==
    At("ret") => stack = <<GuestValue("rsi"), <<"return">>>>
=============================================================================
