---------------------------- MODULE ThunksProofs ----------------------------
(***************************************************************************)
(* What the emitted x86 code does, for any functions: a stub leaves no     *)
(* trace, a library function finds its arguments and an aligned stack, and *)
(* the guest finds its registers and its stack afterwards.                 *)
(***************************************************************************)
EXTENDS Thunks, SequenceTheorems, TLAPS

GPR == Register \ {"rsp"}

LEMMA Registers ==
    /\ Register = {"r8", "r9", "r10", "r11", "r12", "r13", "r14", "r15",
                   "rax", "rcx", "rdx", "rbx", "rsp", "rbp", "rsi", "rdi"}
    /\ GPR = {"r8", "r9", "r10", "r11", "r12", "r13", "r14", "r15",
              "rax", "rcx", "rdx", "rbx", "rbp", "rsi", "rdi"}
  <1>1. /\ X86[1] = "r8" /\ X86[2] = "r9" /\ X86[3] = "r10" /\ X86[4] = "r11"
        /\ X86[5] = "r12" /\ X86[6] = "r13" /\ X86[7] = "r14" /\ X86[8] = "r15"
        /\ X86[9] = "rax" /\ X86[10] = "rcx" /\ X86[11] = "rdx"
        /\ X86[12] = "rbx" /\ X86[13] = "rsp" /\ X86[14] = "rbp"
        /\ X86[15] = "rsi" /\ X86[16] = "rdi"
    BY DEF X86
  <1>2. 1 .. 16 = {1, 2, 3, 4, 5, 6, 7, 8, 9, 10, 11, 12, 13, 14, 15, 16}
    OBVIOUS
  <1> HIDE DEF X86
  <1> QED
    BY <1>1, <1>2 DEF Register, GPR

\* 680x0 registers in their x86 registers.
LEMMA RegisterMap ==
    /\ R(0) = "r8" /\ R(1) = "r9" /\ R(2) = "r10" /\ R(3) = "r11"
    /\ R(4) = "r12" /\ R(5) = "r13" /\ R(6) = "r14" /\ R(7) = "r15"
    /\ R(8) = "rax" /\ R(9) = "rcx" /\ R(10) = "rdx" /\ R(11) = "rbx"
    /\ R(12) = "rdi" /\ R(13) = "rbp" /\ R(14) = "rsi" /\ R(15) = "rsp"
  BY DEF R, X86RegForM68kReg, M68k

-----------------------------------------------------------------------------
(* What is emitted.                                                        *)

\* The registers of SaveProgramState; SaveAmigaOsRegisters has the first five.
Saved == <<"r10", "r11", "rdx", "rdi", "rsi", "r8", "r9", "rax", "rcx">>

FuncNames == {"translate_tu", "log_func_name"} \cup {f.name : f \in Functions}
Immediates == {"p_m68k_code", "p_func_name"} \cup FuncNames

Instruction ==
    {Push(r) : r \in GPR} \cup {Pop(r) : r \in GPR}
    \cup {Mov(s, d) : s \in GPR, d \in GPR}
    \cup {Mov("rsp", "rbp"), Mov("rbp", "rsp"), AddImm("rsi")}
    \cup {MovImm(v, r) : v \in Immediates, r \in GPR}
    \cup {CallC(f) : f \in FuncNames}
    \cup {Plain(op) : op \in {"pushf", "popf", "align", "call", "ret"}}

IsCode(s, n) == s \in Seq(Instruction) /\ Len(s) = n

\* The instructions s stand in c from o on.
Holds(c, o, s) == \A i \in 1 .. Len(s) : c[o + i] = s[i]

LEMMA JoinedCode ==
    ASSUME NEW s, NEW t, NEW m \in Nat, NEW n \in Nat, IsCode(s, m), IsCode(t, n)
    PROVE  IsCode(s \o t, m + n)
  <1>1. s \in Seq(Instruction) /\ t \in Seq(Instruction)
    BY DEF IsCode
  <1>2. s \o t \in Seq(Instruction) /\ Len(s \o t) = Len(s) + Len(t)
    BY <1>1, ConcatProperties
  <1> QED
    BY <1>2 DEF IsCode

LEMMA JoinedHolds ==
    ASSUME NEW c, NEW o \in Nat, NEW s, NEW t, NEW m \in Nat, NEW n \in Nat,
           IsCode(s, m), IsCode(t, n), Holds(c, o, s \o t)
    PROVE  Holds(c, o, s) /\ Holds(c, o + m, t)
  <1>0. /\ s \in Seq(Instruction) /\ t \in Seq(Instruction)
        /\ Len(s) = m /\ Len(t) = n
    BY DEF IsCode
  <1>1. /\ Len(s \o t) = m + n
        /\ \A i \in 1 .. m : (s \o t)[i] = s[i]
        /\ \A i \in 1 .. n : (s \o t)[m + i] = t[i]
    <2>1. /\ Len(s \o t) = m + n
          /\ \A i \in 1 .. m + n :
                (s \o t)[i] = IF i <= m THEN s[i] ELSE t[i - m]
      BY <1>0, ConcatProperties
    <2>2. ASSUME NEW i \in 1 .. n PROVE (s \o t)[m + i] = t[i]
      <3>1. m + i \in 1 .. m + n /\ ~(m + i <= m) /\ (m + i) - m = i
        OBVIOUS
      <3> QED
        BY <2>1, <3>1
    <2>3. ASSUME NEW i \in 1 .. m PROVE (s \o t)[i] = s[i]
      <3>1. i \in 1 .. m + n /\ i <= m
        OBVIOUS
      <3> QED
        BY <2>1, <3>1
    <2> QED
      BY <2>1, <2>2, <2>3
  <1>2. \A i \in 1 .. m + n : c[o + i] = (s \o t)[i]
    BY <1>1 DEF Holds
  <1>3. ASSUME NEW i \in 1 .. m PROVE c[o + i] = s[i]
    <2>1. i \in 1 .. m + n
      OBVIOUS
    <2> QED
      BY <1>1, <1>2, <2>1
  <1>4. ASSUME NEW i \in 1 .. n PROVE c[(o + m) + i] = t[i]
    <2>1. m + i \in 1 .. m + n /\ o + (m + i) = (o + m) + i
      OBVIOUS
    <2>2. c[o + (m + i)] = (s \o t)[m + i]
      BY <1>2, <2>1
    <2> QED
      BY <1>1, <2>1, <2>2
  <1> QED
    BY <1>3, <1>4 DEF Holds, IsCode

LEMMA FunctionIsSeq ==
    ASSUME NEW S, NEW n \in Nat, NEW s \in [1 .. n -> S]
    PROVE  s \in Seq(S) /\ Len(s) = n
  OBVIOUS

\* The registers saved, by their place.
LEMMA SavedAre ==
    /\ Saved[1] = "r10" /\ Saved[2] = "r11" /\ Saved[3] = "rdx"
    /\ Saved[4] = "rdi" /\ Saved[5] = "rsi" /\ Saved[6] = "r8"
    /\ Saved[7] = "r9" /\ Saved[8] = "rax" /\ Saved[9] = "rcx"
    /\ \A i \in 1 .. 9 : Saved[i] \in GPR /\ Saved[i] \in CallerSaved
    /\ \A i, j \in 1 .. 9 : Saved[i] = Saved[j] => i = j
    /\ \A r \in CallerSaved : \E i \in 1 .. 9 : r = Saved[i]
  <1>1. /\ Saved[1] = "r10" /\ Saved[2] = "r11" /\ Saved[3] = "rdx"
        /\ Saved[4] = "rdi" /\ Saved[5] = "rsi" /\ Saved[6] = "r8"
        /\ Saved[7] = "r9" /\ Saved[8] = "rax" /\ Saved[9] = "rcx"
    BY DEF Saved
  <1>2. 1 .. 9 = {1, 2, 3, 4, 5, 6, 7, 8, 9}
    OBVIOUS
  <1> HIDE DEF Saved
  <1>3. \A i \in 1 .. 9 : Saved[i] \in GPR /\ Saved[i] \in CallerSaved
    BY <1>1, <1>2, Registers DEF CallerSaved
  <1>4. \A i, j \in 1 .. 9 : Saved[i] = Saved[j] => i = j
    BY <1>1, <1>2
  <1>5. \A r \in CallerSaved : \E i \in 1 .. 9 : r = Saved[i]
    BY <1>1, <1>2 DEF CallerSaved
  <1> QED
    BY <1>1, <1>3, <1>4, <1>5

LEMMA AmigaOsCode ==
    /\ IsCode(SaveAmigaOsRegisters, 5)
    /\ IsCode(RestoreAmigaOsRegisters, 5)
    /\ \A i \in 1 .. 5 : SaveAmigaOsRegisters[i] = Push(Saved[i])
    /\ \A i \in 1 .. 5 : RestoreAmigaOsRegisters[i] = Pop(Saved[6 - i])
  <1>1. \A i \in 1 .. 5 : R(AmigaOsRegsToPreserve[i]) = Saved[i]
    <2>1. /\ AmigaOsRegsToPreserve[1] = 2 /\ AmigaOsRegsToPreserve[2] = 3
          /\ AmigaOsRegsToPreserve[3] = 10 /\ AmigaOsRegsToPreserve[4] = 12
          /\ AmigaOsRegsToPreserve[5] = 14
      BY DEF AmigaOsRegsToPreserve
    <2>2. 1 .. 5 = {1, 2, 3, 4, 5}
      OBVIOUS
    <2> QED
      BY <2>1, <2>2, SavedAre, RegisterMap
  <1>2. /\ \A i \in 1 .. 5 : SaveAmigaOsRegisters[i] = Push(Saved[i])
        /\ \A i \in 1 .. 5 : RestoreAmigaOsRegisters[i] = Pop(Saved[6 - i])
    BY <1>1 DEF SaveAmigaOsRegisters, RestoreAmigaOsRegisters
  <1>3. \A i \in 1 .. 5 : Push(Saved[i]) \in Instruction /\ Pop(Saved[6 - i]) \in Instruction
    BY SavedAre DEF Instruction
  <1>4. /\ SaveAmigaOsRegisters \in [1 .. 5 -> Instruction]
        /\ RestoreAmigaOsRegisters \in [1 .. 5 -> Instruction]
    BY <1>2, <1>3 DEF SaveAmigaOsRegisters, RestoreAmigaOsRegisters
  <1>5. IsCode(SaveAmigaOsRegisters, 5)
    BY <1>4, FunctionIsSeq DEF IsCode
  <1>6. IsCode(RestoreAmigaOsRegisters, 5)
    BY <1>4, FunctionIsSeq DEF IsCode
  <1> QED
    BY <1>2, <1>5, <1>6

\* Code c saves or restores registers from o on.
Pushes(c, o, m) == \A i \in 1 .. m : c[o + i] = Push(Saved[i])
Pops(c, o, m)   == \A i \in 1 .. m : c[o + i] = Pop(Saved[m + 1 - i])

LEMMA SaveProgramCode ==
    /\ IsCode(SaveProgramState, 10)
    /\ \A c : \A o \in Nat : Holds(c, o, SaveProgramState) =>
          Pushes(c, o, 9) /\ c[o + 10] = Plain("pushf")
  <1> DEFINE s == <<Push(R(0)), Push(R(1)), Push(R(8)), Push(R(9)), Plain("pushf")>>
  <1>1. /\ s[1] = Push(Saved[6]) /\ s[2] = Push(Saved[7]) /\ s[3] = Push(Saved[8])
        /\ s[4] = Push(Saved[9]) /\ s[5] = Plain("pushf")
    BY SavedAre, RegisterMap
  <1>2. IsCode(s, 5)
    <2>1. /\ Push(R(0)) \in Instruction /\ Push(R(1)) \in Instruction
          /\ Push(R(8)) \in Instruction /\ Push(R(9)) \in Instruction
          /\ Plain("pushf") \in Instruction
      BY RegisterMap, Registers DEF Instruction
    <2> QED
      BY <2>1 DEF IsCode
  <1> HIDE DEF s
  <1>3. SaveProgramState = SaveAmigaOsRegisters \o s
    BY DEF SaveProgramState, s
  <1>4. IsCode(SaveProgramState, 10)
    BY <1>2, <1>3, AmigaOsCode, JoinedCode
  <1>5. ASSUME NEW c, NEW o \in Nat, Holds(c, o, SaveProgramState)
        PROVE  Pushes(c, o, 9) /\ c[o + 10] = Plain("pushf")
    <2>1. Holds(c, o, SaveAmigaOsRegisters) /\ Holds(c, o + 5, s)
      BY <1>2, <1>3, <1>5, AmigaOsCode, JoinedHolds
    <2>2. \A i \in 1 .. 5 : c[o + i] = Push(Saved[i])
      BY <2>1, AmigaOsCode DEF Holds, IsCode
    <2>3. \A i \in 1 .. 5 : c[(o + 5) + i] = s[i]
      BY <2>1, <1>2 DEF Holds, IsCode
    <2>4. /\ c[o + 6] = s[1] /\ c[o + 7] = s[2] /\ c[o + 8] = s[3]
          /\ c[o + 9] = s[4] /\ c[o + 10] = s[5]
      BY <2>3
    <2>5. \A i \in 1 .. 9 : i \in 1 .. 5 \/ i = 6 \/ i = 7 \/ i = 8 \/ i = 9
      OBVIOUS
    <2> QED
      BY <1>1, <2>2, <2>4, <2>5 DEF Pushes
  <1> QED
    BY <1>4, <1>5

LEMMA RestoreProgramCode ==
    /\ IsCode(RestoreProgramState, 10)
    /\ \A c : \A o \in Nat : Holds(c, o, RestoreProgramState) =>
          c[o + 1] = Plain("popf") /\ Pops(c, o + 1, 9)
  <1> DEFINE t == <<Plain("popf"), Pop(R(9)), Pop(R(8)), Pop(R(1)), Pop(R(0))>>
  <1>1. /\ t[1] = Plain("popf") /\ t[2] = Pop(Saved[9]) /\ t[3] = Pop(Saved[8])
        /\ t[4] = Pop(Saved[7]) /\ t[5] = Pop(Saved[6])
    BY SavedAre, RegisterMap
  <1>2. IsCode(t, 5)
    <2>1. /\ Pop(R(0)) \in Instruction /\ Pop(R(1)) \in Instruction
          /\ Pop(R(8)) \in Instruction /\ Pop(R(9)) \in Instruction
          /\ Plain("popf") \in Instruction
      BY RegisterMap, Registers DEF Instruction
    <2> QED
      BY <2>1 DEF IsCode
  <1> HIDE DEF t
  <1>3. RestoreProgramState = t \o RestoreAmigaOsRegisters
    BY DEF RestoreProgramState, t
  <1>4. IsCode(RestoreProgramState, 10)
    BY <1>2, <1>3, AmigaOsCode, JoinedCode
  <1>5. ASSUME NEW c, NEW o \in Nat, Holds(c, o, RestoreProgramState)
        PROVE  c[o + 1] = Plain("popf") /\ Pops(c, o + 1, 9)
    <2>1. Holds(c, o, t) /\ Holds(c, o + 5, RestoreAmigaOsRegisters)
      BY <1>2, <1>3, <1>5, AmigaOsCode, JoinedHolds
    <2>2. \A i \in 1 .. 5 : c[o + i] = t[i]
      BY <2>1, <1>2 DEF Holds, IsCode
    <2>3. \A i \in 1 .. 5 : c[(o + 5) + i] = Pop(Saved[6 - i])
      BY <2>1, AmigaOsCode DEF Holds, IsCode
    <2>4. /\ c[o + 1] = t[1] /\ c[o + 2] = t[2] /\ c[o + 3] = t[3]
          /\ c[o + 4] = t[4] /\ c[o + 5] = t[5]
      BY <2>2
    <2>5. ASSUME NEW i \in 1 .. 9 PROVE c[(o + 1) + i] = Pop(Saved[10 - i])
      <3>1. CASE i \in 5 .. 9
        <4>1. i - 4 \in 1 .. 5
          BY <3>1
        <4>2. c[(o + 5) + (i - 4)] = Pop(Saved[6 - (i - 4)])
          BY <2>3, <4>1
        <4>3. (o + 5) + (i - 4) = (o + 1) + i /\ 6 - (i - 4) = 10 - i
          OBVIOUS
        <4> QED
          BY <4>2, <4>3
      <3>2. CASE i \notin 5 .. 9
        <4>1. i = 1 \/ i = 2 \/ i = 3 \/ i = 4
          BY <3>2
        <4> QED
          BY <1>1, <2>4, <4>1
      <3> QED
        BY <3>1, <3>2
    <2> QED
      BY <1>1, <2>4, <2>5 DEF Pops
  <1> QED
    BY <1>4, <1>5

\* Code c calls f from o on.
Calls(c, o, f) ==
    /\ c[o + 1] = Push("rbp")
    /\ c[o + 2] = Mov("rsp", "rbp")
    /\ c[o + 3] = Plain("align")
    /\ c[o + 4] = MovImm(f, "rax")
    /\ c[o + 5] = CallC(f)
    /\ c[o + 6] = Mov("rbp", "rsp")
    /\ c[o + 7] = Pop("rbp")

LEMMA CallCode ==
    ASSUME NEW f \in FuncNames
    PROVE  /\ IsCode(AbsCallToFunc(f), 7)
           /\ \A c : \A o \in Nat : Holds(c, o, AbsCallToFunc(f)) => Calls(c, o, f)
  <1> DEFINE s == AbsCallToFunc(f)
  <1>1. /\ s[1] = Push("rbp") /\ s[2] = Mov("rsp", "rbp") /\ s[3] = Plain("align")
        /\ s[4] = MovImm(f, "rax") /\ s[5] = CallC(f)
        /\ s[6] = Mov("rbp", "rsp") /\ s[7] = Pop("rbp")
    BY DEF AbsCallToFunc
  <1>2. IsCode(s, 7)
    <2>1. /\ Push("rbp") \in Instruction /\ Pop("rbp") \in Instruction
          /\ Plain("align") \in Instruction
      BY Registers DEF Instruction
    <2>2. Mov("rsp", "rbp") \in Instruction /\ Mov("rbp", "rsp") \in Instruction
      BY DEF Instruction
    <2>3. MovImm(f, "rax") \in Instruction /\ CallC(f) \in Instruction
      BY Registers DEF Instruction, Immediates
    <2> QED
      BY <2>1, <2>2, <2>3 DEF IsCode, AbsCallToFunc
  <1> HIDE DEF s
  <1>3. ASSUME NEW c, NEW o \in Nat, Holds(c, o, s) PROVE Calls(c, o, f)
    <2>1. \A i \in 1 .. 7 : c[o + i] = s[i]
      BY <1>2, <1>3 DEF Holds, IsCode
    <2>2. /\ c[o + 1] = s[1] /\ c[o + 2] = s[2] /\ c[o + 3] = s[3] /\ c[o + 4] = s[4]
          /\ c[o + 5] = s[5] /\ c[o + 6] = s[6] /\ c[o + 7] = s[7]
      BY <2>1
    <2> QED
      BY <1>1, <2>2 DEF Calls
  <1> QED
    BY <1>2, <1>3 DEF s

\* Stub and thunk both begin by calling a C function with an argument between
\* saving and restoring the state of the program.
Frame(arg, f) ==
    SaveProgramState \o <<MovImm(arg, "rdi")>>
        \o AbsCallToFunc(f) \o RestoreProgramState

FrameAt(c, o, arg, f) ==
    /\ Pushes(c, o, 9) /\ c[o + 10] = Plain("pushf")
    /\ c[o + 11] = MovImm(arg, "rdi")
    /\ Calls(c, o + 11, f)
    /\ c[o + 19] = Plain("popf") /\ Pops(c, o + 19, 9)

\* One instruction as code.
LEMMA OneCode ==
    ASSUME NEW i \in Instruction
    PROVE  /\ IsCode(<<i>>, 1)
           /\ \A c : \A o \in Nat : Holds(c, o, <<i>>) => c[o + 1] = i
  <1>1. <<i>> \in Seq(Instruction) /\ Len(<<i>>) = 1 /\ <<i>>[1] = i
    OBVIOUS
  <1> QED
    BY <1>1 DEF IsCode, Holds

LEMMA FrameCode ==
    ASSUME NEW arg \in Immediates, NEW f \in FuncNames
    PROVE  /\ IsCode(Frame(arg, f), 28)
           /\ \A c : \A o \in Nat :
                 Holds(c, o, Frame(arg, f)) => FrameAt(c, o, arg, f)
  <1> DEFINE i  == MovImm(arg, "rdi")
             s1 == SaveProgramState \o <<i>>
             s2 == s1 \o AbsCallToFunc(f)
  <1>1. i \in Instruction
    BY Registers DEF Instruction
  <1>2. Frame(arg, f) = s2 \o RestoreProgramState
    BY DEF Frame
  <1> HIDE DEF i
  <1>3. IsCode(<<i>>, 1)
    BY <1>1, OneCode
  <1>4. IsCode(s1, 11)
    BY <1>3, SaveProgramCode, JoinedCode
  <1> HIDE DEF s1
  <1>5. IsCode(s2, 18)
    BY <1>4, CallCode, JoinedCode
  <1> HIDE DEF s2
  <1>6. IsCode(Frame(arg, f), 28)
    BY <1>2, <1>5, RestoreProgramCode, JoinedCode
  <1>7. ASSUME NEW c, NEW o \in Nat, Holds(c, o, Frame(arg, f))
        PROVE  FrameAt(c, o, arg, f)
    <2>1. Holds(c, o, s2) /\ Holds(c, o + 18, RestoreProgramState)
      BY <1>2, <1>5, <1>7, RestoreProgramCode, JoinedHolds
    <2>2. Holds(c, o, s1 \o AbsCallToFunc(f))
      BY <2>1 DEF s2
    <2>3. Holds(c, o, s1) /\ Holds(c, o + 11, AbsCallToFunc(f))
      BY <1>4, <2>2, CallCode, JoinedHolds
    <2>4. Holds(c, o, SaveProgramState \o <<i>>)
      BY <2>3 DEF s1
    <2>5. Holds(c, o, SaveProgramState) /\ Holds(c, o + 10, <<i>>)
      BY <1>3, <2>4, SaveProgramCode, JoinedHolds
    <2>6. Pushes(c, o, 9) /\ c[o + 10] = Plain("pushf")
      BY <2>5, SaveProgramCode
    <2>7. c[(o + 10) + 1] = i
      BY <1>1, <2>5, OneCode
    <2>8. Calls(c, o + 11, f)
      BY <2>3, CallCode
    <2>9. c[(o + 18) + 1] = Plain("popf") /\ Pops(c, (o + 18) + 1, 9)
      BY <2>1, RestoreProgramCode
    <2>10. (o + 10) + 1 = o + 11 /\ (o + 18) + 1 = o + 19
      OBVIOUS
    <2> QED
      BY <2>6, <2>7, <2>8, <2>9, <2>10 DEF FrameAt, i
  <1> QED
    BY <1>6, <1>7

\* The registers of arguments.
LEMMA ArgumentRegisters ==
    /\ \A i \in 1 .. 6 : X86RegsForFuncArgs[i] \in CallerSaved \ {"rax"}
    /\ \A i, j \in 1 .. 6 : X86RegsForFuncArgs[i] = X86RegsForFuncArgs[j] => i = j
  <1>1. /\ X86RegsForFuncArgs[1] = "rdi" /\ X86RegsForFuncArgs[2] = "rsi"
        /\ X86RegsForFuncArgs[3] = "rdx" /\ X86RegsForFuncArgs[4] = "rcx"
        /\ X86RegsForFuncArgs[5] = "r8" /\ X86RegsForFuncArgs[6] = "r9"
    BY DEF X86RegsForFuncArgs
  <1>2. 1 .. 6 = {1, 2, 3, 4, 5, 6}
    OBVIOUS
  <1> HIDE DEF X86RegsForFuncArgs
  <1> QED
    BY <1>1, <1>2 DEF CallerSaved

LEMMA CallerSavedRegisters == CallerSaved \subseteq GPR \ {"rbp"}
  BY Registers DEF CallerSaved

LEMMA MappedRegisters == \A m \in 0 .. 14 : R(m) \in GPR
  <1>1. 0 .. 14 = {0, 1, 2, 3, 4, 5, 6, 7, 8, 9, 10, 11, 12, 13, 14}
    OBVIOUS
  <1> QED
    BY <1>1, RegisterMap, Registers

NArgs(f) == Len(f.args)

LEMMA ArgCount ==
    ASSUME NEW f \in Functions
    PROVE  NArgs(f) \in 0 .. 6
  <1>1. f.args \in Seq(M68k) /\ NArgs(f) <= 6
    BY FunctionsAssumption DEF NArgs
  <1>2. NArgs(f) \in Nat
    BY <1>1, LenProperties DEF NArgs
  <1> QED
    BY <1>1, <1>2

LEMMA ArgMovesCode ==
    ASSUME NEW f \in Functions, NEW n \in 0 .. 6, n = NArgs(f)
    PROVE  /\ IsCode(ArgMoves(f), n)
           /\ \A i \in 1 .. n : /\ f.args[i] \in 0 .. 13
                                /\ ArgMoves(f)[i] =
                                     Mov(R(f.args[i]), X86RegsForFuncArgs[n - i + 1])
  <1>1. f.args \in Seq(M68k)
    BY FunctionsAssumption
  <1>2. ASSUME NEW i \in 1 .. n PROVE f.args[i] \in 0 .. 13
    <2>1. f.args[i] \in M68k
      BY <1>1, ElementOfSeq DEF NArgs
    <2>2. f.args[i] \notin {14, 15}
      BY RowsAssumption DEF NArgs
    <2> QED
      BY <2>1, <2>2 DEF M68k
  <1>3. ASSUME NEW i \in 1 .. n
        PROVE  Mov(R(f.args[i]), X86RegsForFuncArgs[n - i + 1]) \in Instruction
    <2>0. n - i + 1 \in 1 .. 6
      BY <1>1
    <2>1. f.args[i] \in 0 .. 14
      BY <1>2
    <2>2. R(f.args[i]) \in GPR /\ X86RegsForFuncArgs[n - i + 1] \in GPR
      BY <2>0, <2>1, MappedRegisters, ArgumentRegisters, CallerSavedRegisters
    <2> QED
      BY <2>2 DEF Instruction
  <1>4. ArgMoves(f) \in [1 .. n -> Instruction]
    BY <1>3 DEF ArgMoves, NArgs
  <1>5. IsCode(ArgMoves(f), n)
    BY <1>1, <1>4, FunctionIsSeq DEF IsCode
  <1>6. \A i \in 1 .. n : ArgMoves(f)[i] =
                             Mov(R(f.args[i]), X86RegsForFuncArgs[n - i + 1])
    BY DEF ArgMoves, NArgs
  <1> QED
    BY <1>1, <1>2, <1>5, <1>6

\* The result is moved to the register that has the result's 680x0 register.
LEMMA ResultRegister ==
    ASSUME NEW f \in Functions
    PROVE  /\ X86[f.result + 1] = R(f.result)
           /\ R(f.result) \in {"r8", "r9", "rax", "rcx"}
  <1>1. f.result \in {0, 1, 8, 9}
    BY RowsAssumption
  <1>2. X86[0 + 1] = "r8" /\ X86[1 + 1] = "r9" /\ X86[8 + 1] = "rax" /\ X86[9 + 1] = "rcx"
    BY DEF X86
  <1> HIDE DEF X86
  <1> QED
    BY <1>1, <1>2, RegisterMap

\* What stands in c if it is the code of a call of f, with n arguments.
JsrAt(c, f, n) ==
    /\ c[1] = Push("rsi") /\ c[2] = AddImm("rsi") /\ c[3] = Plain("call")
    /\ FrameAt(c, 3, "p_func_name", "log_func_name")
    /\ Pushes(c, 31, 5)
    /\ \A i \in 1 .. n :
          c[36 + i] = Mov(R(f.args[i]), X86RegsForFuncArgs[n - i + 1])
    /\ Calls(c, 36 + n, f.name)
    /\ c[44 + n] = Mov("rax", R(f.result))
    /\ Pops(c, 44 + n, 5)
    /\ c[50 + n] = Plain("ret")
    /\ c[51 + n] = Pop("rsi")

LEMMA JsrCode ==
    ASSUME NEW f \in Functions, NEW n \in 0 .. 6, n = NArgs(f)
    PROVE  IsCode(Jsr(f), 51 + n) /\ JsrAt(Jsr(f), f, n)
  <1> DEFINE h  == <<Push("rsi"), AddImm("rsi"), Plain("call")>>
             t0 == Frame("p_func_name", "log_func_name")
             t1 == t0 \o SaveAmigaOsRegisters
             t2 == t1 \o ArgMoves(f)
             t3 == t2 \o AbsCallToFunc(f.name)
             t4 == t3 \o <<Mov("rax", X86[f.result + 1])>>
             t5 == t4 \o RestoreAmigaOsRegisters
             t6 == t5 \o <<Plain("ret")>>
             t7 == h \o t6
             c  == Jsr(f)
  <1>0. n \in Nat
    OBVIOUS
  <1>1. c = t7 \o <<Pop("rsi")>>
    BY DEF Jsr, Thunk, Frame
  <1>2. IsCode(h, 3) /\ h[1] = Push("rsi") /\ h[2] = AddImm("rsi") /\ h[3] = Plain("call")
    <2>1. Push("rsi") \in Instruction /\ AddImm("rsi") \in Instruction
          /\ Plain("call") \in Instruction
      BY Registers DEF Instruction
    <2> QED
      BY <2>1 DEF IsCode
  <1> DEFINE m == Mov("rax", X86[f.result + 1])
             r == Plain("ret")
             p6 == Pop("rsi")
  <1>3. m \in Instruction /\ r \in Instruction /\ p6 \in Instruction
    <2>1. R(f.result) \in GPR /\ X86[f.result + 1] = R(f.result) /\ "rax" \in GPR
      BY ResultRegister, Registers
    <2>2. m \in Instruction
      BY <2>1 DEF Instruction
    <2>3. r \in Instruction
      BY DEF Instruction
    <2>4. p6 \in Instruction
      BY Registers DEF Instruction
    <2> QED
      BY <2>2, <2>3, <2>4
  <1>4. m = Mov("rax", R(f.result))
    BY ResultRegister
  <1> HIDE DEF h, m, r, p6
  <1>5. f.name \in FuncNames /\ "log_func_name" \in FuncNames /\ "p_func_name" \in Immediates
    BY DEF FuncNames, Immediates
  <1>6. IsCode(<<m>>, 1) /\ IsCode(<<r>>, 1) /\ IsCode(<<p6>>, 1)
    BY <1>3, OneCode
  <1>7. IsCode(t0, 28)
    BY <1>5, FrameCode
  <1> HIDE DEF t0
  <1>8. IsCode(t1, 33)
    BY <1>7, AmigaOsCode, JoinedCode
  <1> HIDE DEF t1
  <1>9. IsCode(t2, 33 + n)
    BY <1>0, <1>8, ArgMovesCode, JoinedCode
  <1> HIDE DEF t2
  <1>10. IsCode(t3, 40 + n)
    <2>1. IsCode(t3, (33 + n) + 7)
      BY <1>0, <1>5, <1>9, CallCode, JoinedCode
    <2> QED
      BY <1>0, <2>1
  <1> HIDE DEF t3
  <1>11. IsCode(t4, 41 + n)
    <2>1. IsCode(t4, (40 + n) + 1)
      BY <1>0, <1>6, <1>10, JoinedCode DEF m
    <2> QED
      BY <1>0, <2>1
  <1> HIDE DEF t4
  <1>12. IsCode(t5, 46 + n)
    <2>1. IsCode(t5, (41 + n) + 5)
      BY <1>0, <1>11, AmigaOsCode, JoinedCode
    <2> QED
      BY <1>0, <2>1
  <1> HIDE DEF t5
  <1>13. IsCode(t6, 47 + n)
    <2>1. IsCode(t6, (46 + n) + 1)
      BY <1>0, <1>6, <1>12, JoinedCode DEF r
    <2> QED
      BY <1>0, <2>1
  <1> HIDE DEF t6
  <1>14. IsCode(t7, 50 + n)
    <2>1. IsCode(t7, 3 + (47 + n))
      BY <1>0, <1>2, <1>13, JoinedCode
    <2> QED
      BY <1>0, <2>1
  <1> HIDE DEF t7
  <1>15. IsCode(c, 51 + n)
    <2>1. IsCode(c, (50 + n) + 1)
      BY <1>0, <1>1, <1>6, <1>14, JoinedCode DEF p6
    <2> QED
      BY <1>0, <2>1
  <1> HIDE DEF c
  <1>20. Holds(c, 0, c)
    <2>1. \A i \in 1 .. Len(c) : 0 + i = i
      BY <1>0, <1>15 DEF IsCode
    <2> QED
      BY <2>1 DEF Holds
  <1> /\ 50 + n \in Nat /\ 47 + n \in Nat /\ 46 + n \in Nat /\ 41 + n \in Nat
      /\ 40 + n \in Nat /\ 33 + n \in Nat
    BY <1>0
  <1>21. Holds(c, 0, t7) /\ Holds(c, 0 + (50 + n), <<p6>>)
    <2>1. Holds(c, 0, t7 \o <<p6>>)
      BY <1>1, <1>20 DEF p6
    <2> QED
      BY <1>0, <1>6, <1>14, <2>1, JoinedHolds
  <1>22. Holds(c, 0, h) /\ Holds(c, 0 + 3, t6)
    <2>1. Holds(c, 0, h \o t6)
      BY <1>21 DEF t7
    <2> QED
      BY <1>0, <1>2, <1>13, <2>1, JoinedHolds
  <1>23. Holds(c, 3, t5) /\ Holds(c, 3 + (46 + n), <<r>>)
    <2>1. Holds(c, 3, t5 \o <<r>>)
      BY <1>22 DEF t6, r
    <2> QED
      BY <1>0, <1>6, <1>12, <2>1, JoinedHolds
  <1>24. Holds(c, 3, t4) /\ Holds(c, 3 + (41 + n), RestoreAmigaOsRegisters)
    <2>1. Holds(c, 3, t4 \o RestoreAmigaOsRegisters)
      BY <1>23 DEF t5
    <2> QED
      BY <1>0, <1>11, <2>1, AmigaOsCode, JoinedHolds
  <1>25. Holds(c, 3, t3) /\ Holds(c, 3 + (40 + n), <<m>>)
    <2>1. Holds(c, 3, t3 \o <<m>>)
      BY <1>24 DEF t4, m
    <2> QED
      BY <1>0, <1>6, <1>10, <2>1, JoinedHolds
  <1>26. Holds(c, 3, t2) /\ Holds(c, 3 + (33 + n), AbsCallToFunc(f.name))
    <2>1. Holds(c, 3, t2 \o AbsCallToFunc(f.name))
      BY <1>25 DEF t3
    <2> QED
      BY <1>0, <1>5, <1>9, <2>1, CallCode, JoinedHolds
  <1>27. Holds(c, 3, t1) /\ Holds(c, 3 + 33, ArgMoves(f))
    <2>1. Holds(c, 3, t1 \o ArgMoves(f))
      BY <1>26 DEF t2
    <2> QED
      BY <1>0, <1>8, <2>1, ArgMovesCode, JoinedHolds
  <1>28. Holds(c, 3, t0) /\ Holds(c, 3 + 28, SaveAmigaOsRegisters)
    <2>1. Holds(c, 3, t0 \o SaveAmigaOsRegisters)
      BY <1>27 DEF t1
    <2> QED
      BY <1>7, <2>1, AmigaOsCode, JoinedHolds
  <1>30. c[1] = Push("rsi") /\ c[2] = AddImm("rsi") /\ c[3] = Plain("call")
    <2>1. \A i \in 1 .. 3 : c[0 + i] = h[i]
      BY <1>2, <1>22 DEF Holds, IsCode
    <2>2. c[0 + 1] = h[1] /\ c[0 + 2] = h[2] /\ c[0 + 3] = h[3]
      BY <2>1
    <2> QED
      BY <1>2, <2>2
  <1>31. FrameAt(c, 3, "p_func_name", "log_func_name")
    BY <1>5, <1>28, FrameCode DEF t0
  <1>32. Pushes(c, 31, 5)
    <2>1. \A i \in 1 .. 5 : c[(3 + 28) + i] = SaveAmigaOsRegisters[i]
      BY <1>28, AmigaOsCode DEF Holds, IsCode
    <2>2. \A i \in 1 .. 5 : c[31 + i] = Push(Saved[i])
      BY <2>1, AmigaOsCode
    <2> QED
      BY <2>2 DEF Pushes
  <1>33. \A i \in 1 .. n :
            c[36 + i] = Mov(R(f.args[i]), X86RegsForFuncArgs[n - i + 1])
    <2>0. IsCode(ArgMoves(f), n)
      BY ArgMovesCode
    <2>1. \A i \in 1 .. n : c[(3 + 33) + i] = ArgMoves(f)[i]
      BY <1>27, <2>0 DEF Holds, IsCode
    <2> QED
      BY <2>1, ArgMovesCode
  <1>34. Calls(c, 36 + n, f.name)
    <2>1. 3 + (33 + n) = 36 + n /\ 36 + n \in Nat
      BY <1>0
    <2> QED
      BY <1>5, <1>26, <2>1, CallCode
  <1>35. c[44 + n] = m
    <2>1. (3 + (40 + n)) + 1 = 44 + n /\ 3 + (40 + n) \in Nat
      BY <1>0
    <2> QED
      BY <1>3, <1>25, <2>1, OneCode
  <1>36. Pops(c, 44 + n, 5)
    <2>1. 3 + (41 + n) = 44 + n
      BY <1>0
    <2>2. \A i \in 1 .. 5 : c[(44 + n) + i] = RestoreAmigaOsRegisters[i]
      BY <1>24, <2>1, AmigaOsCode DEF Holds, IsCode
    <2>3. \A i \in 1 .. 5 : c[(44 + n) + i] = Pop(Saved[5 + 1 - i])
      BY <2>2, AmigaOsCode
    <2> QED
      BY <2>3 DEF Pops
  <1>37. c[50 + n] = r
    <2>1. (3 + (46 + n)) + 1 = 50 + n /\ 3 + (46 + n) \in Nat
      BY <1>0
    <2> QED
      BY <1>3, <1>23, <2>1, OneCode
  <1>38. c[51 + n] = p6
    <2>1. (0 + (50 + n)) + 1 = 51 + n /\ 0 + (50 + n) \in Nat
      BY <1>0
    <2> QED
      BY <1>3, <1>21, <2>1, OneCode
  <1> QED
    BY <1>0, <1>4, <1>15, <1>30, <1>31, <1>32, <1>33, <1>34, <1>35, <1>36, <1>37,
       <1>38 DEF JsrAt, c, r, p6

LEMMA HoldsItself == ASSUME NEW s, NEW n \in Nat, IsCode(s, n) PROVE Holds(s, 0, s)
  <1>1. \A i \in 1 .. n : 0 + i = i
    OBVIOUS
  <1> QED
    BY <1>1 DEF Holds, IsCode

LEMMA StubCode ==
    IsCode(Stub, 28) /\ FrameAt(Stub, 0, "p_m68k_code", "translate_tu")
  <1>1. "p_m68k_code" \in Immediates /\ "translate_tu" \in FuncNames
    BY DEF Immediates, FuncNames
  <1>2. Stub = Frame("p_m68k_code", "translate_tu")
    BY DEF Stub, Frame
  <1>3. IsCode(Stub, 28)
    BY <1>1, <1>2, FrameCode
  <1>4. Holds(Stub, 0, Frame("p_m68k_code", "translate_tu"))
    BY <1>2, <1>3, HoldsItself
  <1> QED
    BY <1>1, <1>3, <1>4, FrameCode

-----------------------------------------------------------------------------
(* What one instruction does.                                              *)

Typed == /\ reg \in [GPR -> Value] /\ flags \in Value
         /\ stack \in Seq(Value) /\ Len(stack) <= 14

LEMMA TypedFromTypeOK == TypeOK => Typed
  BY DEF TypeOK, Typed, GPR

\* There is an instruction at pc, and it is executed.
Executes(i) == Next /\ Typed /\ pc \in 1 .. Len(code) /\ code[pc] = i

Advances == pc' = pc + 1 /\ what' = what /\ code' = code /\ skew' = skew

StackGrows(v) ==
    /\ Len(stack') = Len(stack) + 1
    /\ \A i \in 1 .. Len(stack) : stack'[i] = stack[i]
    /\ stack'[Len(stack) + 1] = v
StackCutTo(n) ==
    /\ Len(stack') = n
    /\ \A i \in 1 .. n : stack'[i] = stack[i]
RegBecomes(r, v) ==
    /\ reg'[r] = v
    /\ \A x \in GPR \ {r} : reg'[x] = reg[x]

\* Exec is the action for the instruction's operation.
LEMMA OneAction ==
    ASSUME NEW i, Executes(i)
    PROVE  \/ i.op = "push"  /\ ExecPush
           \/ i.op = "pop"   /\ ExecPop
           \/ i.op = "pushf" /\ ExecPushf
           \/ i.op = "popf"  /\ ExecPopf
           \/ i.op = "mov"   /\ ExecMov
           \/ i.op = "movi"  /\ ExecMovImm
           \/ i.op = "add"   /\ ExecAdd
           \/ i.op = "align" /\ ExecAlign
           \/ i.op = "callc" /\ ExecCallC
           \/ i.op = "call"  /\ ExecCall
           \/ i.op = "ret"   /\ ExecRet
  <1>1. Exec
    BY DEF Executes, Next, GoesOn, Finished
  <1>2. \A op : At(op) => i.op = op
    BY DEF Executes, At
  <1>3. ExecPush => i.op = "push"
    BY <1>2 DEF ExecPush
  <1>4. ExecPop => i.op = "pop"
    BY <1>2 DEF ExecPop
  <1>5. ExecPushf => i.op = "pushf"
    BY <1>2 DEF ExecPushf
  <1>6. ExecPopf => i.op = "popf"
    BY <1>2 DEF ExecPopf
  <1>7. ExecMov => i.op = "mov"
    BY <1>2 DEF ExecMov
  <1>8. ExecMovImm => i.op = "movi"
    BY <1>2 DEF ExecMovImm
  <1>9. ExecAdd => i.op = "add"
    BY <1>2 DEF ExecAdd
  <1>10. ExecAlign => i.op = "align"
    BY <1>2 DEF ExecAlign
  <1>11. ExecCallC => i.op = "callc"
    BY <1>2 DEF ExecCallC
  <1>12. ExecCall => i.op = "call"
    BY <1>2 DEF ExecCall
  <1>13. ExecRet => i.op = "ret"
    BY <1>2 DEF ExecRet
  <1> QED
    BY <1>1, <1>3, <1>4, <1>5, <1>6, <1>7, <1>8,
       <1>9, <1>10, <1>11, <1>12, <1>13 DEF Exec

LEMMA Appended ==
    ASSUME Typed, NEW v \in Value, stack' = Append(stack, v)
    PROVE  StackGrows(v) /\ stack' \in Seq(Value)
  BY DEF Typed, StackGrows

LEMMA CutShort ==
    ASSUME Typed, NEW n \in 0 .. Len(stack), stack' = SubSeq(stack, 1, n)
    PROVE  StackCutTo(n) /\ stack' \in Seq(Value)
  <1>1. Len(stack) \in Nat /\ \A i \in 1 .. n : stack[i] \in Value
    BY DEF Typed
  <1>2. /\ SubSeq(stack, 1, n) \in Seq(Value)
        /\ Len(SubSeq(stack, 1, n)) = IF 1 <= n THEN n - 1 + 1 ELSE 0
        /\ \A i \in 1 .. n - 1 + 1 : SubSeq(stack, 1, n)[i] = stack[1 + i - 1]
    BY <1>1, SubSeqProperties
  <1> QED
    BY <1>1, <1>2 DEF StackCutTo

\* The top of the stack is taken.
LEMMA Popped ==
    ASSUME Typed, stack # <<>>, stack' = Front(stack)
    PROVE  /\ Len(stack) \in Nat \ {0} /\ Top \in Value
           /\ StackCutTo(Len(stack) - 1) /\ stack' \in Seq(Value)
  <1>1. Len(stack) \in Nat \ {0} /\ Top \in Value
    BY DEF Typed, Top
  <1>2. Len(stack) - 1 \in 0 .. Len(stack)
    BY <1>1
  <1> QED
    BY <1>1, <1>2, CutShort DEF Front

LEMMA DoPush ==
    ASSUME NEW r \in GPR, Executes(Push(r))
    PROVE  Advances /\ StackGrows(reg[r]) /\ reg' = reg /\ flags' = flags
  <1>1. ExecPush
    BY OneAction DEF Push
  <1>2. I = Push(r) /\ reg[r] \in Value
    BY DEF Executes, I, Typed
  <1>3. stack' = Append(stack, reg[r])
    BY <1>1, <1>2 DEF ExecPush, Push
  <1> QED
    BY <1>1, <1>2, <1>3, Appended DEF Executes, ExecPush, Goes, Advances

LEMMA DoPop ==
    ASSUME NEW r \in GPR, Executes(Pop(r))
    PROVE  /\ Advances /\ Len(stack) \in Nat \ {0}
           /\ StackCutTo(Len(stack) - 1)
           /\ RegBecomes(r, stack[Len(stack)]) /\ flags' = flags
  <1>1. ExecPop
    BY OneAction DEF Pop
  <1>2. I = Pop(r)
    BY DEF Executes, I
  <1>3. reg' = [reg EXCEPT ![r] = stack[Len(stack)]]
    BY <1>1, <1>2 DEF ExecPop, Pop, Top
  <1>4. Len(stack) \in Nat \ {0} /\ StackCutTo(Len(stack) - 1)
    BY <1>1, Popped DEF Executes, ExecPop
  <1>5. RegBecomes(r, stack[Len(stack)])
    BY <1>3 DEF Executes, Typed, RegBecomes
  <1> QED
    BY <1>1, <1>4, <1>5 DEF ExecPop, Goes, Advances

LEMMA DoPushf ==
    ASSUME Executes(Plain("pushf"))
    PROVE  Advances /\ StackGrows(flags) /\ reg' = reg
  <1>1. ExecPushf
    BY OneAction DEF Plain
  <1> QED
    BY <1>1, Appended DEF Executes, Typed, ExecPushf, Goes, Advances

LEMMA DoPopf ==
    ASSUME Executes(Plain("popf"))
    PROVE  /\ Advances /\ Len(stack) \in Nat \ {0}
           /\ StackCutTo(Len(stack) - 1)
           /\ flags' = stack[Len(stack)] /\ reg' = reg
  <1>1. ExecPopf
    BY OneAction DEF Plain
  <1>2. Len(stack) \in Nat \ {0} /\ StackCutTo(Len(stack) - 1)
    BY <1>1, Popped DEF Executes, ExecPopf
  <1> QED
    BY <1>1, <1>2 DEF ExecPopf, Goes, Advances, Top

LEMMA DoMov ==
    ASSUME NEW s \in GPR, NEW d \in GPR, Executes(Mov(s, d))
    PROVE  Advances /\ stack' = stack /\ RegBecomes(d, reg[s]) /\ flags' = flags
  <1>1. ExecMov
    BY OneAction DEF Mov
  <1>2. I = Mov(s, d) /\ s # "rsp" /\ d # "rsp"
    BY DEF Executes, I, GPR
  <1>3. reg' = [reg EXCEPT ![d] = reg[s]] /\ stack' = stack
    BY <1>1, <1>2 DEF ExecMov, Mov
  <1> QED
    BY <1>1, <1>3 DEF ExecMov, Goes, Advances, RegBecomes, Executes, Typed

LEMMA DoMovFromSp ==
    ASSUME Executes(Mov("rsp", "rbp"))
    PROVE  /\ Advances /\ stack' = stack
           /\ RegBecomes("rbp", Position(Len(stack))) /\ flags' = flags
  <1>1. ExecMov
    BY OneAction DEF Mov
  <1>2. I = Mov("rsp", "rbp") /\ "rbp" \in GPR
    BY Registers DEF Executes, I
  <1>3. reg' = [reg EXCEPT !["rbp"] = Position(Len(stack))] /\ stack' = stack
    BY <1>1, <1>2 DEF ExecMov, Mov
  <1> QED
    BY <1>1, <1>2, <1>3 DEF ExecMov, Goes, Advances, RegBecomes, Executes, Typed

LEMMA DoMovToSp ==
    ASSUME NEW n \in Nat, reg["rbp"] = Position(n), n <= Len(stack),
           Executes(Mov("rbp", "rsp"))
    PROVE  Advances /\ StackCutTo(n) /\ reg' = reg /\ flags' = flags
  <1>1. ExecMov
    BY OneAction DEF Mov
  <1>2. I = Mov("rbp", "rsp")
    BY DEF Executes, I
  <1>3. stack' = SubSeq(stack, 1, n) /\ reg' = reg
    BY <1>1, <1>2 DEF ExecMov, Mov, Position
  <1>4. n \in 0 .. Len(stack)
    BY DEF Executes, Typed
  <1>5. StackCutTo(n)
    BY <1>3, <1>4, CutShort DEF Executes
  <1> QED
    BY <1>1, <1>3, <1>5 DEF ExecMov, Goes, Advances

LEMMA DoMovImm ==
    ASSUME NEW v, NEW r \in GPR, Executes(MovImm(v, r))
    PROVE  /\ Advances /\ stack' = stack
           /\ RegBecomes(r, <<"imm", v>>) /\ flags' = flags
  <1>1. ExecMovImm
    BY OneAction DEF MovImm
  <1>2. I = MovImm(v, r)
    BY DEF Executes, I
  <1>3. reg' = [reg EXCEPT ![r] = <<"imm", v>>]
    BY <1>1, <1>2 DEF ExecMovImm, MovImm
  <1> QED
    BY <1>1, <1>3 DEF ExecMovImm, Goes, Advances, RegBecomes, Executes, Typed

LEMMA DoAdd ==
    ASSUME NEW r \in GPR, Executes(AddImm(r))
    PROVE  Advances /\ stack' = stack /\ RegBecomes(r, Left) /\ flags' = Left
  <1>1. ExecAdd
    BY OneAction DEF AddImm
  <1>2. I = AddImm(r)
    BY DEF Executes, I
  <1>3. reg' = [reg EXCEPT ![r] = Left]
    BY <1>1, <1>2 DEF ExecAdd, AddImm
  <1> QED
    BY <1>1, <1>3 DEF ExecAdd, Goes, Advances, RegBecomes, Executes, Typed

\* After the alignment the stack is on a boundary, with a word more or not.
LEMMA DoAlign ==
    ASSUME skew \in {0, 1}, Executes(Plain("align"))
    PROVE  /\ Advances /\ reg' = reg /\ Misaligned' = 0
           /\ Len(stack') \in {Len(stack), Len(stack) + 1}
           /\ \A i \in 1 .. Len(stack) : stack'[i] = stack[i]
  <1>1. ExecAlign
    BY OneAction DEF Plain
  <1>2. Len(stack) \in Nat /\ Left \in Value
    BY DEF Executes, Typed, Value
  <1>3. CASE Misaligned = 0
    <2>1. stack' = stack
      BY <1>1, <1>3 DEF ExecAlign
    <2> QED
      BY <1>1, <1>2, <1>3, <2>1 DEF ExecAlign, Goes, Advances, Misaligned
  <1>4. CASE Misaligned # 0
    <2>1. stack' = Append(stack, Left)
      BY <1>1, <1>4 DEF ExecAlign
    <2>2. StackGrows(Left)
      BY <1>2, <2>1, Appended DEF Executes
    <2>3. skew' = skew /\ Len(stack') = Len(stack) + 1
      BY <1>1, <2>2 DEF ExecAlign, Goes, StackGrows
    <2>4. (Len(stack) + skew) % 2 # 0
      BY <1>4 DEF Misaligned
    <2>5. (Len(stack) + 1 + skew) % 2 = 0
      BY <1>2, <2>4
    <2>6. Misaligned' = 0
      BY <2>3, <2>5 DEF Misaligned
    <2> QED
      BY <1>1, <2>2, <2>3, <2>6 DEF ExecAlign, Goes, Advances, StackGrows
  <1> QED
    BY <1>3, <1>4

LEMMA DoCallC ==
    ASSUME NEW f, Executes(CallC(f))
    PROVE  /\ Advances /\ stack' = stack /\ reg'["rax"] = Result
           /\ \A x \in GPR \ CallerSaved : reg'[x] = reg[x]
  <1>1. ExecCallC
    BY OneAction DEF CallC
  <1>2. PICK changed \in SUBSET (CallerSaved \ {"rax"}) :
          reg' = [r \in DOMAIN reg |-> CASE r = "rax"     -> Result
                                         [] r \in changed -> Left
                                         [] OTHER         -> reg[r]]
    BY <1>1 DEF ExecCallC
  <1>3. DOMAIN reg = GPR /\ "rax" \in GPR /\ "rax" \in CallerSaved
    BY Registers DEF Executes, Typed, CallerSaved
  <1>4. reg'["rax"] = Result
    BY <1>2, <1>3
  <1>5. \A x \in GPR \ CallerSaved : reg'[x] = reg[x]
    BY <1>2, <1>3
  <1> QED
    BY <1>1, <1>4, <1>5 DEF ExecCallC, Goes, Advances

LEMMA DoCall ==
    ASSUME Executes(Plain("call"))
    PROVE  Advances /\ StackGrows(<<"return">>) /\ reg' = reg /\ flags' = flags
  <1>1. ExecCall
    BY OneAction DEF Plain
  <1>2. <<"return">> \in Value
    BY DEF Value
  <1> QED
    BY <1>1, <1>2, Appended DEF Executes, ExecCall, Goes, Advances

LEMMA DoRet ==
    ASSUME Executes(Plain("ret"))
    PROVE  /\ Advances /\ Len(stack) \in Nat \ {0}
           /\ StackCutTo(Len(stack) - 1) /\ reg' = reg
  <1>1. ExecRet
    BY OneAction DEF Plain
  <1>2. Len(stack) \in Nat \ {0} /\ StackCutTo(Len(stack) - 1)
    BY <1>1, Popped DEF Executes, ExecRet
  <1> QED
    BY <1>1, <1>2 DEF ExecRet, Goes, Advances

LEMMA UpTo14 == \A n \in Nat : n <= 14 => n \in 0 .. 14
  OBVIOUS

\* An instruction leaves everything typed, but for the room on the stack.
LEMMA TypedStep ==
    ASSUME NEW i \in Instruction, Executes(i)
    PROVE  reg' \in [GPR -> Value] /\ flags' \in Value /\ stack' \in Seq(Value)
  <1>0. /\ reg \in [GPR -> Value] /\ flags \in Value /\ stack \in Seq(Value)
        /\ Typed /\ I = i /\ Len(stack) \in 0 .. 14
    <2>1. /\ reg \in [GPR -> Value] /\ flags \in Value /\ stack \in Seq(Value)
          /\ Len(stack) <= 14
      BY DEF Executes, Typed
    <2>2. Len(stack) \in Nat
      BY <2>1, LenProperties
    <2>3. Typed /\ I = i
      BY DEF Executes, I
    <2>4. Len(stack) \in 0 .. 14
      BY <2>1, <2>2, UpTo14
    <2> QED
      BY <2>1, <2>3, <2>4
  <1>1. Left \in Value /\ Result \in Value /\ <<"return">> \in Value
    BY DEF Value
  <1>2. \A n \in 0 .. 14 : Position(n) \in Value
    BY DEF Value
  <1>3. \A v \in Immediates : <<"imm", v>> \in Value
    BY DEF Value, Immediates, FuncNames
  <1>4. CASE i.op = "push"
    <2>1. ExecPush /\ i.r \in GPR
      BY <1>4, OneAction DEF Instruction, Push, Pop, Mov, AddImm, MovImm, CallC, Plain
    <2>2. reg[i.r] \in Value
      BY <1>0, <2>1
    <2> QED
      BY <1>0, <2>1, <2>2, Appended DEF ExecPush
  <1>5. CASE i.op = "pop"
    <2>1. ExecPop
      BY <1>5, OneAction
    <2> QED
      BY <1>0, <2>1, Popped DEF ExecPop
  <1>6. CASE i.op = "pushf"
    <2>1. ExecPushf
      BY <1>6, OneAction
    <2> QED
      BY <1>0, <2>1, Appended DEF ExecPushf
  <1>7. CASE i.op = "popf"
    <2>1. ExecPopf
      BY <1>7, OneAction
    <2> QED
      BY <1>0, <2>1, Popped DEF ExecPopf
  <1>8. CASE i.op = "mov"
    <2>1. ExecMov
      BY <1>8, OneAction
    <2>2. CASE i.src \in GPR /\ i.dst \in GPR
      <3>1. i.src # "rsp" /\ i.dst # "rsp" /\ reg[i.src] \in Value
        BY <1>0, <2>2 DEF GPR
      <3> QED
        BY <1>0, <2>1, <3>1 DEF ExecMov
    <2>3. CASE i = Mov("rsp", "rbp")
      <3>1. reg' = [reg EXCEPT !["rbp"] = Position(Len(stack))] /\ stack' = stack
        BY <1>0, <2>1, <2>3 DEF ExecMov, Mov
      <3> QED
        BY <1>0, <1>2, <2>1, <3>1 DEF ExecMov
    <2>4. CASE i = Mov("rbp", "rsp")
      <3>1. PICK n \in 0 .. Len(stack) : reg["rbp"] = Position(n)
        BY <1>0, <2>1, <2>4 DEF ExecMov, Mov
      <3>2. stack' = SubSeq(stack, 1, n) /\ reg' = reg
        BY <1>0, <2>1, <2>4, <3>1 DEF ExecMov, Mov, Position
      <3> QED
        BY <1>0, <2>1, <3>2, CutShort DEF ExecMov
    <2> QED
      BY <1>8, <2>2, <2>3, <2>4
         DEF Instruction, Push, Pop, Mov, AddImm, MovImm, CallC, Plain
  <1>9. CASE i.op = "movi"
    <2>1. ExecMovImm /\ i.v \in Immediates
      BY <1>9, OneAction DEF Instruction, Push, Pop, Mov, AddImm, MovImm, CallC, Plain
    <2> QED
      BY <1>0, <1>3, <2>1 DEF ExecMovImm
  <1>10. CASE i.op = "add"
    <2>1. ExecAdd
      BY <1>10, OneAction
    <2> QED
      BY <1>0, <1>1, <2>1 DEF ExecAdd
  <1>11. CASE i.op = "align"
    <2>1. ExecAlign
      BY <1>11, OneAction
    <2> QED
      BY <1>0, <1>1, <2>1, Appended DEF ExecAlign
  <1>12. CASE i.op = "callc"
    <2>1. ExecCallC
      BY <1>12, OneAction
    <2>2. reg' \in [GPR -> Value]
      <3>1. PICK changed \in SUBSET (CallerSaved \ {"rax"}) :
              reg' = [r \in DOMAIN reg |-> CASE r = "rax"     -> Result
                                             [] r \in changed -> Left
                                             [] OTHER         -> reg[r]]
        BY <2>1 DEF ExecCallC
      <3>2. DOMAIN reg' = GPR /\ \A r \in GPR : reg'[r] \in {Result, Left, reg[r]}
        BY <1>0, <3>1
      <3>3. reg' = [r \in GPR |-> reg'[r]]
        BY <1>0, <3>1
      <3> QED
        BY <1>0, <1>1, <3>2, <3>3
    <2> QED
      BY <1>0, <1>1, <2>1, <2>2 DEF ExecCallC
  <1>13. CASE i.op = "call"
    <2>1. ExecCall
      BY <1>13, OneAction
    <2> QED
      BY <1>0, <1>1, <2>1, Appended DEF ExecCall
  <1>14. CASE i.op = "ret"
    <2>1. ExecRet
      BY <1>14, OneAction
    <2> QED
      BY <1>0, <2>1, Popped DEF ExecRet
  <1> QED
    <2>1. i.op \in {"push", "pop", "pushf", "popf", "mov", "movi", "add", "align",
                    "callc", "call", "ret"}
      BY OneAction
    <2> QED
      BY <1>4, <1>5, <1>6, <1>7, <1>8, <1>9, <1>10, <1>11, <1>12, <1>13, <1>14,
         <2>1

-----------------------------------------------------------------------------
(* Saving and restoring registers.  E gives what the registers and the     *)
(* flags hold on entry, whatever that is, and D how high the stack is.     *)

HasRegs(E, S)       == \A r \in S : reg[r] = E[r]
SavedSlots(E, D, m) == \A i \in 1 .. m : stack[D + i] = E[Saved[i]]

\* What is on the stack below is not touched.
Under(D) == \A i \in 1 .. D : stack'[i] = stack[i]

\* Before the j-th register is pushed.
Saving(E, D, j) ==
    /\ Len(stack) = D + (j - 1)
    /\ SavedSlots(E, D, j - 1)
    /\ HasRegs(E, GPR)

\* Before the d-th one is popped; K are the registers to be as on entry.
Restoring(E, D, K, d) ==
    /\ Len(stack) = D + d
    /\ SavedSlots(E, D, d)
    /\ \A r \in K : reg[r] = E[r] \/ \E i \in 1 .. d : r = Saved[i]

LEMMA PushStep ==
    ASSUME NEW E, NEW D \in Nat, NEW j \in 1 .. 9,
           Saving(E, D, j), Executes(Push(Saved[j]))
    PROVE  Saving(E, D, j + 1)' /\ flags' = flags /\ Advances /\ Under(D)
  <1>1. Saved[j] \in GPR
    BY SavedAre
  <1>2. Advances /\ StackGrows(reg[Saved[j]]) /\ reg' = reg /\ flags' = flags
    BY <1>1, DoPush
  <1>3. Len(stack) = D + (j - 1) /\ Len(stack') = Len(stack) + 1
    BY <1>2 DEF Saving, StackGrows
  <1>4. Len(stack') = D + ((j + 1) - 1) /\ Len(stack) + 1 = D + j
    BY <1>3
  <1>5. \A i \in 1 .. D + (j - 1) : stack'[i] = stack[i]
    BY <1>2, <1>3 DEF StackGrows
  <1>6. stack'[D + j] = E[Saved[j]]
    BY <1>1, <1>2, <1>4 DEF StackGrows, Saving, HasRegs
  <1>7. ASSUME NEW i \in 1 .. j PROVE stack'[D + i] = E[Saved[i]]
    <2>1. CASE i = j
      BY <1>6, <2>1
    <2>2. CASE i # j
      <3>1. i \in 1 .. j - 1 /\ D + i \in 1 .. D + (j - 1)
        BY <2>2
      <3> QED
        BY <1>5, <3>1 DEF Saving, SavedSlots
    <2> QED
      BY <2>1, <2>2
  <1>8. Under(D)
    <2>1. \A i \in 1 .. D : i \in 1 .. D + (j - 1)
      OBVIOUS
    <2> QED
      BY <1>5, <2>1 DEF Under
  <1>9. SavedSlots(E, D, (j + 1) - 1)'
    BY <1>7 DEF SavedSlots
  <1>10. HasRegs(E, GPR)'
    BY <1>2 DEF Saving, HasRegs
  <1> QED
    BY <1>2, <1>4, <1>8, <1>9, <1>10 DEF Saving

LEMMA PopStep ==
    ASSUME NEW E, NEW D \in Nat, NEW K \in SUBSET GPR, NEW d \in 1 .. 9,
           Restoring(E, D, K, d), Executes(Pop(Saved[d]))
    PROVE  /\ Restoring(E, D, K, d - 1)' /\ flags' = flags /\ Advances /\ Under(D)
           /\ \A x \in GPR \ {Saved[d]} : reg'[x] = reg[x]
  <1>1. Saved[d] \in GPR
    BY SavedAre
  <1>2. /\ Advances /\ StackCutTo(Len(stack) - 1)
        /\ RegBecomes(Saved[d], stack[Len(stack)]) /\ flags' = flags
    BY <1>1, DoPop
  <1>3. Len(stack) = D + d
    BY DEF Restoring
  <1>4. Len(stack) - 1 = D + (d - 1)
    BY <1>3
  <1>5. Len(stack') = D + (d - 1) /\ \A i \in 1 .. D + (d - 1) : stack'[i] = stack[i]
    BY <1>2, <1>4 DEF StackCutTo
  <1>6. reg'[Saved[d]] = E[Saved[d]] /\ \A x \in GPR \ {Saved[d]} : reg'[x] = reg[x]
    BY <1>2, <1>3 DEF RegBecomes, Restoring, SavedSlots
  <1>7. ASSUME NEW i \in 1 .. d - 1 PROVE stack'[D + i] = E[Saved[i]]
    <2>1. i \in 1 .. d /\ D + i \in 1 .. D + (d - 1)
      OBVIOUS
    <2> QED
      BY <1>5, <2>1 DEF Restoring, SavedSlots
  <1>8. Under(D)
    <2>1. \A i \in 1 .. D : i \in 1 .. D + (d - 1)
      OBVIOUS
    <2> QED
      BY <1>5, <2>1 DEF Under
  <1>9. ASSUME NEW r \in K
        PROVE  reg'[r] = E[r] \/ \E i \in 1 .. d - 1 : r = Saved[i]
    <2>1. CASE r = Saved[d]
      BY <1>6, <2>1
    <2>2. CASE r # Saved[d] /\ reg[r] = E[r]
      BY <1>6, <2>2
    <2>3. CASE r # Saved[d] /\ \E i \in 1 .. d : r = Saved[i]
      <3>1. PICK i \in 1 .. d : r = Saved[i]
        BY <2>3
      <3>2. i \in 1 .. d - 1
        BY <2>3, <3>1
      <3> QED
        BY <3>1, <3>2
    <2> QED
      BY <2>1, <2>2, <2>3 DEF Restoring
  <1>10. SavedSlots(E, D, d - 1)'
    BY <1>7 DEF SavedSlots
  <1> QED
    BY <1>2, <1>5, <1>6, <1>8, <1>9, <1>10 DEF Restoring

-----------------------------------------------------------------------------
(* A call of a C function: v is in RBP on entry, D how high the stack is.  *)

\* Before the j-th instruction.
Calling(v, D, j) ==
    /\ j \in {1, 8} => Len(stack) = D
    /\ j \in {2, 3, 7} => Len(stack) = D + 1
    /\ j \in {4, 5, 6} => Len(stack) \in {D + 1, D + 2}
    /\ j \in {4, 5} => Misaligned = 0
    /\ j \in 2 .. 7 => stack[D + 1] = v
    /\ j \in {1, 2, 8} => reg["rbp"] = v
    /\ j \in 3 .. 6 => reg["rbp"] = Position(D + 1)

\* Registers that are as before the step.
HasSame(S) == \A r \in S : reg'[r] = reg[r]

\* Registers a C function keeps.
Kept == GPR \ (CallerSaved \cup {"rbp"})

LEMMA CallStep ==
    ASSUME NEW v, NEW D \in Nat, NEW o \in Nat, NEW f, NEW j \in 1 .. 7,
           Calls(code, o, f), pc = o + j, Calling(v, D, j),
           Next, Typed, skew \in {0, 1}, pc \in 1 .. Len(code)
    PROVE  /\ Calling(v, D, j + 1)' /\ Advances /\ Under(D)
           /\ HasSame(Kept)
           /\ j \in 1 .. 4 => HasSame(GPR \ {"rax", "rbp"})
           /\ j = 5 => reg'["rax"] = Result
           /\ j \in {6, 7} => reg'["rax"] = reg["rax"]
  <1>0. /\ "rbp" \in GPR /\ "rax" \in GPR /\ "rax" # "rbp"
        /\ \A r \in Kept : r \in GPR /\ r \notin CallerSaved /\ r # "rbp" /\ r # "rax"
    BY Registers DEF Kept, CallerSaved
  <1>1. CASE j = 1
    <2>1. Executes(Push("rbp")) /\ Len(stack) = D
      BY <1>1 DEF Calls, Executes, Calling
    <2>2. Advances /\ StackGrows(reg["rbp"]) /\ reg' = reg
      BY <1>0, <2>1, DoPush
    <2>3. Len(stack') = D + 1 /\ stack'[D + 1] = v /\ Under(D) /\ reg["rbp"] = v
      BY <1>1, <2>1, <2>2 DEF StackGrows, Calling, Under
    <2>4. Calling(v, D, j + 1)'
      BY <1>1, <2>2, <2>3 DEF Calling
    <2> QED
      BY <1>1, <2>2, <2>3, <2>4 DEF HasSame
  <1>2. CASE j = 2
    <2>1. Executes(Mov("rsp", "rbp")) /\ Len(stack) = D + 1
      BY <1>2 DEF Calls, Executes, Calling
    <2>2. Advances /\ stack' = stack /\ RegBecomes("rbp", Position(Len(stack)))
      BY <2>1, DoMovFromSp
    <2>3. Calling(v, D, j + 1)'
      BY <1>2, <2>1, <2>2 DEF Calling, RegBecomes
    <2> QED
      BY <1>0, <1>2, <2>2, <2>3 DEF HasSame, RegBecomes, Under
  <1>3. CASE j = 3
    <2>1. Executes(Plain("align")) /\ Len(stack) = D + 1
      BY <1>3 DEF Calls, Executes, Calling
    <2>2. /\ Advances /\ reg' = reg /\ Misaligned' = 0
          /\ Len(stack') \in {D + 1, D + 1 + 1}
          /\ \A i \in 1 .. D + 1 : stack'[i] = stack[i]
      BY <2>1, DoAlign
    <2>3. Len(stack') \in {D + 1, D + 2} /\ D + 1 \in 1 .. D + 1
      BY <2>2
    <2>4. Calling(v, D, j + 1)'
      BY <1>3, <2>2, <2>3 DEF Calling
    <2> QED
      BY <1>3, <2>2, <2>4 DEF HasSame, Under
  <1>4. CASE j = 4
    <2>1. Executes(MovImm(f, "rax"))
      BY <1>4 DEF Calls, Executes
    <2>2. Advances /\ stack' = stack /\ RegBecomes("rax", <<"imm", f>>)
      BY <1>0, <2>1, DoMovImm
    <2>3. Misaligned' = Misaligned
      BY <2>2 DEF Misaligned, Advances
    <2>4. Calling(v, D, j + 1)'
      BY <1>0, <1>4, <2>2, <2>3 DEF Calling, RegBecomes
    <2> QED
      BY <1>0, <1>4, <2>2, <2>4 DEF HasSame, RegBecomes, Under
  <1>5. CASE j = 5
    <2>1. Executes(CallC(f))
      BY <1>5 DEF Calls, Executes
    <2>2. /\ Advances /\ stack' = stack /\ reg'["rax"] = Result
          /\ \A x \in GPR \ CallerSaved : reg'[x] = reg[x]
      BY <2>1, DoCallC
    <2>3. reg'["rbp"] = reg["rbp"]
      BY <2>2, CallerSavedRegisters, <1>0
    <2>4. Calling(v, D, j + 1)'
      BY <1>5, <2>2, <2>3 DEF Calling
    <2> QED
      BY <1>0, <1>5, <2>2, <2>4 DEF HasSame, Under
  <1>6. CASE j = 6
    <2>1. /\ Executes(Mov("rbp", "rsp")) /\ reg["rbp"] = Position(D + 1)
          /\ Len(stack) \in {D + 1, D + 2} /\ stack[D + 1] = v
      BY <1>6 DEF Calls, Executes, Calling
    <2>2. Advances /\ StackCutTo(D + 1) /\ reg' = reg
      BY <2>1, DoMovToSp
    <2>3. /\ Len(stack') = D + 1 /\ stack'[D + 1] = v
          /\ \A i \in 1 .. D + 1 : stack'[i] = stack[i]
      BY <2>1, <2>2 DEF StackCutTo
    <2>4. Calling(v, D, j + 1)'
      BY <1>6, <2>3 DEF Calling
    <2> QED
      BY <1>6, <2>2, <2>3, <2>4 DEF HasSame, Under
  <1>7. CASE j = 7
    <2>1. Executes(Pop("rbp")) /\ Len(stack) = D + 1 /\ stack[D + 1] = v
      BY <1>7 DEF Calls, Executes, Calling
    <2>2. Advances /\ StackCutTo(Len(stack) - 1) /\ RegBecomes("rbp", stack[Len(stack)])
      BY <1>0, <2>1, DoPop
    <2>3. Len(stack) - 1 = D
      BY <2>1
    <2>4. Len(stack') = D /\ Under(D) /\ reg'["rbp"] = v
      BY <2>1, <2>2, <2>3 DEF StackCutTo, RegBecomes, Under
    <2>5. Calling(v, D, j + 1)'
      BY <1>7, <2>4 DEF Calling
    <2> QED
      BY <1>0, <1>7, <2>2, <2>4, <2>5 DEF HasSame, RegBecomes
  <1> QED
    BY <1>1, <1>2, <1>3, <1>4, <1>5, <1>6, <1>7

-----------------------------------------------------------------------------
(* The frame: before its k-th instruction.  It calls a C function and      *)
(* leaves registers, flags and stack as they were.                         *)

InFrame(E, B, k) ==
    /\ k \in 1 .. 10 => Saving(E, B, k) /\ flags = E["flags"]
    /\ k \in 11 .. 19 => /\ SavedSlots(E, B, 9) /\ stack[B + 10] = E["flags"]
                         /\ HasRegs(E, Kept)
    /\ k = 11 => Len(stack) = B + 10 /\ reg["rbp"] = E["rbp"]
    /\ k \in 12 .. 19 => Calling(E["rbp"], B + 10, k - 11)
    /\ k \in 20 .. 29 => Restoring(E, B, GPR, 29 - k) /\ flags = E["flags"]

LEMMA FrameStep ==
    ASSUME NEW E, NEW B \in Nat, NEW b \in Nat, NEW arg, NEW f,
           NEW k \in 1 .. 28, pc = b + k, InFrame(E, B, k),
           FrameAt(code, b, arg, f),
           Next, Typed, skew \in {0, 1}, pc \in 1 .. Len(code)
    PROVE  InFrame(E, B, k + 1)' /\ Advances /\ Under(B)
  <1>1. CASE k \in 1 .. 9
    <2>1. Executes(Push(Saved[k])) /\ Saving(E, B, k) /\ flags = E["flags"]
      <3>1. k \in 1 .. 10
        BY <1>1
      <3>2. Saving(E, B, k) /\ flags = E["flags"]
        BY <3>1 DEF InFrame
      <3>3. code[b + k] = Push(Saved[k])
        BY <1>1 DEF FrameAt, Pushes
      <3> QED
        BY <3>2, <3>3 DEF Executes
    <2>2. Saving(E, B, k + 1)' /\ flags' = flags /\ Advances /\ Under(B)
      BY <1>1, <2>1, PushStep
    <2>3. /\ k + 1 \in 1 .. 10 /\ k + 1 \notin 11 .. 19 /\ k + 1 # 11
          /\ k + 1 \notin 12 .. 19 /\ k + 1 \notin 20 .. 29
      BY <1>1
    <2>4. flags' = E["flags"]
      BY <2>1, <2>2
    <2> QED
      BY <2>2, <2>3, <2>4 DEF InFrame
  <1>2. CASE k = 10
    <2>1. Executes(Plain("pushf")) /\ Saving(E, B, 10) /\ flags = E["flags"]
      BY <1>2 DEF Executes, FrameAt, InFrame
    <2>2. Advances /\ StackGrows(flags) /\ reg' = reg
      BY <2>1, DoPushf
    <2>3. Len(stack) = B + 9 /\ B + 9 + 1 = B + 10 /\ 10 - 1 = 9
      BY <2>1 DEF Saving
    <2>4. /\ Len(stack') = B + 10 /\ stack'[B + 10] = E["flags"]
          /\ \A i \in 1 .. B + 9 : stack'[i] = stack[i]
      BY <2>1, <2>2, <2>3 DEF StackGrows
    <2>5. Under(B)
      BY <2>4 DEF Under
    <2>6. SavedSlots(E, B, 9)'
      <3>1. SavedSlots(E, B, 9)
        BY <2>1, <2>3 DEF Saving
      <3>2. \A i \in 1 .. 9 : B + i \in 1 .. B + 9
        OBVIOUS
      <3> QED
        BY <2>4, <3>1, <3>2 DEF SavedSlots
    <2>7. HasRegs(E, GPR)'
      BY <2>1, <2>2 DEF Saving, HasRegs
    <2>8. HasRegs(E, Kept)' /\ reg'["rbp"] = E["rbp"]
      BY <2>7, Registers DEF HasRegs, Kept
    <2> QED
      BY <1>2, <2>2, <2>4, <2>5, <2>6, <2>8 DEF InFrame
  <1>3. CASE k = 11
    <2>1. /\ Executes(MovImm(arg, "rdi")) /\ "rdi" \in GPR
          /\ SavedSlots(E, B, 9) /\ stack[B + 10] = E["flags"] /\ HasRegs(E, Kept)
          /\ Len(stack) = B + 10 /\ reg["rbp"] = E["rbp"]
      BY <1>3, Registers DEF Executes, FrameAt, InFrame
    <2>2. Advances /\ stack' = stack /\ RegBecomes("rdi", <<"imm", arg>>)
      BY <2>1, DoMovImm
    <2>3. reg'["rbp"] = E["rbp"] /\ HasRegs(E, Kept)'
      BY <2>1, <2>2, Registers DEF RegBecomes, HasRegs, Kept, CallerSaved
    <2>4. Calling(E["rbp"], B + 10, 1)'
      BY <2>1, <2>2, <2>3 DEF Calling
    <2>5. SavedSlots(E, B, 9)' /\ Under(B)
      BY <2>1, <2>2 DEF SavedSlots, Under
    <2> QED
      BY <1>3, <2>1, <2>2, <2>3, <2>4, <2>5 DEF InFrame
  <1>4. CASE k \in 12 .. 18
    <2>1. k - 11 \in 1 .. 7 /\ pc = (b + 11) + (k - 11) /\ Calls(code, b + 11, f)
      BY <1>4 DEF FrameAt
    <2>2. /\ SavedSlots(E, B, 9) /\ stack[B + 10] = E["flags"] /\ HasRegs(E, Kept)
          /\ Calling(E["rbp"], B + 10, k - 11)
      BY <1>4 DEF InFrame
    <2>3. /\ Calling(E["rbp"], B + 10, (k - 11) + 1)' /\ Advances
          /\ Under(B + 10) /\ HasSame(Kept)
      <3>1. B + 10 \in Nat /\ b + 11 \in Nat
        OBVIOUS
      <3> QED
        BY <2>1, <2>2, <3>1, CallStep
    <2>4. SavedSlots(E, B, 9)' /\ stack'[B + 10] = E["flags"] /\ Under(B)
      <3>1. \A i \in 1 .. 9 : B + i \in 1 .. B + 10
        OBVIOUS
      <3>2. B + 10 \in 1 .. B + 10 /\ \A i \in 1 .. B : i \in 1 .. B + 10
        OBVIOUS
      <3> QED
        BY <2>2, <2>3, <3>1, <3>2 DEF SavedSlots, Under
    <2>5. HasRegs(E, Kept)'
      BY <2>2, <2>3 DEF HasRegs, HasSame
    <2>6. (k - 11) + 1 = (k + 1) - 11 /\ k + 1 \in 13 .. 19
      BY <1>4
    <2>7. Calling(E["rbp"], B + 10, (k + 1) - 11)'
      BY <2>3, <2>6
    <2>8. /\ k + 1 \notin 1 .. 10 /\ k + 1 # 11 /\ k + 1 \notin 20 .. 29
          /\ k + 1 \in 11 .. 19 /\ k + 1 \in 12 .. 19
      BY <2>6
    <2> QED
      BY <2>3, <2>4, <2>5, <2>7, <2>8 DEF InFrame
  <1>5. CASE k = 19
    <2>1. /\ Executes(Plain("popf"))
          /\ SavedSlots(E, B, 9) /\ stack[B + 10] = E["flags"] /\ HasRegs(E, Kept)
          /\ Calling(E["rbp"], B + 10, 8)
      BY <1>5 DEF Executes, FrameAt, InFrame
    <2>2. Len(stack) = B + 10 /\ reg["rbp"] = E["rbp"]
      BY <2>1 DEF Calling
    <2>3. /\ Advances /\ StackCutTo(Len(stack) - 1)
          /\ flags' = stack[Len(stack)] /\ reg' = reg
      BY <2>1, DoPopf
    <2>4. Len(stack) - 1 = B + 9
      BY <2>2
    <2>5. /\ Len(stack') = B + 9 /\ flags' = E["flags"]
          /\ \A i \in 1 .. B + 9 : stack'[i] = stack[i]
      BY <2>1, <2>2, <2>3, <2>4 DEF StackCutTo
    <2>6. SavedSlots(E, B, 9)' /\ Under(B)
      <3>1. \A i \in 1 .. 9 : B + i \in 1 .. B + 9
        OBVIOUS
      <3>2. \A i \in 1 .. B : i \in 1 .. B + 9
        OBVIOUS
      <3> QED
        BY <2>1, <2>5, <3>1, <3>2 DEF SavedSlots, Under
    <2>7. ASSUME NEW r \in GPR
          PROVE  reg'[r] = E[r] \/ \E i \in 1 .. 9 : r = Saved[i]
      BY <2>1, <2>2, <2>3, SavedAre DEF HasRegs, Kept
    <2>8. Restoring(E, B, GPR, 9)'
      BY <2>5, <2>6, <2>7 DEF Restoring
    <2> QED
      BY <1>5, <2>3, <2>5, <2>6, <2>8 DEF InFrame
  <1>6. CASE k \in 20 .. 28
    <2>1. 29 - k \in 1 .. 9 /\ k - 19 \in 1 .. 9 /\ pc = (b + 19) + (k - 19)
      BY <1>6
    <2>2. Restoring(E, B, GPR, 29 - k) /\ flags = E["flags"]
      BY <1>6 DEF InFrame
    <2>3. code[(b + 19) + (k - 19)] = Pop(Saved[9 + 1 - (k - 19)])
      BY <2>1 DEF FrameAt, Pops
    <2>4. 9 + 1 - (k - 19) = 29 - k /\ (29 - k) - 1 = 29 - (k + 1) /\ k + 1 \in 21 .. 29
      BY <1>6
    <2>5. Executes(Pop(Saved[29 - k]))
      BY <2>1, <2>3, <2>4 DEF Executes
    <2>6. Restoring(E, B, GPR, (29 - k) - 1)' /\ flags' = flags /\ Advances /\ Under(B)
      BY <2>1, <2>2, <2>5, PopStep
    <2> QED
      BY <2>2, <2>4, <2>6 DEF InFrame
  <1> QED
    BY <1>1, <1>2, <1>3, <1>4, <1>5, <1>6

-----------------------------------------------------------------------------
(* The moves of the arguments, before the i-th of n: those before it are   *)
(* where the function expects them, and it and the ones after it still     *)
(* have the value they had on entry.                                       *)

Moving(E, f, n, i) ==
    /\ Len(stack) = 7 /\ reg["rbp"] = E["rbp"]
    /\ \A a \in 1 .. n :
          /\ a < i  => reg[X86RegsForFuncArgs[n - a + 1]] = E[R(f.args[a])]
          /\ a >= i => reg[R(f.args[a])] = E[R(f.args[a])]

ArgsInPlace(E, f, n) ==
    \A a \in 1 .. n : reg[X86RegsForFuncArgs[n - a + 1]] = E[R(f.args[a])]

\* RowsAssumption: a move does not change what a later one needs.
LEMMA MoveStep ==
    ASSUME NEW E, NEW f \in Functions, NEW n \in 0 .. 6, n = NArgs(f),
           NEW i \in 1 .. n, Moving(E, f, n, i),
           Executes(Mov(R(f.args[i]), X86RegsForFuncArgs[n - i + 1]))
    PROVE  /\ Moving(E, f, n, i + 1)' /\ Advances /\ stack' = stack
           /\ HasSame(Kept)
  <1>1. \A a \in 1 .. n : f.args[a] \in 0 .. 14 /\ R(f.args[a]) \in GPR
    BY ArgMovesCode, MappedRegisters
  <1>2. \A a \in 1 .. n : n - a + 1 \in 1 .. 6
    OBVIOUS
  <1> DEFINE X(a) == X86RegsForFuncArgs[n - a + 1]
  <1>3. \A a \in 1 .. n : X(a) \in GPR /\ X(a) \in CallerSaved /\ X(a) # "rbp"
    BY <1>2, ArgumentRegisters, CallerSavedRegisters
  <1>4. \A a \in 1 .. n : a # i => X(a) # X(i)
    <2>1. ASSUME NEW a \in 1 .. n, a # i PROVE X(a) # X(i)
      <3>1. n - a + 1 # n - i + 1
        BY <2>1
      <3> QED
        BY <1>2, <3>1, ArgumentRegisters
    <2> QED
      BY <2>1
  <1>5. \A a \in i + 1 .. n : R(f.args[a]) # X(i)
    BY RowsAssumption DEF NArgs
  <1> HIDE DEF X
  <1>6. /\ Advances /\ stack' = stack
        /\ RegBecomes(X(i), reg[R(f.args[i])])
    BY <1>1, <1>3, DoMov DEF X
  <1>7. reg'[X(i)] = reg[R(f.args[i])] /\ \A x \in GPR : x # X(i) => reg'[x] = reg[x]
    BY <1>6 DEF RegBecomes
  <1>8. /\ Len(stack) = 7 /\ reg["rbp"] = E["rbp"]
        /\ \A a \in 1 .. n : /\ a < i  => reg[X(a)] = E[R(f.args[a])]
                             /\ a >= i => reg[R(f.args[a])] = E[R(f.args[a])]
    BY DEF Moving, X
  <1>9. Len(stack') = 7 /\ reg'["rbp"] = E["rbp"]
    BY <1>3, <1>6, <1>7, <1>8, Registers
  <1>10. ASSUME NEW a \in 1 .. n
         PROVE  /\ a < i + 1  => reg'[X(a)] = E[R(f.args[a])]
                /\ a >= i + 1 => reg'[R(f.args[a])] = E[R(f.args[a])]
    <2>1. CASE a = i
      BY <1>7, <1>8, <2>1
    <2>2. CASE a < i
      <3>1. X(a) \in GPR /\ X(a) # X(i)
        BY <1>3, <1>4, <2>2
      <3> QED
        BY <1>7, <1>8, <2>2, <3>1
    <2>3. CASE a > i
      <3>1. R(f.args[a]) \in GPR /\ a \in i + 1 .. n
        BY <1>1, <2>3
      <3>2. R(f.args[a]) # X(i)
        BY <1>5, <3>1
      <3> QED
        BY <1>7, <1>8, <2>3, <3>1, <3>2
    <2> QED
      BY <2>1, <2>2, <2>3
  <1>11. Moving(E, f, n, i + 1)'
    BY <1>9, <1>10 DEF Moving, X
  <1>12. HasSame(Kept)
    BY <1>3, <1>7 DEF HasSame, Kept
  <1> QED
    BY <1>6, <1>11, <1>12

-----------------------------------------------------------------------------
(* The rest of the thunk, before its k-th instruction: five registers are  *)
(* saved, the arguments moved, the function called, its result moved, and  *)
(* the registers restored.                                                 *)

\* A result is in one of the others.
ResultRegs == {"r8", "r9", "rax", "rcx"}

InTail(E, f, n, k) ==
    /\ k <= 5 => Saving(E, 2, k)
    /\ 6 <= k /\ k <= 13 + n => SavedSlots(E, 2, 5) /\ HasRegs(E, Kept)
    /\ 6 <= k /\ k <= 6 + n => Moving(E, f, n, k - 5)
    /\ 7 + n <= k /\ k <= 13 + n => Calling(E["rbp"], 7, k - (5 + n))
    /\ 7 + n <= k /\ k <= 10 + n => ArgsInPlace(E, f, n)
    /\ 11 + n <= k /\ k <= 13 + n => reg["rax"] = Result
    /\ 14 + n <= k => /\ Restoring(E, 2, GPR \ ResultRegs, (19 + n) - k)
                      /\ reg[R(f.result)] = Result

\* An instruction is executed.
Steps == Next /\ Typed /\ skew \in {0, 1} /\ pc \in 1 .. Len(code)

LEMMA TailSaves ==
    ASSUME NEW E, NEW f \in Functions, NEW n \in 0 .. 6, n = NArgs(f),
           NEW k \in 1 .. 5, pc = 31 + k, InTail(E, f, n, k), JsrAt(code, f, n), Steps
    PROVE  InTail(E, f, n, k + 1)' /\ Advances /\ Under(2)
  <1>1. Saving(E, 2, k)
    BY DEF InTail
  <1>2. Executes(Push(Saved[k]))
    BY DEF Steps, Executes, JsrAt, Pushes
  <1>3. Saving(E, 2, k + 1)' /\ Advances /\ Under(2)
    BY <1>1, <1>2, PushStep
  <1>4. CASE k \in 1 .. 4
    BY <1>3, <1>4 DEF InTail
  <1>5. CASE k = 5
    <2>1. /\ Len(stack') = 2 + (6 - 1) /\ SavedSlots(E, 2, 6 - 1)' /\ HasRegs(E, GPR)'
      BY <1>3, <1>5 DEF Saving
    <2>2. Len(stack') = 7 /\ SavedSlots(E, 2, 5)'
      BY <2>1
    <2>3. HasRegs(E, Kept)' /\ reg'["rbp"] = E["rbp"]
      BY <2>1, Registers DEF HasRegs, Kept
    <2>4. \A a \in 1 .. n : R(f.args[a]) \in GPR
      <3>1. \A a \in 1 .. n : f.args[a] \in 0 .. 14
        <4>1. \A a \in 1 .. n : f.args[a] \in 0 .. 13
          BY ArgMovesCode
        <4> QED
          BY <4>1
      <3> QED
        BY <3>1, MappedRegisters
    <2>5. Moving(E, f, n, 1)'
      BY <2>1, <2>2, <2>3, <2>4 DEF Moving, HasRegs
    <2>6. k + 1 = 6 /\ 6 - 5 = 1
      BY <1>5
    <2>7. InTail(E, f, n, 6)'
      BY <2>2, <2>3, <2>5, <2>6 DEF InTail
    <2> QED
      BY <1>3, <2>6, <2>7
  <1> QED
    BY <1>4, <1>5

LEMMA TailMoves ==
    ASSUME NEW E, NEW f \in Functions, NEW n \in 0 .. 6, n = NArgs(f),
           NEW k \in 6 .. 5 + n, pc = 31 + k, InTail(E, f, n, k), JsrAt(code, f, n), Steps
    PROVE  InTail(E, f, n, k + 1)' /\ Advances /\ Under(2)
  <1>1. k - 5 \in 1 .. n /\ pc = 36 + (k - 5) /\ 6 <= k /\ k <= 6 + n
    OBVIOUS
  <1>2. SavedSlots(E, 2, 5) /\ HasRegs(E, Kept)
    BY <1>1 DEF InTail
  <1>3. Moving(E, f, n, k - 5)
    BY <1>1 DEF InTail
  <1>4. Executes(Mov(R(f.args[k - 5]), X86RegsForFuncArgs[n - (k - 5) + 1]))
    BY <1>1 DEF Steps, Executes, JsrAt
  <1>5. /\ Moving(E, f, n, (k - 5) + 1)' /\ Advances /\ stack' = stack /\ HasSame(Kept)
    BY <1>1, <1>3, <1>4, MoveStep
  <1>6. (k - 5) + 1 = (k + 1) - 5
    OBVIOUS
  <1>7. SavedSlots(E, 2, 5)' /\ HasRegs(E, Kept)' /\ Under(2)
    BY <1>2, <1>5 DEF SavedSlots, HasRegs, HasSame, Under
  <1>8. Moving(E, f, n, (k + 1) - 5)'
    BY <1>5, <1>6
  <1>9. 6 <= k + 1 /\ k + 1 < 7 + n
    OBVIOUS
  <1> QED
    BY <1>5, <1>7, <1>8, <1>9 DEF InTail

LEMMA TailCalls ==
    ASSUME NEW E, NEW f \in Functions, NEW n \in 0 .. 6, n = NArgs(f),
           NEW k \in 6 + n .. 12 + n, pc = 31 + k, InTail(E, f, n, k),
           JsrAt(code, f, n), Steps
    PROVE  InTail(E, f, n, k + 1)' /\ Advances /\ Under(2)
  <1>1. PICK j \in 1 .. 7 : j = k - (5 + n)
    OBVIOUS
  <1>2. /\ pc = (36 + n) + j /\ 36 + n \in Nat /\ k = 5 + n + j
        /\ 6 <= k /\ k <= 12 + n /\ (k + 1) - (5 + n) = j + 1
    BY <1>1
  <1>3. SavedSlots(E, 2, 5) /\ HasRegs(E, Kept)
    BY <1>2 DEF InTail
  <1>4. Calls(code, 36 + n, f.name)
    BY DEF JsrAt
  <1>5. Calling(E["rbp"], 7, j)
    <2>1. CASE j = 1
      <3>1. Moving(E, f, n, k - 5)
        BY <1>2, <2>1 DEF InTail
      <3> QED
        BY <2>1, <3>1 DEF Moving, Calling
    <2>2. CASE j # 1
      BY <1>1, <1>2, <2>2 DEF InTail
    <2> QED
      BY <2>1, <2>2
  <1>6. j \in 1 .. 5 => ArgsInPlace(E, f, n)
    <2>1. CASE j = 1
      <3>1. Moving(E, f, n, k - 5) /\ k - 5 = n + 1
        BY <1>2, <2>1 DEF InTail
      <3>2. \A a \in 1 .. n : a < n + 1
        OBVIOUS
      <3> QED
        BY <3>1, <3>2 DEF Moving, ArgsInPlace
    <2>2. CASE j \in 2 .. 5
      BY <1>2, <2>2 DEF InTail
    <2>3. CASE j \notin 1 .. 5
      BY <2>3
    <2> QED
      BY <1>1, <2>1, <2>2, <2>3
  <1>7. j \in 6 .. 7 => reg["rax"] = Result
    BY <1>2 DEF InTail
  <1>8. /\ Calling(E["rbp"], 7, j + 1)' /\ Advances /\ Under(7) /\ HasSame(Kept)
        /\ j \in 1 .. 4 => HasSame(GPR \ {"rax", "rbp"})
        /\ j = 5 => reg'["rax"] = Result
        /\ j \in {6, 7} => reg'["rax"] = reg["rax"]
    BY <1>1, <1>2, <1>4, <1>5, CallStep DEF Steps
  <1>9. SavedSlots(E, 2, 5)' /\ HasRegs(E, Kept)' /\ Under(2)
    <2>1. /\ \A i \in 1 .. 5 : 2 + i \in 1 .. 7
          /\ \A i \in 1 .. 2 : i \in 1 .. 7
      OBVIOUS
    <2> QED
      BY <1>3, <1>8, <2>1 DEF SavedSlots, HasRegs, HasSame, Under
  <1>10. j \in 1 .. 4 => ArgsInPlace(E, f, n)'
    <2>1. \A a \in 1 .. n : n - a + 1 \in 1 .. 6
      OBVIOUS
    <2>2. \A a \in 1 .. n : X86RegsForFuncArgs[n - a + 1] \in GPR \ {"rax", "rbp"}
      BY <2>1, ArgumentRegisters, CallerSavedRegisters
    <2> QED
      BY <1>6, <1>8, <2>2 DEF ArgsInPlace, HasSame
  <1>11. j \in 5 .. 7 => reg'["rax"] = Result
    BY <1>1, <1>7, <1>8
  <1>12. Calling(E["rbp"], 7, (k + 1) - (5 + n))'
    BY <1>2, <1>8
  <1>13. /\ 7 + n <= k + 1 /\ k + 1 <= 13 + n /\ 6 + n < k + 1
         /\ k + 1 <= 10 + n => j \in 1 .. 4
         /\ 11 + n <= k + 1 => j \in 5 .. 7
    BY <1>2
  <1> QED
    BY <1>8, <1>9, <1>10, <1>11, <1>12, <1>13 DEF InTail

\* The result's register is not one that is restored.
LEMMA TailResult ==
    ASSUME NEW E, NEW f \in Functions, NEW n \in 0 .. 6, n = NArgs(f),
           NEW k, k = 13 + n, pc = 31 + k, InTail(E, f, n, k), JsrAt(code, f, n), Steps
    PROVE  InTail(E, f, n, k + 1)' /\ Advances /\ Under(2)
  <1>1. /\ 6 <= k /\ 7 + n <= k /\ 11 + n <= k /\ k <= 13 + n
        /\ k - (5 + n) = 8 /\ pc = 44 + n
    OBVIOUS
  <1>2. SavedSlots(E, 2, 5) /\ HasRegs(E, Kept) /\ reg["rax"] = Result
    BY <1>1 DEF InTail
  <1>3. Calling(E["rbp"], 7, 8)
    BY <1>1 DEF InTail
  <1>4. Len(stack) = 7 /\ reg["rbp"] = E["rbp"]
    BY <1>3 DEF Calling
  <1>5. R(f.result) \in ResultRegs /\ R(f.result) \in GPR /\ "rax" \in GPR
    BY ResultRegister, Registers DEF ResultRegs
  <1>6. Executes(Mov("rax", R(f.result)))
    BY <1>1 DEF Steps, Executes, JsrAt
  <1>7. Advances /\ stack' = stack /\ RegBecomes(R(f.result), reg["rax"])
    BY <1>5, <1>6, DoMov
  <1>8. /\ Len(stack') = 7 /\ SavedSlots(E, 2, 5)' /\ Under(2)
        /\ reg'[R(f.result)] = Result
    BY <1>2, <1>4, <1>7 DEF SavedSlots, Under, RegBecomes
  <1>9. ASSUME NEW r \in GPR \ ResultRegs
        PROVE  reg'[r] = E[r] \/ \E i \in 1 .. 5 : r = Saved[i]
    <2>1. reg'[r] = reg[r]
      BY <1>5, <1>7 DEF RegBecomes
    <2>2. CASE r \in Kept \/ r = "rbp"
      BY <1>2, <1>4, <2>1, <2>2 DEF HasRegs
    <2>3. CASE r \in CallerSaved
      <3>1. r \in {"r10", "r11", "rdx", "rdi", "rsi"}
        BY <2>3 DEF CallerSaved, ResultRegs
      <3> QED
        BY <3>1, SavedAre
    <2> QED
      BY <2>2, <2>3 DEF Kept
  <1>10. Restoring(E, 2, GPR \ ResultRegs, 5)'
    BY <1>8, <1>9 DEF Restoring
  <1>11. (19 + n) - (k + 1) = 5
    OBVIOUS
  <1>12. Restoring(E, 2, GPR \ ResultRegs, (19 + n) - (k + 1))'
    BY <1>10, <1>11
  <1>13. 5 < k + 1 /\ 13 + n < k + 1
    OBVIOUS
  <1> QED
    BY <1>7, <1>8, <1>12, <1>13 DEF InTail

LEMMA TailRestores ==
    ASSUME NEW E, NEW f \in Functions, NEW n \in 0 .. 6, n = NArgs(f),
           NEW k \in 14 + n .. 18 + n, pc = 31 + k, InTail(E, f, n, k),
           JsrAt(code, f, n), Steps
    PROVE  InTail(E, f, n, k + 1)' /\ Advances /\ Under(2)
  <1>1. PICK d \in 1 .. 5 : d = (19 + n) - k
    OBVIOUS
  <1>2. /\ d \in 1 .. 9 /\ 6 - d \in 1 .. 5 /\ 5 + 1 - (6 - d) = d
        /\ pc = (44 + n) + (6 - d) /\ (19 + n) - (k + 1) = d - 1
        /\ 14 + n <= k
    BY <1>1
  <1>3. Restoring(E, 2, GPR \ ResultRegs, d) /\ reg[R(f.result)] = Result
    BY <1>1, <1>2 DEF InTail
  <1>4. code[(44 + n) + (6 - d)] = Pop(Saved[5 + 1 - (6 - d)])
    BY <1>2 DEF JsrAt, Pops
  <1>5. Executes(Pop(Saved[d]))
    BY <1>2, <1>4 DEF Steps, Executes
  <1>6. /\ Restoring(E, 2, GPR \ ResultRegs, d - 1)' /\ Advances /\ Under(2)
        /\ \A x \in GPR \ {Saved[d]} : reg'[x] = reg[x]
    BY <1>2, <1>3, <1>5, PopStep
  <1>7. reg'[R(f.result)] = Result
    <2>1. Saved[d] \in {"r10", "r11", "rdx", "rdi", "rsi"}
      <3>1. d \in {1, 2, 3, 4, 5}
        OBVIOUS
      <3> QED
        BY <3>1, SavedAre
    <2>2. R(f.result) \in GPR \ {Saved[d]}
      BY <2>1, ResultRegister, Registers
    <2> QED
      BY <1>3, <1>6, <2>2
  <1>8. Restoring(E, 2, GPR \ ResultRegs, (19 + n) - (k + 1))'
    BY <1>2, <1>6
  <1>9. 5 < k + 1 /\ 13 + n < k + 1
    OBVIOUS
  <1> QED
    BY <1>6, <1>7, <1>8, <1>9 DEF InTail

LEMMA TailStep ==
    ASSUME NEW E, NEW f \in Functions, NEW n \in 0 .. 6, n = NArgs(f),
           NEW k \in 1 .. 18 + n, pc = 31 + k, InTail(E, f, n, k),
           JsrAt(code, f, n), Steps
    PROVE  InTail(E, f, n, k + 1)' /\ Advances /\ Under(2)
  <1>1. CASE k \in 1 .. 5
    BY <1>1, TailSaves
  <1>2. CASE k \in 6 .. 5 + n
    BY <1>2, TailMoves
  <1>3. CASE k \in 6 + n .. 12 + n
    BY <1>3, TailCalls
  <1>4. CASE k = 13 + n
    BY <1>4, TailResult
  <1>5. CASE k \in 14 + n .. 18 + n
    BY <1>5, TailRestores
  <1> QED
    BY <1>1, <1>2, <1>3, <1>4, <1>5

-----------------------------------------------------------------------------
(* The inductive invariant: where in its code a stub or a call is, and     *)
(* what it has on the stack and in the registers there.                    *)

GuestRegs == [x \in GPR \cup {"flags"} |-> GuestValue(x)]

\* What a thunk is entered with: the JSR has left its sum in RSI, the guest's A6.
ThunkRegs == [x \in GPR \cup {"flags"} |->
                 IF x \in {"rsi", "flags"} THEN Left ELSE GuestValue(x)]

\* Under what a thunk pushes are the guest's A6 and the return address.
Bottom == stack[1] = GuestValue("rsi") /\ stack[2] = <<"return">>

InStub == \E k \in 1 .. 29 : pc = k /\ InFrame(GuestRegs, 0, k)

InCall(f, n) ==
    \/ pc = 1 /\ Len(stack) = 0 /\ HasRegs(GuestRegs, GPR)
    \/ pc = 2 /\ Len(stack) = 1 /\ stack[1] = GuestValue("rsi")
              /\ HasRegs(GuestRegs, GPR)
    \/ pc = 3 /\ Len(stack) = 1 /\ stack[1] = GuestValue("rsi")
              /\ HasRegs(ThunkRegs, GPR) /\ flags = Left
    \/ \E k \in 1 .. 28 : pc = 3 + k /\ InFrame(ThunkRegs, 2, k) /\ Bottom
    \/ \E k \in 1 .. 19 + n : pc = 31 + k /\ InTail(ThunkRegs, f, n, k) /\ Bottom
    \/ pc = 51 + n /\ Len(stack) = 1 /\ stack[1] = GuestValue("rsi")
                   /\ HasRegs(ThunkRegs, GPR \ ResultRegs)
                   /\ reg[R(f.result)] = Result
    \/ pc = 52 + n /\ Len(stack) = 0 /\ HasRegs(GuestRegs, GPR \ ResultRegs)
                   /\ reg[R(f.result)] = Result

Inv ==
    /\ what \in Functions \cup {StubCall}
    /\ code = IF what = StubCall THEN Stub ELSE Jsr(what)
    /\ reg \in [GPR -> Value] /\ flags \in Value
    /\ stack \in Seq(Value) /\ skew \in {0, 1}
    /\ what = StubCall => InStub
    /\ what # StubCall =>
          \E f \in Functions, n \in 0 .. 6 :
              f = what /\ n = NArgs(f) /\ InCall(f, n)

LEMMA EntryRegs ==
    /\ \A r \in GPR : GuestRegs[r] = GuestValue(r)
    /\ GuestRegs["flags"] = GuestValue("flags")
    /\ \A r \in GPR : r # "rsi" => ThunkRegs[r] = GuestValue(r)
    /\ ThunkRegs["rsi"] = Left /\ ThunkRegs["flags"] = Left
  <1>1. "rsi" \in GPR /\ "flags" \notin GPR
    BY Registers
  <1> QED
    BY <1>1 DEF GuestRegs, ThunkRegs

LEMMA FrameDepth ==
    ASSUME NEW E, NEW B \in Nat, B <= 2, NEW k \in 1 .. 29, InFrame(E, B, k)
    PROVE  Len(stack) <= 14
  <1>1. CASE k \in 1 .. 10
    <2>1. Saving(E, B, k)
      BY <1>1 DEF InFrame
    <2> QED
      BY <1>1, <2>1 DEF Saving
  <1>2. CASE k = 11
    BY <1>2 DEF InFrame
  <1>3. CASE k \in 12 .. 19
    <2>1. k - 11 \in 1 .. 8 /\ Calling(E["rbp"], B + 10, k - 11)
      BY <1>3 DEF InFrame
    <2>2. Len(stack) \in {B + 10, B + 10 + 1, B + 10 + 2}
      BY <2>1 DEF Calling
    <2> QED
      BY <2>2
  <1>4. CASE k \in 20 .. 29
    <2>1. Restoring(E, B, GPR, 29 - k)
      BY <1>4 DEF InFrame
    <2> QED
      BY <1>4, <2>1 DEF Restoring
  <1> QED
    BY <1>1, <1>2, <1>3, <1>4

LEMMA TailDepth ==
    ASSUME NEW E, NEW f, NEW n \in 0 .. 6, NEW k \in 1 .. 19 + n, InTail(E, f, n, k)
    PROVE  Len(stack) <= 14
  <1>1. CASE k <= 5
    <2>1. Saving(E, 2, k)
      BY <1>1 DEF InTail
    <2> QED
      BY <1>1, <2>1 DEF Saving
  <1>2. CASE 6 <= k /\ k <= 6 + n
    <2>1. Moving(E, f, n, k - 5)
      BY <1>2 DEF InTail
    <2>2. Len(stack) = 7
      BY <2>1 DEF Moving
    <2> QED
      BY <2>2
  <1>3. CASE 7 + n <= k /\ k <= 13 + n
    <2>1. PICK j \in 2 .. 8 : j = k - (5 + n)
      BY <1>3
    <2>2. Calling(E["rbp"], 7, j)
      BY <1>3, <2>1 DEF InTail
    <2>3. Len(stack) \in {7, 7 + 1, 7 + 2}
      BY <2>2 DEF Calling
    <2>4. \A x \in {7, 7 + 1, 7 + 2} : x <= 14
      OBVIOUS
    <2> QED
      BY <2>3, <2>4
  <1>4. CASE 14 + n <= k
    <2>1. PICK d \in 0 .. 5 : d = (19 + n) - k
      BY <1>4
    <2>2. Restoring(E, 2, GPR \ ResultRegs, d)
      BY <1>4, <2>1 DEF InTail
    <2> QED
      BY <2>2 DEF Restoring
  <1> QED
    BY <1>1, <1>2, <1>3, <1>4

\* The number of the next instruction and the depth of the stack.
LEMMA InvBounds ==
    ASSUME Inv
    PROVE  /\ pc \in 1 .. Len(code) + 1 /\ Len(stack) <= 14
           /\ code \in Seq(Instruction)
  <1>1. CASE what = StubCall
    <2>1. code \in Seq(Instruction) /\ Len(code) = 28
      BY <1>1, StubCode DEF Inv, IsCode
    <2>2. PICK k \in 1 .. 29 : pc = k /\ InFrame(GuestRegs, 0, k)
      BY <1>1 DEF Inv, InStub
    <2>3. Len(stack) <= 14
      BY <2>2, FrameDepth
    <2>4. pc \in 1 .. 28 + 1
      BY <2>2
    <2> QED
      BY <2>1, <2>3, <2>4
  <1>2. CASE what # StubCall
    <2>1. PICK f \in Functions, n \in 0 .. 6 : f = what /\ n = NArgs(f) /\ InCall(f, n)
      BY <1>2 DEF Inv
    <2>2. code = Jsr(f)
      BY <1>2, <2>1 DEF Inv
    <2>3. code \in Seq(Instruction) /\ Len(code) = 51 + n
      BY <2>1, <2>2, JsrCode DEF IsCode
    <2>4. InCall(f, n)
      BY <2>1
    <2>5. pc \in 1 .. (51 + n) + 1 /\ Len(stack) <= 14
      <3>1. CASE \E k \in 1 .. 28 : pc = 3 + k /\ InFrame(ThunkRegs, 2, k) /\ Bottom
        <4>1. PICK k \in 1 .. 28 : pc = 3 + k /\ InFrame(ThunkRegs, 2, k)
          BY <3>1
        <4>2. Len(stack) <= 14
          BY <4>1, FrameDepth
        <4> QED
          BY <4>1, <4>2
      <3>2. CASE \E k \in 1 .. 19 + n : pc = 31 + k /\ InTail(ThunkRegs, f, n, k) /\ Bottom
        <4>1. PICK k \in 1 .. 19 + n : pc = 31 + k /\ InTail(ThunkRegs, f, n, k)
          BY <3>2
        <4>2. Len(stack) <= 14
          BY <4>1, TailDepth
        <4> QED
          BY <4>1, <4>2
      <3>3. CASE pc \in {1, 2, 3, 51 + n, 52 + n} /\ Len(stack) \in {0, 1}
        BY <3>3
      <3> QED
        BY <2>4, <3>1, <3>2, <3>3 DEF InCall
    <2> QED
      BY <2>3, <2>5
  <1> QED
    BY <1>1, <1>2

LEMMA InvTypes == Inv => TypeOK
  BY InvBounds DEF Inv, TypeOK, GPR

LEMMA InvInitially == Init => Inv
  <1> SUFFICES ASSUME Init PROVE Inv
    OBVIOUS
  <1>1. /\ reg = [r \in GPR |-> GuestValue(r)] /\ flags = GuestValue("flags")
        /\ stack = <<>> /\ pc = 1
    BY DEF Init, GPR
  <1>2. /\ reg \in [GPR -> Value] /\ flags \in Value /\ stack \in Seq(Value)
        /\ Len(stack) = 0
    BY <1>1 DEF Value, GPR
  <1>3. HasRegs(GuestRegs, GPR) /\ flags = GuestRegs["flags"]
    BY <1>1, EntryRegs DEF HasRegs
  <1>4. InFrame(GuestRegs, 0, 1)
    BY <1>2, <1>3 DEF InFrame, Saving, SavedSlots
  <1>5. InStub
    BY <1>1, <1>4 DEF InStub
  <1>6. ASSUME what # StubCall
        PROVE  \E f \in Functions, n \in 0 .. 6 :
                   f = what /\ n = NArgs(f) /\ InCall(f, n)
    <2>1. PICK f \in Functions : f = what
      BY <1>6 DEF Init
    <2>2. PICK n \in 0 .. 6 : n = NArgs(f)
      BY ArgCount
    <2>3. InCall(f, n)
      BY <1>1, <1>2, <1>3 DEF InCall
    <2> QED
      BY <2>1, <2>2, <2>3
  <1> QED
    BY <1>2, <1>5, <1>6 DEF Init, Inv

LEMMA StubStep ==
    ASSUME InStub, Steps, FrameAt(code, 0, "p_m68k_code", "translate_tu"),
           pc # 29
    PROVE  InStub' /\ Advances
  <1>1. PICK k \in 1 .. 28 : pc = k /\ InFrame(GuestRegs, 0, k)
    BY DEF InStub
  <1>2. pc = 0 + k
    BY <1>1
  <1>3. InFrame(GuestRegs, 0, k + 1)' /\ Advances
    BY <1>1, <1>2, FrameStep DEF Steps
  <1>4. k + 1 \in 1 .. 29 /\ pc' = k + 1
    BY <1>1, <1>3 DEF Advances
  <1> QED
    BY <1>3, <1>4 DEF InStub

LEMMA CallEnters ==
    ASSUME NEW f \in Functions, NEW n \in 0 .. 6, n = NArgs(f), JsrAt(code, f, n),
           Steps, InCall(f, n), pc \in {1, 2, 3}
    PROVE  InCall(f, n)' /\ Advances
  <1>0. "rsi" \in GPR
    BY Registers
  <1>1. CASE pc = 1
    <2>1. Executes(Push("rsi")) /\ Len(stack) = 0 /\ HasRegs(GuestRegs, GPR)
      BY <1>1 DEF Executes, Steps, JsrAt, InCall
    <2>2. Advances /\ StackGrows(reg["rsi"]) /\ reg' = reg
      BY <1>0, <2>1, DoPush
    <2>3. Len(stack') = 1 /\ stack'[1] = GuestValue("rsi") /\ HasRegs(GuestRegs, GPR)'
      BY <1>0, <2>1, <2>2, EntryRegs DEF StackGrows, HasRegs
    <2>4. pc' = 2
      BY <1>1, <2>2 DEF Advances
    <2> QED
      BY <2>2, <2>3, <2>4 DEF InCall
  <1>2. CASE pc = 2
    <2>1. /\ Executes(AddImm("rsi")) /\ Len(stack) = 1 /\ stack[1] = GuestValue("rsi")
          /\ HasRegs(GuestRegs, GPR)
      BY <1>2 DEF Executes, Steps, JsrAt, InCall
    <2>2. Advances /\ stack' = stack /\ RegBecomes("rsi", Left) /\ flags' = Left
      BY <1>0, <2>1, DoAdd
    <2>3. HasRegs(ThunkRegs, GPR)'
      BY <2>1, <2>2, EntryRegs DEF HasRegs, RegBecomes
    <2>4. pc' = 3
      BY <1>2, <2>2 DEF Advances
    <2> QED
      BY <2>1, <2>2, <2>3, <2>4 DEF InCall
  <1>3. CASE pc = 3
    <2>1. /\ Executes(Plain("call")) /\ Len(stack) = 1 /\ stack[1] = GuestValue("rsi")
          /\ HasRegs(ThunkRegs, GPR) /\ flags = Left
      BY <1>3 DEF Executes, Steps, JsrAt, InCall
    <2>2. Advances /\ StackGrows(<<"return">>) /\ reg' = reg /\ flags' = flags
      BY <2>1, DoCall
    <2>3. Len(stack') = 2 /\ Bottom'
      BY <2>1, <2>2 DEF StackGrows, Bottom
    <2>4. HasRegs(ThunkRegs, GPR)' /\ flags' = ThunkRegs["flags"]
      BY <2>1, <2>2, EntryRegs DEF HasRegs
    <2>5. InFrame(ThunkRegs, 2, 1)'
      BY <2>3, <2>4 DEF InFrame, Saving, SavedSlots
    <2>6. pc' = 3 + 1
      BY <1>3, <2>2 DEF Advances
    <2>7. (\E k \in 1 .. 28 : pc = 3 + k /\ InFrame(ThunkRegs, 2, k) /\ Bottom)'
      BY <2>3, <2>5, <2>6
    <2> QED
      BY <2>2, <2>7 DEF InCall
  <1> QED
    BY <1>1, <1>2, <1>3

LEMMA CallLogs ==
    ASSUME NEW f \in Functions, NEW n \in 0 .. 6, n = NArgs(f), JsrAt(code, f, n),
           Steps, NEW k \in 1 .. 28, pc = 3 + k, InFrame(ThunkRegs, 2, k), Bottom
    PROVE  InCall(f, n)' /\ Advances
  <1>1. InFrame(ThunkRegs, 2, k + 1)' /\ Advances /\ Under(2)
    <2>1. FrameAt(code, 3, "p_func_name", "log_func_name")
      BY DEF JsrAt
    <2> QED
      BY <2>1, FrameStep DEF Steps
  <1>2. Bottom'
    BY <1>1 DEF Bottom, Under
  <1>3. pc' = 3 + (k + 1)
    BY <1>1 DEF Advances
  <1>4. CASE k # 28
    <2>1. k + 1 \in 1 .. 28
      BY <1>4
    <2>2. (\E x \in 1 .. 28 : pc = 3 + x /\ InFrame(ThunkRegs, 2, x) /\ Bottom)'
      BY <1>1, <1>2, <1>3, <2>1
    <2> QED
      BY <1>1, <2>2 DEF InCall
  <1>5. CASE k = 28
    <2>1. InFrame(ThunkRegs, 2, 29)'
      BY <1>1, <1>5
    <2>2. Restoring(ThunkRegs, 2, GPR, 0)'
      BY <2>1 DEF InFrame
    <2>3. Saving(ThunkRegs, 2, 1)'
      BY <2>2 DEF Restoring, Saving, SavedSlots, HasRegs
    <2>4. InTail(ThunkRegs, f, n, 1)'
      BY <2>3 DEF InTail
    <2>5. pc' = 31 + 1 /\ 1 \in 1 .. 19 + n
      BY <1>3, <1>5
    <2>6. (\E x \in 1 .. 19 + n : pc = 31 + x /\ InTail(ThunkRegs, f, n, x) /\ Bottom)'
      BY <1>2, <2>4, <2>5
    <2> QED
      BY <1>1, <2>6 DEF InCall
  <1> QED
    BY <1>4, <1>5

LEMMA CallCalls ==
    ASSUME NEW f \in Functions, NEW n \in 0 .. 6, n = NArgs(f), JsrAt(code, f, n),
           Steps, NEW k \in 1 .. 18 + n, pc = 31 + k,
           InTail(ThunkRegs, f, n, k), Bottom
    PROVE  InCall(f, n)' /\ Advances
  <1>1. InTail(ThunkRegs, f, n, k + 1)' /\ Advances /\ Under(2)
    BY TailStep
  <1>2. Bottom'
    BY <1>1 DEF Bottom, Under
  <1>3. pc' = 31 + (k + 1) /\ k + 1 \in 1 .. 19 + n
    BY <1>1 DEF Advances
  <1>4. (\E x \in 1 .. 19 + n : pc = 31 + x /\ InTail(ThunkRegs, f, n, x) /\ Bottom)'
    BY <1>1, <1>2, <1>3
  <1> QED
    BY <1>1, <1>4 DEF InCall

LEMMA CallReturns ==
    ASSUME NEW f \in Functions, NEW n \in 0 .. 6, n = NArgs(f), JsrAt(code, f, n),
           Steps, NEW k, k = 19 + n, pc = 31 + k,
           InTail(ThunkRegs, f, n, k), Bottom
    PROVE  InCall(f, n)' /\ Advances
  <1>1. Restoring(ThunkRegs, 2, GPR \ ResultRegs, 0) /\ reg[R(f.result)] = Result
    <2>1. 14 + n <= k /\ (19 + n) - k = 0
      OBVIOUS
    <2> QED
      BY <2>1 DEF InTail
  <1>2. Len(stack) = 2 /\ HasRegs(ThunkRegs, GPR \ ResultRegs)
    BY <1>1 DEF Restoring, HasRegs
  <1>3. Executes(Plain("ret"))
    <2>1. pc = 50 + n
      OBVIOUS
    <2> QED
      BY <2>1 DEF Steps, Executes, JsrAt
  <1>4. Advances /\ StackCutTo(Len(stack) - 1) /\ reg' = reg
    BY <1>3, DoRet
  <1>5. Len(stack') = 1 /\ stack'[1] = GuestValue("rsi")
    BY <1>2, <1>4 DEF StackCutTo, Bottom
  <1>6. pc' = 51 + n
    BY <1>4 DEF Advances
  <1>7. HasRegs(ThunkRegs, GPR \ ResultRegs)' /\ reg'[R(f.result)] = Result
    BY <1>1, <1>2, <1>4 DEF HasRegs
  <1> QED
    BY <1>4, <1>5, <1>6, <1>7 DEF InCall

\* The instruction behind the call takes the guest's A6 back.
LEMMA CallEnds ==
    ASSUME NEW f \in Functions, NEW n \in 0 .. 6, n = NArgs(f), JsrAt(code, f, n),
           Steps, pc = 51 + n, Len(stack) = 1, stack[1] = GuestValue("rsi"),
           HasRegs(ThunkRegs, GPR \ ResultRegs), reg[R(f.result)] = Result
    PROVE  InCall(f, n)' /\ Advances
  <1>1. "rsi" \in GPR /\ R(f.result) \in GPR /\ R(f.result) # "rsi"
    BY ResultRegister, Registers
  <1>2. Executes(Pop("rsi"))
    BY DEF Steps, Executes, JsrAt
  <1>3. /\ Advances /\ StackCutTo(Len(stack) - 1)
        /\ RegBecomes("rsi", stack[Len(stack)])
    BY <1>1, <1>2, DoPop
  <1>4. Len(stack') = 0
    BY <1>3 DEF StackCutTo
  <1>5. reg'["rsi"] = GuestValue("rsi") /\ \A x \in GPR : x # "rsi" => reg'[x] = reg[x]
    BY <1>3 DEF RegBecomes
  <1>6. HasRegs(GuestRegs, GPR \ ResultRegs)'
    BY <1>5, EntryRegs DEF HasRegs
  <1>7. reg'[R(f.result)] = Result
    BY <1>1, <1>5
  <1>8. pc' = 52 + n
    BY <1>3 DEF Advances
  <1> QED
    BY <1>3, <1>4, <1>6, <1>7, <1>8 DEF InCall

LEMMA FunctionStep ==
    ASSUME NEW f \in Functions, NEW n \in 0 .. 6, n = NArgs(f), JsrAt(code, f, n),
           Steps, InCall(f, n), pc # 52 + n
    PROVE  InCall(f, n)' /\ Advances
  <1>1. CASE pc \in {1, 2, 3}
    BY <1>1, CallEnters
  <1>2. CASE \E k \in 1 .. 28 : pc = 3 + k /\ InFrame(ThunkRegs, 2, k) /\ Bottom
    BY <1>2, CallLogs
  <1>3. CASE \E k \in 1 .. 19 + n : pc = 31 + k /\ InTail(ThunkRegs, f, n, k) /\ Bottom
    <2>1. PICK k \in 1 .. 19 + n : pc = 31 + k /\ InTail(ThunkRegs, f, n, k) /\ Bottom
      BY <1>3
    <2>2. CASE k \in 1 .. 18 + n
      BY <2>1, <2>2, CallCalls
    <2>3. CASE k = 19 + n
      BY <2>1, <2>3, CallReturns
    <2> QED
      BY <2>2, <2>3
  <1>4. CASE /\ pc = 51 + n /\ Len(stack) = 1 /\ stack[1] = GuestValue("rsi")
             /\ HasRegs(ThunkRegs, GPR \ ResultRegs) /\ reg[R(f.result)] = Result
    BY <1>4, CallEnds
  <1> QED
    BY <1>1, <1>2, <1>3, <1>4 DEF InCall

\* Behind the last instruction the guest goes on, here by doing nothing.
LEMMA NoInstruction ==
    ASSUME Next, ~(pc <= Len(code)) PROVE UNCHANGED vars
  <1>1. ~Exec
    BY DEF Exec, ExecPush, ExecPop, ExecPushf, ExecPopf, ExecMov, ExecMovImm,
           ExecAdd, ExecAlign, ExecCallC, ExecCall, ExecRet, At
  <1> QED
    BY <1>1 DEF Next, GoesOn

LEMMA InvUnchanged == Inv /\ UNCHANGED vars => Inv'
  <1> SUFFICES ASSUME Inv, UNCHANGED vars PROVE Inv'
    OBVIOUS
  <1>1. \A E, D, j : Saving(E, D, j) => Saving(E, D, j)'
    BY DEF vars, Saving, SavedSlots, HasRegs
  <1>2. \A E, D, K, d : Restoring(E, D, K, d) => Restoring(E, D, K, d)'
    BY DEF vars, Restoring, SavedSlots
  <1>3. \A v, D, j : Calling(v, D, j) => Calling(v, D, j)'
    BY DEF vars, Calling, Misaligned
  <1>4. \A E, S : HasRegs(E, S) => HasRegs(E, S)'
    BY DEF vars, HasRegs
  <1>5. \A E, D, m : SavedSlots(E, D, m) => SavedSlots(E, D, m)'
    BY DEF vars, SavedSlots
  <1>6. \A E, B, k : InFrame(E, B, k) => InFrame(E, B, k)'
    BY <1>1, <1>2, <1>3, <1>4, <1>5 DEF vars, InFrame
  <1>7. \A E, f, n, i : Moving(E, f, n, i) => Moving(E, f, n, i)'
    BY DEF vars, Moving
  <1>8. \A E, f, n : ArgsInPlace(E, f, n) => ArgsInPlace(E, f, n)'
    BY DEF vars, ArgsInPlace
  <1>9. \A E, f, n, k : InTail(E, f, n, k) => InTail(E, f, n, k)'
    BY <1>1, <1>2, <1>3, <1>4, <1>5, <1>7, <1>8 DEF vars, InTail
  <1>10. Bottom => Bottom'
    BY DEF vars, Bottom
  <1>11. InStub => InStub'
    BY <1>6 DEF vars, InStub
  <1>12. \A f, n : InCall(f, n) => InCall(f, n)'
    BY <1>4, <1>6, <1>9, <1>10 DEF vars, InCall
  <1> QED
    BY <1>11, <1>12 DEF vars, Inv

LEMMA InvStep == Inv /\ [Next]_vars => Inv'
  <1> SUFFICES ASSUME Inv, Next PROVE Inv'
    BY InvUnchanged
  <1>0. /\ pc \in 1 .. Len(code) + 1 /\ Len(stack) <= 14
        /\ code \in Seq(Instruction) /\ Typed
    BY InvBounds DEF Inv, Typed
  <1>1. CASE ~(pc <= Len(code))
    BY <1>1, NoInstruction, InvUnchanged
  <1>2. CASE pc <= Len(code)
    <2>1. pc \in 1 .. Len(code) /\ code[pc] \in Instruction
      <3>1. Len(code) \in Nat
        BY <1>0, LenProperties
      <3>2. pc \in 1 .. Len(code)
        BY <1>0, <1>2, <3>1
      <3> QED
        BY <1>0, <3>2, ElementOfSeq
    <2>2. Executes(code[pc]) /\ Steps
      BY <1>0, <2>1 DEF Executes, Steps, Inv
    <2>3. reg' \in [GPR -> Value] /\ flags' \in Value /\ stack' \in Seq(Value)
      BY <2>1, <2>2, TypedStep
    <2>4. CASE what = StubCall
      <3>1. code = Stub /\ InStub
        BY <2>4 DEF Inv
      <3>2. Len(code) = 28 /\ FrameAt(code, 0, "p_m68k_code", "translate_tu")
        BY <3>1, StubCode DEF IsCode
      <3>3. pc # 29
        BY <1>2, <3>2
      <3>4. InStub' /\ Advances
        BY <2>2, <3>1, <3>2, <3>3, StubStep
      <3> QED
        BY <2>3, <2>4, <3>4 DEF Inv, Advances
    <2>5. CASE what # StubCall
      <3>1. PICK f \in Functions, n \in 0 .. 6 :
              f = what /\ n = NArgs(f) /\ InCall(f, n)
        BY <2>5 DEF Inv
      <3>2. code = Jsr(f)
        BY <2>5, <3>1 DEF Inv
      <3>3. Len(code) = 51 + n /\ JsrAt(code, f, n)
        BY <3>1, <3>2, JsrCode DEF IsCode
      <3>4. pc # 52 + n
        BY <1>2, <3>3
      <3>5. InCall(f, n)' /\ Advances
        BY <2>2, <3>1, <3>3, <3>4, FunctionStep
      <3> QED
        BY <2>3, <2>5, <3>1, <3>5 DEF Inv, Advances
    <2> QED
      BY <2>4, <2>5
  <1> QED
    BY <1>1, <1>2

\* Inv is an invariant.
THEOREM InvInvariant == Spec => []Inv
  BY InvInitially, InvStep, PTL DEF Spec

\* Executing the code of a stub or of a call, registers and stack hold what they
\* can, the next instruction is one of the code, and no call takes more than 14
\* places of the guest's stack, however many arguments the function has.
THEOREM TypeCorrect == Spec => []TypeOK
  BY InvInvariant, InvTypes, PTL

-----------------------------------------------------------------------------
(* Where the calls of C functions and the RET are.                         *)

LEMMA CallsOps ==
    ASSUME NEW c, NEW o \in Nat, NEW f, Calls(c, o, f), NEW j \in 1 .. 7
    PROVE  /\ c[o + j].op # "ret"
           /\ c[o + j].op = "callc" => j = 5
  <1>1. j \in {1, 2, 3, 4, 5, 6, 7}
    OBVIOUS
  <1> QED
    BY <1>1 DEF Calls, Push, Pop, Mov, MovImm, CallC, Plain

LEMMA FrameOps ==
    ASSUME NEW c, NEW o \in Nat, NEW arg, NEW f, FrameAt(c, o, arg, f),
           NEW i \in 1 .. 28
    PROVE  /\ c[o + i].op # "ret"
           /\ c[o + i].op = "callc" => i = 16
  <1>1. CASE i \in 1 .. 9
    BY <1>1 DEF FrameAt, Pushes, Push
  <1>2. CASE i \in {10, 11, 19}
    BY <1>2 DEF FrameAt, Plain, MovImm
  <1>3. CASE i \in 12 .. 18
    <2>1. PICK j \in 1 .. 7 : i = 11 + j
      <3>1. i - 11 \in 1 .. 7
        BY <1>3
      <3> QED
        BY <3>1
    <2>2. Calls(c, o + 11, f) /\ o + 11 \in Nat /\ o + i = (o + 11) + j
      BY <2>1 DEF FrameAt
    <2>3. c[(o + 11) + j].op # "ret" /\ (c[(o + 11) + j].op = "callc" => j = 5)
      BY <2>2, CallsOps
    <2> QED
      BY <2>1, <2>2, <2>3
  <1>4. CASE i \in 20 .. 28
    <2>1. PICK j \in 1 .. 9 : i = 19 + j
      <3>1. i - 19 \in 1 .. 9
        BY <1>4
      <3> QED
        BY <3>1
    <2>2. o + i = (o + 19) + j
      BY <2>1
    <2>3. c[(o + 19) + j] = Pop(Saved[9 + 1 - j])
      BY DEF FrameAt, Pops
    <2> QED
      BY <2>2, <2>3 DEF Pop
  <1> QED
    BY <1>1, <1>2, <1>3, <1>4

LEMMA JsrOps ==
    ASSUME NEW c, NEW f, NEW n \in 0 .. 6, JsrAt(c, f, n), NEW i \in 1 .. 51 + n
    PROVE  /\ c[i].op = "ret" => i = 50 + n
           /\ c[i].op = "callc" => i = 19 \/ i = 41 + n
  <1>1. CASE i \in {1, 2, 3, 44 + n, 50 + n, 51 + n}
    BY <1>1 DEF JsrAt, Push, AddImm, Plain, Mov, Pop
  <1>2. CASE i \in 4 .. 31
    <2>1. PICK j \in 1 .. 28 : i = 3 + j
      <3>1. i - 3 \in 1 .. 28
        BY <1>2
      <3> QED
        BY <3>1
    <2>2. c[3 + j].op # "ret" /\ (c[3 + j].op = "callc" => j = 16)
      BY FrameOps DEF JsrAt
    <2> QED
      BY <2>1, <2>2
  <1>3. CASE i \in 32 .. 36
    <2>1. PICK j \in 1 .. 5 : i = 31 + j
      <3>1. i - 31 \in 1 .. 5
        BY <1>3
      <3> QED
        BY <3>1
    <2> QED
      BY <2>1 DEF JsrAt, Pushes, Push
  <1>4. CASE i \in 37 .. 36 + n
    <2>1. PICK j \in 1 .. n : i = 36 + j
      <3>1. i - 36 \in 1 .. n
        BY <1>4
      <3> QED
        BY <3>1
    <2>2. c[36 + j] = Mov(R(f.args[j]), X86RegsForFuncArgs[n - j + 1])
      BY DEF JsrAt
    <2>3. \A s, d : Mov(s, d).op = "mov"
      BY DEF Mov
    <2> QED
      BY <2>1, <2>2, <2>3
  <1>5. CASE i \in 37 + n .. 43 + n
    <2>1. PICK j \in 1 .. 7 : i = (36 + n) + j
      <3>1. i - (36 + n) \in 1 .. 7
        BY <1>5
      <3> QED
        BY <3>1
    <2>2. Calls(c, 36 + n, f.name) /\ 36 + n \in Nat
      BY DEF JsrAt
    <2>3. c[(36 + n) + j].op # "ret" /\ (c[(36 + n) + j].op = "callc" => j = 5)
      BY <2>2, CallsOps
    <2> QED
      BY <2>1, <2>3
  <1>6. CASE i \in 45 + n .. 49 + n
    <2>1. PICK j \in 1 .. 5 : i = (44 + n) + j
      <3>1. i - (44 + n) \in 1 .. 5
        BY <1>6
      <3> QED
        BY <3>1
    <2>2. c[(44 + n) + j] = Pop(Saved[5 + 1 - j])
      BY DEF JsrAt, Pops
    <2> QED
      BY <2>1, <2>2 DEF Pop
  <1> QED
    BY <1>1, <1>2, <1>3, <1>4, <1>5, <1>6

LEMMA WhereInCall ==
    ASSUME NEW f, NEW n \in 0 .. 6, InCall(f, n), NEW p, p = pc
    PROVE  /\ 31 < p /\ p <= 50 + n =>
                 \E k \in 1 .. 19 + n :
                    p = 31 + k /\ InTail(ThunkRegs, f, n, k) /\ Bottom
           /\ 51 + n < p => /\ Len(stack) = 0 /\ HasRegs(GuestRegs, GPR \ ResultRegs)
                            /\ reg[R(f.result)] = Result
  <1>1. CASE p \in {1, 2, 3}
    <2>1. ~(31 < p) /\ ~(51 + n < p)
      BY <1>1
    <2> QED
      BY <2>1
  <1>2. CASE \E k \in 1 .. 28 : p = 3 + k
    <2>1. ~(31 < p) /\ ~(51 + n < p)
      BY <1>2
    <2> QED
      BY <2>1
  <1>3. CASE \E k \in 1 .. 19 + n : p = 31 + k /\ InTail(ThunkRegs, f, n, k) /\ Bottom
    <2>1. ~(51 + n < p)
      BY <1>3
    <2> QED
      BY <1>3, <2>1
  <1>4. CASE p = 51 + n
    <2>1. ~(p <= 50 + n) /\ ~(51 + n < p)
      BY <1>4
    <2> QED
      BY <2>1
  <1>5. CASE /\ p = 52 + n
             /\ Len(stack) = 0 /\ HasRegs(GuestRegs, GPR \ ResultRegs)
             /\ reg[R(f.result)] = Result
    <2>1. ~(p <= 50 + n)
      BY <1>5
    <2> QED
      BY <1>5, <2>1
  <1> QED
    BY <1>1, <1>2, <1>3, <1>4, <1>5 DEF InCall

\* What is true at the call of a C function: where it is, and that the stack is
\* aligned and a library function's arguments are in place.
LEMMA AtCallc ==
    ASSUME Inv, At("callc")
    PROVE  /\ Misaligned = 0
           /\ \/ what = StubCall
              \/ what # StubCall /\ I.f = "log_func_name"
              \/ \E f \in Functions, n \in 0 .. 6 :
                    f = what /\ n = NArgs(f) /\ ArgsInPlace(ThunkRegs, f, n)
  <1>1. pc <= Len(code) /\ code[pc].op = "callc"
    BY DEF At
  <1>2. CASE what = StubCall
    <2>1. code = Stub /\ Len(code) = 28 /\ FrameAt(code, 0, "p_m68k_code", "translate_tu")
      BY <1>2, StubCode DEF Inv, IsCode
    <2>2. PICK k \in 1 .. 29 : pc = k /\ InFrame(GuestRegs, 0, k)
      BY <1>2 DEF Inv, InStub
    <2>3. k \in 1 .. 28
      BY <1>1, <2>1, <2>2
    <2>4. k = 16
      <3>1. 0 + k = pc
        BY <2>2
      <3>2. code[0 + k].op = "callc"
        BY <1>1, <3>1
      <3> QED
        BY <2>1, <2>3, <3>2, FrameOps
    <2>5. Misaligned = 0
      BY <2>2, <2>4 DEF InFrame, Calling
    <2> QED
      BY <1>2, <2>5
  <1>3. CASE what # StubCall
    <2>1. PICK f \in Functions, n \in 0 .. 6 :
            f = what /\ n = NArgs(f) /\ InCall(f, n)
      BY <1>3 DEF Inv
    <2>2. code = Jsr(f)
      BY <1>3, <2>1 DEF Inv
    <2>3. Len(code) = 51 + n /\ JsrAt(code, f, n)
      BY <2>1, <2>2, JsrCode DEF IsCode
    <2>4. pc \in 1 .. 51 + n
      <3>1. pc \in 1 .. (51 + n) + 1
        BY <2>3, InvBounds
      <3> QED
        BY <1>1, <2>3, <3>1
    <2>5. pc = 19 \/ pc = 41 + n
      BY <1>1, <2>3, <2>4, JsrOps
    <2>6. CASE pc = 19
      <3>1. PICK k \in 1 .. 28 : pc = 3 + k /\ InFrame(ThunkRegs, 2, k)
        BY <2>1, <2>6 DEF InCall
      <3>2. k = 16
        BY <2>6, <3>1
      <3>3. Misaligned = 0
        BY <3>1, <3>2 DEF InFrame, Calling
      <3>4. code[3 + 11 + 5] = CallC("log_func_name")
        BY <2>3 DEF JsrAt, FrameAt, Calls
      <3>5. I.f = "log_func_name"
        BY <2>6, <3>4 DEF I, CallC
      <3> QED
        BY <1>3, <3>3, <3>5
    <2>7. CASE pc = 41 + n
      <3>1. PICK k \in 1 .. 19 + n : pc = 31 + k /\ InTail(ThunkRegs, f, n, k)
        <4>1. 31 < pc /\ pc <= 50 + n
          BY <2>7
        <4> QED
          BY <2>1, <4>1, WhereInCall
      <3>2. k = 10 + n /\ k - (5 + n) = 5
        BY <2>7, <3>1
      <3>3. 7 + n <= k /\ k <= 10 + n /\ k <= 13 + n
        BY <3>2
      <3>4. Calling(ThunkRegs["rbp"], 7, 5) /\ ArgsInPlace(ThunkRegs, f, n)
        BY <3>1, <3>2, <3>3 DEF InTail
      <3> QED
        BY <2>1, <3>4 DEF Calling
    <2> QED
      BY <2>5, <2>6, <2>7
  <1> QED
    BY <1>2, <1>3

\* Every C function that a stub or a thunk calls, wherever the guest has its
\* stack, is called with RSP on a 16-byte boundary.
THEOREM CalledAlignedCorrect == Spec => []CalledAligned
  <1>1. Inv => CalledAligned
    BY AtCallc DEF CalledAligned
  <1> QED
    BY <1>1, InvInvariant, PTL

\* A library function finds each argument as the guest had it in the register
\* that the function's row names, for every row that RowsAssumption admits:
\* neither the logging nor the moves of the other arguments have changed it.
THEOREM ArgumentsArriveCorrect == Spec => []ArgumentsArrive
  <1>1. Inv => ArgumentsArrive
    <2> SUFFICES ASSUME Inv, At("callc"), I.f = what.name,
                        NEW i \in 1 .. Len(what.args)
                 PROVE  reg[X86RegsForFuncArgs[i]] =
                          GuestValue(R(what.args[Len(what.args) - i + 1]))
      BY DEF ArgumentsArrive
    <2>1. what # StubCall
      BY DEF StubCall
    <2>2. what \in Functions /\ I.f # "log_func_name"
      BY <2>1, RowsAssumption DEF Inv
    <2>3. PICK f \in Functions, n \in 0 .. 6 :
            f = what /\ n = NArgs(f) /\ ArgsInPlace(ThunkRegs, f, n)
      BY <2>1, <2>2, AtCallc
    <2>4. i \in 1 .. n
      BY <2>3 DEF NArgs
    <2>5. PICK a \in 1 .. n : a = n - i + 1 /\ n - a + 1 = i
      <3>1. n - i + 1 \in 1 .. n /\ n - (n - i + 1) + 1 = i
        BY <2>4
      <3> QED
        BY <3>1
    <2>6. reg[X86RegsForFuncArgs[i]] = ThunkRegs[R(f.args[a])]
      BY <2>3, <2>5 DEF ArgsInPlace
    <2>7. f.args[a] \in 0 .. 13
      BY <2>3, ArgMovesCode
    <2>8. R(f.args[a]) \in GPR /\ R(f.args[a]) # "rsi"
      <3>1. \A m \in 0 .. 13 : m \in 0 .. 14
        OBVIOUS
      <3>2. 0 .. 13 = {0, 1, 2, 3, 4, 5, 6, 7, 8, 9, 10, 11, 12, 13}
        OBVIOUS
      <3>3. \A m \in 0 .. 13 : R(m) # "rsi"
        BY <3>2, RegisterMap
      <3> QED
        BY <2>7, <3>1, <3>3, MappedRegisters
    <2>9. reg[X86RegsForFuncArgs[i]] = GuestValue(R(f.args[a]))
      BY <2>6, <2>8, EntryRegs
    <2> QED
      BY <2>3, <2>5, <2>9 DEF NArgs
  <1> QED
    BY <1>1, InvInvariant, PTL

\* The comment in setup_tu(), proved: when a stub has called translate_tu() and
\* the guest's code goes on, all registers and the flags are as they were.
THEOREM StubTransparentCorrect == Spec => []StubTransparent
  <1>1. Inv => StubTransparent
    <2> SUFFICES ASSUME Inv, pc > Len(code), what = StubCall
                 PROVE  /\ reg = [r \in Register \ {"rsp"} |-> GuestValue(r)]
                        /\ flags = GuestValue("flags")
      BY DEF StubTransparent, Finished
    <2>1. Len(code) = 28
      BY StubCode DEF Inv, IsCode
    <2>2. PICK k \in 1 .. 29 : pc = k /\ InFrame(GuestRegs, 0, k)
      BY DEF Inv, InStub
    <2>3. k = 29
      BY <2>1, <2>2
    <2>4. Restoring(GuestRegs, 0, GPR, 0) /\ flags = GuestRegs["flags"]
      BY <2>2, <2>3 DEF InFrame
    <2>5. \A r \in GPR : reg[r] = GuestValue(r)
      BY <2>4, EntryRegs DEF Restoring
    <2>6. reg = [r \in GPR |-> GuestValue(r)]
      <3>1. reg \in [GPR -> Value]
        BY DEF Inv
      <3> QED
        BY <2>5, <3>1
    <2> QED
      BY <2>4, <2>6, EntryRegs DEF GPR
  <1> QED
    BY <1>1, InvInvariant, PTL

\* After a library call, of whatever function, the guest's stack is as before,
\* D2 to D7 and A2 to A6 have their values, and the result is where the row says.
THEOREM CallKeepsRegistersCorrect == Spec => []CallKeepsRegisters
  <1>1. Inv => CallKeepsRegisters
    <2> SUFFICES ASSUME Inv, pc > Len(code)
                 PROVE  /\ stack = <<>>
                        /\ what # StubCall =>
                             /\ \A m \in 2 .. 7 \cup 10 .. 14 :
                                   reg[R(m)] = GuestValue(R(m))
                             /\ reg[R(what.result)] = Result
      BY DEF CallKeepsRegisters, Finished
    <2>1. CASE what = StubCall
      <3>1. Len(code) = 28
        BY <2>1, StubCode DEF Inv, IsCode
      <3>2. PICK k \in 1 .. 29 : pc = k /\ InFrame(GuestRegs, 0, k)
        BY <2>1 DEF Inv, InStub
      <3>3. k = 29
        BY <3>1, <3>2
      <3>4. Len(stack) = 0
        BY <3>2, <3>3 DEF InFrame, Restoring
      <3>5. stack = <<>>
        BY <3>4, EmptySeq DEF Inv
      <3> QED
        BY <2>1, <3>5
    <2>2. CASE what # StubCall
      <3>1. PICK f \in Functions, n \in 0 .. 6 :
              f = what /\ n = NArgs(f) /\ InCall(f, n)
        BY <2>2 DEF Inv
      <3>2. code = Jsr(f)
        BY <2>2, <3>1 DEF Inv
      <3>3. Len(code) = 51 + n
        BY <3>1, <3>2, JsrCode DEF IsCode
      <3>4. pc > 51 + n
        BY <3>3
      <3>5. /\ Len(stack) = 0 /\ HasRegs(GuestRegs, GPR \ ResultRegs)
            /\ reg[R(f.result)] = Result
        BY <3>1, <3>4, WhereInCall
      <3>6. stack = <<>>
        BY <3>5, EmptySeq DEF Inv
      <3>7. \A m \in 2 .. 7 \cup 10 .. 14 : R(m) \in GPR \ ResultRegs
        <4>1. 2 .. 7 \cup 10 .. 14 = {2, 3, 4, 5, 6, 7, 10, 11, 12, 13, 14}
          OBVIOUS
        <4> QED
          BY <4>1, RegisterMap, Registers DEF ResultRegs
      <3> QED
        BY <3>1, <3>5, <3>6, <3>7, EntryRegs DEF HasRegs
    <2> QED
      BY <2>1, <2>2
  <1> QED
    BY <1>1, InvInvariant, PTL

\* A thunk's RET finds the return address of the JSR on top of the stack, and
\* under it only the guest's A6: it returns to behind the call.
THEOREM ReturnsToCallerCorrect == Spec => []ReturnsToCaller
  <1>1. Inv => ReturnsToCaller
    <2> SUFFICES ASSUME Inv, At("ret")
                 PROVE  stack = <<GuestValue("rsi"), <<"return">>>>
      BY DEF ReturnsToCaller
    <2>1. pc <= Len(code) /\ code[pc].op = "ret"
      BY DEF At
    <2>2. what # StubCall
      <3>1. ASSUME what = StubCall PROVE FALSE
        <4>1. Len(code) = 28 /\ FrameAt(code, 0, "p_m68k_code", "translate_tu")
          BY <3>1, StubCode DEF Inv, IsCode
        <4>2. PICK k \in 1 .. 29 : pc = k
          BY <3>1 DEF Inv, InStub
        <4>3. k \in 1 .. 28 /\ code[0 + k].op = "ret"
          BY <2>1, <4>1, <4>2
        <4> QED
          BY <4>1, <4>3, FrameOps
      <3> QED
        BY <3>1
    <2>3. PICK f \in Functions, n \in 0 .. 6 :
            f = what /\ n = NArgs(f) /\ InCall(f, n)
      BY <2>2 DEF Inv
    <2>4. code = Jsr(f)
      BY <2>2, <2>3 DEF Inv
    <2>5. Len(code) = 51 + n /\ JsrAt(code, f, n)
      BY <2>3, <2>4, JsrCode DEF IsCode
    <2>6. pc = 50 + n
      <3>1. pc \in 1 .. (51 + n) + 1
        BY <2>5, InvBounds
      <3>2. pc \in 1 .. 51 + n
        BY <2>1, <2>5, <3>1
      <3> QED
        BY <2>1, <2>5, <3>2, JsrOps
    <2>7. PICK k \in 1 .. 19 + n : pc = 31 + k /\ InTail(ThunkRegs, f, n, k) /\ Bottom
      <3>1. 31 < pc /\ pc <= 50 + n
        BY <2>6
      <3> QED
        BY <2>3, <3>1, WhereInCall
    <2>8. k = 19 + n /\ 14 + n <= k /\ (19 + n) - k = 0
      BY <2>6, <2>7
    <2>9. Restoring(ThunkRegs, 2, GPR \ ResultRegs, 0)
      BY <2>7, <2>8 DEF InTail
    <2>10. Len(stack) = 2 /\ stack \in Seq(Value)
      BY <2>9 DEF Restoring, Inv
    <2>11. stack = <<stack[1], stack[2]>>
      BY <2>10
    <2> QED
      BY <2>7, <2>11 DEF Bottom
  <1> QED
    BY <1>1, InvInvariant, PTL
=============================================================================
