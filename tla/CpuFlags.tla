------------------------------ MODULE CpuFlags ------------------------------
(***************************************************************************)
(* The lazy condition codes of cpu/m68k.cpp.  An instruction does not      *)
(* compute its flags: it stores its operands and the kind of operation,    *)
(* and the flags are computed from them when something looks.  X has its   *)
(* own kind and operands, because most instructions leave X alone; a       *)
(* pending Z of the bit instructions sits on top of the kind it replaced;  *)
(* conditions are decided from the operands where that is quicker.         *)
(*                                                                         *)
(* A register has Bits bits.  Operands of size "S" (bytes and words, which *)
(* the code treats alike) are sign extended from Short bits, as in the     *)
(* code; "L" is the whole register.  Beside it runs ccr, what the same     *)
(* instructions do to flags that are computed at once.                     *)
(***************************************************************************)
EXTENDS Integers, TLC

CONSTANTS
    Bits, Short,      \* widths of a register and of the shorter operands
    Values,           \* the values that operands take
    Counts,           \* the numbers of bits to shift by, modulo 64 in the code
    MaxLength         \* bound: instructions of the program

ASSUME FlagsAssumption ==
    /\ Bits \in Nat /\ Short \in 1..(Bits - 1) /\ Bits % 2 = 0
    /\ Values \subseteq 0..(2^Bits - 1) /\ Counts \subseteq Nat /\ MaxLength \in Nat

VARIABLES
    kind,        \* LazyFlagKind: <<operation, size>>
    xkind,       \* LazyXFlagKind
    zsaved,      \* LazyFlagZSavedKind
    arg,         \* [src, dst]: LazyFlagArgSrc, LazyFlagArgDst
    xarg,        \* [src, dst]: LazyXFlagArgSrc, LazyXFlagArgDst
    flags,       \* [x, n, z, v, c]: the flags as far as they are computed
    ccr,         \* history: the flags, computed at once
    tainted,     \* history: a pending X was overwritten, and the flags depend on it
    length       \* instructions so far

lazyVars == <<kind, xkind, zsaved, arg, xarg, flags>>
vars == <<lazyVars, ccr, tainted, length>>

Sizes == {"S", "L"}
Default == <<"Default", "L">>
ZSet == <<"ZSet", "L">>
TstL == <<"Tst", "L">>

-----------------------------------------------------------------------------
(* Registers. *)

Modulus == 2^Bits
Width(size) == IF size = "L" THEN Bits ELSE Short
Low(size, v) == v % 2^Width(size)                         \* ui5r_FromUByte ...
Bit(v, i) == (v \div 2^i) % 2 = 1
MSB(v) == Bit(v, Bits - 1)                                \* ui5r_MSBisSet
\* a cast to the size and back
Extend(w, v) == LET u == v % 2^w IN IF Bit(u, w - 1) THEN u + Modulus - 2^w ELSE u
Fit(size, v) == Extend(Width(size), v) % Modulus
Ui5rASR(v, s) == IF MSB(v) THEN Modulus - 1 - ((Modulus - 1 - v) \div 2^s) ELSE v \div 2^s
\* shifting by more than the width is undefined; the processors take the count modulo it
BitUnchecked(v, i) == Bit(v, (i % Modulus) % Bits)
Signed(v) == IF MSB(v) THEN v - Modulus ELSE v
Operands(size) == {Fit(size, v) : v \in Values}

-----------------------------------------------------------------------------
(* NeedDefaultLazyFlags...: the flags of a pending operation. *)

NZ(result) == [n |-> MSB(result), z |-> result = 0]
\* the overflow of a result computed with bits to spare
Over(result0, w) == Bit(result0, w) # Bit(result0, w - 1)
\* carries of a difference, from its signs
Borrow(s, d, result) ==
    LET flgs == MSB(s)  flgo == ~MSB(d)  flgn == MSB(result)
    IN  [v |-> ~(flgn \/ flgs \/ flgo) \/ (flgn /\ flgs /\ flgo),
         c |-> (flgs /\ flgo) \/ (flgn /\ (flgs \/ flgo))]

FlagsTst(d) == NZ(d) @@ [v |-> FALSE, c |-> FALSE]
FlagsCmp(size, s, d) ==
    LET result0 == (d - s) % Modulus
        result1 == (Low(size, d) - Low(size, s)) % Modulus
    IN  NZ(Fit(size, result0)) @@
        (IF size = "S" THEN [v |-> Over(result0, Short), c |-> Bit(result1, Short)]
         ELSE Borrow(s, d, result0))
\* the long sum is made of two halves
FlagsAdd(size, s, d) ==
    LET half == Bits \div 2
        mid == ((d % 2^half) + (s % 2^half)) \div 2^half
        high == Extend(half, d \div 2^half) + Extend(half, s \div 2^half) + mid
    IN  NZ(Fit(size, d + s)) @@
        (IF size = "S"
         THEN [v |-> Over((d + s) % Modulus, Short), c |-> Bit(Low(size, d) + Low(size, s), Short)]
         ELSE [v |-> Over(high % Modulus, half),
               c |-> Bit((d \div 2^half) + (s \div 2^half) + mid, half)])
FlagsNeg(size, d) ==
    LET result == Fit(size, 0 - d)
    IN  NZ(result) @@ [v |-> MSB(d) /\ MSB(result), c |-> MSB(d) \/ MSB(result)]
FlagsAsr(cnt, d) ==
    [n |-> MSB(d), v |-> FALSE, c |-> Bit(d, cnt - 1), z |-> Ui5rASR(d, cnt) = 0]
FlagsAsl(size, cnt, d) ==
    LET last == Fit(size, d * 2^(cnt - 1))
        result == Fit(size, last * 2)
    IN  NZ(result) @@ [c |-> MSB(last), v |-> Ui5rASR(result, cnt) # d]

FlagsOf(k, a) ==
    CASE k[1] = "Tst" -> FlagsTst(a.dst)
      [] k[1] \in {"Cmp", "Sub"} -> FlagsCmp(k[2], a.src, a.dst)
      [] k[1] = "Add" -> FlagsAdd(k[2], a.src, a.dst)
      [] k[1] = "Neg" -> FlagsNeg(k[2], a.dst)
      [] k[1] = "Asr" -> FlagsAsr(a.src, a.dst)
      [] k[1] = "Asl" -> FlagsAsl(k[2], a.src, a.dst)

\* NeedDefaultLazyXFlag...: the shifts read LazyFlagArg, not LazyXFlagArg
LazyX ==
    LET size == xkind[2] IN
    CASE xkind = Default -> flags.x
      [] xkind[1] = "Sub" -> Low(size, xarg.dst) < Low(size, xarg.src)
      [] xkind[1] = "Add" -> Low(size, xarg.dst + xarg.src) < Low(size, xarg.src)
      [] xkind[1] = "Neg" -> 0 < Low(size, xarg.dst)
      [] xkind[1] = "Asr" -> BitUnchecked(arg.dst, arg.src - 1)
      [] xkind[1] = "Asl" -> BitUnchecked(arg.dst, Width(size) - arg.src)

\* NeedDefaultLazyAllFlags: the kinds that set X take it from their carry
EvaluatedKind(k) ==
    IF k = Default THEN [flags EXCEPT !.x = LazyX]
    ELSE LET f == FlagsOf(k, arg)
         IN  [x |-> IF k[1] \in {"Tst", "Cmp"} THEN LazyX ELSE f.c] @@ f
EvaluatedZLost == EvaluatedKind(IF kind = ZSet THEN zsaved ELSE kind)   \* (Mutant)
Evaluated ==
    IF kind = ZSet THEN [EvaluatedKind(zsaved) EXCEPT !.z = flags.z] ELSE EvaluatedKind(kind)

-----------------------------------------------------------------------------
(* cctrue: a condition is decided from the flags, or from the operands, or   *)
(* (cctrue_Dflt) after evaluation.                                           *)

Conditions == {"HI", "LS", "CC", "CS", "NE", "EQ", "VC", "VS", "PL", "MI", "GE", "LT", "GT", "LE"}

ByFlags(cc, f) ==
    CASE cc = "HI" -> ~f.c /\ ~f.z  [] cc = "LS" -> f.c \/ f.z
      [] cc = "CC" -> ~f.c          [] cc = "CS" -> f.c
      [] cc = "NE" -> ~f.z          [] cc = "EQ" -> f.z
      [] cc = "VC" -> ~f.v          [] cc = "VS" -> f.v
      [] cc = "PL" -> ~f.n          [] cc = "MI" -> f.n
      [] cc = "GE" -> f.n = f.v     [] cc = "LT" -> f.n # f.v
      [] cc = "GT" -> ~f.z /\ f.n = f.v
      [] cc = "LE" -> f.z \/ f.n # f.v

\* cctrue_TstL_..., cctrue_CmpB_... and so on
ByOperands(cc, size, s, d) ==
    LET us == Low(size, s)  ud == Low(size, d)
        ss == Signed(Fit(size, s))  sd == Signed(Fit(size, d))
        negative == MSB(Fit(size, d - s))
    IN  CASE cc = "HI" -> ud > us     [] cc = "LS" -> ud <= us
          [] cc = "CC" -> ud >= us    [] cc = "CS" -> ud < us
          [] cc = "NE" -> ud # us     [] cc = "EQ" -> ud = us
          [] cc = "PL" -> ~negative   [] cc = "MI" -> negative
          [] cc = "GE" -> sd >= ss    [] cc = "LT" -> sd < ss
          [] cc = "GT" -> sd > ss     [] cc = "LE" -> sd <= ss

ByShiftOneOff(cc) ==   \* (Mutant)
    LET i == IF kind[1] = "Asr" THEN arg.src ELSE Width(kind[2]) - arg.src - 1
        carry == Bit(arg.dst, i)
        over == Ui5rASR(Fit(kind[2], arg.dst * 2^arg.src), arg.src) # arg.dst
    IN  CASE cc = "CC" -> ~carry  [] cc = "CS" -> carry
          [] cc = "VC" -> ~over   [] cc = "VS" -> over
\* cctrue_Asr_CC, cctrue_AslB_VC and so on
ByShift(cc) ==
    LET size == kind[2]
        carry == IF kind[1] = "Asr" THEN Bit(arg.dst, arg.src - 1)
                 ELSE Bit(arg.dst, Width(size) - arg.src)
        over == Ui5rASR(Fit(size, arg.dst * 2^arg.src), arg.src) # arg.dst
    IN  CASE cc = "CC" -> ~carry  [] cc = "CS" -> carry
          [] cc = "VC" -> ~over   [] cc = "VS" -> over

\* the rows of cctrueDispatch that do not say cctrue_Dflt
Direct(cc) ==
    \/ kind = Default
    \/ kind[1] = "Tst"
    \/ kind[1] \in {"Cmp", "Sub"} /\ cc \notin {"VC", "VS"}
    \/ kind[1] = "Asr" /\ cc \in {"CC", "CS"}
    \/ kind[1] = "Asl" /\ cc \in {"CC", "CS", "VC", "VS"}
    \/ kind = ZSet /\ cc \in {"NE", "EQ"}
Taken(cc, evaluated) ==
    CASE kind = Default \/ (kind = ZSet /\ Direct(cc)) -> ByFlags(cc, flags)
      [] kind[1] = "Tst" /\ cc \in {"VC", "CC"} -> TRUE
      [] kind[1] = "Tst" /\ cc \in {"VS", "CS"} -> FALSE
      [] kind[1] = "Tst" /\ cc \notin {"VC", "VS", "CC", "CS"} -> ByOperands(cc, "L", 0, arg.dst)
      [] kind[1] \in {"Cmp", "Sub"} /\ Direct(cc) -> ByOperands(cc, kind[2], arg.src, arg.dst)
      [] kind[1] \in {"Asr", "Asl"} /\ Direct(cc) -> ByShift(cc)
      [] OTHER -> ByFlags(cc, evaluated)

-----------------------------------------------------------------------------
(* The flags computed at once, as the instructions are defined: of a sum and *)
(* a difference from the numbers, of a shift one bit at a time.              *)

Number(b) == IF b THEN 1 ELSE 0
InRange(size, i) == i \in -(2^(Width(size) - 1))..(2^(Width(size) - 1) - 1)
OfSum(size, s, d, x) ==
    NZ(Fit(size, d + s + x)) @@ [v |-> ~InRange(size, Signed(d) + Signed(s) + x),
                                 c |-> Low(size, d) + Low(size, s) + x >= 2^Width(size)]
OfDifference(size, s, d, x) ==
    NZ(Fit(size, d - s - x)) @@ [v |-> ~InRange(size, Signed(d) - Signed(s) - x),
                                 c |-> Low(size, d) < Low(size, s) + x]
WithX(f) == [x |-> f.c] @@ f
StickyZ(f) == [f EXCEPT !.z = @ /\ ccr.z]

\* one bit of a shift of r, a record of the value, its last bit out, X and overflow
Top(size, v) == Bit(v, Width(size) - 1)
ShiftedOnce(op, size, r) ==
    LET left(in) == Fit(size, (r.val * 2) + Number(in))
        right(in) == Fit(size, (Low(size, r.val) \div 2) + (Number(in) * 2^(Width(size) - 1)))
        Gives(val, out) == [val |-> val, out |-> out, x |-> out, v |-> FALSE]
        low == Bit(r.val, 0)  top == Top(size, r.val)
    IN  CASE op = "Asl" ->
                    [Gives(left(FALSE), top) EXCEPT !.v = r.v \/ MSB(left(FALSE)) # MSB(r.val)]
          [] op = "Lsl" -> Gives(left(FALSE), top)
          [] op = "Asr" -> Gives(right(top), low)
          [] op = "Lsr" -> Gives(right(FALSE), low)
          [] op = "Rol" -> [Gives(left(top), top) EXCEPT !.x = r.x]
          [] op = "Ror" -> [Gives(right(low), low) EXCEPT !.x = r.x]
          [] op = "Rxl" -> Gives(left(r.x), top)
          [] op = "Rxr" -> Gives(right(r.x), low)
OfShift(op, size, cnt, d) ==
    LET start == [val |-> d, out |-> op \in {"Rxl", "Rxr"} /\ ccr.x, x |-> ccr.x, v |-> FALSE]
        after[i \in 0..cnt] == IF i = 0 THEN start ELSE ShiftedOnce(op, size, after[i - 1])
        end == after[cnt]
    IN  NZ(end.val) @@ [x |-> end.x, c |-> end.out, v |-> end.v]

-----------------------------------------------------------------------------
(* Instructions. *)

ShiftKinds == {"Asl", "Asr"}
\* the operands a pending X of a shift is computed from are not its own any more
XLost == xkind[1] \in ShiftKinds /\ arg # xarg

\* the history after an instruction: f at once, and whether all of it is new
AtOnce(f, fresh) ==
    /\ ccr' = f @@ ccr
    /\ tainted' = ((tainted /\ ~fresh) \/ XLost')

\* nothing is pending, and the flags are f
Computed(f) ==
    /\ flags' = f
    /\ kind' = Default /\ xkind' = Default
    /\ UNCHANGED <<zsaved, arg, xarg>>
\* N, Z, V, C are f, and X stays as it is, pending or not
ComputedNZVC(f) ==
    /\ flags' = f @@ flags
    /\ kind' = Default
    /\ UNCHANGED <<xkind, zsaved, arg, xarg>>
Pending(k, a) ==
    /\ kind' = k /\ arg' = a
    /\ UNCHANGED <<xkind, zsaved, xarg, flags>>
PendingX(k, a, xa) ==
    /\ kind' = k /\ arg' = a
    /\ xkind' = k /\ xarg' = xa
    /\ UNCHANGED <<zsaved, flags>>

\* Move, Tst, And, Or, Clr, Swap, Ext, Mul ...
SetTst(v) == Pending(TstL, [arg EXCEPT !.dst = v])
Test(v) == SetTst(v) /\ AtOnce(FlagsTst(v), FALSE)

Compare(size, s, d) ==
    /\ Pending(<<"Cmp", size>>, [src |-> s, dst |-> d])
    /\ AtOnce(OfDifference(size, s, d, 0), FALSE)

Add(size, s, d) ==
    LET a == [src |-> s, dst |-> d] IN
    /\ PendingX(<<"Add", size>>, a, a)
    /\ AtOnce(WithX(OfSum(size, s, d, 0)), TRUE)
Sub(size, s, d) ==
    LET a == [src |-> s, dst |-> d] IN
    /\ PendingX(<<"Sub", size>>, a, a)
    /\ AtOnce(WithX(OfDifference(size, s, d, 0)), TRUE)
Neg(size, d) ==
    /\ PendingX(<<"Neg", size>>, [arg EXCEPT !.dst = d], [xarg EXCEPT !.dst = d])
    /\ AtOnce(WithX(OfDifference(size, d, 0, 0)), TRUE)

\* shifts of all the bits, or more
AllFlags(x, n, z, v) == [x |-> x, n |-> n, z |-> z, v |-> v, c |-> x]
AslOver(size, cnt, d) == AllFlags(cnt = Width(size) /\ Bit(d, 0), FALSE, TRUE, d # 0)
LslOver(size, cnt, d) == AllFlags(cnt = Width(size) /\ Bit(d, 0), FALSE, TRUE, FALSE)
AsrOver(d) == AllFlags(MSB(d), MSB(d), ~MSB(d), FALSE)

Shift(op, size, cnt, d) ==
    LET w == Width(size)
        a == [src |-> cnt, dst |-> d]
        low == Low(size, d)
    IN  /\ CASE cnt = 0 -> SetTst(d)
             [] cnt > 0 /\ op = "Asl" ->
                    IF cnt >= w THEN Computed(AslOver(size, cnt, d))
                    ELSE PendingX(<<op, size>>, a, a)
             [] cnt > 0 /\ op = "Asr" ->
                    IF cnt >= w THEN Computed(AsrOver(d)) ELSE PendingX(<<op, size>>, a, a)
             [] cnt > 0 /\ op = "Lsl" ->
                    IF cnt >= w THEN Computed(LslOver(size, cnt, d))
                    ELSE LET r == Fit(size, d * 2^cnt)
                         IN  Computed(AllFlags(Bit(d, w - cnt), MSB(r), r = 0, FALSE))
             [] cnt > 0 /\ op = "Lsr" ->
                    IF cnt > Bits THEN Computed(AllFlags(FALSE, FALSE, TRUE, FALSE))
                    ELSE Computed(AllFlags(Bit(low, cnt - 1), FALSE, low \div 2^cnt = 0, FALSE))
        /\ AtOnce(OfShift(op, size, cnt, d), cnt > 0)

Rotate(op, size, cnt, d) ==
    LET w == Width(size)
        low == Low(size, d)
        k == IF op = "Rol" THEN cnt % w ELSE (w - (cnt % w)) % w
        r == Fit(size, (low * 2^k) + (low \div 2^(w - k)))
    IN  /\ IF cnt = 0 THEN SetTst(d)
           ELSE ComputedNZVC(NZ(r) @@ [v |-> FALSE, c |-> IF op = "Rol" THEN Bit(r, 0) ELSE MSB(r)])
        /\ AtOnce(OfShift(op, size, cnt, d), FALSE)

RotateX(op, size, cnt, d) ==
    LET w == Width(size)
        start == [val |-> d, x |-> Evaluated.x]
        Once(r) ==
            IF op = "Rxl"
            THEN [val |-> Fit(size, (r.val * 2) + Number(r.x)), x |-> MSB(r.val)]
            ELSE [val |-> Fit(size, (Low(size, r.val) \div 2) + (Number(r.x) * 2^(w - 1))),
                  x |-> Bit(r.val, 0)]
        turn[i \in 0..cnt] == IF i = 0 THEN start ELSE Once(turn[i - 1])
        end == turn[cnt]
    IN  /\ Computed(AllFlags(end.x, MSB(end.val), end.val = 0, FALSE))
        /\ AtOnce(OfShift(op, size, cnt, d), FALSE)

\* AddX, SubX and NegX.  The long ones have a short cut after an operation of
\* their own kind, which computes only Z and X
Entering(op, size) ==
    LET r == (arg.dst + arg.src) % Modulus IN
    IF size = "L" /\ op \in {"Add", "Sub"} /\ kind = <<op, "L">>
    THEN [flags EXCEPT !.z = IF op = "Add" THEN r = 0 ELSE arg.dst = arg.src,
                       !.x = IF op = "Add" THEN r < arg.src ELSE arg.dst < arg.src]
    ELSE Evaluated

\* SetCCRforAddX, SetCCRforSubX, SetCCRforNegX
CarriesOfSum(s, d, r) ==
    LET p == ~MSB(r) IN
    [v |-> ~(p \/ MSB(s) \/ MSB(d)) \/ (p /\ MSB(s) /\ MSB(d)),
     c |-> (MSB(s) /\ MSB(d)) \/ (p /\ (MSB(s) \/ MSB(d)))]
Extended(op, size, s, d) ==
    LET before == Entering(op, size)
        x == Number(before.x)
        r == CASE op = "Add" -> Fit(size, x + d + s)
               [] op = "Sub" -> Fit(size, d - s - x)
               [] op = "Neg" -> Fit(size, 0 - (x + d))
        carries == CASE op = "Add" -> CarriesOfSum(s, d, r)
                     [] op = "Sub" -> Borrow(s, d, r)
                     [] op = "Neg" -> [v |-> MSB(d) /\ MSB(r), c |-> MSB(d) \/ MSB(r)]
        ref == CASE op = "Add" -> OfSum(size, s, d, Number(ccr.x))
                 [] op = "Sub" -> OfDifference(size, s, d, Number(ccr.x))
                 [] op = "Neg" -> OfDifference(size, d, 0, Number(ccr.x))
    IN  /\ Computed(AllFlags(carries.c, MSB(r), before.z /\ r = 0, carries.v))
        /\ AtOnce(WithX(StickyZ(ref)), FALSE)

BitTestSavesAgain(z) ==   \* (Mutant)
    /\ IF kind = Default THEN UNCHANGED <<kind, zsaved>> ELSE zsaved' = kind /\ kind' = ZSet
    /\ flags' = [flags EXCEPT !.z = z]
    /\ UNCHANGED <<xkind, arg, xarg>>
    /\ AtOnce([z |-> z], FALSE)

\* BTst, BChg, BClr, BSet: WillSetZFLG puts Z aside
BitTest(z) ==
    /\ IF kind \in {ZSet, Default} THEN UNCHANGED <<kind, zsaved>>
       ELSE zsaved' = kind /\ kind' = ZSet
    /\ flags' = [flags EXCEPT !.z = z]
    /\ UNCHANGED <<xkind, arg, xarg>>
    /\ AtOnce([z |-> z], FALSE)

\* DivU, DivS: their quotient fits, or not
Divide(r) ==
    LET f == NZ(r) @@ [v |-> FALSE, c |-> FALSE]
    IN  ComputedNZVC(f) /\ AtOnce(f, FALSE)
DivideOver ==
    LET f == [v |-> TRUE, n |-> TRUE, c |-> FALSE]
    IN  Computed(f @@ Evaluated) /\ AtOnce(f, FALSE)

\* m68k_setCR, for MoveToCCR, RTE, ANDI to SR and so on
SetCR(f) == Computed(f) /\ AtOnce(f, TRUE)

\* m68k_getCR, for exceptions and the recorder; and conditions that need it
Evaluate == Computed(Evaluated) /\ UNCHANGED <<ccr, tainted, length>>

-----------------------------------------------------------------------------
AllFlagsSet == [{"x", "n", "z", "v", "c"} -> BOOLEAN]

\* m68k_reset
Init ==
    /\ kind = Default /\ xkind = Default /\ zsaved = Default
    /\ arg = [src |-> 0, dst |-> 0] /\ xarg = [src |-> 0, dst |-> 0]
    /\ flags = [f \in {"x", "n", "z", "v", "c"} |-> FALSE]
    /\ ccr = flags /\ tainted = FALSE /\ length = 0

Instruction ==
    \/ \E size \in Sizes : \E d \in Operands(size) :
        \/ Test(d) \/ Neg(size, d) \/ Divide(d)
        \/ \E s \in Operands(size) :
            \/ Compare(size, s, d) \/ Add(size, s, d) \/ Sub(size, s, d)
            \/ \E op \in {"Add", "Sub", "Neg"} : Extended(op, size, s, d)
        \/ \E cnt \in Counts :
            \/ \E op \in {"Asl", "Asr", "Lsl", "Lsr"} : Shift(op, size, cnt, d)
            \/ \E op \in {"Rol", "Ror"} : Rotate(op, size, cnt, d)
            \/ \E op \in {"Rxl", "Rxr"} : RotateX(op, size, cnt, d)
    \/ \E z \in BOOLEAN : BitTest(z)
    \/ DivideOver
    \/ \E f \in AllFlagsSet : SetCR(f)

Next ==
    \/ length < MaxLength /\ length' = length + 1 /\ Instruction
    \/ Evaluate

Spec == Init /\ [][Next]_vars

-----------------------------------------------------------------------------
(* Properties. *)

TypeOK ==
    /\ kind \in {Default, ZSet, TstL} \cup
                ({"Cmp", "Sub", "Add", "Neg", "Asr", "Asl"} \X Sizes)
    /\ xkind \in {Default} \cup ({"Sub", "Add", "Neg", "Asr", "Asl"} \X Sizes)
    /\ kind = ZSet => zsaved \notin {ZSet, Default}
    /\ arg.src \in 0..(Modulus - 1) /\ arg.dst \in 0..(Modulus - 1)
    /\ flags \in AllFlagsSet

(* Whatever is pending, looking at the flags gives what the instructions     *)
(* would have set at once, over any order of instructions and looks; unless  *)
(* a pending X of a shift was overwritten (XKept is about that).             *)
FlagsAgree == tainted \/ Evaluated = ccr

(* Every condition, decided from flags or from operands, is the one of the   *)
(* flags computed at once.                                                   *)
ConditionsAgree ==
    tainted \/ LET e == Evaluated IN \A cc \in Conditions : Taken(cc, e) = ByFlags(cc, ccr)

(* "flagtype x; /* bit 4: eXtend */": an instruction that leaves X alone     *)
(* leaves X alone, also when X is pending.                                   *)
XKept == [][ccr'.x = ccr.x /\ Evaluated.x = ccr.x /\ ~tainted => Evaluated'.x = ccr'.x]_vars
=============================================================================
