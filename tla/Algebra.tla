------------------------------- MODULE Algebra -------------------------------
(***************************************************************************)
(* Operations on constants: the rewriting rules of AlgebraicTransformer    *)
(* (transformations/algebraic_transformer.cpp) and the evaluation of       *)
(* ConstantsFolder (ir/constants_folder.cpp), both as pure operators.      *)
(*                                                                         *)
(* A value is [cls, ty, rep, n]: its class ("val": a constant), its type   *)
(* in the intermediate representation, the C++ type the variant of an      *)
(* IRval holds, and the number.  An expression is [op, args, ty].  Widths  *)
(* are scaled down: 8, 32 and 64 bits are W8, W32 and W64 of them.         *)
(* Floating-point numbers are left out.                                    *)
(***************************************************************************)
EXTENDS Integers, Sequences

CONSTANTS
  W8, W32, W64   \* the bits that stand for the widths 8, 32 and 64

ASSUME AlgebraAssumption ==
  /\ W8 \in Nat \ {0} /\ W32 \in Nat /\ W64 \in Nat
  /\ W8 < W32 /\ W32 < W64

Signed == {"I8", "I32", "I64"}
Unsigned == {"U8", "U32", "U64"}
Types == Signed \cup Unsigned
AllTypes == Types \cup {"BOOL"}

Bits(ty) == CASE ty = "BOOL" -> 1
              [] ty \in {"I8", "U8"} -> W8
              [] ty \in {"I32", "U32"} -> W32
              [] OTHER -> W64

(* static_cast of a number to an integer type of C++.                      *)
Cast(ty, n) ==
  LET m == 2 ^ Bits(ty)
      low == n % m
  IN  IF ty \in Signed /\ low >= m \div 2 THEN low - m ELSE low

Value(ty, rep, n) == [cls |-> "val", ty |-> ty, rep |-> rep, n |-> n]

ConstEqual(v, k) == v.cls = "val" /\ Cast("U64", v.n) = k

(* has_single_bit and bit_width - 1 of the value as a uint64_t.            *)
SingleBit(v) ==
  v.cls = "val" /\ \E k \in 0 .. W64 - 1 : Cast("U64", v.n) = 2 ^ k
Log2(v) == CHOOSE k \in 0 .. W64 - 1 : Cast("U64", v.n) = 2 ^ k

Expr(op, args, ty) == [op |-> op, args |-> args, ty |-> ty]
Rewrite(e, op, args) == [e EXCEPT !.op = op, !.args = args]
Mov(e, v) == Rewrite(e, "MOV", <<v>>)

(* What the compiler does not survive: an exception, a division by zero of *)
(* its own, a shift C++ does not define.                                   *)
Fault == "fault"
FaultValue == [cls |-> Fault, ty |-> "", rep |-> "", n |-> 0]

(***************************************************************************)
(* processNode: the rules in their order; each sees what the one before it *)
(* left, and after a MOV no other applies.                                 *)
(***************************************************************************)
AddZero(e) ==
  CASE e.op = "ADD" /\ ConstEqual(e.args[1], 0) -> Mov(e, e.args[2])
    [] e.op \in {"ADD", "SUB"} /\ ~ConstEqual(e.args[1], 0)
         /\ ConstEqual(e.args[2], 0) -> Mov(e, e.args[1])
    [] OTHER -> e

MulZero(e) ==
  CASE e.op = "MUL" /\ ConstEqual(e.args[1], 0) -> Mov(e, e.args[1])
    [] e.op = "MUL" /\ ~ConstEqual(e.args[1], 0)
         /\ ConstEqual(e.args[2], 0) -> Mov(e, e.args[2])
    [] OTHER -> e

(* A divisor that is zero is an error of the program.                      *)
DivideZero(e) ==
  CASE e.op \in {"DIV", "REM"} /\ ConstEqual(e.args[1], 0) -> Mov(e, e.args[1])
    [] e.op \in {"DIV", "REM"} /\ ~ConstEqual(e.args[1], 0)
         /\ ConstEqual(e.args[2], 0) -> Rewrite(e, Fault, <<>>)
    [] OTHER -> e

ShiftZero(e) ==
  IF e.op \in {"SHR", "SHL"} /\ (ConstEqual(e.args[2], 0) \/ ConstEqual(e.args[1], 0))
  THEN Mov(e, e.args[1]) ELSE e

(* Mutant of ByOne: 1 / x is taken for x.                                  *)
ByOneEither(e) ==
  CASE e.op \in {"MUL", "DIV"} /\ ConstEqual(e.args[2], 1) -> Mov(e, e.args[1])
    [] e.op \in {"MUL", "DIV"} /\ ConstEqual(e.args[1], 1)
         /\ ~ConstEqual(e.args[2], 1) -> Mov(e, e.args[2])
    [] OTHER -> e

ByOne(e) ==
  CASE e.op \in {"MUL", "DIV"} /\ ConstEqual(e.args[2], 1) -> Mov(e, e.args[1])
    [] e.op = "MUL" /\ ConstEqual(e.args[1], 1)
         /\ ~ConstEqual(e.args[2], 1) -> Mov(e, e.args[2])
    [] OTHER -> e

(* The zero is a uint64_t whatever the type is.                            *)
EqualArgs(e) ==
  IF e.op \in {"SUB", "XOR"} /\ e.args[1] = e.args[2]
  THEN Mov(e, Value(e.args[1].ty, "U64", 0)) ELSE e

(* e shifted by the logarithm of k, which has the type of k.               *)
ShiftBy(e, op, v, k) == Rewrite(e, op, <<v, Value(k.ty, "U64", Log2(k))>>)

(* The second argument is tested even when the first has just made a shift *)
(* of the multiplication: by then it is the logarithm.                     *)
MulPower(e) ==
  LET first == IF SingleBit(e.args[1]) THEN ShiftBy(e, "SHL", e.args[2], e.args[1])
               ELSE e
  IN  IF e.op # "MUL" THEN e
      ELSE IF SingleBit(first.args[2])
      THEN ShiftBy(first, "SHL", first.args[1], first.args[2]) ELSE first

DivPower(e) ==
  IF e.op = "DIV" /\ SingleBit(e.args[2]) THEN ShiftBy(e, "SHR", e.args[1], e.args[2])
  ELSE e

(* (1 << log) - 1 is computed in int, where x86 takes the count modulo the *)
(* width, and then widened.                                                *)
RemMask(log) == Cast("U64", Cast("I32", Cast("I32", 2 ^ (log % W32)) - 1))

RemPower(e) ==
  IF e.op = "REM" /\ e.args[2].ty \in Unsigned /\ SingleBit(e.args[2])
  THEN Rewrite(e, "AND", <<e.args[1], Value(e.args[2].ty, "U64",
                                            RemMask(Log2(e.args[2])))>>)
  ELSE e

ProcessNode(e) ==
  LET d == DivideZero(MulZero(AddZero(e)))
  IN  IF d.op = Fault THEN d
      ELSE RemPower(DivPower(MulPower(EqualArgs(ByOne(ShiftZero(d))))))

(***************************************************************************)
(* ConstantsFolder.  The operation is done in the C++ type of the first    *)
(* number, after the promotion of the narrow ones to int; the result has   *)
(* the type of the first argument, whatever its C++ type became.           *)
(***************************************************************************)
Promote(rep) == IF rep \in {"I8", "U8"} THEN "I32" ELSE rep

AbsVal(n) == IF n < 0 THEN -n ELSE n
Quotient(l, r) ==
  LET q == AbsVal(l) \div AbsVal(r) IN IF (l < 0) = (r < 0) THEN q ELSE -q
Remainder(l, r) == l - r * Quotient(l, r)

(* Bitwise operations on numbers of w bits.                                *)
BitOf(n, k) == (n \div 2 ^ k) % 2
SumOver(w, F(_)) ==
  LET sum[k \in 0 .. w] == IF k = 0 THEN 0 ELSE sum[k - 1] + F(k - 1) * 2 ^ (k - 1)
  IN  sum[w]
Bitwise2(op, l, r, w) ==
  LET a(k) == BitOf(l % 2 ^ w, k)
      b(k) == BitOf(r % 2 ^ w, k)
      Both(k) == a(k) * b(k)
      Either(k) == IF a(k) + b(k) = 0 THEN 0 ELSE 1
      One(k) == (a(k) + b(k)) % 2
  IN  CASE op = "AND" -> SumOver(w, Both)
        [] op = "OR" -> SumOver(w, Either)
        [] op = "XOR" -> SumOver(w, One)

(* countr_zero of a number of w bits.                                      *)
TrailingZeros(n, w) ==
  CHOOSE k \in 0 .. w : /\ k = w \/ BitOf(n, k) = 1
                        /\ \A j \in 0 .. k - 1 : BitOf(n, j) = 0

GeneralOps == {"ADD", "SUB", "MUL", "DIV"}
IntegerOps == {"REM", "SHL", "SHR", "AND", "OR", "XOR"}
CompareOps == {"EQ", "NE", "LT", "GT", "LE", "GE"}
BinaryOps == GeneralOps \cup IntegerOps \cup CompareOps

Compare(op, l, r) ==
  CASE op = "EQ" -> l = r
    [] op = "NE" -> l # r
    [] op = "LT" -> l < r
    [] op = "GT" -> l > r
    [] op = "LE" -> l <= r
    [] op = "GE" -> l >= r

(* l op r in a type of w bits has no value: what a division by zero or a   *)
(* shift by too many bits is, in C++ and in LLVM.                          *)
NoResult(op, l, r, ty) ==
  \/ op \in {"DIV", "REM"} /\ r = 0
  \/ op \in {"DIV", "REM"} /\ ty \in Signed /\ r = -1 /\ l = -(2 ^ (Bits(ty) - 1))
  \/ op \in {"SHL", "SHR"} /\ r \notin 0 .. Bits(ty) - 1

(* The other operations, on two numbers of one type (a shift to the right  *)
(* of a negative number keeps its sign).                                   *)
Compute(op, l, r, ty) ==
  Cast(ty, CASE op = "ADD" -> l + r
             [] op = "SUB" -> l - r
             [] op = "MUL" -> l * r
             [] op = "DIV" -> Quotient(l, r)
             [] op = "REM" -> Remainder(l, r)
             [] op = "SHL" -> l * 2 ^ r
             [] op = "SHR" -> l \div 2 ^ r
             [] OTHER -> Bitwise2(op, l, r, Bits(ty)))

FoldNumbers(op, a, l, r) ==
  LET T == Promote(a.rep)
  IN  CASE op \in CompareOps -> {Value("BOOL", "I8", IF Compare(op, l, r) THEN 1 ELSE 0)}
        [] op \in GeneralOps \cup IntegerOps ->
             IF NoResult(op, l, r, T) THEN {FaultValue}
             ELSE {Value(a.ty, T, Compute(op, l, r, T))}
        [] op = "CTZ" -> {Value(a.ty, "I32", TrailingZeros(l, Bits(a.rep)))}
        [] OTHER -> {}

FoldOper(e) ==
  IF \E i \in DOMAIN e.args : e.args[i].cls # "val" THEN {}
  ELSE UNION {FoldNumbers(e.op, e.args[1], e.args[1].n, r) :
                r \in {Cast(e.args[1].rep, e.args[Len(e.args)].n)}}

(* Mutant of FoldCast: the number keeps the type of the argument.          *)
FoldCastUntyped(e) ==
  CASE e.args[1].cls # "val" -> {}
    [] e.args[1].cls = "val" /\ e.ty = "BOOL" -> {FaultValue}
    [] OTHER -> {Value(e.args[1].ty, e.ty, Cast(e.ty, e.args[1].n))}

(* A cast to i1 has no case.                                               *)
FoldCast(e) ==
  CASE e.args[1].cls # "val" -> {}
    [] e.args[1].cls = "val" /\ e.ty = "BOOL" -> {FaultValue}
    [] OTHER -> {Value(e.ty, e.ty, Cast(e.ty, e.args[1].n))}

(* foldExpr: the value of an expression when it is one, as a set.          *)
FoldExpr(e) == IF e.op = "cast" THEN FoldCast(e) ELSE FoldOper(e)
=============================================================================
