--------------------------- MODULE Arithmetic_proofs ---------------------------
(***************************************************************************)
(* Proofs that the folder and the rules of AlgebraicTransformer keep types *)
(* and values.                                                             *)
(*                                                                         *)
(* Types: whatever a node is rewritten to, each register is used with the  *)
(* type of the node that assigns it, and the operands of an operation have *)
(* the type of its result.  LLVM refuses anything else.                    *)
(*                                                                         *)
(* Values: a program computes the bits it computed before each rewriting,  *)
(* but for the nodes of KnownWrong.  The proof goes from numbers (powers   *)
(* of two, remainders, casts, bitwise sums) to nodes (each rule keeps what *)
(* a node computes from any registers) to programs (a node rewritten, or a *)
(* copy replaced by what it copies, keeps the registers after it).         *)
(***************************************************************************)
EXTENDS Arithmetic, FiniteSetTheorems, WellFoundedInduction, TLAPS

NodeOps == {"MOV", "cast", Fault} \cup BinaryOps

(* An operand of node i, where register r has the type types[r].           *)
IsOperand(v, i, types) ==
  /\ v.cls \in {"val", "param", "reg"}
  /\ v.ty \in AllTypes
  /\ v.cls = "reg" => v.n \in 1 .. i - 1 /\ v.ty = types[v.n]

(* What each operation demands of its operands and its result.             *)
Typed(e) ==
  /\ e.op = "MOV" => Len(e.args) = 1 /\ e.args[1].ty = e.ty
  /\ e.op = "cast" => Len(e.args) = 1
  /\ e.op = Fault => e.args = <<>>
  /\ e.op \in BinaryOps => Len(e.args) = 2 /\ e.args[1].ty = e.args[2].ty
  /\ e.op \in GeneralOps \cup IntegerOps => e.args[1].ty = e.ty
  /\ e.op \in CompareOps => e.ty = "BOOL"

IsNode(e, i, types) ==
  /\ e = Expr(e.op, e.args, e.ty)
  /\ e.op \in NodeOps
  /\ e.ty \in AllTypes
  /\ DOMAIN e.args = 1 .. Len(e.args)
  /\ \A j \in DOMAIN e.args : IsOperand(e.args[j], i, types)
  /\ Typed(e)

(* The types of the nodes are those the program was written with.          *)
NodeTypes == [i \in 1 .. 3 |-> nodes[i].ty]

ArithInv ==
  /\ DOMAIN nodes = 1 .. 3 /\ Len(nodes) = 3
  /\ generated \in 0 .. 3
  /\ \A i \in 1 .. 3 : IsNode(nodes[i], i, NodeTypes)

-----------------------------------------------------------------------------
(* Making a node. *)

(* A node is right when its operands are, and its operation accepts them.  *)
LEMMA ExprIsNode ==
  ASSUME NEW op \in NodeOps, NEW args, NEW ty \in AllTypes, NEW i, NEW types,
         DOMAIN args = 1 .. Len(args), \A j \in DOMAIN args : IsOperand(args[j], i, types),
         Typed(Expr(op, args, ty))
  PROVE  IsNode(Expr(op, args, ty), i, types)
  <1> DEFINE e == Expr(op, args, ty)
  <1>1. e.op = op /\ e.args = args /\ e.ty = ty /\ e = Expr(e.op, e.args, e.ty)
    BY DEF Expr
  <1> HIDE DEF e
  <1>2. IsNode(e, i, types)
    BY <1>1 DEF e, IsNode
  <1> QED
    BY <1>2 DEF e

(* Rewriting a node leaves its result, and so its type, alone.              *)
LEMMA RewriteFields ==
  ASSUME NEW e, NEW i, NEW types, IsNode(e, i, types), NEW op, NEW args
  PROVE  Rewrite(e, op, args) = Expr(op, args, e.ty)
  <1>1. ASSUME NEW op0, NEW args0, NEW ty
        PROVE  Rewrite(Expr(op0, args0, ty), op, args) = Expr(op, args, ty)
    <2> DEFINE d == Expr(op0, args0, ty)
               r == Rewrite(d, op, args)
    <2>1. d \in [op : {op, op0}, args : {args, args0}, ty : {ty}]
      BY DEF Expr
    <2>2. d.ty = ty
      BY DEF Expr
    <2> HIDE DEF d
    <2>3. r \in [op : {op, op0}, args : {args, args0}, ty : {ty}]
      BY <2>1 DEF Rewrite
    <2>4. r.op = op /\ r.args = args /\ r.ty = ty
      BY <2>1, <2>2 DEF Rewrite
    <2> HIDE DEF r
    <2>5. r = Expr(op, args, ty)
      BY <2>3, <2>4 DEF Expr
    <2> QED
      BY <2>5 DEF r, d
  <1>2. e = Expr(e.op, e.args, e.ty)
    BY DEF IsNode
  <1>3. Rewrite(Expr(e.op, e.args, e.ty), op, args) = Expr(op, args, e.ty)
    BY <1>1
  <1> QED
    BY <1>2, <1>3

(* A node may become a copy of any operand of its type.                    *)
LEMMA MovIsNode ==
  ASSUME NEW e, NEW i, NEW types, IsNode(e, i, types),
         NEW v, IsOperand(v, i, types), v.ty = e.ty
  PROVE  IsNode(Mov(e, v), i, types) /\ Mov(e, v).ty = e.ty
  <1>1. Mov(e, v) = Expr("MOV", <<v>>, e.ty)
    BY RewriteFields DEF Mov
  <1>2. Len(<<v>>) = 1 /\ DOMAIN <<v>> = 1 .. 1 /\ <<v>>[1] = v
    OBVIOUS
  <1>3. Typed(Mov(e, v))
    BY <1>1, <1>2 DEF Expr, Typed, Fault, BinaryOps, GeneralOps, IntegerOps, CompareOps
  <1>4. IsNode(Expr("MOV", <<v>>, e.ty), i, types)
    <2>1. "MOV" \in NodeOps /\ e.ty \in AllTypes
      BY DEF IsNode, NodeOps
    <2>2. DOMAIN <<v>> = 1 .. Len(<<v>>) /\ \A j \in DOMAIN <<v>> : IsOperand(<<v>>[j], i, types)
      BY <1>2
    <2> QED
      BY <1>1, <1>3, <2>1, <2>2, ExprIsNode
  <1> QED
    BY <1>1, <1>4 DEF Expr

(* A node that can only fail has no operands left.                         *)
LEMMA FaultIsNode ==
  ASSUME NEW e, NEW i, NEW types, IsNode(e, i, types)
  PROVE  IsNode(Rewrite(e, Fault, <<>>), i, types) /\ Rewrite(e, Fault, <<>>).ty = e.ty
  <1>1. Rewrite(e, Fault, <<>>) = Expr(Fault, <<>>, e.ty)
    BY RewriteFields
  <1>2. Len(<<>>) = 0 /\ DOMAIN <<>> = 1 .. 0
    OBVIOUS
  <1>3. Typed(Expr(Fault, <<>>, e.ty))
    BY DEF Expr, Typed, Fault, BinaryOps, GeneralOps, IntegerOps, CompareOps
  <1>4. IsNode(Expr(Fault, <<>>, e.ty), i, types)
    <2>1. Fault \in NodeOps /\ e.ty \in AllTypes
      BY DEF IsNode, NodeOps
    <2>2. DOMAIN <<>> = 1 .. Len(<<>>) /\ \A j \in DOMAIN <<>> : IsOperand(<<>>[j], i, types)
      BY <1>2
    <2> QED
      BY <1>3, <2>1, <2>2, ExprIsNode
  <1> QED
    BY <1>1, <1>4 DEF Expr

(* An operation on two operands of one type.                               *)
LEMMA BinaryIsNode ==
  ASSUME NEW op \in BinaryOps, NEW a, NEW b, NEW ty \in AllTypes, NEW i, NEW types,
         IsOperand(a, i, types), IsOperand(b, i, types), a.ty = b.ty,
         op \in CompareOps => ty = "BOOL", op \notin CompareOps => ty = a.ty
  PROVE  IsNode(Expr(op, <<a, b>>, ty), i, types)
  <1> DEFINE e == Expr(op, <<a, b>>, ty)
  <1>1. /\ Len(<<a, b>>) = 2 /\ DOMAIN <<a, b>> = 1 .. 2
        /\ <<a, b>>[1] = a /\ <<a, b>>[2] = b
    OBVIOUS
  <1>2. e.op = op /\ e.args = <<a, b>> /\ e.ty = ty /\ e = Expr(e.op, e.args, e.ty)
    BY DEF Expr
  <1>3. /\ op \notin {"MOV", "cast", Fault}
        /\ op \in GeneralOps \cup IntegerOps => op \notin CompareOps
    BY DEF Fault, BinaryOps, GeneralOps, IntegerOps, CompareOps
  <1> HIDE DEF e
  <1>4. Typed(e)
    BY <1>1, <1>2, <1>3 DEF Typed
  <1>5. \A j \in DOMAIN e.args : IsOperand(e.args[j], i, types)
    BY <1>1, <1>2
  <1>6. IsNode(e, i, types)
    BY <1>1, <1>2, <1>4, <1>5 DEF IsNode, NodeOps
  <1> QED
    BY <1>6 DEF e

(* A cast takes an operand of any type to any type.                        *)
LEMMA CastIsNode ==
  ASSUME NEW v, NEW ty \in AllTypes, NEW i, NEW types, IsOperand(v, i, types)
  PROVE  IsNode(Expr("cast", <<v>>, ty), i, types)
  <1>1. Len(<<v>>) = 1 /\ DOMAIN <<v>> = 1 .. 1 /\ <<v>>[1] = v
    OBVIOUS
  <1> QED
    BY <1>1 DEF Expr, IsNode, NodeOps, Typed, Fault, BinaryOps, GeneralOps, IntegerOps, CompareOps

(* A constant may stand anywhere.                                          *)
LEMMA ValueIsOperand ==
  ASSUME NEW ty \in AllTypes, NEW rep, NEW n, NEW i, NEW types
  PROVE  IsOperand(Value(ty, rep, n), i, types) /\ Value(ty, rep, n).ty = ty
  BY DEF Value, IsOperand

(* The two operands of a binary operation.                                 *)
LEMMA BinaryFacts ==
  ASSUME NEW e, NEW i, NEW types, IsNode(e, i, types), e.op \in BinaryOps
  PROVE  /\ IsOperand(e.args[1], i, types) /\ IsOperand(e.args[2], i, types)
         /\ e.args[1].ty = e.args[2].ty /\ e.args[1].ty \in AllTypes
         /\ e.op \in GeneralOps \cup IntegerOps => e.args[1].ty = e.ty
  <1>1. DOMAIN e.args = 1 .. 2
    BY DEF IsNode, Typed
  <1> QED
    BY <1>1 DEF IsNode, Typed, IsOperand

-----------------------------------------------------------------------------
(* The rules of AlgebraicTransformer, in their order. *)

(* A rule that makes e another operation of the same kind.                 *)
LEMMA OperationIsNode ==
  ASSUME NEW e, NEW i, NEW types, IsNode(e, i, types), e.op \in GeneralOps \cup IntegerOps,
         NEW op \in GeneralOps \cup IntegerOps, NEW a, NEW b,
         IsOperand(a, i, types), IsOperand(b, i, types), a.ty = e.ty, b.ty = e.ty
  PROVE  /\ IsNode(Rewrite(e, op, <<a, b>>), i, types)
         /\ Rewrite(e, op, <<a, b>>).ty = e.ty
  <1>1. Rewrite(e, op, <<a, b>>) = Expr(op, <<a, b>>, e.ty)
    BY RewriteFields
  <1>2. op \in BinaryOps /\ op \notin CompareOps /\ e.ty \in AllTypes
    BY DEF IsNode, BinaryOps, GeneralOps, IntegerOps, CompareOps
  <1>3. IsNode(Expr(op, <<a, b>>, e.ty), i, types)
    BY <1>2, BinaryIsNode
  <1> QED
    BY <1>1, <1>3 DEF Expr

(* x + 0, 0 + x, x - 0.                                                    *)
LEMMA AddZeroTyped ==
  ASSUME NEW e, NEW i, NEW types, IsNode(e, i, types)
  PROVE  IsNode(AddZero(e), i, types) /\ AddZero(e).ty = e.ty
  <1>1. CASE e.op \in {"ADD", "SUB"}
    <2>1. e.op \in GeneralOps /\ e.op \in BinaryOps
      BY <1>1 DEF GeneralOps, BinaryOps
    <2>2. \A k \in {1, 2} : IsOperand(e.args[k], i, types) /\ e.args[k].ty = e.ty
      BY <2>1, BinaryFacts
    <2>3. \A k \in {1, 2} : IsNode(Mov(e, e.args[k]), i, types) /\ Mov(e, e.args[k]).ty = e.ty
      BY <2>2, MovIsNode
    <2>4. AddZero(e) \in {e, Mov(e, e.args[1]), Mov(e, e.args[2])}
      BY DEF AddZero
    <2> QED
      BY <2>3, <2>4
  <1>2. CASE e.op \notin {"ADD", "SUB"}
    BY <1>2 DEF AddZero
  <1> QED
    BY <1>1, <1>2

(* x * 0 and 0 * x: the copy is of the zero, which has the type of x.      *)
LEMMA MulZeroTyped ==
  ASSUME NEW e, NEW i, NEW types, IsNode(e, i, types)
  PROVE  IsNode(MulZero(e), i, types) /\ MulZero(e).ty = e.ty
  <1>1. CASE e.op \in {"MUL"}
    <2>1. e.op \in GeneralOps \cup IntegerOps /\ e.op \in BinaryOps
      BY <1>1 DEF GeneralOps, IntegerOps, BinaryOps
    <2>2. \A k \in {1, 2} : IsOperand(e.args[k], i, types) /\ e.args[k].ty = e.ty
      BY <2>1, BinaryFacts
    <2>3. \A k \in {1, 2} : IsNode(Mov(e, e.args[k]), i, types) /\ Mov(e, e.args[k]).ty = e.ty
      BY <2>2, MovIsNode
    <2>4. MulZero(e) \in {e, Mov(e, e.args[1]), Mov(e, e.args[2])}
      BY DEF MulZero
    <2> QED
      BY <2>3, <2>4
  <1>2. CASE e.op \notin {"MUL"}
    BY <1>2 DEF MulZero
  <1> QED
    BY <1>1, <1>2

(* x shifted by 0, and 0 shifted.                                          *)
LEMMA ShiftZeroTyped ==
  ASSUME NEW e, NEW i, NEW types, IsNode(e, i, types)
  PROVE  IsNode(ShiftZero(e), i, types) /\ ShiftZero(e).ty = e.ty
  <1>1. CASE e.op \in {"SHR", "SHL"}
    <2>1. e.op \in GeneralOps \cup IntegerOps /\ e.op \in BinaryOps
      BY <1>1 DEF GeneralOps, IntegerOps, BinaryOps
    <2>2. \A k \in {1, 2} : IsOperand(e.args[k], i, types) /\ e.args[k].ty = e.ty
      BY <2>1, BinaryFacts
    <2>3. \A k \in {1, 2} : IsNode(Mov(e, e.args[k]), i, types) /\ Mov(e, e.args[k]).ty = e.ty
      BY <2>2, MovIsNode
    <2>4. ShiftZero(e) \in {e, Mov(e, e.args[1]), Mov(e, e.args[2])}
      BY DEF ShiftZero
    <2> QED
      BY <2>3, <2>4
  <1>2. CASE e.op \notin {"SHR", "SHL"}
    BY <1>2 DEF ShiftZero
  <1> QED
    BY <1>1, <1>2

(* x * 1, 1 * x, x / 1.                                                    *)
LEMMA ByOneTyped ==
  ASSUME NEW e, NEW i, NEW types, IsNode(e, i, types)
  PROVE  IsNode(ByOne(e), i, types) /\ ByOne(e).ty = e.ty
  <1>1. CASE e.op \in {"MUL", "DIV"}
    <2>1. e.op \in GeneralOps \cup IntegerOps /\ e.op \in BinaryOps
      BY <1>1 DEF GeneralOps, IntegerOps, BinaryOps
    <2>2. \A k \in {1, 2} : IsOperand(e.args[k], i, types) /\ e.args[k].ty = e.ty
      BY <2>1, BinaryFacts
    <2>3. \A k \in {1, 2} : IsNode(Mov(e, e.args[k]), i, types) /\ Mov(e, e.args[k]).ty = e.ty
      BY <2>2, MovIsNode
    <2>4. ByOne(e) \in {e, Mov(e, e.args[1]), Mov(e, e.args[2])}
      BY DEF ByOne
    <2> QED
      BY <2>3, <2>4
  <1>2. CASE e.op \notin {"MUL", "DIV"}
    BY <1>2 DEF ByOne
  <1> QED
    BY <1>1, <1>2

(* 0 / x, 0 % x, and the division by 0.                                    *)
LEMMA DivideZeroTyped ==
  ASSUME NEW e, NEW i, NEW types, IsNode(e, i, types)
  PROVE  IsNode(DivideZero(e), i, types) /\ DivideZero(e).ty = e.ty
  <1>1. CASE e.op \in {"DIV", "REM"}
    <2>1. e.op \in GeneralOps \cup IntegerOps /\ e.op \in BinaryOps
      BY <1>1 DEF GeneralOps, IntegerOps, BinaryOps
    <2>2. \A k \in {1, 2} : IsOperand(e.args[k], i, types) /\ e.args[k].ty = e.ty
      BY <2>1, BinaryFacts
    <2>3. \A k \in {1, 2} : IsNode(Mov(e, e.args[k]), i, types) /\ Mov(e, e.args[k]).ty = e.ty
      BY <2>2, MovIsNode
    <2>4. DivideZero(e) \in {e, Mov(e, e.args[1]), Rewrite(e, Fault, <<>>)}
      BY DEF DivideZero
    <2> QED
      BY <2>3, <2>4, FaultIsNode
  <1>2. CASE e.op \notin {"DIV", "REM"}
    BY <1>2 DEF DivideZero
  <1> QED
    BY <1>1, <1>2

(* x - x and x ^ x: the zero is made in the type of the operand.           *)
LEMMA EqualArgsTyped ==
  ASSUME NEW e, NEW i, NEW types, IsNode(e, i, types)
  PROVE  IsNode(EqualArgs(e), i, types) /\ EqualArgs(e).ty = e.ty
  <1>1. CASE e.op \in {"SUB", "XOR"}
    <2>1. e.op \in GeneralOps \cup IntegerOps /\ e.op \in BinaryOps
      BY <1>1 DEF GeneralOps, IntegerOps, BinaryOps
    <2>2. e.args[1].ty \in AllTypes /\ e.args[1].ty = e.ty
      BY <2>1, BinaryFacts
    <2> DEFINE zero == Value(e.args[1].ty, "U64", 0)
    <2>3. IsOperand(zero, i, types) /\ zero.ty = e.ty
      BY <2>2, ValueIsOperand
    <2>4. EqualArgs(e) \in {e, Mov(e, zero)}
      BY DEF EqualArgs
    <2> HIDE DEF zero
    <2>5. IsNode(Mov(e, zero), i, types) /\ Mov(e, zero).ty = e.ty
      BY <2>3, MovIsNode
    <2> QED
      BY <2>4, <2>5
  <1>2. CASE e.op \notin {"SUB", "XOR"}
    BY <1>2 DEF EqualArgs
  <1> QED
    BY <1>1, <1>2

(* The logarithm that replaces k has its type.                             *)
LEMMA ShiftByTyped ==
  ASSUME NEW e, NEW i, NEW types, IsNode(e, i, types), e.op \in GeneralOps \cup IntegerOps,
         NEW op \in {"SHL", "SHR"}, NEW v, NEW k, IsOperand(v, i, types), v.ty = e.ty, k.ty = e.ty
  PROVE  /\ IsNode(ShiftBy(e, op, v, k), i, types)
         /\ ShiftBy(e, op, v, k).ty = e.ty /\ ShiftBy(e, op, v, k).op = op
         /\ ShiftBy(e, op, v, k).args[1] = v
         /\ ShiftBy(e, op, v, k).args[2] = Value(k.ty, "U64", Log2(k))
  <1> DEFINE log == Value(k.ty, "U64", Log2(k))
  <1>1. IsOperand(log, i, types) /\ log.ty = e.ty
    BY ValueIsOperand DEF IsNode
  <1>2. ShiftBy(e, op, v, k) = Rewrite(e, op, <<v, log>>)
    BY DEF ShiftBy
  <1> HIDE DEF log
  <1>3. op \in GeneralOps \cup IntegerOps
    BY DEF IntegerOps
  <1>4. IsNode(Rewrite(e, op, <<v, log>>), i, types) /\ Rewrite(e, op, <<v, log>>).ty = e.ty
    BY <1>1, <1>3, OperationIsNode
  <1>5. Rewrite(e, op, <<v, log>>) = Expr(op, <<v, log>>, e.ty)
    BY RewriteFields
  <1>6. /\ Rewrite(e, op, <<v, log>>).op = op
        /\ Rewrite(e, op, <<v, log>>).args[1] = v
        /\ Rewrite(e, op, <<v, log>>).args[2] = log
    BY <1>5 DEF Expr
  <1> QED
    BY <1>2, <1>4, <1>6 DEF log

(* Also when the node is made a shift twice.                               *)
LEMMA MulPowerTyped ==
  ASSUME NEW e, NEW i, NEW types, IsNode(e, i, types)
  PROVE  IsNode(MulPower(e), i, types) /\ MulPower(e).ty = e.ty
  <1> DEFINE first == IF SingleBit(e.args[1]) THEN ShiftBy(e, "SHL", e.args[2], e.args[1])
                      ELSE e
             again == ShiftBy(first, "SHL", first.args[1], first.args[2])
  <1>1. CASE e.op = "MUL"
    <2>1. e.op \in GeneralOps \cup IntegerOps /\ e.op \in BinaryOps
      BY <1>1 DEF GeneralOps, IntegerOps, BinaryOps
    <2>2. \A k \in {1, 2} : IsOperand(e.args[k], i, types) /\ e.args[k].ty = e.ty
      BY <2>1, BinaryFacts
    <2>3. /\ IsNode(first, i, types) /\ first.ty = e.ty
          /\ first.op \in GeneralOps \cup IntegerOps
      <3>1. CASE SingleBit(e.args[1])
        <4>1. first = ShiftBy(e, "SHL", e.args[2], e.args[1])
          BY <3>1
        <4>2. /\ IsNode(ShiftBy(e, "SHL", e.args[2], e.args[1]), i, types)
              /\ ShiftBy(e, "SHL", e.args[2], e.args[1]).ty = e.ty
              /\ ShiftBy(e, "SHL", e.args[2], e.args[1]).op = "SHL"
          BY <2>1, <2>2, ShiftByTyped
        <4> QED
          BY <4>1, <4>2 DEF IntegerOps
      <3>2. CASE ~SingleBit(e.args[1])
        BY <2>1, <3>2
      <3> QED
        BY <3>1, <3>2
    <2>4. MulPower(e) \in {first, again}
      BY <1>1 DEF MulPower
    <2> HIDE DEF first
    <2>5. /\ IsOperand(first.args[1], i, types)
          /\ first.args[1].ty = first.ty /\ first.args[2].ty = first.ty
      <3>1. first.op \in BinaryOps
        BY <2>3 DEF BinaryOps
      <3> QED
        BY <2>3, <3>1, BinaryFacts
    <2>6. IsNode(again, i, types) /\ again.ty = first.ty
      BY <2>3, <2>5, ShiftByTyped
    <2> QED
      BY <2>3, <2>4, <2>6
  <1>2. CASE e.op # "MUL"
    BY <1>2 DEF MulPower
  <1> QED
    BY <1>1, <1>2

(* x / 2^k on unsigned operands.                                           *)
LEMMA DivPowerTyped ==
  ASSUME NEW e, NEW i, NEW types, IsNode(e, i, types)
  PROVE  IsNode(DivPower(e), i, types) /\ DivPower(e).ty = e.ty
  <1>1. CASE e.op = "DIV"
    <2>1. e.op \in GeneralOps \cup IntegerOps /\ e.op \in BinaryOps
      BY <1>1 DEF GeneralOps, IntegerOps, BinaryOps
    <2>2. \A k \in {1, 2} : IsOperand(e.args[k], i, types) /\ e.args[k].ty = e.ty
      BY <2>1, BinaryFacts
    <2>3. /\ IsNode(ShiftBy(e, "SHR", e.args[1], e.args[2]), i, types)
          /\ ShiftBy(e, "SHR", e.args[1], e.args[2]).ty = e.ty
      BY <2>1, <2>2, ShiftByTyped
    <2> QED
      BY <2>3 DEF DivPower
  <1>2. CASE e.op # "DIV"
    BY <1>2 DEF DivPower
  <1> QED
    BY <1>1, <1>2

(* x % 2^k on unsigned operands.                                           *)
LEMMA RemPowerTyped ==
  ASSUME NEW e, NEW i, NEW types, IsNode(e, i, types)
  PROVE  IsNode(RemPower(e), i, types) /\ RemPower(e).ty = e.ty
  <1>1. CASE e.op = "REM"
    <2>1. /\ e.op \in GeneralOps \cup IntegerOps /\ e.op \in BinaryOps
          /\ "AND" \in GeneralOps \cup IntegerOps
      BY <1>1 DEF GeneralOps, IntegerOps, BinaryOps
    <2>2. \A k \in {1, 2} : IsOperand(e.args[k], i, types) /\ e.args[k].ty = e.ty
      BY <2>1, BinaryFacts
    <2> DEFINE mask == Value(e.args[2].ty, "U64", RemMask(Log2(e.args[2])))
    <2>3. IsOperand(mask, i, types) /\ mask.ty = e.ty
      BY <2>2, ValueIsOperand DEF IsOperand
    <2>4. RemPower(e) \in {e, Rewrite(e, "AND", <<e.args[1], mask>>)}
      BY DEF RemPower
    <2> HIDE DEF mask
    <2>5. /\ IsNode(Rewrite(e, "AND", <<e.args[1], mask>>), i, types)
          /\ Rewrite(e, "AND", <<e.args[1], mask>>).ty = e.ty
      BY <2>1, <2>2, <2>3, OperationIsNode
    <2> QED
      BY <2>4, <2>5
  <1>2. CASE e.op # "REM"
    BY <1>2 DEF RemPower
  <1> QED
    BY <1>1, <1>2

(* A node the rules have passed over has the type it had, and so have its  *)
(* operands.                                                               *)
LEMMA ProcessNodeTyped ==
  ASSUME NEW e, NEW i, NEW types, IsNode(e, i, types)
  PROVE  IsNode(ProcessNode(e), i, types) /\ ProcessNode(e).ty = e.ty
  <1> DEFINE Kept(d) == IsNode(d, i, types) /\ d.ty = e.ty
  <1>1. Kept(AddZero(e))
    BY AddZeroTyped
  <1>2. Kept(MulZero(AddZero(e)))
    BY <1>1, MulZeroTyped
  <1> DEFINE d == DivideZero(MulZero(AddZero(e)))
  <1>3. Kept(d)
    BY <1>2, DivideZeroTyped
  <1>4. ProcessNode(e) =
          IF d.op = Fault THEN d
          ELSE RemPower(DivPower(MulPower(EqualArgs(ByOne(ShiftZero(d))))))
    BY DEF ProcessNode
  <1> HIDE DEF d
  <1>5. Kept(ByOne(ShiftZero(d)))
    BY <1>3, ShiftZeroTyped, ByOneTyped
  <1>6. Kept(MulPower(EqualArgs(ByOne(ShiftZero(d)))))
    BY <1>5, EqualArgsTyped, MulPowerTyped
  <1>7. Kept(RemPower(DivPower(MulPower(EqualArgs(ByOne(ShiftZero(d)))))))
    BY <1>6, DivPowerTyped, RemPowerTyped
  <1> QED
    BY <1>3, <1>4, <1>7

-----------------------------------------------------------------------------
(* Folding, and the uses of a register. *)

(* What an expression folds to has the type of the expression.             *)
LEMMA FoldTyped ==
  ASSUME NEW e, NEW i, NEW types, IsNode(e, i, types), NEW v \in FoldExpr(e)
  PROVE  v.cls = Fault \/ (IsOperand(v, i, types) /\ v.ty = e.ty)
  <1>1. FaultValue.cls = Fault
    BY DEF FaultValue
  <1>2. ASSUME NEW rep, NEW n PROVE IsOperand(Value(e.ty, rep, n), i, types) /\ Value(e.ty, rep, n).ty = e.ty
    BY ValueIsOperand DEF IsNode
  <1>3. CASE e.op = "cast"
    <2>1. v \in FoldCast(e)
      BY <1>3 DEF FoldExpr
    <2>2. v \in {FaultValue, Value(e.ty, e.ty, Cast(e.ty, e.args[1].n))}
      BY <2>1 DEF FoldCast
    <2> QED
      BY <1>1, <1>2, <2>2
  <1>4. CASE e.op # "cast"
    <2>1. v \in FoldOper(e)
      BY <1>4 DEF FoldExpr
    <2>2. PICK r : v \in FoldNumbers(e.op, e.args[1], e.args[1].n, r)
      BY <2>1 DEF FoldOper
    <2>3. CASE e.op \in CompareOps
      <3>1. v = Value("BOOL", "I8", IF Compare(e.op, e.args[1].n, r) THEN 1 ELSE 0)
        BY <2>2, <2>3 DEF FoldNumbers, CompareOps, GeneralOps, IntegerOps
      <3>2. e.ty = "BOOL"
        BY <2>3 DEF IsNode, Typed
      <3> QED
        BY <1>2, <3>1, <3>2
    <2>4. CASE e.op \in GeneralOps \cup IntegerOps
      <3> DEFINE T == Promote(e.args[1].rep)
      <3>1. v \in {FaultValue, Value(e.args[1].ty, T, Compute(e.op, e.args[1].n, r, T))}
        BY <2>2, <2>4 DEF FoldNumbers, CompareOps, GeneralOps, IntegerOps
      <3>2. e.args[1].ty = e.ty
        BY <2>4 DEF IsNode, Typed
      <3> QED
        BY <1>1, <1>2, <3>1, <3>2
    <2>5. CASE e.op \notin BinaryOps
      <3>1. e.op \notin CompareOps /\ e.op \notin GeneralOps \cup IntegerOps /\ e.op # "CTZ"
        BY <2>5 DEF IsNode, NodeOps, BinaryOps, Fault
      <3> QED
        BY <2>2, <3>1 DEF FoldNumbers
    <2> QED
      BY <2>3, <2>4, <2>5 DEF BinaryOps
  <1> QED
    BY <1>3, <1>4

(* Node e with the uses of register r replaced by v.                       *)
Replaced(e, r, v) ==
  [e EXCEPT !.args = [k \in DOMAIN @ |-> IF @[k].cls = "reg" /\ @[k].n = r THEN v ELSE @[k]]]

(* An operand of the type of r can take the place of r anywhere.           *)
LEMMA ReplacedTyped ==
  ASSUME NEW e, NEW i, NEW types, IsNode(e, i, types), i \in Nat,
         NEW r \in Nat, NEW v, IsOperand(v, r, types), v.ty = types[r]
  PROVE  IsNode(Replaced(e, r, v), i, types) /\ Replaced(e, r, v).ty = e.ty
  <1> DEFINE new(k) == IF e.args[k].cls = "reg" /\ e.args[k].n = r THEN v ELSE e.args[k]
             args == [k \in DOMAIN e.args |-> new(k)]
  <1>1. ASSUME NEW k \in DOMAIN e.args
        PROVE  IsOperand(new(k), i, types) /\ new(k).ty = e.args[k].ty
    <2>1. IsOperand(e.args[k], i, types)
      BY DEF IsNode
    <2>2. CASE e.args[k].cls = "reg" /\ e.args[k].n = r
      BY <2>1, <2>2 DEF IsOperand
    <2>3. CASE ~(e.args[k].cls = "reg" /\ e.args[k].n = r)
      BY <2>1, <2>3
    <2> QED
      BY <2>2, <2>3
  <1>2. Replaced(e, r, v) = Expr(e.op, args, e.ty)
    <2>1. e = Expr(e.op, e.args, e.ty)
      BY DEF IsNode
    <2>2. ASSUME NEW op, NEW old, NEW ty
          PROVE  [Expr(op, old, ty) EXCEPT !.args =
                    [k \in DOMAIN @ |-> IF @[k].cls = "reg" /\ @[k].n = r THEN v ELSE @[k]]]
                 = Expr(op, [k \in DOMAIN old |->
                          IF old[k].cls = "reg" /\ old[k].n = r THEN v ELSE old[k]], ty)
      <3> DEFINE made == [k \in DOMAIN old |->
                            IF old[k].cls = "reg" /\ old[k].n = r THEN v ELSE old[k]]
                 d == Expr(op, old, ty)
                 q == [d EXCEPT !.args = made]
      <3>1. d \in [op : {op}, args : {old, made}, ty : {ty}] /\ d.args = old
        BY DEF Expr
      <3>2. [d EXCEPT !.args =
               [k \in DOMAIN @ |-> IF @[k].cls = "reg" /\ @[k].n = r THEN v ELSE @[k]]] = q
        BY <3>1
      <3> HIDE DEF d, made
      <3>3. q \in [op : {op}, args : {old, made}, ty : {ty}] /\ q.args = made
        BY <3>1
      <3> HIDE DEF q
      <3>4. q = Expr(op, made, ty)
        BY <3>3 DEF Expr
      <3> QED
        BY <3>2, <3>4 DEF q, d, made
    <2>3. [Expr(e.op, e.args, e.ty) EXCEPT !.args =
                    [k \in DOMAIN @ |-> IF @[k].cls = "reg" /\ @[k].n = r THEN v ELSE @[k]]]
                 = Expr(e.op, args, e.ty)
      BY <2>2
    <2> QED
      BY <2>1, <2>3 DEF Replaced
  <1>3. /\ DOMAIN args = DOMAIN e.args
        /\ \A k \in DOMAIN e.args : args[k] = new(k)
    OBVIOUS
  <1>4. DOMAIN e.args = 1 .. Len(e.args) /\ Typed(e)
    BY DEF IsNode
  <1> HIDE DEF new, args
  <1>5. e.op \in {"MOV", "cast"} \cup BinaryOps \/ e.op = Fault
    BY DEF IsNode, NodeOps
  <1>6. /\ Len(e.args) \in Nat
    BY <1>4, <1>5 DEF Typed
  <1>7. Len(args) = Len(e.args)
    BY <1>3, <1>4, <1>6
  <1>8. Typed(Expr(e.op, args, e.ty))
    <2>1. e.op = "MOV" => Len(args) = 1 /\ args[1].ty = e.ty
      BY <1>1, <1>3, <1>4, <1>7 DEF Typed
    <2>2. e.op = "cast" => Len(args) = 1
      BY <1>4, <1>7 DEF Typed
    <2>3. e.op = Fault => args = <<>>
      <3>1. e.op = Fault => DOMAIN e.args = {}
        BY <1>4 DEF Typed
      <3>2. DOMAIN e.args = {} => args = <<>>
        BY DEF args
      <3> QED
        BY <3>1, <3>2
    <2>4. e.op \in BinaryOps => Len(args) = 2 /\ args[1].ty = e.args[1].ty /\ args[2].ty = e.args[2].ty
      <3> SUFFICES ASSUME e.op \in BinaryOps
                   PROVE  Len(args) = 2 /\ args[1].ty = e.args[1].ty /\ args[2].ty = e.args[2].ty
        OBVIOUS
      <3>1. Len(e.args) = 2 /\ DOMAIN e.args = 1 .. 2
        BY <1>4 DEF Typed
      <3> QED
        BY <1>1, <1>3, <1>7, <3>1
    <2>5. /\ e.op \in BinaryOps => e.args[1].ty = e.args[2].ty
          /\ e.op \in GeneralOps \cup IntegerOps => e.args[1].ty = e.ty
          /\ e.op \in CompareOps => e.ty = "BOOL"
      BY <1>4 DEF Typed
    <2>6. e.op \in GeneralOps \cup IntegerOps => e.op \in BinaryOps
      BY DEF BinaryOps
    <2> DEFINE d == Expr(e.op, args, e.ty)
    <2>7. d.op = e.op /\ d.args = args /\ d.ty = e.ty
      BY DEF Expr
    <2> HIDE DEF d
    <2>8. Typed(d)
      BY <2>1, <2>2, <2>3, <2>4, <2>5, <2>6, <2>7 DEF Typed
    <2> QED
      BY <2>8 DEF d
  <1> QED
    BY <1>1, <1>2, <1>3, <1>4, <1>7, <1>8, ExprIsNode DEF IsNode, Expr

-----------------------------------------------------------------------------
(* The program. *)

(* Program p has the types of the present one, and is right in them.       *)
GoodProgram(p) ==
  /\ DOMAIN p = 1 .. 3 /\ Len(p) = 3
  /\ \A i \in 1 .. 3 : IsNode(p[i], i, NodeTypes) /\ p[i].ty = nodes[i].ty

(* The present program is good.                                            *)
LEMMA NodesGood ==
  ASSUME ArithInv
  PROVE  GoodProgram(nodes)
  BY DEF ArithInv, GoodProgram

(* One node is rewritten.                                                  *)
LEMMA OneRewritten ==
  ASSUME NEW p, GoodProgram(p), NEW i \in 1 .. 3, NEW e,
         IsNode(e, i, NodeTypes), e.ty = nodes[i].ty
  PROVE  GoodProgram([p EXCEPT ![i] = e])
  <1> DEFINE q == [p EXCEPT ![i] = e]
  <1>1. /\ DOMAIN q = 1 .. 3
        /\ \A j \in 1 .. 3 : q[j] = IF j = i THEN e ELSE p[j]
    BY DEF GoodProgram
  <1>2. q = [j \in 1 .. 3 |-> q[j]]
    BY <1>1
  <1> HIDE DEF q
  <1>3. Len(q) = 3
    BY <1>1, <1>2
  <1>4. GoodProgram(q)
    BY <1>1, <1>3 DEF GoodProgram
  <1> QED
    BY <1>4 DEF q

(* The uses of a register are replaced by an operand of its node.          *)
LEMMA UsesReplaced ==
  ASSUME NEW p, GoodProgram(p), NEW i \in 1 .. 3, NEW v,
         IsOperand(v, i, NodeTypes), v.ty = nodes[i].ty
  PROVE  GoodProgram(Substitute(p, i, v))
  <1> DEFINE q == Substitute(p, i, v)
  <1>1. /\ DOMAIN q = 1 .. 3 /\ q = [j \in 1 .. 3 |-> q[j]]
        /\ \A j \in 1 .. 3 : q[j] = Replaced(p[j], i, v)
    BY DEF GoodProgram, Substitute, Replaced
  <1> HIDE DEF q
  <1>2. v.ty = NodeTypes[i]
    BY DEF NodeTypes
  <1>3. Len(q) = 3
    BY <1>1
  <1>4. \A j \in 1 .. 3 : IsNode(q[j], j, NodeTypes) /\ q[j].ty = nodes[j].ty
    <2> TAKE j \in 1 .. 3
    <2>1. IsNode(p[j], j, NodeTypes) /\ p[j].ty = nodes[j].ty /\ j \in Nat /\ i \in Nat
      BY DEF GoodProgram
    <2>2. /\ IsNode(Replaced(p[j], i, v), j, NodeTypes)
          /\ Replaced(p[j], i, v).ty = p[j].ty
      BY <1>2, <2>1, ReplacedTyped
    <2> QED
      BY <1>1, <2>1, <2>2
  <1>5. GoodProgram(q)
    BY <1>1, <1>3, <1>4 DEF GoodProgram
  <1> QED
    BY <1>5 DEF q

(* The operand of a copy.                                                  *)
LEMMA CopyFacts ==
  ASSUME ArithInv, NEW i \in 1 .. 3, nodes[i].op = "MOV"
  PROVE  IsOperand(nodes[i].args[1], i, NodeTypes) /\ nodes[i].args[1].ty = nodes[i].ty
  <1>1. IsNode(nodes[i], i, NodeTypes)
    BY DEF ArithInv
  <1>2. DOMAIN nodes[i].args = 1 .. 1
    BY <1>1 DEF IsNode, Typed
  <1> QED
    BY <1>1, <1>2 DEF IsNode, Typed

(* A step to a good program keeps the invariant.                           *)
LEMMA GoodStep ==
  ASSUME ArithInv, GoodProgram(nodes'), generated' \in 0 .. 3
  PROVE  ArithInv'
  <1>1. NodeTypes' = NodeTypes
    BY DEF NodeTypes, GoodProgram
  <1> QED
    BY <1>1 DEF ArithInv, GoodProgram

-----------------------------------------------------------------------------
(* The initial programs. *)

(* The constants name types.                                               *)
LEMMA TypesAre ==
  /\ Tys \subseteq AllTypes /\ Casts \subseteq AllTypes /\ "I32" \in AllTypes
  /\ "BOOL" \in AllTypes
  BY ArithmeticAssumption DEF AllTypes, Types, Signed, Unsigned

(* What the generator makes of two operands of one type.                   *)
LEMMA BinaryTyped ==
  ASSUME NEW op \in BinaryOps, NEW a, NEW b, NEW i, NEW types,
         IsOperand(a, i, types), IsOperand(b, i, types), a.ty = b.ty
  PROVE  IsNode(Binary(op, a, b), i, types)
  <1>1. ResultType(op, a.ty) \in AllTypes
    BY TypesAre DEF ResultType, IsOperand
  <1>2. /\ op \in CompareOps => ResultType(op, a.ty) = "BOOL"
        /\ op \notin CompareOps => ResultType(op, a.ty) = a.ty
    BY DEF ResultType
  <1>3. IsNode(Expr(op, <<a, b>>, ResultType(op, a.ty)), i, types)
    BY <1>1, <1>2, BinaryIsNode
  <1> QED
    BY <1>3 DEF Binary

(* The first node: a constant, its negation or a cast of it.               *)
LEMMA VariablesTyped ==
  ASSUME NEW ty \in AllTypes, NEW v \in Variables(ty), NEW types
  PROVE  IsNode(v, 1, types) /\ v.ty = ty
  <1>1. CASE \E k \in Literals : v = Expr("MOV", <<Literal(ty, k)>>, ty)
    <2>1. PICK k \in Literals : v = Expr("MOV", <<Literal(ty, k)>>, ty)
      BY <1>1
    <2> DEFINE c == Literal(ty, k)
    <2>2. IsOperand(c, 1, types) /\ c.ty = ty
      BY ValueIsOperand DEF Literal
    <2> HIDE DEF c
    <2>3. IsNode(Expr("cast", <<c>>, ty), 1, types)
      BY <2>2, CastIsNode
    <2>4. Expr("cast", <<c>>, ty).ty = ty
      BY DEF Expr
    <2>5. IsNode(Mov(Expr("cast", <<c>>, ty), c), 1, types)
      BY <2>2, <2>3, <2>4, MovIsNode
    <2>6. Mov(Expr("cast", <<c>>, ty), c) = Expr("MOV", <<c>>, ty)
      BY <2>3, <2>4, RewriteFields DEF Mov
    <2> QED
      BY <2>1, <2>5, <2>6 DEF c, Expr
  <1>2. CASE \E k \in Literals : v = Negation(ty, k)
    <2>1. PICK k \in Literals : v = Negation(ty, k)
      BY <1>2
    <2> DEFINE z == Value(ty, "U32", 0)
               c == Literal(ty, k)
    <2>2. IsOperand(c, 1, types) /\ c.ty = ty /\ IsOperand(z, 1, types) /\ z.ty = ty
      BY ValueIsOperand DEF Literal
    <2>3. v = Expr("SUB", <<z, c>>, ty)
      BY <2>1 DEF Negation
    <2> HIDE DEF c, z
    <2>4. "SUB" \in BinaryOps /\ "SUB" \notin CompareOps
      BY DEF BinaryOps, GeneralOps, CompareOps
    <2>5. IsNode(Expr("SUB", <<z, c>>, ty), 1, types)
      BY <2>2, <2>4, BinaryIsNode
    <2> QED
      BY <2>3, <2>5 DEF Expr
  <1>3. CASE \E t \in Casts \ {ty}, k \in Literals : v = Expr("cast", <<Literal(t, k)>>, ty)
    <2>1. PICK t \in Casts \ {ty}, k \in Literals : v = Expr("cast", <<Literal(t, k)>>, ty)
      BY <1>3
    <2>2. IsOperand(Literal(t, k), 1, types)
      BY TypesAre, ValueIsOperand DEF Literal
    <2>3. IsNode(Expr("cast", <<Literal(t, k)>>, ty), 1, types)
      BY <2>2, CastIsNode
    <2> QED
      BY <2>1, <2>3 DEF Expr
  <1> QED
    BY <1>1, <1>2, <1>3 DEF Variables

(* The operations on a register and on operands of its type.               *)
LEMMA OperationsTyped ==
  ASSUME NEW ops \in SUBSET BinaryOps, NEW reg, NEW others, NEW i, NEW types,
         IsOperand(reg, i, types),
         \A v \in others : IsOperand(v, i, types) /\ v.ty = reg.ty,
         NEW e \in Operations(ops, reg, others)
  PROVE  IsNode(e, i, types)
  <1>1. PICK op \in ops, a \in others \cup {reg}, b \in others \cup {reg} : e = Binary(op, a, b)
    BY DEF Operations
  <1>2. IsOperand(a, i, types) /\ IsOperand(b, i, types) /\ a.ty = b.ty
    BY <1>1
  <1> QED
    BY <1>1, <1>2, BinaryTyped

(* The second node uses the first.                                         *)
LEMMA FirstsTyped ==
  ASSUME NEW ty \in AllTypes, NEW f \in Firsts(ty), NEW types, types[1] = ty
  PROVE  IsNode(f, 2, types)
  <1> DEFINE reg == Register(1, ty)
             others == {Input(ty)} \cup {Literal(ty, k) : k \in Literals}
  <1>1. IsOperand(reg, 2, types) /\ reg.ty = ty
    BY DEF Register, IsOperand
  <1>2. \A v \in others : IsOperand(v, 2, types) /\ v.ty = ty
    BY DEF Input, Literal, Value, IsOperand
  <1>3. \A rep, n : IsOperand(Value(ty, rep, n), 2, types) /\ Value(ty, rep, n).ty = ty
    BY ValueIsOperand
  <1>4. {"XOR", "EQ", "ADD"} \subseteq BinaryOps /\ FirstOps \in SUBSET BinaryOps
    BY ArithmeticAssumption DEF BinaryOps, GeneralOps, IntegerOps, CompareOps
  <1>5. f \in Unaries(ty, reg) \/ f \in Operations(FirstOps, reg, others)
    BY DEF Firsts
  <1> HIDE DEF reg, others
  <1>6. CASE f \in Unaries(ty, reg)
    <2>1. PICK op \in {"XOR", "EQ", "ADD"}, rep \in {"U64", "U32"}, n \in {2 ^ W64 - 1, 0, 1} :
            f = Binary(op, Value(ty, rep, n), reg) \/ f = Binary(op, reg, Value(ty, rep, n))
      BY <1>6 DEF Unaries
    <2>2. IsOperand(Value(ty, rep, n), 2, types) /\ Value(ty, rep, n).ty = ty
      BY <1>3
    <2> QED
      BY <1>1, <1>4, <2>1, <2>2, BinaryTyped
  <1>7. CASE f \in Operations(FirstOps, reg, others)
    BY <1>1, <1>2, <1>4, <1>7, OperationsTyped
  <1> QED
    BY <1>5, <1>6, <1>7

(* The third node uses the second.                                         *)
LEMMA LastsTyped ==
  ASSUME NEW ty \in AllTypes, NEW l \in Lasts(ty), NEW types, types[2] = ty
  PROVE  IsNode(l, 3, types)
  <1> DEFINE reg == Register(2, ty)
             others == {Literal(ty, k) : k \in Literals}
  <1>1. IsOperand(reg, 3, types) /\ reg.ty = ty
    BY DEF Register, IsOperand
  <1>2. \A v \in others : IsOperand(v, 3, types) /\ v.ty = ty
    BY ValueIsOperand DEF Literal
  <1>3. \/ \E t \in Casts \cup {"I32"} : l = Expr("cast", <<reg>>, t)
        \/ l \in Operations(LastOps, reg, others)
    BY DEF Lasts
  <1> HIDE DEF reg, others
  <1>4. CASE \E t \in Casts \cup {"I32"} : l = Expr("cast", <<reg>>, t)
    BY <1>1, <1>4, TypesAre, CastIsNode
  <1>5. CASE l \in Operations(LastOps, reg, others)
    <2>1. LastOps \in SUBSET BinaryOps
      BY ArithmeticAssumption
    <2> QED
      BY <1>1, <1>2, <1>5, <2>1, OperationsTyped
  <1> QED
    BY <1>3, <1>4, <1>5

(* The program as the generator writes it is typed.                        *)
LEMMA InitTyped == Init => ArithInv
  <1> SUFFICES ASSUME Init PROVE ArithInv
    OBVIOUS
  <1>1. PICK ty \in Tys : \E v \in Variables(ty), f \in Firsts(ty) :
          \E l \in Lasts(f.ty) : original = <<v, f, l>>
    BY DEF Init
  <1>2. PICK v \in Variables(ty), f \in Firsts(ty) : \E l \in Lasts(f.ty) : original = <<v, f, l>>
    BY <1>1
  <1>3. PICK l \in Lasts(f.ty) : original = <<v, f, l>>
    BY <1>2
  <1>4. nodes = <<v, f, l>> /\ generated = 0
    BY <1>3 DEF Init
  <1>5. /\ DOMAIN nodes = 1 .. 3 /\ Len(nodes) = 3
        /\ nodes[1] = v /\ nodes[2] = f /\ nodes[3] = l
    BY <1>4
  <1>6. NodeTypes[1] = v.ty /\ NodeTypes[2] = f.ty
    BY <1>5 DEF NodeTypes
  <1>7. IsNode(v, 1, NodeTypes) /\ v.ty = ty
    BY TypesAre, VariablesTyped
  <1>8. IsNode(f, 2, NodeTypes)
    BY <1>6, <1>7, TypesAre, FirstsTyped
  <1>9. IsNode(l, 3, NodeTypes)
    <2>1. f.ty \in AllTypes
      BY <1>8 DEF IsNode
    <2> QED
      BY <1>6, <2>1, LastsTyped
  <1>10. \A i \in 1 .. 3 : IsNode(nodes[i], i, NodeTypes)
    BY <1>5, <1>7, <1>8, <1>9
  <1> QED
    BY <1>4, <1>5, <1>10 DEF ArithInv

-----------------------------------------------------------------------------
(* The steps. *)

(* A node that does not fold to a number becomes a failure.                *)
LEMMA FoldedGood ==
  ASSUME ArithInv, NEW i \in 1 .. 3, NEW v \in FoldExpr(nodes[i]), v.cls # Fault
  PROVE  /\ GoodProgram([nodes EXCEPT ![i] = Mov(@, v)])
         /\ IsOperand(v, i, NodeTypes) /\ v.ty = nodes[i].ty
  <1>1. IsNode(nodes[i], i, NodeTypes)
    BY DEF ArithInv
  <1>2. IsOperand(v, i, NodeTypes) /\ v.ty = nodes[i].ty
    BY <1>1, FoldTyped
  <1>3. IsNode(Mov(nodes[i], v), i, NodeTypes) /\ Mov(nodes[i], v).ty = nodes[i].ty
    BY <1>1, <1>2, MovIsNode
  <1>4. GoodProgram([nodes EXCEPT ![i] = Mov(nodes[i], v)])
    BY <1>3, NodesGood, OneRewritten
  <1> QED
    BY <1>2, <1>4

(* A division by a constant zero stays where it is and fails there.        *)
LEMMA FailedGood ==
  ASSUME ArithInv, NEW i \in 1 .. 3
  PROVE  GoodProgram([nodes EXCEPT ![i] = Rewrite(@, Fault, <<>>)])
  <1>1. IsNode(nodes[i], i, NodeTypes)
    BY DEF ArithInv
  <1>2. /\ IsNode(Rewrite(nodes[i], Fault, <<>>), i, NodeTypes)
        /\ Rewrite(nodes[i], Fault, <<>>).ty = nodes[i].ty
    BY <1>1, FaultIsNode
  <1>3. GoodProgram([nodes EXCEPT ![i] = Rewrite(nodes[i], Fault, <<>>)])
    BY <1>2, NodesGood, OneRewritten
  <1> QED
    BY <1>3

(* The generator emits a node, folding it when it can.                     *)
LEMMA EmitNodeTyped == ArithInv /\ EmitNode => ArithInv'
  <1> SUFFICES ASSUME ArithInv, EmitNode PROVE ArithInv'
    OBVIOUS
  <1> DEFINE i == generated + 1
  <1>1. i \in 1 .. 3 /\ generated' \in 0 .. 3
    BY DEF ArithInv, EmitNode
  <1>2. \/ nodes' = nodes
        \/ \E v \in FoldExpr(nodes[i]) :
             nodes' = IF v.cls = Fault THEN [nodes EXCEPT ![i] = Rewrite(@, Fault, <<>>)]
                      ELSE Substitute([nodes EXCEPT ![i] = Mov(@, v)], i, v)
    BY DEF EmitNode
  <1> HIDE DEF i
  <1>3. CASE nodes' = nodes
    BY <1>1, <1>3, NodesGood, GoodStep
  <1>4. CASE \E v \in FoldExpr(nodes[i]) :
               nodes' = IF v.cls = Fault THEN [nodes EXCEPT ![i] = Rewrite(@, Fault, <<>>)]
                        ELSE Substitute([nodes EXCEPT ![i] = Mov(@, v)], i, v)
    <2>1. PICK v \in FoldExpr(nodes[i]) :
               nodes' = IF v.cls = Fault THEN [nodes EXCEPT ![i] = Rewrite(@, Fault, <<>>)]
                        ELSE Substitute([nodes EXCEPT ![i] = Mov(@, v)], i, v)
      BY <1>4
    <2>2. CASE v.cls = Fault
      <3>1. nodes' = [nodes EXCEPT ![i] = Rewrite(@, Fault, <<>>)]
        BY <2>1, <2>2
      <3>2. GoodProgram(nodes')
        BY <1>1, <3>1, FailedGood
      <3> QED
        BY <1>1, <3>2, GoodStep
    <2>3. CASE v.cls # Fault
      <3> DEFINE p == [nodes EXCEPT ![i] = Mov(@, v)]
      <3>1. nodes' = Substitute(p, i, v)
        BY <2>1, <2>3
      <3>2. GoodProgram(p) /\ IsOperand(v, i, NodeTypes) /\ v.ty = nodes[i].ty
        BY <1>1, <2>3, FoldedGood
      <3> HIDE DEF p
      <3>3. GoodProgram(Substitute(p, i, v))
        BY <1>1, <3>2, UsesReplaced
      <3>4. GoodProgram(nodes')
        BY <3>1, <3>3
      <3> QED
        BY <1>1, <3>4, GoodStep
    <2> QED
      BY <2>2, <2>3
  <1> QED
    BY <1>2, <1>3, <1>4

(* CopyPropagator replaces a register by what it copies.                   *)
LEMMA PropagateCopyTyped ==
  ASSUME ArithInv, NEW i \in 1 .. 3, PropagateCopy(i)
  PROVE  ArithInv'
  <1>1. /\ nodes[i].op = "MOV" /\ nodes' = Substitute(nodes, i, nodes[i].args[1])
        /\ generated' \in 0 .. 3
    BY DEF PropagateCopy, ArithInv
  <1>2. IsOperand(nodes[i].args[1], i, NodeTypes) /\ nodes[i].args[1].ty = nodes[i].ty
    BY <1>1, CopyFacts
  <1>3. GoodProgram(Substitute(nodes, i, nodes[i].args[1]))
    BY <1>2, NodesGood, UsesReplaced
  <1>4. GoodProgram(nodes')
    BY <1>1, <1>3
  <1> QED
    BY <1>1, <1>4, GoodStep

(* ConstantsFolder replaces a node by its value.                           *)
LEMMA FoldConstantTyped ==
  ASSUME ArithInv, NEW i \in 1 .. 3, FoldConstant(i)
  PROVE  ArithInv'
  <1>1. PICK v \in FoldExpr(nodes[i]) :
          nodes' = [nodes EXCEPT ![i] = IF v.cls = Fault THEN Rewrite(@, Fault, <<>>)
                                        ELSE Mov(@, v)]
    BY DEF FoldConstant
  <1>2. generated' \in 0 .. 3
    BY DEF FoldConstant, ArithInv
  <1>3. CASE v.cls = Fault
    <2>1. nodes' = [nodes EXCEPT ![i] = Rewrite(@, Fault, <<>>)]
      BY <1>1, <1>3
    <2>2. GoodProgram(nodes')
      BY <2>1, FailedGood
    <2> QED
      BY <1>2, <2>2, GoodStep
  <1>4. CASE v.cls # Fault
    <2>1. nodes' = [nodes EXCEPT ![i] = Mov(@, v)]
      BY <1>1, <1>4
    <2>2. GoodProgram(nodes')
      BY <1>4, <2>1, FoldedGood
    <2> QED
      BY <1>2, <2>2, GoodStep
  <1> QED
    BY <1>3, <1>4

(* AlgebraicTransformer rewrites a node.                                   *)
LEMMA SimplifyTyped ==
  ASSUME ArithInv, NEW i \in 1 .. 3, Simplify(i)
  PROVE  ArithInv'
  <1>1. nodes' = [nodes EXCEPT ![i] = ProcessNode(nodes[i])] /\ generated' \in 0 .. 3
    BY DEF Simplify, ArithInv
  <1>2. IsNode(nodes[i], i, NodeTypes)
    BY DEF ArithInv
  <1>3. IsNode(ProcessNode(nodes[i]), i, NodeTypes) /\ ProcessNode(nodes[i]).ty = nodes[i].ty
    BY <1>2, ProcessNodeTyped
  <1>4. GoodProgram([nodes EXCEPT ![i] = ProcessNode(nodes[i])])
    BY <1>3, NodesGood, OneRewritten
  <1>5. GoodProgram(nodes')
    BY <1>1, <1>4
  <1> QED
    BY <1>1, <1>5, GoodStep

(* The inductive invariant.                                                *)
LEMMA ArithInvariant == Spec => []ArithInv
  <1>1. Init => ArithInv
    BY InitTyped
  <1>2. ArithInv /\ [Next]_vars => ArithInv'
    <2> SUFFICES ASSUME ArithInv, [Next]_vars PROVE ArithInv'
      OBVIOUS
    <2>1. CASE EmitNode
      BY <2>1, EmitNodeTyped
    <2>2. ASSUME NEW i \in 1 .. 3, Optimize(i) PROVE ArithInv'
      BY <2>2, PropagateCopyTyped, FoldConstantTyped, SimplifyTyped DEF Optimize
    <2>3. CASE UNCHANGED vars
      BY <2>3 DEF vars, ArithInv, NodeTypes
    <2> QED
      BY <2>1, <2>2, <2>3 DEF Next
  <1> QED
    BY <1>1, <1>2, PTL DEF Spec

(* For every width, every set of operations and every order of folding,    *)
(* copy propagation and algebraic simplification the types stay in place:  *)
(* a use of a register has the type of the node that assigns it, also      *)
(* after the node has become a copy or the use a constant, and the         *)
(* operands of an arithmetic operation have the type of its result, also   *)
(* after a multiplication became one shift and then another.               *)
THEOREM ArithmeticTypeCorrect == Spec => []TypeOK
  <1>1. ArithInv => TypeOK
    <2> SUFFICES ASSUME ArithInv PROVE TypeOK
      OBVIOUS
    <2>1. generated \in 0 .. 3
      BY DEF ArithInv
    <2>2. ASSUME NEW i \in 1 .. 3, NEW j \in DOMAIN nodes[i].args
          PROVE  LET v == nodes[i].args[j]
                 IN  /\ v.cls \in {"val", "param", "reg"} /\ v.ty \in AllTypes
                     /\ v.cls = "reg" => v.n < i /\ v.ty = nodes[v.n].ty
                     /\ nodes[i].op \in GeneralOps \cup IntegerOps => v.ty = nodes[i].ty
      <3> DEFINE e == nodes[i]
                 v == e.args[j]
      <3>1. IsNode(e, i, NodeTypes)
        BY DEF ArithInv
      <3>2. IsOperand(v, i, NodeTypes)
        BY <3>1, <2>2 DEF IsNode
      <3>3. v.cls = "reg" => v.n < i /\ v.ty = nodes[v.n].ty
        <4> SUFFICES ASSUME v.cls = "reg" PROVE v.n < i /\ v.ty = nodes[v.n].ty
          OBVIOUS
        <4>1. v.n \in 1 .. i - 1 /\ v.ty = NodeTypes[v.n]
          BY <3>2 DEF IsOperand
        <4>2. v.n < i /\ v.n \in 1 .. 3
          BY <4>1
        <4> QED
          BY <4>1, <4>2 DEF NodeTypes
      <3>4. ASSUME e.op \in GeneralOps \cup IntegerOps PROVE v.ty = e.ty
        <4>1. e.op \in BinaryOps
          BY <3>4 DEF BinaryOps
        <4>2. j \in {1, 2}
          BY <3>1, <2>2, <4>1 DEF IsNode, Typed
        <4> QED
          BY <3>1, <3>4, <4>1, <4>2, BinaryFacts
      <3> QED
        BY <3>2, <3>3, <3>4 DEF IsOperand
    <2> QED
      BY <2>1, <2>2 DEF TypeOK
  <1> QED
    BY <1>1, ArithInvariant, PTL

-----------------------------------------------------------------------------
(* Numbers: powers of two, division with remainder. *)

(* A set with 0 and the successors of its members has all numbers.         *)
LEMMA NatSetInduction ==
  ASSUME NEW T, 0 \in T, \A n \in Nat : n \in T => n + 1 \in T
  PROVE  Nat \subseteq T
  <1> DEFINE Bad == Nat \ T
             R == OpToRel(<, Nat)
  <1>1. SUFFICES ASSUME Bad # {} PROVE FALSE
    OBVIOUS
  <1>2. IsWellFoundedOn(R, Nat)
    BY NatLessThanWellFounded
  <1>3. \A x, y \in Nat : y < x => <<y, x>> \in R
    BY DEF OpToRel
  <1>4. PICK x \in Bad : \A y \in Bad : ~(<<y, x>> \in R)
    <2> Bad \subseteq Nat
      OBVIOUS
    <2> HIDE DEF R, Bad
    <2> QED
      BY <1>1, <1>2, WFMin
  <1> HIDE DEF R
  <1>5. x \in Nat /\ x # 0 /\ x - 1 \in Nat /\ x - 1 < x
    OBVIOUS
  <1>6. x - 1 \in T
    BY <1>3, <1>4, <1>5
  <1>7. (x - 1) + 1 \in T
    BY <1>5, <1>6
  <1> QED
    BY <1>5, <1>7

(* The powers of two count the subsets of a finite set.                    *)
LEMMA PowerFacts ==
  /\ 2 ^ 0 = 1
  /\ \A n \in Nat : 2 ^ n \in Nat /\ 2 ^ (n + 1) = 2 * 2 ^ n
  <1>1. ASSUME NEW n \in Nat
        PROVE  2 ^ n \in Nat /\ 2 ^ (n + 1) = 2 * 2 ^ n
    <2> DEFINE S == 1 .. n
               A == SUBSET S
               B == {T \cup {n + 1} : T \in A}
               f == [T \in A |-> T \cup {n + 1}]
    <2>1. IsFiniteSet(S) /\ Cardinality(S) = n
      BY FS_Interval
    <2>2. /\ IsFiniteSet(1 .. n + 1) /\ Cardinality(1 .. n + 1) = n + 1
      BY FS_Interval
    <2>3. IsFiniteSet(A) /\ Cardinality(A) = 2 ^ n /\ Cardinality(A) \in Nat
      BY <2>1, FS_SUBSET, FS_CardinalityType
    <2>4. Cardinality(SUBSET (1 .. n + 1)) = 2 ^ (n + 1)
      BY <2>2, FS_SUBSET
    <2>5. f \in Bijection(A, B)
      <3>1. f \in [A -> B] /\ \A U \in B : \E T \in A : f[T] = U
        OBVIOUS
      <3>2. ASSUME NEW T \in A, NEW U \in A, f[T] = f[U] PROVE T = U
        <4>1. n + 1 \notin T /\ n + 1 \notin U
          OBVIOUS
        <4>2. T \cup {n + 1} = U \cup {n + 1}
          BY <3>2
        <4> QED
          BY <4>1, <4>2
      <3> HIDE DEF f, A, B
      <3> QED
        BY <3>1, <3>2 DEF Bijection, Injection, Surjection, IsInjective
    <2>6. IsFiniteSet(B) /\ Cardinality(B) = Cardinality(A)
      <3>1. ExistsBijection(A, B)
        BY <2>5 DEF ExistsBijection
      <3> HIDE DEF A, B
      <3> QED
        BY <2>3, <3>1, FS_Bijection
    <2>7. SUBSET (1 .. n + 1) = A \cup B /\ A \cap B = {}
      <3>1. ASSUME NEW U \in SUBSET (1 .. n + 1) PROVE U \in A \cup B
        <4>1. CASE n + 1 \in U
          <5>1. U \ {n + 1} \in A /\ U = (U \ {n + 1}) \cup {n + 1}
            BY <4>1
          <5> QED
            BY <5>1
        <4>2. CASE n + 1 \notin U
          <5>1. U \in A
            BY <4>2
          <5> QED
            BY <5>1
        <4> QED
          BY <4>1, <4>2
      <3>2. \A U \in A \cup B : U \in SUBSET (1 .. n + 1)
        OBVIOUS
      <3>3. \A U \in B : n + 1 \in U
        OBVIOUS
      <3>4. \A U \in A : n + 1 \notin U
        OBVIOUS
      <3> QED
        BY <3>1, <3>2, <3>3, <3>4
    <2>8. Cardinality({}) = 0
      BY FS_EmptySet
    <2>9. Cardinality(A \cup B) = Cardinality(A) + Cardinality(B) - Cardinality(A \cap B)
      <3> HIDE DEF A, B
      <3> QED
        BY <2>3, <2>6, FS_Union
    <2>10. 2 ^ n \in Nat
      BY <2>3
    <2>11. 2 ^ (n + 1) = Cardinality(A \cup B)
      BY <2>4, <2>7
    <2>12. Cardinality(A \cap B) = 0
      BY <2>7, <2>8
    <2>13. Cardinality(A \cup B) = 2 * Cardinality(A)
      <3> HIDE DEF A, B
      <3> QED
        BY <2>3, <2>6, <2>9, <2>12
    <2> QED
      BY <2>3, <2>10, <2>11, <2>13
  <1>2. 2 ^ 0 = 1
    OBVIOUS
  <1> QED
    BY <1>1, <1>2

(* Division by a positive number: there is a quotient and a remainder...   *)
LEMMA DivisionExists ==
  ASSUME NEW m \in Nat, m > 0, NEW x \in Int
  PROVE  \E q \in Int, r \in 0 .. m - 1 : x = m * q + r
  <1> DEFINE T == {n \in Nat : \E q \in Int, r \in 0 .. m - 1 : n = m * q + r}
  <1>1. 0 \in T
    <2>1. 0 = m * 0 + 0 /\ 0 \in 0 .. m - 1
      OBVIOUS
    <2> QED
      BY <2>1
  <1>2. ASSUME NEW n \in Nat, n \in T PROVE n + 1 \in T
    <2>1. PICK q \in Int, r \in 0 .. m - 1 : n = m * q + r
      BY <1>2
    <2>2. CASE r + 1 < m
      <3>1. r + 1 \in 0 .. m - 1 /\ n + 1 = m * q + (r + 1)
        BY <2>1, <2>2
      <3> QED
        BY <3>1
    <2>3. CASE r + 1 = m
      <3>1. m * (q + 1) = m * q + m
        OBVIOUS
      <3>2. q + 1 \in Int /\ 0 \in 0 .. m - 1 /\ n + 1 = m * (q + 1) + 0
        BY <2>1, <2>3, <3>1
      <3> QED
        BY <3>2
    <2> QED
      BY <2>2, <2>3
  <1>3. Nat \subseteq T
    <2> HIDE DEF T
    <2> QED
      BY <1>1, <1>2, NatSetInduction
  <1>4. CASE x >= 0
    <2>1. x \in T
      BY <1>3, <1>4
    <2> QED
      BY <2>1
  <1>5. CASE x < 0
    <2>1. -x \in Nat
      BY <1>5
    <2>2. PICK q \in Int, r \in 0 .. m - 1 : -x = m * q + r
      BY <1>3, <2>1
    <2>3. CASE r = 0
      <3>1. m * (-q) = -(m * q)
        OBVIOUS
      <3>2. -q \in Int /\ x = m * (-q) + 0
        BY <2>2, <2>3, <3>1
      <3> QED
        BY <2>3, <3>2
    <2>4. CASE r # 0
      <3>1. m * (-q - 1) = -(m * q) - m
        OBVIOUS
      <3>2. -q - 1 \in Int /\ m - r \in 0 .. m - 1 /\ x = m * (-q - 1) + (m - r)
        BY <2>2, <2>4, <3>1
      <3> QED
        BY <3>2
    <2> QED
      BY <2>3, <2>4
  <1> QED
    BY <1>4, <1>5

(* ... and only one of each.                                               *)
LEMMA DivisionIs ==
  ASSUME NEW m \in Nat, m > 0, NEW q \in Int, NEW r \in 0 .. m - 1
  PROVE  (m * q + r) % m = r /\ (m * q + r) \div m = q
  <1>1. m * q \in Int /\ r \in Int /\ 0 <= r /\ r < m
    OBVIOUS
  <1>2. (m * q + r) % m = r
    BY <1>1
  <1>3. (m * q + r) \div m = q
    BY <1>1
  <1> QED
    BY <1>2, <1>3

(* The remainder and the quotient, and the number they make again.         *)
LEMMA Division ==
  ASSUME NEW m \in Nat, m > 0, NEW x \in Int
  PROVE  /\ x % m \in 0 .. m - 1 /\ x \div m \in Int
         /\ x = m * (x \div m) + (x % m)
  <1>1. PICK q \in Int, r \in 0 .. m - 1 : x = m * q + r
    BY DivisionExists
  <1>2. x % m = r /\ x \div m = q
    BY <1>1, DivisionIs
  <1> QED
    BY <1>1, <1>2

(* Exponents add.                                                          *)
LEMMA PowerOfSum ==
  ASSUME NEW a \in Nat, NEW b \in Nat
  PROVE  2 ^ (a + b) = 2 ^ a * 2 ^ b
  <1> DEFINE T == {n \in Nat : 2 ^ (a + n) = 2 ^ a * 2 ^ n}
  <1>1. 0 \in T
    <2>1. a + 0 = a /\ 2 ^ a * 1 = 2 ^ a
      BY PowerFacts
    <2> QED
      BY <2>1, PowerFacts
  <1>2. ASSUME NEW n \in Nat, n \in T PROVE n + 1 \in T
    <2>1. 2 ^ (a + n) \in Nat /\ 2 ^ a \in Nat /\ 2 ^ n \in Nat
      BY PowerFacts
    <2>2. 2 ^ ((a + n) + 1) = 2 * 2 ^ (a + n) /\ 2 ^ (n + 1) = 2 * 2 ^ n
      BY PowerFacts
    <2>3. a + (n + 1) = (a + n) + 1
      OBVIOUS
    <2>4. 2 * (2 ^ a * 2 ^ n) = 2 ^ a * (2 * 2 ^ n)
      BY <2>1
    <2> QED
      BY <1>2, <2>2, <2>3, <2>4
  <1>3. Nat \subseteq T
    <2> HIDE DEF T
    <2> QED
      BY <1>1, <1>2, NatSetInduction
  <1> QED
    BY <1>3

(* The same for an exponent that is a sum under another name.              *)
LEMMA PowerSplits ==
  ASSUME NEW a \in Nat, NEW b \in Nat, NEW c, c = a + b
  PROVE  2 ^ c = 2 ^ a * 2 ^ b
  BY PowerOfSum

(* They are positive, larger than their exponents, and grow.               *)
LEMMA PowerGrows ==
  /\ \A n \in Nat : 2 ^ n \in Nat /\ 1 <= 2 ^ n /\ n < 2 ^ n
  /\ \A a, b \in Nat : a < b => 2 ^ a < 2 ^ b
  <1> DEFINE T == {n \in Nat : 1 <= 2 ^ n /\ n < 2 ^ n}
  <1>1. 0 \in T
    BY PowerFacts
  <1>2. ASSUME NEW n \in Nat, n \in T PROVE n + 1 \in T
    <2>1. 2 ^ n \in Nat /\ 2 ^ (n + 1) = 2 * 2 ^ n
      BY PowerFacts
    <2> QED
      BY <1>2, <2>1
  <1>3. Nat \subseteq T
    <2> HIDE DEF T
    <2> QED
      BY <1>1, <1>2, NatSetInduction
  <1>4. ASSUME NEW n \in Nat PROVE 2 ^ n \in Nat /\ 1 <= 2 ^ n /\ n < 2 ^ n
    BY <1>3, PowerFacts
  <1>5. ASSUME NEW a \in Nat, NEW b \in Nat, a < b PROVE 2 ^ a < 2 ^ b
    <2>1. b - a \in Nat /\ b - a >= 1 /\ b = a + (b - a)
      BY <1>5
    <2>2. 2 ^ b = 2 ^ a * 2 ^ (b - a)
      BY <2>1, PowerOfSum
    <2> DEFINE A == 2 ^ a
               C == 2 ^ (b - a)
    <2>3. A \in Nat /\ 1 <= A /\ C \in Nat /\ b - a < C
      BY <1>4, <2>1
    <2>4. 2 <= C
      BY <2>1, <2>3
    <2> HIDE DEF A, C
    <2>5. A * C >= A * 2
      BY <2>3, <2>4
    <2>6. A < A * C
      BY <2>3, <2>5
    <2> QED
      BY <2>2, <2>6 DEF A, C
  <1> QED
    BY <1>4, <1>5

(* Different exponents have different powers.                              *)
LEMMA PowerOneToOne ==
  ASSUME NEW a \in Nat, NEW b \in Nat, 2 ^ a = 2 ^ b
  PROVE  a = b
  BY PowerGrows

(* A greater exponent does not make a smaller power.                       *)
LEMMA PowerNotLess ==
  ASSUME NEW a \in Nat, NEW b \in Nat, a <= b
  PROVE  2 ^ a <= 2 ^ b
  BY PowerGrows

(* What congruent numbers have in common.                                  *)
LEMMA AddMultiple ==
  ASSUME NEW m \in Nat, m > 0, NEW x \in Int, NEW q \in Int
  PROVE  (x + m * q) % m = x % m
  <1> DEFINE d == x \div m
             r == x % m
  <1>1. r \in 0 .. m - 1 /\ d \in Int /\ x = m * d + r
    BY Division
  <1> HIDE DEF d, r
  <1>2. m * (d + q) = m * d + m * q
    BY <1>1
  <1>3. x + m * q = m * (d + q) + r /\ d + q \in Int
    BY <1>1, <1>2
  <1>4. (m * (d + q) + r) % m = r
    BY <1>1, <1>3, DivisionIs
  <1> QED
    BY <1>3, <1>4 DEF r

(* A number less than the modulus is its own remainder.                    *)
LEMMA SmallRemainder ==
  ASSUME NEW m \in Nat, m > 0, NEW x \in 0 .. m - 1
  PROVE  x % m = x /\ x \div m = 0
  <1>1. x = m * 0 + x /\ 0 \in Int
    OBVIOUS
  <1> QED
    BY <1>1, DivisionIs

(* A remainder by a multiple has the remainder of the number.              *)
LEMMA RemainderOfRemainder ==
  ASSUME NEW m \in Nat, m > 0, NEW k \in Nat, k > 0, NEW x \in Int
  PROVE  (x % (m * k)) % m = x % m
  <1> DEFINE M == m * k
             q == x \div M
             r == x % M
  <1>1. M \in Nat /\ M > 0
    OBVIOUS
  <1>2. r \in 0 .. M - 1 /\ q \in Int /\ x = M * q + r
    <2> HIDE DEF M
    <2> QED
      BY <1>1, Division
  <1> HIDE DEF q, r
  <1>3. r \in Int
    BY <1>1, <1>2
  <1>4. M * q = m * (k * q) /\ k * q \in Int
    BY <1>2
  <1> HIDE DEF M
  <1>5. x = r + m * (k * q)
    BY <1>1, <1>2, <1>3, <1>4
  <1>6. (r + m * (k * q)) % m = r % m
    BY <1>3, <1>4, AddMultiple
  <1> QED
    BY <1>5, <1>6 DEF r, M

-----------------------------------------------------------------------------
(* The numbers of a type, and casts. *)

(* The numbers of a type: 2 ^ Bits(ty), half of them.                      *)
Size(ty) == 2 ^ Bits(ty)
Half(ty) == 2 ^ (Bits(ty) - 1)

(* A type has at least one bit and at most W64, and half of its numbers    *)
(* twice are all of them.                                                  *)
LEMMA WidthFacts ==
  ASSUME NEW ty
  PROVE  /\ Bits(ty) \in Nat /\ 1 <= Bits(ty) /\ Bits(ty) <= W64
         /\ Size(ty) \in Nat /\ Half(ty) \in Nat /\ 1 <= Half(ty)
         /\ Size(ty) = 2 * Half(ty) /\ Size(ty) > 0
  <1>1. Bits(ty) \in Nat /\ 1 <= Bits(ty) /\ Bits(ty) <= W64
    <2>1. Bits(ty) \in {1, W8, W32, W64}
      BY DEF Bits
    <2> QED
      BY <2>1, AlgebraAssumption
  <1>2. Bits(ty) - 1 \in Nat /\ (Bits(ty) - 1) + 1 = Bits(ty)
    BY <1>1
  <1>3. 2 ^ ((Bits(ty) - 1) + 1) = 2 * 2 ^ (Bits(ty) - 1)
    BY <1>2, PowerFacts
  <1>4. Half(ty) \in Nat /\ 1 <= Half(ty)
    BY <1>2, PowerGrows DEF Half
  <1>5. Size(ty) = 2 * Half(ty)
    BY <1>2, <1>3 DEF Size, Half
  <1> QED
    BY <1>1, <1>4, <1>5

(* The widest type has 2 ^ W64 numbers, a multiple of those of any other.  *)
LEMMA WidestFacts ==
  ASSUME NEW ty
  PROVE  /\ Bits("U64") = W64 /\ "U64" \notin Signed /\ Size("U64") = 2 ^ W64
         /\ \E k \in Nat : k > 0 /\ 2 ^ W64 = Size(ty) * k
         /\ W64 >= 3
  <1>1. Bits("U64") = W64 /\ "U64" \notin Signed /\ Size("U64") = 2 ^ W64
    BY DEF Bits, Signed, Size
  <1>2. W64 - Bits(ty) \in Nat /\ Bits(ty) + (W64 - Bits(ty)) = W64 /\ Bits(ty) \in Nat
    BY WidthFacts, AlgebraAssumption
  <1>3. 2 ^ W64 = 2 ^ Bits(ty) * 2 ^ (W64 - Bits(ty))
    BY <1>2, PowerOfSum
  <1>4. 2 ^ (W64 - Bits(ty)) \in Nat /\ 2 ^ (W64 - Bits(ty)) > 0
    BY <1>2, PowerGrows
  <1> QED
    BY <1>1, <1>3, <1>4, AlgebraAssumption DEF Size

(* A number converted to a type is the one of the type's numbers that is   *)
(* congruent to it.                                                        *)
InType(ty, n) ==
  IF ty \in Signed THEN -Half(ty) <= n /\ n < Half(ty) ELSE 0 <= n /\ n < Size(ty)

(* A cast yields a number of the type, congruent to what was cast.         *)
LEMMA CastFacts ==
  ASSUME NEW ty, NEW n \in Int
  PROVE  /\ Cast(ty, n) \in Int /\ InType(ty, Cast(ty, n))
         /\ Cast(ty, n) % Size(ty) = n % Size(ty)
  <1> DEFINE m == Size(ty)
             h == Half(ty)
             low == n % m
  <1>1. m \in Nat /\ m > 0 /\ h \in Nat /\ m = 2 * h /\ h >= 1
    BY WidthFacts
  <1>2. low \in 0 .. m - 1
    <2> HIDE DEF m
    <2> QED
      BY <1>1, Division
  <1>3. m \div 2 = h
    <2>1. m = 2 * h + 0 /\ 0 \in 0 .. 2 - 1 /\ h \in Int
      BY <1>1
    <2>2. (2 * h + 0) \div 2 = h
      BY <1>1, DivisionIs
    <2> QED
      BY <2>1, <2>2
  <1>4. Cast(ty, n) = IF ty \in Signed /\ low >= h THEN low - m ELSE low
    BY <1>3 DEF Cast, Size
  <1> HIDE DEF low, m, h
  <1>5. low % m = low
    BY <1>1, <1>2, SmallRemainder
  <1>6. (low - m) % m = low
    <2>1. low - m = low + m * (-1) /\ -1 \in Int /\ low \in Int
      BY <1>1, <1>2
    <2>2. (low + m * (-1)) % m = low % m
      BY <1>1, <1>2, AddMultiple
    <2> QED
      BY <1>5, <2>1, <2>2
  <1>7. Cast(ty, n) \in Int /\ Cast(ty, n) % m = low
    BY <1>1, <1>2, <1>4, <1>5, <1>6
  <1>8. IF ty \in Signed THEN -h <= Cast(ty, n) /\ Cast(ty, n) < h
        ELSE 0 <= Cast(ty, n) /\ Cast(ty, n) < m
    <2>1. CASE ty \in Signed /\ low >= h
      BY <1>1, <1>2, <1>4, <2>1
    <2>2. CASE ty \in Signed /\ ~(low >= h)
      BY <1>1, <1>2, <1>4, <2>2
    <2>3. CASE ty \notin Signed
      BY <1>1, <1>2, <1>4, <2>3
    <2> QED
      BY <2>1, <2>2, <2>3
  <1> QED
    BY <1>7, <1>8 DEF low, m, h, InType

(* Congruent numbers are cast to the same.                                 *)
LEMMA CastCongruent ==
  ASSUME NEW ty, NEW a \in Int, NEW b \in Int, a % Size(ty) = b % Size(ty)
  PROVE  Cast(ty, a) = Cast(ty, b)
  BY DEF Cast, Size

(* A number of the type is left alone.                                     *)
LEMMA CastOwn ==
  ASSUME NEW ty, NEW n \in Int, InType(ty, n)
  PROVE  Cast(ty, n) = n
  <1> DEFINE m == Size(ty)
             h == Half(ty)
  <1>1. m \in Nat /\ m > 0 /\ h \in Nat /\ m = 2 * h /\ h >= 1
    BY WidthFacts
  <1>2. m \div 2 = h
    <2>1. m = 2 * h + 0 /\ 0 \in 0 .. 2 - 1 /\ h \in Int
      BY <1>1
    <2>2. (2 * h + 0) \div 2 = h
      BY <1>1, DivisionIs
    <2> QED
      BY <2>1, <2>2
  <1>3. Cast(ty, n) = IF ty \in Signed /\ n % m >= h THEN (n % m) - m ELSE n % m
    BY <1>2 DEF Cast, Size
  <1>4. IF ty \in Signed THEN -h <= n /\ n < h ELSE 0 <= n /\ n < m
    BY DEF InType
  <1> HIDE DEF m, h
  <1>5. CASE n >= 0
    <2>1. n \in 0 .. m - 1
      BY <1>1, <1>4, <1>5
    <2>2. n % m = n
      BY <1>1, <2>1, SmallRemainder
    <2>3. ~(ty \in Signed /\ n >= h)
      BY <1>1, <1>4
    <2> QED
      BY <1>3, <2>2, <2>3
  <1>6. CASE n < 0
    <2>1. ty \in Signed /\ n + m \in 0 .. m - 1 /\ n + m >= h
      BY <1>1, <1>4, <1>6
    <2>2. \A q \in Int : (n + m * q) % m = n % m
      BY <1>1, AddMultiple
    <2>3. (n + m) % m = n % m
      <3> DEFINE one == 1
      <3>1. one \in Int /\ n + m = n + m * one
        BY <1>1
      <3> HIDE DEF one
      <3> QED
        BY <2>2, <3>1
    <2>4. (n + m) % m = n + m
      <3> DEFINE k == n + m
      <3>1. k \in 0 .. m - 1
        BY <2>1
      <3> HIDE DEF k
      <3>2. k % m = k
        BY <1>1, <3>1, SmallRemainder
      <3> QED
        BY <3>2 DEF k
    <2>5. n % m = n + m
      BY <2>3, <2>4
    <2>6. Cast(ty, n) = (n + m) - m
      BY <1>3, <2>1, <2>5
    <2> QED
      BY <1>1, <2>6
  <1> QED
    BY <1>5, <1>6

(* What every uint64_t keeps of a number.                                  *)
LEMMA CastWidest ==
  ASSUME NEW ty, NEW n \in Int
  PROVE  /\ Cast("U64", n) = n % 2 ^ W64
         /\ Cast("U64", n) \in 0 .. 2 ^ W64 - 1
         /\ Cast("U64", n) % Size(ty) = n % Size(ty)
  <1>1. Cast("U64", n) = n % 2 ^ W64
    BY WidestFacts DEF Cast
  <1>2. PICK k \in Nat : k > 0 /\ 2 ^ W64 = Size(ty) * k
    BY WidestFacts
  <1>3. Size(ty) \in Nat /\ Size(ty) > 0
    BY WidthFacts
  <1>4. (n % (Size(ty) * k)) % Size(ty) = n % Size(ty)
    BY <1>2, <1>3, RemainderOfRemainder
  <1>5. 2 ^ W64 \in Nat /\ 2 ^ W64 > 0
    BY AlgebraAssumption, PowerGrows
  <1>6. n % 2 ^ W64 \in 0 .. 2 ^ W64 - 1
    BY <1>5, Division
  <1> QED
    BY <1>1, <1>2, <1>4, <1>6

-----------------------------------------------------------------------------
(* Bitwise operations as sums of powers of two. *)

(* A sum s of the powers of two that f selects.                            *)
SumsUp(s, w, f) == s = [k \in 0 .. w |-> IF k = 0 THEN 0 ELSE s[k - 1] + f[k - 1] * 2 ^ (k - 1)]

(* There is such a sum (it cannot be had from its recursive definition     *)
(* alone).                                                                 *)
LEMMA SumExists ==
  ASSUME NEW w \in Nat, NEW f
  PROVE  \E s : SumsUp(s, w, f)
  <1> DEFINE T == {n \in Nat : \E s : SumsUp(s, n, f)}
  <1>1. 0 \in T
    <2> DEFINE s == [k \in 0 .. 0 |-> 0]
    <2>1. s = [k \in 0 .. 0 |-> IF k = 0 THEN 0 ELSE s[k - 1] + f[k - 1] * 2 ^ (k - 1)]
      OBVIOUS
    <2> QED
      BY <2>1 DEF SumsUp
  <1>2. ASSUME NEW n \in Nat, n \in T PROVE n + 1 \in T
    <2>1. PICK s : SumsUp(s, n, f)
      BY <1>2
    <2> DEFINE next == s[n] + f[n] * 2 ^ n
               t == [k \in 0 .. n + 1 |-> IF k = n + 1 THEN next ELSE s[k]]
    <2>2. \A k \in 0 .. n : s[k] = IF k = 0 THEN 0 ELSE s[k - 1] + f[k - 1] * 2 ^ (k - 1)
      BY <2>1 DEF SumsUp
    <2>3. ASSUME NEW k \in 0 .. n + 1
          PROVE  t[k] = IF k = 0 THEN 0 ELSE t[k - 1] + f[k - 1] * 2 ^ (k - 1)
      <3>1. CASE k = n + 1
        <4>1. k # 0 /\ k - 1 = n /\ t[n] = s[n] /\ t[k] = next
          BY <3>1
        <4> HIDE DEF t
        <4> QED
          BY <4>1
      <3>2. CASE k # n + 1
        <4>1. k \in 0 .. n /\ t[k] = s[k] /\ (k # 0 => t[k - 1] = s[k - 1])
          BY <3>2
        <4> HIDE DEF t
        <4> QED
          BY <2>2, <4>1
      <3> QED
        BY <3>1, <3>2
    <2>4. t = [k \in 0 .. n + 1 |-> t[k]]
      OBVIOUS
    <2> HIDE DEF t
    <2>5. SumsUp(t, n + 1, f)
      BY <2>3, <2>4 DEF SumsUp
    <2> QED
      BY <2>5
  <1>3. Nat \subseteq T
    <2> HIDE DEF T
    <2> QED
      BY <1>1, <1>2, NatSetInduction
  <1> QED
    BY <1>3

(* What Bitwise2 sums for each operation.                                  *)
BothBits(l, r, w) == [k \in 0 .. w - 1 |-> BitOf(l % 2 ^ w, k) * BitOf(r % 2 ^ w, k)]
EitherBits(l, r, w) ==
  [k \in 0 .. w - 1 |-> IF BitOf(l % 2 ^ w, k) + BitOf(r % 2 ^ w, k) = 0 THEN 0 ELSE 1]
OneBits(l, r, w) == [k \in 0 .. w - 1 |-> (BitOf(l % 2 ^ w, k) + BitOf(r % 2 ^ w, k)) % 2]

(* The bitwise operations are such sums.                                   *)
LEMMA BitwiseSums ==
  ASSUME NEW l, NEW r, NEW w \in Nat
  PROVE  /\ \E s : SumsUp(s, w, BothBits(l, r, w)) /\ Bitwise2("AND", l, r, w) = s[w]
         /\ \E s : SumsUp(s, w, EitherBits(l, r, w)) /\ Bitwise2("OR", l, r, w) = s[w]
         /\ \E s : SumsUp(s, w, OneBits(l, r, w)) /\ Bitwise2("XOR", l, r, w) = s[w]
  <1> DEFINE a(k) == BitOf(l % 2 ^ w, k)
             b(k) == BitOf(r % 2 ^ w, k)
             And(s) == [k \in 0 .. w |-> IF k = 0 THEN 0
                                         ELSE s[k - 1] + (a(k - 1) * b(k - 1)) * 2 ^ (k - 1)]
             Or(s) == [k \in 0 .. w |-> IF k = 0 THEN 0
                          ELSE s[k - 1] + (IF a(k - 1) + b(k - 1) = 0 THEN 0 ELSE 1) * 2 ^ (k - 1)]
             Xor(s) == [k \in 0 .. w |-> IF k = 0 THEN 0
                          ELSE s[k - 1] + ((a(k - 1) + b(k - 1)) % 2) * 2 ^ (k - 1)]
  <1>1. \A s : /\ SumsUp(s, w, BothBits(l, r, w)) <=> s = And(s)
               /\ SumsUp(s, w, EitherBits(l, r, w)) <=> s = Or(s)
               /\ SumsUp(s, w, OneBits(l, r, w)) <=> s = Xor(s)
    <2> TAKE s
    <2> HIDE DEF a, b
    <2>1. \A k \in 0 .. w : k # 0 => k - 1 \in 0 .. w - 1
      OBVIOUS
    <2>2. /\ BothBits(l, r, w) = [k \in 0 .. w - 1 |-> a(k) * b(k)]
          /\ EitherBits(l, r, w) = [k \in 0 .. w - 1 |-> IF a(k) + b(k) = 0 THEN 0 ELSE 1]
          /\ OneBits(l, r, w) = [k \in 0 .. w - 1 |-> (a(k) + b(k)) % 2]
      BY DEF BothBits, EitherBits, OneBits, a, b
    <2>3. \A k \in 0 .. w : k # 0 =>
             /\ BothBits(l, r, w)[k - 1] = a(k - 1) * b(k - 1)
             /\ EitherBits(l, r, w)[k - 1] = IF a(k - 1) + b(k - 1) = 0 THEN 0 ELSE 1
             /\ OneBits(l, r, w)[k - 1] = (a(k - 1) + b(k - 1)) % 2
      BY <2>1, <2>2
    <2>4. And(s) = [k \in 0 .. w |-> IF k = 0 THEN 0 ELSE s[k - 1] + BothBits(l, r, w)[k - 1] * 2 ^ (k - 1)]
      BY <2>3
    <2>5. Or(s) = [k \in 0 .. w |-> IF k = 0 THEN 0 ELSE s[k - 1] + EitherBits(l, r, w)[k - 1] * 2 ^ (k - 1)]
      BY <2>3
    <2>6. Xor(s) = [k \in 0 .. w |-> IF k = 0 THEN 0 ELSE s[k - 1] + OneBits(l, r, w)[k - 1] * 2 ^ (k - 1)]
      BY <2>3
    <2> QED
      BY <2>4, <2>5, <2>6 DEF SumsUp
  <1>2. /\ Bitwise2("AND", l, r, w) = (CHOOSE s : s = And(s))[w]
        /\ Bitwise2("OR", l, r, w) = (CHOOSE s : s = Or(s))[w]
        /\ Bitwise2("XOR", l, r, w) = (CHOOSE s : s = Xor(s))[w]
    BY DEF Bitwise2, SumOver
  <1> HIDE DEF And, Or, Xor
  <1>3. (\E s : s = And(s)) /\ (\E s : s = Or(s)) /\ (\E s : s = Xor(s))
    BY <1>1, SumExists
  <1> DEFINE sa == CHOOSE s : s = And(s)
             so == CHOOSE s : s = Or(s)
             sx == CHOOSE s : s = Xor(s)
  <1>4. sa = And(sa) /\ so = Or(so) /\ sx = Xor(sx)
    BY <1>3
  <1> HIDE DEF sa, so, sx
  <1>5. /\ SumsUp(sa, w, BothBits(l, r, w)) /\ SumsUp(so, w, EitherBits(l, r, w))
        /\ SumsUp(sx, w, OneBits(l, r, w))
    BY <1>1, <1>4
  <1> QED
    BY <1>2, <1>5 DEF sa, so, sx

(* Induction up to n.                                                      *)
LEMMA UpToInduction ==
  ASSUME NEW n \in Nat, NEW S, 0 \in S, \A k \in Nat : k < n /\ k \in S => k + 1 \in S
  PROVE  0 .. n \subseteq S
  <1> DEFINE T == {k \in Nat : k <= n => k \in S}
  <1>1. 0 \in T
    OBVIOUS
  <1>2. \A k \in Nat : k \in T => k + 1 \in T
    OBVIOUS
  <1>3. Nat \subseteq T
    <2> HIDE DEF T
    <2> QED
      BY <1>1, <1>2, NatSetInduction
  <1> QED
    BY <1>3

(* The sum begins at 0 and grows by the power that f selects.              *)
LEMMA SumStep ==
  ASSUME NEW s, NEW w \in Nat, NEW f, SumsUp(s, w, f)
  PROVE  s[0] = 0 /\ \A k \in Nat : k < w => s[k + 1] = s[k] + f[k] * 2 ^ k
  <1>1. \A k \in 0 .. w : s[k] = IF k = 0 THEN 0 ELSE s[k - 1] + f[k - 1] * 2 ^ (k - 1)
    BY DEF SumsUp
  <1>2. \A k \in Nat : k < w => k + 1 \in 0 .. w /\ k + 1 # 0 /\ (k + 1) - 1 = k
    OBVIOUS
  <1> QED
    BY <1>1, <1>2

(* It is a number.                                                         *)
LEMMA SumIsNumber ==
  ASSUME NEW s, NEW w \in Nat, NEW f, SumsUp(s, w, f), \A k \in 0 .. w - 1 : f[k] \in Int
  PROVE  s[w] \in Int
  <1> DEFINE S == {n \in 0 .. w : s[n] \in Int}
  <1>1. 0 \in S
    BY SumStep
  <1>2. ASSUME NEW k \in Nat, k < w, k \in S PROVE k + 1 \in S
    <2>1. s[k + 1] = s[k] + f[k] * 2 ^ k
      BY <1>2, SumStep
    <2>2. k \in 0 .. w - 1 /\ k + 1 \in 0 .. w
      BY <1>2
    <2>3. f[k] \in Int /\ 2 ^ k \in Int /\ s[k] \in Int
      BY <1>2, <2>2, PowerFacts
    <2>4. s[k] + f[k] * 2 ^ k \in Int
      BY <2>3
    <2> QED
      BY <2>1, <2>2, <2>4
  <1>3. 0 .. w \subseteq S
    <2> HIDE DEF S
    <2> QED
      BY <1>1, <1>2, UpToInduction
  <1> QED
    BY <1>3

(* It is 0 when f selects nothing.                                         *)
LEMMA SumOfZeros ==
  ASSUME NEW s, NEW w \in Nat, NEW f, SumsUp(s, w, f), \A k \in 0 .. w - 1 : f[k] = 0
  PROVE  s[w] = 0
  <1> DEFINE S == {n \in 0 .. w : s[n] = 0}
  <1>1. 0 \in S
    BY SumStep
  <1>2. ASSUME NEW k \in Nat, k < w, k \in S PROVE k + 1 \in S
    <2>1. s[k + 1] = s[k] + f[k] * 2 ^ k
      BY <1>2, SumStep
    <2>2. k \in 0 .. w - 1 /\ k + 1 \in 0 .. w /\ 2 ^ k \in Int
      BY <1>2, PowerFacts
    <2>3. f[k] = 0 /\ s[k] = 0 /\ 0 + 0 * 2 ^ k = 0
      BY <1>2, <2>2
    <2> QED
      BY <2>1, <2>2, <2>3
  <1>3. 0 .. w \subseteq S
    <2> HIDE DEF S
    <2> QED
      BY <1>1, <1>2, UpToInduction
  <1> QED
    BY <1>3

(* A remainder by a power of two, and the bit above it.                    *)
LEMMA NextBit ==
  ASSUME NEW a \in Int, NEW n \in Nat
  PROVE  BitOf(a, n) \in {0, 1} /\ a % 2 ^ (n + 1) = (a % 2 ^ n) + BitOf(a, n) * 2 ^ n
  <1> DEFINE M == 2 ^ n
             q == a \div M
             r == a % M
             h == q \div 2
             c == q % 2
  <1>1. M \in Nat /\ M > 0 /\ 2 ^ (n + 1) = 2 * M
    BY PowerGrows, PowerFacts
  <1>2. q \in Int /\ r \in 0 .. M - 1 /\ a = M * q + r
    <2> HIDE DEF M
    <2> QED
      BY <1>1, Division
  <1>3. BitOf(a, n) = c
    BY DEF BitOf
  <1> HIDE DEF M, q, r
  <1>4. h \in Int /\ c \in 0 .. 2 - 1 /\ q = 2 * h + c
    <2> DEFINE two == 2
    <2>1. two \in Nat /\ two > 0
      OBVIOUS
    <2>2. q % two \in 0 .. two - 1 /\ q \div two \in Int /\ q = two * (q \div two) + (q % two)
      <3> HIDE DEF two
      <3> QED
        BY <1>2, <2>1, Division
    <2> QED
      BY <2>2
  <1> HIDE DEF h, c
  <1>5. c \in {0, 1}
    BY <1>4
  <1>6. M * (2 * h + c) = (2 * M) * h + c * M
    BY <1>1, <1>4, <1>5
  <1>7. c * M + r \in 0 .. 2 * M - 1
    <2>1. CASE c = 0
      BY <1>1, <1>2, <2>1
    <2>2. CASE c = 1
      BY <1>1, <1>2, <2>2
    <2> QED
      BY <1>5, <2>1, <2>2
  <1>8. a = (2 * M) * h + (c * M + r)
    <2>1. c * M \in Int /\ (2 * M) * h \in Int /\ r \in Int
      BY <1>1, <1>2, <1>4, <1>5
    <2> QED
      BY <1>2, <1>4, <1>6, <2>1
  <1>9. 2 * M \in Nat /\ 2 * M > 0
    BY <1>1
  <1>10. a % (2 * M) = c * M + r
    BY <1>4, <1>7, <1>8, <1>9, DivisionIs
  <1>11. c * M + r = r + c * M
    BY <1>1, <1>2, <1>5
  <1> QED
    BY <1>1, <1>3, <1>5, <1>10, <1>11 DEF M, r

(* The lowest j bits of a number add up to its remainder by 2 ^ j.         *)
LEMMA LowBits ==
  ASSUME NEW s, NEW w \in Nat, NEW f, SumsUp(s, w, f), NEW a \in Int, NEW j \in 0 .. w,
         \A k \in 0 .. w - 1 : f[k] = IF k < j THEN BitOf(a, k) ELSE 0
  PROVE  s[w] = a % 2 ^ j
  <1> DEFINE S == {n \in 0 .. w : s[n] = IF n < j THEN a % 2 ^ n ELSE a % 2 ^ j}
  <1>1. 0 \in S
    <2>1. a % 2 ^ 0 = 0
      <3> DEFINE one == 1
      <3>1. one \in Nat /\ one > 0
        OBVIOUS
      <3>2. a % one \in 0 .. one - 1
        <4> HIDE DEF one
        <4> QED
          BY <3>1, Division
      <3>3. a % 1 = 0
        BY <3>2
      <3> QED
        BY <3>3, PowerFacts
    <2>2. s[0] = 0 /\ 0 \in 0 .. w
      BY SumStep
    <2>3. CASE j = 0
      BY <2>1, <2>2, <2>3
    <2>4. CASE j # 0
      <3>1. 0 < j
        BY <2>4
      <3> QED
        BY <2>1, <2>2, <3>1
    <2> QED
      BY <2>3, <2>4
  <1>2. ASSUME NEW k \in Nat, k < w, k \in S PROVE k + 1 \in S
    <2>1. s[k + 1] = s[k] + f[k] * 2 ^ k
      BY <1>2, SumStep
    <2>2. k \in 0 .. w - 1 /\ k + 1 \in 0 .. w /\ 2 ^ k \in Int
      BY <1>2, PowerFacts
    <2>3. CASE k < j
      <3>1. s[k] = a % 2 ^ k /\ f[k] = BitOf(a, k)
        BY <1>2, <2>2, <2>3
      <3>2. s[k + 1] = a % 2 ^ (k + 1)
        BY <2>1, <3>1, NextBit
      <3>3. k + 1 < j \/ k + 1 = j
        BY <2>3
      <3> QED
        BY <2>2, <3>2, <3>3
    <2>4. CASE ~(k < j)
      <3>1. s[k] = a % 2 ^ j /\ f[k] = 0 /\ ~(k + 1 < j)
        BY <1>2, <2>2, <2>4
      <3>2. a % 2 ^ j \in Int
        <4>1. 2 ^ j \in Nat /\ 2 ^ j > 0
          BY PowerGrows
        <4>2. a % 2 ^ j \in 0 .. 2 ^ j - 1
          BY <4>1, Division
        <4> QED
          BY <4>1, <4>2
      <3>3. 0 * 2 ^ k = 0
        BY <2>2
      <3>4. s[k + 1] = a % 2 ^ j
        BY <2>1, <3>1, <3>2, <3>3
      <3> QED
        BY <2>2, <3>1, <3>4
    <2> QED
      BY <2>3, <2>4
  <1>3. 0 .. w \subseteq S
    <2> HIDE DEF S
    <2> QED
      BY <1>1, <1>2, UpToInduction
  <1> QED
    BY <1>3

(* The bits of 2 ^ j - 1 are its lowest j.                                 *)
LEMMA MaskBits ==
  ASSUME NEW j \in Nat, NEW k \in Nat
  PROVE  BitOf(2 ^ j - 1, k) = IF k < j THEN 1 ELSE 0
  <1>1. CASE k < j
    <2> DEFINE A == 2 ^ k
               B == 2 ^ (j - k - 1)
    <2>1. /\ j - k - 1 \in Nat /\ (j - k - 1) + 1 \in Nat
          /\ j = k + ((j - k - 1) + 1)
      BY <1>1
    <2>2. A \in Nat /\ 1 <= A /\ B \in Nat /\ 1 <= B
      BY <2>1, PowerGrows
    <2>3. 2 ^ ((j - k - 1) + 1) = 2 * B
      BY <2>1, PowerFacts
    <2>4. 2 ^ j = A * (2 * B)
      <3> DEFINE d == (j - k - 1) + 1
      <3>1. d \in Nat /\ j = k + d /\ 2 ^ d = 2 * B
        BY <2>1, <2>3
      <3> HIDE DEF d, B
      <3>2. 2 ^ j = 2 ^ k * 2 ^ d
        BY <3>1, PowerSplits
      <3> QED
        BY <3>1, <3>2
    <2> HIDE DEF A, B
    <2> DEFINE q == 2 * (B - 1) + 1
    <2>5. A * q = A * (2 * B) - A
      BY <2>2
    <2>6. 2 ^ j - 1 = A * q + (A - 1)
      <3>1. A * (2 * B) \in Int
        BY <2>2
      <3> QED
        BY <2>2, <2>4, <2>5, <3>1
    <2>7. q \in Int /\ A - 1 \in 0 .. A - 1 /\ A > 0
      BY <2>2
    <2>8. (A * q + (A - 1)) \div A = q
      <3> HIDE DEF q
      <3> QED
        BY <2>2, <2>7, DivisionIs
    <2>9. q % 2 = 1
      BY <2>2
    <2>10. BitOf(2 ^ j - 1, k) = ((2 ^ j - 1) \div A) % 2
      BY DEF BitOf, A
    <2> QED
      BY <1>1, <2>6, <2>8, <2>9, <2>10
  <1>2. CASE ~(k < j)
    <2>1. 2 ^ j \in Nat /\ 2 ^ k \in Nat /\ 2 ^ j >= 1 /\ 2 ^ k > 0 /\ 2 ^ j <= 2 ^ k
      BY <1>2, PowerGrows, PowerNotLess
    <2>2. 2 ^ j - 1 \in 0 .. 2 ^ k - 1
      BY <2>1
    <2>3. (2 ^ j - 1) \div 2 ^ k = 0
      BY <2>1, <2>2, SmallRemainder
    <2>4. 0 % 2 = 0
      OBVIOUS
    <2> QED
      BY <1>2, <2>3, <2>4 DEF BitOf
  <1> QED
    BY <1>1, <1>2

(* A bit is 0 or 1.                                                        *)
LEMMA BitOfFacts ==
  ASSUME NEW a \in Int, NEW k \in Nat
  PROVE  BitOf(a, k) \in {0, 1}
  BY NextBit

(* A bitwise operation gives a number; x ^ x is 0; the conjunction with    *)
(* 2 ^ j - 1 is the remainder by 2 ^ j.                                    *)
LEMMA BitwiseIsNumber ==
  ASSUME NEW l \in Int, NEW r \in Int, NEW w \in Nat, NEW op \in {"AND", "OR", "XOR"}
  PROVE  Bitwise2(op, l, r, w) \in Int
  <1>1. 2 ^ w \in Nat /\ 2 ^ w > 0
    BY PowerGrows
  <1>2. l % 2 ^ w \in Int /\ r % 2 ^ w \in Int
    <2>1. l % 2 ^ w \in 0 .. 2 ^ w - 1 /\ r % 2 ^ w \in 0 .. 2 ^ w - 1
      BY <1>1, Division
    <2> QED
      BY <1>1, <2>1
  <1> DEFINE x == l % 2 ^ w
             y == r % 2 ^ w
  <1>3. \A k \in 0 .. w - 1 : BitOf(x, k) \in {0, 1} /\ BitOf(y, k) \in {0, 1}
    <2> HIDE DEF x, y
    <2>1. x \in Int /\ y \in Int
      BY <1>2 DEF x, y
    <2>2. \A k \in 0 .. w - 1 : k \in Nat
      OBVIOUS
    <2> QED
      BY <2>1, <2>2, BitOfFacts
  <1>4. \A k \in 0 .. w - 1 : /\ BothBits(l, r, w)[k] = BitOf(x, k) * BitOf(y, k)
                              /\ EitherBits(l, r, w)[k] \in {0, 1}
                              /\ OneBits(l, r, w)[k] = (BitOf(x, k) + BitOf(y, k)) % 2
    BY DEF BothBits, EitherBits, OneBits
  <1> HIDE DEF x, y
  <1>5. \A k \in 0 .. w - 1 : /\ BothBits(l, r, w)[k] \in Int
                              /\ EitherBits(l, r, w)[k] \in Int
                              /\ OneBits(l, r, w)[k] \in Int
    BY <1>3, <1>4
  <1>6. /\ \E s : SumsUp(s, w, BothBits(l, r, w)) /\ Bitwise2("AND", l, r, w) = s[w]
        /\ \E s : SumsUp(s, w, EitherBits(l, r, w)) /\ Bitwise2("OR", l, r, w) = s[w]
        /\ \E s : SumsUp(s, w, OneBits(l, r, w)) /\ Bitwise2("XOR", l, r, w) = s[w]
    BY BitwiseSums
  <1>7. Bitwise2("AND", l, r, w) \in Int
    BY <1>5, <1>6, SumIsNumber
  <1>8. Bitwise2("OR", l, r, w) \in Int
    BY <1>5, <1>6, SumIsNumber
  <1>9. Bitwise2("XOR", l, r, w) \in Int
    BY <1>5, <1>6, SumIsNumber
  <1> QED
    BY <1>7, <1>8, <1>9

(* x ^ x is 0.                                                             *)
LEMMA XorWithItself ==
  ASSUME NEW l \in Int, NEW w \in Nat
  PROVE  Bitwise2("XOR", l, l, w) = 0
  <1>1. PICK s : SumsUp(s, w, OneBits(l, l, w)) /\ Bitwise2("XOR", l, l, w) = s[w]
    BY BitwiseSums
  <1> DEFINE x == l % 2 ^ w
  <1>2. x \in Int
    <2>1. 2 ^ w \in Nat /\ 2 ^ w > 0
      BY PowerGrows
    <2>2. l % 2 ^ w \in 0 .. 2 ^ w - 1
      BY <2>1, Division
    <2> QED
      BY <2>1, <2>2
  <1>3. \A k \in 0 .. w - 1 : OneBits(l, l, w)[k] = (BitOf(x, k) + BitOf(x, k)) % 2
    BY DEF OneBits
  <1> HIDE DEF x
  <1>4. \A k \in 0 .. w - 1 : BitOf(x, k) \in {0, 1}
    <2>1. \A k \in 0 .. w - 1 : k \in Nat
      OBVIOUS
    <2> QED
      BY <1>2, <2>1, BitOfFacts
  <1>5. \A k \in 0 .. w - 1 : OneBits(l, l, w)[k] = 0
    BY <1>3, <1>4
  <1> QED
    BY <1>1, <1>5, SumOfZeros

(* x & (2^j - 1) is the remainder of x.                                    *)
LEMMA AndWithMask ==
  ASSUME NEW l \in Int, NEW w \in Nat, NEW j \in 0 .. w
  PROVE  Bitwise2("AND", l, 2 ^ j - 1, w) = l % 2 ^ j
  <1> DEFINE x == l % 2 ^ w
             y == (2 ^ j - 1) % 2 ^ w
  <1>1. /\ 2 ^ w \in Nat /\ 2 ^ w > 0 /\ 2 ^ j \in Nat /\ 2 ^ j >= 1 /\ 2 ^ j <= 2 ^ w
        /\ j \in Nat /\ w - j \in Nat /\ w = j + (w - j)
    BY PowerGrows, PowerNotLess
  <1>2. x \in Int
    <2>1. l % 2 ^ w \in 0 .. 2 ^ w - 1
      BY <1>1, Division
    <2> QED
      BY <1>1, <2>1
  <1>3. y = 2 ^ j - 1
    <2>1. 2 ^ j - 1 \in 0 .. 2 ^ w - 1
      BY <1>1
    <2> QED
      BY <1>1, <2>1, SmallRemainder
  <1>4. x % 2 ^ j = l % 2 ^ j
    <2> DEFINE d == w - j
               A == 2 ^ j
               B == 2 ^ d
    <2>1. d \in Nat /\ w = j + d
      BY <1>1
    <2> HIDE DEF d
    <2>2. 2 ^ w = A * B
      BY <1>1, <2>1, PowerSplits
    <2>3. A \in Nat /\ A > 0 /\ B \in Nat /\ B > 0
      BY <1>1, <2>1, PowerGrows
    <2> HIDE DEF A, B
    <2>4. (l % (A * B)) % A = l % A
      BY <2>3, RemainderOfRemainder
    <2>5. x % A = l % A
      BY <2>2, <2>4
    <2> QED
      BY <2>5 DEF A
  <1>5. PICK s : SumsUp(s, w, BothBits(l, 2 ^ j - 1, w)) /\ Bitwise2("AND", l, 2 ^ j - 1, w) = s[w]
    BY BitwiseSums
  <1> DEFINE f == BothBits(l, 2 ^ j - 1, w)
  <1>6. \A k \in 0 .. w - 1 : f[k] = BitOf(x, k) * BitOf(y, k)
    BY DEF BothBits
  <1> HIDE DEF x, y, f
  <1>7. ASSUME NEW k \in 0 .. w - 1 PROVE f[k] = IF k < j THEN BitOf(x, k) ELSE 0
    <2>1. k \in Nat
      OBVIOUS
    <2>2. BitOf(x, k) \in {0, 1} /\ BitOf(y, k) = IF k < j THEN 1 ELSE 0
      BY <1>1, <1>2, <1>3, <2>1, BitOfFacts, MaskBits
    <2> QED
      BY <1>6, <2>2
  <1>8. s[w] = x % 2 ^ j
    BY <1>2, <1>5, <1>7, LowBits DEF f
  <1> QED
    BY <1>4, <1>5, <1>8

-----------------------------------------------------------------------------
(* What nodes compute. *)

(* Bits of a type, or no number at all.                                    *)
MaybeBits(ty, n) == n = NoNumber \/ n \in 0 .. Size(ty) - 1

(* The registers before node i hold bits of their types.                   *)
Typable(regs, i, types) == \A k \in 1 .. i - 1 : MaybeBits(types[k], regs[k])

(* The constants of a node are numbers, and it is no cast to i1.           *)
Sound(e) ==
  /\ \A j \in DOMAIN e.args : e.args[j].cls = "val" => e.args[j].n \in Int
  /\ e.op = "cast" => e.ty # "BOOL"

(* Bits are not NoNumber.                                                  *)
LEMMA NoNumberIsNone ==
  ASSUME NEW ty, NEW n \in 0 .. Size(ty) - 1
  PROVE  n # NoNumber /\ n \in Int /\ 0 <= n /\ n < Size(ty)
  BY WidthFacts DEF NoNumber

(* The lowest bits of a number are bits of the type.                       *)
LEMMA RemainderInType ==
  ASSUME NEW ty, NEW n \in Int
  PROVE  n % Size(ty) \in 0 .. Size(ty) - 1
  BY WidthFacts, Division

(* The bits of a constant are those of its number.                         *)
LEMMA ConstantBits ==
  ASSUME NEW v, v.cls = "val", v.n \in Int, NEW regs, NEW x
  PROVE  ValueBits(v, regs, x) = v.n % Size(v.ty)
  <1>1. ValueBits(v, regs, x) = Cast("U64", v.n) % 2 ^ Bits(v.ty)
    BY DEF ValueBits
  <1> QED
    BY <1>1, CastWidest DEF Size

(* An operand holds bits of its type, or nothing.                          *)
LEMMA OperandBits ==
  ASSUME NEW v, NEW i, NEW types, IsOperand(v, i, types), v.cls = "val" => v.n \in Int,
         NEW regs, Typable(regs, i, types), NEW x \in Inputs
  PROVE  MaybeBits(v.ty, ValueBits(v, regs, x))
  <1>1. CASE v.cls = "val"
    BY <1>1, ConstantBits, RemainderInType DEF MaybeBits
  <1>2. CASE v.cls = "param"
    <2>1. x \in Int
      BY AlgebraAssumption, PowerGrows DEF Inputs
    <2>2. ValueBits(v, regs, x) = x % Size(v.ty)
      BY <1>2 DEF ValueBits, Size
    <2> QED
      BY <2>1, <2>2, RemainderInType DEF MaybeBits
  <1>3. CASE v.cls = "reg"
    <2>1. ValueBits(v, regs, x) = regs[v.n]
      BY <1>3 DEF ValueBits
    <2>2. v.n \in 1 .. i - 1 /\ v.ty = types[v.n]
      BY <1>3 DEF IsOperand
    <2> QED
      BY <2>1, <2>2 DEF Typable
  <1> QED
    BY <1>1, <1>2, <1>3 DEF IsOperand

(* What each kind of node computes from its operands.                      *)
LEMMA MovBits ==
  ASSUME NEW e, NEW v, e.op = "MOV", e.args = <<v>>, NEW regs, NEW x
  PROVE  NodeBits(e, regs, x) = ValueBits(v, regs, x)
  <1> DEFINE arg == [i \in DOMAIN e.args |-> ValueBits(e.args[i], regs, x)]
  <1>1. DOMAIN arg = {1} /\ arg[1] = ValueBits(v, regs, x)
    OBVIOUS
  <1>2. NodeBits(e, regs, x) =
          IF e.op = Fault \/ \E i \in DOMAIN arg : arg[i] = NoNumber THEN NoNumber ELSE arg[1]
    BY DEF NodeBits
  <1> HIDE DEF arg
  <1> QED
    BY <1>1, <1>2 DEF Fault

(* A failed node computes nothing.                                         *)
LEMMA FaultBits ==
  ASSUME NEW e, e.op = Fault, NEW regs, NEW x
  PROVE  NodeBits(e, regs, x) = NoNumber
  BY DEF NodeBits

(* A cast computes the bits CastBits gives.                                *)
LEMMA CastNodeBits ==
  ASSUME NEW e, e.op = "cast", DOMAIN e.args = 1 .. 1, NEW regs, NEW x
  PROVE  LET a == ValueBits(e.args[1], regs, x)
         IN  NodeBits(e, regs, x) =
               IF a = NoNumber THEN NoNumber ELSE CastBits(e.args[1].ty, e.ty, a)
  <1> DEFINE arg == [i \in DOMAIN e.args |-> ValueBits(e.args[i], regs, x)]
  <1>1. DOMAIN arg = {1} /\ arg[1] = ValueBits(e.args[1], regs, x)
    OBVIOUS
  <1>2. NodeBits(e, regs, x) =
          IF e.op = Fault \/ \E i \in DOMAIN arg : arg[i] = NoNumber THEN NoNumber
          ELSE CastBits(e.args[1].ty, e.ty, arg[1])
    BY DEF NodeBits
  <1> HIDE DEF arg
  <1> QED
    BY <1>1, <1>2 DEF Fault

(* An operation computes the bits OperBits gives.                          *)
LEMMA OperationBits ==
  ASSUME NEW e, e.op \in BinaryOps, DOMAIN e.args = 1 .. 2, NEW regs, NEW x
  PROVE  LET a == ValueBits(e.args[1], regs, x)
             b == ValueBits(e.args[2], regs, x)
         IN  NodeBits(e, regs, x) =
               IF a = NoNumber \/ b = NoNumber THEN NoNumber ELSE OperBits(e, a, b)
  <1> DEFINE arg == [i \in DOMAIN e.args |-> ValueBits(e.args[i], regs, x)]
  <1>1. /\ DOMAIN arg = {1, 2} /\ arg[1] = ValueBits(e.args[1], regs, x)
        /\ arg[2] = ValueBits(e.args[2], regs, x)
    OBVIOUS
  <1>2. e.op # Fault /\ e.op # "MOV" /\ e.op # "cast"
    BY DEF BinaryOps, GeneralOps, IntegerOps, CompareOps, Fault
  <1>3. NodeBits(e, regs, x) =
          IF \E i \in DOMAIN arg : arg[i] = NoNumber THEN NoNumber
          ELSE OperBits(e, arg[1], arg[2])
    BY <1>2 DEF NodeBits
  <1> HIDE DEF arg
  <1> QED
    BY <1>1, <1>3

(* The number of an operation before it is cut down to its type.           *)
Exact(op, l, r, ty) ==
  CASE op = "ADD" -> l + r
    [] op = "SUB" -> l - r
    [] op = "MUL" -> l * r
    [] op = "DIV" -> Quotient(l, r)
    [] op = "REM" -> Remainder(l, r)
    [] op = "SHL" -> l * 2 ^ r
    [] op = "SHR" -> l \div 2 ^ r
    [] OTHER -> Bitwise2(op, l, r, Bits(ty))

(* The folder casts that number to the type.                               *)
LEMMA ComputeExact ==
  ASSUME NEW op, NEW l, NEW r, NEW ty
  PROVE  Compute(op, l, r, ty) = Cast(ty, Exact(op, l, r, ty))
  BY DEF Compute, Exact

(* The quotient and the remainder by a divisor that is not zero are        *)
(* numbers.                                                                *)
LEMMA QuotientFacts ==
  ASSUME NEW l \in Int, NEW r \in Int, r # 0
  PROVE  Quotient(l, r) \in Int /\ Remainder(l, r) \in Int
  <1>1. AbsVal(l) \in Int /\ AbsVal(r) \in Nat /\ AbsVal(r) > 0
    BY DEF AbsVal
  <1>2. AbsVal(l) \div AbsVal(r) \in Int
    BY <1>1, Division
  <1>3. Quotient(l, r) \in Int
    BY <1>2 DEF Quotient
  <1>4. r * Quotient(l, r) \in Int
    BY <1>3
  <1> QED
    BY <1>3, <1>4 DEF Remainder

(* An operation that has a result has a number for it.                     *)
LEMMA ExactIsNumber ==
  ASSUME NEW op \in GeneralOps \cup IntegerOps, NEW l \in Int, NEW r \in Int, NEW ty,
         ~NoResult(op, l, r, ty)
  PROVE  Exact(op, l, r, ty) \in Int
  <1>1. CASE op \in {"ADD", "SUB", "MUL"}
    BY <1>1 DEF Exact
  <1>2. CASE op \in {"DIV", "REM"}
    <2>1. r # 0
      BY <1>2 DEF NoResult
    <2>2. Exact(op, l, r, ty) \in {Quotient(l, r), Remainder(l, r)}
      BY <1>2 DEF Exact
    <2> QED
      BY <2>1, <2>2, QuotientFacts
  <1>3. CASE op \in {"SHL", "SHR"}
    <2>1. r \in 0 .. Bits(ty) - 1
      BY <1>3 DEF NoResult
    <2>2. r \in Nat
      BY <2>1, WidthFacts
    <2>3. 2 ^ r \in Nat /\ 2 ^ r > 0
      BY <2>2, PowerGrows
    <2>4. l * 2 ^ r \in Int /\ l \div 2 ^ r \in Int
      BY <2>3, Division
    <2>5. Exact(op, l, r, ty) \in {l * 2 ^ r, l \div 2 ^ r}
      BY <1>3 DEF Exact
    <2> QED
      BY <2>4, <2>5
  <1>4. CASE op \in {"AND", "OR", "XOR"}
    <2>1. Exact(op, l, r, ty) = Bitwise2(op, l, r, Bits(ty))
      BY <1>4 DEF Exact
    <2> QED
      BY <1>4, <2>1, WidthFacts, BitwiseIsNumber
  <1> QED
    BY <1>1, <1>2, <1>3, <1>4 DEF GeneralOps, IntegerOps

(* The bits of an operation on the bits l and r of type ty.                *)
LEMMA ArithmeticBits ==
  ASSUME NEW e, e.op \in GeneralOps \cup IntegerOps, NEW l \in Int, NEW r \in Int
  PROVE  LET ty == e.args[1].ty
             a == Cast(ty, l)
             b == Cast(ty, r)
         IN  /\ OperBits(e, l, r) =
                  IF NoResult(e.op, a, b, ty) THEN NoNumber
                  ELSE Exact(e.op, a, b, ty) % Size(ty)
             /\ ~NoResult(e.op, a, b, ty) => Exact(e.op, a, b, ty) \in Int
  <1> DEFINE ty == e.args[1].ty
             a == Cast(ty, l)
             b == Cast(ty, r)
  <1>1. e.op \notin CompareOps
    BY DEF GeneralOps, IntegerOps, CompareOps
  <1>2. a \in Int /\ b \in Int
    BY CastFacts
  <1>3. OperBits(e, l, r) = IF NoResult(e.op, a, b, ty) THEN NoNumber
                            ELSE Compute(e.op, a, b, ty) % Size(ty)
    BY <1>1 DEF OperBits, Size
  <1> HIDE DEF ty, a, b
  <1>4. ~NoResult(e.op, a, b, ty) => Exact(e.op, a, b, ty) \in Int
    BY <1>2, ExactIsNumber
  <1>5. ~NoResult(e.op, a, b, ty) =>
          Compute(e.op, a, b, ty) % Size(ty) = Exact(e.op, a, b, ty) % Size(ty)
    BY <1>4, ComputeExact, CastFacts
  <1> QED
    BY <1>3, <1>4, <1>5 DEF ty, a, b

(* Every node computes bits of its type, or nothing.                       *)
LEMMA NodeComputes ==
  ASSUME NEW e, NEW i, NEW types, IsNode(e, i, types), Sound(e),
         NEW regs, Typable(regs, i, types), NEW x \in Inputs
  PROVE  MaybeBits(e.ty, NodeBits(e, regs, x))
  <1>1. \A j \in DOMAIN e.args : MaybeBits(e.args[j].ty, ValueBits(e.args[j], regs, x))
    BY OperandBits DEF IsNode, Sound
  <1>2. CASE e.op = "MOV"
    <2>1. DOMAIN e.args = 1 .. 1 /\ e.args[1].ty = e.ty
      BY <1>2 DEF IsNode, Typed
    <2> DEFINE arg == [k \in DOMAIN e.args |-> ValueBits(e.args[k], regs, x)]
    <2>2. NodeBits(e, regs, x) =
            IF e.op = Fault \/ \E k \in DOMAIN arg : arg[k] = NoNumber THEN NoNumber ELSE arg[1]
      BY <1>2 DEF NodeBits
    <2>3. arg[1] = ValueBits(e.args[1], regs, x)
      BY <2>1
    <2> HIDE DEF arg
    <2> QED
      BY <1>1, <2>1, <2>2, <2>3 DEF MaybeBits
  <1>3. CASE e.op = "cast"
    <2>1. DOMAIN e.args = 1 .. 1
      BY <1>3 DEF IsNode, Typed
    <2> DEFINE a == ValueBits(e.args[1], regs, x)
    <2>2. MaybeBits(e.args[1].ty, a)
      BY <1>1, <2>1
    <2>3. NodeBits(e, regs, x) =
            IF a = NoNumber THEN NoNumber ELSE CastBits(e.args[1].ty, e.ty, a)
      BY <1>3, <2>1, CastNodeBits
    <2> HIDE DEF a
    <2>4. a # NoNumber => a \in Int
      BY <2>2, NoNumberIsNone DEF MaybeBits
    <2>5. a # NoNumber => CastBits(e.args[1].ty, e.ty, a) \in
                            {Cast(e.args[1].ty, a) % Size(e.ty), a % Size(e.ty)}
      BY DEF CastBits, Size
    <2>6. a # NoNumber => CastBits(e.args[1].ty, e.ty, a) \in 0 .. Size(e.ty) - 1
      BY <2>4, <2>5, CastFacts, RemainderInType
    <2> QED
      BY <2>3, <2>6 DEF MaybeBits
  <1>4. CASE e.op = Fault
    BY <1>4, FaultBits DEF MaybeBits
  <1>5. CASE e.op \in BinaryOps
    <2>1. DOMAIN e.args = 1 .. 2
      BY <1>5 DEF IsNode, Typed
    <2> DEFINE a == ValueBits(e.args[1], regs, x)
               b == ValueBits(e.args[2], regs, x)
    <2>2. MaybeBits(e.args[1].ty, a) /\ MaybeBits(e.args[2].ty, b)
      BY <1>1, <2>1
    <2>3. NodeBits(e, regs, x) =
            IF a = NoNumber \/ b = NoNumber THEN NoNumber ELSE OperBits(e, a, b)
      BY <1>5, <2>1, OperationBits
    <2> HIDE DEF a, b
    <2>4. (a # NoNumber => a \in Int) /\ (b # NoNumber => b \in Int)
      BY <2>2, NoNumberIsNone DEF MaybeBits
    <2>5. CASE e.op \in CompareOps
      <3>1. e.ty = "BOOL" /\ OperBits(e, a, b) \in {0, 1}
        BY <1>5, <2>5 DEF IsNode, Typed, OperBits
      <3>2. Size("BOOL") = 2
        <4>1. Bits("BOOL") = 1
          BY DEF Bits
        <4> DEFINE n == 0
        <4>2. n \in Nat /\ n + 1 = Bits("BOOL") /\ 2 ^ n = 1
          BY <4>1, PowerFacts
        <4> HIDE DEF n
        <4>3. 2 ^ (n + 1) = 2 * 2 ^ n
          BY <4>2, PowerFacts
        <4> QED
          BY <4>2, <4>3 DEF Size
      <3> QED
        BY <2>3, <3>1, <3>2 DEF MaybeBits
    <2>6. CASE e.op \in GeneralOps \cup IntegerOps
      <3>1. e.args[1].ty = e.ty
        BY <2>6 DEF IsNode, Typed
      <3>2. CASE a = NoNumber \/ b = NoNumber
        BY <2>3, <3>2 DEF MaybeBits
      <3>3. CASE a # NoNumber /\ b # NoNumber
        <4>1. a \in Int /\ b \in Int
          BY <2>4, <3>3
        <4>2. \/ OperBits(e, a, b) = NoNumber
              \/ OperBits(e, a, b) \in 0 .. Size(e.ty) - 1
          BY <2>6, <3>1, <4>1, ArithmeticBits, RemainderInType
        <4> QED
          BY <2>3, <3>3, <4>2 DEF MaybeBits
      <3> QED
        BY <3>2, <3>3
    <2> QED
      BY <1>5, <2>5, <2>6 DEF BinaryOps
  <1> QED
    BY <1>2, <1>3, <1>4, <1>5 DEF IsNode, NodeOps

-----------------------------------------------------------------------------
(* When a node may be rewritten to another. *)

(* The constants are numbers of their types.                               *)
Canonical(e) ==
  \A j \in DOMAIN e.args : e.args[j].cls = "val" => e.args[j].n = Cast(e.args[j].ty, e.args[j].n)

(* d computes what e computes, where e computes a number.                  *)
Refines(a, b) == a = NoNumber \/ b = a
Keeps(e, d, i, types) ==
  \A regs : \A x \in Inputs :
    Typable(regs, i, types) => Refines(NodeBits(e, regs, x), NodeBits(d, regs, x))

(* The operands of e are the bits l and r, on which its operation is       *)
(* defined.                                                                *)
Meets(e, i, types, regs, x, l, r) ==
  LET ty == e.args[1].ty
  IN  /\ Typable(regs, i, types) /\ x \in Inputs
      /\ l = ValueBits(e.args[1], regs, x) /\ l \in 0 .. Size(ty) - 1
      /\ r = ValueBits(e.args[2], regs, x) /\ r \in 0 .. Size(ty) - 1
      /\ ~NoResult(e.op, Cast(ty, l), Cast(ty, r), ty)
      /\ Exact(e.op, Cast(ty, l), Cast(ty, r), ty) \in Int

(* Bits read as a number of their type, and back.                          *)
LEMMA BitsOfCast ==
  ASSUME NEW ty, NEW l \in 0 .. Size(ty) - 1
  PROVE  l \in Int /\ Cast(ty, l) \in Int /\ Cast(ty, l) % Size(ty) = l
  <1>1. l \in Int
    BY WidthFacts
  <1>2. l % Size(ty) = l
    BY WidthFacts, SmallRemainder
  <1> QED
    BY <1>1, <1>2, CastFacts

(* Zero is zero in every type.                                             *)
LEMMA CastZero == ASSUME NEW ty PROVE Cast(ty, 0) = 0 /\ 0 % Size(ty) = 0 /\ 0 \in 0 .. Size(ty) - 1
  <1>1. /\ Half(ty) \in Nat /\ 1 <= Half(ty) /\ Size(ty) \in Nat /\ Size(ty) > 0
        /\ Size(ty) = 2 * Half(ty)
    BY WidthFacts
  <1>2. 0 \in 0 .. Size(ty) - 1
    BY <1>1
  <1>3. InType(ty, 0)
    BY <1>1 DEF InType
  <1> QED
    BY <1>1, <1>2, <1>3, CastOwn, SmallRemainder

(* What a node computes, when it computes a number.                        *)
LEMMA OperationMeets ==
  ASSUME NEW e, NEW i, NEW types, IsNode(e, i, types), Sound(e),
         e.op \in GeneralOps \cup IntegerOps,
         NEW regs, Typable(regs, i, types), NEW x \in Inputs,
         NodeBits(e, regs, x) # NoNumber
  PROVE  \E l, r : /\ Meets(e, i, types, regs, x, l, r)
                   /\ NodeBits(e, regs, x) =
                        Exact(e.op, Cast(e.args[1].ty, l), Cast(e.args[1].ty, r), e.args[1].ty)
                          % Size(e.args[1].ty)
  <1> DEFINE ty == e.args[1].ty
             l == ValueBits(e.args[1], regs, x)
             r == ValueBits(e.args[2], regs, x)
  <1>1. e.op \in BinaryOps /\ DOMAIN e.args = 1 .. 2 /\ e.args[2].ty = ty
    BY DEF BinaryOps, IsNode, Typed
  <1>2. MaybeBits(ty, l) /\ MaybeBits(ty, r)
    BY <1>1, OperandBits DEF IsNode, Sound
  <1>3. NodeBits(e, regs, x) = IF l = NoNumber \/ r = NoNumber THEN NoNumber ELSE OperBits(e, l, r)
    BY <1>1, OperationBits
  <1> HIDE DEF l, r
  <1>4. l # NoNumber /\ r # NoNumber /\ NodeBits(e, regs, x) = OperBits(e, l, r)
    BY <1>3
  <1>5. l \in 0 .. Size(ty) - 1 /\ r \in 0 .. Size(ty) - 1
    BY <1>2, <1>4 DEF MaybeBits
  <1>6. l \in Int /\ r \in Int
    BY <1>5, BitsOfCast
  <1>7. /\ OperBits(e, l, r) = IF NoResult(e.op, Cast(ty, l), Cast(ty, r), ty) THEN NoNumber
                               ELSE Exact(e.op, Cast(ty, l), Cast(ty, r), ty) % Size(ty)
        /\ ~NoResult(e.op, Cast(ty, l), Cast(ty, r), ty) =>
             Exact(e.op, Cast(ty, l), Cast(ty, r), ty) \in Int
    BY <1>6, ArithmeticBits
  <1>8. Meets(e, i, types, regs, x, l, r)
    BY <1>4, <1>5, <1>7 DEF Meets, l, r
  <1> QED
    BY <1>4, <1>7, <1>8 DEF Meets

(* A node may become a copy of an operand that has its value.              *)
LEMMA MovKeeps ==
  ASSUME NEW e, NEW i, NEW types, IsNode(e, i, types), Sound(e),
         e.op \in GeneralOps \cup IntegerOps,
         NEW v, v.cls = "val" => v.n \in Int,
         \A regs, x, l, r : Meets(e, i, types, regs, x, l, r) =>
            ValueBits(v, regs, x) =
              Exact(e.op, Cast(e.args[1].ty, l), Cast(e.args[1].ty, r), e.args[1].ty)
                % Size(e.args[1].ty)
  PROVE  Mov(e, v).op = "MOV" /\ Sound(Mov(e, v)) /\ Keeps(e, Mov(e, v), i, types)
  <1> DEFINE d == Mov(e, v)
  <1>1. d.op = "MOV" /\ d.args = <<v>>
    BY RewriteFields DEF Mov, Expr
  <1> HIDE DEF d
  <1>2. Sound(d)
    BY <1>1 DEF Sound
  <1>3. ASSUME NEW regs, NEW x \in Inputs, Typable(regs, i, types)
        PROVE  Refines(NodeBits(e, regs, x), NodeBits(d, regs, x))
    <2>1. NodeBits(d, regs, x) = ValueBits(v, regs, x)
      BY <1>1, MovBits
    <2>2. CASE NodeBits(e, regs, x) # NoNumber
      BY <1>3, <2>1, <2>2, OperationMeets DEF Refines
    <2> QED
      BY <2>2 DEF Refines
  <1> QED
    BY <1>1, <1>2, <1>3 DEF Keeps, d

(* It may become another operation on operands l2 and r2 of its type.      *)
LEMMA OperationKeeps ==
  ASSUME NEW e, NEW i, NEW types, IsNode(e, i, types), Sound(e),
         e.op \in GeneralOps \cup IntegerOps,
         NEW op \in GeneralOps \cup IntegerOps, NEW a, NEW b, a.ty = e.args[1].ty,
         a.cls = "val" => a.n \in Int, b.cls = "val" => b.n \in Int,
         \A regs, x, l, r : Meets(e, i, types, regs, x, l, r) =>
           LET ty == e.args[1].ty
               p == ValueBits(a, regs, x)
               q == ValueBits(b, regs, x)
           IN  /\ p \in 0 .. Size(ty) - 1 /\ q \in 0 .. Size(ty) - 1
               /\ ~NoResult(op, Cast(ty, p), Cast(ty, q), ty)
               /\ Exact(op, Cast(ty, p), Cast(ty, q), ty) % Size(ty) =
                    Exact(e.op, Cast(ty, l), Cast(ty, r), ty) % Size(ty)
  PROVE  LET d == Rewrite(e, op, <<a, b>>)
         IN  d.op = op /\ Sound(d) /\ Keeps(e, d, i, types)
  <1> DEFINE d == Rewrite(e, op, <<a, b>>)
             ty == e.args[1].ty
  <1>1. d.op = op /\ d.args = <<a, b>>
    BY RewriteFields DEF Expr
  <1> HIDE DEF d
  <1>2. /\ DOMAIN d.args = 1 .. 2 /\ d.args[1] = a /\ d.args[2] = b
        /\ op \in BinaryOps /\ op # "cast" /\ d.args[1].ty = ty
    BY <1>1 DEF BinaryOps, GeneralOps, IntegerOps
  <1>3. Sound(d)
    BY <1>1, <1>2 DEF Sound
  <1>4. ASSUME NEW regs, NEW x \in Inputs, Typable(regs, i, types), NodeBits(e, regs, x) # NoNumber
        PROVE  NodeBits(d, regs, x) = NodeBits(e, regs, x)
    <2> DEFINE p == ValueBits(a, regs, x)
               q == ValueBits(b, regs, x)
    <2>1. PICK l, r : /\ Meets(e, i, types, regs, x, l, r)
                      /\ NodeBits(e, regs, x) = Exact(e.op, Cast(ty, l), Cast(ty, r), ty) % Size(ty)
      BY <1>4, OperationMeets
    <2>2. /\ p \in 0 .. Size(ty) - 1 /\ q \in 0 .. Size(ty) - 1
          /\ ~NoResult(op, Cast(ty, p), Cast(ty, q), ty)
          /\ Exact(op, Cast(ty, p), Cast(ty, q), ty) % Size(ty) = NodeBits(e, regs, x)
      BY <2>1
    <2>3. NodeBits(d, regs, x) = IF p = NoNumber \/ q = NoNumber THEN NoNumber ELSE OperBits(d, p, q)
      BY <1>1, <1>2, OperationBits
    <2> HIDE DEF p, q
    <2>4. p \in Int /\ q \in Int /\ p # NoNumber /\ q # NoNumber
      BY <2>2, NoNumberIsNone
    <2>5. OperBits(d, p, q) = Exact(op, Cast(ty, p), Cast(ty, q), ty) % Size(ty)
      BY <1>1, <1>2, <2>2, <2>4, ArithmeticBits
    <2> QED
      BY <2>2, <2>3, <2>4, <2>5
  <1> QED
    BY <1>1, <1>3, <1>4 DEF Keeps, Refines, d

(* A node that has no value whatever its operands may be made to fail.     *)
LEMMA FaultKeeps ==
  ASSUME NEW e, NEW i, NEW types, IsNode(e, i, types), Sound(e),
         e.op \in GeneralOps \cup IntegerOps,
         \A regs, x, l, r : ~Meets(e, i, types, regs, x, l, r)
  PROVE  LET d == Rewrite(e, Fault, <<>>)
         IN  d.op = Fault /\ Sound(d) /\ Keeps(e, d, i, types)
  <1> DEFINE d == Rewrite(e, Fault, <<>>)
  <1>1. d.op = Fault /\ d.args = <<>>
    BY RewriteFields DEF Expr
  <1> HIDE DEF d
  <1>2. Sound(d)
    BY <1>1 DEF Sound, Fault
  <1>3. \A regs : \A x \in Inputs : Typable(regs, i, types) => NodeBits(e, regs, x) = NoNumber
    BY OperationMeets
  <1> QED
    BY <1>1, <1>2, <1>3 DEF Keeps, Refines, d

-----------------------------------------------------------------------------
(* Constants. *)

(* The constants in an operation that has a value.                         *)
LEMMA ConstantOperand ==
  ASSUME NEW v, v.cls = "val", v.n \in Int, v.n = Cast(v.ty, v.n), NEW regs, NEW x
  PROVE  Cast(v.ty, ValueBits(v, regs, x)) = v.n
  <1> DEFINE b == ValueBits(v, regs, x)
  <1>1. b = v.n % Size(v.ty)
    BY ConstantBits
  <1>2. b \in 0 .. Size(v.ty) - 1
    BY <1>1, RemainderInType
  <1> HIDE DEF b
  <1>3. b \in Int /\ b % Size(v.ty) = b
    BY <1>2, BitsOfCast, WidthFacts, SmallRemainder
  <1>4. Cast(v.ty, b) = Cast(v.ty, v.n)
    BY <1>1, <1>3, CastCongruent
  <1> QED
    BY <1>4 DEF b

(* A zero has the bits 0 whatever its C++ type is.                         *)
LEMMA ZeroBits ==
  ASSUME NEW v, ConstEqual(v, 0), v.n \in Int, NEW regs, NEW x
  PROVE  ValueBits(v, regs, x) = 0
  <1>1. v.cls = "val" /\ Cast("U64", v.n) = 0
    BY DEF ConstEqual
  <1>2. Cast("U64", v.n) % Size(v.ty) = v.n % Size(v.ty)
    BY CastWidest
  <1> QED
    BY <1>1, <1>2, ConstantBits, CastZero

(* A constant as a uint64_t.                                               *)
LEMMA WidestNumber ==
  ASSUME NEW ty, NEW n \in Int, InType(ty, n)
  PROVE  /\ n >= 0 => Cast("U64", n) = n
         /\ n < 0 => Cast("U64", n) = n + 2 ^ W64
         /\ n < 0 => ty \in Signed /\ -Half(ty) <= n
         /\ n < Size(ty) /\ Half(ty) <= 2 ^ (W64 - 1) /\ 2 ^ W64 = 2 * 2 ^ (W64 - 1)
         /\ 2 ^ (W64 - 1) \in Nat
  <1>1. /\ Bits(ty) \in Nat /\ 1 <= Bits(ty) /\ Bits(ty) <= W64
        /\ Half(ty) \in Nat /\ 1 <= Half(ty) /\ Size(ty) = 2 * Half(ty)
    BY WidthFacts
  <1>2. W64 - 1 \in Nat /\ Bits(ty) - 1 \in Nat /\ Bits(ty) - 1 <= W64 - 1
        /\ (W64 - 1) + 1 = W64 /\ W64 \in Nat
    BY <1>1, AlgebraAssumption
  <1>3. Half(ty) <= 2 ^ (W64 - 1)
    BY <1>2, PowerNotLess DEF Half
  <1>4. 2 ^ ((W64 - 1) + 1) = 2 * 2 ^ (W64 - 1) /\ 2 ^ (W64 - 1) \in Nat
    BY <1>2, PowerFacts
  <1>5. 2 ^ W64 = 2 * 2 ^ (W64 - 1)
    BY <1>2, <1>4
  <1>6. Cast("U64", n) = n % 2 ^ W64
    BY CastWidest
  <1> DEFINE M == 2 ^ W64
             H == 2 ^ (W64 - 1)
  <1>7. M \in Nat /\ M > 0 /\ M = 2 * H /\ H \in Nat /\ Half(ty) <= H
    BY <1>1, <1>3, <1>4, <1>5
  <1> HIDE DEF M, H
  <1>8. n < Size(ty) /\ (n < 0 => ty \in Signed /\ -Half(ty) <= n)
    BY <1>1 DEF InType
  <1>9. CASE n >= 0
    <2>1. n \in 0 .. M - 1
      BY <1>1, <1>7, <1>8, <1>9
    <2>2. n % M = n
      BY <1>7, <2>1, SmallRemainder
    <2> QED
      BY <1>6, <1>7, <1>8, <1>9, <2>2 DEF M, H
  <1>10. CASE n < 0
    <2> DEFINE k == n + M
    <2>1. k \in 0 .. M - 1
      BY <1>1, <1>7, <1>8, <1>10
    <2>2. n = M * (-1) + k /\ -1 \in Int
      BY <1>7
    <2> HIDE DEF k
    <2>3. (M * (-1) + k) % M = k
      BY <1>7, <2>1, DivisionIs
    <2>4. n % M = n + M
      BY <2>2, <2>3 DEF k
    <2> QED
      BY <1>6, <1>7, <1>8, <1>10, <2>4 DEF M, H
  <1> QED
    BY <1>9, <1>10

(* A constant that is its own cast is a number of its type.                *)
LEMMA CanonicalInType ==
  ASSUME NEW v, v.n \in Int, v.n = Cast(v.ty, v.n)
  PROVE  InType(v.ty, v.n)
  BY CastFacts

(* A constant equal to one as a uint64_t is one.                           *)
LEMMA OneNumber ==
  ASSUME NEW v, ConstEqual(v, 1), v.n \in Int, v.n = Cast(v.ty, v.n)
  PROVE  v.n = 1
  <1>1. Cast("U64", v.n) = 1
    BY DEF ConstEqual
  <1>2. InType(v.ty, v.n)
    BY CanonicalInType
  <1>3. CASE v.n >= 0
    BY <1>1, <1>2, <1>3, WidestNumber
  <1>4. CASE v.n < 0
    <2> DEFINE H == 2 ^ (W64 - 1)
               h == Half(v.ty)
    <2>1. /\ v.n + 2 ^ W64 = 1 /\ -h <= v.n /\ h <= H
          /\ 2 ^ W64 = 2 * H /\ H \in Nat /\ h \in Nat
      BY <1>1, <1>2, <1>4, WidestNumber, WidthFacts
    <2>2. 2 < H
      <3>1. W64 - 1 \in Nat /\ W64 - 1 >= 2
        BY WidestFacts, AlgebraAssumption
      <3>2. W64 - 1 < 2 ^ (W64 - 1)
        BY <3>1, PowerGrows
      <3> QED
        BY <2>1, <3>1, <3>2
    <2> HIDE DEF H, h
    <2> QED
      BY <2>1, <2>2
  <1> QED
    BY <1>3, <1>4

(* A constant with a single bit is congruent to that power of two, which   *)
(* the type holds; and so it holds the exponent.                           *)
LEMMA PowerConstant ==
  ASSUME NEW v, SingleBit(v), v.n \in Int, v.n = Cast(v.ty, v.n)
  PROVE  LET k == Log2(v)
         IN  /\ v.cls = "val" /\ k \in Nat /\ k \in 0 .. W64 - 1
             /\ Cast("U64", v.n) = 2 ^ k
             /\ k \in 0 .. Bits(v.ty) - 1
             /\ v.n % Size(v.ty) = 2 ^ k % Size(v.ty)
             /\ v.ty \notin Signed => v.n = 2 ^ k
             /\ InType(v.ty, k)
  <1> DEFINE k == Log2(v)
             ty == v.ty
             n == v.n
             H == 2 ^ (W64 - 1)
             p == 2 ^ k
  <1>1. v.cls = "val" /\ k \in 0 .. W64 - 1 /\ Cast("U64", n) = p
    BY DEF SingleBit, Log2
  <1> HIDE DEF k
  <1>2. k \in Nat /\ p \in Nat /\ 1 <= p
    BY <1>1, AlgebraAssumption, PowerGrows
  <1>3. InType(ty, n)
    BY CanonicalInType
  <1>4. /\ n >= 0 => p = n
        /\ n < 0 => p = n + 2 ^ W64 /\ ty \in Signed /\ -Half(ty) <= n
        /\ n < Size(ty) /\ Half(ty) <= H /\ 2 ^ W64 = 2 * H /\ H \in Nat
    BY <1>1, <1>3, WidestNumber
  <1>5. n % Size(ty) = p % Size(ty)
    BY <1>1, CastWidest
  <1>6. /\ Bits(ty) \in Nat /\ 1 <= Bits(ty) /\ Bits(ty) <= W64
        /\ Half(ty) \in Nat /\ 1 <= Half(ty) /\ Size(ty) = 2 * Half(ty)
    BY WidthFacts
  <1>7. k < Bits(ty)
    <2>1. CASE n >= 0
      <3>1. 2 ^ k < 2 ^ Bits(ty)
        BY <1>4, <2>1 DEF Size
      <3>2. ~(Bits(ty) <= k)
        <4>1. Bits(ty) <= k => 2 ^ Bits(ty) <= 2 ^ k
          BY <1>2, <1>6, PowerNotLess
        <4>2. 2 ^ Bits(ty) \in Nat
          BY <1>6 DEF Size
        <4> QED
          BY <1>2, <3>1, <4>1, <4>2
      <3> QED
        BY <1>2, <1>6, <3>2
    <2>2. CASE n < 0
      <3>1. Half(ty) >= H
        <4> HIDE DEF p, H
        <4>1. p < 2 * H
          BY <1>4, <2>2
        <4>2. p <= H \/ p > H
          BY <1>2, <1>4
        <4>3. CASE p <= H
          BY <1>2, <1>4, <1>6, <2>2, <4>3
        <4>4. CASE p > H
          <5>1. k < W64 - 1 \/ k = W64 - 1
            BY <1>1, <1>2, AlgebraAssumption
          <5>2. W64 - 1 \in Nat
            BY AlgebraAssumption
          <5>3. k < W64 - 1 => 2 ^ k < 2 ^ (W64 - 1)
            BY <1>2, <5>2, PowerGrows
          <5> QED
            BY <1>2, <1>4, <4>4, <5>1, <5>3 DEF p, H
        <4> QED
          BY <4>2, <4>3, <4>4
      <3>2. Bits(ty) = W64
        <4>1. W64 - 1 \in Nat /\ Bits(ty) - 1 \in Nat
          BY <1>6, AlgebraAssumption
        <4>2. Bits(ty) - 1 < W64 - 1 => 2 ^ (Bits(ty) - 1) < 2 ^ (W64 - 1)
          BY <4>1, PowerGrows
        <4>3. ~(Bits(ty) - 1 < W64 - 1)
          BY <1>4, <1>6, <3>1, <4>2 DEF Half
        <4> QED
          BY <1>6, <4>1, <4>3, AlgebraAssumption
      <3> QED
        BY <1>1, <1>2, <3>2, AlgebraAssumption
    <2> QED
      BY <2>1, <2>2
  <1>8. ty \notin Signed => n = p
    <2>1. n >= 0 \/ n < 0
      OBVIOUS
    <2> QED
      BY <1>4, <2>1
  <1>9. InType(ty, k)
    <2>1. Bits(ty) - 1 \in Nat /\ k <= Bits(ty) - 1
      BY <1>2, <1>6, <1>7
    <2>2. Bits(ty) - 1 < Half(ty)
      BY <2>1, PowerGrows DEF Half
    <2> QED
      BY <1>2, <1>6, <2>1, <2>2 DEF InType
  <1> QED
    BY <1>1, <1>2, <1>5, <1>6, <1>7, <1>8, <1>9 DEF k

(* A number of a type that is a constant has its own bits.                 *)
LEMMA SmallConstant ==
  ASSUME NEW ty, NEW rep, NEW k \in Int, InType(ty, k), 0 <= k, NEW regs, NEW x
  PROVE  LET v == Value(ty, rep, k)
         IN  /\ v.cls = "val" /\ v.ty = ty /\ v.n = k
             /\ ValueBits(v, regs, x) = k
             /\ ValueBits(v, regs, x) \in 0 .. Size(ty) - 1
             /\ Cast(ty, ValueBits(v, regs, x)) = k
  <1> DEFINE v == Value(ty, rep, k)
  <1>1. v.cls = "val" /\ v.ty = ty /\ v.n = k
    BY DEF Value
  <1> HIDE DEF v
  <1>2. ValueBits(v, regs, x) = k % Size(ty)
    BY <1>1, ConstantBits
  <1>3. k \in 0 .. Size(ty) - 1
    BY WidthFacts DEF InType
  <1>4. k % Size(ty) = k
    BY <1>3, WidthFacts, SmallRemainder
  <1> QED
    BY <1>1, <1>2, <1>3, <1>4, CastOwn DEF v

(* Congruent factors give congruent products.                              *)
LEMMA ProductCongruent ==
  ASSUME NEW m \in Nat, m > 0, NEW a \in Int, NEW n \in Int, NEW p \in Int, n % m = p % m
  PROVE  (a * n) % m = (a * p) % m
  <1> DEFINE q == n \div m
             t == p \div m
             r == n % m
  <1>1. r \in 0 .. m - 1 /\ q \in Int /\ n = m * q + r
    BY Division
  <1>2. t \in Int /\ p = m * t + r
    BY Division
  <1> HIDE DEF q, r, t
  <1>3. r \in Int
    BY <1>1
  <1> DEFINE s == q - t
  <1>4. n = p + m * s /\ s \in Int
    <2>1. m * s = m * q - m * t
      BY <1>1, <1>2
    <2>2. m * q \in Int /\ m * t \in Int
      BY <1>1, <1>2
    <2> QED
      BY <1>1, <1>2, <1>3, <2>1, <2>2
  <1> HIDE DEF s
  <1>5. a * (p + m * s) = a * p + m * (a * s) /\ a * s \in Int /\ a * p \in Int
    BY <1>4
  <1>6. (a * p + m * (a * s)) % m = (a * p) % m
    BY <1>5, AddMultiple
  <1> QED
    BY <1>4, <1>5, <1>6

-----------------------------------------------------------------------------
(* The rules, one by one. *)

(* What a rule may do to e: nothing, or make a copy of it.                 *)
Copies(e, d, i, types) ==
  d = e \/ (d.op = "MOV" /\ Sound(d) /\ Keeps(e, d, i, types))

(* What is known of the operands of an operation that is defined on them.  *)
LEMMA MeetsFacts ==
  ASSUME NEW e, NEW i, NEW types, IsNode(e, i, types), NEW regs, NEW x, NEW l, NEW r,
         Meets(e, i, types, regs, x, l, r)
  PROVE  LET ty == e.args[1].ty
             a == Cast(ty, l)
             b == Cast(ty, r)
         IN  /\ a \in Int /\ b \in Int /\ a % Size(ty) = l /\ b % Size(ty) = r
             /\ l \in Int /\ r \in Int /\ l \in 0 .. Size(ty) - 1 /\ r \in 0 .. Size(ty) - 1
             /\ l = ValueBits(e.args[1], regs, x) /\ r = ValueBits(e.args[2], regs, x)
             /\ ~NoResult(e.op, a, b, ty) /\ Exact(e.op, a, b, ty) \in Int
             /\ x \in Inputs /\ Typable(regs, i, types)
  BY BitsOfCast DEF Meets

(* The operands of an operation.                                           *)
LEMMA OperandFacts ==
  ASSUME NEW e, NEW i, NEW types, IsNode(e, i, types), Sound(e),
         e.op \in GeneralOps \cup IntegerOps
  PROVE  /\ DOMAIN e.args = 1 .. 2 /\ 1 \in DOMAIN e.args /\ 2 \in DOMAIN e.args
         /\ e.args[2].ty = e.args[1].ty /\ e.args[1].ty = e.ty
         /\ e.args[1].cls = "val" => e.args[1].n \in Int
         /\ e.args[2].cls = "val" => e.args[2].n \in Int
         /\ IsOperand(e.args[1], i, types) /\ IsOperand(e.args[2], i, types)
  <1>1. DOMAIN e.args = 1 .. 2
    BY DEF IsNode, Typed, BinaryOps
  <1> QED
    BY <1>1 DEF IsNode, Typed, BinaryOps, Sound

(* x + 0, 0 + x, x - 0.                                                    *)
LEMMA AddZeroKeeps ==
  ASSUME NEW e, NEW i, NEW types, IsNode(e, i, types), Sound(e), Canonical(e)
  PROVE  Copies(e, AddZero(e), i, types)
  <1> DEFINE ty == e.args[1].ty
  <1>1. CASE e.op = "ADD" /\ ConstEqual(e.args[1], 0)
    <2>1. e.op \in GeneralOps \cup IntegerOps
      BY <1>1 DEF GeneralOps
    <2>2. ASSUME NEW regs, NEW x, NEW l, NEW r, Meets(e, i, types, regs, x, l, r)
          PROVE  ValueBits(e.args[2], regs, x) = Exact(e.op, Cast(ty, l), Cast(ty, r), ty) % Size(ty)
      <3>1. l = 0
        BY <1>1, <2>1, <2>2, OperandFacts, ZeroBits DEF Meets, ConstEqual
      <3>2. Cast(ty, l) = 0
        BY <3>1, CastZero
      <3>3. Exact(e.op, Cast(ty, l), Cast(ty, r), ty) = Cast(ty, r)
        BY <1>1, <2>2, <3>2, MeetsFacts DEF Exact
      <3> QED
        BY <2>2, <3>3, MeetsFacts
    <2>3. AddZero(e) = Mov(e, e.args[2])
      BY <1>1 DEF AddZero
    <2>4. e.args[2].cls = "val" => e.args[2].n \in Int
      BY <2>1, OperandFacts
    <2> QED
      BY <2>1, <2>2, <2>3, <2>4, MovKeeps DEF Copies
  <1>2. CASE /\ e.op \in {"ADD", "SUB"} /\ ~(e.op = "ADD" /\ ConstEqual(e.args[1], 0))
             /\ AddZero(e) # e
    <2>1. AddZero(e) = Mov(e, e.args[1]) /\ ConstEqual(e.args[2], 0)
      BY <1>2 DEF AddZero
    <2>2. e.op \in GeneralOps \cup IntegerOps
      BY <1>2 DEF GeneralOps
    <2>3. ASSUME NEW regs, NEW x, NEW l, NEW r, Meets(e, i, types, regs, x, l, r)
          PROVE  ValueBits(e.args[1], regs, x) = Exact(e.op, Cast(ty, l), Cast(ty, r), ty) % Size(ty)
      <3>1. r = 0
        BY <2>1, <2>2, <2>3, OperandFacts, ZeroBits DEF Meets, ConstEqual
      <3>2. Cast(ty, r) = 0
        BY <3>1, CastZero
      <3>3. Exact(e.op, Cast(ty, l), Cast(ty, r), ty) = Cast(ty, l)
        BY <1>2, <2>3, <3>2, MeetsFacts DEF Exact
      <3> QED
        BY <2>3, <3>3, MeetsFacts
    <2>4. e.args[1].cls = "val" => e.args[1].n \in Int
      BY <2>2, OperandFacts
    <2> QED
      BY <2>1, <2>2, <2>3, <2>4, MovKeeps DEF Copies
  <1>3. CASE e.op \notin {"ADD", "SUB"}
    BY <1>3 DEF AddZero, Copies
  <1> QED
    BY <1>1, <1>2, <1>3 DEF Copies

(* x * 0 and 0 * x.                                                        *)
LEMMA MulZeroKeeps ==
  ASSUME NEW e, NEW i, NEW types, IsNode(e, i, types), Sound(e), Canonical(e)
  PROVE  Copies(e, MulZero(e), i, types)
  <1> DEFINE ty == e.args[1].ty
  <1>1. CASE e.op = "MUL" /\ ConstEqual(e.args[1], 0)
    <2>1. e.op \in GeneralOps \cup IntegerOps
      BY <1>1 DEF GeneralOps
    <2>2. ASSUME NEW regs, NEW x, NEW l, NEW r, Meets(e, i, types, regs, x, l, r)
          PROVE  ValueBits(e.args[1], regs, x) = Exact(e.op, Cast(ty, l), Cast(ty, r), ty) % Size(ty)
      <3>1. l = 0
        BY <1>1, <2>1, <2>2, OperandFacts, ZeroBits DEF Meets, ConstEqual
      <3>2. Cast(ty, l) = 0
        BY <3>1, CastZero
      <3>3. Exact(e.op, Cast(ty, l), Cast(ty, r), ty) = 0
        BY <1>1, <2>2, <3>2, MeetsFacts DEF Exact
      <3> QED
        BY <2>2, <3>1, <3>3, MeetsFacts, CastZero
    <2>3. MulZero(e) = Mov(e, e.args[1])
      BY <1>1 DEF MulZero
    <2>4. e.args[1].cls = "val" => e.args[1].n \in Int
      BY <2>1, OperandFacts
    <2> QED
      BY <2>1, <2>2, <2>3, <2>4, MovKeeps DEF Copies
  <1>2. CASE e.op = "MUL" /\ ~ConstEqual(e.args[1], 0) /\ MulZero(e) # e
    <2>1. MulZero(e) = Mov(e, e.args[2]) /\ ConstEqual(e.args[2], 0)
      BY <1>2 DEF MulZero
    <2>2. e.op \in GeneralOps \cup IntegerOps
      BY <1>2 DEF GeneralOps
    <2>3. ASSUME NEW regs, NEW x, NEW l, NEW r, Meets(e, i, types, regs, x, l, r)
          PROVE  ValueBits(e.args[2], regs, x) = Exact(e.op, Cast(ty, l), Cast(ty, r), ty) % Size(ty)
      <3>1. r = 0
        BY <2>1, <2>2, <2>3, OperandFacts, ZeroBits DEF Meets, ConstEqual
      <3>2. Cast(ty, r) = 0
        BY <3>1, CastZero
      <3>3. Exact(e.op, Cast(ty, l), Cast(ty, r), ty) = 0
        BY <1>2, <2>3, <3>2, MeetsFacts DEF Exact
      <3> QED
        BY <2>3, <3>1, <3>3, MeetsFacts, CastZero
    <2>4. e.args[2].cls = "val" => e.args[2].n \in Int
      BY <2>2, OperandFacts
    <2> QED
      BY <2>1, <2>2, <2>3, <2>4, MovKeeps DEF Copies
  <1>3. CASE e.op # "MUL"
    BY <1>3 DEF MulZero, Copies
  <1> QED
    BY <1>1, <1>2, <1>3 DEF Copies

(* 0 / x and 0 % x; x / 0 and x % 0 have no value.                         *)
LEMMA DivideZeroKeeps ==
  ASSUME NEW e, NEW i, NEW types, IsNode(e, i, types), Sound(e), Canonical(e)
  PROVE  LET d == DivideZero(e)
         IN  \/ Copies(e, d, i, types)
             \/ d.op = Fault /\ Sound(d) /\ Keeps(e, d, i, types)
  <1> DEFINE ty == e.args[1].ty
  <1>1. CASE e.op \in {"DIV", "REM"} /\ ConstEqual(e.args[1], 0)
    <2>1. e.op \in GeneralOps \cup IntegerOps
      BY <1>1 DEF GeneralOps, IntegerOps
    <2>2. ASSUME NEW regs, NEW x, NEW l, NEW r, Meets(e, i, types, regs, x, l, r)
          PROVE  ValueBits(e.args[1], regs, x) = Exact(e.op, Cast(ty, l), Cast(ty, r), ty) % Size(ty)
      <3>1. l = 0
        BY <1>1, <2>1, <2>2, OperandFacts, ZeroBits DEF Meets, ConstEqual
      <3>2. Cast(ty, l) = 0
        BY <3>1, CastZero
      <3> DEFINE b == Cast(ty, r)
      <3>3. b \in Int /\ b # 0
        BY <1>1, <2>2, MeetsFacts DEF NoResult
      <3> HIDE DEF b
      <3>4. AbsVal(b) \in Nat /\ AbsVal(b) > 0 /\ AbsVal(0) = 0
        BY <3>3 DEF AbsVal
      <3>5. 0 \div AbsVal(b) = 0
        <4>1. 0 \in 0 .. AbsVal(b) - 1
          BY <3>4
        <4> QED
          BY <3>4, <4>1, SmallRemainder
      <3>6. Quotient(0, b) = 0
        BY <3>4, <3>5 DEF Quotient
      <3>7. Remainder(0, b) = 0
        BY <3>3, <3>6 DEF Remainder
      <3>8. Exact(e.op, Cast(ty, l), b, ty) = 0
        BY <1>1, <3>2, <3>6, <3>7 DEF Exact
      <3> QED
        BY <2>2, <3>1, <3>8, MeetsFacts, CastZero DEF b
    <2>3. DivideZero(e) = Mov(e, e.args[1])
      BY <1>1 DEF DivideZero
    <2>4. e.args[1].cls = "val" => e.args[1].n \in Int
      BY <2>1, OperandFacts
    <2> QED
      BY <2>1, <2>2, <2>3, <2>4, MovKeeps DEF Copies
  <1>2. CASE e.op \in {"DIV", "REM"} /\ ~ConstEqual(e.args[1], 0) /\ DivideZero(e) # e
    <2>1. DivideZero(e) = Rewrite(e, Fault, <<>>) /\ ConstEqual(e.args[2], 0)
      BY <1>2 DEF DivideZero
    <2>2. e.op \in GeneralOps \cup IntegerOps
      BY <1>2 DEF GeneralOps, IntegerOps
    <2>3. ASSUME NEW regs, NEW x, NEW l, NEW r, Meets(e, i, types, regs, x, l, r)
          PROVE  FALSE
      <3>1. r = 0
        BY <2>1, <2>2, <2>3, OperandFacts, ZeroBits DEF Meets, ConstEqual
      <3>2. Cast(ty, r) = 0
        BY <3>1, CastZero
      <3> QED
        BY <1>2, <2>3, <3>2, MeetsFacts DEF NoResult
    <2> QED
      BY <2>1, <2>2, <2>3, FaultKeeps
  <1>3. CASE e.op \notin {"DIV", "REM"}
    BY <1>3 DEF DivideZero, Copies
  <1> QED
    BY <1>1, <1>2, <1>3 DEF Copies

(* x shifted by 0, and 0 shifted.                                          *)
LEMMA ShiftZeroKeeps ==
  ASSUME NEW e, NEW i, NEW types, IsNode(e, i, types), Sound(e), Canonical(e)
  PROVE  Copies(e, ShiftZero(e), i, types)
  <1> DEFINE ty == e.args[1].ty
  <1>1. CASE ShiftZero(e) # e
    <2>1. /\ e.op \in {"SHR", "SHL"} /\ ShiftZero(e) = Mov(e, e.args[1])
          /\ ConstEqual(e.args[2], 0) \/ ConstEqual(e.args[1], 0)
      BY <1>1 DEF ShiftZero
    <2>2. e.op \in GeneralOps \cup IntegerOps
      BY <2>1 DEF IntegerOps
    <2>3. ASSUME NEW regs, NEW x, NEW l, NEW r, Meets(e, i, types, regs, x, l, r)
          PROVE  ValueBits(e.args[1], regs, x) = Exact(e.op, Cast(ty, l), Cast(ty, r), ty) % Size(ty)
      <3> DEFINE a == Cast(ty, l)
                 b == Cast(ty, r)
      <3>1. r = 0 \/ l = 0
        BY <2>1, <2>2, <2>3, OperandFacts, ZeroBits DEF Meets, ConstEqual
      <3>2. a \in Int /\ (r = 0 => b = 0) /\ (l = 0 => a = 0)
        BY <2>3, MeetsFacts, CastZero
      <3>3. b \in 0 .. Bits(ty) - 1
        BY <2>1, <2>3, MeetsFacts DEF NoResult
      <3> HIDE DEF a, b
      <3>4. b \in Nat /\ 2 ^ b \in Nat /\ 2 ^ b >= 1
        BY <3>3, WidthFacts, PowerGrows
      <3>5. Exact(e.op, a, b, ty) = a
        <4>1. Exact(e.op, a, b, ty) \in {a * 2 ^ b, a \div 2 ^ b}
          BY <2>1 DEF Exact
        <4>2. CASE r = 0
          <5>1. 2 ^ b = 1
            BY <3>2, <4>2, PowerFacts
          <5>2. a * 1 = a /\ a \div 1 = a
            <6>1. a * 1 = a
              BY <3>2
            <6> DEFINE one == 1
            <6>2. one \in Nat /\ one > 0 /\ 0 \in 0 .. one - 1 /\ a = one * a + 0
              BY <3>2
            <6>3. (one * a + 0) \div one = a
              <7> HIDE DEF one
              <7> QED
                BY <3>2, <6>2, DivisionIs
            <6> QED
              BY <6>1, <6>2, <6>3
          <5> QED
            BY <4>1, <5>1, <5>2
        <4>3. CASE l = 0
          <5>1. a = 0 /\ 0 * 2 ^ b = 0
            BY <3>2, <3>4, <4>3
          <5>2. 0 \div 2 ^ b = 0
            <6>1. 0 \in 0 .. 2 ^ b - 1
              BY <3>4
            <6> QED
              BY <3>4, <6>1, SmallRemainder
          <5> QED
            BY <4>1, <5>1, <5>2
        <4> QED
          BY <3>1, <4>2, <4>3
      <3> QED
        BY <2>3, <3>5, MeetsFacts DEF a, b
    <2>4. e.args[1].cls = "val" => e.args[1].n \in Int
      BY <2>2, OperandFacts
    <2> QED
      BY <2>1, <2>2, <2>3, <2>4, MovKeeps DEF Copies
  <1> QED
    BY <1>1 DEF Copies

(* A number divided by one.                                                *)
LEMMA DivideByOne ==
  ASSUME NEW a \in Int
  PROVE  Quotient(a, 1) = a
  <1>1. AbsVal(a) \in Nat /\ AbsVal(1) = 1
    BY DEF AbsVal
  <1> DEFINE one == 1
             q == AbsVal(a)
  <1>2. one \in Nat /\ one > 0 /\ 0 \in 0 .. one - 1 /\ q \in Int /\ q = one * q + 0
    BY <1>1
  <1>3. (one * q + 0) \div one = q
    <2> HIDE DEF one, q
    <2> QED
      BY <1>2, DivisionIs
  <1>4. AbsVal(a) \div 1 = AbsVal(a)
    BY <1>2, <1>3
  <1> QED
    BY <1>1, <1>4 DEF Quotient, AbsVal

(* x * 1, 1 * x and x / 1.                                                 *)
LEMMA ByOneKeeps ==
  ASSUME NEW e, NEW i, NEW types, IsNode(e, i, types), Sound(e), Canonical(e)
  PROVE  Copies(e, ByOne(e), i, types)
  <1> DEFINE ty == e.args[1].ty
  <1>1. CASE e.op \in {"MUL", "DIV"} /\ ConstEqual(e.args[2], 1)
    <2>1. e.op \in GeneralOps \cup IntegerOps
      BY <1>1 DEF GeneralOps
    <2>2. e.args[2].n = 1
      BY <1>1, <2>1, OperandFacts, OneNumber DEF Canonical, ConstEqual
    <2>3. ASSUME NEW regs, NEW x, NEW l, NEW r, Meets(e, i, types, regs, x, l, r)
          PROVE  ValueBits(e.args[1], regs, x) = Exact(e.op, Cast(ty, l), Cast(ty, r), ty) % Size(ty)
      <3>1. Cast(ty, r) = 1
        BY <1>1, <2>1, <2>2, <2>3, OperandFacts, ConstantOperand, MeetsFacts DEF Canonical, ConstEqual
      <3> DEFINE a == Cast(ty, l)
      <3>2. a \in Int
        BY <2>3, MeetsFacts
      <3> HIDE DEF a
      <3>3. Quotient(a, 1) = a /\ a * 1 = a
        BY <3>2, DivideByOne
      <3>4. Exact(e.op, a, 1, ty) \in {Quotient(a, 1), a * 1}
        BY <1>1 DEF Exact
      <3> QED
        BY <2>3, <3>1, <3>3, <3>4, MeetsFacts DEF a
    <2>4. ByOne(e) = Mov(e, e.args[1])
      BY <1>1 DEF ByOne
    <2>5. e.args[1].cls = "val" => e.args[1].n \in Int
      BY <2>1, OperandFacts
    <2> QED
      BY <2>1, <2>3, <2>4, <2>5, MovKeeps DEF Copies
  <1>2. CASE ~(e.op \in {"MUL", "DIV"} /\ ConstEqual(e.args[2], 1)) /\ ByOne(e) # e
    <2>1. e.op = "MUL" /\ ConstEqual(e.args[1], 1) /\ ByOne(e) = Mov(e, e.args[2])
      BY <1>2 DEF ByOne
    <2>2. e.op \in GeneralOps \cup IntegerOps
      BY <2>1 DEF GeneralOps
    <2>3. e.args[1].n = 1
      BY <2>1, <2>2, OperandFacts, OneNumber DEF Canonical, ConstEqual
    <2>4. ASSUME NEW regs, NEW x, NEW l, NEW r, Meets(e, i, types, regs, x, l, r)
          PROVE  ValueBits(e.args[2], regs, x) = Exact(e.op, Cast(ty, l), Cast(ty, r), ty) % Size(ty)
      <3>1. Cast(ty, l) = 1
        BY <2>1, <2>2, <2>3, <2>4, OperandFacts, ConstantOperand, MeetsFacts DEF Canonical, ConstEqual
      <3> DEFINE b == Cast(ty, r)
      <3>2. b \in Int
        BY <2>4, MeetsFacts
      <3> HIDE DEF b
      <3>3. 1 * b = b /\ Exact(e.op, 1, b, ty) = 1 * b
        BY <2>1, <3>2 DEF Exact
      <3> QED
        BY <2>4, <3>1, <3>3, MeetsFacts DEF b
    <2>5. e.args[2].cls = "val" => e.args[2].n \in Int
      BY <2>2, OperandFacts
    <2> QED
      BY <2>1, <2>2, <2>4, <2>5, MovKeeps DEF Copies
  <1> QED
    BY <1>1, <1>2 DEF Copies

(* x - x and x ^ x.                                                        *)
LEMMA EqualArgsKeeps ==
  ASSUME NEW e, NEW i, NEW types, IsNode(e, i, types), Sound(e), Canonical(e)
  PROVE  Copies(e, EqualArgs(e), i, types)
  <1> DEFINE ty == e.args[1].ty
             zero == Value(ty, "U64", 0)
  <1>1. CASE EqualArgs(e) # e
    <2>1. e.op \in {"SUB", "XOR"} /\ e.args[1] = e.args[2] /\ EqualArgs(e) = Mov(e, zero)
      BY <1>1 DEF EqualArgs
    <2>2. e.op \in GeneralOps \cup IntegerOps
      BY <2>1 DEF GeneralOps, IntegerOps
    <2>3. InType(ty, 0)
      BY WidthFacts DEF InType
    <2>4. zero.n \in Int
      BY DEF Value
    <2>5. \A regs, x : ValueBits(zero, regs, x) = 0
      BY <2>3, SmallConstant
    <2> HIDE DEF zero
    <2>6. ASSUME NEW regs, NEW x, NEW l, NEW r, Meets(e, i, types, regs, x, l, r)
          PROVE  ValueBits(zero, regs, x) = Exact(e.op, Cast(ty, l), Cast(ty, r), ty) % Size(ty)
      <3> DEFINE a == Cast(ty, l)
      <3>1. l = r /\ a \in Int
        BY <2>1, <2>6, MeetsFacts
      <3>2. Exact(e.op, a, Cast(ty, r), ty) \in {a - a, Bitwise2("XOR", a, a, Bits(ty))}
        BY <2>1, <3>1 DEF Exact
      <3> HIDE DEF a
      <3>3. a - a = 0 /\ Bitwise2("XOR", a, a, Bits(ty)) = 0
        BY <3>1, XorWithItself, WidthFacts
      <3> QED
        BY <2>5, <3>2, <3>3, CastZero DEF a
    <2> QED
      BY <2>1, <2>2, <2>4, <2>6, MovKeeps DEF Copies
  <1> QED
    BY <1>1 DEF Copies

(* v * c shifted instead, where c is a constant with a single bit.         *)
LEMMA ShiftIsProduct ==
  ASSUME NEW ty, NEW a \in Int, NEW v, v.ty = ty, SingleBit(v), v.n \in Int, v.n = Cast(ty, v.n)
  PROVE  /\ ~NoResult("SHL", a, Log2(v), ty)
         /\ Exact("SHL", a, Log2(v), ty) % Size(ty) = (a * v.n) % Size(ty)
         /\ (a * v.n) % Size(ty) = (v.n * a) % Size(ty)
  <1> DEFINE k == Log2(v)
  <1>1. /\ k \in 0 .. Bits(ty) - 1 /\ v.n % Size(ty) = 2 ^ k % Size(ty) /\ k \in Nat
    BY PowerConstant
  <1> HIDE DEF k
  <1>2. ~NoResult("SHL", a, k, ty)
    BY <1>1 DEF NoResult
  <1>3. 2 ^ k \in Int
    BY <1>1, PowerFacts
  <1>4. (a * v.n) % Size(ty) = (a * 2 ^ k) % Size(ty)
    BY <1>1, <1>3, WidthFacts, ProductCongruent
  <1>5. Exact("SHL", a, k, ty) = a * 2 ^ k
    BY DEF Exact
  <1>6. a * v.n = v.n * a
    OBVIOUS
  <1> QED
    BY <1>2, <1>4, <1>5, <1>6 DEF k

(* What a rule may do to e: nothing, or make it another operation.         *)
Changes(e, d, i, types) == d = e \/ (d.op # e.op /\ Sound(d) /\ Keeps(e, d, i, types))

(* x * 2^k and 2^k * x, but for LeftPower.                                 *)
LEMMA MulPowerKeeps ==
  ASSUME NEW e, NEW i, NEW types, IsNode(e, i, types), Sound(e), Canonical(e), ~LeftPower(e)
  PROVE  Changes(e, MulPower(e), i, types) /\ (MulPower(e) # e => MulPower(e).op = "SHL")
  <1> DEFINE ty == e.args[1].ty
  <1>1. CASE e.op # "MUL"
    BY <1>1 DEF MulPower, Changes
  <1>2. ASSUME e.op = "MUL", NEW v, NEW c, SingleBit(c), c.n \in Int, c.ty = ty, v.ty = ty,
               c.n = Cast(ty, c.n), v.cls = "val" => v.n \in Int,
               \/ v = e.args[1] /\ c = e.args[2]
               \/ v = e.args[2] /\ c = e.args[1]
        PROVE  LET d == ShiftBy(e, "SHL", v, c)
               IN  d.op = "SHL" /\ Sound(d) /\ Keeps(e, d, i, types)
    <2> DEFINE k == Log2(c)
               log == Value(ty, "U64", k)
    <2>1. e.op \in GeneralOps \cup IntegerOps /\ "SHL" \in GeneralOps \cup IntegerOps
      BY <1>2 DEF GeneralOps, IntegerOps
    <2>2. InType(ty, k) /\ k \in Nat /\ c.cls = "val"
      BY <1>2, PowerConstant
    <2>3. \A regs, x : /\ ValueBits(log, regs, x) \in 0 .. Size(ty) - 1
                       /\ Cast(ty, ValueBits(log, regs, x)) = k
      BY <2>2, SmallConstant
    <2>4. log.n \in Int
      BY <2>2 DEF Value
    <2>5. ShiftBy(e, "SHL", v, c) = Rewrite(e, "SHL", <<v, log>>)
      BY <1>2 DEF ShiftBy
    <2> HIDE DEF log, k
    <2>6. ASSUME NEW regs, NEW x, NEW l, NEW r, Meets(e, i, types, regs, x, l, r)
          PROVE  LET p == ValueBits(v, regs, x)
                     q == ValueBits(log, regs, x)
                 IN  /\ p \in 0 .. Size(ty) - 1 /\ q \in 0 .. Size(ty) - 1
                     /\ ~NoResult("SHL", Cast(ty, p), Cast(ty, q), ty)
                     /\ Exact("SHL", Cast(ty, p), Cast(ty, q), ty) % Size(ty) =
                          Exact(e.op, Cast(ty, l), Cast(ty, r), ty) % Size(ty)
      <3> DEFINE p == ValueBits(v, regs, x)
                 a == Cast(ty, p)
      <3>1. Exact(e.op, Cast(ty, l), Cast(ty, r), ty) = Cast(ty, l) * Cast(ty, r)
        BY <1>2 DEF Exact
      <3>2. CASE v = e.args[1] /\ c = e.args[2]
        <4>1. p = l /\ p \in 0 .. Size(ty) - 1 /\ a \in Int
          BY <2>6, <3>2, MeetsFacts
        <4>2. Cast(ty, r) = c.n
          BY <1>2, <2>2, <2>6, <3>2, ConstantOperand, MeetsFacts
        <4>3. /\ ~NoResult("SHL", a, k, ty)
              /\ Exact("SHL", a, k, ty) % Size(ty) = (a * c.n) % Size(ty)
          BY <1>2, <4>1, ShiftIsProduct DEF k
        <4> QED
          BY <2>3, <3>1, <4>1, <4>2, <4>3
      <3>3. CASE v = e.args[2] /\ c = e.args[1]
        <4>1. p = r /\ p \in 0 .. Size(ty) - 1 /\ a \in Int
          BY <2>6, <3>3, MeetsFacts
        <4>2. Cast(ty, l) = c.n
          BY <1>2, <2>2, <2>6, <3>3, ConstantOperand, MeetsFacts
        <4>3. /\ ~NoResult("SHL", a, k, ty)
              /\ Exact("SHL", a, k, ty) % Size(ty) = (c.n * a) % Size(ty)
          BY <1>2, <4>1, ShiftIsProduct DEF k
        <4> QED
          BY <2>3, <3>1, <4>1, <4>2, <4>3
      <3> QED
        BY <1>2, <3>2, <3>3
    <2>7. /\ Rewrite(e, "SHL", <<v, log>>).op = "SHL"
          /\ Sound(Rewrite(e, "SHL", <<v, log>>))
          /\ Keeps(e, Rewrite(e, "SHL", <<v, log>>), i, types)
      BY <1>2, <2>1, <2>4, <2>6, OperationKeeps
    <2> QED
      BY <2>5, <2>7
  <1>3. CASE e.op = "MUL"
    <2>1. /\ e.args[2].ty = ty
          /\ e.args[1].cls = "val" => e.args[1].n \in Int /\ e.args[1].n = Cast(ty, e.args[1].n)
          /\ e.args[2].cls = "val" => e.args[2].n \in Int /\ e.args[2].n = Cast(ty, e.args[2].n)
      <3>1. e.op \in GeneralOps \cup IntegerOps
        BY <1>3 DEF GeneralOps
      <3> QED
        BY <3>1, OperandFacts DEF Canonical
    <2>2. CASE SingleBit(e.args[1])
      <3> DEFINE first == ShiftBy(e, "SHL", e.args[2], e.args[1])
                 log == Log2(e.args[1])
      <3>1. e.args[1].cls = "val"
        BY <2>2 DEF SingleBit
      <3>2. first.op = "SHL" /\ Sound(first) /\ Keeps(e, first, i, types)
        BY <1>2, <1>3, <2>1, <2>2, <3>1
      <3>3. first.args[2] = Value(ty, "U64", log)
        <4>1. first = Rewrite(e, "SHL", <<e.args[2], Value(ty, "U64", log)>>)
          BY DEF ShiftBy
        <4>2. Rewrite(e, "SHL", <<e.args[2], Value(ty, "U64", log)>>) =
                Expr("SHL", <<e.args[2], Value(ty, "U64", log)>>, e.ty)
          BY RewriteFields
        <4> QED
          BY <4>1, <4>2 DEF Expr
      <3>4. log \in Nat
        BY <2>1, <2>2, <3>1, PowerConstant
      <3>5. ~SingleBit(Value(ty, "U64", log))
        <4>1. SingleBit(Value(ty, "U64", log)) => SingleBit(Value("U64", "U64", log))
          BY DEF SingleBit, Value
        <4>2. CASE log > 0
          BY <1>3, <2>2, <4>1, <4>2 DEF LeftPower
        <4>3. CASE log = 0
          <5>1. Value(ty, "U64", log).n = 0
            BY <4>3 DEF Value
          <5>2. \A k \in 0 .. W64 - 1 : 2 ^ k # 0
            <6>1. \A k \in 0 .. W64 - 1 : k \in Nat
              BY AlgebraAssumption
            <6> QED
              BY <6>1, PowerGrows
          <5> QED
            BY <5>1, <5>2, CastZero DEF SingleBit
        <4> QED
          BY <3>4, <4>2, <4>3
      <3>6. MulPower(e) = IF SingleBit(first.args[2])
                          THEN ShiftBy(first, "SHL", first.args[1], first.args[2]) ELSE first
        BY <1>3, <2>2 DEF MulPower
      <3> HIDE DEF first, log
      <3>7. MulPower(e) = first
        BY <3>3, <3>5, <3>6
      <3> QED
        BY <1>3, <3>2, <3>7 DEF Changes
    <2>3. CASE ~SingleBit(e.args[1]) /\ SingleBit(e.args[2])
      <3>1. MulPower(e) = ShiftBy(e, "SHL", e.args[1], e.args[2])
        BY <1>3, <2>3 DEF MulPower
      <3>2. e.args[2].cls = "val"
        BY <2>3 DEF SingleBit
      <3> QED
        BY <1>2, <1>3, <2>1, <2>3, <3>1, <3>2 DEF Changes
    <2>4. CASE ~SingleBit(e.args[1]) /\ ~SingleBit(e.args[2])
      BY <1>3, <2>4 DEF MulPower, Changes
    <2> QED
      BY <2>2, <2>3, <2>4
  <1> QED
    BY <1>1, <1>3

(* A number that is not negative, divided by a power of two.               *)
LEMMA NaturalQuotient ==
  ASSUME NEW a \in Nat, NEW k \in Nat
  PROVE  /\ Quotient(a, 2 ^ k) = a \div 2 ^ k
         /\ Remainder(a, 2 ^ k) = a % 2 ^ k
  <1> DEFINE p == 2 ^ k
  <1>1. p \in Nat /\ p > 0
    BY PowerGrows
  <1> HIDE DEF p
  <1>2. AbsVal(a) = a /\ AbsVal(p) = p /\ ~(a < 0) /\ ~(p < 0)
    BY <1>1 DEF AbsVal
  <1>3. Quotient(a, p) = a \div p
    BY <1>2 DEF Quotient
  <1>4. a \div p \in Int /\ a % p \in 0 .. p - 1 /\ a = p * (a \div p) + (a % p)
    BY <1>1, Division
  <1> DEFINE q == a \div p
             r == a % p
  <1>5. p * q \in Int /\ r \in Int /\ a = p * q + r
    BY <1>1, <1>4
  <1> HIDE DEF q, r
  <1>6. a - p * q = r
    BY <1>5
  <1> QED
    BY <1>3, <1>6 DEF Remainder, p, q, r

(* x / 2^k on unsigned operands.                                           *)
LEMMA DivPowerKeeps ==
  ASSUME NEW e, NEW i, NEW types, IsNode(e, i, types), Sound(e), Canonical(e), ~SignedPower(e)
  PROVE  Changes(e, DivPower(e), i, types)
  <1> DEFINE ty == e.args[1].ty
             c == e.args[2]
             k == Log2(c)
             log == Value(ty, "U64", k)
  <1>1. CASE e.op = "DIV" /\ SingleBit(c)
    <2>1. /\ e.op \in GeneralOps \cup IntegerOps /\ "SHR" \in GeneralOps \cup IntegerOps
          /\ e.op # "SHR"
      BY <1>1 DEF GeneralOps, IntegerOps
    <2>2. ty \notin Signed
      BY <1>1 DEF SignedPower
    <2>3. c.ty = ty /\ c.cls = "val" /\ c.n \in Int /\ c.n = Cast(ty, c.n)
      BY <1>1, <2>1, OperandFacts DEF Canonical, SingleBit
    <2>4. InType(ty, k) /\ k \in Nat /\ k \in 0 .. Bits(ty) - 1 /\ c.n = 2 ^ k
      BY <1>1, <2>2, <2>3, PowerConstant
    <2>5. \A regs, x : /\ ValueBits(log, regs, x) \in 0 .. Size(ty) - 1
                       /\ Cast(ty, ValueBits(log, regs, x)) = k
      BY <2>4, SmallConstant
    <2>6. log.n \in Int
      BY <2>4 DEF Value
    <2>7. DivPower(e) = Rewrite(e, "SHR", <<e.args[1], log>>)
      BY <1>1, <2>3 DEF DivPower, ShiftBy
    <2> HIDE DEF log, k
    <2>8. ASSUME NEW regs, NEW x, NEW l, NEW r, Meets(e, i, types, regs, x, l, r)
          PROVE  LET p == ValueBits(e.args[1], regs, x)
                     q == ValueBits(log, regs, x)
                 IN  /\ p \in 0 .. Size(ty) - 1 /\ q \in 0 .. Size(ty) - 1
                     /\ ~NoResult("SHR", Cast(ty, p), Cast(ty, q), ty)
                     /\ Exact("SHR", Cast(ty, p), Cast(ty, q), ty) % Size(ty) =
                          Exact(e.op, Cast(ty, l), Cast(ty, r), ty) % Size(ty)
      <3> DEFINE p == ValueBits(e.args[1], regs, x)
                 a == Cast(ty, p)
      <3>1. p = l /\ p \in 0 .. Size(ty) - 1 /\ a \in Int
        BY <2>8, MeetsFacts
      <3>2. a \in Nat
        <4>1. InType(ty, a)
          BY <3>1, BitsOfCast, CastFacts
        <4> HIDE DEF a
        <4> QED
          BY <2>2, <3>1, <4>1 DEF InType
      <3>3. Cast(ty, r) = 2 ^ k
        BY <2>3, <2>4, <2>8, ConstantOperand, MeetsFacts
      <3>4. ~NoResult("SHR", a, k, ty)
        BY <2>4 DEF NoResult
      <3>5. Exact("SHR", a, k, ty) = a \div 2 ^ k
        BY DEF Exact
      <3>6. Exact(e.op, a, 2 ^ k, ty) = Quotient(a, 2 ^ k)
        BY <1>1 DEF Exact
      <3>7. Quotient(a, 2 ^ k) = a \div 2 ^ k
        BY <2>4, <3>2, NaturalQuotient
      <3> QED
        BY <2>5, <3>1, <3>3, <3>4, <3>5, <3>6, <3>7
    <2>9. e.args[1].cls = "val" => e.args[1].n \in Int
      BY <2>1, OperandFacts
    <2>10. /\ Rewrite(e, "SHR", <<e.args[1], log>>).op = "SHR"
           /\ Sound(Rewrite(e, "SHR", <<e.args[1], log>>))
           /\ Keeps(e, Rewrite(e, "SHR", <<e.args[1], log>>), i, types)
      BY <2>1, <2>6, <2>8, <2>9, OperationKeeps
    <2> QED
      BY <2>1, <2>7, <2>10 DEF Changes
  <1>2. CASE ~(e.op = "DIV" /\ SingleBit(c))
    BY <1>2 DEF DivPower, Changes
  <1> QED
    BY <1>1, <1>2

(* The mask of a divisor an int holds.                                     *)
LEMMA MaskIs ==
  ASSUME NEW k \in Nat, k < W32
  PROVE  RemMask(k) = 2 ^ k - 1
  <1> DEFINE p == 2 ^ k
             h == Half("I32")
  <1>1. /\ Bits("I32") = W32 /\ "I32" \in Signed /\ W32 - 1 \in Nat
        /\ W32 \in Nat /\ W32 > 0 /\ W32 >= 2 /\ k \in 0 .. W32 - 1
    BY AlgebraAssumption DEF Bits, Signed
  <1>2. k % W32 = k
    BY <1>1, SmallRemainder
  <1>3. p \in Nat /\ 1 <= p /\ h \in Nat /\ 2 <= h /\ Size("I32") = 2 * h
    <2>1. p \in Nat /\ 1 <= p
      BY PowerGrows
    <2>2. h = 2 ^ (W32 - 1) /\ W32 - 1 < 2 ^ (W32 - 1) /\ W32 - 1 >= 1
      BY <1>1, PowerGrows DEF Half
    <2>3. h \in Nat /\ Size("I32") = 2 * h
      BY WidthFacts
    <2> HIDE DEF p, h
    <2> QED
      BY <1>1, <2>1, <2>2, <2>3
  <1>4. p <= h
    <2>1. k <= W32 - 1
      BY <1>1
    <2> QED
      BY <1>1, <2>1, PowerNotLess DEF Half
  <1>5. Cast("I32", Cast("I32", p) - 1) = p - 1
    <2>1. CASE p < h
      <3>1. InType("I32", p) /\ InType("I32", p - 1) /\ p - 1 \in Int
        <4> HIDE DEF p, h
        <4> QED
          BY <1>1, <1>3, <2>1 DEF InType, h
      <3>2. Cast("I32", p) = p
        BY <1>3, <3>1, CastOwn
      <3> QED
        BY <3>1, <3>2, CastOwn
    <2>2. CASE p = h
      <3> DEFINE m == Size("I32")
      <3>1. m \in Nat /\ m > 0 /\ p \in Int
        BY <1>3
      <3>2. InType("I32", -h) /\ -h \in Int
        <4> HIDE DEF h, p
        <4> QED
          BY <1>1, <1>3 DEF InType, h
      <3>3. p % m = (-h) % m
        <4> DEFINE one == 1
        <4>1. p = -h + m * one /\ one \in Int
          BY <1>3, <2>2
        <4> HIDE DEF p, h, m, one
        <4> QED
          BY <3>1, <3>2, <4>1, AddMultiple
      <3>4. Cast("I32", p) = -h
        BY <3>1, <3>2, <3>3, CastCongruent, CastOwn
      <3>5. InType("I32", h - 1) /\ h - 1 \in Int
        <4> HIDE DEF h, p
        <4> QED
          BY <1>1, <1>3 DEF InType, h
      <3>6. (-h - 1) % m = (h - 1) % m
        <4> DEFINE one == 1
        <4>1. h - 1 = (-h - 1) + m * one /\ one \in Int /\ -h - 1 \in Int
          BY <1>3
        <4> DEFINE y == -h - 1
                   z == h - 1
        <4>2. z = y + m * one /\ y \in Int
          BY <4>1
        <4> HIDE DEF p, h, m, one, y, z
        <4>3. z % m = y % m
          BY <3>1, <4>1, <4>2, AddMultiple
        <4> QED
          BY <4>3 DEF y, z
      <3>7. Cast("I32", -h - 1) = h - 1
        <4>1. -h - 1 \in Int
          BY <1>3
        <4> QED
          BY <3>5, <3>6, <4>1, CastCongruent, CastOwn
      <3> QED
        BY <2>2, <3>4, <3>7
    <2> QED
      BY <1>3, <1>4, <2>1, <2>2
  <1>6. Cast("U64", p - 1) = p - 1
    <2>1. InType("I32", p - 1) /\ p - 1 \in Int /\ p - 1 >= 0
      <3> HIDE DEF p, h
      <3> QED
        BY <1>1, <1>3, <1>4 DEF InType, h
    <2> QED
      BY <2>1, WidestNumber
  <1> QED
    BY <1>2, <1>5, <1>6 DEF RemMask

(* x % 2^k on unsigned operands, but for WideMask.                         *)
LEMMA RemPowerKeeps ==
  ASSUME NEW e, NEW i, NEW types, IsNode(e, i, types), Sound(e), Canonical(e), ~WideMask(e)
  PROVE  Changes(e, RemPower(e), i, types)
  <1> DEFINE ty == e.args[1].ty
             c == e.args[2]
             k == Log2(c)
             mask == Value(ty, "U64", RemMask(k))
  <1>1. CASE e.op = "REM" /\ c.ty \in Unsigned /\ SingleBit(c)
    <2>1. /\ e.op \in GeneralOps \cup IntegerOps /\ "AND" \in GeneralOps \cup IntegerOps
          /\ e.op # "AND"
      BY <1>1 DEF GeneralOps, IntegerOps
    <2>2. c.ty = ty /\ c.cls = "val" /\ c.n \in Int /\ c.n = Cast(ty, c.n)
      BY <1>1, <2>1, OperandFacts DEF Canonical, SingleBit
    <2>3. ty \notin Signed
      BY <1>1, <2>2 DEF Signed, Unsigned
    <2>4. /\ k \in Nat /\ k \in 0 .. Bits(ty) - 1 /\ c.n = 2 ^ k /\ Bits(ty) \in Nat
          /\ k \in 0 .. W64 - 1 /\ k \in 0 .. Bits(ty)
      BY <1>1, <2>2, <2>3, PowerConstant, WidthFacts
    <2>5. k < W32
      BY <1>1, <2>4, AlgebraAssumption DEF WideMask
    <2>6. RemMask(k) = 2 ^ k - 1
      BY <2>4, <2>5, MaskIs
    <2>7. 2 ^ k \in Nat /\ 1 <= 2 ^ k /\ 2 ^ k < Size(ty)
      BY <2>4, PowerGrows DEF Size
    <2>8. InType(ty, 2 ^ k - 1) /\ 2 ^ k - 1 \in Int /\ 0 <= 2 ^ k - 1
      BY <2>3, <2>7, WidthFacts DEF InType
    <2>9. \A regs, x : /\ ValueBits(mask, regs, x) \in 0 .. Size(ty) - 1
                       /\ Cast(ty, ValueBits(mask, regs, x)) = 2 ^ k - 1
      BY <2>6, <2>8, SmallConstant
    <2>10. mask.n \in Int
      BY <2>6, <2>8 DEF Value
    <2>11. RemPower(e) = Rewrite(e, "AND", <<e.args[1], mask>>)
      BY <1>1, <2>2 DEF RemPower
    <2> HIDE DEF mask, k
    <2>12. ASSUME NEW regs, NEW x, NEW l, NEW r, Meets(e, i, types, regs, x, l, r)
           PROVE  LET p == ValueBits(e.args[1], regs, x)
                      q == ValueBits(mask, regs, x)
                  IN  /\ p \in 0 .. Size(ty) - 1 /\ q \in 0 .. Size(ty) - 1
                      /\ ~NoResult("AND", Cast(ty, p), Cast(ty, q), ty)
                      /\ Exact("AND", Cast(ty, p), Cast(ty, q), ty) % Size(ty) =
                           Exact(e.op, Cast(ty, l), Cast(ty, r), ty) % Size(ty)
      <3> DEFINE p == ValueBits(e.args[1], regs, x)
                 a == Cast(ty, p)
      <3>1. p = l /\ p \in 0 .. Size(ty) - 1 /\ a \in Int
        BY <2>12, MeetsFacts
      <3>2. a \in Nat
        <4>1. InType(ty, a)
          BY <3>1, BitsOfCast, CastFacts
        <4> HIDE DEF a
        <4> QED
          BY <2>3, <3>1, <4>1 DEF InType
      <3>3. Cast(ty, r) = 2 ^ k
        BY <2>2, <2>4, <2>12, ConstantOperand, MeetsFacts
      <3>4. ~NoResult("AND", a, 2 ^ k - 1, ty)
        BY DEF NoResult
      <3>5. Exact("AND", a, 2 ^ k - 1, ty) = Bitwise2("AND", a, 2 ^ k - 1, Bits(ty))
        BY DEF Exact
      <3>6. Bitwise2("AND", a, 2 ^ k - 1, Bits(ty)) = a % 2 ^ k
        BY <2>4, <3>1, AndWithMask
      <3>7. Exact(e.op, a, 2 ^ k, ty) = Remainder(a, 2 ^ k)
        BY <1>1 DEF Exact
      <3>8. Remainder(a, 2 ^ k) = a % 2 ^ k
        BY <2>4, <3>2, NaturalQuotient
      <3> QED
        BY <2>9, <3>1, <3>3, <3>4, <3>5, <3>6, <3>7, <3>8
    <2>13. e.args[1].cls = "val" => e.args[1].n \in Int
      BY <2>1, OperandFacts
    <2>14. /\ Rewrite(e, "AND", <<e.args[1], mask>>).op = "AND"
           /\ Sound(Rewrite(e, "AND", <<e.args[1], mask>>))
           /\ Keeps(e, Rewrite(e, "AND", <<e.args[1], mask>>), i, types)
      BY <2>1, <2>10, <2>12, <2>13, OperationKeeps
    <2> QED
      BY <2>1, <2>11, <2>14 DEF Changes
  <1>2. CASE ~(e.op = "REM" /\ c.ty \in Unsigned /\ SingleBit(c))
    BY <1>2 DEF RemPower, Changes
  <1> QED
    BY <1>1, <1>2

-----------------------------------------------------------------------------
(* The rules one after the other. *)

(* A copy is passed over by every rule.                                    *)
LEMMA CopyPassed ==
  ASSUME NEW e, e.op = "MOV"
  PROVE  /\ AddZero(e) = e /\ MulZero(e) = e /\ DivideZero(e) = e
         /\ ShiftZero(e) = e /\ ByOne(e) = e /\ EqualArgs(e) = e
         /\ MulPower(e) = e /\ DivPower(e) = e /\ RemPower(e) = e
  <1>1. AddZero(e) = e /\ MulZero(e) = e /\ DivideZero(e) = e
    BY DEF AddZero, MulZero, DivideZero
  <1>2. ShiftZero(e) = e /\ ByOne(e) = e /\ EqualArgs(e) = e
    BY DEF ShiftZero, ByOne, EqualArgs
  <1>3. MulPower(e) = e
    BY DEF MulPower
  <1>4. DivPower(e) = e /\ RemPower(e) = e
    BY DEF DivPower, RemPower
  <1> QED
    BY <1>1, <1>2, <1>3, <1>4

(* The operation a node gets when it is rewritten.                         *)
LEMMA MovOp ==
  ASSUME NEW e, NEW i, NEW types, IsNode(e, i, types)
  PROVE  /\ \A v : Mov(e, v).op = "MOV"
         /\ \A op, args : Rewrite(e, op, args).op = op
  BY RewriteFields DEF Mov, Expr

(* A rule leaves a node alone or makes it another operation.               *)
LEMMA RuleResults ==
  ASSUME NEW e, NEW i, NEW types, IsNode(e, i, types)
  PROVE  /\ AddZero(e) = e \/ AddZero(e).op = "MOV"
         /\ MulZero(e) = e \/ MulZero(e).op = "MOV"
         /\ DivideZero(e) = e \/ DivideZero(e).op \in {"MOV", Fault}
         /\ ShiftZero(e) = e \/ ShiftZero(e).op = "MOV"
         /\ ByOne(e) = e \/ ByOne(e).op = "MOV"
         /\ EqualArgs(e) = e \/ EqualArgs(e).op = "MOV"
         /\ DivPower(e) = e \/ (e.op = "DIV" /\ DivPower(e).op = "SHR")
         /\ RemPower(e) = e \/ (e.op = "REM" /\ RemPower(e).op = "AND")
  <1>1. AddZero(e) = e \/ AddZero(e).op = "MOV"
    BY MovOp DEF AddZero
  <1>2. MulZero(e) = e \/ MulZero(e).op = "MOV"
    BY MovOp DEF MulZero
  <1>3. DivideZero(e) = e \/ DivideZero(e).op \in {"MOV", Fault}
    BY MovOp DEF DivideZero
  <1>4. ShiftZero(e) = e \/ ShiftZero(e).op = "MOV"
    BY MovOp DEF ShiftZero
  <1>5. ByOne(e) = e \/ ByOne(e).op = "MOV"
    BY MovOp DEF ByOne
  <1>6. EqualArgs(e) = e \/ EqualArgs(e).op = "MOV"
    BY MovOp DEF EqualArgs
  <1>7. DivPower(e) = e \/ (e.op = "DIV" /\ DivPower(e).op = "SHR")
    BY MovOp DEF DivPower, ShiftBy
  <1>8. RemPower(e) = e \/ (e.op = "REM" /\ RemPower(e).op = "AND")
    BY MovOp DEF RemPower
  <1> QED
    BY <1>1, <1>2, <1>3, <1>4, <1>5, <1>6, <1>7, <1>8

(* A multiplication becomes a shift, once or twice.                        *)
LEMMA MulPowerResult ==
  ASSUME NEW e, NEW i, NEW types, IsNode(e, i, types)
  PROVE  MulPower(e) = e \/ (e.op = "MUL" /\ MulPower(e).op = "SHL")
  <1>1. CASE e.op # "MUL"
    BY <1>1 DEF MulPower
  <1>2. CASE e.op = "MUL"
    <2> DEFINE first == IF SingleBit(e.args[1]) THEN ShiftBy(e, "SHL", e.args[2], e.args[1])
                        ELSE e
               again == ShiftBy(first, "SHL", first.args[1], first.args[2])
    <2>1. first = e \/ first.op = "SHL"
      BY MovOp DEF ShiftBy
    <2>2. IsNode(first, i, types)
      <3>1. e.op \in GeneralOps \cup IntegerOps /\ e.op \in BinaryOps
        BY <1>2 DEF GeneralOps, IntegerOps, BinaryOps
      <3>2. \A k \in {1, 2} : IsOperand(e.args[k], i, types) /\ e.args[k].ty = e.ty
        BY <3>1, BinaryFacts
      <3>3. IsNode(ShiftBy(e, "SHL", e.args[2], e.args[1]), i, types)
        BY <3>1, <3>2, ShiftByTyped
      <3> QED
        BY <3>3
    <2>3. MulPower(e) \in {first, again}
      BY <1>2 DEF MulPower
    <2> HIDE DEF first
    <2>4. again.op = "SHL"
      BY <2>2, MovOp DEF ShiftBy
    <2> QED
      BY <1>2, <2>1, <2>3, <2>4
  <1> QED
    BY <1>1, <1>2

(* One rule at most applies to a node.                                     *)
LEMMA ProcessNodeIs ==
  ASSUME NEW e, NEW i, NEW types, IsNode(e, i, types), e.op # Fault
  PROVE  ProcessNode(e) \in {e, AddZero(e), MulZero(e), DivideZero(e), ShiftZero(e), ByOne(e),
                             EqualArgs(e), MulPower(e), DivPower(e), RemPower(e)}
  <1> DEFINE rules == {e, AddZero(e), MulZero(e), DivideZero(e), ShiftZero(e), ByOne(e),
                       EqualArgs(e), MulPower(e), DivPower(e), RemPower(e)}
             Copied(d) == d = e \/ (d.op = "MOV" /\ d \in rules)
             b == MulZero(AddZero(e))
             d == DivideZero(b)
             q == EqualArgs(ByOne(ShiftZero(d)))
             r == RemPower(DivPower(MulPower(q)))
  <1>1. ProcessNode(e) = IF d.op = Fault THEN d ELSE r
    BY DEF ProcessNode
  <1>2. /\ AddZero(e) \in rules /\ MulZero(e) \in rules /\ DivideZero(e) \in rules
        /\ ShiftZero(e) \in rules /\ ByOne(e) \in rules /\ EqualArgs(e) \in rules
        /\ MulPower(e) \in rules /\ DivPower(e) \in rules /\ RemPower(e) \in rules
        /\ e \in rules
    OBVIOUS
  <1> HIDE DEF rules
  <1>3. Copied(AddZero(e))
    BY <1>2, RuleResults
  <1>4. Copied(b)
    BY <1>2, <1>3, RuleResults, CopyPassed
  <1> HIDE DEF b
  <1>5. Copied(d) \/ (d.op = Fault /\ d \in rules)
    BY <1>2, <1>4, RuleResults, CopyPassed
  <1> HIDE DEF d
  <1>6. CASE d.op = Fault
    <2>1. d \in rules
      BY <1>5, <1>6 DEF Fault
    <2> QED
      BY <1>1, <1>6, <2>1 DEF rules
  <1>7. CASE d.op # Fault
    <2>1. Copied(d)
      BY <1>5, <1>7
    <2>2. Copied(ShiftZero(d))
      BY <1>2, <2>1, RuleResults, CopyPassed
    <2>3. Copied(ByOne(ShiftZero(d)))
      BY <1>2, <2>2, RuleResults, CopyPassed
    <2>4. Copied(q)
      BY <1>2, <2>3, RuleResults, CopyPassed
    <2> HIDE DEF q
    <2>5. CASE q.op = "MOV" /\ q \in rules
      <3>1. r = q
        BY <2>5, CopyPassed
      <3> QED
        BY <1>1, <1>7, <2>5, <3>1 DEF rules
    <2>6. CASE q = e
      <3>1. CASE MulPower(e) # e
        <4>1. MulPower(e).op = "SHL"
          BY <3>1, MulPowerResult
        <4>2. RemPower(DivPower(MulPower(e))) = MulPower(e)
          BY <4>1 DEF DivPower, RemPower
        <4> QED
          BY <1>1, <1>2, <1>7, <2>6, <4>2 DEF rules
      <3>2. CASE MulPower(e) = e /\ DivPower(e) # e
        <4>1. DivPower(e).op = "SHR"
          BY <3>2, RuleResults
        <4>2. RemPower(DivPower(e)) = DivPower(e)
          BY <4>1 DEF RemPower
        <4> QED
          BY <1>1, <1>2, <1>7, <2>6, <3>2, <4>2 DEF rules
      <3>3. CASE MulPower(e) = e /\ DivPower(e) = e
        BY <1>1, <1>2, <1>7, <2>6, <3>3 DEF rules
      <3> QED
        BY <3>1, <3>2, <3>3
    <2> QED
      BY <2>4, <2>5, <2>6
  <1> QED
    BY <1>6, <1>7

(* A node the rules change becomes another operation.                      *)
LEMMA ProcessNodeChanges ==
  ASSUME NEW e, NEW i, NEW types, IsNode(e, i, types), e.op \in BinaryOps
  PROVE  ProcessNode(e) = e \/ ProcessNode(e).op # e.op
  <1>1. e.op # Fault /\ e.op # "MOV"
    BY DEF BinaryOps, GeneralOps, IntegerOps, CompareOps, Fault
  <1> HIDE DEF Fault
  <1> DEFINE Other(d) == d = e \/ d.op # e.op
  <1>2. /\ Other(AddZero(e)) /\ Other(MulZero(e)) /\ Other(DivideZero(e)) /\ Other(ShiftZero(e))
        /\ Other(ByOne(e)) /\ Other(EqualArgs(e)) /\ Other(DivPower(e)) /\ Other(RemPower(e))
    BY <1>1, RuleResults
  <1>3. Other(MulPower(e))
    BY MulPowerResult
  <1> QED
    BY <1>1, <1>2, <1>3, ProcessNodeIs

(* The rules keep the value of a node that is none of the known wrong.     *)
LEMMA ProcessNodeKeeps ==
  ASSUME NEW e, NEW i, NEW types, IsNode(e, i, types), Sound(e), Canonical(e),
         e.op \in BinaryOps, ~LeftPower(e), ~SignedPower(e), ~WideMask(e)
  PROVE  ProcessNode(e) = e \/ Keeps(e, ProcessNode(e), i, types)
  <1>1. e.op # Fault
    BY DEF BinaryOps, GeneralOps, IntegerOps, CompareOps, Fault
  <1> DEFINE Kept(d) == d = e \/ Keeps(e, d, i, types)
  <1>2. Kept(AddZero(e)) /\ Kept(MulZero(e)) /\ Kept(DivideZero(e)) /\ Kept(ShiftZero(e))
    BY AddZeroKeeps, MulZeroKeeps, DivideZeroKeeps, ShiftZeroKeeps DEF Copies
  <1>3. Kept(ByOne(e)) /\ Kept(EqualArgs(e))
    BY ByOneKeeps, EqualArgsKeeps DEF Copies
  <1>4. Kept(MulPower(e)) /\ Kept(DivPower(e)) /\ Kept(RemPower(e))
    BY MulPowerKeeps, DivPowerKeeps, RemPowerKeeps DEF Changes
  <1> QED
    BY <1>1, <1>2, <1>3, <1>4, ProcessNodeIs

(* The logarithm of a power of two is a number.                            *)
LEMMA LogIsNumber ==
  ASSUME NEW v, SingleBit(v)
  PROVE  v.cls = "val" /\ Log2(v) \in Nat
  <1>1. \E k \in 0 .. W64 - 1 : Cast("U64", v.n) = 2 ^ k
    BY DEF SingleBit
  <1>2. Log2(v) \in 0 .. W64 - 1
    BY <1>1 DEF Log2
  <1> QED
    BY <1>2 DEF SingleBit

(* The constants of an operation on two operands are numbers.              *)
LEMMA PairSound ==
  ASSUME NEW e, NEW i, NEW types, IsNode(e, i, types), NEW op, op # "cast", NEW a, NEW b,
         a.cls = "val" => a.n \in Int, b.cls = "val" => b.n \in Int
  PROVE  Sound(Rewrite(e, op, <<a, b>>))
  <1> DEFINE d == Rewrite(e, op, <<a, b>>)
  <1>1. d.op = op /\ d.args = <<a, b>>
    BY RewriteFields DEF Expr
  <1>2. DOMAIN <<a, b>> = {1, 2} /\ <<a, b>>[1] = a /\ <<a, b>>[2] = b
    OBVIOUS
  <1> HIDE DEF d
  <1>3. Sound(d)
    BY <1>1, <1>2 DEF Sound
  <1> QED
    BY <1>3 DEF d

(* And those of a copy of a number, and of a failure.                      *)
LEMMA CopySound ==
  ASSUME NEW e, NEW i, NEW types, IsNode(e, i, types)
  PROVE  /\ \A v : (v.cls = "val" => v.n \in Int) => Sound(Mov(e, v))
         /\ Sound(Rewrite(e, Fault, <<>>))
  <1>1. ASSUME NEW v, v.cls = "val" => v.n \in Int PROVE Sound(Mov(e, v))
    <2>1. Mov(e, v).op = "MOV" /\ Mov(e, v).args = <<v>>
      BY RewriteFields DEF Mov, Expr
    <2>2. DOMAIN <<v>> = {1} /\ <<v>>[1] = v
      OBVIOUS
    <2> QED
      BY <1>1, <2>1, <2>2 DEF Sound
  <1>2. Sound(Rewrite(e, Fault, <<>>))
    <2>1. Rewrite(e, Fault, <<>>).op = Fault /\ Rewrite(e, Fault, <<>>).args = <<>>
      BY RewriteFields DEF Expr
    <2> QED
      BY <2>1 DEF Sound, Fault
  <1> QED
    BY <1>1, <1>2

(* The rules make numbers of numbers.                                      *)
LEMMA ProcessNodeSound ==
  ASSUME NEW e, NEW i, NEW types, IsNode(e, i, types), e.op \in BinaryOps, Sound(e)
  PROVE  Sound(ProcessNode(e))
  <1>1. e.op # Fault
    BY DEF BinaryOps, GeneralOps, IntegerOps, CompareOps, Fault
  <1>2. /\ e.args[1].cls = "val" => e.args[1].n \in Int
        /\ e.args[2].cls = "val" => e.args[2].n \in Int
    <2>1. DOMAIN e.args = 1 .. 2
      BY DEF IsNode, Typed
    <2> QED
      BY <2>1 DEF Sound
  <1>3. ASSUME NEW op, op # "cast", NEW d, IsNode(d, i, types), NEW v, v.cls = "val" => v.n \in Int,
               NEW k, SingleBit(k)
        PROVE  Sound(ShiftBy(d, op, v, k))
    <2> DEFINE log == Value(k.ty, "U64", Log2(k))
    <2>1. log.n \in Int
      BY <1>3, LogIsNumber DEF Value
    <2>2. ShiftBy(d, op, v, k) = Rewrite(d, op, <<v, log>>)
      BY DEF ShiftBy
    <2> HIDE DEF log
    <2> QED
      BY <1>3, <2>1, <2>2, PairSound
  <1>4. Sound(Mov(e, e.args[1])) /\ Sound(Mov(e, e.args[2])) /\ Sound(Rewrite(e, Fault, <<>>))
    BY <1>2, CopySound
  <1>5. Sound(AddZero(e)) /\ Sound(MulZero(e)) /\ Sound(DivideZero(e))
    BY <1>4 DEF AddZero, MulZero, DivideZero
  <1>6. Sound(ShiftZero(e)) /\ Sound(ByOne(e))
    BY <1>4 DEF ShiftZero, ByOne
  <1>7. Sound(EqualArgs(e))
    <2>1. Value(e.args[1].ty, "U64", 0).n \in Int
      BY DEF Value
    <2>2. Sound(Mov(e, Value(e.args[1].ty, "U64", 0)))
      BY <2>1, CopySound
    <2> QED
      BY <2>2 DEF EqualArgs
  <1>8. Sound(DivPower(e))
    BY <1>2, <1>3 DEF DivPower
  <1>9. Sound(RemPower(e))
    <2> DEFINE mask == Value(e.args[2].ty, "U64", RemMask(Log2(e.args[2])))
    <2>1. CASE SingleBit(e.args[2])
      <3> DEFINE log == Log2(e.args[2])
      <3>1. log \in Nat
        BY <2>1, LogIsNumber
      <3>2. RemMask(log) \in Int
        <4>1. W32 \in Nat /\ W32 > 0
          BY AlgebraAssumption
        <4>2. log % W32 \in Nat
          BY <3>1, <4>1, Division
        <4> DEFINE b == Cast("I32", 2 ^ (log % W32))
        <4>3. b \in Int
          BY <4>2, PowerGrows, CastFacts
        <4> HIDE DEF b
        <4>4. Cast("U64", Cast("I32", b - 1)) \in Int
          BY <4>3, CastFacts
        <4> QED
          BY <4>4 DEF RemMask, b
      <3>3. mask.n \in Int
        BY <3>2 DEF Value
      <3> HIDE DEF mask
      <3>4. Sound(Rewrite(e, "AND", <<e.args[1], mask>>))
        BY <1>2, <3>3, PairSound
      <3> QED
        BY <3>4 DEF RemPower, mask
    <2>2. CASE ~SingleBit(e.args[2])
      BY <2>2 DEF RemPower
    <2> QED
      BY <2>1, <2>2
  <1>10. Sound(MulPower(e))
    <2>1. CASE e.op = "MUL"
      <3> DEFINE first == IF SingleBit(e.args[1]) THEN ShiftBy(e, "SHL", e.args[2], e.args[1])
                          ELSE e
                 again == ShiftBy(first, "SHL", first.args[1], first.args[2])
      <3>1. e.op \in GeneralOps \cup IntegerOps /\ e.op \in BinaryOps
        BY <2>1 DEF GeneralOps, IntegerOps, BinaryOps
      <3>2. \A k \in {1, 2} : IsOperand(e.args[k], i, types) /\ e.args[k].ty = e.ty
        BY <3>1, BinaryFacts
      <3>3. /\ IsNode(ShiftBy(e, "SHL", e.args[2], e.args[1]), i, types)
            /\ ShiftBy(e, "SHL", e.args[2], e.args[1]).args[1] = e.args[2]
        BY <3>1, <3>2, ShiftByTyped
      <3>4. IsNode(first, i, types) /\ first.args[1] \in {e.args[1], e.args[2]}
        BY <3>3
      <3>5. Sound(first)
        BY <1>2, <1>3
      <3>6. MulPower(e) = IF SingleBit(first.args[2]) THEN again ELSE first
        BY <2>1 DEF MulPower
      <3> HIDE DEF first
      <3>7. SingleBit(first.args[2]) => Sound(again)
        BY <1>2, <1>3, <3>4
      <3> QED
        BY <3>5, <3>6, <3>7
    <2>2. CASE e.op # "MUL"
      BY <2>2 DEF MulPower
    <2> QED
      BY <2>1, <2>2
  <1> QED
    BY <1>1, <1>5, <1>6, <1>7, <1>8, <1>9, <1>10, ProcessNodeIs

-----------------------------------------------------------------------------
(* Folding. *)

(* What an operation folds to.                                             *)
LEMMA FoldedOperation ==
  ASSUME NEW e, NEW i, NEW types, IsNode(e, i, types), e.op \in BinaryOps, NEW v \in FoldExpr(e)
  PROVE  LET T == Promote(e.args[1].rep)
             l == e.args[1].n
             r == Cast(e.args[1].rep, e.args[2].n)
         IN  /\ e.args[1].cls = "val" /\ e.args[2].cls = "val"
             /\ e.op \in CompareOps =>
                  v = Value("BOOL", "I8", IF Compare(e.op, l, r) THEN 1 ELSE 0)
             /\ e.op \in GeneralOps \cup IntegerOps =>
                  v = IF NoResult(e.op, l, r, T) THEN FaultValue
                      ELSE Value(e.args[1].ty, T, Compute(e.op, l, r, T))
  <1> DEFINE l == e.args[1].n
             r == Cast(e.args[1].rep, e.args[2].n)
  <1>1. e.op # "cast" /\ DOMAIN e.args = 1 .. 2 /\ Len(e.args) = 2
    BY DEF IsNode, Typed, BinaryOps, GeneralOps, IntegerOps, CompareOps
  <1>2. v \in FoldOper(e)
    BY <1>1 DEF FoldExpr
  <1>3. e.args[1].cls = "val" /\ e.args[2].cls = "val"
    BY <1>1, <1>2 DEF FoldOper
  <1>4. v \in FoldNumbers(e.op, e.args[1], l, r)
    BY <1>1, <1>2 DEF FoldOper
  <1> HIDE DEF l, r
  <1>5. /\ e.op \in CompareOps =>
             v = Value("BOOL", "I8", IF Compare(e.op, l, r) THEN 1 ELSE 0)
        /\ e.op \in GeneralOps \cup IntegerOps =>
             v = IF NoResult(e.op, l, r, Promote(e.args[1].rep)) THEN FaultValue
                 ELSE Value(e.args[1].ty, Promote(e.args[1].rep),
                            Compute(e.op, l, r, Promote(e.args[1].rep)))
    BY <1>4 DEF FoldNumbers, CompareOps, GeneralOps, IntegerOps
  <1> QED
    BY <1>3, <1>5 DEF l, r

(* What a cast folds to.                                                   *)
LEMMA FoldedCast ==
  ASSUME NEW e, e.op = "cast", Sound(e), NEW v \in FoldExpr(e)
  PROVE  e.args[1].cls = "val" /\ v = Value(e.ty, e.ty, Cast(e.ty, e.args[1].n))
  BY DEF FoldExpr, FoldCast, Sound

(* Only casts and operations fold.                                         *)
LEMMA FoldedKinds ==
  ASSUME NEW e, NEW i, NEW types, IsNode(e, i, types), NEW v \in FoldExpr(e)
  PROVE  e.op = "cast" \/ e.op \in BinaryOps
  <1> SUFFICES ASSUME e.op # "cast" PROVE e.op \in BinaryOps
    OBVIOUS
  <1>1. v \in FoldOper(e)
    BY DEF FoldExpr
  <1>2. PICK r : v \in FoldNumbers(e.op, e.args[1], e.args[1].n, r)
    BY <1>1 DEF FoldOper
  <1>3. CASE e.op \notin BinaryOps
    <2>1. e.op \notin CompareOps /\ e.op \notin GeneralOps \cup IntegerOps /\ e.op # "CTZ"
      BY <1>3 DEF IsNode, NodeOps, BinaryOps, Fault
    <2> QED
      BY <1>2, <2>1 DEF FoldNumbers
  <1> QED
    BY <1>3

(* The folder makes numbers of numbers.                                    *)
LEMMA FoldSound ==
  ASSUME NEW e, NEW i, NEW types, IsNode(e, i, types), Sound(e), NEW v \in FoldExpr(e)
  PROVE  v.cls = "val" => v.n \in Int
  <1>1. CASE e.op = "cast"
    <2>1. 1 \in DOMAIN e.args
      BY <1>1 DEF IsNode, Typed
    <2>2. e.args[1].n \in Int
      BY <1>1, <2>1, FoldedCast DEF Sound
    <2>3. Cast(e.ty, e.args[1].n) \in Int
      BY <2>2, CastFacts
    <2> QED
      BY <1>1, <2>3, FoldedCast DEF Value
  <1>2. CASE e.op \in BinaryOps
    <2> DEFINE T == Promote(e.args[1].rep)
               l == e.args[1].n
               r == Cast(e.args[1].rep, e.args[2].n)
    <2>1. DOMAIN e.args = 1 .. 2
      BY <1>2 DEF IsNode, Typed
    <2>2. e.args[1].cls = "val" /\ e.args[2].cls = "val"
      BY <1>2, FoldedOperation
    <2>3. l \in Int /\ r \in Int
      <3>1. l \in Int /\ e.args[2].n \in Int
        BY <2>1, <2>2 DEF Sound
      <3> QED
        BY <3>1, CastFacts
    <2>4. /\ e.op \in CompareOps =>
               v = Value("BOOL", "I8", IF Compare(e.op, l, r) THEN 1 ELSE 0)
          /\ e.op \in GeneralOps \cup IntegerOps =>
               v = IF NoResult(e.op, l, r, T) THEN FaultValue
                   ELSE Value(e.args[1].ty, T, Compute(e.op, l, r, T))
      BY <1>2, FoldedOperation
    <2> HIDE DEF T, l, r
    <2>5. CASE e.op \in CompareOps
      <3> DEFINE m == IF Compare(e.op, l, r) THEN 1 ELSE 0
      <3>1. v = Value("BOOL", "I8", m) /\ m \in {0, 1}
        BY <2>4, <2>5
      <3> HIDE DEF m
      <3> QED
        BY <3>1 DEF Value
    <2>6. CASE e.op \in GeneralOps \cup IntegerOps /\ NoResult(e.op, l, r, T)
      <3>1. v = FaultValue
        BY <2>4, <2>6
      <3>2. FaultValue.n = 0
        BY DEF FaultValue
      <3> QED
        BY <3>1, <3>2
    <2>7. CASE e.op \in GeneralOps \cup IntegerOps /\ ~NoResult(e.op, l, r, T)
      <3>1. Compute(e.op, l, r, T) \in Int
        BY <2>3, <2>7, ComputeExact, ExactIsNumber, CastFacts
      <3> QED
        BY <2>4, <2>7, <3>1 DEF Value
    <2> QED
      BY <1>2, <2>5, <2>6, <2>7 DEF BinaryOps
  <1> QED
    BY <1>1, <1>2, FoldedKinds

(* A cast of a number has its bits, but for UnsignedCast.                  *)
LEMMA CastOfNumber ==
  ASSUME NEW from, NEW to, NEW n \in Int, n = Cast(from, n), to \in Types,
         ~(from \in Signed /\ to \in Unsigned /\ Bits(from) < Bits(to))
  PROVE  CastBits(from, to, n % Size(from)) = n % Size(to)
  <1> DEFINE low == n % Size(from)
  <1>1. low \in 0 .. Size(from) - 1 /\ low \in Int
    BY RemainderInType, WidthFacts
  <1>2. CASE Bits(from) < Bits(to) /\ from \in Signed /\ to \in Signed
    <2>1. low % Size(from) = n % Size(from)
      BY <1>1, WidthFacts, SmallRemainder
    <2> HIDE DEF low
    <2>2. Cast(from, low) = n
      BY <1>1, <2>1, CastCongruent
    <2>3. CastBits(from, to, low) = Cast(from, low) % Size(to)
      BY <1>2 DEF CastBits, Size
    <2> QED
      BY <2>2, <2>3 DEF low
  <1>3. CASE ~(Bits(from) < Bits(to) /\ from \in Signed /\ to \in Signed)
    <2>1. CastBits(from, to, low) = low % Size(to)
      BY <1>3 DEF CastBits, Size
    <2>2. CASE Bits(from) < Bits(to)
      <3>1. from \notin Signed
        BY <1>3, <2>2 DEF Types
      <3>2. n \in 0 .. Size(from) - 1
        BY <3>1, CastFacts, WidthFacts DEF InType
      <3>3. low = n
        BY <3>2, WidthFacts, SmallRemainder
      <3> QED
        BY <2>1, <3>3
    <2>3. CASE ~(Bits(from) < Bits(to))
      <3> DEFINE d == Bits(from) - Bits(to)
      <3>1. d \in Nat /\ Bits(from) = Bits(to) + d /\ Bits(to) \in Nat
        BY <2>3, WidthFacts
      <3> HIDE DEF d
      <3>2. Size(from) = Size(to) * 2 ^ d
        BY <3>1, PowerSplits DEF Size
      <3>3. 2 ^ d \in Nat /\ 2 ^ d > 0 /\ Size(to) \in Nat /\ Size(to) > 0
        BY <3>1, PowerGrows, WidthFacts
      <3> DEFINE k == 2 ^ d
      <3> HIDE DEF k
      <3>4. (n % (Size(to) * k)) % Size(to) = n % Size(to)
        BY <3>3, RemainderOfRemainder DEF k
      <3> QED
        BY <2>1, <3>2, <3>4 DEF k
    <2> QED
      BY <2>2, <2>3
  <1> QED
    BY <1>2, <1>3

(* A node that is none of the known wrong folds to what it computes, and   *)
(* fails only when it computes nothing.                                    *)
LEMMA FoldKeeps ==
  ASSUME NEW e, NEW i, NEW types, IsNode(e, i, types), Sound(e), ~KnownWrong(e),
         NEW v \in FoldExpr(e), NEW regs, NEW x \in Inputs, Typable(regs, i, types)
  PROVE  IF v.cls = Fault THEN NodeBits(e, regs, x) = NoNumber
         ELSE Refines(NodeBits(e, regs, x), ValueBits(v, regs, x))
  <1>1. FoldExpr(e) # {}
    OBVIOUS
  <1>2. \A j \in DOMAIN e.args : e.args[j].cls = "val" =>
          /\ e.args[j].n = Cast(e.args[j].ty, e.args[j].n)
          /\ e.args[j].rep = e.args[j].ty /\ e.args[j].n \in Int
    BY <1>1 DEF KnownWrong, OddConstant, Sound
  <1>3. e.args[1].rep \notin {"I8", "U8"}
    BY <1>1 DEF KnownWrong, NarrowFold
  <1>4. CASE e.op = "cast"
    <2> DEFINE c == e.args[1]
               n == c.n
    <2>1. DOMAIN e.args = 1 .. 1
      BY <1>4 DEF IsNode, Typed
    <2>2. c.cls = "val" /\ v = Value(e.ty, e.ty, Cast(e.ty, n))
      BY <1>4, FoldedCast
    <2>3. n \in Int /\ n = Cast(c.ty, n)
      BY <1>2, <2>1, <2>2
    <2>4. e.ty \in Types
      BY <1>4 DEF IsNode, Sound, AllTypes
    <2>5. ~(c.ty \in Signed /\ e.ty \in Unsigned /\ Bits(c.ty) < Bits(e.ty))
      BY <1>4 DEF KnownWrong, UnsignedCast
    <2>6. CastBits(c.ty, e.ty, n % Size(c.ty)) = n % Size(e.ty)
      BY <2>3, <2>4, <2>5, CastOfNumber
    <2>7. ValueBits(c, regs, x) = n % Size(c.ty)
      BY <2>2, <2>3, ConstantBits
    <2>8. NodeBits(e, regs, x) \in {NoNumber, n % Size(e.ty)}
      BY <1>4, <2>1, <2>6, <2>7, CastNodeBits
    <2>9. v.cls = "val" /\ v.ty = e.ty /\ v.n = Cast(e.ty, n)
      BY <2>2 DEF Value
    <2> HIDE DEF c, n
    <2>10. ValueBits(v, regs, x) = n % Size(e.ty)
      BY <2>3, <2>9, CastFacts, ConstantBits
    <2> QED
      BY <2>8, <2>9, <2>10 DEF Refines, Fault
  <1>5. CASE e.op \in BinaryOps
    <2> DEFINE a == e.args[1]
               b == e.args[2]
               ty == a.ty
               p == ValueBits(a, regs, x)
               q == ValueBits(b, regs, x)
    <2>1. DOMAIN e.args = 1 .. 2 /\ b.ty = ty
      BY <1>5 DEF IsNode, Typed
    <2>2. a.cls = "val" /\ b.cls = "val"
      BY <1>5, FoldedOperation
    <2>3. /\ a.n \in Int /\ a.n = Cast(ty, a.n) /\ a.rep = ty
          /\ b.n \in Int /\ b.n = Cast(ty, b.n)
      BY <1>2, <2>1, <2>2
    <2>4. Promote(a.rep) = ty
      BY <1>3, <2>3 DEF Promote
    <2>5. /\ e.op \in CompareOps =>
               v = Value("BOOL", "I8", IF Compare(e.op, a.n, b.n) THEN 1 ELSE 0)
          /\ e.op \in GeneralOps \cup IntegerOps =>
               v = IF NoResult(e.op, a.n, b.n, ty) THEN FaultValue
                   ELSE Value(ty, ty, Compute(e.op, a.n, b.n, ty))
      <3>1. Cast(a.rep, b.n) = b.n
        BY <2>3
      <3> QED
        BY <1>5, <2>4, <3>1, FoldedOperation
    <2>6. Cast(ty, p) = a.n /\ Cast(ty, q) = b.n
      BY <2>1, <2>2, <2>3, ConstantOperand
    <2>7. NodeBits(e, regs, x) = IF p = NoNumber \/ q = NoNumber THEN NoNumber
                                 ELSE OperBits(e, p, q)
      BY <1>5, <2>1, OperationBits
    <2> HIDE DEF a, b, p, q
    <2>8. CASE e.op \in CompareOps
      <3> DEFINE m == IF Compare(e.op, a.n, b.n) THEN 1 ELSE 0
      <3>1. OperBits(e, p, q) = m
        BY <2>6, <2>8 DEF OperBits, a
      <3>2. v = Value("BOOL", "I8", m) /\ m \in {0, 1}
        BY <2>5, <2>8
      <3> HIDE DEF m
      <3>3. v.cls = "val" /\ v.n = m /\ v.ty = "BOOL"
        BY <3>2 DEF Value
      <3>4. ValueBits(v, regs, x) = m % Size("BOOL")
        BY <3>2, <3>3, ConstantBits
      <3>5. Size("BOOL") = 2
        <4> DEFINE none == 0
        <4> HIDE DEF none
        <4>1. none \in Nat /\ Bits("BOOL") = none + 1
          BY DEF Bits, none
        <4>2. 2 ^ (none + 1) = 2 * 2 ^ none /\ 2 ^ none = 1
          BY <4>1, PowerFacts DEF none
        <4> QED
          BY <4>1, <4>2 DEF Size
      <3>6. m % Size("BOOL") = m
        BY <3>2, <3>5, SmallRemainder
      <3> QED
        BY <2>7, <3>1, <3>3, <3>4, <3>6 DEF Refines, Fault
    <2>9. CASE e.op \in GeneralOps \cup IntegerOps
      <3>1. e.op \notin CompareOps
        BY <2>9 DEF GeneralOps, IntegerOps, CompareOps
      <3>2. OperBits(e, p, q) = IF NoResult(e.op, a.n, b.n, ty) THEN NoNumber
                                ELSE Compute(e.op, a.n, b.n, ty) % Size(ty)
        BY <2>6, <3>1 DEF OperBits, Size, a
      <3>3. CASE NoResult(e.op, a.n, b.n, ty)
        <4>1. v = FaultValue /\ OperBits(e, p, q) = NoNumber
          BY <2>5, <2>9, <3>2, <3>3
        <4>2. v.cls = Fault
          BY <4>1 DEF FaultValue
        <4> QED
          BY <2>7, <4>1, <4>2
      <3>4. CASE ~NoResult(e.op, a.n, b.n, ty)
        <4>1. v = Value(ty, ty, Compute(e.op, a.n, b.n, ty))
          BY <2>5, <2>9, <3>4
        <4>2. Compute(e.op, a.n, b.n, ty) \in Int
          BY <2>3, <2>9, <3>4, ComputeExact, ExactIsNumber, CastFacts
        <4>3. v.cls = "val" /\ v.ty = ty /\ v.n = Compute(e.op, a.n, b.n, ty)
          BY <4>1 DEF Value
        <4>4. ValueBits(v, regs, x) = Compute(e.op, a.n, b.n, ty) % Size(ty)
          BY <4>2, <4>3, ConstantBits
        <4> QED
          BY <2>7, <3>2, <3>4, <4>3, <4>4 DEF Refines, Fault
      <3> QED
        BY <3>3, <3>4
    <2> QED
      BY <1>5, <2>8, <2>9 DEF BinaryOps
  <1> QED
    BY <1>4, <1>5, FoldedKinds

-----------------------------------------------------------------------------
(* Programs. *)

(* A node computes from the registers before it only.                      *)
LEMMA NodeLocal ==
  ASSUME NEW e, NEW i, NEW types, IsNode(e, i, types), NEW regs, NEW others,
         \A k \in 1 .. i - 1 : others[k] = regs[k], NEW x
  PROVE  NodeBits(e, others, x) = NodeBits(e, regs, x)
  <1>1. \A j \in DOMAIN e.args : ValueBits(e.args[j], others, x) = ValueBits(e.args[j], regs, x)
    <2> SUFFICES ASSUME NEW j \in DOMAIN e.args
                 PROVE  ValueBits(e.args[j], others, x) = ValueBits(e.args[j], regs, x)
      OBVIOUS
    <2> DEFINE v == e.args[j]
    <2>1. v.cls \in {"val", "param", "reg"} /\ (v.cls = "reg" => v.n \in 1 .. i - 1)
      BY DEF IsNode, IsOperand
    <2> HIDE DEF v
    <2>2. CASE v.cls = "reg"
      <3>1. others[v.n] = regs[v.n]
        BY <2>1, <2>2
      <3> QED
        BY <2>2, <3>1 DEF ValueBits, v
    <2>3. CASE v.cls # "reg"
      BY <2>1, <2>3 DEF ValueBits, v
    <2> QED
      BY <2>2, <2>3
  <1>2. [j \in DOMAIN e.args |-> ValueBits(e.args[j], others, x)] =
          [j \in DOMAIN e.args |-> ValueBits(e.args[j], regs, x)]
    BY <1>1
  <1> QED
    BY <1>2 DEF NodeBits

(* A node computes what it did when no register it reads has changed, the  *)
(* undefined ones apart.                                                   *)
LEMMA NodeMonotone ==
  ASSUME NEW e, NEW i, NEW types, IsNode(e, i, types), NEW regs, NEW others,
         \A k \in 1 .. i - 1 : Refines(regs[k], others[k]), NEW x
  PROVE  Refines(NodeBits(e, regs, x), NodeBits(e, others, x))
  <1> SUFFICES ASSUME NodeBits(e, regs, x) # NoNumber
               PROVE  NodeBits(e, others, x) = NodeBits(e, regs, x)
    BY DEF Refines
  <1>1. \A j \in DOMAIN e.args : ValueBits(e.args[j], regs, x) # NoNumber
    <2> DEFINE arg == [j \in DOMAIN e.args |-> ValueBits(e.args[j], regs, x)]
    <2>1. ~(\E j \in DOMAIN arg : arg[j] = NoNumber)
      BY DEF NodeBits
    <2> QED
      BY <2>1
  <1>2. \A j \in DOMAIN e.args : ValueBits(e.args[j], others, x) = ValueBits(e.args[j], regs, x)
    <2> SUFFICES ASSUME NEW j \in DOMAIN e.args
                 PROVE  ValueBits(e.args[j], others, x) = ValueBits(e.args[j], regs, x)
      OBVIOUS
    <2> DEFINE v == e.args[j]
    <2>1. v.cls \in {"val", "param", "reg"} /\ (v.cls = "reg" => v.n \in 1 .. i - 1)
      BY DEF IsNode, IsOperand
    <2>2. ValueBits(v, regs, x) # NoNumber
      BY <1>1
    <2> HIDE DEF v
    <2>3. CASE v.cls = "reg"
      <3>1. regs[v.n] # NoNumber
        BY <2>2, <2>3 DEF ValueBits
      <3>2. others[v.n] = regs[v.n]
        BY <2>1, <2>3, <3>1 DEF Refines
      <3> QED
        BY <2>3, <3>2 DEF ValueBits, v
    <2>4. CASE v.cls # "reg"
      BY <2>1, <2>4 DEF ValueBits, v
    <2> QED
      BY <2>3, <2>4
  <1>3. [j \in DOMAIN e.args |-> ValueBits(e.args[j], others, x)] =
          [j \in DOMAIN e.args |-> ValueBits(e.args[j], regs, x)]
    BY <1>2
  <1> QED
    BY <1>3 DEF NodeBits

(* A program of sound nodes.                                               *)
SoundProgram(p, types) ==
  \A i \in 1 .. 3 : IsNode(p[i], i, types) /\ p[i].ty = types[i] /\ Sound(p[i])

(* Its registers hold what its nodes compute from them.                    *)
LEMMA RunIs ==
  ASSUME NEW p, NEW types, SoundProgram(p, types), NEW x \in Inputs
  PROVE  LET regs == Run(p, x)
         IN  /\ \A i \in 1 .. 3 : regs[i] = NodeBits(p[i], regs, x)
             /\ \A i \in 1 .. 3 : Typable(regs, i, types)
  <1> DEFINE a == NodeBits(p[1], <<>>, x)
             one == <<a>>
             b == NodeBits(p[2], one, x)
             two == Append(one, b)
             c == NodeBits(p[3], two, x)
             regs == Append(two, c)
  <1>1. Run(p, x) = regs
    BY DEF Run
  <1>2. \A i \in 1 .. 3 : IsNode(p[i], i, types) /\ p[i].ty = types[i] /\ Sound(p[i])
    BY DEF SoundProgram
  <1> HIDE DEF a, b, c
  <1>3. /\ one[1] = a /\ two[1] = a /\ two[2] = b
        /\ regs[1] = a /\ regs[2] = b /\ regs[3] = c
    OBVIOUS
  <1> HIDE DEF regs
  <1>4. a = NodeBits(p[1], regs, x)
    <2> DEFINE none == <<>>
    <2>1. \A k \in 1 .. 1 - 1 : FALSE
      OBVIOUS
    <2>2. a = NodeBits(p[1], none, x)
      BY DEF a
    <2> HIDE DEF none
    <2>3. \A k \in 1 .. 1 - 1 : regs[k] = none[k]
      BY <2>1
    <2> QED
      BY <1>2, <2>2, <2>3, NodeLocal
  <1>5. b = NodeBits(p[2], regs, x)
    <2>1. \A k \in 1 .. 2 - 1 : regs[k] = one[k]
      BY <1>3
    <2> HIDE DEF one
    <2> QED
      BY <1>2, <2>1, NodeLocal DEF b
  <1>6. c = NodeBits(p[3], regs, x)
    <2>1. \A k \in 1 .. 3 - 1 : regs[k] = two[k]
      BY <1>3
    <2> HIDE DEF two
    <2> QED
      BY <1>2, <2>1, NodeLocal DEF c
  <1>7. Typable(regs, 1, types)
    BY DEF Typable
  <1>8. MaybeBits(types[1], a)
    BY <1>2, <1>4, <1>7, NodeComputes
  <1>9. Typable(regs, 2, types)
    <2>1. \A k \in 1 .. 2 - 1 : k = 1
      OBVIOUS
    <2> QED
      BY <1>3, <1>8, <2>1 DEF Typable
  <1>10. MaybeBits(types[2], b)
    BY <1>2, <1>5, <1>9, NodeComputes
  <1>11. Typable(regs, 3, types)
    <2>1. \A k \in 1 .. 3 - 1 : k \in {1, 2}
      OBVIOUS
    <2> QED
      BY <1>3, <1>8, <1>10, <2>1 DEF Typable
  <1>12. \A i \in 1 .. 3 : i \in {1, 2, 3}
    OBVIOUS
  <1>13. /\ \A i \in 1 .. 3 : regs[i] = NodeBits(p[i], regs, x)
         /\ \A i \in 1 .. 3 : Typable(regs, i, types)
    BY <1>3, <1>4, <1>5, <1>6, <1>7, <1>9, <1>11, <1>12
  <1> QED
    BY <1>1, <1>13

(* What holds of a node when it holds of those before it holds of all.     *)
LEMMA NodeByNode ==
  ASSUME NEW S, \A i \in 1 .. 3 : (\A k \in 1 .. i - 1 : k \in S) => i \in S
  PROVE  \A i \in 1 .. 3 : i \in S
  <1>1. 1 \in S
    <2>1. \A k \in 1 .. 1 - 1 : k \in S
      OBVIOUS
    <2> QED
      BY <2>1
  <1>2. 2 \in S
    <2>1. \A k \in 1 .. 2 - 1 : k = 1
      OBVIOUS
    <2> QED
      BY <1>1, <2>1
  <1>3. 3 \in S
    <2>1. \A k \in 1 .. 3 - 1 : k \in {1, 2}
      OBVIOUS
    <2> QED
      BY <1>1, <1>2, <2>1
  <1>4. \A i \in 1 .. 3 : i \in {1, 2, 3}
    OBVIOUS
  <1> QED
    BY <1>1, <1>2, <1>3, <1>4

(* Nodes that keep what they compute keep what the program computes.       *)
LEMMA NodesKeepRun ==
  ASSUME NEW p, NEW q, NEW types, SoundProgram(p, types), SoundProgram(q, types),
         \A i \in 1 .. 3 : q[i] = p[i] \/ Keeps(p[i], q[i], i, types)
  PROVE  Agree(p, q)
  <1> SUFFICES ASSUME NEW x \in Inputs
               PROVE  Refines(Run(p, x)[3], Run(q, x)[3])
    BY DEF Agree, Refines
  <1> DEFINE old == Run(p, x)
             new == Run(q, x)
             S == {i \in 1 .. 3 : Refines(old[i], new[i])}
  <1>1. /\ \A i \in 1 .. 3 : old[i] = NodeBits(p[i], old, x)
        /\ \A i \in 1 .. 3 : Typable(old, i, types)
        /\ \A i \in 1 .. 3 : new[i] = NodeBits(q[i], new, x)
    BY RunIs
  <1> HIDE DEF old, new
  <1>2. ASSUME NEW i \in 1 .. 3, \A k \in 1 .. i - 1 : k \in S
        PROVE  i \in S
    <2>1. \A k \in 1 .. i - 1 : Refines(old[k], new[k])
      BY <1>2
    <2>2. IsNode(q[i], i, types)
      BY DEF SoundProgram
    <2>3. Refines(NodeBits(q[i], old, x), NodeBits(q[i], new, x))
      BY <2>1, <2>2, NodeMonotone
    <2>4. Refines(NodeBits(p[i], old, x), NodeBits(q[i], old, x))
      BY <1>1 DEF Keeps, Refines
    <2> QED
      BY <1>1, <2>3, <2>4 DEF Refines
  <1> HIDE DEF S
  <1>3. \A i \in 1 .. 3 : i \in S
    BY <1>2, NodeByNode
  <1> QED
    BY <1>3 DEF S, old, new

-----------------------------------------------------------------------------
(* Copies. *)

(* The node with the uses of a register replaced.                          *)
LEMMA ReplacedFields ==
  ASSUME NEW e, NEW i, NEW types, IsNode(e, i, types), NEW r, NEW v
  PROVE  LET d == Replaced(e, r, v)
         IN  /\ d.op = e.op /\ d.ty = e.ty
             /\ d.args = [k \in DOMAIN e.args |->
                            IF e.args[k].cls = "reg" /\ e.args[k].n = r THEN v ELSE e.args[k]]
  <1>1. e = Expr(e.op, e.args, e.ty)
    BY DEF IsNode
  <1>2. ASSUME NEW op, NEW old, NEW ty
        PROVE  LET new == [Expr(op, old, ty) EXCEPT !.args =
                             [k \in DOMAIN @ |-> IF @[k].cls = "reg" /\ @[k].n = r THEN v ELSE @[k]]]
               IN  /\ new.op = op /\ new.ty = ty
                   /\ new.args = [k \in DOMAIN old |->
                        IF old[k].cls = "reg" /\ old[k].n = r THEN v ELSE old[k]]
    BY DEF Expr
  <1>3. LET new == [Expr(e.op, e.args, e.ty) EXCEPT !.args =
                     [k \in DOMAIN @ |-> IF @[k].cls = "reg" /\ @[k].n = r THEN v ELSE @[k]]]
        IN  /\ new.op = e.op /\ new.ty = e.ty
            /\ new.args = [k \in DOMAIN e.args |->
                 IF e.args[k].cls = "reg" /\ e.args[k].n = r THEN v ELSE e.args[k]]
    BY <1>2
  <1> QED
    BY <1>1, <1>3 DEF Replaced

(* It is the operation it was.                                             *)
LEMMA ReplacedOp ==
  ASSUME NEW e, NEW i, NEW types, IsNode(e, i, types)
  PROVE  \A r, v : Replaced(e, r, v).op = e.op
  <1> SUFFICES ASSUME NEW r, NEW v PROVE Replaced(e, r, v).op = e.op
    OBVIOUS
  <1> DEFINE d == Replaced(e, r, v)
  <1>1. /\ d.op = e.op /\ d.ty = e.ty
        /\ d.args = [k \in DOMAIN e.args |->
                       IF e.args[k].cls = "reg" /\ e.args[k].n = r THEN v ELSE e.args[k]]
    BY ReplacedFields
  <1> QED
    BY <1>1

(* A register that holds v may be replaced by v.                           *)
LEMMA ReplacedBits ==
  ASSUME NEW e, NEW i, NEW types, IsNode(e, i, types), NEW r, NEW v, v.ty = types[r],
         NEW regs, NEW x, regs[r] = ValueBits(v, regs, x)
  PROVE  NodeBits(Replaced(e, r, v), regs, x) = NodeBits(e, regs, x)
  <1> DEFINE args == [k \in DOMAIN e.args |->
                        IF e.args[k].cls = "reg" /\ e.args[k].n = r THEN v ELSE e.args[k]]
             d == Replaced(e, r, v)
  <1>1. d.op = e.op /\ d.args = args /\ d.ty = e.ty
    BY ReplacedFields
  <1> HIDE DEF d
  <1>2. DOMAIN args = DOMAIN e.args
    OBVIOUS
  <1>3. ASSUME NEW k \in DOMAIN e.args
        PROVE  /\ ValueBits(args[k], regs, x) = ValueBits(e.args[k], regs, x)
               /\ args[k].ty = e.args[k].ty
    <2>1. CASE e.args[k].cls = "reg" /\ e.args[k].n = r
      <3>1. args[k] = v
        BY <2>1
      <3>2. ValueBits(e.args[k], regs, x) = regs[r]
        BY <2>1 DEF ValueBits
      <3>3. e.args[k].ty = types[r]
        BY <2>1 DEF IsNode, IsOperand
      <3> QED
        BY <3>1, <3>2, <3>3
    <2>2. CASE ~(e.args[k].cls = "reg" /\ e.args[k].n = r)
      <3>1. args[k] = e.args[k]
        BY <2>2
      <3> QED
        BY <3>1
    <2> QED
      BY <2>1, <2>2
  <1> HIDE DEF args
  <1>4. [k \in DOMAIN d.args |-> ValueBits(d.args[k], regs, x)] =
          [k \in DOMAIN e.args |-> ValueBits(e.args[k], regs, x)]
    BY <1>1, <1>2, <1>3
  <1>5. e.op \in NodeOps
    BY DEF IsNode
  <1>6. e.op \in BinaryOps => DOMAIN e.args = 1 .. 2
    BY DEF IsNode, Typed
  <1>7. e.op \in {"MOV", "cast"} => DOMAIN e.args = 1 .. 1
    BY DEF IsNode, Typed
  <1>8. e.op # Fault => d.args[1].ty = e.args[1].ty
    <2>1. e.op # Fault => 1 \in DOMAIN e.args
      BY <1>5, <1>6, <1>7 DEF NodeOps
    <2> QED
      BY <1>1, <1>3, <2>1
  <1>9. CASE e.op = Fault
    BY <1>1, <1>9 DEF NodeBits, d
  <1>10. CASE e.op # Fault
    <2>1. \A l, m : OperBits(d, l, m) = OperBits(e, l, m)
      BY <1>1, <1>8, <1>10 DEF OperBits
    <2> QED
      BY <1>1, <1>4, <1>8, <1>10, <2>1 DEF NodeBits, d
  <1> QED
    BY <1>9, <1>10

(* Its constants are numbers if v is one.                                  *)
LEMMA ReplacedSound ==
  ASSUME NEW e, NEW i, NEW types, IsNode(e, i, types), Sound(e), NEW r, NEW v,
         v.cls = "val" => v.n \in Int
  PROVE  Sound(Replaced(e, r, v))
  <1> DEFINE args == [k \in DOMAIN e.args |->
                        IF e.args[k].cls = "reg" /\ e.args[k].n = r THEN v ELSE e.args[k]]
             d == Replaced(e, r, v)
  <1>1. d.op = e.op /\ d.args = args /\ d.ty = e.ty
    BY ReplacedFields
  <1>2. /\ DOMAIN args = DOMAIN e.args
        /\ \A k \in DOMAIN args : args[k] \in {v, e.args[k]}
    OBVIOUS
  <1> HIDE DEF d, args
  <1>3. \A k \in DOMAIN d.args : d.args[k].cls = "val" => d.args[k].n \in Int
    BY <1>1, <1>2 DEF Sound
  <1>4. Sound(d)
    BY <1>1, <1>3 DEF Sound
  <1> QED
    BY <1>4 DEF d

(* A copy computes what it copies.                                         *)
LEMMA CopyBits ==
  ASSUME NEW e, NEW i, NEW types, IsNode(e, i, types), e.op = "MOV", NEW regs, NEW x
  PROVE  NodeBits(e, regs, x) = ValueBits(e.args[1], regs, x)
  <1> DEFINE arg == [j \in DOMAIN e.args |-> ValueBits(e.args[j], regs, x)]
  <1>1. DOMAIN e.args = 1 .. 1
    BY DEF IsNode, Typed
  <1>2. DOMAIN arg = {1} /\ arg[1] = ValueBits(e.args[1], regs, x)
    BY <1>1
  <1>3. e.op # Fault
    BY DEF Fault
  <1> HIDE DEF arg
  <1>4. NodeBits(e, regs, x) = IF \E j \in DOMAIN arg : arg[j] = NoNumber THEN NoNumber ELSE arg[1]
    BY <1>3 DEF NodeBits, arg
  <1> QED
    BY <1>2, <1>4

(* The copy of v may be replaced by v wherever it is used.                 *)
LEMMA ReplacedKeepRun ==
  ASSUME NEW p, NEW q, NEW types, SoundProgram(p, types), SoundProgram(q, types),
         NEW r \in 1 .. 3, NEW v, p[r].op = "MOV", p[r].args[1] = v,
         \A i \in 1 .. 3 : q[i] = Replaced(p[i], r, v)
  PROVE  Agree(p, q)
  <1> SUFFICES ASSUME NEW x \in Inputs
               PROVE  Run(q, x)[3] = Run(p, x)[3]
    BY DEF Agree
  <1> DEFINE old == Run(p, x)
             new == Run(q, x)
             S == {i \in 1 .. 3 : new[i] = old[i]}
  <1>1. /\ \A i \in 1 .. 3 : old[i] = NodeBits(p[i], old, x)
        /\ \A i \in 1 .. 3 : new[i] = NodeBits(q[i], new, x)
    BY RunIs
  <1> HIDE DEF old, new
  <1>2. v.ty = types[r]
    <2>1. IsNode(p[r], r, types) /\ p[r].ty = types[r]
      BY DEF SoundProgram
    <2>2. p[r].args[1].ty = p[r].ty
      BY <2>1 DEF IsNode, Typed
    <2> QED
      BY <2>1, <2>2
  <1>3. old[r] = ValueBits(v, old, x)
    BY <1>1, CopyBits DEF SoundProgram
  <1>4. ASSUME NEW i \in 1 .. 3, \A k \in 1 .. i - 1 : k \in S
        PROVE  i \in S
    <2>1. \A k \in 1 .. i - 1 : new[k] = old[k]
      BY <1>4
    <2>2. IsNode(q[i], i, types) /\ IsNode(p[i], i, types)
      BY DEF SoundProgram
    <2>3. NodeBits(q[i], new, x) = NodeBits(q[i], old, x)
      BY <2>1, <2>2, NodeLocal
    <2>4. NodeBits(Replaced(p[i], r, v), old, x) = NodeBits(p[i], old, x)
      BY <1>2, <1>3, <2>2, ReplacedBits
    <2> QED
      BY <1>1, <2>3, <2>4
  <1> HIDE DEF S
  <1>5. \A i \in 1 .. 3 : i \in S
    BY <1>4, NodeByNode
  <1> QED
    BY <1>5 DEF S, old, new

(* One rewriting after another keeps what both keep.                       *)
LEMMA AgreeTransitive ==
  ASSUME NEW p, NEW q, NEW r, Agree(p, q), Agree(q, r)
  PROVE  Agree(p, r)
  BY DEF Agree

-----------------------------------------------------------------------------
(* The steps. *)
(* The inductive invariant.                                                *)
ValueInv == ArithInv /\ \A i \in 1 .. 3 : Sound(nodes[i])

(* A program of the types of the present one.                              *)
SameTypes(p) == GoodProgram(p) /\ \A i \in 1 .. 3 : Sound(p[i])

(* Such a program is one of sound nodes.                                   *)
LEMMA ProgramSound ==
  ASSUME NEW p, SameTypes(p)
  PROVE  SoundProgram(p, NodeTypes)
  BY DEF SameTypes, GoodProgram, SoundProgram, NodeTypes

(* The present program is one.                                             *)
LEMMA PresentSound ==
  ASSUME ValueInv
  PROVE  SameTypes(nodes)
  BY NodesGood DEF ValueInv, SameTypes

(* One node is rewritten.                                                  *)
LEMMA OneSound ==
  ASSUME NEW p, SameTypes(p), NEW i \in 1 .. 3, NEW e,
         IsNode(e, i, NodeTypes), e.ty = nodes[i].ty, Sound(e)
  PROVE  /\ SameTypes([p EXCEPT ![i] = e])
         /\ Keeps(p[i], e, i, NodeTypes) => Agree(p, [p EXCEPT ![i] = e])
  <1> DEFINE q == [p EXCEPT ![i] = e]
  <1>1. GoodProgram(q)
    BY OneRewritten DEF SameTypes
  <1>2. \A j \in 1 .. 3 : q[j] = IF j = i THEN e ELSE p[j]
    BY DEF SameTypes, GoodProgram
  <1> HIDE DEF q
  <1>3. SameTypes(q)
    BY <1>1, <1>2 DEF SameTypes
  <1>4. ASSUME Keeps(p[i], e, i, NodeTypes) PROVE Agree(p, q)
    <2>1. \A j \in 1 .. 3 : q[j] = p[j] \/ Keeps(p[j], q[j], j, NodeTypes)
      BY <1>2, <1>4
    <2> QED
      BY <1>3, <2>1, ProgramSound, NodesKeepRun
  <1> QED
    BY <1>3, <1>4 DEF q

(* The uses of a copy are replaced.                                        *)
LEMMA UsesSound ==
  ASSUME NEW p, SameTypes(p), NEW i \in 1 .. 3, NEW v,
         p[i].op = "MOV", p[i].args[1] = v
  PROVE  SameTypes(Substitute(p, i, v)) /\ Agree(p, Substitute(p, i, v))
  <1> DEFINE q == Substitute(p, i, v)
  <1>1. IsNode(p[i], i, NodeTypes) /\ p[i].ty = nodes[i].ty /\ Sound(p[i])
    BY DEF SameTypes, GoodProgram
  <1>2. 1 \in DOMAIN p[i].args
    BY <1>1 DEF IsNode, Typed
  <1>3. IsOperand(v, i, NodeTypes) /\ v.ty = nodes[i].ty /\ (v.cls = "val" => v.n \in Int)
    BY <1>1, <1>2 DEF IsNode, Typed, Sound
  <1>4. GoodProgram(q)
    BY <1>3, UsesReplaced DEF SameTypes
  <1>5. \A j \in 1 .. 3 : q[j] = Replaced(p[j], i, v)
    BY DEF SameTypes, GoodProgram, Substitute, Replaced
  <1> HIDE DEF q
  <1>6. \A j \in 1 .. 3 : Sound(Replaced(p[j], i, v))
    BY <1>3, ReplacedSound DEF SameTypes, GoodProgram
  <1>7. SameTypes(q)
    BY <1>4, <1>5, <1>6 DEF SameTypes
  <1>8. Agree(p, q)
    BY <1>5, <1>7, ProgramSound, ReplacedKeepRun
  <1> QED
    BY <1>7, <1>8 DEF q

(* A node that folds, and is none of the known wrong, keeps the program.   *)
LEMMA FoldedSound ==
  ASSUME ValueInv, NEW i \in 1 .. 3, NEW v \in FoldExpr(nodes[i])
  PROVE  LET e == nodes[i]
             d == IF v.cls = Fault THEN Rewrite(e, Fault, <<>>) ELSE Mov(e, v)
             q == [nodes EXCEPT ![i] = d]
         IN  /\ d.op # e.op /\ (v.cls # Fault => d.op = "MOV" /\ d.args[1] = v)
             /\ SameTypes(q) /\ (KnownWrong(e) \/ Agree(nodes, q))
  <1> DEFINE e == nodes[i]
             d == IF v.cls = Fault THEN Rewrite(e, Fault, <<>>) ELSE Mov(e, v)
             q == [nodes EXCEPT ![i] = d]
  <1>1. IsNode(e, i, NodeTypes) /\ Sound(e)
    BY DEF ValueInv, ArithInv
  <1> HIDE DEF e
  <1>2. v \in FoldExpr(e)
    BY DEF e
  <1>3. e.op \notin {"MOV", Fault}
    BY <1>1, <1>2, FoldedKinds DEF BinaryOps, GeneralOps, IntegerOps, CompareOps, Fault
  <1>4. v.cls # Fault => IsOperand(v, i, NodeTypes) /\ v.ty = e.ty
    BY <1>1, <1>2, FoldTyped
  <1>5. v.cls = "val" => v.n \in Int
    BY <1>1, <1>2, FoldSound
  <1>6. /\ IsNode(Rewrite(e, Fault, <<>>), i, NodeTypes) /\ Rewrite(e, Fault, <<>>).ty = e.ty
        /\ Rewrite(e, Fault, <<>>).op = Fault /\ Sound(Rewrite(e, Fault, <<>>))
    BY <1>1, FaultIsNode, MovOp, CopySound
  <1>7. v.cls # Fault => IsNode(Mov(e, v), i, NodeTypes) /\ Mov(e, v).ty = e.ty
    BY <1>1, <1>4, MovIsNode
  <1>8. Mov(e, v).op = "MOV" /\ Mov(e, v).args = <<v>> /\ Sound(Mov(e, v))
    BY <1>1, <1>5, RewriteFields, CopySound DEF Mov, Expr
  <1>9. ~KnownWrong(e) => Keeps(e, d, i, NodeTypes)
    <2> SUFFICES ASSUME ~KnownWrong(e), NEW regs, NEW x \in Inputs, Typable(regs, i, NodeTypes)
                 PROVE  Refines(NodeBits(e, regs, x), NodeBits(d, regs, x))
      BY DEF Keeps
    <2>1. IF v.cls = Fault THEN NodeBits(e, regs, x) = NoNumber
          ELSE Refines(NodeBits(e, regs, x), ValueBits(v, regs, x))
      BY <1>1, <1>2, FoldKeeps
    <2>2. CASE v.cls = Fault
      BY <2>1, <2>2 DEF Refines
    <2>3. CASE v.cls # Fault
      <3>1. NodeBits(Mov(e, v), regs, x) = ValueBits(v, regs, x)
        BY <1>8, MovBits
      <3>2. d = Mov(e, v)
        BY <2>3
      <3> QED
        BY <2>1, <2>3, <3>1, <3>2
    <2> QED
      BY <2>2, <2>3
  <1>10. /\ IsNode(d, i, NodeTypes) /\ d.ty = e.ty /\ Sound(d) /\ d.op # e.op
         /\ v.cls # Fault => d.op = "MOV" /\ d.args[1] = v
    BY <1>3, <1>6, <1>7, <1>8
  <1> HIDE DEF d
  <1>11. SameTypes(q) /\ (KnownWrong(e) \/ Agree(nodes, q))
    BY <1>9, <1>10, PresentSound, OneSound DEF e
  <1> QED
    BY <1>10, <1>11 DEF e, d

(* A step to a program of the same types keeps the invariant.              *)
LEMMA SoundStep ==
  ASSUME ValueInv, SameTypes(nodes'), generated' \in 0 .. 3
  PROVE  ValueInv'
  BY GoodStep DEF ValueInv, SameTypes

(* What a step does to the program.                                        *)
StepKeeps ==
  \/ \E i \in 1 .. 3 : nodes[i].op # nodes'[i].op /\ KnownWrong(nodes[i])
  \/ Agree(nodes, nodes')

(* A program computes what it computes.                                    *)
LEMMA AgreeWithItself == \A p : Agree(p, p)
  BY DEF Agree

(* The generator folds a node, and puts its value where it is used.        *)
LEMMA EmitNodeKeeps ==
  ASSUME ValueInv, EmitNode
  PROVE  ValueInv' /\ StepKeeps
  <1> DEFINE i == generated + 1
  <1>1. i \in 1 .. 3 /\ generated' \in 0 .. 3
    BY DEF ValueInv, ArithInv, EmitNode
  <1>2. \/ nodes' = nodes
        \/ \E v \in FoldExpr(nodes[i]) :
             nodes' = IF v.cls = Fault THEN [nodes EXCEPT ![i] = Rewrite(@, Fault, <<>>)]
                      ELSE Substitute([nodes EXCEPT ![i] = Mov(@, v)], i, v)
    BY DEF EmitNode
  <1> HIDE DEF i
  <1>3. CASE nodes' = nodes
    <2>1. SameTypes(nodes')
      BY <1>3, PresentSound
    <2>2. Agree(nodes, nodes')
      BY <1>3, AgreeWithItself
    <2> QED
      BY <1>1, <2>1, <2>2, SoundStep DEF StepKeeps
  <1>4. CASE \E v \in FoldExpr(nodes[i]) :
               nodes' = IF v.cls = Fault THEN [nodes EXCEPT ![i] = Rewrite(@, Fault, <<>>)]
                        ELSE Substitute([nodes EXCEPT ![i] = Mov(@, v)], i, v)
    <2>1. PICK v \in FoldExpr(nodes[i]) :
               nodes' = IF v.cls = Fault THEN [nodes EXCEPT ![i] = Rewrite(@, Fault, <<>>)]
                        ELSE Substitute([nodes EXCEPT ![i] = Mov(@, v)], i, v)
      BY <1>4
    <2> DEFINE e == nodes[i]
               d == IF v.cls = Fault THEN Rewrite(e, Fault, <<>>) ELSE Mov(e, v)
               q == [nodes EXCEPT ![i] = d]
    <2>2. /\ d.op # e.op /\ (v.cls # Fault => d.op = "MOV" /\ d.args[1] = v)
          /\ SameTypes(q) /\ (KnownWrong(e) \/ Agree(nodes, q))
      BY <1>1, FoldedSound
    <2>3. q[i] = d
      BY <1>1 DEF ValueInv, ArithInv
    <2>4. nodes' = IF v.cls = Fault THEN q ELSE Substitute(q, i, v)
      BY <2>1
    <2> HIDE DEF d, q
    <2>5. SameTypes(nodes') /\ Agree(q, nodes')
      <3>1. CASE v.cls = Fault
        BY <2>2, <2>4, <3>1, AgreeWithItself
      <3>2. CASE v.cls # Fault
        BY <1>1, <2>2, <2>3, <2>4, <3>2, UsesSound
      <3> QED
        BY <3>1, <3>2
    <2>6. nodes'[i].op = d.op
      <3>1. CASE v.cls = Fault
        BY <2>3, <2>4, <3>1
      <3>2. CASE v.cls # Fault
        <4>1. nodes'[i] = Replaced(q[i], i, v)
          BY <1>1, <2>2, <2>4, <3>2 DEF SameTypes, GoodProgram, Substitute, Replaced
        <4>2. IsNode(q[i], i, NodeTypes)
          BY <1>1, <2>2 DEF SameTypes, GoodProgram
        <4>3. Replaced(q[i], i, v).op = q[i].op
          BY <4>2, ReplacedOp
        <4> QED
          BY <2>3, <4>1, <4>3
      <3> QED
        BY <3>1, <3>2
    <2>7. KnownWrong(e) \/ Agree(nodes, nodes')
      BY <2>2, <2>5, AgreeTransitive
    <2> QED
      BY <1>1, <2>2, <2>5, <2>6, <2>7, SoundStep DEF StepKeeps
  <1> QED
    BY <1>2, <1>3, <1>4

(* CopyPropagator replaces a register by what it copies.                   *)
LEMMA PropagateCopyKeeps ==
  ASSUME ValueInv, NEW i \in 1 .. 3, PropagateCopy(i)
  PROVE  ValueInv' /\ StepKeeps
  <1>1. /\ nodes[i].op = "MOV" /\ nodes' = Substitute(nodes, i, nodes[i].args[1])
        /\ generated' \in 0 .. 3
    BY DEF PropagateCopy, ValueInv, ArithInv
  <1>2. /\ SameTypes(Substitute(nodes, i, nodes[i].args[1]))
        /\ Agree(nodes, Substitute(nodes, i, nodes[i].args[1]))
    BY <1>1, PresentSound, UsesSound
  <1> QED
    BY <1>1, <1>2, SoundStep DEF StepKeeps

(* ConstantsFolder replaces a node by its value.                           *)
LEMMA FoldConstantKeeps ==
  ASSUME ValueInv, NEW i \in 1 .. 3, FoldConstant(i)
  PROVE  ValueInv' /\ StepKeeps
  <1>1. PICK v \in FoldExpr(nodes[i]) :
          nodes' = [nodes EXCEPT ![i] = IF v.cls = Fault THEN Rewrite(@, Fault, <<>>)
                                        ELSE Mov(@, v)]
    BY DEF FoldConstant
  <1>2. generated' \in 0 .. 3
    BY DEF FoldConstant, ValueInv, ArithInv
  <1> DEFINE e == nodes[i]
             d == IF v.cls = Fault THEN Rewrite(e, Fault, <<>>) ELSE Mov(e, v)
  <1>3. /\ d.op # e.op /\ SameTypes([nodes EXCEPT ![i] = d])
        /\ KnownWrong(e) \/ Agree(nodes, [nodes EXCEPT ![i] = d])
    BY FoldedSound
  <1>4. nodes' = [nodes EXCEPT ![i] = d]
    BY <1>1
  <1> HIDE DEF d
  <1>5. nodes'[i] = d
    BY <1>4 DEF ValueInv, ArithInv
  <1> QED
    BY <1>2, <1>3, <1>4, <1>5, SoundStep DEF StepKeeps

(* AlgebraicTransformer rewrites a node.                                   *)
LEMMA SimplifyKeeps ==
  ASSUME ValueInv, NEW i \in 1 .. 3, Simplify(i)
  PROVE  ValueInv' /\ StepKeeps
  <1> DEFINE e == nodes[i]
             d == ProcessNode(e)
  <1>1. nodes' = [nodes EXCEPT ![i] = d] /\ generated' \in 0 .. 3 /\ e.op \in BinaryOps
    BY DEF Simplify, ValueInv, ArithInv
  <1>2. IsNode(e, i, NodeTypes) /\ Sound(e)
    BY DEF ValueInv, ArithInv
  <1>3. nodes'[i] = d
    BY <1>1 DEF ValueInv, ArithInv
  <1> HIDE DEF e, d
  <1>4. IsNode(d, i, NodeTypes) /\ d.ty = e.ty /\ Sound(d)
    BY <1>1, <1>2, ProcessNodeTyped, ProcessNodeSound DEF d
  <1>5. /\ SameTypes([nodes EXCEPT ![i] = d])
        /\ Keeps(e, d, i, NodeTypes) => Agree(nodes, [nodes EXCEPT ![i] = d])
    BY <1>4, PresentSound, OneSound DEF e
  <1>6. CASE d = e
    <2>1. Keeps(e, d, i, NodeTypes)
      BY <1>6 DEF Keeps, Refines
    <2> QED
      BY <1>1, <1>5, <2>1, SoundStep DEF StepKeeps
  <1>7. CASE d # e
    <2>1. d.op # e.op
      BY <1>1, <1>2, <1>7, ProcessNodeChanges DEF d
    <2>2. CASE KnownWrong(e)
      BY <1>1, <1>3, <1>5, <2>1, <2>2, SoundStep DEF StepKeeps, e
    <2>3. CASE ~KnownWrong(e)
      <3>1. Canonical(e) /\ ~LeftPower(e) /\ ~SignedPower(e) /\ ~WideMask(e)
        BY <2>3 DEF KnownWrong, OddConstant, Canonical
      <3>2. Keeps(e, d, i, NodeTypes)
        BY <1>1, <1>2, <1>7, <3>1, ProcessNodeKeeps DEF d
      <3> QED
        BY <1>1, <1>5, <3>2, SoundStep DEF StepKeeps
    <2> QED
      BY <2>2, <2>3
  <1> QED
    BY <1>6, <1>7

(* The numbers written in the program are numbers.                         *)
LEMMA ExprSound ==
  ASSUME NEW op, NEW args, NEW ty, \A j \in DOMAIN args : args[j].cls = "val" => args[j].n \in Int,
         op = "cast" => ty # "BOOL"
  PROVE  Sound(Expr(op, args, ty))
  <1> DEFINE e == Expr(op, args, ty)
  <1>1. e.op = op /\ e.args = args /\ e.ty = ty
    BY DEF Expr
  <1> HIDE DEF e
  <1>2. Sound(e)
    BY <1>1 DEF Sound
  <1> QED
    BY <1>2 DEF e

(* The operands the generator makes.                                       *)
LEMMA LiteralFacts ==
  /\ \A ty, k : k \in Literals => Literal(ty, k).n \in Int
  /\ \A ty, rep, n : Value(ty, rep, n).n = n
  /\ \A i, ty : Register(i, ty).cls = "reg" /\ Input(ty).cls = "param"
  <1>1. \A ty, rep, n : Value(ty, rep, n).n = n
    BY DEF Value
  <1>2. \A ty, k : k \in Literals => Literal(ty, k).n \in Int
    BY <1>1, ArithmeticAssumption DEF Literal
  <1> QED
    BY <1>1, <1>2 DEF Register, Input

(* Two operands.                                                           *)
LEMMA PairIs == ASSUME NEW a, NEW b PROVE DOMAIN <<a, b>> = {1, 2} /\ <<a, b>>[1] = a /\ <<a, b>>[2] = b
  OBVIOUS

(* One operand.                                                            *)
LEMMA OneIs == ASSUME NEW a PROVE DOMAIN <<a>> = {1} /\ <<a>>[1] = a
  OBVIOUS

(* Those of the first node.                                                *)
LEMMA VariablesSound ==
  ASSUME NEW ty \in Tys, NEW v \in Variables(ty)
  PROVE  Sound(v)
  <1>1. ty # "BOOL"
    BY ArithmeticAssumption DEF Types, Signed, Unsigned
  <1>2. CASE \E k \in Literals : v = Expr("MOV", <<Literal(ty, k)>>, ty)
    BY <1>2, LiteralFacts, OneIs, ExprSound
  <1>3. CASE \E k \in Literals : v = Negation(ty, k)
    <2>1. PICK k \in Literals : v = Negation(ty, k)
      BY <1>3
    <2> DEFINE a == Value(ty, "U32", 0)
               b == Literal(ty, k)
    <2>2. a.n \in Int /\ b.n \in Int
      BY LiteralFacts
    <2> HIDE DEF a, b
    <2>3. Sound(Expr("SUB", <<a, b>>, ty))
      BY <2>2, PairIs, ExprSound
    <2> QED
      BY <2>1, <2>3 DEF Negation, a, b
  <1>4. CASE \E t \in Casts \ {ty}, k \in Literals : v = Expr("cast", <<Literal(t, k)>>, ty)
    BY <1>1, <1>4, LiteralFacts, OneIs, ExprSound
  <1> QED
    BY <1>2, <1>3, <1>4 DEF Variables

(* Those of an operation.                                                  *)
LEMMA BinarySound ==
  ASSUME NEW op \in BinaryOps, NEW a, NEW b,
         a.cls = "val" => a.n \in Int, b.cls = "val" => b.n \in Int
  PROVE  Sound(Binary(op, a, b))
  <1>1. op # "cast"
    BY DEF BinaryOps, GeneralOps, IntegerOps, CompareOps
  <1>2. \A j \in DOMAIN <<a, b>> : <<a, b>>[j].cls = "val" => <<a, b>>[j].n \in Int
    BY PairIs
  <1>3. \A ty : Sound(Expr(op, <<a, b>>, ty))
    BY <1>1, <1>2, ExprSound
  <1> QED
    BY <1>3 DEF Binary

(* And those of a set of operations.                                       *)
LEMMA OperationsSound ==
  ASSUME NEW ops \in SUBSET BinaryOps, NEW reg, NEW others, reg.cls = "reg",
         \A v \in others : v.cls = "val" => v.n \in Int,
         NEW e \in Operations(ops, reg, others)
  PROVE  Sound(e)
  <1>1. PICK op \in ops, a \in others \cup {reg}, b \in others \cup {reg} : e = Binary(op, a, b)
    BY DEF Operations
  <1>2. (a.cls = "val" => a.n \in Int) /\ (b.cls = "val" => b.n \in Int)
    BY <1>1
  <1> QED
    BY <1>1, <1>2, BinarySound

(* Those of the second node.                                               *)
LEMMA FirstsSound ==
  ASSUME NEW ty, NEW f \in Firsts(ty)
  PROVE  Sound(f)
  <1> DEFINE reg == Register(1, ty)
             others == {Input(ty)} \cup {Literal(ty, k) : k \in Literals}
  <1>1. reg.cls = "reg"
    BY LiteralFacts
  <1>2. \A v \in others : v.cls = "val" => v.n \in Int
    BY LiteralFacts
  <1>3. {"XOR", "EQ", "ADD"} \subseteq BinaryOps /\ FirstOps \in SUBSET BinaryOps
    BY ArithmeticAssumption DEF BinaryOps, GeneralOps, IntegerOps, CompareOps
  <1>4. f \in Unaries(ty, reg) \/ f \in Operations(FirstOps, reg, others)
    BY DEF Firsts
  <1> HIDE DEF reg, others
  <1>5. CASE f \in Unaries(ty, reg)
    <2>1. PICK op \in {"XOR", "EQ", "ADD"}, rep \in {"U64", "U32"}, n \in {2 ^ W64 - 1, 0, 1} :
            f = Binary(op, Value(ty, rep, n), reg) \/ f = Binary(op, reg, Value(ty, rep, n))
      BY <1>5 DEF Unaries
    <2>2. n \in Int
      <3>1. 2 ^ W64 \in Nat
        BY PowerGrows, AlgebraAssumption
      <3> QED
        BY <3>1
    <2>3. Value(ty, rep, n).n \in Int
      BY <2>2, LiteralFacts
    <2> QED
      BY <1>1, <1>3, <2>1, <2>3, BinarySound
  <1>6. CASE f \in Operations(FirstOps, reg, others)
    BY <1>1, <1>2, <1>3, <1>6, OperationsSound
  <1> QED
    BY <1>4, <1>5, <1>6

(* Those of the third.                                                     *)
LEMMA LastsSound ==
  ASSUME NEW ty, NEW l \in Lasts(ty)
  PROVE  Sound(l)
  <1> DEFINE reg == Register(2, ty)
             others == {Literal(ty, k) : k \in Literals}
  <1>1. reg.cls = "reg"
    BY LiteralFacts
  <1>2. \A v \in others : v.cls = "val" => v.n \in Int
    BY LiteralFacts
  <1>3. \/ \E t \in Casts \cup {"I32"} : l = Expr("cast", <<reg>>, t)
        \/ l \in Operations(LastOps, reg, others)
    BY DEF Lasts
  <1> HIDE DEF reg, others
  <1>4. CASE \E t \in Casts \cup {"I32"} : l = Expr("cast", <<reg>>, t)
    <2>1. PICK t \in Casts \cup {"I32"} : l = Expr("cast", <<reg>>, t)
      BY <1>4
    <2>2. t # "BOOL"
      BY ArithmeticAssumption DEF Types, Signed, Unsigned
    <2>3. \A j \in DOMAIN <<reg>> : <<reg>>[j].cls = "val" => <<reg>>[j].n \in Int
      BY <1>1, OneIs
    <2> QED
      BY <2>1, <2>2, <2>3, ExprSound
  <1>5. CASE l \in Operations(LastOps, reg, others)
    <2>1. LastOps \in SUBSET BinaryOps
      BY ArithmeticAssumption
    <2> QED
      BY <1>1, <1>2, <1>5, <2>1, OperationsSound
  <1> QED
    BY <1>3, <1>4, <1>5

(* The program as the generator writes it has numbers for constants.       *)
LEMMA InitSound == Init => ValueInv
  <1> SUFFICES ASSUME Init PROVE ValueInv
    OBVIOUS
  <1>1. PICK ty \in Tys : \E v \in Variables(ty), f \in Firsts(ty) :
          \E l \in Lasts(f.ty) : original = <<v, f, l>>
    BY DEF Init
  <1>2. PICK v \in Variables(ty), f \in Firsts(ty) : \E l \in Lasts(f.ty) : original = <<v, f, l>>
    BY <1>1
  <1>3. PICK l \in Lasts(f.ty) : original = <<v, f, l>>
    BY <1>2
  <1>4. nodes[1] = v /\ nodes[2] = f /\ nodes[3] = l
    BY <1>3 DEF Init
  <1>5. Sound(v) /\ Sound(f) /\ Sound(l)
    BY VariablesSound, FirstsSound, LastsSound
  <1>6. \A i \in 1 .. 3 : i \in {1, 2, 3}
    OBVIOUS
  <1> QED
    BY <1>4, <1>5, <1>6, InitTyped DEF ValueInv

(* For every width, every set of operations and literals and every order   *)
(* of folding, copy propagation and algebraic simplification: whatever     *)
(* emitNode, CopyPropagator, ConstantsFolder or AlgebraicTransformer makes *)
(* of a node that is none of those known to be rewritten wrongly, the      *)
(* program still computes the bits it did for every input for which it     *)
(* computes any; and where the compiler gives up on an expression, the     *)
(* program has no value whatever its input is.                             *)
THEOREM RewritingIsSound == Spec => RewritingKeepsValue
  <1>1. Init => ValueInv
    BY InitSound
  <1>2. ValueInv /\ [Next]_vars => ValueInv' /\ (StepKeeps \/ UNCHANGED vars)
    <2> SUFFICES ASSUME ValueInv, [Next]_vars PROVE ValueInv' /\ (StepKeeps \/ UNCHANGED vars)
      OBVIOUS
    <2>1. CASE EmitNode
      BY <2>1, EmitNodeKeeps
    <2>2. ASSUME NEW i \in 1 .. 3, Optimize(i) PROVE ValueInv' /\ StepKeeps
      BY <2>2, PropagateCopyKeeps, FoldConstantKeeps, SimplifyKeeps DEF Optimize
    <2>3. CASE UNCHANGED vars
      BY <2>3 DEF vars, ValueInv, ArithInv, NodeTypes
    <2> QED
      BY <2>1, <2>2, <2>3 DEF Next
  <1>3. Spec => [][StepKeeps]_vars
    BY <1>1, <1>2, PTL DEF Spec
  <1> QED
    BY <1>3 DEF RewritingKeepsValue, StepKeeps
=============================================================================
