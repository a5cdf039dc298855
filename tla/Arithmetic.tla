------------------------------ MODULE Arithmetic ------------------------------
(***************************************************************************)
(* What becomes of an expression on its way to the back end: a program of  *)
(* three nodes on integers, folded as it is generated (IR_Generator::      *)
(* emitNode), then rewritten by the passes that compute: CopyPropagator    *)
(* and AlgebraicTransformer, in any order.  Its meaning is what LLVM gives *)
(* to the instructions ir_2_llvm.cpp makes of the nodes, one for one.      *)
(*                                                                         *)
(* The nodes: a local variable (a constant moved, negated or cast), an     *)
(* operation on it and on the input or a constant, and a last operation or *)
(* cast.  Node i assigns register i.                                       *)
(***************************************************************************)
EXTENDS Algebra, FiniteSets

CONSTANTS
  Tys,           \* the types of the variable
  Casts,         \* the types it may be cast to
  Literals,      \* the numbers written in the program
  FirstOps,      \* the operations of the second node
  LastOps        \* the operations of the third

ASSUME ArithmeticAssumption ==
  /\ Tys \subseteq Types /\ Casts \subseteq Types
  /\ FirstOps \subseteq BinaryOps /\ LastOps \subseteq BinaryOps
  /\ Literals \subseteq Nat

VARIABLES
  nodes,      \* the program as it is now
  original,   \* the program as it was written
  generated   \* the number of nodes the generator is done with

vars == <<nodes, original, generated>>

Register(i, ty) == [cls |-> "reg", ty |-> ty, rep |-> "U64", n |-> i]
Input(ty) == [cls |-> "param", ty |-> ty, rep |-> "U64", n |-> 0]
Literal(ty, n) == Value(ty, ty, n)

(* The operand zero of the unary minus is a uint32_t whatever the type is. *)
Negation(ty, k) == Expr("SUB", <<Value(ty, "U32", 0), Literal(ty, k)>>, ty)

Variables(ty) ==
  {Expr("MOV", <<Literal(ty, k)>>, ty) : k \in Literals}
    \cup {Negation(ty, k) : k \in Literals}
    \cup {Expr("cast", <<Literal(t, k)>>, ty) : t \in Casts \ {ty}, k \in Literals}

(* emitOp gives a comparison the type i1 and the rest that of the operands.*)
ResultType(op, ty) == IF op \in CompareOps THEN "BOOL" ELSE ty
Binary(op, a, b) == Expr(op, <<a, b>>, ResultType(op, a.ty))

Operations(ops, reg, others) ==
  {Binary(op, reg, v) : op \in ops, v \in others \cup {reg}}
    \cup {Binary(op, v, reg) : op \in ops, v \in others}

(* ~, ! and ++: their constants are a uint64_t, a uint32_t and a uint32_t. *)
Unaries(ty, reg) ==
  {Binary("XOR", Value(ty, "U64", 2 ^ W64 - 1), reg),
   Binary("EQ", reg, Value(ty, "U32", 0)), Binary("ADD", reg, Value(ty, "U32", 1))}

Firsts(ty) ==
  Unaries(ty, Register(1, ty)) \cup
  Operations(FirstOps, Register(1, ty),
             {Input(ty)} \cup {Literal(ty, k) : k \in Literals})

(* A comparison is widened before it is used.                              *)
Lasts(ty) ==
  {Expr("cast", <<Register(2, ty)>>, t) : t \in (Casts \cup {"I32"}) \ {ty}}
    \cup IF ty = "BOOL" THEN {}
         ELSE Operations(LastOps, Register(2, ty), {Literal(ty, k) : k \in Literals})

(***************************************************************************)
(* What LLVM computes: numbers are bits; buildOperation chooses the signed *)
(* or unsigned instruction by the type of the first argument; getValue     *)
(* materialises a constant by its lowest bits.                             *)
(***************************************************************************)
NoNumber == -1   \* undefined

(* The choice of IR_ExprCast: only from signed to signed does a sign count.*)
CastBits(from, to, n) ==
  IF Bits(from) < Bits(to) /\ from \in Signed /\ to \in Signed
  THEN Cast(from, n) % 2 ^ Bits(to) ELSE n % 2 ^ Bits(to)

OperBits(e, l, r) ==
  LET ty == e.args[1].ty
      a == Cast(ty, l)
      b == Cast(ty, r)
  IN  CASE e.op \in CompareOps -> IF Compare(e.op, a, b) THEN 1 ELSE 0
        [] e.op \notin CompareOps /\ NoResult(e.op, a, b, ty) -> NoNumber
        [] OTHER -> Compute(e.op, a, b, ty) % 2 ^ Bits(ty)

ValueBits(v, regs, x) ==
  CASE v.cls = "val" -> Cast("U64", v.n) % 2 ^ Bits(v.ty)
    [] v.cls = "param" -> x % 2 ^ Bits(v.ty)
    [] v.cls = "reg" -> regs[v.n]

NodeBits(e, regs, x) ==
  LET arg == [i \in DOMAIN e.args |-> ValueBits(e.args[i], regs, x)]
  IN  IF e.op = Fault \/ \E i \in DOMAIN arg : arg[i] = NoNumber THEN NoNumber
      ELSE CASE e.op = "MOV" -> arg[1]
             [] e.op = "cast" -> CastBits(e.args[1].ty, e.ty, arg[1])
             [] OTHER -> OperBits(e, arg[1], arg[2])

(* The registers of program p for input x.                                 *)
Run(p, x) ==
  LET one == <<NodeBits(p[1], <<>>, x)>>
      two == Append(one, NodeBits(p[2], one, x))
  IN  Append(two, NodeBits(p[3], two, x))

Inputs == 0 .. 2 ^ W64 - 1

----------------------------------------------------------------------------
Init ==
  /\ \E ty \in Tys : \E v \in Variables(ty), f \in Firsts(ty) :
       \E l \in Lasts(f.ty) : original = <<v, f, l>>
  /\ nodes = original
  /\ generated = 0

(* The uses of register i are given the value v.                           *)
Substitute(p, i, v) ==
  [j \in DOMAIN p |->
     [p[j] EXCEPT !.args = [k \in DOMAIN @ |->
        IF @[k].cls = "reg" /\ @[k].n = i THEN v ELSE @[k]]]]

Crashed == \E i \in DOMAIN nodes : nodes[i].op = Fault

(* emitNode: the value of a node that folds takes its place in the nodes   *)
(* generated after it.                                                     *)
EmitNode ==
  /\ generated < Len(nodes) /\ ~Crashed
  /\ generated' = generated + 1
  /\ LET i == generated + 1
     IN  IF FoldExpr(nodes[i]) = {} THEN UNCHANGED nodes
         ELSE \E v \in FoldExpr(nodes[i]) :
                nodes' = IF v.cls = Fault
                         THEN [nodes EXCEPT ![i] = Rewrite(@, Fault, <<>>)]
                         ELSE Substitute([nodes EXCEPT ![i] = Mov(@, v)], i, v)
  /\ UNCHANGED original

Optimizing == generated = Len(nodes) /\ ~Crashed

(* propagateCopies, of one register.                                       *)
PropagateCopy(i) ==
  /\ Optimizing
  /\ nodes[i].op = "MOV"
  /\ nodes' = Substitute(nodes, i, nodes[i].args[1])
  /\ UNCHANGED <<original, generated>>

(* Mutant of FoldConstant: comparisons are passed over.                    *)
FoldArithmetic(i) ==
  /\ Optimizing
  /\ nodes[i].op \in GeneralOps \cup IntegerOps
  /\ \E v \in FoldExpr(nodes[i]) :
       nodes' = [nodes EXCEPT ![i] = IF v.cls = Fault THEN Rewrite(@, Fault, <<>>)
                                     ELSE Mov(@, v)]
  /\ UNCHANGED <<original, generated>>

(* foldConstants, of one node: it does not fold casts.                     *)
FoldConstant(i) ==
  /\ Optimizing
  /\ nodes[i].op \in BinaryOps
  /\ \E v \in FoldExpr(nodes[i]) :
       nodes' = [nodes EXCEPT ![i] = IF v.cls = Fault THEN Rewrite(@, Fault, <<>>)
                                     ELSE Mov(@, v)]
  /\ UNCHANGED <<original, generated>>

(* AlgebraicTransformer, of one node.                                      *)
Simplify(i) ==
  /\ Optimizing
  /\ nodes[i].op \in BinaryOps
  /\ nodes' = [nodes EXCEPT ![i] = ProcessNode(@)]
  /\ UNCHANGED <<original, generated>>

Optimize(i) == PropagateCopy(i) \/ FoldConstant(i) \/ Simplify(i)

Next == EmitNode \/ \E i \in 1 .. 3 : Optimize(i)

(* The passes go on as long as one of them changes something.              *)
Spec == Init /\ [][Next]_vars /\ WF_vars(Next)

----------------------------------------------------------------------------
(* The types stay in place: every register is used with the type it has.   *)
TypeOK ==
  /\ generated \in 0 .. 3
  /\ \A i \in 1 .. 3 : \A j \in DOMAIN nodes[i].args :
       LET v == nodes[i].args[j]
       IN  /\ v.cls \in {"val", "param", "reg"} /\ v.ty \in AllTypes
           /\ v.cls = "reg" => v.n < i /\ v.ty = nodes[v.n].ty
           /\ nodes[i].op \in GeneralOps \cup IntegerOps => v.ty = nodes[i].ty

(***************************************************************************)
(* The nodes whose rewriting is known to be wrong, each at its lines.      *)
(***************************************************************************)
(* A constant whose C++ type is not its type's own: the zero of a unary    *)
(* minus (expr_gen.cpp:724) and what is computed from it, the logarithms,  *)
(* the uint64_t zero of x - x.  Narrow numbers become ints in the folder.  *)
OddConstant(e) ==
  \E j \in DOMAIN e.args :
    /\ e.args[j].cls = "val"
    /\ \/ e.args[j].n # Cast(e.args[j].ty, e.args[j].n)
       \/ FoldExpr(e) # {} /\ e.args[j].rep # e.args[j].ty
NarrowFold(e) == FoldExpr(e) # {} /\ e.args[1].rep \in {"I8", "U8"}

(* A multiplication by a constant on the left whose logarithm is a power   *)
(* of two itself (algebraic_transformer.cpp:132).                          *)
LeftPower(e) ==
  /\ e.op = "MUL" /\ SingleBit(e.args[1])
  /\ Log2(e.args[1]) > 0 /\ SingleBit(Value("U64", "U64", Log2(e.args[1])))

(* A division of a signed number by a power of two becomes a shift (:149). *)
SignedPower(e) ==
  e.op = "DIV" /\ e.args[1].ty \in Signed /\ SingleBit(e.args[2])

(* A mask computed in int for a divisor it does not hold (:174).           *)
WideMask(e) == e.op = "REM" /\ SingleBit(e.args[2]) /\ Log2(e.args[2]) >= W32

(* A cast of a signed constant to a wider unsigned type is folded with its *)
(* sign; the instruction for it extends with zeros (nodes.cpp:206).        *)
UnsignedCast(e) ==
  /\ e.op = "cast" /\ e.args[1].ty \in Signed /\ e.ty \in Unsigned
  /\ Bits(e.args[1].ty) < Bits(e.ty)

KnownWrong(e) ==
  \/ OddConstant(e) \/ NarrowFold(e) \/ LeftPower(e) \/ SignedPower(e)
  \/ WideMask(e) \/ UnsignedCast(e)

Agree(p, q) ==
  \A x \in Inputs : LET before == Run(p, x)[3]
                    IN  before = NoNumber \/ Run(q, x)[3] = before

(* Every rewriting of a node that is none of the known wrong ones keeps    *)
(* what the program computes, for every input for which it computes a      *)
(* number at all; the compiler then fails on a program only if the         *)
(* program fails whatever its input is.                                    *)
RewritingKeepsValue ==
  [][ \/ \E i \in 1 .. 3 : nodes[i].op # nodes'[i].op /\ KnownWrong(nodes[i])
      \/ Agree(nodes, nodes') ]_vars

(* "Mul by power of 2" (algebraic_transformer.cpp:119): the shift has the  *)
(* value of the multiplication.                                            *)
MulByPowerOf2 ==
  [][\A i \in 1 .. 3 :
       nodes[i].op = "MUL" /\ nodes'[i].op = "SHL" => Agree(nodes, nodes')]_vars

(* The passes that compute come to rest: no rewriting undoes another for   *)
(* ever, and then no copy is used, nothing folds and no rule applies.      *)
AtRest ==
  \/ Crashed
  \/ /\ generated = Len(nodes)
     /\ \A i \in DOMAIN nodes :
          /\ nodes[i].op \in BinaryOps =>
               FoldExpr(nodes[i]) = {} /\ ProcessNode(nodes[i]) = nodes[i]
          /\ \A j \in DOMAIN nodes[i].args :
               nodes[i].args[j].cls = "reg" => nodes[nodes[i].args[j].n].op # "MOV"
Settles == <>AtRest
=============================================================================
