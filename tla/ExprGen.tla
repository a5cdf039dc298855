------------------------------- MODULE ExprGen -------------------------------
(***************************************************************************)
(* How IR_Generator makes nodes of an expression (ir/expr_gen.cpp).  Each  *)
(* operator takes the state g of the generator and returns it with the     *)
(* nodes appended to g.code and the value in g.val; an exception leaves    *)
(* its reason in g.err, and what would follow is skipped.                  *)
(*                                                                         *)
(* && || and ?: make blocks and are in IRGenerator; strings, __func__ and  *)
(* floating-point numbers are left out.                                    *)
(***************************************************************************)
EXTENDS IRTypes

CONSTANTS
  W8, W32, W64   \* the bits that stand for 8, 32 and 64

A == INSTANCE Algebra

(* IRval.  A constant keeps the C++ type its variant holds, as rep.        *)
Val(type, rep, n) == [cls |-> "val", type |-> type, rep |-> rep, n |-> n]
Reg(type, n) == [cls |-> "reg", type |-> type, n |-> n]
Global(type, name) == [cls |-> "global", type |-> type, name |-> name]
FunPtr(type, name) == [cls |-> "fun", type |-> type, name |-> name]
Aggregate(type, vals) == [cls |-> "aggregate", type |-> type, vals |-> vals]
Zeroinit(type) == [cls |-> "zero", type |-> type]
Undef(type) == [cls |-> "undef", type |-> type]

U64 == Direct("U64")
I32 == Direct("I32")
Bool == Direct("BOOL")
Void == Direct("VOID")
Number(spec, n) == Val(Direct(spec), spec, n)

(* leftFirst: whether the compiler's own build evaluates arguments in order.*)
NewUnit(leftFirst) ==
  [leftFirst |-> leftFirst, inFunction |-> FALSE, structs |-> <<>>, functions |-> <<>>, globals |-> <<>>, variables |-> <<>>,
   code |-> <<>>, regs |-> 0, val |-> Undef(Void), err |-> "none",
   type |-> Void, params |-> <<>>, fields |-> <<>>]

Yield(g, v) == [g EXCEPT !.val = v]

(* A node: the register it assigns (0: none), its operation, its arguments,*)
(* and the type it makes; what names a function or the type of a cast.     *)
Node(res, op, args, type, what) ==
  [res |-> res, op |-> op, args |-> args, type |-> type, what |-> what]

CastOps == {"BITCAST", "SEXT", "ZEXT", "TRUNC", "FPTOUI", "FPTOSI", "UITOFP", "SITOFP",
            "PTRTOI", "ITOPTR", "FPTRUNC", "FPEXT", "unset"}
Operators == A!BinaryOps \cup {"CTZ"}

(* ConstantsFolder::foldExpr of an operation or cast on numbers: its value *)
(* when it has one, as a set.                                              *)
Folded(op, args, type) ==
  LET expr == A!Expr(IF op \in CastOps THEN "cast" ELSE op,
                     [i \in DOMAIN args |-> A!Value(args[i].type.spec, args[i].rep, args[i].n)],
                     type.spec)
      Number2(v) == IF v.cls = "fault" THEN Undef(Void) ELSE Val(Direct(v.ty), v.rep, v.n)
  IN  IF /\ op \in Operators \cup CastOps /\ IsDirect(type)
         /\ \A i \in DOMAIN args : args[i].cls = "val"
      THEN {Number2(v) : v \in A!FoldExpr(expr)} ELSE {}

(* emitNode, for a node that makes a value, and for one that makes none.   *)
(* Outside a function there is no block to take the node.                  *)
EmitAs(g, op, args, type, what) ==
  LET Appended == [g EXCEPT !.code = Append(@, Node(g.regs + 1, op, args, type, what)),
                            !.regs = @ + 1, !.val = Reg(type, g.regs + 1)]
      Emitted(value) ==
        CASE value = {} -> IF g.inFunction THEN Appended ELSE Refuse(g, "no current block")
          [] value = {Undef(Void)} -> Refuse(g, "folding")
          [] OTHER -> Yield(g, CHOOSE v \in value : TRUE)
  IN  CHOOSE h \in {Emitted(value) : value \in {Folded(op, args, type)}} : TRUE
Emit(g, op, args, type) == EmitAs(g, op, args, type, "")

(* Mutant of EmitBare: a store takes a register, like the other nodes.     *)
EmitBareCounted(g, op, args, what) ==
  IF g.inFunction
  THEN [g EXCEPT !.code = Append(@, Node(g.regs + 1, op, args, Void, what)),
                 !.regs = @ + 1, !.val = Undef(Void)]
  ELSE Refuse(g, "no current block")

EmitBare(g, op, args, what) ==
  IF g.inFunction THEN [g EXCEPT !.code = Append(@, Node(0, op, args, Void, what)), !.val = Undef(Void)]
  ELSE Refuse(g, "no current block")

EmitCast(g, v, type) ==
  CASE v.type = type -> Yield(g, v)
    [] v.type # type /\ CastOp(v.type, type) = "error" -> Refuse(g, "cast")
    [] v.type # type /\ CastOp(v.type, type) # "error" ->
         Emit(g, CastOp(v.type, type), <<v>>, type)

EmitLoad(g, addr) == Emit(g, "LOAD", <<addr>>, addr.type.child)
EmitStore(g, addr, v) == EmitBare(g, "STORE", <<addr, v>>, "")
EmitAlloc(g, type) == Emit(g, "ALLOC", <<>>, PtrTo(type))

(* Mutant of StoreTo: the value is stored as it is.                        *)
StoreToAsIs(g, addr, v) == EmitStore(g, addr, v)

(* The value is cast to what the address points to.                        *)
StoreTo(g, addr, v) ==
  Then(EmitCast(g, v, addr.type.child), LAMBDA h : EmitStore(h, addr, h.val))

----------------------------------------------------------------------------
(* getPtrToVariable, as a set.                                             *)
PtrToVariable(g, x) ==
  CASE x \in DOMAIN g.variables -> {g.variables[x]}
    [] x \notin DOMAIN g.variables /\ x \in DOMAIN g.globals -> {g.globals[x].addr}
    [] OTHER -> {}

(* getPtrWithOffset: the address is computed in u64.                       *)
Offset(g, base, index, op, size) ==
  LET Scale(h) == IF size = 1 THEN h
                  ELSE Emit(h, "MUL", <<h.val, Number("U64", size)>>, U64)
  IN  Then(Then(EmitCast(g, index, U64), Scale), LAMBDA scaled :
      Then(EmitCast(scaled, base, U64), LAMBDA iptr :
      Then(Emit(iptr, op, <<iptr.val, scaled.val>>, U64), LAMBDA sum :
           EmitCast(sum, sum.val, base.type))))

(* Mutant of PtrWithOffset: an element has the size of the pointer.        *)
PtrWithOffsetOfPointers(g, base, index, op) == Offset(g, base, index, op, BytesSize(base.type))

PtrWithOffset(g, base, index, op) == Offset(g, base, index, op, BytesSize(base.type.child))

(* The address of a field of what object points to.                        *)
FieldPtr(g, object, field) ==
  LET struct == object.type.child
  IN  CASE object.type.k # "ptr" -> Refuse(g, "access on non-pointer type")
        [] object.type.k = "ptr" /\ struct.k # "struct" -> Refuse(g, "access on non-struct type")
        [] object.type.k = "ptr" /\ struct.k = "struct" ->
             LET i == FieldIndex(struct, field)
             IN  IF i = 0 THEN Refuse(g, "no such field")
                 ELSE Emit(g, "GEP", <<object, Number("I32", 0), Number("I32", i - 1)>>,
                           PtrTo(struct.fields[i].type))

(* doBinOp.                                                                *)
PointerOp(op, g, lhs, rhs) ==
  LET left == lhs.type.k = "ptr"
  IN  CASE op \notin {"ADD", "SUB"} \/ lhs.type.k = rhs.type.k -> Refuse(g, "pointer arithmetic")
        [] op = "SUB" /\ ~left -> Refuse(g, "subtract pointer from number")
        [] OTHER -> PtrWithOffset(g, IF left THEN lhs ELSE rhs, IF left THEN rhs ELSE lhs, op)

NumberOp(op, g, lhs, rhs) ==
  LET common == CommonType(lhs.type, rhs.type)
  IN  IF op \in A!IntegerOps /\ ~IsInteger(common) THEN Refuse(g, "non-integer types")
      ELSE Then(EmitCast(g, lhs, common), LAMBDA l : Then(EmitCast(l, rhs, common), LAMBDA r :
             Emit(r, op, <<l.val, r.val>>, IF op \in A!CompareOps THEN Bool ELSE common)))

DoBinOp(op, g, lhs, rhs) ==
  CASE "ptr" \in {lhs.type.k, rhs.type.k} -> PointerOp(op, g, lhs, rhs)
    [] {lhs.type.k, rhs.type.k} = {"dir"} -> NumberOp(op, g, lhs, rhs)
    [] OTHER -> Refuse(g, "Wrong arithmetic type")

----------------------------------------------------------------------------
RECURSIVE EvalExpr(_, _), DoAssignment(_, _, _), DoAddrOf(_, _)

EvalIdent(x, g) ==
  LET Found(addr) == IF addr.type.child.k = "arr"
                     THEN EmitCast(g, addr, PtrTo(addr.type.child.child))
                     ELSE EmitLoad(g, addr)
  IN  CASE PtrToVariable(g, x) # {} -> Found(CHOOSE v \in PtrToVariable(g, x) : TRUE)
        [] PtrToVariable(g, x) = {} /\ x \in DOMAIN g.functions ->
             Yield(g, FunPtr(PtrTo(g.functions[x]), x))
        [] OTHER -> Refuse(g, "Unknown variable")

(* The order in which the arguments of doBinOp are evaluated is the C++    *)
(* compiler's choice.                                                      *)
EvalBinop(e, g) ==
  LET first == IF g.leftFirst THEN e.lhs ELSE e.rhs
      last == IF g.leftFirst THEN e.rhs ELSE e.lhs
  IN  Then(EvalExpr(first, g), LAMBDA a : Then(EvalExpr(last, a), LAMBDA b :
        DoBinOp(e.op, b, IF g.leftFirst THEN a.val ELSE b.val,
                         IF g.leftFirst THEN b.val ELSE a.val)))

(* An lvalue of a compound assignment is evaluated twice.                  *)
EvalAssignment(e, g) ==
  LET Combined(r) == IF e.op = "DIRECT" THEN r
                     ELSE Then(EvalExpr(e.lhs, r), LAMBDA l : DoBinOp(e.op, l, l.val, r.val))
  IN  Then(Then(EvalExpr(e.rhs, g), Combined), LAMBDA v :
      Then(DoAssignment(e.lhs, v.val, v), LAMBDA h : Yield(h, v.val)))

(* ++ and --, in front and behind: which value the expression has, and the *)
(* C++ type of the one.                                                    *)
EvalStep(e, base, g) ==
  LET front == e.op \in {"PRE_INC", "PRE_DEC"}
      op == IF e.op \in {"PRE_INC", "POST_INC"} THEN "ADD" ELSE "SUB"
      one(old) == Val(old.val.type, IF front THEN "U32" ELSE "U64", 1)
  IN  Then(EvalExpr(base, g), LAMBDA old :
      Then(Emit(old, op, <<old.val, one(old)>>, old.val.type), LAMBDA next :
      Then(DoAssignment(base, next.val, next), LAMBDA h :
           Yield(h, IF front THEN next.val ELSE old.val))))

IsStep(e) == e.k = "step" \/ (e.k = "unop" /\ e.op \in {"PRE_INC", "PRE_DEC"})

Dereferenced(g) ==
  IF g.val.type.k # "ptr" \/ g.val.type.child.k = "func" THEN Refuse(g, "dereference")
  ELSE EmitLoad(g, g.val)

EvalUnop(e, g) ==
  LET Constant(rep, n, a) == Val(a.val.type, rep, n)
  IN  CASE e.op = "ADDR_OF" -> DoAddrOf(e.child, g)
        [] e.op # "ADDR_OF" ->
             Then(EvalExpr(e.child, g), LAMBDA a :
               CASE e.op = "UN_PLUS" -> a
                 [] e.op = "UN_MINUS" -> Emit(a, "SUB", <<Constant("U32", 0, a), a.val>>, a.val.type)
                 [] e.op = "UN_NEG" ->
                      Emit(a, "XOR", <<Constant("U64", 2 ^ W64 - 1, a), a.val>>, a.val.type)
                 [] e.op = "UN_NOT" ->
                      Then(Emit(a, "EQ", <<a.val, Constant("U32", 0, a)>>, Bool),
                           LAMBDA h : EmitCast(h, h.val, I32))
                 [] e.op = "DEREF" -> Dereferenced(a))

(* doIntrinsic, of __builtin_ctz: the one of the four that folds and has a *)
(* reference here.                                                         *)
Intrinsics == "ctz" :> [op |-> "CTZ", ret |-> I32, args |-> <<Direct("U32")>>]

EvalArgs(args, g, Passed(_, _)) ==
  LET Arg(h, i) == Then(h, LAMBDA s : Then(EvalExpr(args[i], s), LAMBDA t :
                     Then(Passed(t, i), LAMBDA u : [u EXCEPT !.params = Append(s.params, u.val)])))
  IN  FoldLeft(Arg, [g EXCEPT !.params = <<>>], [i \in DOMAIN args |-> i])

DoIntrinsic(sig, args, g) ==
  IF Len(args) # Len(sig.args) THEN Refuse(g, "Wrong arguments count")
  ELSE Then(EvalArgs(args, g, LAMBDA t, i : EmitCast(t, t.val, sig.args[i])), LAMBDA h :
            Emit([h EXCEPT !.params = g.params], sig.op, h.params, sig.ret))

(* An argument is cast to the common type of its own and the parameter's.  *)
CallWith(func, target, args, g) ==
  LET Passed(t, i) ==
        CASE t.val.type = func.args[i] -> t
          [] t.val.type # func.args[i] /\ IsDirect(t.val.type) /\ IsDirect(func.args[i]) ->
               EmitCast(t, t.val, CommonType(func.args[i], t.val.type))
          [] OTHER -> Refuse(t, "Wrong argument type")
      Made(h) == IF func.ret = Void THEN EmitBare(h, target.op, target.args \o h.params, target.name)
                 ELSE EmitAs(h, target.op, target.args \o h.params, func.ret, target.name)
  IN  IF Len(args) # Len(func.args) THEN Refuse(g, "arguments in function call")
      ELSE Then(EvalArgs(args, g, Passed), LAMBDA h :
             LET made == Made(h) IN [made EXCEPT !.params = g.params])

DoCall(e, g) ==
  LET direct == IF e.base.k = "ident" THEN e.base.name ELSE ""
      Indirect(h) ==
        IF h.val.type.k # "ptr" \/ h.val.type.child.k # "func" THEN Refuse(h, "not a function")
        ELSE CallWith(h.val.type.child, [op |-> "ICALL", args |-> <<h.val>>, name |-> ""],
                      e.args, h)
  IN  CASE direct \in DOMAIN g.functions ->
             CallWith(g.functions[direct], [op |-> "CALL", args |-> <<>>, name |-> direct],
                      e.args, g)
        [] direct \in DOMAIN Intrinsics \ DOMAIN g.functions ->
             DoIntrinsic(Intrinsics[direct], e.args, g)
        [] OTHER -> Then(EvalExpr(e.base, g), Indirect)

(* getCompoundVal: values that are literals here, then zeros.              *)
CompoundVal(type, vals, g) ==
  LET size == IF type.k = "arr" THEN type.size ELSE Len(type.fields)
      Elem(i) == IF type.k = "arr" THEN type.child ELSE type.fields[i].type
      Item(h, i) == Then(h, LAMBDA s :
                      Then(EmitCast(s, Number(vals[i].spec, vals[i].n), Elem(i)), LAMBDA u :
                           [u EXCEPT !.params = Append(s.params, u.val)]))
      Filled(h) == [h EXCEPT !.params = g.params,
                      !.val = Aggregate(type, h.params \o [i \in 1 .. size - Len(vals) |->
                                                Zeroinit(Elem(i + Len(vals)))])]
  IN  CASE type.k \notin {"arr", "struct"} -> Refuse(g, "non-aggregate type")
        [] type.k \in {"arr", "struct"} /\ Len(vals) > size -> Refuse(g, "Too many values")
        [] type.k \in {"arr", "struct"} /\ Len(vals) <= size ->
             Then(FoldLeft(Item, [g EXCEPT !.params = <<>>], [i \in DOMAIN vals |-> i]), Filled)

EvalDot(e, g) ==
  Then(EvalExpr(e.base, g), LAMBDA h :
    IF h.val.type.k # "struct" THEN Refuse(h, "access on non-struct type")
    ELSE LET i == FieldIndex(h.val.type, e.field)
         IN  IF i = 0 THEN Refuse(h, "no such field")
             ELSE Emit(h, "EXTRACT", <<h.val, Number("U64", i - 1)>>, h.val.type.fields[i].type))

(* The address of base[index].                                             *)
ElementPtr(e, g) ==
  Then(EvalExpr(e.base, g), LAMBDA b : Then(EvalExpr(e.index, b), LAMBDA i :
    IF b.val.type.k # "ptr" THEN Refuse(i, "indexation")
    ELSE PtrWithOffset(i, b.val, i.val, "ADD")))

EvalExpr(e, g) ==
  CASE e.k = "const" -> Yield(g, Number(e.spec, e.n))
    [] e.k = "ident" -> EvalIdent(e.name, g)
    [] e.k = "compound" ->
         Then(DeclaredType(e.type, g), LAMBDA h : CompoundVal(h.type, e.vals, h))
    [] e.k = "binop" -> EvalBinop(e, g)
    [] e.k = "unop" /\ ~IsStep(e) -> EvalUnop(e, g)
    [] e.k = "sizeof" -> Then(DeclaredType(e.type, g), LAMBDA h :
                              Yield(h, Number("U64", BytesSize(h.type))))
    [] IsStep(e) -> EvalStep(e, IF e.k = "step" THEN e.base ELSE e.child, g)
    [] e.k = "call" -> DoCall(e, g)
    [] e.k = "index" -> Then(ElementPtr(e, g), LAMBDA h : EmitLoad(h, h.val))
    [] e.k = "dot" -> EvalDot(e, g)
    [] e.k = "arrow" -> Then(EvalExpr(e.base, g), LAMBDA h :
                        Then(FieldPtr(h, h.val, e.field), LAMBDA p : EmitLoad(p, p.val)))
    [] e.k = "assign" -> EvalAssignment(e, g)
    [] e.k = "cast" -> Then(EvalExpr(e.child, g), LAMBDA h :
                       Then(DeclaredType(e.type, h), LAMBDA t : EmitCast(t, h.val, t.type)))
    [] e.k = "comma" -> Then(EvalExpr(e.first, g), LAMBDA h : EvalExpr(e.last, h))

(* A field is assigned by storing the whole structure with it replaced; a  *)
(* value is stored through -> as it is.                                    *)
AssignField(e, v, g) ==
  Then(EvalExpr(e.base, g), LAMBDA b :
    IF b.val.type.k # "struct" \/ FieldIndex(b.val.type, e.field) = 0 THEN Refuse(b, "access")
    ELSE LET i == FieldIndex(b.val.type, e.field)
         IN  Then(EmitCast(b, v, b.val.type.fields[i].type), LAMBDA c :
             Then(Emit(c, "INSERT", <<b.val, c.val, Number("U64", i - 1)>>, b.val.type), LAMBDA r :
                  DoAssignment(e.base, r.val, r))))

DoAssignment(e, v, g) ==
  CASE e.k = "ident" ->
         IF PtrToVariable(g, e.name) = {} THEN Refuse(g, "Unknown variable")
         ELSE StoreTo(g, CHOOSE addr \in PtrToVariable(g, e.name) : TRUE, v)
    [] e.k = "unop" /\ e.op = "DEREF" ->
         Then(EvalExpr(e.child, g), LAMBDA p :
           IF p.val.type.k # "ptr" \/ p.val.type.child.k = "func" THEN Refuse(p, "dereference")
           ELSE StoreTo(p, p.val, v))
    [] e.k = "dot" -> AssignField(e, v, g)
    [] e.k = "arrow" -> Then(EvalExpr(e.base, g), LAMBDA h :
                        Then(FieldPtr(h, h.val, e.field), LAMBDA p : EmitStore(p, p.val, v)))
    [] e.k = "index" -> Then(ElementPtr(e, g), LAMBDA p : StoreTo(p, p.val, v))
    [] OTHER -> Refuse(g, "Cannot be assigned")

DoAddrOf(e, g) ==
  CASE e.k = "ident" ->
         IF PtrToVariable(g, e.name) = {} THEN Refuse(g, "Unknown variable")
         ELSE Yield(g, CHOOSE addr \in PtrToVariable(g, e.name) : TRUE)
    [] e.k = "unop" /\ e.op = "DEREF" -> EvalExpr(e.child, g)
    [] e.k = "cast" -> Then(DoAddrOf(e.child, g), LAMBDA h :
                       Then(DeclaredType(e.type, h), LAMBDA t : EmitCast(t, h.val, PtrTo(t.type))))
    [] e.k = "arrow" -> Then(EvalExpr(e.base, g), LAMBDA h : FieldPtr(h, h.val, e.field))
    [] OTHER -> Refuse(g, "Cannot take address")

----------------------------------------------------------------------------
(* getInitializerVal.                                                      *)
InitializerVal(type, init, g) ==
  IF init.k = "list" THEN CompoundVal(type, init.vals, g)
  ELSE Then(EvalExpr(init, g), LAMBDA h : EmitCast(h, h.val, type))

IsConstant(v) == v.cls \in {"val", "zero", "aggregate"}

(* insertGlobalDeclaration, of one declarator.                             *)
GlobalDeclaration(d, g) ==
  LET Variable(h) ==
        Then(IF d.init = NoInit THEN Yield(h, Zeroinit(h.type))
             ELSE InitializerVal(h.type, d.init, h), LAMBDA i :
          IF ~IsConstant(i.val) THEN Refuse(i, "not constant")
          ELSE [i EXCEPT !.globals = @ @@ (d.name :>
                  [addr |-> Global(PtrTo(h.type), d.name), init |-> i.val])])
      Insert(h) ==
        CASE d.name = "" -> h
          [] d.name # "" /\ h.type.k = "func" ->
               IF d.init # NoInit THEN Refuse(h, "Prototypes cannot be initialized")
               ELSE [h EXCEPT !.functions = @ @@ (d.name :> h.type)]
          [] d.name # "" /\ h.type.k # "func" -> Variable(h)
  IN  Then(DeclaredType(d, g), Insert)

(* insertDeclaration, outside loops, of a variable that is not static.     *)
LocalDeclaration(d, g) ==
  Then(DeclaredType(d, g), LAMBDA t :
    IF t.type.k = "func" THEN Refuse(t, "Functions are not allowed inside compound statements")
    ELSE Then(EmitAlloc(t, t.type), LAMBDA a :
      IF d.name \in DOMAIN a.variables THEN Refuse(a, "already declared")
      ELSE LET var == a.val
               b == [a EXCEPT !.variables = (d.name :> var) @@ @]
           IN  IF d.init = NoInit THEN b
               ELSE Then(InitializerVal(t.type, d.init, b), LAMBDA i : EmitStore(i, var, i.val))))
=============================================================================
