----------------------------- MODULE Expressions -----------------------------
(***************************************************************************)
(* A translation unit on its way from the syntax tree to LLVM: IR_Generator*)
(* takes its declarations and the expression statements of its function    *)
(* (generator.cpp, ExprGen), IR2LLVM makes types, globals and one LLVM     *)
(* instruction of each node (ir_2_llvm.cpp), and the instructions run.     *)
(*                                                                         *)
(* Memory is LLVM's: each scalar is a cell at its address, of its size.    *)
(* Numbers are bits; a char has W8 of them.                                *)
(***************************************************************************)
EXTENDS ExprGen, FiniteSets, Folds

CONSTANTS
  Programs,       \* the translation units: declarations, then statements
  VarTypes, Initial, FuncTypes,   \* what C makes of the declarations (CMachine)
  Result(_, _, _) \* what a function of another translation unit returns

VARIABLES
  program,
  unit,    \* the state of the generator, and the nodes it has made
  marks,   \* how many nodes there were after each item of the program
  pc,      \* the node to run (0: the unit is not materialised)
  regs,    \* the values of the registers
  symbols, \* the addresses of the global variables
  mem,     \* address -> the size of the cell and its value, if it has one
  top,     \* the first free address
  calls,   \* the calls made
  fault,   \* the program has done what LLVM gives no meaning
  start    \* the C state at the last statement boundary

genVars == <<unit, marks>>
runVars == <<regs, symbols, mem, top, calls, fault, start>>
vars == <<program, unit, marks, pc, runVars>>

Range2(f) == {f[x] : x \in DOMAIN f}
Items(kinds) == SelectSeq(program, LAMBDA d : d.k \in kinds)
Generated == Len(marks) = Len(program) /\ unit.err = "none"
Item == program[Len(marks) + 1]

----------------------------------------------------------------------------
(* getValue, and the memory.                                               *)
RECURSIVE ZeroValue(_)
ZeroValue(t) ==
  CASE t.k = "struct" -> [i \in DOMAIN t.fields |-> ZeroValue(t.fields[i].type)]
    [] t.k = "arr" -> [i \in 1 .. t.size |-> ZeroValue(t.child)]
    [] t.k \in {"dir", "ptr"} -> 0

RECURSIVE ValueOf(_)
ValueOf(v) ==
  CASE v.cls = "val" -> A!Cast("U64", v.n) % 2 ^ (W8 * DirectSize(v.type.spec))
    [] v.cls = "reg" -> regs[v.n]
    [] v.cls = "global" -> symbols[v.name]
    [] v.cls = "fun" -> v.name
    [] v.cls = "aggregate" -> [i \in DOMAIN v.vals |-> ValueOf(v.vals[i])]
    [] v.cls \in {"zero", "undef"} -> ZeroValue(v.type)

(* The objects an object of type t at address a is made of, itself and its *)
(* parts, with the way to each.                                            *)
RECURSIVE Objects(_, _)
Objects(t, a) ==
  LET Children == CASE t.k = "arr" -> {[i |-> i, type |-> t.child, addr |-> a + (i - 1) * AllocSize(t.child)]
                                         : i \in 1 .. t.size}
                    [] t.k = "struct" -> {[i |-> i, type |-> t.fields[i].type, addr |-> a + FieldOffset(t, i)]
                                            : i \in DOMAIN t.fields}
                    [] OTHER -> {}
  IN  {[addr |-> a, type |-> t, path |-> <<>>]} \cup
      UNION {{[o EXCEPT !.path = <<c.i>> \o @] : o \in Objects(c.type, c.addr)} : c \in Children}
Scalars(t, a) == {o \in Objects(t, a) : o.type.k \in {"dir", "ptr"}}

Cells(t, a, ValueAt(_)) ==
  [b \in {o.addr : o \in Scalars(t, a)} |->
     LET o == CHOOSE s \in Scalars(t, a) : s.addr = b
     IN  [size |-> AllocSize(o.type), v |-> ValueAt(o.path)]]
Fresh(t, a) == Cells(t, a, LAMBDA path : {})
Filled(t, a, v) == Cells(t, a, LAMBDA path : {FoldLeft(LAMBDA w, i : w[i], v, path)})

Writable(t, a) ==
  \A o \in Scalars(t, a) : o.addr \in DOMAIN mem /\ mem[o.addr].size = AllocSize(o.type)
Readable(t, a) == Writable(t, a) /\ \A o \in Scalars(t, a) : mem[o.addr].v # {}

RECURSIVE Loaded(_, _)
Loaded(t, a) ==
  CASE t.k = "struct" -> [i \in DOMAIN t.fields |-> Loaded(t.fields[i].type, a + FieldOffset(t, i))]
    [] t.k = "arr" -> [i \in 1 .. t.size |-> Loaded(t.child, a + (i - 1) * AllocSize(t.child))]
    [] t.k \in {"dir", "ptr"} -> CHOOSE v \in mem[a].v : TRUE

(***************************************************************************)
(* What C sees: the store, and the statements that are not yet executed.   *)
(***************************************************************************)
Variables == DOMAIN unit.variables \cup DOMAIN unit.globals
AddrOfVar(x) == CHOOSE v \in PtrToVariable(unit, x) : TRUE

(* The objects of all variables.                                           *)
Places ==
  LET Of(x, v, a) == {[addr |-> o.addr, type |-> o.type, at |-> <<"at", x, o.path>>] :
                        o \in Objects(v.type.child, a)}
  IN  UNION {UNION {UNION {Of(x, v, a) : a \in {ValueOf(v)}} : v \in PtrToVariable(unit, x)}
               : x \in Variables}

(* The value v of type t as C sees it.                                     *)
RECURSIVE Decoded(_, _, _)
Decoded(t, v, places) ==
  LET targets == {o \in places : o.type = t.child /\ o.addr = v}
  IN  CASE t.k = "dir" -> <<"int", A!Cast(t.spec, v)>>
        [] t.k = "ptr" /\ t.child.k = "func" -> <<"fun", v>>
        [] t.k = "ptr" /\ t.child.k # "func" ->
             IF targets = {} THEN <<"nowhere", v>> ELSE (CHOOSE o \in targets : TRUE).at
        [] t.k = "arr" -> <<"aggr", [i \in DOMAIN v |-> Decoded(t.child, v[i], places)]>>
        [] t.k = "struct" ->
             <<"aggr", [i \in DOMAIN v |-> Decoded(t.fields[i].type, v[i], places)]>>

(* F(v), with v computed once.                                             *)
With(v, F(_)) == CHOOSE r \in {F(w) : w \in {v}} : TRUE

Observed ==
  With(Places, LAMBDA places :
    [x \in Variables |->
       With(AddrOfVar(x), LAMBDA addr :
         With(Loaded(addr.type.child, ValueOf(addr)), LAMBDA v :
           Decoded(addr.type.child, v, places)))])

(* Item i ends before node marks[i] + 1.  Declarations alone are not run.  *)
Declarations == Len(Items({"global", "local"}))
AtBoundary ==
  /\ pc > 0 /\ Declarations < Len(program)
  /\ \E i \in Declarations .. Len(marks) : marks[i] + 1 = pc
Statements == [i \in DOMAIN Items({"expr"}) |-> Items({"expr"})[i].expr]
Executed == IF pc = 0 THEN 0
            ELSE Cardinality({i \in Declarations + 1 .. Len(program) : marks[i] < pc})

(* To be the last conjunct of an action: start follows the boundaries.     *)
Watched ==
  start' = IF AtBoundary' THEN [store |-> Observed', calls |-> calls'] ELSE start

C == INSTANCE CMachine WITH
       rest <- SubSeq(Statements, Executed + 1, Len(Statements)),
       store <- IF fault THEN <<"fault">> ELSE start.store,
       calls <- start.calls

----------------------------------------------------------------------------
Init ==
  /\ program \in Programs
  /\ \E leftFirst \in BOOLEAN : unit = NewUnit(leftFirst)
  /\ marks = <<>> /\ pc = 0
  /\ regs = <<>> /\ symbols = <<>> /\ mem = <<>> /\ top = 8
  /\ calls = <<>> /\ fault = FALSE
  /\ start = [store |-> <<>>, calls |-> <<>>]

(* genTransUnit and fillBlock, one item at a time.                         *)
Generating == Len(marks) < Len(program) /\ unit.err = "none"
Generates(g) ==
  /\ unit' = g
  /\ marks' = Append(marks, Len(g.code))
  /\ UNCHANGED <<program, pc, runVars>>

InsertGlobalDeclaration ==
  /\ Generating /\ Item.k = "global"
  /\ Generates(GlobalDeclaration(Item, unit))

(* createFunction, which the other items are in the body of.               *)
CreateFunction ==
  /\ Generating /\ Item.k \in {"local", "expr"} /\ ~unit.inFunction
  /\ unit' = [unit EXCEPT !.inFunction = TRUE]
  /\ UNCHANGED <<program, marks, pc, runVars>>

InsertDeclaration ==
  /\ Generating /\ Item.k = "local" /\ unit.inFunction
  /\ Generates(LocalDeclaration(Item, unit))

InsertStatement ==
  /\ Generating /\ Item.k = "expr" /\ unit.inFunction
  /\ Generates(EvalExpr(Item.expr, unit))

(* createGlobals: the linker gives each an address and its initial value.  *)
CreateGlobals ==
  LET names == SetToSeq(DOMAIN unit.globals)
      TypeOf(i) == unit.globals[names[i]].addr.type.child
      Placed[i \in 0 .. Len(names)] ==
        IF i = 0 THEN top ELSE RoundUp(Placed[i - 1], 8) + AllocSize(TypeOf(i))
      At(i) == RoundUp(Placed[i - 1], 8)
  IN  /\ Generated /\ pc = 0
      /\ pc' = 1
      /\ symbols' = [x \in DOMAIN unit.globals |->
                       At(CHOOSE i \in DOMAIN names : names[i] = x)]
      /\ mem' = FoldLeft(LAMBDA m, i : m @@ Filled(TypeOf(i), At(i),
                                                   ValueOf(unit.globals[names[i]].init)),
                         mem, [i \in DOMAIN names |-> i])
      /\ top' = Placed[Len(names)]
      /\ UNCHANGED <<program, unit, marks, regs, calls, fault, start>>

(* The instruction made of a node runs: what all of them do.  fault says   *)
(* that LLVM gives no meaning to what it did.                              *)
Runs(ops, legal) ==
  /\ pc \in 1 .. Len(unit.code) /\ ~fault
  /\ unit.code[pc].op \in ops
  /\ pc' = pc + 1
  /\ fault' = ~legal
  /\ UNCHANGED <<program, unit, marks, symbols>>
ThisNode == unit.code[pc]
Arg(i) == ThisNode.args[i]

BuildAlloca ==
  /\ Runs({"ALLOC"}, TRUE)
  /\ LET type == ThisNode.type.child
         addr == RoundUp(top, AlignOf(type))
     IN  /\ regs' = Append(regs, addr)
         /\ mem' = mem @@ Fresh(type, addr)
         /\ top' = addr + AllocSize(type)
  /\ UNCHANGED calls
  /\ Watched

(* buildOperation: the instruction is chosen by the first argument's type. *)
BuildOperation ==
  LET spec == Arg(1).type.spec
      n(i) == A!Cast(spec, ValueOf(Arg(i)))
      meant == ThisNode.op = "CTZ" \/ ~A!NoResult(ThisNode.op, n(1), n(2), spec)
      result == CASE ThisNode.op = "CTZ" -> A!TrailingZeros(ValueOf(Arg(1)), A!Bits(spec))
                  [] ThisNode.op \in A!CompareOps -> IF A!Compare(ThisNode.op, n(1), n(2)) THEN 1 ELSE 0
                  [] OTHER -> A!Compute(ThisNode.op, n(1), n(2), spec) % 2 ^ A!Bits(spec)
  IN  /\ Runs(Operators, meant)
      /\ regs' = Append(regs, IF meant THEN result ELSE 0)
      /\ UNCHANGED <<mem, top, calls>>
      /\ Watched

(* buildMemOp.                                                             *)
BuildLoad ==
  LET type == ThisNode.type
      addr == ValueOf(Arg(1))
  IN  /\ Runs({"LOAD"}, Readable(type, addr))
      /\ regs' = Append(regs, IF fault' THEN 0 ELSE Loaded(type, addr))
      /\ UNCHANGED <<mem, top, calls>>
      /\ Watched

BuildStore ==
  LET type == Arg(2).type
      addr == ValueOf(Arg(1))
  IN  /\ Runs({"STORE"}, Writable(type, addr))
      /\ mem' = IF fault' THEN mem ELSE Filled(type, addr, ValueOf(Arg(2))) @@ mem
      /\ UNCHANGED <<regs, top, calls>>
      /\ Watched

(* buildAccessOp; its last argument is the index of a field.               *)
BuildAccessOp ==
  LET field == Last(ThisNode.args).n + 1
      result == CASE ThisNode.op = "GEP" ->
                       (ValueOf(Arg(1)) + FieldOffset(Arg(1).type.child, field)) % 2 ^ W64
                  [] ThisNode.op = "EXTRACT" -> ValueOf(Arg(1))[field]
                  [] ThisNode.op = "INSERT" -> [ValueOf(Arg(1)) EXCEPT ![field] = ValueOf(Arg(2))]
  IN  /\ Runs({"GEP", "EXTRACT", "INSERT"}, TRUE)
      /\ regs' = Append(regs, result)
      /\ UNCHANGED <<mem, top, calls>>
      /\ Watched

BuildCast ==
  LET width == A!Bits(ThisNode.type.spec)
      v == ValueOf(Arg(1))
      result == CASE ThisNode.op = "SEXT" -> A!Cast(Arg(1).type.spec, v) % 2 ^ width
                  [] ThisNode.op \in {"ZEXT", "TRUNC"} -> v % 2 ^ width
                  [] ThisNode.op \notin {"SEXT", "ZEXT", "TRUNC"} -> v
  IN  /\ Runs(CastOps, TRUE)
      /\ regs' = Append(regs, result)
      /\ UNCHANGED <<mem, top, calls>>
      /\ Watched

(* buildCall.  The function is in another translation unit; its arguments  *)
(* are noted as C sees them.                                               *)
BuildCall ==
  LET indirect == ThisNode.op = "ICALL"
      name == IF indirect THEN ValueOf(Arg(1)) ELSE ThisNode.what
      given == IF indirect THEN Tail(ThisNode.args) ELSE ThisNode.args
      args == [i \in DOMAIN given |-> Decoded(given[i].type, ValueOf(given[i]), Places)]
      RECURSIVE Encoded(_)
      Encoded(tree) == IF tree[1] = "int" THEN tree[2] % 2 ^ W32
                       ELSE [i \in DOMAIN tree[2] |-> Encoded(tree[2][i])]
  IN  /\ Runs({"CALL", "ICALL"}, TRUE)
      /\ calls' = Append(calls, <<name, args>>)
      /\ regs' = IF ThisNode.res = 0 THEN regs
                 ELSE Append(regs, Encoded(Result(name, args, Len(calls))))
      /\ UNCHANGED <<mem, top>>
      /\ Watched

Next ==
  \/ InsertGlobalDeclaration \/ CreateFunction \/ InsertDeclaration \/ InsertStatement
  \/ CreateGlobals
  \/ BuildAlloca \/ BuildOperation \/ BuildLoad \/ BuildStore \/ BuildAccessOp
  \/ BuildCast \/ BuildCall

Spec == Init /\ [][Next]_vars

----------------------------------------------------------------------------
(* The machine keeps step with the code: a register for each node that     *)
(* makes a value, nodes that use registers assigned before them, addresses *)
(* that fit a pointer.                                                     *)
TypeOK ==
  /\ pc \in 0 .. Len(unit.code) + 1
  /\ Len(regs) = Cardinality({i \in 1 .. pc - 1 : unit.code[i].res # 0}) \/ fault
  /\ pc \in DOMAIN unit.code => \A i \in DOMAIN ThisNode.args :
       Arg(i).cls = "reg" => \E k \in 1 .. pc - 1 :
         unit.code[k].res = Arg(i).n /\ unit.code[k].type = Arg(i).type
  /\ top <= 2 ^ W64 /\ \A a \in DOMAIN mem : a + mem[a].size <= top

(***************************************************************************)
(* What LLVM's verifier asks of the instruction made of a node.            *)
(***************************************************************************)
LegalCast(op, from, to) ==
  LET Wider(a, b) == IsInteger(a) /\ IsInteger(b) /\ A!Bits(a.spec) > A!Bits(b.spec)
  IN  CASE op = "BITCAST" -> {from.k, to.k} = {"ptr"} \/ from = to
        [] op \in {"SEXT", "ZEXT"} -> Wider(to, from)
        [] op = "TRUNC" -> Wider(from, to)
        [] op = "PTRTOI" -> from.k = "ptr" /\ IsInteger(to)
        [] op = "ITOPTR" -> IsInteger(from) /\ to.k = "ptr"
        [] OTHER -> FALSE

LegalAccess(n) ==
  LET T(i) == LLVMType(n.args[i].type)
      struct == IF n.op = "GEP" THEN T(1).child ELSE T(1)
      field == Last(n.args).n + 1
      type == LLVMType(struct.fields[field].type)
  IN  /\ struct.k = "struct" /\ field \in DOMAIN struct.fields
      /\ CASE n.op = "GEP" -> LLVMType(n.type) = PtrTo(type)
           [] n.op = "EXTRACT" -> LLVMType(n.type) = type
           [] n.op = "INSERT" -> T(2) = type

LegalNode(n) ==
  LET T(i) == LLVMType(n.args[i].type)
      Types(from) == [i \in 1 .. Len(n.args) - from |-> T(i + from)]
  IN  /\ \A i \in DOMAIN n.args : n.args[i].cls = "val" => IsDirect(n.args[i].type)
      /\ CASE n.op = "ALLOC" -> n.type.child # Void
           [] n.op = "LOAD" -> T(1) = PtrTo(LLVMType(n.type))
           [] n.op = "STORE" -> T(1) = PtrTo(T(2))
           [] n.op \in {"GEP", "EXTRACT", "INSERT"} -> LegalAccess(n)
           [] n.op = "CALL" -> Types(0) = LLVMType(unit.functions[n.what]).args
           [] n.op = "ICALL" ->
                T(1).k = "ptr" /\ T(1).child.k = "func" /\ Types(1) = T(1).child.args
           [] n.op = "CTZ" -> IsInteger(T(1)) /\ T(1) = LLVMType(n.type)
           [] n.op \in A!BinaryOps -> IsInteger(T(1)) /\ T(2) = T(1)
           [] n.op \in CastOps -> LegalCast(n.op, T(1), LLVMType(n.type))

(* A correct program is taken, and each node of it is one LLVM's verifier  *)
(* lets pass: the types of the operands agree after the casts of           *)
(* doAssignment, doBinOp and doCall (ir_2_llvm.cpp:402 only reports it).   *)
LegalCode == unit.err = "none" /\ (pc \in DOMAIN unit.code => LegalNode(ThisNode))

(***************************************************************************)
(* "Declaration mirrors use": what the operations around a declared name,  *)
(* from the inside out, make of its type is what the specifiers say.       *)
(***************************************************************************)
SpecifiedType(words) ==
  LET Has(w) == w \in Range2(words)
  IN  Direct(CASE Has("void") -> "VOID"
               [] Has("char") -> IF Has("unsigned") THEN "U8" ELSE "I8"
               [] Has("float") -> "F32"
               [] Has("double") -> "F64"
               [] Has("long") -> IF Has("unsigned") THEN "U64" ELSE "I64"
               [] OTHER -> IF Has("unsigned") THEN "U32" ELSE "I32")

RECURSIVE Uses(_)
Uses(direct) ==
  CASE direct.k = "name" -> <<>>
    [] direct.k = "nested" -> Uses(direct.decl.direct) \o
                              [i \in 1 .. direct.decl.ptrs |-> [op |-> "deref"]]
    [] direct.k = "array" -> Append(Uses(direct.base), [op |-> "index", size |-> direct.size])
    [] direct.k = "func" -> Append(Uses(direct.base), [op |-> "call", params |-> direct.params])

RECURSIVE DeclaredAs(_, _)
Used(t, use) ==
  LET NoType == Direct("none")
      Taken == IF Len(use.params) = 1 /\ VoidParam(use.params[1]) THEN <<>> ELSE use.params
  IN  CASE use.op = "deref" -> IF t.k = "ptr" THEN t.child ELSE NoType
        [] use.op = "index" -> IF t.k = "arr" /\ t.size = use.size THEN t.child ELSE NoType
        [] use.op = "call" -> IF /\ t.k = "func" /\ Len(t.args) = Len(Taken)
                                 /\ \A i \in DOMAIN Taken : DeclaredAs(t.args[i], Taken[i])
                              THEN t.ret ELSE NoType

DeclaredAs(t, d) ==
  LET base == FoldLeft(Used, t, Uses(Nested(d.decl)))
  IN  CASE d.spec.k = "words" -> base = SpecifiedType(d.spec.words)
        [] d.spec.k = "named" -> DeclaredAs(base, d.spec.type)
        [] d.spec.k = "struct" ->
             /\ base.k = "struct" /\ base.name = d.spec.name
             /\ d.spec.hasBody =>
                  /\ Len(base.fields) = Len(d.spec.body)
                  /\ \A i \in DOMAIN d.spec.body :
                       /\ base.fields[i].name = d.spec.body[i].name
                       /\ DeclaredAs(base.fields[i].type, d.spec.body[i])

(* Every name has the type its declaration gives it in C, however pointers,*)
(* arrays, functions and parentheses are combined (types_gen.cpp:140-215). *)
DeclaredAsC ==
  pc = 0 => \A i \in DOMAIN marks :
    LET d == program[i]
    IN  CASE d.k = "expr" \/ d.name = "" -> TRUE
          [] d.name \in DOMAIN unit.functions -> DeclaredAs(unit.functions[d.name], d)
          [] d.name \in DOMAIN unit.globals -> DeclaredAs(unit.globals[d.name].addr.type.child, d)
          [] d.name \in DOMAIN unit.variables -> DeclaredAs(unit.variables[d.name].type.child, d)
          [] OTHER -> unit.err # "none"

(* Statement by statement the code does to the variables what C says, with *)
(* the same calls in the same order, and touches nothing else.             *)
ActsAsC == C!Spec
=============================================================================
