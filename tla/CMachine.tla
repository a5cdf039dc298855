------------------------------- MODULE CMachine -------------------------------
(***************************************************************************)
(* What C promises of a sequence of expression statements: the store and   *)
(* the calls of other translation units' functions, statement by           *)
(* statement.                                                              *)
(*                                                                         *)
(* The store has a tree of values for each variable, with no addresses: an *)
(* integer is <<"int", n>>, an aggregate <<"aggr", elements>>, a function  *)
(* <<"fun", f>>, and a pointer <<"at", x, path>>, the object reached from  *)
(* variable x by the given indices.                                        *)
(***************************************************************************)
EXTENDS IRTypes, FiniteSets

CONSTANTS
  W8, W32, W64,   \* the bits of char, int and long
  VarTypes,       \* the type of each variable
  Initial,        \* the value its declaration gives it
  FuncTypes,      \* the type of each function
  Result(_, _, _) \* what function f returns for its arguments as the n-th call

VARIABLES
  rest,    \* the statements to come
  store,   \* the value of every variable, once they are declared
  calls    \* the calls made: functions and arguments

A == INSTANCE Algebra

IntType == Direct("I32")
Integer(n) == <<"int", n>>
NoStore == <<>>

Part(tree, i) == tree[2][i]
RECURSIVE Replaced(_, _, _)
Replaced(tree, path, v) ==
  IF path = <<>> THEN v
  ELSE <<tree[1], [tree[2] EXCEPT ![path[1]] = Replaced(@, Tail(path), v)]>>

TypeAt(x, path) ==
  FoldLeft(LAMBDA t, i : IF t.k = "arr" THEN t.child ELSE t.fields[i].type, VarTypes[x], path)

RECURSIVE Zero(_)
Zero(t) == CASE t.k = "arr" -> <<"aggr", [i \in 1 .. t.size |-> Zero(t.child)]>>
             [] t.k = "struct" -> <<"aggr", [i \in DOMAIN t.fields |-> Zero(t.fields[i].type)]>>
             [] t.k = "dir" -> Integer(0)

(***************************************************************************)
(* The state of an evaluation: store, calls, ok (nothing undefined so      *)
(* far), the value and its type or, of an lvalue, the place and its type.  *)
(* left is the order of evaluation of operands.                            *)
(***************************************************************************)
Start(left) == [store |-> store, calls |-> calls, ok |-> TRUE, left |-> left,
                val |-> Integer(0), type |-> IntType, args |-> <<>>]

Sequel(t, Step2(_)) == CHOOSE r \in {IF s.ok THEN Step2(s) ELSE s : s \in {t}} : TRUE
Gives(t, v, type) == [t EXCEPT !.val = v, !.type = type]
Undefined(t) == [t EXCEPT !.ok = FALSE]

InBounds(place) ==
  \A n \in 1 .. Len(place[3]) :
    LET t == TypeAt(place[2], SubSeq(place[3], 1, n - 1))
    IN  place[3][n] \in 1 .. (IF t.k = "arr" THEN t.size ELSE Len(t.fields))

Read(t) ==   \* what t.val, a place, has; an array is its first element's place
  CASE ~InBounds(t.val) -> Undefined(t)
    [] InBounds(t.val) /\ t.type.k = "arr" ->
         Gives(t, <<"at", t.val[2], Append(t.val[3], 1)>>, PtrTo(t.type.child))
    [] InBounds(t.val) /\ t.type.k # "arr" ->
         Gives(t, FoldLeft(Part, t.store[t.val[2]], t.val[3]), t.type)

(* The conversions of C.                                                   *)
RECURSIVE Retyped(_, _)
Retyped(place, t) ==   \* the object of type t that starts where place does
  IF TypeAt(place[2], place[3]) = t THEN place
  ELSE Retyped(<<"at", place[2], Append(place[3], 1)>>, t)

Converted(v, to) ==
  CASE v[1] = "int" /\ to.k = "dir" -> Integer(A!Cast(to.spec, v[2]))
    [] v[1] = "at" /\ to.k = "ptr" -> Retyped(v, to.child)
    [] OTHER -> v
Convert(t, to) == Gives(t, Converted(t.val, to), to)

Promoted(t) == IF t.spec \in {"I8", "U8", "BOOL"} THEN IntType ELSE t
Usual(a, b) ==
  LET types == {Promoted(a), Promoted(b)}
  IN  CASE Direct("U64") \in types -> Direct("U64")
        [] Direct("U64") \notin types /\ Direct("I64") \in types -> Direct("I64")
        [] types \cap {Direct("U64"), Direct("I64")} = {} /\ Direct("U32") \in types -> Direct("U32")
        [] OTHER -> IntType

Arithmetic2(op, t, a, b, type) ==
  LET l == A!Cast(type.spec, a[2])
      r == A!Cast(type.spec, b[2])
      n == CASE op = "ADD" -> l + r [] op = "SUB" -> l - r [] op = "MUL" -> l * r
             [] op \notin {"ADD", "SUB", "MUL"} -> A!Compute(op, l, r, type.spec)
  IN  CASE op \in A!CompareOps -> Gives(t, Integer(IF A!Compare(op, l, r) THEN 1 ELSE 0), IntType)
        [] op \notin A!CompareOps
             /\ \/ A!NoResult(op, l, r, type.spec)
                \/ IsSigned(type) /\ A!Cast(type.spec, n) # n ->
             Undefined(t)
        [] OTHER -> Gives(t, Integer(A!Cast(type.spec, n)), type)

(* Pointers move within an array.                                          *)
Moved(t, p, type, n) ==
  IF p[3] = <<>> THEN Undefined(t)
  ELSE LET q == <<"at", p[2], [p[3] EXCEPT ![Len(p[3])] = @ + n]>>
       IN  IF /\ InBounds(q)
              /\ TypeAt(q[2], SubSeq(q[3], 1, Len(q[3]) - 1)).k = "arr"
           THEN Gives(t, q, type) ELSE Undefined(t)

Operation(op, t, a, b) ==   \* a and b are evaluations that gave the operands
  CASE a.type.k = "ptr" -> Moved(t, a.val, a.type, IF op = "ADD" THEN b.val[2] ELSE -b.val[2])
    [] b.type.k = "ptr" -> Moved(t, b.val, b.type, a.val[2])
    [] OTHER -> Arithmetic2(op, t, a.val, b.val, Usual(a.type, b.type))

TypeNamed(typeName) == DeclaredType(typeName,
  [structs |-> [x \in {t.name : t \in {u \in {VarTypes[y] : y \in DOMAIN VarTypes} : u.k = "struct"}} |->
                  CHOOSE t \in {VarTypes[y] : y \in DOMAIN VarTypes} : t.k = "struct" /\ t.name = x],
   type |-> IntType, params |-> <<>>, fields |-> <<>>, err |-> "none"]).type

RECURSIVE Place(_, _), Value(_, _)

Assigned(t, place, type, v) ==   \* v is stored; the expression has its value
  Sequel(t, LAMBDA s : IF ~InBounds(place) THEN Undefined(s)
    ELSE Gives([s EXCEPT !.store[place[2]] = Replaced(@, place[3], v)], v, type))

Operands(e, t, With(_, _, _)) ==
  IF t.left
  THEN Sequel(Value(e.lhs, t), LAMBDA a : Sequel(Value(e.rhs, a), LAMBDA b : With(b, a, b)))
  ELSE Sequel(Value(e.rhs, t), LAMBDA b : Sequel(Value(e.lhs, b), LAMBDA a : With(a, a, b)))

Place(e, t) ==
  CASE e.k = "ident" -> Gives(t, <<"at", e.name, <<>>>>, VarTypes[e.name])
    [] e.k = "unop" -> Sequel(Value(e.child, t), LAMBDA p : Gives(p, p.val, p.type.child))
    [] e.k = "index" -> Operands([lhs |-> e.base, rhs |-> e.index], t, LAMBDA s, p, i :
         Sequel(Operation("ADD", s, p, i), LAMBDA q : Gives(q, q.val, q.type.child)))
    [] e.k = "dot" -> Sequel(Place(e.base, t), LAMBDA p :
         LET i == FieldIndex(p.type, e.field)
         IN  Gives(p, <<"at", p.val[2], Append(p.val[3], i)>>, p.type.fields[i].type))
    [] e.k = "arrow" -> Place(Dot(Deref(e.base), e.field), t)

IsLvalue(e) == \/ e.k \in {"ident", "index", "arrow"}
               \/ e.k = "unop" /\ e.op = "DEREF"
               \/ e.k = "dot" /\ e.base.k # "call"

(* An assignment: the value, then the place.                               *)
Assigning(e, t) ==
  Sequel(Value(e.rhs, t), LAMBDA v : Sequel(Place(e.lhs, v), LAMBDA p :
    IF e.op = "DIRECT" THEN Assigned(p, p.val, p.type, Converted(v.val, p.type))
    ELSE Sequel(Read(p), LAMBDA old : Sequel(Operation(e.op, old, old, v), LAMBDA new :
           Assigned(new, p.val, p.type, Converted(new.val, p.type))))))

Stepping(base, op, new, t) ==
  Sequel(Place(base, t), LAMBDA p : Sequel(Read(p), LAMBDA old :
  Sequel(Operation(op, old, old, Gives(old, Integer(1), IntType)), LAMBDA next :
  Sequel(Assigned(next, p.val, p.type, Converted(next.val, p.type)), LAMBDA s :
    IF new THEN s ELSE Gives(s, old.val, old.type)))))

Calling(e, t) ==
  LET Arg(s, i) == Sequel(s, LAMBDA u : Sequel(Value(e.args[i], u), LAMBDA v :
                     [v EXCEPT !.args = Append(u.args, v.val)]))
      Made(f, s) ==
        LET args == [i \in DOMAIN s.args |-> Converted(s.args[i], FuncTypes[f].args[i])]
        IN  [Gives(s, Result(f, args, Len(s.calls)), FuncTypes[f].ret)
               EXCEPT !.calls = Append(@, <<f, args>>), !.args = t.args]
      Intrinsic(s) == Gives([s EXCEPT !.args = t.args],
        Integer(A!TrailingZeros(A!Cast("U32", s.args[1][2]), W32)), IntType)
      Args(s) == FoldLeft(Arg, [s EXCEPT !.args = <<>>], [i \in DOMAIN e.args |-> i])
  IN  IF e.base = Id("ctz") THEN Sequel(Args(t), Intrinsic)
      ELSE Sequel(Value(e.base, t), LAMBDA f : Sequel(Args(f), LAMBDA s : Made(f.val[2], s)))

Listed(typeName, vals, t) ==   \* a compound literal of numbers
  LET type == TypeNamed(typeName)
      Elem(i) == IF type.k = "arr" THEN type.child ELSE type.fields[i].type
  IN  Gives(t, <<"aggr", [i \in DOMAIN Zero(type)[2] |->
                   IF i \in DOMAIN vals THEN Converted(Integer(vals[i].n), Elem(i))
                   ELSE Zero(type)[2][i]]>>, type)

Unary(e, t) ==
  CASE e.op = "ADDR_OF" -> Sequel(Place(e.child, t), LAMBDA p : Gives(p, p.val, PtrTo(p.type)))
    [] e.op \in {"PRE_INC", "PRE_DEC"} ->
         Stepping(e.child, IF e.op = "PRE_INC" THEN "ADD" ELSE "SUB", TRUE, t)
    [] e.op \notin {"ADDR_OF", "PRE_INC", "PRE_DEC"} -> Sequel(Value(e.child, t), LAMBDA v :
         LET With(op, n) == Operation(op, v, Gives(v, Integer(n), IntType), v)
         IN  CASE e.op = "UN_PLUS" -> With("ADD", 0)
               [] e.op = "UN_MINUS" -> With("SUB", 0)
               [] e.op = "UN_NEG" -> With("XOR", -1)
               [] e.op = "UN_NOT" -> With("EQ", 0))

Value(e, t) ==
  CASE e.k = "ident" /\ e.name \in DOMAIN FuncTypes ->
         Gives(t, <<"fun", e.name>>, PtrTo(FuncTypes[e.name]))
    [] IsLvalue(e) /\ ~(e.k = "ident" /\ e.name \in DOMAIN FuncTypes) ->
         Sequel(Place(e, t), Read)
    [] e.k = "const" -> Gives(t, Integer(e.n), Direct(e.spec))
    [] e.k = "compound" -> Listed(e.type, e.vals, t)
    [] e.k = "sizeof" -> Gives(t, Integer(AllocSize(TypeNamed(e.type))), Direct("U64"))
    [] e.k = "binop" -> Operands(e, t, LAMBDA s, a, b : Operation(e.op, s, a, b))
    [] e.k = "unop" /\ ~IsLvalue(e) -> Unary(e, t)
    [] e.k = "step" -> Stepping(e.base, IF e.op = "POST_INC" THEN "ADD" ELSE "SUB", FALSE, t)
    [] e.k = "call" -> Calling(e, t)
    [] e.k = "dot" /\ ~IsLvalue(e) -> Sequel(Value(e.base, t), LAMBDA s :
         LET i == FieldIndex(s.type, e.field) IN Gives(s, s.val[2][i], s.type.fields[i].type))
    [] e.k = "assign" -> Assigning(e, t)
    [] e.k = "cast" -> Sequel(Value(e.child, t), LAMBDA s : Convert(s, TypeNamed(e.type)))
    [] e.k = "comma" -> Sequel(Value(e.first, t), LAMBDA s : Value(e.last, s))

----------------------------------------------------------------------------
Init ==
  /\ store = NoStore
  /\ calls = <<>>

Begin ==
  /\ store = NoStore
  /\ store' = Initial
  /\ UNCHANGED <<rest, calls>>

(* A statement of which nothing is undefined, in either order.             *)
Execute ==
  /\ store # NoStore
  /\ rest # <<>>
  /\ rest' = Tail(rest)
  /\ \E left \in BOOLEAN : \E t \in {Value(Head(rest), Start(left))} :
       t.ok /\ store' = t.store /\ calls' = t.calls

Spec == Init /\ [][Begin \/ Execute]_<<rest, store, calls>>
=============================================================================
