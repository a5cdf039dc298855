---------------------------- MODULE MCExpressions ----------------------------
(***************************************************************************)
(* A small instance of Expressions: the declarations of a few variables of *)
(* each class of type, statements about them taken two at a time, and      *)
(* declarations on their own.                                              *)
(***************************************************************************)
EXTENDS Expressions

INT == Words(<<"int">>)
CHAR == Words(<<"char">>)
LONG == Words(<<"long">>)
Var(spec, decl, name, init) == Declaration("local", spec, decl, name, init)
List(vals) == [k |-> "list", vals |-> [i \in DOMAIN vals |-> Num(vals[i])]]

(* struct P { int a, b; }; struct N { struct P in; long c; };              *)
(* struct B { char t; int n; };                                            *)
PDef == StructDef("P", <<Declared(INT, Plain, "a"), Declared(INT, Plain, "b")>>)
NDef == StructDef("N", <<Declared(StructRef("P"), Plain, "in"), Declared(LONG, Plain, "c")>>)
BDef == StructDef("B", <<Declared(CHAR, Plain, "t"), Declared(INT, Plain, "n")>>)
P == StructOf("P", <<[name |-> "a", type |-> I32], [name |-> "b", type |-> I32]>>)
N == StructOf("N", <<[name |-> "in", type |-> P], [name |-> "c", type |-> Direct("I64")]>>)
B == StructOf("B", <<[name |-> "t", type |-> Direct("I8")], [name |-> "n", type |-> I32]>>)

F == FuncOf(I32, <<I32>>)       \* int f(int v);
H == FuncOf(P, <<P>>)           \* struct P h(struct P v);

Decls ==
  << Declaration("global", PDef, Plain, "", NoInit),
     Declaration("global", NDef, Plain, "n", NoInit),
     Declaration("global", BDef, Plain, "b", List(<<1, 7>>)),
     Declaration("global", StructRef("P"), Declarator(0, ArrayDecl(TheName, 2)), "t", NoInit),
     Declaration("global", INT, Declarator(0, FuncDecl(TheName, <<Declared(INT, Plain, "v")>>)), "f", NoInit),
     Declaration("global", StructRef("P"),
                 Declarator(0, FuncDecl(TheName, <<Declared(StructRef("P"), Plain, "v")>>)), "h", NoInit),
     Var(INT, Plain, "x", Num(1)),
     Var(CHAR, Plain, "c", Num(1)),
     Var(LONG, Plain, "l", Lit("I64", 2)),
     Var(StructRef("P"), Plain, "s", List(<<3, 4>>)),
     Var(INT, Declarator(0, ArrayDecl(TheName, 3)), "a", List(<<5, 6>>)),
     Var(StructRef("P"), Star, "p", AddrOf(Id("s"))),
     Var(StructRef("N"), Star, "q", AddrOf(Id("n"))),
     Var(INT, Star, "i", Id("a")),
     Var(INT, Declarator(0, FuncDecl(Nested(Declarator(1, TheName)), <<Declared(INT, Plain, "v")>>)),
         "fp", Id("f")) >>

Types0 ==
  [n |-> N, b |-> B, t |-> ArrayOf(P, 2), x |-> I32, c |-> Direct("I8"), l |-> Direct("I64"),
   s |-> P, a |-> ArrayOf(I32, 3), p |-> PtrTo(P), q |-> PtrTo(N), i |-> PtrTo(I32),
   fp |-> PtrTo(F)]
Functions0 == [f |-> F, h |-> H]

Ints(vals) == <<"aggr", [j \in DOMAIN vals |-> <<"int", vals[j]>>]>>
At(x, path) == <<"at", x, path>>
Initial0 ==
  [n |-> <<"aggr", <<Ints(<<0, 0>>), <<"int", 0>>>>>>, b |-> Ints(<<1, 7>>),
   t |-> <<"aggr", <<Ints(<<0, 0>>), Ints(<<0, 0>>)>>>>, x |-> <<"int", 1>>, c |-> <<"int", 1>>,
   l |-> <<"int", 2>>, s |-> Ints(<<3, 4>>), a |-> Ints(<<5, 6, 0>>), p |-> At("s", <<>>),
   q |-> At("n", <<>>), i |-> At("a", <<1>>), fp |-> <<"fun", "f">>]

(* f counts its calls; h returns what it is given.                         *)
Result0(f, args, n) == IF f = "h" THEN args[1] ELSE <<"int", args[1][2] + n + 1>>

x == Id("x")
l == Id("l")
s == Id("s")
n == Id("n")
p == Id("p")
q == Id("q")
i == Id("i")
a == Id("a")
t == Id("t")
b == Id("b")
IntStar == TypeName(INT, Star)
ULong == TypeName(Words(<<"unsigned", "long">>), Plain)

(* Assignments and conversions.                                            *)
Scalars0 ==
  { Assign(x, Add(x, Num(1))),                       \* x = x + 1
    Assign(x, Unop("UN_NOT", x)),                    \* x = !x
    Assign(x, Binop("LT", Num(2), x)),               \* x = 2 < x
    Assign(Id("c"), x),                              \* c = x
    Assign(l, Add(Id("c"), x)),                      \* l = c + x
    Assignment("SUB", l, Lit("I64", 3)),             \* l -= 3L
    Assign(x, l),                                    \* x = l
    Assign(x, Call(Id("ctz"), <<Num(4)>>)) }         \* x = __builtin_ctz(4)

(* What makes x no index of a, and what takes it for one.                  *)
FarX ==
  { Assign(x, Unop("UN_MINUS", x)),                  \* x = -x
    Assign(x, Binop("MUL", Binop("SUB", x, Num(4)), Num(2))),   \* x = (x - 4) * 2
    Assign(x, CommaExpr(Unop("PRE_DEC", l), Add(x, Num(2)))),   \* x = (--l, x + 2)
    Assign(x, SizeofType(TypeName(StructRef("N"), Plain))),     \* x = sizeof(struct N)
    Assign(x, Binop("SUB", Call(Id("f"), <<Num(1)>>),
                    Call(Id("f"), <<Num(2)>>))),     \* x = f(1) - f(2)
    Assign(x, Dot(Call(Id("h"), <<s>>), "b")),       \* x = h(s).b
    Assign(x, Index(a, x)) }                         \* x = a[x]
ByX ==
  { Assign(x, Index(a, x)),                          \* x = a[x]
    Assign(Index(a, x), PostStep("POST_INC", Index(a, Num(0)))) }  \* a[x] = a[0]++

(* What makes i point out of a, and what moves along it.                   *)
FarI ==
  { Assign(i, AddrOf(Arrow(p, "b"))),                \* i = &p->b
    Assign(i, CastExpr(IntStar, p)) }                \* i = (int*) p
AlongI ==
  { Assign(i, Add(Num(1), i)),                       \* i = 1 + i
    CommaExpr(Assignment("ADD", i, Num(1)),
              Assignment("SUB", i, Num(1))),         \* i += 1, i -= 1
    Assign(Deref(Add(i, Num(1))), x) }               \* *(i + 1) = x

(* Arrays and pointers.                                                    *)
Pointers ==
  { Assignment("ADD", Index(a, Num(1)), x),          \* a[1] += x
    Assign(Deref(i), Add(x, Num(5))),                \* *i = x + 5
    Assign(i, a),                                    \* i = a
    Assign(p, Add(t, Num(1))),                       \* p = t + 1
    Assign(p, AddrOf(s)),                            \* p = &s
    Assign(p, CastExpr(TypeName(StructRef("P"), Star),
                       CastExpr(ULong, t))) }        \* p = (struct P*) (unsigned long) t

(* Structures.                                                             *)
Structures ==
  { Assign(Dot(s, "b"), x),                          \* s.b = x
    Assign(Dot(Dot(n, "in"), "a"), Dot(s, "b")),     \* n.in.a = s.b
    Assign(Dot(n, "c"), PostStep("POST_INC", Dot(Dot(n, "in"), "b"))),   \* n.c = n.in.b++
    Assign(Dot(n, "in"), s),                         \* n.in = s
    Assign(Deref(p), Dot(n, "in")),                  \* *p = n.in
    Assign(Arrow(p, "a"), x),                        \* p->a = x
    Assignment("ADD", Arrow(p, "b"), Num(2)),        \* p->b += 2
    Assign(Dot(Arrow(q, "in"), "b"), Num(4)),        \* q->in.b = 4
    Assign(Arrow(q, "in"), Deref(p)),                \* q->in = *p
    Assign(Index(t, Num(1)), s),                     \* t[1] = s
    Assign(Dot(Index(t, Num(1)), "a"), x),           \* t[1].a = x
    Assign(Dot(b, "n"), Add(Dot(b, "t"), x)),        \* b.n = b.t + x
    Assign(s, Compound(TypeName(StructRef("P"), Plain), <<Num(8)>>)) }   \* s = (struct P) { 8 }

(* Calls.                                                                  *)
Calls ==
  { Assign(x, Call(Id("f"), <<x>>)),                 \* x = f(x)
    Assign(Dot(s, "a"), Call(Id("fp"), <<Id("c")>>)),                    \* s.a = fp(c)
    Assign(s, Call(Id("h"), <<Deref(p)>>)) }         \* s = h( *p)

Sentences ==
  Scalars0 \cup FarX \cup ByX \cup FarI \cup AlongI \cup Pointers \cup Structures \cup Calls

(* Programs of which C leaves nothing undefined.                           *)
Bodies ==
  { Decls \o <<ExprStmt(pair[1]), ExprStmt(pair[2])>> :
      pair \in (Sentences \X Sentences) \ ((FarX \X ByX) \cup (FarI \X AlongI)) }

(* Declarations on their own.                                              *)
IntParam == <<Declared(INT, Plain, "v")>>
Directs ==
  LET Wrapped(ds) == {ArrayDecl(d, 2) : d \in ds} \cup {FuncDecl(d, IntParam) : d \in ds}
                       \cup {Nested(Declarator(k, d)) : k \in {1, 2}, d \in ds}
      one == Wrapped({TheName})
      two == Wrapped(one)
  IN  {TheName} \cup one \cup two \cup Wrapped(two)
SpecLists ==
  { Words(ws) : ws \in { <<"char">>, <<"unsigned", "char">>, <<"long", "int">>,
                         <<"unsigned">>, <<"long", "unsigned", "long">>, <<"double">> } }
    \cup { Named(TypeName(INT, Declarator(1, ArrayDecl(TheName, 2)))), StructRef("N") }

(* C has no arrays of functions, nor functions that return either.         *)
RECURSIVE Valid(_)
Valid(type) ==
  CASE type.k = "arr" -> type.child.k # "func" /\ Valid(type.child)
    [] type.k = "func" -> type.ret.k \notin {"arr", "func"} /\ Valid(type.ret)
    [] type.k = "ptr" -> Valid(type.child)
    [] OTHER -> TRUE
Shapes == {<<k, d>> \in {0, 1} \X Directs :
             Valid(IndirectType(Declarator(k, d), Typed(NewUnit(TRUE), I32)).type)}

Alone ==
  { << Declaration("global", StructDef("N", <<Declared(INT, Plain, "y")>>), Plain, "", NoInit),
       Declaration("global", spec, Declarator(shape[1], shape[2]), "z", NoInit) >> :
      spec \in SpecLists, shape \in Shapes }

Units == Bodies \cup Alone
=============================================================================
