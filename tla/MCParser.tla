------------------------------ MODULE MCParser ------------------------------
(***************************************************************************)
(* A small instance of Parser: every form of expression inside every other, *)
(* every statement inside every other that takes one, every form of         *)
(* declaration, and the ways a typedef can meet the names around it.        *)
(***************************************************************************)
EXTENDS Parser, CText

X(name) == mkPrimIdent(Ident(name))
Lit(val) == mkPrimConst(Literal("INTEGER", {}, val))
ListOf(k, elems) == Node(k, "", elems)

Specs(storage, quals, types) == Flagged("DeclSpecs", storage, quals, types)
SpecQuals(quals, types) == Flagged("SpecsQuals", "", quals, types)
INT == mkTypeSpec("INT")
IntSpecs == Specs("", {}, <<INT>>)
Direct(name) == mkDirDeclIdent(Ident(name))
Plainly(name) == mkDeclarator(Direct(name), Null)
Star == mkPointer(Null, Null)
Declares(specs, declarators) == mkDeclaration(specs, ListOf("InitDeclarators", declarators))
One(specs, declarator) == Declares(specs, << mkInitDeclarator(declarator, Null) >>)
IntName == mkTypeName(SpecQuals({}, <<INT>>), Null)
PtrName == mkTypeName(SpecQuals({"CONST"}, <<INT>>), mkAbstrDeclarator(Null, Star))

Body(items) == mkCompoundStmt(ListOf("BlockItems", items))
Function(name, items) ==
  mkFunDef(Specs("", {}, <<mkTypeSpec("VOID")>>), mkDeclarator(mkDirDeclFunc(Direct(name), Null), Null),
           Body(items))
Unit(items) == ListOf("Unit", items)

-----------------------------------------------------------------------------
(* Expressions *)

(* The forms of expression that have e as an operand, the others are names. *)
BinaryForms(e, ops) ==
  {mkBinop(op, e, X("b")) : op \in ops} \cup {mkBinop(op, X("b"), e) : op \in ops}
AssignForms(e, ops) ==
  {mkAssign(op, e, X("b")) : op \in ops} \cup {mkAssign(op, X("b"), e) : op \in ops}
UnaryForms(e, ops) == {mkUnop(op, e) : op \in ops} \cup {mkCastop(PtrName, e)}
OtherForms(e) ==
  { mkTernary(e, X("b"), X("c")), mkTernary(X("b"), e, X("c")), mkTernary(X("b"), X("c"), e),
    mkCommaExpr(e, X("b")), mkCommaExpr(X("b"), e),
    mkPostfArr(e, X("b")), mkPostfArr(X("b"), e), mkPostfIncdec(e, TRUE),
    mkPostfCall(e, Null), mkPostfCall(X("f"), ListOf("Args", <<e>>)),
    mkPostfCall(X("f"), ListOf("Args", <<X("b"), e>>)),
    mkPostfAccesor(e, Ident("m"), TRUE), mkPostfAccesor(e, Ident("m"), FALSE) }

Forms(e, binops, assignops, unops) ==
  BinaryForms(e, binops) \cup AssignForms(e, assignops) \cup UnaryForms(e, unops) \cup OtherForms(e)

(* One operator of each level of precedence.                                *)
Levels == {"MUL", "SUB", "SHL", "LT", "EQ", "BIT_AND", "BIT_XOR", "BIT_OR", "LOG_AND", "LOG_OR"}

Atoms ==
  { X("a"), Lit(1), mkPrimConst(Literal("INTEGER", {"unsigned", "long"}, 1)),
    mkPrimConst(Literal("FLOAT", {"float"}, 1)), mkPrimConst(Literal("FLOAT", {}, 1)),
    mkPrimConst(Literal("CHARACTER", {}, 1)), mkUnop("SIZEOF_OP", PtrName),
    mkPrimStr(ListOf("StringsSeq", <<Node("string", "u", <<>>), Node("string", "v", <<>>)>>)),
    mkPostfIncdec(X("a"), FALSE),
    mkPrimCompound(IntName, mkInitializerLst(mkInitializer("direct", Lit(1)), Null)),
    mkPrimCompound(IntName, [mkInitializerLst(mkInitializer("direct", Lit(1)), Null) EXCEPT !.n = 1]),
    mkPrimConst(Literal("INTEGER", {"long long"}, 1)) }

Expressions ==
  Atoms
  \cup Forms(X("a"), BinopTags, AssignTags, UnopTags)
  \cup UNION {Forms(e, Levels, {"DIRECT"}, {"SIZEOF_OP", "PRE_INC", "UN_MINUS"}) :
                e \in Forms(X("a"), Levels, {"MUL"}, {"SIZEOF_OP", "PRE_DEC", "UN_MINUS"})}

(* int x = e;                                                               *)
Initialized(e) ==
  Unit(<< Declares(IntSpecs, << mkInitDeclarator(Plainly("x"), mkInitializer("direct", e)) >>) >>)

ExpressionUnits == {Initialized(e) : e \in Expressions}

-----------------------------------------------------------------------------
(* Statements *)

Empty == mkExprStmt(Null)
Simple ==
  { Empty, mkExprStmt(X("a")), Body(<<>>), mkJumpStmt("GOTO", Ident("L")),
    mkJumpStmt("CONTINUE", Null), mkJumpStmt("BREAK", Null), mkJumpStmt("RETURN", Null),
    mkJumpStmt("RETURN", X("a")) }

(* Whether an else behind s would be read as one of s.                      *)
RECURSIVE Dangles(_)
Dangles(s) ==
  CASE s.k = "Label" -> Dangles(s.c[2])
    [] s.k = "Iter" /\ s.s # "DO_LOOP" -> Dangles(s.c[1])
    [] s.k = "Selection" -> (s.s = "if" /\ s.c[3] = Null) \/ Dangles(s.c[IF s.c[3] = Null THEN 2 ELSE 3])
    [] OTHER -> FALSE

StmtForms(s) ==
  { mkLabelStmt(Ident("L"), s, "SIMPL"), mkLabelStmt(Lit(1), s, "SW_CASE"),
    mkLabelStmt(Null, s, "SW_DEFAULT"), Body(<<s>>), Body(<<One(IntSpecs, Plainly("d")), s, Empty>>),
    mkIfStmt(X("a"), s, Null), mkIfStmt(X("a"), Empty, s), mkSwitchStmt(X("a"), s),
    makeWhileStmt(s, X("a"), FALSE), makeWhileStmt(s, X("a"), TRUE),
    makeForStmt(s, Empty, Empty, Null), makeForStmt(s, mkExprStmt(X("a")), mkExprStmt(X("b")), X("c")),
    makeForStmt(s, One(IntSpecs, Plainly("i")), Empty, Null),
    makeForStmt(s, One(IntSpecs, Plainly("i")), mkExprStmt(X("b")), X("c")) }
  \cup (IF Dangles(s) THEN {} ELSE {mkIfStmt(X("a"), s, Empty)})

AllForms(S) == UNION {StmtForms(s) : s \in S}
Statements == Simple \cup AllForms(Simple) \cup AllForms(AllForms(Simple))

StatementUnits == {Unit(<<Function("f", <<s>>)>>) : s \in Statements}

-----------------------------------------------------------------------------
(* Declarations *)

Quals1 == mkTypeQuals(Token("CONST"))
Quals2 == [Quals1 EXCEPT !.q = @ \cup {"VOLATILE"}]
Pointers == { Null, Star, mkPointer(Quals2, Null), mkPointer(Null, mkPointer(Quals1, Null)),
              mkPointer(Quals1, Star) }

Params(decls, flags) == mkParamTypeLst(ListOf("Params", decls), flags)
ParamLists ==
  { Null, Params(<<mkParamDecl(IntSpecs, Null)>>, {}),
    Params(<<mkParamDecl(Specs("REGISTER", {}, <<INT>>), Plainly("p")),
             mkParamDecl(IntSpecs, mkDeclarator(mkDirDeclArr(Direct("q"), Null, Null, {}), Star))>>, {}),
    Params(<<mkParamDecl(IntSpecs, Plainly("p"))>>, {"ELLIPSIS"}) }

ArrayForms(d) ==
  { mkDirDeclArr(d, Null, Null, {}), mkDirDeclArr(d, Null, Lit(2), {}),
    mkDirDeclArr(d, Null, Lit(2), {"STATIC"}), mkDirDeclArr(d, Quals1, Null, {}),
    mkDirDeclArr(d, Quals1, mkAssign("ADD", X("a"), Lit(1)), {}),
    mkDirDeclArr(d, Quals2, Lit(2), {"STATIC"}),
    [mkDirDeclArr(d, Quals2, Lit(2), {"STATIC"}) EXCEPT !.n = 1] }
DirForms(d) ==
  ArrayForms(d) \cup {mkDirDeclFunc(d, params) : params \in ParamLists}
  \cup {mkDirDeclNested(mkDeclarator(d, ptr)) : ptr \in Pointers}

Directs == {Direct("x")} \cup DirForms(Direct("x")) \cup UNION {DirForms(d) : d \in DirForms(Direct("x"))}
Declarators == {mkDeclarator(d, ptr) : d \in Directs, ptr \in {Null, Star}}

AbstractNested == {mkDirAbstrDeclNested(mkAbstrDeclarator(Null, ptr)) : ptr \in Pointers \ {Null}}
AbstractForms(d) ==
  {mkDirAbstrDeclArr(d, size) : size \in {Null, Lit(2)}}
  \cup {mkDirAbstrDeclFunc(d, params) : params \in ParamLists}
  \cup {mkDirAbstrDeclNested(mkAbstrDeclarator(d, ptr)) : ptr \in {Null, Star}}
Abstracts == AbstractNested \cup UNION {AbstractForms(d) : d \in AbstractNested}
             \cup UNION {AbstractForms(d) : d \in AbstractForms(mkDirAbstrDeclNested(mkAbstrDeclarator(Null, Star)))}
TypeNames ==
  {mkTypeName(SpecQuals(q, <<t>>), Null) : q \in {{}, {"CONST"}}, t \in {INT, mkTypeSpec("DOUBLE")}}
  \cup {mkTypeName(SpecQuals({}, <<INT>>), mkAbstrDeclarator(d, ptr)) :
           d \in Abstracts, ptr \in {Null, Star}}

DeclaratorUnits ==
  {Unit(<<One(IntSpecs, d)>>) : d \in Declarators}
  \cup {Initialized(mkUnop("SIZEOF_OP", t)) : t \in TypeNames}

Member(specs, declarators) == mkStructDeclaration(specs, ListOf("StructDeclarators", declarators))
Fields ==
  << Member(SpecQuals({}, <<INT>>), <<mkStructDeclarator(Plainly("m"), Null),
                                     mkStructDeclarator(mkDeclarator(Direct("n"), Star), Null)>>),
     Member(SpecQuals({"CONST"}, <<mkTypeSpec("CHAR"), mkTypeSpec("UNSIGNED")>>),
            <<mkStructDeclarator(Plainly("b"), Lit(1)), mkStructDeclarator(Null, Lit(0))>>) >>
Aggregates(kind) ==
  { mkUstructSpec(Token(kind), Ident("S"), Null),
    mkUstructSpec(Token(kind), Null, ListOf("StructDecls", <<Fields[1]>>)),
    mkUstructSpec(Token(kind), Ident("S"), ListOf("StructDecls", Fields)) }
Enumers == << mkEnumer(Ident("A"), Null), mkEnumer(Ident("B"), mkBinop("SHL", Lit(1), Lit(2))) >>
Enums ==
  { mkEnumSpec(Ident("E"), Null) }
  \cup {mkEnumSpec(name, [ListOf("Enumerators", enumers) EXCEPT !.n = last]) :
           name \in {Null, Ident("E")}, enumers \in {Enumers, Tail(Enumers)}, last \in 0 .. 1}
Types ==
  {mkTypeSpec(t) : t \in PlainTypes}
  \cup {mkTypeSpecOf("UNISTRUCT", s) : s \in Aggregates("STRUCT") \cup Aggregates("UNION")}
  \cup {mkTypeSpecOf("ENUM", e) : e \in Enums}
SpecLists ==
  {Specs("", {}, <<t>>) : t \in Types}
  \cup {Specs("", {}, <<t, INT>>) : t \in Types}
  \cup {Specs(storage, quals, <<INT, mkTypeSpec("LONG"), mkTypeSpec("LONG")>>) :
           storage \in Storages \ {"TYPEDEF"},
           quals \in {{}, {"CONST", "RESTRICT"}, {"VOLATILE", "INLINE"}, FuncQuals}}
  \cup {[Specs(storage, {}, <<INT>>) EXCEPT !.n = 1] : storage \in {"STATIC", "", "TYPEDEF"}}

Direct0(e) == mkInitializer("direct", e)
Designators == {Null, mkDesignator("index", Lit(1)), mkDesignator("field", Ident("m"))}
Nest(elems, last) == mkInitializer("compound", [ListOf("Inits", elems) EXCEPT !.n = last])
Initializers ==
  LET flat == {Nest(<<Elem(Direct0(Lit(1)), d)>>, last) : d \in Designators, last \in 0 .. 1} IN
  flat \cup {Nest(<<Elem(i, d), Elem(Direct0(X("a")), e)>>, 0) :
               i \in flat, d \in Designators, e \in Designators}

SpecifierUnits ==
  {Unit(<<mkDeclaration(specs, Null)>>) : specs \in SpecLists}
  \cup {Unit(<<One(specs, mkDeclarator(Direct("x"), Star))>>) : specs \in SpecLists}
  \cup {Unit(<<Declares(IntSpecs, <<mkInitDeclarator(Plainly("x"), i), mkInitDeclarator(Plainly("y"), Null)>>)>>) :
           i \in Initializers}
  \cup {Unit(<<[Function("f", <<>>) EXCEPT !.n = 1], One(IntSpecs, Plainly("x"))>>)}

-----------------------------------------------------------------------------
(* Typedefs: every pair of these items, and every three that a typedef      *)
(* begins.                                                                  *)

Alias(types, declarator) == mkTypeSpecOf("NAMED", mkTypeName(SpecQuals({}, types), declarator))
T == Alias(<<INT>>, Plainly("T"))
U == Alias(<<T>>, mkDeclarator(mkDirDeclArr(Direct("U"), Null, Lit(2), {}), Star))
Typedef(types, declarators) ==
  Declares(Specs("TYPEDEF", {}, types), [i \in DOMAIN declarators |-> mkInitDeclarator(declarators[i], Null)])
OfType(type, declarator) == One(Specs("", {}, <<type>>), declarator)
TName == mkTypeName(SpecQuals({}, <<T>>), Null)
Does(e) == Function("f", <<mkExprStmt(e)>>)

Typedefs ==
  { Typedef(<<INT>>, <<Plainly("T")>>),
    Typedef(<<T>>, <<mkDeclarator(mkDirDeclArr(Direct("U"), Null, Lit(2), {}), Star)>>),
    Typedef(<<INT>>, <<Plainly("T"), mkDeclarator(mkDirDeclFunc(mkDirDeclNested(mkDeclarator(Direct("V"), Star)),
                                                    Params(<<mkParamDecl(Specs("", {}, <<T>>), Null)>>, {})), Null)>>),
    Function("g", <<Typedef(<<INT>>, <<Plainly("T")>>), OfType(T, Plainly("x"))>>) }

Items == Typedefs \cup
  { OfType(T, Plainly("x")), OfType(U, mkDeclarator(Direct("x"), Star)),
    One(IntSpecs, Plainly("T")),
    One(Specs("", {}, <<mkTypeSpecOf("UNISTRUCT", mkUstructSpec(Token("STRUCT"), Ident("T"), Null))>>), Plainly("x")),
    OfType(mkTypeSpecOf("UNISTRUCT", mkUstructSpec(Token("UNION"), Null, ListOf("StructDecls",
              << Member(SpecQuals({}, <<T>>), <<mkStructDeclarator(Plainly("m"), Null)>>) >>))), Plainly("x")),
    Function("g", <<OfType(T, mkDeclarator(Direct("a"), Star))>>),
    Does(mkBinop("MUL", X("T"), X("a"))),
    Does(mkCastop(TName, mkUnop("UN_MINUS", X("a")))),
    Does(mkBinop("SUB", mkPrimExpr(X("T")), X("a"))),
    Does(mkUnop("SIZEOF_OP", TName)), Does(mkUnop("SIZEOF_OP", mkPrimExpr(X("T")))),
    Function("g", <<OfType(T, mkDeclarator(mkDirDeclNested(Plainly("a")), Null))>>),
    Does(mkPostfCall(X("T"), ListOf("Args", <<X("a")>>))) }

TypedefUnits ==
  {Unit(<<i>>) : i \in Items} \cup {Unit(<<i, j>>) : i, j \in Items}
  \cup {Unit(<<t, i, j>>) : t \in Typedefs, i, j \in Items}

Written(units) == {[text |-> Text(u), tree |-> u] : u \in units}
Units == Written(ExpressionUnits \cup StatementUnits \cup DeclaratorUnits \cup SpecifierUnits \cup TypedefUnits)
=============================================================================
