------------------------------- MODULE CText -------------------------------
(***************************************************************************)
(* The text of a C program that has a given syntax tree, from the rules of  *)
(* the language and not from the grammar of the compiler: expressions are   *)
(* bracketed where the precedence of C (C99 6.5) needs it and nowhere else. *)
(* The text is a sequence of lexemes; each name has the role C gives it     *)
(* there: "typedef" where a typedef declares it, "type" where it names a    *)
(* type, "tag" after struct, union and enum, else "ident". The type named   *)
(* by a typedef is in the tree as what the typedef gave (NAMED). Where one  *)
(* tree has two spellings, n = 1 in the node asks for the second.           *)
(***************************************************************************)
EXTENDS SyntaxTree, SequencesExt

Word(k, s) == [k |-> k, s |-> s, q |-> <<>>, n |-> 0, role |-> ""]
Name(s, role) == << [Word("name", s) EXCEPT !.role = role] >>
Key(s) == Name(s, "key")
Sign(s) == << Word("punct", s) >>
In(open, text, close) == Sign(open) \o text \o Sign(close)

(* The texts of the elements of a sequence, with a separator between them.  *)
Joined(texts, separator) ==
  FlattenSeq([i \in DOMAIN texts |-> (IF i = 1 THEN <<>> ELSE separator) \o texts[i]])

-----------------------------------------------------------------------------
(* How C writes the tags of the nodes *)

Operator ==
  [ MUL |-> "*", DIV |-> "/", REM |-> "%", ADD |-> "+", SUB |-> "-", SHL |-> "<<", SHR |-> ">>",
    LT |-> "<", GT |-> ">", LE |-> "<=", GE |-> ">=", EQ |-> "==", NE |-> "!=",
    BIT_AND |-> "&", BIT_XOR |-> "^", BIT_OR |-> "|", LOG_AND |-> "&&", LOG_OR |-> "||" ]
AssignOperator ==
  [ DIRECT |-> "=", MUL |-> "*=", DIV |-> "/=", REM |-> "%=", ADD |-> "+=", SUB |-> "-=",
    SHL |-> "<<=", SHR |-> ">>=", AND |-> "&=", XOR |-> "^=", OR |-> "|=" ]
PrefixOperator ==
  [ PRE_INC |-> "++", PRE_DEC |-> "--", ADDR_OF |-> "&", DEREF |-> "*", UN_PLUS |-> "+",
    UN_MINUS |-> "-", UN_NEG |-> "~", UN_NOT |-> "!" ]
Keyword ==
  [ VOID |-> "void", CHAR |-> "char", SHORT |-> "short", INT |-> "int", LONG |-> "long",
    SIGNED |-> "signed", UNSIGNED |-> "unsigned", FLOAT |-> "float", DOUBLE |-> "double",
    CONST |-> "const", RESTRICT |-> "restrict", VOLATILE |-> "volatile", INLINE |-> "inline",
    EXT_PURE |-> "__pure", EXT_FCONST |-> "__fconst", EXT_WEAK |-> "__weak",
    TYPEDEF |-> "typedef", EXTERN |-> "extern", STATIC |-> "static", AUTO |-> "auto",
    REGISTER |-> "register", GOTO |-> "goto", CONTINUE |-> "continue", BREAK |-> "break",
    RETURN |-> "return" ]

(* The precedence of an expression, the tighter the higher.                 *)
Prec(t) ==
  CASE t.k = "Comma" -> 1 [] t.k = "Assignment" -> 2 [] t.k = "Ternary" -> 3
    [] t.k = "Binop" ->
         (CASE t.s = "LOG_OR" -> 4 [] t.s = "LOG_AND" -> 5 [] t.s = "BIT_OR" -> 6
            [] t.s = "BIT_XOR" -> 7 [] t.s = "BIT_AND" -> 8 [] t.s \in {"EQ", "NE"} -> 9
            [] t.s \in {"LT", "GT", "LE", "GE"} -> 10 [] t.s \in {"SHL", "SHR"} -> 11
            [] t.s \in {"ADD", "SUB"} -> 12 [] t.s \in {"MUL", "DIV", "REM"} -> 13)
    [] t.k = "Cast" -> 14 [] t.k = "Unop" -> 15 [] t.k = "Postfix" -> 16 [] OTHER -> 17

Marked(set, order) == FlattenSeq([i \in DOMAIN order |->
                         IF order[i] \in set THEN Key(Keyword[order[i]]) ELSE <<>>])
QualText(set) == Marked(set, <<"CONST", "RESTRICT", "VOLATILE">>)
FuncText(set) == Marked(set, <<"INLINE", "EXT_PURE", "EXT_FCONST">>)

RECURSIVE DeclaredIn(_)
(* The name a declarator declares.                                          *)
DeclaredIn(decl) ==
  CASE decl.k = "Declarator" -> DeclaredIn(decl.c[1])
    [] decl.s = "NAME" -> decl.c[1].s
    [] OTHER -> DeclaredIn(decl.c[1])

RECURSIVE TextOf(_, _)
(* The text of a node where as is wanted: for an expression the least       *)
(* precedence, for a declarator the role of the name it declares.           *)

LiteralText(lit) ==
  LET suffix == (IF "unsigned" \in lit.q THEN <<"u">> ELSE <<>>)
                \o (IF "long" \in lit.q THEN <<"l">> ELSE <<>>)
                \o (IF "long long" \in lit.q THEN <<"l", "l">> ELSE <<>>)
  IN  << CASE lit.s = "INTEGER" -> [Word("int", "") EXCEPT !.n = lit.n, !.q = suffix]
           [] lit.s = "FLOAT" -> [Word("float", "") EXCEPT !.n = lit.n,
                                    !.q = IF "float" \in lit.q THEN <<"f">> ELSE <<>>]
           [] lit.s = "CHARACTER" -> [Word("char", "") EXCEPT !.n = lit.n] >>

PrimaryText(t) ==
  CASE t.s = "IDENT" -> Name(t.c[1].s, "ident")
    [] t.s = "CONST" -> LiteralText(t.c[1])
    [] t.s = "STR" -> [i \in DOMAIN t.c[1].c |-> Word("string", t.c[1].c[i].s)]
    [] t.s = "EXPR" -> In("(", TextOf(t.c[1], 1), ")")
    [] t.s = "COMPOUND" -> In("(", TextOf(t.c[1], ""), ")") \o TextOf(t.c[2], "")

PostfixText(t) ==
  LET base == TextOf(t.c[1], 16) IN
  CASE t.s = "INDEXATION" -> base \o In("[", TextOf(t.c[2], 1), "]")
    [] t.s = "CALL" ->
         base \o In("(", Joined([i \in DOMAIN t.c[2].c |-> TextOf(t.c[2].c[i], 2)], Sign(",")), ")")
    [] t.s = "DIR_ACCESS" -> base \o Sign(".") \o Name(t.c[2].s, "ident")
    [] t.s = "PTR_ACCESS" -> base \o Sign("->") \o Name(t.c[2].s, "ident")
    [] t.s = "POST_INC" -> base \o Sign("++")
    [] t.s = "POST_DEC" -> base \o Sign("--")

UnopText(t) ==
  CASE t.s = "SIZEOF_OP" -> Key("sizeof") \o (IF t.c[1].k = "TypeName"
                                              THEN In("(", TextOf(t.c[1], ""), ")")
                                              ELSE TextOf(t.c[1], 15))
    [] t.s \in {"PRE_INC", "PRE_DEC"} -> Sign(PrefixOperator[t.s]) \o TextOf(t.c[1], 15)
    [] OTHER -> Sign(PrefixOperator[t.s]) \o TextOf(t.c[1], 14)

(* The text of an expression where one of precedence min may stand.         *)
ExprText(t, min) ==
  LET text ==
        CASE t.k = "Primary" -> PrimaryText(t)
          [] t.k = "Postfix" -> PostfixText(t)
          [] t.k = "Unop" -> UnopText(t)
          [] t.k = "Cast" -> In("(", TextOf(t.c[1], ""), ")") \o TextOf(t.c[2], 14)
          [] t.k = "Binop" -> TextOf(t.c[1], Prec(t)) \o Sign(Operator[t.s])
                              \o TextOf(t.c[2], Prec(t) + 1)
          [] t.k = "Ternary" -> TextOf(t.c[1], 4) \o Sign("?") \o TextOf(t.c[2], 1)
                                \o Sign(":") \o TextOf(t.c[3], 3)
          [] t.k = "Assignment" -> TextOf(t.c[1], 15) \o Sign(AssignOperator[t.s])
                                   \o TextOf(t.c[2], 2)
          [] t.k = "Comma" -> TextOf(t.c[1], 1) \o Sign(",") \o TextOf(t.c[2], 2)
  IN  IF Prec(t) < min THEN In("(", text, ")") ELSE text

OptExpr(t) == IF t = Null THEN <<>> ELSE TextOf(t, 1)

-----------------------------------------------------------------------------
(* Declarations *)

StructDeclaratorText(d) ==
  (IF d.c[1] = Null THEN <<>> ELSE TextOf(d.c[1], "ident"))
  \o (IF d.c[2] = Null THEN <<>> ELSE Sign(":") \o TextOf(d.c[2], 3))

Separate(list, text(_)) == Joined([i \in DOMAIN list.c |-> text(list.c[i])], Sign(","))

Tag(id) == IF id = Null THEN <<>> ELSE Name(id.s, "tag")

StructText(t) ==
  LET member(d) == TextOf(d.c[1], "") \o Separate(d.c[2], StructDeclaratorText) \o Sign(";")
  IN  Key(IF t.s = "STRUCT" THEN "struct" ELSE "union") \o Tag(t.c[1])
      \o (IF t.c[2] = Null THEN <<>>
          ELSE In("{", FlattenSeq([i \in DOMAIN t.c[2].c |-> member(t.c[2].c[i])]), "}"))

LastComma(t) == IF t.n = 1 THEN Sign(",") ELSE <<>>

EnumText(t) ==
  LET enumer(e) == Name(e.c[1].s, "ident")
                   \o (IF e.c[2] = Null THEN <<>> ELSE Sign("=") \o TextOf(e.c[2], 3))
  IN  Key("enum") \o (IF t.c[1] = Null THEN <<>> ELSE Name(t.c[1].s, "ident"))
      \o (IF t.c[2] = Null THEN <<>>
          ELSE In("{", Separate(t.c[2], enumer) \o LastComma(t.c[2]), "}"))

TypeSpecText(t) ==
  CASE t.s = "UNISTRUCT" -> StructText(t.c[1])
    [] t.s = "ENUM" -> EnumText(t.c[1])
    [] t.s = "NAMED" -> Name(DeclaredIn(t.c[1].c[2]), "type")
    [] OTHER -> Key(Keyword[t.s])

(* Specifiers: storage, qualifiers, and the types, which the tree has from  *)
(* the right. A second storage class is not C.                              *)
SpecText(t) ==
  (IF t.n = 1 THEN Name("register", "second") ELSE <<>>)
  \o (IF t.s = "" THEN <<>> ELSE Key(Keyword[t.s]))
  \o FuncText(t.q) \o QualText(t.q)
  \o FlattenSeq([i \in DOMAIN t.c |-> TypeSpecText(t.c[Len(t.c) + 1 - i])])

RECURSIVE PointerText(_)
PointerText(t) ==
  IF t = Null THEN <<>>
  ELSE Sign("*") \o (IF t.c[1] = Null THEN <<>> ELSE QualText(t.c[1].q)) \o PointerText(t.c[2])

ParamText(p) ==
  TextOf(p.c[1], "") \o (IF p.c[2] = Null THEN <<>> ELSE TextOf(p.c[2], "ident"))
ParamsText(t) ==
  IF t = Null THEN <<>>
  ELSE Separate(t.c[1], ParamText)
       \o (IF "ELLIPSIS" \in t.q THEN Sign(",") \o Sign("...") ELSE <<>>)

DeclaratorText(t, role) ==
  CASE t.k = "Declarator" -> PointerText(t.c[2]) \o TextOf(t.c[1], role)
    [] t.k = "AbstrDeclarator" ->
         PointerText(t.c[2]) \o (IF t.c[1] = Null THEN <<>> ELSE TextOf(t.c[1], role))
    [] t.s = "NAME" -> Name(t.c[1].s, role)
    [] t.s = "NESTED" -> In("(", TextOf(t.c[1], role), ")")
    [] t.s = "ARRAY" /\ t.k = "DirDecl" ->
         LET quals == IF t.c[2] = Null THEN <<>> ELSE QualText(t.c[2].q)
             static == IF "STATIC" \in t.q THEN Key("static") ELSE <<>>
             size == IF t.c[3] = Null THEN <<>> ELSE TextOf(t.c[3], 2)
         IN  TextOf(t.c[1], role)
             \o In("[", (IF t.n = 1 THEN quals \o static ELSE static \o quals) \o size, "]")
    [] t.s = "ARRAY" -> TextOf(t.c[1], role)
                        \o In("[", IF t.c[2] = Null THEN <<>> ELSE TextOf(t.c[2], 2), "]")
    [] t.s = "FUNC" -> TextOf(t.c[1], role) \o In("(", ParamsText(t.c[2]), ")")

TypeNameText(t) ==
  TextOf(t.c[1], "") \o (IF t.c[2] = Null THEN <<>> ELSE TextOf(t.c[2], ""))

InitializerText(t) == IF t.s = "direct" THEN TextOf(t.c[1], 2) ELSE TextOf(t.c[1], "")
InitText(t) ==
  LET at(d) == (IF d.s = "index" THEN In("[", TextOf(d.c[1], 3), "]")
                ELSE Sign(".") \o Name(d.c[1].s, "ident")) \o Sign("=")
      elem(e) == (IF e.c[2] = Null THEN <<>> ELSE at(e.c[2])) \o InitializerText(e.c[1])
  IN  In("{", Separate(t, elem) \o LastComma(t), "}")

DeclarationText(t) ==
  LET role == IF t.c[1].s = "TYPEDEF" THEN "typedef" ELSE "ident"
      one(d) == TextOf(d.c[1], role)
                \o (IF d.c[2] = Null THEN <<>> ELSE Sign("=") \o InitializerText(d.c[2]))
  IN  TextOf(t.c[1], "") \o (IF t.c[2] = Null THEN <<>> ELSE Separate(t.c[2], one)) \o Sign(";")

-----------------------------------------------------------------------------
(* Statements and units *)

LabelText(t) ==
  (CASE t.s = "SIMPL" -> Name(t.c[1].s, "ident")
     [] t.s = "SW_CASE" -> Key("case") \o TextOf(t.c[1], 3)
     [] t.s = "SW_DEFAULT" -> Key("default")) \o Sign(":") \o TextOf(t.c[2], "")

LoopText(t) ==
  CASE t.s = "WHILE_LOOP" ->
         Key("while") \o In("(", TextOf(t.c[2], 1), ")") \o TextOf(t.c[1], "")
    [] t.s = "DO_LOOP" ->
         Key("do") \o TextOf(t.c[1], "") \o Key("while") \o In("(", TextOf(t.c[2], 1), ")") \o Sign(";")
    [] t.s = "FOR_LOOP" ->
         Key("for") \o In("(", TextOf(t.c[2], "") \o TextOf(t.c[3], "") \o OptExpr(t.c[4]), ")")
         \o TextOf(t.c[1], "")

SelectionText(t) ==
  Key(t.s) \o In("(", TextOf(t.c[1], 1), ")") \o TextOf(t.c[2], "")
  \o (IF t.c[3] = Null THEN <<>> ELSE Key("else") \o TextOf(t.c[3], ""))

JumpText(t) ==
  Key(Keyword[t.s])
  \o (CASE t.s = "GOTO" -> Name(t.c[1].s, "ident") [] OTHER -> OptExpr(t.c[1])) \o Sign(";")

StmtText(t) ==
  CASE t.k = "Declaration" -> DeclarationText(t)
    [] t.k = "Label" -> LabelText(t)
    [] t.k = "Compound" ->
         In("{", FlattenSeq([i \in DOMAIN t.c[1].c |-> TextOf(t.c[1].c[i], "")]), "}")
    [] t.k = "ExprStmt" -> OptExpr(t.c[1]) \o Sign(";")
    [] t.k = "Selection" -> SelectionText(t)
    [] t.k = "Iter" -> LoopText(t)
    [] t.k = "Jump" -> JumpText(t)

TextOf(t, as) ==
  CASE t.k \in {"Primary", "Postfix", "Unop", "Cast", "Binop", "Ternary", "Assignment", "Comma"} ->
         ExprText(t, as)
    [] t.k \in {"Declarator", "DirDecl", "AbstrDeclarator", "DirAbstrDecl"} -> DeclaratorText(t, as)
    [] t.k \in {"DeclSpecs", "SpecsQuals"} -> SpecText(t)
    [] t.k = "TypeName" -> TypeNameText(t)
    [] t.k = "Inits" -> InitText(t)
    [] OTHER -> StmtText(t)

FunctionText(t) ==
  (IF t.n = 1 THEN Key("__attribute__") \o In("(", In("(", Name("noinline", "ident"), ")"), ")")
   ELSE <<>>)
  \o TextOf(t.c[1], "") \o TextOf(t.c[2], "ident") \o TextOf(t.c[3], "")

Text(unit) ==
  FlattenSeq([i \in DOMAIN unit.c |->
     IF unit.c[i].k = "FunctionDef" THEN FunctionText(unit.c[i]) ELSE TextOf(unit.c[i], "")])
=============================================================================
