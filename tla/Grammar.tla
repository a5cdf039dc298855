------------------------------- MODULE Grammar -------------------------------
(***************************************************************************)
(* The grammar of the compiler (src/parser/parser.y): its productions, in   *)
(* the order of the file, each with the name of its semantic action.        *)
(* Symbols are named as in parser.y.                                        *)
(***************************************************************************)
EXTENDS Naturals, Sequences

P(l, r, act) == [lhs |-> l, rhs |-> r, act |-> act]

(* Productions with one symbol on the right, whose value is passed on.      *)
Pass(l, symbols) == [i \in DOMAIN symbols |-> P(l, <<symbols[i]>>, "pass")]

(* A list that is begun by one element (first) and extended by append.      *)
List(l, elem, first) == << P(l, <<elem>>, first), P(l, <<l, elem>>, "append2") >>
(* Mutant of Separated: the separator is appended.                          *)
SeparatedOffByOne(l, elem, first) ==
  << P(l, <<elem>>, first), P(l, <<l, ",", elem>>, "append2") >>

Separated(l, elem, first) ==
  << P(l, <<elem>>, first), P(l, <<l, ",", elem>>, "append3") >>

-----------------------------------------------------------------------------
(* Expressions *)

PrimaryRules ==
  << P("primary_expr", <<"IDENTIFIER">>, "mkPrimIdent"),
     P("primary_expr", <<"CONSTANT">>, "mkPrimConst"),
     P("primary_expr", <<"strings_seq">>, "mkPrimStr"),
     P("primary_expr", <<"(", "expr", ")">>, "mkPrimExpr"),
     P("primary_expr", <<"(", "type_name", ")", "{", "init_lst", "}">>, "mkPrimCompound"),
     P("primary_expr", <<"(", "type_name", ")", "{", "init_lst", ",", "}">>, "mkPrimCompound") >>
  \o List("strings_seq", "STRING_LITERAL", "mkStringsSeq")

PostfixRules ==
  Pass("postfix_expr", <<"primary_expr">>) \o
  << P("postfix_expr", <<"postfix_expr", "[", "expr", "]">>, "mkPostfArr"),
     P("postfix_expr", <<"postfix_expr", "(", ")">>, "mkPostfCallNone"),
     P("postfix_expr", <<"postfix_expr", "(", "arg_expr_lst", ")">>, "mkPostfCall"),
     P("postfix_expr", <<"postfix_expr", ".", "IDENTIFIER">>, "mkPostfAccesor"),
     P("postfix_expr", <<"postfix_expr", "PTR_OP", "IDENTIFIER">>, "mkPostfAccesor"),
     P("postfix_expr", <<"postfix_expr", "INC_OP">>, "mkPostfIncdec"),
     P("postfix_expr", <<"postfix_expr", "DEC_OP">>, "mkPostfIncdec") >>
  \o Separated("arg_expr_lst", "assign_expr", "mkArgsLst")

UnaryRules ==
  Pass("unary_expr", <<"postfix_expr">>) \o
  << P("unary_expr", <<"INC_OP", "unary_expr">>, "mkUnop"),
     P("unary_expr", <<"DEC_OP", "unary_expr">>, "mkUnop"),
     P("unary_expr", <<"unary_operator", "cast_expr">>, "mkUnop"),
     P("unary_expr", <<"SIZEOF", "unary_expr">>, "mkUnop"),
     P("unary_expr", <<"SIZEOF", "(", "type_name", ")">>, "mkUnopType") >>
  \o Pass("unary_operator", <<"&", "*", "+", "-", "~", "!">>)
  \o Pass("cast_expr", <<"unary_expr">>)
  \o << P("cast_expr", <<"(", "type_name", ")", "cast_expr">>, "mkCastop") >>

(* Mutant of Level: the operators associate to the right.                   *)
LevelFromRight(this, tighter, ops) ==
  Pass(this, <<tighter>>)
  \o [i \in DOMAIN ops |-> P(this, <<tighter, ops[i], this>>, "mkBinop")]

(* A level of left-associative binary operators above the next tighter one. *)
Level(this, tighter, ops) ==
  Pass(this, <<tighter>>)
  \o [i \in DOMAIN ops |-> P(this, <<this, ops[i], tighter>>, "mkBinop")]

BinaryRules ==
  Level("mult_expr", "cast_expr", <<"*", "/", "%">>)
  \o Level("add_expr", "mult_expr", <<"+", "-">>)
  \o Level("shift_expr", "add_expr", <<"LEFT_OP", "RIGHT_OP">>)
  \o Level("rel_expr", "shift_expr", <<"<", ">", "LE_OP", "GE_OP">>)
  \o Level("eq_expr", "rel_expr", <<"EQ_OP", "NE_OP">>)
  \o Level("and_expr", "eq_expr", <<"&">>)
  \o Level("xor_expr", "and_expr", <<"^">>)
  \o Level("or_expr", "xor_expr", <<"|">>)
  \o Level("land_expr", "or_expr", <<"AND_OP">>)
  \o Level("lor_expr", "land_expr", <<"OR_OP">>)

AssignRules ==
  Pass("ternary_expr", <<"lor_expr">>)
  \o << P("ternary_expr", <<"lor_expr", "?", "expr", ":", "ternary_expr">>, "mkTernary") >>
  \o Pass("assign_expr", <<"ternary_expr">>)
  \o << P("assign_expr", <<"unary_expr", "assign_op", "assign_expr">>, "mkAssign") >>
  \o Pass("assign_op", <<"=", "MUL_ASSIGN", "DIV_ASSIGN", "MOD_ASSIGN", "ADD_ASSIGN",
                         "SUB_ASSIGN", "LEFT_ASSIGN", "RIGHT_ASSIGN", "AND_ASSIGN",
                         "XOR_ASSIGN", "OR_ASSIGN">>)
  \o Pass("expr", <<"assign_expr">>)
  \o << P("expr", <<"expr", ",", "assign_expr">>, "mkCommaExpr") >>
  \o Pass("const_expr", <<"ternary_expr">>)

-----------------------------------------------------------------------------
(* Specifiers *)

(* A specifier stands alone or before the specifiers already collected.     *)
Specifier(symbol, update) ==
  << P("decl_specs", <<symbol>>, update), P("decl_specs", <<symbol, "decl_specs">>, update) >>

SpecifierRules ==
  Specifier("storage_class_specifier", "update_storage")
  \o Specifier("type_specifier", "update_type_spec")
  \o Specifier("type_qual", "update_type_qual")
  \o Specifier("function_specifier", "update_func_qual")
  \o Pass("storage_class_specifier",
          <<"TYPEDEF", "EXTERN", "STATIC", "AUTO", "REGISTER", "EXT_WEAK">>)

TypeSpecifierRules ==
  LET Plain(t) == P("type_specifier", <<t>>, "mkTypeSpec") IN
  << Plain("VOID"), Plain("CHAR"), Plain("SHORT"), Plain("INT"), Plain("LONG"),
     Plain("FLOAT"), Plain("DOUBLE"), Plain("SIGNED"), Plain("UNSIGNED"),
     P("type_specifier", <<"ustruct_spec">>, "mkTypeSpecStruct"),
     P("type_specifier", <<"enum_specifier">>, "mkTypeSpecEnum"),
     P("type_specifier", <<"TYPE_NAME">>, "getDefinedType") >>
  \o Pass("type_qual", <<"CONST", "RESTRICT", "VOLATILE">>)
  \o Pass("function_specifier", <<"INLINE", "EXT_PURE", "EXT_FCONST">>)

StructRules ==
  << P("ustruct_spec", <<"ustruct", "general_ident", "{", "struct_decls_lst", "}">>, "mkUstructSpec"),
     P("ustruct_spec", <<"ustruct", "{", "struct_decls_lst", "}">>, "mkUstructNoname"),
     P("ustruct_spec", <<"ustruct", "general_ident">>, "mkUstructRef") >>
  \o Pass("general_ident", <<"IDENTIFIER", "TYPE_NAME">>)
  \o Pass("ustruct", <<"STRUCT", "UNION">>)
  \o List("struct_decls_lst", "struct_declaration", "mkStructDeclarationLst")
  \o << P("struct_declaration", <<"spec_qual_lst", "struct_declarator_list", ";">>, "mkStructDeclaration"),
        P("spec_qual_lst", <<"type_specifier", "spec_qual_lst">>, "append_spec"),
        P("spec_qual_lst", <<"type_specifier">>, "append_spec"),
        P("spec_qual_lst", <<"type_qual", "spec_qual_lst">>, "append_qual"),
        P("spec_qual_lst", <<"type_qual">>, "append_qual") >>
  \o Separated("struct_declarator_list", "struct_declarator", "mkStructDeclaratorLst")
  \o << P("struct_declarator", <<"declarator">>, "mkStructDeclarator"),
        P("struct_declarator", <<":", "const_expr">>, "mkStructPadding"),
        P("struct_declarator", <<"declarator", ":", "const_expr">>, "mkStructBits") >>

EnumRules ==
  << P("enum_specifier", <<"ENUM", "{", "enumerator_list", "}">>, "mkEnumNoname"),
     P("enum_specifier", <<"ENUM", "IDENTIFIER", "{", "enumerator_list", "}">>, "mkEnumSpec"),
     P("enum_specifier", <<"ENUM", "{", "enumerator_list", ",", "}">>, "mkEnumNoname"),
     P("enum_specifier", <<"ENUM", "IDENTIFIER", "{", "enumerator_list", ",", "}">>, "mkEnumSpec"),
     P("enum_specifier", <<"ENUM", "IDENTIFIER">>, "mkEnumRef") >>
  \o Separated("enumerator_list", "enumerator", "mkEnumLst")
  \o << P("enumerator", <<"IDENTIFIER">>, "mkEnumer"),
        P("enumerator", <<"IDENTIFIER", "=", "const_expr">>, "mkEnumerValue") >>

-----------------------------------------------------------------------------
(* Declarations *)

DeclarationRules ==
  << P("declaration", <<"decl_specs", ";">>, "parseDeclaration0"),
     P("declaration", <<"decl_specs", "init_decltor_list", ";">>, "parseDeclaration") >>
  \o Separated("init_decltor_list", "init_decltor", "mkInitDeclaratorLst")
  \o << P("init_decltor", <<"declarator">>, "mkInitDeclarator"),
        P("init_decltor", <<"declarator", "=", "initializer">>, "mkInitDeclaratorInit"),
        P("declarator", <<"pointer", "dir_decltor">>, "mkDeclaratorPtr"),
        P("declarator", <<"dir_decltor">>, "mkDeclarator"),
        P("pointer", <<"*">>, "mkPointer"),
        P("pointer", <<"*", "type_qual_lst">>, "mkPointerQual"),
        P("pointer", <<"*", "pointer">>, "mkPointerTo"),
        P("pointer", <<"*", "type_qual_lst", "pointer">>, "mkPointerQualTo") >>

DirDeclaratorRules ==
  << P("dir_decltor", <<"IDENTIFIER">>, "mkDirDeclIdent"),
     P("dir_decltor", <<"(", "declarator", ")">>, "mkDirDeclNested"),
     P("dir_decltor", <<"dir_decltor", "[", "type_qual_lst", "assign_expr", "]">>, "mkDirDeclArr34"),
     P("dir_decltor", <<"dir_decltor", "[", "STATIC", "type_qual_lst", "assign_expr", "]">>, "mkDirDeclArr45"),
     P("dir_decltor", <<"dir_decltor", "[", "type_qual_lst", "STATIC", "assign_expr", "]">>, "mkDirDeclArr35"),
     P("dir_decltor", <<"dir_decltor", "[", "type_qual_lst", "]">>, "mkDirDeclArr3"),
     P("dir_decltor", <<"dir_decltor", "[", "assign_expr", "]">>, "mkDirDeclArrSize"),
     P("dir_decltor", <<"dir_decltor", "[", "STATIC", "assign_expr", "]">>, "mkDirDeclArr4"),
     P("dir_decltor", <<"dir_decltor", "[", "]">>, "mkDirDeclArr"),
     P("dir_decltor", <<"dir_decltor", "(", "param_type_lst", ")">>, "mkDirDeclFunc"),
     P("dir_decltor", <<"dir_decltor", "(", ")">>, "mkDirDeclFunc0") >>

ParameterRules ==
  << P("type_qual_lst", <<"type_qual">>, "mkTypeQuals"),
     P("type_qual_lst", <<"type_qual_lst", "type_qual">>, "updateQuals"),
     P("param_type_lst", <<"param_lst">>, "mkParamTypeLst"),
     P("param_type_lst", <<"param_lst", ",", "ELLIPSIS">>, "mkParamTypeVar") >>
  \o Separated("param_lst", "parameter_declaration", "mkParamLst")
  \o << P("parameter_declaration", <<"decl_specs", "declarator">>, "mkParamDecl"),
        P("parameter_declaration", <<"decl_specs">>, "mkParamDecl0"),
        P("type_name", <<"spec_qual_lst">>, "mkTypeName0"),
        P("type_name", <<"spec_qual_lst", "abstr_decltor">>, "mkTypeName") >>

AbstractRules ==
  << P("abstr_decltor", <<"dir_abstr_decltor">>, "mkAbstrDeclarator"),
     P("abstr_decltor", <<"pointer", "dir_abstr_decltor">>, "mkAbstrDeclarator2"),
     P("abstr_decltor", <<"pointer">>, "mkAbstrPointer"),
     P("dir_abstr_decltor", <<"(", "abstr_decltor", ")">>, "mkDirAbstrNested"),
     P("dir_abstr_decltor", <<"dir_abstr_decltor", "[", "]">>, "mkDirAbstrArr0"),
     P("dir_abstr_decltor", <<"dir_abstr_decltor", "[", "assign_expr", "]">>, "mkDirAbstrArr"),
     P("dir_abstr_decltor", <<"dir_abstr_decltor", "(", ")">>, "mkDirAbstrFunc0"),
     P("dir_abstr_decltor", <<"dir_abstr_decltor", "(", "param_type_lst", ")">>, "mkDirAbstrFunc") >>

InitializerRules ==
  << P("initializer", <<"assign_expr">>, "mkInitializer"),
     P("initializer", <<"{", "init_lst", "}">>, "mkInitializerNest"),
     P("initializer", <<"{", "init_lst", ",", "}">>, "mkInitializerNest"),
     P("init_lst", <<"initializer">>, "mkInitializerLst"),
     P("init_lst", <<"designator", "=", "initializer">>, "mkInitializerLstAt"),
     P("init_lst", <<"init_lst", ",", "initializer">>, "initAppend"),
     P("init_lst", <<"init_lst", ",", "designator", "=", "initializer">>, "initAppendAt"),
     P("designator", <<"[", "const_expr", "]">>, "mkDesignatorIndex"),
     P("designator", <<".", "IDENTIFIER">>, "mkDesignatorField") >>

-----------------------------------------------------------------------------
(* Statements and the top level *)

StatementRules ==
  Pass("stmt", <<"label_stmt", "compound_stmt", "expr_stmt", "select_stmt", "loop_stmt",
                 "jmp_stmt">>)
  \o << P("label_stmt", <<"IDENTIFIER", ":", "stmt">>, "mkLabelStmt"),
        P("label_stmt", <<"CASE", "const_expr", ":", "stmt">>, "mkLabelCase"),
        P("label_stmt", <<"DEFAULT", ":", "stmt">>, "mkLabelDefault"),
        P("compound_stmt", <<"{", "}">>, "mkCompoundStmt0"),
        P("compound_stmt", <<"{", "block_items", "}">>, "mkCompoundStmt"),
        P("block_items", <<"declaration">>, "mkBlockItemLst"),
        P("block_items", <<"stmt">>, "mkBlockItemLst"),
        P("block_items", <<"block_items", "declaration">>, "append2"),
        P("block_items", <<"block_items", "stmt">>, "append2"),
        P("expr_stmt", <<";">>, "mkExprStmt0"),
        P("expr_stmt", <<"expr", ";">>, "mkExprStmt") >>

ControlRules ==
  << P("select_stmt", <<"IF", "(", "expr", ")", "stmt">>, "mkIfStmt"),
     P("select_stmt", <<"IF", "(", "expr", ")", "stmt", "ELSE", "stmt">>, "mkIfElseStmt"),
     P("select_stmt", <<"SWITCH", "(", "expr", ")", "stmt">>, "mkSwitchStmt"),
     P("loop_stmt", <<"WHILE", "(", "expr", ")", "stmt">>, "makeWhileStmt"),
     P("loop_stmt", <<"DO", "stmt", "WHILE", "(", "expr", ")", ";">>, "makeDoStmt"),
     P("loop_stmt", <<"FOR", "(", "expr_stmt", "expr_stmt", ")", "stmt">>, "makeForStmt"),
     P("loop_stmt", <<"FOR", "(", "expr_stmt", "expr_stmt", "expr", ")", "stmt">>, "makeForStmtAct"),
     P("loop_stmt", <<"FOR", "(", "declaration", "expr_stmt", ")", "stmt">>, "makeForStmt"),
     P("loop_stmt", <<"FOR", "(", "declaration", "expr_stmt", "expr", ")", "stmt">>, "makeForStmtAct"),
     P("jmp_stmt", <<"GOTO", "IDENTIFIER", ";">>, "mkJumpGoto"),
     P("jmp_stmt", <<"CONTINUE", ";">>, "mkJumpStmt"),
     P("jmp_stmt", <<"BREAK", ";">>, "mkJumpStmt"),
     P("jmp_stmt", <<"RETURN", ";">>, "mkJumpStmt"),
     P("jmp_stmt", <<"RETURN", "expr", ";">>, "mkJumpValue") >>

TopRules ==
  << P("trans_unit", <<"func_def">>, "mkTransUnit"),
     P("trans_unit", <<"declaration">>, "mkTransUnit"),
     P("trans_unit", <<"trans_unit", "func_def">>, "append2"),
     P("trans_unit", <<"trans_unit", "declaration">>, "append2"),
     P("func_def", <<"decl_specs", "declarator", "compound_stmt">>, "mkFunDef"),
     P("func_def", <<"attr", "func_def">>, "dropAttr"),
     P("attr", <<"ATTRIBUTE", "(", "(", "IDENTIFIER", ")", ")">>, "get_attribute") >>

(* All productions; their numbers are Bison's, whose first one is the goal. *)
Rules ==
  << P("$accept", <<"trans_unit", "YYEOF">>, "accept") >>
  \o PrimaryRules \o PostfixRules \o UnaryRules \o BinaryRules \o AssignRules
  \o SpecifierRules \o TypeSpecifierRules \o StructRules \o EnumRules
  \o DeclarationRules \o DirDeclaratorRules \o ParameterRules \o AbstractRules
  \o InitializerRules \o StatementRules \o ControlRules \o TopRules
=============================================================================
