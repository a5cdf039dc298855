----------------------------- MODULE TreeShape -----------------------------
(***************************************************************************)
(* The classes of the syntax tree (src/parser/ast.hpp): for every class the *)
(* tags and flags it can have and the classes of its children, and for every*)
(* nonterminal the class of its value (yylhs.value.emplace in yy_parser.cpp)*)
(***************************************************************************)
EXTENDS SyntaxTree

Opt(S) == S \cup {"null"}
(* The children of t are of the classes fields lists, in that order.        *)
Has(t, fields) ==
  Len(t.c) = Len(fields) /\ \A i \in DOMAIN fields : t.c[i].k \in fields[i]
All(t, S) == \A i \in DOMAIN t.c : t.c[i].k \in S
Some(t, S) == t.c # <<>> /\ All(t, S)

AnExpr == {"Primary", "Postfix", "Unop", "Cast", "Binop", "Ternary", "Assignment", "Comma"}
AStmt == {"Label", "Compound", "ExprStmt", "Selection", "Iter", "Jump"}

BinopTags == {"ADD", "SUB", "MUL", "DIV", "REM", "SHL", "SHR", "BIT_AND", "BIT_XOR", "BIT_OR",
              "LOG_AND", "LOG_OR", "LT", "GT", "LE", "GE", "EQ", "NE"}
AssignTags == {"DIRECT", "MUL", "DIV", "REM", "ADD", "SUB", "SHL", "SHR", "AND", "XOR", "OR"}
UnopTags == {"PRE_INC", "PRE_DEC", "ADDR_OF", "DEREF", "UN_PLUS", "UN_MINUS", "UN_NEG",
             "UN_NOT", "SIZEOF_OP"}

ExprFits(t) ==
  CASE t.k = "StringsSeq" -> Some(t, {"string"})
    [] t.k = "Primary" ->
         (CASE t.s = "IDENT" -> Has(t, <<{"ident"}>>)
            [] t.s = "EXPR" -> Has(t, <<AnExpr>>)
            [] t.s = "STR" -> Has(t, <<{"StringsSeq"}>>)
            [] t.s = "CONST" -> Has(t, <<{"literal"}>>)
            [] t.s = "COMPOUND" -> Has(t, <<{"TypeName"}, {"Inits"}>>))
    [] t.k = "Args" -> All(t, AnExpr)
    [] t.k = "Postfix" ->
         (CASE t.s = "INDEXATION" -> Has(t, <<AnExpr, AnExpr>>)
            [] t.s = "CALL" -> Has(t, <<AnExpr, {"Args"}>>)
            [] t.s \in {"DIR_ACCESS", "PTR_ACCESS"} -> Has(t, <<AnExpr, {"ident"}>>)
            [] t.s \in {"POST_INC", "POST_DEC"} -> Has(t, <<AnExpr>>))
    [] t.k = "Unop" ->
         /\ t.s \in UnopTags
         /\ Has(t, <<IF t.s = "SIZEOF_OP" THEN AnExpr \cup {"TypeName"} ELSE AnExpr>>)
    [] t.k = "Cast" -> Has(t, <<{"TypeName"}, AnExpr>>)
    [] t.k = "Binop" -> t.s \in BinopTags /\ Has(t, <<AnExpr, AnExpr>>)
    [] t.k = "Ternary" -> Has(t, <<AnExpr, AnExpr, AnExpr>>)
    [] t.k = "Assignment" -> t.s \in AssignTags /\ Has(t, <<AnExpr, AnExpr>>)
    [] t.k = "Comma" -> Has(t, <<AnExpr, AnExpr>>)

Quals == {"CONST", "RESTRICT", "VOLATILE"}
FuncQuals == {"INLINE", "EXT_PURE", "EXT_FCONST"}
Storages == {"", "EXTERN", "STATIC", "AUTO", "REGISTER", "TYPEDEF", "EXT_WEAK"}
PlainTypes == {"VOID", "CHAR", "SHORT", "INT", "LONG", "SIGNED", "UNSIGNED", "FLOAT", "DOUBLE"}

SpecFits(t) ==
  CASE t.k = "TypeQuals" -> t.q \subseteq Quals /\ t.c = <<>>
    [] t.k = "TypeSpec" ->
         (CASE t.s = "UNISTRUCT" -> Has(t, <<{"UStruct"}>>)
            [] t.s = "ENUM" -> Has(t, <<{"Enum"}>>)
            [] t.s = "NAMED" -> Has(t, <<{"TypeName"}>>)
            [] OTHER -> t.s \in PlainTypes /\ t.c = <<>>)
    [] t.k = "DeclSpecs" ->
         t.s \in Storages /\ t.q \subseteq Quals \cup FuncQuals /\ All(t, {"TypeSpec"})
    [] t.k = "SpecsQuals" -> t.q \subseteq Quals /\ All(t, {"TypeSpec"})
    [] t.k = "StructDeclarator" -> Has(t, <<Opt({"Declarator"}), Opt(AnExpr)>>)
    [] t.k = "StructDeclarators" -> Some(t, {"StructDeclarator"})
    [] t.k = "StructDecl" -> Has(t, <<{"SpecsQuals"}, {"StructDeclarators"}>>)
    [] t.k = "StructDecls" -> Some(t, {"StructDecl"})
    [] t.k = "UStruct" ->
         t.s \in {"STRUCT", "UNION"} /\ Has(t, <<Opt({"ident"}), Opt({"StructDecls"})>>)
    [] t.k = "Enumerator" -> Has(t, <<{"ident"}, Opt(AnExpr)>>)
    [] t.k = "Enumerators" -> Some(t, {"Enumerator"})
    [] t.k = "Enum" -> Has(t, <<Opt({"ident"}), Opt({"Enumerators"})>>)

DeclFits(t) ==
  CASE t.k = "InitDeclarator" -> Has(t, <<{"Declarator"}, Opt({"Initializer"})>>)
    [] t.k = "InitDeclarators" -> Some(t, {"InitDeclarator"})
    [] t.k = "Declaration" -> Has(t, <<{"DeclSpecs"}, Opt({"InitDeclarators"})>>)
    [] t.k = "DirDecl" ->
         (CASE t.s = "NAME" -> Has(t, <<{"ident"}>>)
            [] t.s = "NESTED" -> Has(t, <<{"Declarator"}>>)
            [] t.s = "ARRAY" -> Has(t, <<{"DirDecl"}, Opt({"TypeQuals"}), Opt(AnExpr)>>)
            [] t.s = "FUNC" -> Has(t, <<{"DirDecl"}, Opt({"ParamTypes"})>>))
    [] t.k = "Pointer" -> Has(t, <<Opt({"TypeQuals"}), Opt({"Pointer"})>>)
    [] t.k = "Declarator" -> Has(t, <<{"DirDecl"}, Opt({"Pointer"})>>)
    [] t.k = "ParamDecl" -> Has(t, <<{"DeclSpecs"}, Opt({"Declarator"})>>)
    [] t.k = "Params" -> Some(t, {"ParamDecl"})
    [] t.k = "ParamTypes" -> Has(t, <<{"Params"}>>)
    [] t.k = "TypeName" -> Has(t, <<{"SpecsQuals"}, Opt({"AbstrDeclarator", "Declarator"})>>)
    [] t.k = "DirAbstrDecl" ->
         (CASE t.s = "NESTED" -> Has(t, <<{"AbstrDeclarator"}>>)
            [] t.s = "ARRAY" -> Has(t, <<{"DirAbstrDecl"}, Opt(AnExpr)>>)
            [] t.s = "FUNC" -> Has(t, <<{"DirAbstrDecl"}, Opt({"ParamTypes"})>>))
    [] t.k = "AbstrDeclarator" -> Has(t, <<Opt({"DirAbstrDecl"}), Opt({"Pointer"})>>)

InitFits(t) ==
  CASE t.k = "Designator" -> Has(t, <<IF t.s = "index" THEN AnExpr ELSE {"ident"}>>)
    [] t.k = "InitElem" -> Has(t, <<{"Initializer"}, Opt({"Designator"})>>)
    [] t.k = "Inits" -> Some(t, {"InitElem"})
    [] t.k = "Initializer" -> Has(t, <<IF t.s = "compound" THEN {"Inits"} ELSE AnExpr>>)

StmtFits(t) ==
  CASE t.k = "Label" ->
         (CASE t.s = "SIMPL" -> Has(t, <<{"ident"}, AStmt>>)
            [] t.s = "SW_CASE" -> Has(t, <<AnExpr, AStmt>>)
            [] t.s = "SW_DEFAULT" -> Has(t, <<{"null"}, AStmt>>))
    [] t.k = "BlockItems" -> All(t, AStmt \cup {"Declaration"})
    [] t.k = "Compound" -> Has(t, <<{"BlockItems"}>>)
    [] t.k = "ExprStmt" -> Has(t, <<Opt(AnExpr)>>)
    [] t.k = "Selection" ->
         Has(t, <<AnExpr, AStmt, IF t.s = "switch" THEN {"null"} ELSE Opt(AStmt)>>)
    [] t.k = "Iter" ->
         IF t.s = "FOR_LOOP"
         THEN Has(t, <<AStmt, {"Declaration", "ExprStmt"}, {"ExprStmt"}, Opt(AnExpr)>>)
         ELSE t.s \in {"WHILE_LOOP", "DO_LOOP"} /\ Has(t, <<AStmt, AnExpr>>)
    [] t.k = "Jump" ->
         (CASE t.s = "GOTO" -> Has(t, <<{"ident"}>>)
            [] t.s = "RETURN" -> Has(t, <<Opt(AnExpr)>>)
            [] OTHER -> t.s \in {"BREAK", "CONTINUE"} /\ Has(t, <<{"null"}>>))

TopFits(t) ==
  CASE t.k = "FunctionDef" -> Has(t, <<{"DeclSpecs"}, {"Declarator"}, {"Compound"}>>)
    [] t.k = "Unit" -> Some(t, {"FunctionDef", "Declaration"})

(* The node is as its class says; its children are looked at by their class.*)
Fits(t) ==
  CASE t.k \in {"null", "ident", "token", "literal", "string", "Attribute"} -> t.c = <<>>
    [] t.k \in AnExpr \cup {"StringsSeq", "Args"} -> ExprFits(t)
    [] t.k \in {"TypeQuals", "TypeSpec", "DeclSpecs", "SpecsQuals", "StructDeclarator",
                "StructDeclarators", "StructDecl", "StructDecls", "UStruct", "Enumerator",
                "Enumerators", "Enum"} -> SpecFits(t)
    [] t.k \in {"InitDeclarator", "InitDeclarators", "Declaration", "DirDecl", "Pointer",
                "Declarator", "ParamDecl", "Params", "ParamTypes", "TypeName",
                "DirAbstrDecl", "AbstrDeclarator"} -> DeclFits(t)
    [] t.k \in {"Designator", "InitElem", "Inits", "Initializer"} -> InitFits(t)
    [] t.k \in AStmt \cup {"BlockItems"} -> StmtFits(t)
    [] t.k \in {"FunctionDef", "Unit"} -> TopFits(t)

(* The classes of the values of a symbol.                                   *)
ValueClass(symbol) ==
  CASE symbol \in {"primary_expr", "postfix_expr", "unary_expr", "cast_expr", "mult_expr",
                   "add_expr", "shift_expr", "rel_expr", "eq_expr", "and_expr", "xor_expr",
                   "or_expr", "land_expr", "lor_expr", "ternary_expr", "assign_expr", "expr",
                   "const_expr"} -> AnExpr
    [] symbol = "stmt" -> AStmt
    [] symbol = "abstr_decltor" -> {"AbstrDeclarator"}
    [] symbol = "arg_expr_lst" -> {"Args"}
    [] symbol = "attr" -> {"Attribute"}
    [] symbol = "block_items" -> {"BlockItems"}
    [] symbol = "compound_stmt" -> {"Compound"}
    [] symbol = "decl_specs" -> {"DeclSpecs"}
    [] symbol = "declaration" -> {"Declaration"}
    [] symbol = "declarator" -> {"Declarator"}
    [] symbol = "designator" -> {"Designator"}
    [] symbol = "dir_abstr_decltor" -> {"DirAbstrDecl"}
    [] symbol = "dir_decltor" -> {"DirDecl"}
    [] symbol = "enum_specifier" -> {"Enum"}
    [] symbol = "enumerator" -> {"Enumerator"}
    [] symbol = "enumerator_list" -> {"Enumerators"}
    [] symbol = "expr_stmt" -> {"ExprStmt"}
    [] symbol = "func_def" -> {"FunctionDef"}
    [] symbol = "init_decltor" -> {"InitDeclarator"}
    [] symbol = "init_decltor_list" -> {"InitDeclarators"}
    [] symbol = "initializer" -> {"Initializer"}
    [] symbol = "init_lst" -> {"Inits"}
    [] symbol = "loop_stmt" -> {"Iter"}
    [] symbol = "jmp_stmt" -> {"Jump"}
    [] symbol = "label_stmt" -> {"Label"}
    [] symbol = "CONSTANT" -> {"literal"}
    [] symbol = "parameter_declaration" -> {"ParamDecl"}
    [] symbol = "param_lst" -> {"Params"}
    [] symbol = "param_type_lst" -> {"ParamTypes"}
    [] symbol = "pointer" -> {"Pointer"}
    [] symbol = "select_stmt" -> {"Selection"}
    [] symbol = "spec_qual_lst" -> {"SpecsQuals"}
    [] symbol = "strings_seq" -> {"StringsSeq"}
    [] symbol = "struct_declaration" -> {"StructDecl"}
    [] symbol = "struct_decls_lst" -> {"StructDecls"}
    [] symbol = "struct_declarator" -> {"StructDeclarator"}
    [] symbol = "struct_declarator_list" -> {"StructDeclarators"}
    [] symbol = "trans_unit" -> {"Unit"}
    [] symbol = "type_name" -> {"TypeName"}
    [] symbol = "type_qual_lst" -> {"TypeQuals"}
    [] symbol = "type_specifier" -> {"TypeSpec"}
    [] symbol = "ustruct_spec" -> {"UStruct"}
    [] symbol \in {"IDENTIFIER", "TYPE_NAME", "general_ident"} -> {"ident"}
    [] symbol = "STRING_LITERAL" -> {"string"}
    [] OTHER -> {"token"}
=============================================================================
