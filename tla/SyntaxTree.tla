---------------------------- MODULE SyntaxTree ----------------------------
(***************************************************************************)
(* The syntax tree (src/parser/ast.hpp, ast.cpp) and the semantic actions   *)
(* that build it (the switch of yy_parser.cpp, generated from parser.y).    *)
(* A node has the class k, the tag s of the class (its enum, or a name), a  *)
(* set q of flags, a number n and the children c in the order of the fields *)
(* of the class. A pointer that is nullptr is the node Null. The value of a *)
(* token is a node too: a name, a literal, or the token itself.             *)
(***************************************************************************)
EXTENDS Naturals, Sequences

Node(k, s, c) == [k |-> k, s |-> s, q |-> {}, n |-> 0, c |-> c]
Flagged(k, s, q, c) == [k |-> k, s |-> s, q |-> q, n |-> 0, c |-> c]
Null == Node("null", "", <<>>)
Ident(name) == Node("ident", name, <<>>)
Token(kind) == Node("token", kind, <<>>)

append(list, elem) == [list EXCEPT !.c = Append(@, elem)]

-----------------------------------------------------------------------------
(* Expressions *)

mkPrimIdent(id) == Node("Primary", "IDENT", <<id>>)
mkPrimExpr(expr) == Node("Primary", "EXPR", <<expr>>)
mkPrimStr(str) == Node("Primary", "STR", <<str>>)
mkPrimConst(val) == Node("Primary", "CONST", <<val>>)
mkPrimCompound(compType, init_lst) == Node("Primary", "COMPOUND", <<compType, init_lst>>)
mkStringsSeq == Node("StringsSeq", "", <<>>)

mkPostfArr(base, size) == Node("Postfix", "INDEXATION", <<base, size>>)
mkArgsLst == Node("Args", "", <<>>)
mkPostfCall(base, args) ==
  Node("Postfix", "CALL", <<base, IF args # Null THEN args ELSE mkArgsLst>>)
mkPostfAccesor(base, member, is_ptr) ==
  Node("Postfix", IF is_ptr THEN "PTR_ACCESS" ELSE "DIR_ACCESS", <<base, member>>)
mkPostfIncdec(base, is_dec) ==
  Node("Postfix", IF is_dec THEN "POST_DEC" ELSE "POST_INC", <<base>>)

mkUnop(op, child) == Node("Unop", op, <<child>>)
mkCastop(type, child) == Node("Cast", "", <<type, child>>)
mkBinop(op, lhs, rhs) == Node("Binop", op, <<lhs, rhs>>)
mkTernary(cond, vt, vf) == Node("Ternary", "", <<cond, vt, vf>>)
mkAssign(op, lhs, rhs) == Node("Assignment", op, <<lhs, rhs>>)
mkCommaExpr(expr1, expr2) == Node("Comma", "", <<expr1, expr2>>)

PrimaryAction(act, v) ==
  CASE act = "pass" -> v[1]
    [] act = "mkPrimIdent" -> mkPrimIdent(v[1])
    [] act = "mkPrimConst" -> mkPrimConst(v[1])
    [] act = "mkPrimStr" -> mkPrimStr(v[1])
    [] act = "mkPrimExpr" -> mkPrimExpr(v[2])
    [] act = "mkPrimCompound" -> mkPrimCompound(v[2], v[5])
    [] act = "mkStringsSeq" -> append(mkStringsSeq, v[1])
    [] act = "mkPostfArr" -> mkPostfArr(v[1], v[3])
    [] act = "mkPostfCallNone" -> mkPostfCall(v[1], Null)
    [] act = "mkPostfCall" -> mkPostfCall(v[1], v[3])
    [] act = "mkPostfAccesor" -> mkPostfAccesor(v[1], v[3], v[2].s = "PTR_OP")
    [] act = "mkPostfIncdec" -> mkPostfIncdec(v[1], v[2].s = "DEC_OP")
    [] act = "mkArgsLst" -> append(mkArgsLst, v[1])
    [] act = "append2" -> append(v[1], v[2])
    [] act = "append3" -> append(v[1], v[3])

UnopOf(t) ==
  CASE t = "INC_OP" -> "PRE_INC" [] t = "DEC_OP" -> "PRE_DEC" [] t = "SIZEOF" -> "SIZEOF_OP"
    [] t = "&" -> "ADDR_OF" [] t = "*" -> "DEREF" [] t = "+" -> "UN_PLUS"
    [] t = "-" -> "UN_MINUS" [] t = "~" -> "UN_NEG" [] t = "!" -> "UN_NOT"

UnaryAction(act, v) ==
  CASE act = "pass" -> v[1]
    [] act = "mkUnop" -> mkUnop(UnopOf(v[1].s), v[2])
    [] act = "mkUnopType" -> mkUnop(UnopOf(v[1].s), v[3])
    [] act = "mkCastop" -> mkCastop(v[2], v[4])

BinopOf(t) ==
  CASE t = "*" -> "MUL" [] t = "/" -> "DIV" [] t = "%" -> "REM" [] t = "+" -> "ADD"
    [] t = "-" -> "SUB" [] t = "LEFT_OP" -> "SHL" [] t = "RIGHT_OP" -> "SHR"
    [] t = "<" -> "LT" [] t = ">" -> "GT" [] t = "LE_OP" -> "LE" [] t = "GE_OP" -> "GE"
    [] t = "EQ_OP" -> "EQ" [] t = "NE_OP" -> "NE" [] t = "&" -> "BIT_AND"
    [] t = "^" -> "BIT_XOR" [] t = "|" -> "BIT_OR" [] t = "AND_OP" -> "LOG_AND"
    [] t = "OR_OP" -> "LOG_OR"

BinaryAction(act, v) ==
  CASE act = "pass" -> v[1]
    [] act = "mkBinop" -> mkBinop(BinopOf(v[2].s), v[1], v[3])

AssignOf(t) ==
  CASE t = "=" -> "DIRECT" [] t = "MUL_ASSIGN" -> "MUL" [] t = "DIV_ASSIGN" -> "DIV"
    [] t = "MOD_ASSIGN" -> "REM" [] t = "ADD_ASSIGN" -> "ADD" [] t = "SUB_ASSIGN" -> "SUB"
    [] t = "LEFT_ASSIGN" -> "SHL" [] t = "RIGHT_ASSIGN" -> "SHR" [] t = "AND_ASSIGN" -> "AND"
    [] t = "XOR_ASSIGN" -> "XOR" [] t = "OR_ASSIGN" -> "OR"

AssignAction(act, v) ==
  CASE act = "pass" -> v[1]
    [] act = "mkTernary" -> mkTernary(v[1], v[3], v[5])
    [] act = "mkAssign" -> mkAssign(AssignOf(v[2].s), v[1], v[3])
    [] act = "mkCommaExpr" -> mkCommaExpr(v[1], v[3])

-----------------------------------------------------------------------------
(* Specifiers. The type specifiers of a list are collected from the right,  *)
(* so they stand in reverse order. The flags of a list are its qualifiers.  *)

mkDeclSpecs == Node("DeclSpecs", "", <<>>)
HasStorage(specs) == specs.s # ""
update_storage(specs, val) == [specs EXCEPT !.s = val.s]
update_type_spec(specs, val) == append(specs, val)
update_type_qual(specs, val) == [specs EXCEPT !.q = @ \cup {val.s}]
update_func_qual(specs, val) == [specs EXCEPT !.q = @ \cup {val.s}]

(* A second storage class is an error (std::logic_error).                   *)
Throws(act, v) == act = "update_storage" /\ Len(v) = 2 /\ HasStorage(v[2])

SpecifierAction(act, v) ==
  LET specs == IF Len(v) = 1 THEN mkDeclSpecs ELSE v[2] IN
  CASE act = "pass" -> v[1]
    [] act = "update_storage" -> update_storage(specs, v[1])
    [] act = "update_type_spec" -> update_type_spec(specs, v[1])
    [] act = "update_type_qual" -> update_type_qual(specs, v[1])
    [] act = "update_func_qual" -> update_func_qual(specs, v[1])

mkTypeSpec(type) == Node("TypeSpec", type, <<>>)
mkTypeSpecOf(type, spec) == Node("TypeSpec", type, <<spec>>)

(* A type name stands for what its typedef gave it (CoreDriver).            *)
TypeSpecAction(act, v, typesAliases) ==
  CASE act = "pass" -> v[1]
    [] act = "mkTypeSpec" -> mkTypeSpec(v[1].s)
    [] act = "mkTypeSpecStruct" -> mkTypeSpecOf("UNISTRUCT", v[1])
    [] act = "mkTypeSpecEnum" -> mkTypeSpecOf("ENUM", v[1])
    [] act = "getDefinedType" -> typesAliases[v[1].s]

mkSpecQualLst == Node("SpecsQuals", "", <<>>)
append_spec(list, type) == append(list, type)
append_qual(list, qual) == [list EXCEPT !.q = @ \cup {qual.s}]
mkUstructSpec(kind, name, body) == Node("UStruct", kind.s, <<name, body>>)
mkStructDeclaration(type, child) == Node("StructDecl", "", <<type, child>>)
mkStructDeclarator(decl, width) == Node("StructDeclarator", "", <<decl, width>>)

StructAction(act, v) ==
  LET list == IF Len(v) = 1 THEN mkSpecQualLst ELSE v[2] IN
  CASE act = "pass" -> v[1]
    [] act = "mkUstructSpec" -> mkUstructSpec(v[1], v[2], v[4])
    [] act = "mkUstructNoname" -> mkUstructSpec(v[1], Null, v[3])
    [] act = "mkUstructRef" -> mkUstructSpec(v[1], v[2], Null)
    [] act = "mkStructDeclarationLst" -> Node("StructDecls", "", <<v[1]>>)
    [] act = "mkStructDeclaration" -> mkStructDeclaration(v[1], v[2])
    [] act = "append_spec" -> append_spec(list, v[1])
    [] act = "append_qual" -> append_qual(list, v[1])
    [] act = "mkStructDeclaratorLst" -> Node("StructDeclarators", "", <<v[1]>>)
    [] act = "mkStructDeclarator" -> mkStructDeclarator(v[1], Null)
    [] act = "mkStructPadding" -> mkStructDeclarator(Null, v[2])
    [] act = "mkStructBits" -> mkStructDeclarator(v[1], v[3])
    [] act = "append2" -> append(v[1], v[2])
    [] act = "append3" -> append(v[1], v[3])

mkEnumSpec(name, body) == Node("Enum", "", <<name, body>>)
mkEnumer(name, val) == Node("Enumerator", "", <<name, val>>)

EnumAction(act, v) ==
  CASE act = "mkEnumNoname" -> mkEnumSpec(Null, v[3])
    [] act = "mkEnumSpec" -> mkEnumSpec(v[2], v[4])
    [] act = "mkEnumRef" -> mkEnumSpec(v[2], Null)
    [] act = "mkEnumLst" -> Node("Enumerators", "", <<v[1]>>)
    [] act = "append3" -> append(v[1], v[3])
    [] act = "mkEnumer" -> mkEnumer(v[1], Null)
    [] act = "mkEnumerValue" -> mkEnumer(v[1], v[3])

-----------------------------------------------------------------------------
(* Declarations *)

mkDeclaration(spec, child) == Node("Declaration", "", <<spec, child>>)
mkInitDeclarator(decl, init) == Node("InitDeclarator", "", <<decl, init>>)
mkDeclarator(decl, ptr) == Node("Declarator", "", <<decl, ptr>>)
mkPointer(qual, child) == Node("Pointer", "", <<qual, child>>)

DeclarationAction(act, v) ==
  CASE act = "parseDeclaration0" -> mkDeclaration(v[1], Null)
    [] act = "parseDeclaration" -> mkDeclaration(v[1], v[2])
    [] act = "mkInitDeclaratorLst" -> Node("InitDeclarators", "", <<v[1]>>)
    [] act = "append3" -> append(v[1], v[3])
    [] act = "mkInitDeclarator" -> mkInitDeclarator(v[1], Null)
    [] act = "mkInitDeclaratorInit" -> mkInitDeclarator(v[1], v[3])
    [] act = "mkDeclaratorPtr" -> mkDeclarator(v[2], v[1])
    [] act = "mkDeclarator" -> mkDeclarator(v[1], Null)
    [] act = "mkPointer" -> mkPointer(Null, Null)
    [] act = "mkPointerQual" -> mkPointer(v[2], Null)
    [] act = "mkPointerTo" -> mkPointer(Null, v[2])
    [] act = "mkPointerQualTo" -> mkPointer(v[2], v[3])

mkDirDeclIdent(id) == Node("DirDecl", "NAME", <<id>>)
mkDirDeclNested(decl) == Node("DirDecl", "NESTED", <<decl>>)
mkDirDeclArr(base, qual, sz, flags) == Flagged("DirDecl", "ARRAY", flags, <<base, qual, sz>>)
mkDirDeclFunc(base, args) == Node("DirDecl", "FUNC", <<base, args>>)

DirDeclaratorAction(act, v) ==
  CASE act = "mkDirDeclIdent" -> mkDirDeclIdent(v[1])
    [] act = "mkDirDeclNested" -> mkDirDeclNested(v[2])
    [] act = "mkDirDeclArr34" -> mkDirDeclArr(v[1], v[3], v[4], {})
    [] act = "mkDirDeclArr45" -> mkDirDeclArr(v[1], v[4], v[5], {"STATIC"})
    [] act = "mkDirDeclArr35" -> mkDirDeclArr(v[1], v[3], v[5], {"STATIC"})
    [] act = "mkDirDeclArr3" -> mkDirDeclArr(v[1], v[3], Null, {})
    [] act = "mkDirDeclArrSize" -> mkDirDeclArr(v[1], Null, v[3], {})
    [] act = "mkDirDeclArr4" -> mkDirDeclArr(v[1], Null, v[4], {"STATIC"})
    [] act = "mkDirDeclArr" -> mkDirDeclArr(v[1], Null, Null, {})
    [] act = "mkDirDeclFunc" -> mkDirDeclFunc(v[1], v[3])
    [] act = "mkDirDeclFunc0" -> mkDirDeclFunc(v[1], Null)

mkTypeQuals(init_qual) == Flagged("TypeQuals", "", {init_qual.s}, <<>>)
mkParamTypeLst(child, flags) == Flagged("ParamTypes", "", flags, <<child>>)
mkParamDecl(spec, child) == Node("ParamDecl", "", <<spec, child>>)
mkTypeName(qual, decl) == Node("TypeName", "", <<qual, decl>>)
mkAbstrDeclarator(decl, pointer) == Node("AbstrDeclarator", "", <<decl, pointer>>)
mkDirAbstrDeclNested(decl) == Node("DirAbstrDecl", "NESTED", <<decl>>)
mkDirAbstrDeclArr(base, sz) == Node("DirAbstrDecl", "ARRAY", <<base, sz>>)
mkDirAbstrDeclFunc(base, args) == Node("DirAbstrDecl", "FUNC", <<base, args>>)

ParameterAction(act, v) ==
  CASE act = "mkTypeQuals" -> mkTypeQuals(v[1])
    [] act = "updateQuals" -> [v[1] EXCEPT !.q = @ \cup {v[2].s}]
    [] act = "mkParamTypeLst" -> mkParamTypeLst(v[1], {})
    [] act = "mkParamTypeVar" -> mkParamTypeLst(v[1], {"ELLIPSIS"})
    [] act = "mkParamLst" -> Node("Params", "", <<v[1]>>)
    [] act = "append3" -> append(v[1], v[3])
    [] act = "mkParamDecl" -> mkParamDecl(v[1], v[2])
    [] act = "mkParamDecl0" -> mkParamDecl(v[1], Null)
    [] act = "mkTypeName0" -> mkTypeName(v[1], Null)
    [] act = "mkTypeName" -> mkTypeName(v[1], v[2])
    [] act = "mkAbstrDeclarator" -> mkAbstrDeclarator(v[1], Null)
    [] act = "mkAbstrDeclarator2" -> mkAbstrDeclarator(v[2], v[1])
    [] act = "mkAbstrPointer" -> mkAbstrDeclarator(Null, v[1])
    [] act = "mkDirAbstrNested" -> mkDirAbstrDeclNested(v[2])
    [] act = "mkDirAbstrArr0" -> mkDirAbstrDeclArr(v[1], Null)
    [] act = "mkDirAbstrArr" -> mkDirAbstrDeclArr(v[1], v[3])
    [] act = "mkDirAbstrFunc0" -> mkDirAbstrDeclFunc(v[1], Null)
    [] act = "mkDirAbstrFunc" -> mkDirAbstrDeclFunc(v[1], v[3])

mkDesignator(kind, val) == Node("Designator", kind, <<val>>)
Elem(val, desig) == Node("InitElem", "", <<val, desig>>)
mkInitializerLst(val, desig) == Node("Inits", "", <<Elem(val, desig)>>)
mkInitializer(kind, val) == Node("Initializer", kind, <<val>>)

InitializerAction(act, v) ==
  CASE act = "mkInitializer" -> mkInitializer("direct", v[1])
    [] act = "mkInitializerNest" -> mkInitializer("compound", v[2])
    [] act = "mkInitializerLst" -> mkInitializerLst(v[1], Null)
    [] act = "mkInitializerLstAt" -> mkInitializerLst(v[3], v[1])
    [] act = "initAppend" -> append(v[1], Elem(v[3], Null))
    [] act = "initAppendAt" -> append(v[1], Elem(v[5], v[3]))
    [] act = "mkDesignatorIndex" -> mkDesignator("index", v[2])
    [] act = "mkDesignatorField" -> mkDesignator("field", v[2])

-----------------------------------------------------------------------------
(* Statements and the top level *)

mkLabelStmt(label, stmt, type) == Node("Label", type, <<label, stmt>>)
mkBlockItemLst == Node("BlockItems", "", <<>>)
mkCompoundStmt(body) == Node("Compound", "", <<body>>)
mkExprStmt(child) == Node("ExprStmt", "", <<child>>)

StatementAction(act, v) ==
  CASE act = "pass" -> v[1]
    [] act = "mkLabelStmt" -> mkLabelStmt(v[1], v[3], "SIMPL")
    [] act = "mkLabelCase" -> mkLabelStmt(v[2], v[4], "SW_CASE")
    [] act = "mkLabelDefault" -> mkLabelStmt(Null, v[3], "SW_DEFAULT")
    [] act = "mkCompoundStmt0" -> mkCompoundStmt(mkBlockItemLst)
    [] act = "mkCompoundStmt" -> mkCompoundStmt(v[2])
    [] act = "mkBlockItemLst" -> append(mkBlockItemLst, v[1])
    [] act = "append2" -> append(v[1], v[2])
    [] act = "mkExprStmt0" -> mkExprStmt(Null)
    [] act = "mkExprStmt" -> mkExprStmt(v[1])

mkIfStmt(cond, body, else_body) == Node("Selection", "if", <<cond, body, else_body>>)
mkSwitchStmt(cond, body) == Node("Selection", "switch", <<cond, body, Null>>)
makeWhileStmt(body, ctl, is_do) ==
  Node("Iter", IF is_do THEN "DO_LOOP" ELSE "WHILE_LOOP", <<body, ctl>>)
makeForStmt(body, decl, cond, act) == Node("Iter", "FOR_LOOP", <<body, decl, cond, act>>)
mkJumpStmt(jtype, arg) == Node("Jump", jtype, <<arg>>)

ControlAction(act, v) ==
  CASE act = "mkIfStmt" -> mkIfStmt(v[3], v[5], Null)
    [] act = "mkIfElseStmt" -> mkIfStmt(v[3], v[5], v[7])
    [] act = "mkSwitchStmt" -> mkSwitchStmt(v[3], v[5])
    [] act = "makeWhileStmt" -> makeWhileStmt(v[5], v[3], FALSE)
    [] act = "makeDoStmt" -> makeWhileStmt(v[2], v[5], TRUE)
    [] act = "makeForStmt" -> makeForStmt(v[6], v[3], v[4], Null)
    [] act = "makeForStmtAct" -> makeForStmt(v[7], v[3], v[4], v[5])
    [] act = "mkJumpGoto" -> mkJumpStmt(v[1].s, v[2])
    [] act = "mkJumpStmt" -> mkJumpStmt(v[1].s, Null)
    [] act = "mkJumpValue" -> mkJumpStmt(v[1].s, v[2])

mkTransUnit == Node("Unit", "", <<>>)
mkFunDef(spec, decl, body) == Node("FunctionDef", "", <<spec, decl, body>>)

(* An attribute is read and dropped.                                        *)
TopAction(act, v) ==
  CASE act = "mkTransUnit" -> append(mkTransUnit, v[1])
    [] act = "append2" -> append(v[1], v[2])
    [] act = "mkFunDef" -> mkFunDef(v[1], v[2], v[3])
    [] act = "dropAttr" -> v[2]
    [] act = "get_attribute" -> Node("Attribute", IF v[4].s = "noinline" THEN "NOINLINE" ELSE "", <<>>)

(* The action act of production r on the values v of its symbols; the       *)
(* numbers are the cases of the switch.                                     *)
Action(r, act, v, typesAliases) ==
  CASE r \in 2 .. 19 -> PrimaryAction(act, v)
    [] r \in 20 .. 33 -> UnaryAction(act, v)
    [] r \in 34 .. 61 -> BinaryAction(act, v)
    [] r \in 62 .. 79 -> AssignAction(act, v)
    [] r \in 80 .. 93 -> SpecifierAction(act, v)
    [] r \in 94 .. 111 -> TypeSpecAction(act, v, typesAliases)
    [] r \in 112 .. 130 -> StructAction(act, v)
    [] r \in 131 .. 139 -> EnumAction(act, v)
    [] r \in 140 .. 151 -> DeclarationAction(act, v)
    [] r \in 152 .. 162 -> DirDeclaratorAction(act, v)
    [] r \in 163 .. 180 -> ParameterAction(act, v)
    [] r \in 181 .. 189 -> InitializerAction(act, v)
    [] r \in 190 .. 206 -> StatementAction(act, v)
    [] r \in 207 .. 220 -> ControlAction(act, v)
    [] r \in 221 .. 227 -> TopAction(act, v)
=============================================================================
