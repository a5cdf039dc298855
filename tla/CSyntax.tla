------------------------------- MODULE CSyntax -------------------------------
(***************************************************************************)
(* The nodes of the syntax tree (parser/ast.hpp) that expressions and      *)
(* declarations are made of, as records; k names the class, and for the    *)
(* operators its op.  Parentheses (AST_Primary::EXPR) have no node here.   *)
(***************************************************************************)
EXTENDS Integers, Sequences

(* AST_Primary: a literal with the type its suffix gives it, a name, a     *)
(* compound literal.                                                       *)
Lit(spec, n) == [k |-> "const", spec |-> spec, n |-> n]
Num(n) == Lit("I32", n)
Id(x) == [k |-> "ident", name |-> x]
Compound(typeName, vals) == [k |-> "compound", type |-> typeName, vals |-> vals]

Binop(op, a, b) == [k |-> "binop", op |-> op, lhs |-> a, rhs |-> b]
Add(a, b) == Binop("ADD", a, b)

(* AST_Unop, its sizeof of a type name, and AST_Postfix ++ and --.         *)
Unop(op, a) == [k |-> "unop", op |-> op, child |-> a]
Deref(a) == Unop("DEREF", a)
AddrOf(a) == Unop("ADDR_OF", a)
SizeofType(typeName) == [k |-> "sizeof", type |-> typeName]
PostStep(op, a) == [k |-> "step", op |-> op, base |-> a]

Call(f, args) == [k |-> "call", base |-> f, args |-> args]
Index(a, i) == [k |-> "index", base |-> a, index |-> i]
Dot(a, field) == [k |-> "dot", base |-> a, field |-> field]
Arrow(a, field) == [k |-> "arrow", base |-> a, field |-> field]

(* AST_Assignment; op is DIRECT or the one of toBinop.                     *)
Assignment(op, a, b) == [k |-> "assign", op |-> op, lhs |-> a, rhs |-> b]
Assign(a, b) == Assignment("DIRECT", a, b)
CastExpr(typeName, a) == [k |-> "cast", type |-> typeName, child |-> a]
CommaExpr(a, b) == [k |-> "comma", first |-> a, last |-> b]

(* AST_TypeSpecifier lists: keywords, a structure with or without a body,  *)
(* a typedef's name, which the parser has already replaced by its type.    *)
Words(words) == [k |-> "words", words |-> words]
StructRef(name) == [k |-> "struct", name |-> name, hasBody |-> FALSE, body |-> <<>>]
StructDef(name, body) == [k |-> "struct", name |-> name, hasBody |-> TRUE, body |-> body]
Named(typeName) == [k |-> "named", type |-> typeName]

(* AST_DirDeclarator, named or abstract, and AST_Declarator: pointers      *)
(* before a direct declarator.  An array's size is already a number.       *)
TheName == [k |-> "name"]
Nested(decl) == [k |-> "nested", decl |-> decl]
ArrayDecl(base, size) == [k |-> "array", base |-> base, size |-> size]
FuncDecl(base, params) == [k |-> "func", base |-> base, params |-> params]
Declarator(ptrs, direct) == [ptrs |-> ptrs, direct |-> direct]
Plain == Declarator(0, TheName)
Star == Declarator(1, TheName)

(* AST_TypeName, AST_ParameterDeclaration, AST_StructDeclaration: a list   *)
(* of specifiers with a declarator; name is "" for a type name.            *)
Declared(spec, decl, name) == [spec |-> spec, decl |-> decl, name |-> name]
TypeName(spec, decl) == Declared(spec, decl, "")

(* What a translation unit and a function body are made of.                *)
NoInit == [k |-> "noinit"]
Declaration(scope, spec, decl, name, init) ==
  [k |-> scope, spec |-> spec, decl |-> decl, name |-> name, init |-> init]
ExprStmt(e) == [k |-> "expr", expr |-> e]
=============================================================================
