------------------------------- MODULE IRTypes -------------------------------
(***************************************************************************)
(* The types of the intermediate representation (ir/types.cpp), how they   *)
(* are made of specifiers and declarators (ir/types_gen.cpp), and what     *)
(* LLVM makes of them.  A module of operators.                             *)
(*                                                                         *)
(* A type is a record; k names its class.  A structure carries its fields, *)
(* in the order of their indices; two structures of one name are one       *)
(* record, so that IR_Type::equal is equality.  Qualifiers are left out.   *)
(***************************************************************************)
EXTENDS CSyntax, SequencesExt

Direct(spec) == [k |-> "dir", spec |-> spec]
PtrTo(child) == [k |-> "ptr", child |-> child]
ArrayOf(child, size) == [k |-> "arr", child |-> child, size |-> size]
StructOf(name, fields) == [k |-> "struct", name |-> name, fields |-> fields]
FuncOf(ret, args) == [k |-> "func", ret |-> ret, args |-> args]

Specs == {"VOID", "BOOL", "I8", "U8", "I32", "U32", "I64", "U64", "F32", "F64"}
IsDirect(t) == t.k = "dir"
IsInteger(t) == IsDirect(t) /\ t.spec \in {"BOOL", "I8", "U8", "I32", "U32", "I64", "U64"}
IsFloat(t) == IsDirect(t) /\ t.spec \in {"F32", "F64"}
IsSigned(t) == t.spec \in {"I8", "I32", "I64"}
IsUnsigned(t) == t.spec \in {"U8", "U32", "U64"}

DirectSize(spec) ==
  CASE spec = "VOID" -> 0
    [] spec \in {"BOOL", "I8", "U8"} -> 1
    [] spec \in {"I32", "U32", "F32"} -> 4
    [] spec \in {"I64", "U64", "F64"} -> 8

(* getBytesSize.  The padding of a structure is the remainder, not what is *)
(* missing to the next multiple.                                           *)
RECURSIVE BytesSize(_)
BytesSize(t) ==
  LET Grow(res, f) == LET cur == BytesSize(f.type) IN res + (res % cur) + cur
  IN  CASE t.k = "dir" -> DirectSize(t.spec)
        [] t.k \in {"ptr", "func"} -> 8
        [] t.k = "arr" -> t.size * BytesSize(t.child)
        [] t.k = "struct" -> LET res == FoldLeft(Grow, 0, t.fields) IN res + (res % 8)

FieldIndex(t, name) == SelectInSeq(t.fields, LAMBDA f : f.name = name)

----------------------------------------------------------------------------
(* What LLVM takes a type for (IR2LLVM_Impl::getType): integers have no    *)
(* sign, and a pointer to void is one to i8.                               *)
RECURSIVE LLVMType(_)
LLVMType(t) ==
  CASE t.k = "dir" -> Direct(CASE t.spec = "U8" -> "I8" [] t.spec = "U32" -> "I32"
                               [] t.spec = "U64" -> "I64" [] OTHER -> t.spec)
    [] t.k = "ptr" -> PtrTo(IF t.child = Direct("VOID") THEN Direct("I8")
                            ELSE LLVMType(t.child))
    [] t.k = "arr" -> ArrayOf(LLVMType(t.child), t.size)
    [] t.k = "struct" -> t
    [] t.k = "func" -> FuncOf(LLVMType(t.ret), [i \in DOMAIN t.args |-> LLVMType(t.args[i])])

(* Where LLVM puts things: each scalar at a multiple of its size.          *)
RoundUp(n, a) == ((n + a - 1) \div a) * a

RECURSIVE AlignOf(_)
AlignOf(t) ==
  CASE t.k = "dir" -> DirectSize(t.spec)
    [] t.k = "ptr" -> 8
    [] t.k = "arr" -> AlignOf(t.child)
    [] t.k = "struct" -> LET aligns == {AlignOf(t.fields[i].type) : i \in DOMAIN t.fields}
                         IN  CHOOSE a \in aligns : \A b \in aligns : b <= a

RECURSIVE AllocSize(_)
AllocSize(t) ==
  LET Place(n, f) == RoundUp(n, AlignOf(f.type)) + AllocSize(f.type)
  IN  CASE t.k = "dir" -> DirectSize(t.spec)
        [] t.k = "ptr" -> 8
        [] t.k = "arr" -> t.size * AllocSize(t.child)
        [] t.k = "struct" -> RoundUp(FoldLeft(Place, 0, t.fields), AlignOf(t))

FieldOffset(t, i) ==
  LET Place(n, f) == RoundUp(n, AlignOf(f.type)) + AllocSize(f.type)
  IN  RoundUp(FoldLeft(Place, 0, SubSeq(t.fields, 1, i - 1)), AlignOf(t.fields[i].type))

----------------------------------------------------------------------------
(* getCommonDirType.  BOOL is neither signed nor unsigned.                 *)
Sized(size, unsigned) ==
  Direct(CASE size = 1 -> IF unsigned THEN "U8" ELSE "I8"
           [] size = 4 -> IF unsigned THEN "U32" ELSE "I32"
           [] size = 8 -> IF unsigned THEN "U64" ELSE "I64")

CommonType(a, b) ==
  LET sizes == {DirectSize(a.spec), DirectSize(b.spec)}
      larger == CHOOSE n \in sizes : \A m \in sizes : m <= n
  IN  CASE a = b -> a
        [] a # b /\ Direct("F64") \in {a, b} -> Direct("F64")
        [] a # b /\ Direct("F64") \notin {a, b} /\ Direct("F32") \in {a, b} -> Direct("F32")
        [] a # b /\ ~IsFloat(a) /\ ~IsFloat(b) ->
             Sized(larger, IsUnsigned(a) \/ IsUnsigned(b))

(* The constructor of IR_ExprCast, for types that are not equal.  "error"  *)
(* is an exception; "unset" an operation the constructor leaves unset.     *)
CastOp(a, b) ==
  LET sizeA == DirectSize(a.spec)
      sizeB == DirectSize(b.spec)
      Integers2 == CASE sizeA = sizeB -> "BITCAST"
                     [] sizeA > sizeB -> "TRUNC"
                     [] sizeA < sizeB -> IF IsSigned(a) /\ IsSigned(b) THEN "SEXT" ELSE "ZEXT"
      Directs == CASE b.spec = "VOID" -> "error"
                   [] IsInteger(a) /\ IsInteger(b) -> Integers2
                   [] IsFloat(a) /\ IsFloat(b) -> IF sizeA > sizeB THEN "FPTRUNC" ELSE "FPEXT"
                   [] IsInteger(a) /\ IsFloat(b) -> IF IsSigned(a) THEN "SITOFP" ELSE "UITOFP"
                   [] IsFloat(a) /\ IsInteger(b) -> IF IsSigned(b) THEN "FPTOSI" ELSE "FPTOUI"
                   [] OTHER -> "unset"
  IN  CASE "func" \in {a.k, b.k} -> "error"
        [] a.k = "arr" /\ b.k # "func" -> IF b.k = "ptr" THEN "error" ELSE "BITCAST"
        [] a.k = "ptr" /\ b.k = "ptr" -> "BITCAST"
        [] a.k = "ptr" /\ b.k = "dir" -> IF b.spec = "U64" THEN "PTRTOI" ELSE "error"
        [] a.k = "dir" /\ b.k = "ptr" -> IF a.spec = "U64" THEN "ITOPTR" ELSE "error"
        [] a.k = "dir" /\ b.k = "dir" -> Directs
        [] OTHER -> "unset"

(***************************************************************************)
(* types_gen.cpp.  g is the state of the generator; these operators read   *)
(* and write its structs (iunit->structs), type (what they return) and err *)
(* (the semantic error that ended it, or "none").                          *)
(***************************************************************************)
Refuse(g, why) == [g EXCEPT !.err = why]

(* What follows a step; the state is computed once, and an error skips it. *)
Then(g, Step(_)) ==
  CHOOSE r \in {IF t.err = "none" THEN Step(t) ELSE t : t \in {g}} : TRUE

Typed(g, t) == [g EXCEPT !.type = t]

(* Keywords, in any order.                                                 *)
WordsType(words, g) ==
  LET Count(w) == Len(SelectSeq(words, LAMBDA v : v = w))
      bases == SelectSeq(words, LAMBDA v : v \in {"char", "int", "float", "double"})
      signs == SelectSeq(words, LAMBDA v : v \in {"signed", "unsigned"})
      base == IF bases = <<>> THEN "int" ELSE bases[1]
      unsigned == signs = <<"unsigned">>
      Integral == CASE base = "char" -> Sized(1, unsigned)
                    [] base = "int" -> Sized(IF Count("long") > 0 THEN 8 ELSE 4, unsigned)
  IN  CASE words = <<"void">> -> Typed(g, Direct("VOID"))
        [] \/ Len(bases) > 1 \/ Len(signs) > 1 \/ Count("long") > 2
           \/ Count("short") > 0 \/ Count("void") > 0
           \/ base = "char" /\ Count("long") > 0
           \/ base \in {"float", "double"} /\ signs \o SelectSeq(words, LAMBDA v : v = "long") # <<>>
             -> Refuse(g, "specifiers")
        [] OTHER -> Typed(g, IF base = "float" THEN Direct("F32")
                             ELSE IF base = "double" THEN Direct("F64") ELSE Integral)

(* getStructType, getPrimaryType, getIndirectType, getDirType (and its     *)
(* abstract twin), checkVoidParam.  A structure is known once its body has *)
(* been read; a second body for its name is not looked at.                 *)
RECURSIVE DeclaredType(_, _), PrimaryType(_, _), IndirectType(_, _), DirType(_, _)

StructType(spec, g) ==
  LET Field(h, d) == Then(h, LAMBDA s : Then(DeclaredType(d, s), LAMBDA t :
                       [t EXCEPT !.fields = Append(s.fields, [name |-> d.name, type |-> t.type])]))
      Register(h) == LET type == StructOf(spec.name, h.fields)
                     IN  [h EXCEPT !.structs = (spec.name :> type) @@ @, !.type = type,
                                   !.fields = g.fields]
  IN  CASE spec.name \in DOMAIN g.structs -> Typed(g, g.structs[spec.name])
        [] spec.name \notin DOMAIN g.structs /\ ~spec.hasBody -> Refuse(g, "Unknown struct name")
        [] spec.name \notin DOMAIN g.structs /\ spec.hasBody ->
             Then(FoldLeft(Field, [g EXCEPT !.fields = <<>>], spec.body), Register)

PrimaryType(spec, g) ==
  CASE spec.k = "struct" -> StructType(spec, g)
    [] spec.k = "named" -> DeclaredType(spec.type, g)
    [] spec.k = "words" -> WordsType(spec.words, g)

VoidParam(p) == p.spec = Words(<<"void">>) /\ p.decl = Plain /\ p.name = ""

ParamTypes(params, g) ==
  LET Param(h, p) == Then(h, LAMBDA s : Then(DeclaredType(p, s), LAMBDA t :
                       [t EXCEPT !.params = Append(s.params, t.type)]))
  IN  CASE \A i \in DOMAIN params : ~VoidParam(params[i]) ->
             FoldLeft(Param, [g EXCEPT !.params = <<>>], params)
        [] \E i \in DOMAIN params : VoidParam(params[i]) ->
             IF Len(params) = 1 THEN [g EXCEPT !.params = <<>>]
             ELSE Refuse(g, "Void must be the only parameter")

DirType(direct, g) ==
  CASE direct.k = "name" -> g
    [] direct.k = "nested" -> IndirectType(direct.decl, g)
    [] direct.k = "array" -> DirType(direct.base, Typed(g, ArrayOf(g.type, direct.size)))
    [] direct.k = "func" -> Then(ParamTypes(direct.params, g), LAMBDA h :
         DirType(direct.base, [h EXCEPT !.type = FuncOf(g.type, h.params), !.params = g.params]))

PointersTo(type, n) ==
  LET To[k \in 0 .. n] == IF k = 0 THEN type ELSE PtrTo(To[k - 1]) IN To[n]

(* Mutant of IndirectType: the pointers come after the brackets.           *)
IndirectTypeLast(decl, g) ==
  Then(DirType(decl.direct, g), LAMBDA h : Typed(h, PointersTo(h.type, decl.ptrs)))

IndirectType(decl, g) == DirType(decl.direct, Typed(g, PointersTo(g.type, decl.ptrs)))

DeclaredType(d, g) ==
  Then(PrimaryType(d.spec, g), LAMBDA h : IndirectType(d.decl, h))
=============================================================================
