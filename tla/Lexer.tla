------------------------------- MODULE Lexer -------------------------------
(***************************************************************************)
(* The lexer (src/parser/lexer.l, keywords.gperf): the token of a lexeme.   *)
(* Lexemes come cut: a record with the spelling s, the kind k ("name",      *)
(* "punct", "int", "float", "char", "string", or "other" for what no rule   *)
(* matches), the suffix letters q and the value n of a literal; role says   *)
(* what C takes a name for, and the lexer does not look at it. Whether a    *)
(* name is a TYPE_NAME is asked of the driver's table of typedefs.          *)
(***************************************************************************)
EXTENDS SyntaxTree

Keywords ==
  [ if |-> "IF", int |-> "INT", void |-> "VOID", return |-> "RETURN", struct |-> "STRUCT",
    switch |-> "SWITCH", restrict |-> "RESTRICT", goto |-> "GOTO", for |-> "FOR",
    union |-> "UNION", signed |-> "SIGNED", register |-> "REGISTER", unsigned |-> "UNSIGNED",
    else |-> "ELSE", extern |-> "EXTERN", __restrict |-> "RESTRICT", auto |-> "AUTO",
    case |-> "CASE", enum |-> "ENUM", static |-> "STATIC", while |-> "WHILE",
    __fconst |-> "EXT_FCONST", do |-> "DO", const |-> "CONST", inline |-> "INLINE",
    volatile |-> "VOLATILE", continue |-> "CONTINUE", long |-> "LONG", __weak |-> "EXT_WEAK",
    typedef |-> "TYPEDEF", short |-> "SHORT", char |-> "CHAR", sizeof |-> "SIZEOF",
    __attribute__ |-> "ATTRIBUTE", break |-> "BREAK", double |-> "DOUBLE", __pure |-> "EXT_PURE",
    float |-> "FLOAT", default |-> "DEFAULT" ]

(* The other punctuators are tokens of their own name.                      *)
Punctuator(s) ==
  CASE s = "..." -> "ELLIPSIS"
    [] s = ">>=" -> "RIGHT_ASSIGN" [] s = "<<=" -> "LEFT_ASSIGN" [] s = "+=" -> "ADD_ASSIGN"
    [] s = "-=" -> "SUB_ASSIGN" [] s = "*=" -> "MUL_ASSIGN" [] s = "/=" -> "DIV_ASSIGN"
    [] s = "%=" -> "MOD_ASSIGN" [] s = "&=" -> "AND_ASSIGN" [] s = "^=" -> "XOR_ASSIGN"
    [] s = "|=" -> "OR_ASSIGN" [] s = ">>" -> "RIGHT_OP" [] s = "<<" -> "LEFT_OP"
    [] s = "++" -> "INC_OP" [] s = "--" -> "DEC_OP" [] s = "->" -> "PTR_OP"
    [] s = "&&" -> "AND_OP" [] s = "||" -> "OR_OP" [] s = "<=" -> "LE_OP"
    [] s = ">=" -> "GE_OP" [] s = "==" -> "EQ_OP" [] s = "!=" -> "NE_OP"
    [] OTHER -> s

Literal(type, flags, val) == [k |-> "literal", s |-> type, q |-> flags, n |-> val, c |-> <<>>]
Bad == Node("bad", "", <<>>)

(* get_int_suff reads one suffix at str[i] and gives the next place. Behind *)
(* the letters is the terminator, and behind it the next character of the   *)
(* text. For an l the pointer is moved before the two characters at it are  *)
(* compared, so they are the two after the l.                               *)
Char(str, i) ==
  CASE i \in DOMAIN str -> str[i]
    [] i = Len(str) + 1 -> "NUL"
    [] OTHER -> "next character"

get_int_suff(str, i) ==
  CASE str[i] = "u" -> [suff |-> "U", next |-> i + 1]
    [] str[i] = "l" -> IF Char(str, i + 2) = Char(str, i + 1)
                       THEN [suff |-> "LL", next |-> i + 2]
                       ELSE [suff |-> "L", next |-> i + 1]
    [] OTHER -> [suff |-> "ERR", next |-> i]

RECURSIVE IntSuffixes(_, _, _)
IntSuffixes(str, i, lit) ==
  IF i > Len(str) THEN lit
  ELSE LET sf == get_int_suff(str, i)
           with(flag) == IntSuffixes(str, sf.next, [lit EXCEPT !.q = @ \cup {flag}])
           noLong == {"long", "long long"} \cap lit.q = {}
       IN  CASE sf.suff = "U" /\ "unsigned" \notin lit.q -> with("unsigned")
             [] sf.suff = "L" /\ noLong -> with("long")
             [] sf.suff = "LL" /\ noLong -> with("long long")
             [] OTHER -> Bad

(* The value is one that fits the type: the narrowing of get_integer is not *)
(* modelled.                                                                *)
get_integer(word) == IntSuffixes(word.q, 1, Literal("INTEGER", {}, word.n))

get_float(word) ==
  CASE word.q = <<>> -> Literal("FLOAT", {}, word.n)
    [] word.q = <<"f">> -> Literal("FLOAT", {"float"}, word.n)
    [] OTHER -> Bad

get_charval(word) == Literal("CHARACTER", {}, word.n)

NameToken(s, typesAliases) ==
  CASE s \in DOMAIN Keywords -> [t |-> Keywords[s], v |-> Token(Keywords[s])]
    [] s \in DOMAIN typesAliases -> [t |-> "TYPE_NAME", v |-> Ident(s)]
    [] OTHER -> [t |-> "IDENTIFIER", v |-> Ident(s)]

EndOfText == [t |-> "YYEOF", v |-> Token("YYEOF")]
BadToken == [t |-> "error", v |-> Bad]

Constant(lit) == IF lit = Bad THEN BadToken ELSE [t |-> "CONSTANT", v |-> lit]

(* The token of a lexeme, BadToken where the lexer throws.                  *)
Lexed(word, typesAliases) ==
  CASE word.k = "name" -> NameToken(word.s, typesAliases)
    [] word.k = "punct" -> [t |-> Punctuator(word.s), v |-> Token(Punctuator(word.s))]
    [] word.k = "int" -> Constant(get_integer(word))
    [] word.k = "float" -> Constant(get_float(word))
    [] word.k = "char" -> Constant(get_charval(word))
    [] word.k = "string" -> [t |-> "STRING_LITERAL", v |-> Node("string", word.s, <<>>)]
    [] word.k = "other" -> BadToken
=============================================================================
