------------------------------- MODULE Parser -------------------------------
(***************************************************************************)
(* The parse of a program (yy::parser::parse, generated by Bison, with the  *)
(* parts of CoreDriver its actions call): one action for each turn of its   *)
(* loop. The lexer asks the driver's table of typedefs what a name is, and  *)
(* an action of the parser fills that table, so what a name means depends   *)
(* on how far the parser is when it reads its lookahead token. Errors are   *)
(* thrown out of the parser (CoreDriver), so nothing is recovered.          *)
(***************************************************************************)
EXTENDS Automaton, TreeShape, Lexer, SequencesExt

CONSTANT Programs  \* C programs: the text, a sequence of lexemes (not empty: the
                   \* driver refuses such a file before parsing), and the tree
                   \* that C gives it

VARIABLES
  program,         \* the program that is parsed
  pos,             \* the number of the next lexeme
  la,              \* yyla, the lookahead token
  stack,           \* yystack_: states with the values of their symbols
  typesAliases,    \* CoreDriver::typesAliases, name -> type specifier
  lac_established, \* yy_lac_established_
  status           \* "run", "accepted" or "error"

vars == <<program, pos, la, stack, typesAliases, lac_established, status>>

text == program.text
NoToken == [t |-> "none", v |-> Null]
States == [i \in DOMAIN stack |-> stack[i].state]
State == stack[Len(stack)].state
Value == stack[Len(stack)].value
Final == {<<1, 2>>}

-----------------------------------------------------------------------------
(* CoreDriver: the declared names of a typedef become type names. Each      *)
(* stands for the specifiers of the declaration and the whole declarator;   *)
(* a name that is one already stays what it is (emplace).                   *)

RECURSIVE getDeclaredIdentDirect(_)
getDeclaredIdentDirect(decl) ==
  CASE decl.s = "NAME" -> decl.c[1].s
    [] decl.s = "NESTED" -> getDeclaredIdentDirect(decl.c[1].c[1])
    [] decl.s \in {"ARRAY", "FUNC"} -> getDeclaredIdentDirect(decl.c[1])
getDeclaredIdent(decl) == getDeclaredIdentDirect(decl.c[1])

parseDeclaration(spec, child) ==
  IF spec.s # "TYPEDEF" \/ child = Null THEN typesAliases
  ELSE LET specQualsLst == Flagged("SpecsQuals", "", spec.q \cap Quals, spec.c)
           alias(d) == getDeclaredIdent(d.c[1])
                       :> mkTypeSpecOf("NAMED", mkTypeName(specQualsLst, d.c[1]))
       IN  FoldLeft(LAMBDA known, d : known @@ alias(d), typesAliases, child.c)

-----------------------------------------------------------------------------
(* yy::parser::parse *)

Init ==
  /\ program \in Programs
  /\ pos = 1
  /\ la = NoToken
  /\ stack = << [state |-> Initial, value |-> Null] >>
  /\ typesAliases = <<>>
  /\ lac_established = FALSE
  /\ status = "run"

Running == status = "run" /\ State # Final

(* A token is read when the state asks for one. The lexer throws where it   *)
(* finds none.                                                              *)
ReadToken ==
  /\ Running /\ ~Consistent(State) /\ la = NoToken
  /\ LET token == IF pos > Len(text) THEN EndOfText ELSE Lexed(text[pos], typesAliases)
     IN  /\ la' = token
         /\ status' = IF token = BadToken THEN "error" ELSE status
  /\ pos' = pos + 1
  /\ UNCHANGED <<program, stack, typesAliases, lac_established>>

Shift ==
  /\ Running /\ ~Consistent(State) /\ la # NoToken
  /\ CanShift(State, la.t)
  /\ stack' = Append(stack, [state |-> Goto(State, la.t), value |-> la.v])
  /\ la' = NoToken
  /\ lac_established' = FALSE
  /\ UNCHANGED <<program, pos, typesAliases, status>>

(* The reduction by production r. A declaration changes the table of type   *)
(* names; the lookahead token, if there is one, stays what it was.          *)
Reduce(r) ==
  LET rule == Rules[r]
      below == Popped(stack, r)
      values == [i \in DOMAIN rule.rhs |-> stack[Len(below) + i].value]
      declares == rule.act \in {"parseDeclaration", "parseDeclaration0"}
      value == Action(r, rule.act, values, typesAliases)
  IN  IF Throws(rule.act, values)
      THEN /\ status' = "error"
           /\ UNCHANGED <<stack, typesAliases>>
      ELSE /\ stack' = Append(below, [state |-> Goto(Top(below).state, rule.lhs), value |-> value])
           /\ typesAliases' = IF declares THEN parseDeclaration(value.c[1], value.c[2])
                              ELSE typesAliases
           /\ UNCHANGED status

ReduceAtOnce ==
  /\ Running /\ Consistent(State)
  /\ Reduce(Default(State))
  /\ UNCHANGED <<program, pos, la, lac_established>>

(* Before the first reduction that a token causes, the parser looks ahead   *)
(* whether the token can be shifted in the end (yy_lac_establish_).         *)
ReduceOnToken ==
  /\ Running /\ ~Consistent(State) /\ la # NoToken
  /\ ~CanShift(State, la.t)
  /\ Default(State) # 0
  /\ lac_established \/ Viable(States, la.t)
  /\ lac_established' = TRUE
  /\ Reduce(Default(State))
  /\ UNCHANGED <<program, pos, la>>

SyntaxError ==
  /\ Running /\ ~Consistent(State) /\ la # NoToken
  /\ ~CanShift(State, la.t)
  /\ ~lac_established /\ ~Viable(States, la.t)
  /\ lac_established' = TRUE
  /\ status' = "error"
  /\ UNCHANGED <<program, pos, la, stack, typesAliases>>

Accept ==
  /\ status = "run" /\ State = Final
  /\ status' = "accepted"
  /\ UNCHANGED <<program, pos, la, stack, typesAliases, lac_established>>

(* The parser has returned or thrown.                                       *)
Returned == status # "run" /\ UNCHANGED vars

Next == ReadToken \/ Shift \/ ReduceAtOnce \/ ReduceOnToken \/ SyntaxError \/ Accept \/ Returned

Spec == Init /\ [][Next]_vars

-----------------------------------------------------------------------------
(* Correctness *)

(* The variables have their types, and the value pushed last is a node as   *)
(* its class says, of a class of its symbol: no action of the grammar puts  *)
(* a child where another belongs (as<T> of the variant, the fields of ast.hpp).*)
TypeOK ==
  /\ pos \in 1 .. Len(text) + 2
  /\ status \in {"run", "accepted", "error"}
  /\ lac_established \in BOOLEAN
  /\ \A name \in DOMAIN typesAliases : typesAliases[name].k = "TypeSpec"
  /\ State # {}
  /\ Len(stack) > 1 =>
       LET item == CHOOSE i \in State : TRUE
       IN  /\ Value.k \in ValueClass(Rules[item[1]].rhs[item[2]])
           /\ Fits(Value)

(* The part of C the front end means to take: a name is used as a type only *)
(* after the declaration that makes it one, and as nothing else from there  *)
(* on; one storage class; no long long literal.                             *)
TypedefBefore(i) ==
  \E j \in 1 .. i - 1 :
     /\ text[j].role = "typedef" /\ text[j].s = text[i].s
     /\ \E k \in j .. i : text[k].s = ";"
Plain ==
  \A i \in DOMAIN text :
     /\ text[i].role = "type" => TypedefBefore(i)
     /\ text[i].role \in {"ident", "typedef"} => ~TypedefBefore(i)
     /\ text[i].role # "second"
     /\ text[i].q # <<"l", "l">>

RECURSIVE Meaning(_)
(* A tree without the brackets around expressions and without the choices   *)
(* of spelling.                                                             *)
Meaning(t) ==
  IF t.k = "Primary" /\ t.s = "EXPR" THEN Meaning(t.c[1])
  ELSE [t EXCEPT !.c = [i \in DOMAIN @ |-> Meaning(@[i])],
                 !.n = IF t.k = "literal" THEN @ ELSE 0]

(* A program of that part is accepted, and its tree is the one C gives its  *)
(* text: precedence and associativity, the else of the nearest if, casts    *)
(* and declarations told from expressions by the table of typedefs.         *)
ParsedAsWritten ==
  Plain => /\ status # "error"
           /\ status = "accepted" => Meaning(stack[2].value) = Meaning(program.tree)

(* A lookahead token is never older than the table of typedefs: the lexer   *)
(* would still give the token it gave. The parser reduces a declaration     *)
(* before it reads what follows the semicolon (states with one reduction    *)
(* read no token), which typedef int T; T x; needs.                         *)
LookaheadFresh ==
  la \notin {NoToken, EndOfText} => la = Lexed(text[pos - 1], typesAliases)
=============================================================================
