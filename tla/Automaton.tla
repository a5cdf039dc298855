----------------------------- MODULE Automaton -----------------------------
(***************************************************************************)
(* The LR automaton of the grammar, and the questions the generated parser  *)
(* asks its tables (yy_parser.cpp). A state is its kernel: the items, pairs *)
(* of a production's number and how much of it is read, that made the       *)
(* parser come here. No production is empty, so the items that are read to  *)
(* the end are in the kernel. The tables of Bison hold these 387 states.    *)
(***************************************************************************)
EXTENDS Grammar, FiniteSets

Nonterminals == {Rules[i].lhs : i \in DOMAIN Rules}
Symbols == UNION {{Rules[i].rhs[d] : d \in DOMAIN Rules[i].rhs} : i \in DOMAIN Rules}

RECURSIVE WithFirsts(_)
(* The nonterminals of S and those a word derived from one can begin with.  *)
WithFirsts(S) ==
  LET more == {Rules[i].rhs[1] : i \in {j \in DOMAIN Rules : Rules[j].lhs \in S}}
              \cap Nonterminals
  IN  IF more \subseteq S THEN S ELSE WithFirsts(S \cup more)

(* Begun[Y][X]: the productions that a Y can begin with and that begin with *)
(* X, which are the items the closure of a state expecting Y moves to on X. *)
Begun ==
  [Y \in Nonterminals |->
     LET firsts == WithFirsts({Y})
         mine == {i \in DOMAIN Rules : Rules[i].lhs \in firsts}
     IN  [X \in Symbols |-> {i \in mine : Rules[i].rhs[1] = X}]]

Initial == {<<1, 0>>}

Ended(item) == item[2] = Len(Rules[item[1]].rhs)
Expected(k) == {Rules[item[1]].rhs[item[2] + 1] : item \in {j \in k : ~Ended(j)}}

(* The state that follows k on a symbol, empty if there is none.            *)
Goto(k, X) ==
  {<<item[1], item[2] + 1>> :
     item \in {j \in k : ~Ended(j) /\ Rules[j[1]].rhs[j[2] + 1] = X}}
  \cup UNION {{<<i, 1>> : i \in Begun[Y][X]} : Y \in Expected(k) \cap Nonterminals}

(* Where both are possible the token is shifted: of the two readings of     *)
(* if (a) if (b) s; else t; the generator keeps the one %precedence ELSE    *)
(* asks for.                                                                *)
CanShift(k, token) == Goto(k, token) # {}

(* The default reduction, 0 if there is none: no state ends two productions.*)
Default(k) ==
  IF \E item \in k : Ended(item) THEN (CHOOSE item \in k : Ended(item))[1] ELSE 0

(* Mutant of Consistent: no reduction without a lookahead token.            *)
ConsistentNever(k) == FALSE

(* A state with nothing to do but one reduction: it is made without asking  *)
(* for a lookahead token.                                                   *)
Consistent(k) == Cardinality(k) = 1 /\ Default(k) # 0

Top(states) == states[Len(states)]
Popped(states, r) == SubSeq(states, 1, Len(states) - Len(Rules[r].rhs))

RECURSIVE Viable(_, _)
(* yy_lac_check_: the reductions that the token would cause lead to a state *)
(* that shifts it.                                                          *)
Viable(states, token) ==
  LET k == Top(states)  r == Default(k) IN
  \/ CanShift(k, token)
  \/ /\ r # 0
     /\ LET below == Popped(states, r)
        IN  Viable(Append(below, Goto(Top(below), Rules[r].lhs)), token)
=============================================================================
