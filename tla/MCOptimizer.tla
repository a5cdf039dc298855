----------------------------- MODULE MCOptimizer -----------------------------
(***************************************************************************)
(* The programs Optimizer is checked with: graphs as IR_Generator leaves   *)
(* them, for functions with one local variable x.  A family has a shape    *)
(* of the graph, some statements in its blocks and a condition for its     *)
(* branches; register 0 is the allocation of x.                            *)
(***************************************************************************)
EXTENDS Optimizer

X == Reg(0)

(* The nodes of a statement; its registers are numbered from r.            *)
Code(kind, r) ==
  CASE kind \in {"none", "tail"} -> <<>>
    [] kind = "set" -> <<Node("store", NoValue, <<X, Const(1)>>)>>
    [] kind = "inc" ->
         <<Node("load", Reg(r), <<X>>), Node("ADD", Reg(r + 1), <<Reg(r), Const(1)>>),
           Node("store", NoValue, <<X, Reg(r + 1)>>)>>
    [] kind = "in" ->
         <<CallNode(Reg(r), "in", <<>>), Node("store", NoValue, <<X, Reg(r)>>)>>
    [] kind = "put" ->
         <<Node("load", Reg(r), <<X>>), CallNode(NoValue, "put", <<Reg(r)>>)>>
    [] kind = "peek" ->
         <<Node("load", Reg(r), <<X>>), Node("MUL", Reg(r + 1), <<Reg(r), Const(3)>>),
           CallNode(NoValue, "put", <<Reg(r + 1)>>)>>
    [] kind = "pure" ->
         <<Node("load", Reg(r), <<X>>), CallNode(Reg(r + 1), "pure", <<Reg(r)>>),
           CallNode(NoValue, "put", <<Reg(r + 1)>>)>>
    [] kind = "escape" -> <<CallNode(NoValue, "take", <<X>>)>>
    [] kind = "call" ->
         <<Node("load", Reg(r), <<X>>), CallNode(Reg(r + 1), "f", <<Reg(r)>>),
           Node("store", NoValue, <<X, Reg(r + 1)>>)>>
    [] kind = "drop" ->
         <<Node("load", Reg(r), <<X>>), CallNode(NoValue, "f", <<Reg(r)>>)>>

(* A branch on the input or on x, in register r.                           *)
Cond(kind, r) ==
  IF kind = "in" THEN <<CallNode(Reg(r), "in", <<>>)>>
  ELSE <<Node("load", Reg(r), <<X>>)>>

(* The end of a function: return x, return f(x), or neither result.        *)
Ending(kind, void, r) ==
  CASE kind = "tail" -> <<Node("load", Reg(r + 1), <<X>>),
                          CallNode(IF void THEN NoValue ELSE Reg(r), "f", <<Reg(r + 1)>>)>>
    [] kind # "tail" /\ void -> <<>>
    [] OTHER -> <<Node("load", Reg(r), <<X>>)>>

(* The function with the given arcs: the entry allocates x and sets it to  *)
(* init, a block without successors ends the function.                     *)
Build(next, stmts, cond, init, params, void) ==
  LET n == Len(next)
      First(b) == 1 + 4 * b
      Arcs(b) == next[b + 1]
      Prev(b) == FlattenSeq([a \in 1 .. n |->
                   [j \in DOMAIN SelectSeq(next[a], LAMBDA c : c = b) |-> a - 1]])
      Enter(b) == IF b # 0 THEN <<>>
                  ELSE <<Node("alloca", X, <<>>), Node("store", NoValue, <<X, init>>)>>
      Leave(b) == CASE Arcs(b) = <<>> -> Ending(stmts[b], void, First(b) + 2)
                    [] Len(Arcs(b)) = 1 -> <<>>
                    [] OTHER -> Cond(cond, First(b) + 2)
      Term(b) == CASE Arcs(b) = <<>> ->
                        Node("RET", NoValue, IF void THEN <<>> ELSE <<Reg(First(b) + 2)>>)
                   [] Len(Arcs(b)) = 1 -> Jump
                   [] OTHER -> Node("BRANCH", NoValue, <<Reg(First(b) + 2)>>)
  IN  [params |-> params, inline |-> FALSE,
       g |-> [entry |-> 0, ids |-> n, regs |-> 4 * n + 1,
              blocks |-> [b \in 0 .. n - 1 |->
                [phis |-> <<>>, body |-> Enter(b) \o Code(stmts[b], First(b)) \o Leave(b),
                 term |-> Term(b), prev |-> Prev(b), next |-> Arcs(b)]]]]

Shapes == [
  line |-> <<<<1>>, <<>>>>,
  diamond |-> <<<<1, 2>>, <<3>>, <<3>>, <<>>>>,
  then |-> <<<<1, 2>>, <<2>>, <<>>>>,
  chain |-> <<<<1, 3>>, <<2, 3>>, <<3>>, <<>>>>,
  ladder |-> <<<<1, 2>>, <<5>>, <<3, 4>>, <<5>>, <<5>>, <<>>>>,
  early |-> <<<<1, 2>>, <<>>, <<>>>>,
  exits |-> <<<<1, 2>>, <<>>, <<3, 4>>, <<>>, <<>>>>,
  dead |-> <<<<2>>, <<2>>, <<>>>>,
  while |-> <<<<1>>, <<2, 3>>, <<1>>, <<>>>>,
  dowhile |-> <<<<1>>, <<2>>, <<1, 3>>, <<>>>>,
  break |-> <<<<1>>, <<2, 4>>, <<4, 3>>, <<1>>, <<>>>>,
  return |-> <<<<1>>, <<2, 4>>, <<3, 1>>, <<>>, <<>>>>,
  doIf |-> <<<<1>>, <<2, 3>>, <<3>>, <<1, 4>>, <<>>>>,
  inThen |-> <<<<1, 4>>, <<2>>, <<3, 4>>, <<2>>, <<>>>>,
  twice |-> <<<<1>>, <<2, 3>>, <<1>>, <<4, 5>>, <<3>>, <<>>>>,
  nested |-> <<<<1>>, <<2, 5>>, <<3, 4>>, <<2>>, <<1>>, <<>>>>]

(* The statements of a program: none but in at most k blocks.              *)
Placements(n, kinds, k) ==
  {[b \in 0 .. n - 1 |-> IF b \in DOMAIN f THEN f[b] ELSE "none"] :
     f \in UNION {[S -> kinds] : S \in {T \in SUBSET (0 .. n - 1) : Cardinality(T) <= k}}}

(* The same computation, possibly inlined, in two blocks of which none     *)
(* dominates the other: CommonSubexprElim replaces the second by the first *)
(* (run OPT_siblings).                                                     *)
Siblings(g, stmts) ==
  LET dom == Dominators(g)
  IN  \E a, b \in DOMAIN dom :
        /\ \E kinds \in {{"inc"}, {"peek"}, {"call", "drop"}} : {stmts[a], stmts[b]} \subseteq kinds
        /\ a \notin dom[b] /\ b \notin dom[a]

Main(shapes, kinds, k, conds) ==
  {[stmts |-> x[3], fun |-> Build(Shapes[x[1]], x[3], x[2], Const(0), 0, FALSE)] :
     x \in UNION {{s} \X conds \X Placements(Len(Shapes[s]), kinds, k) : s \in shapes}}

Family(shapes, kinds, k, conds) ==
  {"main" :> m.fun : m \in {x \in Main(shapes, kinds, k, conds) : ~Siblings(x.fun.g, x.stmts)}}

Compiled(units, levels, s1) == [unit : units, level : levels, s1 : s1]
----------------------------------------------------------------------------
(* One function.  A variable whose address was taken stays in memory: in a *)
(* loop LoopInvMover would move the stores to it out of the loop, and the  *)
(* load of a branch that becomes useless after others (chain, ladder) is   *)
(* left to the next pass as an empty node.                                 *)
Values == {"set", "inc", "peek", "put", "in"}
Acyclic == {"line", "diamond", "then", "early", "dead"}
Loopy == {"while", "dowhile", "break", "return", "doIf", "inThen", "twice", "nested"}

FlowJobs ==
  Compiled(Family(Acyclic, Values \cup {"escape"}, 2, {"in", "x"}), {1, 2}, {FALSE})
    \cup Compiled(Family({"chain", "ladder"}, Values, 2, {"in", "x"}), {2}, {FALSE})
    \cup Compiled(Family({"line", "then", "while"}, {"pure", "inc"}, 2, {"in"}), {1, 2}, {FALSE})
    \cup Compiled(Family(Loopy, Values \ {"in"}, 2, {"in"}), {2}, {FALSE})
    \cup Compiled(Family(Loopy, Values, 1, {"in"}), {1}, {FALSE})
    \cup Compiled(Family({"while", "dowhile", "break"}, Values, 2, {"x"}), {2}, {FALSE})
    \cup Compiled(Family(Acyclic, Values, 1, {"in"}), {0}, {FALSE})

SiblingJobs ==
  Compiled({"main" :> m.fun : m \in Main({"diamond", "while"}, {"inc"}, 2, {"in"})},
           {1}, {FALSE})

----------------------------------------------------------------------------
(* Two functions: main calls f, which may call itself.  When f is inline   *)
(* and calls itself other than at its end, the inliner fails.              *)
Callees(shapes, kinds, k, voids) ==
  {[stmts |-> x[2], fun |-> Build(Shapes[x[1]], x[2], "in", Param(0), 1, x[3])] :
     x \in UNION {{s} \X Placements(Len(Shapes[s]), kinds, k) \X voids : s \in shapes}}

Calling(mains, callees, inline) ==
  {("main" :> p[1].fun) @@ ("f" :> [p[2].fun EXCEPT !.inline = p[3]]) :
     p \in {m \in mains : ~Siblings(m.fun.g, m.stmts)}
             \X {f \in callees : ~Siblings(f.fun.g, f.stmts)} \X inline}

Void == {TRUE}
Result == {FALSE}

(* f calls itself where the input asks for it.  The argument of a tail     *)
(* call is used: if it was not, TailrecEliminator would leave an empty phi *)
(* to the next pass.                                                       *)
TailCallees(voids) ==
  {f \in Callees({"early", "exits"}, {"inc", "put", "tail"}, 2, voids) :
     LET tails == {b \in DOMAIN f.stmts : f.stmts[b] = "tail"}
     IN  /\ tails \in {{1}, {3}, {1, 3}} 
         /\ voids = Void => \E b \in DOMAIN f.stmts : f.stmts[b] = "put"}

RecursiveCallees ==
  {f \in Callees({"early"}, {"call", "inc"}, 2, Result) :
     {b \in DOMAIN f.stmts : f.stmts[b] = "call"} = {1}}

CallJobs ==
  Compiled(Calling(Main({"line", "then"}, {"call", "put"}, 2, {"in"}),
                   Callees({"line", "early", "while"}, {"inc", "put"}, 1, Result),
                   BOOLEAN), {2}, {FALSE})
    \cup Compiled(Calling(Main({"while"}, {"call", "drop"}, 1, {"in"}),
                          Callees({"line", "early", "while"}, {"inc", "put"}, 1, Result),
                          BOOLEAN), {1, 2}, {FALSE})
    \cup Compiled(Calling(Main({"line", "while"}, {"call"}, 1, {"in"}), TailCallees(Result),
                          BOOLEAN), {1, 2}, {FALSE})
    \cup Compiled(Calling(Main({"line", "while"}, {"drop"}, 1, {"in"}), TailCallees(Void),
                          BOOLEAN), {1, 2}, {FALSE})
    \cup Compiled(Calling(Main({"line"}, {"call"}, 1, {"in"}), RecursiveCallees,
                          {FALSE}), {1, 2}, {FALSE})

----------------------------------------------------------------------------
(* --s1.  x counts how often v can be shifted before its lowest bit is 1,  *)
(* in a loop that may do something else; v is n more than the number that  *)
(* start assigns to register 17: the input, or one known to the compiler.  *)
CountZeros(n, start, after, kind) ==
  LET count == Build(Shapes["while"], [b \in 0 .. 3 |-> IF b = 2 THEN "inc"
                                         ELSE IF b = 3 THEN after ELSE "none"],
                     "x", Const(0), 0, FALSE)
      v == Reg(18)
  IN  [count EXCEPT
        !.g.regs = 22,
        !.g.blocks[0].body = <<start, Node("ADD", v, <<Reg(17), Const(n)>>)>> \o @,
        !.g.blocks[1].body = @ \o Code(kind, 5) \o
          <<Node("SHR", Reg(19), <<v, Reg(7)>>), Node("AND", Reg(20), <<Reg(19), Const(1)>>),
            Node("EQ", Reg(21), <<Reg(20), Const(0)>>)>>,
        !.g.blocks[1].term.args = <<Reg(21)>>]

IntrinsicJobs ==
  Compiled({"main" :> CountZeros(n, start, after, kind) :
              n \in {1, 2},
              start \in {CallNode(Reg(17), "in", <<>>), Node("MOV", Reg(17), <<Const(1)>>)},
              after \in {"none", "put", "peek"}, kind \in {"none", "put"}},
           {2}, BOOLEAN)
    \cup Compiled(Family({"while", "inThen", "twice", "nested"}, Values, 1, {"in"}),
                  {2}, {TRUE})

UnitJobs == FlowJobs \cup CallJobs \cup IntrinsicJobs
=============================================================================
