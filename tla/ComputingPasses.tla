--------------------------- MODULE ComputingPasses ---------------------------
(***************************************************************************)
(* The transformations of one graph in SSA form that compute               *)
(* (transformations/computing_transformers.hpp): AlgebraicTransformer,     *)
(* CommonSubexprElim and CopyPropagator.  A module of operators.           *)
(*                                                                         *)
(* Numbers are unsigned and of two bits: FunctionIR leaves types out, and  *)
(* Algebra, of which the rules are taken, is checked for all of them in    *)
(* Arithmetic.                                                             *)
(***************************************************************************)
EXTENDS SSAGenerator

A == INSTANCE Algebra WITH W8 <- 1, W32 <- 2, W64 <- 3

Typed(v) == [cls |-> v[1], ty |-> "U32", rep |-> "U32", n |-> v[2]]
Untyped(v) == IF v.cls = "val" THEN Const(A!Cast("U32", v.n)) ELSE <<v.cls, v.n>>

ToExpr(node) ==
  A!Expr(node.op, [i \in DOMAIN node.args |-> Typed(node.args[i])], "U32")
FromExpr(node, e) ==
  [node EXCEPT !.op = e.op, !.args = [i \in DOMAIN e.args |-> Untyped(e.args[i])]]

IsOper(node) == node.op \in Opers

(* Every node of the reachable blocks put through F, the graph's failure   *)
(* if it holds an empty node, and another if Failing holds of one.         *)
TransformNodes(t, F(_), Failing(_), why) ==
  LET reach == Reachable(t.g)
      nodes == NodesAt(t.g, reach)
  IN  IF \E n \in nodes : IsNop(n) THEN Fail(t, "null")
      ELSE IF \E n \in nodes : Failing(n) THEN Fail(t, why)
      ELSE Update(t, [t.g EXCEPT !.blocks =
             [b \in DOMAIN @ |-> IF b \in reach THEN MapBlock(F, @[b]) ELSE @[b]]])

AlgebraicTransformer(g) ==
  LET Processed(node) == A!ProcessNode(ToExpr(node))
      Process(node) == IF IsOper(node) THEN FromExpr(node, Processed(node)) ELSE node
      Throws(node) == IsOper(node) /\ Processed(node).op = A!Fault
  IN  TransformNodes(Start(g), Process, Throws, "Division by zero")

----------------------------------------------------------------------------
(* CommonSubexprElim: one table for the function, filled in the order in   *)
(* which the blocks are met; that the first computation dominates the      *)
(* other is not looked at.  Moves are entries like the others.             *)
EliminateNode(s, node) ==
  LET key == <<node.args, node.op>>
      Made(n) == [s EXCEPT !.nodes = Append(@, n)]
  IN  CASE IsNop(node) -> [s EXCEPT !.err = "null"]
        [] IsOper(node) /\ key \in DOMAIN s.table ->
             [Made([node EXCEPT !.op = "MOV", !.args = <<s.table[key]>>])
                EXCEPT !.changed = TRUE]
        [] IsOper(node) /\ key \notin DOMAIN s.table ->
             [Made(node) EXCEPT !.table = (key :> node.res) @@ @]
        [] OTHER -> Made(node)

EliminateBlock(s, b) ==
  LET done == FoldLeft(EliminateNode, [s EXCEPT !.nodes = <<>>], s.g.blocks[b].body)
  IN  [done EXCEPT !.g.blocks[b].body = done.nodes]

CommonSubexprElim(g) ==
  LET start == [g |-> g, table |-> <<>>, nodes |-> <<>>, changed |-> FALSE,
                err |-> "none"]
      s == FoldLeft(EliminateBlock, start, TraverseBlocks(g))
  IN  [g |-> s.g, changed |-> s.changed, err |-> s.err]

----------------------------------------------------------------------------
(* CopyPropagator.  s.map (remlacementMap) keeps the first value a copied  *)
(* register had in the whole pass.                                         *)
PropagateNode(s, node) ==
  CASE node.op = "MOV" /\ IsVReg(node.res) ->
         [s EXCEPT !.map = @ @@ (node.res :> node.args[1]), !.local = TRUE,
                   !.nodes = Append(@, Nop)]
    [] ArgsOf(node) \cap DOMAIN s.map # {} ->
         [s EXCEPT !.local = TRUE,
                   !.nodes = Append(@, MapArgs(LAMBDA v : IF v \in DOMAIN s.map
                                                THEN s.map[v] ELSE v, node))]
    [] OTHER -> [s EXCEPT !.nodes = Append(@, node)]

PropagateList(s, nodes) == FoldLeft(PropagateNode, [s EXCEPT !.nodes = <<>>], nodes)

PropagateBlock(s, b) ==
  LET phis == PropagateList(s, s.g.blocks[b].phis)
      body == PropagateList(phis, s.g.blocks[b].body)
      term == PropagateList(body, <<s.g.blocks[b].term>>)
  IN  [term EXCEPT !.g.blocks[b] = [@ EXCEPT !.phis = phis.nodes, !.body = body.nodes,
                                             !.term = term.nodes[1]]]

RECURSIVE PropagateCopies(_)
PropagateCopies(s) ==
  LET swept == FoldLeft(PropagateBlock, [s EXCEPT !.local = FALSE], TraverseBlocks(s.g))
  IN  IF swept.local THEN PropagateCopies([swept EXCEPT !.changed = TRUE, !.again = TRUE]) ELSE swept

(* foldConstants.  A phi without an argument for the first predecessor is  *)
(* an exception (args.at(0)); one whose arguments are all the same         *)
(* constant becomes a move, among the phis.                                *)
Folds(node) == A!FoldOper(ToExpr(node))

FoldNode(node) ==
  CASE node.op = "phi" /\ \A v \in ArgsOf(node) : IsConstant(v) /\ v = node.args[1] ->
         [node EXCEPT !.op = "MOV", !.args = <<node.args[1]>>]
    [] IsOper(node) /\ node.op # "MOV" /\ Folds(node) # {} ->
         FromExpr(node, [op |-> "MOV", args |-> <<CHOOSE v \in Folds(node) : TRUE>>])
    [] OTHER -> node
FoldThrows(node) ==
  \/ node.op = "phi" /\ 1 \notin DOMAIN node.args
  \/ IsOper(node) /\ node.op # "MOV" /\ A!FaultValue \in Folds(node)

(* Nodes that copies were made of are empty here, and passed over.         *)
FoldConstants(s) ==
  LET reach == Reachable(s.g)
      g == [s.g EXCEPT !.blocks = [b \in DOMAIN @ |->
              IF b \in reach THEN MapBlock(FoldNode, @[b]) ELSE @[b]]]
  IN  IF \E n \in NodesAt(s.g, reach) : FoldThrows(n)
      THEN [s EXCEPT !.err = "constant folding"]
      ELSE [s EXCEPT !.g = g, !.changed = @ \/ g # s.g, !.again = @ \/ g # s.g]

CleanUp(t) ==
  Then(Then(Then(Then(t, RemoveNops), RemoveUselessNodes), RemoveUnreachableBlocks),
       RemoveTransitBlocks)

(* The passes go on while the propagation or the folding changes anything; *)
(* s.again is changed of the constructor, s.changed what the pass reports. *)
NextPass(s) == [s EXCEPT !.again = FALSE]
CopyRound(s) ==
  CleanUp(Then(Then(Then(s, NextPass), PropagateCopies), FoldConstants))

RECURSIVE CopyPropagation(_)
CopyPropagation(s) ==
  IF s.err = "none" /\ s.again THEN Then(CopyRound(s), CopyPropagation) ELSE s

CopyPropagator(g) ==
  CopyPropagation([g |-> g, map |-> <<>>, local |-> FALSE, again |-> TRUE,
                   changed |-> FALSE, nodes |-> <<>>, err |-> "none"])
=============================================================================
