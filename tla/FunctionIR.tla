----------------------------- MODULE FunctionIR -----------------------------
(***************************************************************************)
(* The intermediate representation the transformations work on: the graph  *)
(* of one function (ir/unit.hpp CFGraph), its blocks and their nodes       *)
(* (ir/nodes.hpp).  A module of operators; Optimizer is the state machine. *)
(*                                                                         *)
(* A graph holds its blocks by id.  A node is [op, res, args, fun]: the    *)
(* class of the expression, its result (NoValue: none), its arguments and  *)
(* the callee of a call.  The arguments of a phi are a function from the   *)
(* positions of the predecessors (from 1; the code counts from 0).  Types  *)
(* of values are left out (module Arithmetic is about them): every         *)
(* variable is one scalar.                                                 *)
(***************************************************************************)
EXTENDS Integers, Sequences, FiniteSets, SequencesExt

(* IRval: a value class and a number.                                      *)
NoValue == <<"none", 0>>
Undef == <<"undef", 0>>
Reg(n) == <<"reg", n>>
Const(n) == <<"val", n>>
Param(n) == <<"param", n>>
IsVReg(v) == v[1] = "reg"
IsConstant(v) == v[1] = "val"

(* IR_ExprOper; the other expressions have a class of their own.           *)
Opers == {"MOV", "ADD", "SUB", "MUL", "DIV", "SHR", "AND", "EQ", "CTZ"}
Terms == {"JUMP", "BRANCH", "RET"}

Node(op, res, args) == [op |-> op, res |-> res, args |-> args, fun |-> ""]
CallNode(res, fun, args) ==
  [op |-> "call", res |-> res, args |-> args, fun |-> fun]
Nop == Node("nop", NoValue, <<>>)
Jump == Node("JUMP", NoValue, <<>>)

(* A block as createBlock leaves it: no terminator, no links.              *)
EmptyBlock == [phis |-> <<>>, body |-> <<>>, term |-> Nop, prev |-> <<>>,
               next |-> <<>>]

CreateBlock(g) ==
  [g EXCEPT !.blocks = [b \in DOMAIN @ \cup {g.ids} |->
                          IF b = g.ids THEN EmptyBlock ELSE @[b]],
            !.ids = @ + 1]

LinkBlocks(g, a, b) ==
  LET h == [g EXCEPT !.blocks[a].next = Append(@, b)]
  IN  [h EXCEPT !.blocks[b].prev = Append(@, a)]

(* erase, for a set of ids.                                                *)
Erase(g, ids) ==
  [g EXCEPT !.blocks = [b \in DOMAIN @ \ ids |-> @[b]]]

AllNodes(blk) == blk.phis \o blk.body \o <<blk.term>>

ArgsOf(node) == {node.args[i] : i \in DOMAIN node.args}

(* Every argument of a node put through F.                                 *)
MapArgs(F(_), node) ==
  [node EXCEPT !.args = [i \in DOMAIN @ |-> F(@[i])]]

MapNodes(F(_), nodes) == [i \in DOMAIN nodes |-> F(nodes[i])]

(* AllNodes of a block, each put through F.                                *)
MapBlock(F(_), blk) ==
  [blk EXCEPT !.phis = MapNodes(F, @), !.body = MapNodes(F, @),
              !.term = F(@)]

Replace(v, old, new) == IF v = old THEN new ELSE v

(* The first occurrence of an id among the links of a block is replaced.   *)
ReplaceFirst(s, old, new) ==
  LET i == SelectInSeq(s, LAMBDA x : x = old)
  IN  IF i = 0 THEN s ELSE ReplaceAt(s, i, new)

----------------------------------------------------------------------------
(* Traversals.  Visit is the depth-first order in which traverseBlocks     *)
(* calls its action.                                                       *)
RECURSIVE Visit(_, _, _)
Visit(succ, b, seen) ==
  IF b \in ToSet(seen) THEN seen
  ELSE FoldLeft(LAMBDA s, c : Visit(succ, c, s), Append(seen, b), succ[b])

(* A function, evaluated once at every argument (for TLC's sake).          *)
Tabled(f) == f @@ <<>>

Succ(g) == Tabled([b \in DOMAIN g.blocks |-> g.blocks[b].next])
TraverseBlocks(g) == Visit(Succ(g), g.entry, <<>>)
Reachable(g) == ToSet(TraverseBlocks(g))

(* The order of the maps and sets of ids.                                  *)
Ascending(g, ids) ==
  SelectSeq([i \in 1 .. g.ids |-> i - 1], LAMBDA b : b \in ids)

(* What GraphInfo computes, by definition (module GraphInfo is about how): *)
(* a dominates b when no path from the entry to b avoids a.                *)
Avoiding(g, a) ==
  IF a = g.entry THEN {}
  ELSE ToSet(Visit([b \in DOMAIN g.blocks |->
                      SelectSeq(g.blocks[b].next, LAMBDA c : c # a)],
                   g.entry, <<>>))

Dominators(g) ==
  LET reach == Reachable(g)
      avoid == Tabled([a \in reach |-> Avoiding(g, a)])
  IN  Tabled([b \in reach |-> {a \in reach : b \notin avoid[a]}])

Idom(dom, b) ==
  CHOOSE a \in dom[b] \ {b} : \A c \in dom[b] \ {b} : c \in dom[a]

(* getChildren, in the order of the ids.                                   *)
DomChildren(g, dom, a) ==
  Ascending(g, {b \in DOMAIN dom : dom[b] # {b} /\ Idom(dom, b) = a})

(* LoopsDetector::getLoops of a reducible graph: the head of each back arc *)
(* (an arc to itself is not classed as one), the tails that jump back to   *)
(* it and the blocks that reach them without passing the head.             *)
BackArcs(g, dom) ==
  {<<a, h>> \in (DOMAIN dom) \X (DOMAIN dom) :
     a # h /\ h \in ToSet(g.blocks[a].next) /\ h \in dom[a]}

LoopEnds(g, dom, h) == {arc[1] : arc \in {x \in BackArcs(g, dom) : x[2] = h}}

LoopBlocks(g, dom, h) ==
  LET pred == [b \in DOMAIN g.blocks |->
                 IF b = h THEN <<>> ELSE g.blocks[b].prev]
  IN  UNION {ToSet(Visit(pred, a, <<h>>)) : a \in LoopEnds(g, dom, h)}

Loops(g) ==
  LET dom == Dominators(g)
  IN  Tabled([h \in {x[2] : x \in BackArcs(g, dom)} |->
                [ends |-> LoopEnds(g, dom, h), blocks |-> LoopBlocks(g, dom, h)]])

(* The loops that hold loop h, the ones held by it.                        *)
Outer(loops, h) == {k \in DOMAIN loops \ {h} : h \in loops[k].blocks}
Inner(loops, h) == {k \in DOMAIN loops \ {h} : k \in loops[h].blocks}
=============================================================================
