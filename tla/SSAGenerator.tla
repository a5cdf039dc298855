----------------------------- MODULE SSAGenerator -----------------------------
(***************************************************************************)
(* How a function gets into SSA form: VarsVirtualizer (transformations/    *)
(* vars_virtualizer.cpp) turns allocated scalars into variables,           *)
(* SSA_Generator (ssa_generator.cpp) places phis and gives each assignment *)
(* a register of its own.  A module of operators.                          *)
(***************************************************************************)
EXTENDS CfgCleaner

(* The queue of passFunction: a block is marked when it is taken out, so   *)
(* that it may be queued, and visited, more than once.                     *)
RECURSIVE QueueOrder(_, _, _)
QueueOrder(g, queue, visits) ==
  IF queue = <<>> THEN visits
  ELSE LET b == Head(queue)
           seen == Append(visits, b)
       IN  QueueOrder(g, Tail(queue) \o SelectSeq(g.blocks[b].next,
                                          LAMBDA c : c \notin ToSet(seen)),
                      seen)

(* analyzeBlock: the allocations that only loads and stores use.  The      *)
(* escape of one is forgotten if its block is visited again.               *)
AnalyzeNode(vars, node) ==
  CASE node.op = "alloca" -> vars \cup {node.res}
    [] node.op = "load" -> vars
    [] node.op = "store" -> vars \ {node.args[2]}
    [] OTHER -> vars \ ArgsOf(node)

ToReduce(g, visits) ==
  FoldLeft(LAMBDA vars, b : FoldLeft(AnalyzeNode, vars, g.blocks[b].body),
           {}, visits)

(* optimizeBlock of one node: s is the graph's counter of registers, the   *)
(* variables given to allocations so far, and the nodes made.              *)
VirtualizeNode(s, node, vars) ==
  LET Used(n) == MapArgs(LAMBDA v : IF v \in vars THEN s.var[v] ELSE v, n)
      Made(n) == [s EXCEPT !.nodes = Append(@, Used(n))]
      var == s.var[node.args[1]]
  IN  CASE node.op = "alloca" /\ node.res \in vars ->
             [s EXCEPT !.var = (node.res :> Reg(s.regs)) @@ @,
                       !.regs = @ + 1, !.nodes = Append(@, Nop)]
        [] node.op = "store" /\ node.args[1] \in vars ->
             Made(Node("MOV", var, <<node.args[2]>>))
        [] node.op = "load" /\ node.args[1] \in vars ->
             Made(Node("MOV", node.res, <<var>>))
        [] OTHER -> Made(node)

VirtualizeBlock(s, b, vars) ==
  LET done == FoldLeft(LAMBDA u, n : VirtualizeNode(u, n, vars),
                       [regs |-> s.g.regs, var |-> s.var, nodes |-> <<>>],
                       s.g.blocks[b].body)
      Used(v) == IF v \in vars THEN done.var[v] ELSE v
  IN  [g |-> [s.g EXCEPT !.regs = done.regs, !.blocks[b].body = done.nodes,
                         !.blocks[b].term = MapArgs(Used, @)],
       var |-> done.var]

(* Mutant of VarsVirtualizer: the nodes it emptied are left in the blocks. *)
VirtualizerLeavingNops(g) ==
  LET visits == QueueOrder(g, <<g.entry>>, <<>>)
      vars == ToReduce(g, visits)
      s == FoldLeft(LAMBDA u, b : VirtualizeBlock(u, b, vars),
                    [g |-> g, var |-> <<>>], visits)
  IN  RemoveTransitBlocks(RemoveUnreachableBlocks(Update(Start(g), s.g)))

VarsVirtualizer(g) ==
  LET visits == QueueOrder(g, <<g.entry>>, <<>>)
      vars == ToReduce(g, visits)
      s == FoldLeft(LAMBDA u, b : VirtualizeBlock(u, b, vars),
                    [g |-> g, var |-> <<>>], visits)
      passed == Update(Start(g), s.g)
  IN  RemoveTransitBlocks(RemoveUnreachableBlocks(RemoveNops(passed)))

----------------------------------------------------------------------------
(* placePhis: the dominance frontier of a block from its successors and    *)
(* from its children in the tree of dominators (makeVerticesDF), and the   *)
(* blocks where definitions join (getSetDFP).                              *)
RECURSIVE VerticesDF(_, _, _)
VerticesDF(g, dom, x) ==
  LET kids == DomChildren(g, dom, x)
      below == UNION {VerticesDF(g, dom, kids[i]) : i \in DOMAIN kids}
      IdomIs(y) == dom[y] # {y} /\ Idom(dom, y) = x
  IN  {y \in ToSet(g.blocks[x].next) \cup below : ~IdomIs(y)}

RECURSIVE GetSetDFP(_, _, _)
GetSetDFP(df, S, found) ==
  LET more == UNION {df[x] : x \in S \cup found}
  IN  IF more = found THEN found ELSE GetSetDFP(df, S, more)

Definitions(blk) ==
  {v \in {n.res : n \in ToSet(blk.phis \o blk.body)} : IsVReg(v)}
References(blk) ==
  {v \in UNION {ArgsOf(n) : n \in ToSet(AllNodes(blk))} : IsVReg(v)}

RegsAscending(g, vars) ==
  SelectSeq([i \in 1 .. g.regs |-> Reg(i - 1)], LAMBDA v : v \in vars)

PlacePhis(g, dom) ==
  LET df == Tabled([x \in DOMAIN dom |-> VerticesDF(g, dom, x)])
      defs == Tabled([b \in DOMAIN g.blocks |-> Definitions(g.blocks[b])])
      JP(v) == GetSetDFP(df, {b \in DOMAIN defs : v \in defs[b]}, {})
      vars == RegsAscending(g, UNION {defs[b] : b \in DOMAIN defs})
      join == Tabled([v \in ToSet(vars) |-> JP(v)])
      Phis(b) == LET here == SelectSeq(vars, LAMBDA v : b \in join[v])
                 IN  [i \in DOMAIN here |-> Node("phi", here[i], <<>>)]
  IN  [g EXCEPT !.blocks = [b \in DOMAIN @ |->
                              [@[b] EXCEPT !.phis = @ \o Phis(b)]]]

----------------------------------------------------------------------------
(* traverseForVar: one variable, down the tree of dominators; top is the   *)
(* version on top of the stack, s.phis (phiRess) are the results the phis  *)
(* of the variable may have by now.                                        *)
NewVersion(s) == [s EXCEPT !.top = Reg(s.regs), !.regs = @ + 1]

VersionNode(s, node, var) ==
  LET used == MapArgs(LAMBDA v : IF v = var THEN s.top ELSE v, node)
      next == IF node.res = var THEN NewVersion(s) ELSE s
  IN  [next EXCEPT !.nodes = Append(@, IF node.res = var
                                       THEN [used EXCEPT !.res = next.top]
                                       ELSE used)]

(* The argument for block b of the phi of the variable in block c: at the  *)
(* first position among the predecessors of c that is b.                   *)
SetPhiArg(g, phis, b, c, top) ==
  LET j == SelectInSeq(g.blocks[c].prev, LAMBDA p : p = b)
      i == SelectInSeq(g.blocks[c].phis, LAMBDA n : n.res \in phis)
  IN  IF i = 0 THEN g
      ELSE [g EXCEPT !.blocks[c].phis[i].args = @ @@ (j :> top)]

RECURSIVE TraverseForVar(_, _, _, _, _)
TraverseForVar(s, dom, b, var, top) ==
  LET blk == s.g.blocks[b]
      i == SelectInSeq(blk.phis, LAMBDA n : n.res = var)
      start == [regs |-> s.g.regs, top |-> top, nodes |-> <<>>]
      atPhi == IF i = 0 THEN start ELSE NewVersion(start)
      done == FoldLeft(LAMBDA u, n : VersionNode(u, n, var), atPhi, blk.body)
      phis == IF i = 0 THEN s.phis ELSE s.phis \cup {atPhi.top}
      versioned ==
        [s.g EXCEPT !.regs = done.regs,
                    !.blocks[b] =
          [@ EXCEPT !.phis = IF i = 0 THEN @ ELSE [@ EXCEPT ![i].res = atPhi.top],
                    !.body = done.nodes,
                    !.term = MapArgs(LAMBDA v : IF v = var THEN done.top ELSE v, @)]]
      passed == FoldLeft(LAMBDA g, c : SetPhiArg(g, phis, b, c, done.top),
                         versioned, blk.next)
  IN  FoldLeft(LAMBDA u, c : TraverseForVar(u, dom, c, var, done.top),
               [g |-> passed, phis |-> phis], Reverse(DomChildren(s.g, dom, b)))

Versionize(g, dom) ==
  LET blks == {g.blocks[b] : b \in DOMAIN g.blocks}
      vars == RegsAscending(g, UNION {Definitions(k) \cup References(k) : k \in blks})
  IN  FoldLeft(LAMBDA h, v :
                 TraverseForVar([g |-> h, phis |-> {v}], dom, h.entry, v, Undef).g,
               g, vars)

SSA_Generator(g) ==
  LET dom == Dominators(g)
      passed == Update(Start(g), Versionize(PlacePhis(g, dom), dom))
  IN  Then(Then(passed, RemoveUselessNodes), RemoveNops)
=============================================================================
