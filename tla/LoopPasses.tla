------------------------------ MODULE LoopPasses ------------------------------
(***************************************************************************)
(* The transformations of loops: LoopInvMover (transformations/            *)
(* loop_inv_mover.cpp) and IntrinsicsDetector (intrinsics_detector.cpp).   *)
(* A module of operators.                                                  *)
(***************************************************************************)
EXTENDS GlobalPasses

(* traverseLoop of LoopInvMover: a block may be on the stack, and visited, *)
(* more than once.                                                         *)
RECURSIVE StackOrder(_, _, _, _)
StackOrder(g, loop, stack, visits) ==
  IF stack = <<>> THEN visits
  ELSE LET b == Last(stack)
           seen == Append(visits, b)
       IN  StackOrder(g, loop,
                      Front(stack) \o SelectSeq(g.blocks[b].next,
                        LAMBDA c : c \notin ToSet(seen) /\ c \in loop.blocks),
                      seen)

(* All is invariant that computes from values of outside, but for calls,   *)
(* addresses and allocations: loads and stores are.                        *)
IsNodeInvariant(node, varsInLoop) ==
  node.op \notin {"call", "access", "alloca"} /\ ArgsOf(node) \cap varsInLoop = {}

TakeInvariant(s, node) ==
  IF IsNop(node) \/ ~IsNodeInvariant(node, s.vars)
  THEN [s EXCEPT !.nodes = Append(@, node)]
  ELSE [s EXCEPT !.vars = @ \ {node.res}, !.taken = Append(@, node),
                 !.nodes = Append(@, Nop)]

TakeFromBlock(s, b) ==
  LET done == FoldLeft(TakeInvariant, [s EXCEPT !.nodes = <<>>], s.g.blocks[b].body)
  IN  [done EXCEPT !.g.blocks[b].body = done.nodes]

RECURSIVE TakeAll(_, _)
TakeAll(s, order) ==
  LET swept == FoldLeft(TakeFromBlock, s, order)
  IN  IF swept.vars = s.vars THEN swept ELSE TakeAll(swept, order)

(* A new block before the head takes the place of its only predecessor     *)
(* from outside; with more of them the pass gives up.                      *)
MoveInvariantNodes(t, h, loop, taken) ==
  LET pre == t.g.ids
      outer == SelectSeq(t.g.blocks[h].prev, LAMBDA p : p \notin loop.ends)
      withPre == [CreateBlock(t.g) EXCEPT
                    !.blocks[pre] = [@ EXCEPT !.body = taken, !.term = Jump,
                                              !.prev = outer, !.next = <<h>>]]
      Relinked(b, blk) ==
        CASE b \in ToSet(outer) -> [blk EXCEPT !.next = ReplaceFirst(@, h, pre)]
          [] b = h /\ outer # <<>> -> [blk EXCEPT !.prev = ReplaceFirst(@, outer[1], pre)]
          [] OTHER -> blk
  IN  IF Len(t.g.blocks[h].prev) - 1 = Cardinality(loop.ends)
      THEN Changed(t, [withPre EXCEPT !.blocks = [b \in DOMAIN @ |-> Relinked(b, @[b])]])
      ELSE Fail(t, "Many external arcs in loop head")

(* The loops are those of the graph the pass was given.                    *)
PassLoop(t, h, loop) ==
  LET order == StackOrder(t.g, loop, <<h>>, <<>>)
      vars == {n.res : n \in NodesAt(t.g, ToSet(order))} \ {NoValue}
      s == TakeAll([g |-> t.g, vars |-> vars, taken |-> <<>>, nodes |-> <<>>], order)
  IN  IF t.err # "none" \/ s.taken = <<>> THEN t
      ELSE MoveInvariantNodes([t EXCEPT !.g = s.g], h, loop, s.taken)

(* The loops from the outermost ones inward; a loop is met once for each   *)
(* chain of loops around it.                                               *)
RECURSIVE NestOrder(_, _, _)
NestOrder(g, loops, h) ==
  LET nests == Ascending(g, Inner(loops, h))
  IN  <<h>> \o FlattenSeq([i \in DOMAIN nests |-> NestOrder(g, loops, nests[i])])

LoopInvMover(g) ==
  LET loops == Loops(g)
      tops == Ascending(g, {h \in DOMAIN loops : Outer(loops, h) = {}})
      order == FlattenSeq([i \in DOMAIN tops |-> NestOrder(g, loops, tops[i])])
      t == FoldLeft(LAMBDA u, h : PassLoop(u, h, loops[h]), Start(g), order)
  IN  Then(Then(t, RemoveNops), RemoveTransitBlocks)

----------------------------------------------------------------------------
(* IntrinsicsDetector: a loop that counts how often a number can be        *)
(* shifted to the right until its lowest bit is set.                       *)
(* An operation on v and on the constant n, in either order.               *)
OnConst(node, op, v, n) ==
  node.op = op /\ node.args \in {<<Const(n), v>>, <<v, Const(n)>>}

ExitsOnlyAtHead(g, h, loop) ==
  \A b \in loop.blocks \ {h} : ToSet(g.blocks[b].next) \subseteq loop.blocks

(* examForCTZ: in the head, the first shift of a number by the counter,    *)
(* after it the first test of the lowest bit of the result, after that the *)
(* first comparison of the bit with 0; the branch on it goes on with the   *)
(* loop, and the counter is incremented elsewhere in the loop.             *)
FirstAfter(body, i, Is(_)) ==
  LET at == {j \in DOMAIN body : j > i /\ Is(body[j])}
  IN  IF at = {} THEN 0 ELSE CHOOSE j \in at : \A k \in at : j <= k

ExamForCTZ(g, h, loop, counter, inductive) ==
  LET body == g.blocks[h].body
      shift == FirstAfter(body, 0, LAMBDA n : n.op = "SHR" /\ n.args[2] = counter)
      bit == IF shift = 0 THEN 0
             ELSE FirstAfter(body, shift, LAMBDA n : OnConst(n, "AND", body[shift].res, 1))
      test == IF bit = 0 THEN 0
              ELSE FirstAfter(body, bit, LAMBDA n : OnConst(n, "EQ", body[bit].res, 0))
      term == g.blocks[h].term
      steps == {n \in NodesAt(g, loop.blocks \ {h}) : n.res = inductive}
  IN  IF /\ test # 0
         /\ term.op = "BRANCH" /\ term.args = <<body[test].res>>
         /\ g.blocks[h].next[1] \in loop.blocks /\ g.blocks[h].next[2] \notin loop.blocks
         /\ steps # {} /\ \A n \in steps : OnConst(n, "ADD", counter, 1)
      THEN {body[shift].args[1]} ELSE {}

(* The counter of such a loop is replaced, behind the loop, by the count   *)
(* of trailing zeros, computed in the head.                                *)
UseIntrinsic(t, h, loop, counter, arg) ==
  LET new == Reg(t.g.regs)
      out == CHOOSE b \in ToSet(t.g.blocks[h].next) : b \notin loop.blocks
      counted == [t.g EXCEPT !.regs = @ + 1,
                             !.blocks[h].body = Append(@, Node("CTZ", new, <<arg>>))]
      behind == ToSet(Visit(Succ(t.g), out, <<h>>)) \ {h}
      Use(node) == MapArgs(LAMBDA v : Replace(v, counter, new), node)
  IN  Changed(t, [counted EXCEPT !.blocks = [b \in DOMAIN @ |->
                    IF b \in behind THEN MapBlock(Use, @[b]) ELSE @[b]]])

(* The first predecessor of the head has to be the one from outside: the   *)
(* exchange of the two arcs for the other case exchanges nothing.          *)
DetectInLoop(t, h, loop) ==
  LET head == t.g.blocks[h]
      Exam(phi) == ExamForCTZ(t.g, h, loop, phi.res, phi.args[2])
      i == SelectInSeq(head.phis, LAMBDA phi :
             phi.args[1] = Const(0) /\ IsVReg(phi.args[2]) /\ Exam(phi) # {})
  IN  CASE t.err # "none" \/ ~ExitsOnlyAtHead(t.g, h, loop) \/ Len(head.prev) # 2 -> t
        [] t.err = "none" /\ ExitsOnlyAtHead(t.g, h, loop) /\ Len(head.prev) = 2
             /\ (head.prev[1] \in loop.blocks \/ head.prev[2] \notin loop.blocks) ->
             Fail(t, "Something wrong with loop structure")
        [] OTHER -> IF i = 0 THEN t
                    ELSE UseIntrinsic(t, h, loop, head.phis[i].res,
                                      CHOOSE v \in Exam(head.phis[i]) : TRUE)

(* What LoopInvMover changes is not counted as a change of this pass.      *)
TakeGraph(t, moved) ==
  IF moved.err = "none" THEN [t EXCEPT !.g = moved.g] ELSE Fail(t, moved.err)
MoveInvariantsOf(t) == TakeGraph(t, LoopInvMover(t.g))

(* The loop, and the counter it counts with, are of no use any more.       *)
CleanLoops(t) ==
  LET useful == Then(Then(t, RemoveUselessLoops), RemoveUselessNodes)
      branches == Then(Then(useful, RemoveNops), RemoveUselessBranches)
  IN  Then(Then(branches, RemoveUnreachableBlocks), RemoveTransitBlocks)

IntrinsicsDetector(g) ==
  LET loops == Loops(g)
      leaves == Ascending(g, {h \in DOMAIN loops : Inner(loops, h) = {}})
      t == FoldLeft(LAMBDA u, h : DetectInLoop(u, h, loops[h]), Start(g), leaves)
  IN  CleanLoops(Then(t, MoveInvariantsOf))
=============================================================================
