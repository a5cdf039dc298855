------------------------------ MODULE CfgCleaner ------------------------------
(***************************************************************************)
(* The clean-up every transformation of a graph ends with                  *)
(* (transformations/cfg_cleaner.cpp).  A module of operators.              *)
(*                                                                         *)
(* Like an IRTransformer, a transformation works on a record               *)
(*   [g : the graph, changed : pass_changed, err : how it failed]          *)
(* and err is "none" as long as nothing was thrown.  "null" is the         *)
(* dereference of an empty node.                                           *)
(***************************************************************************)
EXTENDS FunctionIR, TLC

CONSTANT PureFuns   \* the functions declared pure

Start(g) == [g |-> g, changed |-> FALSE, err |-> "none"]
Changed(t, g) == [t EXCEPT !.g = g, !.changed = TRUE]
Update(t, g) == IF g = t.g THEN t ELSE Changed(t, g)
Fail(t, why) == [t EXCEPT !.err = why]

(* The step that follows t, if nothing was thrown before it; t is bound so *)
(* that it is computed once.                                               *)
Then(t, Step(_)) ==
  CHOOSE r \in {IF s.err = "none" THEN Step(s) ELSE s : s \in {t}} : TRUE

IsNop(node) == node.op = "nop"

KeptNodes(nodes) == SelectSeq(nodes, LAMBDA n : ~IsNop(n))
WithoutNops(g) ==
  [g EXCEPT !.blocks = [b \in DOMAIN @ |->
     [@[b] EXCEPT !.phis = KeptNodes(@), !.body = KeptNodes(@)]]]

(* Mutant of RemoveNops: the pass counts as a change whatever it found.    *)
RemoveNopsChanging(t) == Changed(t, WithoutNops(t.g))

RemoveNops(t) == Update(t, WithoutNops(t.g))

----------------------------------------------------------------------------
(* removeUselessNodes: what the stores, the calls that are not pure and    *)
(* the terminators use, and what those values are computed from.           *)
PrimaryEffective(node) ==
  CASE node.op = "store" -> ArgsOf(node)
    [] node.op = "call" /\ node.fun \notin PureFuns ->
         {v \in ArgsOf(node) : IsVReg(v)}
    [] node.op \in Terms -> ArgsOf(node)
    [] OTHER -> {}

NodesAt(g, ids) ==
  UNION {ToSet(AllNodes(g.blocks[b])) : b \in ids}

RECURSIVE ExtendEffective(_, _)
ExtendEffective(nodes, used) ==
  LET more == used \cup UNION {ArgsOf(n) : n \in {m \in nodes : m.res \in used}}
  IN  IF more = used THEN used ELSE ExtendEffective(nodes, more)

(* removeUnusedNodes of one node: a call only loses its result.            *)
RemoveUnused(node, used) ==
  IF node.res \in used THEN node
  ELSE CASE node.op = "call" -> [node EXCEPT !.res = NoValue]
         [] node.op \in Terms \cup {"store"} -> node
         [] OTHER -> Nop

(* A call whose result is not used counts as a change each time it is met. *)
UnusedCall(node, used) == node.op = "call" /\ node.res \notin used

RemoveUselessNodes(t) ==
  LET reach == Reachable(t.g)
      nodes == NodesAt(t.g, reach)
      used == ExtendEffective(nodes, UNION {PrimaryEffective(n) : n \in nodes})
      Needed(node) == RemoveUnused(node, used)
      cleaned == [t.g EXCEPT !.blocks =
                    [b \in DOMAIN @ |-> IF b \in reach THEN MapBlock(Needed, @[b])
                                        ELSE @[b]]]
  IN  IF \E n \in nodes : IsNop(n) THEN Fail(t, "null")
      ELSE IF \E n \in nodes : UnusedCall(n, used) THEN Changed(t, cleaned)
      ELSE Update(t, cleaned)

----------------------------------------------------------------------------
(* A branch whose two arcs lead to one block becomes a jump.  The block    *)
(* keeps both arcs among its predecessors.                                 *)
RemoveUselessBranches(t) ==
  LET Dual(blk) == blk.term.op = "BRANCH" /\ blk.next[1] = blk.next[2]
  IN  Update(t, [t.g EXCEPT !.blocks =
        [b \in DOMAIN @ |->
           IF Dual(@[b]) THEN [@[b] EXCEPT !.next = <<@[1]>>, !.term = Jump]
           ELSE @[b]]])

(* An empty block with one predecessor and no phis behind it: the test of  *)
(* the code on the predecessors of the next block always holds.            *)
IsTransit(g, b) ==
  /\ g.blocks[b].body = <<>> /\ g.blocks[b].phis = <<>>
  /\ g.blocks[b].term.op = "JUMP"
  /\ Len(g.blocks[b].prev) = 1
  /\ g.blocks[g.blocks[b].next[1]].phis = <<>>

(* Mutant of BypassBlock: the block before keeps its arc.                  *)
BypassOnce(g, b) ==
  [g EXCEPT !.blocks[g.blocks[b].next[1]].prev = ReplaceFirst(@, b, g.blocks[b].prev[1])]

(* Mutant of BypassBlock: the block behind is not told.                    *)
BypassForward(g, b) ==
  [g EXCEPT !.blocks[g.blocks[b].prev[1]].next = ReplaceFirst(@, b, g.blocks[b].next[1])]

BypassBlock(g, b) ==
  LET before == g.blocks[b].prev[1]
      after == g.blocks[b].next[1]
      h == [g EXCEPT !.blocks[before].next = ReplaceFirst(@, b, after)]
  IN  [h EXCEPT !.blocks[after].prev = ReplaceFirst(@, b, before)]

RemoveTransitBlocks(t) ==
  LET Bypass(s, b) ==
        IF IsTransit(s.g, b)
        THEN [g |-> BypassBlock(s.g, b), removed |-> s.removed \cup {b}]
        ELSE s
      first == RemoveUselessBranches(t)
      s == FoldLeft(Bypass, [g |-> first.g, removed |-> {}],
                    Ascending(first.g, DOMAIN first.g.blocks))
  IN  RemoveUselessBranches(Update(first, Erase(s.g, s.removed)))

RemoveUnreachableBlocks(t) ==
  LET reach == Reachable(t.g)
      Reached(a) == a \in reach
      h == Erase(t.g, DOMAIN t.g.blocks \ reach)
  IN  Update(t, [h EXCEPT !.blocks =
                   [b \in DOMAIN @ |->
                      [@[b] EXCEPT !.prev = SelectSeq(@, Reached)]]])

----------------------------------------------------------------------------
(* removeUselessLoops.                                                     *)
IsGeneralEffective(node) ==
  \/ node.op \in {"store", "RET"}
  \/ node.op = "call" /\ node.fun \notin PureFuns

LoopExits(g, loop) ==
  {<<b, i>> \in loop.blocks \X {1, 2} :
     /\ g.blocks[b].term.op = "BRANCH"
     /\ g.blocks[b].next[i] \notin loop.blocks}

IsLoopEffective(g, loop) ==
  LET inside == NodesAt(g, loop.blocks)
      assigned == {n.res : n \in inside} \ {NoValue}
      outside == NodesAt(g, Reachable(g) \ loop.blocks)
  IN  \/ \E n \in inside : IsGeneralEffective(n)
      \/ Cardinality(LoopExits(g, loop)) > 1
      \/ \E n \in outside : ArgsOf(n) \cap assigned # {}

(* The head gives its phis and all its predecessors, those in the loop     *)
(* too, to a new block that jumps to where the loop went on.               *)
BypassLoop(g, h, loop) ==
  LET exit == CHOOSE x \in LoopExits(g, loop) : TRUE
      out == g.blocks[exit[1]].next[exit[2]]
      c == g.ids
      prev == g.blocks[h].prev
      withC == CreateBlock(g)
      Linked(b, blk) ==
        [blk EXCEPT !.next = IF b \in ToSet(prev) THEN ReplaceAll(@, h, c) ELSE @,
                    !.prev = IF b = out THEN ReplaceAll(@, h, c) ELSE @]
      moved == [withC EXCEPT
                  !.blocks[c] = [@ EXCEPT !.phis = g.blocks[h].phis, !.term = Jump,
                                          !.next = <<out>>, !.prev = prev],
                  !.blocks[h] = [@ EXCEPT !.phis = <<>>, !.prev = <<>>]]
  IN  [moved EXCEPT !.blocks = [b \in DOMAIN @ |-> Linked(b, @[b])]]

RemoveUselessLoops(t) ==
  LET loops == Loops(t.g)
      Remove1(s, h) ==
        IF s.err # "none" \/ IsLoopEffective(s.g, loops[h]) THEN s
        ELSE IF LoopExits(s.g, loops[h]) = {} THEN Fail(s, "Wrong loop structure")
        ELSE Changed(s, BypassLoop(s.g, h, loops[h]))
  IN  FoldLeft(Remove1, t, Ascending(t.g, DOMAIN loops))
=============================================================================
