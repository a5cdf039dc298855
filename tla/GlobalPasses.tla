----------------------------- MODULE GlobalPasses -----------------------------
(***************************************************************************)
(* The transformations that look at calls (transformations/                *)
(* global_transformers.cpp): TailrecEliminator and FunctionsInliner.  A    *)
(* module of operators.                                                    *)
(*                                                                         *)
(* A unit gives each function [params, inline, g]: the number of its       *)
(* parameters, whether it is inline, and its graph.                        *)
(***************************************************************************)
EXTENDS ComputingPasses

(* Mutant of IsTailCall: whom the last call calls is not looked at.        *)
IsLastCall(blk, f) ==
  /\ blk.term.op = "RET" /\ blk.body # <<>>
  /\ LET call == Last(blk.body)
     IN  /\ call.op = "call"
         /\ blk.term.args # <<>> => call.res # NoValue /\ call.res = blk.term.args[1]

(* The blocks that end with a call of the function itself and return its   *)
(* result, or nothing.                                                     *)
IsTailCall(blk, f) ==
  /\ blk.term.op = "RET" /\ blk.body # <<>>
  /\ LET call == Last(blk.body)
     IN  /\ call.op = "call" /\ call.fun = f
         /\ blk.term.args # <<>> => call.res # NoValue /\ call.res = blk.term.args[1]

FindTailCalls(g, f) ==
  SelectSeq(TraverseBlocks(g), LAMBDA b : IsTailCall(g.blocks[b], f))

(* replaceParams: only the nodes of the bodies are given the new values.   *)
ReplaceParams(g, newArg) ==
  LET New(v) == IF v \in DOMAIN newArg THEN newArg[v] ELSE v
      InBody(node) == MapArgs(New, node)
      reach == Reachable(g)
  IN  [g EXCEPT !.blocks = [b \in DOMAIN @ |->
         IF b \in reach THEN [@[b] EXCEPT !.body = MapNodes(InBody, @)] ELSE @[b]]]

(* A new head jumps to the old one, whose phis choose between the          *)
(* parameters and, from position 2 on, the arguments of each tail call.    *)
EliminateTailCalls(g, params, tails) ==
  LET old == g.entry
      head == g.ids
      phis == [a \in 1 .. params |->
                 Node("phi", Reg(g.regs + a - 1),
                      [i \in 1 .. Len(tails) + 1 |->
                         IF i = 1 THEN Param(a - 1)
                         ELSE Last(g.blocks[tails[i - 1]].body).args[a]])]
      linked == LinkBlocks(CreateBlock(g), head, old)
      headed == [linked EXCEPT !.entry = head, !.regs = @ + params,
                               !.blocks[head].term = Jump, !.blocks[old].phis = @ \o phis]
      Cut(h, b) == LinkBlocks([h EXCEPT !.blocks[b].term = Jump,
                                        !.blocks[b].body = Append(Front(@), Nop)], b, old)
  IN  ReplaceParams(FoldLeft(Cut, headed, tails),
                    [p \in {Param(a - 1) : a \in 1 .. params} |-> phis[p[2] + 1].res])

TailrecEliminator(g, f, params) ==
  LET tails == FindTailCalls(g, f)
      t == IF tails = <<>> THEN Start(g)
           ELSE Changed(Start(g), EliminateTailCalls(g, params, tails))
  IN  Then(Then(t, RemoveNops), RemoveUselessNodes)

----------------------------------------------------------------------------
(* FunctionsInliner.  inlineFunc: the blocks of the callee are copied with *)
(* ids and registers of their own, the parameters replaced by the          *)
(* arguments of the call, and each return becomes a jump to block ret.     *)
RegsOf(g, order) ==
  LET Results(b) == SelectSeq([i \in DOMAIN AllNodes(g.blocks[b]) |->
                                 AllNodes(g.blocks[b])[i].res], IsVReg)
  IN  FlattenSeq([i \in DOMAIN order |-> Results(order[i])])

Renamed(map, v) == IF v \in DOMAIN map THEN map[v] ELSE v

(* Mutant of RenameNode: results keep their registers.                     *)
RenameArgs(node, map) == MapArgs(LAMBDA v : Renamed(map, v), node)

RenameNode(node, map) ==
  [MapArgs(LAMBDA v : Renamed(map, v), node) EXCEPT !.res = Renamed(map, @)]

CloneBlock(blk, id, map, ret) ==
  LET copied == [MapBlock(LAMBDA node : RenameNode(node, map), blk) EXCEPT
                   !.prev = [i \in DOMAIN @ |-> id[@[i]]],
                   !.next = [i \in DOMAIN @ |-> id[@[i]]]]
  IN  IF blk.term.op = "RET" THEN [copied EXCEPT !.term = Jump, !.next = <<ret>>]
      ELSE copied

(* The result of the call: moved from the only return, a phi of several.   *)
ConcentrateReturns(call, values) ==
  CASE call.res = NoValue \/ values = <<>> -> [phis |-> <<>>, body |-> <<>>]
    [] Len(values) = 1 -> [phis |-> <<>>, body |-> <<Node("MOV", call.res, values)>>]
    [] OTHER -> [phis |-> <<Node("phi", call.res, values)>>, body |-> <<>>]

(* "Functions returns nothing, but caller expects value": so does one that *)
(* never returns.                                                          *)
LacksResult(unit, call) ==
  LET callee == unit[call.fun].g
  IN  /\ call.res # NoValue
      /\ \A c \in DOMAIN callee.blocks :
           callee.blocks[c].term.op = "RET" => callee.blocks[c].term.args = <<>>

(* The blocks of next have a new predecessor in place of an old one.       *)
Inherit(blocks, next, old, new) ==
  [c \in DOMAIN blocks |->
     IF c \in ToSet(next) THEN [blocks[c] EXCEPT !.prev = ReplaceAll(@, old, new)]
     ELSE blocks[c]]

(* passBlock, of the call at place i of block b: the block is cut there,   *)
(* the rest goes to a new block behind ret.                                *)
InlineCall(g, unit, b, i) ==
  LET call == g.blocks[b].body[i]
      callee == unit[call.fun].g
      order == Ascending(callee, DOMAIN callee.blocks)
      ret == g.ids
      rem == ret + Len(order) + 1
      id == [c \in ToSet(order) |-> ret + SelectInSeq(order, LAMBDA x : x = c)]
      regs == RegsOf(callee, order)
      map == [v \in ToSet(regs) |-> Reg(g.regs + SelectInSeq(regs, LAMBDA r : r = v) - 1)]
               @@ [p \in {Param(j - 1) : j \in DOMAIN call.args} |-> call.args[p[2] + 1]]
      rets == SelectSeq(order, LAMBDA c : callee.blocks[c].term.op = "RET")
      returned == SelectSeq(rets, LAMBDA c : callee.blocks[c].term.args # <<>>)
      clone == [k \in {id[c] : c \in ToSet(order)} |->
                  LET c == CHOOSE x \in ToSet(order) : id[x] = k
                      copy == CloneBlock(callee.blocks[c], id, map, ret)
                  IN  IF c = callee.entry THEN [copy EXCEPT !.prev = <<b>>] ELSE copy]
      result == ConcentrateReturns(call, [j \in DOMAIN returned |->
                  Renamed(map, callee.blocks[returned[j]].term.args[1])])
      retBlock == [EmptyBlock EXCEPT !.phis = result.phis, !.body = result.body,
                     !.term = Jump, !.prev = [j \in DOMAIN rets |-> id[rets[j]]],
                     !.next = <<rem>>]
      nops == [j \in i .. Len(g.blocks[b].body) |-> Nop]
      cut == [g.blocks[b] EXCEPT
                !.body = [j \in DOMAIN @ |-> IF j < i THEN @[j] ELSE nops[j]],
                !.term = Jump, !.next = <<id[callee.entry]>>]
      rest == [EmptyBlock EXCEPT
                 !.body = SubSeq(g.blocks[b].body, i + 1, Len(g.blocks[b].body)),
                 !.term = g.blocks[b].term, !.next = g.blocks[b].next, !.prev = <<ret>>]
      all == (b :> cut) @@ (ret :> retBlock) @@ (rem :> rest) @@ clone @@ g.blocks
  IN  [g EXCEPT !.ids = rem + 1, !.regs = @ + Len(regs),
         !.blocks = Inherit(all, g.blocks[b].next, b, rem)]

InlinePlace(g, unit, b) ==
  SelectInSeq(g.blocks[b].body,
              LAMBDA n : n.op = "call" /\ n.fun \in DOMAIN unit /\ unit[n.fun].inline)

(* Block b up to its first inline call, then what came behind the call.    *)
(* The graph of the function that is being optimized was moved out of the  *)
(* unit: a call of it has no entry to go to ("null").  A call whose result *)
(* is used must have one ("no result").                                    *)
RECURSIVE PassBlock(_, _, _, _)
PassBlock(t, unit, f, b) ==
  LET i == InlinePlace(t.g, unit, b)
      h == InlineCall(t.g, unit, b, i)
  IN  CASE i = 0 -> t
        [] i # 0 /\ t.g.blocks[b].body[i].fun = f -> Fail(t, "null")
        [] i # 0 /\ t.g.blocks[b].body[i].fun # f
             /\ LacksResult(unit, t.g.blocks[b].body[i]) -> Fail(t, "no result")
        [] OTHER -> PassBlock(Changed(t, h), unit, f, h.ids - 1)

RECURSIVE InlineAll(_, _, _)
InlineAll(t, unit, f) ==
  LET at == SelectSeq(Ascending(t.g, DOMAIN t.g.blocks),
                      LAMBDA b : InlinePlace(t.g, unit, b) # 0)
  IN  IF at = <<>> \/ t.err # "none" THEN t
      ELSE InlineAll(PassBlock(t, unit, f, at[1]), unit, f)

FunctionsInliner(g, unit, f) ==
  Then(Then(InlineAll(Start(g), unit, f), RemoveTransitBlocks), RemoveNops)
=============================================================================
