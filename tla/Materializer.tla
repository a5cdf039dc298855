----------------------------- MODULE Materializer -----------------------------
(***************************************************************************)
(* What becomes of a finished graph: IR2LLVM (ir_2_llvm.cpp) makes an      *)
(* instruction of each node and LLVM's verifier looks at the function; and *)
(* what the function then does, which is what an optimization must keep.   *)
(* A module of operators.                                                  *)
(***************************************************************************)
EXTENDS LoopPasses

(* createFunctions: blocks are made in the order of a queue that goes down *)
(* the tree of dominators; regsMap holds the registers made so far.        *)
RECURSIVE BuildOrder(_, _, _)
BuildOrder(g, dom, queue) ==
  IF queue = <<>> THEN <<>>
  ELSE <<Head(queue)>> \o BuildOrder(g, dom, Tail(queue) \o DomChildren(g, dom, Head(queue)))

Results(nodes) == {n.res : n \in ToSet(nodes)} \ {NoValue}
RegArgs(node) == {v \in ArgsOf(node) : IsVReg(v)}

(* createBlock: nodes whose registers are not there yet throw.             *)
BuildNode(s, node) ==
  IF IsNop(node) THEN [s EXCEPT !.err = "null"]
  ELSE IF ~(RegArgs(node) \subseteq s.regsMap) THEN [s EXCEPT !.err = "regsMap.at"]
  ELSE [s EXCEPT !.regsMap = @ \cup {node.res}]

BuildBlock(s, blk) ==
  LET phis == [s EXCEPT !.regsMap = @ \cup Results(blk.phis)]
      body == FoldLeft(BuildNode, phis, blk.body)
      atRet == blk.term.op = "RET" /\ ~(RegArgs(blk.term) \subseteq body.regsMap)
  IN  IF atRet THEN [body EXCEPT !.err = "regsMap.at"] ELSE body

(* Linking of blocks and phis; prev.at throws for a position without a     *)
(* predecessor.                                                            *)
BuildLinks(g, s, blk) ==
  /\ RegArgs(blk.term) \subseteq s.regsMap
  /\ \A phi \in ToSet(blk.phis) :
       /\ RegArgs(phi) \subseteq s.regsMap
       /\ DOMAIN phi.args \subseteq DOMAIN blk.prev

Materialize(g) ==
  LET dom == Dominators(g)
      order == BuildOrder(g, dom, <<g.entry>>)
      built == FoldLeft(LAMBDA s, b : BuildBlock(s, g.blocks[b]),
                        [regsMap |-> {}, err |-> "none"], order)
  IN  CASE built.err # "none" -> built.err
        [] built.err = "none"
             /\ \E b \in ToSet(order) : ~BuildLinks(g, built, g.blocks[b]) -> "links"
        [] OTHER -> "none"

(***************************************************************************)
(* verifyFunction of LLVM (external): a register has one definition, which *)
(* dominates its uses (an argument of a phi is used at the end of the      *)
(* predecessor); a phi has one entry for each arc into its block.          *)
(***************************************************************************)
(* Where registers are defined: block and place, phis at place 0.          *)
Places(blk) ==
  {<<n.res, 0>> : n \in ToSet(blk.phis)}
    \cup {<<blk.body[i].res, i>> : i \in DOMAIN blk.body}

DefsOf(g, b) == {d \in Places(g.blocks[b]) : IsVReg(d[1])}

SingleDefs(g, reach) ==
  LET defs == Tabled([b \in reach |-> {d[1] : d \in DefsOf(g, b)}])
      Defining(b) == SelectSeq(g.blocks[b].phis \o g.blocks[b].body, LAMBDA n : IsVReg(n.res))
  IN  \A a \in reach :
        /\ Cardinality(defs[a]) = Len(Defining(a))
        /\ \A b \in reach \ {a} : defs[a] \cap defs[b] = {}

(* The registers that may be used in block b before place i.               *)
Available(g, dom, b, i) ==
  {d[1] : d \in {x \in DefsOf(g, b) : x[2] < i}}
    \cup UNION {{d[1] : d \in DefsOf(g, a)} : a \in dom[b] \ {b}}

DefsDominateUses(g, dom) ==
  \A b \in DOMAIN dom :
    LET blk == g.blocks[b]
        AtEnd(a) == Available(g, dom, a, Len(g.blocks[a].body) + 1)
    IN  /\ \A i \in DOMAIN blk.body : RegArgs(blk.body[i]) \subseteq Available(g, dom, b, i)
        /\ RegArgs(blk.term) \subseteq AtEnd(b)
        /\ \A phi \in ToSet(blk.phis) : \A i \in DOMAIN phi.args :
             IsVReg(phi.args[i]) /\ i \in DOMAIN blk.prev /\ blk.prev[i] \in DOMAIN dom
               => phi.args[i] \in AtEnd(blk.prev[i])

(* As many entries of block a in a phi as there are arcs from it.          *)
PhisMatchArcs(g, reach) ==
  \A b \in reach : \A phi \in {n \in ToSet(g.blocks[b].phis) : ~IsNop(n)} :
    /\ DOMAIN phi.args \subseteq DOMAIN g.blocks[b].prev
    /\ \A a \in reach :
         Cardinality({i \in DOMAIN phi.args : g.blocks[b].prev[i] = a})
           = Cardinality({j \in DOMAIN g.blocks[a].next : g.blocks[a].next[j] = b})

(***************************************************************************)
(* What a unit does.  The calls of the functions it does not define are    *)
(* seen from outside, with their arguments; "in" answers with the next     *)
(* number of the input, 0 at its end.  A run that takes more than Fuel     *)
(* blocks is cut.                                                          *)
(***************************************************************************)
CONSTANT Fuel

NumberOf(v, env, params) ==
  CASE v[1] = "val" -> v[2]
    [] v[1] = "reg" -> IF v \in DOMAIN env THEN env[v] ELSE 0
    [] v[1] = "param" -> params[v[2] + 1]
    [] OTHER -> 0

(* A register that holds an address holds the register it was made for.    *)
OperResult(node, args) ==
  CASE node.op = "MOV" -> args[1]
    [] node.op = "CTZ" -> A!TrailingZeros(args[1], A!Bits("U32"))
    [] node.op \in A!CompareOps -> IF A!Compare(node.op, args[1], args[2]) THEN 1 ELSE 0
    [] node.op \in A!GeneralOps \cup A!IntegerOps ->
         IF A!NoResult(node.op, args[1], args[2], "U32") THEN 0
         ELSE A!Compute(node.op, args[1], args[2], "U32")

(* s: the values of the registers (env) and of the memory (mem) of the     *)
(* function that runs, the input that is left, the calls seen (trace), the *)
(* fuel, and whether the run was cut.                                      *)
RECURSIVE RunFunction(_, _, _, _), RunBlock(_, _, _, _, _, _)

RunNode(unit, params, s, node) ==
  LET args == [i \in DOMAIN node.args |-> NumberOf(node.args[i], s.env, params)]
      Set(u, n) == IF node.res = NoValue THEN u
                   ELSE [u EXCEPT !.env = (node.res :> n) @@ @]
      addr == node.args[1]
  IN  CASE node.op = "nop" \/ s.cut -> s
        [] node.op = "alloca" -> [s EXCEPT !.mem = (node.res :> 0) @@ @]
        [] node.op = "load" -> Set(s, s.mem[addr])
        [] node.op = "store" -> [s EXCEPT !.mem = (addr :> args[2]) @@ @]
        [] node.op = "call" /\ node.fun \in DOMAIN unit ->
             LET r == RunFunction(unit, node.fun, args, s)
             IN  Set([r.s EXCEPT !.env = s.env, !.mem = s.mem], r.ret)
        [] node.op = "call" /\ node.fun = "in" ->
             IF s.input = <<>> THEN Set(s, 0)
             ELSE Set([s EXCEPT !.input = Tail(@)], Head(s.input))
        [] node.op = "call" /\ node.fun \in PureFuns -> Set(s, args[1])
        [] node.op = "call" ->
             Set([s EXCEPT !.trace = Append(@, <<node.fun, args>>)], 0)
        [] OTHER -> Set(s, OperResult(node, args))

RunBlock(unit, g, params, s, from, b) ==
  LET blk == g.blocks[b]
      pos == SelectInSeq(blk.prev, LAMBDA p : p = from)
      chosen == [r \in Results(blk.phis) |->
                   LET phi == CHOOSE n \in ToSet(blk.phis) : n.res = r
                   IN  IF pos \in DOMAIN phi.args
                       THEN NumberOf(phi.args[pos], s.env, params) ELSE 0]
      started == [s EXCEPT !.env = chosen @@ @, !.fuel = @ - 1, !.cut = @ \/ s.fuel = 0]
      done == FoldLeft(LAMBDA u, n : RunNode(unit, params, u, n), started, blk.body)
      value == IF blk.term.args = <<>> THEN 0
               ELSE NumberOf(blk.term.args[1], done.env, params)
  IN  CASE done.cut -> [s |-> done, ret |-> 0]
        [] ~done.cut /\ blk.term.op = "RET" -> [s |-> done, ret |-> value]
        [] ~done.cut /\ blk.term.op = "BRANCH" /\ value = 0 ->
             RunBlock(unit, g, params, done, b, blk.next[2])
        [] OTHER -> RunBlock(unit, g, params, done, b, blk.next[1])

RunFunction(unit, fun, params, s) ==
  RunBlock(unit, unit[fun].g, params, [s EXCEPT !.env = <<>>, !.mem = <<>>], -1,
           unit[fun].g.entry)

Outcome(unit, input) ==
  LET r == RunFunction(unit, "main", <<>>,
             [env |-> <<>>, mem |-> <<>>, input |-> input, trace |-> <<>>,
              fuel |-> Fuel, cut |-> FALSE])
  IN  [trace |-> r.s.trace, ret |-> r.ret, cut |-> r.s.cut]

InputsOf == {<<a, b>> : a, b \in {0, 1}}
Behaviour(unit) == [input \in InputsOf |-> Outcome(unit, input)]

(* The same calls and result, up to where a run was cut.                   *)
SameOutcome(p, q) ==
  IF p.cut THEN IsPrefix(p.trace, q.trace) \/ IsPrefix(q.trace, p.trace)
  ELSE p = q
=============================================================================
