------------------------------ MODULE Optimizer ------------------------------
(***************************************************************************)
(* The optimization of a unit (main.cpp doOptimizations, optimizeFunction) *)
(* and its materialization: the passes in the order in which the compiler  *)
(* runs them, one action each, with the two bounded loops around them.     *)
(***************************************************************************)
EXTENDS Materializer

CONSTANTS
  Jobs,          \* programs, each with the options it is compiled with
  MaxIter,       \* the bound of the outer loop (10 or 20 in the code)
  MaxIter2       \* the bound of the inner loop (10 in the code)

ASSUME OptimizerAssumption ==
  /\ \A job \in Jobs : job.level \in 0 .. 2 /\ job.s1 \in BOOLEAN
  /\ MaxIter \in Nat \ {0} /\ MaxIter2 \in Nat \ {0}

VARIABLES
  unit,        \* the functions
  level,       \* -O
  intrinsics,  \* --s1: whether the detector of intrinsics runs
  todo,        \* the functions not optimized yet, the current one first
  stage,       \* the pass that runs next
  iter, iter2, changed, changed2,   \* of optimizeFunction
  promised     \* what the program did before any pass

vars == <<unit, level, intrinsics, todo, stage, iter, iter2, changed, changed2, promised>>
loop == <<iter, iter2, changed, changed2>>
fixed == <<level, intrinsics, promised>>

Stages == {"virtualize", "ssa", "tailrec", "inline", "algebraic", "cse", "copy",
           "loops", "intrinsics", "materialize", "done", "failed"}

Cur == Head(todo)
Graph == unit[Cur].g

(* The functions are met in the order of their ids: the callee before main.*)
Order(u) == IF DOMAIN u = {"main"} THEN <<"main">> ELSE <<"f", "main">>

Init ==
  /\ \E job \in Jobs : unit = job.unit /\ level = job.level /\ intrinsics = job.s1
  /\ todo = Order(unit)
  /\ stage = IF level = 0 THEN "materialize" ELSE "virtualize"
  /\ iter = 0 /\ iter2 = 0 /\ changed = FALSE /\ changed2 = FALSE
  /\ promised = Behaviour(unit)

(* applyPass: the graph a transformation leaves and where it goes on.      *)
Apply(t, next) ==
  IF t.err = "none"
  THEN unit' = [unit EXCEPT ![Cur].g = t.g] /\ stage' = next
  ELSE unit' = unit /\ stage' = "failed"

(* while (changed && iter < maxIter), and behind it the next function.     *)
NextRound(more) ==
  IF more /\ iter < MaxIter
  THEN /\ iter' = iter + 1 /\ iter2' = 0
       /\ changed' = FALSE /\ changed2' = FALSE /\ todo' = todo
  ELSE /\ iter' = 0 /\ iter2' = 0
       /\ changed' = more /\ changed2' = FALSE /\ todo' = Tail(todo)
AfterRound(more) ==
  CASE more /\ iter < MaxIter -> "algebraic"
    [] ~(more /\ iter < MaxIter) /\ Len(todo) > 1 -> "virtualize"
    [] OTHER -> "materialize"

Virtualize ==
  /\ stage = "virtualize"
  /\ Apply(VarsVirtualizer(Graph), "ssa")
  /\ UNCHANGED <<loop, fixed, todo>>

MakeSSA ==
  /\ stage = "ssa"
  /\ Apply(SSA_Generator(Graph), "tailrec")
  /\ UNCHANGED <<loop, fixed, todo>>

(* The flags of the passes before the loops are thrown away.               *)
EliminateTailrec ==
  /\ stage = "tailrec"
  /\ Apply(TailrecEliminator(Graph, Cur, unit[Cur].params),
           IF level >= 2 THEN "inline" ELSE "algebraic")
  /\ IF level >= 2 THEN UNCHANGED <<loop, todo>> ELSE NextRound(TRUE)
  /\ UNCHANGED fixed

Inline ==
  /\ stage = "inline"
  /\ Apply(FunctionsInliner(Graph, unit, Cur), "algebraic")
  /\ NextRound(TRUE)
  /\ UNCHANGED fixed

Algebraic ==
  /\ stage = "algebraic"
  /\ \E t \in {AlgebraicTransformer(Graph)} :
         Apply(t, "cse") /\ changed2' = t.changed
  /\ UNCHANGED <<iter, iter2, changed, fixed, todo>>

EliminateCommon ==
  /\ stage = "cse"
  /\ \E t \in {CommonSubexprElim(Graph)} :
         Apply(t, "copy") /\ changed2' = (changed2 \/ t.changed)
  /\ UNCHANGED <<iter, iter2, changed, fixed, todo>>

(* The last pass of the inner loop.                                        *)
Propagate ==
  /\ stage = "copy"
  /\ \E t \in {CopyPropagator(Graph)} : \E again \in {changed2 \/ t.changed} :
         CASE again /\ iter2 + 1 < MaxIter2 ->
                /\ Apply(t, "algebraic")
                /\ iter2' = iter2 + 1 /\ changed' = TRUE /\ changed2' = again
                /\ UNCHANGED <<iter, todo>>
           [] ~(again /\ iter2 + 1 < MaxIter2) /\ level >= 2 ->
                /\ Apply(t, "loops")
                /\ iter2' = iter2 + 1 /\ changed' = (changed \/ again)
                /\ changed2' = again /\ UNCHANGED <<iter, todo>>
           [] OTHER ->
                /\ Apply(t, AfterRound(changed \/ again))
                /\ NextRound(changed \/ again)
  /\ UNCHANGED fixed

MoveInvariants ==
  /\ stage = "loops"
  /\ \E t \in {LoopInvMover(Graph)} : \E more \in {changed \/ t.changed} :
         IF intrinsics
         THEN /\ Apply(t, "intrinsics") /\ changed' = more
              /\ UNCHANGED <<iter, iter2, changed2, todo>>
         ELSE Apply(t, AfterRound(more)) /\ NextRound(more)
  /\ UNCHANGED fixed

DetectIntrinsics ==
  /\ stage = "intrinsics"
  /\ \E t \in {IntrinsicsDetector(Graph)} : \E more \in {changed \/ t.changed} :
         Apply(t, AfterRound(more)) /\ NextRound(more)
  /\ UNCHANGED fixed

(* doMaterialization: every function, or an exception.                     *)
MaterializeUnit ==
  /\ stage = "materialize"
  /\ stage' = IF \A f \in DOMAIN unit : Materialize(unit[f].g) = "none"
              THEN "done" ELSE "failed"
  /\ UNCHANGED <<unit, loop, fixed, todo>>

Next ==
  \/ Virtualize \/ MakeSSA \/ EliminateTailrec \/ Inline
  \/ Algebraic \/ EliminateCommon \/ Propagate
  \/ MoveInvariants \/ DetectIntrinsics \/ MaterializeUnit

Spec == Init /\ [][Next]_vars

----------------------------------------------------------------------------
TypeOK ==
  /\ stage \in Stages /\ level \in 0 .. 2
  /\ iter \in 0 .. MaxIter /\ iter2 \in 0 .. MaxIter2
  /\ \A f \in DOMAIN unit :
       LET g == unit[f].g
       IN  /\ g.entry \in DOMAIN g.blocks /\ DOMAIN g.blocks \subseteq 0 .. g.ids - 1
           /\ \A b \in DOMAIN g.blocks :
                /\ ToSet(g.blocks[b].next) \subseteq DOMAIN g.blocks
                /\ Len(g.blocks[b].next) =
                     CASE g.blocks[b].term.op = "BRANCH" -> 2
                       [] g.blocks[b].term.op = "JUMP" -> 1
                       [] OTHER -> 0

(* No pass changes what the program does: for every input it makes the     *)
(* same calls with the same arguments and returns the same number.         *)
(* CommonSubexprElim may leave a move of a register that was not assigned  *)
(* on the way there; the next pass must repair it.                         *)
SameBehaviour ==
  stage # "copy" => \A input \in InputsOf : SameOutcome(promised[input], Outcome(unit, input))

(* No pass throws, dereferences an empty node or leaves the materializer   *)
(* a register it has not met: a valid program is compiled.                 *)
NothingFails == stage # "failed"

Optimized(f) ==
  level > 0 /\ (f \notin ToSet(todo) \/ (f = Cur /\ stage \notin {"virtualize", "ssa"}))

(* From the construction of SSA on, between any two passes: a register has *)
(* one definition and every use is dominated by it, but for the moves that *)
(* CommonSubexprElim leaves to the next pass.                              *)
InSSAForm(g) ==
  LET dom == Dominators(g)
  IN  SingleDefs(g, DOMAIN dom) /\ DefsDominateUses(g, dom)

SSAForm ==
  \A f \in DOMAIN unit :
    Optimized(f) /\ ~(stage = "copy" /\ f = Cur) => InSSAForm(unit[f].g)

(* verifyFunction finds no fault with a function that was materialized     *)
(* ("Verification failed", ir_2_llvm.cpp).                                 *)
Verified ==
  stage = "done" => \A f \in DOMAIN unit :
    InSSAForm(unit[f].g) /\ PhisMatchArcs(unit[f].g, Reachable(unit[f].g))

(* Between any two passes the two ends of an arc know each other, and a    *)
(* phi has its arguments at the positions of the predecessors, one for     *)
(* each arc, however blocks were merged, bypassed or removed.              *)
ArcsAgree ==
  \A f \in DOMAIN unit : Optimized(f) =>
    LET g == unit[f].g
        reach == Reachable(g)
    IN  /\ PhisMatchArcs(g, reach)
        /\ \A b \in reach : \A c \in reach :
             c \in ToSet(g.blocks[b].next) <=> b \in ToSet(g.blocks[c].prev)

(* The loops end because nothing changes any more, not at their bounds,    *)
(* unless the program calls for a result it does not use.                  *)
Converges ==
  stage \in {"materialize", "done"} /\ changed /\ level > 0 =>
    \E f \in DOMAIN unit : \E b \in DOMAIN unit[f].g.blocks :
      \E n \in ToSet(unit[f].g.blocks[b].body) : n.op = "call" /\ n.res = NoValue
=============================================================================
