-------------------------------- MODULE IRFlow --------------------------------
(***************************************************************************)
(* What the graph built by IRGenerator means, compared with what the       *)
(* program means: the properties of a function's whole graph.  They are    *)
(* evaluated when the function is complete (mode "idle").                  *)
(***************************************************************************)
EXTENDS IRGenerator

Finished == mode = "idle" /\ cfg # <<>>

(* The points reached from a set of points, itself included, by at most n   *)
(* steps of a successor operator.                                           *)
Closure(start, succ(_), n) ==
    LET reach[k \in 0..n] ==
            IF k = 0 THEN start
            ELSE LET prev == reach[k - 1]
                 IN  prev \cup UNION {succ(p) : p \in prev}
    IN  reach[n]

Succs(b) == ToSet(cfg[b].next)

(* Blocks reached from the set start by paths that stay out of avoid. *)
ReachAvoiding(start, avoid) ==
    Closure(start \ avoid, LAMBDA b : Succs(b) \ avoid, Len(cfg))

Reachable == ReachAvoiding({1}, {})

Dominates(d, b) == b \notin ReachAvoiding({1}, {d})

InCycle(b) == b \in ReachAvoiding(Succs(b), {})

-----------------------------------------------------------------------------
(* The source program: nesting of the elements of ast. *)

Openers == {"if", "ifelse", "while", "do", "for", "switch", "compound"}
Closers == {"endif", "endloop", "endswitch", "endcompound"}

Texts == DOMAIN ast
Kind(p) == ast[p].kind

DepthAfter ==
    LET d[p \in 0..Len(ast)] ==
            IF p = 0 THEN 0
            ELSE d[p - 1] + (IF Kind(p) \in Openers THEN 1
                             ELSE IF Kind(p) \in Closers THEN -1 ELSE 0)
    IN  d

(* The end of the statement opened at p, its else, and the statements of    *)
(* some kinds around p, innermost first.                                    *)
EndOf(p) == CHOOSE q \in Texts :
    /\ q > p /\ Kind(q) \in Closers /\ DepthAfter[q] = DepthAfter[p] - 1
    /\ \A r \in (p + 1)..(q - 1) : DepthAfter[r] >= DepthAfter[p]
ElseOf(p) == CHOOSE q \in (p + 1)..EndOf(p) :
    Kind(q) = "else" /\ DepthAfter[q] = DepthAfter[p]
Around(p, kinds) == {q \in Texts : Kind(q) \in kinds /\ q < p /\ p <= EndOf(q)}
Innermost(S) == CHOOSE q \in S : \A r \in S : r <= q

LoopsAround(p) == Around(p, {"while", "do", "for"})
Nearest(p) == Innermost(Around(p, {"while", "do", "for", "switch"}))

(* The labels a switch at p may jump to, its default included. *)
CasesOf(p, kind) ==
    {q \in Texts : /\ Kind(q) = kind
                   /\ Around(q, {"switch"}) # {}
                   /\ Innermost(Around(q, {"switch"})) = p}

-----------------------------------------------------------------------------
(***************************************************************************)
(* The control flow C gives the program.  A point <<p, "at">> is before    *)
(* element p, <<p, "next">> before the condition of the loop p or, in a    *)
(* for loop that has one, its last action: where continue and the end of   *)
(* the body lead.  <<Len(ast) + 1, "at">> is the end of the function.      *)
(***************************************************************************)
Before(p) == <<p, "at">>
Follow(p) == <<p + 1, "at">>
Again(p)  == <<p, "next">>
ExitPoint == Before(Len(ast) + 1)

BodyOf(p) == IF Kind(p) = "for" THEN Follow(p + 1) ELSE Follow(p)
Tested(p) == {BodyOf(p), Follow(EndOf(p))}

Step(pt) ==
    LET p == pt[1]
        k == Kind(p)
    IN  IF pt = ExitPoint THEN {}
        ELSE IF pt[2] = "next" THEN IF k = "act" THEN {Before(p - 1)} ELSE Tested(p)
        ELSE
        CASE k = "if"          -> {Follow(p), Follow(EndOf(p))}
          [] k = "ifelse"      -> {Follow(p), Follow(ElseOf(p))}
          [] k = "else"        -> {Follow(EndOf(Innermost(Around(p, {"ifelse"}))))}
          [] k = "do"          -> {Follow(p)}
          [] k \in {"while", "for"} -> Tested(p)
          [] k \in {"endloop", "continue"} ->
                LET l == Innermost(LoopsAround(p))
                IN  {IF Kind(l) = "for" /\ ast[l + 1].arg # "none"
                     THEN Again(l + 1)
                     ELSE IF Kind(l) = "do" THEN Again(l) ELSE Before(l)}
          [] k = "break"       -> {Follow(EndOf(Nearest(p)))}
          [] k = "switch"      ->
                {Follow(q) : q \in CasesOf(p, "case")} \cup
                (IF CasesOf(p, "default") = {} THEN {Follow(EndOf(p))}
                 ELSE {Follow(q) : q \in CasesOf(p, "default")})
          [] k = "goto"        ->
                {Follow(q) : q \in {r \in Texts : /\ Kind(r) = "label"
                                                 /\ ast[r].arg = ast[p].arg}}
          [] k = "return"      -> {ExitPoint}
          [] OTHER             -> {Follow(p)}

Points == {Before(p) : p \in Texts} \cup {Again(p) : p \in Texts}

(* Where an element's expression is evaluated; one of shape "plain" leaves  *)
(* a mark, the element's index, in the graph.                               *)
Evaluates(pt) ==
    IF pt = ExitPoint THEN FALSE
    ELSE IF pt[2] = "next" THEN Kind(pt[1]) \in {"do", "act"}
    ELSE Kind(pt[1]) \notin {"do", "act"}
Marked(pt) == Evaluates(pt) /\ ast[pt[1]].arg = "plain"

TestKinds == {"if", "ifelse", "while", "do", "for"}

(* The outcome of the test at p that leads to the point q. *)
Outcome(p, q) == IF Kind(p) \notin TestKinds THEN "none"
                 ELSE IF q = BodyOf(p) THEN "true" ELSE "false"

Exit == Len(ast) + 1

(* The marks met first from a point on, Exit when the function may end.     *)
SourceMarks(start) ==
    LET met == Closure({start}, LAMBDA pt : IF Marked(pt) THEN {} ELSE Step(pt),
                       2 * Len(ast))
    IN  {pt[1] : pt \in {q \in met : Marked(q)}}
            \cup (IF ExitPoint \in met THEN {Exit} ELSE {})

SourceFlow ==
    {<<0, "none", m>> : m \in SourceMarks(Before(1))} \cup
    UNION {{<<e[1][1], Outcome(e[1][1], e[2]), m>> : m \in SourceMarks(e[2])} :
              e \in {d \in Points \X (Points \cup {ExitPoint}) :
                        Marked(d[1]) /\ d[2] \in Step(d[1])}}

-----------------------------------------------------------------------------
(* The flow of the graph between the same marks. *)

Marks(b) == LET ops == SelectSeq(cfg[b].body, LAMBDA n : n.op = "op" /\ n.ref # 0)
            IN  [k \in DOMAIN ops |-> ops[k].ref]

GraphMarks(start) ==
    LET met == Closure({start}, LAMBDA b : IF Marks(b) = <<>> THEN Succs(b) ELSE {},
                       Len(cfg))
    IN  {Marks(b)[1] : b \in {c \in met : Marks(c) # <<>>}}
            \cup (IF \E b \in met : Marks(b) = <<>> /\ cfg[b].term = "RET"
                  THEN {Exit} ELSE {})

Leaving(b) ==
    LET m == Last(Marks(b))
        outcome(k) == IF Kind(m) \notin TestKinds THEN "none"
                      ELSE IF k = 1 THEN "true" ELSE "false"
    IN  UNION {{<<m, outcome(k), n>> : n \in GraphMarks(cfg[b].next[k])} :
                  k \in DOMAIN cfg[b].next}
        \cup (IF cfg[b].term = "RET" THEN {<<m, "none", Exit>>} ELSE {})

GraphFlow ==
    {<<0, "none", m>> : m \in GraphMarks(1)} \cup
    UNION {Leaving(b) \cup {<<Marks(b)[k], "none", Marks(b)[k + 1]>> :
                                k \in 1..(Len(Marks(b)) - 1)} :
              b \in {c \in DOMAIN cfg : Marks(c) # <<>>}}

-----------------------------------------------------------------------------
(***************************************************************************)
(* The graph lets the marked expressions follow each other exactly as C    *)
(* does: the true and the false arm of each test, break and continue out   *)
(* of nested loops and switches, fallthrough from case to case, cases in   *)
(* nested statements, gotos in both directions, code after a jump.         *)
(***************************************************************************)
FlowMatchesC == Finished => GraphFlow = SourceFlow

-----------------------------------------------------------------------------
(***************************************************************************)
(* In a program without goto and switch the allocation of a variable       *)
(* dominates every use of it, as LLVM demands, although insertDeclaration  *)
(* moves it to the block before the outermost loop (lines 307-316).        *)
(***************************************************************************)
AllocDominatesUse ==
    Finished => \A b \in DOMAIN cfg : \A k \in DOMAIN cfg[b].body :
        cfg[b].body[k].op = "use" =>
            \E h \in DOMAIN cfg : \E j \in DOMAIN cfg[h].body :
                /\ cfg[h].body[j] = [op |-> "alloca", ref |-> cfg[b].body[k].ref]
                /\ IF h = b THEN j < k ELSE Dominates(h, b)

(***************************************************************************)
(* ... and is executed once per call: it is in no cycle of the graph.      *)
(***************************************************************************)
DeclaredOutsideLoops ==
    Finished => \A b \in DOMAIN cfg :
        InCycle(b) => \A k \in DOMAIN cfg[b].body : cfg[b].body[k].op # "alloca"

(***************************************************************************)
(* IR2LLVM refuses an "Unterminated block" (ir_2_llvm.cpp:437): a program  *)
(* accepted by the generator has none that its execution can reach.        *)
(***************************************************************************)
NoUnterminatedBlock == Finished => \A b \in Reachable : cfg[b].term # "none"
=============================================================================
