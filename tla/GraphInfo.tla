------------------------------ MODULE GraphInfo ------------------------------
(***************************************************************************)
(* The analyses of a control flow graph (transformations/graph_info.cpp):  *)
(* GraphInfo numbers the blocks depth first, classifies the arcs and finds *)
(* the dominators by the algorithm of Lengauer and Tarjan; LoopsDetector   *)
(* finds the natural loops and how they nest.                              *)
(*                                                                         *)
(* The recursion of dfs is the variable path; after it a step is one turn  *)
(* of the loop of dominators, or a whole pass.  The graph is fixed but     *)
(* unknown until it is read: the successors of a block are chosen when dfs *)
(* enters it, those of the blocks dfs never enters when their predecessors *)
(* are asked for.                                                          *)
(***************************************************************************)
EXTENDS Integers, Sequences, FiniteSets, SequencesExt

CONSTANTS
  Free,         \* the ids of a graph whose blocks may lead anywhere
  Line,         \* those of a graph in which the first successor of each block
                \* but the last is the one with the next id, so that dfs goes
                \* down a single line
  MaxFreeArcs, MaxLineArcs   \* bounds: arcs of a graph of either kind

ASSUME GraphInfoAssumption ==
  /\ Free \subseteq Nat /\ Line \subseteq Nat /\ Free \cap Line = {}
  /\ IsFiniteSet(Free) /\ IsFiniteSet(Line)
  /\ MaxFreeArcs \in Nat /\ MaxLineArcs \in Nat

VARIABLES
  phase,       \* what the constructors are doing, or how they ended
  next,        \* the successors of the blocks read so far, two at most
  path,        \* the nested calls of dfs: a block, and the arcs it handled
  found,       \* funBlocksIds: the blocks met, in the order of timeIn
  timeIn, timeOut, parent,             \* UtilNode, for the blocks met
  unprocArcs,  \* the arcs to blocks already met
  arcsClasses,
  pending,     \* the blocks whose semidominator is still to be found
  ancestor, label, sdom, bucket,       \* UtilNode
  dominator,   \* domData
  loops,       \* the head of each loop -> its blocks
  outer        \* the head of each loop -> LoopNode::parent

dfsVars == <<path, found, timeIn, timeOut, parent, unprocArcs>>
domVars == <<pending, ancestor, label, sdom, bucket, dominator>>
loopVars == <<loops, outer>>
vars == <<phase, next, dfsVars, arcsClasses, domVars, loopVars>>

Phases ==
  {"dfs", "classify", "semi", "loops", "relate", "done", "improper", "failed"}
None == -1

(* cfg.entryBlockId, where dfs starts; the graph is the one it is in.      *)
Entry == found[1]
Blocks == IF Entry \in Line THEN Line ELSE Free
MaxArcs == IF Entry \in Line THEN MaxLineArcs ELSE MaxFreeArcs

Classes == {"TREE", "BACK", "FWD", "CROSS"}
Lists == UNION {[1 .. n -> Blocks] : n \in 0 .. 2}
Successors(b) ==
  IF b \in Line /\ b + 1 \in Line THEN {s \in Lists : s # <<>> /\ s[1] = b + 1}
  ELSE Lists

Met == ToSet(found)
Succ(b) == IF b \in DOMAIN next THEN ToSet(next[b]) ELSE {}
Pred(b) == {a \in DOMAIN next : b \in ToSet(next[a])}

(* Every table is of its kind and speaks of blocks that dfs met.           *)
TypeOK ==
  /\ phase \in Phases
  /\ DOMAIN next \subseteq Blocks /\ \A b \in DOMAIN next : next[b] \in Lists
  /\ path \in Seq([block : Met, arcs : 0 .. 2])
  /\ Met \subseteq Blocks
  /\ timeIn \in [Met -> 1 .. 2 * Cardinality(Blocks)]
  /\ DOMAIN timeOut \subseteq Met
  /\ \A b \in DOMAIN timeOut : timeOut[b] \in 1 .. 2 * Cardinality(Blocks)
  /\ parent \in [Met -> Met \cup {None}]
  /\ unprocArcs \subseteq Met \X Met
  /\ DOMAIN arcsClasses \subseteq Met \X Met
  /\ \A a \in DOMAIN arcsClasses : arcsClasses[a] \in Classes
  /\ pending \in Seq(Met)
  /\ phase \notin {"dfs", "classify"} =>
       /\ ancestor \in [Met -> Met \cup {None}]
       /\ label \in [Met -> Met] /\ sdom \in [Met -> Met]
       /\ bucket \in [Met -> Seq(Met)]
       /\ dominator \in [Met -> Met \cup {None}]
  /\ DOMAIN loops \subseteq Met
  /\ \A h \in DOMAIN loops : loops[h] \subseteq Met
  /\ outer \in [DOMAIN loops -> DOMAIN loops \cup {None}]

-----------------------------------------------------------------------------
(* dfs. *)

(* Entries are added to a table; the ones it has stay.                     *)
EmplaceAll(f, g) ==
  [x \in (DOMAIN f) \cup (DOMAIN g) |-> IF x \in DOMAIN f THEN f[x] ELSE g[x]]

Emplace(f, key, value) == EmplaceAll(f, [x \in {key} |-> value])

ArcsRead == FoldFunction(LAMBDA succ, n : n + Len(succ), 0, next)

(* The successors of b are succ: cfg.block(b) is read for the first time.  *)
ReadBlock(b, succ) ==
  /\ ArcsRead + Len(succ) <= MaxArcs
  /\ next' = Emplace(next, b, succ)

(* Mutant of Clock: globalTime is counted up once too often.               *)
LateClock == Cardinality(DOMAIN timeIn) + Cardinality(DOMAIN timeOut) + 1

(* globalTime, which numbers the calls and the returns from 1.             *)
Clock == Cardinality(DOMAIN timeIn) + Cardinality(DOMAIN timeOut)

Init ==
  /\ phase = "dfs"
  /\ \E ids \in {Free, Line} \ {{}} : found = <<Min(ids)>>
  /\ \E succ \in Successors(Entry) : Len(succ) <= MaxArcs /\ next = [b \in {Entry} |-> succ]
  /\ path = <<[block |-> Entry, arcs |-> 0]>>
  /\ timeIn = [b \in {Entry} |-> 1] /\ timeOut = <<>> /\ parent = [b \in {Entry} |-> None]
  /\ unprocArcs = {} /\ arcsClasses = <<>>
  /\ pending = <<>>
  /\ ancestor = <<>> /\ label = <<>> /\ sdom = <<>> /\ bucket = <<>>
  /\ dominator = <<>>
  /\ loops = <<>> /\ outer = <<>>

Current == Last(path)

(* dfs is about to handle the next arc of the block on top.                *)
ArcTo(b) ==
  /\ phase = "dfs"
  /\ path # <<>>
  /\ Current.arcs < Len(next[Current.block])
  /\ b = next[Current.block][Current.arcs + 1]

ArcHandled == [path EXCEPT ![Len(path)].arcs = @ + 1]

(* To a block not met yet: the recursive call.                             *)
TreeArc(b) ==
  /\ ArcTo(b)
  /\ b \notin Met
  /\ \E succ \in Successors(b) : ReadBlock(b, succ)
  /\ arcsClasses' = Emplace(arcsClasses, <<Current.block, b>>, "TREE")
  /\ path' = Append(ArcHandled, [block |-> b, arcs |-> 0])
  /\ found' = Append(found, b)
  /\ timeIn' = Emplace(timeIn, b, Clock + 1)
  /\ parent' = Emplace(parent, b, Current.block)
  /\ UNCHANGED <<phase, timeOut, unprocArcs, domVars, loopVars>>

OtherArc(b) ==
  /\ ArcTo(b)
  /\ b \in Met
  /\ unprocArcs' = unprocArcs \cup {<<Current.block, b>>}
  /\ path' = ArcHandled
  /\ UNCHANGED <<phase, next, found, timeIn, timeOut, parent, arcsClasses, domVars, loopVars>>

(* The call returns; the first one ends the traversal.                     *)
Leave ==
  /\ phase = "dfs"
  /\ Current.arcs = Len(next[Current.block])
  /\ timeOut' = Emplace(timeOut, Current.block, Clock + 1)
  /\ path' = Front(path)
  /\ phase' = IF Len(path) = 1 THEN "classify" ELSE "dfs"
  /\ UNCHANGED <<next, found, timeIn, parent, unprocArcs, arcsClasses, domVars, loopVars>>

-----------------------------------------------------------------------------
(* classifyArcs, and the start of dominators. *)

Inside(a, b) == timeIn[b] < timeIn[a] /\ timeOut[a] < timeOut[b]

ArcClass(from, to) ==
  CASE Inside(to, from) -> "FWD"
    [] Inside(from, to) -> "BACK"
    [] OTHER -> "CROSS"

(* The blocks dfs never entered, with their arcs, fit the bound.           *)
RoomFor(rest) == FoldFunction(LAMBDA succ, n : n + Len(succ), ArcsRead, rest) <= MaxArcs

(* An arc that has a class keeps it: of two equal arcs the first decides.  *)
ClassifyArcs ==
  /\ phase = "classify"
  /\ arcsClasses' = EmplaceAll(arcsClasses, [a \in unprocArcs |-> ArcClass(a[1], a[2])])
  /\ \E rest \in [Blocks \ Met -> Lists] :
       /\ next' = EmplaceAll(next, rest)
       /\ RoomFor(rest)
  /\ pending' = Tail(found)
  /\ ancestor' = [b \in Met |-> None]
  /\ label' = [b \in Met |-> b] /\ sdom' = [b \in Met |-> b]
  /\ bucket' = [b \in Met |-> <<>>]
  /\ dominator' = [b \in Met |-> None]
  /\ unprocArcs' = {}
  /\ phase' = "semi"
  /\ UNCHANGED <<path, found, timeIn, timeOut, parent, loopVars>>

-----------------------------------------------------------------------------
(* dominators. *)

(* The forest of findMin and the answers so far, as a record that the      *)
(* steps of one turn pass on.                                              *)
Forest == [ancestor |-> ancestor, label |-> label, sdom |-> sdom, dominator |-> dominator]

Below(f, a, b) == timeIn[f.sdom[a]] < timeIn[f.sdom[b]]

(* The block of least semidominator on the path from b up to the root of   *)
(* its tree, the root excluded; of equal ones the lowest.                  *)
Best(f) ==
  LET best[c \in Met] ==
        IF f.ancestor[c] = None \/ f.ancestor[f.ancestor[c]] = None THEN f.label[c]
        ELSE LET above == best[f.ancestor[c]]
             IN  IF Below(f, above, f.label[c]) THEN above ELSE f.label[c]
  IN  best

FindMin(f, b) == IF f.ancestor[b] = None THEN b ELSE Best(f)[b]

(* The root of the tree of each block, and the path up to it.              *)
Root(f) ==
  LET root[c \in Met] == IF f.ancestor[c] = None THEN c ELSE root[f.ancestor[c]] IN root

Up(f) ==
  LET up[c \in Met] == {c} \cup (IF f.ancestor[c] = None THEN {} ELSE up[f.ancestor[c]])
  IN  up

(* Mutant of Compress: the labels are left as they are.                    *)
CompressOnly(f, b) ==
  IF f.ancestor[b] = None THEN f ELSE [f EXCEPT !.ancestor[b] = Root(f)[b]]

(* The path is compressed on the way: its blocks hang under the root.      *)
Compress(f, b) ==
  LET root  == Root(f)[b]
      moved == {c \in Up(f)[b] \ {root} : f.ancestor[c] # root}
  IN  [f EXCEPT !.label = [c \in Met |-> IF c \in moved THEN FindMin(f, c) ELSE @[c]],
                !.ancestor = [c \in Met |-> IF c \in moved THEN root ELSE @[c]]]

(* One predecessor v of w: its least semidominator may be that of w.       *)
LookAt(f, w, v) ==
  LET u == FindMin(f, v)
  IN  [Compress(f, v) EXCEPT !.sdom[w] = IF Below(f, u, w) THEN f.sdom[u] ELSE @]

LookAtAll(f, w, preds) ==
  LET seen[n \in 0 .. Len(preds)] == IF n = 0 THEN f ELSE LookAt(seen[n - 1], w, preds[n])
  IN  seen[Len(preds)]

Link(f, w) == [f EXCEPT !.ancestor[w] = parent[w]]

(* Mutant of Decide: the semidominator is taken for the dominator.         *)
DecideSemi(f, v) == [Compress(f, v) EXCEPT !.dominator[v] = f.sdom[v]]

(* The blocks v whose semidominator is the parent of the one just linked.  *)
Decide(f, v) ==
  LET u == FindMin(f, v)
  IN  [Compress(f, v) EXCEPT
         !.dominator[v] = IF f.sdom[u] = f.sdom[v] THEN f.sdom[v] ELSE u]

DecideAll(f, blocks) ==
  LET done[n \in 0 .. Len(blocks)] == IF n = 0 THEN f ELSE Decide(done[n - 1], blocks[n])
  IN  done[Len(blocks)]

(* A turn of the descending loop, whose predecessors may come in any       *)
(* order.  One that dfs did not meet has no entry in utilNodes.            *)
Semidominator ==
  /\ phase = "semi"
  /\ pending # <<>>
  /\ LET w == Last(pending)
     IN  \/ /\ \E v \in Pred(w) : v \notin Met
            /\ phase' = "failed"
            /\ UNCHANGED domVars
         \/ /\ Pred(w) \subseteq Met
            /\ \E preds \in SetToSeqs(Pred(w)) :
                 LET f == Link(LookAtAll(Forest, w, preds), w)
                     filled == [bucket EXCEPT ![f.sdom[w]] = Append(@, w)]
                     g == DecideAll(f, filled[parent[w]])
                 IN  /\ ancestor' = g.ancestor /\ label' = g.label
                     /\ sdom' = g.sdom /\ dominator' = g.dominator
                     /\ bucket' = [filled EXCEPT ![parent[w]] = <<>>]
            /\ pending' = Front(pending)
            /\ UNCHANGED phase
  /\ UNCHANGED <<next, dfsVars, arcsClasses, loopVars>>

(* The ascending loop.  The code then drops funBlocksIds and utilNodes,    *)
(* which are kept here, unused, and lists the children of each dominator.  *)
Immediate ==
  /\ phase = "semi"
  /\ pending = <<>>
  /\ dominator' =
       LET passed[n \in 1 .. Len(found)] ==
             IF n = 1 THEN dominator
             ELSE LET d == passed[n - 1]
                      w == found[n]
                  IN  [d EXCEPT ![w] = IF @ # sdom[w] THEN d[@] ELSE @]
       IN  passed[Len(found)]
  /\ phase' = "loops"
  /\ UNCHANGED <<next, dfsVars, arcsClasses, pending, ancestor, label, sdom, bucket, loopVars>>

(* isDom: up the dominator tree from y.                                    *)
Above ==
  LET above[b \in Met] == {b} \cup (IF dominator[b] = None THEN {} ELSE above[dominator[b]])
  IN  above

isDom(x, y) == x \in Above[y]

-----------------------------------------------------------------------------
(* LoopsDetector. *)

ArcsOf(class) == {a \in DOMAIN arcsClasses : arcsClasses[a] = class}

(* getArcs, isIdom and the sets and maps of LoopsDetector go by ids.       *)
Before(a, b) == a[1] < b[1] \/ (a[1] = b[1] /\ a[2] < b[2])

(* Mutant of Improper: the blocks are swapped.                             *)
ImproperSwapped(arc) == ~isDom(arc[1], arc[2])

Improper(arc) == ~isDom(arc[2], arc[1])

(* Mutant of BodyOf: only one of the ends is followed.                     *)
BodyOfOne(head, ends) ==
  LET reach[n \in 0 .. Cardinality(Met)] ==
        IF n = 0 THEN {CHOOSE e \in ends : TRUE}
        ELSE reach[n - 1] \cup UNION {Pred(b) : b \in reach[n - 1] \ {head}}
  IN  {head} \cup reach[Cardinality(Met)]

(* Mutant of BodyOf: predecessors are visited but not followed further.    *)
BodyShallow(head, ends) == {head} \cup ends \cup UNION {Pred(b) : b \in ends \ {head}}

(* traverseLoopBranch from each end of the loop.                           *)
BodyOf(head, ends) ==
  LET reach[n \in 0 .. Cardinality(Met)] ==
        IF n = 0 THEN ends
        ELSE reach[n - 1] \cup UNION {Pred(b) : b \in reach[n - 1] \ {head}}
  IN  {head} \cup reach[Cardinality(Met)]

(* An improper graph keeps the heads of the arcs that came before the one  *)
(* that showed it, without their blocks.                                   *)
FindLoops ==
  /\ phase = "loops"
  /\ LET back == ArcsOf("BACK")
         ends(head) == {a[1] : a \in {e \in back : e[2] = head}}
         good == {a \in back : \A e \in back : Improper(e) => Before(a, e)}
     IN  IF \E e \in back : Improper(e)
         THEN /\ loops' = [h \in {a[2] : a \in good} |-> {}]
              /\ phase' = "improper"
         ELSE /\ loops' = [h \in {a[2] : a \in back} |-> BodyOf(h, ends(h))]
              /\ phase' = "relate"
  /\ outer' = [h \in DOMAIN loops' |-> None]
  /\ UNCHANGED <<next, dfsVars, arcsClasses, domVars>>

(* Mutant of Share: the inner loop is looked for among the later ones.     *)
ShareLater(h, k) == k \in loops[h]

Share(h, k) == loops[h] \cap loops[k] # {}

SmallerOf(h, k) == IF Cardinality(loops[h]) > Cardinality(loops[k]) THEN k ELSE h
LargerOf(h, k) == IF SmallerOf(h, k) = h THEN k ELSE h
Included(h, k) == loops[SmallerOf(h, k)] \subseteq loops[LargerOf(h, k)]

(* testLoopsRelation on every two loops that share a block: the smaller    *)
(* one is inside the larger, whose place a later pair may take.            *)
RelateLoops ==
  /\ phase = "relate"
  /\ LET pairs == {p \in (DOMAIN loops) \X (DOMAIN loops) : p[1] < p[2] /\ Share(p[1], p[2])}
         tested == {p \in pairs : \A q \in pairs : Before(q, p) => Included(q[1], q[2])}
         placing(h) == {p \in tested : Included(p[1], p[2]) /\ SmallerOf(p[1], p[2]) = h}
         place(h) == CHOOSE p \in placing(h) : \A q \in placing(h) : ~Before(p, q)
     IN  /\ outer' = [h \in DOMAIN loops |->
                        IF placing(h) = {} THEN outer[h]
                        ELSE LargerOf(place(h)[1], place(h)[2])]
         /\ phase' = IF \A p \in pairs : Included(p[1], p[2])
                     THEN "done" ELSE "improper"
  /\ UNCHANGED <<next, dfsVars, arcsClasses, domVars, loops>>

Next ==
  \/ \E b \in Blocks : TreeArc(b) \/ OtherArc(b)
  \/ Leave
  \/ ClassifyArcs
  \/ Semidominator
  \/ Immediate
  \/ FindLoops
  \/ RelateLoops

Spec == Init /\ [][Next]_vars

-----------------------------------------------------------------------------
(* Reference definitions. *)

(* The blocks reached from the set start through blocks of the set among. *)
ReachFrom(start, among) ==
  LET reach[n \in 0 .. Cardinality(Met)] ==
        IF n = 0 THEN start
        ELSE reach[n - 1] \cup ((UNION {Succ(b) : b \in reach[n - 1]}) \cap among)
  IN  reach[Cardinality(Met)]

(* Every path from the entry to y passes through x.                        *)
Dominates(x, y) == x = y \/ (x = Entry) \/ y \notin ReachFrom({Entry}, Met \ {x})

(* The earliest block with a path to w whose other blocks all come after w. *)
EarliestInto(w) ==
  LET later == {b \in Met : timeIn[b] > timeIn[w]}
      starts == {v \in Met : w \in UNION {Succ(b) : b \in ReachFrom({v}, later)}}
  IN  CHOOSE v \in starts : \A u \in starts : timeIn[v] <= timeIn[u]

(* The blocks of some set can all reach each other inside it.              *)
Connected(S) == \A b \in S : S \subseteq ReachFrom({b}, S)

-----------------------------------------------------------------------------
(* Properties. *)

(* While dominators goes down the blocks, the semidominator it keeps of    *)
(* each block it has passed is the one of the definition, however the      *)
(* predecessors were ordered and the paths compressed.                     *)
SemiCorrect ==
  phase = "semi" =>
    \A w \in Met \ ({Entry} \cup ToSet(pending)) : sdom[w] = EarliestInto(w)

(* isDom tells dominance: of the two loops that fill dominatorId, one      *)
(* descending and one ascending, nothing is left half done.                *)
DomCorrect ==
  phase = "loops" => \A x, y \in Met : isDom(x, y) <=> Dominates(x, y)

(* "Improper loop (because of goto)": LoopsDetector gives up exactly on    *)
(* graphs with a cycle that can be entered at two places, although it      *)
(* looks at the back arcs of one depth-first order only.                   *)
ImproperIffIrreducible ==
  phase \in {"done", "improper"} =>
    (phase = "improper" <=>
       \E S \in (SUBSET Met) \ {{}} :
         /\ Connected(S)
         /\ \A h \in S : \E b \in S : ~Dominates(h, b))

(* The natural loops are all there: a loop is entered at its head only,    *)
(* its blocks lead back to the head, and a block on a cycle of several     *)
(* blocks is in a loop.                                                    *)
LoopsNatural ==
  phase = "relate" =>
    /\ \A h \in DOMAIN loops : /\ \A b \in loops[h] : Dominates(h, b)
                               /\ Connected(loops[h])
    /\ \A b \in Met :
         b \in ReachFrom(Succ(b) \ {b}, Met) => \E h \in DOMAIN loops : b \in loops[h]

(* "Probably this test is always true because of proper structure"         *)
(* (testLoopsRelation): loops that share a block are nested.               *)
LoopsNest ==
  phase \in {"relate", "done"} =>
    \A h, k \in DOMAIN loops :
      \/ loops[h] \cap loops[k] = {}
      \/ loops[h] \subseteq loops[k]
      \/ loops[k] \subseteq loops[h]

(* LoopInvMover starts at the loops without parent and goes down: those    *)
(* are the outermost ones, and every parent is around its loop.            *)
OuterEncloses ==
  phase = "done" =>
    \A h \in DOMAIN loops :
      IF outer[h] = None
      THEN \A k \in (DOMAIN loops) \ {h} : h \notin loops[k]
      ELSE outer[h] # h /\ loops[h] \subseteq loops[outer[h]]
=============================================================================
