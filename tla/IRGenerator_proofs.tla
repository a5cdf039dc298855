-------------------------- MODULE IRGenerator_proofs --------------------------
(***************************************************************************)
(* Proofs about IRGenerator: first what each operation on a graph does to  *)
(* it, then what the evaluation of an expression does, then the invariants *)
(* of the walk.                                                            *)
(***************************************************************************)
EXTENDS IRGenerator, SequenceTheorems, WellFoundedInduction, TLAPS

(* A position in a graph, and the successors and terminator of a block. *)
Position(s) == s.g \in Graph /\ s.at \in DOMAIN s.g
SameArcs(x, y) == x.next = y.next /\ x.term = y.term

-----------------------------------------------------------------------------
(* The operations of CFGraph. *)

(* A graph in which one block is replaced. *)
LEMMA ReplaceBlock ==
    ASSUME NEW g \in Graph, NEW b \in DOMAIN g, NEW x \in Block
    PROVE  /\ [g EXCEPT ![b] = x] \in Graph
           /\ Len([g EXCEPT ![b] = x]) = Len(g)
           /\ [g EXCEPT ![b] = x][b] = x
           /\ \A c \in DOMAIN g : c # b => [g EXCEPT ![b] = x][c] = g[c]
  <1>1. g \in Seq(Block) /\ b \in 1..Len(g)
    BY DEF Graph
  <1> QED
    BY <1>1, ExceptSeq DEF Graph

(* A block with a longer list in one of its fields. *)
LEMMA GrowBlock ==
    ASSUME NEW x \in Block
    PROVE  /\ \A b \in Ids : [x EXCEPT !.next = Append(@, b)] \in Block
           /\ \A b \in Ids : [x EXCEPT !.prev = Append(@, b)] \in Block
           /\ \A n \in Node : [x EXCEPT !.body = Append(@, n)] \in Block
  <1>1. /\ \A b \in Ids : Append(x.next, b) \in Seq(Ids) /\ Append(x.prev, b) \in Seq(Ids)
        /\ \A n \in Node : Append(x.body, n) \in Seq(Node)
    BY AppendProperties DEF Block
  <1> QED
    BY <1>1 DEF Block

(* What a block of a graph is. *)
LEMMA BlockOfGraph ==
    ASSUME NEW g \in Graph, NEW b \in DOMAIN g
    PROVE  g[b] \in Block /\ b \in Ids /\ DOMAIN g = 1..Len(g) /\ Len(g) \in Nat
  BY DEF Graph, Ids

(* createBlock adds an empty block and leaves the others alone. *)
LEMMA CreateBlockLemma ==
    ASSUME NEW g \in Graph
    PROVE  /\ CreateBlock(g) \in Graph
           /\ Len(CreateBlock(g)) = Len(g) + 1
           /\ CreateBlock(g)[Len(g) + 1] = NewBlock
           /\ \A c \in DOMAIN g : CreateBlock(g)[c] = g[c]
  <1>1. NewBlock \in Block
    BY DEF NewBlock, Block, Ids, Node, TermTypes
  <1>2. g \in Seq(Block)
    BY DEF Graph
  <1> QED
    BY <1>1, <1>2, AppendProperties DEF CreateBlock, Graph

(* setTerminator changes one block, and only its terminator. *)
LEMMA SetTerminatorLemma ==
    ASSUME NEW g \in Graph, NEW b \in DOMAIN g, NEW t \in TermTypes
    PROVE  /\ SetTerminator(g, b, t) \in Graph
           /\ Len(SetTerminator(g, b, t)) = Len(g)
           /\ SetTerminator(g, b, t)[b].term = t
           /\ SetTerminator(g, b, t)[b].next = g[b].next
           /\ \A c \in DOMAIN g : c # b => SetTerminator(g, b, t)[c] = g[c]
  <1> DEFINE x == [g[b] EXCEPT !.term = t]
  <1>1. g[b] \in Block
    BY BlockOfGraph
  <1>2. x \in Block /\ x.term = t /\ x.next = g[b].next
    BY <1>1 DEF Block
  <1>3. SetTerminator(g, b, t) = [g EXCEPT ![b] = x]
    BY DEF SetTerminator
  <1> HIDE DEF x
  <1>4. /\ [g EXCEPT ![b] = x] \in Graph /\ Len([g EXCEPT ![b] = x]) = Len(g)
        /\ [g EXCEPT ![b] = x][b] = x
        /\ \A c \in DOMAIN g : c # b => [g EXCEPT ![b] = x][c] = g[c]
    BY <1>2, ReplaceBlock
  <1> QED
    BY <1>2, <1>3, <1>4

(* linkBlocks adds one successor to one block and no terminator. *)
LEMMA LinkBlocksLemma ==
    ASSUME NEW g \in Graph, NEW a \in DOMAIN g, NEW b \in Ids
    PROVE  /\ LinkBlocks(g, a, b) \in Graph
           /\ Len(LinkBlocks(g, a, b)) = Len(g)
           /\ LinkBlocks(g, a, b)[a].next = Append(g[a].next, b)
           /\ LinkBlocks(g, a, b)[a].term = g[a].term
           /\ \A c \in DOMAIN g : c # a => SameArcs(LinkBlocks(g, a, b)[c], g[c])
  <1> DEFINE x == [g[a] EXCEPT !.next = Append(@, b)]
             h == [g EXCEPT ![a] = x]
             y == [h[b] EXCEPT !.prev = Append(@, a)]
             k == [h EXCEPT ![b] = y]
  <1>1. g[a] \in Block /\ a \in Ids
    BY BlockOfGraph
  <1>2. x \in Block /\ x.next = Append(g[a].next, b) /\ x.term = g[a].term
    BY <1>1 DEF Block
  <1>4. LinkBlocks(g, a, b) = k
    BY DEF LinkBlocks
  <1> HIDE DEF x
  <1>3. /\ h \in Graph /\ Len(h) = Len(g) /\ h[a] = x
        /\ \A c \in DOMAIN g : c # a => h[c] = g[c]
    BY <1>2, ReplaceBlock
  <1>5. DOMAIN h = DOMAIN g
    BY <1>3, BlockOfGraph DEF Graph
  <1> HIDE DEF h
  <1>6. CASE b \in DOMAIN h
    <2>1. h[b] \in Block
      BY <1>3, <1>6, BlockOfGraph
    <2>2. y \in Block /\ y.next = h[b].next /\ y.term = h[b].term
      <3>1. y \in Block
        BY <1>1, <2>1, GrowBlock
      <3> QED
        BY <2>1, <3>1 DEF Block
    <2> HIDE DEF y
    <2>3. /\ k \in Graph /\ Len(k) = Len(h) /\ k[b] = y
          /\ \A c \in DOMAIN h : c # b => k[c] = h[c]
      BY <1>3, <1>6, <2>2, ReplaceBlock
    <2> HIDE DEF k
    <2> QED
      BY <1>2, <1>3, <1>4, <1>5, <2>2, <2>3 DEF SameArcs
  <1>7. CASE b \notin DOMAIN h
    <2>1. k = h
      BY <1>3, <1>7 DEF Graph
    <2> HIDE DEF k
    <2> QED
      BY <1>2, <1>3, <1>4, <2>1 DEF SameArcs
  <1> QED
    BY <1>6, <1>7

(* An instruction added to a body leaves arcs and terminators alone. *)
LEMMA AddNodeLemma ==
    ASSUME NEW g \in Graph, NEW b \in Nat, NEW i \in Nat,
           NEW op \in {"op", "alloca", "tmp", "use"}
    PROVE  /\ AddNode(g, b, op, i) \in Graph
           /\ Len(AddNode(g, b, op, i)) = Len(g)
           /\ \A c \in DOMAIN g : SameArcs(AddNode(g, b, op, i)[c], g[c])
  <1> DEFINE n == [op |-> op, ref |-> i]
             x == [g[b] EXCEPT !.body = Append(@, n)]
  <1>1. n \in Node
    BY DEF Node
  <1> HIDE DEF n
  <1>2. AddNode(g, b, op, i) = [g EXCEPT ![b] = x]
    BY DEF AddNode, n
  <1>3. CASE b \in DOMAIN g
    <2>1. g[b] \in Block
      BY <1>3, BlockOfGraph
    <2>2. x \in Block /\ x.next = g[b].next /\ x.term = g[b].term
      <3>1. x \in Block
        BY <1>1, <2>1, GrowBlock
      <3> QED
        BY <2>1, <3>1 DEF Block
    <2> HIDE DEF x
    <2>3. /\ [g EXCEPT ![b] = x] \in Graph /\ Len([g EXCEPT ![b] = x]) = Len(g)
          /\ [g EXCEPT ![b] = x][b] = x
          /\ \A c \in DOMAIN g : c # b => [g EXCEPT ![b] = x][c] = g[c]
      BY <1>3, <2>2, ReplaceBlock
    <2> QED
      BY <1>2, <2>2, <2>3 DEF SameArcs
  <1>4. CASE b \notin DOMAIN g
    <2>1. [g EXCEPT ![b] = x] = g
      BY <1>4 DEF Graph
    <2> QED
      BY <1>2, <2>1 DEF SameArcs
  <1> QED
    BY <1>3, <1>4

-----------------------------------------------------------------------------
(* The same operations at a position. *)

NodeOps == {"op", "alloca", "tmp", "use"}

(* ... at the selected block. *)
LEMMA EmitLemma ==
    ASSUME NEW s, Position(s), NEW op \in NodeOps, NEW i \in Nat
    PROVE  /\ Position(Emit(s, op, i))
           /\ Emit(s, op, i).at = s.at
           /\ Len(Emit(s, op, i).g) = Len(s.g)
           /\ \A c \in DOMAIN s.g : SameArcs(Emit(s, op, i).g[c], s.g[c])
  <1>1. s.g \in Graph /\ s.at \in DOMAIN s.g /\ s.at \in Nat
    BY BlockOfGraph DEF Position, Ids
  <1> DEFINE h == AddNode(s.g, s.at, op, i)
  <1>2. /\ h \in Graph /\ Len(h) = Len(s.g)
        /\ \A c \in DOMAIN s.g : SameArcs(h[c], s.g[c])
    BY <1>1, AddNodeLemma DEF NodeOps
  <1>3. Emit(s, op, i).g = h /\ Emit(s, op, i).at = s.at
    BY DEF Emit
  <1> HIDE DEF h
  <1>4. s.at \in DOMAIN h
    BY <1>1, <1>2, BlockOfGraph DEF Graph
  <1> QED
    BY <1>2, <1>3, <1>4 DEF Position

(* A block created while another one is selected. *)
LEMMA FreshLemma ==
    ASSUME NEW s, Position(s)
    PROVE  /\ Position(Fresh(s))
           /\ Fresh(s).at = s.at
           /\ Len(Fresh(s).g) = Len(s.g) + 1
           /\ IsOpen(Fresh(s).g[Len(s.g) + 1])
           /\ \A c \in DOMAIN s.g : SameArcs(Fresh(s).g[c], s.g[c])
  <1>1. s.g \in Graph /\ s.at \in DOMAIN s.g /\ DOMAIN s.g = 1..Len(s.g) /\ Len(s.g) \in Nat
    BY BlockOfGraph DEF Position
  <1> DEFINE h == CreateBlock(s.g)
  <1>2. /\ h \in Graph /\ Len(h) = Len(s.g) + 1 /\ h[Len(s.g) + 1] = NewBlock
        /\ \A c \in DOMAIN s.g : h[c] = s.g[c]
    BY <1>1, CreateBlockLemma
  <1>3. Fresh(s).g = h /\ Fresh(s).at = s.at
    BY DEF Fresh
  <1> HIDE DEF h
  <1>4. DOMAIN h = 1..Len(h)
    BY <1>2, <1>1 DEF Graph
  <1> QED
    BY <1>1, <1>2, <1>3, <1>4 DEF Position, IsOpen, NewBlock, SameArcs

(* selectBlock leaves the graph alone. *)
LEMMA SelectLemma ==
    ASSUME NEW s, NEW b
    PROVE  Select(s, b).g = s.g /\ Select(s, b).at = b
  BY DEF Select

(* A jump seals the selected block and no other. *)
LEMMA JumpLemma ==
    ASSUME NEW s, Position(s), NEW b \in Ids
    PROVE  /\ Position(JumpTo(s, b))
           /\ JumpTo(s, b).at = s.at
           /\ Len(JumpTo(s, b).g) = Len(s.g)
           /\ IsOpen(s.g[s.at]) => IsSealed(JumpTo(s, b).g[s.at])
           /\ \A c \in DOMAIN s.g : c # s.at => SameArcs(JumpTo(s, b).g[c], s.g[c])
  <1>1. s.g \in Graph /\ s.at \in DOMAIN s.g
    BY DEF Position
  <1> DEFINE h == LinkBlocks(s.g, s.at, b)
             k == SetTerminator(h, s.at, "JUMP")
  <1>2. /\ h \in Graph /\ Len(h) = Len(s.g)
        /\ h[s.at].next = Append(s.g[s.at].next, b)
        /\ \A c \in DOMAIN s.g : c # s.at => SameArcs(h[c], s.g[c])
    BY <1>1, LinkBlocksLemma
  <1>3. JumpTo(s, b).g = k /\ JumpTo(s, b).at = s.at
    BY DEF JumpTo
  <1> HIDE DEF h
  <1>4. DOMAIN h = DOMAIN s.g
    BY <1>1, <1>2, BlockOfGraph
  <1>5. /\ k \in Graph /\ Len(k) = Len(h) /\ k[s.at].term = "JUMP"
        /\ k[s.at].next = h[s.at].next
        /\ \A c \in DOMAIN h : c # s.at => k[c] = h[c]
    <2>1. "JUMP" \in TermTypes
      BY DEF TermTypes
    <2> QED
      BY <1>1, <1>2, <1>4, <2>1, SetTerminatorLemma
  <1> HIDE DEF k
  <1>6. DOMAIN k = DOMAIN s.g
    BY <1>2, <1>4, <1>5, BlockOfGraph DEF Graph
  <1>7. IsOpen(s.g[s.at]) => IsSealed(k[s.at])
    BY <1>2, <1>5 DEF IsOpen, IsSealed, Arity, Ids
  <1> QED
    BY <1>1, <1>2, <1>3, <1>4, <1>5, <1>6, <1>7 DEF Position, SameArcs

(* So does a branch. *)
LEMMA BranchLemma ==
    ASSUME NEW s, Position(s), NEW a \in Ids, NEW b \in Ids
    PROVE  /\ Position(BranchTo(s, a, b))
           /\ BranchTo(s, a, b).at = s.at
           /\ Len(BranchTo(s, a, b).g) = Len(s.g)
           /\ IsOpen(s.g[s.at]) => IsSealed(BranchTo(s, a, b).g[s.at])
           /\ \A c \in DOMAIN s.g : c # s.at => SameArcs(BranchTo(s, a, b).g[c], s.g[c])
  <1>1. s.g \in Graph /\ s.at \in DOMAIN s.g
    BY DEF Position
  <1> DEFINE h == LinkBlocks(s.g, s.at, a)
             m == LinkBlocks(h, s.at, b)
             k == SetTerminator(m, s.at, "BRANCH")
  <1>2. /\ h \in Graph /\ Len(h) = Len(s.g)
        /\ h[s.at].next = Append(s.g[s.at].next, a)
        /\ \A c \in DOMAIN s.g : c # s.at => SameArcs(h[c], s.g[c])
    BY <1>1, LinkBlocksLemma
  <1>3. BranchTo(s, a, b).g = k /\ BranchTo(s, a, b).at = s.at
    BY DEF BranchTo
  <1> HIDE DEF h
  <1>4. DOMAIN h = DOMAIN s.g
    BY <1>1, <1>2, BlockOfGraph
  <1>5. /\ m \in Graph /\ Len(m) = Len(h)
        /\ m[s.at].next = Append(h[s.at].next, b)
        /\ \A c \in DOMAIN h : c # s.at => SameArcs(m[c], h[c])
    BY <1>1, <1>2, <1>4, LinkBlocksLemma
  <1> HIDE DEF m
  <1>6. DOMAIN m = DOMAIN s.g
    BY <1>2, <1>4, <1>5, BlockOfGraph DEF Graph
  <1>7. /\ k \in Graph /\ Len(k) = Len(m) /\ k[s.at].term = "BRANCH"
        /\ k[s.at].next = m[s.at].next
        /\ \A c \in DOMAIN m : c # s.at => k[c] = m[c]
    <2>1. "BRANCH" \in TermTypes
      BY DEF TermTypes
    <2> QED
      BY <1>1, <1>5, <1>6, <2>1, SetTerminatorLemma
  <1> HIDE DEF k
  <1>8. DOMAIN k = DOMAIN s.g
    BY <1>5, <1>6, <1>7, BlockOfGraph DEF Graph
  <1>9. IsOpen(s.g[s.at]) => IsSealed(k[s.at])
    BY <1>2, <1>5, <1>7 DEF IsOpen, IsSealed, Arity, Ids
  <1> QED
    BY <1>1, <1>2, <1>3, <1>4, <1>5, <1>6, <1>7, <1>8, <1>9 DEF Position, SameArcs

-----------------------------------------------------------------------------
(***************************************************************************)
(* The evaluation of an expression.  It leaves a position, and when it     *)
(* starts in an open block it ends in an open one, having finished the     *)
(* blocks it went through and touched no other.                            *)
(***************************************************************************)
Grows(s, r) ==
    /\ IsOpen(r.g[r.at])
    /\ r.at = s.at \/ (r.at > Len(s.g) /\ IsSealed(r.g[s.at]))
    /\ \A c \in DOMAIN s.g : c # s.at => SameArcs(r.g[c], s.g[c])
    /\ \A c \in DOMAIN r.g : c > Len(s.g) /\ c # r.at => IsSealed(r.g[c])

Result(s, r) ==
    /\ Position(r)
    /\ Len(r.g) >= Len(s.g)
    /\ IsOpen(s.g[s.at]) => Grows(s, r)

(* The graph and the selected block of a position. *)
LEMMA PositionFacts ==
    ASSUME NEW s, Position(s)
    PROVE  /\ s.g \in Graph /\ Len(s.g) \in Nat /\ DOMAIN s.g = 1..Len(s.g)
           /\ s.at \in 1..Len(s.g) /\ s.at \in Ids
  BY BlockOfGraph DEF Position

(* Open and sealed depend on arcs and terminator only. *)
LEMMA SameArcsFacts ==
    ASSUME NEW x, NEW y, SameArcs(x, y)
    PROVE  (IsOpen(x) <=> IsOpen(y)) /\ (IsSealed(x) <=> IsSealed(y))
  BY DEF SameArcs, IsOpen, IsSealed

(* && and || leave an open block selected in a graph of two more blocks. *)
LEMMA ShortLogicLemma ==
    ASSUME NEW s, Position(s), NEW op, NEW i \in Nat
    PROVE  /\ Result(s, ShortLogic(op, s, i))
           /\ Len(ShortLogic(op, s, i).g) = Len(s.g) + 2
  <1> DEFINE n == Len(s.g)
             a == Emit(s, "op", i)
             b == Emit(a, "tmp", i)
             c == Fresh(b)
             d == Fresh(c)
             f == IF op = "and" THEN BranchTo(d, n + 1, n + 2)
                                ELSE BranchTo(d, n + 2, n + 1)
             x == Emit(Select(f, n + 1), "op", i)
             y == JumpTo(x, n + 2)
             r == Emit(Select(y, n + 2), "op", i)
  <1>0. ShortLogic(op, s, i) = r
    <2>1. (n + 1) + 1 = n + 2
      BY PositionFacts
    <2> QED
      BY <2>1 DEF ShortLogic, ShortLogicArms, NewId
  <1>1. /\ n \in Nat /\ DOMAIN s.g = 1..n /\ s.at \in 1..n
        /\ n + 1 \in Ids /\ n + 2 \in Ids
        /\ s.at \in 1..(n + 2) /\ n + 1 \in 1..(n + 2) /\ n + 2 \in 1..(n + 2)
        /\ s.at # n + 1 /\ s.at # n + 2 /\ n + 1 # n + 2
    BY PositionFacts DEF Ids
  <1>2. /\ Position(a) /\ a.at = s.at /\ Len(a.g) = n
        /\ \A k \in 1..n : SameArcs(a.g[k], s.g[k])
    BY <1>1, EmitLemma DEF NodeOps
  <1> HIDE DEF a
  <1>3. /\ Position(b) /\ b.at = s.at /\ Len(b.g) = n
        /\ \A k \in 1..n : SameArcs(b.g[k], s.g[k])
    <2>1. /\ Position(b) /\ b.at = a.at /\ Len(b.g) = Len(a.g)
          /\ \A k \in DOMAIN a.g : SameArcs(b.g[k], a.g[k])
      BY <1>2, EmitLemma DEF NodeOps
    <2>2. DOMAIN a.g = 1..n
      BY <1>2, PositionFacts
    <2> QED
      BY <1>2, <2>1, <2>2 DEF SameArcs
  <1> HIDE DEF b
  <1>4. /\ Position(c) /\ c.at = s.at /\ Len(c.g) = n + 1 /\ IsOpen(c.g[n + 1])
        /\ \A k \in 1..n : SameArcs(c.g[k], s.g[k])
    <2>1. /\ Position(c) /\ c.at = b.at /\ Len(c.g) = Len(b.g) + 1 /\ IsOpen(c.g[Len(b.g) + 1])
          /\ \A k \in DOMAIN b.g : SameArcs(c.g[k], b.g[k])
      BY <1>3, FreshLemma
    <2>2. DOMAIN b.g = 1..n
      BY <1>3, PositionFacts
    <2> QED
      BY <1>3, <2>1, <2>2 DEF SameArcs
  <1> HIDE DEF c
  <1>5. /\ Position(d) /\ d.at = s.at /\ Len(d.g) = n + 2
        /\ IsOpen(d.g[n + 1]) /\ IsOpen(d.g[n + 2])
        /\ \A k \in 1..n : SameArcs(d.g[k], s.g[k])
    <2>1. /\ Position(d) /\ d.at = c.at /\ Len(d.g) = Len(c.g) + 1 /\ IsOpen(d.g[Len(c.g) + 1])
          /\ \A k \in DOMAIN c.g : SameArcs(d.g[k], c.g[k])
      BY <1>4, FreshLemma
    <2>2. DOMAIN c.g = 1..(n + 1)
      BY <1>4, PositionFacts
    <2>3. Len(c.g) + 1 = n + 2 /\ n + 1 \in 1..(n + 1) /\ \A k \in 1..n : k \in 1..(n + 1)
      BY <1>1, <1>4
    <2> QED
      BY <1>4, <2>1, <2>2, <2>3 DEF SameArcs, IsOpen
  <1> HIDE DEF d
  <1>6. /\ Position(f) /\ f.at = s.at /\ Len(f.g) = n + 2
        /\ IsOpen(s.g[s.at]) => IsSealed(f.g[s.at])
        /\ IsOpen(f.g[n + 1]) /\ IsOpen(f.g[n + 2])
        /\ \A k \in 1..n : k # s.at => SameArcs(f.g[k], s.g[k])
    <2>1. /\ Position(f) /\ f.at = d.at /\ Len(f.g) = Len(d.g)
          /\ IsOpen(d.g[d.at]) => IsSealed(f.g[d.at])
          /\ \A k \in DOMAIN d.g : k # d.at => SameArcs(f.g[k], d.g[k])
      BY <1>1, <1>5, BranchLemma
    <2>2. DOMAIN d.g = 1..(n + 2)
      BY <1>5, PositionFacts
    <2>3. /\ n + 1 \in 1..(n + 2) /\ n + 2 \in 1..(n + 2) /\ \A k \in 1..n : k \in 1..(n + 2)
          /\ n + 1 # s.at /\ n + 2 # s.at
      BY <1>1
    <2> HIDE DEF f
    <2> QED
      BY <1>1, <1>5, <2>1, <2>2, <2>3 DEF SameArcs, IsOpen
  <1> HIDE DEF f
  <1>7. /\ Position(x) /\ x.at = n + 1 /\ Len(x.g) = n + 2
        /\ \A k \in 1..(n + 2) : SameArcs(x.g[k], f.g[k])
    <2>1. DOMAIN f.g = 1..(n + 2)
      BY <1>6, PositionFacts
    <2>2. Position(Select(f, n + 1)) /\ Select(f, n + 1).g = f.g /\ Select(f, n + 1).at = n + 1
      BY <1>1, <1>6, <2>1, SelectLemma DEF Position
    <2> QED
      BY <1>6, <2>1, <2>2, EmitLemma DEF NodeOps
  <1> HIDE DEF x
  <1>8. /\ Position(y) /\ Len(y.g) = n + 2 /\ IsSealed(y.g[n + 1])
        /\ \A k \in 1..(n + 2) : k # n + 1 => SameArcs(y.g[k], f.g[k])
    <2>1. DOMAIN x.g = 1..(n + 2)
      BY <1>7, PositionFacts
    <2>2. IsOpen(x.g[n + 1])
      BY <1>1, <1>6, <1>7 DEF SameArcs, IsOpen
    <2>3. /\ Position(y) /\ Len(y.g) = Len(x.g) /\ IsSealed(y.g[n + 1])
          /\ \A k \in DOMAIN x.g : k # n + 1 => SameArcs(y.g[k], x.g[k])
      BY <1>1, <1>7, <2>2, JumpLemma
    <2> HIDE DEF y
    <2> QED
      BY <1>7, <2>1, <2>3 DEF SameArcs
  <1> HIDE DEF y
  <1>9. /\ Position(r) /\ r.at = n + 2 /\ Len(r.g) = n + 2
        /\ \A k \in 1..(n + 2) : SameArcs(r.g[k], y.g[k])
    <2>1. DOMAIN y.g = 1..(n + 2)
      BY <1>8, PositionFacts
    <2>2. Position(Select(y, n + 2)) /\ Select(y, n + 2).g = y.g /\ Select(y, n + 2).at = n + 2
      BY <1>1, <1>8, <2>1, SelectLemma DEF Position
    <2> QED
      BY <1>8, <2>1, <2>2, EmitLemma DEF NodeOps
  <1> HIDE DEF r
  <1>10. IsOpen(s.g[s.at]) => Grows(s, r)
    <2> SUFFICES ASSUME IsOpen(s.g[s.at])
                 PROVE  Grows(s, r)
      OBVIOUS
    <2>1. DOMAIN r.g = 1..(n + 2)
      BY <1>9, PositionFacts
    <2>2. IsSealed(y.g[s.at]) /\ IsOpen(y.g[n + 2])
      <3>1. SameArcs(y.g[s.at], f.g[s.at]) /\ SameArcs(y.g[n + 2], f.g[n + 2])
        BY <1>1, <1>8
      <3> QED
        BY <1>6, <3>1, SameArcsFacts
    <2>3. IsOpen(r.g[n + 2]) /\ IsSealed(r.g[s.at]) /\ IsSealed(r.g[n + 1])
      <3>1. /\ SameArcs(r.g[s.at], y.g[s.at]) /\ SameArcs(r.g[n + 1], y.g[n + 1])
            /\ SameArcs(r.g[n + 2], y.g[n + 2])
        BY <1>1, <1>9
      <3> QED
        BY <1>8, <2>2, <3>1, SameArcsFacts
    <2>4. \A k \in 1..n : k # s.at => SameArcs(r.g[k], s.g[k])
      BY <1>1, <1>6, <1>8, <1>9 DEF SameArcs
    <2> QED
      BY <1>1, <1>9, <2>1, <2>3, <2>4 DEF Grows
  <1> QED
    BY <1>0, <1>1, <1>9, <1>10 DEF Result

(* Emission into, and a jump from, a chosen block. *)
LEMMA EmitAtLemma ==
    ASSUME NEW s, Position(s), NEW b \in DOMAIN s.g, NEW op \in NodeOps, NEW i \in Nat
    PROVE  LET r == Emit(Select(s, b), op, i)
           IN  /\ Position(r) /\ r.at = b /\ Len(r.g) = Len(s.g) /\ DOMAIN r.g = DOMAIN s.g
               /\ \A c \in DOMAIN s.g : SameArcs(r.g[c], s.g[c])
  <1>1. Position(Select(s, b)) /\ Select(s, b).g = s.g /\ Select(s, b).at = b
    BY SelectLemma DEF Position
  <1> DEFINE r == Emit(Select(s, b), op, i)
  <1>2. /\ Position(r) /\ r.at = b /\ Len(r.g) = Len(s.g)
        /\ \A c \in DOMAIN s.g : SameArcs(r.g[c], s.g[c])
    BY <1>1, EmitLemma
  <1> HIDE DEF r
  <1>3. DOMAIN r.g = DOMAIN s.g
    BY <1>2, PositionFacts
  <1> QED
    BY <1>2, <1>3 DEF r

(* A jump from a block selected for it. *)
LEMMA JumpAtLemma ==
    ASSUME NEW s, Position(s), NEW b \in DOMAIN s.g, NEW to \in Ids
    PROVE  LET r == JumpTo(Select(s, b), to)
           IN  /\ Position(r) /\ r.at = b /\ Len(r.g) = Len(s.g) /\ DOMAIN r.g = DOMAIN s.g
               /\ IsOpen(s.g[b]) => IsSealed(r.g[b])
               /\ \A c \in DOMAIN s.g : c # b => SameArcs(r.g[c], s.g[c])
  <1>1. Position(Select(s, b)) /\ Select(s, b).g = s.g /\ Select(s, b).at = b
    BY SelectLemma DEF Position
  <1> DEFINE r == JumpTo(Select(s, b), to)
  <1>2. /\ Position(r) /\ r.at = b /\ Len(r.g) = Len(s.g)
        /\ IsOpen(s.g[b]) => IsSealed(r.g[b])
        /\ \A c \in DOMAIN s.g : c # b => SameArcs(r.g[c], s.g[c])
    BY <1>1, JumpLemma
  <1> HIDE DEF r
  <1>3. DOMAIN r.g = DOMAIN s.g
    BY <1>2, PositionFacts
  <1> QED
    BY <1>2, <1>3 DEF r

(* Two and three new blocks, all open. *)
LEMMA FreshTwiceLemma ==
    ASSUME NEW s, Position(s)
    PROVE  LET r == Fresh(Fresh(s))
           IN  /\ Position(r) /\ r.at = s.at /\ Len(r.g) = Len(s.g) + 2
               /\ IsOpen(r.g[Len(s.g) + 1]) /\ IsOpen(r.g[Len(s.g) + 2])
               /\ \A c \in DOMAIN s.g : SameArcs(r.g[c], s.g[c])
  <1> DEFINE n == Len(s.g)
             a == Fresh(s)
             r == Fresh(a)
  <1>1. n \in Nat /\ DOMAIN s.g = 1..n
    BY PositionFacts
  <1>2. /\ Position(a) /\ a.at = s.at /\ Len(a.g) = n + 1 /\ IsOpen(a.g[n + 1])
        /\ \A c \in DOMAIN s.g : SameArcs(a.g[c], s.g[c])
    BY FreshLemma
  <1> HIDE DEF a
  <1>3. /\ Position(r) /\ r.at = a.at /\ Len(r.g) = Len(a.g) + 1 /\ IsOpen(r.g[Len(a.g) + 1])
        /\ \A c \in DOMAIN a.g : SameArcs(r.g[c], a.g[c])
    BY <1>2, FreshLemma
  <1>4. DOMAIN a.g = 1..(n + 1)
    BY <1>2, PositionFacts
  <1> HIDE DEF r
  <1>5. Len(a.g) + 1 = n + 2 /\ n + 1 \in DOMAIN a.g /\ \A c \in DOMAIN s.g : c \in DOMAIN a.g
    BY <1>1, <1>2, <1>4
  <1>6. IsOpen(r.g[n + 1])
    BY <1>2, <1>3, <1>5, SameArcsFacts
  <1>7. \A c \in DOMAIN s.g : SameArcs(r.g[c], s.g[c])
    BY <1>2, <1>3, <1>5 DEF SameArcs
  <1>8. Position(r) /\ r.at = s.at /\ Len(r.g) = n + 2 /\ IsOpen(r.g[n + 2])
    BY <1>2, <1>3, <1>5
  <1> QED
    BY <1>6, <1>7, <1>8 DEF r, a

(* Three blocks created in a row. *)
LEMMA FreshThriceLemma ==
    ASSUME NEW s, Position(s)
    PROVE  LET r == Fresh(Fresh(Fresh(s)))
           IN  /\ Position(r) /\ r.at = s.at /\ Len(r.g) = Len(s.g) + 3
               /\ IsOpen(r.g[Len(s.g) + 1]) /\ IsOpen(r.g[Len(s.g) + 2])
               /\ IsOpen(r.g[Len(s.g) + 3])
               /\ \A c \in DOMAIN s.g : SameArcs(r.g[c], s.g[c])
  <1> DEFINE n == Len(s.g)
             a == Fresh(Fresh(s))
             r == Fresh(a)
  <1>1. n \in Nat /\ DOMAIN s.g = 1..n
    BY PositionFacts
  <1>2. /\ Position(a) /\ a.at = s.at /\ Len(a.g) = n + 2
        /\ IsOpen(a.g[n + 1]) /\ IsOpen(a.g[n + 2])
        /\ \A c \in DOMAIN s.g : SameArcs(a.g[c], s.g[c])
    BY FreshTwiceLemma
  <1> HIDE DEF a
  <1>3. /\ Position(r) /\ r.at = a.at /\ Len(r.g) = Len(a.g) + 1 /\ IsOpen(r.g[Len(a.g) + 1])
        /\ \A c \in DOMAIN a.g : SameArcs(r.g[c], a.g[c])
    BY <1>2, FreshLemma
  <1>4. DOMAIN a.g = 1..(n + 2)
    BY <1>2, PositionFacts
  <1> HIDE DEF r
  <1>5. /\ Len(a.g) + 1 = n + 3 /\ n + 1 \in DOMAIN a.g /\ n + 2 \in DOMAIN a.g
        /\ \A c \in DOMAIN s.g : c \in DOMAIN a.g
    BY <1>1, <1>2, <1>4
  <1>6. IsOpen(r.g[n + 1]) /\ IsOpen(r.g[n + 2])
    BY <1>2, <1>3, <1>5, SameArcsFacts
  <1>7. \A c \in DOMAIN s.g : SameArcs(r.g[c], s.g[c])
    BY <1>2, <1>3, <1>5 DEF SameArcs
  <1>8. Position(r) /\ r.at = s.at /\ Len(r.g) = n + 3 /\ IsOpen(r.g[n + 3])
    BY <1>2, <1>3, <1>5
  <1> QED
    BY <1>6, <1>7, <1>8 DEF r, a

(* So does ?: in one of three more, unless an operand branches itself. *)
LEMMA TernaryLemma ==
    ASSUME NEW s, Position(s), NEW isNested \in BOOLEAN, NEW i \in Nat
    PROVE  LET r == Ternary(isNested, s, i)
           IN  /\ Position(r) /\ Len(r.g) >= Len(s.g)
               /\ ~isNested => Result(s, r)
  <1> DEFINE n == Len(s.g)
             a == Emit(s, "op", i)
             b == Fresh(Fresh(Fresh(a)))
             f == BranchTo(b, n + 1, n + 2)
             j == JumpTo(Select(f, n + 1), n + 3)
             k == JumpTo(Select(j, n + 2), n + 3)
             v == IF isNested THEN ShortLogic("and", Select(k, n + 1), i)
                              ELSE Emit(Select(k, n + 1), "op", i)
             w == Emit(Select(v, s.at), "tmp", i)
             x == Emit(Select(w, n + 1), "op", i)
             y == Emit(Select(x, n + 2), "op", i)
             r == Emit(Select(y, n + 3), "op", i)
  <1>0. Ternary(isNested, s, i) = r
    <2>1. (n + 1) + 1 = n + 2 /\ (n + 1) + 2 = n + 3
      BY PositionFacts
    <2> QED
      BY <2>1 DEF Ternary, NewId
  <1>1. /\ n \in Nat /\ DOMAIN s.g = 1..n /\ s.at \in 1..n
        /\ n + 1 \in Ids /\ n + 2 \in Ids /\ n + 3 \in Ids
        /\ s.at \in 1..(n + 3) /\ n + 1 \in 1..(n + 3) /\ n + 2 \in 1..(n + 3)
        /\ n + 3 \in 1..(n + 3) /\ \A c \in 1..n : c \in 1..(n + 3)
        /\ \A c \in 1..n : c # n + 1 /\ c # n + 2 /\ c # n + 3
        /\ n + 1 # n + 2 /\ n + 1 # n + 3 /\ n + 2 # n + 3
    BY PositionFacts DEF Ids
  <1>2. /\ Position(a) /\ a.at = s.at /\ Len(a.g) = n /\ DOMAIN a.g = 1..n
        /\ \A c \in 1..n : SameArcs(a.g[c], s.g[c])
    <2>1. /\ Position(a) /\ a.at = s.at /\ Len(a.g) = n
          /\ \A c \in 1..n : SameArcs(a.g[c], s.g[c])
      BY <1>1, EmitLemma DEF NodeOps
    <2> HIDE DEF a
    <2> QED
      BY <2>1, PositionFacts
  <1> HIDE DEF a
  <1>3. /\ Position(b) /\ b.at = s.at /\ Len(b.g) = n + 3 /\ DOMAIN b.g = 1..(n + 3)
        /\ IsOpen(b.g[n + 1]) /\ IsOpen(b.g[n + 2]) /\ IsOpen(b.g[n + 3])
        /\ \A c \in 1..n : SameArcs(b.g[c], s.g[c])
    <2>1. /\ Position(b) /\ b.at = a.at /\ Len(b.g) = Len(a.g) + 3
          /\ IsOpen(b.g[Len(a.g) + 1]) /\ IsOpen(b.g[Len(a.g) + 2])
          /\ IsOpen(b.g[Len(a.g) + 3])
          /\ \A c \in DOMAIN a.g : SameArcs(b.g[c], a.g[c])
      BY <1>2, FreshThriceLemma
    <2> HIDE DEF b
    <2>2. DOMAIN b.g = 1..Len(b.g)
      BY <2>1, PositionFacts
    <2> QED
      BY <1>2, <2>1, <2>2 DEF SameArcs
  <1> HIDE DEF b, n
  <1>op. "op" \in NodeOps /\ "tmp" \in NodeOps
    BY DEF NodeOps
  <1>4. /\ Position(f) /\ f.at = s.at /\ Len(f.g) = n + 3 /\ DOMAIN f.g = 1..(n + 3)
        /\ IsOpen(s.g[s.at]) => IsSealed(f.g[s.at])
        /\ IsOpen(f.g[n + 1]) /\ IsOpen(f.g[n + 2]) /\ IsOpen(f.g[n + 3])
        /\ \A c \in 1..n : c # s.at => SameArcs(f.g[c], s.g[c])
    <2>1. /\ Position(f) /\ f.at = b.at /\ Len(f.g) = Len(b.g)
          /\ IsOpen(b.g[b.at]) => IsSealed(f.g[b.at])
          /\ \A c \in DOMAIN b.g : c # b.at => SameArcs(f.g[c], b.g[c])
      BY <1>1, <1>3, BranchLemma
    <2> HIDE DEF f
    <2>2. DOMAIN f.g = 1..Len(f.g)
      BY <2>1, PositionFacts
    <2>3. IsOpen(s.g[s.at]) => IsOpen(b.g[s.at])
      BY <1>1, <1>3, SameArcsFacts
    <2>4. /\ SameArcs(f.g[n + 1], b.g[n + 1]) /\ SameArcs(f.g[n + 2], b.g[n + 2])
          /\ SameArcs(f.g[n + 3], b.g[n + 3])
      BY <1>1, <1>3, <2>1
    <2>5. \A c \in 1..n : c # s.at => SameArcs(f.g[c], s.g[c])
      BY <1>1, <1>3, <2>1 DEF SameArcs
    <2> QED
      BY <1>3, <2>1, <2>2, <2>3, <2>4, <2>5, SameArcsFacts
  <1> HIDE DEF f
  <1>5. /\ Position(j) /\ Len(j.g) = n + 3 /\ DOMAIN j.g = 1..(n + 3) /\ IsSealed(j.g[n + 1])
        /\ \A c \in 1..(n + 3) : c # n + 1 => SameArcs(j.g[c], f.g[c])
    BY <1>1, <1>4, JumpAtLemma
  <1> HIDE DEF j
  <1>6. /\ Position(k) /\ Len(k.g) = n + 3 /\ DOMAIN k.g = 1..(n + 3) /\ IsSealed(k.g[n + 2])
        /\ \A c \in 1..(n + 3) : c # n + 2 => SameArcs(k.g[c], j.g[c])
    <2>1. IsOpen(j.g[n + 2])
      BY <1>1, <1>4, <1>5, SameArcsFacts
    <2> QED
      BY <1>1, <1>5, <2>1, JumpAtLemma
  <1> HIDE DEF k
  <1>7. /\ Position(v) /\ Len(v.g) >= n + 3
        /\ ~isNested => /\ Len(v.g) = n + 3
                        /\ \A c \in 1..(n + 3) : SameArcs(v.g[c], k.g[c])
    <2>1. Position(Select(k, n + 1)) /\ Select(k, n + 1).g = k.g
      BY <1>1, <1>6, SelectLemma DEF Position
    <2>2. CASE isNested
      BY <1>6, <2>1, <2>2, ShortLogicLemma DEF Result
    <2>3. CASE ~isNested
      BY <1>1, <1>6, <1>op, <2>3, EmitAtLemma
    <2> QED
      BY <2>2, <2>3
  <1> HIDE DEF v
  <1> DEFINE m == Len(v.g)
  <1>8. /\ m \in Nat /\ DOMAIN v.g = 1..m /\ s.at \in 1..m
        /\ n + 1 \in 1..m /\ n + 2 \in 1..m /\ n + 3 \in 1..m
    BY <1>1, <1>7, PositionFacts
  <1> HIDE DEF m
  <1>9. /\ Position(w) /\ Len(w.g) = m /\ DOMAIN w.g = 1..m
        /\ \A c \in 1..m : SameArcs(w.g[c], v.g[c])
    BY <1>7, <1>8, <1>op, EmitAtLemma DEF m
  <1> HIDE DEF w
  <1>10. /\ Position(x) /\ Len(x.g) = m /\ DOMAIN x.g = 1..m
         /\ \A c \in 1..m : SameArcs(x.g[c], w.g[c])
    BY <1>8, <1>9, <1>op, EmitAtLemma
  <1> HIDE DEF x
  <1>11. /\ Position(y) /\ Len(y.g) = m /\ DOMAIN y.g = 1..m
         /\ \A c \in 1..m : SameArcs(y.g[c], x.g[c])
    BY <1>8, <1>10, <1>op, EmitAtLemma
  <1> HIDE DEF y
  <1>12. /\ Position(r) /\ r.at = n + 3 /\ Len(r.g) = m /\ DOMAIN r.g = 1..m
         /\ \A c \in 1..m : SameArcs(r.g[c], y.g[c])
    BY <1>8, <1>11, <1>op, EmitAtLemma
  <1> HIDE DEF r
  <1>13. ASSUME ~isNested, IsOpen(s.g[s.at])
         PROVE  Grows(s, r)
    <2>1. m = n + 3 /\ \A c \in 1..(n + 3) : SameArcs(r.g[c], k.g[c])
      <3>1. m = n + 3 /\ \A c \in 1..m : SameArcs(v.g[c], k.g[c])
        BY <1>7, <1>13 DEF m
      <3> QED
        BY <1>9, <1>10, <1>11, <1>12, <3>1 DEF SameArcs
    <2>2. IsSealed(k.g[n + 1]) /\ IsSealed(k.g[s.at]) /\ IsOpen(k.g[n + 3])
      BY <1>1, <1>4, <1>5, <1>6, <1>13, SameArcsFacts
    <2>3. /\ IsSealed(r.g[n + 1]) /\ IsSealed(r.g[n + 2]) /\ IsSealed(r.g[s.at])
          /\ IsOpen(r.g[n + 3])
      BY <1>1, <1>6, <2>1, <2>2, SameArcsFacts
    <2>4. \A c \in 1..n : c # s.at => SameArcs(r.g[c], s.g[c])
      BY <1>1, <1>4, <1>5, <1>6, <2>1 DEF SameArcs
    <2>5. \A c \in 1..(n + 3) : c > n /\ c # n + 3 => c = n + 1 \/ c = n + 2
      BY <1>1
    <2>6. r.at > n
      BY <1>1, <1>12
    <2> QED
      BY <1>1, <1>12, <2>1, <2>3, <2>4, <2>5, <2>6 DEF Grows, n
  <1>14. Position(r) /\ Len(r.g) >= Len(s.g)
    BY <1>1, <1>7, <1>12 DEF m, n
  <1> QED
    BY <1>0, <1>13, <1>14 DEF Result

(* evalExpr never shrinks the graph; it leaves an open block selected but for a nested ?:. *)
LEMMA EvalLemma ==
    ASSUME NEW s, Position(s), NEW e \in AllExprs, NEW i \in Nat
    PROVE  /\ Position(Eval(e, s, i)) /\ Len(Eval(e, s, i).g) >= Len(s.g)
           /\ e # "condAnd" => Result(s, Eval(e, s, i))
  <1>1. CASE e = "const"
    <2>1. Eval(e, s, i) = s
      BY <1>1 DEF Eval
    <2>2. IsOpen(s.g[s.at]) => Grows(s, s)
      BY PositionFacts DEF Grows, SameArcs
    <2> QED
      BY <2>1, <2>2, PositionFacts DEF Result
  <1>2. CASE e = "plain"
    <2> DEFINE r == Emit(s, "op", i)
    <2>1. Eval(e, s, i) = r
      BY <1>2 DEF Eval
    <2>2. /\ Position(r) /\ r.at = s.at /\ Len(r.g) = Len(s.g)
          /\ \A c \in DOMAIN s.g : SameArcs(r.g[c], s.g[c])
      BY EmitLemma DEF NodeOps
    <2> HIDE DEF r
    <2>3. IsOpen(s.g[s.at]) => Grows(s, r)
      <3>1. DOMAIN r.g = DOMAIN s.g /\ \A c \in DOMAIN r.g : ~(c > Len(s.g))
        BY <2>2, PositionFacts
      <3>2. IsOpen(s.g[s.at]) => IsOpen(r.g[r.at])
        BY <2>2, PositionFacts, SameArcsFacts
      <3> QED
        BY <2>2, <3>1, <3>2 DEF Grows
    <2> QED
      BY <2>1, <2>2, <2>3, PositionFacts DEF Result
  <1>3. CASE e \in {"and", "or"}
    <2>1. Eval(e, s, i) = ShortLogic(e, s, i)
      BY <1>3 DEF Eval
    <2> QED
      BY <2>1, ShortLogicLemma DEF Result
  <1>4. CASE e \in {"cond", "condAnd"}
    <2>1. Eval(e, s, i) = Ternary(e = "condAnd", s, i)
      BY <1>4 DEF Eval
    <2>2. (e = "condAnd") \in BOOLEAN
      OBVIOUS
    <2> HIDE DEF Eval
    <2> QED
      BY <2>1, <2>2, TernaryLemma
  <1> QED
    BY <1>1, <1>2, <1>3, <1>4 DEF AllExprs

-----------------------------------------------------------------------------
(* The last element of a stack and the stack without it. *)
LEMMA StackLemma ==
    ASSUME NEW S, NEW q \in Seq(S), q # <<>>
    PROVE  /\ Len(q) \in Nat \ {0} /\ DOMAIN q = 1..Len(q)
           /\ Last(q) \in S /\ Last(q) = q[Len(q)]
           /\ Front(q) \in Seq(S) /\ Len(Front(q)) = Len(q) - 1
           /\ \A k \in 1..(Len(q) - 1) : Front(q)[k] = q[k]
  <1>1. Len(q) \in Nat \ {0} /\ DOMAIN q = 1..Len(q)
    BY LenProperties, EmptySeq
  <1>2. Last(q) \in S /\ Last(q) = q[Len(q)]
    BY <1>1, ElementOfSeq DEF Last
  <1>3. /\ SubSeq(q, 1, Len(q) - 1) \in Seq(S)
        /\ Len(SubSeq(q, 1, Len(q) - 1)) = Len(q) - 1
        /\ \A k \in 1..(Len(q) - 1) : SubSeq(q, 1, Len(q) - 1)[k] = q[k]
    <2>1. /\ 1 \in 1..(Len(q) + 1) /\ Len(q) - 1 \in (1 - 1)..Len(q)
          /\ \A i \in 1..(Len(q) - 1) : q[i] \in S
      BY <1>1, ElementOfSeq
    <2> QED
      BY <1>1, <2>1, SubSeqProperties
  <1> QED
    BY <1>1, <1>2, <1>3 DEF Front

(* Without its last element a sequence of anything is still one. *)
LEMMA FrontLemma ==
    ASSUME NEW S, NEW q \in Seq(S)
    PROVE  Front(q) \in Seq(S)
  <1>1. CASE q = <<>>
    <2>1. Front(q) = <<>>
      BY <1>1 DEF Front
    <2> QED
      BY <2>1
  <1> QED
    BY <1>1, StackLemma

(* What an appended element changes. *)
LEMMA PushLemma ==
    ASSUME NEW S, NEW q \in Seq(S), NEW x \in S
    PROVE  /\ Append(q, x) \in Seq(S) /\ Append(q, x) # <<>>
           /\ Len(q) \in Nat /\ Len(Append(q, x)) = Len(q) + 1
           /\ DOMAIN q = 1..Len(q) /\ DOMAIN Append(q, x) = 1..(Len(q) + 1)
           /\ Append(q, x)[Len(q) + 1] = x /\ Last(Append(q, x)) = x
           /\ \A k \in 1..Len(q) : Append(q, x)[k] = q[k]
  <1>1. /\ Append(q, x) \in Seq(S) /\ Len(q) \in Nat /\ Len(Append(q, x)) = Len(q) + 1
        /\ DOMAIN q = 1..Len(q) /\ Append(q, x)[Len(q) + 1] = x
        /\ \A k \in 1..Len(q) : Append(q, x)[k] = q[k]
    BY AppendProperties, LenProperties
  <1> QED
    BY <1>1, EmptySeq DEF Last

(* A non-empty set of naturals has a least element, and one of numbers up   *)
(* to n a greatest one: the searches of the deque find something.           *)
LEMMA LeastNatural ==
    ASSUME NEW T, T \subseteq Nat, T # {}
    PROVE  \E x \in T : \A y \in T : x <= y
  <1> DEFINE R == OpToRel(<, Nat)
  <1>1. IsWellFoundedOn(R, Nat)
    BY NatLessThanWellFounded
  <1>2. \A x, y \in Nat : y < x => <<y, x>> \in R
    BY DEF OpToRel
  <1> HIDE DEF R
  <1>3. PICK x \in T : \A y \in T : ~(<<y, x>> \in R)
    BY <1>1, WFMin
  <1>4. \A y \in T : y \in Nat /\ x \in Nat /\ ~(y < x)
    BY <1>2, <1>3
  <1>5. \A y \in T : x <= y
    BY <1>4
  <1> QED
    BY <1>5

(* A set of indices that is not empty has a greatest one. *)
LEMMA GreatestIndex ==
    ASSUME NEW n \in Nat, NEW S \in SUBSET (1..n), S # {}
    PROVE  \E x \in S : \A y \in S : y <= x
  <1> DEFINE T == {n - x : x \in S}
  <1>1. \A x \in S : x \in Int /\ 1 <= x /\ x <= n
    OBVIOUS
  <1>2. T \subseteq Nat
    BY <1>1
  <1>3. T # {}
    OBVIOUS
  <1>4. PICK t \in T : \A y \in T : t <= y
    BY <1>2, <1>3, LeastNatural
  <1>5. PICK x \in S : t = n - x
    OBVIOUS
  <1>6. \A y \in S : n - y \in T
    OBVIOUS
  <1>7. \A y \in S : n - x <= n - y
    BY <1>4, <1>5, <1>6
  <1>8. \A y \in S : y <= x
    BY <1>1, <1>7
  <1> QED
    BY <1>8

-----------------------------------------------------------------------------
(***************************************************************************)
(* How activeControls mirrors the handlers, as a relation between the two  *)
(* stacks.  The depths of the frames never decrease from the outermost     *)
(* frame to the innermost; that is what makes the relation survive a pop.  *)
(***************************************************************************)
DepthUnder(fs, k) == IF k = 1 THEN 0 ELSE fs[k - 1].depth

Mirrors(f, below, cs) ==
    IF f.kind \in Breakable
    THEN /\ f.depth = below + 1
         /\ cs[f.depth].exit = f.blockAfter
         /\ IsLoop(cs[f.depth]) <=> f.kind \in {"loop", "for"}
    ELSE f.depth = below

Nested(fs, cs) ==
    /\ fs = <<>> => cs = <<>>
    /\ fs # <<>> => Last(fs).depth = Len(cs)
    /\ \A k \in DOMAIN fs : Mirrors(fs[k], DepthUnder(fs, k), cs)
    /\ \A j, k \in DOMAIN fs : j <= k => fs[j].depth <= fs[k].depth

(* The depth under the frame that is pushed is the size of the deque. *)
LEMMA NestedFacts ==
    ASSUME NEW fs \in Seq(Frame), NEW cs \in Seq(Control), Nested(fs, cs)
    PROVE  /\ Len(fs) \in Nat /\ DOMAIN fs = 1..Len(fs)
           /\ Len(cs) \in Nat /\ DOMAIN cs = 1..Len(cs)
           /\ \A k \in DOMAIN fs : fs[k] \in Frame /\ fs[k].depth \in Nat
                                   /\ fs[k].depth <= Len(cs)
           /\ fs = <<>> => Len(cs) = 0
           /\ fs # <<>> => Len(fs) \in DOMAIN fs /\ fs[Len(fs)].depth = Len(cs)
  <1>1. /\ Len(fs) \in Nat /\ DOMAIN fs = 1..Len(fs)
        /\ Len(cs) \in Nat /\ DOMAIN cs = 1..Len(cs)
        /\ \A k \in DOMAIN fs : fs[k] \in Frame
    BY LenProperties, ElementOfSeq
  <1>2. \A k \in DOMAIN fs : fs[k].depth \in Nat
    BY <1>1 DEF Frame
  <1>3. fs = <<>> => Len(cs) = 0
    BY DEF Nested
  <1>4. fs # <<>> => Len(fs) \in DOMAIN fs /\ fs[Len(fs)].depth = Len(cs)
    <2>1. fs # <<>> => Last(fs).depth = Len(cs)
      BY DEF Nested
    <2>2. ASSUME fs # <<>> PROVE Len(fs) \in DOMAIN fs /\ Last(fs) = fs[Len(fs)]
      <3>1. /\ Len(fs) \in Nat \ {0} /\ DOMAIN fs = 1..Len(fs)
            /\ Last(fs) = fs[Len(fs)]
        BY <2>2, StackLemma
      <3> QED
        BY <3>1
    <2> QED
      BY <2>1, <2>2
  <1>5. \A k \in DOMAIN fs : fs[k].depth <= Len(cs)
    <2> SUFFICES ASSUME NEW k \in DOMAIN fs PROVE fs[k].depth <= Len(cs)
      OBVIOUS
    <2>1. fs # <<>> /\ k <= Len(fs)
      BY <1>1, EmptySeq
    <2> QED
      BY <1>4, <2>1 DEF Nested
  <1> QED
    BY <1>1, <1>2, <1>3, <1>4, <1>5

(* A frame is pushed; with it the control of a loop or a switch. *)
LEMMA NestedPush ==
    ASSUME NEW fs \in Seq(Frame), NEW cs \in Seq(Control), Nested(fs, cs),
           NEW f \in Frame, NEW ds \in Seq(Control),
           \/ ds = cs /\ f.kind \notin Breakable /\ f.depth = Len(cs)
           \/ /\ f.kind \in Breakable /\ f.depth = Len(cs) + 1
              /\ \E c \in Control : /\ ds = Append(cs, c) /\ c.exit = f.blockAfter
                                    /\ IsLoop(c) <=> f.kind \in {"loop", "for"}
    PROVE  Nested(Append(fs, f), ds)
  <1> DEFINE gs == Append(fs, f)
             n == Len(fs)
  <1>1. /\ n \in Nat /\ DOMAIN fs = 1..n /\ Len(cs) \in Nat /\ DOMAIN cs = 1..Len(cs)
        /\ \A k \in 1..n : fs[k] \in Frame /\ fs[k].depth \in Nat /\ fs[k].depth <= Len(cs)
        /\ fs = <<>> => Len(cs) = 0 /\ n = 0
        /\ fs # <<>> => n \in 1..n /\ fs[n].depth = Len(cs)
    BY NestedFacts
  <1>2. /\ gs # <<>> /\ DOMAIN gs = 1..(n + 1) /\ gs[n + 1] = f /\ Last(gs) = f
        /\ \A k \in 1..n : gs[k] = fs[k]
    BY PushLemma
  <1> HIDE DEF gs, n
  <1>3. /\ Len(ds) = f.depth /\ f.depth >= Len(cs) /\ f.depth \in Nat
        /\ \A k \in 1..Len(cs) : ds[k] = cs[k]
    <2>0. Len(cs) \in Nat
      BY <1>1
    <2>1. CASE ds = cs /\ f.depth = Len(cs)
      BY <2>0, <2>1
    <2>2. CASE f.depth = Len(cs) + 1 /\ \E c \in Control : ds = Append(cs, c)
      <3>1. Len(ds) = Len(cs) + 1 /\ \A k \in 1..Len(cs) : ds[k] = cs[k]
        BY <2>2, PushLemma
      <3> QED
        BY <2>0, <2>2, <3>1
    <2> QED
      BY <2>1, <2>2
  <1>4. DepthUnder(gs, n + 1) = Len(cs)
    <2>1. CASE fs = <<>>
      BY <1>1, <2>1 DEF DepthUnder
    <2>2. CASE fs # <<>>
      <3>1. n + 1 # 1 /\ (n + 1) - 1 = n
        BY <1>1, <2>2
      <3> QED
        BY <1>1, <1>2, <2>2, <3>1 DEF DepthUnder
    <2> QED
      BY <2>1, <2>2
  <1>5. Mirrors(gs[n + 1], DepthUnder(gs, n + 1), ds)
    <2>1. CASE ds = cs /\ f.kind \notin Breakable /\ f.depth = Len(cs)
      <3> QED
        BY <1>2, <1>4, <2>1 DEF Mirrors
    <2>2. CASE /\ f.kind \in Breakable /\ f.depth = Len(cs) + 1
               /\ \E c \in Control : /\ ds = Append(cs, c) /\ c.exit = f.blockAfter
                                     /\ IsLoop(c) <=> f.kind \in {"loop", "for"}
      <3>1. PICK c \in Control : /\ ds = Append(cs, c) /\ c.exit = f.blockAfter
                                 /\ IsLoop(c) <=> f.kind \in {"loop", "for"}
        BY <2>2
      <3>2. ds[f.depth] = c
        BY <2>2, <3>1, PushLemma
      <3> QED
        BY <1>2, <1>4, <2>2, <3>1, <3>2 DEF Mirrors
    <2> QED
      BY <2>1, <2>2
  <1>6. \A k \in 1..n : Mirrors(gs[k], DepthUnder(gs, k), ds)
    <2> SUFFICES ASSUME NEW k \in 1..n PROVE Mirrors(gs[k], DepthUnder(gs, k), ds)
      OBVIOUS
    <2>1. Mirrors(fs[k], DepthUnder(fs, k), cs)
      BY <1>1 DEF Nested
    <2>2. DepthUnder(gs, k) = DepthUnder(fs, k) /\ DepthUnder(fs, k) \in Nat
      <3>1. k # 1 => k - 1 \in 1..n
        BY <1>1
      <3> QED
        BY <1>1, <1>2, <3>1 DEF DepthUnder
    <2>3. fs[k].kind \in Breakable => fs[k].depth \in 1..Len(cs)
      BY <1>1, <2>1, <2>2 DEF Mirrors
    <2> QED
      BY <1>2, <1>3, <2>1, <2>2, <2>3 DEF Mirrors
  <1>7. \A j, k \in 1..(n + 1) : j <= k => gs[j].depth <= gs[k].depth
    <2> SUFFICES ASSUME NEW j \in 1..(n + 1), NEW k \in 1..(n + 1), j <= k
                 PROVE  gs[j].depth <= gs[k].depth
      OBVIOUS
    <2>1. CASE k \in 1..n
      <3>1. j \in 1..n
        BY <1>1, <2>1
      <3>2. \A a, b \in 1..n : a <= b => fs[a].depth <= fs[b].depth
        BY <1>1 DEF Nested
      <3> QED
        BY <1>2, <2>1, <3>1, <3>2
    <2>2. CASE k = n + 1 /\ j \in 1..n
      BY <1>1, <1>2, <1>3, <2>2
    <2>3. CASE k = n + 1 /\ j = n + 1
      BY <1>2, <1>3, <2>3
    <2> QED
      BY <1>1, <2>1, <2>2, <2>3
  <1>8. \A k \in DOMAIN gs : Mirrors(gs[k], DepthUnder(gs, k), ds)
    BY <1>1, <1>2, <1>5, <1>6
  <1> QED
    BY <1>2, <1>3, <1>7, <1>8 DEF Nested, gs, n

(* The innermost frame is popped; with it the control of a loop or switch. *)
LEMMA NestedPop ==
    ASSUME NEW fs \in Seq(Frame), NEW cs \in Seq(Control), Nested(fs, cs), fs # <<>>
    PROVE  /\ Last(fs).kind \in Breakable =>
                cs # <<>> /\ Last(cs).exit = Last(fs).blockAfter
                          /\ (IsLoop(Last(cs)) <=> Last(fs).kind \in {"loop", "for"})
           /\ Nested(Front(fs), IF Last(fs).kind \in Breakable THEN Front(cs) ELSE cs)
  <1> DEFINE gs == Front(fs)
             n == Len(fs)
             f == Last(fs)
             ds == IF f.kind \in Breakable THEN Front(cs) ELSE cs
  <1>1. /\ n \in Nat \ {0} /\ DOMAIN fs = 1..n /\ f = fs[n]
        /\ gs \in Seq(Frame) /\ Len(gs) = n - 1 /\ DOMAIN gs = 1..(n - 1)
        /\ \A k \in 1..(n - 1) : gs[k] = fs[k]
    <2>1. /\ n \in Nat \ {0} /\ DOMAIN fs = 1..n /\ f = fs[n]
          /\ gs \in Seq(Frame) /\ Len(gs) = n - 1
          /\ \A k \in 1..(n - 1) : gs[k] = fs[k]
      BY StackLemma
    <2> HIDE DEF gs, n, f
    <2> QED
      BY <2>1, LenProperties
  <1>2. /\ Len(cs) \in Nat /\ DOMAIN cs = 1..Len(cs)
        /\ \A k \in 1..n : fs[k] \in Frame /\ fs[k].depth \in Nat /\ fs[k].depth <= Len(cs)
        /\ f.depth = Len(cs)
    BY <1>1, NestedFacts DEF Nested
  <1>3. /\ Mirrors(f, DepthUnder(fs, n), cs)
        /\ \A k \in 1..n : Mirrors(fs[k], DepthUnder(fs, k), cs)
        /\ \A j, k \in 1..n : j <= k => fs[j].depth <= fs[k].depth
    <2> HIDE DEF gs, n, f
    <2>1. n \in 1..n
      BY <1>1
    <2>2. \A k \in 1..n : Mirrors(fs[k], DepthUnder(fs, k), cs)
      BY <1>1 DEF Nested
    <2>3. \A j, k \in 1..n : j <= k => fs[j].depth <= fs[k].depth
      BY <1>1 DEF Nested
    <2> QED
      BY <1>1, <2>1, <2>2, <2>3
  <1> HIDE DEF gs, n, f
  <1>4. DepthUnder(fs, n) \in Nat /\ \A k \in 1..(n - 1) : fs[k].depth <= DepthUnder(fs, n)
    <2>1. CASE n = 1
      BY <2>1 DEF DepthUnder
    <2>2. CASE n # 1
      <3>1. DepthUnder(fs, n) = fs[n - 1].depth /\ n - 1 \in 1..n
        BY <1>1, <2>2 DEF DepthUnder
      <3>2. \A k \in 1..(n - 1) : k \in 1..n /\ k <= n - 1
        BY <1>1
      <3> QED
        BY <1>2, <1>3, <3>1, <3>2
    <2> QED
      BY <2>1, <2>2
  <1>5. CASE f.kind \in Breakable
    <2>1. /\ f.depth = DepthUnder(fs, n) + 1 /\ cs[f.depth].exit = f.blockAfter
          /\ IsLoop(cs[f.depth]) <=> f.kind \in {"loop", "for"}
      BY <1>3, <1>5 DEF Mirrors
    <2>2. Len(cs) = DepthUnder(fs, n) + 1 /\ cs # <<>>
      BY <1>2, <1>4, <2>1
    <2>3. /\ ds = Front(cs) /\ Last(cs) = cs[Len(cs)]
          /\ ds \in Seq(Control) /\ Len(ds) = DepthUnder(fs, n)
          /\ \A k \in 1..Len(ds) : ds[k] = cs[k]
      <3>1. ds = Front(cs)
        BY <1>5 DEF f
      <3>2. /\ Last(cs) = cs[Len(cs)] /\ Front(cs) \in Seq(Control)
            /\ Len(Front(cs)) = Len(cs) - 1
            /\ \A k \in 1..(Len(cs) - 1) : Front(cs)[k] = cs[k]
        BY <2>2, StackLemma
      <3> QED
        BY <1>2, <1>4, <2>2, <3>1, <3>2
    <2> HIDE DEF ds
    <2>4. gs = <<>> => ds = <<>>
      <3>1. gs = <<>> => n = 1
        BY <1>1
      <3>2. n = 1 => Len(ds) = 0
        BY <2>3 DEF DepthUnder
      <3> QED
        BY <2>3, <3>1, <3>2, EmptySeq
    <2>5. ASSUME gs # <<>> PROVE Last(gs).depth = Len(ds)
      <3>1. n # 1 /\ n - 1 \in 1..(n - 1) /\ Last(gs) = gs[n - 1]
        <4>1. Len(gs) # 0 /\ Last(gs) = gs[Len(gs)]
          BY <1>1, <2>5, StackLemma
        <4> QED
          BY <1>1, <4>1
      <3> QED
        BY <1>1, <2>3, <3>1 DEF DepthUnder
    <2>6. ASSUME NEW k \in 1..(n - 1) PROVE Mirrors(gs[k], DepthUnder(gs, k), ds)
      <3>1. Mirrors(fs[k], DepthUnder(fs, k), cs) /\ k \in 1..n
        BY <1>1, <1>3
      <3>2. DepthUnder(gs, k) = DepthUnder(fs, k) /\ DepthUnder(fs, k) \in Nat
        <4>1. k # 1 => k - 1 \in 1..(n - 1) /\ k - 1 \in 1..n
          BY <1>1
        <4> QED
          BY <1>1, <1>2, <4>1 DEF DepthUnder
      <3>3. fs[k].kind \in Breakable => fs[k].depth \in 1..Len(ds)
        <4>1. fs[k].kind \in Breakable => fs[k].depth = DepthUnder(fs, k) + 1
          BY <3>1 DEF Mirrors
        <4>2. fs[k].depth <= DepthUnder(fs, n)
          BY <1>4
        <4> QED
          BY <1>2, <1>4, <2>3, <3>1, <3>2, <4>1, <4>2
      <3> QED
        BY <1>1, <2>3, <3>1, <3>2, <3>3 DEF Mirrors
    <2>7. \A j, k \in 1..(n - 1) : j <= k => gs[j].depth <= gs[k].depth
      <3>1. \A k \in 1..(n - 1) : k \in 1..n /\ gs[k] = fs[k]
        BY <1>1
      <3> QED
        BY <1>3, <3>1
    <2>8. Nested(gs, ds)
      BY <1>1, <2>4, <2>5, <2>6, <2>7 DEF Nested
    <2> QED
      BY <1>2, <1>5, <2>1, <2>2, <2>3, <2>8 DEF gs, ds, f
  <1>6. CASE f.kind \notin Breakable
    <2>1. ds = cs /\ f.depth = DepthUnder(fs, n)
      BY <1>3, <1>6 DEF Mirrors, f
    <2> HIDE DEF ds
    <2>2. gs = <<>> => ds = <<>>
      <3>1. gs = <<>> => n = 1
        BY <1>1
      <3>2. n = 1 => Len(cs) = 0
        BY <1>2, <2>1 DEF DepthUnder
      <3> QED
        BY <2>1, <3>1, <3>2, EmptySeq
    <2>3. ASSUME gs # <<>> PROVE Last(gs).depth = Len(ds)
      <3>1. n # 1 /\ n - 1 \in 1..(n - 1) /\ Last(gs) = gs[n - 1]
        <4>1. Len(gs) # 0 /\ Last(gs) = gs[Len(gs)]
          BY <1>1, <2>3, StackLemma
        <4> QED
          BY <1>1, <4>1
      <3> QED
        BY <1>1, <1>2, <2>1, <3>1 DEF DepthUnder
    <2>4. ASSUME NEW k \in 1..(n - 1) PROVE Mirrors(gs[k], DepthUnder(gs, k), ds)
      <3>1. Mirrors(fs[k], DepthUnder(fs, k), cs) /\ k \in 1..n
        BY <1>1, <1>3
      <3>2. DepthUnder(gs, k) = DepthUnder(fs, k)
        <4>1. k # 1 => k - 1 \in 1..(n - 1)
          BY <1>1
        <4> QED
          BY <1>1, <4>1 DEF DepthUnder
      <3> QED
        BY <1>1, <2>1, <3>1, <3>2
    <2>5. \A j, k \in 1..(n - 1) : j <= k => gs[j].depth <= gs[k].depth
      <3>1. \A k \in 1..(n - 1) : k \in 1..n /\ gs[k] = fs[k]
        BY <1>1
      <3> QED
        BY <1>3, <3>1
    <2>6. Nested(gs, ds)
      BY <1>1, <2>2, <2>3, <2>4, <2>5 DEF Nested
    <2> QED
      BY <1>6, <2>6 DEF gs, ds, f
  <1> QED
    BY <1>5, <1>6

(* The controls change in fields the relation does not look at. *)
LEMMA NestedRelabel ==
    ASSUME NEW fs \in Seq(Frame), NEW cs \in Seq(Control), Nested(fs, cs),
           NEW ds \in Seq(Control), Len(ds) = Len(cs),
           \A k \in 1..Len(cs) : ds[k].exit = cs[k].exit /\ ds[k].kind = cs[k].kind
    PROVE  Nested(fs, ds)
  <1>1. /\ Len(cs) \in Nat /\ \A k \in DOMAIN fs : fs[k].depth \in Nat /\ fs[k].depth <= Len(cs)
        /\ fs = <<>> => Len(cs) = 0 /\ DOMAIN fs = 1..Len(fs) /\ Len(fs) \in Nat
    BY NestedFacts
  <1>2. ASSUME NEW k \in DOMAIN fs PROVE Mirrors(fs[k], DepthUnder(fs, k), ds)
    <2>1. Mirrors(fs[k], DepthUnder(fs, k), cs)
      BY DEF Nested
    <2>2. DepthUnder(fs, k) \in Nat
      <3>1. DOMAIN fs = 1..Len(fs) /\ Len(fs) \in Nat
        BY NestedFacts
      <3>2. k # 1 => k - 1 \in DOMAIN fs
        BY <3>1
      <3> QED
        BY <1>1, <3>2 DEF DepthUnder
    <2>3. fs[k].kind \in Breakable => fs[k].depth \in 1..Len(cs)
      BY <1>1, <2>1, <2>2 DEF Mirrors
    <2> QED
      BY <2>1, <2>3 DEF Mirrors, IsLoop
  <1>3. fs = <<>> => ds = <<>>
    BY <1>1, EmptySeq
  <1>4. fs # <<>> => Last(fs).depth = Len(ds)
    BY DEF Nested
  <1>5. \A j, k \in DOMAIN fs : j <= k => fs[j].depth <= fs[k].depth
    BY DEF Nested
  <1> QED
    BY <1>2, <1>3, <1>4, <1>5 DEF Nested

(* The frame of a loop or a switch changes in what the relation leaves free. *)
LEMMA NestedReplace ==
    ASSUME NEW fs \in Seq(Frame), NEW cs \in Seq(Control), Nested(fs, cs), fs # <<>>,
           NEW f \in Frame, f.depth = Last(fs).depth, f.blockAfter = Last(fs).blockAfter,
           Last(fs).kind \in Breakable, f.kind \in Breakable,
           f.kind \in {"loop", "for"} <=> Last(fs).kind \in {"loop", "for"}
    PROVE  Append(Front(fs), f) \in Seq(Frame) /\ Nested(Append(Front(fs), f), cs)
  <1> DEFINE gs == Front(fs)
             ds == Front(cs)
             c == Last(cs)
  <1>1. gs \in Seq(Frame) /\ Append(gs, f) \in Seq(Frame)
    <2>1. gs \in Seq(Frame)
      BY StackLemma
    <2> QED
      BY <2>1, PushLemma
  <1>2. /\ cs # <<>> /\ c.exit = f.blockAfter
        /\ IsLoop(c) <=> f.kind \in {"loop", "for"}
        /\ Nested(gs, ds)
    BY NestedPop
  <1>3. /\ c \in Control /\ c = cs[Len(cs)] /\ Len(cs) \in Nat \ {0} /\ ds \in Seq(Control)
        /\ Len(ds) = Len(cs) - 1 /\ \A k \in 1..(Len(cs) - 1) : ds[k] = cs[k]
    BY <1>2, StackLemma
  <1>4. f.depth = Len(cs)
    BY DEF Nested
  <1> HIDE DEF gs, ds, c
  <1>5. cs = Append(ds, c)
    <2>1. /\ Append(ds, c) \in Seq(Control) /\ Len(Append(ds, c)) = Len(cs)
          /\ Append(ds, c)[Len(cs)] = c
          /\ \A k \in 1..(Len(cs) - 1) : Append(ds, c)[k] = cs[k]
      <3>1. /\ Append(ds, c) \in Seq(Control) /\ Len(Append(ds, c)) = Len(ds) + 1
            /\ Append(ds, c)[Len(ds) + 1] = c
            /\ \A k \in 1..Len(ds) : Append(ds, c)[k] = ds[k]
        BY <1>3, PushLemma
      <3>2. Len(ds) + 1 = Len(cs)
        BY <1>3
      <3> QED
        BY <1>3, <3>1, <3>2
    <2>2. \A k \in 1..Len(cs) : k = Len(cs) \/ k \in 1..(Len(cs) - 1)
      BY <1>3
    <2>3. \A k \in 1..Len(cs) : Append(ds, c)[k] = cs[k]
      BY <1>3, <2>1, <2>2
    <2> QED
      BY <2>1, <2>3, SeqEqual
  <1>6. f.depth = Len(ds) + 1
    BY <1>3, <1>4
  <1>7. Nested(Append(gs, f), cs)
    BY <1>1, <1>2, <1>3, <1>5, <1>6, NestedPush
  <1> QED
    BY <1>1, <1>7 DEF gs

-----------------------------------------------------------------------------
(***************************************************************************)
(* The inductive invariant.  The blocks a frame holds are in the graph     *)
(* (a switch has both of its own), the controls mirror the frames, and a   *)
(* mode tells which frame is on top and that between functions the tables  *)
(* of a function are empty.                                                *)
(***************************************************************************)
InRange(g, f) ==
    /\ f.blockFalse \in {NoBlock} \cup DOMAIN g
    /\ f.blockAfter \in {NoBlock} \cup DOMAIN g
    /\ f.kind \in {"switch", "dispatch"} => f.blockAfter \in DOMAIN g /\ f.entry \in DOMAIN g

FramesInRange == \A k \in DOMAIN frames : InRange(cfg, frames[k])

ModeShowsFrame ==
    /\ mode \in {"idle", "resolve"} => frames = <<>>
    /\ mode = "idle" => dangling = <<>> /\ \A l \in Labels : labels[l] = NoBlock
    /\ mode = "dispatch" => frames # <<>> /\ Top.kind = "dispatch" /\ sel # NoBlock

TypeInv == TypeOK /\ FramesInRange /\ Nested(frames, controls) /\ ModeShowsFrame

(* What the invariant keeps of the graph survives when the graph grows. *)
LEMMA CarryOver ==
    ASSUME TypeInv, NEW g \in Graph, Len(g) >= Len(cfg)
    PROVE  /\ DOMAIN cfg \subseteq DOMAIN g
           /\ labels \in [Labels -> {NoBlock} \cup DOMAIN g]
           /\ dangling \in Seq([block : DOMAIN g, label : Labels])
           /\ fellOff \subseteq DOMAIN g /\ orphans \subseteq DOMAIN g
           /\ \A f \in Frame : InRange(cfg, f) => InRange(g, f)
  <1>1. cfg \in Graph /\ DOMAIN cfg = 1..Len(cfg) /\ Len(cfg) \in Nat
        /\ DOMAIN g = 1..Len(g) /\ Len(g) \in Nat
    BY DEF TypeInv, TypeOK, Graph
  <1>2. DOMAIN cfg \subseteq DOMAIN g
    BY <1>1
  <1>3. labels \in [Labels -> {NoBlock} \cup DOMAIN g]
    BY <1>2 DEF TypeInv, TypeOK
  <1>4. dangling \in Seq([block : DOMAIN g, label : Labels])
    <2>1. dangling \in Seq([block : DOMAIN cfg, label : Labels])
      BY DEF TypeInv, TypeOK
    <2>2. [block : DOMAIN cfg, label : Labels] \subseteq [block : DOMAIN g, label : Labels]
      BY <1>2
    <2> QED
      BY <2>1, <2>2, SeqMonotonic
  <1>5. fellOff \subseteq DOMAIN g /\ orphans \subseteq DOMAIN g
    BY <1>2 DEF TypeInv, TypeOK
  <1>6. \A f \in Frame : InRange(cfg, f) => InRange(g, f)
    BY <1>2 DEF InRange
  <1> QED
    BY <1>2, <1>3, <1>4, <1>5, <1>6

(* fillBlock leaves a selected block. *)
LEMMA ReadyLemma ==
    ASSUME TypeInv
    PROVE  Position(Ready) /\ Len(Ready.g) >= Len(cfg)
  <1>1. cfg \in Graph /\ Len(cfg) \in Nat /\ sel \in {NoBlock} \cup DOMAIN cfg
    BY DEF TypeInv, TypeOK, Graph
  <1>2. CASE sel = NoBlock
    <2>1. CreateBlock(cfg) \in Graph /\ Len(CreateBlock(cfg)) = Len(cfg) + 1
      BY <1>1, CreateBlockLemma
    <2>2. DOMAIN CreateBlock(cfg) = 1..(Len(cfg) + 1)
      BY <2>1 DEF Graph
    <2>3. Ready.g = CreateBlock(cfg) /\ Ready.at = Len(cfg) + 1
      BY <1>2 DEF Ready, NewId
    <2> QED
      BY <1>1, <2>1, <2>2, <2>3 DEF Position
  <1>3. CASE sel # NoBlock
    <2>1. Ready.g = cfg /\ Ready.at = sel
      BY <1>3 DEF Ready
    <2> QED
      BY <1>1, <1>3, <2>1 DEF Position
  <1> QED
    BY <1>2, <1>3

(* A jump to a block that is created for it. *)
LEMMA JumpFreshLemma ==
    ASSUME NEW s, Position(s)
    PROVE  LET r == Select(JumpTo(Fresh(s), NewId(s.g)), NewId(s.g))
           IN  Position(r) /\ Len(r.g) = Len(s.g) + 1
  <1> DEFINE n == Len(s.g)
             a == Fresh(s)
             b == JumpTo(a, n + 1)
  <1>1. n \in Nat
    BY PositionFacts
  <1>2. Position(a) /\ Len(a.g) = n + 1
    BY FreshLemma
  <1> HIDE DEF a
  <1>3. n + 1 \in Ids
    BY <1>1 DEF Ids
  <1>4. Position(b) /\ Len(b.g) = n + 1
    BY <1>2, <1>3, JumpLemma
  <1> HIDE DEF b
  <1>5. n + 1 \in DOMAIN b.g
    BY <1>1, <1>4, PositionFacts
  <1> QED
    BY <1>4, <1>5 DEF NewId, Select, Position, a, b

(* insertLabeledStatement leaves a selected block. *)
LEMMA LabelStartLemma ==
    ASSUME TypeInv
    PROVE  Position(LabelStart) /\ Len(LabelStart.g) >= Len(cfg)
  <1>1. Position(Ready) /\ Len(Ready.g) >= Len(cfg)
    BY ReadyLemma
  <1>2. Len(Ready.g) \in Nat /\ Len(cfg) \in Nat
    BY <1>1, PositionFacts DEF TypeInv, TypeOK, Graph
  <1> DEFINE r == Select(JumpTo(Fresh(Ready), NewId(Ready.g)), NewId(Ready.g))
  <1>3. Position(r) /\ Len(r.g) = Len(Ready.g) + 1
    BY <1>1, JumpFreshLemma
  <1>4. LabelStart = Ready \/ LabelStart = r
    BY DEF LabelStart
  <1> HIDE DEF r
  <1> QED
    BY <1>1, <1>2, <1>3, <1>4

(* The end of a body leaves a graph that grew and the block that follows. *)
LEMMA JoinLemma ==
    ASSUME TypeInv, NEW after \in {NoBlock} \cup DOMAIN cfg
    PROVE  LET r == JoinAfter(after)
           IN  r.g \in Graph /\ Len(r.g) >= Len(cfg) /\ r.at \in {NoBlock} \cup DOMAIN r.g
  <1>1. /\ cfg \in Graph /\ Len(cfg) \in Nat /\ DOMAIN cfg = 1..Len(cfg)
        /\ sel \in {NoBlock} \cup DOMAIN cfg
    BY DEF TypeInv, TypeOK, Graph
  <1> DEFINE s == [g |-> cfg, at |-> sel]
  <1>2. CASE sel = NoBlock
    BY <1>1, <1>2 DEF JoinAfter
  <1>3. CASE sel # NoBlock /\ after = NoBlock
    <2>1. Position(s)
      BY <1>1, <1>3 DEF Position
    <2> DEFINE r == Select(JumpTo(Fresh(s), NewId(s.g)), NewId(s.g))
    <2>2. Position(r) /\ Len(r.g) = Len(s.g) + 1
      BY <2>1, JumpFreshLemma
    <2>3. JoinAfter(after) = r
      BY <1>3 DEF JoinAfter, Fresh
    <2> HIDE DEF r
    <2> QED
      BY <1>1, <2>2, <2>3 DEF Position
  <1>4. CASE sel # NoBlock /\ after # NoBlock
    <2>1. Position(s) /\ after \in Ids
      BY <1>1, <1>4 DEF Position, Ids
    <2> DEFINE r == JumpTo(s, after)
    <2>2. Position(r) /\ Len(r.g) = Len(s.g)
      BY <2>1, JumpLemma
    <2>3. JoinAfter(after) = Select(r, after)
      BY <1>4 DEF JoinAfter
    <2> HIDE DEF r
    <2>4. after \in DOMAIN r.g
      BY <1>1, <1>4, <2>2, PositionFacts
    <2> QED
      BY <1>1, <2>2, <2>3, <2>4 DEF Position, Select
  <1> QED
    BY <1>2, <1>3, <1>4

(* The stacks as the invariant leaves them. *)
LEMMA StackFacts ==
    ASSUME TypeInv
    PROVE  /\ controls \in Seq(Control) /\ Len(controls) \in Nat
           /\ DOMAIN controls = 1..Len(controls)
           /\ \A k \in DOMAIN controls : controls[k] \in Control
           /\ frames \in Seq(Frame) /\ Nested(frames, controls)
           /\ frames # <<>> => Top \in Frame /\ InRange(cfg, Top) /\ Top.depth = Len(controls)
  <1>1. controls \in Seq(Control) /\ frames \in Seq(Frame) /\ Nested(frames, controls)
    BY DEF TypeInv, TypeOK
  <1>2. ASSUME frames # <<>>
        PROVE  Top \in Frame /\ InRange(cfg, Top) /\ Top.depth = Len(controls)
    <2>1. Last(frames) \in Frame /\ Last(frames) = frames[Len(frames)]
          /\ Len(frames) \in DOMAIN frames
      BY <1>1, <1>2, StackLemma
    <2> QED
      BY <1>1, <1>2, <2>1 DEF Top, TypeInv, FramesInRange, Nested
  <1> QED
    BY <1>1, <1>2, LenProperties, ElementOfSeq

(* A frame made by a handler. *)
LEMMA MkFrameLemma ==
    ASSUME TypeInv, NEW kind \in FrameKinds, NEW false \in Ids, NEW after \in Ids,
           NEW entry \in Ids
    PROVE  LET f == MkFrame(kind, false, after, entry)
           IN  /\ f \in Frame /\ f.kind = kind /\ f.blockFalse = false
               /\ f.blockAfter = after /\ f.entry = entry
               /\ f.depth = Len(controls) + (IF kind \in Breakable THEN 1 ELSE 0)
  <1>1. Len(controls) \in Nat
    BY StackFacts
  <1> QED
    BY <1>1 DEF MkFrame, Frame

(* Frames stay in range when the graph grows, and when one is popped. *)
LEMMA FramesCarry ==
    ASSUME TypeInv, NEW g \in Graph, Len(g) >= Len(cfg)
    PROVE  /\ \A k \in DOMAIN frames : InRange(g, frames[k])
           /\ Front(frames) \in Seq(Frame)
           /\ frames # <<>> => \A k \in DOMAIN Front(frames) : InRange(g, Front(frames)[k])
  <1>1. frames \in Seq(Frame) /\ Front(frames) \in Seq(Frame)
    BY StackFacts, FrontLemma
  <1>2. \A k \in DOMAIN frames : frames[k] \in Frame /\ InRange(cfg, frames[k])
    BY <1>1, LenProperties, ElementOfSeq DEF TypeInv, FramesInRange
  <1>3. \A k \in DOMAIN frames : InRange(g, frames[k])
    BY <1>2, CarryOver
  <1>4. ASSUME frames # <<>>, NEW k \in DOMAIN Front(frames)
        PROVE  InRange(g, Front(frames)[k])
    <2>1. /\ DOMAIN frames = 1..Len(frames) /\ Len(frames) \in Nat
          /\ Len(Front(frames)) = Len(frames) - 1
          /\ \A j \in 1..(Len(frames) - 1) : Front(frames)[j] = frames[j]
      BY <1>1, <1>4, StackLemma
    <2>2. DOMAIN Front(frames) = 1..Len(Front(frames))
      BY <1>1, LenProperties
    <2>3. k \in 1..(Len(frames) - 1) /\ k \in DOMAIN frames
      BY <1>4, <2>1, <2>2
    <2> QED
      BY <1>3, <2>1, <2>3
  <1> QED
    BY <1>1, <1>3, <1>4

(* ... and when one is pushed. *)
LEMMA InRangePush ==
    ASSUME NEW fs \in Seq(Frame), NEW f \in Frame, NEW g, InRange(g, f),
           \A k \in DOMAIN fs : InRange(g, fs[k])
    PROVE  Append(fs, f) \in Seq(Frame)
           /\ \A k \in DOMAIN Append(fs, f) : InRange(g, Append(fs, f)[k])
  <1> DEFINE gs == Append(fs, f)
  <1>1. /\ gs \in Seq(Frame) /\ Len(fs) \in Nat /\ DOMAIN fs = 1..Len(fs)
        /\ DOMAIN gs = 1..(Len(fs) + 1) /\ gs[Len(fs) + 1] = f
        /\ \A k \in 1..Len(fs) : gs[k] = fs[k]
    BY PushLemma
  <1> HIDE DEF gs
  <1>2. \A k \in DOMAIN gs : k = Len(fs) + 1 \/ k \in 1..Len(fs)
    BY <1>1
  <1> QED
    BY <1>1, <1>2 DEF gs

(***************************************************************************)
(* A step that does not start a function keeps the invariant when the      *)
(* graph grows and each variable it changes gets a value of its kind.      *)
(***************************************************************************)
LEMMA StepLemma ==
    ASSUME TypeInv,
           cfg' \in Graph, Len(cfg') >= Len(cfg), sel' \in {NoBlock} \cup DOMAIN cfg',
           mode' \in Modes, ModeShowsFrame', UNCHANGED <<fn, funcs>>,
           ast' \in Seq(Element), controls' \in Seq(Control), frames' \in Seq(Frame),
           \A k \in DOMAIN frames' : InRange(cfg', frames'[k]),
           Nested(frames', controls'), scopes' \in Seq(SUBSET Nat),
           labels' = labels \/ labels' \in [Labels -> {NoBlock} \cup DOMAIN cfg'],
           dangling' = dangling \/ dangling' \in Seq([block : DOMAIN cfg', label : Labels]),
           fellOff' = fellOff \/ fellOff' \subseteq DOMAIN cfg',
           orphans' = orphans \/ orphans' \subseteq DOMAIN cfg'
    PROVE  TypeInv'
  <1>1. /\ labels \in [Labels -> {NoBlock} \cup DOMAIN cfg']
        /\ dangling \in Seq([block : DOMAIN cfg', label : Labels])
        /\ fellOff \subseteq DOMAIN cfg' /\ orphans \subseteq DOMAIN cfg'
    BY CarryOver
  <1>2. fn' \in [void : BOOLEAN, params : BOOLEAN] /\ funcs' \in Nat
    BY DEF TypeInv, TypeOK
  <1>3. TypeOK'
    BY <1>1, <1>2 DEF TypeOK
  <1>4. FramesInRange'
    BY DEF FramesInRange
  <1> QED
    BY <1>3, <1>4 DEF TypeInv

(* ... the more so when the stacks stay and the body goes on. *)
LEMMA PlainStepLemma ==
    ASSUME TypeInv, mode = "body",
           cfg' \in Graph, Len(cfg') >= Len(cfg), sel' \in {NoBlock} \cup DOMAIN cfg',
           ast' \in Seq(Element), scopes' \in Seq(SUBSET Nat),
           UNCHANGED <<mode, fn, funcs, controls, frames, fellOff, orphans>>,
           labels' = labels \/ labels' \in [Labels -> {NoBlock} \cup DOMAIN cfg'],
           dangling' = dangling \/ dangling' \in Seq([block : DOMAIN cfg', label : Labels])
    PROVE  TypeInv'
  <1>1. \A k \in DOMAIN frames' : InRange(cfg', frames'[k])
    BY FramesCarry
  <1>2. /\ controls' \in Seq(Control) /\ frames' \in Seq(Frame)
        /\ Nested(frames', controls') /\ mode' \in Modes
    BY StackFacts DEF Modes
  <1>3. ModeShowsFrame'
    BY DEF ModeShowsFrame
  <1> QED
    BY <1>1, <1>2, <1>3, StepLemma

(* What is walked is an element. *)
LEMMA WalkLemma ==
    ASSUME TypeInv, NEW kind \in ElementKinds, NEW arg \in Args
    PROVE  Here \in Nat /\ (Walk(kind, arg) => ast' \in Seq(Element))
  <1>1. ast \in Seq(Element) /\ Len(ast) \in Nat
    BY LenProperties DEF TypeInv, TypeOK
  <1>2. [kind |-> kind, arg |-> arg] \in Element
    BY DEF Element
  <1> QED
    BY <1>1, <1>2, AppendProperties DEF Walk, Here

(* The constants the handlers take their inputs from. *)
LEMMA Names ==
    /\ Exprs \subseteq AllExprs /\ LastActs \subseteq AllExprs
    /\ Exprs \subseteq Args /\ LastActs \subseteq Args /\ Labels \subseteq Args
    /\ Vals \subseteq Args /\ "" \in Args /\ "none" \in Args
    /\ AllKinds \subseteq ElementKinds
    /\ {"else", "endif", "endloop", "endswitch", "endcompound", "init", "act"}
            \subseteq ElementKinds
    /\ "expr" \in AllKinds
  BY ExprsAssumption DEF Args, ElementKinds, AllKinds

(* The scopes after a handler entered or left one. *)
LEMMA ScopesLemma ==
    ASSUME TypeInv
    PROVE  /\ scopes \in Seq(SUBSET Nat) /\ Front(scopes) \in Seq(SUBSET Nat)
           /\ Front(Front(scopes)) \in Seq(SUBSET Nat)
           /\ Append(scopes, {}) \in Seq(SUBSET Nat)
           /\ Append(Front(scopes), {}) \in Seq(SUBSET Nat)
  <1>1. scopes \in Seq(SUBSET Nat)
    BY DEF TypeInv, TypeOK
  <1>2. Front(scopes) \in Seq(SUBSET Nat)
    BY <1>1, FrontLemma
  <1>3. Front(Front(scopes)) \in Seq(SUBSET Nat)
    BY <1>2, FrontLemma
  <1>4. {} \in SUBSET Nat
    OBVIOUS
  <1> QED
    BY <1>1, <1>2, <1>3, <1>4, AppendProperties

-----------------------------------------------------------------------------
(* The steps that neither open nor close a statement. *)

(* A position, or the graph alone, in a graph at least as large as cfg. *)
Grown(r) == r.g \in Graph /\ Len(r.g) >= Len(cfg)

(* ... as an operation that starts at Ready leaves it. *)
LEMMA GrownLemma ==
    ASSUME TypeInv
    PROVE  /\ Position(Ready) /\ Grown(Ready) /\ Ready.at \in Nat
           /\ \A r : r.g \in Graph /\ Len(r.g) >= Len(Ready.g) => Grown(r)
  <1>1. Position(Ready) /\ Len(Ready.g) >= Len(cfg) /\ Ready.g \in Graph
    BY ReadyLemma DEF Position
  <1>2. Len(Ready.g) \in Nat /\ Len(cfg) \in Nat /\ Ready.at \in Nat
    BY <1>1, PositionFacts DEF TypeInv, TypeOK, Graph, Ids
  <1>3. \A g \in Graph : Len(g) \in Nat
    BY LenProperties DEF Graph
  <1> QED
    BY <1>1, <1>2, <1>3 DEF Grown

(* What At and Deselect leave of it. *)
LEMMA AtLemma ==
    ASSUME NEW r, Grown(r), (At(r) /\ Position(r)) \/ Deselect(r)
    PROVE  cfg' \in Graph /\ Len(cfg') >= Len(cfg) /\ sel' \in {NoBlock} \cup DOMAIN cfg'
  BY DEF Position, At, Deselect, Grown

(* A step that walks one element and moves to another position. *)
LEMMA MoveLemma ==
    ASSUME TypeInv, mode = "body", NEW r, Grown(r), (At(r) /\ Position(r)) \/ Deselect(r),
           NEW kind \in ElementKinds, NEW arg \in Args, Walk(kind, arg),
           UNCHANGED <<mode, fn, funcs, controls, frames, fellOff, orphans>>,
           scopes' = scopes \/ scopes' \in Seq(SUBSET Nat),
           labels' = labels \/ labels' \in [Labels -> {NoBlock} \cup DOMAIN cfg'],
           dangling' = dangling \/ dangling' \in Seq([block : DOMAIN cfg', label : Labels])
    PROVE  TypeInv'
  <1>1. ast' \in Seq(Element)
    BY WalkLemma
  <1>2. cfg' \in Graph /\ Len(cfg') >= Len(cfg) /\ sel' \in {NoBlock} \cup DOMAIN cfg'
    BY AtLemma
  <1>3. scopes' \in Seq(SUBSET Nat)
    BY ScopesLemma
  <1> QED
    BY <1>1, <1>2, <1>3, PlainStepLemma

(* semanticError stops the compiler and touches nothing else. *)
LEMMA SemanticErrorStep ==
    ASSUME TypeInv, SemanticError
    PROVE  TypeInv'
  <1>1. mode' = "error" /\ UNCHANGED <<fn, funcs, ast, cfg, sel, controls, frames, scopes,
                                       labels, dangling, fellOff, orphans>>
    BY DEF SemanticError, history
  <1> QED
    BY <1>1 DEF TypeInv, TypeOK, Modes, FramesInRange, ModeShowsFrame

(* An expression statement. *)
LEMMA ExprStmtStep ==
    ASSUME TypeInv, NEW e \in Exprs, ExprStmt(e)
    PROVE  TypeInv'
  <1> DEFINE r == Eval(e, Ready, Here)
  <1>1. /\ mode = "body" /\ At(r) /\ Walk("expr", e)
        /\ UNCHANGED <<mode, fn, funcs, controls, frames, scopes, labels, dangling, fellOff,
                       orphans>>
    BY DEF ExprStmt, Opens, history
  <1>2. "expr" \in ElementKinds /\ e \in Args /\ Here \in Nat
    BY Names, WalkLemma
  <1>3. Position(r) /\ Grown(r)
    BY <1>2, GrownLemma, EvalLemma, Names DEF Position
  <1> HIDE DEF r
  <1> QED
    BY <1>1, <1>2, <1>3, MoveLemma

(* The block an allocation goes to is the id of a block. *)
LEMMA AllocBlockLemma ==
    ASSUME TypeInv, NEW b \in Nat
    PROVE  AllocBlock(b) \in Nat
  <1>1. /\ DOMAIN controls = 1..Len(controls) /\ Len(controls) \in Nat
        /\ \A k \in DOMAIN controls : controls[k] \in Control
    BY StackFacts
  <1>2. LoopsOf \subseteq Nat /\ LoopsOf \subseteq DOMAIN controls
    BY <1>1 DEF LoopsOf
  <1>3. LoopsOf # {} => \E k \in LoopsOf : \A j \in LoopsOf : k <= j
    BY <1>2, LeastNatural
  <1> DEFINE k == CHOOSE k \in LoopsOf : \A j \in LoopsOf : k <= j
  <1>4. LoopsOf # {} => k \in LoopsOf
    BY <1>3
  <1>5. AllocBlock(b) = IF LoopsOf = {} THEN b ELSE controls[k].before
    BY DEF AllocBlock
  <1> HIDE DEF k
  <1>6. LoopsOf # {} => controls[k].before \in Nat
    BY <1>1, <1>2, <1>4 DEF Control, Ids
  <1> QED
    BY <1>5, <1>6

(* insertDeclaration leaves a position, wherever the allocation went. *)
LEMMA DeclareLemma ==
    ASSUME TypeInv, NEW s, Position(s), NEW e \in Exprs \cup {"none"}, NEW i \in Nat
    PROVE  Position(Declare(e, s, i)) /\ Len(Declare(e, s, i).g) >= Len(s.g)
  <1> DEFINE a == [g |-> AddNode(s.g, AllocBlock(s.at), "alloca", i), at |-> s.at]
             v == Eval(e, a, i)
             r == Emit(v, "use", i)
  <1>1. s.g \in Graph /\ s.at \in DOMAIN s.g /\ s.at \in Nat /\ Len(s.g) \in Nat
        /\ AllocBlock(s.at) \in Nat
    BY PositionFacts, AllocBlockLemma DEF Position, Ids
  <1>2. a.g \in Graph /\ Len(a.g) = Len(s.g) /\ a.at = s.at
    BY <1>1, AddNodeLemma
  <1>3. Declare(e, s, i) = IF e = "none" THEN a ELSE r
    BY DEF Declare
  <1> HIDE DEF a
  <1>4. Position(a)
    BY <1>1, <1>2 DEF Position, Graph
  <1>5. CASE e = "none"
    BY <1>1, <1>2, <1>3, <1>4, <1>5
  <1>6. CASE e \in Exprs /\ e # "none"
    <2>1. Position(v) /\ Len(v.g) >= Len(a.g)
      BY <1>4, <1>6, EvalLemma, Names
    <2> HIDE DEF v
    <2>2. Position(r) /\ Len(r.g) = Len(v.g)
      BY <2>1, EmitLemma DEF NodeOps
    <2> QED
      BY <1>2, <1>3, <1>6, <2>1, <2>2
  <1> QED
    BY <1>5, <1>6

(* A declaration. *)
LEMMA InsertDeclarationStep ==
    ASSUME TypeInv, NEW e \in Exprs \cup {"none"}, InsertDeclaration(e)
    PROVE  TypeInv'
  <1> DEFINE r == Declare(e, Ready, Here)
  <1>1. /\ mode = "body" /\ At(r) /\ Walk("decl", e) /\ Declared(Here)
        /\ UNCHANGED <<mode, fn, funcs, controls, frames, labels, dangling, fellOff, orphans>>
    BY DEF InsertDeclaration, Opens, history
  <1>2. "decl" \in ElementKinds /\ e \in Args
    BY Names DEF ElementKinds, AllKinds
  <1>3. Here \in Nat
    BY <1>2, WalkLemma
  <1>4. Position(r) /\ Grown(r)
    BY <1>3, GrownLemma, DeclareLemma DEF Position
  <1> HIDE DEF r
  <1>5. scopes' \in Seq(SUBSET Nat)
    <2>1. scopes \in Seq(SUBSET Nat) /\ scopes' = [scopes EXCEPT ![Len(scopes)] = @ \cup {Here}]
      BY <1>1, ScopesLemma DEF Declared
    <2>2. CASE scopes = <<>>
      <3>1. scopes' = scopes
        BY <2>1, <2>2
      <3> QED
        BY <2>1, <3>1
    <2>3. CASE scopes # <<>>
      <3>1. Len(scopes) \in 1..Len(scopes) /\ scopes[Len(scopes)] \in SUBSET Nat
        BY <2>1, <2>3, StackLemma
      <3>2. (scopes[Len(scopes)] \cup {Here}) \in SUBSET Nat
        BY <1>3, <3>1
      <3> QED
        BY <2>1, <3>1, <3>2, ExceptSeq
    <2> QED
      BY <2>2, <2>3
  <1> QED
    BY <1>1, <1>2, <1>4, <1>5, MoveLemma

(* A load or a store. *)
LEMMA UseVariableStep ==
    ASSUME TypeInv, NEW v \in Nat, UseVariable(v)
    PROVE  TypeInv'
  <1> DEFINE r == Emit(Ready, "use", v)
  <1>1. /\ mode = "body" /\ At(r) /\ Walk("use", "")
        /\ UNCHANGED <<mode, fn, funcs, controls, frames, scopes, labels, dangling, fellOff,
                       orphans>>
    BY DEF UseVariable, Opens, history
  <1>2. "use" \in ElementKinds /\ "" \in Args
    BY Names DEF ElementKinds, AllKinds
  <1>3. Position(r) /\ Grown(r)
    <2>1. Position(r) /\ Len(r.g) = Len(Ready.g) /\ Grown(Ready)
      BY GrownLemma, EmitLemma DEF NodeOps
    <2> HIDE DEF r
    <2> QED
      BY <2>1 DEF Position, Grown
  <1> HIDE DEF r
  <1> QED
    BY <1>1, <1>2, <1>3, MoveLemma

(* A return finishes the block the value is left in. *)
LEMMA ReturnStep ==
    ASSUME TypeInv, NEW e \in Exprs, Return(e)
    PROVE  TypeInv'
  <1> DEFINE v == Eval(e, Ready, Here)
             r == [g |-> SetTerminator(v.g, v.at, "RET"), at |-> NoBlock]
  <1>1. /\ mode = "body" /\ Deselect(r) /\ Walk("return", e)
        /\ UNCHANGED <<mode, fn, funcs, controls, frames, scopes, labels, dangling, fellOff,
                       orphans>>
    BY DEF Return, Opens, history
  <1>2. "return" \in ElementKinds /\ e \in Args
    BY Names DEF ElementKinds, AllKinds
  <1>3. Here \in Nat
    BY <1>2, WalkLemma
  <1>4. Position(v) /\ Len(v.g) >= Len(Ready.g)
    BY <1>3, GrownLemma, EvalLemma, Names
  <1> HIDE DEF v
  <1>5. Grown(r)
    <2>1. v.g \in Graph /\ v.at \in DOMAIN v.g /\ "RET" \in TermTypes
      BY <1>4 DEF Position, TermTypes
    <2>2. r.g \in Graph /\ Len(r.g) = Len(v.g)
      BY <2>1, SetTerminatorLemma
    <2> HIDE DEF r
    <2> QED
      BY <1>4, <2>2, GrownLemma
  <1> HIDE DEF r
  <1> QED
    BY <1>1, <1>2, <1>5, MoveLemma

(* The block Ready leaves, finished by a terminator alone. *)
LEMMA TerminateLemma ==
    ASSUME TypeInv, NEW t \in TermTypes
    PROVE  Grown([g |-> SetTerminator(Ready.g, Ready.at, t), at |-> NoBlock])
  <1> DEFINE r == [g |-> SetTerminator(Ready.g, Ready.at, t), at |-> NoBlock]
  <1>1. Ready.g \in Graph /\ Ready.at \in DOMAIN Ready.g /\ Grown(Ready)
    BY GrownLemma DEF Position
  <1>2. r.g \in Graph /\ Len(r.g) = Len(Ready.g)
    BY <1>1, SetTerminatorLemma
  <1> HIDE DEF r
  <1>3. Grown(r)
    BY <1>1, <1>2 DEF Grown
  <1> QED
    BY <1>3 DEF r

(* A return without one. *)
LEMMA ReturnNothingStep ==
    ASSUME TypeInv, ReturnNothing
    PROVE  TypeInv'
  <1> DEFINE r == [g |-> SetTerminator(Ready.g, Ready.at, "RET"), at |-> NoBlock]
  <1>1. CASE SemanticError
    BY <1>1, SemanticErrorStep
  <1>2. CASE ~SemanticError
    <2>1. /\ mode = "body" /\ Deselect(r) /\ Walk("return", "none")
          /\ UNCHANGED <<mode, fn, funcs, controls, frames, scopes, labels, dangling, fellOff,
                         orphans>>
      BY <1>2 DEF ReturnNothing, Opens, history
    <2>2. "return" \in ElementKinds /\ "none" \in Args
      BY Names DEF ElementKinds, AllKinds
    <2>3. Grown(r)
      BY TerminateLemma DEF TermTypes
    <2> HIDE DEF r
    <2> QED
      BY <2>1, <2>2, <2>3, MoveLemma
  <1> QED
    BY <1>1, <1>2

(* A jump from the block Ready leaves. *)
LEMMA JumpAwayLemma ==
    ASSUME TypeInv, NEW b \in Ids
    PROVE  Grown(JumpTo(Ready, b))
  <1> DEFINE r == JumpTo(Ready, b)
  <1>1. Position(r) /\ Len(r.g) = Len(Ready.g) /\ Grown(Ready)
    BY GrownLemma, JumpLemma
  <1> HIDE DEF r
  <1>2. Grown(r)
    BY <1>1 DEF Position, Grown
  <1> QED
    BY <1>2 DEF r

(* A break: only a control that exists is read. *)
LEMMA BreakStep ==
    ASSUME TypeInv, Break
    PROVE  TypeInv'
  <1> DEFINE r == JumpTo(Ready, Last(controls).exit)
  <1>1. CASE SemanticError
    BY <1>1, SemanticErrorStep
  <1>2. CASE ~SemanticError
    <2>1. /\ mode = "body" /\ controls # <<>> /\ Deselect(r) /\ Walk("break", "")
          /\ UNCHANGED <<mode, fn, funcs, controls, frames, scopes, labels, dangling, fellOff,
                         orphans>>
      BY <1>2 DEF Break, Opens, history
    <2>2. "break" \in ElementKinds /\ "" \in Args
      BY Names DEF ElementKinds, AllKinds
    <2>3. Last(controls).exit \in Ids
      <3>1. Last(controls) \in Control
        BY <2>1, StackFacts, StackLemma
      <3> QED
        BY <3>1 DEF Control
    <2>4. Grown(r)
      BY <2>3, JumpAwayLemma
    <2> HIDE DEF r
    <2> QED
      BY <2>1, <2>2, <2>4, MoveLemma
  <1> QED
    BY <1>1, <1>2

(* The nearest loop and the nearest switch are in the deque. *)
LEMMA NearestLemma ==
    ASSUME TypeInv
    PROVE  /\ LoopsOf # {} => NearestLoop \in DOMAIN controls
           /\ Switches # {} => NearestSwitch \in DOMAIN controls
           /\ Switches # {} => /\ NearestSwitch \in Switches
                               /\ \A j \in Switches : j <= NearestSwitch
  <1>1. DOMAIN controls = 1..Len(controls) /\ Len(controls) \in Nat
    BY StackFacts
  <1>2. LoopsOf \in SUBSET (1..Len(controls)) /\ Switches \in SUBSET (1..Len(controls))
    BY <1>1 DEF LoopsOf, Switches
  <1>3. LoopsOf # {} => \E k \in LoopsOf : \A j \in LoopsOf : j <= k
    BY <1>1, <1>2, GreatestIndex
  <1>4. Switches # {} => \E k \in Switches : \A j \in Switches : j <= k
    BY <1>1, <1>2, GreatestIndex
  <1>5. LoopsOf # {} => NearestLoop \in LoopsOf
    BY <1>3 DEF NearestLoop
  <1>6. Switches # {} => NearestSwitch \in Switches /\ \A j \in Switches : j <= NearestSwitch
    BY <1>4 DEF NearestSwitch
  <1> QED
    BY <1>1, <1>2, <1>5, <1>6

(* A continue. *)
LEMMA ContinueStep ==
    ASSUME TypeInv, Continue
    PROVE  TypeInv'
  <1> DEFINE r == JumpTo(Ready, controls[NearestLoop].skip)
  <1>1. CASE SemanticError
    BY <1>1, SemanticErrorStep
  <1>2. CASE ~SemanticError
    <2>1. /\ mode = "body" /\ LoopsOf # {} /\ Deselect(r) /\ Walk("continue", "")
          /\ UNCHANGED <<mode, fn, funcs, controls, frames, scopes, labels, dangling, fellOff,
                         orphans>>
      BY <1>2 DEF Continue, Opens, history
    <2>2. "continue" \in ElementKinds /\ "" \in Args
      BY Names DEF ElementKinds, AllKinds
    <2>3. controls[NearestLoop].skip \in Ids
      BY <2>1, NearestLemma, StackFacts DEF Control
    <2>4. Grown(r)
      BY <2>3, JumpAwayLemma
    <2> HIDE DEF r
    <2> QED
      BY <2>1, <2>2, <2>4, MoveLemma
  <1> QED
    BY <1>1, <1>2

(* A goto, to a label met before or not. *)
LEMMA GotoStep ==
    ASSUME TypeInv, NEW l \in Labels, Goto(l)
    PROVE  TypeInv'
  <1> DEFINE known == JumpTo(Ready, labels[l])
             waits == [g |-> SetTerminator(Ready.g, Ready.at, "JUMP"), at |-> NoBlock]
  <1>1. /\ mode = "body" /\ Walk("goto", l)
        /\ UNCHANGED <<mode, fn, funcs, controls, frames, scopes, labels, fellOff, orphans>>
        /\ IF labels[l] # NoBlock
           THEN Deselect(known) /\ UNCHANGED dangling
           ELSE /\ Deselect(waits)
                /\ dangling' = Append(dangling, [block |-> Ready.at, label |-> l])
    BY DEF Goto, Opens, history
  <1>2. "goto" \in ElementKinds /\ l \in Args
    BY Names DEF ElementKinds, AllKinds
  <1>3. CASE labels[l] # NoBlock
    <2>1. labels[l] \in Ids
      BY DEF TypeInv, TypeOK, Ids, Graph, NoBlock
    <2>2. Grown(known)
      BY <2>1, JumpAwayLemma
    <2> HIDE DEF known
    <2> QED
      BY <1>1, <1>2, <1>3, <2>2, MoveLemma
  <1>4. CASE labels[l] = NoBlock
    <2>1. Grown(waits)
      BY TerminateLemma DEF TermTypes
    <2>2. waits.g \in Graph /\ DOMAIN waits.g = DOMAIN Ready.g /\ cfg' = waits.g
      <3>1. Ready.g \in Graph /\ Ready.at \in DOMAIN Ready.g /\ "JUMP" \in TermTypes
        BY GrownLemma DEF Position, TermTypes
      <3>2. waits.g \in Graph /\ Len(waits.g) = Len(Ready.g)
        BY <3>1, SetTerminatorLemma
      <3>3. cfg' = waits.g
        BY <1>1, <1>4 DEF Deselect
      <3> HIDE DEF waits
      <3> QED
        BY <3>1, <3>2, <3>3 DEF Graph
    <2>3. Ready.at \in DOMAIN cfg'
      BY <2>2, GrownLemma DEF Position
    <2> DEFINE wait == [block |-> Ready.at, label |-> l]
               Waits == [block : DOMAIN cfg', label : Labels]
    <2>4. Deselect(waits) /\ dangling' = Append(dangling, wait)
      BY <1>1, <1>4
    <2> HIDE DEF waits
    <2>5. dangling' \in Seq([block : DOMAIN cfg', label : Labels])
      <3>1. cfg' \in Graph /\ Len(cfg') >= Len(cfg)
        BY <2>1, <2>2 DEF Grown
      <3>2. dangling \in Seq(Waits)
        BY <3>1, CarryOver
      <3>3. wait \in Waits
        BY <2>3
      <3> HIDE DEF wait, Waits
      <3>4. dangling' \in Seq(Waits)
        BY <2>4, <3>2, <3>3, AppendProperties
      <3> QED
        BY <3>4 DEF Waits
    <2> QED
      BY <1>1, <1>2, <2>1, <2>4, <2>5, MoveLemma
  <1> QED
    BY <1>3, <1>4

(* A label: it is in the graph for as long as the function lasts. *)
LEMMA InsertLabelStep ==
    ASSUME TypeInv, NEW l \in Labels, InsertLabel(l)
    PROVE  TypeInv'
  <1>1. CASE SemanticError
    BY <1>1, SemanticErrorStep
  <1>2. CASE ~SemanticError
    <2>1. /\ mode = "body" /\ At(LabelStart) /\ Walk("label", l)
          /\ labels' = [labels EXCEPT ![l] = LabelStart.at]
          /\ UNCHANGED <<mode, fn, funcs, controls, frames, scopes, dangling, fellOff, orphans>>
      BY <1>2 DEF InsertLabel, Opens, history
    <2>2. "label" \in ElementKinds /\ l \in Args
      BY Names DEF ElementKinds, AllKinds
    <2>3. Position(LabelStart) /\ Grown(LabelStart)
      BY LabelStartLemma DEF Grown, Position
    <2>4. labels' \in [Labels -> {NoBlock} \cup DOMAIN cfg']
      <3>1. cfg' = LabelStart.g /\ LabelStart.at \in DOMAIN cfg'
        BY <2>1, <2>3 DEF At, Position
      <3>2. labels \in [Labels -> {NoBlock} \cup DOMAIN cfg']
        BY <2>3, <3>1, CarryOver DEF Grown
      <3> QED
        BY <2>1, <3>1, <3>2
    <2> QED
      BY <2>1, <2>2, <2>3, <2>4, MoveLemma
  <1> QED
    BY <1>1, <1>2

(***************************************************************************)
(* A label that is written into the nearest switch: the entry of that      *)
(* switch gets another list of cases or another default.                   *)
(***************************************************************************)
LEMMA RecordLemma ==
    ASSUME TypeInv, mode = "body", At(LabelStart),
           NEW kind \in ElementKinds, NEW arg \in Args, Walk(kind, arg),
           NEW c \in Control, Switches # {},
           c.kind = controls[NearestSwitch].kind, c.exit = controls[NearestSwitch].exit,
           controls' = [controls EXCEPT ![NearestSwitch] = c],
           UNCHANGED <<mode, fn, funcs, frames, scopes, labels, dangling, fellOff, orphans>>
    PROVE  TypeInv'
  <1>1. Position(LabelStart) /\ Grown(LabelStart)
    BY LabelStartLemma DEF Grown, Position
  <1>2. ast' \in Seq(Element)
    BY WalkLemma
  <1>3. cfg' \in Graph /\ Len(cfg') >= Len(cfg) /\ sel' \in {NoBlock} \cup DOMAIN cfg'
    BY <1>1, AtLemma
  <1>4. controls \in Seq(Control) /\ NearestSwitch \in 1..Len(controls)
    BY StackFacts, NearestLemma
  <1>5. /\ controls' \in Seq(Control) /\ Len(controls') = Len(controls)
        /\ \A k \in 1..Len(controls) :
              controls'[k] = IF k = NearestSwitch THEN c ELSE controls[k]
    BY <1>4, ExceptSeq
  <1>6. Nested(frames', controls')
    <2>1. \A k \in 1..Len(controls) : /\ controls'[k].exit = controls[k].exit
                                      /\ controls'[k].kind = controls[k].kind
      BY <1>5
    <2>2. Nested(frames, controls')
      BY <1>4, <1>5, <2>1, StackFacts, NestedRelabel
    <2> QED
      BY <2>2
  <1>7. \A k \in DOMAIN frames' : InRange(cfg', frames'[k])
    BY <1>3, FramesCarry
  <1>8. frames' \in Seq(Frame) /\ scopes' \in Seq(SUBSET Nat) /\ mode' \in Modes
    BY StackFacts, ScopesLemma DEF Modes
  <1>9. ModeShowsFrame'
    BY DEF ModeShowsFrame
  <1> QED
    BY <1>2, <1>3, <1>5, <1>6, <1>7, <1>8, <1>9, StepLemma

(* A case label. *)
LEMMA InsertCaseStep ==
    ASSUME TypeInv, NEW v \in Vals, InsertCase(v)
    PROVE  TypeInv'
  <1> DEFINE old == controls[NearestSwitch]
             new == [val |-> v, block |-> LabelStart.at]
             c == [old EXCEPT !.labels = Append(@, new)]
  <1>1. CASE SemanticError
    BY <1>1, SemanticErrorStep
  <1>2. CASE ~SemanticError
    <2>1. /\ mode = "body" /\ Switches # {} /\ At(LabelStart) /\ Walk("case", v)
          /\ controls' = [controls EXCEPT ![NearestSwitch] = c]
          /\ UNCHANGED <<mode, fn, funcs, frames, scopes, labels, dangling, fellOff, orphans>>
      BY <1>2 DEF InsertCase, Opens, history
    <2>2. "case" \in ElementKinds /\ v \in Args
      BY Names DEF ElementKinds, AllKinds
    <2>3. old \in Control
      BY <2>1, NearestLemma, StackFacts
    <2>4. new \in [val : Vals, block : Ids]
      BY LabelStartLemma, PositionFacts
    <2> HIDE DEF old, new
    <2>5. c \in Control /\ c.kind = old.kind /\ c.exit = old.exit
      <3>1. Append(old.labels, new) \in Seq([val : Vals, block : Ids])
        BY <2>3, <2>4, AppendProperties DEF Control
      <3> QED
        BY <2>3, <3>1 DEF Control
    <2> HIDE DEF c
    <2> QED
      BY <2>1, <2>2, <2>5, RecordLemma DEF old
  <1> QED
    BY <1>1, <1>2

(* A default label. *)
LEMMA InsertDefaultStep ==
    ASSUME TypeInv, InsertDefault
    PROVE  TypeInv'
  <1> DEFINE old == controls[NearestSwitch]
             c == [old EXCEPT !.default = LabelStart.at]
  <1>1. CASE SemanticError
    BY <1>1, SemanticErrorStep
  <1>2. CASE ~SemanticError
    <2>1. /\ mode = "body" /\ Switches # {} /\ At(LabelStart) /\ Walk("default", "")
          /\ controls' = [controls EXCEPT ![NearestSwitch] = c]
          /\ UNCHANGED <<mode, fn, funcs, frames, scopes, labels, dangling, fellOff, orphans>>
      BY <1>2 DEF InsertDefault, Opens, history
    <2>2. "default" \in ElementKinds /\ "" \in Args
      BY Names DEF ElementKinds, AllKinds
    <2>3. old \in Control
      BY <2>1, NearestLemma, StackFacts
    <2>4. LabelStart.at \in Ids
      BY LabelStartLemma, PositionFacts
    <2> HIDE DEF old
    <2>5. c \in Control /\ c.kind = old.kind /\ c.exit = old.exit
      BY <2>3, <2>4 DEF Control
    <2> HIDE DEF c
    <2> QED
      BY <2>1, <2>2, <2>5, RecordLemma DEF old
  <1> QED
    BY <1>1, <1>2

-----------------------------------------------------------------------------
(* The steps that open a statement. *)

(* A handler is interrupted by its nested statement: a frame is pushed, and *)
(* a control with it when the statement can be left by a break.             *)
LEMMA EnterLemma ==
    ASSUME TypeInv, mode = "body",
           cfg' \in Graph, Len(cfg') >= Len(cfg), sel' \in {NoBlock} \cup DOMAIN cfg',
           ast' \in Seq(Element), scopes' \in Seq(SUBSET Nat),
           UNCHANGED <<mode, fn, funcs, labels, dangling, fellOff, orphans>>,
           NEW f \in Frame, InRange(cfg', f), frames' = Append(frames, f),
           controls' \in Seq(Control),
           \/ controls' = controls /\ f.kind \notin Breakable /\ f.depth = Len(controls)
           \/ /\ f.kind \in Breakable /\ f.depth = Len(controls) + 1
              /\ \E c \in Control : /\ controls' = Append(controls, c)
                                    /\ c.exit = f.blockAfter
                                    /\ IsLoop(c) <=> f.kind \in {"loop", "for"}
    PROVE  TypeInv'
  <1>1. /\ controls \in Seq(Control) /\ frames \in Seq(Frame) /\ Nested(frames, controls)
    BY StackFacts
  <1>2. Nested(frames', controls')
    BY <1>1, NestedPush
  <1>3. \A k \in DOMAIN frames : InRange(cfg', frames[k])
    BY FramesCarry
  <1>4. frames' \in Seq(Frame) /\ \A k \in DOMAIN frames' : InRange(cfg', frames'[k])
    BY <1>1, <1>3, InRangePush
  <1>5. ModeShowsFrame' /\ mode' \in Modes
    BY DEF ModeShowsFrame, Modes
  <1> QED
    BY <1>2, <1>4, <1>5, StepLemma

(* The condition of an if is evaluated, and the graph gets the two blocks  *)
(* it chooses between.                                                     *)
LEMMA InsertIfStep ==
    ASSUME TypeInv, NEW e \in Exprs, NEW hasElse \in BOOLEAN, InsertIfStatement(e, hasElse)
    PROVE  TypeInv'
  <1> DEFINE cond  == Eval(e, Ready, Here)
             true  == NewId(cond.g)
             other == true + 1
             kind  == IF hasElse THEN "ifelse" ELSE "if"
             two   == Fresh(Fresh(cond))
             fork  == BranchTo(two, true, other)
             frame == IF hasElse THEN MkFrame("then", other, NoBlock, NoBlock)
                                 ELSE MkFrame("then", NoBlock, other, NoBlock)
  <1>1. /\ mode = "body" /\ At(Select(fork, true)) /\ frames' = Append(frames, frame)
        /\ scopes' = Append(scopes, {}) /\ Walk(kind, e)
        /\ UNCHANGED <<mode, fn, funcs, controls, labels, dangling, fellOff, orphans>>
    BY DEF InsertIfStatement, Nests, Opens, history
  <1>2. kind \in ElementKinds /\ e \in Args /\ e \in AllExprs /\ Here \in Nat
    BY Names, WalkLemma DEF ElementKinds, AllKinds
  <1> HIDE DEF kind
  <1>3. Position(cond) /\ Grown(cond)
    BY <1>2, GrownLemma, EvalLemma DEF Position
  <1> DEFINE n == Len(cond.g)
  <1>4. n \in Nat /\ true = n + 1 /\ other = n + 2 /\ true \in Ids /\ other \in Ids
        /\ Len(cfg) \in Nat /\ n >= Len(cfg)
    BY <1>3, PositionFacts DEF NewId, Ids, Grown, TypeInv, TypeOK, Graph
  <1>5. Position(two) /\ Len(two.g) = n + 2
    BY <1>3, FreshTwiceLemma
  <1> HIDE DEF cond, true, other, two, n
  <1>6. Position(fork) /\ Len(fork.g) = n + 2
    BY <1>4, <1>5, BranchLemma
  <1> HIDE DEF fork
  <1>7. cfg' = fork.g /\ sel' = true
    BY <1>1 DEF At, Select
  <1>8. DOMAIN cfg' = 1..(n + 2) /\ cfg' \in Graph
    BY <1>6, <1>7, PositionFacts
  <1>9. /\ Len(cfg') >= Len(cfg) /\ true \in DOMAIN cfg' /\ other \in DOMAIN cfg'
    BY <1>4, <1>6, <1>7, <1>8
  <1>10. /\ frame \in Frame /\ frame.kind = "then" /\ frame.depth = Len(controls)
         /\ frame.blockFalse \in {NoBlock, other} /\ frame.blockAfter \in {NoBlock, other}
    <2>1. "then" \in FrameKinds /\ "then" \notin Breakable /\ NoBlock \in Ids
          /\ Len(controls) \in Nat
      BY StackFacts DEF FrameKinds, Breakable, Ids, NoBlock
    <2> QED
      BY <1>4, <2>1, MkFrameLemma
  <1> HIDE DEF frame
  <1>11. InRange(cfg', frame) /\ frame.kind \notin Breakable
    BY <1>9, <1>10 DEF InRange, Breakable
  <1>12. ast' \in Seq(Element) /\ scopes' \in Seq(SUBSET Nat) /\ controls' \in Seq(Control)
    BY <1>1, <1>2, WalkLemma, ScopesLemma, StackFacts
  <1> QED
    BY <1>1, <1>7, <1>8, <1>9, <1>10, <1>11, <1>12, EnterLemma

(* A compound statement starts a block that the current one jumps to. *)
LEMMA InsertCompoundStep ==
    ASSUME TypeInv, InsertCompoundStatement
    PROVE  TypeInv'
  <1> DEFINE r == Select(JumpTo(Fresh(Ready), NewId(Ready.g)), NewId(Ready.g))
             frame == MkFrame("compound", NoBlock, NoBlock, NoBlock)
  <1>1. /\ mode = "body" /\ At(r) /\ frames' = Append(frames, frame)
        /\ scopes' = Append(scopes, {}) /\ Walk("compound", "")
        /\ UNCHANGED <<mode, fn, funcs, controls, labels, dangling, fellOff, orphans>>
    BY DEF InsertCompoundStatement, Nests, Opens, history
  <1>2. Position(r) /\ Grown(r)
    <2>1. Position(r) /\ Len(r.g) = Len(Ready.g) + 1
      BY GrownLemma, JumpFreshLemma
    <2> HIDE DEF r
    <2>2. Len(Ready.g) \in Nat /\ r.g \in Graph
      BY <2>1, GrownLemma, PositionFacts
    <2>3. Len(r.g) >= Len(Ready.g)
      BY <2>1, <2>2
    <2> QED
      BY <2>1, <2>2, <2>3, GrownLemma
  <1> HIDE DEF r
  <1>3. cfg' \in Graph /\ Len(cfg') >= Len(cfg) /\ sel' \in {NoBlock} \cup DOMAIN cfg'
    BY <1>1, <1>2, AtLemma
  <1>4. /\ frame \in Frame /\ frame.kind = "compound" /\ frame.depth = Len(controls)
        /\ frame.blockFalse = NoBlock /\ frame.blockAfter = NoBlock
    <2>1. "compound" \in FrameKinds /\ "compound" \notin Breakable /\ NoBlock \in Ids
          /\ Len(controls) \in Nat
      BY StackFacts DEF FrameKinds, Breakable, Ids, NoBlock
    <2> QED
      BY <2>1, MkFrameLemma
  <1> HIDE DEF frame
  <1>5. InRange(cfg', frame) /\ frame.kind \notin Breakable
    BY <1>4 DEF InRange, Breakable
  <1>6. "compound" \in ElementKinds /\ "" \in Args
    BY Names DEF ElementKinds, AllKinds
  <1>7. ast' \in Seq(Element) /\ scopes' \in Seq(SUBSET Nat) /\ controls' \in Seq(Control)
    BY <1>1, <1>6, WalkLemma, ScopesLemma, StackFacts
  <1> QED
    BY <1>1, <1>3, <1>4, <1>5, <1>7, EnterLemma

(* The body of a switch starts in a new block; the block the switch was    *)
(* met in is kept for the tests of its cases.                              *)
LEMMA InsertSwitchStep ==
    ASSUME TypeInv, NEW e \in Exprs, InsertSwitchStatement(e)
    PROVE  TypeInv'
  <1> DEFINE value == Eval(e, Ready, Here)
             switched == NewId(value.g)
             after == switched + 1
             two   == Fresh(Fresh(value))
             frame == MkFrame("switch", NoBlock, after, value.at)
             c == SwitchControl(after)
  <1>1. /\ mode = "body" /\ At(Select(two, switched)) /\ frames' = Append(frames, frame)
        /\ controls' = Append(controls, c)
        /\ scopes' = Append(scopes, {}) /\ Walk("switch", e)
        /\ UNCHANGED <<mode, fn, funcs, labels, dangling, fellOff, orphans>>
    BY DEF InsertSwitchStatement, Nests, Opens, history
  <1>2. "switch" \in ElementKinds /\ e \in Args /\ e \in AllExprs /\ Here \in Nat
    BY Names, WalkLemma DEF ElementKinds, AllKinds
  <1>3. Position(value) /\ Grown(value)
    BY <1>2, GrownLemma, EvalLemma DEF Position
  <1> DEFINE n == Len(value.g)
  <1>4. n \in Nat /\ switched = n + 1 /\ after = n + 2 /\ after \in Ids
        /\ Len(cfg) \in Nat /\ n >= Len(cfg) /\ value.at \in 1..n /\ value.at \in Ids
    BY <1>3, PositionFacts DEF NewId, Ids, Grown, TypeInv, TypeOK, Graph
  <1>5. Position(two) /\ Len(two.g) = n + 2
    BY <1>3, FreshTwiceLemma
  <1>6. c \in Control /\ c.exit = after /\ ~IsLoop(c)
    BY <1>4 DEF SwitchControl, Control, IsLoop, NoBlock, Ids
  <1> HIDE DEF value, switched, after, two, n, c
  <1>7. cfg' = two.g /\ sel' = switched
    BY <1>1 DEF At, Select
  <1>8. DOMAIN cfg' = 1..(n + 2) /\ cfg' \in Graph
    BY <1>5, <1>7, PositionFacts
  <1>9. /\ Len(cfg') >= Len(cfg) /\ switched \in DOMAIN cfg' /\ after \in DOMAIN cfg'
        /\ value.at \in DOMAIN cfg'
    BY <1>4, <1>5, <1>7, <1>8
  <1>10. /\ frame \in Frame /\ frame.kind = "switch" /\ frame.depth = Len(controls) + 1
         /\ frame.blockFalse = NoBlock /\ frame.blockAfter = after /\ frame.entry = value.at
    <2>1. "switch" \in FrameKinds /\ "switch" \in Breakable /\ NoBlock \in Ids
          /\ Len(controls) \in Nat
      BY StackFacts DEF FrameKinds, Breakable, Ids, NoBlock
    <2> QED
      BY <1>4, <2>1, MkFrameLemma
  <1> HIDE DEF frame
  <1>11. InRange(cfg', frame) /\ frame.kind \in Breakable /\ frame.kind \notin {"loop", "for"}
    BY <1>9, <1>10 DEF InRange, Breakable
  <1>12. ast' \in Seq(Element) /\ scopes' \in Seq(SUBSET Nat) /\ controls' \in Seq(Control)
    BY <1>1, <1>2, <1>6, WalkLemma, ScopesLemma, StackFacts, AppendProperties
  <1> QED
    BY <1>1, <1>6, <1>7, <1>8, <1>9, <1>10, <1>11, <1>12, EnterLemma

-----------------------------------------------------------------------------
(* The steps that close a statement. *)

(* A handler resumes and returns: its frame is popped, and its control.     *)
LEMMA LeaveLemma ==
    ASSUME TypeInv, frames # <<>>, mode' = "body",
           cfg' \in Graph, Len(cfg') >= Len(cfg), sel' \in {NoBlock} \cup DOMAIN cfg',
           ast' \in Seq(Element), scopes' \in Seq(SUBSET Nat),
           UNCHANGED <<fn, funcs, labels, dangling, fellOff>>,
           orphans' = orphans \/ orphans' \subseteq DOMAIN cfg',
           frames' = Front(frames),
           controls' = IF Top.kind \in Breakable THEN Front(controls) ELSE controls
    PROVE  TypeInv'
  <1>1. controls \in Seq(Control) /\ frames \in Seq(Frame) /\ Nested(frames, controls)
    BY StackFacts
  <1>2. Nested(frames', controls')
    BY <1>1, NestedPop DEF Top
  <1>3. controls' \in Seq(Control)
    BY <1>1, FrontLemma
  <1>4. frames' \in Seq(Frame) /\ \A k \in DOMAIN frames' : InRange(cfg', frames'[k])
    BY FramesCarry
  <1>5. ModeShowsFrame' /\ mode' \in Modes
    BY DEF ModeShowsFrame, Modes
  <1> QED
    BY <1>2, <1>3, <1>4, <1>5, StepLemma

(* The end of an if goes on after it. *)
LEMMA EndIfStep ==
    ASSUME TypeInv, EndIf
    PROVE  TypeInv'
  <1> DEFINE r == JoinAfter(Top.blockAfter)
  <1>1. /\ mode = "body" /\ frames # <<>> /\ Top.kind \in {"then", "else"} /\ At(r)
        /\ frames' = Front(frames) /\ scopes' = Front(scopes) /\ Walk("endif", "")
        /\ UNCHANGED <<mode, fn, funcs, controls, labels, dangling, fellOff, orphans>>
    BY DEF EndIf, InFrame, history
  <1>2. r.g \in Graph /\ Len(r.g) >= Len(cfg) /\ r.at \in {NoBlock} \cup DOMAIN r.g
    <2>1. Top.blockAfter \in {NoBlock} \cup DOMAIN cfg
      BY <1>1, StackFacts DEF InRange
    <2> QED
      BY <2>1, JoinLemma
  <1>3. cfg' = r.g /\ sel' = r.at
    BY <1>1 DEF At
  <1> HIDE DEF r
  <1>4. "endif" \in ElementKinds /\ "" \in Args
    BY Names DEF ElementKinds
  <1>5. ast' \in Seq(Element) /\ scopes' \in Seq(SUBSET Nat)
    BY <1>1, <1>4, WalkLemma, ScopesLemma
  <1>6. Top.kind \notin Breakable
    BY <1>1 DEF Breakable
  <1> QED
    BY <1>1, <1>2, <1>3, <1>5, <1>6, LeaveLemma

(* The end of a compound statement goes on in a block of its own. *)
LEMMA EndCompoundStep ==
    ASSUME TypeInv, EndCompound
    PROVE  TypeInv'
  <1> DEFINE r == JoinAfter(NoBlock)
  <1>1. /\ mode = "body" /\ frames # <<>> /\ Top.kind = "compound" /\ At(r)
        /\ frames' = Front(frames) /\ scopes' = Front(scopes) /\ Walk("endcompound", "")
        /\ UNCHANGED <<mode, fn, funcs, controls, labels, dangling, fellOff, orphans>>
    BY DEF EndCompound, InFrame, history
  <1>2. r.g \in Graph /\ Len(r.g) >= Len(cfg) /\ r.at \in {NoBlock} \cup DOMAIN r.g
    BY JoinLemma
  <1>3. cfg' = r.g /\ sel' = r.at
    BY <1>1 DEF At
  <1> HIDE DEF r
  <1>4. "endcompound" \in ElementKinds /\ "" \in Args
    BY Names DEF ElementKinds
  <1>5. ast' \in Seq(Element) /\ scopes' \in Seq(SUBSET Nat)
    BY <1>1, <1>4, WalkLemma, ScopesLemma
  <1>6. Top.kind \notin Breakable
    BY <1>1 DEF Breakable
  <1> QED
    BY <1>1, <1>2, <1>3, <1>5, <1>6, LeaveLemma

(* Between the two bodies of an if, one frame takes the place of another. *)
LEMMA EndThenStep ==
    ASSUME TypeInv, EndThen
    PROVE  TypeInv'
  <1> DEFINE r == JoinAfter(Top.blockAfter)
             frame == MkFrame("else", NoBlock, r.at, NoBlock)
  <1>1. /\ mode = "body" /\ frames # <<>> /\ Top.kind = "then"
        /\ At(Select(r, Top.blockFalse))
        /\ frames' = Append(Front(frames), frame)
        /\ scopes' = Append(Front(scopes), {}) /\ Walk("else", "")
        /\ UNCHANGED <<mode, fn, funcs, controls, labels, dangling, fellOff, orphans>>
    BY DEF EndThen, InFrame, history
  <1>2. /\ Top.blockAfter \in {NoBlock} \cup DOMAIN cfg
        /\ Top.blockFalse \in {NoBlock} \cup DOMAIN cfg
    BY <1>1, StackFacts DEF InRange
  <1>3. r.g \in Graph /\ Len(r.g) >= Len(cfg) /\ r.at \in {NoBlock} \cup DOMAIN r.g
    BY <1>2, JoinLemma
  <1>4. cfg' = r.g /\ sel' = Top.blockFalse
    BY <1>1 DEF At, Select
  <1>5. sel' \in {NoBlock} \cup DOMAIN cfg' /\ r.at \in Ids
    <2>1. DOMAIN cfg \subseteq DOMAIN r.g
      BY <1>3, CarryOver
    <2>2. DOMAIN r.g \subseteq Nat
      BY <1>3 DEF Graph
    <2> QED
      BY <1>2, <1>3, <1>4, <2>1, <2>2 DEF Ids, NoBlock
  <1> HIDE DEF r
  <1>6. /\ frame \in Frame /\ frame.kind = "else" /\ frame.depth = Len(controls)
        /\ frame.blockFalse = NoBlock /\ frame.blockAfter = r.at
    <2>1. "else" \in FrameKinds /\ "else" \notin Breakable /\ NoBlock \in Ids
          /\ Len(controls) \in Nat
      BY StackFacts DEF FrameKinds, Breakable, Ids, NoBlock
    <2> QED
      BY <1>5, <2>1, MkFrameLemma
  <1> HIDE DEF frame
  <1>7. InRange(cfg', frame) /\ frame.kind \notin Breakable /\ Top.kind \notin Breakable
    BY <1>1, <1>3, <1>4, <1>6 DEF InRange, Breakable
  <1>8. /\ controls \in Seq(Control) /\ frames \in Seq(Frame) /\ Nested(frames, controls)
    BY StackFacts
  <1>9. Front(frames) \in Seq(Frame) /\ Nested(Front(frames), controls)
    BY <1>1, <1>7, <1>8, NestedPop, FrontLemma DEF Top
  <1>10. Nested(frames', controls')
    BY <1>1, <1>6, <1>7, <1>8, <1>9, NestedPush
  <1>11. \A k \in DOMAIN Front(frames) : InRange(cfg', Front(frames)[k])
    BY <1>1, <1>3, <1>4, FramesCarry
  <1>12. frames' \in Seq(Frame) /\ \A k \in DOMAIN frames' : InRange(cfg', frames'[k])
    BY <1>1, <1>6, <1>7, <1>9, <1>11, InRangePush
  <1>13. "else" \in ElementKinds /\ "" \in Args
    BY Names DEF ElementKinds
  <1>14. ast' \in Seq(Element) /\ scopes' \in Seq(SUBSET Nat) /\ controls' \in Seq(Control)
    BY <1>1, <1>8, <1>13, WalkLemma, ScopesLemma
  <1>15. ModeShowsFrame' /\ mode' \in Modes
    BY <1>1 DEF ModeShowsFrame, Modes
  <1> QED
    BY <1>1, <1>3, <1>4, <1>5, <1>10, <1>12, <1>14, <1>15, StepLemma

(* The end of a loop's body: the frame and the control of the loop go. *)
LEMMA EndLoopStep ==
    ASSUME TypeInv, EndLoop
    PROVE  TypeInv'
  <1> DEFINE s == [g |-> cfg, at |-> sel]
             r == JumpTo(s, Last(controls).skip)
  <1>1. /\ mode = "body" /\ frames # <<>> /\ Top.kind \in {"loop", "for"}
        /\ sel' = Top.blockAfter /\ cfg' = IF sel = NoBlock THEN cfg ELSE r.g
        /\ frames' = Front(frames) /\ controls' = Front(controls)
        /\ scopes' = LeaveLoop(Top.kind) /\ Walk("endloop", "")
        /\ UNCHANGED <<mode, fn, funcs, labels, dangling, fellOff, orphans>>
    BY DEF EndLoop, InFrame, history
  <1>2. Top.kind \in Breakable
    BY <1>1 DEF Breakable
  <1>3. Last(controls).skip \in Ids
    <2>1. controls \in Seq(Control) /\ frames \in Seq(Frame) /\ Nested(frames, controls)
      BY StackFacts
    <2>2. controls # <<>>
      BY <1>1, <1>2, <2>1, NestedPop DEF Top
    <2>3. Last(controls) \in Control
      BY <2>1, <2>2, StackLemma
    <2> QED
      BY <2>3 DEF Control
  <1>4. cfg \in Graph /\ Len(cfg) \in Nat /\ sel \in {NoBlock} \cup DOMAIN cfg
    BY DEF TypeInv, TypeOK, Graph
  <1>5. cfg' \in Graph /\ Len(cfg') = Len(cfg)
    <2>1. CASE sel = NoBlock
      BY <1>1, <1>4, <2>1
    <2>2. CASE sel # NoBlock
      <3>1. Position(s) /\ s.g = cfg
        BY <1>4, <2>2 DEF Position
      <3> HIDE DEF s
      <3>2. Position(r) /\ Len(r.g) = Len(s.g)
        BY <1>3, <3>1, JumpLemma
      <3> HIDE DEF r
      <3> QED
        BY <1>1, <2>2, <3>1, <3>2 DEF Position
    <2> QED
      BY <2>1, <2>2
  <1> HIDE DEF r, s
  <1>6. sel' \in {NoBlock} \cup DOMAIN cfg'
    <2>1. Top.blockAfter \in {NoBlock} \cup DOMAIN cfg
      BY <1>1, StackFacts DEF InRange
    <2>2. DOMAIN cfg \subseteq DOMAIN cfg'
      BY <1>4, <1>5, CarryOver
    <2> QED
      BY <1>1, <2>1, <2>2
  <1>7. "endloop" \in ElementKinds /\ "" \in Args
    BY Names DEF ElementKinds
  <1>8. ast' \in Seq(Element) /\ scopes' \in Seq(SUBSET Nat)
    BY <1>1, <1>7, WalkLemma, ScopesLemma DEF LeaveLoop
  <1>9. Len(cfg') >= Len(cfg)
    BY <1>4, <1>5
  <1> QED
    BY <1>1, <1>2, <1>5, <1>6, <1>8, <1>9, LeaveLemma

(* The end of a switch's body: its frame waits for the tests of the cases. *)
LEMMA EndSwitchStep ==
    ASSUME TypeInv, EndSwitch
    PROVE  TypeInv'
  <1> DEFINE frame == [Top EXCEPT !.kind = "dispatch"]
  <1>1. /\ mode = "body" /\ frames # <<>> /\ Top.kind = "switch" /\ mode' = "dispatch"
        /\ cfg' = IF sel = NoBlock THEN cfg ELSE LinkBlocks(cfg, sel, Top.blockAfter)
        /\ fellOff' = IF sel = NoBlock THEN fellOff ELSE fellOff \cup {sel}
        /\ sel' = Top.entry /\ frames' = Append(Front(frames), frame)
        /\ scopes' = Front(scopes) /\ Walk("endswitch", "")
        /\ UNCHANGED <<fn, funcs, controls, labels, dangling, orphans>>
    BY DEF EndSwitch, InFrame
  <1>2. /\ Top \in Frame /\ Top.blockAfter \in DOMAIN cfg /\ Top.entry \in DOMAIN cfg
        /\ InRange(cfg, Top)
    BY <1>1, StackFacts DEF InRange
  <1>3. cfg \in Graph /\ Len(cfg) \in Nat /\ sel \in {NoBlock} \cup DOMAIN cfg
        /\ DOMAIN cfg = 1..Len(cfg) /\ fellOff \subseteq DOMAIN cfg
    BY DEF TypeInv, TypeOK, Graph
  <1>4. cfg' \in Graph /\ Len(cfg') = Len(cfg)
    <2>1. CASE sel = NoBlock
      BY <1>1, <1>3, <2>1
    <2>2. CASE sel # NoBlock
      <3>1. sel \in DOMAIN cfg /\ Top.blockAfter \in Ids
        BY <1>2, <1>3, <2>2 DEF Ids
      <3> QED
        BY <1>1, <1>3, <2>2, <3>1, LinkBlocksLemma
    <2> QED
      BY <2>1, <2>2
  <1>5. DOMAIN cfg' = DOMAIN cfg /\ Len(cfg') >= Len(cfg)
    BY <1>3, <1>4 DEF Graph
  <1>6. fellOff' \subseteq DOMAIN cfg' /\ sel' \in DOMAIN cfg' /\ sel' # NoBlock
    <2>1. fellOff' = fellOff \/ (fellOff' = fellOff \cup {sel} /\ sel \in DOMAIN cfg)
      BY <1>1, <1>3
    <2>2. NoBlock \notin DOMAIN cfg
      BY <1>3 DEF NoBlock
    <2>3. sel' = Top.entry
      BY <1>1
    <2> QED
      BY <1>2, <1>3, <1>5, <2>1, <2>2, <2>3
  <1>7. /\ frame \in Frame /\ frame.kind = "dispatch" /\ frame.depth = Top.depth
        /\ frame.blockAfter = Top.blockAfter /\ frame.blockFalse = Top.blockFalse
        /\ frame.entry = Top.entry
    BY <1>2 DEF Frame, FrameKinds
  <1> HIDE DEF frame
  <1>8. InRange(cfg', frame)
    BY <1>2, <1>5, <1>7 DEF InRange
  <1>9. controls \in Seq(Control) /\ frames \in Seq(Frame) /\ Nested(frames, controls)
    BY StackFacts
  <1>10. Nested(frames', controls')
    <2>1. Top.kind \in Breakable /\ frame.kind \in Breakable
          /\ Top.kind \notin {"loop", "for"} /\ frame.kind \notin {"loop", "for"}
      BY <1>1, <1>7 DEF Breakable
    <2>2. Nested(Append(Front(frames), frame), controls)
      BY <1>1, <1>7, <1>9, <2>1, NestedReplace DEF Top
    <2> QED
      BY <1>1, <2>2
  <1>11. Front(frames) \in Seq(Frame) /\ \A k \in DOMAIN Front(frames) :
                                             InRange(cfg', Front(frames)[k])
    BY <1>1, <1>4, <1>5, FramesCarry
  <1>12. frames' \in Seq(Frame) /\ \A k \in DOMAIN frames' : InRange(cfg', frames'[k])
    BY <1>1, <1>7, <1>8, <1>11, InRangePush
  <1>13. frames' # <<>> /\ Last(frames') = frame
    <2> DEFINE rest == Front(frames)
    <2>1. rest \in Seq(Frame) /\ frames' = Append(rest, frame)
      BY <1>1, <1>11
    <2> HIDE DEF rest
    <2> QED
      BY <1>7, <2>1, PushLemma
  <1>14. ModeShowsFrame' /\ mode' \in Modes
    BY <1>1, <1>6, <1>7, <1>13 DEF ModeShowsFrame, Modes, Top
  <1>15. "endswitch" \in ElementKinds /\ "" \in Args
    BY Names DEF ElementKinds
  <1>16. ast' \in Seq(Element) /\ scopes' \in Seq(SUBSET Nat) /\ controls' \in Seq(Control)
    BY <1>1, <1>9, <1>15, WalkLemma, ScopesLemma
  <1> QED
    BY <1>1, <1>4, <1>5, <1>6, <1>10, <1>12, <1>14, <1>16, StepLemma

(* While the cases are tested the switch itself is the nearest one.         *)
LEMMA DispatchFacts ==
    ASSUME TypeInv, mode = "dispatch"
    PROVE  /\ frames # <<>> /\ Top.kind = "dispatch" /\ Top \in Frame
           /\ sel \in DOMAIN cfg /\ Top.blockAfter \in DOMAIN cfg
           /\ NearestSwitch \in DOMAIN controls /\ NearestSwitch = Len(controls)
           /\ controls[NearestSwitch] \in Control
  <1>1. /\ frames # <<>> /\ Top.kind = "dispatch" /\ sel # NoBlock
        /\ sel \in {NoBlock} \cup DOMAIN cfg
    BY DEF TypeInv, TypeOK, ModeShowsFrame
  <1>2. Top \in Frame /\ Top.blockAfter \in DOMAIN cfg
    BY <1>1, StackFacts DEF InRange
  <1>3. /\ controls \in Seq(Control) /\ frames \in Seq(Frame) /\ Nested(frames, controls)
        /\ DOMAIN controls = 1..Len(controls) /\ Len(controls) \in Nat
        /\ \A k \in DOMAIN controls : controls[k] \in Control
    BY StackFacts
  <1>4. controls # <<>> /\ ~IsLoop(Last(controls))
    <2>1. Last(frames).kind \in Breakable /\ Last(frames).kind \notin {"loop", "for"}
      BY <1>1 DEF Top, Breakable
    <2> QED
      BY <1>1, <1>3, <2>1, NestedPop
  <1>5. Last(controls) = controls[Len(controls)] /\ Len(controls) \in DOMAIN controls
    <2>1. /\ Last(controls) = controls[Len(controls)] /\ Len(controls) \in Nat \ {0}
          /\ DOMAIN controls = 1..Len(controls)
      BY <1>3, <1>4, StackLemma
    <2> QED
      BY <2>1
  <1>6. Len(controls) \in Switches
    BY <1>4, <1>5 DEF Switches, LoopsOf
  <1>7. NearestSwitch \in DOMAIN controls /\ Len(controls) <= NearestSwitch
    BY <1>6, NearestLemma
  <1> QED
    BY <1>1, <1>2, <1>3, <1>7

(* One case is tested: a branch to its block or to the next test.           *)
LEMMA DispatchCaseStep ==
    ASSUME TypeInv, DispatchCase
    PROVE  TypeInv'
  <1> DEFINE k == Top.done + 1
             s == [g |-> cfg, at |-> sel]
             one == Emit(s, "op", 0)
             test == Fresh(one)
             other == NewId(cfg)
             fork == BranchTo(test, Cases[k].block, other)
             frame == [Top EXCEPT !.done = k]
  <1>1. CASE SemanticError
    BY <1>1, SemanticErrorStep
  <1>2. CASE ~SemanticError
    <2>1. /\ mode = "dispatch" /\ k <= Len(Cases) /\ At(Select(fork, other))
          /\ frames' = Append(Front(frames), frame)
          /\ UNCHANGED <<mode, fn, funcs, ast, controls, scopes, labels, dangling, fellOff,
                         orphans>>
      BY <1>2 DEF DispatchCase, history
    <2>2. /\ frames # <<>> /\ Top.kind = "dispatch" /\ Top \in Frame
          /\ sel \in DOMAIN cfg /\ Top.blockAfter \in DOMAIN cfg
          /\ controls[NearestSwitch] \in Control
      BY <2>1, DispatchFacts
    <2>3. Cases[k].block \in Ids
      <3>1. Cases \in Seq([val : Vals, block : Ids]) /\ k \in Nat \ {0}
        BY <2>2 DEF Cases, Control, Frame
      <3>2. k \in 1..Len(Cases)
        BY <2>1, <3>1
      <3>3. Cases[k] \in [val : Vals, block : Ids]
        BY <3>1, <3>2, ElementOfSeq
      <3> QED
        BY <3>3
    <2>4. cfg \in Graph /\ Len(cfg) \in Nat
      BY DEF TypeInv, TypeOK, Graph
    <2>5. other = Len(cfg) + 1 /\ other \in Ids
      BY <2>4 DEF NewId, Ids
    <2>6. Position(s) /\ s.g = cfg
      BY <2>2, <2>4 DEF Position
    <2> HIDE DEF s
    <2>7. Position(one) /\ Len(one.g) = Len(cfg)
      BY <2>6, EmitLemma DEF NodeOps
    <2> HIDE DEF one
    <2>8. Position(test) /\ Len(test.g) = Len(cfg) + 1
      BY <2>7, FreshLemma
    <2> HIDE DEF test, other
    <2>9. Position(fork) /\ Len(fork.g) = Len(cfg) + 1
      BY <2>3, <2>5, <2>8, BranchLemma
    <2> HIDE DEF fork
    <2>10. cfg' = fork.g /\ sel' = other /\ fork.g \in Graph
      BY <2>1, <2>9 DEF At, Select, Position
    <2>11. DOMAIN cfg' = 1..(Len(cfg) + 1)
      BY <2>9, <2>10, PositionFacts
    <2>12. sel' \in DOMAIN cfg' /\ sel' # NoBlock /\ Len(cfg') >= Len(cfg)
      BY <2>4, <2>5, <2>9, <2>10, <2>11 DEF NoBlock
    <2>13. /\ frame \in Frame /\ frame.kind = "dispatch" /\ frame.depth = Top.depth
           /\ frame.blockAfter = Top.blockAfter /\ frame.blockFalse = Top.blockFalse
           /\ frame.entry = Top.entry
      BY <2>2 DEF Frame
    <2> HIDE DEF frame, k
    <2>14. InRange(cfg', frame)
      <3>1. InRange(cfg', Top)
        BY <2>2, <2>10, <2>12, StackFacts, CarryOver
      <3> QED
        BY <2>2, <2>13, <3>1 DEF InRange
    <2>15. controls \in Seq(Control) /\ frames \in Seq(Frame) /\ Nested(frames, controls)
      BY StackFacts
    <2>16. Nested(frames', controls')
      <3>1. Top.kind \in Breakable /\ frame.kind \in Breakable
            /\ Top.kind \notin {"loop", "for"} /\ frame.kind \notin {"loop", "for"}
        BY <2>2, <2>13 DEF Breakable
      <3>2. Nested(Append(Front(frames), frame), controls)
        BY <2>2, <2>13, <2>15, <3>1, NestedReplace DEF Top
      <3> QED
        BY <2>1, <3>2
    <2>17. Front(frames) \in Seq(Frame) /\ \A j \in DOMAIN Front(frames) :
                                               InRange(cfg', Front(frames)[j])
      BY <2>2, <2>10, <2>12, FramesCarry
    <2>18. frames' \in Seq(Frame) /\ \A j \in DOMAIN frames' : InRange(cfg', frames'[j])
      BY <2>1, <2>13, <2>14, <2>17, InRangePush
    <2>19. frames' # <<>> /\ Last(frames') = frame
      <3> DEFINE rest == Front(frames)
      <3>1. rest \in Seq(Frame) /\ frames' = Append(rest, frame)
        BY <2>1, <2>17
      <3> HIDE DEF rest
      <3> QED
        BY <2>13, <3>1, PushLemma
    <2>20. ModeShowsFrame' /\ mode' \in Modes
      BY <2>1, <2>12, <2>13, <2>19 DEF ModeShowsFrame, Modes, Top
    <2>21. ast' \in Seq(Element) /\ scopes' \in Seq(SUBSET Nat) /\ controls' \in Seq(Control)
      BY <2>1, <2>15 DEF TypeInv, TypeOK
    <2> QED
      BY <2>1, <2>10, <2>12, <2>16, <2>18, <2>20, <2>21, StepLemma
  <1> QED
    BY <1>1, <1>2

(* The last test is sealed, and the walk goes on after the switch.          *)
LEMMA DispatchDoneStep ==
    ASSUME TypeInv, DispatchDone
    PROVE  TypeInv'
  <1> DEFINE default == controls[NearestSwitch].default
             to == IF default # NoBlock THEN default ELSE Top.blockAfter
             s == [g |-> cfg, at |-> sel]
             final == JumpTo(s, to)
  <1>1. /\ mode = "dispatch" /\ mode' = "body" /\ cfg' = final.g
        /\ \/ sel' = Top.blockAfter /\ orphans' = orphans
           \/ sel' = NoBlock /\ orphans' = orphans \cup {Top.blockAfter}
        /\ controls' = Front(controls) /\ frames' = Front(frames)
        /\ UNCHANGED <<fn, funcs, ast, scopes, labels, dangling, fellOff>>
    BY DEF DispatchDone
  <1>2. /\ frames # <<>> /\ Top.kind = "dispatch" /\ Top \in Frame
        /\ sel \in DOMAIN cfg /\ Top.blockAfter \in DOMAIN cfg
        /\ controls[NearestSwitch] \in Control
    BY <1>1, DispatchFacts
  <1>3. cfg \in Graph /\ Len(cfg) \in Nat /\ DOMAIN cfg = 1..Len(cfg)
    BY DEF TypeInv, TypeOK, Graph
  <1>4. to \in Ids
    BY <1>2, <1>3 DEF Control, Ids
  <1>5. Position(s) /\ s.g = cfg
    BY <1>2, <1>3 DEF Position
  <1> HIDE DEF s, to
  <1>6. Position(final) /\ Len(final.g) = Len(cfg)
    BY <1>4, <1>5, JumpLemma
  <1> HIDE DEF final
  <1>7. cfg' \in Graph /\ Len(cfg') >= Len(cfg) /\ DOMAIN cfg' = DOMAIN cfg
    BY <1>1, <1>3, <1>6, PositionFacts
  <1>8. orphans' = orphans \/ orphans' \subseteq DOMAIN cfg'
    <2>1. orphans \subseteq DOMAIN cfg
      BY DEF TypeInv, TypeOK
    <2> QED
      BY <1>1, <1>2, <1>7, <2>1
  <1>9. sel' \in {NoBlock} \cup DOMAIN cfg'
    BY <1>1, <1>2, <1>7
  <1>10. Top.kind \in Breakable
    BY <1>2 DEF Breakable
  <1>11. ast' \in Seq(Element) /\ scopes' \in Seq(SUBSET Nat)
    BY <1>1 DEF TypeInv, TypeOK
  <1> QED
    BY <1>1, <1>2, <1>7, <1>8, <1>9, <1>10, <1>11, LeaveLemma

-----------------------------------------------------------------------------
(* The start and the end of a function. *)

(* The end of the body: an open block returns.                              *)
LEMMA EndBodyStep ==
    ASSUME TypeInv, EndBody
    PROVE  TypeInv'
  <1>1. CASE SemanticError
    BY <1>1, SemanticErrorStep
  <1>2. CASE ~SemanticError
    <2>1. /\ frames = <<>> /\ mode' = "resolve"
          /\ cfg' = IF sel = NoBlock THEN cfg ELSE SetTerminator(cfg, sel, "RET")
          /\ scopes' = Front(scopes)
          /\ UNCHANGED <<fn, funcs, ast, sel, controls, frames, labels, dangling, fellOff,
                         orphans>>
      BY <1>2 DEF EndBody, history
    <2>2. cfg \in Graph /\ Len(cfg) \in Nat /\ sel \in {NoBlock} \cup DOMAIN cfg
          /\ DOMAIN cfg = 1..Len(cfg) /\ "RET" \in TermTypes
      BY DEF TypeInv, TypeOK, Graph, TermTypes
    <2>3. cfg' \in Graph /\ Len(cfg') = Len(cfg)
      <3>1. CASE sel = NoBlock
        BY <2>1, <2>2, <3>1
      <3>2. CASE sel # NoBlock
        BY <2>1, <2>2, <3>2, SetTerminatorLemma
      <3> QED
        BY <3>1, <3>2
    <2>4. Len(cfg') >= Len(cfg) /\ DOMAIN cfg' = DOMAIN cfg
      BY <2>2, <2>3 DEF Graph
    <2>5. \A k \in DOMAIN frames' : InRange(cfg', frames'[k])
      BY <2>1, <2>3, <2>4, FramesCarry
    <2>6. /\ ast' \in Seq(Element) /\ controls' \in Seq(Control) /\ frames' \in Seq(Frame)
          /\ Nested(frames', controls')
      BY <2>1, StackFacts DEF TypeInv, TypeOK
    <2>7. scopes' \in Seq(SUBSET Nat)
      BY <2>1, ScopesLemma
    <2>8. ModeShowsFrame' /\ mode' \in Modes
      BY <2>1 DEF ModeShowsFrame, Modes
    <2>9. sel' \in {NoBlock} \cup DOMAIN cfg'
      BY <2>1, <2>2, <2>4
    <2> QED
      BY <2>1, <2>3, <2>4, <2>5, <2>6, <2>7, <2>8, <2>9, StepLemma
  <1> QED
    BY <1>1, <1>2

(* A goto that waited is linked to its label and leaves danglingGotos.      *)
LEMMA ResolveGotoStep ==
    ASSUME TypeInv, ResolveGoto
    PROVE  TypeInv'
  <1> DEFINE waiting == Head(dangling)
             Waits == [block : DOMAIN cfg, label : Labels]
             Waits2 == [block : DOMAIN cfg', label : Labels]
  <1>1. CASE SemanticError
    BY <1>1, SemanticErrorStep
  <1>2. CASE ~SemanticError
    <2>1. /\ mode = "resolve" /\ dangling # <<>>
          /\ cfg' = LinkBlocks(cfg, waiting.block, labels[waiting.label])
          /\ dangling' = Tail(dangling)
          /\ UNCHANGED <<mode, fn, funcs, ast, sel, controls, frames, scopes, labels,
                         fellOff, orphans>>
      BY <1>2 DEF ResolveGoto, history
    <2>2. cfg \in Graph /\ Len(cfg) \in Nat /\ DOMAIN cfg = 1..Len(cfg)
          /\ dangling \in Seq(Waits) /\ labels \in [Labels -> {NoBlock} \cup DOMAIN cfg]
          /\ sel \in {NoBlock} \cup DOMAIN cfg
      BY DEF TypeInv, TypeOK, Graph
    <2>3. waiting \in Waits /\ dangling' \in Seq(Waits)
      <3> HIDE DEF Waits
      <3> QED
        BY <2>1, <2>2, HeadTailProperties
    <2>4. waiting.block \in DOMAIN cfg /\ labels[waiting.label] \in Ids
      BY <2>2, <2>3 DEF Ids, NoBlock
    <2>5. cfg' \in Graph /\ Len(cfg') = Len(cfg)
      BY <2>1, <2>2, <2>4, LinkBlocksLemma
    <2>6. Len(cfg') >= Len(cfg) /\ DOMAIN cfg' = DOMAIN cfg
      BY <2>2, <2>5 DEF Graph
    <2>7. dangling' \in Seq(Waits2)
      BY <2>3, <2>6
    <2>8. \A k \in DOMAIN frames' : InRange(cfg', frames'[k])
      BY <2>1, <2>5, <2>6, FramesCarry
    <2>9. /\ ast' \in Seq(Element) /\ controls' \in Seq(Control) /\ frames' \in Seq(Frame)
          /\ Nested(frames', controls') /\ scopes' \in Seq(SUBSET Nat)
      BY <2>1, StackFacts DEF TypeInv, TypeOK
    <2>10. ModeShowsFrame' /\ mode' \in Modes
      BY <2>1 DEF ModeShowsFrame, Modes, TypeInv
    <2>11. sel' \in {NoBlock} \cup DOMAIN cfg'
      BY <2>1, <2>2, <2>6
    <2> QED
      BY <2>1, <2>5, <2>6, <2>7, <2>8, <2>9, <2>10, <2>11, StepLemma
  <1> QED
    BY <1>1, <1>2

(* The tables of the function are reset.                                    *)
LEMMA FinishFunctionStep ==
    ASSUME TypeInv, FinishFunction
    PROVE  TypeInv'
  <1>1. /\ mode = "resolve" /\ dangling = <<>> /\ mode' = "idle" /\ scopes' = Front(scopes)
        /\ labels' = [l \in Labels |-> NoBlock]
        /\ UNCHANGED <<fn, funcs, ast, cfg, sel, controls, frames, dangling, fellOff, orphans>>
    BY DEF FinishFunction, history
  <1>2. cfg' \in Graph /\ Len(cfg') >= Len(cfg) /\ sel' \in {NoBlock} \cup DOMAIN cfg'
    BY <1>1 DEF TypeInv, TypeOK, Graph
  <1>3. labels' \in [Labels -> {NoBlock} \cup DOMAIN cfg']
    BY <1>1
  <1>4. ModeShowsFrame' /\ mode' \in Modes
    BY <1>1 DEF ModeShowsFrame, Modes, TypeInv
  <1>5. \A k \in DOMAIN frames' : InRange(cfg', frames'[k])
    BY <1>1, <1>2, FramesCarry
  <1>6. /\ ast' \in Seq(Element) /\ controls' \in Seq(Control) /\ frames' \in Seq(Frame)
        /\ Nested(frames', controls')
    BY <1>1, StackFacts DEF TypeInv, TypeOK
  <1>7. scopes' \in Seq(SUBSET Nat)
    BY <1>1, ScopesLemma
  <1> QED
    BY <1>1, <1>2, <1>3, <1>4, <1>5, <1>6, <1>7, StepLemma

(* A function starts with one block and nothing that refers to a block of  *)
(* the function before it.                                                 *)
LEMMA CreateFunctionStep ==
    ASSUME TypeInv, NEW void \in BOOLEAN, NEW params \in BOOLEAN, CreateFunction(void, params)
    PROVE  TypeInv'
  <1> DEFINE entry == [g |-> CreateBlock(<<>>), at |-> 1]
             one == Emit(entry, "alloca", 0)
             two == Emit(one, "use", 0)
             first == IF params THEN two ELSE entry
             top == <<IF params THEN {0} ELSE {}, {}>>
  <1>1. /\ mode = "idle" /\ mode' = "body" /\ fn' = [void |-> void, params |-> params]
        /\ funcs' = funcs + 1 /\ ast' = <<>> /\ At(first)
        /\ scopes' = scopes \o top /\ fellOff' = {} /\ orphans' = {}
        /\ UNCHANGED <<controls, frames, labels, dangling>>
    BY DEF CreateFunction
  <1>2. Position(entry) /\ <<>> \in Graph /\ Len(<<>>) = 0
    <2>1. <<>> \in Graph /\ Len(<<>>) = 0
      BY DEF Graph
    <2>2. CreateBlock(<<>>) \in Graph /\ Len(CreateBlock(<<>>)) = 1
      <3> DEFINE none == <<>>
      <3>1. none \in Graph /\ Len(none) = 0
        BY <2>1
      <3> HIDE DEF none
      <3>2. CreateBlock(none) \in Graph /\ Len(CreateBlock(none)) = Len(none) + 1
        BY <3>1, CreateBlockLemma
      <3> QED
        BY <3>1, <3>2 DEF none
    <2>3. 1 \in DOMAIN CreateBlock(<<>>)
      BY <2>2 DEF Graph
    <2> QED
      BY <2>1, <2>2, <2>3 DEF Position
  <1> HIDE DEF entry
  <1>3. Position(one)
    BY <1>2, EmitLemma DEF NodeOps
  <1> HIDE DEF one
  <1>4. Position(two)
    BY <1>3, EmitLemma DEF NodeOps
  <1> HIDE DEF two
  <1>5. Position(first)
    BY <1>2, <1>4
  <1> HIDE DEF first
  <1>6. cfg' \in Graph /\ sel' \in DOMAIN cfg'
    BY <1>1, <1>5 DEF At, Position
  <1>7. frames = <<>> /\ dangling = <<>> /\ \A l \in Labels : labels[l] = NoBlock
    BY <1>1 DEF TypeInv, ModeShowsFrame
  <1>8. scopes' \in Seq(SUBSET Nat)
    <2>1. top \in Seq(SUBSET Nat)
      <3> DEFINE level == IF params THEN {0} ELSE {}
                 none == {}
                 Levels == SUBSET Nat
      <3>1. level \in Levels /\ none \in Levels
        OBVIOUS
      <3> HIDE DEF level, none, Levels
      <3>2. <<level, none>> \in Seq(Levels)
        BY <3>1
      <3> QED
        BY <3>2 DEF level, none, Levels
    <2> HIDE DEF top
    <2> QED
      BY <1>1, <2>1, ScopesLemma, ConcatProperties
  <1>9. labels' \in [Labels -> {NoBlock} \cup DOMAIN cfg']
    BY <1>1 , <1>7 DEF TypeInv, TypeOK
  <1>10. dangling' \in Seq([block : DOMAIN cfg', label : Labels])
    BY <1>1, <1>7
  <1>11. FramesInRange' /\ Nested(frames', controls') /\ ModeShowsFrame'
    BY <1>1, <1>7 DEF TypeInv, FramesInRange, ModeShowsFrame
  <1>12. /\ mode' \in Modes /\ fn' \in [void : BOOLEAN, params : BOOLEAN] /\ funcs' \in Nat
         /\ ast' \in Seq(Element) /\ controls' \in Seq(Control) /\ frames' \in Seq(Frame)
    BY <1>1, StackFacts DEF Modes, TypeInv, TypeOK
  <1> QED
    BY <1>1, <1>6, <1>8, <1>9, <1>10, <1>11, <1>12 DEF TypeInv, TypeOK

-----------------------------------------------------------------------------
(* Loops. *)

(* What an operation leaves, when it starts in a graph of at least n blocks *)
(* and may only add blocks.                                                *)
Reaches(s, n) == Position(s) /\ Len(s.g) >= n

(* Selecting a block that exists, and the operations that may follow it.    *)
LEMMA ReachLemma ==
    ASSUME NEW s, NEW n \in Nat, Reaches(s, n)
    PROVE  /\ \A b \in 1..n : Reaches(Select(s, b), n)
           /\ \A b \in Ids : Reaches(JumpTo(s, b), n)
           /\ \A a, b \in Ids : Reaches(BranchTo(s, a, b), n)
           /\ \A e \in AllExprs, i \in Nat : Reaches(Eval(e, s, i), n)
  <1>1. Position(s) /\ Len(s.g) \in Nat /\ Len(s.g) >= n /\ DOMAIN s.g = 1..Len(s.g)
        /\ s.g \in Graph
    BY PositionFacts DEF Reaches
  <1>2. ASSUME NEW b \in 1..n PROVE Reaches(Select(s, b), n)
    <2>1. b \in DOMAIN s.g
      BY <1>1
    <2>2. Select(s, b).g = s.g /\ Select(s, b).at = b
      BY SelectLemma
    <2> QED
      BY <1>1, <2>1, <2>2 DEF Reaches, Position
  <1>3. ASSUME NEW b \in Ids PROVE Reaches(JumpTo(s, b), n)
    <2>1. Position(JumpTo(s, b)) /\ Len(JumpTo(s, b).g) = Len(s.g)
      BY <1>1, JumpLemma
    <2> QED
      BY <1>1, <2>1 DEF Reaches
  <1>4. ASSUME NEW a \in Ids, NEW b \in Ids PROVE Reaches(BranchTo(s, a, b), n)
    <2>1. Position(BranchTo(s, a, b)) /\ Len(BranchTo(s, a, b).g) = Len(s.g)
      BY <1>1, BranchLemma
    <2> QED
      BY <1>1, <2>1 DEF Reaches
  <1>5. ASSUME NEW e \in AllExprs, NEW i \in Nat PROVE Reaches(Eval(e, s, i), n)
    <2>1. Position(Eval(e, s, i)) /\ Len(Eval(e, s, i).g) >= Len(s.g)
      BY <1>1, EvalLemma
    <2> DEFINE m == Len(Eval(e, s, i).g)
    <2>2. m \in Nat
      BY <2>1, PositionFacts
    <2>3. m >= Len(s.g)
      BY <2>1
    <2> HIDE DEF m
    <2>4. m >= n
      BY <1>1, <2>2, <2>3
    <2> QED
      BY <2>1, <2>4 DEF Reaches, m
  <1> QED
    BY <1>2, <1>3, <1>4, <1>5

(* An initializer is absent, or an expression or a declaration with one.    *)
LEMMA ForInitsLemma ==
    ASSUME NEW init \in ForInits
    PROVE  \/ init = <<"none", "">> /\ init[1] = "none" /\ init[2] = ""
           \/ init[1] \in {"expr", "decl"} /\ init[2] \in Exprs
  <1>1. CASE init = <<"none", "">>
    BY <1>1
  <1>2. CASE init \in {"expr", "decl"} \X Exprs
    BY <1>2
  <1> QED
    BY <1>1, <1>2 DEF ForInits

(* The initializer of a for loop is evaluated where the loop was met.       *)
LEMMA InitializerLemma ==
    ASSUME TypeInv, NEW init \in ForInits, NEW s, NEW n \in Nat, Reaches(s, n)
    PROVE  LET pre == CASE init[1] = "expr" -> Eval(init[2], s, Here)
                        [] init[1] = "decl" -> Declare(init[2], s, Here)
                        [] OTHER            -> s
           IN  Reaches(pre, n)
  <1>1. Here \in Nat
    BY LenProperties DEF Here, TypeInv, TypeOK
  <1>2. init = <<"none", "">> \/ (init[1] \in {"expr", "decl"} /\ init[2] \in Exprs)
    BY DEF ForInits
  <1>3. CASE init = <<"none", "">>
    BY <1>3
  <1>4. CASE init[1] = "expr" /\ init[2] \in Exprs
    <2>1. init[2] \in AllExprs
      BY <1>4, Names
    <2> QED
      BY <1>1, <1>4, <2>1, ReachLemma
  <1>5. CASE init[1] = "decl" /\ init[2] \in Exprs
    <2> DEFINE r == Declare(init[2], s, Here)
               m == Len(r.g)
               l == Len(s.g)
    <2>1. Position(s) /\ l >= n /\ l \in Nat
      BY PositionFacts DEF Reaches
    <2>2. Position(r) /\ m >= l
      BY <1>1, <1>5, <2>1, DeclareLemma
    <2>3. m \in Nat
      BY <2>2, PositionFacts
    <2> HIDE DEF m, l
    <2>4. m >= n
      BY <2>1, <2>2, <2>3
    <2>5. Reaches(r, n)
      BY <2>2, <2>4 DEF Reaches, m
    <2> QED
      BY <1>5, <2>5
  <1> QED
    BY <1>2, <1>3, <1>4, <1>5

(* The graph of a loop up to its body, and the block its last action or its *)
(* condition is evaluated in.                                              *)
LEMMA InsertLoopStep ==
    ASSUME TypeInv, NEW kind \in {"while", "do", "for"}, NEW init \in ForInits,
           NEW e \in Exprs, NEW act \in LastActs \cup {"none"},
           InsertLoopStatement(kind, init, e, act)
    PROVE  TypeInv'
  <1> DEFINE isFor  == kind = "for"
             n      == Len(Ready.g)
             condB  == NewId(Ready.g)
             body   == condB + 1
             after  == condB + 2
             blocks == Fresh(Fresh(Fresh(Ready)))
             pre    == CASE init[1] = "expr" -> Eval(init[2], blocks, Here)
                         [] init[1] = "decl" -> Declare(init[2], blocks, Here)
                         [] OTHER            -> blocks
             enter  == JumpTo(pre, IF kind = "do" THEN body ELSE condB)
             at     == IF isFor THEN Here + 1 ELSE Here
             cond   == BranchTo(Eval(e, Select(enter, condB), at), body, after)
             last   == NewId(cond.g)
             m      == Len(cond.g)
             back   == JumpTo(Select(Fresh(cond), last), condB)
             step   == Eval(act, Select(back, last), at + 1)
             hasAct == act # "none"
             r      == IF hasAct THEN step ELSE cond
             c      == LoopControl(IF hasAct THEN last ELSE condB, after, Ready.at)
             frame  == MkFrame(IF isFor THEN "for" ELSE "loop", NoBlock, after, NoBlock)
             walked == << [kind |-> "init", arg |-> init[2]], [kind |-> "for", arg |-> e],
                          [kind |-> "act", arg |-> act] >>
             levels == <<IF init[1] = "decl" THEN {Here} ELSE {}, {}>>
  <1>1. /\ mode = "body" /\ At(Select(r, body)) /\ controls' = Append(controls, c)
        /\ frames' = Append(frames, frame)
        /\ scopes' = IF ~isFor THEN Append(scopes, {}) ELSE scopes \o levels
        /\ IF isFor THEN ast' = ast \o walked ELSE Walk(kind, e)
        /\ UNCHANGED <<mode, fn, funcs, labels, dangling, fellOff, orphans>>
    BY DEF InsertLoopStatement, Nests, Opens, history
  <1>2. ast' \in Seq(Element)
    <2>1. CASE ~isFor
      <3>1. kind \in ElementKinds /\ e \in Args
        BY Names DEF ElementKinds, AllKinds
      <3> QED
        BY <1>1, <2>1, <3>1, WalkLemma
    <2>2. CASE isFor
      <3> DEFINE x == [kind |-> "init", arg |-> init[2]]
                 y == [kind |-> "for", arg |-> e]
                 z == [kind |-> "act", arg |-> act]
      <3>1. init[2] \in Args /\ e \in Args /\ act \in Args
        <4>1. init[2] = "" \/ init[2] \in Exprs
          BY ForInitsLemma
        <4>2. act \in LastActs \/ act = "none"
          OBVIOUS
        <4> QED
          BY <4>1, <4>2, Names
      <3>2. {"init", "for", "act"} \subseteq ElementKinds
        BY DEF ElementKinds, AllKinds
      <3>3. x \in Element /\ y \in Element /\ z \in Element
        BY <3>1, <3>2 DEF Element
      <3> HIDE DEF x, y, z
      <3>4. <<x, y, z>> \in Seq(Element)
        BY <3>3
      <3>5. ast' = ast \o <<x, y, z>>
        BY <1>1, <2>2 DEF x, y, z
      <3>6. ast \in Seq(Element)
        BY DEF TypeInv, TypeOK
      <3> QED
        BY <3>4, <3>5, <3>6, ConcatProperties
    <2> QED
      BY <2>1, <2>2
  <1>3. Here \in Nat
    BY LenProperties DEF Here, TypeInv, TypeOK
  <1>4. scopes' \in Seq(SUBSET Nat)
    <2>1. CASE ~isFor
      BY <1>1, <2>1, ScopesLemma
    <2>2. CASE isFor
      <3> DEFINE level == IF init[1] = "decl" THEN {Here} ELSE {}
                 none == {}
                 Levels == SUBSET Nat
      <3>1. level \in Levels /\ none \in Levels
        BY <1>3
      <3>2. scopes' = scopes \o <<level, none>> /\ scopes \in Seq(Levels)
        BY <1>1, <2>2, ScopesLemma
      <3> HIDE DEF level, none
      <3>3. scopes' \in Seq(Levels)
        <4> HIDE DEF Levels
        <4>1. <<level, none>> \in Seq(Levels)
          BY <3>1
        <4> QED
          BY <3>2, <4>1, ConcatProperties
      <3> QED
        BY <3>3
    <2> QED
      BY <2>1, <2>2
  <1>5. /\ n \in Nat /\ condB = n + 1 /\ body = n + 2 /\ after = n + 3
        /\ condB \in Ids /\ body \in Ids /\ after \in Ids
        /\ Len(cfg) \in Nat /\ n >= Len(cfg) /\ Ready.at \in Ids /\ Position(Ready)
    <2>1. Position(Ready) /\ n >= Len(cfg) /\ n \in Nat /\ Ready.at \in Ids
      BY ReadyLemma, PositionFacts
    <2>2. Len(cfg) \in Nat
      BY DEF TypeInv, TypeOK, Graph
    <2> QED
      BY <2>1, <2>2 DEF NewId, Ids
  <1>6. Reaches(blocks, n + 3)
    <2>1. Position(blocks) /\ Len(blocks.g) = n + 3
      BY <1>5, FreshThriceLemma
    <2> QED
      BY <1>5, <2>1 DEF Reaches
  <1> HIDE DEF blocks
  <1>7. Reaches(pre, n + 3)
    BY <1>5, <1>6, InitializerLemma
  <1> HIDE DEF pre
  <1>8. Reaches(enter, n + 3)
    <2> DEFINE to == IF kind = "do" THEN body ELSE condB
    <2>1. to \in Ids /\ n + 3 \in Nat
      BY <1>5
    <2>2. enter = JumpTo(pre, to)
      OBVIOUS
    <2> HIDE DEF to, enter
    <2> QED
      BY <1>7, <2>1, <2>2, ReachLemma
  <1> HIDE DEF enter
  <1>9. at \in Nat /\ at + 1 \in Nat /\ e \in AllExprs /\ n + 3 \in Nat
    <2>1. e \in AllExprs
      BY Names
    <2>2. at \in Nat
      BY <1>3
    <2> QED
      BY <1>5, <2>1, <2>2
  <1>10. Reaches(cond, n + 3)
    <2> DEFINE x == Select(enter, condB)
               y == Eval(e, x, at)
    <2>1. condB \in 1..(n + 3)
      BY <1>5
    <2>2. Reaches(x, n + 3)
      BY <1>8, <1>9, <2>1, ReachLemma
    <2> HIDE DEF x
    <2>3. Reaches(y, n + 3)
      BY <1>9, <2>2, ReachLemma
    <2> HIDE DEF y
    <2>4. Reaches(BranchTo(y, body, after), n + 3)
      BY <1>5, <1>9, <2>3, ReachLemma
    <2> QED
      BY <2>4 DEF x, y
  <1>11. m \in Nat /\ m >= n + 3 /\ last = m + 1 /\ last \in Ids
    BY <1>10, PositionFacts DEF Reaches, NewId, Ids
  <1>12. act \in AllExprs => Reaches(step, n + 3)
    <2> DEFINE x == Fresh(cond)
               y == Select(x, last)
               z == Select(back, last)
    <2>1. Position(x) /\ Len(x.g) = m + 1
      BY <1>10, FreshLemma DEF Reaches
    <2>2. Reaches(x, m + 1) /\ m + 1 \in Nat /\ last \in 1..(m + 1)
      BY <1>11, <2>1 DEF Reaches
    <2> HIDE DEF x
    <2>3. Reaches(y, m + 1)
      BY <2>2, ReachLemma
    <2> HIDE DEF y
    <2>4. Reaches(JumpTo(y, condB), m + 1)
      BY <1>5, <2>2, <2>3, ReachLemma
    <2>5. Reaches(back, m + 1)
      BY <2>4 DEF x, y
    <2> HIDE DEF back
    <2>6. Reaches(z, m + 1)
      BY <2>2, <2>5, ReachLemma
    <2> HIDE DEF z, at, last, m
    <2>7. ASSUME act \in AllExprs PROVE Reaches(Eval(act, z, at + 1), m + 1)
      BY <1>9, <2>2, <2>6, <2>7, ReachLemma
    <2>8. act \in AllExprs => Reaches(step, m + 1)
      BY <2>7 DEF z
    <2> HIDE DEF step
    <2>9. Reaches(step, m + 1) => Len(step.g) \in Nat
      BY PositionFacts DEF Reaches
    <2> QED
      BY <1>5, <1>11, <2>8, <2>9 DEF Reaches
  <1>13. Reaches(r, n + 3)
    <2>1. act # "none" => act \in AllExprs
      BY Names
    <2> QED
      BY <1>10, <1>12, <2>1
  <1>14. c \in Control /\ c.exit = after /\ IsLoop(c)
    BY <1>5, <1>11 DEF LoopControl, Control, IsLoop, NoBlock, Ids
  <1> HIDE DEF r, cond, step, last, back, at, c, m, condB, body, after, levels, walked
  <1>15. cfg' = r.g /\ sel' = body
    BY <1>1 DEF At, Select
  <1>16. cfg' \in Graph /\ Len(cfg') \in Nat /\ Len(cfg') >= n + 3
         /\ DOMAIN cfg' = 1..Len(cfg')
    BY <1>13, <1>15, PositionFacts DEF Reaches
  <1>17. Len(cfg') >= Len(cfg) /\ sel' \in DOMAIN cfg' /\ after \in DOMAIN cfg'
    BY <1>5, <1>15, <1>16
  <1>18. /\ frame \in Frame /\ frame.kind \in {"loop", "for"}
         /\ frame.depth = Len(controls) + 1
         /\ frame.blockFalse = NoBlock /\ frame.blockAfter = after
    <2> DEFINE k == IF isFor THEN "for" ELSE "loop"
    <2>1. k \in FrameKinds /\ k \in Breakable /\ k \in {"loop", "for"} /\ NoBlock \in Ids
          /\ Len(controls) \in Nat
      BY StackFacts DEF FrameKinds, Breakable, Ids, NoBlock
    <2> HIDE DEF k
    <2>2. MkFrame(k, NoBlock, after, NoBlock) = frame
      BY DEF k
    <2> QED
      BY <1>5, <2>1, <2>2, MkFrameLemma
  <1> HIDE DEF frame
  <1>19. InRange(cfg', frame) /\ frame.kind \in Breakable
    BY <1>17, <1>18 DEF InRange, Breakable
  <1>20. controls' \in Seq(Control)
    BY <1>1, <1>14, StackFacts, AppendProperties
  <1> QED
    BY <1>1, <1>2, <1>4, <1>14, <1>16, <1>17, <1>18, <1>19, <1>20, EnterLemma

-----------------------------------------------------------------------------
(* The specification. *)

(* The invariant holds of a translation unit nothing was generated from.    *)
LEMMA InitStep == Init => TypeInv
  <1> SUFFICES ASSUME Init PROVE TypeInv
    OBVIOUS
  <1>1. /\ mode = "idle" /\ fn = [void |-> TRUE, params |-> FALSE] /\ funcs = 0
        /\ ast = <<>> /\ cfg = <<>> /\ sel = NoBlock /\ controls = <<>> /\ frames = <<>>
        /\ scopes = <<{}>> /\ labels = [l \in Labels |-> NoBlock] /\ dangling = <<>>
        /\ fellOff = {} /\ orphans = {}
    BY DEF Init
  <1>2. scopes \in Seq(SUBSET Nat)
    <2> DEFINE none == {}
               Levels == SUBSET Nat
    <2>1. none \in Levels
      OBVIOUS
    <2> HIDE DEF none, Levels
    <2>2. <<none>> \in Seq(Levels)
      BY <2>1
    <2> QED
      BY <1>1, <2>2 DEF none, Levels
  <1>3. /\ mode \in Modes /\ fn \in [void : BOOLEAN, params : BOOLEAN] /\ funcs \in Nat
        /\ sel \in {NoBlock} \cup DOMAIN cfg /\ labels \in [Labels -> {NoBlock} \cup DOMAIN cfg]
        /\ fellOff \subseteq DOMAIN cfg /\ orphans \subseteq DOMAIN cfg
    BY <1>1 DEF Modes
  <1>4. /\ ast \in Seq(Element) /\ cfg \in Graph /\ controls \in Seq(Control)
        /\ frames \in Seq(Frame) /\ dangling \in Seq([block : DOMAIN cfg, label : Labels])
    BY <1>1 DEF Graph
  <1>5. TypeOK
    BY <1>2, <1>3, <1>4 DEF TypeOK
  <1>6. FramesInRange
    BY <1>1 DEF FramesInRange
  <1>7. Nested(frames, controls)
    BY <1>1 DEF Nested
  <1>8. ModeShowsFrame
    BY <1>1 DEF ModeShowsFrame
  <1> QED
    BY <1>5, <1>6, <1>7, <1>8 DEF TypeInv

(* Every step of the walk keeps the invariant.                              *)
LEMMA NextStep ==
    ASSUME TypeInv, [Next]_vars
    PROVE  TypeInv'
  <1>1. CASE UNCHANGED vars
    BY <1>1 DEF vars, TypeInv, TypeOK, FramesInRange, ModeShowsFrame, Top
  <1>2. ASSUME NEW void \in BOOLEAN, NEW params \in BOOLEAN, CreateFunction(void, params)
        PROVE  TypeInv'
    BY <1>2, CreateFunctionStep
  <1>3. ASSUME NEW e \in Exprs, ExprStmt(e) \/ Return(e) \/ InsertSwitchStatement(e)
        PROVE  TypeInv'
    BY <1>3, ExprStmtStep, ReturnStep, InsertSwitchStep
  <1>4. ASSUME NEW e \in Exprs \cup {"none"}, InsertDeclaration(e) PROVE TypeInv'
    BY <1>4, InsertDeclarationStep
  <1>5. ASSUME NEW v \in UNION {scopes[k] : k \in DOMAIN scopes}, UseVariable(v)
        PROVE  TypeInv'
    <2>1. scopes \in Seq(SUBSET Nat)
      BY ScopesLemma
    <2>2. PICK k \in DOMAIN scopes : v \in scopes[k]
      BY <1>5
    <2>3. scopes[k] \in SUBSET Nat
      BY <2>1, ElementOfSeq, LenProperties
    <2>4. v \in Nat
      BY <2>2, <2>3
    <2> QED
      BY <1>5, <2>4, UseVariableStep
  <1>6. ASSUME NEW e \in Exprs, NEW hasElse \in BOOLEAN, InsertIfStatement(e, hasElse)
        PROVE  TypeInv'
    BY <1>6, InsertIfStep
  <1>7. ASSUME NEW e \in Exprs, NEW kind \in LoopKinds,
               InsertLoopStatement(kind, <<"none", "">>, e, "none")
        PROVE  TypeInv'
    <2>1. kind \in {"while", "do", "for"} /\ <<"none", "">> \in ForInits
      BY DEF LoopKinds, ForInits
    <2> QED
      BY <1>7, <2>1, InsertLoopStep
  <1>8. ASSUME NEW e \in Exprs, NEW init \in ForInits, NEW act \in LastActs \cup {"none"},
               InsertLoopStatement("for", init, e, act)
        PROVE  TypeInv'
    <2>1. "for" \in {"while", "do", "for"}
      OBVIOUS
    <2> QED
      BY <1>8, <2>1, InsertLoopStep
  <1>9. ASSUME NEW l \in Labels, Goto(l) \/ InsertLabel(l) PROVE TypeInv'
    BY <1>9, GotoStep, InsertLabelStep
  <1>10. ASSUME NEW v \in Vals, InsertCase(v) PROVE TypeInv'
    BY <1>10, InsertCaseStep
  <1>11. CASE ReturnNothing \/ Break \/ Continue \/ InsertDefault
    BY <1>11, ReturnNothingStep, BreakStep, ContinueStep, InsertDefaultStep
  <1>12. CASE BadSwitch
    BY <1>12, SemanticErrorStep DEF BadSwitch
  <1>13. CASE InsertCompoundStatement \/ EndCompound \/ EndThen \/ EndIf
    BY <1>13, InsertCompoundStep, EndCompoundStep, EndThenStep, EndIfStep
  <1>14. CASE EndLoop \/ EndSwitch \/ DispatchCase \/ DispatchDone
    BY <1>14, EndLoopStep, EndSwitchStep, DispatchCaseStep, DispatchDoneStep
  <1>15. CASE EndBody \/ ResolveGoto \/ FinishFunction
    BY <1>15, EndBodyStep, ResolveGotoStep, FinishFunctionStep
  <1> QED
    BY <1>1, <1>2, <1>3, <1>4, <1>5, <1>6, <1>7, <1>8, <1>9, <1>10, <1>11, <1>12, <1>13,
       <1>14, <1>15 DEF Next

(* The inductive invariant is one of the specification. *)
THEOREM Inductive == Spec => []TypeInv
  <1>1. Init => TypeInv
    BY InitStep
  <1>2. TypeInv /\ [Next]_vars => TypeInv'
    BY NextStep
  <1> QED
    BY <1>1, <1>2, PTL DEF Spec

(***************************************************************************)
(* Type correctness, for every program of every length and nesting depth:  *)
(* the selected block, the blocks of labels and waiting gotos and those of *)
(* the history are blocks of the current function's graph.                 *)
(***************************************************************************)
THEOREM TypeCorrect == Spec => []TypeOK
  <1>1. TypeInv => TypeOK
    BY DEF TypeInv
  <1> QED
    BY <1>1, Inductive, PTL

(***************************************************************************)
(* activeControls mirrors the handlers being walked, for every program of  *)
(* every length and nesting depth: break and continue reach the statement  *)
(* C says they do, although the deque is popped by hand in each handler.   *)
(***************************************************************************)
THEOREM ControlsMatch == Spec => []ControlsMatchFrames
  <1>1. TypeInv => ControlsMatchFrames
    <2> SUFFICES ASSUME TypeInv PROVE ControlsMatchFrames
      OBVIOUS
    <2>1. /\ frames = <<>> => controls = <<>>
          /\ frames # <<>> => Top.depth = Len(controls)
          /\ mode \in {"idle", "resolve"} => frames = <<>>
      BY DEF TypeInv, ModeShowsFrame, Nested, Top
    <2>2. ASSUME NEW k \in DOMAIN frames
          PROVE  IF frames[k].kind \in Breakable
                 THEN /\ frames[k].depth = DepthBefore(k) + 1
                      /\ controls[frames[k].depth].exit = frames[k].blockAfter
                      /\ IsLoop(controls[frames[k].depth]) <=> frames[k].kind \in {"loop", "for"}
                 ELSE frames[k].depth = DepthBefore(k)
      <3>1. Mirrors(frames[k], DepthUnder(frames, k), controls)
        BY DEF TypeInv, Nested
      <3>2. DepthUnder(frames, k) = DepthBefore(k)
        BY DEF DepthUnder, DepthBefore
      <3> QED
        BY <3>1, <3>2 DEF Mirrors
    <2> QED
      BY <2>1, <2>2 DEF ControlsMatchFrames
  <1> QED
    BY <1>1, Inductive, PTL
=============================================================================
