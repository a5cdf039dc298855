---------------------------- MODULE IRFlow_proofs ----------------------------
(***************************************************************************)
(* Proofs about the paths of the graph the IR generator builds, for        *)
(* programs without goto and switch.                                       *)
(*                                                                         *)
(* A path property of a graph is shown with a set of blocks that no arc    *)
(* leaves, or that is entered from one block only; such a set follows the  *)
(* graph as the handlers extend it, because a handler adds arcs only from  *)
(* the block it is at and from the blocks it creates.                      *)
(***************************************************************************)
EXTENDS IRFlow, IRGenerator_blocks

-----------------------------------------------------------------------------
(* Paths. *)

(* A set with 0 and the successors of its members has all numbers.         *)
LEMMA NatSetInduction ==
    ASSUME NEW T, 0 \in T, \A n \in Nat : n \in T => n + 1 \in T
    PROVE  Nat \subseteq T
  <1> DEFINE Bad == Nat \ T
  <1>1. SUFFICES ASSUME Bad # {} PROVE FALSE
    OBVIOUS
  <1>2. PICK x \in Bad : \A y \in Bad : x <= y
    BY <1>1, LeastNatural
  <1>3. x \in Nat /\ x # 0 /\ x - 1 \in Nat /\ x - 1 < x
    OBVIOUS
  <1>4. x - 1 \in T
    BY <1>2, <1>3
  <1>5. (x - 1) + 1 \in T
    BY <1>3, <1>4
  <1> QED
    BY <1>3, <1>5

(* The first n rounds of ReachAvoiding. *)
Rounds(f, start, avoid, n) ==
    f = [k \in 0..n |-> IF k = 0 THEN start \ avoid
                        ELSE f[k - 1] \cup UNION {Succs(p) \ avoid : p \in f[k - 1]}]

(* There are such rounds.                                                  *)
LEMMA RoundsExist ==
    ASSUME NEW start, NEW avoid
    PROVE  \A n \in Nat : \E f : Rounds(f, start, avoid, n)
  <1> DEFINE T == {n \in Nat : \E f : Rounds(f, start, avoid, n)}
  <1>1. 0 \in T
    <2> DEFINE f == [k \in 0..0 |-> start \ avoid]
    <2>1. Rounds(f, start, avoid, 0)
      BY DEF Rounds
    <2> QED
      BY <2>1
  <1>2. ASSUME NEW n \in Nat, n \in T PROVE n + 1 \in T
    <2>1. PICK f : Rounds(f, start, avoid, n)
      BY <1>2
    <2> DEFINE more(m) == f[m] \cup UNION {Succs(p) \ avoid : p \in f[m]}
               g == [k \in 0..(n + 1) |-> IF k = n + 1 THEN more(n) ELSE f[k]]
    <2>2. \A k \in 0..(n + 1) :
            g[k] = IF k = 0 THEN start \ avoid
                   ELSE g[k - 1] \cup UNION {Succs(p) \ avoid : p \in g[k - 1]}
      <3> TAKE k \in 0..(n + 1)
      <3>1. \A m \in 0..n : g[m] = f[m]
        OBVIOUS
      <3>2. \A m \in 0..n : f[m] = IF m = 0 THEN start \ avoid ELSE more(m - 1)
        BY <2>1 DEF Rounds
      <3>3. CASE k = n + 1
        <4>1. g[k] = more(n) /\ k - 1 = n /\ n \in 0..n /\ k # 0
          BY <3>3
        <4> QED
          BY <3>1, <4>1
      <3>4. CASE k \in 0..n
        <4>1. k # 0 => k - 1 \in 0..n
          BY <3>4
        <4> HIDE DEF g
        <4> QED
          BY <3>1, <3>2, <3>4, <4>1
      <3> QED
        BY <3>3, <3>4
    <2>3. DOMAIN g = 0..(n + 1) /\ g = [k \in 0..(n + 1) |-> g[k]]
      OBVIOUS
    <2> HIDE DEF g
    <2>4. Rounds(g, start, avoid, n + 1)
      BY <2>2, <2>3 DEF Rounds
    <2> QED
      BY <2>4
  <1>3. Nat \subseteq T
    <2> HIDE DEF T
    <2> QED
      BY <1>1, <1>2, NatSetInduction
  <1> QED
    BY <1>3

(* What ReachAvoiding collects stays in every set that it starts in and    *)
(* that no successor leaves.                                               *)
LEMMA ReachInside ==
    ASSUME NEW start, NEW avoid, NEW S, Len(cfg) \in Nat, start \ avoid \subseteq S,
           \A p \in S : Succs(p) \ avoid \subseteq S
    PROVE  ReachAvoiding(start, avoid) \subseteq S
  <1> DEFINE n == Len(cfg)
             r == CHOOSE f : Rounds(f, start, avoid, n)
  <1>1. Rounds(r, start, avoid, n)
    BY RoundsExist
  <1>2. ReachAvoiding(start, avoid) = r[n]
    BY DEF ReachAvoiding, Closure, Rounds
  <1> HIDE DEF r, n
  <1>3. n \in Nat
    BY DEF n
  <1> DEFINE T == {k \in Nat : k <= n => r[k] \subseteq S}
  <1>4. 0 \in T
    BY <1>1, <1>3 DEF Rounds
  <1>5. ASSUME NEW k \in Nat, k \in T PROVE k + 1 \in T
    <2> SUFFICES ASSUME k + 1 <= n PROVE r[k + 1] \subseteq S
      OBVIOUS
    <2>1. k <= n /\ k + 1 \in 0..n /\ (k + 1) - 1 = k /\ k + 1 # 0
      BY <1>3
    <2>2. r[k] \subseteq S
      BY <1>5, <2>1
    <2>3. r[k + 1] = r[k] \cup UNION {Succs(p) \ avoid : p \in r[k]}
      BY <1>1, <2>1 DEF Rounds
    <2> QED
      BY <2>2, <2>3
  <1>6. Nat \subseteq T
    <2> HIDE DEF T
    <2> QED
      BY <1>4, <1>5, NatSetInduction
  <1> QED
    BY <1>2, <1>3, <1>6
-----------------------------------------------------------------------------
(***************************************************************************)
(* How a handler extends the graph: from its position s it adds arcs only  *)
(* to the blocks of K and to those it creates, and instructions that       *)
(* allocate a variable in a block only if A pairs them, and access no      *)
(* variable but those of V, behind its allocation if that is of A.         *)
(***************************************************************************)
Arcs(g, b) == IF b \in DOMAIN g THEN ToSet(g[b].next) ELSE {}
Made(g, h) == (Len(g) + 1)..Len(h)

AllocBefore(g, b, k, v) == \E j \in 1..(k - 1) : g[b].body[j] = [op |-> "alloca", ref |-> v]

Placed(g, b, k, T, V, A) ==
    LET n == g[b].body[k]
    IN  \/ n.op \in {"op", "tmp"}
        \/ n.op = "alloca" /\ <<b, n.ref>> \in A
        \/ /\ n.op = "use" /\ n.ref \in V /\ b \in T
           /\ <<b, n.ref>> \in A => AllocBefore(g, b, k, n.ref)

Extends(s, g, K, V, A) ==
    LET new == Made(s.g, g)
    IN  /\ Position(s) /\ g \in Graph /\ Len(s.g) <= Len(g)
        /\ \A b \in DOMAIN g : Arcs(g, b) \subseteq
              Arcs(s.g, b) \cup (IF b \in {s.at} \cup new THEN K \cup new ELSE {})
        /\ \A b \in DOMAIN s.g : \A k \in DOMAIN s.g[b].body :
              k \in DOMAIN g[b].body /\ g[b].body[k] = s.g[b].body[k]
        /\ \A b \in DOMAIN g : \A k \in DOMAIN g[b].body :
              \/ b \in DOMAIN s.g /\ k \in DOMAIN s.g[b].body
              \/ Placed(g, b, k, {s.at} \cup new, V, A)

From(s, r, K, V, A) ==
    /\ Extends(s, r.g, K, V, A)
    /\ Position(r)
    /\ r.at \in {s.at} \cup Made(s.g, r.g)

(* The sizes of two graphs, one an extension of the other.                 *)
LEMMA MadeFacts ==
    ASSUME NEW g \in Graph, NEW h \in Graph, Len(g) <= Len(h)
    PROVE  /\ Len(g) \in Nat /\ Len(h) \in Nat
           /\ DOMAIN g = 1..Len(g) /\ DOMAIN h = 1..Len(h)
           /\ DOMAIN h = DOMAIN g \cup Made(g, h)
           /\ DOMAIN g \cap Made(g, h) = {}
  <1>1. Len(g) \in Nat /\ Len(h) \in Nat /\ DOMAIN g = 1..Len(g) /\ DOMAIN h = 1..Len(h)
    BY LenProperties DEF Graph
  <1> QED
    BY <1>1 DEF Made

(* A handler that has done nothing yet.                                    *)
LEMMA FromHere ==
    ASSUME NEW s, Position(s), NEW K, NEW V, NEW A
    PROVE  From(s, s, K, V, A)
  <1>1. s.g \in Graph /\ Len(s.g) \in Nat
    BY PositionFacts DEF Position
  <1> QED
    BY <1>1 DEF From, Extends, Position

(* An instruction that stays where it is stays rightly placed.             *)
LEMMA PlacedStays ==
    ASSUME NEW g \in Graph, NEW h, NEW b \in DOMAIN g, NEW k \in DOMAIN g[b].body,
           NEW T, NEW V, NEW A, Placed(g, b, k, T, V, A),
           \A j \in DOMAIN g[b].body : j \in DOMAIN h[b].body /\ h[b].body[j] = g[b].body[j]
    PROVE  Placed(h, b, k, T, V, A)
  <1>1. h[b].body[k] = g[b].body[k]
    OBVIOUS
  <1>2. \A v : AllocBefore(g, b, k, v) => AllocBefore(h, b, k, v)
    <2>1. g[b].body \in Seq(Node)
      BY BlockOfGraph DEF Block
    <2>2. \A j \in 1..(k - 1) : j \in DOMAIN g[b].body
      BY <2>1, LenProperties
    <2> QED
      BY <2>2 DEF AllocBefore
  <1> QED
    BY <1>1, <1>2 DEF Placed

(* One more step, which changes the block the handler is at only.          *)
LEMMA FromStep ==
    ASSUME NEW s, NEW r, NEW K, NEW V, NEW A, From(s, r, K, V, A),
           NEW q, Position(q), Len(q.g) = Len(r.g), q.at = r.at,
           \A c \in DOMAIN r.g : c # r.at => q.g[c].next = r.g[c].next,
           ToSet(q.g[r.at].next) \subseteq ToSet(r.g[r.at].next) \cup K \cup Made(s.g, r.g),
           \A c \in DOMAIN r.g : \A k \in DOMAIN r.g[c].body :
              k \in DOMAIN q.g[c].body /\ q.g[c].body[k] = r.g[c].body[k],
           \A c \in DOMAIN r.g : \A k \in DOMAIN q.g[c].body :
              \/ k \in DOMAIN r.g[c].body
              \/ Placed(q.g, c, k, {r.at}, V, A)
    PROVE  From(s, q, K, V, A)
  <1> DEFINE new == Made(s.g, r.g)
  <1>1. /\ s.g \in Graph /\ r.g \in Graph /\ q.g \in Graph /\ Len(s.g) <= Len(r.g)
        /\ r.at \in {s.at} \cup new /\ r.at \in DOMAIN r.g
    BY DEF From, Extends, Position
  <1>2. /\ DOMAIN q.g = DOMAIN r.g /\ Made(s.g, q.g) = new
        /\ DOMAIN s.g \subseteq DOMAIN r.g /\ Len(s.g) <= Len(q.g)
    <2>1. Len(r.g) <= Len(q.g) /\ Len(q.g) <= Len(r.g)
      BY <1>1, MadeFacts
    <2> QED
      BY <1>1, <2>1, MadeFacts DEF Made
  <1> HIDE DEF new
  <1>3. \A b \in DOMAIN q.g : Arcs(q.g, b) \subseteq
          Arcs(s.g, b) \cup (IF b \in {s.at} \cup new THEN K \cup new ELSE {})
    <2> TAKE b \in DOMAIN q.g
    <2>1. Arcs(r.g, b) \subseteq
            Arcs(s.g, b) \cup (IF b \in {s.at} \cup new THEN K \cup new ELSE {})
      BY <1>2 DEF From, Extends, new
    <2>2. CASE b # r.at
      BY <1>2, <2>1, <2>2 DEF Arcs
    <2>3. CASE b = r.at
      BY <1>1, <1>2, <2>1, <2>3 DEF Arcs, new
    <2> QED
      BY <2>2, <2>3
  <1>4. \A b \in DOMAIN s.g : \A k \in DOMAIN s.g[b].body :
          k \in DOMAIN q.g[b].body /\ q.g[b].body[k] = s.g[b].body[k]
    BY <1>2 DEF From, Extends
  <1>5. \A b \in DOMAIN q.g : \A k \in DOMAIN q.g[b].body :
          \/ b \in DOMAIN s.g /\ k \in DOMAIN s.g[b].body
          \/ Placed(q.g, b, k, {s.at} \cup new, V, A)
    <2> TAKE b \in DOMAIN q.g
    <2> TAKE k \in DOMAIN q.g[b].body
    <2>1. b \in DOMAIN r.g
      BY <1>2
    <2>2. CASE k \in DOMAIN r.g[b].body
      <3>1. \/ b \in DOMAIN s.g /\ k \in DOMAIN s.g[b].body
            \/ Placed(r.g, b, k, {s.at} \cup new, V, A)
        BY <2>1, <2>2 DEF From, Extends, new
      <3>2. Placed(r.g, b, k, {s.at} \cup new, V, A) =>
            Placed(q.g, b, k, {s.at} \cup new, V, A)
        BY <1>1, <2>1, <2>2, PlacedStays
      <3> QED
        BY <3>1, <3>2
    <2>3. CASE k \notin DOMAIN r.g[b].body
      BY <1>1, <2>1, <2>3 DEF Placed
    <2> QED
      BY <2>2, <2>3
  <1>6. Extends(s, q.g, K, V, A)
    BY <1>1, <1>2, <1>3, <1>4, <1>5 DEF Extends, From, new
  <1>7. q.at \in {s.at} \cup Made(s.g, q.g)
    BY <1>1, <1>2
  <1> QED
    BY <1>6, <1>7 DEF From

(* The bodies under the operations of CFGraph.                             *)
LEMMA LinkKeepsBodies ==
    ASSUME NEW g \in Graph, NEW a \in DOMAIN g, NEW b \in Ids
    PROVE  \A c \in DOMAIN g : LinkBlocks(g, a, b)[c].body = g[c].body
  <1> DEFINE x == [g[a] EXCEPT !.next = Append(@, b)]
             h == [g EXCEPT ![a] = x]
             y == [h[b] EXCEPT !.prev = Append(@, a)]
             k == [h EXCEPT ![b] = y]
  <1>1. g[a] \in Block /\ a \in Ids
    BY BlockOfGraph
  <1>2. x \in Block /\ x.body = g[a].body
    <2>1. x \in Block
      BY <1>1, GrowBlock
    <2> QED
      BY <1>1, <2>1 DEF Block
  <1>3. LinkBlocks(g, a, b) = k
    BY DEF LinkBlocks
  <1> HIDE DEF x
  <1>4. /\ h \in Graph /\ h[a] = x /\ DOMAIN h = DOMAIN g
        /\ \A c \in DOMAIN g : c # a => h[c] = g[c]
    <2>1. /\ h \in Graph /\ Len(h) = Len(g) /\ h[a] = x
          /\ \A c \in DOMAIN g : c # a => h[c] = g[c]
      BY <1>2, ReplaceBlock
    <2> HIDE DEF h
    <2> QED
      BY <2>1, BlockOfGraph DEF Graph
  <1> HIDE DEF h
  <1>5. CASE b \in DOMAIN h
    <2>1. h[b] \in Block
      BY <1>4, <1>5, BlockOfGraph
    <2>2. y \in Block /\ y.body = h[b].body
      <3>1. y \in Block
        BY <1>1, <2>1, GrowBlock
      <3> QED
        BY <2>1, <3>1 DEF Block
    <2> HIDE DEF y
    <2>3. k[b] = y /\ \A c \in DOMAIN h : c # b => k[c] = h[c]
      BY <1>4, <1>5, <2>2, ReplaceBlock
    <2> HIDE DEF k
    <2> QED
      BY <1>2, <1>3, <1>4, <2>2, <2>3
  <1>6. CASE b \notin DOMAIN h
    <2>1. k = h
      BY <1>4, <1>6 DEF Graph
    <2> HIDE DEF k
    <2> QED
      BY <1>2, <1>3, <1>4, <2>1
  <1> QED
    BY <1>5, <1>6

(* setTerminator leaves the bodies alone.                                  *)
LEMMA TerminatorKeepsBodies ==
    ASSUME NEW g \in Graph, NEW b \in DOMAIN g, NEW t \in TermTypes
    PROVE  \A c \in DOMAIN g : /\ SetTerminator(g, b, t)[c].body = g[c].body
                               /\ SetTerminator(g, b, t)[c].next = g[c].next
  <1> DEFINE x == [g[b] EXCEPT !.term = t]
  <1>1. g[b] \in Block
    BY BlockOfGraph
  <1>2. x \in Block /\ x.body = g[b].body /\ x.next = g[b].next
    BY <1>1 DEF Block
  <1>3. SetTerminator(g, b, t) = [g EXCEPT ![b] = x]
    BY DEF SetTerminator
  <1> HIDE DEF x
  <1>4. /\ [g EXCEPT ![b] = x][b] = x
        /\ \A c \in DOMAIN g : c # b => [g EXCEPT ![b] = x][c] = g[c]
    BY <1>2, ReplaceBlock
  <1> QED
    BY <1>2, <1>3, <1>4

(* An instruction comes last in the body of its block.                     *)
LEMMA AddNodeBodies ==
    ASSUME NEW g \in Graph, NEW b \in Nat, NEW op \in NodeOps, NEW i \in Nat
    PROVE  LET h == AddNode(g, b, op, i)
           IN  /\ \A c \in DOMAIN g : \A k \in DOMAIN g[c].body :
                    k \in DOMAIN h[c].body /\ h[c].body[k] = g[c].body[k]
               /\ \A c \in DOMAIN g : \A k \in DOMAIN h[c].body :
                    \/ k \in DOMAIN g[c].body
                    \/ /\ c = b /\ h[c].body[k] = [op |-> op, ref |-> i]
                       /\ \A j \in DOMAIN g[c].body : j \in 1..(k - 1)
               /\ b \in DOMAIN g => \E k \in DOMAIN h[b].body :
                    h[b].body[k] = [op |-> op, ref |-> i]
  <1> DEFINE n == [op |-> op, ref |-> i]
             x == [g[b] EXCEPT !.body = Append(@, n)]
             h == AddNode(g, b, op, i)
  <1>1. n \in Node
    BY DEF Node, NodeOps
  <1>2. h = [g EXCEPT ![b] = x]
    BY DEF AddNode
  <1> HIDE DEF n
  <1>3. CASE b \in DOMAIN g
    <2>1. g[b] \in Block
      BY <1>3, BlockOfGraph
    <2> DEFINE old == g[b].body
    <2>2. old \in Seq(Node)
      BY <2>1 DEF Block
    <2>3. x \in Block /\ x.body = Append(old, n)
      <3>1. x \in Block
        BY <1>1, <2>1, GrowBlock
      <3> QED
        BY <2>1, <3>1 DEF Block
    <2> HIDE DEF x
    <2>4. h[b] = x /\ \A c \in DOMAIN g : c # b => h[c] = g[c]
      BY <1>2, <1>3, <2>3, ReplaceBlock
    <2> HIDE DEF h, old
    <2>5. /\ DOMAIN old = 1..Len(old) /\ Len(old) \in Nat
          /\ DOMAIN Append(old, n) = 1..(Len(old) + 1)
          /\ Append(old, n)[Len(old) + 1] = n
          /\ \A k \in 1..Len(old) : Append(old, n)[k] = old[k]
      BY <1>1, <2>2, PushLemma
    <2>6. /\ \A k \in DOMAIN old : k \in DOMAIN h[b].body /\ h[b].body[k] = old[k]
          /\ \A k \in DOMAIN h[b].body :
                k \in DOMAIN old \/ (h[b].body[k] = n /\ \A j \in DOMAIN old : j \in 1..(k - 1))
          /\ \E k \in DOMAIN h[b].body : h[b].body[k] = n
      BY <2>3, <2>4, <2>5
    <2> QED
      BY <2>4, <2>6 DEF h, n, old
  <1>4. CASE b \notin DOMAIN g
    <2>1. h = g
      BY <1>2, <1>4 DEF Graph
    <2> QED
      BY <1>4, <2>1
  <1> QED
    BY <1>3, <1>4

-----------------------------------------------------------------------------
(* What a handler may do next. *)

(* An instruction that is not an allocation of a variable.                 *)
LEMMA FromEmit ==
    ASSUME NEW s, NEW r, NEW K, NEW V, NEW A, From(s, r, K, V, A), NEW i \in Nat,
           NEW op \in {"op", "tmp", "use"},
           op = "use" => /\ i \in V
                         /\ <<r.at, i>> \in A =>
                              \E j \in DOMAIN r.g[r.at].body :
                                 r.g[r.at].body[j] = [op |-> "alloca", ref |-> i]
    PROVE  From(s, Emit(r, op, i), K, V, A)
  <1> DEFINE q == Emit(r, op, i)
             n == [op |-> op, ref |-> i]
  <1>1. Position(r) /\ r.g \in Graph /\ r.at \in Nat /\ op \in NodeOps
    BY PositionFacts DEF From, NodeOps, Ids
  <1>2. /\ Position(q) /\ q.at = r.at /\ Len(q.g) = Len(r.g)
        /\ \A c \in DOMAIN r.g : q.g[c].next = r.g[c].next
    BY <1>1, EmitLemma DEF SameArcs
  <1>3. q.g = AddNode(r.g, r.at, op, i)
    BY DEF Emit
  <1>4. n.op = op /\ n.ref = i
    OBVIOUS
  <1> HIDE DEF q, n
  <1>5. /\ \A c \in DOMAIN r.g : \A k \in DOMAIN r.g[c].body :
              k \in DOMAIN q.g[c].body /\ q.g[c].body[k] = r.g[c].body[k]
        /\ \A c \in DOMAIN r.g : \A k \in DOMAIN q.g[c].body :
              \/ k \in DOMAIN r.g[c].body
              \/ /\ c = r.at /\ q.g[c].body[k] = n
                 /\ \A j \in DOMAIN r.g[c].body : j \in 1..(k - 1)
    BY <1>1, <1>3, AddNodeBodies DEF n
  <1>6. r.at \in DOMAIN r.g
    BY <1>1 DEF Position
  <1>7. \A c \in DOMAIN r.g : \A k \in DOMAIN q.g[c].body :
          k \in DOMAIN r.g[c].body \/ Placed(q.g, c, k, {r.at}, V, A)
    <2> TAKE c \in DOMAIN r.g
    <2> TAKE k \in DOMAIN q.g[c].body
    <2> SUFFICES ASSUME k \notin DOMAIN r.g[c].body PROVE Placed(q.g, c, k, {r.at}, V, A)
      OBVIOUS
    <2>1. c = r.at /\ q.g[c].body[k] = n /\ \A j \in DOMAIN r.g[c].body : j \in 1..(k - 1)
      BY <1>5
    <2>2. CASE op = "use"
      <3>1. <<r.at, i>> \in A => AllocBefore(q.g, c, k, i)
        BY <1>5, <2>1, <2>2 DEF AllocBefore
      <3> QED
        BY <1>4, <2>1, <2>2, <3>1 DEF Placed
    <2>3. CASE op \in {"op", "tmp"}
      BY <1>4, <2>1, <2>3 DEF Placed
    <2> QED
      BY <2>2, <2>3
  <1>8. From(s, q, K, V, A)
    BY <1>2, <1>5, <1>6, <1>7, FromStep
  <1> QED
    BY <1>8 DEF q

(* An allocation in any block of the graph.                                *)
LEMMA FromAllocate ==
    ASSUME NEW s, NEW r, NEW K, NEW V, NEW A, From(s, r, K, V, A), NEW i \in Nat,
           NEW b \in DOMAIN r.g, <<b, i>> \in A
    PROVE  LET q == [g |-> AddNode(r.g, b, "alloca", i), at |-> r.at]
           IN  /\ From(s, q, K, V, A) /\ Len(q.g) = Len(r.g)
               /\ \E j \in DOMAIN q.g[b].body : q.g[b].body[j] = [op |-> "alloca", ref |-> i]
  <1> DEFINE q == [g |-> AddNode(r.g, b, "alloca", i), at |-> r.at]
             n == [op |-> "alloca", ref |-> i]
  <1>1. Position(r) /\ r.g \in Graph /\ b \in Nat /\ "alloca" \in NodeOps
    BY BlockOfGraph DEF From, Position, NodeOps, Ids
  <1>2. /\ q.g \in Graph /\ Len(q.g) = Len(r.g)
        /\ \A c \in DOMAIN r.g : q.g[c].next = r.g[c].next
    BY <1>1, AddNodeLemma DEF SameArcs
  <1>3. q.g = AddNode(r.g, b, "alloca", i) /\ q.at = r.at
    OBVIOUS
  <1>4. n.op = "alloca" /\ n.ref = i
    OBVIOUS
  <1> HIDE DEF q, n
  <1>5. /\ \A c \in DOMAIN r.g : \A k \in DOMAIN r.g[c].body :
              k \in DOMAIN q.g[c].body /\ q.g[c].body[k] = r.g[c].body[k]
        /\ \A c \in DOMAIN r.g : \A k \in DOMAIN q.g[c].body :
              k \in DOMAIN r.g[c].body \/ (c = b /\ q.g[c].body[k] = n)
        /\ \E j \in DOMAIN q.g[b].body : q.g[b].body[j] = n
    BY <1>1, <1>3, AddNodeBodies DEF n
  <1>6. r.at \in DOMAIN r.g /\ Position(q)
    BY <1>1, <1>2, <1>3, LenProperties DEF Position, Graph
  <1>7. \A c \in DOMAIN r.g : \A k \in DOMAIN q.g[c].body :
          k \in DOMAIN r.g[c].body \/ Placed(q.g, c, k, {r.at}, V, A)
    BY <1>4, <1>5 DEF Placed
  <1>8. From(s, q, K, V, A)
    BY <1>2, <1>3, <1>5, <1>6, <1>7, FromStep
  <1> QED
    BY <1>2, <1>5, <1>8 DEF q, n

(* Arcs from the block the handler is at.                                  *)
LEMMA FromLink ==
    ASSUME NEW s, NEW r, NEW K, NEW V, NEW A, From(s, r, K, V, A),
           NEW b \in Ids, b \in K \cup Made(s.g, r.g)
    PROVE  LET q == [g |-> LinkBlocks(r.g, r.at, b), at |-> r.at]
           IN  From(s, q, K, V, A) /\ Len(q.g) = Len(r.g)
  <1> DEFINE q == [g |-> LinkBlocks(r.g, r.at, b), at |-> r.at]
  <1>1. r.g \in Graph /\ r.at \in DOMAIN r.g
    BY DEF From, Position
  <1>2. /\ q.g \in Graph /\ Len(q.g) = Len(r.g) /\ q.g[r.at].next = Append(r.g[r.at].next, b)
        /\ \A c \in DOMAIN r.g : c # r.at => q.g[c].next = r.g[c].next
    BY <1>1, LinkBlocksLemma DEF SameArcs
  <1>3. \A c \in DOMAIN r.g : q.g[c].body = r.g[c].body
    BY <1>1, LinkKeepsBodies
  <1>4. q.at = r.at
    OBVIOUS
  <1> HIDE DEF q
  <1>5. DOMAIN q.g = DOMAIN r.g
    BY <1>1, <1>2, LenProperties DEF Graph
  <1>6. Position(q)
    BY <1>1, <1>2, <1>4, <1>5 DEF Position
  <1>7. ToSet(q.g[r.at].next) \subseteq ToSet(r.g[r.at].next) \cup K \cup Made(s.g, r.g)
    <2> DEFINE old == r.g[r.at].next
    <2>1. old \in Seq(Ids)
      BY <1>1, BlockOfGraph DEF Block
    <2> HIDE DEF old
    <2>2. ToSet(Append(old, b)) \subseteq ToSet(old) \cup {b}
      BY <2>1, PushLemma DEF ToSet
    <2> QED
      BY <1>2, <2>2 DEF old
  <1>8. From(s, q, K, V, A)
    BY <1>2, <1>3, <1>4, <1>6, <1>7, FromStep
  <1> QED
    BY <1>2, <1>8 DEF q

(* A terminator for it.                                                    *)
LEMMA FromTerminate ==
    ASSUME NEW s, NEW r, NEW K, NEW V, NEW A, From(s, r, K, V, A), NEW t \in TermTypes
    PROVE  LET q == [g |-> SetTerminator(r.g, r.at, t), at |-> r.at]
           IN  From(s, q, K, V, A) /\ Len(q.g) = Len(r.g)
  <1> DEFINE q == [g |-> SetTerminator(r.g, r.at, t), at |-> r.at]
  <1>1. r.g \in Graph /\ r.at \in DOMAIN r.g
    BY DEF From, Position
  <1>2. q.g \in Graph /\ Len(q.g) = Len(r.g)
    BY <1>1, SetTerminatorLemma
  <1>3. \A c \in DOMAIN r.g : q.g[c].body = r.g[c].body /\ q.g[c].next = r.g[c].next
    BY <1>1, TerminatorKeepsBodies
  <1>4. q.at = r.at
    OBVIOUS
  <1> HIDE DEF q
  <1>5. Position(q)
    BY <1>1, <1>2, <1>4, LenProperties DEF Position, Graph
  <1>6. ToSet(q.g[r.at].next) \subseteq ToSet(r.g[r.at].next)
    BY <1>1, <1>3
  <1>7. From(s, q, K, V, A)
    BY <1>2, <1>3, <1>4, <1>5, <1>6, FromStep
  <1> QED
    BY <1>2, <1>7 DEF q

(* A new block.                                                            *)
LEMMA FromFresh ==
    ASSUME NEW s, NEW r, NEW K, NEW V, NEW A, From(s, r, K, V, A)
    PROVE  /\ From(s, Fresh(r), K, V, A) /\ Len(Fresh(r).g) = Len(r.g) + 1
           /\ Fresh(r).at = r.at
           /\ Made(s.g, r.g) \cup {Len(r.g) + 1} = Made(s.g, Fresh(r).g)
  <1> DEFINE q == Fresh(r)
             n == Len(r.g) + 1
             old == Made(s.g, r.g)
             new == Made(s.g, q.g)
  <1>1. Position(r) /\ r.g \in Graph /\ s.g \in Graph /\ Len(s.g) <= Len(r.g)
    BY DEF From, Extends, Position
  <1>2. /\ q.g \in Graph /\ Len(q.g) = n /\ q.g[n] = NewBlock
        /\ \A c \in DOMAIN r.g : q.g[c] = r.g[c]
    BY <1>1, CreateBlockLemma DEF Fresh
  <1>3. q.at = r.at
    BY DEF Fresh
  <1> HIDE DEF q
  <1>4. /\ Len(r.g) \in Nat /\ DOMAIN q.g = DOMAIN r.g \cup {n} /\ n \notin DOMAIN r.g
        /\ new = old \cup {n} /\ Len(s.g) <= Len(q.g) /\ DOMAIN s.g \subseteq DOMAIN r.g
        /\ n \in new /\ n \notin DOMAIN s.g
    <2>1. /\ Len(s.g) \in Nat /\ Len(r.g) \in Nat /\ DOMAIN q.g = 1..n
          /\ DOMAIN r.g = 1..Len(r.g) /\ DOMAIN s.g = 1..Len(s.g)
      BY <1>1, <1>2, MadeFacts, LenProperties DEF Graph
    <2> QED
      BY <1>1, <1>2, <2>1 DEF Made
  <1>5. Position(q)
    BY <1>1, <1>2, <1>3, <1>4 DEF Position
  <1> HIDE DEF n, old, new
  <1>6. Arcs(q.g, n) = {} /\ DOMAIN q.g[n].body = {}
    BY <1>2 DEF Arcs, NewBlock, ToSet
  <1>7. \A b \in DOMAIN q.g : Arcs(q.g, b) \subseteq
          Arcs(s.g, b) \cup (IF b \in {s.at} \cup new THEN K \cup new ELSE {})
    <2> TAKE b \in DOMAIN q.g
    <2>1. CASE b = n
      BY <1>6, <2>1
    <2>2. CASE b \in DOMAIN r.g
      <3>1. Arcs(r.g, b) \subseteq
              Arcs(s.g, b) \cup (IF b \in {s.at} \cup old THEN K \cup old ELSE {})
        BY <2>2 DEF From, Extends, old
      <3>2. Arcs(q.g, b) = Arcs(r.g, b)
        BY <1>2, <1>4, <2>2 DEF Arcs
      <3> QED
        BY <1>4, <3>1, <3>2
    <2> QED
      BY <1>4, <2>1, <2>2
  <1>8. \A b \in DOMAIN s.g : \A k \in DOMAIN s.g[b].body :
          k \in DOMAIN q.g[b].body /\ q.g[b].body[k] = s.g[b].body[k]
    BY <1>2, <1>4 DEF From, Extends
  <1>9. \A b \in DOMAIN q.g : \A k \in DOMAIN q.g[b].body :
          \/ b \in DOMAIN s.g /\ k \in DOMAIN s.g[b].body
          \/ Placed(q.g, b, k, {s.at} \cup new, V, A)
    <2> TAKE b \in DOMAIN q.g
    <2> TAKE k \in DOMAIN q.g[b].body
    <2>1. CASE b = n
      BY <1>6, <2>1
    <2>2. CASE b \in DOMAIN r.g
      <3>1. q.g[b] = r.g[b]
        BY <1>2, <2>2
      <3>2. \/ b \in DOMAIN s.g /\ k \in DOMAIN s.g[b].body
            \/ Placed(r.g, b, k, {s.at} \cup old, V, A)
        BY <2>2, <3>1 DEF From, Extends, old
      <3>3. Placed(r.g, b, k, {s.at} \cup old, V, A) => Placed(q.g, b, k, {s.at} \cup new, V, A)
        BY <1>4, <3>1 DEF Placed, AllocBefore
      <3> QED
        BY <3>2, <3>3
    <2> QED
      BY <1>4, <2>1, <2>2
  <1>10. Extends(s, q.g, K, V, A)
    BY <1>1, <1>2, <1>4, <1>7, <1>8, <1>9 DEF Extends, From, new
  <1>11. q.at \in {s.at} \cup Made(s.g, q.g)
    BY <1>3, <1>4 DEF From, new, old
  <1> QED
    BY <1>2, <1>3, <1>4, <1>5, <1>10, <1>11 DEF From, n, old, new, q

(* Another block it has made.                                              *)
LEMMA FromSelect ==
    ASSUME NEW s, NEW r, NEW K, NEW V, NEW A, From(s, r, K, V, A),
           NEW b \in {s.at} \cup Made(s.g, r.g)
    PROVE  From(s, Select(r, b), K, V, A) /\ Select(r, b).at = b /\ Select(r, b).g = r.g
  <1> DEFINE q == Select(r, b)
  <1>1. q.g = r.g /\ q.at = b
    BY SelectLemma
  <1> HIDE DEF q
  <1>2. b \in DOMAIN r.g
    <2>1. /\ s.g \in Graph /\ r.g \in Graph /\ Len(s.g) <= Len(r.g) /\ s.at \in DOMAIN s.g
      BY DEF From, Extends, Position
    <2>2. DOMAIN r.g = DOMAIN s.g \cup Made(s.g, r.g)
      BY <2>1, MadeFacts
    <2> QED
      BY <2>1, <2>2
  <1>3. Position(q)
    BY <1>1, <1>2 DEF From, Position
  <1> QED
    BY <1>1, <1>3 DEF From, q

(* A jump ...                                                              *)
LEMMA FromJump ==
    ASSUME NEW s, NEW r, NEW K, NEW V, NEW A, From(s, r, K, V, A),
           NEW b \in Ids, b \in K \cup Made(s.g, r.g)
    PROVE  From(s, JumpTo(r, b), K, V, A) /\ Len(JumpTo(r, b).g) = Len(r.g)
           /\ JumpTo(r, b).at = r.at
  <1> DEFINE l == [g |-> LinkBlocks(r.g, r.at, b), at |-> r.at]
  <1>1. From(s, l, K, V, A) /\ Len(l.g) = Len(r.g)
    BY FromLink
  <1>2. JumpTo(r, b) = [g |-> SetTerminator(l.g, l.at, "JUMP"), at |-> l.at]
    BY DEF JumpTo
  <1>3. l.at = r.at
    OBVIOUS
  <1> HIDE DEF l
  <1>4. "JUMP" \in TermTypes
    BY DEF TermTypes
  <1>5. LET q == [g |-> SetTerminator(l.g, l.at, "JUMP"), at |-> l.at]
        IN  From(s, q, K, V, A) /\ Len(q.g) = Len(l.g)
    BY <1>1, <1>4, FromTerminate
  <1> QED
    BY <1>1, <1>2, <1>3, <1>5

(* ... and a branch.                                                       *)
LEMMA FromBranch ==
    ASSUME NEW s, NEW r, NEW K, NEW V, NEW A, From(s, r, K, V, A),
           NEW a \in Ids, a \in K \cup Made(s.g, r.g),
           NEW b \in Ids, b \in K \cup Made(s.g, r.g)
    PROVE  From(s, BranchTo(r, a, b), K, V, A) /\ Len(BranchTo(r, a, b).g) = Len(r.g)
           /\ BranchTo(r, a, b).at = r.at
  <1> DEFINE l == [g |-> LinkBlocks(r.g, r.at, a), at |-> r.at]
             m == [g |-> LinkBlocks(l.g, l.at, b), at |-> l.at]
  <1>1. From(s, l, K, V, A) /\ Len(l.g) = Len(r.g)
    BY FromLink
  <1>2. BranchTo(r, a, b) = [g |-> SetTerminator(m.g, m.at, "BRANCH"), at |-> m.at]
    BY DEF BranchTo
  <1>3. l.at = r.at /\ m.at = l.at
    OBVIOUS
  <1>4. b \in K \cup Made(s.g, l.g)
    BY <1>1 DEF Made
  <1> HIDE DEF l
  <1>5. From(s, m, K, V, A) /\ Len(m.g) = Len(l.g)
    BY <1>1, <1>4, FromLink
  <1> HIDE DEF m
  <1>6. "BRANCH" \in TermTypes
    BY DEF TermTypes
  <1>7. LET q == [g |-> SetTerminator(m.g, m.at, "BRANCH"), at |-> m.at]
        IN  From(s, q, K, V, A) /\ Len(q.g) = Len(m.g)
    BY <1>5, <1>6, FromTerminate
  <1> QED
    BY <1>1, <1>2, <1>3, <1>5, <1>7

(* The sizes under an emission.                                            *)
LEMMA FromEmitted ==
    ASSUME NEW s, NEW r, NEW K, NEW V, NEW A, From(s, r, K, V, A),
           NEW i \in Nat, NEW op \in {"op", "tmp"}
    PROVE  From(s, Emit(r, op, i), K, V, A) /\ Len(Emit(r, op, i).g) = Len(r.g)
           /\ Emit(r, op, i).at = r.at
  <1>1. op \in {"op", "tmp", "use"} /\ op # "use" /\ op \in NodeOps /\ Position(r)
    BY DEF NodeOps, From
  <1> QED
    BY <1>1, FromEmit, EmitLemma

(* What a handler has made once it holds a graph of m blocks.              *)
LEMMA MadeMember ==
    ASSUME NEW s, NEW r, NEW K, NEW V, NEW A, From(s, r, K, V, A), NEW q, NEW j \in Nat,
           Len(r.g) < j, j <= Len(q.g)
    PROVE  j \in Made(s.g, q.g) /\ j \in Ids
  <1>1. Len(s.g) \in Nat /\ Len(r.g) \in Nat /\ Len(s.g) <= Len(r.g)
    BY MadeFacts DEF From, Extends, Position
  <1> QED
    BY <1>1 DEF Made, Ids

(* && and ||.                                                              *)
LEMMA FromShortLogic ==
    ASSUME NEW s, NEW r, NEW K, NEW V, NEW A, From(s, r, K, V, A), NEW op, NEW i \in Nat
    PROVE  From(s, ShortLogic(op, r, i), K, V, A)
  <1> DEFINE n     == Len(r.g)
             long  == n + 1
             after == long + 1
             e1    == Emit(r, "op", i)
             e2    == Emit(e1, "tmp", i)
             f1    == Fresh(e2)
             lhs   == Fresh(f1)
             fork  == IF op = "and" THEN BranchTo(lhs, long, after)
                                    ELSE BranchTo(lhs, after, long)
             right == Select(fork, long)
             e3    == Emit(right, "op", i)
             arms  == JumpTo(e3, after)
             join  == Select(arms, after)
             done  == Emit(join, "op", i)
  <1>1. ShortLogic(op, r, i) = done
    BY DEF ShortLogic, ShortLogicArms, NewId
  <1>2. n \in Nat
    BY MadeFacts DEF From, Extends
  <1>3. From(s, e1, K, V, A) /\ Len(e1.g) = n
    BY FromEmitted
  <1> HIDE DEF e1, done
  <1>4. From(s, e2, K, V, A) /\ Len(e2.g) = n
    BY <1>3, FromEmitted
  <1> HIDE DEF e2
  <1>5. From(s, f1, K, V, A) /\ Len(f1.g) = n + 1
    BY <1>4, FromFresh
  <1> HIDE DEF f1
  <1>6. From(s, lhs, K, V, A) /\ Len(lhs.g) = n + 2
    <2>1. From(s, lhs, K, V, A) /\ Len(lhs.g) = Len(f1.g) + 1
      BY <1>5, FromFresh
    <2> HIDE DEF n, lhs
    <2> QED
      BY <1>2, <1>5, <2>1
  <1> HIDE DEF lhs
  <1>7. \A q : Len(q.g) = n + 2 =>
          /\ long \in Made(s.g, q.g) /\ long \in Ids
          /\ after \in Made(s.g, q.g) /\ after \in Ids
    BY <1>2, MadeMember
  <1> HIDE DEF n, long, after
  <1>8. From(s, fork, K, V, A) /\ Len(fork.g) = Len(lhs.g)
    <2>1. /\ long \in K \cup Made(s.g, lhs.g) /\ after \in K \cup Made(s.g, lhs.g)
          /\ long \in Ids /\ after \in Ids
      BY <1>6, <1>7
    <2>2. /\ From(s, BranchTo(lhs, long, after), K, V, A)
          /\ Len(BranchTo(lhs, long, after).g) = Len(lhs.g)
      BY <1>6, <2>1, FromBranch
    <2>3. /\ From(s, BranchTo(lhs, after, long), K, V, A)
          /\ Len(BranchTo(lhs, after, long).g) = Len(lhs.g)
      BY <1>6, <2>1, FromBranch
    <2> QED
      BY <2>2, <2>3
  <1> HIDE DEF fork
  <1>9. From(s, right, K, V, A) /\ Len(right.g) = Len(lhs.g)
    BY <1>6, <1>7, <1>8, FromSelect
  <1> HIDE DEF right
  <1>10. From(s, e3, K, V, A) /\ Len(e3.g) = Len(lhs.g)
    BY <1>9, FromEmitted
  <1> HIDE DEF e3
  <1>11. From(s, arms, K, V, A) /\ Len(arms.g) = Len(lhs.g)
    BY <1>6, <1>7, <1>10, FromJump
  <1> HIDE DEF arms
  <1>12. From(s, join, K, V, A)
    BY <1>6, <1>7, <1>11, FromSelect
  <1> HIDE DEF join
  <1>13. From(s, done, K, V, A)
    BY <1>12, FromEmitted DEF done
  <1> QED
    BY <1>1, <1>13

(* ?:, without a branch in its arms.                                       *)
LEMMA FromTernary ==
    ASSUME NEW s, NEW r, NEW K, NEW V, NEW A, From(s, r, K, V, A), NEW i \in Nat
    PROVE  From(s, Ternary(FALSE, r, i), K, V, A)
  <1> DEFINE n     == Len(r.g)
             true  == n + 1
             false == true + 1
             after == true + 2
             e1    == Emit(r, "op", i)
             f1    == Fresh(e1)
             f2    == Fresh(f1)
             f3    == Fresh(f2)
             fork  == BranchTo(f3, true, false)
             a1    == Select(fork, true)
             a2    == JumpTo(a1, after)
             a3    == Select(a2, false)
             arms  == JumpTo(a3, after)
             v1    == Select(arms, true)
             vtrue == Emit(v1, "op", i)
             t1    == Select(vtrue, r.at)
             tmp   == Emit(t1, "tmp", i)
             s1    == Select(tmp, true)
             store == Emit(s1, "op", i)
             w1    == Select(store, false)
             w2    == Emit(w1, "op", i)
             w3    == Select(w2, after)
             done  == Emit(w3, "op", i)
  <1>1. Ternary(FALSE, r, i) = done
    BY DEF Ternary, NewId
  <1>2. n \in Nat
    BY MadeFacts DEF From, Extends
  <1>3. From(s, e1, K, V, A) /\ Len(e1.g) = n
    BY FromEmitted
  <1> HIDE DEF e1, done
  <1>4. From(s, f1, K, V, A) /\ Len(f1.g) = n + 1
    BY <1>3, FromFresh
  <1> HIDE DEF f1
  <1>5. From(s, f2, K, V, A) /\ Len(f2.g) = n + 2
    <2>1. From(s, f2, K, V, A) /\ Len(f2.g) = Len(f1.g) + 1
      BY <1>4, FromFresh
    <2> HIDE DEF n, f2
    <2> QED
      BY <1>2, <1>4, <2>1
  <1> HIDE DEF f2
  <1>6. From(s, f3, K, V, A) /\ Len(f3.g) = n + 3
    <2>1. From(s, f3, K, V, A) /\ Len(f3.g) = Len(f2.g) + 1
      BY <1>5, FromFresh
    <2> HIDE DEF n, f3
    <2> QED
      BY <1>2, <1>5, <2>1
  <1> HIDE DEF f3
  <1>7. \A q : Len(q.g) = n + 3 =>
          /\ true \in Made(s.g, q.g) /\ true \in Ids
          /\ false \in Made(s.g, q.g) /\ false \in Ids
          /\ after \in Made(s.g, q.g) /\ after \in Ids
    BY <1>2, MadeMember
  <1>8. \A q : Len(q.g) = n + 3 => r.at \in {s.at} \cup Made(s.g, q.g)
    <2>1. r.at \in {s.at} \cup Made(s.g, r.g) /\ Len(r.g) = n /\ Len(s.g) \in Nat
      BY MadeFacts DEF From, Extends, Position
    <2> QED
      BY <1>2, <2>1 DEF Made
  <1> DEFINE m == n + 3
  <1> HIDE DEF n, true, false, after
  <1>9. From(s, fork, K, V, A) /\ Len(fork.g) = m
    BY <1>6, <1>7, FromBranch
  <1> HIDE DEF fork
  <1>10. From(s, a1, K, V, A) /\ Len(a1.g) = m
    BY <1>7, <1>9, FromSelect
  <1> HIDE DEF a1
  <1>11. From(s, a2, K, V, A) /\ Len(a2.g) = m
    BY <1>7, <1>10, FromJump
  <1> HIDE DEF a2
  <1>12. From(s, a3, K, V, A) /\ Len(a3.g) = m
    BY <1>7, <1>11, FromSelect
  <1> HIDE DEF a3
  <1>13. From(s, arms, K, V, A) /\ Len(arms.g) = m
    BY <1>7, <1>12, FromJump
  <1> HIDE DEF arms
  <1>14. From(s, v1, K, V, A) /\ Len(v1.g) = m
    BY <1>7, <1>13, FromSelect
  <1> HIDE DEF v1
  <1>15. From(s, vtrue, K, V, A) /\ Len(vtrue.g) = m
    BY <1>14, FromEmitted
  <1> HIDE DEF vtrue
  <1>16. From(s, t1, K, V, A) /\ Len(t1.g) = m
    BY <1>8, <1>15, FromSelect
  <1> HIDE DEF t1
  <1>17. From(s, tmp, K, V, A) /\ Len(tmp.g) = m
    BY <1>16, FromEmitted
  <1> HIDE DEF tmp
  <1>18. From(s, s1, K, V, A) /\ Len(s1.g) = m
    BY <1>7, <1>17, FromSelect
  <1> HIDE DEF s1
  <1>19. From(s, store, K, V, A) /\ Len(store.g) = m
    BY <1>18, FromEmitted
  <1> HIDE DEF store
  <1>20. From(s, w1, K, V, A) /\ Len(w1.g) = m
    BY <1>7, <1>19, FromSelect
  <1> HIDE DEF w1
  <1>21. From(s, w2, K, V, A) /\ Len(w2.g) = m
    BY <1>20, FromEmitted
  <1> HIDE DEF w2
  <1>22. From(s, w3, K, V, A) /\ Len(w3.g) = m
    BY <1>7, <1>21, FromSelect
  <1> HIDE DEF w3
  <1>23. From(s, done, K, V, A)
    BY <1>22, FromEmitted DEF done
  <1> QED
    BY <1>1, <1>23

(* An expression of the program.                                           *)
LEMMA FromEval ==
    ASSUME NEW s, NEW r, NEW K, NEW V, NEW A, From(s, r, K, V, A),
           NEW e \in AllExprs \ {"condAnd"}, NEW i \in Nat
    PROVE  From(s, Eval(e, r, i), K, V, A)
  <1>1. CASE e = "const"
    BY <1>1 DEF Eval
  <1>2. CASE e = "plain"
    <2>1. Eval(e, r, i) = Emit(r, "op", i)
      BY <1>2 DEF Eval
    <2> QED
      BY <2>1, FromEmitted
  <1>3. CASE e \in {"and", "or"}
    <2>1. Eval(e, r, i) = ShortLogic(e, r, i)
      BY <1>3 DEF Eval
    <2> QED
      BY <2>1, FromShortLogic
  <1>4. CASE e = "cond"
    <2>1. Eval(e, r, i) = Ternary(FALSE, r, i)
      BY <1>4 DEF Eval
    <2> QED
      BY <2>1, FromTernary
  <1> QED
    BY <1>1, <1>2, <1>3, <1>4 DEF AllExprs

(* ... keeps what the handler has made.                                    *)
LEMMA EvalGrows ==
    ASSUME NEW s, NEW r, NEW K, NEW V, NEW A, From(s, r, K, V, A),
           NEW e \in AllExprs, NEW i \in Nat
    PROVE  Len(Eval(e, r, i).g) >= Len(r.g)
  BY EvalLemma DEF From

(* The expressions of a straight program.                                  *)
LEMMA StraightNames ==
    ASSUME Straight
    PROVE  /\ Exprs \subseteq AllExprs \ {"condAnd"}
           /\ LastActs \subseteq AllExprs \ {"condAnd"}
  BY Names DEF Straight

(* A declaration, whose variable A pairs with one block.                   *)
LEMMA FromDeclare ==
    ASSUME NEW s, NEW r, NEW K, NEW V, NEW A, From(s, r, K, V, A), NEW i \in V, i \in Nat,
           NEW e \in (AllExprs \ {"condAnd"}) \cup {"none"}, NEW h \in DOMAIN r.g,
           h = AllocBlock(r.at), <<h, i>> \in A, \A b : <<b, i>> \in A => b = h
    PROVE  LET q == Declare(e, r, i)
           IN  /\ From(s, q, K, V, A) /\ Len(q.g) >= Len(r.g)
               /\ \E j \in DOMAIN q.g[h].body : q.g[h].body[j] = [op |-> "alloca", ref |-> i]
  <1> DEFINE al == [g |-> AddNode(r.g, h, "alloca", i), at |-> r.at]
             ev == Eval(e, al, i)
             q  == Emit(ev, "use", i)
             n  == [op |-> "alloca", ref |-> i]
             Has(g) == \E j \in DOMAIN g[h].body : g[h].body[j] = n
  <1>1. Declare(e, r, i) = IF e = "none" THEN al ELSE q
    BY DEF Declare
  <1>2. From(s, al, K, V, A) /\ Len(al.g) = Len(r.g) /\ Has(al.g)
    BY FromAllocate
  <1>3. Len(r.g) \in Nat /\ r.g \in Graph
    BY MadeFacts DEF From, Extends
  <1> HIDE DEF al
  <1>4. CASE e = "none"
    <2>1. Declare(e, r, i) = al
      BY <1>1, <1>4
    <2> QED
      BY <1>2, <1>3, <2>1
  <1>5. CASE e # "none"
    <2>1. e \in AllExprs \ {"condAnd"} /\ e \in AllExprs
      BY <1>5
    <2>2. From(s, ev, K, V, A) /\ Len(ev.g) >= Len(al.g)
      BY <1>2, <2>1, FromEval, EvalGrows
    <2>3. From(al, al, {}, {}, {})
      BY <1>2, FromHere DEF From
    <2>4. From(al, ev, {}, {}, {})
      BY <2>1, <2>3, FromEval
    <2> HIDE DEF ev, n
    <2>5. Has(ev.g)
      <3>1. h \in DOMAIN al.g
        BY <1>2, <1>3, MadeFacts DEF From, Extends, Position, Graph
      <3> QED
        BY <1>2, <2>4, <3>1 DEF From, Extends
    <2>6. <<ev.at, i>> \in A => Has(ev.g) /\ ev.at = h
      BY <2>5
    <2>7. From(s, q, K, V, A)
      BY <2>2, <2>6, FromEmit DEF n
    <2>8. Position(ev) /\ "use" \in NodeOps
      BY <2>2 DEF From, NodeOps
    <2>9. Len(q.g) = Len(ev.g)
      BY <2>8, EmitLemma
    <2>10. From(ev, q, {}, {i}, {})
      <3>1. From(ev, ev, {}, {i}, {})
        BY <2>8, FromHere
      <3> QED
        BY <3>1, FromEmit
    <2> HIDE DEF q
    <2>11. Has(q.g)
      <3>1. h \in DOMAIN ev.g
        <4>1. DOMAIN r.g \subseteq DOMAIN ev.g
          BY <1>2, <1>3, <2>2, MadeFacts DEF From, Extends
        <4> QED
          BY <4>1
      <3> QED
        BY <2>5, <2>10, <3>1 DEF From, Extends
    <2>12. Declare(e, r, i) = q
      BY <1>1, <1>5
    <2>13. Len(q.g) >= Len(r.g)
      BY <1>2, <2>2, <2>9
    <2> QED
      BY <2>7, <2>11, <2>12, <2>13 DEF n
  <1> QED
    BY <1>4, <1>5

(* Made blocks stay made.                                                  *)
LEMMA MadeStays ==
    ASSUME NEW s, NEW g, NEW h, Len(g) \in Nat, Len(h) \in Nat, Len(h) >= Len(g),
           Len(s.g) \in Nat
    PROVE  Made(s.g, g) \subseteq Made(s.g, h)
  BY DEF Made

(* The numbers of From.                                                    *)
LEMMA FromNats ==
    ASSUME NEW s, NEW r, NEW K, NEW V, NEW A, From(s, r, K, V, A)
    PROVE  /\ s.g \in Graph /\ r.g \in Graph /\ Len(s.g) \in Nat /\ Len(r.g) \in Nat
           /\ Len(s.g) <= Len(r.g) /\ r.g \in Graph
  BY MadeFacts DEF From, Extends, Position

(* An instruction is never lost.                                           *)
NodesStay(g, h) == \A b \in DOMAIN g : \A j \in DOMAIN g[b].body :
    j \in DOMAIN h[b].body /\ h[b].body[j] = g[b].body[j]

(* A handler keeps the instructions.                                       *)
LEMMA FromNodes ==
    ASSUME NEW s, NEW r, NEW K, NEW V, NEW A, From(s, r, K, V, A)
    PROVE  NodesStay(s.g, r.g)
  BY DEF From, Extends, NodesStay

(* Three blocks in a row.                                                  *)
LEMMA FromThree ==
    ASSUME NEW s, NEW r, NEW K, NEW V, NEW A, From(s, r, K, V, A)
    PROVE  LET q == Fresh(Fresh(Fresh(r)))
           IN  From(s, q, K, V, A) /\ Len(q.g) = Len(r.g) + 3 /\ q.at = r.at
  <1> DEFINE f1 == Fresh(r)
             f2 == Fresh(f1)
             f3 == Fresh(f2)
  <1>1. From(s, f1, K, V, A) /\ Len(f1.g) = Len(r.g) + 1 /\ f1.at = r.at
    BY FromFresh
  <1> HIDE DEF f1
  <1>2. From(s, f2, K, V, A) /\ Len(f2.g) = Len(f1.g) + 1 /\ f2.at = r.at
    BY <1>1, FromFresh
  <1> HIDE DEF f2
  <1>3. From(s, f3, K, V, A) /\ Len(f3.g) = Len(f2.g) + 1 /\ f3.at = r.at
    BY <1>2, FromFresh
  <1>4. Len(r.g) \in Nat
    BY FromNats
  <1> HIDE DEF f3
  <1>5. Len(f3.g) = Len(r.g) + 3
    BY <1>1, <1>2, <1>3, <1>4
  <1> QED
    BY <1>3, <1>5 DEF f1, f2, f3

(* The last action of a for loop, in a block of its own.                   *)
LEMMA FromAction ==
    ASSUME NEW s, NEW c, NEW K, NEW V, NEW A, From(s, c, K, V, A),
           NEW act \in AllExprs \ {"condAnd"}, NEW i \in Nat,
           NEW to \in K \cup Made(s.g, c.g), to \in Ids
    PROVE  LET last == Len(c.g) + 1
               q    == Eval(act, Select(JumpTo(Select(Fresh(c), last), to), last), i)
           IN  From(s, q, K, V, A) /\ Len(q.g) >= Len(c.g) + 1 /\ last \in Made(s.g, q.g)
  <1> DEFINE n    == Len(c.g)
             last == n + 1
             f    == Fresh(c)
             a1   == Select(f, last)
             back == JumpTo(a1, to)
             a2   == Select(back, last)
             q    == Eval(act, a2, i)
  <1>1. n \in Nat /\ Len(s.g) \in Nat /\ Len(s.g) <= n
    BY FromNats
  <1>2. From(s, f, K, V, A) /\ Len(f.g) = n + 1
    BY FromFresh
  <1> HIDE DEF f
  <1>3. \A g : Len(g) = n + 1 => last \in Made(s.g, g) /\ to \in K \cup Made(s.g, g)
    BY <1>1 DEF Made
  <1> HIDE DEF n, last
  <1>4. From(s, a1, K, V, A) /\ a1.g = f.g
    BY <1>2, <1>3, FromSelect
  <1> HIDE DEF a1
  <1>5. From(s, back, K, V, A) /\ Len(back.g) = Len(a1.g)
    <2>1. to \in K \cup Made(s.g, a1.g)
      BY <1>2, <1>3, <1>4
    <2> QED
      BY <1>4, <2>1, FromJump
  <1> HIDE DEF back
  <1>6. From(s, a2, K, V, A) /\ a2.g = back.g
    <2>1. last \in Made(s.g, back.g)
      BY <1>2, <1>3, <1>4, <1>5
    <2> QED
      BY <1>5, <2>1, FromSelect
  <1> HIDE DEF a2
  <1>7. From(s, q, K, V, A) /\ Len(q.g) >= Len(a2.g)
    BY <1>6, FromEval, EvalGrows
  <1> HIDE DEF q
  <1>8. Len(q.g) >= n + 1 /\ Len(q.g) \in Nat
    BY <1>2, <1>4, <1>5, <1>6, <1>7, FromNats
  <1>9. last \in Made(s.g, q.g)
    BY <1>1, <1>8 DEF Made, last
  <1> QED
    BY <1>7, <1>8, <1>9 DEF n, last, f, a1, back, a2, q

(* A loop: blocks of its own for the condition, the body, what follows and *)
(* its last action.                                                        *)
LoopMade(kind, init, V, A, h) ==
    \E skip, after \in Made(Ready.g, cfg') :
        /\ From(Ready, [g |-> cfg', at |-> sel'], {}, V, A)
        /\ sel' \in Made(Ready.g, cfg') /\ skip \in Ids /\ after \in Ids
        /\ controls' = Append(controls, LoopControl(skip, after, Ready.at))
        /\ frames' = Append(frames,
              MkFrame(IF kind = "for" THEN "for" ELSE "loop", NoBlock, after, NoBlock))
        /\ init[1] = "decl" => \E j \in DOMAIN cfg'[h].body :
                                   cfg'[h].body[j] = [op |-> "alloca", ref |-> Here]

LEMMA FromLoop ==
    ASSUME Straight, Position(Ready), Here \in Nat, NEW kind \in {"while", "do", "for"},
           NEW init \in ForInits, NEW e \in Exprs, NEW act \in LastActs \cup {"none"},
           NEW V, NEW A, NEW h \in DOMAIN Ready.g, h = AllocBlock(Ready.at),
           init[1] = "decl" => /\ Here \in V /\ <<h, Here>> \in A
                               /\ \A b : <<b, Here>> \in A => b = h,
           InsertLoopStatement(kind, init, e, act)
    PROVE  LoopMade(kind, init, V, A, h)
  <1> DEFINE isFor  == kind = "for"
             s      == Ready
             n      == Len(s.g)
             condB  == NewId(s.g)
             body   == condB + 1
             after  == condB + 2
             blocks == Fresh(Fresh(Fresh(s)))
             pre    == CASE init[1] = "expr" -> Eval(init[2], blocks, Here)
                         [] init[1] = "decl" -> Declare(init[2], blocks, Here)
                         [] OTHER            -> blocks
             to     == IF kind = "do" THEN body ELSE condB
             enter  == JumpTo(pre, to)
             at     == IF isFor THEN Here + 1 ELSE Here
             start  == Select(enter, condB)
             test   == Eval(e, start, at)
             cond   == BranchTo(test, body, after)
             last   == NewId(cond.g)
             step   == Eval(act, Select(JumpTo(Select(Fresh(cond), last), condB), last), at + 1)
             hasAct == act # "none"
             fin    == IF hasAct THEN step ELSE cond
             r      == Select(fin, body)
             skip   == IF hasAct THEN last ELSE condB
             Has(g) == \E j \in DOMAIN g[h].body : g[h].body[j] = [op |-> "alloca", ref |-> Here]
  <1>1. /\ At(r) /\ controls' = Append(controls, LoopControl(skip, after, s.at))
        /\ frames' = Append(frames, MkFrame(IF isFor THEN "for" ELSE "loop",
                                            NoBlock, after, NoBlock))
    BY DEF InsertLoopStatement
  <1>2. n \in Nat /\ condB = n + 1 /\ body = n + 2 /\ after = n + 3
    BY PositionFacts DEF NewId
  <1>3. From(s, blocks, {}, V, A) /\ Len(blocks.g) = n + 3 /\ blocks.at = s.at
    BY FromHere, FromThree
  <1> HIDE DEF blocks
  <1>4. \A g : Len(g) \in Nat /\ Len(g) >= n + 3 =>
          /\ condB \in Made(s.g, g) /\ body \in Made(s.g, g) /\ after \in Made(s.g, g)
    BY <1>2 DEF Made
  <1>5. condB \in Ids /\ body \in Ids /\ after \in Ids /\ to \in {condB, body}
    BY <1>2 DEF Ids
  <1> HIDE DEF n, condB, body, after, to
  <1>6. /\ From(s, pre, {}, V, A) /\ Len(pre.g) >= n + 3
        /\ init[1] = "decl" => Has(pre.g)
    <2>1. CASE init[1] = "expr"
      <3>1. init[2] \in AllExprs \ {"condAnd"} /\ init[2] \in AllExprs /\ init[1] # "decl"
        BY <2>1, StraightNames, ForInitsLemma
      <3>2. pre = Eval(init[2], blocks, Here)
        BY <2>1
      <3> HIDE DEF pre
      <3>3. Len(pre.g) >= Len(blocks.g) /\ From(s, pre, {}, V, A)
        BY <1>3, <3>1, <3>2, FromEval, EvalGrows
      <3> QED
        BY <1>3, <3>1, <3>3
    <2>2. CASE init[1] = "decl"
      <3>1. init[2] \in (AllExprs \ {"condAnd"}) \cup {"none"}
        BY <2>2, StraightNames, ForInitsLemma
      <3>2. pre = Declare(init[2], blocks, Here)
        BY <2>2
      <3>3. h = AllocBlock(blocks.at)
        BY <1>3
      <3>4. h \in DOMAIN blocks.g
        BY <1>3, FromNats, MadeFacts DEF From, Extends
      <3> HIDE DEF pre
      <3>5. From(s, pre, {}, V, A) /\ Len(pre.g) >= Len(blocks.g) /\ Has(pre.g)
        BY <1>3, <2>2, <3>1, <3>2, <3>3, <3>4, FromDeclare
      <3> QED
        BY <1>3, <3>5
    <2>3. CASE init[1] \notin {"expr", "decl"}
      <3>1. pre = blocks
        BY <2>3
      <3> HIDE DEF pre
      <3>2. n \in Nat
        BY <1>2
      <3> QED
        BY <1>3, <2>3, <3>1, <3>2
    <2> QED
      BY <2>1, <2>2, <2>3
  <1> HIDE DEF pre
  <1>7. \A q : From(s, q, {}, V, A) /\ Len(q.g) >= n + 3 =>
          /\ condB \in Made(s.g, q.g) /\ body \in Made(s.g, q.g) /\ after \in Made(s.g, q.g)
    BY <1>4, FromNats
  <1>8. From(s, enter, {}, V, A) /\ Len(enter.g) = Len(pre.g)
    BY <1>5, <1>6, <1>7, FromJump
  <1> HIDE DEF enter
  <1>9. From(s, start, {}, V, A) /\ start.g = enter.g
    BY <1>6, <1>7, <1>8, FromSelect
  <1> HIDE DEF start
  <1>10. e \in AllExprs \ {"condAnd"} /\ e \in AllExprs /\ at \in Nat /\ at + 1 \in Nat
    BY StraightNames
  <1> HIDE DEF at
  <1>11. From(s, test, {}, V, A) /\ Len(test.g) >= n + 3
    <2>1. From(s, test, {}, V, A) /\ Len(test.g) >= Len(start.g)
      BY <1>9, <1>10, FromEval, EvalGrows
    <2>2. Len(test.g) \in Nat /\ Len(pre.g) \in Nat /\ n \in Nat
      BY <1>2, <1>6, <2>1, FromNats
    <2> QED
      BY <1>6, <1>8, <1>9, <2>1, <2>2
  <1> HIDE DEF test
  <1>12. From(s, cond, {}, V, A) /\ Len(cond.g) = Len(test.g)
    BY <1>5, <1>7, <1>11, FromBranch
  <1> HIDE DEF cond
  <1>13. From(s, fin, {}, V, A) /\ Len(fin.g) >= n + 3 /\ skip \in Made(s.g, fin.g)
    <2>1. CASE hasAct
      <3>1. act \in AllExprs \ {"condAnd"} /\ condB \in Made(s.g, cond.g)
        BY <1>7, <1>11, <1>12, <2>1, StraightNames
      <3>2. last = Len(cond.g) + 1
        BY DEF NewId
      <3> HIDE DEF last
      <3>3. /\ From(s, step, {}, V, A) /\ Len(step.g) >= Len(cond.g) + 1
            /\ last \in Made(s.g, step.g)
        BY <1>5, <1>10, <1>12, <3>1, <3>2, FromAction
      <3> HIDE DEF step
      <3>4. Len(step.g) \in Nat /\ Len(cond.g) \in Nat /\ n \in Nat
        BY <1>2, <1>12, <3>3, FromNats
      <3> QED
        BY <1>11, <1>12, <2>1, <3>3, <3>4
    <2>2. CASE ~hasAct
      BY <1>7, <1>11, <1>12, <2>2
    <2> QED
      BY <2>1, <2>2
  <1> HIDE DEF fin
  <1>14. From(s, r, {}, V, A) /\ r.at = body /\ r.g = fin.g
    BY <1>7, <1>13, FromSelect
  <1> HIDE DEF r
  <1>15. cfg' = r.g /\ sel' = r.at /\ [g |-> cfg', at |-> sel'] = [g |-> r.g, at |-> r.at]
    BY <1>1 DEF At
  <1>16. From(s, [g |-> cfg', at |-> sel'], {}, V, A)
    BY <1>14, <1>15 DEF From, Position
  <1>17. init[1] = "decl" => Has(cfg')
    <2> SUFFICES ASSUME init[1] = "decl" PROVE Has(cfg')
      OBVIOUS
    <2> DEFINE al == [op |-> "alloca", ref |-> Here]
    <2> HIDE DEF al
    <2>1. \A g : Has(g) <=> \E j \in DOMAIN g[h].body : g[h].body[j] = al
      BY DEF al
    <2>2. \A q : From(s, q, {}, V, A) => Position(q) /\ h \in DOMAIN q.g
      <3> TAKE q
      <3> HAVE From(s, q, {}, V, A)
      <3>1. Position(q) /\ s.g \in Graph /\ q.g \in Graph /\ Len(s.g) <= Len(q.g)
        BY FromNats DEF From
      <3> QED
        BY <3>1, MadeFacts
    <2>3. Has(pre.g) /\ h \in DOMAIN pre.g /\ From(pre, pre, {to}, {}, {})
      BY <1>6, <2>2, FromHere
    <2>4. From(pre, enter, {to}, {}, {})
      BY <1>5, <2>3, FromJump DEF enter
    <2>5. NodesStay(pre.g, enter.g)
      BY <2>4, FromNodes
    <2> HIDE DEF Has
    <2>6. h \in DOMAIN start.g /\ From(start, start, {}, {}, {}) /\ Has(start.g)
      BY <1>9, <2>1, <2>2, <2>3, <2>5, FromHere DEF NodesStay
    <2>7. From(start, test, {}, {}, {})
      BY <1>10, <2>6, FromEval DEF test
    <2>8. NodesStay(start.g, test.g)
      BY <2>7, FromNodes
    <2>9. h \in DOMAIN test.g /\ Has(test.g) /\ From(test, test, {body, after}, {}, {})
      BY <1>11, <2>1, <2>2, <2>6, <2>8, FromHere DEF NodesStay
    <2>10. From(test, cond, {body, after}, {}, {})
      BY <1>5, <2>9, FromBranch DEF cond
    <2>11. NodesStay(test.g, cond.g)
      BY <2>10, FromNodes
    <2>12. h \in DOMAIN cond.g /\ Has(cond.g) /\ From(cond, cond, {condB}, {}, {})
      BY <1>12, <2>1, <2>2, <2>9, <2>11, FromHere DEF NodesStay
    <2>13. hasAct => Has(step.g)
      <3> SUFFICES ASSUME hasAct PROVE Has(step.g)
        OBVIOUS
      <3>1. act \in AllExprs \ {"condAnd"}
        BY StraightNames
      <3>2. last = Len(cond.g) + 1
        BY DEF NewId
      <3> HIDE DEF last
      <3>3. From(cond, step, {condB}, {}, {})
        BY <1>5, <1>10, <2>12, <3>1, <3>2, FromAction
      <3> HIDE DEF step
      <3>4. NodesStay(cond.g, step.g)
        BY <3>3, FromNodes
      <3> QED
        BY <2>1, <2>12, <3>4 DEF NodesStay
    <2>14. Has(fin.g)
      BY <2>12, <2>13 DEF fin
    <2> QED
      BY <1>14, <1>15, <2>14
  <1>18. body \in Made(s.g, cfg') /\ after \in Made(s.g, cfg') /\ skip \in Made(s.g, cfg')
         /\ skip \in Ids
    <2>1. skip \in Nat
      BY <1>13 DEF Made
    <2> QED
      BY <1>7, <1>13, <1>14, <1>15, <2>1 DEF Ids
  <1> QED
    BY <1>1, <1>5, <1>14, <1>15, <1>16, <1>17, <1>18 DEF LoopMade

-----------------------------------------------------------------------------
(***************************************************************************)
(* Programs of structured statements: without goto and switch.  No handler *)
(* of a switch is ever active, so every entry of activeControls is a loop. *)
(***************************************************************************)
Structured == Straight /\ {"goto", "switch"} \cap Kinds = {}

NoSwitches ==
    /\ mode # "dispatch" /\ dangling = <<>>
    /\ \A k \in DOMAIN frames : frames[k].kind \notin {"switch", "dispatch"}
    /\ \A k \in DOMAIN controls : IsLoop(controls[k])

(* No handler of a structured program makes it a program of another kind.  *)
LEMMA FramesPushed ==
    ASSUME TypeInv, NoSwitches, NEW f \in Frame, f.kind \notin {"switch", "dispatch"}
    PROVE  \A k \in DOMAIN Append(frames, f) :
              Append(frames, f)[k].kind \notin {"switch", "dispatch"}
  BY StackFacts, PushLemma DEF NoSwitches

(* A frame is popped.                                                      *)
LEMMA FramesPopped ==
    ASSUME TypeInv, NoSwitches, frames # <<>>
    PROVE  /\ Front(frames) \in Seq(Frame) /\ DOMAIN Front(frames) \subseteq DOMAIN frames
           /\ \A k \in DOMAIN Front(frames) : Front(frames)[k] = frames[k]
           /\ \A k \in DOMAIN Front(frames) :
                 Front(frames)[k].kind \notin {"switch", "dispatch"}
  <1>1. frames \in Seq(Frame)
    BY StackFacts
  <1>2. /\ Front(frames) \in Seq(Frame) /\ DOMAIN frames = 1..Len(frames)
        /\ Len(frames) \in Nat \ {0} /\ Len(Front(frames)) = Len(frames) - 1
        /\ \A k \in 1..(Len(frames) - 1) : Front(frames)[k] = frames[k]
    BY <1>1, StackLemma
  <1>3. DOMAIN Front(frames) = 1..(Len(frames) - 1)
    BY <1>2, LenProperties
  <1> QED
    BY <1>2, <1>3 DEF NoSwitches

(* The same of the entries of activeControls.                              *)
LEMMA ControlsPopped ==
    ASSUME TypeInv, controls # <<>>
    PROVE  /\ Front(controls) \in Seq(Control)
           /\ DOMAIN Front(controls) \subseteq DOMAIN controls
           /\ \A k \in DOMAIN Front(controls) : Front(controls)[k] = controls[k]
           /\ Last(controls) = controls[Len(controls)] /\ Len(controls) \in DOMAIN controls
  <1>1. controls \in Seq(Control)
    BY StackFacts
  <1>2. /\ Front(controls) \in Seq(Control) /\ DOMAIN controls = 1..Len(controls)
        /\ Len(controls) \in Nat \ {0} /\ Len(Front(controls)) = Len(controls) - 1
        /\ \A k \in 1..(Len(controls) - 1) : Front(controls)[k] = controls[k]
        /\ Last(controls) = controls[Len(controls)]
    BY <1>1, StackLemma
  <1>3. DOMAIN Front(controls) = 1..(Len(controls) - 1)
    BY <1>2, LenProperties
  <1> QED
    BY <1>2, <1>3

(* The entry of a loop.                                                    *)
LEMMA LoopControlLemma ==
    ASSUME NEW skip \in Ids, NEW exit \in Ids, NEW before \in Ids
    PROVE  LET c == LoopControl(skip, exit, before)
           IN  /\ c \in Control /\ IsLoop(c) /\ c.skip = skip /\ c.exit = exit
               /\ c.before = before
  BY DEF LoopControl, Control, Ids, NoBlock, IsLoop

(* A sequence with one more element of any kind.                           *)
LEMMA AppendAnything ==
    ASSUME NEW S, NEW q \in Seq(S), NEW x
    PROVE  /\ Len(q) \in Nat /\ DOMAIN q = 1..Len(q)
           /\ DOMAIN Append(q, x) = 1..(Len(q) + 1)
           /\ \A k \in 1..Len(q) : Append(q, x)[k] = q[k]
           /\ Append(q, x)[Len(q) + 1] = x
  <1> DEFINE T == S \cup {x}
  <1>1. q \in Seq(T)
    <2>1. Len(q) \in Nat /\ q \in [1..Len(q) -> S]
      BY LenProperties
    <2>2. q \in [1..Len(q) -> T]
      BY <2>1
    <2> QED
      BY <2>1, <2>2, IsASeq
  <1> HIDE DEF T
  <1>2. x \in T
    BY DEF T
  <1> QED
    BY <1>1, <1>2, PushLemma

(* What the handlers may do with the two stacks.                           *)
LEMMA NoSwitchesKept ==
    ASSUME TypeInv, NoSwitches, mode' # "dispatch", dangling' = dangling,
           \/ frames' = frames
           \/ frames # <<>> /\ frames' = Front(frames)
           \/ \E f : f.kind \notin {"switch", "dispatch"} /\ frames' = Append(frames, f)
           \/ \E f : /\ frames # <<>> /\ f.kind \notin {"switch", "dispatch"}
                     /\ frames' = Append(Front(frames), f),
           \/ controls' = controls
           \/ controls # <<>> /\ controls' = Front(controls)
           \/ \E c : IsLoop(c) /\ controls' = Append(controls, c)
    PROVE  NoSwitches'
  <1>1. frames \in Seq(Frame) /\ controls \in Seq(Control)
    BY StackFacts
  <1>2. \A k \in DOMAIN frames' : frames'[k].kind \notin {"switch", "dispatch"}
    <2>1. CASE frames' = frames
      BY <2>1 DEF NoSwitches
    <2>2. CASE frames # <<>> /\ frames' = Front(frames)
      BY <2>2, FramesPopped
    <2>3. ASSUME NEW f, f.kind \notin {"switch", "dispatch"}, frames' = Append(frames, f)
          PROVE  \A k \in DOMAIN frames' : frames'[k].kind \notin {"switch", "dispatch"}
      BY <1>1, <2>3, AppendAnything DEF NoSwitches
    <2>4. ASSUME NEW f, frames # <<>>, f.kind \notin {"switch", "dispatch"},
                 frames' = Append(Front(frames), f)
          PROVE  \A k \in DOMAIN frames' : frames'[k].kind \notin {"switch", "dispatch"}
      <3> DEFINE q == Front(frames)
      <3>1. q \in Seq(Frame) /\ \A k \in DOMAIN q : q[k].kind \notin {"switch", "dispatch"}
        BY <2>4, FramesPopped
      <3> HIDE DEF q
      <3>2. /\ Len(q) \in Nat /\ DOMAIN q = 1..Len(q)
            /\ DOMAIN Append(q, f) = 1..(Len(q) + 1)
            /\ \A k \in 1..Len(q) : Append(q, f)[k] = q[k]
            /\ Append(q, f)[Len(q) + 1] = f
        BY <3>1, AppendAnything
      <3>3. \A k \in DOMAIN Append(q, f) : Append(q, f)[k].kind \notin {"switch", "dispatch"}
        BY <2>4, <3>1, <3>2
      <3> QED
        BY <2>4, <3>3 DEF q
    <2> QED
      BY <2>1, <2>2, <2>3, <2>4
  <1>3. \A k \in DOMAIN controls' : IsLoop(controls'[k])
    <2>1. CASE controls' = controls
      BY <2>1 DEF NoSwitches
    <2>2. CASE controls # <<>> /\ controls' = Front(controls)
      BY <2>2, ControlsPopped DEF NoSwitches
    <2>3. ASSUME NEW c, IsLoop(c), controls' = Append(controls, c)
          PROVE  \A k \in DOMAIN controls' : IsLoop(controls'[k])
      BY <1>1, <2>3, AppendAnything DEF NoSwitches
    <2> QED
      BY <2>1, <2>2, <2>3
  <1> QED
    BY <1>2, <1>3 DEF NoSwitches

(* No handler of a structured program enters a switch.                     *)
LEMMA NoSwitchesStep ==
    ASSUME Structured, TypeInv, NoSwitches, [Next]_vars
    PROVE  NoSwitches'
  <1>1. CASE UNCHANGED vars
    BY <1>1 DEF vars, NoSwitches
  <1>2. CASE UNCHANGED <<frames, controls, dangling>> /\ mode' # "dispatch"
    BY <1>2 DEF NoSwitches
  <1>3. CASE SemanticError
    BY <1>3, <1>2 DEF SemanticError
  <1>4. ASSUME NEW void \in BOOLEAN, NEW params \in BOOLEAN, CreateFunction(void, params)
        PROVE  NoSwitches'
    BY <1>4, <1>2 DEF CreateFunction
  <1>5. ASSUME NEW e \in Exprs, ExprStmt(e) \/ Return(e) \/ InsertSwitchStatement(e)
        PROVE  NoSwitches'
    <2>1. ~InsertSwitchStatement(e)
      BY DEF InsertSwitchStatement, Nests, Opens, Structured
    <2> QED
      BY <1>5, <1>2, <2>1 DEF ExprStmt, Return, Opens
  <1>6. ASSUME NEW e \in Exprs \cup {"none"}, InsertDeclaration(e) PROVE NoSwitches'
    BY <1>6, <1>2 DEF InsertDeclaration, Opens
  <1>7. ASSUME NEW v, UseVariable(v) PROVE NoSwitches'
    BY <1>7, <1>2 DEF UseVariable, Opens
  <1>8. ASSUME NEW e \in Exprs, NEW hasElse \in BOOLEAN, InsertIfStatement(e, hasElse)
        PROVE  NoSwitches'
    <2>1. \E f : f.kind \notin {"switch", "dispatch"} /\ frames' = Append(frames, f)
      <3> DEFINE cond  == Eval(e, Ready, Here)
                 other == NewId(cond.g) + 1
                 f1 == MkFrame("then", other, NoBlock, NoBlock)
                 f2 == MkFrame("then", NoBlock, other, NoBlock)
      <3>1. frames' = Append(frames, IF hasElse THEN f1 ELSE f2)
        BY <1>8 DEF InsertIfStatement
      <3>2. f1.kind = "then" /\ f2.kind = "then"
        BY DEF MkFrame
      <3> HIDE DEF f1, f2
      <3> QED
        BY <3>1, <3>2
    <2>2. mode' # "dispatch" /\ UNCHANGED <<controls, dangling>>
      BY <1>8 DEF InsertIfStatement, Nests, Opens
    <2> QED
      BY <2>1, <2>2, NoSwitchesKept
  <1>9. ASSUME NEW kind, NEW init, NEW e, NEW act, InsertLoopStatement(kind, init, e, act)
        PROVE  NoSwitches'
    <2>1. \E after : frames' = Append(frames,
                MkFrame(IF kind = "for" THEN "for" ELSE "loop", NoBlock, after, NoBlock))
      BY <1>9 DEF InsertLoopStatement
    <2>2. \E f : f.kind \notin {"switch", "dispatch"} /\ frames' = Append(frames, f)
      BY <2>1 DEF MkFrame
    <2>3. \E skip, exit, before :
             controls' = Append(controls, LoopControl(skip, exit, before))
      BY <1>9 DEF InsertLoopStatement
    <2>4. \E c : IsLoop(c) /\ controls' = Append(controls, c)
      BY <2>3 DEF LoopControl, IsLoop
    <2>5. mode' # "dispatch" /\ dangling' = dangling
      BY <1>9 DEF InsertLoopStatement, Nests, Opens
    <2> QED
      BY <2>2, <2>4, <2>5, NoSwitchesKept
  <1>10. ASSUME NEW l \in Labels, Goto(l) \/ InsertLabel(l) PROVE NoSwitches'
    <2>1. ~Goto(l)
      BY DEF Goto, Opens, Structured
    <2> QED
      BY <1>10, <1>2, <1>3, <2>1 DEF InsertLabel, Opens
  <1>11. Switches = {}
    BY DEF Switches, LoopsOf, NoSwitches
  <1>12. ASSUME NEW v \in Vals, InsertCase(v) PROVE NoSwitches'
    BY <1>12, <1>3, <1>11 DEF InsertCase
  <1>13. CASE ReturnNothing \/ Break \/ Continue \/ InsertDefault \/ BadSwitch
    BY <1>13, <1>2, <1>3, <1>11 DEF ReturnNothing, Break, Continue, InsertDefault, BadSwitch, Opens
  <1>14. CASE InsertCompoundStatement
    <2>1. \E f : f.kind \notin {"switch", "dispatch"} /\ frames' = Append(frames, f)
      <3> DEFINE f == MkFrame("compound", NoBlock, NoBlock, NoBlock)
      <3>1. f.kind = "compound" /\ frames' = Append(frames, f)
        BY <1>14 DEF InsertCompoundStatement, MkFrame
      <3> HIDE DEF f
      <3> QED
        BY <3>1
    <2>2. mode' # "dispatch" /\ UNCHANGED <<controls, dangling>>
      BY <1>14 DEF InsertCompoundStatement, Nests, Opens
    <2> QED
      BY <2>1, <2>2, NoSwitchesKept
  <1>15. CASE EndCompound \/ EndIf
    BY <1>15, NoSwitchesKept DEF EndCompound, EndIf, InFrame
  <1>16. CASE EndThen
    <2>1. /\ mode' # "dispatch" /\ UNCHANGED <<controls, dangling>> /\ frames # <<>>
          /\ \E f : f.kind \notin {"switch", "dispatch"} /\ frames' = Append(Front(frames), f)
      BY <1>16 DEF EndThen, InFrame, MkFrame
    <2> QED
      BY <2>1, NoSwitchesKept
  <1>17. CASE EndLoop
    <2>1. /\ frames # <<>> /\ Top.kind \in Breakable /\ Nested(frames, controls)
          /\ mode' # "dispatch" /\ dangling' = dangling
          /\ frames' = Front(frames) /\ controls' = Front(controls)
      BY <1>17 DEF EndLoop, InFrame, Breakable, TypeInv
    <2>2. controls # <<>>
      BY <2>1, StackFacts, NestedPop DEF Top
    <2> QED
      BY <2>1, <2>2, NoSwitchesKept
  <1>18. ~EndSwitch /\ ~DispatchCase /\ ~DispatchDone /\ ~ResolveGoto
    <2>1. frames # <<>> => Top.kind \notin {"switch", "dispatch"}
      BY StackFacts, StackLemma DEF Top, NoSwitches
    <2> QED
      BY <2>1 DEF EndSwitch, InFrame, DispatchCase, DispatchDone, ResolveGoto, NoSwitches
  <1>19. CASE EndBody \/ FinishFunction
    BY <1>19, <1>2, <1>3 DEF EndBody, FinishFunction
  <1> QED
    BY <1>1, <1>4, <1>5, <1>6, <1>7, <1>8, <1>9, <1>10, <1>12, <1>13, <1>14, <1>15, <1>16,
       <1>17, <1>18, <1>19 DEF Next

-----------------------------------------------------------------------------
(***************************************************************************)
(* Where the allocations are.  From a block h that has or may get one the  *)
(* walk only goes ahead: there is a set S of blocks without h that no arc  *)
(* leaves and that has the successors of h, the blocks the handlers hold   *)
(* and those a break or a continue may jump to.  So h is in no cycle.      *)
(***************************************************************************)
Blocks(cs) == UNION {{cs[k].skip, cs[k].exit} : k \in DOMAIN cs}
Firsts(cs) == IF cs = <<>> THEN {} ELSE {cs[1].before}
Known      == HeldIn(frames) \cup Blocks(controls)

Allocs(g) == {b \in DOMAIN g : \E k \in DOMAIN g[b].body : g[b].body[k].op = "alloca"}

Ahead(g, h, S) == S \subseteq DOMAIN g /\ h \notin S /\ \A b \in S \cup {h} : Arcs(g, b) \subseteq S

Past(g, at, K, h) ==
    h \in DOMAIN g /\ \E S : Ahead(g, h, S) /\ K \subseteq S /\ at \in S \cup {h, NoBlock}

DeclInv ==
    /\ mode = "body" => \A h \in Allocs(cfg) \cup Firsts(controls) : Past(cfg, sel, Known, h)
    /\ mode \in {"resolve", "idle"} => \A h \in Allocs(cfg) : \E S : Ahead(cfg, h, S)

(* A handler that jumps only to the blocks it knows keeps them ahead.      *)
LEMMA PastCarry ==
    ASSUME NEW s, NEW g, NEW K, NEW V, NEW A, Extends(s, g, K, V, A), NEW L, K \subseteq L,
           NEW h, Past(s.g, s.at, L, h), NEW M, M \subseteq L \cup Made(s.g, g),
           NEW at \in {NoBlock, s.at} \cup L \cup Made(s.g, g)
    PROVE  Past(g, at, M, h)
  <1>1. PICK S : Ahead(s.g, h, S) /\ L \subseteq S /\ s.at \in S \cup {h, NoBlock}
    BY DEF Past
  <1> DEFINE new == Made(s.g, g)
             T   == S \cup new
  <1>2. /\ s.g \in Graph /\ g \in Graph /\ DOMAIN g = DOMAIN s.g \cup new
        /\ DOMAIN s.g \cap new = {} /\ s.at \in DOMAIN s.g
    BY MadeFacts DEF Extends, Position
  <1>3. s.at # NoBlock
    BY <1>2, PositionFacts DEF Extends, NoBlock
  <1> HIDE DEF new
  <1>4. h \in DOMAIN s.g /\ h \notin T /\ T \subseteq DOMAIN g
    BY <1>1, <1>2 DEF Past, Ahead
  <1>5. \A b \in T \cup {h} : Arcs(g, b) \subseteq T
    <2> TAKE b \in T \cup {h}
    <2>1. Arcs(g, b) \subseteq Arcs(s.g, b) \cup K \cup new
      BY <1>2, <1>4 DEF Extends, new
    <2>2. Arcs(s.g, b) \subseteq S
      <3>1. CASE b \in S \cup {h}
        BY <1>1, <3>1 DEF Ahead
      <3>2. CASE b \in new
        BY <1>2, <3>2 DEF Arcs
      <3> QED
        BY <3>1, <3>2
    <2> QED
      BY <1>1, <2>1, <2>2
  <1>6. M \subseteq T /\ at \in T \cup {h, NoBlock}
    BY <1>1, <1>3 DEF new
  <1> QED
    BY <1>2, <1>4, <1>5, <1>6 DEF Past, Ahead

(* A handler that knows more blocks.                                       *)
LEMMA ExtendsMore ==
    ASSUME NEW s, NEW g, NEW K, NEW V, NEW A, Extends(s, g, K, V, A), NEW L, K \subseteq L
    PROVE  Extends(s, g, L, V, A)
  BY DEF Extends

(* The allocations a handler adds.                                         *)
LEMMA AllocsCarry ==
    ASSUME NEW s, NEW g, NEW K, NEW V, NEW A, Extends(s, g, K, V, A), NEW a,
           \A b, i : <<b, i>> \in A => b = a
    PROVE  Allocs(g) \subseteq Allocs(s.g) \cup {a}
  <1> SUFFICES ASSUME NEW b \in Allocs(g), b # a PROVE b \in Allocs(s.g)
    OBVIOUS
  <1>1. PICK k \in DOMAIN g[b].body : g[b].body[k].op = "alloca"
    BY DEF Allocs
  <1>2. b \in DOMAIN g
    BY DEF Allocs
  <1>3. ~Placed(g, b, k, {s.at} \cup Made(s.g, g), V, A)
    BY <1>1 DEF Placed
  <1>4. b \in DOMAIN s.g /\ k \in DOMAIN s.g[b].body
    BY <1>2, <1>3 DEF Extends
  <1>5. g[b].body[k] = s.g[b].body[k]
    BY <1>4 DEF Extends
  <1> QED
    BY <1>1, <1>4, <1>5 DEF Allocs

(* The blocks the active loops know.                                       *)
LEMMA BlocksMember ==
    ASSUME NEW cs
    PROVE  \A b : b \in Blocks(cs) <=> \E k \in DOMAIN cs : b = cs[k].skip \/ b = cs[k].exit
  <1> DEFINE S == {{cs[k].skip, cs[k].exit} : k \in DOMAIN cs}
  <1>1. \A x : x \in S <=> \E k \in DOMAIN cs : x = {cs[k].skip, cs[k].exit}
    OBVIOUS
  <1>2. Blocks(cs) = UNION S
    BY DEF Blocks
  <1> HIDE DEF S
  <1>3. \A b : b \in UNION S <=> \E x \in S : b \in x
    OBVIOUS
  <1> TAKE b
  <1>4. ASSUME b \in Blocks(cs) PROVE \E k \in DOMAIN cs : b = cs[k].skip \/ b = cs[k].exit
    <2>1. PICK x \in S : b \in x
      BY <1>2, <1>3, <1>4
    <2> QED
      BY <1>1, <2>1
  <1>5. ASSUME NEW k \in DOMAIN cs, b = cs[k].skip \/ b = cs[k].exit PROVE b \in Blocks(cs)
    <2> DEFINE x == {cs[k].skip, cs[k].exit}
    <2>1. x \in S /\ b \in x
      BY <1>1, <1>5
    <2> QED
      BY <1>2, <1>3, <2>1
  <1> QED
    BY <1>4, <1>5

(* An allocation goes where the declaration is, or before the outermost    *)
(* loop.                                                                   *)
LEMMA AllocBlockIs ==
    ASSUME TypeInv, NoSwitches, NEW b
    PROVE  /\ controls = <<>> => AllocBlock(b) = b
           /\ controls # <<>> => AllocBlock(b) = controls[1].before
           /\ Firsts(controls) \subseteq {AllocBlock(b)}
  <1>1. controls \in Seq(Control) /\ DOMAIN controls = 1..Len(controls) /\ Len(controls) \in Nat
    BY StackFacts
  <1>2. LoopsOf = DOMAIN controls
    BY DEF LoopsOf, NoSwitches
  <1>3. CASE controls = <<>>
    <2>1. LoopsOf = {}
      BY <1>1, <1>2, <1>3
    <2> QED
      BY <1>3, <2>1 DEF AllocBlock, Firsts
  <1>4. CASE controls # <<>>
    <2> DEFINE first == CHOOSE k \in LoopsOf : \A j \in LoopsOf : k <= j
    <2>1. 1 \in LoopsOf /\ \A j \in LoopsOf : 1 <= j
      BY <1>1, <1>2, <1>4
    <2>2. first \in LoopsOf /\ \A j \in LoopsOf : first <= j
      BY <2>1
    <2>3. AllocBlock(b) = controls[first].before
      BY <2>1 DEF AllocBlock
    <2> HIDE DEF first
    <2>4. first \in Nat /\ first <= 1 /\ 1 <= first
      BY <1>1, <1>2, <2>1, <2>2
    <2>5. first = 1
      BY <2>4
    <2> QED
      BY <1>4, <2>3, <2>5 DEF Firsts
  <1> QED
    BY <1>3, <1>4

(* An open block has no successor.                                         *)
LEMMA OpenArcs ==
    ASSUME NEW g, NEW b, b \in DOMAIN g => IsOpen(g[b])
    PROVE  Arcs(g, b) = {}
  BY DEF Arcs, IsOpen, ToSet

(* fillBlock: what is ahead of the selected block, or of the new one.      *)
LEMMA ReadyPast ==
    ASSUME TypeInv, BlockInv, NoSwitches, DeclInv, mode = "body"
    PROVE  /\ \A h \in Allocs(Ready.g) \cup {AllocBlock(Ready.at)} :
                 Past(Ready.g, Ready.at, Known, h)
           /\ Position(Ready) /\ cfg \in Graph
  <1>1. SoundNow(Ready, HeldIn(frames)) /\ Ready.at # NoBlock /\ cfg \in Graph
    BY ReadySound, Setting
  <1>2. /\ Position(Ready) /\ IsOpen(Ready.g[Ready.at]) /\ Ready.at \notin HeldIn(frames)
        /\ HeldIn(frames) \subseteq DOMAIN Ready.g
    BY <1>1, SoundFacts DEF SoundNow
  <1>3. \A b \in HeldIn(frames) : IsOpen(Ready.g[b])
    BY <1>1 DEF SoundNow, Sound, Accounted
  <1>4. \A h \in Allocs(cfg) \cup Firsts(controls) : Past(Ready.g, Ready.at, Known, h)
    <2> TAKE h \in Allocs(cfg) \cup Firsts(controls)
    <2>1. Past(cfg, sel, Known, h)
      BY DEF DeclInv
    <2>2. CASE sel # NoBlock
      BY <2>1, <2>2 DEF Ready
    <2>3. CASE sel = NoBlock
      <3>1. PICK S : Ahead(cfg, h, S) /\ Known \subseteq S
        BY <2>1 DEF Past
      <3> DEFINE n == Len(cfg) + 1
                 g == CreateBlock(cfg)
                 T == S \cup {n}
      <3>2. Ready.g = g /\ Ready.at = n
        BY <2>3 DEF Ready, NewId
      <3>3. g \in Graph /\ Len(g) = n /\ g[n] = NewBlock /\ \A c \in DOMAIN cfg : g[c] = cfg[c]
        BY <1>1, CreateBlockLemma
      <3> HIDE DEF g
      <3>4. DOMAIN g = DOMAIN cfg \cup {n} /\ n \notin DOMAIN cfg
        <4>1. DOMAIN g = 1..n /\ DOMAIN cfg = 1..Len(cfg) /\ Len(cfg) \in Nat
          BY <1>1, <3>3, LenProperties DEF Graph
        <4> QED
          BY <4>1
      <3> HIDE DEF n
      <3>5. h \in DOMAIN cfg /\ h \notin S /\ S \subseteq DOMAIN cfg
        BY <2>1, <3>1 DEF Past, Ahead
      <3>6. \A b \in T \cup {h} : Arcs(g, b) \subseteq T
        <4> TAKE b \in T \cup {h}
        <4>1. CASE b = n
          BY <1>2, <3>2, <4>1, OpenArcs
        <4>2. CASE b # n
          <5>1. b \in DOMAIN cfg /\ g[b] = cfg[b] /\ b \in S \cup {h} /\ b \in DOMAIN g
            BY <3>3, <3>4, <3>5, <4>2
          <5>2. Arcs(g, b) = Arcs(cfg, b)
            BY <5>1 DEF Arcs
          <5> QED
            BY <3>1, <5>1, <5>2 DEF Ahead
        <4> QED
          BY <4>1, <4>2
      <3>7. Ahead(g, h, T) /\ h \in DOMAIN g /\ Known \subseteq T /\ n \in T
        BY <3>1, <3>4, <3>5, <3>6 DEF Ahead
      <3> HIDE DEF T
      <3> QED
        BY <3>2, <3>7 DEF Past
    <2> QED
      BY <2>2, <2>3
  <1>5. Allocs(Ready.g) \subseteq Allocs(cfg)
    <2>1. CASE sel # NoBlock
      BY <2>1 DEF Ready
    <2>2. CASE sel = NoBlock
      <3> DEFINE n == Len(cfg) + 1
                 g == CreateBlock(cfg)
      <3>1. Ready.g = g
        BY <2>2 DEF Ready
      <3>2. /\ g \in Graph /\ Len(g) = n /\ g[n] = NewBlock
            /\ \A c \in DOMAIN cfg : g[c] = cfg[c]
        BY <1>1, CreateBlockLemma
      <3>3. DOMAIN g = 1..n /\ DOMAIN cfg = 1..Len(cfg) /\ Len(cfg) \in Nat
        BY <1>1, <3>2, LenProperties DEF Graph
      <3> HIDE DEF g
      <3>4. \A b \in DOMAIN g : b = n \/ b \in DOMAIN cfg
        BY <3>3
      <3> HIDE DEF n
      <3>5. DOMAIN g[n].body = {}
        BY <3>2 DEF NewBlock
      <3> QED
        BY <3>1, <3>2, <3>4, <3>5 DEF Allocs
    <2> QED
      BY <2>1, <2>2
  <1>6. controls = <<>> => Past(Ready.g, Ready.at, Known, Ready.at)
    <2> SUFFICES ASSUME controls = <<>> PROVE Past(Ready.g, Ready.at, Known, Ready.at)
      OBVIOUS
    <2>1. Blocks(controls) = {}
      BY BlocksMember
    <2>2. Known = HeldIn(frames)
      BY <2>1 DEF Known
    <2>3. \A b \in HeldIn(frames) \cup {Ready.at} : Arcs(Ready.g, b) = {}
      BY <1>2, <1>3, OpenArcs
    <2>4. Ahead(Ready.g, Ready.at, HeldIn(frames))
      BY <1>2, <2>3 DEF Ahead
    <2> QED
      BY <1>2, <2>2, <2>4 DEF Past, Position
  <1>7. Past(Ready.g, Ready.at, Known, AllocBlock(Ready.at))
    <2>1. CASE controls = <<>>
      BY <1>6, <2>1, AllocBlockIs
    <2>2. CASE controls # <<>>
      <3>1. AllocBlock(Ready.at) \in Firsts(controls)
        BY <2>2, AllocBlockIs DEF Firsts
      <3> QED
        BY <1>4, <3>1
    <2> QED
      BY <2>1, <2>2
  <1> QED
    BY <1>1, <1>2, <1>4, <1>5, <1>7

(***************************************************************************)
(* A handler that starts with fillBlock, adds arcs to known and new blocks *)
(* only and allocates, if it does, where AllocBlock says.                  *)
(***************************************************************************)
LEMMA DeclKept ==
    ASSUME TypeInv, BlockInv, NoSwitches, DeclInv, mode = "body", mode' = "body",
           NEW K, NEW V, NEW A, Extends(Ready, cfg', K, V, A), K \subseteq Known,
           \A b, i : <<b, i>> \in A => b = AllocBlock(Ready.at),
           sel' \in {NoBlock, Ready.at} \cup Known \cup Made(Ready.g, cfg'),
           HeldIn(frames') \subseteq Known \cup Made(Ready.g, cfg'),
           Blocks(controls') \subseteq Known \cup Made(Ready.g, cfg'),
           Firsts(controls') \subseteq {AllocBlock(Ready.at)}
    PROVE  DeclInv'
  <1>1. \A h \in Allocs(Ready.g) \cup {AllocBlock(Ready.at)} :
          Past(Ready.g, Ready.at, Known, h)
    BY ReadyPast
  <1>2. Allocs(cfg') \cup Firsts(controls') \subseteq Allocs(Ready.g) \cup {AllocBlock(Ready.at)}
    BY AllocsCarry
  <1>3. Known' \subseteq Known \cup Made(Ready.g, cfg')
    BY DEF Known
  <1>4. \A h \in Allocs(cfg') \cup Firsts(controls') : Past(cfg', sel', Known', h)
    BY <1>1, <1>2, <1>3, PastCarry
  <1> QED
    BY <1>4 DEF DeclInv

(* A handler that leaves the graph alone and selects a known block.        *)
LEMMA DeclStays ==
    ASSUME DeclInv, mode = "body", mode' = "body", cfg' = cfg,
           sel' \in {NoBlock} \cup Known, HeldIn(frames') \subseteq Known,
           Blocks(controls') \subseteq Known, Firsts(controls') \subseteq Firsts(controls)
    PROVE  DeclInv'
  <1>1. Known' \subseteq Known
    BY DEF Known
  <1>2. \A h \in Allocs(cfg') \cup Firsts(controls') : Past(cfg', sel', Known', h)
    BY <1>1 DEF DeclInv, Past
  <1> QED
    BY <1>2 DEF DeclInv

-----------------------------------------------------------------------------
(***************************************************************************)
(* What each handler does to the graph, in the terms of Extends.           *)
(***************************************************************************)
(* The arguments of the handlers.                                          *)
LEMMA ReadyFrom ==
    ASSUME TypeInv
    PROVE  /\ Position(Ready) /\ Here \in Nat /\ Ready.g \in Graph /\ Ready.at # NoBlock
           /\ \A K, V, A : From(Ready, Ready, K, V, A)
           /\ sel # NoBlock => Ready.g = cfg /\ Ready.at = sel
                               /\ Ready = [g |-> cfg, at |-> sel]
  <1>1. Position(Ready)
    BY ReadyLemma
  <1>2. Ready.at # NoBlock
    BY <1>1, PositionFacts DEF NoBlock
  <1> QED
    BY <1>1, <1>2, Setting, FromHere, PositionFacts DEF Ready

(* A handler is over.                                                      *)
LEMMA FromDone ==
    ASSUME NEW s, NEW r, NEW K, NEW V, NEW A, From(s, r, K, V, A), cfg' = r.g, sel' = r.at
    PROVE  Extends(s, cfg', K, V, A) /\ sel' \in {s.at} \cup Made(s.g, cfg')
  BY DEF From

(* An expression adds blocks of its own.                                   *)
LEMMA ExprStmtGoes ==
    ASSUME Straight, TypeInv, NEW e \in Exprs, ExprStmt(e)
    PROVE  /\ Extends(Ready, cfg', {}, {}, {})
           /\ sel' \in {Ready.at} \cup Made(Ready.g, cfg')
  <1> DEFINE r == Eval(e, Ready, Here)
  <1>1. From(Ready, Ready, {}, {}, {}) /\ Here \in Nat
    BY ReadyFrom
  <1>2. From(Ready, r, {}, {}, {})
    BY <1>1, StraightNames, FromEval
  <1>3. cfg' = r.g /\ sel' = r.at
    BY DEF ExprStmt, At
  <1> QED
    BY <1>2, <1>3, FromDone

(* A declaration allocates in h and stores the initializer behind it.      *)
LEMMA InsertDeclarationGoes ==
    ASSUME Straight, TypeInv, NEW e \in Exprs \cup {"none"}, InsertDeclaration(e),
           NEW h \in DOMAIN Ready.g, h = AllocBlock(Ready.at)
    PROVE  /\ Extends(Ready, cfg', {}, {Here}, {<<h, Here>>})
           /\ sel' \in {Ready.at} \cup Made(Ready.g, cfg')
           /\ \E j \in DOMAIN cfg'[h].body : cfg'[h].body[j] = [op |-> "alloca", ref |-> Here]
  <1> DEFINE r == Declare(e, Ready, Here)
             V == {Here}
             A == {<<h, Here>>}
  <1>1. From(Ready, Ready, V, V, A) /\ From(Ready, Ready, {}, V, A) /\ Here \in Nat
    BY ReadyFrom
  <1>2. /\ Here \in V /\ <<h, Here>> \in A /\ \A b : <<b, Here>> \in A => b = h
        /\ e \in (AllExprs \ {"condAnd"}) \cup {"none"}
    BY StraightNames
  <1>3. cfg' = r.g /\ sel' = r.at
    BY DEF InsertDeclaration, At
  <1> HIDE DEF V, A
  <1>4. /\ From(Ready, r, {}, V, A)
        /\ \E j \in DOMAIN r.g[h].body : r.g[h].body[j] = [op |-> "alloca", ref |-> Here]
    <2> DEFINE i == Here
               s == Ready
    <2> HIDE DEF i, s
    <2>1. /\ From(s, s, {}, V, A) /\ i \in V /\ i \in Nat /\ h \in DOMAIN s.g
          /\ h = AllocBlock(s.at) /\ <<h, i>> \in A /\ \A b : <<b, i>> \in A => b = h
      BY <1>1, <1>2 DEF i, s
    <2>2. LET q == Declare(e, s, i)
          IN  /\ From(s, q, {}, V, A)
              /\ \E j \in DOMAIN q.g[h].body : q.g[h].body[j] = [op |-> "alloca", ref |-> i]
      BY <1>2, <2>1, FromDeclare
    <2> QED
      BY <2>2 DEF i, s
  <1> HIDE DEF r
  <1>5. Extends(Ready, cfg', {}, V, A) /\ sel' \in {Ready.at} \cup Made(Ready.g, cfg')
    BY <1>3, <1>4, FromDone
  <1> QED
    BY <1>3, <1>4, <1>5 DEF V, A

(* A use of a variable is one instruction.                                 *)
LEMMA UseVariableGoes ==
    ASSUME TypeInv, NEW v \in Nat, UseVariable(v)
    PROVE  Extends(Ready, cfg', {}, {v}, {}) /\ sel' = Ready.at
  <1> DEFINE r == Emit(Ready, "use", v)
             V == {v}
  <1>1. From(Ready, Ready, {}, V, {}) /\ v \in V /\ Position(Ready) /\ "use" \in NodeOps
    BY ReadyFrom DEF NodeOps
  <1>2. cfg' = r.g /\ sel' = r.at
    BY DEF UseVariable, At
  <1> HIDE DEF V
  <1>3. From(Ready, r, {}, V, {}) /\ r.at = Ready.at
    BY <1>1, FromEmit, EmitLemma
  <1> HIDE DEF r
  <1>4. Extends(Ready, cfg', {}, V, {})
    BY <1>2, <1>3, FromDone
  <1> QED
    BY <1>2, <1>3, <1>4 DEF V

(* The if selects its first body and holds the other block.                *)
LEMMA InsertIfGoes ==
    ASSUME Straight, TypeInv, NEW e \in Exprs, NEW hasElse \in BOOLEAN,
           InsertIfStatement(e, hasElse)
    PROVE  /\ Extends(Ready, cfg', {}, {}, {}) /\ sel' \in Made(Ready.g, cfg')
           /\ \E other \in Made(Ready.g, cfg') : other \in Ids
                /\ frames' = Append(frames, IF hasElse
                        THEN MkFrame("then", other, NoBlock, NoBlock)
                        ELSE MkFrame("then", NoBlock, other, NoBlock))
  <1> DEFINE s     == Ready
             cond  == Eval(e, s, Here)
             n     == Len(cond.g)
             true  == NewId(cond.g)
             other == true + 1
             f1    == Fresh(cond)
             two   == Fresh(f1)
             fork  == BranchTo(two, true, other)
             r     == Select(fork, true)
  <1>1. /\ cfg' = r.g /\ sel' = r.at
        /\ frames' = Append(frames, IF hasElse
                        THEN MkFrame("then", other, NoBlock, NoBlock)
                        ELSE MkFrame("then", NoBlock, other, NoBlock))
    BY DEF InsertIfStatement, At
  <1>2. From(s, s, {}, {}, {}) /\ Here \in Nat
    BY ReadyFrom
  <1> HIDE DEF s
  <1>3. From(s, cond, {}, {}, {})
    BY <1>2, StraightNames, FromEval
  <1> HIDE DEF cond
  <1>4. n \in Nat /\ true = n + 1 /\ other = n + 2
    BY <1>3, FromNats DEF NewId
  <1>5. From(s, f1, {}, {}, {}) /\ Len(f1.g) = n + 1
    BY <1>3, FromFresh
  <1> HIDE DEF f1, n
  <1>6. From(s, two, {}, {}, {}) /\ Len(two.g) = Len(f1.g) + 1
    BY <1>5, FromFresh
  <1> HIDE DEF two, true, other
  <1>7. \A q : Len(q.g) = n + 2 =>
          /\ true \in Made(s.g, q.g) /\ true \in Ids
          /\ other \in Made(s.g, q.g) /\ other \in Ids
    <2> TAKE q
    <2> HAVE Len(q.g) = n + 2
    <2>1. n < true /\ n < other /\ true <= Len(q.g) /\ other <= Len(q.g)
          /\ true \in Nat /\ other \in Nat
      BY <1>4
    <2> QED
      BY <1>3, <2>1, MadeMember DEF n
  <1>8. Len(two.g) = n + 2
    <2>1. n \in Nat
      BY <1>4
    <2>2. Len(f1.g) = n + 1
      BY <1>5
    <2>3. Len(two.g) = Len(f1.g) + 1
      BY <1>6
    <2> HIDE DEF fork, r
    <2> QED
      BY <2>1, <2>2, <2>3
  <1>9. From(s, fork, {}, {}, {}) /\ Len(fork.g) = Len(two.g)
    BY <1>6, <1>7, <1>8, FromBranch
  <1> HIDE DEF fork
  <1>10. From(s, r, {}, {}, {}) /\ r.at = true /\ r.g = fork.g
    BY <1>7, <1>8, <1>9, FromSelect
  <1> HIDE DEF r
  <1>11. Extends(s, cfg', {}, {}, {})
    BY <1>1, <1>10, FromDone
  <1>12. true \in Made(s.g, cfg') /\ other \in Made(s.g, cfg') /\ other \in Ids
    BY <1>1, <1>7, <1>8, <1>9, <1>10
  <1> QED
    BY <1>1, <1>10, <1>11, <1>12 DEF s

(* A return finishes the block without an arc.                             *)
LEMMA ReturnGoes ==
    ASSUME Straight, TypeInv,
           (\E e \in Exprs : Return(e)) \/ (ReturnNothing /\ mode' # "error")
    PROVE  Extends(Ready, cfg', {}, {}, {}) /\ sel' = NoBlock
  <1>1. PICK r : /\ From(Ready, r, {}, {}, {}) /\ cfg' = SetTerminator(r.g, r.at, "RET")
                 /\ sel' = NoBlock
    <2>1. From(Ready, Ready, {}, {}, {}) /\ Here \in Nat
      BY ReadyFrom
    <2>2. ASSUME NEW e \in Exprs, Return(e)
          PROVE  \E r : /\ From(Ready, r, {}, {}, {}) /\ cfg' = SetTerminator(r.g, r.at, "RET")
                        /\ sel' = NoBlock
      <3>1. From(Ready, Eval(e, Ready, Here), {}, {}, {})
        BY <2>1, StraightNames, FromEval
      <3> QED
        BY <2>2, <3>1 DEF Return, Deselect
    <2>3. CASE ReturnNothing /\ mode' # "error"
      BY <2>1, <2>3 DEF ReturnNothing, Deselect, SemanticError
    <2> QED
      BY <2>2, <2>3
  <1>2. "RET" \in TermTypes
    BY DEF TermTypes
  <1>3. LET q == [g |-> SetTerminator(r.g, r.at, "RET"), at |-> r.at]
        IN  From(Ready, q, {}, {}, {})
    BY <1>1, <1>2, FromTerminate
  <1> QED
    BY <1>1, <1>3 DEF From

(* A jump away, after which no block is selected.                          *)
LEMMA JumpGoes ==
    ASSUME NEW s, Position(s), NEW to \in Ids, cfg' = JumpTo(s, to).g
    PROVE  Extends(s, cfg', {to}, {}, {})
  <1> DEFINE K == {to}
  <1>1. From(s, s, K, {}, {}) /\ to \in K \cup Made(s.g, s.g)
    BY FromHere
  <1> HIDE DEF K
  <1>2. From(s, JumpTo(s, to), K, {}, {})
    BY <1>1, FromJump
  <1> QED
    BY <1>2 DEF From, K

(* A break jumps behind the innermost statement that takes it.             *)
LEMMA BreakGoes ==
    ASSUME TypeInv, Break, mode' # "error"
    PROVE  /\ controls # <<>> /\ Extends(Ready, cfg', {Last(controls).exit}, {}, {})
           /\ sel' = NoBlock
  <1>1. /\ controls # <<>> /\ cfg' = JumpTo(Ready, Last(controls).exit).g /\ sel' = NoBlock
    BY DEF Break, SemanticError, Deselect
  <1>2. Last(controls).exit \in Ids
    <2>1. Last(controls) \in Control
      BY <1>1, StackFacts, StackLemma
    <2> QED
      BY <2>1 DEF Control
  <1> QED
    BY <1>1, <1>2, ReadyFrom, JumpGoes

(* A continue jumps to the last action or the condition of a loop.         *)
LEMMA ContinueGoes ==
    ASSUME TypeInv, Continue, mode' # "error"
    PROVE  \E k \in DOMAIN controls :
              /\ IsLoop(controls[k]) /\ Extends(Ready, cfg', {controls[k].skip}, {}, {})
              /\ sel' = NoBlock
  <1>1. /\ LoopsOf # {} /\ cfg' = JumpTo(Ready, controls[NearestLoop].skip).g /\ sel' = NoBlock
    BY DEF Continue, SemanticError, Deselect
  <1>2. NearestLoop \in LoopsOf
    <2>1. /\ DOMAIN controls = 1..Len(controls) /\ Len(controls) \in Nat
          /\ LoopsOf \in SUBSET (1..Len(controls))
      BY StackFacts DEF LoopsOf
    <2>2. \E x \in LoopsOf : \A y \in LoopsOf : y <= x
      BY <1>1, <2>1, GreatestIndex
    <2> QED
      BY <2>2 DEF NearestLoop
  <1> DEFINE k == NearestLoop
  <1>3. k \in DOMAIN controls /\ IsLoop(controls[k])
    BY <1>2 DEF LoopsOf
  <1>4. controls[k].skip \in Ids
    BY <1>3, StackFacts DEF Control
  <1> HIDE DEF k
  <1>5. Extends(Ready, cfg', {controls[k].skip}, {}, {})
    BY <1>1, <1>4, ReadyFrom, JumpGoes DEF k
  <1> QED
    BY <1>1, <1>3, <1>5

(* A jump to a block of its own.                                           *)
LEMMA FreshJumpGoes ==
    ASSUME NEW s, Position(s)
    PROVE  LET q == Select(JumpTo(Fresh(s), NewId(s.g)), NewId(s.g))
           IN  From(s, q, {}, {}, {}) /\ q.at \in Made(s.g, q.g)
  <1> DEFINE n == NewId(s.g)
             f == Fresh(s)
             j == JumpTo(f, n)
             q == Select(j, n)
  <1>1. From(s, s, {}, {}, {}) /\ Len(s.g) \in Nat
    BY FromHere, PositionFacts
  <1>2. From(s, f, {}, {}, {}) /\ Len(f.g) = Len(s.g) + 1
    BY <1>1, FromFresh
  <1> HIDE DEF f
  <1>3. n \in Made(s.g, f.g) /\ n \in Ids
    BY <1>1, <1>2 DEF Made, NewId, Ids
  <1> HIDE DEF n
  <1>4. From(s, j, {}, {}, {}) /\ Len(j.g) = Len(f.g)
    BY <1>2, <1>3, FromJump
  <1>5. n \in Made(s.g, j.g)
    BY <1>3, <1>4 DEF Made
  <1> HIDE DEF j
  <1>6. From(s, q, {}, {}, {}) /\ q.at = n /\ q.g = j.g
    BY <1>4, <1>5, FromSelect
  <1> QED
    BY <1>5, <1>6 DEF q, j, f, n

(* A label starts a block, unless the current one is empty.                *)
LEMMA InsertLabelGoes ==
    ASSUME TypeInv, NEW l, InsertLabel(l), mode' # "error"
    PROVE  /\ Extends(Ready, cfg', {}, {}, {})
           /\ sel' \in {Ready.at} \cup Made(Ready.g, cfg')
  <1>1. cfg' = LabelStart.g /\ sel' = LabelStart.at
    BY DEF InsertLabel, SemanticError, At
  <1>2. From(Ready, Ready, {}, {}, {}) /\ Position(Ready)
    BY ReadyFrom
  <1> DEFINE q == Select(JumpTo(Fresh(Ready), NewId(Ready.g)), NewId(Ready.g))
  <1>3. From(Ready, q, {}, {}, {})
    BY <1>2, FreshJumpGoes
  <1>4. LabelStart = Ready \/ LabelStart = q
    BY DEF LabelStart
  <1> HIDE DEF q
  <1>5. From(Ready, LabelStart, {}, {}, {})
    BY <1>2, <1>3, <1>4
  <1> QED
    BY <1>1, <1>5, FromDone

(* A compound statement starts a block.                                    *)
LEMMA InsertCompoundGoes ==
    ASSUME TypeInv, InsertCompoundStatement
    PROVE  Extends(Ready, cfg', {}, {}, {}) /\ sel' \in Made(Ready.g, cfg')
  <1> DEFINE q == Select(JumpTo(Fresh(Ready), NewId(Ready.g)), NewId(Ready.g))
  <1>1. cfg' = q.g /\ sel' = q.at
    BY DEF InsertCompoundStatement, At
  <1>2. From(Ready, q, {}, {}, {}) /\ q.at \in Made(Ready.g, q.g)
    BY ReadyFrom, FreshJumpGoes
  <1> HIDE DEF q
  <1> QED
    BY <1>1, <1>2, FromDone

(* The end of a body.                                                      *)
LEMMA JoinGoes ==
    ASSUME TypeInv, NEW after \in Ids, NEW j, j = JoinAfter(after)
    PROVE  /\ sel = NoBlock => j.g = cfg /\ j.at = after
           /\ sel # NoBlock =>
                /\ Extends(Ready, j.g, {after} \ {NoBlock}, {}, {})
                /\ j.at \in Ids /\ j.at # NoBlock
                /\ after # NoBlock => j.at = after
                /\ after = NoBlock => j.at \in Made(Ready.g, j.g)
  <1> SUFFICES ASSUME sel # NoBlock
               PROVE  /\ Extends(Ready, j.g, {after} \ {NoBlock}, {}, {})
                      /\ j.at \in Ids /\ j.at # NoBlock
                      /\ after # NoBlock => j.at = after
                      /\ after = NoBlock => j.at \in Made(Ready.g, j.g)
    BY DEF JoinAfter
  <1> DEFINE s == Ready
  <1>1. Position(s) /\ s.g = cfg /\ s.at = sel /\ s = [g |-> cfg, at |-> sel]
    BY ReadyFrom
  <1>2. CASE after = NoBlock
    <2> DEFINE q == Select(JumpTo(Fresh(s), NewId(s.g)), NewId(s.g))
    <2>1. Fresh(s) = [g |-> CreateBlock(cfg), at |-> sel]
      BY <1>1 DEF Fresh
    <2>2. j = q
      BY <1>1, <1>2, <2>1 DEF JoinAfter
    <2>3. From(s, q, {}, {}, {}) /\ q.at \in Made(s.g, q.g)
      BY <1>1, FreshJumpGoes
    <2> HIDE DEF q, s
    <2>4. j.at \in Nat /\ j.at # NoBlock
      BY <1>1, <2>2, <2>3, PositionFacts DEF Made, NoBlock
    <2>5. Extends(s, j.g, {}, {}, {})
      BY <2>2, <2>3 DEF From
    <2>6. {after} \ {NoBlock} = {}
      BY <1>2
    <2> QED
      BY <1>2, <2>2, <2>3, <2>4, <2>5, <2>6 DEF Ids, s
  <1>3. CASE after # NoBlock
    <2> DEFINE K == {after} \ {NoBlock}
    <2>1. j = Select(JumpTo(s, after), after)
      BY <1>1, <1>3 DEF JoinAfter
    <2> HIDE DEF s
    <2>2. From(s, s, K, {}, {}) /\ after \in K \cup Made(s.g, s.g)
      BY <1>1, <1>3, FromHere
    <2> HIDE DEF K
    <2>3. From(s, JumpTo(s, after), K, {}, {})
      BY <2>2, FromJump
    <2>4. j.g = JumpTo(s, after).g /\ j.at = after
      BY <2>1, SelectLemma
    <2> QED
      BY <1>3, <2>3, <2>4 DEF From, K, s
  <1> QED
    BY <1>2, <1>3

(* The end of a loop jumps to where a continue does.                       *)
LEMMA EndLoopGoes ==
    ASSUME TypeInv, EndLoop
    PROVE  /\ controls # <<>> /\ frames # <<>> /\ sel' = Top.blockAfter
           /\ sel = NoBlock => cfg' = cfg
           /\ sel # NoBlock => Extends(Ready, cfg', {Last(controls).skip}, {}, {})
  <1>1. /\ frames # <<>> /\ Top.kind \in Breakable /\ Nested(frames, controls)
        /\ sel' = Top.blockAfter /\ (sel = NoBlock => cfg' = cfg)
        /\ sel # NoBlock => cfg' = JumpTo([g |-> cfg, at |-> sel], Last(controls).skip).g
    BY DEF EndLoop, InFrame, Breakable, TypeInv
  <1>2. controls # <<>>
    BY <1>1, StackFacts, NestedPop DEF Top
  <1>3. Last(controls).skip \in Ids
    <2>1. Last(controls) \in Control
      BY <1>2, StackFacts, StackLemma
    <2> QED
      BY <2>1 DEF Control
  <1>4. sel # NoBlock => Extends(Ready, cfg', {Last(controls).skip}, {}, {})
    BY <1>1, <1>3, ReadyFrom, JumpGoes
  <1> QED
    BY <1>1, <1>2, <1>4

-----------------------------------------------------------------------------
(* Every handler keeps the allocations behind. *)

(* A handler that opens and closes no statement.                           *)
LEMMA DeclPlain ==
    ASSUME TypeInv, BlockInv, NoSwitches, DeclInv, mode = "body", mode' = "body",
           frames' = frames, controls' = controls,
           NEW K, NEW V, NEW A, Extends(Ready, cfg', K, V, A), K \subseteq Known,
           \A b, i : <<b, i>> \in A => b = AllocBlock(Ready.at),
           sel' \in {NoBlock, Ready.at} \cup Made(Ready.g, cfg')
    PROVE  DeclInv'
  <1>1. HeldIn(frames') \subseteq Known /\ Blocks(controls') \subseteq Known
    BY DEF Known
  <1>2. Firsts(controls') \subseteq {AllocBlock(Ready.at)}
    BY AllocBlockIs
  <1> QED
    BY <1>1, <1>2, DeclKept

(* A loop is entered.                                                      *)
LEMMA ControlsGrow ==
    ASSUME TypeInv, NoSwitches, NEW new, NEW c \in Control, controls' = Append(controls, c),
           c.before = Ready.at, c.skip \in new, c.exit \in new
    PROVE  /\ Blocks(controls') \subseteq Blocks(controls) \cup new
           /\ Firsts(controls') \subseteq {AllocBlock(Ready.at)}
  <1> DEFINE cs == controls
             ds == Append(cs, c)
  <1>1. cs \in Seq(Control)
    BY StackFacts
  <1>2. /\ ds # <<>> /\ Len(cs) \in Nat /\ DOMAIN cs = 1..Len(cs)
        /\ DOMAIN ds = 1..(Len(cs) + 1) /\ ds[Len(cs) + 1] = c
        /\ \A k \in 1..Len(cs) : ds[k] = cs[k]
    BY <1>1, PushLemma
  <1>3. cs # <<>> => Len(cs) # 0
    BY <1>1, StackLemma
  <1> HIDE DEF ds
  <1>4. \A k \in DOMAIN ds : (k \in DOMAIN cs /\ ds[k] = cs[k]) \/ ds[k] = c
    BY <1>2
  <1>5. Blocks(ds) \subseteq Blocks(cs) \cup new
    <2> SUFFICES ASSUME NEW b \in Blocks(ds), b \notin new PROVE b \in Blocks(cs)
      OBVIOUS
    <2>1. PICK k \in DOMAIN ds : b = ds[k].skip \/ b = ds[k].exit
      BY BlocksMember
    <2>2. k \in DOMAIN cs /\ ds[k] = cs[k]
      BY <1>4, <2>1
    <2> QED
      BY <2>1, <2>2, BlocksMember
  <1>6. Firsts(ds) = {ds[1].before}
    BY <1>2 DEF Firsts
  <1>7. CASE cs = <<>>
    <2>1. Len(cs) = 0
      BY <1>7
    <2>2. ds[1] = c
      BY <1>2, <2>1
    <2>3. AllocBlock(Ready.at) = Ready.at
      BY <1>7, AllocBlockIs
    <2> QED
      BY <1>5, <1>6, <2>2, <2>3 DEF ds
  <1>8. CASE cs # <<>>
    <2>1. ds[1] = cs[1]
      BY <1>2, <1>3, <1>8
    <2>2. AllocBlock(Ready.at) = cs[1].before
      BY <1>8, AllocBlockIs
    <2> QED
      BY <1>5, <1>6, <2>1, <2>2 DEF ds
  <1> QED
    BY <1>7, <1>8

(* One that opens a statement.                                             *)
LEMMA DeclOpen ==
    ASSUME TypeInv, BlockInv, NoSwitches, DeclInv, mode = "body", mode' = "body",
           NEW V, NEW A, Extends(Ready, cfg', {}, V, A),
           \A b, i : <<b, i>> \in A => b = AllocBlock(Ready.at),
           sel' \in {NoBlock, Ready.at} \cup Made(Ready.g, cfg'),
           NEW f \in Frame, frames' = Append(frames, f),
           HeldBy(f) \subseteq {NoBlock} \cup Made(Ready.g, cfg'),
           \/ controls' = controls
           \/ \E c \in Control :
                /\ controls' = Append(controls, c) /\ c.before = Ready.at
                /\ c.skip \in Made(Ready.g, cfg') /\ c.exit \in Made(Ready.g, cfg')
    PROVE  DeclInv'
  <1> DEFINE new == Made(Ready.g, cfg')
  <1>1. HeldIn(frames') \subseteq Known \cup new
    <2>1. HeldIn(frames') = HeldIn(frames) \cup (HeldBy(f) \ {NoBlock})
      BY StackFacts, HeldPush
    <2> QED
      BY <2>1 DEF Known
  <1>2. /\ Blocks(controls') \subseteq Known \cup new
        /\ Firsts(controls') \subseteq {AllocBlock(Ready.at)}
    <2>1. CASE controls' = controls
      BY <2>1, AllocBlockIs DEF Known
    <2>2. ASSUME NEW c \in Control, controls' = Append(controls, c), c.before = Ready.at,
                 c.skip \in new, c.exit \in new
          PROVE  /\ Blocks(controls') \subseteq Known \cup new
                 /\ Firsts(controls') \subseteq {AllocBlock(Ready.at)}
      BY <2>2, ControlsGrow DEF Known
    <2> QED
      BY <2>1, <2>2
  <1>3. {} \subseteq Known
    OBVIOUS
  <1> QED
    BY <1>1, <1>2, <1>3, DeclKept

(* What the loops around know of the one that is closed.                   *)
LEMMA BlocksPopped ==
    ASSUME TypeInv, controls # <<>>
    PROVE  /\ Blocks(Front(controls)) \subseteq Blocks(controls)
           /\ Firsts(Front(controls)) \subseteq Firsts(controls)
           /\ Last(controls).skip \in Blocks(controls)
           /\ Last(controls).exit \in Blocks(controls)
  <1> DEFINE inner == Front(controls)
  <1>1. /\ inner \in Seq(Control) /\ DOMAIN inner \subseteq DOMAIN controls
        /\ \A k \in DOMAIN inner : inner[k] = controls[k]
        /\ Last(controls) = controls[Len(controls)] /\ Len(controls) \in DOMAIN controls
    BY ControlsPopped
  <1>2. \A b : b \in Blocks(controls)
              <=> \E k \in DOMAIN controls : b = controls[k].skip \/ b = controls[k].exit
    BY BlocksMember
  <1>3. \A b : b \in Blocks(inner)
              <=> \E k \in DOMAIN inner : b = inner[k].skip \/ b = inner[k].exit
    BY BlocksMember
  <1> HIDE DEF inner
  <1>4. Blocks(inner) \subseteq Blocks(controls)
    BY <1>1, <1>2, <1>3
  <1>5. Last(controls).skip \in Blocks(controls) /\ Last(controls).exit \in Blocks(controls)
    BY <1>1, <1>2
  <1>6. Firsts(inner) \subseteq Firsts(controls)
    <2>1. CASE inner = <<>>
      BY <2>1 DEF Firsts
    <2>2. CASE inner # <<>>
      <3>1. 1 \in DOMAIN inner
        BY <1>1, <2>2, StackLemma
      <3>2. inner[1] = controls[1] /\ controls # <<>>
        BY <1>1, <3>1
      <3> QED
        BY <2>2, <3>2 DEF Firsts
    <2> QED
      BY <2>1, <2>2
  <1> QED
    BY <1>4, <1>5, <1>6 DEF inner

(* A handler that closes a statement, or goes on with its second body.     *)
LEMMA DeclClose ==
    ASSUME TypeInv, BlockInv, NoSwitches, DeclInv, mode = "body", mode' = "body",
           frames # <<>>,
           \/ sel = NoBlock /\ cfg' = cfg
           \/ sel # NoBlock /\ \E K : K \subseteq Known /\ Extends(Ready, cfg', K, {}, {}),
           sel' \in {NoBlock} \cup Known \cup (IF sel = NoBlock THEN {} ELSE Made(Ready.g, cfg')),
           \/ frames' = Front(frames)
           \/ \E f \in Frame :
                /\ frames' = Append(Front(frames), f)
                /\ HeldBy(f) \subseteq {NoBlock} \cup Known \cup
                        (IF sel = NoBlock THEN {} ELSE Made(Ready.g, cfg')),
           \/ controls' = controls
           \/ controls # <<>> /\ controls' = Front(controls)
    PROVE  DeclInv'
  <1> DEFINE new == IF sel = NoBlock THEN {} ELSE Made(Ready.g, cfg')
  <1>1. HeldIn(frames') \subseteq Known \cup new
    <2>1. HeldIn(Front(frames)) \subseteq Known /\ Front(frames) \in Seq(Frame)
      BY TopHeld DEF Known
    <2>2. ASSUME NEW f \in Frame, frames' = Append(Front(frames), f),
                 HeldBy(f) \subseteq {NoBlock} \cup Known \cup new
          PROVE  HeldIn(frames') \subseteq Known \cup new
      <3>1. HeldIn(frames') = HeldIn(Front(frames)) \cup (HeldBy(f) \ {NoBlock})
        BY <2>1, <2>2, HeldPush
      <3> QED
        BY <2>1, <2>2, <3>1
    <2> QED
      BY <2>1, <2>2
  <1>2. /\ Blocks(controls') \subseteq Known /\ Firsts(controls') \subseteq Firsts(controls)
    BY BlocksPopped DEF Known
  <1>3. Firsts(controls') \subseteq {AllocBlock(Ready.at)}
    BY <1>2, AllocBlockIs
  <1>4. CASE sel = NoBlock
    BY <1>1, <1>2, <1>4, DeclStays
  <1>5. CASE sel # NoBlock
    <2>1. PICK K : K \subseteq Known /\ Extends(Ready, cfg', K, {}, {})
      BY <1>5
    <2>2. new = Made(Ready.g, cfg')
      BY <1>5
    <2>3. \A b, i : <<b, i>> \in {} => b = AllocBlock(Ready.at)
      OBVIOUS
    <2> QED
      BY <1>1, <1>2, <1>3, <2>1, <2>2, <2>3, DeclKept
  <1> QED
    BY <1>4, <1>5

(* The variables in scope are numbers.                                     *)
LEMMA ScopedVariable ==
    ASSUME TypeInv, NEW v \in UNION {scopes[k] : k \in DOMAIN scopes}
    PROVE  v \in Nat
  <1>1. scopes \in Seq(SUBSET Nat)
    BY ScopesLemma
  <1>2. PICK k \in DOMAIN scopes : v \in scopes[k]
    OBVIOUS
  <1>3. scopes[k] \in SUBSET Nat
    BY <1>1, ElementOfSeq, LenProperties
  <1> QED
    BY <1>2, <1>3

(* A function starts with a block that no arc leaves.                      *)
LEMMA DeclStart ==
    ASSUME TypeInv, NEW void \in BOOLEAN, NEW params \in BOOLEAN, CreateFunction(void, params)
    PROVE  DeclInv'
  <1>1. /\ mode' = "body" /\ frames' = <<>> /\ controls' = <<>>
    BY DEF CreateFunction, TypeInv, ModeShowsFrame, Nested
  <1>2. cfg' \in Graph /\ DOMAIN cfg' = {1} /\ sel' = 1 /\ IsOpen(cfg'[1])
    BY CreateFunctionGraph
  <1>3. Known' = {}
    <2>1. \A b : b \notin HeldIn(<<>>)
      BY HeldMember
    <2>2. \A b : b \notin Blocks(<<>>)
      BY BlocksMember
    <2>3. HeldIn(<<>>) = {} /\ Blocks(<<>>) = {}
      BY <2>1, <2>2
    <2> QED
      BY <1>1, <2>3 DEF Known
  <1>4. Firsts(controls') = {} /\ Allocs(cfg') \subseteq {1}
    BY <1>1, <1>2 DEF Firsts, Allocs
  <1>5. Past(cfg', sel', Known', 1)
    <2>1. Arcs(cfg', 1) = {}
      BY <1>2, OpenArcs
    <2>2. Ahead(cfg', 1, {})
      BY <2>1 DEF Ahead
    <2> QED
      BY <1>2, <1>3, <2>2 DEF Past
  <1> QED
    BY <1>1, <1>4, <1>5 DEF DeclInv

(* The end of a body finishes the selected block without an arc.           *)
LEMMA DeclEnd ==
    ASSUME TypeInv, DeclInv, EndBody \/ FinishFunction, mode' # "error"
    PROVE  DeclInv'
  <1>1. CASE FinishFunction
    BY <1>1 DEF FinishFunction, DeclInv
  <1>2. CASE EndBody
    <2>1. /\ mode = "body" /\ mode' = "resolve"
          /\ cfg' = IF sel = NoBlock THEN cfg ELSE SetTerminator(cfg, sel, "RET")
      BY <1>2 DEF EndBody, SemanticError
    <2>2. /\ DOMAIN cfg' = DOMAIN cfg
          /\ \A b \in DOMAIN cfg : cfg'[b].body = cfg[b].body /\ cfg'[b].next = cfg[b].next
      <3>1. CASE sel = NoBlock
        BY <2>1, <3>1
      <3>2. CASE sel # NoBlock
        <4>1. cfg \in Graph /\ sel \in DOMAIN cfg /\ "RET" \in TermTypes
          BY <3>2 DEF TypeInv, TypeOK, TermTypes
        <4>2. /\ SetTerminator(cfg, sel, "RET") \in Graph
              /\ Len(SetTerminator(cfg, sel, "RET")) = Len(cfg)
          BY <4>1, SetTerminatorLemma
        <4>3. DOMAIN SetTerminator(cfg, sel, "RET") = DOMAIN cfg
          BY <4>1, <4>2, LenProperties DEF Graph
        <4> QED
          BY <2>1, <3>2, <4>1, <4>3, TerminatorKeepsBodies
      <3> QED
        BY <3>1, <3>2
    <2>3. Allocs(cfg') = Allocs(cfg)
      BY <2>2 DEF Allocs
    <2>4. \A b : Arcs(cfg', b) = Arcs(cfg, b)
      BY <2>2 DEF Arcs
    <2>5. \A h \in Allocs(cfg) : \E S : Ahead(cfg, h, S)
      BY <2>1 DEF DeclInv, Past
    <2>6. \A h, S : Ahead(cfg, h, S) => Ahead(cfg', h, S)
      BY <2>2, <2>4 DEF Ahead
    <2> QED
      BY <2>1, <2>3, <2>5, <2>6 DEF DeclInv
  <1> QED
    BY <1>1, <1>2

(* Statements of one handler.                                              *)
LEMMA DeclSimple ==
    ASSUME Structured, TypeInv, BlockInv, NoSwitches, DeclInv, mode' # "error",
           \/ \E e \in Exprs : ExprStmt(e) \/ Return(e)
           \/ \E v \in UNION {scopes[k] : k \in DOMAIN scopes} : UseVariable(v)
           \/ \E l \in Labels : InsertLabel(l)
           \/ ReturnNothing \/ Break \/ Continue
    PROVE  DeclInv'
  <1>1. mode = "body" /\ mode' = "body" /\ frames' = frames /\ controls' = controls
    BY DEF ExprStmt, Return, UseVariable, InsertLabel, ReturnNothing, Break, Continue, Opens,
           SemanticError
  <1>2. \A b, i : <<b, i>> \in {} => b = AllocBlock(Ready.at)
    OBVIOUS
  <1> DEFINE Goes == \E K, V : /\ K \subseteq Known /\ Extends(Ready, cfg', K, V, {})
                              /\ sel' \in {NoBlock, Ready.at} \cup Made(Ready.g, cfg')
  <1>3. Goes
    <2>1. {} \subseteq Known
      OBVIOUS
    <2>2. ASSUME NEW e \in Exprs, ExprStmt(e) PROVE Goes
      <3>1. Extends(Ready, cfg', {}, {}, {}) /\ sel' \in {Ready.at} \cup Made(Ready.g, cfg')
        BY <2>2, ExprStmtGoes DEF Structured
      <3> QED
        BY <2>1, <3>1
    <2>3. CASE (\E e \in Exprs : Return(e)) \/ ReturnNothing
      <3>1. Extends(Ready, cfg', {}, {}, {}) /\ sel' = NoBlock
        BY <2>3, ReturnGoes DEF Structured
      <3> QED
        BY <2>1, <3>1
    <2>4. ASSUME NEW v \in UNION {scopes[k] : k \in DOMAIN scopes}, UseVariable(v) PROVE Goes
      <3>1. v \in Nat
        BY ScopedVariable
      <3>2. Extends(Ready, cfg', {}, {v}, {}) /\ sel' = Ready.at
        BY <2>4, <3>1, UseVariableGoes
      <3> QED
        BY <2>1, <3>2
    <2>5. ASSUME NEW l \in Labels, InsertLabel(l) PROVE Goes
      <3>1. Extends(Ready, cfg', {}, {}, {}) /\ sel' \in {Ready.at} \cup Made(Ready.g, cfg')
        BY <2>5, InsertLabelGoes
      <3> QED
        BY <2>1, <3>1
    <2>6. CASE Break
      <3>1. /\ controls # <<>> /\ Extends(Ready, cfg', {Last(controls).exit}, {}, {})
            /\ sel' = NoBlock
        BY <2>6, BreakGoes
      <3>2. {Last(controls).exit} \subseteq Known
        BY <3>1, BlocksPopped DEF Known
      <3> QED
        BY <3>1, <3>2
    <2>7. CASE Continue
      <3>1. PICK k \in DOMAIN controls :
               Extends(Ready, cfg', {controls[k].skip}, {}, {}) /\ sel' = NoBlock
        BY <2>7, ContinueGoes
      <3>2. {controls[k].skip} \subseteq Known
        <4>1. controls[k].skip \in Blocks(controls)
          BY BlocksMember
        <4> QED
          BY <4>1 DEF Known
      <3> QED
        BY <3>1, <3>2
    <2> HIDE DEF Goes
    <2> QED
      BY <2>2, <2>3, <2>4, <2>5, <2>6, <2>7
  <1>4. PICK K, V : /\ K \subseteq Known /\ Extends(Ready, cfg', K, V, {})
                    /\ sel' \in {NoBlock, Ready.at} \cup Made(Ready.g, cfg')
    BY <1>3
  <1> DEFINE none == {}
  <1>5. Extends(Ready, cfg', K, V, none) /\ \A b, i : <<b, i>> \in none => b = AllocBlock(Ready.at)
    BY <1>2, <1>4
  <1> HIDE DEF none
  <1> QED
    BY <1>1, <1>4, <1>5, DeclPlain

(* A declaration allocates where AllocBlock says.                          *)
LEMMA DeclDeclaration ==
    ASSUME Structured, TypeInv, BlockInv, NoSwitches, DeclInv,
           NEW e \in Exprs \cup {"none"}, InsertDeclaration(e)
    PROVE  DeclInv'
  <1> DEFINE h == AllocBlock(Ready.at)
             A == {<<h, Here>>}
             V == {Here}
             none == {}
  <1>1. mode = "body" /\ mode' = "body" /\ frames' = frames /\ controls' = controls
    BY DEF InsertDeclaration, Opens
  <1>2. h \in DOMAIN Ready.g
    BY <1>1, ReadyPast DEF Past
  <1>3. /\ Extends(Ready, cfg', none, V, A)
        /\ sel' \in {NoBlock, Ready.at} \cup Made(Ready.g, cfg')
    BY <1>2, InsertDeclarationGoes DEF Structured
  <1>4. none \subseteq Known /\ \A b, i : <<b, i>> \in A => b = h
    OBVIOUS
  <1> HIDE DEF A, V, none
  <1> QED
    BY <1>1, <1>3, <1>4, DeclPlain

(* Statements that open a body of their own.                               *)
LEMMA IfCompoundGoes ==
    ASSUME Straight, TypeInv,
           \/ \E e \in Exprs, hasElse \in BOOLEAN : InsertIfStatement(e, hasElse)
           \/ InsertCompoundStatement
    PROVE  /\ Extends(Ready, cfg', {}, {}, {}) /\ sel' \in Made(Ready.g, cfg')
           /\ \E f \in Frame : /\ frames' = Append(frames, f)
                               /\ HeldBy(f) \subseteq {NoBlock} \cup Made(Ready.g, cfg')
  <1>1. ASSUME NEW e \in Exprs, NEW hasElse \in BOOLEAN, InsertIfStatement(e, hasElse)
        PROVE  /\ Extends(Ready, cfg', {}, {}, {}) /\ sel' \in Made(Ready.g, cfg')
               /\ \E f \in Frame : /\ frames' = Append(frames, f)
                                   /\ HeldBy(f) \subseteq {NoBlock} \cup Made(Ready.g, cfg')
    <2>1. PICK other \in Made(Ready.g, cfg') : other \in Ids
              /\ frames' = Append(frames, IF hasElse
                      THEN MkFrame("then", other, NoBlock, NoBlock)
                      ELSE MkFrame("then", NoBlock, other, NoBlock))
      BY <1>1, InsertIfGoes
    <2> DEFINE f1 == MkFrame("then", other, NoBlock, NoBlock)
               f2 == MkFrame("then", NoBlock, other, NoBlock)
    <2>2. "then" \in FrameKinds /\ NoBlock \in Ids
      BY DEF FrameKinds, Ids, NoBlock
    <2>3. /\ f1 \in Frame /\ f1.kind = "then" /\ f1.blockFalse = other /\ f1.blockAfter = NoBlock
          /\ f2 \in Frame /\ f2.kind = "then" /\ f2.blockFalse = NoBlock /\ f2.blockAfter = other
      BY <2>1, <2>2, MkFrameLemma
    <2>4. frames' = Append(frames, f1) \/ frames' = Append(frames, f2)
      BY <2>1
    <2> HIDE DEF f1, f2
    <2>5. HeldBy(f1) = {other, NoBlock} /\ HeldBy(f2) = {NoBlock, other}
      BY <2>3, HeldByLemma
    <2>6. Extends(Ready, cfg', {}, {}, {}) /\ sel' \in Made(Ready.g, cfg')
      BY <1>1, InsertIfGoes
    <2> QED
      BY <2>1, <2>3, <2>4, <2>5, <2>6
  <1>2. CASE InsertCompoundStatement
    <2> DEFINE f == MkFrame("compound", NoBlock, NoBlock, NoBlock)
    <2>1. "compound" \in FrameKinds /\ NoBlock \in Ids
      BY DEF FrameKinds, Ids, NoBlock
    <2>2. f \in Frame /\ f.kind = "compound" /\ f.blockFalse = NoBlock /\ f.blockAfter = NoBlock
      BY <2>1, MkFrameLemma
    <2>3. frames' = Append(frames, f)
      BY <1>2 DEF InsertCompoundStatement
    <2> HIDE DEF f
    <2>4. HeldBy(f) = {NoBlock, NoBlock}
      BY <2>2, HeldByLemma
    <2>5. Extends(Ready, cfg', {}, {}, {}) /\ sel' \in Made(Ready.g, cfg')
      BY <1>2, InsertCompoundGoes
    <2> QED
      BY <2>2, <2>3, <2>4, <2>5
  <1> QED
    BY <1>1, <1>2

(* ... keep the allocations behind.                                        *)
LEMMA DeclIfCompound ==
    ASSUME Structured, TypeInv, BlockInv, NoSwitches, DeclInv,
           \/ \E e \in Exprs, hasElse \in BOOLEAN : InsertIfStatement(e, hasElse)
           \/ InsertCompoundStatement
    PROVE  DeclInv'
  <1> DEFINE none == {}
  <1>1. mode = "body" /\ mode' = "body" /\ controls' = controls
    BY DEF InsertIfStatement, InsertCompoundStatement, Nests, Opens
  <1>2. /\ Extends(Ready, cfg', none, none, none) /\ sel' \in Made(Ready.g, cfg')
        /\ \E f \in Frame : /\ frames' = Append(frames, f)
                            /\ HeldBy(f) \subseteq {NoBlock} \cup Made(Ready.g, cfg')
    BY IfCompoundGoes DEF Structured
  <1>3. \A b, i : <<b, i>> \in none => b = AllocBlock(Ready.at)
    OBVIOUS
  <1>4. PICK f \in Frame : /\ frames' = Append(frames, f)
                           /\ HeldBy(f) \subseteq {NoBlock} \cup Made(Ready.g, cfg')
    BY <1>2
  <1>5. Extends(Ready, cfg', {}, none, none)
    BY <1>2
  <1> HIDE DEF none
  <1> QED
    BY <1>1, <1>2, <1>3, <1>4, <1>5, DeclOpen

(* A loop knows where a break and a continue lead, and the block before    *)
(* the outermost one gets the variables.                                   *)
LEMMA DeclLoop ==
    ASSUME Structured, TypeInv, BlockInv, NoSwitches, DeclInv,
           NEW kind \in {"while", "do", "for"}, NEW init \in ForInits, NEW e \in Exprs,
           NEW act \in LastActs \cup {"none"}, InsertLoopStatement(kind, init, e, act)
    PROVE  DeclInv'
  <1> DEFINE h == AllocBlock(Ready.at)
             A == {<<h, Here>>}
             V == {Here}
  <1>1. mode = "body" /\ mode' = "body"
    BY DEF InsertLoopStatement, Nests, Opens
  <1>2. h \in DOMAIN Ready.g /\ Position(Ready) /\ Here \in Nat
    BY <1>1, ReadyPast, ReadyFrom DEF Past
  <1>3. Here \in V /\ <<h, Here>> \in A /\ \A b, i : <<b, i>> \in A => b = h
    OBVIOUS
  <1> HIDE DEF A, V
  <1>4. PICK skip, after \in Made(Ready.g, cfg') :
              /\ From(Ready, [g |-> cfg', at |-> sel'], {}, V, A)
              /\ sel' \in Made(Ready.g, cfg') /\ skip \in Ids /\ after \in Ids
              /\ controls' = Append(controls, LoopControl(skip, after, Ready.at))
              /\ frames' = Append(frames,
                    MkFrame(IF kind = "for" THEN "for" ELSE "loop", NoBlock, after, NoBlock))
    <2>1. Straight
      BY DEF Structured
    <2>2. \A b : <<b, Here>> \in A => b = h
      BY <1>3
    <2>4. /\ h = AllocBlock(Ready.at) /\ h \in DOMAIN Ready.g
          /\ init[1] = "decl" => /\ Here \in V /\ <<h, Here>> \in A
                                 /\ \A b : <<b, Here>> \in A => b = h
      BY <1>2, <1>3, <2>2
    <2> HIDE DEF h
    <2>3. LoopMade(kind, init, V, A, h)
      BY <1>2, <2>1, <2>4, FromLoop
    <2> QED
      BY <2>3 DEF LoopMade
  <1> DEFINE f == MkFrame(IF kind = "for" THEN "for" ELSE "loop", NoBlock, after, NoBlock)
             c == LoopControl(skip, after, Ready.at)
  <1>5. (IF kind = "for" THEN "for" ELSE "loop") \in FrameKinds /\ NoBlock \in Ids
        /\ (IF kind = "for" THEN "for" ELSE "loop") # "switch"
    BY DEF FrameKinds, Ids, NoBlock
  <1>6. f \in Frame /\ f.kind # "switch" /\ f.blockFalse = NoBlock /\ f.blockAfter = after
    <2> DEFINE k == IF kind = "for" THEN "for" ELSE "loop"
    <2>1. k \in FrameKinds /\ NoBlock \in Ids /\ k # "switch"
      BY <1>5
    <2> HIDE DEF k
    <2>2. LET ff == MkFrame(k, NoBlock, after, NoBlock)
          IN  ff \in Frame /\ ff.kind = k /\ ff.blockFalse = NoBlock /\ ff.blockAfter = after
      BY <1>4, <2>1, MkFrameLemma
    <2> QED
      BY <2>1, <2>2 DEF k
  <1>7. Ready.at \in Ids
    BY <1>2, PositionFacts
  <1>8. /\ c \in Control /\ c.before = Ready.at
        /\ c.skip \in Made(Ready.g, cfg') /\ c.exit \in Made(Ready.g, cfg')
    BY <1>4, <1>7, LoopControlLemma
  <1>9. Extends(Ready, cfg', {}, V, A)
    BY <1>4 DEF From
  <1>10. frames' = Append(frames, f) /\ controls' = Append(controls, c)
    BY <1>4
  <1> HIDE DEF f, c
  <1>11. HeldBy(f) = {NoBlock, after}
    BY <1>6, HeldByLemma
  <1>12. HeldBy(f) \subseteq {NoBlock} \cup Made(Ready.g, cfg')
    BY <1>4, <1>11
  <1> QED
    BY <1>1, <1>3, <1>4, <1>6, <1>8, <1>9, <1>10, <1>12, DeclOpen

(* The end of a statement, or of the first body of an if.                  *)
LEMMA DeclEnding ==
    ASSUME TypeInv, BlockInv, NoSwitches, DeclInv,
           EndThen \/ EndIf \/ EndCompound \/ EndLoop
    PROVE  DeclInv'
  <1> DEFINE new == IF sel = NoBlock THEN {} ELSE Made(Ready.g, cfg')
  <1>1. mode = "body" /\ mode' = "body" /\ frames # <<>>
    BY DEF EndThen, EndIf, EndCompound, EndLoop, InFrame
  <1>2. /\ Top \in Frame /\ \A b \in HeldBy(Top) : b # NoBlock => b \in Known
        /\ NoBlock \in Ids
    BY <1>1, TopHeld DEF Known, Ids, NoBlock
  <1>3. /\ Top.blockAfter \in HeldBy(Top) /\ Top.blockFalse \in HeldBy(Top)
        /\ Top.blockAfter \in Ids /\ Top.blockFalse \in Ids
    BY <1>2 DEF HeldBy, Frame
  <1>4. ASSUME NEW after \in Ids, after = NoBlock \/ after \in Known, cfg' = JoinAfter(after).g
        PROVE  /\ \/ sel = NoBlock /\ cfg' = cfg
                  \/ sel # NoBlock /\ \E K : K \subseteq Known /\ Extends(Ready, cfg', K, {}, {})
               /\ JoinAfter(after).at \in {NoBlock} \cup Known \cup new
               /\ JoinAfter(after).at \in Ids
    <2> DEFINE j == JoinAfter(after)
               K == {after} \ {NoBlock}
    <2>1. /\ sel = NoBlock => j.g = cfg /\ j.at = after
          /\ sel # NoBlock => /\ Extends(Ready, j.g, K, {}, {}) /\ j.at \in Ids
                              /\ after # NoBlock => j.at = after
                              /\ after = NoBlock => j.at \in Made(Ready.g, j.g)
      BY JoinGoes
    <2>2. K \subseteq Known /\ cfg' = j.g
      BY <1>4
    <2> HIDE DEF j, K
    <2>3. /\ \/ sel = NoBlock /\ cfg' = cfg
             \/ sel # NoBlock /\ \E M : M \subseteq Known /\ Extends(Ready, cfg', M, {}, {})
      BY <2>1, <2>2
    <2>4. j.at \in {NoBlock} \cup Known \cup new /\ j.at \in Ids
      BY <1>4, <2>1, <2>2
    <2> QED
      BY <2>3, <2>4 DEF j
  <1>5. CASE EndIf \/ EndCompound
    <2>1. PICK after \in Ids : /\ after = NoBlock \/ after \in Known
                               /\ cfg' = JoinAfter(after).g /\ sel' = JoinAfter(after).at
      <3>1. CASE EndIf
        BY <1>2, <1>3, <3>1 DEF EndIf, At
      <3>2. CASE EndCompound
        BY <1>2, <3>2 DEF EndCompound, At
      <3> QED
        BY <1>5, <3>1, <3>2
    <2>2. frames' = Front(frames) /\ controls' = controls
      BY <1>5 DEF EndIf, EndCompound
    <2>3. /\ \/ sel = NoBlock /\ cfg' = cfg
             \/ sel # NoBlock /\ \E K : K \subseteq Known /\ Extends(Ready, cfg', K, {}, {})
          /\ sel' \in {NoBlock} \cup Known \cup new
      BY <1>4, <2>1
    <2> QED
      BY <1>1, <2>2, <2>3, DeclClose
  <1>6. CASE EndThen
    <2> DEFINE after == Top.blockAfter
               join  == JoinAfter(after)
               f     == MkFrame("else", NoBlock, join.at, NoBlock)
    <2>1. /\ cfg' = Select(join, Top.blockFalse).g /\ sel' = Select(join, Top.blockFalse).at
          /\ frames' = Append(Front(frames), f) /\ controls' = controls
      BY <1>6 DEF EndThen, At
    <2>2. cfg' = join.g /\ sel' = Top.blockFalse
      BY <2>1, SelectLemma
    <2>3. after \in Ids /\ (after = NoBlock \/ after \in Known)
      BY <1>2, <1>3
    <2> HIDE DEF after
    <2>4. /\ \/ sel = NoBlock /\ cfg' = cfg
             \/ sel # NoBlock /\ \E K : K \subseteq Known /\ Extends(Ready, cfg', K, {}, {})
          /\ join.at \in {NoBlock} \cup Known \cup new /\ join.at \in Ids
      BY <1>4, <2>2, <2>3
    <2>5. "else" \in FrameKinds
      BY DEF FrameKinds
    <2> HIDE DEF join
    <2>6. f \in Frame /\ f.kind = "else" /\ f.blockFalse = NoBlock /\ f.blockAfter = join.at
      BY <1>2, <2>4, <2>5, MkFrameLemma
    <2> HIDE DEF f
    <2>7. HeldBy(f) = {NoBlock, join.at}
      BY <2>6, HeldByLemma
    <2>8. HeldBy(f) \subseteq {NoBlock} \cup Known \cup new
      BY <2>4, <2>7
    <2>9. sel' \in {NoBlock} \cup Known \cup new
      BY <1>2, <1>3, <2>2
    <2> QED
      BY <1>1, <2>1, <2>4, <2>6, <2>8, <2>9, DeclClose
  <1>7. CASE EndLoop
    <2>1. /\ controls # <<>> /\ sel' = Top.blockAfter
          /\ sel = NoBlock => cfg' = cfg
          /\ sel # NoBlock => Extends(Ready, cfg', {Last(controls).skip}, {}, {})
      BY <1>7, EndLoopGoes
    <2>2. frames' = Front(frames) /\ controls' = Front(controls)
      BY <1>7 DEF EndLoop
    <2>3. {Last(controls).skip} \subseteq Known
      BY <2>1, BlocksPopped DEF Known
    <2> DEFINE K == {Last(controls).skip}
    <2> HIDE DEF K
    <2>4. sel # NoBlock => K \subseteq Known /\ Extends(Ready, cfg', K, {}, {})
      BY <2>1, <2>3 DEF K
    <2>5. /\ \/ sel = NoBlock /\ cfg' = cfg
             \/ sel # NoBlock /\ \E M : M \subseteq Known /\ Extends(Ready, cfg', M, {}, {})
          /\ sel' \in {NoBlock} \cup Known \cup new
      BY <1>2, <1>3, <2>1, <2>4
    <2> QED
      BY <1>1, <2>1, <2>2, <2>5, DeclClose
  <1> QED
    BY <1>5, <1>6, <1>7

(* What no program without goto and switch does.                           *)
LEMMA NotStructured ==
    ASSUME Structured, TypeInv, NoSwitches, mode' # "error"
    PROVE  /\ \A e \in Exprs : ~InsertSwitchStatement(e)
           /\ \A l \in Labels : ~Goto(l)
           /\ \A v \in Vals : ~InsertCase(v)
           /\ ~InsertDefault /\ ~BadSwitch /\ ~EndSwitch /\ ~DispatchCase /\ ~DispatchDone
           /\ ~ResolveGoto
  <1>1. Switches = {}
    BY DEF Switches, LoopsOf, NoSwitches
  <1>2. frames # <<>> => Top.kind \notin {"switch", "dispatch"}
    BY StackFacts, StackLemma DEF Top, NoSwitches
  <1>3. \A e \in Exprs : ~InsertSwitchStatement(e)
    BY DEF InsertSwitchStatement, Nests, Opens, Structured
  <1>4. \A l \in Labels : ~Goto(l)
    BY DEF Goto, Opens, Structured
  <1>5. (\A v \in Vals : ~InsertCase(v)) /\ ~InsertDefault /\ ~BadSwitch
    BY <1>1 DEF InsertCase, InsertDefault, BadSwitch, SemanticError
  <1>6. ~EndSwitch /\ ~DispatchCase /\ ~DispatchDone /\ ~ResolveGoto
    BY <1>2 DEF EndSwitch, InFrame, DispatchCase, DispatchDone, ResolveGoto, NoSwitches
  <1> QED
    BY <1>3, <1>4, <1>5, <1>6

(* Every step keeps the allocations behind.                                *)
LEMMA DeclStep ==
    ASSUME Structured, TypeInv, BlockInv, NoSwitches, DeclInv, [Next]_vars
    PROVE  DeclInv'
  <1> SUFFICES ASSUME mode' # "error" PROVE DeclInv'
    BY DEF DeclInv
  <1>1. CASE UNCHANGED vars
    BY <1>1 DEF vars, DeclInv, Known, Past
  <1>2. ASSUME NEW void \in BOOLEAN, NEW params \in BOOLEAN, CreateFunction(void, params)
        PROVE  DeclInv'
    BY <1>2, DeclStart
  <1>3. ASSUME NEW e \in Exprs, ExprStmt(e) \/ Return(e) \/ InsertSwitchStatement(e)
        PROVE  DeclInv'
    BY <1>3, DeclSimple, NotStructured
  <1>4. ASSUME NEW e \in Exprs \cup {"none"}, InsertDeclaration(e) PROVE DeclInv'
    BY <1>4, DeclDeclaration
  <1>5. ASSUME NEW v \in UNION {scopes[k] : k \in DOMAIN scopes}, UseVariable(v)
        PROVE  DeclInv'
    BY <1>5, DeclSimple
  <1>6. ASSUME NEW e \in Exprs, NEW hasElse \in BOOLEAN, InsertIfStatement(e, hasElse)
        PROVE  DeclInv'
    BY <1>6, DeclIfCompound
  <1>7. ASSUME NEW e \in Exprs, NEW kind \in LoopKinds,
               InsertLoopStatement(kind, <<"none", "">>, e, "none")
        PROVE  DeclInv'
    <2> DEFINE init == <<"none", "">>
               act == "none"
    <2>1. init \in ForInits /\ kind \in {"while", "do", "for"} /\ act \in LastActs \cup {"none"}
          /\ InsertLoopStatement(kind, init, e, act)
      BY <1>7 DEF ForInits, LoopKinds
    <2> HIDE DEF init, act
    <2> QED
      BY <2>1, DeclLoop
  <1>8. ASSUME NEW e \in Exprs, NEW init \in ForInits, NEW act \in LastActs \cup {"none"},
               InsertLoopStatement("for", init, e, act)
        PROVE  DeclInv'
    <2> DEFINE kind == "for"
    <2>1. kind \in {"while", "do", "for"} /\ InsertLoopStatement(kind, init, e, act)
      BY <1>8
    <2> HIDE DEF kind
    <2> QED
      BY <2>1, DeclLoop
  <1>9. ASSUME NEW l \in Labels, Goto(l) \/ InsertLabel(l) PROVE DeclInv'
    BY <1>9, DeclSimple, NotStructured
  <1>10. CASE ReturnNothing \/ Break \/ Continue
    BY <1>10, DeclSimple
  <1>11. CASE InsertCompoundStatement
    BY <1>11, DeclIfCompound
  <1>12. CASE EndThen \/ EndIf \/ EndCompound \/ EndLoop
    BY <1>12, DeclEnding
  <1>13. CASE EndBody \/ FinishFunction
    BY <1>13, DeclEnd
  <1> QED
    BY <1>1, <1>2, <1>3, <1>4, <1>5, <1>6, <1>7, <1>8, <1>9, <1>10, <1>11, <1>12, <1>13,
       NotStructured DEF Next

-----------------------------------------------------------------------------
(* A block from which the walk only goes ahead is in no cycle.             *)
LEMMA DeclOutside ==
    ASSUME TypeInv, DeclInv
    PROVE  DeclaredOutsideLoops
  <1> SUFFICES ASSUME Finished, NEW b \in DOMAIN cfg, InCycle(b),
                      NEW k \in DOMAIN cfg[b].body, cfg[b].body[k].op = "alloca"
               PROVE  FALSE
    BY DEF DeclaredOutsideLoops
  <1>1. b \in Allocs(cfg)
    BY DEF Allocs
  <1>2. PICK S : Ahead(cfg, b, S)
    BY <1>1 DEF DeclInv, Finished
  <1>3. S \subseteq DOMAIN cfg /\ b \notin S /\ Succs(b) \subseteq S
        /\ \A p \in S : Succs(p) \subseteq S
    BY <1>2 DEF Ahead, Arcs, Succs
  <1>4. Len(cfg) \in Nat
    BY Setting, LenProperties DEF Graph
  <1> DEFINE start == Succs(b)
             avoid == {}
  <1>5. start \ avoid \subseteq S /\ \A p \in S : Succs(p) \ avoid \subseteq S
    BY <1>3
  <1>6. b \in ReachAvoiding(start, avoid)
    BY DEF InCycle
  <1> HIDE DEF start, avoid
  <1>7. ReachAvoiding(start, avoid) \subseteq S
    BY <1>4, <1>5, ReachInside
  <1> QED
    BY <1>3, <1>6, <1>7

(***************************************************************************)
(* In a program without goto and switch no variable is allocated on a      *)
(* cycle of its function's graph, whatever the depth of the loops and the  *)
(* order of the statements: insertDeclaration moves each allocation to the *)
(* block before the outermost active loop (generator.cpp:307-316), and     *)
(* that block never comes round again.                                     *)
(***************************************************************************)
THEOREM AllocationsOutsideLoops == ASSUME Structured PROVE Spec => []DeclaredOutsideLoops
  <1> DEFINE Inv == TypeInv /\ BlockInv /\ NoSwitches /\ DeclInv
  <1>1. Init => Inv
    <2> SUFFICES ASSUME Init PROVE Inv
      OBVIOUS
    <2>1. TypeInv /\ BlockInv
      BY InitStep, BlockInit
    <2>2. mode = "idle" /\ cfg = <<>> /\ frames = <<>> /\ controls = <<>> /\ dangling = <<>>
      BY DEF Init
    <2>3. NoSwitches
      BY <2>2 DEF NoSwitches
    <2>4. DeclInv
      BY <2>2 DEF DeclInv, Allocs
    <2> QED
      BY <2>1, <2>3, <2>4
  <1>2. Inv /\ [Next]_vars => Inv'
    <2> SUFFICES ASSUME TypeInv, BlockInv, NoSwitches, DeclInv, [Next]_vars PROVE Inv'
      OBVIOUS
    <2>1. Straight
      BY DEF Structured
    <2>2. BlockInv'
      BY <2>1, BlockStep DEF Advances
    <2> QED
      BY <2>2, NextStep, NoSwitchesStep, DeclStep
  <1>3. Inv => DeclaredOutsideLoops
    BY DeclOutside
  <1> QED
    BY <1>1, <1>2, <1>3, PTL DEF Spec
=============================================================================
