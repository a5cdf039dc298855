-------------------------- MODULE IRGenerator_blocks --------------------------
(***************************************************************************)
(* Proofs about the blocks of the graph the IR generator builds: each one  *)
(* is finished once, by the handler that holds it, and none is lost.       *)
(*                                                                         *)
(* The argument is an account of the blocks.  At any time a block is the   *)
(* selected one, or held by one interrupted handler, or waits for a label, *)
(* or is one of the two kinds a switch abandons, or is finished; each      *)
(* operation on a graph moves one block from one part to another.          *)
(*                                                                         *)
(* The last part is about the scopes the handlers enter and leave.         *)
(***************************************************************************)
EXTENDS IRGenerator_proofs, FiniteSetTheorems

(* A goto whose label is not met yet; the end of a switch body.            *)
IsWaiting(blk) == blk.term = "JUMP" /\ blk.next = <<>>
IsLinked(blk)  == blk.term = "none" /\ Len(blk.next) = 1

Accounted(g, at, held, waiting, fell, orphaned) ==
    /\ at # NoBlock => at \in DOMAIN g /\ IsOpen(g[at]) /\ at \notin held \cup orphaned
    /\ \A b \in held : b \in DOMAIN g /\ IsOpen(g[b]) /\ b \notin orphaned
    /\ \A b \in orphaned : b \in DOMAIN g /\ IsOpen(g[b])
    /\ \A b \in waiting : b \in DOMAIN g /\ IsWaiting(g[b])
    /\ \A b \in fell : b \in DOMAIN g /\ IsLinked(g[b])
    /\ \A b \in DOMAIN g :
          b = at \/ b \in held \cup waiting \cup fell \cup orphaned \/ IsSealed(g[b])

(* A finished block stays as it is in the graph that follows.              *)
Keeps(g, h) ==
    /\ Len(h) >= Len(g)
    /\ \A b \in DOMAIN g : IsSealed(g[b]) => SameArcs(h[b], g[b])

(* A position, possibly with no block selected, on the way of a handler    *)
(* from the graph it found.                                                *)
Sound(s, held, waiting, fell, orphaned) ==
    /\ s.g \in Graph
    /\ Keeps(cfg, s.g)
    /\ Accounted(s.g, s.at, held, waiting, fell, orphaned)

-----------------------------------------------------------------------------
(* The moves. *)

(* What becomes of a block depends on its arcs and its terminator only.    *)
LEMMA StageFacts ==
    ASSUME NEW x, NEW y, SameArcs(x, y)
    PROVE  /\ IsOpen(x) <=> IsOpen(y)
           /\ IsSealed(x) <=> IsSealed(y)
           /\ IsWaiting(x) <=> IsWaiting(y)
           /\ IsLinked(x) <=> IsLinked(y)
  BY DEF SameArcs, IsOpen, IsSealed, IsWaiting, IsLinked

(* No block is in two stages. *)
LEMMA StagesApart ==
    ASSUME NEW x
    PROVE  /\ IsOpen(x) => ~IsSealed(x) /\ ~IsWaiting(x) /\ ~IsLinked(x)
           /\ IsWaiting(x) => ~IsSealed(x) /\ ~IsLinked(x)
           /\ IsLinked(x) => ~IsSealed(x)
  <1>1. Len(<<>>) = 0
    OBVIOUS
  <1> QED
    BY <1>1 DEF IsOpen, IsSealed, IsWaiting, IsLinked, Arity

(* Finished blocks that stay through two steps stay through both.          *)
LEMMA KeepsStep ==
    ASSUME NEW g \in Graph, NEW h \in Graph, NEW k \in Graph, Keeps(g, h), Keeps(h, k)
    PROVE  Keeps(g, k)
  <1>1. /\ DOMAIN g = 1..Len(g) /\ DOMAIN h = 1..Len(h)
        /\ Len(g) \in Nat /\ Len(h) \in Nat /\ Len(k) \in Nat
    BY LenProperties DEF Graph
  <1>2. Len(k) >= Len(g) /\ DOMAIN g \subseteq DOMAIN h
    BY <1>1 DEF Keeps
  <1>3. ASSUME NEW b \in DOMAIN g, IsSealed(g[b]) PROVE SameArcs(k[b], g[b])
    <2>1. SameArcs(h[b], g[b]) /\ b \in DOMAIN h
      BY <1>2, <1>3 DEF Keeps
    <2>2. IsSealed(h[b])
      BY <1>3, <2>1, StageFacts
    <2>3. SameArcs(k[b], h[b])
      BY <2>1, <2>2 DEF Keeps
    <2> QED
      BY <2>1, <2>3 DEF SameArcs
  <1> QED
    BY <1>2, <1>3 DEF Keeps

(* The blocks of a graph, and where a sound position may be.               *)
LEMMA SoundFacts ==
    ASSUME NEW s, NEW H, NEW W, NEW F, NEW O, Sound(s, H, W, F, O), cfg \in Graph
    PROVE  /\ s.g \in Graph /\ DOMAIN s.g = 1..Len(s.g) /\ Len(s.g) \in Nat
           /\ Len(cfg) \in Nat /\ Len(s.g) >= Len(cfg) /\ NoBlock \notin DOMAIN s.g
           /\ Len(s.g) + 1 \notin DOMAIN s.g
           /\ s.at # NoBlock => /\ Position(s) /\ IsOpen(s.g[s.at])
                                /\ s.at \in Nat /\ s.at \notin H /\ s.at \notin O
                                /\ s.at \notin W /\ s.at \notin F
           /\ H \subseteq DOMAIN s.g /\ O \subseteq DOMAIN s.g
           /\ W \subseteq DOMAIN s.g /\ F \subseteq DOMAIN s.g
  <1>1. /\ s.g \in Graph /\ DOMAIN s.g = 1..Len(s.g) /\ Len(s.g) \in Nat
        /\ Len(cfg) \in Nat /\ Len(s.g) >= Len(cfg)
    BY LenProperties DEF Graph, Sound, Keeps
  <1>2. s.at # NoBlock => s.at \notin W /\ s.at \notin F
    BY StagesApart DEF Sound, Accounted
  <1> QED
    BY <1>1, <1>2 DEF Sound, Accounted, Position, NoBlock

(* A step of the graph that changes the arcs of no block. *)
LEMMA SoundSame ==
    ASSUME NEW s, NEW H, NEW W, NEW F, NEW O, Sound(s, H, W, F, O), cfg \in Graph,
           NEW r, r.g \in Graph, Len(r.g) = Len(s.g), r.at = s.at,
           \A c \in DOMAIN s.g : SameArcs(r.g[c], s.g[c])
    PROVE  Sound(r, H, W, F, O)
  <1>1. DOMAIN r.g = DOMAIN s.g /\ Len(s.g) \in Nat
    BY SoundFacts, LenProperties DEF Graph
  <1>2. Keeps(s.g, r.g)
    BY <1>1 DEF Keeps
  <1>3. Keeps(cfg, r.g)
    BY <1>2, KeepsStep DEF Sound
  <1>4. Accounted(r.g, r.at, H, W, F, O)
    BY <1>1, StageFacts DEF Sound, Accounted
  <1> QED
    BY <1>3, <1>4 DEF Sound

(* ... and one that moves only the selected block to another stage. *)
LEMMA SoundMove ==
    ASSUME NEW s, NEW H, NEW W, NEW F, NEW O, Sound(s, H, W, F, O), cfg \in Graph,
           s.at # NoBlock, NEW r, r.g \in Graph, Len(r.g) = Len(s.g), r.at = NoBlock,
           \A c \in DOMAIN s.g : c # s.at => SameArcs(r.g[c], s.g[c]),
           NEW V, NEW E,
           \/ IsSealed(r.g[s.at]) /\ V = W /\ E = F
           \/ IsWaiting(r.g[s.at]) /\ V = W \cup {s.at} /\ E = F
           \/ IsLinked(r.g[s.at]) /\ V = W /\ E = F \cup {s.at}
    PROVE  Sound(r, H, V, E, O)
  <1>1. /\ DOMAIN r.g = DOMAIN s.g /\ Len(s.g) \in Nat /\ s.at \in DOMAIN s.g
        /\ IsOpen(s.g[s.at]) /\ s.at \notin H /\ s.at \notin O
    BY SoundFacts, LenProperties DEF Graph, Position
  <1>2. s.at \notin W /\ s.at \notin F
    BY SoundFacts
  <1>3. Keeps(s.g, r.g)
    <2>1. \A b \in DOMAIN s.g : IsSealed(s.g[b]) => b # s.at
      BY <1>1, StagesApart
    <2> QED
      BY <1>1, <2>1 DEF Keeps
  <1>4. Keeps(cfg, r.g)
    BY <1>3, KeepsStep DEF Sound
  <1>5. \A b \in DOMAIN s.g : b # s.at =>
            /\ IsOpen(r.g[b]) <=> IsOpen(s.g[b])
            /\ IsSealed(r.g[b]) <=> IsSealed(s.g[b])
            /\ IsWaiting(r.g[b]) <=> IsWaiting(s.g[b])
            /\ IsLinked(r.g[b]) <=> IsLinked(s.g[b])
    BY StageFacts
  <1>6. Accounted(r.g, NoBlock, H, V, E, O)
    <2>1. \A b \in H : b \in DOMAIN r.g /\ IsOpen(r.g[b]) /\ b \notin O
      BY <1>1, <1>5 DEF Sound, Accounted
    <2>2. \A b \in O : b \in DOMAIN r.g /\ IsOpen(r.g[b])
      BY <1>1, <1>5 DEF Sound, Accounted
    <2>3. \A b \in V : b \in DOMAIN r.g /\ IsWaiting(r.g[b])
      BY <1>1, <1>2, <1>5 DEF Sound, Accounted
    <2>4. \A b \in E : b \in DOMAIN r.g /\ IsLinked(r.g[b])
      BY <1>1, <1>2, <1>5 DEF Sound, Accounted
    <2>5. \A b \in DOMAIN r.g :
              b = NoBlock \/ b \in H \cup V \cup E \cup O \/ IsSealed(r.g[b])
      BY <1>1, <1>5 DEF Sound, Accounted
    <2> QED
      BY <2>1, <2>2, <2>3, <2>4, <2>5 DEF Accounted
  <1> QED
    BY <1>4, <1>6 DEF Sound

(* A block that is created is held by the handler that created it.         *)
LEMMA SoundFresh ==
    ASSUME NEW s, NEW H, NEW W, NEW F, NEW O, Sound(s, H, W, F, O), cfg \in Graph
    PROVE  /\ Sound(Fresh(s), H \cup {Len(s.g) + 1}, W, F, O)
           /\ Fresh(s).at = s.at /\ Len(Fresh(s).g) = Len(s.g) + 1
           /\ Len(s.g) + 1 \notin H /\ s.at # Len(s.g) + 1 /\ NoBlock # Len(s.g) + 1
  <1> DEFINE n == Len(s.g)
             r == Fresh(s)
  <1>1. /\ s.g \in Graph /\ DOMAIN s.g = 1..n /\ n \in Nat /\ n + 1 \notin DOMAIN s.g
        /\ H \subseteq DOMAIN s.g /\ O \subseteq DOMAIN s.g
        /\ s.at # NoBlock => s.at \in DOMAIN s.g
    BY SoundFacts DEF Position
  <1>2. /\ r.g \in Graph /\ Len(r.g) = n + 1 /\ r.g[n + 1] = NewBlock
        /\ \A c \in DOMAIN s.g : r.g[c] = s.g[c]
    BY <1>1, CreateBlockLemma DEF Fresh
  <1>3. r.at = s.at
    BY DEF Fresh
  <1> HIDE DEF r
  <1>4. DOMAIN r.g = 1..(n + 1)
    BY <1>2, LenProperties DEF Graph
  <1>5. IsOpen(r.g[n + 1])
    BY <1>2 DEF IsOpen, NewBlock
  <1>6. Keeps(cfg, r.g)
    <2>1. Keeps(s.g, r.g)
      BY <1>1, <1>2 DEF Keeps, SameArcs
    <2> QED
      BY <1>1, <1>2, <2>1, KeepsStep DEF Sound
  <1> HIDE DEF n
  <1>7. DOMAIN r.g = DOMAIN s.g \cup {n + 1}
    BY <1>1, <1>4
  <1>8. Accounted(r.g, r.at, H \cup {n + 1}, W, F, O)
    BY <1>1, <1>2, <1>3, <1>5, <1>7 DEF Sound, Accounted
  <1>9. s.at # n + 1 /\ NoBlock # n + 1
    BY <1>1 DEF NoBlock
  <1> QED
    BY <1>1, <1>2, <1>3, <1>6, <1>8, <1>9 DEF Sound, n, r

(* A held block is selected, the selected one is held. *)
LEMMA SoundSelect ==
    ASSUME NEW s, NEW H, NEW W, NEW F, NEW O, Sound(s, H, W, F, O), cfg \in Graph
    PROVE  /\ s.at = NoBlock =>
                 \A b \in H : Sound(Select(s, b), H \ {b}, W, F, O)
           /\ s.at # NoBlock => Sound(Select(s, NoBlock), H \cup {s.at}, W, F, O)
           /\ s.at = NoBlock =>
                 \A b \in H : Sound(Select(s, NoBlock), H \ {b}, W, F, O \cup {b})
  <1>1. \A b : Select(s, b).g = s.g /\ Select(s, b).at = b
    BY SelectLemma
  <1>2. ASSUME s.at = NoBlock, NEW b \in H PROVE Sound(Select(s, b), H \ {b}, W, F, O)
    <2>1. NoBlock \notin DOMAIN s.g
      BY SoundFacts
    <2>2. \A c \in DOMAIN s.g : c \in H \cup W \cup F \cup O \/ IsSealed(s.g[c])
      BY <1>2, <2>1 DEF Sound, Accounted
    <2>3. Accounted(s.g, b, H \ {b}, W, F, O)
      BY <1>2, <2>2 DEF Sound, Accounted
    <2> QED
      BY <1>1, <2>3 DEF Sound
  <1>3. ASSUME s.at # NoBlock PROVE Sound(Select(s, NoBlock), H \cup {s.at}, W, F, O)
    BY <1>1, <1>3 DEF Sound, Accounted
  <1>4. ASSUME s.at = NoBlock, NEW b \in H
        PROVE  Sound(Select(s, NoBlock), H \ {b}, W, F, O \cup {b})
    BY <1>1, <1>4 DEF Sound, Accounted
  <1> QED
    BY <1>2, <1>3, <1>4

(* A jump or a branch, after which nothing or a held block is selected.     *)
LEMMA SoundSeal ==
    ASSUME NEW s, NEW H, NEW W, NEW F, NEW O, Sound(s, H, W, F, O), cfg \in Graph,
           s.at # NoBlock, NEW r, r.g \in Graph, Len(r.g) = Len(s.g), IsSealed(r.g[s.at]),
           \A c \in DOMAIN s.g : c # s.at => SameArcs(r.g[c], s.g[c])
    PROVE  /\ Sound(Select(r, NoBlock), H, W, F, O)
           /\ \A b \in H : Sound(Select(r, b), H \ {b}, W, F, O)
  <1> DEFINE x == Select(r, NoBlock)
  <1>1. x.g = r.g /\ x.at = NoBlock
    BY SelectLemma
  <1>2. \A b : Select(x, b) = Select(r, b)
    BY DEF Select
  <1> HIDE DEF x
  <1>3. Sound(x, H, W, F, O)
    BY <1>1, SoundMove
  <1>4. \A b \in H : Sound(Select(x, b), H \ {b}, W, F, O)
    BY <1>1, <1>3, SoundSelect
  <1> QED
    BY <1>2, <1>3, <1>4 DEF x

(* The selected block ends in a jump to a block that is held.              *)
LEMMA SoundJump ==
    ASSUME NEW s, NEW H, NEW W, NEW F, NEW O, Sound(s, H, W, F, O), cfg \in Graph,
           s.at # NoBlock, NEW to \in Ids
    PROVE  /\ Sound(Select(JumpTo(s, to), NoBlock), H, W, F, O)
           /\ \A b \in H : Sound(Select(JumpTo(s, to), b), H \ {b}, W, F, O)
           /\ Len(JumpTo(s, to).g) = Len(s.g)
  <1> DEFINE r == JumpTo(s, to)
  <1>1. Position(s) /\ IsOpen(s.g[s.at])
    BY SoundFacts
  <1>2. /\ Position(r) /\ Len(r.g) = Len(s.g) /\ IsSealed(r.g[s.at])
        /\ \A c \in DOMAIN s.g : c # s.at => SameArcs(r.g[c], s.g[c])
    BY <1>1, JumpLemma
  <1> HIDE DEF r
  <1>3. r.g \in Graph
    BY <1>2 DEF Position
  <1>4. /\ Sound(Select(r, NoBlock), H, W, F, O)
        /\ \A b \in H : Sound(Select(r, b), H \ {b}, W, F, O)
    BY <1>2, <1>3, SoundSeal
  <1> QED
    BY <1>2, <1>4 DEF r

(* The selected block ends in a branch to two blocks that are held.        *)
LEMMA SoundBranch ==
    ASSUME NEW s, NEW H, NEW W, NEW F, NEW O, Sound(s, H, W, F, O), cfg \in Graph,
           s.at # NoBlock, NEW one \in Ids, NEW other \in Ids
    PROVE  /\ Sound(Select(BranchTo(s, one, other), NoBlock), H, W, F, O)
           /\ \A b \in H : Sound(Select(BranchTo(s, one, other), b), H \ {b}, W, F, O)
           /\ Len(BranchTo(s, one, other).g) = Len(s.g)
  <1> DEFINE r == BranchTo(s, one, other)
  <1>1. Position(s) /\ IsOpen(s.g[s.at])
    BY SoundFacts
  <1>2. /\ Position(r) /\ Len(r.g) = Len(s.g) /\ IsSealed(r.g[s.at])
        /\ \A c \in DOMAIN s.g : c # s.at => SameArcs(r.g[c], s.g[c])
    BY <1>1, BranchLemma
  <1> HIDE DEF r
  <1>3. r.g \in Graph
    BY <1>2 DEF Position
  <1>4. /\ Sound(Select(r, NoBlock), H, W, F, O)
        /\ \A b \in H : Sound(Select(r, b), H \ {b}, W, F, O)
    BY <1>2, <1>3, SoundSeal
  <1> QED
    BY <1>2, <1>4 DEF r

(* A terminator without an arc: a return finishes the block, a goto to a   *)
(* label not met yet leaves it waiting.                                    *)
LEMMA SoundTerminate ==
    ASSUME NEW s, NEW H, NEW W, NEW F, NEW O, Sound(s, H, W, F, O), cfg \in Graph,
           s.at # NoBlock
    PROVE  /\ Sound([g |-> SetTerminator(s.g, s.at, "RET"), at |-> NoBlock], H, W, F, O)
           /\ Sound([g |-> SetTerminator(s.g, s.at, "JUMP"), at |-> NoBlock],
                    H, W \cup {s.at}, F, O)
  <1> DEFINE Closed(t) == [g |-> SetTerminator(s.g, s.at, t), at |-> NoBlock]
  <1>1. s.g \in Graph /\ s.at \in DOMAIN s.g /\ s.g[s.at].next = <<>>
    BY SoundFacts DEF Position, IsOpen
  <1>2. ASSUME NEW t \in {"RET", "JUMP"}
        PROVE  /\ t = "RET" => Sound(Closed(t), H, W, F, O)
               /\ t = "JUMP" => Sound(Closed(t), H, W \cup {s.at}, F, O)
    <2> DEFINE r == Closed(t)
    <2>1. /\ r.g \in Graph /\ Len(r.g) = Len(s.g) /\ r.g[s.at].term = t
          /\ r.g[s.at].next = s.g[s.at].next
          /\ \A c \in DOMAIN s.g : c # s.at => r.g[c] = s.g[c]
      <3>1. t \in TermTypes
        BY DEF TermTypes
      <3> QED
        BY <1>1, <3>1, SetTerminatorLemma
    <2>2. r.at = NoBlock
      OBVIOUS
    <2> HIDE DEF r
    <2>3. t = "RET" => IsSealed(r.g[s.at])
      BY <1>1, <2>1 DEF IsSealed, Arity
    <2>4. t = "JUMP" => IsWaiting(r.g[s.at])
      BY <1>1, <2>1 DEF IsWaiting
    <2>5. \A c \in DOMAIN s.g : c # s.at => SameArcs(r.g[c], s.g[c])
      BY <2>1 DEF SameArcs
    <2>6. t = "RET" => Sound(r, H, W, F, O)
      BY <2>1, <2>2, <2>3, <2>5, SoundMove
    <2>7. t = "JUMP" => Sound(r, H, W \cup {s.at}, F, O)
      BY <2>1, <2>2, <2>4, <2>5, SoundMove
    <2> QED
      BY <2>6, <2>7 DEF r
  <1> HIDE DEF Closed
  <1>3. Sound(Closed("RET"), H, W, F, O)
    BY <1>2
  <1>4. Sound(Closed("JUMP"), H, W \cup {s.at}, F, O)
    BY <1>2
  <1> QED
    BY <1>3, <1>4 DEF Closed

(* The arc alone: the end of a switch body.                                *)
LEMMA SoundLink ==
    ASSUME NEW s, NEW H, NEW W, NEW F, NEW O, Sound(s, H, W, F, O), cfg \in Graph,
           s.at # NoBlock, NEW to \in Ids
    PROVE  Sound([g |-> LinkBlocks(s.g, s.at, to), at |-> NoBlock], H, W, F \cup {s.at}, O)
  <1> DEFINE r == [g |-> LinkBlocks(s.g, s.at, to), at |-> NoBlock]
  <1>1. s.g \in Graph /\ s.at \in DOMAIN s.g /\ s.g[s.at].next = <<>> /\ s.g[s.at].term = "none"
    BY SoundFacts DEF Position, IsOpen
  <1>2. /\ r.g \in Graph /\ Len(r.g) = Len(s.g) /\ r.g[s.at].term = s.g[s.at].term
        /\ r.g[s.at].next = Append(s.g[s.at].next, to)
        /\ \A c \in DOMAIN s.g : c # s.at => SameArcs(r.g[c], s.g[c])
    BY <1>1, LinkBlocksLemma
  <1>3. r.at = NoBlock
    OBVIOUS
  <1> HIDE DEF r
  <1>4. IsLinked(r.g[s.at])
    BY <1>1, <1>2 DEF IsLinked, Ids
  <1>5. Sound(r, H, W, F \cup {s.at}, O)
    BY <1>2, <1>3, <1>4, SoundMove
  <1> QED
    BY <1>5 DEF r

(* The evaluation of an expression finishes every block but the last.      *)
LEMMA SoundEval ==
    ASSUME NEW s, NEW H, NEW W, NEW F, NEW O, Sound(s, H, W, F, O), cfg \in Graph,
           s.at # NoBlock, NEW e \in AllExprs \ {"condAnd"}, NEW i \in Nat
    PROVE  LET r == Eval(e, s, i)
           IN  Sound(r, H, W, F, O) /\ r.at # NoBlock /\ Len(r.g) >= Len(s.g)
  <1> DEFINE r == Eval(e, s, i)
             n == Len(s.g)
  <1>1. /\ Position(s) /\ IsOpen(s.g[s.at]) /\ DOMAIN s.g = 1..n /\ n \in Nat
        /\ s.at \notin H /\ s.at \notin O /\ s.at \in Nat
        /\ H \subseteq DOMAIN s.g /\ O \subseteq DOMAIN s.g /\ s.g \in Graph
        /\ s.at \in DOMAIN s.g
    BY SoundFacts DEF Position
  <1>2. Position(r) /\ Result(s, r)
    BY <1>1, EvalLemma
  <1> HIDE DEF r
  <1>3. Grows(s, r) /\ Len(r.g) >= n
    BY <1>1, <1>2 DEF Result
  <1>4. /\ r.g \in Graph /\ r.at \in DOMAIN r.g /\ DOMAIN r.g = 1..Len(r.g) /\ r.at \in Nat
        /\ Len(r.g) \in Nat /\ r.at # NoBlock
    BY <1>2, PositionFacts DEF NoBlock, Position
  <1>5. s.at \notin W /\ s.at \notin F
    BY SoundFacts
  <1>6. /\ \A b \in DOMAIN s.g : b # s.at => SameArcs(r.g[b], s.g[b])
        /\ \A b \in DOMAIN s.g : b # s.at => b # r.at
        /\ r.at = s.at \/ IsSealed(r.g[s.at])
        /\ \A b \in DOMAIN r.g : b \notin DOMAIN s.g => b = r.at \/ IsSealed(r.g[b])
        /\ DOMAIN s.g \subseteq DOMAIN r.g /\ IsOpen(r.g[r.at])
    <2>1. \A b \in DOMAIN r.g : b \notin DOMAIN s.g => b > n
      BY <1>1, <1>4
    <2>2. r.at = s.at \/ r.at > n
      BY <1>3 DEF Grows
    <2>3. \A b \in DOMAIN s.g : ~(b > n)
      BY <1>1
    <2> QED
      BY <1>1, <1>3, <1>4, <2>1, <2>2, <2>3 DEF Grows
  <1> HIDE DEF n
  <1>7. Keeps(cfg, r.g)
    <2>1. \A b \in DOMAIN s.g : IsSealed(s.g[b]) => b # s.at
      BY <1>1, StagesApart
    <2>2. Keeps(s.g, r.g)
      BY <1>3, <1>6, <2>1 DEF Keeps, n
    <2> QED
      BY <1>1, <1>4, <2>2, KeepsStep DEF Sound
  <1>8. \A b \in DOMAIN s.g : b # s.at =>
            /\ IsOpen(r.g[b]) <=> IsOpen(s.g[b])
            /\ IsSealed(r.g[b]) <=> IsSealed(s.g[b])
            /\ IsWaiting(r.g[b]) <=> IsWaiting(s.g[b])
            /\ IsLinked(r.g[b]) <=> IsLinked(s.g[b])
    BY <1>6, StageFacts
  <1>9. Accounted(r.g, r.at, H, W, F, O)
    <2>1. r.at \notin H /\ r.at \notin O
      BY <1>1, <1>6
    <2>2. \A b \in H : b \in DOMAIN r.g /\ IsOpen(r.g[b]) /\ b \notin O
      BY <1>1, <1>6, <1>8 DEF Sound, Accounted
    <2>3. \A b \in O : b \in DOMAIN r.g /\ IsOpen(r.g[b])
      BY <1>1, <1>6, <1>8 DEF Sound, Accounted
    <2>4. \A b \in W : b \in DOMAIN r.g /\ IsWaiting(r.g[b])
      BY <1>5, <1>6, <1>8 DEF Sound, Accounted
    <2>5. \A b \in F : b \in DOMAIN r.g /\ IsLinked(r.g[b])
      BY <1>5, <1>6, <1>8 DEF Sound, Accounted
    <2>6. ASSUME NEW b \in DOMAIN r.g
          PROVE  b = r.at \/ b \in H \cup W \cup F \cup O \/ IsSealed(r.g[b])
      <3>1. CASE b \notin DOMAIN s.g
        BY <1>6, <3>1
      <3>2. CASE b = s.at
        BY <1>6, <3>2
      <3>3. CASE b \in DOMAIN s.g /\ b # s.at
        BY <1>8, <3>3 DEF Sound, Accounted
      <3> QED
        BY <3>1, <3>2, <3>3
    <2> QED
      BY <1>4, <1>6, <2>1, <2>2, <2>3, <2>4, <2>5, <2>6 DEF Accounted
  <1>10. Sound(r, H, W, F, O) /\ r.at # NoBlock /\ Len(r.g) >= Len(s.g)
    BY <1>3, <1>4, <1>7, <1>9 DEF Sound, n
  <1> QED
    BY <1>10 DEF r

-----------------------------------------------------------------------------
(* The blocks the interrupted handlers hold. *)

HeldIn(fs) == (UNION {HeldBy(fs[k]) : k \in DOMAIN fs}) \ {NoBlock}

(* The blocks a frame holds are different blocks ...                       *)
Shaped(f) ==
    /\ f.kind # "then" => f.blockFalse = NoBlock
    /\ f.kind = "compound" => f.blockAfter = NoBlock
    /\ f.blockFalse # NoBlock => f.blockFalse # f.blockAfter
    /\ f.kind = "switch" => f.entry # f.blockAfter

(* ... and so are those of different frames.                               *)
Apart(fs) ==
    /\ \A k \in DOMAIN fs : Shaped(fs[k])
    /\ \A j, k \in DOMAIN fs : j # k => HeldBy(fs[j]) \cap HeldBy(fs[k]) \subseteq {NoBlock}

(* A block a frame keeps is held.                                          *)
LEMMA HeldMember ==
    ASSUME NEW fs
    PROVE  \A b : b \in HeldIn(fs) <=> b # NoBlock /\ \E k \in DOMAIN fs : b \in HeldBy(fs[k])
  <1> DEFINE S == {HeldBy(fs[k]) : k \in DOMAIN fs}
  <1>1. \A x : x \in S <=> \E k \in DOMAIN fs : x = HeldBy(fs[k])
    OBVIOUS
  <1>2. HeldIn(fs) = (UNION S) \ {NoBlock}
    BY DEF HeldIn
  <1> HIDE DEF S
  <1>3. \A b : b \in UNION S <=> \E k \in DOMAIN fs : b \in HeldBy(fs[k])
    <2>1. \A b : b \in UNION S <=> \E x \in S : b \in x
      OBVIOUS
    <2> QED
      BY <1>1, <2>1
  <1> QED
    BY <1>2, <1>3

(* A frame is pushed, and popped.                                          *)
LEMMA HeldPush ==
    ASSUME NEW fs \in Seq(Frame), NEW f \in Frame
    PROVE  /\ HeldIn(Append(fs, f)) = HeldIn(fs) \cup (HeldBy(f) \ {NoBlock})
           /\ Apart(fs) /\ Shaped(f) /\ HeldBy(f) \cap HeldIn(fs) = {} =>
                 Apart(Append(fs, f))
  <1> DEFINE n == Len(fs)
             gs == Append(fs, f)
  <1>1. /\ n \in Nat /\ DOMAIN fs = 1..n /\ DOMAIN gs = 1..(n + 1) /\ gs[n + 1] = f
        /\ \A k \in 1..n : gs[k] = fs[k]
    BY PushLemma
  <1> HIDE DEF gs
  <1>2. DOMAIN gs = DOMAIN fs \cup {n + 1} /\ n + 1 \notin DOMAIN fs
    BY <1>1
  <1>3. \A k \in DOMAIN fs : gs[k] = fs[k]
    BY <1>1
  <1> HIDE DEF n
  <1>4. HeldIn(gs) = HeldIn(fs) \cup (HeldBy(f) \ {NoBlock})
    <2>1. \A b : b \in HeldIn(gs) <=> b \in HeldIn(fs) \/ b \in HeldBy(f) \ {NoBlock}
      BY <1>1, <1>2, <1>3, HeldMember
    <2> QED
      BY <2>1
  <1>5. ASSUME Apart(fs), Shaped(f), HeldBy(f) \cap HeldIn(fs) = {}
        PROVE  Apart(gs)
    <2>1. \A k \in DOMAIN gs : Shaped(gs[k])
      BY <1>1, <1>2, <1>3, <1>5 DEF Apart
    <2>2. \A k \in DOMAIN fs : HeldBy(f) \cap HeldBy(fs[k]) \subseteq {NoBlock}
      BY <1>5, HeldMember
    <2>3. ASSUME NEW j \in DOMAIN gs, NEW k \in DOMAIN gs, j # k
          PROVE  HeldBy(gs[j]) \cap HeldBy(gs[k]) \subseteq {NoBlock}
      <3>1. CASE j \in DOMAIN fs /\ k \in DOMAIN fs
        BY <1>3, <1>5, <2>3, <3>1 DEF Apart
      <3>2. CASE j = n + 1
        BY <1>1, <1>2, <1>3, <2>2, <2>3, <3>2
      <3>3. CASE k = n + 1
        BY <1>1, <1>2, <1>3, <2>2, <2>3, <3>3
      <3> QED
        BY <1>2, <3>1, <3>2, <3>3
    <2> QED
      BY <2>1, <2>3 DEF Apart
  <1> QED
    BY <1>4, <1>5 DEF gs

(* The blocks of the frames below the top one are held by them alone.      *)
LEMMA HeldPop ==
    ASSUME NEW fs \in Seq(Frame), fs # <<>>
    PROVE  /\ HeldIn(fs) = HeldIn(Front(fs)) \cup (HeldBy(Last(fs)) \ {NoBlock})
           /\ Apart(fs) => /\ Apart(Front(fs)) /\ Shaped(Last(fs))
                           /\ HeldBy(Last(fs)) \cap HeldIn(Front(fs)) = {}
  <1> DEFINE n == Len(fs)
             gs == Front(fs)
             f == Last(fs)
  <1>1. /\ n \in Nat \ {0} /\ DOMAIN fs = 1..n /\ f = fs[n] /\ gs \in Seq(Frame)
        /\ Len(gs) = n - 1 /\ \A k \in 1..(n - 1) : gs[k] = fs[k]
    BY StackLemma
  <1> HIDE DEF gs, f
  <1>2. DOMAIN gs = 1..(n - 1)
    BY <1>1, LenProperties
  <1>3. /\ DOMAIN fs = DOMAIN gs \cup {n} /\ n \notin DOMAIN gs
        /\ \A k \in DOMAIN gs : gs[k] = fs[k]
    BY <1>1, <1>2
  <1> HIDE DEF n
  <1>4. HeldIn(fs) = HeldIn(gs) \cup (HeldBy(f) \ {NoBlock})
    <2>1. \A b : b \in HeldIn(fs) <=> b \in HeldIn(gs) \/ b \in HeldBy(f) \ {NoBlock}
      BY <1>1, <1>3, HeldMember
    <2> QED
      BY <2>1
  <1>5. ASSUME Apart(fs)
        PROVE  Apart(gs) /\ Shaped(f) /\ HeldBy(f) \cap HeldIn(gs) = {}
    <2>1. \A k \in DOMAIN gs : HeldBy(f) \cap HeldBy(gs[k]) \subseteq {NoBlock}
      BY <1>1, <1>3, <1>5 DEF Apart
    <2>2. HeldBy(f) \cap HeldIn(gs) = {}
      BY <2>1, HeldMember
    <2>3. Apart(gs) /\ Shaped(f)
      BY <1>1, <1>3, <1>5 DEF Apart
    <2> QED
      BY <2>2, <2>3
  <1> QED
    BY <1>4, <1>5 DEF gs, f

-----------------------------------------------------------------------------
(* The invariant. *)

(* The block instructions are added to, and those gotos wait in.           *)
Current == IF mode \in {"body", "dispatch"} THEN sel ELSE NoBlock
Waiting == {dangling[k].block : k \in DOMAIN dangling}

WaitOnce(ds) == \A j, k \in DOMAIN ds : ds[j].block = ds[k].block => j = k

BlockInv ==
    mode # "error" =>
        /\ Accounted(cfg, Current, HeldIn(frames), Waiting, fellOff, orphans)
        /\ Apart(frames)
        /\ WaitOnce(dangling)

(* What each step does: it keeps the account, and finished blocks as they  *)
(* are unless it starts another function.                                  *)
Advances == BlockInv' /\ (funcs' = funcs => Keeps(cfg, cfg'))

(* A position on the way of a handler that only adds and finishes blocks.  *)
SoundNow(s, held) == Sound(s, held, Waiting, fellOff, orphans)

(* The start of a handler.                                                 *)
LEMMA StartLemma ==
    ASSUME TypeInv, BlockInv, mode # "error"
    PROVE  /\ SoundNow([g |-> cfg, at |-> Current], HeldIn(frames))
           /\ cfg \in Graph /\ frames \in Seq(Frame) /\ Apart(frames) /\ WaitOnce(dangling)
  <1>1. cfg \in Graph /\ frames \in Seq(Frame)
    BY DEF TypeInv, TypeOK
  <1>2. Keeps(cfg, cfg)
    BY <1>1, LenProperties DEF Keeps, SameArcs, Graph
  <1> QED
    BY <1>1, <1>2 DEF BlockInv, SoundNow, Sound

(* fillBlock: the selected block, or a new one.                            *)
LEMMA ReadySound ==
    ASSUME TypeInv, BlockInv, mode = "body"
    PROVE  SoundNow(Ready, HeldIn(frames)) /\ Ready.at # NoBlock
  <1> DEFINE s == [g |-> cfg, at |-> Current]
             n == Len(s.g) + 1
  <1>1. /\ SoundNow(s, HeldIn(frames)) /\ cfg \in Graph /\ s.at = sel /\ s.g = cfg
        /\ Ready = IF sel = NoBlock THEN Select(Fresh(s), n) ELSE s
    BY StartLemma DEF Current, Ready, NewId, Select, Fresh
  <1> HIDE DEF s
  <1>2. CASE sel # NoBlock
    BY <1>1, <1>2
  <1>3. CASE sel = NoBlock
    <2> DEFINE H == HeldIn(frames)
               r == Fresh(s)
    <2>1. /\ Sound(r, H \cup {n}, Waiting, fellOff, orphans) /\ r.at = NoBlock
          /\ n \notin H /\ n # NoBlock
      BY <1>1, <1>3, SoundFresh DEF SoundNow
    <2> HIDE DEF r, H, n
    <2>2. Sound(Select(r, n), (H \cup {n}) \ {n}, Waiting, fellOff, orphans)
      BY <1>1, <2>1, SoundSelect
    <2>3. (H \cup {n}) \ {n} = H
      BY <2>1
    <2>4. Sound(Select(r, n), H, Waiting, fellOff, orphans)
      BY <2>2, <2>3
    <2>5. Ready = Select(r, n)
      BY <1>1, <1>3 DEF r
    <2>6. Ready.at = n
      BY <2>5 DEF Select
    <2> QED
      BY <2>1, <2>4, <2>5, <2>6 DEF SoundNow, H
  <1> QED
    BY <1>2, <1>3

(* The end of a handler.                                                   *)
LEMMA EndLemma ==
    ASSUME NEW r, NEW H, NEW W, NEW F, NEW O, Sound(r, H, W, F, O),
           cfg' = r.g, Current' = r.at, HeldIn(frames') = H, Waiting' = W,
           fellOff' = F, orphans' = O, Apart(frames'), WaitOnce(dangling')
    PROVE  Advances
  <1>1. Keeps(cfg, cfg')
    BY DEF Sound
  <1>2. Accounted(cfg', Current', HeldIn(frames'), Waiting', fellOff', orphans')
    BY DEF Sound
  <1>3. BlockInv'
    BY <1>2 DEF BlockInv
  <1> QED
    BY <1>1, <1>3 DEF Advances

(* ... of one that opens and closes no statement.                          *)
LEMMA PlainEnd ==
    ASSUME TypeInv, BlockInv, mode = "body", mode' = mode, frames' = frames,
           dangling' = dangling, fellOff' = fellOff, orphans' = orphans,
           NEW r, SoundNow(r, HeldIn(frames)), cfg' = r.g, sel' = r.at
    PROVE  Advances
  <1>1. /\ Current' = r.at /\ Waiting' = Waiting
    BY DEF Current, Waiting
  <1>2. Apart(frames') /\ WaitOnce(dangling')
    BY StartLemma
  <1> QED
    BY <1>1, <1>2, EndLemma DEF SoundNow

(* An error ends the account; nothing else changes.                        *)
LEMMA ErrorSound ==
    ASSUME TypeInv, SemanticError
    PROVE  Advances
  <1>1. mode' = "error" /\ cfg' = cfg
    BY DEF SemanticError
  <1>2. cfg \in Graph
    BY DEF TypeInv, TypeOK
  <1>3. Keeps(cfg, cfg')
    BY <1>1, <1>2, LenProperties DEF Keeps, SameArcs, Graph
  <1> QED
    BY <1>1, <1>3 DEF Advances, BlockInv

-----------------------------------------------------------------------------
(***************************************************************************)
(* The steps that neither open nor close a statement.                      *)
(*                                                                         *)
(* The account holds of programs in which no arm of a ?: branches and the  *)
(* last action of a for loop does not either.  evalTernaryExpr terminates  *)
(* both arms before it evaluates them (expr_gen.cpp), and                  *)
(* insertLoopStatement the block of the last action (generator.cpp), so an *)
(* operand that branches there is evaluated in a finished block.           *)
(***************************************************************************)
Straight ==
    /\ "condAnd" \notin Exprs
    /\ LastActs \subseteq {"const", "plain"}

(* An instruction is added to the selected block, or to any other.         *)
LEMMA SoundEmit ==
    ASSUME NEW s, NEW H, SoundNow(s, H), cfg \in Graph, NEW i \in Nat
    PROVE  /\ s.at # NoBlock => \A op \in NodeOps :
                 SoundNow(Emit(s, op, i), H) /\ Emit(s, op, i).at = s.at
           /\ \A b \in Nat, op \in NodeOps :
                 SoundNow([g |-> AddNode(s.g, b, op, i), at |-> s.at], H)
  <1>1. s.g \in Graph /\ s.at # NoBlock => s.at \in Nat
    BY SoundFacts DEF SoundNow
  <1>2. ASSUME NEW b \in Nat, NEW op \in NodeOps
        PROVE  SoundNow([g |-> AddNode(s.g, b, op, i), at |-> s.at], H)
    <2> DEFINE r == [g |-> AddNode(s.g, b, op, i), at |-> s.at]
    <2>1. s.g \in Graph
      BY SoundFacts DEF SoundNow
    <2>2. /\ r.g \in Graph /\ Len(r.g) = Len(s.g) /\ r.at = s.at
          /\ \A c \in DOMAIN s.g : SameArcs(r.g[c], s.g[c])
      BY <2>1, AddNodeLemma DEF NodeOps
    <2> HIDE DEF r
    <2>3. SoundNow(r, H)
      BY <2>2, SoundSame DEF SoundNow
    <2> QED
      BY <2>3 DEF r
  <1>3. ASSUME s.at # NoBlock, NEW op \in NodeOps
        PROVE  SoundNow(Emit(s, op, i), H) /\ Emit(s, op, i).at = s.at
    <2>1. s.at \in Nat
      BY <1>3, SoundFacts DEF SoundNow
    <2> QED
      BY <1>2, <2>1 DEF Emit
  <1> QED
    BY <1>2, <1>3

(* An expression of the program.                                           *)
LEMMA ExprSound ==
    ASSUME Straight, NEW s, NEW H, SoundNow(s, H), cfg \in Graph, s.at # NoBlock,
           NEW e \in Exprs, NEW i \in Nat
    PROVE  /\ SoundNow(Eval(e, s, i), H) /\ Eval(e, s, i).at # NoBlock
           /\ Len(Eval(e, s, i).g) >= Len(s.g)
  <1>1. e \in AllExprs \ {"condAnd"}
    BY Names DEF Straight
  <1> QED
    BY <1>1, SoundEval DEF SoundNow

(* A declaration.                                                          *)
LEMMA DeclareSound ==
    ASSUME Straight, TypeInv, NEW s, NEW H, SoundNow(s, H), s.at # NoBlock,
           NEW e \in Exprs \cup {"none"}, NEW i \in Nat
    PROVE  /\ SoundNow(Declare(e, s, i), H) /\ Declare(e, s, i).at # NoBlock
           /\ Len(Declare(e, s, i).g) >= Len(s.g)
  <1> DEFINE a == [g |-> AddNode(s.g, AllocBlock(s.at), "alloca", i), at |-> s.at]
             v == Eval(e, a, i)
             r == Emit(v, "use", i)
  <1>1. cfg \in Graph /\ s.at \in Nat /\ AllocBlock(s.at) \in Nat
    <2>1. cfg \in Graph
      BY DEF TypeInv, TypeOK
    <2> QED
      BY <2>1, SoundFacts, AllocBlockLemma DEF SoundNow
  <1>2. SoundNow(a, H) /\ a.at # NoBlock
    BY <1>1, SoundEmit DEF NodeOps
  <1>3. Declare(e, s, i) = IF e = "none" THEN a ELSE r
    BY DEF Declare
  <1>4. Position(Declare(e, s, i)) /\ Len(Declare(e, s, i).g) >= Len(s.g)
    <2>1. Position(s)
      BY <1>1, SoundFacts DEF SoundNow
    <2> QED
      BY <2>1, DeclareLemma
  <1> HIDE DEF a
  <1>5. CASE e = "none"
    BY <1>2, <1>3, <1>4, <1>5
  <1>6. CASE e # "none"
    <2>1. SoundNow(v, H) /\ v.at # NoBlock
      BY <1>1, <1>2, <1>6, ExprSound
    <2> HIDE DEF v
    <2>2. SoundNow(r, H) /\ r.at # NoBlock
      BY <1>1, <2>1, SoundEmit DEF NodeOps
    <2> QED
      BY <1>3, <1>4, <1>6, <2>2
  <1> QED
    BY <1>5, <1>6

(* Where an element is, and the graph the step starts from.                *)
LEMMA Setting ==
    ASSUME TypeInv
    PROVE  cfg \in Graph /\ Here \in Nat /\ Here + 1 \in Nat /\ Here + 2 \in Nat
  BY LenProperties DEF Here, TypeInv, TypeOK

(* An expression goes into the selected block.                             *)
LEMMA ExprStmtSound ==
    ASSUME Straight, TypeInv, BlockInv, NEW e \in Exprs, ExprStmt(e)
    PROVE  Advances
  <1> DEFINE r == Eval(e, Ready, Here)
  <1>1. /\ mode = "body" /\ At(r)
        /\ UNCHANGED <<mode, frames, dangling, fellOff, orphans>>
    BY DEF ExprStmt, Opens, history
  <1>2. SoundNow(r, HeldIn(frames))
    BY <1>1, Setting, ReadySound, ExprSound
  <1> HIDE DEF r
  <1> QED
    BY <1>1, <1>2, PlainEnd DEF At

(* So does a declaration ...                                               *)
LEMMA InsertDeclarationSound ==
    ASSUME Straight, TypeInv, BlockInv, NEW e \in Exprs \cup {"none"}, InsertDeclaration(e)
    PROVE  Advances
  <1> DEFINE r == Declare(e, Ready, Here)
  <1>1. /\ mode = "body" /\ At(r)
        /\ UNCHANGED <<mode, frames, dangling, fellOff, orphans>>
    BY DEF InsertDeclaration, Opens, history
  <1>2. SoundNow(r, HeldIn(frames))
    BY <1>1, Setting, ReadySound, DeclareSound
  <1> HIDE DEF r
  <1> QED
    BY <1>1, <1>2, PlainEnd DEF At

(* ... and the use of a variable.                                          *)
LEMMA UseVariableSound ==
    ASSUME TypeInv, BlockInv, NEW v \in Nat, UseVariable(v)
    PROVE  Advances
  <1> DEFINE r == Emit(Ready, "use", v)
  <1>1. /\ mode = "body" /\ At(r)
        /\ UNCHANGED <<mode, frames, dangling, fellOff, orphans>>
    BY DEF UseVariable, Opens, history
  <1>2. SoundNow(r, HeldIn(frames))
    BY <1>1, Setting, ReadySound, SoundEmit DEF NodeOps
  <1> HIDE DEF r
  <1> QED
    BY <1>1, <1>2, PlainEnd DEF At

(* What Deselect leaves. *)
LEMMA DeselectEnd ==
    ASSUME TypeInv, BlockInv, mode = "body", mode' = mode, frames' = frames,
           dangling' = dangling, fellOff' = fellOff, orphans' = orphans,
           NEW r, SoundNow(Select(r, NoBlock), HeldIn(frames)), Deselect(r)
    PROVE  Advances
  <1> DEFINE x == Select(r, NoBlock)
  <1>1. cfg' = x.g /\ sel' = x.at
    BY SelectLemma DEF Deselect
  <1> HIDE DEF x
  <1>2. SoundNow(x, HeldIn(frames))
    BY DEF x
  <1> QED
    BY <1>1, <1>2, PlainEnd

(* A return finishes the selected block.                                   *)
LEMMA ReturnSound ==
    ASSUME Straight, TypeInv, BlockInv, NEW e \in Exprs, Return(e)
    PROVE  Advances
  <1> DEFINE v == Eval(e, Ready, Here)
             r == [g |-> SetTerminator(v.g, v.at, "RET"), at |-> NoBlock]
  <1>1. /\ mode = "body" /\ Deselect(r)
        /\ UNCHANGED <<mode, frames, dangling, fellOff, orphans>>
    BY DEF Return, Opens, history
  <1>2. SoundNow(v, HeldIn(frames)) /\ v.at # NoBlock
    BY <1>1, Setting, ReadySound, ExprSound
  <1> HIDE DEF v
  <1>3. SoundNow(r, HeldIn(frames)) /\ r.at = NoBlock
    BY <1>2, Setting, SoundTerminate DEF SoundNow
  <1> HIDE DEF r
  <1> QED
    BY <1>1, <1>3, PlainEnd DEF Deselect

(* So does one without a value.                                            *)
LEMMA ReturnNothingSound ==
    ASSUME TypeInv, BlockInv, ReturnNothing
    PROVE  Advances
  <1> DEFINE r == [g |-> SetTerminator(Ready.g, Ready.at, "RET"), at |-> NoBlock]
  <1>1. CASE SemanticError
    BY <1>1, ErrorSound
  <1>2. CASE ~SemanticError
    <2>1. /\ mode = "body" /\ Deselect(r)
          /\ UNCHANGED <<mode, frames, dangling, fellOff, orphans>>
      BY <1>2 DEF ReturnNothing, Opens, history
    <2>2. SoundNow(r, HeldIn(frames)) /\ r.at = NoBlock
      BY <2>1, Setting, ReadySound, SoundTerminate DEF SoundNow
    <2> HIDE DEF r
    <2> QED
      BY <2>1, <2>2, PlainEnd DEF Deselect
  <1> QED
    BY <1>1, <1>2

(* break, continue and a goto back: a jump from where the handler is.      *)
LEMMA JumpAwaySound ==
    ASSUME TypeInv, BlockInv, mode = "body", NEW to \in Ids, Deselect(JumpTo(Ready, to)),
           UNCHANGED <<mode, frames, dangling, fellOff, orphans>>
    PROVE  Advances
  <1>1. SoundNow(Ready, HeldIn(frames)) /\ Ready.at # NoBlock /\ cfg \in Graph
    BY ReadySound, Setting
  <1>2. SoundNow(Select(JumpTo(Ready, to), NoBlock), HeldIn(frames))
    BY <1>1, SoundJump DEF SoundNow
  <1> QED
    BY <1>2, DeselectEnd

(* A break finishes it with a jump to the exit of a loop or switch ...     *)
LEMMA BreakSound ==
    ASSUME TypeInv, BlockInv, Break
    PROVE  Advances
  <1>1. CASE SemanticError
    BY <1>1, ErrorSound
  <1>2. CASE ~SemanticError
    <2>1. /\ mode = "body" /\ controls # <<>> /\ Deselect(JumpTo(Ready, Last(controls).exit))
          /\ UNCHANGED <<mode, frames, dangling, fellOff, orphans>>
      BY <1>2 DEF Break, Opens, history
    <2>2. Last(controls).exit \in Ids
      <3>1. Last(controls) \in Control
        BY <2>1, StackFacts, StackLemma
      <3> QED
        BY <3>1 DEF Control
    <2> QED
      BY <2>1, <2>2, JumpAwaySound
  <1> QED
    BY <1>1, <1>2

(* ... and a continue with a jump to the loop's next turn.                 *)
LEMMA ContinueSound ==
    ASSUME TypeInv, BlockInv, Continue
    PROVE  Advances
  <1>1. CASE SemanticError
    BY <1>1, ErrorSound
  <1>2. CASE ~SemanticError
    <2>1. /\ mode = "body" /\ LoopsOf # {}
          /\ Deselect(JumpTo(Ready, controls[NearestLoop].skip))
          /\ UNCHANGED <<mode, frames, dangling, fellOff, orphans>>
      BY <1>2 DEF Continue, Opens, history
    <2>2. controls[NearestLoop].skip \in Ids
      <3>1. controls[NearestLoop] \in Control
        BY <2>1, NearestLemma, StackFacts DEF LoopsOf
      <3> QED
        BY <3>1 DEF Control
    <2> QED
      BY <2>1, <2>2, JumpAwaySound
  <1> QED
    BY <1>1, <1>2

(* The blocks gotos wait in, as gotos are met and resolved.                *)
BlocksOf(ds) == {ds[k].block : k \in DOMAIN ds}

(* A goto that waits is one more of the waiting blocks.                    *)
LEMMA WaitPush ==
    ASSUME NEW S, NEW ds \in Seq(S), NEW x \in S, WaitOnce(ds), x.block \notin BlocksOf(ds)
    PROVE  /\ BlocksOf(Append(ds, x)) = BlocksOf(ds) \cup {x.block}
           /\ WaitOnce(Append(ds, x))
  <1> DEFINE n == Len(ds)
             es == Append(ds, x)
  <1>1. /\ n \in Nat /\ DOMAIN ds = 1..n /\ DOMAIN es = 1..(n + 1) /\ es[n + 1] = x
        /\ \A k \in 1..n : es[k] = ds[k]
    BY PushLemma
  <1> HIDE DEF es
  <1>2. /\ DOMAIN es = DOMAIN ds \cup {n + 1} /\ n + 1 \notin DOMAIN ds
        /\ \A k \in DOMAIN ds : es[k] = ds[k]
    BY <1>1
  <1> HIDE DEF n
  <1>3. BlocksOf(es) = BlocksOf(ds) \cup {x.block}
    BY <1>1, <1>2 DEF BlocksOf
  <1>4. \A k \in DOMAIN ds : ds[k].block # x.block
    BY DEF BlocksOf
  <1>5. WaitOnce(es)
    BY <1>1, <1>2, <1>4 DEF WaitOnce
  <1> QED
    BY <1>3, <1>5 DEF es

(* Resolving one takes it out of them.                                     *)
LEMMA WaitPop ==
    ASSUME NEW S, NEW ds \in Seq(S), ds # <<>>, WaitOnce(ds)
    PROVE  /\ Head(ds).block \in BlocksOf(ds)
           /\ BlocksOf(Tail(ds)) = BlocksOf(ds) \ {Head(ds).block}
           /\ WaitOnce(Tail(ds))
  <1> DEFINE n == Len(ds)
             es == Tail(ds)
  <1>1. /\ n \in Nat \ {0} /\ DOMAIN ds = 1..n /\ Head(ds) = ds[1] /\ es \in Seq(S)
        /\ Len(es) = n - 1 /\ \A k \in 1..(n - 1) : es[k] = ds[k + 1]
    BY HeadTailProperties, LenProperties, EmptySeq
  <1> HIDE DEF es
  <1>2. DOMAIN es = 1..(n - 1)
    BY <1>1, LenProperties
  <1>3. 1 \in DOMAIN ds /\ \A k \in DOMAIN es : k + 1 \in DOMAIN ds /\ k + 1 # 1
                                                /\ es[k] = ds[k + 1]
    BY <1>1, <1>2
  <1>4. \A k \in DOMAIN ds : k # 1 => k - 1 \in DOMAIN es /\ es[k - 1] = ds[k]
    <2> SUFFICES ASSUME NEW k \in DOMAIN ds, k # 1
                 PROVE  k - 1 \in DOMAIN es /\ es[k - 1] = ds[k]
      OBVIOUS
    <2>1. k - 1 \in 1..(n - 1) /\ (k - 1) + 1 = k
      BY <1>1
    <2> QED
      BY <1>1, <1>2, <2>1
  <1>5. BlocksOf(es) = BlocksOf(ds) \ {ds[1].block}
    <2>1. \A b : b \in BlocksOf(es) => b \in BlocksOf(ds) /\ b # ds[1].block
      BY <1>3 DEF BlocksOf, WaitOnce
    <2>2. \A b : b \in BlocksOf(ds) /\ b # ds[1].block => b \in BlocksOf(es)
      BY <1>4 DEF BlocksOf
    <2> QED
      BY <2>1, <2>2
  <1>6. WaitOnce(es)
    <2> SUFFICES ASSUME NEW j \in DOMAIN es, NEW k \in DOMAIN es, es[j].block = es[k].block
                 PROVE  j = k
      BY DEF WaitOnce
    <2>1. j + 1 = k + 1
      BY <1>3 DEF WaitOnce
    <2> QED
      BY <1>2, <2>1
  <1>7. Head(ds).block \in BlocksOf(ds)
    BY <1>1, <1>3 DEF BlocksOf
  <1> QED
    BY <1>1, <1>5, <1>6, <1>7 DEF es

(* A goto finishes the selected block, or leaves it waiting for its label. *)
LEMMA GotoSound ==
    ASSUME TypeInv, BlockInv, NEW l \in Labels, Goto(l)
    PROVE  Advances
  <1> DEFINE waits == [g |-> SetTerminator(Ready.g, Ready.at, "JUMP"), at |-> NoBlock]
             wait  == [block |-> Ready.at, label |-> l]
  <1>1. /\ mode = "body" /\ UNCHANGED <<mode, frames, fellOff, orphans>>
        /\ IF labels[l] # NoBlock
           THEN Deselect(JumpTo(Ready, labels[l])) /\ UNCHANGED dangling
           ELSE Deselect(waits) /\ dangling' = Append(dangling, wait)
    BY DEF Goto, Opens, history
  <1>2. CASE labels[l] # NoBlock
    <2>1. labels[l] \in Ids
      BY DEF TypeInv, TypeOK, Ids, Graph, NoBlock
    <2> QED
      BY <1>1, <1>2, <2>1, JumpAwaySound
  <1>3. CASE labels[l] = NoBlock
    <2>1. /\ Sound(Ready, HeldIn(frames), Waiting, fellOff, orphans) /\ Ready.at # NoBlock
          /\ cfg \in Graph /\ Apart(frames) /\ WaitOnce(dangling)
      BY <1>1, Setting, ReadySound, StartLemma DEF SoundNow
    <2>2. /\ Sound(waits, HeldIn(frames), Waiting \cup {Ready.at}, fellOff, orphans)
          /\ waits.at = NoBlock
      BY <2>1, SoundTerminate
    <2>3. cfg' = waits.g /\ sel' = waits.at
      BY <1>1, <1>3, <2>2 DEF Deselect
    <2> HIDE DEF waits
    <2>4. Waiting' = Waiting \cup {Ready.at} /\ WaitOnce(dangling')
      <3> DEFINE S == [block : Nat, label : Labels]
      <3>1. dangling \in Seq(S)
        <4>1. DOMAIN cfg \subseteq Nat
          BY <2>1 DEF Graph
        <4>2. [block : DOMAIN cfg, label : Labels] \subseteq S
          BY <4>1
        <4> HIDE DEF S
        <4> QED
          BY <4>2, SeqMonotonic DEF TypeInv, TypeOK
      <3>2. wait \in S /\ wait.block = Ready.at /\ Ready.at \notin Waiting
        BY <2>1, SoundFacts
      <3>3. Waiting = BlocksOf(dangling) /\ Waiting' = BlocksOf(dangling')
        BY DEF Waiting, BlocksOf
      <3>4. dangling' = Append(dangling, wait)
        BY <1>1, <1>3
      <3> HIDE DEF S, wait
      <3>5. wait.block \notin BlocksOf(dangling)
        BY <3>2, <3>3
      <3>6. /\ BlocksOf(Append(dangling, wait)) = BlocksOf(dangling) \cup {wait.block}
            /\ WaitOnce(Append(dangling, wait))
        BY <2>1, <3>1, <3>2, <3>5, WaitPush
      <3> QED
        BY <3>2, <3>3, <3>4, <3>6
    <2>5. Current' = waits.at
      BY <1>1, <2>3 DEF Current
    <2> QED
      BY <1>1, <2>1, <2>2, <2>3, <2>4, <2>5, EndLemma
  <1> QED
    BY <1>2, <1>3

(* A label, a case or a default starts a block.                            *)
LEMMA LabelStartSound ==
    ASSUME TypeInv, BlockInv, mode = "body"
    PROVE  SoundNow(LabelStart, HeldIn(frames)) /\ LabelStart.at # NoBlock
  <1> DEFINE s == Ready
             H == HeldIn(frames)
             n == Len(s.g) + 1
             r == Select(JumpTo(Fresh(s), n), n)
  <1>1. SoundNow(s, H) /\ s.at # NoBlock /\ cfg \in Graph
    BY ReadySound, Setting
  <1>2. LabelStart = s \/ LabelStart = r
    BY DEF LabelStart, NewId
  <1> HIDE DEF s, H
  <1>3. /\ SoundNow(Fresh(s), H \cup {n}) /\ Fresh(s).at # NoBlock /\ n \notin H
        /\ n # NoBlock /\ n \in Ids
    <2>1. n \in Ids
      BY <1>1, SoundFacts DEF SoundNow, Ids
    <2> QED
      BY <1>1, <2>1, SoundFresh DEF SoundNow
  <1> HIDE DEF n
  <1>4. SoundNow(r, (H \cup {n}) \ {n})
    <2>1. n \in H \cup {n}
      OBVIOUS
    <2> QED
      BY <1>1, <1>3, <2>1, SoundJump DEF SoundNow
  <1>5. (H \cup {n}) \ {n} = H /\ r.at = n
    BY <1>3 DEF Select
  <1> HIDE DEF r
  <1>6. SoundNow(r, H) /\ r.at # NoBlock
    BY <1>3, <1>4, <1>5
  <1> QED
    BY <1>1, <1>2, <1>6 DEF s, H

(* A label ends the selected block in a jump to one of its own.            *)
LEMMA InsertLabelSound ==
    ASSUME TypeInv, BlockInv, NEW l \in Labels, InsertLabel(l)
    PROVE  Advances
  <1>1. CASE SemanticError
    BY <1>1, ErrorSound
  <1>2. CASE ~SemanticError
    <2>1. mode = "body" /\ At(LabelStart) /\ UNCHANGED <<mode, frames, dangling, fellOff, orphans>>
      BY <1>2 DEF InsertLabel, Opens, history
    <2> QED
      BY <2>1, LabelStartSound, PlainEnd DEF At
  <1> QED
    BY <1>1, <1>2

(* A case starts a block of its own, into which the one above falls.       *)
LEMMA InsertCaseSound ==
    ASSUME TypeInv, BlockInv, NEW v \in Vals, InsertCase(v)
    PROVE  Advances
  <1>1. CASE SemanticError
    BY <1>1, ErrorSound
  <1>2. CASE ~SemanticError
    <2>1. mode = "body" /\ At(LabelStart) /\ UNCHANGED <<mode, frames, dangling, fellOff, orphans>>
      BY <1>2 DEF InsertCase, Opens, history
    <2> QED
      BY <2>1, LabelStartSound, PlainEnd DEF At
  <1> QED
    BY <1>1, <1>2

(* A default does the same, without a test.                                *)
LEMMA InsertDefaultSound ==
    ASSUME TypeInv, BlockInv, InsertDefault
    PROVE  Advances
  <1>1. CASE SemanticError
    BY <1>1, ErrorSound
  <1>2. CASE ~SemanticError
    <2>1. mode = "body" /\ At(LabelStart) /\ UNCHANGED <<mode, frames, dangling, fellOff, orphans>>
      BY <1>2 DEF InsertDefault, Opens, history
    <2> QED
      BY <2>1, LabelStartSound, PlainEnd DEF At
  <1> QED
    BY <1>1, <1>2

-----------------------------------------------------------------------------
(* The steps that open a statement. *)

(* Two and three blocks created in a row are held by their handler.        *)
LEMMA TwoHeld ==
    ASSUME NEW s, NEW H, SoundNow(s, H), cfg \in Graph
    PROVE  LET r == Fresh(Fresh(s))
               n == Len(s.g)
           IN  /\ SoundNow(r, H \cup {n + 1, n + 2}) /\ r.at = s.at /\ Len(r.g) = n + 2
               /\ n + 1 \notin H /\ n + 2 \notin H /\ n + 1 # n + 2
               /\ s.at # n + 1 /\ s.at # n + 2 /\ NoBlock # n + 1 /\ NoBlock # n + 2
               /\ n + 1 \in Ids /\ n + 2 \in Ids
  <1> DEFINE n == Len(s.g)
             a == Fresh(s)
             r == Fresh(a)
  <1>1. n \in Nat
    BY SoundFacts DEF SoundNow
  <1>2. /\ SoundNow(a, H \cup {n + 1}) /\ a.at = s.at /\ Len(a.g) = n + 1
        /\ n + 1 \notin H /\ s.at # n + 1 /\ NoBlock # n + 1
    BY SoundFresh DEF SoundNow
  <1> HIDE DEF a, n
  <1>3. /\ SoundNow(r, (H \cup {n + 1}) \cup {Len(a.g) + 1}) /\ r.at = a.at
        /\ Len(r.g) = Len(a.g) + 1 /\ Len(a.g) + 1 \notin H \cup {n + 1}
        /\ a.at # Len(a.g) + 1 /\ NoBlock # Len(a.g) + 1
    BY <1>2, SoundFresh DEF SoundNow
  <1> HIDE DEF r
  <1>4. Len(a.g) + 1 = n + 2 /\ n + 1 # n + 2 /\ n + 1 \in Ids /\ n + 2 \in Ids
    BY <1>1, <1>2 DEF Ids
  <1>5. (H \cup {n + 1}) \cup {n + 2} = H \cup {n + 1, n + 2}
    OBVIOUS
  <1> QED
    BY <1>2, <1>3, <1>4, <1>5 DEF r, a, n

(* Three new blocks held by a new frame.                                   *)
LEMMA ThreeHeld ==
    ASSUME NEW s, NEW H, SoundNow(s, H), cfg \in Graph
    PROVE  LET r == Fresh(Fresh(Fresh(s)))
               n == Len(s.g)
           IN  /\ SoundNow(r, H \cup {n + 1, n + 2, n + 3}) /\ r.at = s.at
               /\ n + 1 \notin H /\ n + 2 \notin H /\ n + 3 \notin H
               /\ n + 1 # n + 2 /\ n + 1 # n + 3 /\ n + 2 # n + 3 /\ NoBlock # n + 3
               /\ n + 1 \in Ids /\ n + 2 \in Ids /\ n + 3 \in Ids
  <1> DEFINE n == Len(s.g)
             a == Fresh(Fresh(s))
             r == Fresh(a)
  <1>1. n \in Nat
    BY SoundFacts DEF SoundNow
  <1>2. /\ SoundNow(a, H \cup {n + 1, n + 2}) /\ a.at = s.at /\ Len(a.g) = n + 2
        /\ n + 1 \notin H /\ n + 2 \notin H /\ n + 1 \in Ids /\ n + 2 \in Ids
    BY TwoHeld
  <1> HIDE DEF a, n
  <1>3. /\ SoundNow(r, (H \cup {n + 1, n + 2}) \cup {Len(a.g) + 1}) /\ r.at = a.at
        /\ Len(a.g) + 1 \notin H \cup {n + 1, n + 2} /\ NoBlock # Len(a.g) + 1
    BY <1>2, SoundFresh DEF SoundNow
  <1> HIDE DEF r
  <1>4. Len(a.g) + 1 = n + 3 /\ n + 1 # n + 2 /\ n + 1 # n + 3 /\ n + 2 # n + 3 /\ n + 3 \in Ids
    BY <1>1, <1>2 DEF Ids
  <1>5. (H \cup {n + 1, n + 2}) \cup {n + 3} = H \cup {n + 1, n + 2, n + 3}
    OBVIOUS
  <1> QED
    BY <1>2, <1>3, <1>4, <1>5 DEF r, a, n

(* The handler keeps the blocks it will come back to in its frame.         *)
LEMMA OpenEnd ==
    ASSUME TypeInv, BlockInv, mode = "body", mode' = mode,
           dangling' = dangling, fellOff' = fellOff, orphans' = orphans,
           NEW f \in Frame, Shaped(f), HeldBy(f) \cap HeldIn(frames) = {},
           frames' = Append(frames, f),
           NEW r, NEW H, H = HeldIn(frames) \cup (HeldBy(f) \ {NoBlock}), SoundNow(r, H),
           cfg' = r.g, sel' = r.at
    PROVE  Advances
  <1>1. frames \in Seq(Frame) /\ Apart(frames) /\ WaitOnce(dangling)
    BY StartLemma
  <1>2. HeldIn(frames') = H /\ Apart(frames')
    BY <1>1, HeldPush
  <1>3. Current' = r.at /\ Waiting' = Waiting
    BY DEF Current, Waiting
  <1>4. WaitOnce(dangling')
    BY <1>1
  <1> QED
    BY <1>2, <1>3, <1>4, EndLemma DEF SoundNow

(* The blocks of a frame, by its kind.                                     *)
LEMMA HeldByLemma ==
    ASSUME NEW f
    PROVE  /\ f.kind # "switch" => HeldBy(f) = {f.blockFalse, f.blockAfter}
           /\ f.kind = "switch" => HeldBy(f) = {f.blockFalse, f.blockAfter, f.entry}
  <1>1. CASE f.kind # "switch"
    BY <1>1 DEF HeldBy
  <1>2. CASE f.kind = "switch"
    BY <1>2 DEF HeldBy
  <1> QED
    BY <1>1, <1>2

(* An if holds its bodies and its exit.                                    *)
LEMMA InsertIfSound ==
    ASSUME Straight, TypeInv, BlockInv, NEW e \in Exprs, NEW hasElse \in BOOLEAN,
           InsertIfStatement(e, hasElse)
    PROVE  Advances
  <1> DEFINE cond  == Eval(e, Ready, Here)
             n     == Len(cond.g)
             H     == HeldIn(frames)
             true  == NewId(cond.g)
             other == true + 1
             two   == Fresh(Fresh(cond))
             r     == Select(BranchTo(two, true, other), true)
             frame == IF hasElse THEN MkFrame("then", other, NoBlock, NoBlock)
                                 ELSE MkFrame("then", NoBlock, other, NoBlock)
  <1>1. /\ mode = "body" /\ At(r) /\ frames' = Append(frames, frame)
        /\ UNCHANGED <<mode, dangling, fellOff, orphans>>
    BY DEF InsertIfStatement, Nests, Opens, history
  <1>2. SoundNow(cond, H) /\ cond.at # NoBlock /\ cfg \in Graph
    BY <1>1, Setting, ReadySound, ExprSound
  <1> HIDE DEF cond, H
  <1>3. /\ SoundNow(two, H \cup {n + 1, n + 2}) /\ two.at = cond.at
        /\ n + 1 \notin H /\ n + 2 \notin H /\ n + 1 # n + 2 /\ NoBlock # n + 2
        /\ n + 1 \in Ids /\ n + 2 \in Ids /\ n \in Nat
    BY <1>2, TwoHeld, SoundFacts DEF SoundNow
  <1>4. true = n + 1 /\ other = n + 2
    BY <1>3 DEF NewId
  <1> HIDE DEF two, n, true, other
  <1>5. SoundNow(r, H \cup {other})
    <2> DEFINE K == H \cup {n + 1, n + 2}
    <2>1. true \in K /\ K \ {true} = H \cup {other}
      BY <1>3, <1>4
    <2> HIDE DEF K
    <2>2. SoundNow(two, K)
      BY <1>3 DEF K
    <2>3. SoundNow(r, K \ {true})
      BY <1>2, <1>3, <1>4, <2>1, <2>2, SoundBranch DEF SoundNow
    <2> QED
      BY <2>1, <2>3
  <1> HIDE DEF r
  <1>6. /\ frame \in Frame /\ HeldBy(frame) = {NoBlock, other} /\ Shaped(frame)
    <2>1. "then" \in FrameKinds /\ NoBlock \in Ids /\ other \in Ids /\ NoBlock # other
      BY <1>3, <1>4 DEF FrameKinds, Ids, NoBlock
    <2>2. /\ frame \in Frame /\ frame.kind = "then"
          /\ \/ frame.blockFalse = other /\ frame.blockAfter = NoBlock
             \/ frame.blockFalse = NoBlock /\ frame.blockAfter = other
      BY <2>1, MkFrameLemma
    <2> HIDE DEF frame
    <2>3. HeldBy(frame) = {NoBlock, other}
      BY <2>2, HeldByLemma
    <2> QED
      BY <2>1, <2>2, <2>3 DEF Shaped
  <1> HIDE DEF frame
  <1>7. HeldBy(frame) \cap HeldIn(frames) = {}
    BY <1>3, <1>4, <1>6, HeldMember DEF H
  <1>8. H \cup {other} = HeldIn(frames) \cup (HeldBy(frame) \ {NoBlock})
    BY <1>3, <1>4, <1>6 DEF H
  <1> QED
    BY <1>1, <1>5, <1>6, <1>7, <1>8, OpenEnd DEF At

(* A compound statement holds no block.                                    *)
LEMMA InsertCompoundSound ==
    ASSUME TypeInv, BlockInv, InsertCompoundStatement
    PROVE  Advances
  <1> DEFINE s == Ready
             H == HeldIn(frames)
             n == Len(s.g) + 1
             r == Select(JumpTo(Fresh(s), n), n)
             frame == MkFrame("compound", NoBlock, NoBlock, NoBlock)
  <1>1. /\ mode = "body" /\ At(r) /\ frames' = Append(frames, frame)
        /\ UNCHANGED <<mode, dangling, fellOff, orphans>>
    BY DEF InsertCompoundStatement, Nests, Opens, history, NewId
  <1>2. SoundNow(s, H) /\ s.at # NoBlock /\ cfg \in Graph
    BY <1>1, ReadySound, Setting
  <1> HIDE DEF s, H
  <1>3. SoundNow(r, H)
    <2>1. /\ SoundNow(Fresh(s), H \cup {n}) /\ Fresh(s).at # NoBlock /\ n \notin H
          /\ n \in Ids
      <3>1. n \in Ids
        BY <1>2, SoundFacts DEF SoundNow, Ids
      <3> QED
        BY <1>2, <3>1, SoundFresh DEF SoundNow
    <2> HIDE DEF n
    <2>2. n \in H \cup {n} /\ (H \cup {n}) \ {n} = H
      BY <2>1
    <2>3. SoundNow(r, (H \cup {n}) \ {n})
      BY <1>2, <2>1, <2>2, SoundJump DEF SoundNow
    <2> QED
      BY <2>2, <2>3
  <1> HIDE DEF r
  <1>4. frame \in Frame /\ HeldBy(frame) = {NoBlock} /\ Shaped(frame)
    <2>1. "compound" \in FrameKinds /\ NoBlock \in Ids
      BY DEF FrameKinds, Ids, NoBlock
    <2>2. /\ frame \in Frame /\ frame.kind = "compound" /\ frame.blockFalse = NoBlock
          /\ frame.blockAfter = NoBlock
      BY <2>1, MkFrameLemma
    <2> HIDE DEF frame
    <2>3. HeldBy(frame) = {NoBlock}
      BY <2>2, HeldByLemma
    <2> QED
      BY <2>2, <2>3 DEF Shaped
  <1> HIDE DEF frame
  <1>5. HeldBy(frame) \cap HeldIn(frames) = {}
    BY <1>4, HeldMember
  <1>6. H = HeldIn(frames) \cup (HeldBy(frame) \ {NoBlock})
    BY <1>4 DEF H
  <1> QED
    BY <1>1, <1>3, <1>4, <1>5, <1>6, OpenEnd DEF At

(* A switch holds its exit and the block its tests will go into.           *)
LEMMA InsertSwitchSound ==
    ASSUME Straight, TypeInv, BlockInv, NEW e \in Exprs, InsertSwitchStatement(e)
    PROVE  Advances
  <1> DEFINE value == Eval(e, Ready, Here)
             n     == Len(value.g)
             H     == HeldIn(frames)
             switched == NewId(value.g)
             after == switched + 1
             two   == Fresh(Fresh(value))
             r     == Select(two, switched)
             frame == MkFrame("switch", NoBlock, after, value.at)
  <1>1. /\ mode = "body" /\ At(r) /\ frames' = Append(frames, frame)
        /\ UNCHANGED <<mode, dangling, fellOff, orphans>>
    BY DEF InsertSwitchStatement, Nests, Opens, history
  <1>2. SoundNow(value, H) /\ value.at # NoBlock /\ cfg \in Graph
    BY <1>1, Setting, ReadySound, ExprSound
  <1> HIDE DEF value, H
  <1>3. /\ SoundNow(two, H \cup {n + 1, n + 2}) /\ two.at = value.at
        /\ n + 1 \notin H /\ n + 2 \notin H /\ n + 1 # n + 2 /\ NoBlock # n + 2
        /\ n + 1 \in Ids /\ n + 2 \in Ids /\ n \in Nat
        /\ value.at # n + 1 /\ value.at # n + 2 /\ value.at \notin H /\ value.at \in Ids
    BY <1>2, TwoHeld, SoundFacts DEF SoundNow, Ids
  <1>4. switched = n + 1 /\ after = n + 2
    BY <1>3 DEF NewId
  <1> HIDE DEF two, n, switched, after
  <1>5. SoundNow(r, H \cup {after, value.at})
    <2> DEFINE K == H \cup {n + 1, n + 2}
               L == K \cup {value.at}
               x == Select(two, NoBlock)
    <2>1. switched \in L /\ L \ {switched} = H \cup {after, value.at}
      BY <1>3, <1>4
    <2>2. SoundNow(two, K) /\ two.at # NoBlock
      BY <1>2, <1>3
    <2> HIDE DEF K
    <2>3. SoundNow(x, L)
      BY <1>2, <1>3, <2>2, SoundSelect DEF SoundNow
    <2>4. x.at = NoBlock /\ Select(x, switched) = r
      BY DEF Select
    <2> HIDE DEF x, L, r
    <2>5. SoundNow(Select(x, switched), L \ {switched})
      BY <1>2, <2>1, <2>3, <2>4, SoundSelect DEF SoundNow
    <2> QED
      BY <2>1, <2>4, <2>5
  <1> HIDE DEF r
  <1>6. /\ frame \in Frame /\ HeldBy(frame) = {NoBlock, after, value.at} /\ Shaped(frame)
    <2>1. "switch" \in FrameKinds /\ NoBlock \in Ids /\ after \in Ids
      BY <1>3, <1>4 DEF FrameKinds, Ids, NoBlock
    <2>2. /\ frame \in Frame /\ frame.kind = "switch" /\ frame.blockFalse = NoBlock
          /\ frame.blockAfter = after /\ frame.entry = value.at
      BY <1>3, <2>1, MkFrameLemma
    <2> HIDE DEF frame
    <2>3. HeldBy(frame) = {NoBlock, after, value.at}
      BY <2>2, HeldByLemma
    <2> QED
      BY <1>3, <1>4, <2>2, <2>3 DEF Shaped
  <1> HIDE DEF frame
  <1>7. HeldBy(frame) \cap HeldIn(frames) = {}
    BY <1>3, <1>4, <1>6, HeldMember DEF H
  <1>8. H \cup {after, value.at} = HeldIn(frames) \cup (HeldBy(frame) \ {NoBlock})
    BY <1>2, <1>3, <1>4, <1>6 DEF H
  <1> QED
    BY <1>1, <1>5, <1>6, <1>7, <1>8, OpenEnd DEF At

(* The initializer of a for loop.                                          *)
LEMMA InitializerSound ==
    ASSUME Straight, TypeInv, NEW s, NEW H, SoundNow(s, H), s.at # NoBlock,
           NEW init \in ForInits
    PROVE  LET pre == CASE init[1] = "expr" -> Eval(init[2], s, Here)
                        [] init[1] = "decl" -> Declare(init[2], s, Here)
                        [] OTHER            -> s
           IN  SoundNow(pre, H) /\ pre.at # NoBlock
  <1>1. cfg \in Graph /\ Here \in Nat
    BY Setting
  <1>2. init[1] = "none" \/ (init[1] \in {"expr", "decl"} /\ init[2] \in Exprs)
    BY ForInitsLemma
  <1>3. CASE init[1] = "none"
    BY <1>3
  <1>4. CASE init[1] = "expr" /\ init[2] \in Exprs
    <2> DEFINE r == Eval(init[2], s, Here)
    <2>1. SoundNow(r, H) /\ r.at # NoBlock
      BY <1>1, <1>4, ExprSound
    <2> HIDE DEF r
    <2> QED
      BY <1>4, <2>1 DEF r
  <1>5. CASE init[1] = "decl" /\ init[2] \in Exprs
    <2> DEFINE r == Declare(init[2], s, Here)
    <2>1. SoundNow(r, H) /\ r.at # NoBlock
      BY <1>1, <1>5, DeclareSound
    <2> HIDE DEF r
    <2> QED
      BY <1>5, <2>1 DEF r
  <1> QED
    BY <1>2, <1>3, <1>4, <1>5

(* The block of the last action jumps back before the action is evaluated  *)
(* in it; then the walk goes on with the body.                             *)
LEMMA LastActionSound ==
    ASSUME Straight, NEW c, NEW K, SoundNow(Select(c, NoBlock), K), cfg \in Graph,
           NEW act \in LastActs, NEW to \in Ids, NEW b \in K, NEW i \in Nat
    PROVE  LET last == Len(c.g) + 1
               back == JumpTo(Select(Fresh(c), last), to)
           IN  SoundNow(Select(Eval(act, Select(back, last), i), b), K \ {b})
  <1> DEFINE x    == Select(c, NoBlock)
             y    == Fresh(x)
             last == Len(c.g) + 1
             z    == Select(y, last)
             back == JumpTo(z, to)
             w    == Select(back, NoBlock)
             p    == [g |-> AddNode(w.g, last, "op", i), at |-> w.at]
             step == Eval(act, Select(back, last), i)
  <1>1. x.g = c.g /\ x.at = NoBlock /\ SoundNow(x, K)
    BY SelectLemma
  <1>2. z = Select(Fresh(c), last)
    BY DEF Fresh, Select
  <1> HIDE DEF x
  <1>3. /\ SoundNow(y, K \cup {last}) /\ y.at = NoBlock /\ last \notin K /\ last # NoBlock
        /\ last \in Nat
    <2>1. Len(x.g) \in Nat
      BY <1>1, SoundFacts DEF SoundNow
    <2>2. last = Len(x.g) + 1 /\ last \in Nat
      BY <1>1, <2>1
    <2> HIDE DEF last
    <2>3. /\ Sound(y, K \cup {last}, Waiting, fellOff, orphans) /\ y.at = x.at
          /\ last \notin K /\ NoBlock # last
      BY <1>1, <2>2, SoundFresh DEF SoundNow
    <2> QED
      BY <1>1, <2>2, <2>3 DEF SoundNow
  <1> HIDE DEF y, last
  <1>4. SoundNow(z, K) /\ z.at # NoBlock
    <2>1. SoundNow(z, (K \cup {last}) \ {last})
      BY <1>3, SoundSelect DEF SoundNow
    <2>2. (K \cup {last}) \ {last} = K
      BY <1>3
    <2>3. z.at = last
      BY DEF Select
    <2> QED
      BY <1>3, <2>1, <2>2, <2>3
  <1> HIDE DEF z
  <1>5. SoundNow(w, K)
    BY <1>4, SoundJump DEF SoundNow
  <1>6. w.g = back.g /\ w.at = NoBlock
    BY SelectLemma
  <1> HIDE DEF w, back
  <1>7. SoundNow(p, K) /\ p.at = NoBlock
    BY <1>3, <1>5, <1>6, SoundEmit DEF NodeOps
  <1>8. Select(step, b) = Select(w, b) \/ Select(step, b) = Select(p, b)
    <2>1. act = "const" \/ act = "plain"
      BY DEF Straight
    <2>2. CASE act = "const"
      BY <1>6, <2>2 DEF Eval, Select
    <2>3. CASE act = "plain"
      BY <1>6, <2>3 DEF Eval, Select, Emit
    <2> QED
      BY <2>1, <2>2, <2>3
  <1> HIDE DEF p, step
  <1>9. SoundNow(Select(w, b), K \ {b}) /\ SoundNow(Select(p, b), K \ {b})
    BY <1>5, <1>6, <1>7, SoundSelect DEF SoundNow
  <1>10. SoundNow(Select(step, b), K \ {b})
    BY <1>8, <1>9
  <1> QED
    BY <1>2, <1>10 DEF step, back, last

(* A loop ends the blocks of its condition and its last action at once, and *)
(* holds its exit.                                                         *)
LEMMA InsertLoopSound ==
    ASSUME Straight, TypeInv, BlockInv, NEW kind \in {"while", "do", "for"},
           NEW init \in ForInits, NEW e \in Exprs, NEW act \in LastActs \cup {"none"},
           InsertLoopStatement(kind, init, e, act)
    PROVE  Advances
  <1> DEFINE isFor  == kind = "for"
             n      == Len(Ready.g)
             condB  == NewId(Ready.g)
             body   == condB + 1
             after  == condB + 2
             blocks == Fresh(Fresh(Fresh(Ready)))
             pre    == CASE init[1] = "expr" -> Eval(init[2], blocks, Here)
                         [] init[1] = "decl" -> Declare(init[2], blocks, Here)
                         [] OTHER            -> blocks
             to     == IF kind = "do" THEN body ELSE condB
             enter  == JumpTo(pre, to)
             at     == IF isFor THEN Here + 1 ELSE Here
             test   == Eval(e, Select(enter, condB), at)
             cond   == BranchTo(test, body, after)
             last   == NewId(cond.g)
             back   == JumpTo(Select(Fresh(cond), last), condB)
             step   == Eval(act, Select(back, last), at + 1)
             hasAct == act # "none"
             r      == Select(IF hasAct THEN step ELSE cond, body)
             frame  == MkFrame(IF isFor THEN "for" ELSE "loop", NoBlock, after, NoBlock)
             H      == HeldIn(frames)
  <1>1. /\ mode = "body" /\ At(r) /\ frames' = Append(frames, frame)
        /\ UNCHANGED <<mode, dangling, fellOff, orphans>>
    BY DEF InsertLoopStatement, Nests, Opens, history
  <1>2. SoundNow(Ready, H) /\ Ready.at # NoBlock /\ cfg \in Graph /\ Here \in Nat
        /\ Here + 1 \in Nat /\ Here + 2 \in Nat
    BY <1>1, ReadySound, Setting
  <1>3. n \in Nat
    BY <1>2, SoundFacts DEF SoundNow
  <1>4. condB = n + 1 /\ body = n + 2 /\ after = n + 3
    BY <1>3 DEF NewId
  <1>5. /\ SoundNow(blocks, H \cup {condB, body, after}) /\ blocks.at # NoBlock
        /\ condB \notin H /\ body \notin H /\ after \notin H
        /\ condB # body /\ condB # after /\ body # after /\ NoBlock # after /\ NoBlock # condB
        /\ condB \in Ids /\ body \in Ids /\ after \in Ids
    <2> HIDE DEF H, blocks
    <2>1. /\ SoundNow(blocks, H \cup {n + 1, n + 2, n + 3}) /\ blocks.at = Ready.at
          /\ n + 1 \notin H /\ n + 2 \notin H /\ n + 3 \notin H
          /\ n + 1 # n + 2 /\ n + 1 # n + 3 /\ n + 2 # n + 3 /\ NoBlock # n + 3
          /\ n + 1 \in Ids /\ n + 2 \in Ids /\ n + 3 \in Ids
      BY <1>2, ThreeHeld DEF blocks
    <2>2. NoBlock # n + 1
      BY <1>3 DEF NoBlock
    <2> QED
      BY <1>2, <1>4, <2>1, <2>2
  <1>6. to \in Ids /\ at \in Nat /\ at + 1 \in Nat
    BY <1>2, <1>5
  <1> HIDE DEF blocks, n, condB, body, after, H
  <1>7. SoundNow(pre, H \cup {condB, body, after}) /\ pre.at # NoBlock
    BY <1>5, InitializerSound
  <1> HIDE DEF pre, to
  <1>8. SoundNow(Select(enter, condB), H \cup {body, after}) /\ Select(enter, condB).at # NoBlock
    <2> DEFINE K == H \cup {condB, body, after}
    <2>1. condB \in K /\ K \ {condB} = H \cup {body, after}
      BY <1>5
    <2>2. SoundNow(pre, K)
      BY <1>7
    <2> HIDE DEF K
    <2>3. SoundNow(Select(enter, condB), K \ {condB})
      BY <1>2, <1>6, <1>7, <2>1, <2>2, SoundJump DEF SoundNow
    <2>4. Select(enter, condB).at = condB
      BY DEF Select
    <2> QED
      BY <1>5, <2>1, <2>3, <2>4
  <1> HIDE DEF enter, at
  <1>9. SoundNow(test, H \cup {body, after}) /\ test.at # NoBlock
    BY <1>2, <1>6, <1>8, ExprSound
  <1> HIDE DEF test
  <1>10. /\ body \in H \cup {body, after}
         /\ (H \cup {body, after}) \ {body} = H \cup {after}
    BY <1>5
  <1>11. /\ SoundNow(Select(cond, NoBlock), H \cup {body, after})
         /\ SoundNow(Select(cond, body), H \cup {after})
    <2> DEFINE K == H \cup {body, after}
    <2>1. SoundNow(test, K) /\ body \in K
      BY <1>9, <1>10
    <2> HIDE DEF K
    <2>2. SoundNow(Select(cond, NoBlock), K) /\ SoundNow(Select(cond, body), K \ {body})
      BY <1>2, <1>5, <1>9, <2>1, SoundBranch DEF SoundNow
    <2> QED
      BY <1>10, <2>2 DEF K
  <1> HIDE DEF cond
  <1>12. SoundNow(r, H \cup {after})
    <2>1. CASE ~hasAct
      BY <1>11, <2>1
    <2>2. CASE hasAct
      <3> DEFINE K == H \cup {body, after}
      <3>1. act \in LastActs /\ r = Select(step, body) /\ last = Len(cond.g) + 1
        BY <2>2 DEF NewId
      <3>2. SoundNow(Select(cond, NoBlock), K) /\ body \in K
        BY <1>10, <1>11
      <3> HIDE DEF K, last
      <3> DEFINE q == at + 1
      <3>3. q \in Nat
        BY <1>6
      <3> HIDE DEF q
      <3>4. SoundNow(Select(Eval(act, Select(JumpTo(Select(Fresh(cond), last), condB), last), q),
                            body), K \ {body})
        BY <1>2, <1>5, <3>1, <3>2, <3>3, LastActionSound
      <3> QED
        BY <1>10, <3>1, <3>4 DEF K, q
    <2> QED
      BY <2>1, <2>2
  <1> HIDE DEF r
  <1>13. /\ frame \in Frame /\ HeldBy(frame) = {NoBlock, after} /\ Shaped(frame)
    <2> DEFINE k == IF isFor THEN "for" ELSE "loop"
    <2>1. k \in FrameKinds /\ k \notin {"then", "compound", "switch"} /\ NoBlock \in Ids
      BY DEF FrameKinds, Ids, NoBlock
    <2> HIDE DEF k
    <2>2. MkFrame(k, NoBlock, after, NoBlock) = frame
      BY DEF k
    <2>3. /\ frame \in Frame /\ frame.kind = k /\ frame.blockFalse = NoBlock
          /\ frame.blockAfter = after
      BY <1>5, <2>1, <2>2, MkFrameLemma
    <2> HIDE DEF frame
    <2>4. HeldBy(frame) = {NoBlock, after}
      BY <2>1, <2>3, HeldByLemma
    <2> QED
      BY <2>1, <2>3, <2>4 DEF Shaped
  <1> HIDE DEF frame
  <1>14. HeldBy(frame) \cap HeldIn(frames) = {}
    BY <1>5, <1>13, HeldMember DEF H
  <1>15. H \cup {after} = HeldIn(frames) \cup (HeldBy(frame) \ {NoBlock})
    BY <1>5, <1>13 DEF H
  <1> QED
    BY <1>1, <1>12, <1>13, <1>14, <1>15, OpenEnd DEF At

-----------------------------------------------------------------------------
(* The steps that close a statement. *)

(* What the other frames hold once the top one is gone.                    *)
LEMMA TopHeld ==
    ASSUME TypeInv, BlockInv, mode # "error", frames # <<>>
    PROVE  /\ HeldIn(Front(frames)) = HeldIn(frames) \ HeldBy(Top)
           /\ Front(frames) \in Seq(Frame) /\ Apart(Front(frames)) /\ WaitOnce(dangling)
           /\ Top \in Frame /\ Shaped(Top) /\ InRange(cfg, Top)
           /\ \A b \in HeldBy(Top) : b # NoBlock => b \in HeldIn(frames)
           /\ NoBlock \notin HeldIn(frames)
  <1>1. /\ frames \in Seq(Frame) /\ Apart(frames) /\ WaitOnce(dangling)
        /\ Top \in Frame /\ InRange(cfg, Top) /\ Front(frames) \in Seq(Frame)
    BY StartLemma, StackFacts, FrontLemma
  <1>2. /\ HeldIn(frames) = HeldIn(Front(frames)) \cup (HeldBy(Top) \ {NoBlock})
        /\ Apart(Front(frames)) /\ Shaped(Top)
        /\ HeldBy(Top) \cap HeldIn(Front(frames)) = {}
    BY <1>1, HeldPop DEF Top
  <1>3. NoBlock \notin HeldIn(frames) /\ NoBlock \notin HeldIn(Front(frames))
    BY HeldMember
  <1> QED
    BY <1>1, <1>2, <1>3

(* A handler that is over: its frame is popped ...                         *)
LEMMA CloseEnd ==
    ASSUME TypeInv, BlockInv, mode # "error", frames # <<>>, mode' = "body",
           frames' = Front(frames), dangling' = dangling,
           NEW r, NEW F, NEW O, fellOff' = F, orphans' = O,
           Sound(r, HeldIn(frames) \ HeldBy(Top), Waiting, F, O), cfg' = r.g, sel' = r.at
    PROVE  Advances
  <1> DEFINE H == HeldIn(frames) \ HeldBy(Top)
  <1>1. /\ HeldIn(Front(frames)) = H /\ Apart(Front(frames)) /\ WaitOnce(dangling)
    BY TopHeld
  <1>2. Sound(r, H, Waiting, F, O)
    OBVIOUS
  <1> HIDE DEF H
  <1>3. Current' = r.at /\ Waiting' = Waiting
    BY DEF Current, Waiting
  <1>4. HeldIn(frames') = H /\ Apart(frames') /\ WaitOnce(dangling')
    BY <1>1
  <1> QED
    BY <1>2, <1>3, <1>4, EndLemma

(* ... or another frame takes its place.                                   *)
LEMMA ReplaceEnd ==
    ASSUME TypeInv, BlockInv, mode # "error", frames # <<>>, mode' \in {"body", "dispatch"},
           NEW f \in Frame, Shaped(f), HeldBy(f) \cap (HeldIn(frames) \ HeldBy(Top)) = {},
           frames' = Append(Front(frames), f), dangling' = dangling,
           NEW r, NEW F, fellOff' = F, orphans' = orphans,
           NEW H, H = (HeldIn(frames) \ HeldBy(Top)) \cup (HeldBy(f) \ {NoBlock}),
           Sound(r, H, Waiting, F, orphans), cfg' = r.g, sel' = r.at
    PROVE  Advances
  <1> DEFINE rest == Front(frames)
  <1>1. /\ HeldIn(rest) = HeldIn(frames) \ HeldBy(Top) /\ Apart(rest) /\ WaitOnce(dangling)
        /\ rest \in Seq(Frame)
    BY TopHeld
  <1>2. frames' = Append(rest, f)
    OBVIOUS
  <1> HIDE DEF rest
  <1>3. HeldIn(frames') = H /\ Apart(frames')
    <2>1. HeldBy(f) \cap HeldIn(rest) = {}
      BY <1>1
    <2>2. HeldIn(Append(rest, f)) = HeldIn(rest) \cup (HeldBy(f) \ {NoBlock})
          /\ Apart(Append(rest, f))
      BY <1>1, <2>1, HeldPush
    <2> QED
      BY <1>1, <1>2, <2>2
  <1>4. Current' = r.at /\ Waiting' = Waiting
    BY DEF Current, Waiting
  <1>5. WaitOnce(dangling')
    BY <1>1
  <1> QED
    BY <1>3, <1>4, <1>5, EndLemma

(* A body ends where the statement goes on: in the block kept for it, or   *)
(* in one created when it is needed.                                       *)
LEMMA JoinSound ==
    ASSUME TypeInv, BlockInv, mode = "body", NEW after,
           after # NoBlock => after \in HeldIn(frames)
    PROVE  SoundNow(JoinAfter(after), HeldIn(frames) \ {after})
  <1> DEFINE H == HeldIn(frames)
             s == [g |-> cfg, at |-> sel]
             n == Len(s.g) + 1
             r == JoinAfter(after)
  <1>1. SoundNow(s, H) /\ cfg \in Graph /\ s.g = cfg /\ s.at = sel
    BY StartLemma DEF Current
  <1>2. NoBlock \notin H
    BY HeldMember
  <1>3. CASE sel = NoBlock
    <2>1. r = Select(s, after)
      BY <1>3 DEF JoinAfter, Select
    <2> HIDE DEF s, r, H
    <2>2. CASE after = NoBlock
      <3>1. H \ {after} = H
        BY <1>2, <2>2
      <3>2. r.g = s.g /\ r.at = s.at
        BY <1>1, <1>3, <2>1, <2>2 DEF Select
      <3>3. SoundNow(r, H)
        BY <1>1, <3>2 DEF SoundNow, Sound
      <3> QED
        BY <3>1, <3>3 DEF r, H
    <2>3. CASE after # NoBlock
      <3>1. after \in H
        BY <2>3 DEF H
      <3>2. SoundNow(Select(s, after), H \ {after})
        BY <1>1, <1>3, <3>1, SoundSelect DEF SoundNow
      <3> QED
        BY <2>1, <3>2 DEF r, H
    <2> QED
      BY <2>2, <2>3
  <1>4. CASE sel # NoBlock /\ after = NoBlock
    <2>1. r = Select(JumpTo(Fresh(s), n), n)
      BY <1>4 DEF JoinAfter, Fresh, NewId
    <2>2. n \in Ids
      BY <1>1, SoundFacts DEF SoundNow, Ids
    <2> HIDE DEF s, r, H
    <2>3. SoundNow(Fresh(s), H \cup {n}) /\ Fresh(s).at # NoBlock /\ n \notin H
      BY <1>1, <1>4, SoundFresh DEF SoundNow
    <2> HIDE DEF n
    <2>4. n \in H \cup {n} /\ (H \cup {n}) \ {n} = H \ {after}
      BY <1>2, <1>4, <2>3
    <2>5. SoundNow(Select(JumpTo(Fresh(s), n), n), (H \cup {n}) \ {n})
      BY <1>1, <2>2, <2>3, <2>4, SoundJump DEF SoundNow
    <2> QED
      BY <2>1, <2>4, <2>5 DEF r, H
  <1>5. CASE sel # NoBlock /\ after # NoBlock
    <2>1. r = Select(JumpTo(s, after), after)
      BY <1>5 DEF JoinAfter
    <2>2. after \in H /\ after \in Ids
      <3>1. after \in H
        BY <1>5
      <3>2. H \subseteq DOMAIN s.g /\ DOMAIN s.g = 1..Len(s.g) /\ Len(s.g) \in Nat
        BY <1>1, SoundFacts DEF SoundNow
      <3> HIDE DEF H, s
      <3> QED
        BY <3>1, <3>2 DEF Ids
    <2> HIDE DEF s, r, H
    <2>3. SoundNow(Select(JumpTo(s, after), after), H \ {after})
      BY <1>1, <1>5, <2>2, SoundJump DEF SoundNow
    <2> QED
      BY <2>1, <2>3 DEF r, H
  <1> QED
    BY <1>3, <1>4, <1>5

(* The end of an if selects the exit.                                      *)
LEMMA EndIfSound ==
    ASSUME TypeInv, BlockInv, EndIf
    PROVE  Advances
  <1> DEFINE after == Top.blockAfter
             r == JoinAfter(after)
  <1>1. /\ mode = "body" /\ frames # <<>> /\ Top.kind \in {"then", "else"}
        /\ Top.blockFalse = NoBlock /\ At(r) /\ frames' = Front(frames)
        /\ UNCHANGED <<mode, dangling, fellOff, orphans>>
    BY DEF EndIf, InFrame, history
  <1>2. /\ HeldBy(Top) = {NoBlock, after} /\ NoBlock \notin HeldIn(frames)
        /\ after # NoBlock => after \in HeldIn(frames)
    <2>1. HeldBy(Top) = {Top.blockFalse, after}
      BY <1>1, HeldByLemma
    <2> QED
      BY <1>1, <2>1, TopHeld
  <1> HIDE DEF after
  <1>3. SoundNow(r, HeldIn(frames) \ {after})
    BY <1>1, <1>2, JoinSound
  <1> HIDE DEF r
  <1>4. HeldIn(frames) \ {after} = HeldIn(frames) \ HeldBy(Top)
    BY <1>2
  <1>5. Sound(r, HeldIn(frames) \ HeldBy(Top), Waiting, fellOff, orphans)
    BY <1>3, <1>4 DEF SoundNow
  <1> QED
    BY <1>1, <1>5, CloseEnd DEF At

(* The end of a compound statement goes on in the same block.              *)
LEMMA EndCompoundSound ==
    ASSUME TypeInv, BlockInv, EndCompound
    PROVE  Advances
  <1> DEFINE r == JoinAfter(NoBlock)
  <1>1. /\ mode = "body" /\ frames # <<>> /\ Top.kind = "compound"
        /\ At(r) /\ frames' = Front(frames)
        /\ UNCHANGED <<mode, dangling, fellOff, orphans>>
    BY DEF EndCompound, InFrame, history
  <1>2. HeldBy(Top) = {NoBlock} /\ NoBlock \notin HeldIn(frames)
    <2>1. Shaped(Top) /\ NoBlock \notin HeldIn(frames)
      BY <1>1, TopHeld
    <2>2. Top.blockFalse = NoBlock /\ Top.blockAfter = NoBlock
      BY <1>1, <2>1 DEF Shaped
    <2>3. HeldBy(Top) = {Top.blockFalse, Top.blockAfter}
      BY <1>1, HeldByLemma
    <2> QED
      BY <2>1, <2>2, <2>3
  <1>3. SoundNow(r, HeldIn(frames) \ HeldBy(Top))
    <2>1. SoundNow(r, HeldIn(frames) \ {NoBlock})
      BY <1>1, JoinSound
    <2> QED
      BY <1>2, <2>1
  <1> HIDE DEF r
  <1>4. Sound(r, HeldIn(frames) \ HeldBy(Top), Waiting, fellOff, orphans)
    BY <1>3 DEF SoundNow
  <1> QED
    BY <1>1, <1>4, CloseEnd DEF At

(* The end of the first body of an if selects the second.                  *)
LEMMA EndThenSound ==
    ASSUME TypeInv, BlockInv, EndThen
    PROVE  Advances
  <1> DEFINE after == Top.blockAfter
             false == Top.blockFalse
             H     == HeldIn(frames)
             K     == H \ {after}
             join  == JoinAfter(after)
             x     == Select(join, NoBlock)
             r     == Select(join, false)
             frame == MkFrame("else", NoBlock, join.at, NoBlock)
             L     == K \cup ({join.at} \ {NoBlock})
  <1>1. /\ mode = "body" /\ frames # <<>> /\ Top.kind = "then" /\ false # NoBlock
        /\ At(r) /\ frames' = Append(Front(frames), frame)
        /\ UNCHANGED <<mode, dangling, fellOff, orphans>>
    BY DEF EndThen, InFrame, history
  <1>2. /\ HeldBy(Top) = {false, after} /\ NoBlock \notin H /\ false \in H
        /\ after # NoBlock => after \in H
        /\ false # after
    <2>1. HeldBy(Top) = {false, after}
      BY <1>1, HeldByLemma
    <2> QED
      BY <1>1, <2>1, TopHeld DEF Shaped
  <1> HIDE DEF after, false
  <1>3. SoundNow(join, K) /\ cfg \in Graph
    BY <1>1, <1>2, JoinSound, Setting
  <1> HIDE DEF H, join
  <1>4. false \in K /\ NoBlock \notin K
    BY <1>2
  <1> HIDE DEF K
  <1>5. join.at \notin K /\ join.at \in Ids
    <2>1. CASE join.at = NoBlock
      BY <1>4, <2>1 DEF NoBlock, Ids
    <2>2. CASE join.at # NoBlock
      BY <1>3, <2>2, SoundFacts DEF SoundNow, Ids
    <2> QED
      BY <2>1, <2>2
  <1>6. SoundNow(x, L) /\ x.at = NoBlock
    <2>1. x.g = join.g /\ x.at = NoBlock
      BY SelectLemma
    <2> HIDE DEF x
    <2>2. CASE join.at = NoBlock
      <3>1. L = K
        BY <2>2
      <3>2. SoundNow(x, K)
        BY <1>3, <2>1, <2>2 DEF SoundNow, Sound
      <3> QED
        BY <2>1, <3>1, <3>2
    <2>3. CASE join.at # NoBlock
      <3>1. L = K \cup {join.at}
        BY <2>3
      <3>2. SoundNow(x, K \cup {join.at})
        BY <1>3, <2>3, SoundSelect DEF SoundNow, x
      <3> QED
        BY <2>1, <3>1, <3>2
    <2> QED
      BY <2>2, <2>3
  <1>7. SoundNow(r, L \ {false})
    <2>1. Select(x, false) = r /\ false \in L
      BY <1>4 DEF Select
    <2> HIDE DEF x, L, r
    <2>2. SoundNow(Select(x, false), L \ {false})
      BY <1>3, <1>6, <2>1, SoundSelect DEF SoundNow
    <2> QED
      BY <2>1, <2>2
  <1> HIDE DEF r, x
  <1>8. /\ frame \in Frame /\ HeldBy(frame) = {NoBlock, join.at} /\ Shaped(frame)
    <2>1. "else" \in FrameKinds /\ NoBlock \in Ids
      BY DEF FrameKinds, Ids, NoBlock
    <2>2. /\ frame \in Frame /\ frame.kind = "else" /\ frame.blockFalse = NoBlock
          /\ frame.blockAfter = join.at
      BY <1>5, <2>1, MkFrameLemma
    <2> HIDE DEF frame
    <2>3. HeldBy(frame) = {NoBlock, join.at}
      BY <2>2, HeldByLemma
    <2> QED
      BY <2>2, <2>3 DEF Shaped
  <1> HIDE DEF frame
  <1>9. HeldBy(frame) \cap (HeldIn(frames) \ HeldBy(Top)) = {}
    BY <1>2, <1>5, <1>8 DEF H, K
  <1>10. L \ {false} = (HeldIn(frames) \ HeldBy(Top)) \cup (HeldBy(frame) \ {NoBlock})
    BY <1>2, <1>4, <1>5, <1>8 DEF H, K
  <1>11. Sound(r, L \ {false}, Waiting, fellOff, orphans)
    BY <1>7 DEF SoundNow
  <1> HIDE DEF L
  <1> QED
    BY <1>1, <1>8, <1>9, <1>10, <1>11, ReplaceEnd DEF At

(* The end of a loop body jumps to the next turn; the exit is selected.    *)
LEMMA EndLoopSound ==
    ASSUME TypeInv, BlockInv, EndLoop
    PROVE  Advances
  <1> DEFINE after == Top.blockAfter
             H == HeldIn(frames)
             s == [g |-> cfg, at |-> sel]
             skip == Last(controls).skip
             r == [g |-> cfg', at |-> sel']
  <1>1. /\ mode = "body" /\ frames # <<>> /\ Top.kind \in {"loop", "for"}
        /\ sel' = after /\ cfg' = IF sel = NoBlock THEN cfg ELSE JumpTo(s, skip).g
        /\ frames' = Front(frames)
        /\ UNCHANGED <<mode, dangling, fellOff, orphans>>
    BY DEF EndLoop, InFrame, history
  <1>2. /\ HeldBy(Top) = {NoBlock, after} /\ NoBlock \notin H
        /\ after # NoBlock => after \in H
    <2>1. Top.kind \notin {"then", "switch"}
      BY <1>1
    <2>2. HeldBy(Top) = {Top.blockFalse, after}
      BY <2>1, HeldByLemma
    <2>3. Top.blockFalse = NoBlock
      BY <1>1, <2>1, TopHeld DEF Shaped
    <2> QED
      BY <1>1, <2>2, <2>3, TopHeld
  <1>3. skip \in Ids
    <2>1. controls \in Seq(Control) /\ frames \in Seq(Frame) /\ Nested(frames, controls)
      BY StackFacts
    <2>2. controls # <<>>
      BY <1>1, <2>1, NestedPop DEF Top, Breakable
    <2>3. Last(controls) \in Control
      BY <2>1, <2>2, StackLemma
    <2> QED
      BY <2>3 DEF Control
  <1>4. SoundNow(s, H) /\ cfg \in Graph /\ s.g = cfg /\ s.at = sel
    BY <1>1, StartLemma DEF Current
  <1> HIDE DEF H, s, skip, after
  <1>5. SoundNow(r, H \ {after})
    <2>1. CASE sel = NoBlock /\ after = NoBlock
      <3>1. r.g = s.g /\ r.at = s.at /\ H \ {after} = H
        BY <1>1, <1>2, <1>4, <2>1
      <3> HIDE DEF r
      <3> QED
        BY <1>4, <3>1 DEF SoundNow, Sound
    <2>2. CASE sel = NoBlock /\ after # NoBlock
      <3>1. r = Select(s, after)
        BY <1>1, <1>4, <2>2 DEF Select
      <3> HIDE DEF r
      <3> QED
        BY <1>2, <1>4, <2>2, <3>1, SoundSelect DEF SoundNow
    <2>3. CASE sel # NoBlock /\ after = NoBlock
      <3>1. r = Select(JumpTo(s, skip), NoBlock) /\ H \ {after} = H
        BY <1>1, <1>2, <2>3 DEF Select
      <3> HIDE DEF r
      <3> QED
        BY <1>3, <1>4, <2>3, <3>1, SoundJump DEF SoundNow
    <2>4. CASE sel # NoBlock /\ after # NoBlock
      <3>1. r = Select(JumpTo(s, skip), after) /\ after \in H
        BY <1>1, <1>2, <2>4 DEF Select
      <3> HIDE DEF r
      <3> QED
        BY <1>3, <1>4, <2>4, <3>1, SoundJump DEF SoundNow
    <2> QED
      BY <2>1, <2>2, <2>3, <2>4
  <1>6. H \ {after} = HeldIn(frames) \ HeldBy(Top)
    BY <1>2 DEF H
  <1>7. cfg' = r.g /\ sel' = r.at
    OBVIOUS
  <1> HIDE DEF r
  <1>8. Sound(r, HeldIn(frames) \ HeldBy(Top), Waiting, fellOff, orphans)
    BY <1>5, <1>6 DEF SoundNow
  <1> QED
    BY <1>1, <1>7, <1>8, CloseEnd

(* The end of a switch body is linked to the exit; the tests go on.        *)
LEMMA EndSwitchSound ==
    ASSUME TypeInv, BlockInv, EndSwitch
    PROVE  Advances
  <1> DEFINE after == Top.blockAfter
             entry == Top.entry
             H == HeldIn(frames)
             s == [g |-> cfg, at |-> sel]
             x == [g |-> LinkBlocks(cfg, sel, after), at |-> NoBlock]
             r == [g |-> cfg', at |-> sel']
             F == fellOff'
             frame == [Top EXCEPT !.kind = "dispatch"]
  <1>1. /\ mode = "body" /\ frames # <<>> /\ Top.kind = "switch" /\ mode' = "dispatch"
        /\ cfg' = IF sel = NoBlock THEN cfg ELSE LinkBlocks(cfg, sel, after)
        /\ fellOff' = IF sel = NoBlock THEN fellOff ELSE fellOff \cup {sel}
        /\ sel' = entry /\ frames' = Append(Front(frames), frame)
        /\ UNCHANGED <<dangling, orphans>>
    BY DEF EndSwitch, InFrame
  <1>2. /\ Top \in Frame /\ Shaped(Top) /\ NoBlock \notin H
        /\ after \in DOMAIN cfg /\ entry \in DOMAIN cfg
        /\ \A b \in HeldBy(Top) : b # NoBlock => b \in H
    BY <1>1, TopHeld DEF InRange
  <1>3. SoundNow(s, H) /\ cfg \in Graph /\ s.g = cfg /\ s.at = sel
    BY <1>1, StartLemma DEF Current
  <1>4. after # NoBlock /\ entry # NoBlock /\ after \in Ids
    <2>1. NoBlock \notin DOMAIN cfg /\ DOMAIN cfg \subseteq Ids
      BY <1>3 DEF Graph, NoBlock, Ids
    <2> QED
      BY <1>2, <2>1
  <1>5. /\ HeldBy(Top) = {NoBlock, after, entry} /\ after \in H /\ entry \in H
        /\ after # entry
    <2>1. HeldBy(Top) = {Top.blockFalse, after, entry}
      BY <1>1, HeldByLemma
    <2>2. Top.blockFalse = NoBlock /\ after # entry
      BY <1>1, <1>2 DEF Shaped
    <2> QED
      BY <1>2, <1>4, <2>1, <2>2
  <1>6. /\ frame \in Frame /\ frame.kind = "dispatch" /\ frame.blockAfter = after
        /\ frame.blockFalse = Top.blockFalse
    BY <1>2 DEF Frame, FrameKinds
  <1> HIDE DEF frame
  <1>7. HeldBy(frame) = {NoBlock, after} /\ Shaped(frame)
    <2>1. HeldBy(frame) = {Top.blockFalse, after}
      BY <1>6, HeldByLemma
    <2>2. Top.blockFalse = NoBlock
      BY <1>1, <1>2 DEF Shaped
    <2> QED
      BY <1>6, <2>1, <2>2 DEF Shaped
  <1> HIDE DEF H, s, after, entry
  <1>8. Sound(r, H \ {entry}, Waiting, F, orphans)
    <2>1. CASE sel = NoBlock
      <3>1. r = Select(s, entry) /\ F = fellOff
        BY <1>1, <1>3, <2>1 DEF Select
      <3> HIDE DEF r, F
      <3> QED
        BY <1>3, <1>5, <2>1, <3>1, SoundSelect DEF SoundNow
    <2>2. CASE sel # NoBlock
      <3>1. r = Select(x, entry) /\ F = fellOff \cup {sel} /\ x.at = NoBlock
        BY <1>1, <2>2 DEF Select
      <3> HIDE DEF r, F
      <3>2. Sound(x, H, Waiting, fellOff \cup {sel}, orphans)
        BY <1>3, <1>4, <2>2, SoundLink DEF SoundNow
      <3> HIDE DEF x
      <3>3. Sound(Select(x, entry), H \ {entry}, Waiting, fellOff \cup {sel}, orphans)
        BY <1>3, <1>5, <3>1, <3>2, SoundSelect
      <3> QED
        BY <3>1, <3>3
    <2> QED
      BY <2>1, <2>2
  <1>9. HeldBy(frame) \cap (HeldIn(frames) \ HeldBy(Top)) = {}
    BY <1>2, <1>5, <1>7 DEF H
  <1>10. H \ {entry} = (HeldIn(frames) \ HeldBy(Top)) \cup (HeldBy(frame) \ {NoBlock})
    BY <1>2, <1>4, <1>5, <1>7 DEF H
  <1>11. cfg' = r.g /\ sel' = r.at /\ fellOff' = F
    OBVIOUS
  <1> HIDE DEF r, F
  <1> QED
    BY <1>1, <1>6, <1>7, <1>8, <1>9, <1>10, <1>11, ReplaceEnd

(* A test finishes one block and goes on in a new one.                     *)
LEMMA DispatchCaseSound ==
    ASSUME TypeInv, BlockInv, DispatchCase
    PROVE  Advances
  <1> DEFINE k == Top.done + 1
             after == Top.blockAfter
             H == HeldIn(frames)
             s == [g |-> cfg, at |-> sel]
             one == Emit(s, "op", 0)
             test == Fresh(one)
             other == NewId(cfg)
             to == Cases[k].block
             r == Select(BranchTo(test, to, other), other)
             frame == [Top EXCEPT !.done = k]
  <1>1. CASE SemanticError
    BY <1>1, ErrorSound
  <1>2. CASE ~SemanticError
    <2>1. /\ mode = "dispatch" /\ k <= Len(Cases) /\ At(r)
          /\ frames' = Append(Front(frames), frame)
          /\ UNCHANGED <<mode, dangling, fellOff, orphans>>
      BY <1>2 DEF DispatchCase, history
    <2>2. /\ frames # <<>> /\ Top.kind = "dispatch" /\ Top \in Frame
          /\ sel \in DOMAIN cfg /\ after \in DOMAIN cfg
          /\ controls[NearestSwitch] \in Control
      BY <2>1, DispatchFacts
    <2>3. to \in Ids
      <3>1. Cases \in Seq([val : Vals, block : Ids]) /\ k \in Nat \ {0}
        BY <2>2 DEF Cases, Control, Frame
      <3>2. k \in 1..Len(Cases)
        BY <2>1, <3>1
      <3>3. Cases[k] \in [val : Vals, block : Ids]
        BY <3>1, <3>2, ElementOfSeq
      <3> QED
        BY <3>3
    <2>4. SoundNow(s, H) /\ cfg \in Graph /\ s.g = cfg /\ s.at = sel
      BY <2>1, StartLemma DEF Current
    <2>5. sel # NoBlock /\ after # NoBlock
      <3>1. NoBlock \notin DOMAIN cfg
        BY <2>4 DEF Graph, NoBlock
      <3> QED
        BY <2>2, <3>1
    <2>6. other = Len(s.g) + 1 /\ other \in Ids
      BY <2>4, SoundFacts DEF NewId, SoundNow, Ids
    <2> HIDE DEF s, to, H, other
    <2>7. SoundNow(one, H) /\ one.at # NoBlock /\ Len(one.g) = Len(s.g)
      <3>1. SoundNow(one, H) /\ one.at # NoBlock
        BY <2>4, <2>5, SoundEmit DEF NodeOps
      <3>2. Position(s)
        BY <2>4, <2>5, SoundFacts DEF SoundNow
      <3> QED
        BY <3>1, <3>2, EmitLemma DEF NodeOps
    <2> HIDE DEF one
    <2>8. SoundNow(test, H \cup {other}) /\ test.at # NoBlock /\ other \notin H
      BY <2>4, <2>6, <2>7, SoundFresh DEF SoundNow
    <2> HIDE DEF test
    <2>9. SoundNow(r, H)
      <3>1. other \in H \cup {other} /\ (H \cup {other}) \ {other} = H
        BY <2>8
      <3>2. SoundNow(r, (H \cup {other}) \ {other})
        BY <2>3, <2>4, <2>6, <2>8, <3>1, SoundBranch DEF SoundNow
      <3> QED
        BY <3>1, <3>2
    <2> HIDE DEF r
    <2>10. /\ frame \in Frame /\ frame.kind = "dispatch" /\ frame.blockAfter = after
           /\ frame.blockFalse = Top.blockFalse
      BY <2>2 DEF Frame
    <2> HIDE DEF frame, after
    <2>11. /\ HeldBy(Top) = {NoBlock, after} /\ HeldBy(frame) = {NoBlock, after}
           /\ Shaped(frame) /\ NoBlock \notin H /\ after \in H
      <3>1. HeldBy(frame) = {Top.blockFalse, after} /\ HeldBy(Top) = {Top.blockFalse, after}
        BY <2>2, <2>10, HeldByLemma DEF after
      <3>2. Shaped(Top) /\ NoBlock \notin H /\ \A b \in HeldBy(Top) : b # NoBlock => b \in H
        BY <2>1, <2>2, TopHeld DEF H
      <3>3. Top.blockFalse = NoBlock
        BY <2>2, <3>2 DEF Shaped
      <3> QED
        BY <2>5, <2>10, <3>1, <3>2, <3>3 DEF Shaped
    <2>12. HeldBy(frame) \cap (HeldIn(frames) \ HeldBy(Top)) = {}
      BY <2>11 DEF H
    <2>13. H = (HeldIn(frames) \ HeldBy(Top)) \cup (HeldBy(frame) \ {NoBlock})
      BY <2>5, <2>11 DEF H
    <2>14. Sound(r, H, Waiting, fellOff, orphans)
      BY <2>9 DEF SoundNow
    <2> QED
      BY <2>1, <2>2, <2>10, <2>11, <2>12, <2>13, <2>14, ReplaceEnd DEF At
  <1> QED
    BY <1>1, <1>2

(* The last of them jumps to the default or to the exit.                   *)
LEMMA DispatchDoneSound ==
    ASSUME TypeInv, BlockInv, DispatchDone
    PROVE  Advances
  <1> DEFINE default == controls[NearestSwitch].default
             after == Top.blockAfter
             to == IF default # NoBlock THEN default ELSE after
             H == HeldIn(frames)
             s == [g |-> cfg, at |-> sel]
             final == JumpTo(s, to)
             x == Select(final, NoBlock)
             r == Select(final, sel')
             O == orphans'
  <1>1. /\ mode = "dispatch" /\ mode' = "body" /\ cfg' = final.g
        /\ \/ sel' = after /\ orphans' = orphans
           \/ sel' = NoBlock /\ orphans' = orphans \cup {after}
        /\ frames' = Front(frames) /\ UNCHANGED <<dangling, fellOff>>
    BY DEF DispatchDone
  <1>2. /\ frames # <<>> /\ Top.kind = "dispatch" /\ Top \in Frame
        /\ sel \in DOMAIN cfg /\ after \in DOMAIN cfg
        /\ controls[NearestSwitch] \in Control
    BY <1>1, DispatchFacts
  <1>3. SoundNow(s, H) /\ cfg \in Graph /\ s.g = cfg /\ s.at = sel
    BY <1>1, StartLemma DEF Current
  <1>4. sel # NoBlock /\ after # NoBlock /\ after \in Ids
    <2>1. NoBlock \notin DOMAIN cfg /\ DOMAIN cfg \subseteq Ids
      BY <1>3 DEF Graph, NoBlock, Ids
    <2> QED
      BY <1>2, <2>1
  <1>5. to \in Ids
    BY <1>2, <1>4 DEF Control
  <1>6. HeldBy(Top) = {NoBlock, after} /\ NoBlock \notin H /\ after \in H
    <2>1. HeldBy(Top) = {Top.blockFalse, after}
      BY <1>2, HeldByLemma
    <2>2. Shaped(Top) /\ NoBlock \notin H /\ \A b \in HeldBy(Top) : b # NoBlock => b \in H
      BY <1>1, <1>2, TopHeld
    <2>3. Top.blockFalse = NoBlock
      BY <1>2, <2>2 DEF Shaped
    <2> QED
      BY <1>4, <2>1, <2>2, <2>3
  <1>7. cfg' = r.g /\ sel' = r.at /\ orphans' = O
    BY <1>1 DEF Select
  <1> HIDE DEF H, s, to, after
  <1>8. SoundNow(x, H) /\ SoundNow(Select(final, after), H \ {after}) /\ x.at = NoBlock
    BY <1>3, <1>4, <1>5, <1>6, SoundJump, SelectLemma DEF SoundNow
  <1>9. Sound(Select(x, NoBlock), H \ {after}, Waiting, fellOff, orphans \cup {after})
    <2> HIDE DEF x
    <2> QED
      BY <1>3, <1>6, <1>8, SoundSelect DEF SoundNow
  <1>10. Select(x, NoBlock) = Select(final, NoBlock)
    BY DEF Select
  <1> HIDE DEF x, final
  <1>11. Sound(r, H \ {after}, Waiting, fellOff, O)
    <2>1. CASE sel' = after /\ orphans' = orphans
      BY <1>8, <2>1 DEF SoundNow
    <2>2. CASE sel' = NoBlock /\ orphans' = orphans \cup {after}
      BY <1>9, <1>10, <2>2
    <2> QED
      BY <1>1, <2>1, <2>2
  <1> HIDE DEF r, O
  <1>12. H \ {after} = HeldIn(frames) \ HeldBy(Top)
    BY <1>6 DEF H
  <1>13. Sound(r, HeldIn(frames) \ HeldBy(Top), Waiting, fellOff, O)
    BY <1>11, <1>12
  <1> QED
    BY <1>1, <1>2, <1>7, <1>13, CloseEnd

-----------------------------------------------------------------------------
(* The start and the end of a function. *)

(* A function starts with one block, which is selected.                    *)
LEMMA CreateFunctionGraph ==
    ASSUME NEW void \in BOOLEAN, NEW params \in BOOLEAN, CreateFunction(void, params)
    PROVE  cfg' \in Graph /\ DOMAIN cfg' = {1} /\ sel' = 1 /\ IsOpen(cfg'[1])
  <1> DEFINE entry == [g |-> CreateBlock(<<>>), at |-> 1]
             one == Emit(entry, "alloca", 0)
             two == Emit(one, "use", 0)
             first == IF params THEN two ELSE entry
             Only(s) == Position(s) /\ Len(s.g) = 1 /\ s.at = 1 /\ IsOpen(s.g[1])
  <1>1. At(first)
    BY DEF CreateFunction
  <1>2. Only(entry)
    <2> DEFINE none == <<>>
    <2>1. none \in Graph /\ Len(none) = 0
      BY DEF Graph
    <2> HIDE DEF none
    <2>2. /\ CreateBlock(none) \in Graph /\ Len(CreateBlock(none)) = 1
          /\ CreateBlock(none)[1] = NewBlock
      <3>1. /\ CreateBlock(none) \in Graph /\ Len(CreateBlock(none)) = Len(none) + 1
            /\ CreateBlock(none)[Len(none) + 1] = NewBlock
        BY <2>1, CreateBlockLemma
      <3> QED
        BY <2>1, <3>1
    <2>3. DOMAIN CreateBlock(none) = 1..1
      BY <2>2 DEF Graph
    <2>4. entry.g = CreateBlock(none) /\ entry.at = 1
      BY DEF none
    <2> HIDE DEF entry
    <2> QED
      BY <2>2, <2>3, <2>4 DEF Position, IsOpen, NewBlock
  <1>3. ASSUME NEW s, Only(s), NEW op \in NodeOps PROVE Only(Emit(s, op, 0))
    <2> DEFINE r == Emit(s, op, 0)
    <2>1. /\ Position(r) /\ r.at = s.at /\ Len(r.g) = Len(s.g)
          /\ \A c \in DOMAIN s.g : SameArcs(r.g[c], s.g[c])
      BY <1>3, EmitLemma
    <2>2. 1 \in DOMAIN s.g
      BY <1>3 DEF Position
    <2> HIDE DEF r
    <2>3. Only(r)
      BY <1>3, <2>1, <2>2, StageFacts
    <2> QED
      BY <2>3 DEF r
  <1> HIDE DEF entry, Only
  <1>4. Only(one)
    BY <1>2, <1>3 DEF NodeOps
  <1> HIDE DEF one
  <1>5. Only(first)
    BY <1>2, <1>3, <1>4 DEF NodeOps
  <1> HIDE DEF first
  <1>6. cfg' = first.g /\ sel' = first.at
    BY <1>1 DEF At
  <1> QED
    BY <1>5, <1>6 DEF Only, Position, Graph

(* Nothing else is held or waits when it starts.                           *)
LEMMA CreateFunctionSound ==
    ASSUME TypeInv, BlockInv, NEW void \in BOOLEAN, NEW params \in BOOLEAN,
           CreateFunction(void, params)
    PROVE  Advances
  <1>1. /\ mode = "idle" /\ mode' = "body" /\ funcs' = funcs + 1
        /\ fellOff' = {} /\ orphans' = {} /\ UNCHANGED <<frames, dangling>>
    BY DEF CreateFunction
  <1>2. cfg' \in Graph /\ DOMAIN cfg' = {1} /\ sel' = 1 /\ IsOpen(cfg'[1])
    BY CreateFunctionGraph
  <1>3. frames = <<>> /\ dangling = <<>>
    BY <1>1 DEF TypeInv, ModeShowsFrame
  <1>4. HeldIn(frames') = {} /\ Waiting' = {} /\ Apart(frames') /\ WaitOnce(dangling')
    <2>1. HeldIn(<<>>) = {}
      <3>1. \A b : b \notin HeldIn(<<>>)
        BY HeldMember
      <3> QED
        BY <3>1
    <2> QED
      BY <1>1, <1>3, <2>1 DEF Waiting, Apart, WaitOnce
  <1>5. Current' = 1
    BY <1>1, <1>2 DEF Current
  <1>6. BlockInv'
    BY <1>1, <1>2, <1>4, <1>5 DEF BlockInv, Accounted
  <1>7. funcs' # funcs
    BY <1>1 DEF TypeInv, TypeOK
  <1> QED
    BY <1>6, <1>7 DEF Advances

(* The block the body ended in, if one is open, returns.                   *)
LEMMA EndBodySound ==
    ASSUME TypeInv, BlockInv, EndBody
    PROVE  Advances
  <1> DEFINE H == HeldIn(frames)
             s == [g |-> cfg, at |-> sel]
             x == [g |-> SetTerminator(s.g, s.at, "RET"), at |-> NoBlock]
             r == IF sel = NoBlock THEN s ELSE x
  <1>1. CASE SemanticError
    BY <1>1, ErrorSound
  <1>2. CASE ~SemanticError
    <2>1. /\ mode = "body" /\ mode' = "resolve"
          /\ cfg' = IF sel = NoBlock THEN cfg ELSE SetTerminator(cfg, sel, "RET")
          /\ UNCHANGED <<frames, dangling, fellOff, orphans>>
      BY <1>2 DEF EndBody, history
    <2>2. /\ SoundNow(s, H) /\ cfg \in Graph /\ s.g = cfg /\ s.at = sel
          /\ Apart(frames) /\ WaitOnce(dangling)
      BY <2>1, StartLemma DEF Current
    <2>3. cfg' = r.g /\ r.at = NoBlock
      BY <2>1
    <2> HIDE DEF s
    <2>4. SoundNow(r, H)
      <3>1. sel # NoBlock => SoundNow(x, H)
        BY <2>2, SoundTerminate DEF SoundNow
      <3> HIDE DEF x
      <3> QED
        BY <2>2, <3>1
    <2> HIDE DEF r
    <2>5. Current' = r.at /\ Waiting' = Waiting /\ HeldIn(frames') = H
          /\ Apart(frames') /\ WaitOnce(dangling')
      BY <2>1, <2>2, <2>3 DEF Current, Waiting
    <2> QED
      BY <2>1, <2>3, <2>4, <2>5, EndLemma DEF SoundNow
  <1> QED
    BY <1>1, <1>2

(* A goto that waited gets its arc, and its block is finished.             *)
LEMMA SoundResolve ==
    ASSUME NEW s, NEW H, NEW W, NEW F, NEW O, Sound(s, H, W, F, O), cfg \in Graph,
           s.at = NoBlock, NEW b \in W, NEW to \in Ids
    PROVE  Sound([g |-> LinkBlocks(s.g, b, to), at |-> NoBlock], H, W \ {b}, F, O)
  <1> DEFINE r == [g |-> LinkBlocks(s.g, b, to), at |-> NoBlock]
  <1>1. s.g \in Graph /\ b \in DOMAIN s.g /\ IsWaiting(s.g[b])
    BY DEF Sound, Accounted
  <1>2. /\ r.g \in Graph /\ Len(r.g) = Len(s.g) /\ r.g[b].term = s.g[b].term
        /\ r.g[b].next = Append(s.g[b].next, to)
        /\ \A c \in DOMAIN s.g : c # b => SameArcs(r.g[c], s.g[c])
    BY <1>1, LinkBlocksLemma
  <1>3. r.at = NoBlock
    OBVIOUS
  <1> HIDE DEF r
  <1>4. IsSealed(r.g[b])
    <2>1. r.g[b].next = <<to>> /\ r.g[b].term = "JUMP"
      BY <1>1, <1>2 DEF IsWaiting
    <2> QED
      BY <2>1 DEF IsSealed, Arity
  <1>5. b \notin H /\ b \notin F /\ b \notin O /\ ~IsSealed(s.g[b])
    BY <1>1, StagesApart DEF Sound, Accounted
  <1>6. DOMAIN r.g = DOMAIN s.g /\ Len(s.g) \in Nat
    BY <1>1, <1>2, LenProperties DEF Graph
  <1>7. \A c \in DOMAIN s.g : c # b =>
            /\ IsOpen(r.g[c]) <=> IsOpen(s.g[c])
            /\ IsSealed(r.g[c]) <=> IsSealed(s.g[c])
            /\ IsWaiting(r.g[c]) <=> IsWaiting(s.g[c])
            /\ IsLinked(r.g[c]) <=> IsLinked(s.g[c])
    BY <1>2, StageFacts
  <1>8. Keeps(cfg, r.g)
    <2>1. Keeps(s.g, r.g)
      BY <1>2, <1>5, <1>6 DEF Keeps
    <2> QED
      BY <1>1, <1>2, <2>1, KeepsStep DEF Sound
  <1>9. Accounted(r.g, NoBlock, H, W \ {b}, F, O)
    <2>1. \A c \in H : c \in DOMAIN r.g /\ IsOpen(r.g[c]) /\ c \notin O
      BY <1>5, <1>6, <1>7 DEF Sound, Accounted
    <2>2. \A c \in O : c \in DOMAIN r.g /\ IsOpen(r.g[c])
      BY <1>5, <1>6, <1>7 DEF Sound, Accounted
    <2>3. \A c \in W \ {b} : c \in DOMAIN r.g /\ IsWaiting(r.g[c])
      BY <1>6, <1>7 DEF Sound, Accounted
    <2>4. \A c \in F : c \in DOMAIN r.g /\ IsLinked(r.g[c])
      BY <1>5, <1>6, <1>7 DEF Sound, Accounted
    <2>5. \A c \in DOMAIN r.g :
              c = NoBlock \/ c \in H \cup (W \ {b}) \cup F \cup O \/ IsSealed(r.g[c])
      BY <1>4, <1>6, <1>7 DEF Sound, Accounted
    <2> QED
      BY <2>1, <2>2, <2>3, <2>4, <2>5 DEF Accounted
  <1>10. Sound(r, H, W \ {b}, F, O)
    BY <1>2, <1>3, <1>8, <1>9 DEF Sound
  <1> QED
    BY <1>10 DEF r

(* A waiting goto is finished when its label is known.                     *)
LEMMA ResolveGotoSound ==
    ASSUME TypeInv, BlockInv, ResolveGoto
    PROVE  Advances
  <1> DEFINE H == HeldIn(frames)
             s == [g |-> cfg, at |-> Current]
             b == Head(dangling).block
             to == labels[Head(dangling).label]
             r == [g |-> LinkBlocks(s.g, b, to), at |-> NoBlock]
  <1>1. CASE SemanticError
    BY <1>1, ErrorSound
  <1>2. CASE ~SemanticError
    <2>1. /\ mode = "resolve" /\ dangling # <<>> /\ to # NoBlock
          /\ cfg' = LinkBlocks(cfg, b, to) /\ dangling' = Tail(dangling)
          /\ UNCHANGED <<mode, frames, fellOff, orphans>>
      BY <1>2 DEF ResolveGoto, history
    <2>2. /\ SoundNow(s, H) /\ cfg \in Graph /\ s.g = cfg /\ s.at = NoBlock
          /\ Apart(frames) /\ WaitOnce(dangling)
      BY <2>1, StartLemma DEF Current
    <2> DEFINE S == [block : DOMAIN cfg, label : Labels]
    <2>3. dangling \in Seq(S)
      BY DEF TypeInv, TypeOK
    <2>4. Head(dangling) \in S
      BY <2>1, <2>3, HeadTailProperties
    <2>5. to \in Ids
      <3>1. Head(dangling).label \in Labels
        BY <2>4
      <3>2. to \in {NoBlock} \cup DOMAIN cfg
        BY <3>1 DEF TypeInv, TypeOK
      <3> QED
        BY <2>2, <3>2 DEF Graph, Ids, NoBlock
    <2> HIDE DEF S
    <2>6. b \in Waiting /\ Waiting' = Waiting \ {b} /\ WaitOnce(dangling')
      <3>1. Waiting = BlocksOf(dangling) /\ Waiting' = BlocksOf(dangling')
        BY DEF Waiting, BlocksOf
      <3>2. /\ b \in BlocksOf(dangling) /\ BlocksOf(Tail(dangling)) = BlocksOf(dangling) \ {b}
            /\ WaitOnce(Tail(dangling))
        BY <2>1, <2>2, <2>3, WaitPop
      <3> QED
        BY <2>1, <3>1, <3>2
    <2>7. cfg' = r.g /\ Current' = r.at /\ HeldIn(frames') = H /\ Apart(frames')
      BY <2>1, <2>2 DEF Current
    <2> HIDE DEF s, b, to, H
    <2>8. Sound(r, H, Waiting \ {b}, fellOff, orphans)
      BY <2>2, <2>5, <2>6, SoundResolve DEF SoundNow
    <2> HIDE DEF r
    <2> QED
      BY <2>1, <2>6, <2>7, <2>8, EndLemma
  <1> QED
    BY <1>1, <1>2

(* The end of a function changes no block.                                 *)
LEMMA FinishFunctionSound ==
    ASSUME TypeInv, BlockInv, FinishFunction
    PROVE  Advances
  <1> DEFINE s == [g |-> cfg, at |-> Current]
  <1>1. /\ mode = "resolve" /\ mode' = "idle"
        /\ UNCHANGED <<cfg, frames, dangling, fellOff, orphans>>
    BY DEF FinishFunction, history
  <1>2. SoundNow(s, HeldIn(frames)) /\ Apart(frames) /\ WaitOnce(dangling)
    BY <1>1, StartLemma
  <1>3. cfg' = s.g /\ Current' = s.at
    BY <1>1 DEF Current
  <1> HIDE DEF s
  <1>4. /\ HeldIn(frames') = HeldIn(frames) /\ Waiting' = Waiting
        /\ Apart(frames') /\ WaitOnce(dangling')
    BY <1>1, <1>2 DEF Waiting
  <1> QED
    BY <1>1, <1>2, <1>3, <1>4, EndLemma DEF SoundNow

-----------------------------------------------------------------------------
(* The specification. *)

(* Nothing is accounted for before the first function.                     *)
LEMMA BlockInit == Init => BlockInv
  <1> SUFFICES ASSUME Init PROVE BlockInv
    OBVIOUS
  <1>1. /\ mode = "idle" /\ cfg = <<>> /\ frames = <<>> /\ dangling = <<>>
        /\ fellOff = {} /\ orphans = {}
    BY DEF Init
  <1>2. HeldIn(<<>>) = {}
    <2>1. \A b : b \notin HeldIn(<<>>)
      BY HeldMember
    <2> QED
      BY <2>1
  <1>3. Current = NoBlock /\ Waiting = {}
    BY <1>1 DEF Current, Waiting
  <1>4. DOMAIN cfg = {}
    BY <1>1
  <1> QED
    BY <1>1, <1>2, <1>3, <1>4 DEF BlockInv, Accounted, Apart, WaitOnce

(* Every step of the walk keeps the account and the finished blocks.       *)
LEMMA BlockStep ==
    ASSUME Straight, TypeInv, BlockInv, [Next]_vars
    PROVE  Advances
  <1>1. CASE UNCHANGED vars
    <2>1. BlockInv'
      BY <1>1 DEF vars, BlockInv, Current, Waiting
    <2>2. cfg' = cfg /\ cfg \in Graph
      BY <1>1 DEF vars, TypeInv, TypeOK
    <2>3. Keeps(cfg, cfg')
      BY <2>2, LenProperties DEF Keeps, SameArcs, Graph
    <2> QED
      BY <2>1, <2>3 DEF Advances
  <1>2. ASSUME NEW void \in BOOLEAN, NEW params \in BOOLEAN, CreateFunction(void, params)
        PROVE  Advances
    BY <1>2, CreateFunctionSound
  <1>3. ASSUME NEW e \in Exprs, ExprStmt(e) \/ Return(e) \/ InsertSwitchStatement(e)
        PROVE  Advances
    BY <1>3, ExprStmtSound, ReturnSound, InsertSwitchSound
  <1>4. ASSUME NEW e \in Exprs \cup {"none"}, InsertDeclaration(e) PROVE Advances
    BY <1>4, InsertDeclarationSound
  <1>5. ASSUME NEW v \in UNION {scopes[k] : k \in DOMAIN scopes}, UseVariable(v)
        PROVE  Advances
    <2>1. scopes \in Seq(SUBSET Nat)
      BY ScopesLemma
    <2>2. PICK k \in DOMAIN scopes : v \in scopes[k]
      BY <1>5
    <2>3. scopes[k] \in SUBSET Nat
      BY <2>1, ElementOfSeq, LenProperties
    <2>4. v \in Nat
      BY <2>2, <2>3
    <2> QED
      BY <1>5, <2>4, UseVariableSound
  <1>6. ASSUME NEW e \in Exprs, NEW hasElse \in BOOLEAN, InsertIfStatement(e, hasElse)
        PROVE  Advances
    BY <1>6, InsertIfSound
  <1>7. ASSUME NEW e \in Exprs, NEW kind \in LoopKinds,
               InsertLoopStatement(kind, <<"none", "">>, e, "none")
        PROVE  Advances
    <2>1. kind \in {"while", "do", "for"} /\ <<"none", "">> \in ForInits
      BY DEF LoopKinds, ForInits
    <2> QED
      BY <1>7, <2>1, InsertLoopSound
  <1>8. ASSUME NEW e \in Exprs, NEW init \in ForInits, NEW act \in LastActs \cup {"none"},
               InsertLoopStatement("for", init, e, act)
        PROVE  Advances
    <2>1. "for" \in {"while", "do", "for"}
      OBVIOUS
    <2> QED
      BY <1>8, <2>1, InsertLoopSound
  <1>9. ASSUME NEW l \in Labels, Goto(l) \/ InsertLabel(l) PROVE Advances
    BY <1>9, GotoSound, InsertLabelSound
  <1>10. ASSUME NEW v \in Vals, InsertCase(v) PROVE Advances
    BY <1>10, InsertCaseSound
  <1>11. CASE ReturnNothing \/ Break \/ Continue \/ InsertDefault
    BY <1>11, ReturnNothingSound, BreakSound, ContinueSound, InsertDefaultSound
  <1>12. CASE BadSwitch
    BY <1>12, ErrorSound DEF BadSwitch
  <1>13. CASE InsertCompoundStatement \/ EndCompound \/ EndThen \/ EndIf
    BY <1>13, InsertCompoundSound, EndCompoundSound, EndThenSound, EndIfSound
  <1>14. CASE EndLoop \/ EndSwitch \/ DispatchCase \/ DispatchDone
    BY <1>14, EndLoopSound, EndSwitchSound, DispatchCaseSound, DispatchDoneSound
  <1>15. CASE EndBody \/ ResolveGoto \/ FinishFunction
    BY <1>15, EndBodySound, ResolveGotoSound, FinishFunctionSound
  <1> QED
    BY <1>1, <1>2, <1>3, <1>4, <1>5, <1>6, <1>7, <1>8, <1>9, <1>10, <1>11, <1>12, <1>13,
       <1>14, <1>15 DEF Next

(***************************************************************************)
(* The account of the blocks holds of every program without a branch in an *)
(* arm of a ?: or in the last action of a for loop.                        *)
(***************************************************************************)
THEOREM BlocksInductive == ASSUME Straight PROVE Spec => []BlockInv
  <1>1. Init => TypeInv /\ BlockInv
    BY InitStep, BlockInit
  <1>2. TypeInv /\ BlockInv /\ [Next]_vars => (TypeInv /\ BlockInv)'
    <2> SUFFICES ASSUME TypeInv, BlockInv, [Next]_vars PROVE TypeInv' /\ BlockInv'
      OBVIOUS
    <2>1. Advances
      BY BlockStep
    <2> QED
      BY <2>1, NextStep DEF Advances
  <1> QED
    BY <1>1, <1>2, PTL DEF Spec

(***************************************************************************)
(* No handler leaves a finished block selected, for every Straight program *)
(* of every length and nesting depth: so no instruction follows a jump,    *)
(* and no terminator is overwritten.                                       *)
(***************************************************************************)
THEOREM SelectedIsOpen == ASSUME Straight PROVE Spec => []SelectedOpen
  <1>1. BlockInv => SelectedOpen
    BY DEF BlockInv, Accounted, Current, SelectedOpen
  <1> QED
    BY <1>1, BlocksInductive, PTL

(***************************************************************************)
(* Every block of every function is finished, or still held by the handler *)
(* that will finish it, or waits for its label, or is one of the two kinds *)
(* insertSwitchStatement abandons (generator.cpp:443 and 473), for every   *)
(* Straight program of every length and nesting depth.                     *)
(***************************************************************************)
THEOREM AllBlocksAccounted == ASSUME Straight PROVE Spec => []BlocksAccounted
  <1>1. TypeInv /\ BlockInv => BlocksAccounted
    <2> SUFFICES ASSUME TypeInv, BlockInv, mode # "error", NEW b \in DOMAIN cfg
                 PROVE  \/ IsSealed(cfg[b])
                        \/ b \in Held /\ IsOpen(cfg[b])
                        \/ WaitsForLabel(b)
                        \/ b \in fellOff /\ cfg[b].term = "none" /\ Len(cfg[b].next) = 1
                        \/ b \in orphans /\ IsOpen(cfg[b])
      BY DEF BlocksAccounted
    <2>1. b # NoBlock
      BY DEF TypeInv, TypeOK, Graph, NoBlock
    <2>2. Accounted(cfg, Current, HeldIn(frames), Waiting, fellOff, orphans)
      BY DEF BlockInv
    <2>3. CASE b = Current
      <3>1. b \in Held
        BY <2>1, <2>3 DEF Current, Held
      <3> QED
        BY <2>1, <2>2, <2>3, <3>1 DEF Accounted
    <2>4. CASE b \in HeldIn(frames)
      <3> DEFINE S == {HeldBy(frames[k]) : k \in DOMAIN frames}
      <3>1. HeldIn(frames) \subseteq UNION S /\ UNION S \subseteq Held
        BY DEF HeldIn, Held
      <3> HIDE DEF S
      <3>2. b \in Held
        BY <2>4, <3>1
      <3> QED
        BY <2>2, <2>4, <3>2 DEF Accounted
    <2>5. CASE b \in Waiting
      BY <2>2, <2>5 DEF Accounted, IsWaiting, Waiting, WaitsForLabel
    <2>6. CASE b \in fellOff
      BY <2>2, <2>6 DEF Accounted, IsLinked
    <2>7. CASE b \in orphans
      BY <2>2, <2>7 DEF Accounted
    <2> QED
      BY <2>2, <2>3, <2>4, <2>5, <2>6, <2>7 DEF Accounted
  <1> QED
    BY <1>1, Inductive, BlocksInductive, PTL

(***************************************************************************)
(* A finished block is never relinked or reterminated, whatever the length *)
(* and the nesting of a Straight program: not by the statements that       *)
(* follow, nor by a goto resolved at the end of the function.  Its body    *)
(* may still get the allocations insertDeclaration moves there             *)
(* (generator.cpp:312).                                                    *)
(***************************************************************************)
THEOREM FinishedForGood == ASSUME Straight PROVE Spec => SealedStaysSealed
  <1> DEFINE Stays == funcs' = funcs => \A b \in DOMAIN cfg : IsSealed(cfg[b]) =>
                         cfg'[b].next = cfg[b].next /\ cfg'[b].term = cfg[b].term
  <1>1. TypeInv /\ BlockInv /\ [Next]_vars => [Stays]_vars
    <2> SUFFICES ASSUME TypeInv, BlockInv, [Next]_vars PROVE Stays
      OBVIOUS
    <2>1. Advances
      BY BlockStep
    <2> QED
      BY <2>1 DEF Advances, Keeps, SameArcs
  <1> QED
    BY <1>1, Inductive, BlocksInductive, PTL DEF Spec, SealedStaysSealed


-----------------------------------------------------------------------------
(***************************************************************************)
(* Every handler of the IR generator leaves as many scopes as it entered   *)
(* (VariablesStack): the stack is as deep as the handlers that are being   *)
(* walked say, and holds the globals alone between functions.              *)
(***************************************************************************)

(* The scope of the globals is at the bottom, with nothing added to it;    *)
(* the parameters of the function and its body have one each.              *)
ScopeInv ==
    mode # "error" =>
        /\ mode \in {"body", "dispatch"} => Len(scopes) = 3 + ScopesOf(frames)
        /\ mode = "resolve" => Len(scopes) = 2
        /\ mode = "idle" => Len(scopes) = 1
        /\ scopes[1] = {}

-----------------------------------------------------------------------------
(* How many scopes a frame stands for. *)

(* What a pushed frame adds to the scopes.                                 *)
Own(kind) == IF kind = "for" THEN 2 ELSE IF kind = "dispatch" THEN 0 ELSE 1

(* The frames of a kind are finitely many, no more than there are frames.  *)
LEMMA FramesOfFinite ==
    ASSUME NEW fs \in Seq(Frame), NEW kind
    PROVE  /\ IsFiniteSet(FramesOf(fs, kind))
           /\ Cardinality(FramesOf(fs, kind)) \in Nat
           /\ Cardinality(FramesOf(fs, kind)) <= Len(fs)
  <1> DEFINE n == Len(fs)
  <1>1. n \in Nat /\ FramesOf(fs, kind) \subseteq 1..n
    BY LenProperties DEF FramesOf
  <1> HIDE DEF n
  <1>2. IsFiniteSet(1..n) /\ Cardinality(1..n) = n
    <2>1. IsFiniteSet(1..n) /\ Cardinality(1..n) = IF 1 > n THEN 0 ELSE n - 1 + 1
      BY <1>1, FS_Interval
    <2> QED
      BY <1>1, <2>1
  <1>3. /\ IsFiniteSet(FramesOf(fs, kind))
        /\ Cardinality(FramesOf(fs, kind)) <= Cardinality(1..n)
    BY <1>1, <1>2, FS_Subset
  <1> QED
    BY <1>2, <1>3, FS_CardinalityType DEF n

(* Without a frame there is no scope but those of the function.            *)
LEMMA ScopesOfNone == ScopesOf(<<>>) = 0
  <1>1. ASSUME NEW kind PROVE FramesOf(<<>>, kind) = {}
    BY DEF FramesOf
  <1>2. Cardinality(FramesOf(<<>>, "for")) = 0 /\ Cardinality(FramesOf(<<>>, "dispatch")) = 0
    <2>1. Cardinality({}) = 0
      BY FS_EmptySet
    <2>2. FramesOf(<<>>, "for") = {} /\ FramesOf(<<>>, "dispatch") = {}
      BY <1>1
    <2> QED
      BY <2>1, <2>2
  <1>3. Len(<<>>) = 0
    OBVIOUS
  <1> QED
    BY <1>2, <1>3 DEF ScopesOf

(* So the handlers of a stack have some number of scopes.                  *)
LEMMA ScopesOfNat ==
    ASSUME NEW fs \in Seq(Frame)
    PROVE  ScopesOf(fs) \in Nat
  <1>1. Len(fs) \in Nat
    BY LenProperties
  <1> QED
    BY <1>1, FramesOfFinite DEF ScopesOf

(* What a pushed frame adds.                                               *)
LEMMA ScopesOfPush ==
    ASSUME NEW fs \in Seq(Frame), NEW f
    PROVE  ScopesOf(Append(fs, f)) = ScopesOf(fs) + Own(f.kind)
  <1> DEFINE n == Len(fs)
             gs == Append(fs, f)
  <1>1. /\ n \in Nat /\ DOMAIN fs = 1..n /\ DOMAIN gs = 1..(n + 1) /\ gs[n + 1] = f
        /\ Len(gs) = n + 1 /\ \A k \in 1..n : gs[k] = fs[k]
    <2> DEFINE S == Frame \cup {f}
    <2>1. f \in S /\ fs \in Seq(S)
      BY SeqMonotonic
    <2> HIDE DEF S
    <2> QED
      BY <2>1, PushLemma
  <1> HIDE DEF gs
  <1>2. /\ DOMAIN gs = DOMAIN fs \cup {n + 1} /\ n + 1 \notin DOMAIN fs
        /\ \A k \in DOMAIN fs : gs[k] = fs[k]
    BY <1>1
  <1>3. ASSUME NEW kind
        PROVE  Cardinality(FramesOf(gs, kind)) =
                   Cardinality(FramesOf(fs, kind)) + (IF f.kind = kind THEN 1 ELSE 0)
    <2>1. /\ IsFiniteSet(FramesOf(fs, kind)) /\ Cardinality(FramesOf(fs, kind)) \in Nat
          /\ n + 1 \notin FramesOf(fs, kind)
      BY <1>2, FramesOfFinite DEF FramesOf
    <2>2. CASE f.kind = kind
      <3>1. FramesOf(gs, kind) = FramesOf(fs, kind) \cup {n + 1}
        BY <1>1, <1>2, <2>2 DEF FramesOf
      <3> QED
        BY <2>1, <2>2, <3>1, FS_AddElement
    <2>3. CASE f.kind # kind
      <3>1. FramesOf(gs, kind) = FramesOf(fs, kind)
        BY <1>1, <1>2, <2>3 DEF FramesOf
      <3> QED
        BY <2>1, <2>3, <3>1
    <2> QED
      BY <2>2, <2>3
  <1>4. /\ Cardinality(FramesOf(fs, "for")) \in Nat
        /\ Cardinality(FramesOf(fs, "dispatch")) \in Nat
    BY FramesOfFinite
  <1>5. ScopesOf(gs) = ScopesOf(fs) + Own(f.kind)
    BY <1>1, <1>3, <1>4 DEF ScopesOf, Own
  <1> QED
    BY <1>5 DEF gs

(* What a popped frame takes away.                                         *)
LEMMA ScopesOfPop ==
    ASSUME NEW fs \in Seq(Frame), fs # <<>>
    PROVE  /\ ScopesOf(fs) = ScopesOf(Front(fs)) + Own(Last(fs).kind)
           /\ Front(fs) \in Seq(Frame) /\ ScopesOf(Front(fs)) \in Nat
  <1> DEFINE n == Len(fs)
             gs == Front(fs)
             f == Last(fs)
  <1>1. /\ n \in Nat \ {0} /\ DOMAIN fs = 1..n /\ f = fs[n] /\ f \in Frame
        /\ gs \in Seq(Frame) /\ Len(gs) = n - 1 /\ \A k \in 1..(n - 1) : gs[k] = fs[k]
    BY StackLemma
  <1>2. n = Len(fs) /\ n \in Nat /\ Len(gs) \in Nat
    BY <1>1, LenProperties
  <1> HIDE DEF gs, f, n
  <1>3. /\ Append(gs, f) \in Seq(Frame) /\ Len(Append(gs, f)) = n
        /\ \A k \in 1..n : Append(gs, f)[k] = fs[k]
    <2> DEFINE m == Len(gs)
               hs == Append(gs, f)
    <2>1. /\ hs \in Seq(Frame) /\ Len(hs) = m + 1 /\ hs[m + 1] = f
          /\ \A k \in 1..m : hs[k] = gs[k]
      <3>1. gs \in Seq(Frame) /\ f \in Frame
        BY <1>1
      <3> QED
        BY <3>1, PushLemma
    <2>2. m = n - 1 /\ m + 1 = n
      BY <1>1, <1>2
    <2> HIDE DEF hs, m
    <2>3. ASSUME NEW k \in 1..n PROVE hs[k] = fs[k]
      <3>1. k = n \/ k \in 1..(n - 1)
        BY <1>2
      <3> QED
        BY <1>1, <2>1, <2>2, <3>1
    <2> QED
      BY <2>1, <2>2, <2>3 DEF hs
  <1>4. Append(gs, f) = fs
    <2> DEFINE hs == Append(gs, f)
    <2>1. hs \in Seq(Frame) /\ Len(hs) = Len(fs) /\ \A k \in 1..Len(hs) : hs[k] = fs[k]
      BY <1>3, <1>2
    <2> HIDE DEF hs
    <2>2. hs = fs
      BY <2>1, SeqEqual
    <2> QED
      BY <2>2 DEF hs
  <1>5. ScopesOf(Append(gs, f)) = ScopesOf(gs) + Own(f.kind)
    BY <1>1, ScopesOfPush
  <1>6. ScopesOf(gs) \in Nat
    BY <1>1, ScopesOfNat
  <1>7. ScopesOf(fs) = ScopesOf(gs) + Own(f.kind)
    BY <1>4, <1>5
  <1> QED
    BY <1>1, <1>6, <1>7 DEF gs, f

-----------------------------------------------------------------------------
(* The levels of the stack. *)

(* Two scopes entered at once.                                             *)
LEMMA EnterTwo ==
    ASSUME NEW S, NEW s \in Seq(S), NEW t \in Seq(S), Len(s) >= 1, Len(t) = 2
    PROVE  Len(s \o t) = Len(s) + 2 /\ (s \o t)[1] = s[1]
  <1> DEFINE n == Len(s)
             u == s \o t
  <1>1. /\ n \in Nat /\ Len(u) = n + Len(t)
        /\ \A k \in 1..(n + Len(t)) : u[k] = IF k <= n THEN s[k] ELSE t[k - n]
    BY ConcatProperties, LenProperties
  <1>2. n >= 1 /\ Len(t) = 2
    OBVIOUS
  <1> HIDE DEF n, u
  <1>3. Len(u) = n + 2 /\ 1 \in 1..(n + Len(t)) /\ 1 <= n
    BY <1>1, <1>2
  <1>4. u[1] = s[1]
    BY <1>1, <1>3
  <1> QED
    BY <1>3, <1>4 DEF n, u

(* A level is entered, or left; the bottom one stays.                      *)
LEMMA EnterLevel ==
    ASSUME NEW S, NEW q \in Seq(S), Len(q) >= 1, NEW x \in S
    PROVE  /\ Append(q, x) \in Seq(S) /\ Len(Append(q, x)) = Len(q) + 1
           /\ Append(q, x)[1] = q[1]
  <1>1. /\ Append(q, x) \in Seq(S) /\ Len(q) \in Nat /\ Len(Append(q, x)) = Len(q) + 1
        /\ \A k \in 1..Len(q) : Append(q, x)[k] = q[k]
    BY PushLemma
  <1>2. 1 \in 1..Len(q)
    BY <1>1
  <1> QED
    BY <1>1, <1>2

(* A scope left: the others stay.                                          *)
LEMMA LeaveLevel ==
    ASSUME NEW S, NEW q \in Seq(S), Len(q) >= 2
    PROVE  /\ Front(q) \in Seq(S) /\ Len(Front(q)) = Len(q) - 1 /\ Front(q)[1] = q[1]
  <1>1. q # <<>> /\ Len(q) \in Nat
    BY LenProperties, EmptySeq
  <1>2. /\ Front(q) \in Seq(S) /\ Len(Front(q)) = Len(q) - 1
        /\ \A k \in 1..(Len(q) - 1) : Front(q)[k] = q[k]
    BY <1>1, StackLemma
  <1>3. 1 \in 1..(Len(q) - 1)
    BY <1>1
  <1> QED
    BY <1>2, <1>3

(* While a function is walked there are three levels and those of the      *)
(* handlers.                                                               *)
LEMMA DeepEnough ==
    ASSUME TypeInv, ScopeInv, mode \in {"body", "dispatch"}
    PROVE  /\ scopes \in Seq(SUBSET Nat) /\ {} \in SUBSET Nat /\ frames \in Seq(Frame)
           /\ ScopesOf(frames) \in Nat
           /\ Len(scopes) = 3 + ScopesOf(frames) /\ Len(scopes) >= 3 /\ scopes[1] = {}
  <1>1. /\ scopes \in Seq(SUBSET Nat) /\ frames \in Seq(Frame)
    BY DEF TypeInv, TypeOK
  <1>2. ScopesOf(frames) \in Nat
    BY <1>1, ScopesOfNat
  <1>3. Len(scopes) = 3 + ScopesOf(frames) /\ scopes[1] = {}
    BY DEF ScopeInv
  <1> QED
    BY <1>1, <1>2, <1>3

(* A handler that enters and leaves none.                                  *)
LEMMA LevelsKept ==
    ASSUME ScopeInv, UNCHANGED <<mode, frames, scopes>>
    PROVE  ScopeInv'
  BY DEF ScopeInv

(* Nothing is claimed of the scopes once an error is found.                *)
LEMMA LevelsLost ==
    ASSUME SemanticError
    PROVE  ScopeInv'
  BY DEF SemanticError, ScopeInv

(* A statement is opened, with a scope for its body.                       *)
LEMMA LevelOpened ==
    ASSUME TypeInv, ScopeInv, mode = "body", mode' = mode, NEW f,
           f.kind \notin {"for", "dispatch"}, frames' = Append(frames, f),
           scopes' = Append(scopes, {})
    PROVE  ScopeInv'
  <1> DEFINE none == {}
             q == Append(scopes, none)
  <1>1. /\ scopes \in Seq(SUBSET Nat) /\ none \in SUBSET Nat /\ frames \in Seq(Frame)
        /\ ScopesOf(frames) \in Nat
        /\ Len(scopes) = 3 + ScopesOf(frames) /\ Len(scopes) >= 3 /\ scopes[1] = {}
    BY DeepEnough
  <1>2. scopes' = q
    OBVIOUS
  <1> HIDE DEF none
  <1>3. Len(q) = Len(scopes) + 1 /\ q[1] = scopes[1]
    BY <1>1, EnterLevel
  <1> HIDE DEF q
  <1>4. ScopesOf(frames') = ScopesOf(frames) + 1
    BY <1>1, ScopesOfPush DEF Own
  <1> QED
    BY <1>1, <1>2, <1>3, <1>4 DEF ScopeInv

(* A statement is closed, and its scopes are left.                         *)
LEMMA LevelClosed ==
    ASSUME TypeInv, ScopeInv, mode \in {"body", "dispatch"}, mode' = "body",
           frames # <<>>, frames' = Front(frames),
           Len(scopes') = Len(scopes) - Own(Top.kind), scopes'[1] = scopes[1]
    PROVE  ScopeInv'
  <1>1. /\ frames \in Seq(Frame) /\ Len(scopes) = 3 + ScopesOf(frames) /\ scopes[1] = {}
    BY DeepEnough
  <1>2. /\ ScopesOf(frames) = ScopesOf(frames') + Own(Top.kind)
        /\ ScopesOf(frames') \in Nat /\ Own(Top.kind) \in Nat
    BY <1>1, ScopesOfPop DEF Own, Top
  <1> QED
    BY <1>1, <1>2 DEF ScopeInv

(* One frame takes the place of another.                                   *)
LEMMA LevelReplaced ==
    ASSUME TypeInv, ScopeInv, mode \in {"body", "dispatch"}, mode' \in {"body", "dispatch"},
           frames # <<>>, NEW f, frames' = Append(Front(frames), f),
           Len(scopes') = Len(scopes) - Own(Top.kind) + Own(f.kind), scopes'[1] = scopes[1]
    PROVE  ScopeInv'
  <1> DEFINE rest == Front(frames)
  <1>1. /\ frames \in Seq(Frame) /\ Len(scopes) = 3 + ScopesOf(frames) /\ scopes[1] = {}
    BY DeepEnough
  <1>2. /\ ScopesOf(frames) = ScopesOf(rest) + Own(Top.kind) /\ rest \in Seq(Frame)
        /\ ScopesOf(rest) \in Nat /\ Own(Top.kind) \in Nat /\ Own(f.kind) \in Nat
    BY <1>1, ScopesOfPop DEF Own, Top
  <1>3. frames' = Append(rest, f)
    OBVIOUS
  <1> HIDE DEF rest
  <1>4. ScopesOf(frames') = ScopesOf(rest) + Own(f.kind)
    BY <1>2, <1>3, ScopesOfPush
  <1>5. Len(scopes') = 3 + ScopesOf(frames')
    BY <1>1, <1>2, <1>4
  <1>6. mode' \notin {"resolve", "idle"}
    OBVIOUS
  <1> QED
    BY <1>1, <1>5, <1>6 DEF ScopeInv

-----------------------------------------------------------------------------
(* The steps. *)

(* A handler for one element leaves the scopes alone; a declaration adds   *)
(* to the innermost one.                                                   *)
LEMMA PlainScopes ==
    ASSUME TypeInv, ScopeInv,
           \/ \E e \in Exprs : ExprStmt(e) \/ Return(e)
           \/ \E v \in UNION {scopes[k] : k \in DOMAIN scopes} : UseVariable(v)
           \/ \E l \in Labels : Goto(l) \/ InsertLabel(l)
           \/ \E v \in Vals : InsertCase(v)
           \/ ReturnNothing \/ Break \/ Continue \/ InsertDefault \/ BadSwitch
    PROVE  ScopeInv'
  <1>1. SemanticError \/ UNCHANGED <<mode, frames, scopes>>
    BY DEF ExprStmt, Return, UseVariable, Goto, InsertLabel, InsertCase, ReturnNothing,
           Break, Continue, InsertDefault, BadSwitch
  <1> QED
    BY <1>1, LevelsKept, LevelsLost

(* A declaration adds its variable to the innermost scope.                 *)
LEMMA DeclaredScopes ==
    ASSUME TypeInv, ScopeInv, NEW e \in Exprs \cup {"none"}, InsertDeclaration(e)
    PROVE  ScopeInv'
  <1> DEFINE n == Len(scopes)
             level == scopes[n] \cup {Here}
             Levels == SUBSET Nat
  <1>1. /\ mode = "body" /\ UNCHANGED <<mode, frames>>
        /\ scopes' = [scopes EXCEPT ![n] = level]
    BY DEF InsertDeclaration, Opens, Declared
  <1>2. /\ scopes \in Seq(Levels) /\ n >= 3 /\ n \in Nat
    BY <1>1, DeepEnough, LenProperties
  <1>3. level \in Levels
    <2>1. scopes[n] \in Levels
      BY <1>2, ElementOfSeq
    <2>2. Here \in Nat
      BY LenProperties DEF Here, TypeInv, TypeOK
    <2> QED
      BY <2>1, <2>2
  <1> HIDE DEF level, Levels
  <1>4. Len(scopes') = n /\ scopes'[1] = scopes[1]
    BY <1>1, <1>2, <1>3, ExceptSeq
  <1> QED
    BY <1>1, <1>4 DEF ScopeInv

(* The handlers that open one scope for a body of theirs.                  *)
LEMMA OpenedScopes ==
    ASSUME TypeInv, ScopeInv,
           \/ \E e \in Exprs, hasElse \in BOOLEAN : InsertIfStatement(e, hasElse)
           \/ \E e \in Exprs : InsertSwitchStatement(e)
           \/ InsertCompoundStatement
    PROVE  ScopeInv'
  <1>1. PICK f : /\ mode = "body" /\ mode' = mode /\ frames' = Append(frames, f)
                 /\ f.kind \notin {"for", "dispatch"} /\ scopes' = Append(scopes, {})
    <2>1. ASSUME NEW e \in Exprs, NEW hasElse \in BOOLEAN, InsertIfStatement(e, hasElse)
          PROVE  \E f : /\ mode = "body" /\ mode' = mode /\ frames' = Append(frames, f)
                        /\ f.kind \notin {"for", "dispatch"} /\ scopes' = Append(scopes, {})
      <3>1. \A a, b, c : MkFrame("then", a, b, c).kind \notin {"for", "dispatch"}
        BY DEF MkFrame
      <3>2. PICK a, b, c : /\ mode = "body" /\ mode' = mode
                           /\ frames' = Append(frames, MkFrame("then", a, b, c))
                           /\ scopes' = Append(scopes, {})
        BY <2>1 DEF InsertIfStatement, Nests, Opens
      <3> QED
        BY <3>1, <3>2
    <2>2. ASSUME NEW e \in Exprs, InsertSwitchStatement(e)
          PROVE  \E f : /\ mode = "body" /\ mode' = mode /\ frames' = Append(frames, f)
                        /\ f.kind \notin {"for", "dispatch"} /\ scopes' = Append(scopes, {})
      <3>1. \A a, b, c : MkFrame("switch", a, b, c).kind \notin {"for", "dispatch"}
        BY DEF MkFrame
      <3>2. PICK a, b, c : /\ mode = "body" /\ mode' = mode
                           /\ frames' = Append(frames, MkFrame("switch", a, b, c))
                           /\ scopes' = Append(scopes, {})
        BY <2>2 DEF InsertSwitchStatement, Nests, Opens
      <3> QED
        BY <3>1, <3>2
    <2>3. ASSUME InsertCompoundStatement
          PROVE  \E f : /\ mode = "body" /\ mode' = mode /\ frames' = Append(frames, f)
                        /\ f.kind \notin {"for", "dispatch"} /\ scopes' = Append(scopes, {})
      <3>1. \A a, b, c : MkFrame("compound", a, b, c).kind \notin {"for", "dispatch"}
        BY DEF MkFrame
      <3>2. PICK a, b, c : /\ mode = "body" /\ mode' = mode
                           /\ frames' = Append(frames, MkFrame("compound", a, b, c))
                           /\ scopes' = Append(scopes, {})
        BY <2>3 DEF InsertCompoundStatement, Nests, Opens
      <3> QED
        BY <3>1, <3>2
    <2> QED
      BY <2>1, <2>2, <2>3
  <1> QED
    BY <1>1, LevelOpened

(* A for loop has a scope for its initializer besides that of its body.    *)
LEMMA LoopScopes ==
    ASSUME TypeInv, ScopeInv, NEW kind \in {"while", "do", "for"}, NEW init, NEW e, NEW act,
           InsertLoopStatement(kind, init, e, act)
    PROVE  ScopeInv'
  <1>1. PICK a, b, c :
            /\ mode = "body" /\ mode' = mode
            /\ frames' = Append(frames, MkFrame(IF kind = "for" THEN "for" ELSE "loop", a, b, c))
            /\ scopes' = IF kind # "for" THEN Append(scopes, {})
                         ELSE scopes \o <<IF init[1] = "decl" THEN {Here} ELSE {}, {}>>
    BY DEF InsertLoopStatement, Nests, Opens
  <1> DEFINE f == MkFrame(IF kind = "for" THEN "for" ELSE "loop", a, b, c)
  <1>2. f.kind = IF kind = "for" THEN "for" ELSE "loop"
    BY DEF MkFrame
  <1>3. frames' = Append(frames, f)
    BY <1>1
  <1> HIDE DEF f
  <1>4. CASE kind # "for"
    BY <1>1, <1>2, <1>3, <1>4, LevelOpened
  <1>5. CASE kind = "for"
    <2> DEFINE level == IF init[1] = "decl" THEN {Here} ELSE {}
               none == {}
               S == SUBSET Nat
    <2>1. /\ scopes \in Seq(S) /\ frames \in Seq(Frame) /\ ScopesOf(frames) \in Nat
          /\ Len(scopes) = 3 + ScopesOf(frames) /\ Len(scopes) >= 3 /\ scopes[1] = {}
      BY <1>1, DeepEnough
    <2>2. level \in S /\ none \in S
      <3>1. Here \in Nat
        BY LenProperties DEF Here, TypeInv, TypeOK
      <3> QED
        BY <3>1
    <2>3. scopes' = scopes \o <<level, none>>
      BY <1>1, <1>5
    <2> HIDE DEF level, none, S
    <2>4. Len(scopes') = Len(scopes) + 2 /\ scopes'[1] = scopes[1]
      <3>1. <<level, none>> \in Seq(S) /\ Len(<<level, none>>) = 2
        BY <2>2
      <3> DEFINE t == <<level, none>>
      <3>3. t \in Seq(S) /\ Len(t) = 2 /\ scopes' = scopes \o t
        BY <2>3, <3>1
      <3> HIDE DEF t
      <3> QED
        BY <2>1, <3>3, EnterTwo
    <2>5. ScopesOf(frames') = ScopesOf(frames) + 2
      BY <1>2, <1>3, <1>5, <2>1, ScopesOfPush DEF Own
    <2> QED
      BY <1>1, <2>1, <2>4, <2>5 DEF ScopeInv
  <1> QED
    BY <1>4, <1>5

(* One scope is left with the statement.                                   *)
LEMMA ClosedScopes ==
    ASSUME TypeInv, ScopeInv, EndIf \/ EndCompound
    PROVE  ScopeInv'
  <1>1. /\ mode = "body" /\ mode' = mode /\ frames # <<>> /\ frames' = Front(frames)
        /\ Top.kind \in {"then", "else", "compound"} /\ scopes' = Front(scopes)
    BY DEF EndIf, EndCompound, InFrame
  <1>2. scopes \in Seq(SUBSET Nat) /\ Len(scopes) >= 3
    BY <1>1, DeepEnough
  <1>3. Len(Front(scopes)) = Len(scopes) - 1 /\ Front(scopes)[1] = scopes[1]
    BY <1>2, LeaveLevel
  <1>4. Own(Top.kind) = 1
    BY <1>1 DEF Own
  <1> QED
    BY <1>1, <1>3, <1>4, LevelClosed

(* ... two with a for loop ...                                             *)
LEMMA LoopScopesLeft ==
    ASSUME TypeInv, ScopeInv, EndLoop
    PROVE  ScopeInv'
  <1>1. /\ mode = "body" /\ mode' = mode /\ frames # <<>> /\ frames' = Front(frames)
        /\ Top.kind \in {"loop", "for"}
        /\ scopes' = IF Top.kind = "for" THEN Front(Front(scopes)) ELSE Front(scopes)
    BY DEF EndLoop, InFrame, LeaveLoop
  <1>2. scopes \in Seq(SUBSET Nat) /\ Len(scopes) >= 3 /\ Len(scopes) \in Nat
    BY <1>1, DeepEnough, LenProperties
  <1>3. /\ Front(scopes) \in Seq(SUBSET Nat)
        /\ Len(Front(scopes)) = Len(scopes) - 1 /\ Front(scopes)[1] = scopes[1]
    BY <1>2, LeaveLevel
  <1>4. /\ Len(Front(Front(scopes))) = Len(Front(scopes)) - 1
        /\ Front(Front(scopes))[1] = Front(scopes)[1]
    BY <1>2, <1>3, LeaveLevel
  <1>5. Own(Top.kind) = IF Top.kind = "for" THEN 2 ELSE 1
    BY <1>1 DEF Own
  <1>6. Len(scopes') = Len(scopes) - Own(Top.kind) /\ scopes'[1] = scopes[1]
    BY <1>1, <1>2, <1>3, <1>4, <1>5
  <1> QED
    BY <1>1, <1>6, LevelClosed

(* ... and one where another frame takes the place of the top one, except  *)
(* that the second body of an if enters its own.                           *)
LEMMA ReplacedScopes ==
    ASSUME TypeInv, ScopeInv, EndThen \/ EndSwitch
    PROVE  ScopeInv'
  <1>1. mode = "body"
    BY DEF EndThen, EndSwitch, InFrame
  <1>2. /\ scopes \in Seq(SUBSET Nat) /\ {} \in SUBSET Nat /\ Len(scopes) >= 3
        /\ Len(scopes) \in Nat
    BY <1>1, DeepEnough, LenProperties
  <1>3. /\ Front(scopes) \in Seq(SUBSET Nat)
        /\ Len(Front(scopes)) = Len(scopes) - 1 /\ Front(scopes)[1] = scopes[1]
    BY <1>2, LeaveLevel
  <1>4. CASE EndThen
    <2> DEFINE none == {}
               S == SUBSET Nat
               q == Front(scopes)
               f == MkFrame("else", NoBlock, JoinAfter(Top.blockAfter).at, NoBlock)
    <2>1. /\ mode' = mode /\ frames # <<>> /\ Top.kind = "then" /\ scopes' = Append(q, none)
          /\ frames' = Append(Front(frames), f)
      BY <1>4 DEF EndThen, InFrame
    <2>2. q \in Seq(S) /\ none \in S /\ Len(q) >= 1
      BY <1>2, <1>3
    <2>3. f.kind = "else"
      BY DEF MkFrame
    <2> HIDE DEF none, S, q, f
    <2>4. Len(scopes') = Len(q) + 1 /\ scopes'[1] = q[1]
      BY <2>1, <2>2, EnterLevel
    <2>5. Own(Top.kind) = 1 /\ Own(f.kind) = 1
      BY <2>1, <2>3 DEF Own
    <2>6. Len(scopes') = Len(scopes) - Own(Top.kind) + Own(f.kind) /\ scopes'[1] = scopes[1]
      BY <1>2, <1>3, <2>4, <2>5 DEF q
    <2> QED
      BY <1>1, <2>1, <2>6, LevelReplaced
  <1>5. CASE EndSwitch
    <2> DEFINE f == [Top EXCEPT !.kind = "dispatch"]
    <2>1. /\ mode' = "dispatch" /\ frames # <<>> /\ Top.kind = "switch"
          /\ scopes' = Front(scopes) /\ frames' = Append(Front(frames), f)
      BY <1>5 DEF EndSwitch, InFrame
    <2>2. f.kind = "dispatch"
      <3>1. Top \in Frame
        BY <2>1, StackFacts
      <3> QED
        BY <3>1 DEF Frame
    <2> HIDE DEF f
    <2>3. Own(Top.kind) = 1 /\ Own(f.kind) = 0
      BY <2>1, <2>2 DEF Own
    <2>4. Len(scopes') = Len(scopes) - Own(Top.kind) + Own(f.kind) /\ scopes'[1] = scopes[1]
      BY <1>2, <1>3, <2>1, <2>3
    <2> QED
      BY <1>1, <2>1, <2>4, LevelReplaced
  <1> QED
    BY <1>4, <1>5

(* The tests of a switch, which has left its scope already.                *)
LEMMA DispatchScopes ==
    ASSUME TypeInv, ScopeInv, DispatchCase \/ DispatchDone
    PROVE  ScopeInv'
  <1>1. mode = "dispatch"
    BY DEF DispatchCase, DispatchDone
  <1>2. frames # <<>> /\ Top.kind = "dispatch" /\ Top \in Frame
    BY <1>1, DispatchFacts
  <1>3. Own(Top.kind) = 0 /\ Len(scopes) \in Nat
    BY <1>1, <1>2, DeepEnough, LenProperties DEF Own
  <1>4. CASE DispatchCase
    <2> DEFINE f == [Top EXCEPT !.done = Top.done + 1]
    <2>1. \/ SemanticError
          \/ /\ mode' = mode /\ scopes' = scopes /\ frames' = Append(Front(frames), f)
      BY <1>4 DEF DispatchCase
    <2>2. f.kind = "dispatch"
      BY <1>2 DEF Frame
    <2> HIDE DEF f
    <2>3. Own(f.kind) = 0
      BY <2>2 DEF Own
    <2>4. scopes' = scopes => Len(scopes') = Len(scopes) - Own(Top.kind) + Own(f.kind)
      BY <1>3, <2>3
    <2> QED
      BY <1>1, <1>2, <2>1, <2>4, LevelReplaced, LevelsLost
  <1>5. CASE DispatchDone
    <2>1. mode' = "body" /\ scopes' = scopes /\ frames' = Front(frames)
      BY <1>5 DEF DispatchDone
    <2>2. Len(scopes') = Len(scopes) - Own(Top.kind) /\ scopes'[1] = scopes[1]
      BY <1>3, <2>1
    <2> QED
      BY <1>1, <1>2, <2>1, <2>2, LevelClosed
  <1> QED
    BY <1>4, <1>5

(* A function has a scope for its parameters and one for its body.         *)
LEMMA FunctionScopes ==
    ASSUME TypeInv, ScopeInv, NEW void, NEW params, CreateFunction(void, params)
    PROVE  ScopeInv'
  <1> DEFINE level == IF params THEN {0} ELSE {}
             none == {}
             S == SUBSET Nat
             t == <<level, none>>
  <1>1. /\ mode = "idle" /\ mode' = "body" /\ frames' = frames /\ scopes' = scopes \o t
    BY DEF CreateFunction
  <1>2. level \in S /\ none \in S
    OBVIOUS
  <1>3. scopes \in Seq(S)
    BY ScopesLemma
  <1> HIDE DEF level, none, S
  <1>4. t \in Seq(S) /\ Len(t) = 2
    BY <1>2
  <1> HIDE DEF t
  <1>5. Len(scopes) = 1 /\ scopes[1] = {}
    BY <1>1 DEF ScopeInv
  <1>6. Len(scopes') = 3 /\ scopes'[1] = {}
    <2>1. Len(scopes \o t) = Len(scopes) + 2 /\ (scopes \o t)[1] = scopes[1]
      <3>1. scopes \in Seq(S) /\ t \in Seq(S) /\ Len(scopes) >= 1 /\ Len(t) = 2
        BY <1>3, <1>4, <1>5
      <3> QED
        BY <3>1, EnterTwo
    <2> QED
      BY <1>1, <1>5, <2>1
  <1>7. frames = <<>>
    BY <1>1 DEF TypeInv, ModeShowsFrame
  <1>8. ScopesOf(<<>>) = 0
    BY ScopesOfNone
  <1> QED
    BY <1>1, <1>6, <1>7, <1>8 DEF ScopeInv

(* They are left when the body and the function end.                       *)
LEMMA FunctionScopesLeft ==
    ASSUME TypeInv, ScopeInv, EndBody \/ ResolveGoto \/ FinishFunction
    PROVE  ScopeInv'
  <1>1. scopes \in Seq(SUBSET Nat)
    BY ScopesLemma
  <1>2. Len(scopes) >= 2 =>
            Len(Front(scopes)) = Len(scopes) - 1 /\ Front(scopes)[1] = scopes[1]
    BY <1>1, LeaveLevel
  <1>3. CASE EndBody
    <2>1. mode = "body" /\ frames = <<>>
      BY <1>3 DEF EndBody
    <2>2. ScopesOf(<<>>) = 0
      BY ScopesOfNone
    <2>3. Len(scopes) = 3 /\ scopes[1] = {}
      BY <2>1, <2>2 DEF ScopeInv
    <2>4. SemanticError \/ (mode' = "resolve" /\ scopes' = Front(scopes))
      BY <1>3 DEF EndBody
    <2> QED
      BY <1>2, <2>3, <2>4, LevelsLost DEF ScopeInv
  <1>4. CASE ResolveGoto
    <2>1. SemanticError \/ UNCHANGED <<mode, frames, scopes>>
      BY <1>4 DEF ResolveGoto
    <2> QED
      BY <2>1, LevelsKept, LevelsLost
  <1>5. CASE FinishFunction
    <2>1. mode = "resolve" /\ mode' = "idle" /\ scopes' = Front(scopes)
      BY <1>5 DEF FinishFunction
    <2>2. Len(scopes) = 2 /\ scopes[1] = {}
      BY <2>1 DEF ScopeInv
    <2> QED
      BY <1>2, <2>1, <2>2 DEF ScopeInv
  <1> QED
    BY <1>3, <1>4, <1>5

-----------------------------------------------------------------------------
(* The specification. *)

(* Every step of the walk keeps the count.                                 *)
LEMMA ScopeStep ==
    ASSUME TypeInv, ScopeInv, [Next]_vars
    PROVE  ScopeInv'
  <1>1. CASE UNCHANGED vars
    BY <1>1 DEF vars, ScopeInv
  <1>2. ASSUME NEW void \in BOOLEAN, NEW params \in BOOLEAN, CreateFunction(void, params)
        PROVE  ScopeInv'
    BY <1>2, FunctionScopes
  <1>3. ASSUME NEW e \in Exprs, ExprStmt(e) \/ Return(e) PROVE ScopeInv'
    BY <1>3, PlainScopes
  <1>4. ASSUME NEW e \in Exprs, InsertSwitchStatement(e) PROVE ScopeInv'
    BY <1>4, OpenedScopes
  <1>5. ASSUME NEW e \in Exprs \cup {"none"}, InsertDeclaration(e) PROVE ScopeInv'
    BY <1>5, DeclaredScopes
  <1>6. ASSUME NEW v \in UNION {scopes[k] : k \in DOMAIN scopes}, UseVariable(v)
        PROVE  ScopeInv'
    BY <1>6, PlainScopes
  <1>7. ASSUME NEW e \in Exprs, NEW hasElse \in BOOLEAN, InsertIfStatement(e, hasElse)
        PROVE  ScopeInv'
    BY <1>7, OpenedScopes
  <1>8. ASSUME NEW e \in Exprs, NEW kind \in LoopKinds,
               InsertLoopStatement(kind, <<"none", "">>, e, "none")
        PROVE  ScopeInv'
    BY <1>8, LoopScopes DEF LoopKinds
  <1>9. ASSUME NEW e \in Exprs, NEW init \in ForInits, NEW act \in LastActs \cup {"none"},
               InsertLoopStatement("for", init, e, act)
        PROVE  ScopeInv'
    BY <1>9, LoopScopes
  <1>10. ASSUME NEW l \in Labels, Goto(l) \/ InsertLabel(l) PROVE ScopeInv'
    BY <1>10, PlainScopes
  <1>11. ASSUME NEW v \in Vals, InsertCase(v) PROVE ScopeInv'
    BY <1>11, PlainScopes
  <1>12. CASE ReturnNothing \/ Break \/ Continue \/ InsertDefault \/ BadSwitch
    BY <1>12, PlainScopes
  <1>13. CASE InsertCompoundStatement
    BY <1>13, OpenedScopes
  <1>14. CASE EndIf \/ EndCompound
    BY <1>14, ClosedScopes
  <1>15. CASE EndThen \/ EndSwitch
    BY <1>15, ReplacedScopes
  <1>16. CASE EndLoop
    BY <1>16, LoopScopesLeft
  <1>17. CASE DispatchCase \/ DispatchDone
    BY <1>17, DispatchScopes
  <1>18. CASE EndBody \/ ResolveGoto \/ FinishFunction
    BY <1>18, FunctionScopesLeft
  <1> QED
    BY <1>1, <1>2, <1>3, <1>4, <1>5, <1>6, <1>7, <1>8, <1>9, <1>10, <1>11, <1>12, <1>13,
       <1>14, <1>15, <1>16, <1>17, <1>18 DEF Next

(***************************************************************************)
(* Every handler leaves as many scopes as it entered, for every program of *)
(* every length and nesting depth, and a function leaves those of its      *)
(* parameters and its body: the globals alone are in scope when the next   *)
(* one starts.                                                             *)
(***************************************************************************)
THEOREM ScopesAreBalanced == Spec => []ScopesBalanced
  <1>1. Init => TypeInv /\ ScopeInv
    BY InitStep DEF Init, ScopeInv
  <1>2. TypeInv /\ ScopeInv /\ [Next]_vars => (TypeInv /\ ScopeInv)'
    BY NextStep, ScopeStep
  <1>3. TypeInv /\ ScopeInv => ScopesBalanced
    <2> SUFFICES ASSUME TypeInv, ScopeInv PROVE ScopesBalanced
      OBVIOUS
    <2> DEFINE S == SUBSET Nat
               none == {}
    <2>1. ASSUME mode = "idle" PROVE scopes = <<{}>>
      <3>1. scopes \in Seq(S) /\ none \in S
        BY ScopesLemma
      <3>2. Len(scopes) = 1 /\ scopes[1] = none
        BY <2>1 DEF ScopeInv
      <3> HIDE DEF S, none
      <3> DEFINE t == <<none>>
      <3>3. t \in Seq(S) /\ Len(t) = 1 /\ t[1] = none
        BY <3>1
      <3> HIDE DEF t
      <3>4. scopes = t
        BY <3>1, <3>2, <3>3, SeqEqual
      <3> QED
        BY <3>4 DEF t, none
    <2> QED
      BY <2>1 DEF ScopesBalanced, ScopeInv
  <1> QED
    BY <1>1, <1>2, <1>3, PTL DEF Spec

=============================================================================
