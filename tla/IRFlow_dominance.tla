-------------------------- MODULE IRFlow_dominance --------------------------
(***************************************************************************)
(* Proof that the allocation of a variable dominates its uses in every     *)
(* function without goto and switch.                                       *)
(*                                                                         *)
(* For every block with allocations the invariant keeps a set of blocks    *)
(* that are reached around it (Shut) and use none of its variables         *)
(* (Served), and relates it to the walk: either the walk goes on behind    *)
(* the allocating block (Inside), and the handlers opened since hold only  *)
(* blocks outside the set; or all that is still to be filled is in the set *)
(* (Outside), and then no variable of the block is in scope.               *)
(***************************************************************************)
EXTENDS IRFlow_proofs

-----------------------------------------------------------------------------
(***************************************************************************)
(* Where the uses are.  For a block h that has or may get an allocation    *)
(* there is a set O of blocks the walk from the entry reaches around h: it *)
(* has the entry, and no arc leaves it but to h.  What is outside O is     *)
(* dominated by h, and that is where the variables of h are used.          *)
(***************************************************************************)
Vars(g, h) == {v \in Nat : \E k \in DOMAIN g[h].body : g[h].body[k] = [op |-> "alloca", ref |-> v]}

Shut(g, h, O) ==
    /\ h \in DOMAIN g /\ h \notin O /\ O \subseteq DOMAIN g /\ 1 \in O \cup {h}
    /\ \A b \in O : Arcs(g, b) \subseteq O \cup {h}

Served(g, h, O) ==
    \A b \in DOMAIN g : \A k \in DOMAIN g[b].body :
        g[b].body[k].op = "use" /\ g[b].body[k].ref \in Vars(g, h) =>
            b \notin O /\ (b = h => AllocBefore(g, b, k, g[b].body[k].ref))

(* Every variable that is used is allocated somewhere.                     *)
Homes(g) ==
    \A b \in DOMAIN g : \A k \in DOMAIN g[b].body :
        g[b].body[k].op = "use" => \E h \in DOMAIN g : g[b].body[k].ref \in Vars(g, h)

Tidy(g) == \A b \in DOMAIN g : Arcs(g, b) \subseteq DOMAIN g

(* The instructions of a block.                                            *)
LEMMA BodyFacts ==
    ASSUME NEW g \in Graph, NEW b \in DOMAIN g
    PROVE  /\ DOMAIN g[b].body = 1..Len(g[b].body) /\ Len(g[b].body) \in Nat
           /\ \A k \in DOMAIN g[b].body : /\ k \in Nat
                                          /\ g[b].body[k].op \in {"op", "alloca", "tmp", "use"}
                                          /\ g[b].body[k].ref \in Nat
  <1>1. g[b].body \in Seq(Node)
    BY BlockOfGraph DEF Block
  <1> DEFINE q == g[b].body
  <1>2. q \in Seq(Node)
    BY <1>1
  <1> HIDE DEF q
  <1>3. DOMAIN q = 1..Len(q) /\ Len(q) \in Nat /\ \A k \in DOMAIN q : q[k] \in Node
    BY <1>2, LenProperties, ElementOfSeq
  <1>4. \A k \in DOMAIN q : k \in Nat /\ q[k].op \in {"op", "alloca", "tmp", "use"} /\ q[k].ref \in Nat
    BY <1>3 DEF Node
  <1> QED
    BY <1>3, <1>4 DEF q

(* The blocks after a handler.                                             *)
LEMMA ExtendsDomains ==
    ASSUME NEW s, NEW g, NEW K, NEW V, NEW A, Extends(s, g, K, V, A)
    PROVE  /\ s.g \in Graph /\ g \in Graph /\ s.at \in DOMAIN s.g
           /\ DOMAIN g = DOMAIN s.g \cup Made(s.g, g) /\ DOMAIN s.g \cap Made(s.g, g) = {}
  BY MadeFacts DEF Extends, Position

(* The variables a handler allocates in h.                                 *)
LEMMA VarsCarry ==
    ASSUME NEW s, NEW g, NEW K, NEW V, NEW A, Extends(s, g, K, V, A), NEW h \in DOMAIN s.g
    PROVE  /\ Vars(s.g, h) \subseteq Vars(g, h)
           /\ \A v \in Vars(g, h) : v \in Vars(s.g, h) \/ <<h, v>> \in A
  <1>1. h \in DOMAIN g
    BY ExtendsDomains
  <1>2. ASSUME NEW v \in Vars(s.g, h) PROVE v \in Vars(g, h)
    BY <1>1 DEF Vars, Extends
  <1>3. ASSUME NEW v \in Vars(g, h) PROVE v \in Vars(s.g, h) \/ <<h, v>> \in A
    <2>1. v \in Nat
      BY DEF Vars
    <2> DEFINE n == [op |-> "alloca", ref |-> v]
    <2>2. PICK k \in DOMAIN g[h].body : g[h].body[k] = n
      BY DEF Vars
    <2>3. n.op = "alloca" /\ n.ref = v
      OBVIOUS
    <2>4. CASE k \in DOMAIN s.g[h].body
      <3>1. s.g[h].body[k] = n
        BY <2>2, <2>4 DEF Extends
      <3> QED
        BY <2>1, <2>4, <3>1 DEF Vars
    <2> HIDE DEF n
    <2>5. CASE k \notin DOMAIN s.g[h].body
      <3>1. Placed(g, h, k, {s.at} \cup Made(s.g, g), V, A)
        BY <1>1, <2>5 DEF Extends
      <3> QED
        BY <2>2, <2>3, <3>1 DEF Placed
    <2> QED
      BY <2>4, <2>5
  <1> QED
    BY <1>2, <1>3

(* The walk around h when a handler works where h dominates ...            *)
LEMMA ShutInside ==
    ASSUME NEW s, NEW g, NEW K, NEW V, NEW A, Extends(s, g, K, V, A), NEW h, NEW O,
           Shut(s.g, h, O), s.at \notin O
    PROVE  Shut(g, h, O)
  <1>1. DOMAIN g = DOMAIN s.g \cup Made(s.g, g) /\ DOMAIN s.g \cap Made(s.g, g) = {}
    BY ExtendsDomains
  <1>2. \A b \in O : b \in DOMAIN g /\ b \notin {s.at} \cup Made(s.g, g)
    BY <1>1 DEF Shut
  <1>3. \A b \in O : Arcs(g, b) \subseteq Arcs(s.g, b)
    BY <1>2 DEF Extends
  <1> QED
    BY <1>1, <1>3 DEF Shut

(* ... and when it works elsewhere, or jumps out.                          *)
LEMMA ShutOutside ==
    ASSUME NEW s, NEW g, NEW K, NEW V, NEW A, Extends(s, g, K, V, A), NEW h, NEW O,
           Shut(s.g, h, O), K \subseteq O
    PROVE  Shut(g, h, O \cup Made(s.g, g))
  <1> DEFINE new == Made(s.g, g)
  <1>1. DOMAIN g = DOMAIN s.g \cup new /\ DOMAIN s.g \cap new = {}
    BY ExtendsDomains
  <1>2. \A b \in DOMAIN g : Arcs(g, b) \subseteq Arcs(s.g, b) \cup K \cup new
    BY DEF Extends
  <1> HIDE DEF new
  <1>3. \A b \in O \cup new : Arcs(s.g, b) \subseteq O \cup {h}
    BY <1>1 DEF Shut, Arcs
  <1> QED
    BY <1>1, <1>2, <1>3 DEF Shut, new

(* The uses, likewise.                                                     *)
LEMMA ServedInside ==
    ASSUME NEW s, NEW g, NEW K, NEW V, NEW A, Extends(s, g, K, V, A), NEW h, NEW O,
           Shut(s.g, h, O), Served(s.g, h, O), s.at \notin O,
           \A v : <<h, v>> \in A =>
              \A b \in DOMAIN s.g : \A k \in DOMAIN s.g[b].body :
                 ~(s.g[b].body[k].op = "use" /\ s.g[b].body[k].ref = v)
    PROVE  Served(g, h, O)
  <1> DEFINE new == Made(s.g, g)
  <1>1. /\ DOMAIN g = DOMAIN s.g \cup new /\ DOMAIN s.g \cap new = {}
        /\ s.g \in Graph /\ g \in Graph
    BY ExtendsDomains
  <1> SUFFICES ASSUME NEW b \in DOMAIN g, NEW k \in DOMAIN g[b].body,
                      g[b].body[k].op = "use", g[b].body[k].ref \in Vars(g, h)
               PROVE  b \notin O /\ (b = h => AllocBefore(g, b, k, g[b].body[k].ref))
    BY DEF Served
  <1> DEFINE v == g[b].body[k].ref
  <1>2. h \in DOMAIN s.g /\ O \subseteq DOMAIN s.g
    BY DEF Shut
  <1>3. v \in Vars(s.g, h) \/ <<h, v>> \in A
    BY <1>2, VarsCarry
  <1>4. CASE b \in DOMAIN s.g /\ k \in DOMAIN s.g[b].body
    <2>1. g[b].body[k] = s.g[b].body[k]
      BY <1>4 DEF Extends
    <2>2. v \in Vars(s.g, h)
      BY <1>3, <1>4, <2>1
    <2>3. b \notin O /\ (b = h => AllocBefore(s.g, b, k, v))
      BY <1>4, <2>1, <2>2 DEF Served
    <2>4. AllocBefore(s.g, b, k, v) => AllocBefore(g, b, k, v)
      <3> SUFFICES ASSUME NEW j \in 1..(k - 1),
                          s.g[b].body[j] = [op |-> "alloca", ref |-> v]
                   PROVE  g[b].body[j] = [op |-> "alloca", ref |-> v]
        BY DEF AllocBefore
      <3>1. DOMAIN s.g[b].body = 1..Len(s.g[b].body) /\ Len(s.g[b].body) \in Nat
        BY <1>1, <1>4, BodyFacts
      <3>2. j \in DOMAIN s.g[b].body
        BY <1>4, <3>1
      <3> QED
        BY <1>4, <3>2 DEF Extends
    <2> QED
      BY <2>3, <2>4
  <1>5. CASE ~(b \in DOMAIN s.g /\ k \in DOMAIN s.g[b].body)
    <2>1. Placed(g, b, k, {s.at} \cup new, V, A)
      BY <1>5 DEF Extends
    <2>2. b \in {s.at} \cup new /\ (<<b, v>> \in A => AllocBefore(g, b, k, v))
      BY <2>1 DEF Placed
    <2>3. b \notin O
      BY <1>1, <1>2, <2>2
    <2>4. ASSUME b = h, <<h, v>> \notin A PROVE AllocBefore(g, b, k, v)
      <3>1. v \in Vars(s.g, h)
        BY <1>3, <2>4
      <3>2. PICK j \in DOMAIN s.g[b].body : s.g[b].body[j] = [op |-> "alloca", ref |-> v]
        BY <2>4, <3>1 DEF Vars
      <3>3. g[b].body[j] = [op |-> "alloca", ref |-> v]
        BY <1>2, <2>4, <3>2 DEF Extends
      <3>4. /\ DOMAIN s.g[b].body = 1..Len(s.g[b].body) /\ Len(s.g[b].body) \in Nat
            /\ DOMAIN g[b].body = 1..Len(g[b].body) /\ Len(g[b].body) \in Nat
        BY <1>1, <1>2, <2>4, BodyFacts
      <3>5. k \notin DOMAIN s.g[b].body
        BY <1>2, <1>5, <2>4
      <3>6. j \in 1..(k - 1)
        BY <3>4, <3>5
      <3> QED
        BY <3>3, <3>6 DEF AllocBefore
    <2> QED
      BY <2>2, <2>3, <2>4
  <1> QED
    BY <1>4, <1>5

(* Elsewhere the variables of h are not used.                              *)
LEMMA ServedOutside ==
    ASSUME NEW s, NEW g, NEW K, NEW V, NEW A, Extends(s, g, K, V, A), NEW h, NEW O,
           Shut(s.g, h, O), Served(s.g, h, O), \A v : <<h, v>> \notin A,
           V \cap Vars(s.g, h) = {}
    PROVE  Served(g, h, O \cup Made(s.g, g))
  <1> DEFINE new == Made(s.g, g)
  <1>1. /\ DOMAIN g = DOMAIN s.g \cup new /\ DOMAIN s.g \cap new = {}
        /\ s.g \in Graph /\ g \in Graph
    BY ExtendsDomains
  <1> SUFFICES ASSUME NEW b \in DOMAIN g, NEW k \in DOMAIN g[b].body,
                      g[b].body[k].op = "use", g[b].body[k].ref \in Vars(g, h)
               PROVE  b \notin O \cup new /\ (b = h => AllocBefore(g, b, k, g[b].body[k].ref))
    BY DEF Served
  <1> DEFINE v == g[b].body[k].ref
  <1>2. v \in Vars(s.g, h)
    <2>1. h \in DOMAIN s.g
      BY DEF Shut
    <2>2. \A w \in Vars(g, h) : w \in Vars(s.g, h) \/ <<h, w>> \in A
      BY <2>1, VarsCarry
    <2> QED
      BY <2>2
  <1>3. b \in DOMAIN s.g /\ k \in DOMAIN s.g[b].body
    <2> SUFFICES ASSUME ~(b \in DOMAIN s.g /\ k \in DOMAIN s.g[b].body) PROVE FALSE
      OBVIOUS
    <2>1. Placed(g, b, k, {s.at} \cup new, V, A)
      BY DEF Extends
    <2> QED
      BY <1>2, <2>1 DEF Placed
  <1>4. g[b].body[k] = s.g[b].body[k]
    BY <1>3 DEF Extends
  <1>5. b \notin O /\ (b = h => AllocBefore(s.g, b, k, v))
    BY <1>2, <1>3, <1>4 DEF Served
  <1>6. AllocBefore(s.g, b, k, v) => AllocBefore(g, b, k, v)
    <2> SUFFICES ASSUME NEW j \in 1..(k - 1),
                        s.g[b].body[j] = [op |-> "alloca", ref |-> v]
                 PROVE  g[b].body[j] = [op |-> "alloca", ref |-> v]
      BY DEF AllocBefore
    <2>1. DOMAIN s.g[b].body = 1..Len(s.g[b].body) /\ Len(s.g[b].body) \in Nat
      BY <1>1, <1>3, BodyFacts
    <2>2. j \in DOMAIN s.g[b].body
      BY <1>3, <2>1
    <2> QED
      BY <1>3, <2>2 DEF Extends
  <1> QED
    BY <1>1, <1>3, <1>5, <1>6

(* What is used has a home still.                                          *)
LEMMA HomesCarry ==
    ASSUME NEW s, NEW g, NEW K, NEW V, NEW A, Extends(s, g, K, V, A), Homes(s.g),
           \A v \in V : \E h \in DOMAIN g : v \in Vars(g, h)
    PROVE  Homes(g)
  <1> SUFFICES ASSUME NEW b \in DOMAIN g, NEW k \in DOMAIN g[b].body, g[b].body[k].op = "use"
               PROVE  \E h \in DOMAIN g : g[b].body[k].ref \in Vars(g, h)
    BY DEF Homes
  <1>1. DOMAIN g = DOMAIN s.g \cup Made(s.g, g)
    BY ExtendsDomains
  <1>2. CASE b \in DOMAIN s.g /\ k \in DOMAIN s.g[b].body
    <2>1. g[b].body[k] = s.g[b].body[k]
      BY <1>2 DEF Extends
    <2>2. PICK h \in DOMAIN s.g : g[b].body[k].ref \in Vars(s.g, h)
      BY <1>2, <2>1 DEF Homes
    <2>3. h \in DOMAIN g
      BY <1>1
    <2> QED
      BY <2>2, <2>3, VarsCarry
  <1>3. CASE ~(b \in DOMAIN s.g /\ k \in DOMAIN s.g[b].body)
    <2>1. Placed(g, b, k, {s.at} \cup Made(s.g, g), V, A)
      BY <1>3 DEF Extends
    <2> QED
      BY <2>1 DEF Placed
  <1> QED
    BY <1>2, <1>3

(* No arc leads nowhere.                                                   *)
LEMMA TidyCarry ==
    ASSUME NEW s, NEW g, NEW K, NEW V, NEW A, Extends(s, g, K, V, A), Tidy(s.g),
           K \subseteq DOMAIN s.g
    PROVE  Tidy(g)
  <1> DEFINE new == Made(s.g, g)
  <1>1. DOMAIN g = DOMAIN s.g \cup new
    BY ExtendsDomains
  <1>2. \A b \in DOMAIN g : Arcs(g, b) \subseteq Arcs(s.g, b) \cup K \cup new
    BY DEF Extends
  <1> HIDE DEF new
  <1>3. \A b \in DOMAIN g : Arcs(s.g, b) \subseteq DOMAIN s.g
    BY DEF Tidy, Arcs
  <1> QED
    BY <1>1, <1>2, <1>3 DEF Tidy

-----------------------------------------------------------------------------
(***************************************************************************)
(* Where the walk stands.  Inside: the selected block is outside O, and so *)
(* is what the handlers hold from some frame on; the frames below, which   *)
(* were open when the allocation was made, hold blocks of O, and the       *)
(* variables of h are in the scopes of the others only.  Outside: all that *)
(* the handlers and loops know is in O, and no variable of h is in scope.  *)
(***************************************************************************)
Inside(g, at, fs, sc, h, O) ==
    /\ at \notin O
    /\ \E n \in 0..Len(fs) :
        /\ \A k \in 1..n : fs[k].kind \notin Breakable /\ HeldBy(fs[k]) \subseteq O \cup {NoBlock}
        /\ \A k \in (n + 1)..Len(fs) : HeldBy(fs[k]) \cap O = {}
        /\ \A v \in Vars(g, h) : \A k \in DOMAIN sc : v \in sc[k] => n = 0 \/ k >= 3 + n

Outside(g, at, fs, cs, sc, h, O) ==
    /\ at \in O \cup {NoBlock} /\ HeldIn(fs) \cup Blocks(cs) \subseteq O
    /\ h \notin Firsts(cs)
    /\ \A v \in Vars(g, h) : \A k \in DOMAIN sc : v \notin sc[k]

Region(g, at, fs, cs, sc, h) ==
    \E O : /\ Shut(g, h, O) /\ Served(g, h, O)
           /\ \/ Inside(g, at, fs, sc, h, O)
              \/ Outside(g, at, fs, cs, sc, h, O)

(* The variables in scope and those met so far.                            *)
InScope(g, sc) == \A k \in DOMAIN sc : \A v \in sc[k] : \E h \in DOMAIN g : v \in Vars(g, h)
Older(g, i) == \A h \in DOMAIN g : \A v \in Vars(g, h) : v < i

DomInv ==
    /\ mode # "error" => Homes(cfg)
    /\ mode = "body" =>
        /\ \A h \in Allocs(cfg) \cup Firsts(controls) :
              Region(cfg, sel, frames, controls, scopes, h)
        /\ Tidy(cfg) /\ Blocks(controls) \subseteq DOMAIN cfg
        /\ InScope(cfg, scopes) /\ Older(cfg, Here)
    /\ mode \in {"resolve", "idle"} =>
        \A h \in Allocs(cfg) : \E O : Shut(cfg, h, O) /\ Served(cfg, h, O)

(* A block has variables exactly when it has allocations.                  *)
LEMMA VarsOfAllocs ==
    ASSUME NEW g \in Graph, NEW h \in DOMAIN g
    PROVE  h \notin Allocs(g) => Vars(g, h) = {}
  <1> SUFFICES ASSUME NEW v \in Vars(g, h) PROVE h \in Allocs(g)
    OBVIOUS
  <1> DEFINE n == [op |-> "alloca", ref |-> v]
  <1>1. PICK k \in DOMAIN g[h].body : g[h].body[k] = n
    BY DEF Vars
  <1>2. n.op = "alloca"
    OBVIOUS
  <1> HIDE DEF n
  <1> QED
    BY <1>1, <1>2 DEF Allocs

(* Without a loop no frame is of one.                                      *)
LEMMA PlainFrames ==
    ASSUME TypeInv, controls = <<>>
    PROVE  \A k \in DOMAIN frames : frames[k].kind \notin Breakable
  <1>1. frames \in Seq(Frame) /\ controls \in Seq(Control) /\ Nested(frames, controls)
    BY StackFacts
  <1>2. /\ Len(frames) \in Nat /\ DOMAIN frames = 1..Len(frames) /\ Len(controls) = 0
        /\ \A k \in DOMAIN frames : frames[k].depth \in Nat /\ frames[k].depth <= Len(controls)
    BY <1>1, NestedFacts
  <1> TAKE k \in DOMAIN frames
  <1>3. DepthUnder(frames, k) \in Nat
    <2>1. k \in Nat /\ k # 0 /\ (k # 1 => k - 1 \in DOMAIN frames)
      BY <1>2
    <2> QED
      BY <1>2, <2>1 DEF DepthUnder
  <1>4. Mirrors(frames[k], DepthUnder(frames, k), controls)
    BY <1>1 DEF Nested
  <1>5. frames[k].kind \in Breakable => frames[k].depth = DepthUnder(frames, k) + 1
    BY <1>4 DEF Mirrors
  <1> QED
    BY <1>2, <1>3, <1>5

(* Without a frame of a loop there is no loop.                             *)
LEMMA PlainControls ==
    ASSUME TypeInv, \A k \in DOMAIN frames : frames[k].kind \notin Breakable
    PROVE  controls = <<>>
  <1>1. frames \in Seq(Frame) /\ controls \in Seq(Control) /\ Nested(frames, controls)
    BY StackFacts
  <1>2. /\ Len(frames) \in Nat /\ DOMAIN frames = 1..Len(frames) /\ Len(controls) \in Nat
        /\ frames = <<>> => Len(controls) = 0
        /\ frames # <<>> => /\ Len(frames) \in DOMAIN frames
                            /\ frames[Len(frames)].depth = Len(controls)
    BY <1>1, NestedFacts
  <1>3. \A k \in DOMAIN frames : frames[k].depth = DepthUnder(frames, k)
    BY <1>1 DEF Nested, Mirrors
  <1> DEFINE T == {k \in Nat : k \in DOMAIN frames => frames[k].depth = 0}
  <1>4. 0 \in T
    BY <1>2
  <1>5. ASSUME NEW k \in Nat, k \in T PROVE k + 1 \in T
    <2> SUFFICES ASSUME k + 1 \in DOMAIN frames PROVE frames[k + 1].depth = 0
      OBVIOUS
    <2>1. frames[k + 1].depth = DepthUnder(frames, k + 1)
      BY <1>3
    <2>2. CASE k = 0
      BY <2>1, <2>2 DEF DepthUnder
    <2>3. CASE k # 0
      <3>1. k \in DOMAIN frames /\ (k + 1) - 1 = k /\ k + 1 # 1
        BY <1>2, <2>3
      <3> QED
        BY <1>5, <2>1, <3>1 DEF DepthUnder
    <2> QED
      BY <2>2, <2>3
  <1>6. Nat \subseteq T
    <2> HIDE DEF T
    <2> QED
      BY <1>4, <1>5, NatSetInduction
  <1>7. Len(controls) = 0
    <2>1. frames # <<>> => frames[Len(frames)].depth = 0
      BY <1>2, <1>6
    <2> QED
      BY <1>2, <2>1
  <1> QED
    BY <1>1, <1>7, EmptySeq

(* How deep the scopes are.                                                *)
LEMMA ScopesDeep ==
    ASSUME TypeInv, NoSwitches, ScopeInv, mode = "body"
    PROVE  /\ DOMAIN scopes = 1..Len(scopes) /\ Len(scopes) \in Nat /\ Len(frames) \in Nat
           /\ DOMAIN frames = 1..Len(frames)
           /\ Len(scopes) >= 3 + Len(frames)
           /\ controls = <<>> => Len(scopes) = 3 + Len(frames)
  <1>1. /\ scopes \in Seq(SUBSET Nat) /\ frames \in Seq(Frame)
        /\ Len(scopes) = 3 + ScopesOf(frames)
    BY DeepEnough
  <1>2. /\ DOMAIN scopes = 1..Len(scopes) /\ Len(scopes) \in Nat
        /\ DOMAIN frames = 1..Len(frames) /\ Len(frames) \in Nat
    BY <1>1, LenProperties
  <1>3. FramesOf(frames, "dispatch") = {}
    BY DEF NoSwitches, FramesOf
  <1>4. Cardinality(FramesOf(frames, "dispatch")) = 0
    BY <1>3, FS_EmptySet
  <1>5. Cardinality(FramesOf(frames, "for")) \in Nat
    BY <1>1, FramesOfFinite
  <1>6. controls = <<>> => Cardinality(FramesOf(frames, "for")) = 0
    <2> SUFFICES ASSUME controls = <<>> PROVE Cardinality(FramesOf(frames, "for")) = 0
      OBVIOUS
    <2>1. FramesOf(frames, "for") = {}
      BY PlainFrames DEF FramesOf, Breakable
    <2> QED
      BY <2>1, FS_EmptySet
  <1> QED
    BY <1>1, <1>2, <1>4, <1>5, <1>6 DEF ScopesOf

(* fillBlock: the graph it leaves.                                         *)
LEMMA ReadyBodies ==
    ASSUME TypeInv, mode = "body"
    PROVE  /\ cfg \in Graph /\ Ready.g \in Graph /\ Ready.at \in DOMAIN Ready.g
           /\ Ready.at # NoBlock /\ NoBlock \notin DOMAIN Ready.g
           /\ DOMAIN Ready.g = DOMAIN cfg \cup {Ready.at}
           /\ \A b \in DOMAIN cfg : Ready.g[b] = cfg[b]
           /\ sel # NoBlock => Ready.g = cfg /\ Ready.at = sel
           /\ sel = NoBlock => Ready.at \notin DOMAIN cfg /\ Ready.g[Ready.at] = NewBlock
           /\ 1 \in DOMAIN Ready.g
  <1>1. Position(Ready) /\ cfg \in Graph
    BY ReadyFrom, Setting
  <1>2. /\ Ready.g \in Graph /\ Len(Ready.g) \in Nat /\ DOMAIN Ready.g = 1..Len(Ready.g)
        /\ Ready.at \in 1..Len(Ready.g)
    BY <1>1, PositionFacts
  <1>3. Ready.at # NoBlock /\ NoBlock \notin DOMAIN Ready.g /\ 1 \in DOMAIN Ready.g
    BY <1>2 DEF NoBlock
  <1>4. CASE sel # NoBlock
    <2>1. Ready.g = cfg /\ Ready.at = sel
      BY <1>4, ReadyFrom
    <2> QED
      BY <1>1, <1>2, <1>3, <1>4, <2>1
  <1>5. CASE sel = NoBlock
    <2> DEFINE n == Len(cfg) + 1
               g == CreateBlock(cfg)
    <2>1. Ready.g = g /\ Ready.at = n
      BY <1>5 DEF Ready, NewId
    <2>2. /\ g \in Graph /\ Len(g) = n /\ g[n] = NewBlock
          /\ \A c \in DOMAIN cfg : g[c] = cfg[c]
      BY <1>1, CreateBlockLemma
    <2>3. DOMAIN g = 1..n /\ DOMAIN cfg = 1..Len(cfg) /\ Len(cfg) \in Nat
      BY <1>1, <2>2, LenProperties DEF Graph
    <2> HIDE DEF g
    <2>4. DOMAIN g = DOMAIN cfg \cup {n} /\ n \notin DOMAIN cfg
      BY <2>3
    <2> HIDE DEF n
    <2> QED
      BY <1>1, <1>2, <1>3, <1>5, <2>1, <2>2, <2>4
  <1> QED
    BY <1>4, <1>5

(* ... with the arcs, allocations and uses it had.                         *)
LEMMA ReadyNodes ==
    ASSUME TypeInv, mode = "body"
    PROVE  /\ \A b : Arcs(Ready.g, b) = Arcs(cfg, b)
           /\ \A h \in DOMAIN cfg : Vars(Ready.g, h) = Vars(cfg, h)
           /\ Allocs(Ready.g) = Allocs(cfg)
           /\ \A b \in DOMAIN Ready.g : \A k \in DOMAIN Ready.g[b].body :
                 b \in DOMAIN cfg /\ k \in DOMAIN cfg[b].body /\ Ready.g[b].body[k] = cfg[b].body[k]
  <1>1. /\ DOMAIN Ready.g = DOMAIN cfg \cup {Ready.at}
        /\ \A b \in DOMAIN cfg : Ready.g[b] = cfg[b]
        /\ sel # NoBlock => Ready.g = cfg /\ Ready.at = sel
        /\ sel = NoBlock => Ready.at \notin DOMAIN cfg /\ Ready.g[Ready.at] = NewBlock
    BY ReadyBodies
  <1>2. NewBlock.body = <<>> /\ NewBlock.next = <<>>
    BY DEF NewBlock
  <1>3. CASE sel # NoBlock
    BY <1>1, <1>3 DEF Allocs
  <1>4. CASE sel = NoBlock
    <2>1. Ready.g[Ready.at].body = <<>> /\ Ready.g[Ready.at].next = <<>> /\ Ready.at \notin DOMAIN cfg
      BY <1>1, <1>2, <1>4
    <2>2. DOMAIN Ready.g[Ready.at].body = {}
      BY <2>1
    <2>3. ToSet(Ready.g[Ready.at].next) = {}
      BY <2>1 DEF ToSet
    <2>4. \A b : Arcs(Ready.g, b) = Arcs(cfg, b)
      BY <1>1, <2>1, <2>3 DEF Arcs
    <2>5. \A h \in DOMAIN cfg : Vars(Ready.g, h) = Vars(cfg, h)
      BY <1>1 DEF Vars
    <2>6. \A b \in DOMAIN Ready.g : \A k \in DOMAIN Ready.g[b].body :
             b \in DOMAIN cfg /\ k \in DOMAIN cfg[b].body /\ Ready.g[b].body[k] = cfg[b].body[k]
      BY <1>1, <2>2
    <2>7. Allocs(Ready.g) = Allocs(cfg)
      BY <1>1, <2>6 DEF Allocs
    <2> QED
      BY <2>4, <2>5, <2>6, <2>7
  <1> QED
    BY <1>3, <1>4

(* fillBlock: where the walk stands for each allocation, and for the next  *)
(* one: nothing is behind a block that no loop is around yet.              *)
LEMMA ReadyRegion ==
    ASSUME TypeInv, BlockInv, NoSwitches, DomInv, mode = "body"
    PROVE  /\ \A h \in Allocs(Ready.g) \cup {AllocBlock(Ready.at)} :
                 Region(Ready.g, Ready.at, frames, controls, scopes, h)
           /\ Homes(Ready.g) /\ Tidy(Ready.g) /\ Blocks(controls) \subseteq DOMAIN Ready.g
           /\ InScope(Ready.g, scopes) /\ Older(Ready.g, Here)
  <1> DEFINE g  == Ready.g
             at == Ready.at
  <1>1. /\ cfg \in Graph /\ g \in Graph /\ at \in DOMAIN g /\ at # NoBlock /\ NoBlock \notin DOMAIN g
        /\ DOMAIN g = DOMAIN cfg \cup {at} /\ 1 \in DOMAIN g
        /\ sel # NoBlock => g = cfg /\ at = sel
        /\ sel = NoBlock => at \notin DOMAIN cfg
    BY ReadyBodies
  <1>2. /\ \A b : Arcs(g, b) = Arcs(cfg, b)
        /\ \A h \in DOMAIN cfg : Vars(g, h) = Vars(cfg, h)
        /\ Allocs(g) = Allocs(cfg)
        /\ \A b \in DOMAIN g : \A k \in DOMAIN g[b].body :
              b \in DOMAIN cfg /\ k \in DOMAIN cfg[b].body /\ g[b].body[k] = cfg[b].body[k]
        /\ \A b \in DOMAIN cfg : g[b] = cfg[b]
    BY ReadyNodes, ReadyBodies
  <1> HIDE DEF g, at
  <1>3. \A h \in DOMAIN cfg : \A O : Served(cfg, h, O) =>
          Served(g, h, O) /\ (at \notin DOMAIN cfg => Served(g, h, O \cup {at}))
    <2> TAKE h \in DOMAIN cfg
    <2> TAKE O
    <2> HAVE Served(cfg, h, O)
    <2>1. \A b \in DOMAIN g : \A k \in DOMAIN g[b].body : b \in DOMAIN cfg /\ \A v :
            AllocBefore(cfg, b, k, v) => AllocBefore(g, b, k, v)
      BY <1>2 DEF AllocBefore
    <2> QED
      BY <1>2, <2>1 DEF Served
  <1>4. ASSUME NEW h \in Allocs(cfg) \cup Firsts(controls)
        PROVE  Region(g, at, frames, controls, scopes, h)
    <2>1. PICK O : /\ Shut(cfg, h, O) /\ Served(cfg, h, O)
                   /\ \/ Inside(cfg, sel, frames, scopes, h, O)
                      \/ Outside(cfg, sel, frames, controls, scopes, h, O)
      BY <1>4 DEF DomInv, Region
    <2>2. h \in DOMAIN cfg /\ O \subseteq DOMAIN cfg /\ Vars(g, h) = Vars(cfg, h)
      BY <1>2, <2>1 DEF Shut
    <2>3. CASE sel # NoBlock
      BY <1>1, <2>1, <2>3 DEF Region
    <2>4. CASE sel = NoBlock /\ Inside(cfg, sel, frames, scopes, h, O)
      <3>1. Shut(g, h, O)
        BY <1>1, <1>2, <2>1 DEF Shut
      <3>2. Inside(g, at, frames, scopes, h, O)
        BY <1>1, <2>2, <2>4 DEF Inside
      <3> QED
        BY <1>3, <2>1, <2>2, <3>1, <3>2 DEF Region
    <2>5. CASE sel = NoBlock /\ Outside(cfg, sel, frames, controls, scopes, h, O)
      <3> DEFINE P == O \cup {at}
      <3>1. Arcs(g, at) = {}
        BY <1>1, <1>2, <2>5 DEF Arcs
      <3>2. Shut(g, h, P)
        BY <1>1, <1>2, <2>1, <2>2, <2>5, <3>1 DEF Shut
      <3>3. Outside(g, at, frames, controls, scopes, h, P)
        BY <2>2, <2>5 DEF Outside
      <3>4. Served(g, h, P)
        BY <1>1, <1>3, <2>1, <2>2, <2>5
      <3> HIDE DEF P
      <3> QED
        BY <3>2, <3>3, <3>4 DEF Region
    <2> QED
      BY <2>1, <2>3, <2>4, <2>5
  <1>5. ASSUME controls = <<>>, at \notin Allocs(cfg)
        PROVE  Region(g, at, frames, controls, scopes, at)
    <2> DEFINE O == DOMAIN g \ {at}
               n == Len(frames)
    <2>1. Vars(g, at) = {}
      BY <1>1, <1>2, <1>5, VarsOfAllocs
    <2>2. SoundNow(Ready, HeldIn(frames))
      BY ReadySound
    <2>3. at \notin HeldIn(frames) /\ HeldIn(frames) \subseteq DOMAIN g
      BY <1>1, <2>2, SoundFacts DEF SoundNow, g, at
    <2>4. \A b \in DOMAIN cfg : Arcs(cfg, b) \subseteq DOMAIN cfg
      BY DEF DomInv, Tidy
    <2>5. Shut(g, at, O)
      BY <1>1, <1>2, <2>4 DEF Shut, Arcs
    <2>6. Served(g, at, O)
      BY <2>1 DEF Served
    <2>7. \A k \in DOMAIN frames : frames[k].kind \notin Breakable /\ HeldBy(frames[k]) \subseteq O \cup {NoBlock}
      <3>1. \A k \in DOMAIN frames : HeldBy(frames[k]) \subseteq HeldIn(frames) \cup {NoBlock}
        BY HeldMember
      <3> QED
        BY <1>5, <2>3, <3>1, PlainFrames
    <2>8. n \in Nat /\ DOMAIN frames = 1..n
      BY StackFacts, LenProperties
    <2> HIDE DEF n
    <2>9. n \in 0..n /\ (n + 1)..n = {}
      BY <2>8
    <2>10. Inside(g, at, frames, scopes, at, O)
      BY <2>1, <2>7, <2>8, <2>9 DEF Inside, n
    <2> HIDE DEF O
    <2> QED
      BY <2>5, <2>6, <2>10 DEF Region
  <1>6. \A h \in Allocs(g) \cup {AllocBlock(at)} : Region(g, at, frames, controls, scopes, h)
    <2> TAKE h \in Allocs(g) \cup {AllocBlock(at)}
    <2>1. CASE h \in Allocs(cfg)
      BY <1>4, <2>1
    <2>2. CASE h \notin Allocs(cfg) /\ controls = <<>>
      BY <1>2, <1>5, <2>2, AllocBlockIs
    <2>3. CASE h \notin Allocs(cfg) /\ controls # <<>>
      <3>1. h \in Firsts(controls)
        BY <1>2, <2>3, AllocBlockIs DEF Firsts
      <3> QED
        BY <1>4, <3>1
    <2> QED
      BY <2>1, <2>2, <2>3
  <1>7. Tidy(g)
    <2>1. \A b \in DOMAIN cfg : Arcs(cfg, b) \subseteq DOMAIN cfg
      BY DEF DomInv, Tidy
    <2> QED
      BY <1>1, <1>2, <2>1 DEF Tidy, Arcs
  <1>8. Homes(g)
    <2>1. Homes(cfg)
      BY DEF DomInv
    <2> QED
      BY <1>1, <1>2, <2>1 DEF Homes
  <1>9. InScope(g, scopes) /\ Blocks(controls) \subseteq DOMAIN g
    BY <1>1, <1>2 DEF DomInv, InScope
  <1>10. Older(g, Here)
    <2>1. at \notin DOMAIN cfg => Vars(g, at) = {}
      BY <1>1, <1>2 DEF Vars
    <2>2. \A h \in DOMAIN cfg : \A v \in Vars(cfg, h) : v < Here
      BY DEF DomInv, Older
    <2> QED
      BY <1>1, <1>2, <2>1, <2>2 DEF Older
  <1> QED
    BY <1>6, <1>7, <1>8, <1>9, <1>10 DEF g, at

-----------------------------------------------------------------------------
(***************************************************************************)
(* A handler that goes on: it opens at most one statement, whose frame     *)
(* holds new blocks, and declares at most one variable.                    *)
(***************************************************************************)
FramesGrow(fs, gs, new) ==
    /\ Len(fs) \in Nat /\ Len(gs) \in Nat /\ Len(fs) <= Len(gs)
    /\ DOMAIN fs = 1..Len(fs) /\ DOMAIN gs = 1..Len(gs)
    /\ \A k \in DOMAIN fs : gs[k] = fs[k]
    /\ \A k \in DOMAIN gs : k \in DOMAIN fs \/ HeldBy(gs[k]) \subseteq {NoBlock} \cup new

ScopesGrow(sc, ss, W) ==
    /\ DOMAIN ss \subseteq Nat
    /\ \A k \in DOMAIN ss : \A v \in ss[k] :
          (k \in DOMAIN sc /\ v \in sc[k]) \/ (k >= Len(sc) /\ v \in W)

(* Where h dominates, all that is new is dominated by h.                   *)
LEMMA InsideGrows ==
    ASSUME NEW s, NEW g, NEW K, NEW V, NEW A, Extends(s, g, K, V, A), NEW h, NEW O,
           Shut(s.g, h, O), NEW fs, NEW gs, NEW sc, NEW ss, NEW W,
           Inside(s.g, s.at, fs, sc, h, O),
           FramesGrow(fs, gs, Made(s.g, g)), ScopesGrow(sc, ss, W),
           Len(sc) \in Nat, Len(sc) >= 3 + Len(fs),
           \A v : <<h, v>> \in A => \A k \in DOMAIN sc : v \notin sc[k],
           NEW at \in {NoBlock, s.at} \cup Made(s.g, g)
    PROVE  Inside(g, at, gs, ss, h, O)
  <1> DEFINE new == Made(s.g, g)
  <1>1. /\ s.g \in Graph /\ DOMAIN g = DOMAIN s.g \cup new /\ DOMAIN s.g \cap new = {}
        /\ s.at \in DOMAIN s.g
    BY ExtendsDomains
  <1>2. h \in DOMAIN s.g /\ O \subseteq DOMAIN s.g /\ NoBlock \notin O
    <2>1. NoBlock \notin DOMAIN s.g
      BY <1>1, LenProperties DEF Graph, NoBlock
    <2> QED
      BY <2>1 DEF Shut
  <1>3. at \notin O /\ O \cap new = {}
    BY <1>1, <1>2 DEF Inside
  <1>4. PICK n \in 0..Len(fs) :
        /\ \A k \in 1..n : fs[k].kind \notin Breakable /\ HeldBy(fs[k]) \subseteq O \cup {NoBlock}
        /\ \A k \in (n + 1)..Len(fs) : HeldBy(fs[k]) \cap O = {}
        /\ \A v \in Vars(s.g, h) : \A k \in DOMAIN sc : v \in sc[k] => n = 0 \/ k >= 3 + n
    BY DEF Inside
  <1> HIDE DEF new
  <1>5. /\ Len(fs) \in Nat /\ Len(gs) \in Nat /\ Len(fs) <= Len(gs)
        /\ DOMAIN fs = 1..Len(fs) /\ DOMAIN gs = 1..Len(gs)
        /\ \A k \in DOMAIN fs : gs[k] = fs[k]
        /\ \A k \in DOMAIN gs : k \in DOMAIN fs \/ HeldBy(gs[k]) \subseteq {NoBlock} \cup new
    BY DEF FramesGrow, new
  <1>6. n \in 0..Len(gs) /\ n \in Nat /\ n <= Len(fs)
    BY <1>5
  <1>7. \A k \in 1..n : gs[k].kind \notin Breakable /\ HeldBy(gs[k]) \subseteq O \cup {NoBlock}
    <2>1. \A k \in 1..n : k \in DOMAIN fs
      BY <1>5, <1>6
    <2> QED
      BY <1>4, <1>5, <2>1
  <1>8. \A k \in (n + 1)..Len(gs) : HeldBy(gs[k]) \cap O = {}
    <2> TAKE k \in (n + 1)..Len(gs)
    <2>1. k \in DOMAIN gs /\ (k \in DOMAIN fs => k \in (n + 1)..Len(fs))
      BY <1>5, <1>6
    <2>2. CASE k \in DOMAIN fs
      BY <1>4, <1>5, <2>1, <2>2
    <2>3. CASE k \notin DOMAIN fs
      BY <1>2, <1>3, <1>5, <2>1, <2>3
    <2> QED
      BY <2>2, <2>3
  <1>9. \A v \in Vars(g, h) : \A k \in DOMAIN ss : v \in ss[k] => n = 0 \/ k >= 3 + n
    <2> TAKE v \in Vars(g, h)
    <2> TAKE k \in DOMAIN ss
    <2> HAVE v \in ss[k]
    <2>1. v \in Vars(s.g, h) \/ <<h, v>> \in A
      BY <1>2, VarsCarry
    <2>2. k \in Nat /\ ((k \in DOMAIN sc /\ v \in sc[k]) \/ k >= Len(sc))
      BY DEF ScopesGrow
    <2>3. CASE k \in DOMAIN sc /\ v \in sc[k]
      BY <1>4, <2>1, <2>3
    <2>4. CASE k >= Len(sc)
      <3>1. k >= 3 + n
        BY <1>5, <1>6, <2>2, <2>4
      <3> QED
        BY <3>1
    <2> QED
      BY <2>2, <2>3, <2>4
  <1> QED
    BY <1>3, <1>6, <1>7, <1>8, <1>9 DEF Inside

(* What frames hold after a handler that opens at most one statement.      *)
LEMMA HeldGrows ==
    ASSUME NEW fs, NEW gs, NEW new, FramesGrow(fs, gs, new)
    PROVE  HeldIn(gs) \subseteq HeldIn(fs) \cup new
  BY HeldMember DEF FramesGrow

(* Elsewhere, what is new is not dominated either.                         *)
LEMMA OutsideGrows ==
    ASSUME NEW s, NEW g, NEW K, NEW V, NEW A, Extends(s, g, K, V, A), NEW h, NEW O,
           Shut(s.g, h, O), NEW fs, NEW gs, NEW cs, NEW ds, NEW sc, NEW ss, NEW W,
           Outside(s.g, s.at, fs, cs, sc, h, O),
           FramesGrow(fs, gs, Made(s.g, g)), ScopesGrow(sc, ss, W),
           W \cap Vars(s.g, h) = {}, \A v : <<h, v>> \notin A,
           Blocks(ds) \subseteq Blocks(cs) \cup Made(s.g, g), h \notin Firsts(ds),
           NEW at \in {NoBlock, s.at} \cup Made(s.g, g)
    PROVE  Outside(g, at, gs, ds, ss, h, O \cup Made(s.g, g))
  <1> DEFINE new == Made(s.g, g)
             P == O \cup new
  <1>1. s.g \in Graph /\ s.at \in DOMAIN s.g /\ h \in DOMAIN s.g
    BY ExtendsDomains DEF Shut
  <1>2. s.at # NoBlock
    BY <1>1, LenProperties DEF Graph, NoBlock
  <1>3. s.at \in O /\ HeldIn(fs) \cup Blocks(cs) \subseteq O
    BY <1>2 DEF Outside
  <1>4. at \in P \cup {NoBlock} /\ HeldIn(gs) \cup Blocks(ds) \subseteq P
    BY <1>3, HeldGrows
  <1>5. \A v \in Vars(g, h) : \A k \in DOMAIN ss : v \notin ss[k]
    <2> TAKE v \in Vars(g, h)
    <2>1. v \in Vars(s.g, h)
      BY <1>1, VarsCarry
    <2> QED
      BY <2>1 DEF ScopesGrow, Outside
  <1> HIDE DEF P
  <1>6. Outside(g, at, gs, ds, ss, h, P)
    BY <1>4, <1>5 DEF Outside
  <1> QED
    BY <1>6 DEF P

(* What is allocated in a new block.                                       *)
LEMMA VarsMade ==
    ASSUME NEW s, NEW g, NEW K, NEW V, NEW A, Extends(s, g, K, V, A),
           NEW h \in DOMAIN g, h \notin DOMAIN s.g
    PROVE  \A v \in Vars(g, h) : <<h, v>> \in A
  <1> TAKE v \in Vars(g, h)
  <1> DEFINE n == [op |-> "alloca", ref |-> v]
  <1>1. PICK k \in DOMAIN g[h].body : g[h].body[k] = n
    BY DEF Vars
  <1>2. n.op = "alloca" /\ n.ref = v
    OBVIOUS
  <1> HIDE DEF n
  <1>3. Placed(g, h, k, {s.at} \cup Made(s.g, g), V, A)
    BY DEF Extends
  <1> QED
    BY <1>1, <1>2, <1>3 DEF Placed

GoesOn(K, V, A, W) ==
    LET a   == AllocBlock(Ready.at)
        new == Made(Ready.g, cfg')
    IN  /\ mode = "body" /\ mode' = "body"
        /\ Extends(Ready, cfg', K, V, A) /\ K \subseteq Known
        /\ \A b, i : <<b, i>> \in A => b = a /\ i = Here
        /\ W \subseteq {Here} /\ \A v \in W : v \in Vars(cfg', a)
        /\ \A v \in V : v \in W \/ \E k \in DOMAIN scopes : v \in scopes[k]
        /\ FramesGrow(frames, frames', new) /\ ScopesGrow(scopes, scopes', W)
        /\ Blocks(controls') \subseteq Blocks(controls) \cup new /\ Firsts(controls') \subseteq {a}
        /\ Here' \in Nat /\ Here < Here'
        /\ sel' \in {NoBlock, Ready.at} \cup new

(* A handler that goes on keeps every allocation in front of its uses.     *)
LEMMA DomGrows ==
    ASSUME TypeInv, BlockInv, NoSwitches, ScopeInv, DomInv,
           NEW K, NEW V, NEW A, NEW W, GoesOn(K, V, A, W)
    PROVE  DomInv'
  <1> DEFINE g   == Ready.g
             at  == Ready.at
             a   == AllocBlock(at)
             new == Made(g, cfg')
             old == Allocs(g) \cup {a}
  <1>1. /\ mode = "body" /\ mode' = "body"
        /\ Extends(Ready, cfg', K, V, A) /\ K \subseteq Known
        /\ \A b, i : <<b, i>> \in A => b = a /\ i = Here
        /\ W \subseteq {Here} /\ \A v \in W : v \in Vars(cfg', a)
        /\ \A v \in V : v \in W \/ \E k \in DOMAIN scopes : v \in scopes[k]
        /\ FramesGrow(frames, frames', new) /\ ScopesGrow(scopes, scopes', W)
        /\ Blocks(controls') \subseteq Blocks(controls) \cup new /\ Firsts(controls') \subseteq {a}
        /\ Here' \in Nat /\ Here < Here'
        /\ sel' \in {NoBlock, at} \cup new
    BY DEF GoesOn
  <1>2. /\ \A h \in old : Region(g, at, frames, controls, scopes, h)
        /\ Homes(g) /\ Tidy(g) /\ Blocks(controls) \subseteq DOMAIN g
        /\ InScope(g, scopes) /\ Older(g, Here)
    BY <1>1, ReadyRegion
  <1>3. /\ g \in Graph /\ cfg' \in Graph /\ at \in DOMAIN g /\ at # NoBlock
        /\ DOMAIN cfg' = DOMAIN g \cup new /\ DOMAIN g \cap new = {}
    BY <1>1, ExtendsDomains, ReadyBodies
  <1>4. Allocs(cfg') \cup Firsts(controls') \subseteq old
    <2>1. \A b, i : <<b, i>> \in A => b = a
      BY <1>1
    <2> QED
      BY <1>1, <2>1, AllocsCarry
  <1>5. /\ Len(scopes) \in Nat /\ Len(scopes) >= 3 + Len(frames)
    BY <1>1, ScopesDeep
  <1>6. Here \in Nat
    BY ReadyFrom
  <1>7. controls = <<>> => a = at
    BY AllocBlockIs
  <1>8. controls # <<>> => a \in Firsts(controls)
    BY AllocBlockIs DEF Firsts
  <1>9. HeldIn(frames) \subseteq DOMAIN g
    <2>1. SoundNow(Ready, HeldIn(frames))
      BY <1>1, ReadySound
    <2> QED
      BY <1>3, <2>1, Setting, SoundFacts DEF SoundNow
  <1> HIDE DEF new, a
  <1>10. \A h \in DOMAIN g : Here \notin Vars(g, h)
    BY <1>2, <1>6 DEF Older
  <1>11. \A k \in DOMAIN scopes : Here \notin scopes[k]
    BY <1>2, <1>10 DEF InScope
  <1>12. \A b \in DOMAIN g : \A k \in DOMAIN g[b].body :
            ~(g[b].body[k].op = "use" /\ g[b].body[k].ref = Here)
    BY <1>2, <1>10 DEF Homes
  <1>13. ASSUME NEW h \in old PROVE Region(cfg', sel', frames', controls', scopes', h)
    <2>1. PICK O : /\ Shut(g, h, O) /\ Served(g, h, O)
                   /\ \/ Inside(g, at, frames, scopes, h, O)
                      \/ Outside(g, at, frames, controls, scopes, h, O)
      BY <1>2, <1>13 DEF Region
    <2>2. CASE Inside(g, at, frames, scopes, h, O)
      <3>1. at \notin O
        BY <2>2 DEF Inside
      <3>2. Shut(cfg', h, O)
        BY <1>1, <2>1, <3>1, ShutInside
      <3>3. \A v : <<h, v>> \in A =>
              \A b \in DOMAIN g : \A k \in DOMAIN g[b].body :
                 ~(g[b].body[k].op = "use" /\ g[b].body[k].ref = v)
        BY <1>1, <1>12
      <3>4. Served(cfg', h, O)
        BY <1>1, <2>1, <3>1, <3>3, ServedInside
      <3>5. \A v : <<h, v>> \in A => \A k \in DOMAIN scopes : v \notin scopes[k]
        BY <1>1, <1>11
      <3>6. FramesGrow(frames, frames', Made(g, cfg')) /\ sel' \in {NoBlock, at} \cup Made(g, cfg')
        BY <1>1 DEF new
      <3>7. Inside(cfg', sel', frames', scopes', h, O)
        BY <1>1, <1>5, <2>1, <2>2, <3>5, <3>6, InsideGrows
      <3> QED
        BY <3>2, <3>4, <3>7 DEF Region
    <2>3. CASE Outside(g, at, frames, controls, scopes, h, O)
      <3>1. at \in O /\ h \notin Firsts(controls) /\ HeldIn(frames) \cup Blocks(controls) \subseteq O
        BY <1>3, <2>3 DEF Outside
      <3>2. h # a /\ h \in DOMAIN g
        BY <1>7, <1>8, <2>1, <3>1 DEF Shut
      <3>3. (\A v : <<h, v>> \notin A) /\ h \notin Firsts(controls')
        BY <1>1, <3>2
      <3>4. W \cap Vars(g, h) = {}
        BY <1>1, <1>10, <3>2
      <3>5. V \cap Vars(g, h) = {}
        BY <1>1, <2>3, <3>4 DEF Outside
      <3>6. K \subseteq O
        BY <1>1, <3>1 DEF Known
      <3> DEFINE P == O \cup Made(g, cfg')
      <3>7. Shut(cfg', h, P)
        BY <1>1, <2>1, <3>6, ShutOutside
      <3>8. Served(cfg', h, P)
        BY <1>1, <2>1, <3>3, <3>5, ServedOutside
      <3>9. /\ FramesGrow(frames, frames', Made(g, cfg')) /\ sel' \in {NoBlock, at} \cup Made(g, cfg')
            /\ Blocks(controls') \subseteq Blocks(controls) \cup Made(g, cfg')
        BY <1>1 DEF new
      <3>10. Outside(cfg', sel', frames', controls', scopes', h, P)
        BY <1>1, <2>1, <2>3, <3>3, <3>4, <3>9, OutsideGrows
      <3> HIDE DEF P
      <3> QED
        BY <3>7, <3>8, <3>10 DEF Region
    <2> QED
      BY <2>1, <2>2, <2>3
  <1>14. \A h \in DOMAIN g : Vars(g, h) \subseteq Vars(cfg', h)
    BY <1>1, VarsCarry
  <1>15. a \in DOMAIN g
    BY <1>2 DEF Region, Shut
  <1>16. Homes(cfg')
    <2>1. \A v \in V : \E h \in DOMAIN cfg' : v \in Vars(cfg', h)
      BY <1>1, <1>2, <1>3, <1>14, <1>15 DEF InScope
    <2> QED
      BY <1>1, <1>2, <2>1, HomesCarry
  <1>17. Tidy(cfg') /\ Blocks(controls') \subseteq DOMAIN cfg'
    <2>1. K \subseteq DOMAIN g
      BY <1>1, <1>2, <1>9 DEF Known
    <2> QED
      BY <1>1, <1>2, <1>3, <2>1, TidyCarry
  <1>18. InScope(cfg', scopes')
    BY <1>1, <1>2, <1>3, <1>14, <1>15 DEF InScope, ScopesGrow
  <1>19. Older(cfg', Here')
    <2> SUFFICES ASSUME NEW h \in DOMAIN cfg', NEW v \in Vars(cfg', h) PROVE v < Here'
      BY DEF Older
    <2>1. CASE h \in DOMAIN g
      <3>1. v \in Vars(g, h) \/ <<h, v>> \in A
        BY <1>1, <2>1, VarsCarry
      <3>2. v \in Nat
        BY DEF Vars
      <3>3. v \in Vars(g, h) => v < Here
        BY <1>2, <2>1 DEF Older
      <3>4. v < Here \/ v = Here
        BY <1>1, <3>1, <3>3
      <3> HIDE DEF Here
      <3> QED
        BY <1>1, <1>6, <3>2, <3>4
    <2>2. CASE h \notin DOMAIN g
      <3>1. <<h, v>> \in A
        BY <1>1, <2>2, VarsMade
      <3>2. v = Here
        BY <1>1, <3>1
      <3> QED
        BY <1>1, <3>2
    <2> QED
      BY <2>1, <2>2
  <1> QED
    BY <1>1, <1>4, <1>13, <1>16, <1>17, <1>18, <1>19 DEF DomInv

-----------------------------------------------------------------------------
(***************************************************************************)
(* A handler that closes a statement, or goes on with its second body: it  *)
(* allocates and uses nothing, and what it selects, holds and jumps to is  *)
(* what the frame it closes holds, or new.                                 *)
(***************************************************************************)
Joined(K) == \/ sel = NoBlock /\ cfg' = cfg
             \/ sel # NoBlock /\ Extends(Ready, cfg', K, {}, {})
MadeNow   == IF sel = NoBlock THEN {} ELSE Made(Ready.g, cfg')

FramesClose(fs, gs, held) ==
    /\ Len(gs) = Len(fs) - 1 \/ Len(gs) = Len(fs)
    /\ DOMAIN gs = 1..Len(gs)
    /\ \A k \in 1..(Len(fs) - 1) : gs[k] = fs[k]
    /\ Len(gs) = Len(fs) => HeldBy(gs[Len(fs)]) \subseteq held

ScopesClose(sc, ss) ==
    \A k \in DOMAIN ss : \A v \in ss[k] : k \in DOMAIN sc /\ k < Len(sc) /\ v \in sc[k]

(* The graph it leaves.                                                    *)
LEMMA JoinedGraph ==
    ASSUME TypeInv, mode = "body", NEW K, Joined(K)
    PROVE  /\ cfg \in Graph /\ cfg' \in Graph /\ sel \in DOMAIN cfg \cup {NoBlock}
           /\ NoBlock \notin DOMAIN cfg
           /\ DOMAIN cfg' = DOMAIN cfg \cup MadeNow /\ DOMAIN cfg \cap MadeNow = {}
           /\ Allocs(cfg') \subseteq Allocs(cfg)
           /\ \A h \in DOMAIN cfg : Vars(cfg', h) = Vars(cfg, h)
           /\ \A h \in MadeNow : Vars(cfg', h) = {}
           /\ Homes(cfg) => Homes(cfg')
           /\ Tidy(cfg) /\ K \subseteq DOMAIN cfg => Tidy(cfg')
           /\ \A h, O : Shut(cfg, h, O) /\ Served(cfg, h, O) /\ sel \notin O =>
                 Shut(cfg', h, O) /\ Served(cfg', h, O)
           /\ \A h, O : Shut(cfg, h, O) /\ Served(cfg, h, O) /\ K \subseteq O =>
                 Shut(cfg', h, O \cup MadeNow) /\ Served(cfg', h, O \cup MadeNow)
  <1>1. /\ cfg \in Graph /\ sel \in DOMAIN cfg \cup {NoBlock} /\ NoBlock \notin DOMAIN cfg
    <2>1. cfg \in Graph /\ sel \in DOMAIN cfg \cup {NoBlock}
      BY DEF TypeInv, TypeOK
    <2> QED
      BY <2>1, LenProperties DEF Graph, NoBlock
  <1>2. CASE sel = NoBlock
    <2>1. cfg' = cfg /\ MadeNow = {}
      BY <1>2 DEF Joined, MadeNow
    <2>2. \A O : O \cup {} = O
      OBVIOUS
    <2> QED
      BY <1>1, <2>1, <2>2
  <1>3. CASE sel # NoBlock
    <2> DEFINE none == {}
               s    == Ready
    <2>1. /\ Extends(s, cfg', K, none, none) /\ s.g = cfg /\ s.at = sel
          /\ MadeNow = Made(s.g, cfg')
      BY <1>3, ReadyFrom DEF Joined, MadeNow
    <2>2. \A x : x \notin none
      OBVIOUS
    <2> HIDE DEF none, s
    <2>3. /\ cfg' \in Graph /\ DOMAIN cfg' = DOMAIN cfg \cup MadeNow
          /\ DOMAIN cfg \cap MadeNow = {}
      BY <2>1, ExtendsDomains
    <2>4. \A h \in DOMAIN cfg : Vars(cfg', h) = Vars(cfg, h)
      <3> TAKE h \in DOMAIN cfg
      <3>1. h \in DOMAIN s.g
        BY <2>1
      <3>2. /\ Vars(s.g, h) \subseteq Vars(cfg', h)
            /\ \A v \in Vars(cfg', h) : v \in Vars(s.g, h) \/ <<h, v>> \in none
        BY <2>1, <3>1, VarsCarry
      <3> QED
        BY <2>1, <2>2, <3>2
    <2>5. \A h \in MadeNow : Vars(cfg', h) = {}
      <3> TAKE h \in MadeNow
      <3>1. h \in DOMAIN cfg' /\ h \notin DOMAIN s.g
        BY <2>1, <2>3
      <3>2. \A v \in Vars(cfg', h) : <<h, v>> \in none
        BY <2>1, <3>1, VarsMade
      <3> QED
        BY <2>2, <3>2
    <2>6. Allocs(cfg') \subseteq Allocs(cfg)
      <3>1. \A h \in DOMAIN cfg' : \A k \in DOMAIN cfg'[h].body :
               cfg'[h].body[k].op = "alloca" =>
                  h \in DOMAIN cfg /\ k \in DOMAIN cfg[h].body /\ cfg[h].body[k] = cfg'[h].body[k]
        BY <2>1, <2>2 DEF Extends, Placed
      <3> QED
        BY <3>1 DEF Allocs
    <2>7. Homes(cfg) => Homes(cfg')
      <3>1. \A v \in none : \E h \in DOMAIN cfg' : v \in Vars(cfg', h)
        BY <2>2
      <3> QED
        BY <2>1, <3>1, HomesCarry
    <2>8. Tidy(cfg) /\ K \subseteq DOMAIN cfg => Tidy(cfg')
      BY <2>1, TidyCarry
    <2>9. ASSUME NEW h, NEW O, Shut(cfg, h, O), Served(cfg, h, O), sel \notin O
          PROVE  Shut(cfg', h, O) /\ Served(cfg', h, O)
      <3>1. Shut(s.g, h, O) /\ Served(s.g, h, O) /\ s.at \notin O
        BY <2>1, <2>9
      <3>2. \A v : <<h, v>> \in none =>
              \A b \in DOMAIN s.g : \A k \in DOMAIN s.g[b].body :
                 ~(s.g[b].body[k].op = "use" /\ s.g[b].body[k].ref = v)
        BY <2>2
      <3> QED
        BY <2>1, <3>1, <3>2, ShutInside, ServedInside
    <2>10. ASSUME NEW h, NEW O, Shut(cfg, h, O), Served(cfg, h, O), K \subseteq O
           PROVE  Shut(cfg', h, O \cup MadeNow) /\ Served(cfg', h, O \cup MadeNow)
      <3>1. Shut(s.g, h, O) /\ Served(s.g, h, O)
        BY <2>1, <2>10
      <3>2. (\A v : <<h, v>> \notin none) /\ none \cap Vars(s.g, h) = {}
        BY <2>2
      <3> QED
        BY <2>1, <2>10, <3>1, <3>2, ShutOutside, ServedOutside
    <2> QED
      BY <1>1, <2>3, <2>4, <2>5, <2>6, <2>7, <2>8, <2>9, <2>10
  <1> QED
    BY <1>2, <1>3

Closes(K) ==
    /\ mode = "body" /\ mode' = "body" /\ frames # <<>>
    /\ Joined(K) /\ K \subseteq Known
    /\ Top.kind \notin Breakable => K \subseteq HeldBy(Top)
    /\ sel' \in {NoBlock} \cup HeldBy(Top) \cup MadeNow
    /\ FramesClose(frames, frames', {NoBlock} \cup HeldBy(Top) \cup MadeNow)
    /\ ScopesClose(scopes, scopes')
    /\ Blocks(controls') \subseteq Blocks(controls) /\ Firsts(controls') \subseteq Firsts(controls)
    /\ Here' \in Nat /\ Here < Here'

(* What the frames hold after it.                                          *)
LEMMA HeldCloses ==
    ASSUME TypeInv, frames # <<>>, NEW gs, NEW held, FramesClose(frames, gs, held)
    PROVE  HeldIn(gs) \subseteq HeldIn(frames) \cup (held \ {NoBlock})
  <1> DEFINE n == Len(frames)
  <1>1. n \in Nat \ {0} /\ DOMAIN frames = 1..n
    BY StackFacts, StackLemma
  <1>2. /\ (Len(gs) = n - 1 \/ Len(gs) = n) /\ DOMAIN gs = 1..Len(gs)
        /\ \A k \in 1..(n - 1) : gs[k] = frames[k]
        /\ Len(gs) = n => HeldBy(gs[n]) \subseteq held
    BY DEF FramesClose
  <1> HIDE DEF n
  <1>3. \A k \in DOMAIN gs : k \in 1..(n - 1) \/ (k = n /\ Len(gs) = n)
    <2> DEFINE m == Len(gs)
    <2>1. (m = n - 1 \/ m = n) /\ DOMAIN gs = 1..m
      BY <1>2
    <2> HIDE DEF m
    <2>2. \A k \in 1..m : k \in 1..(n - 1) \/ (k = n /\ m = n)
      BY <1>1, <2>1
    <2> QED
      BY <2>1, <2>2 DEF m
  <1>4. \A k \in 1..(n - 1) : k \in DOMAIN frames
    BY <1>1
  <1> QED
    BY <1>2, <1>3, <1>4, HeldMember

(* Where the walk stands when a statement that was opened before the       *)
(* allocation is closed: behind what the allocation dominates.             *)
LEMMA InsideLeaves ==
    ASSUME TypeInv, NoSwitches, ScopeInv, NEW K, Closes(K), NEW h, NEW O,
           Shut(cfg, h, O), sel \notin O,
           \A k \in DOMAIN frames : /\ frames[k].kind \notin Breakable
                                    /\ HeldBy(frames[k]) \subseteq O \cup {NoBlock},
           \A v \in Vars(cfg, h) : \A k \in DOMAIN scopes : v \in scopes[k] =>
              k >= 3 + Len(frames)
    PROVE  /\ Outside(cfg', sel', frames', controls', scopes', h, O \cup MadeNow)
           /\ K \subseteq O
  <1> DEFINE P == O \cup MadeNow
  <1>1. controls = <<>>
    BY PlainControls
  <1>2. Blocks(controls) = {} /\ Firsts(controls) = {}
    BY <1>1, BlocksMember DEF Firsts
  <1>3. frames # <<>> /\ Top = frames[Len(frames)] /\ Len(frames) \in DOMAIN frames
    BY StackFacts, StackLemma DEF Closes, Top
  <1>4. HeldBy(Top) \subseteq O \cup {NoBlock} /\ Top.kind \notin Breakable
    BY <1>3
  <1>5. HeldIn(frames) \subseteq O
    BY HeldMember
  <1>6. sel' \in P \cup {NoBlock}
    BY <1>4 DEF Closes
  <1>7. HeldIn(frames') \subseteq P
    <2> DEFINE held == {NoBlock} \cup HeldBy(Top) \cup MadeNow
    <2>1. FramesClose(frames, frames', held)
      BY DEF Closes
    <2> HIDE DEF held
    <2>2. HeldIn(frames') \subseteq HeldIn(frames) \cup (held \ {NoBlock})
      BY <1>3, <2>1, HeldCloses
    <2> QED
      BY <1>4, <1>5, <2>2 DEF held
  <1>8. Blocks(controls') \subseteq P /\ h \notin Firsts(controls')
    BY <1>2 DEF Closes
  <1>9. \A v \in Vars(cfg', h) : \A k \in DOMAIN scopes' : v \notin scopes'[k]
    <2> SUFFICES ASSUME NEW v \in Vars(cfg', h), NEW k \in DOMAIN scopes', v \in scopes'[k]
                 PROVE  FALSE
      OBVIOUS
    <2>1. mode = "body" /\ Joined(K) /\ k \in DOMAIN scopes /\ k < Len(scopes) /\ v \in scopes[k]
      BY DEF Closes, ScopesClose
    <2>2. /\ Len(scopes) \in Nat /\ DOMAIN scopes = 1..Len(scopes)
          /\ Len(scopes) = 3 + Len(frames) /\ Len(frames) \in Nat
      BY <1>1, <2>1, ScopesDeep
    <2>3. h \in DOMAIN cfg
      BY DEF Shut
    <2>4. Vars(cfg', h) = Vars(cfg, h)
      BY <2>1, <2>3, JoinedGraph
    <2>5. k >= 3 + Len(frames)
      BY <2>1, <2>4
    <2> QED
      BY <2>1, <2>2, <2>5
  <1>10. K \subseteq O
    <2>1. cfg \in Graph /\ NoBlock \notin Known
      BY HeldMember, <1>2 DEF Known, TypeInv, TypeOK
    <2> QED
      BY <1>4, <2>1 DEF Closes
  <1> HIDE DEF P
  <1>11. Outside(cfg', sel', frames', controls', scopes', h, P)
    BY <1>6, <1>7, <1>8, <1>9 DEF Outside
  <1> QED
    BY <1>10, <1>11 DEF P

(* ... and when it was opened behind the allocation.                       *)
LEMMA InsideStays ==
    ASSUME TypeInv, NEW K, Closes(K), NEW h, NEW O, Shut(cfg, h, O), sel \notin O,
           NEW n \in Nat, n < Len(frames),
           \A k \in 1..n : /\ frames[k].kind \notin Breakable
                           /\ HeldBy(frames[k]) \subseteq O \cup {NoBlock},
           \A k \in (n + 1)..Len(frames) : HeldBy(frames[k]) \cap O = {},
           \A v \in Vars(cfg, h) : \A k \in DOMAIN scopes : v \in scopes[k] => n = 0 \/ k >= 3 + n
    PROVE  Inside(cfg', sel', frames', scopes', h, O)
  <1> DEFINE len  == Len(frames)
             held == {NoBlock} \cup HeldBy(Top) \cup MadeNow
  <1>1. /\ frames # <<>> /\ Top = frames[len] /\ len \in Nat \ {0} /\ DOMAIN frames = 1..len
    BY StackFacts, StackLemma DEF Closes, Top
  <1>2. mode = "body" /\ Joined(K)
    BY DEF Closes
  <1>3. h \in DOMAIN cfg /\ O \subseteq DOMAIN cfg
    BY DEF Shut
  <1>4. /\ O \cap MadeNow = {} /\ NoBlock \notin O /\ Vars(cfg', h) = Vars(cfg, h)
    BY <1>2, <1>3, JoinedGraph
  <1>5. HeldBy(Top) \cap O = {}
    <2>1. len \in (n + 1)..len
      BY <1>1
    <2> QED
      BY <1>1, <2>1
  <1>6. held \cap O = {}
    BY <1>4, <1>5
  <1>7. sel' \notin O
    BY <1>6 DEF Closes
  <1>8. FramesClose(frames, frames', held)
    BY DEF Closes
  <1> HIDE DEF held
  <1>9. /\ (Len(frames') = len - 1 \/ Len(frames') = len) /\ DOMAIN frames' = 1..Len(frames')
        /\ \A k \in 1..(len - 1) : frames'[k] = frames[k]
        /\ Len(frames') = len => HeldBy(frames'[len]) \subseteq held
    BY <1>8 DEF FramesClose
  <1> DEFINE m == Len(frames')
  <1>10. m = len - 1 \/ m = len
    BY <1>9
  <1> HIDE DEF len, m
  <1>11. n < len /\ len \in Nat
    BY <1>1 DEF len
  <1>12. n \in 0..m
    BY <1>11, <1>10
  <1>13. \A k \in 1..n : /\ frames'[k].kind \notin Breakable
                         /\ HeldBy(frames'[k]) \subseteq O \cup {NoBlock}
    <2>1. \A k \in 1..n : k \in 1..(len - 1)
      BY <1>11
    <2> QED
      BY <1>9, <2>1
  <1>14. \A k \in (n + 1)..m : HeldBy(frames'[k]) \cap O = {}
    <2> TAKE k \in (n + 1)..m
    <2>1. (k \in 1..(len - 1) /\ k \in (n + 1)..len) \/ (k = len /\ m = len)
      BY <1>11, <1>10
    <2>2. CASE k \in 1..(len - 1) /\ k \in (n + 1)..len
      BY <1>9, <2>2 DEF len
    <2>3. CASE k = len /\ m = len
      BY <1>6, <1>9, <2>3 DEF m
    <2> QED
      BY <2>1, <2>2, <2>3
  <1>15. \A v \in Vars(cfg', h) : \A k \in DOMAIN scopes' : v \in scopes'[k] => n = 0 \/ k >= 3 + n
    BY <1>4 DEF Closes, ScopesClose
  <1> QED
    BY <1>7, <1>12, <1>13, <1>14, <1>15 DEF Inside, m

(* A handler that closes a statement keeps every allocation in front of    *)
(* its uses.                                                               *)
LEMMA DomCloses ==
    ASSUME TypeInv, BlockInv, NoSwitches, ScopeInv, DomInv, NEW K, Closes(K)
    PROVE  DomInv'
  <1>1. /\ mode = "body" /\ mode' = "body" /\ frames # <<>> /\ Joined(K) /\ K \subseteq Known
        /\ sel' \in {NoBlock} \cup HeldBy(Top) \cup MadeNow
        /\ Blocks(controls') \subseteq Blocks(controls) /\ Firsts(controls') \subseteq Firsts(controls)
        /\ Here' \in Nat /\ Here < Here'
    BY DEF Closes
  <1>2. /\ Homes(cfg) /\ Tidy(cfg) /\ Blocks(controls) \subseteq DOMAIN cfg
        /\ InScope(cfg, scopes) /\ Older(cfg, Here)
        /\ \A h \in Allocs(cfg) \cup Firsts(controls) :
              Region(cfg, sel, frames, controls, scopes, h)
    BY <1>1 DEF DomInv
  <1>3. /\ cfg \in Graph /\ sel \in DOMAIN cfg \cup {NoBlock} /\ NoBlock \notin DOMAIN cfg
        /\ DOMAIN cfg' = DOMAIN cfg \cup MadeNow /\ DOMAIN cfg \cap MadeNow = {}
        /\ Allocs(cfg') \subseteq Allocs(cfg)
        /\ \A h \in DOMAIN cfg : Vars(cfg', h) = Vars(cfg, h)
        /\ \A h \in MadeNow : Vars(cfg', h) = {}
        /\ Homes(cfg) => Homes(cfg')
        /\ Tidy(cfg) /\ K \subseteq DOMAIN cfg => Tidy(cfg')
    BY <1>1, JoinedGraph
  <1>4. HeldIn(frames) \subseteq DOMAIN cfg
    <2> DEFINE s == [g |-> cfg, at |-> Current]
    <2>1. SoundNow(s, HeldIn(frames)) /\ s.g = cfg
      BY <1>1, StartLemma
    <2> HIDE DEF s
    <2> QED
      BY <1>3, <2>1, SoundFacts DEF SoundNow
  <1>5. K \subseteq DOMAIN cfg
    BY <1>1, <1>2, <1>4 DEF Known
  <1>6. ASSUME NEW h \in Allocs(cfg) \cup Firsts(controls)
        PROVE  Region(cfg', sel', frames', controls', scopes', h)
    <2>1. PICK O : /\ Shut(cfg, h, O) /\ Served(cfg, h, O)
                   /\ \/ Inside(cfg, sel, frames, scopes, h, O)
                      \/ Outside(cfg, sel, frames, controls, scopes, h, O)
      BY <1>2, <1>6 DEF Region
    <2> DEFINE P == O \cup MadeNow
    <2>2. CASE Inside(cfg, sel, frames, scopes, h, O)
      <3>1. sel \notin O
        BY <2>2 DEF Inside
      <3>2. PICK n \in 0..Len(frames) :
               /\ \A k \in 1..n : /\ frames[k].kind \notin Breakable
                                  /\ HeldBy(frames[k]) \subseteq O \cup {NoBlock}
               /\ \A k \in (n + 1)..Len(frames) : HeldBy(frames[k]) \cap O = {}
               /\ \A v \in Vars(cfg, h) : \A k \in DOMAIN scopes :
                     v \in scopes[k] => n = 0 \/ k >= 3 + n
        BY <2>2 DEF Inside
      <3>3. Len(frames) \in Nat \ {0} /\ DOMAIN frames = 1..Len(frames)
        BY <1>1, StackFacts, StackLemma
      <3>4. CASE n = Len(frames)
        <4>1. /\ \A k \in DOMAIN frames : /\ frames[k].kind \notin Breakable
                                          /\ HeldBy(frames[k]) \subseteq O \cup {NoBlock}
              /\ \A v \in Vars(cfg, h) : \A k \in DOMAIN scopes : v \in scopes[k] =>
                    k >= 3 + Len(frames)
          BY <3>2, <3>3, <3>4
        <4>2. /\ Outside(cfg', sel', frames', controls', scopes', h, P) /\ K \subseteq O
          BY <2>1, <3>1, <4>1, InsideLeaves
        <4>3. Shut(cfg', h, P) /\ Served(cfg', h, P)
          BY <1>1, <2>1, <4>2, JoinedGraph
        <4> HIDE DEF P
        <4> QED
          BY <4>2, <4>3 DEF Region
      <3>5. CASE n # Len(frames)
        <4>1. n \in Nat /\ n < Len(frames)
          <5> DEFINE len == Len(frames)
          <5>1. len \in Nat /\ n \in 0..len /\ n # len
            BY <3>2, <3>3, <3>5
          <5> HIDE DEF len
          <5>2. n \in Nat /\ n < len
            BY <5>1
          <5> QED
            BY <5>2 DEF len
        <4>2. Inside(cfg', sel', frames', scopes', h, O)
          BY <2>1, <3>1, <3>2, <4>1, InsideStays
        <4>3. Shut(cfg', h, O) /\ Served(cfg', h, O)
          BY <1>1, <2>1, <3>1, JoinedGraph
        <4> QED
          BY <4>2, <4>3 DEF Region
      <3> QED
        BY <3>4, <3>5
    <2>3. CASE Outside(cfg, sel, frames, controls, scopes, h, O)
      <3>1. /\ HeldIn(frames) \subseteq O /\ Blocks(controls) \subseteq O /\ h \notin Firsts(controls)
        BY <2>3 DEF Outside
      <3>2. K \subseteq O
        BY <1>1, <3>1 DEF Known
      <3>3. Shut(cfg', h, P) /\ Served(cfg', h, P)
        BY <1>1, <2>1, <3>2, JoinedGraph
      <3>4. HeldBy(Top) \subseteq O \cup {NoBlock}
        BY <1>1, <3>1, TopHeld
      <3>5. HeldIn(frames') \subseteq P
        <4> DEFINE held == {NoBlock} \cup HeldBy(Top) \cup MadeNow
        <4>1. FramesClose(frames, frames', held)
          BY DEF Closes
        <4> HIDE DEF held
        <4>2. HeldIn(frames') \subseteq HeldIn(frames) \cup (held \ {NoBlock})
          BY <1>1, <4>1, HeldCloses
        <4> QED
          BY <3>1, <3>4, <4>2 DEF held
      <3>6. \A v \in Vars(cfg', h) : \A k \in DOMAIN scopes' : v \notin scopes'[k]
        <4>1. Vars(cfg', h) = Vars(cfg, h)
          BY <1>3, <2>1 DEF Shut
        <4> QED
          BY <2>3, <4>1 DEF Outside, Closes, ScopesClose
      <3>7. sel' \in P \cup {NoBlock} /\ Blocks(controls') \subseteq P /\ h \notin Firsts(controls')
        BY <1>1, <3>1, <3>4
      <3> HIDE DEF P
      <3>8. Outside(cfg', sel', frames', controls', scopes', h, P)
        BY <3>5, <3>6, <3>7 DEF Outside
      <3> QED
        BY <3>3, <3>8 DEF Region
    <2> QED
      BY <2>1, <2>2, <2>3
  <1>7. InScope(cfg', scopes')
    BY <1>2, <1>3 DEF InScope, Closes, ScopesClose
  <1>8. Older(cfg', Here')
    <2> SUFFICES ASSUME NEW h \in DOMAIN cfg', NEW v \in Vars(cfg', h) PROVE v < Here'
      BY DEF Older
    <2>1. h \in DOMAIN cfg /\ v \in Vars(cfg, h)
      BY <1>3
    <2>2. v < Here /\ v \in Nat
      BY <1>2, <2>1 DEF Older, Vars
    <2>3. Here \in Nat
      BY ReadyFrom
    <2> HIDE DEF Here
    <2> QED
      BY <1>1, <2>2, <2>3
  <1>9. \A h \in Allocs(cfg') \cup Firsts(controls') :
          Region(cfg', sel', frames', controls', scopes', h)
    BY <1>1, <1>3, <1>6
  <1> QED
    BY <1>1, <1>2, <1>3, <1>5, <1>7, <1>8, <1>9 DEF DomInv

-----------------------------------------------------------------------------
(* What the handlers that go on do to the stacks. *)

(* The text gets longer.                                                   *)
LEMMA WalkLonger ==
    ASSUME TypeInv, NEW kind, NEW arg, Walk(kind, arg)
    PROVE  Here' \in Nat /\ Here < Here'
  <1> DEFINE x == [kind |-> kind, arg |-> arg]
  <1>1. ast \in Seq(Element) /\ ast' = Append(ast, x)
    BY DEF TypeInv, TypeOK, Walk
  <1> HIDE DEF x
  <1> DEFINE T == Element \cup {x}
  <1>2. ast \in Seq(T) /\ x \in T
    BY <1>1, SeqMonotonic
  <1> HIDE DEF T
  <1> DEFINE n == Len(ast)
             m == Len(ast')
  <1>3. n \in Nat /\ m = n + 1
    BY <1>1, <1>2, PushLemma
  <1>4. Here = n + 1 /\ Here' = m + 1
    BY DEF Here
  <1> HIDE DEF n, m, Here
  <1> QED
    BY <1>3, <1>4

(* The stacks that stay.                                                   *)
LEMMA StacksStay ==
    ASSUME TypeInv, NoSwitches, ScopeInv, mode = "body"
    PROVE  /\ \A new : FramesGrow(frames, frames, new)
           /\ \A W : ScopesGrow(scopes, scopes, W)
  <1>1. /\ DOMAIN scopes = 1..Len(scopes) /\ Len(scopes) \in Nat /\ Len(frames) \in Nat
        /\ DOMAIN frames = 1..Len(frames)
    BY ScopesDeep
  <1>2. DOMAIN scopes \subseteq Nat
    BY <1>1
  <1> QED
    BY <1>1, <1>2 DEF FramesGrow, ScopesGrow

(* A frame is pushed.                                                      *)
LEMMA FramesPush ==
    ASSUME TypeInv, NEW f \in Frame, NEW new, HeldBy(f) \subseteq {NoBlock} \cup new
    PROVE  FramesGrow(frames, Append(frames, f), new)
  <1> DEFINE fs == frames
             gs == Append(fs, f)
             n == Len(fs)
             m == Len(gs)
  <1>1. /\ n \in Nat /\ m = n + 1 /\ DOMAIN fs = 1..n /\ DOMAIN gs = 1..(n + 1)
        /\ gs[n + 1] = f /\ \A k \in 1..n : gs[k] = fs[k]
    BY StackFacts, PushLemma
  <1> HIDE DEF fs, gs, n, m
  <1>2. m \in Nat /\ n <= m /\ DOMAIN gs = 1..m
    BY <1>1
  <1>3. \A k \in DOMAIN gs : k \in DOMAIN fs \/ gs[k] = f
    BY <1>1
  <1> QED
    BY <1>1, <1>2, <1>3 DEF FramesGrow, fs, gs, n, m

(* Scopes are entered.                                                     *)
LEMMA ScopesPush ==
    ASSUME TypeInv, NEW W
    PROVE  /\ ScopesGrow(scopes, Append(scopes, {}), W)
           /\ \A D \in SUBSET W : ScopesGrow(scopes, scopes \o <<D, {}>>, W)
  <1> DEFINE sc == scopes
             n == Len(sc)
             none == {}
  <1>1. sc \in Seq(SUBSET Nat)
    BY ScopesLemma
  <1>2. ScopesGrow(sc, Append(sc, none), W)
    <2> DEFINE ss == Append(sc, none)
    <2>1. /\ n \in Nat /\ DOMAIN sc = 1..n /\ DOMAIN ss = 1..(n + 1)
          /\ ss[n + 1] = none /\ \A k \in 1..n : ss[k] = sc[k]
      BY <1>1, AppendAnything
    <2> HIDE DEF ss, sc, n
    <2>2. DOMAIN ss \subseteq Nat
      BY <2>1
    <2>3. \A k \in DOMAIN ss : (k \in DOMAIN sc /\ ss[k] = sc[k]) \/ ss[k] = none
      BY <2>1
    <2>4. \A k \in DOMAIN ss : \A v \in ss[k] : k \in DOMAIN sc /\ v \in sc[k]
      BY <2>3
    <2> QED
      BY <2>2, <2>4 DEF ScopesGrow, ss
  <1>3. ASSUME NEW D \in SUBSET W PROVE ScopesGrow(sc, sc \o <<D, none>>, W)
    <2> DEFINE t == <<D, none>>
               ss == sc \o t
               S == (SUBSET Nat) \cup {D, none}
    <2>1. t \in Seq(S) /\ Len(t) = 2 /\ t[1] = D /\ t[2] = none
      OBVIOUS
    <2>2. sc \in Seq(S)
      BY <1>1, SeqMonotonic
    <2> HIDE DEF t, S
    <2>3. /\ n \in Nat /\ DOMAIN sc = 1..n /\ Len(ss) = n + 2 /\ DOMAIN ss = 1..(n + 2)
          /\ \A k \in 1..(n + 2) : ss[k] = IF k <= n THEN sc[k] ELSE t[k - n]
      <3>1. ss \in Seq(S) /\ Len(ss) = Len(sc) + Len(t)
            /\ \A k \in 1..(Len(sc) + Len(t)) : ss[k] = IF k <= Len(sc) THEN sc[k] ELSE t[k - Len(sc)]
        BY <2>1, <2>2, ConcatProperties
      <3>2. n \in Nat /\ DOMAIN sc = 1..n /\ DOMAIN ss = 1..Len(ss)
        BY <2>2, <3>1, LenProperties
      <3> QED
        BY <2>1, <3>1, <3>2
    <2> HIDE DEF ss, sc, n
    <2>4. DOMAIN ss \subseteq Nat
      BY <2>3
    <2>5. \A k \in DOMAIN ss : \/ k \in DOMAIN sc /\ ss[k] = sc[k]
                               \/ k >= n /\ (ss[k] = D \/ ss[k] = none)
      <3> TAKE k \in DOMAIN ss
      <3>1. k \in Nat /\ k \in 1..(n + 2) /\ (k \in 1..n \/ k = n + 1 \/ k = n + 2)
        BY <2>3
      <3>2. CASE k \in 1..n
        BY <2>3, <3>1, <3>2
      <3>3. CASE k = n + 1
        <4>1. ss[k] = t[k - n] /\ k - n = 1 /\ k >= n
          BY <2>3, <3>1, <3>3
        <4> QED
          BY <2>1, <4>1
      <3>4. CASE k = n + 2
        <4>1. ss[k] = t[k - n] /\ k - n = 2 /\ k >= n
          BY <2>3, <3>1, <3>4
        <4> QED
          BY <2>1, <4>1
      <3> QED
        BY <3>1, <3>2, <3>3, <3>4
    <2>6. \A k \in DOMAIN ss : \A v \in ss[k] :
             (k \in DOMAIN sc /\ v \in sc[k]) \/ (k >= n /\ v \in W)
      BY <2>5
    <2> QED
      BY <2>4, <2>6 DEF ScopesGrow, ss, n, t
  <1> QED
    BY <1>2, <1>3

(* A variable is declared.                                                 *)
LEMMA ScopesDeclared ==
    ASSUME TypeInv, NoSwitches, ScopeInv, mode = "body", NEW i, Declared(i)
    PROVE  ScopesGrow(scopes, scopes', {i})
  <1> DEFINE n == Len(scopes)
             W == {i}
             top == scopes[n] \cup W
  <1>1. DOMAIN scopes = 1..n /\ n \in Nat
    BY ScopesDeep
  <1>2. scopes' = [scopes EXCEPT ![n] = top]
    BY DEF Declared
  <1> HIDE DEF top
  <1>3. DOMAIN scopes' = DOMAIN scopes /\ \A k \in DOMAIN scopes :
            scopes'[k] = IF k = n THEN top ELSE scopes[k]
    BY <1>2
  <1>4. DOMAIN scopes' \subseteq Nat
    BY <1>1, <1>3
  <1> HIDE DEF W
  <1>5. \A k \in DOMAIN scopes' : \A v \in scopes'[k] :
            (k \in DOMAIN scopes /\ v \in scopes[k]) \/ (k >= n /\ v \in W)
    BY <1>1, <1>3 DEF top
  <1> QED
    BY <1>4, <1>5 DEF ScopesGrow, W

(* Statements of one handler.                                              *)
LEMMA DomSimple ==
    ASSUME Structured, TypeInv, BlockInv, NoSwitches, ScopeInv, DomInv, mode' # "error",
           \/ \E e \in Exprs : ExprStmt(e) \/ Return(e)
           \/ \E v \in UNION {scopes[k] : k \in DOMAIN scopes} : UseVariable(v)
           \/ \E l \in Labels : InsertLabel(l)
           \/ ReturnNothing \/ Break \/ Continue
    PROVE  DomInv'
  <1>1. /\ mode = "body" /\ mode' = "body" /\ frames' = frames /\ controls' = controls
        /\ scopes' = scopes
    BY DEF ExprStmt, Return, UseVariable, InsertLabel, ReturnNothing, Break, Continue, Opens,
           SemanticError
  <1>2. Here' \in Nat /\ Here < Here'
    <2>1. \E kind, arg : Walk(kind, arg)
      BY DEF ExprStmt, Return, UseVariable, InsertLabel, ReturnNothing, Break, Continue,
             SemanticError
    <2> QED
      BY <2>1, WalkLonger
  <1> DEFINE Goes == \E K, V : /\ K \subseteq Known /\ Extends(Ready, cfg', K, V, {})
                              /\ sel' \in {NoBlock, Ready.at} \cup Made(Ready.g, cfg')
                              /\ \A v \in V : \E k \in DOMAIN scopes : v \in scopes[k]
  <1>3. Goes
    <2>1. {} \subseteq Known /\ \A v \in {} : \E k \in DOMAIN scopes : v \in scopes[k]
      OBVIOUS
    <2>2. ASSUME NEW e \in Exprs, ExprStmt(e) PROVE Goes
      <3>1. Extends(Ready, cfg', {}, {}, {}) /\ sel' \in {Ready.at} \cup Made(Ready.g, cfg')
        BY <2>2, ExprStmtGoes DEF Structured
      <3> QED
        BY <2>1, <3>1
    <2>3. CASE (\E e \in Exprs : Return(e)) \/ ReturnNothing
      <3>1. Extends(Ready, cfg', {}, {}, {}) /\ sel' = NoBlock
        BY <2>3, ReturnGoes DEF Structured
      <3> QED
        BY <2>1, <3>1
    <2>4. ASSUME NEW v \in UNION {scopes[k] : k \in DOMAIN scopes}, UseVariable(v) PROVE Goes
      <3> DEFINE V == {v}
      <3>1. v \in Nat
        BY ScopedVariable
      <3>2. Extends(Ready, cfg', {}, V, {}) /\ sel' = Ready.at
        BY <2>4, <3>1, UseVariableGoes
      <3>3. \A u \in V : \E k \in DOMAIN scopes : u \in scopes[k]
        BY <2>4 DEF UseVariable
      <3> HIDE DEF V
      <3> QED
        BY <2>1, <3>2, <3>3
    <2>5. ASSUME NEW l \in Labels, InsertLabel(l) PROVE Goes
      <3>1. Extends(Ready, cfg', {}, {}, {}) /\ sel' \in {Ready.at} \cup Made(Ready.g, cfg')
        BY <2>5, InsertLabelGoes
      <3> QED
        BY <2>1, <3>1
    <2>6. CASE Break
      <3>1. /\ controls # <<>> /\ Extends(Ready, cfg', {Last(controls).exit}, {}, {})
            /\ sel' = NoBlock
        BY <2>6, BreakGoes
      <3>2. {Last(controls).exit} \subseteq Known
        BY <3>1, BlocksPopped DEF Known
      <3> QED
        BY <2>1, <3>1, <3>2
    <2>7. CASE Continue
      <3>1. PICK k \in DOMAIN controls :
               Extends(Ready, cfg', {controls[k].skip}, {}, {}) /\ sel' = NoBlock
        BY <2>7, ContinueGoes
      <3>2. {controls[k].skip} \subseteq Known
        <4>1. controls[k].skip \in Blocks(controls)
          BY BlocksMember
        <4> QED
          BY <4>1 DEF Known
      <3> QED
        BY <2>1, <3>1, <3>2
    <2> HIDE DEF Goes
    <2> QED
      BY <2>2, <2>3, <2>4, <2>5, <2>6, <2>7
  <1>4. PICK K, V : /\ K \subseteq Known /\ Extends(Ready, cfg', K, V, {})
                    /\ sel' \in {NoBlock, Ready.at} \cup Made(Ready.g, cfg')
                    /\ \A v \in V : \E k \in DOMAIN scopes : v \in scopes[k]
    BY <1>3
  <1> DEFINE none == {}
             new == Made(Ready.g, cfg')
  <1>5. /\ Extends(Ready, cfg', K, V, none) /\ \A b, i : <<b, i>> \notin none
        /\ none \subseteq {Here} /\ \A v : v \notin none
    BY <1>4
  <1> HIDE DEF none
  <1>6. FramesGrow(frames, frames', new) /\ ScopesGrow(scopes, scopes', none)
    BY <1>1, StacksStay
  <1>7. Blocks(controls') \subseteq Blocks(controls) /\ Firsts(controls') \subseteq {AllocBlock(Ready.at)}
    BY <1>1, AllocBlockIs
  <1>8. GoesOn(K, V, none, none)
    BY <1>1, <1>2, <1>4, <1>5, <1>6, <1>7 DEF GoesOn
  <1> QED
    BY <1>8, DomGrows

(* A declaration allocates where AllocBlock says.                          *)
LEMMA DomDeclaration ==
    ASSUME Structured, TypeInv, BlockInv, NoSwitches, ScopeInv, DomInv,
           NEW e \in Exprs \cup {"none"}, InsertDeclaration(e)
    PROVE  DomInv'
  <1> DEFINE h == AllocBlock(Ready.at)
             A == {<<h, Here>>}
             V == {Here}
             none == {}
             new == Made(Ready.g, cfg')
  <1>1. /\ mode = "body" /\ mode' = "body" /\ frames' = frames /\ controls' = controls
        /\ Declared(Here)
    BY DEF InsertDeclaration, Opens
  <1>2. h \in DOMAIN Ready.g
    BY <1>1, ReadyRegion DEF Region, Shut
  <1>3. /\ Extends(Ready, cfg', none, V, A)
        /\ sel' \in {NoBlock, Ready.at} \cup Made(Ready.g, cfg')
        /\ \E j \in DOMAIN cfg'[h].body : cfg'[h].body[j] = [op |-> "alloca", ref |-> Here]
    BY <1>2, InsertDeclarationGoes DEF Structured
  <1>4. Here' \in Nat /\ Here < Here' /\ Here \in Nat
    BY WalkLonger, ReadyFrom DEF InsertDeclaration
  <1>5. ScopesGrow(scopes, scopes', V)
    BY <1>1, ScopesDeclared
  <1>6. \A v \in V : v \in Vars(cfg', h)
    BY <1>3, <1>4 DEF Vars
  <1>7. none \subseteq Known /\ (\A b, i : <<b, i>> \in A => b = h /\ i = Here) /\ V \subseteq {Here}
    OBVIOUS
  <1> HIDE DEF A, V, none
  <1>8. FramesGrow(frames, frames', new)
    BY <1>1, StacksStay
  <1>9. Blocks(controls') \subseteq Blocks(controls) /\ Firsts(controls') \subseteq {h}
    BY <1>1, AllocBlockIs
  <1>10. GoesOn(none, V, A, V)
    BY <1>1, <1>3, <1>4, <1>5, <1>6, <1>7, <1>8, <1>9 DEF GoesOn
  <1> QED
    BY <1>10, DomGrows

(* ... keep every allocation in front of its uses.                         *)
LEMMA DomIfCompound ==
    ASSUME Structured, TypeInv, BlockInv, NoSwitches, ScopeInv, DomInv,
           \/ \E e \in Exprs, hasElse \in BOOLEAN : InsertIfStatement(e, hasElse)
           \/ InsertCompoundStatement
    PROVE  DomInv'
  <1> DEFINE none == {}
             new == Made(Ready.g, cfg')
  <1>1. /\ mode = "body" /\ mode' = "body" /\ controls' = controls
        /\ scopes' = Append(scopes, {})
    BY DEF InsertIfStatement, InsertCompoundStatement, Nests, Opens
  <1>2. Here' \in Nat /\ Here < Here'
    <2>1. \E kind, arg : Walk(kind, arg)
      BY DEF InsertIfStatement, InsertCompoundStatement
    <2> QED
      BY <2>1, WalkLonger
  <1>3. /\ Extends(Ready, cfg', none, none, none) /\ sel' \in new
        /\ \E f \in Frame : /\ frames' = Append(frames, f)
                            /\ HeldBy(f) \subseteq {NoBlock} \cup new
    BY IfCompoundGoes DEF Structured
  <1>4. FramesGrow(frames, frames', new)
    BY <1>3, FramesPush
  <1>5. ScopesGrow(scopes, scopes', none)
    BY <1>1, ScopesPush
  <1>6. Blocks(controls') \subseteq Blocks(controls) /\ Firsts(controls') \subseteq {AllocBlock(Ready.at)}
    BY <1>1, AllocBlockIs
  <1>7. none \subseteq Known /\ none \subseteq {Here} /\ (\A b, i : <<b, i>> \notin none)
        /\ \A v : v \notin none
    OBVIOUS
  <1> HIDE DEF none
  <1>8. GoesOn(none, none, none, none)
    BY <1>1, <1>2, <1>3, <1>4, <1>5, <1>6, <1>7 DEF GoesOn
  <1> QED
    BY <1>8, DomGrows

(* The text of a loop.                                                     *)
LEMMA LoopLonger ==
    ASSUME TypeInv, NEW kind, NEW init, NEW e, NEW act, InsertLoopStatement(kind, init, e, act)
    PROVE  Here' \in Nat /\ Here < Here'
  <1>1. CASE kind # "for"
    <2>1. Walk(kind, e)
      BY <1>1 DEF InsertLoopStatement
    <2> QED
      BY <2>1, WalkLonger
  <1>2. CASE kind = "for"
    <2> DEFINE t == << [kind |-> "init", arg |-> init[2]], [kind |-> "for", arg |-> e],
                       [kind |-> "act", arg |-> act] >>
               T == Element \cup {t[1], t[2], t[3]}
    <2>1. ast' = ast \o t
      BY <1>2 DEF InsertLoopStatement
    <2>2. t \in Seq(T) /\ Len(t) = 3
      OBVIOUS
    <2>3. ast \in Seq(T)
      <3>1. ast \in Seq(Element)
        BY DEF TypeInv, TypeOK
      <3> QED
        BY <3>1, SeqMonotonic
    <2> HIDE DEF t, T
    <2> DEFINE n == Len(ast)
               m == Len(ast')
               u == ast \o t
    <2>4. Len(u) = n + Len(t) /\ n \in Nat
      BY <2>2, <2>3, ConcatProperties, LenProperties
    <2> HIDE DEF u
    <2>5. n \in Nat /\ m = n + 3
      <3>1. ast' = u
        BY <2>1 DEF u
      <3> QED
        BY <2>2, <2>4, <3>1
    <2>6. Here = n + 1 /\ Here' = m + 1
      BY DEF Here
    <2> HIDE DEF n, m, Here
    <2> QED
      BY <2>5, <2>6
  <1> QED
    BY <1>1, <1>2

(* A loop: the variable of a for loop is allocated before it, too.         *)
LEMMA DomLoop ==
    ASSUME Structured, TypeInv, BlockInv, NoSwitches, ScopeInv, DomInv,
           NEW kind \in {"while", "do", "for"}, NEW init \in ForInits, NEW e \in Exprs,
           NEW act \in LastActs \cup {"none"}, InsertLoopStatement(kind, init, e, act)
    PROVE  DomInv'
  <1> DEFINE h == AllocBlock(Ready.at)
             W == IF init[1] = "decl" THEN {Here} ELSE {}
             A == IF init[1] = "decl" THEN {<<h, Here>>} ELSE {}
             none == {}
             new == Made(Ready.g, cfg')
  <1>1. mode = "body" /\ mode' = "body"
    BY DEF InsertLoopStatement, Nests, Opens
  <1>2. h \in DOMAIN Ready.g /\ Position(Ready) /\ Here \in Nat
    BY <1>1, ReadyRegion, ReadyFrom DEF Region, Shut
  <1>3. /\ init[1] = "decl" => Here \in W /\ <<h, Here>> \in A
        /\ \A b, i : <<b, i>> \in A => b = h /\ i = Here
        /\ W \subseteq {Here} /\ \A v \in W : init[1] = "decl" /\ v = Here
        /\ none \subseteq Known
    OBVIOUS
  <1>4. /\ \/ scopes' = Append(scopes, {})
           \/ \E D \in SUBSET W : scopes' = scopes \o <<D, {}>>
    <2>1. CASE kind # "for"
      BY <2>1 DEF InsertLoopStatement
    <2>2. CASE kind = "for"
      <3> DEFINE D == IF init[1] = "decl" THEN {Here} ELSE {}
      <3>1. scopes' = scopes \o <<D, {}>>
        BY <2>2 DEF InsertLoopStatement
      <3>2. D \in SUBSET W
        OBVIOUS
      <3> HIDE DEF D, W
      <3> QED
        BY <3>1, <3>2
    <2> QED
      BY <2>1, <2>2
  <1> HIDE DEF A, W, none
  <1>5. PICK skip, after \in Made(Ready.g, cfg') :
              /\ From(Ready, [g |-> cfg', at |-> sel'], none, W, A)
              /\ sel' \in Made(Ready.g, cfg') /\ skip \in Ids /\ after \in Ids
              /\ controls' = Append(controls, LoopControl(skip, after, Ready.at))
              /\ frames' = Append(frames,
                    MkFrame(IF kind = "for" THEN "for" ELSE "loop", NoBlock, after, NoBlock))
              /\ init[1] = "decl" => \E j \in DOMAIN cfg'[h].body :
                                        cfg'[h].body[j] = [op |-> "alloca", ref |-> Here]
    <2>1. Straight
      BY DEF Structured
    <2>2. /\ h = AllocBlock(Ready.at) /\ h \in DOMAIN Ready.g
          /\ init[1] = "decl" => /\ Here \in W /\ <<h, Here>> \in A
                                 /\ \A b : <<b, Here>> \in A => b = h
      BY <1>2, <1>3
    <2> HIDE DEF h
    <2>3. LoopMade(kind, init, W, A, h)
      BY <1>2, <2>1, <2>2, FromLoop
    <2> QED
      BY <2>3 DEF LoopMade, none
  <1> DEFINE f == MkFrame(IF kind = "for" THEN "for" ELSE "loop", NoBlock, after, NoBlock)
             c == LoopControl(skip, after, Ready.at)
  <1>6. f \in Frame /\ f.kind # "switch" /\ f.blockFalse = NoBlock /\ f.blockAfter = after
    <2> DEFINE k == IF kind = "for" THEN "for" ELSE "loop"
    <2>1. k \in FrameKinds /\ NoBlock \in Ids /\ k # "switch"
      BY DEF FrameKinds, Ids, NoBlock
    <2> HIDE DEF k
    <2>2. LET ff == MkFrame(k, NoBlock, after, NoBlock)
          IN  ff \in Frame /\ ff.kind = k /\ ff.blockFalse = NoBlock /\ ff.blockAfter = after
      BY <1>5, <2>1, MkFrameLemma
    <2> QED
      BY <2>1, <2>2 DEF k
  <1>7. Ready.at \in Ids
    BY <1>2, PositionFacts
  <1>8. c \in Control /\ c.before = Ready.at /\ c.skip \in new /\ c.exit \in new
    BY <1>5, <1>7, LoopControlLemma
  <1>9. Extends(Ready, cfg', none, W, A)
    BY <1>5 DEF From
  <1>10. frames' = Append(frames, f) /\ controls' = Append(controls, c)
    BY <1>5
  <1> HIDE DEF f, c
  <1>11. HeldBy(f) \subseteq {NoBlock} \cup new
    <2>1. HeldBy(f) = {NoBlock, after}
      BY <1>6, HeldByLemma
    <2> QED
      BY <1>5, <2>1
  <1>12. FramesGrow(frames, frames', new)
    BY <1>6, <1>10, <1>11, FramesPush
  <1>13. Blocks(controls') \subseteq Blocks(controls) \cup new /\ Firsts(controls') \subseteq {h}
    BY <1>8, <1>10, ControlsGrow
  <1>14. ScopesGrow(scopes, scopes', W)
    BY <1>4, ScopesPush
  <1>15. \A v \in W : v \in Vars(cfg', h)
    BY <1>2, <1>3, <1>5 DEF Vars
  <1>16. Here' \in Nat /\ Here < Here'
    BY LoopLonger
  <1>17. GoesOn(none, W, A, W)
    BY <1>1, <1>3, <1>5, <1>9, <1>12, <1>13, <1>14, <1>15, <1>16 DEF GoesOn
  <1> QED
    BY <1>17, DomGrows

-----------------------------------------------------------------------------
(* What the handlers that close a statement do to the stacks. *)

(* A frame is popped, or replaced.                                         *)
LEMMA FramesPop ==
    ASSUME TypeInv, frames # <<>>, NEW held
    PROVE  /\ FramesClose(frames, Front(frames), held)
           /\ \A f \in Frame : HeldBy(f) \subseteq held =>
                 FramesClose(frames, Append(Front(frames), f), held)
  <1> DEFINE fs == frames
             gs == Front(fs)
             n  == Len(fs)
             m  == Len(gs)
  <1>1. /\ fs \in Seq(Frame) /\ n \in Nat \ {0} /\ gs \in Seq(Frame) /\ m = n - 1
        /\ \A k \in 1..(n - 1) : gs[k] = fs[k]
    BY StackFacts, StackLemma
  <1>2. DOMAIN gs = 1..m
    BY <1>1, LenProperties
  <1> HIDE DEF gs, fs
  <1>3. FramesClose(fs, gs, held)
    <2> HIDE DEF n, m
    <2>1. m # n
      BY <1>1
    <2> QED
      BY <1>1, <1>2, <2>1 DEF FramesClose, n, m
  <1>4. ASSUME NEW f \in Frame, HeldBy(f) \subseteq held PROVE FramesClose(fs, Append(gs, f), held)
    <2> DEFINE ds == Append(gs, f)
               d  == Len(ds)
    <2>1. d = m + 1 /\ DOMAIN ds = 1..(m + 1) /\ ds[m + 1] = f /\ \A k \in 1..m : ds[k] = gs[k]
      BY <1>1, PushLemma
    <2> HIDE DEF ds, d, n, m
    <2>2. d = n /\ m + 1 = n
      BY <1>1, <2>1
    <2>3. DOMAIN ds = 1..d /\ ds[n] = f /\ \A k \in 1..(n - 1) : ds[k] = fs[k]
      BY <1>1, <2>1, <2>2
    <2> QED
      BY <1>4, <2>2, <2>3 DEF FramesClose, ds, d, n
  <1> QED
    BY <1>3, <1>4 DEF fs, gs

(* Scopes are left.                                                        *)
LEMMA ScopesPop ==
    ASSUME TypeInv, NoSwitches, ScopeInv, mode = "body"
    PROVE  /\ ScopesClose(scopes, Front(scopes))
           /\ ScopesClose(scopes, Append(Front(scopes), {}))
           /\ ScopesClose(scopes, Front(Front(scopes)))
  <1> DEFINE sc   == scopes
             ss   == Front(sc)
             tt   == Front(ss)
             n    == Len(sc)
             none == {}
             uu   == Append(ss, none)
  <1>1. /\ sc \in Seq(SUBSET Nat) /\ ss \in Seq(SUBSET Nat) /\ n \in Nat /\ DOMAIN sc = 1..n
        /\ n >= 3
    <2>1. /\ DOMAIN sc = 1..n /\ n \in Nat /\ Len(frames) \in Nat /\ n >= 3 + Len(frames)
      BY ScopesDeep
    <2> HIDE DEF n, sc
    <2>2. n >= 3
      BY <2>1
    <2> QED
      BY <2>1, <2>2, ScopesLemma DEF sc
  <1>2. Len(ss) = n - 1 /\ DOMAIN ss = 1..(n - 1) /\ \A k \in 1..(n - 1) : ss[k] = sc[k]
    <2>1. sc # <<>>
      BY <1>1, EmptySeq
    <2>2. Len(ss) = n - 1 /\ \A k \in 1..(n - 1) : ss[k] = sc[k]
      BY <1>1, <2>1, StackLemma
    <2>3. DOMAIN ss = 1..Len(ss)
      BY <1>1, LenProperties
    <2> QED
      BY <2>2, <2>3
  <1>3. Len(tt) = n - 2 /\ DOMAIN tt = 1..(n - 2) /\ \A k \in 1..(n - 2) : tt[k] = ss[k]
    <2> HIDE DEF n, sc, ss
    <2>1. Len(ss) = n - 1 /\ n - 1 > 0
      BY <1>1, <1>2
    <2>2. ss # <<>>
      BY <1>1, <2>1, EmptySeq
    <2>3. /\ Len(tt) = Len(ss) - 1 /\ \A k \in 1..(Len(ss) - 1) : tt[k] = ss[k]
          /\ tt \in Seq(SUBSET Nat)
      BY <1>1, <2>2, StackLemma
    <2>4. DOMAIN tt = 1..Len(tt)
      BY <2>3, LenProperties
    <2>5. Len(ss) - 1 = n - 2
      BY <1>1, <2>1
    <2> QED
      BY <2>3, <2>4, <2>5
  <1>4. /\ DOMAIN uu = 1..n /\ uu[n] = none /\ \A k \in 1..(n - 1) : uu[k] = ss[k]
    <2> HIDE DEF n, sc, ss
    <2>1. /\ DOMAIN uu = 1..(Len(ss) + 1) /\ uu[Len(ss) + 1] = none
          /\ \A k \in 1..Len(ss) : uu[k] = ss[k]
      BY <1>1, AppendAnything
    <2>2. Len(ss) + 1 = n
      BY <1>1, <1>2
    <2> QED
      BY <1>2, <2>1, <2>2
  <1> HIDE DEF sc, ss, tt, uu, n
  <1>5. \A k \in 1..(n - 1) : k \in DOMAIN sc /\ k < n
    BY <1>1
  <1>6. ScopesClose(sc, ss)
    BY <1>2, <1>5 DEF ScopesClose, n
  <1>7. ScopesClose(sc, tt)
    <2>1. \A k \in 1..(n - 2) : k \in 1..(n - 1)
      BY <1>1
    <2> QED
      BY <1>2, <1>3, <1>5, <2>1 DEF ScopesClose, n
  <1>8. ScopesClose(sc, uu)
    <2>1. \A k \in 1..n : k \in 1..(n - 1) \/ k = n
      BY <1>1
    <2>2. \A v : v \notin none
      OBVIOUS
    <2> HIDE DEF none
    <2> QED
      BY <1>2, <1>4, <1>5, <2>1, <2>2 DEF ScopesClose, n
  <1> QED
    BY <1>6, <1>7, <1>8 DEF sc, ss, tt, uu

(* The end of a statement, or of the first body of an if.                  *)
LEMMA DomEnding ==
    ASSUME TypeInv, BlockInv, NoSwitches, ScopeInv, DomInv,
           EndThen \/ EndIf \/ EndCompound \/ EndLoop
    PROVE  DomInv'
  <1> DEFINE held == {NoBlock} \cup HeldBy(Top) \cup MadeNow
  <1>1. mode = "body" /\ mode' = "body" /\ frames # <<>>
    BY DEF EndThen, EndIf, EndCompound, EndLoop, InFrame
  <1>2. /\ Top \in Frame /\ \A b \in HeldBy(Top) : b # NoBlock => b \in Known
        /\ NoBlock \in Ids
    BY <1>1, TopHeld DEF Known, Ids, NoBlock
  <1>3. /\ Top.blockAfter \in HeldBy(Top) /\ Top.blockFalse \in HeldBy(Top)
        /\ Top.blockAfter \in Ids /\ Top.blockFalse \in Ids
    BY <1>2 DEF HeldBy, Frame
  <1>4. Here' \in Nat /\ Here < Here'
    <2>1. \E kind, arg : Walk(kind, arg)
      BY DEF EndThen, EndIf, EndCompound, EndLoop
    <2> QED
      BY <2>1, WalkLonger
  <1>5. ASSUME NEW after \in Ids, after = NoBlock \/ after \in HeldBy(Top),
               cfg' = JoinAfter(after).g
        PROVE  \E K : /\ Joined(K) /\ K \subseteq Known /\ K \subseteq HeldBy(Top)
                      /\ JoinAfter(after).at \in held /\ JoinAfter(after).at \in Ids
    <2> DEFINE j == JoinAfter(after)
               K == {after} \ {NoBlock}
    <2>1. /\ sel = NoBlock => j.g = cfg /\ j.at = after
          /\ sel # NoBlock => /\ Extends(Ready, j.g, K, {}, {}) /\ j.at \in Ids
                              /\ after # NoBlock => j.at = after
                              /\ after = NoBlock => j.at \in Made(Ready.g, j.g)
      BY JoinGoes
    <2>2. K \subseteq Known /\ K \subseteq HeldBy(Top) /\ cfg' = j.g
      BY <1>2, <1>5
    <2> HIDE DEF j, K
    <2>3. Joined(K)
      BY <2>1, <2>2 DEF Joined
    <2>4. j.at \in held /\ j.at \in Ids
      BY <1>5, <2>1, <2>2 DEF MadeNow
    <2> QED
      BY <2>2, <2>3, <2>4 DEF j
  <1> HIDE DEF held
  <1>6. Top.blockFalse \in held /\ Top.blockAfter \in held
    BY <1>3 DEF held
  <1>7. CASE EndIf \/ EndCompound
    <2>1. PICK after \in Ids : /\ after = NoBlock \/ after \in HeldBy(Top)
                               /\ cfg' = JoinAfter(after).g /\ sel' = JoinAfter(after).at
      <3>1. CASE EndIf
        BY <1>2, <1>3, <3>1 DEF EndIf, At
      <3>2. CASE EndCompound
        BY <1>2, <3>2 DEF EndCompound, At
      <3> QED
        BY <1>7, <3>1, <3>2
    <2>2. frames' = Front(frames) /\ controls' = controls /\ scopes' = Front(scopes)
      BY <1>7 DEF EndIf, EndCompound
    <2>3. PICK K : Joined(K) /\ K \subseteq Known /\ K \subseteq HeldBy(Top) /\ sel' \in held
      BY <1>5, <2>1
    <2>4. FramesClose(frames, frames', held) /\ ScopesClose(scopes, scopes')
      BY <1>1, <2>2, FramesPop, ScopesPop
    <2>5. Closes(K)
      BY <1>1, <1>4, <2>2, <2>3, <2>4 DEF Closes, held
    <2> QED
      BY <2>5, DomCloses
  <1>8. CASE EndThen
    <2> DEFINE after == Top.blockAfter
               join  == JoinAfter(after)
               f     == MkFrame("else", NoBlock, join.at, NoBlock)
    <2>1. /\ cfg' = Select(join, Top.blockFalse).g /\ sel' = Select(join, Top.blockFalse).at
          /\ frames' = Append(Front(frames), f) /\ controls' = controls
          /\ scopes' = Append(Front(scopes), {})
      BY <1>8 DEF EndThen, At
    <2>2. cfg' = join.g /\ sel' = Top.blockFalse
      BY <2>1, SelectLemma
    <2>3. after \in Ids /\ after \in HeldBy(Top)
      BY <1>3
    <2> HIDE DEF after
    <2>4. PICK K : /\ Joined(K) /\ K \subseteq Known /\ K \subseteq HeldBy(Top)
                   /\ join.at \in held /\ join.at \in Ids
      BY <1>5, <2>2, <2>3
    <2>5. "else" \in FrameKinds
      BY DEF FrameKinds
    <2> HIDE DEF join
    <2>6. f \in Frame /\ f.kind = "else" /\ f.blockFalse = NoBlock /\ f.blockAfter = join.at
      BY <1>2, <2>4, <2>5, MkFrameLemma
    <2> HIDE DEF f
    <2>7. HeldBy(f) \subseteq held
      <3>1. HeldBy(f) = {NoBlock, join.at}
        BY <2>6, HeldByLemma
      <3>2. NoBlock \in held
        BY DEF held
      <3> QED
        BY <2>4, <3>1, <3>2
    <2>8. FramesClose(frames, frames', held) /\ ScopesClose(scopes, scopes')
      BY <1>1, <2>1, <2>6, <2>7, FramesPop, ScopesPop
    <2>9. sel' \in held /\ controls' = controls
      BY <1>6, <2>1, <2>2
    <2>10. Closes(K)
      BY <1>1, <1>4, <2>4, <2>8, <2>9 DEF Closes, held
    <2> QED
      BY <2>10, DomCloses
  <1>9. CASE EndLoop
    <2>1. /\ controls # <<>> /\ sel' = Top.blockAfter
          /\ sel = NoBlock => cfg' = cfg
          /\ sel # NoBlock => Extends(Ready, cfg', {Last(controls).skip}, {}, {})
      BY <1>9, EndLoopGoes
    <2>2. /\ frames' = Front(frames) /\ controls' = Front(controls)
          /\ scopes' = Front(scopes) \/ scopes' = Front(Front(scopes))
          /\ Top.kind \in Breakable
      BY <1>9 DEF EndLoop, LeaveLoop, InFrame, Breakable
    <2>3. {Last(controls).skip} \subseteq Known
      BY <2>1, BlocksPopped DEF Known
    <2> DEFINE K == {Last(controls).skip}
    <2> HIDE DEF K
    <2>4. K \subseteq Known /\ (sel # NoBlock => Extends(Ready, cfg', K, {}, {}))
      BY <2>1, <2>3 DEF K
    <2>5. Joined(K)
      BY <2>1, <2>4 DEF Joined
    <2>6. FramesClose(frames, frames', held) /\ ScopesClose(scopes, scopes')
      BY <1>1, <2>2, FramesPop, ScopesPop
    <2>7. /\ Blocks(controls') \subseteq Blocks(controls)
          /\ Firsts(controls') \subseteq Firsts(controls)
      BY <2>1, <2>2, BlocksPopped
    <2>8. sel' \in held
      BY <1>6, <2>1
    <2>9. Closes(K)
      BY <1>1, <1>4, <2>2, <2>4, <2>5, <2>6, <2>7, <2>8 DEF Closes, held
    <2> QED
      BY <2>9, DomCloses
  <1> QED
    BY <1>7, <1>8, <1>9

-----------------------------------------------------------------------------
(* The start and the end of a function. *)

(* The parameters are allocated first, and stored behind the allocation.   *)
LEMMA CreateFunctionBody ==
    ASSUME NEW void \in BOOLEAN, NEW params \in BOOLEAN, CreateFunction(void, params)
    PROVE  LET alloc == [op |-> "alloca", ref |-> 0]
           IN  /\ \A k \in DOMAIN cfg'[1].body :
                    /\ params
                    /\ \/ cfg'[1].body[k] = alloc
                       \/ cfg'[1].body[k] = [op |-> "use", ref |-> 0] /\ AllocBefore(cfg', 1, k, 0)
               /\ params => \E k \in DOMAIN cfg'[1].body : cfg'[1].body[k] = alloc
  <1> DEFINE alloc == [op |-> "alloca", ref |-> 0]
             use   == [op |-> "use", ref |-> 0]
             none  == <<>>
             g0    == CreateBlock(none)
             g1    == AddNode(g0, 1, "alloca", 0)
             g2    == AddNode(g1, 1, "use", 0)
  <1>1. cfg' = IF params THEN g2 ELSE g0
    BY DEF CreateFunction, At, Emit
  <1>2. g0 \in Graph /\ 1 \in DOMAIN g0 /\ g0[1].body = <<>>
    <2>1. none \in Graph /\ Len(none) = 0
      BY DEF Graph
    <2> HIDE DEF none
    <2>2. g0 \in Graph /\ Len(g0) = Len(none) + 1 /\ g0[Len(none) + 1] = NewBlock
      BY <2>1, CreateBlockLemma
    <2> HIDE DEF g0
    <2>3. Len(g0) = 1 /\ g0[1] = NewBlock
      BY <2>1, <2>2
    <2>4. DOMAIN g0 = 1..1
      BY <2>2, <2>3, LenProperties DEF Graph
    <2> QED
      BY <2>2, <2>3, <2>4 DEF NewBlock
  <1> HIDE DEF none, g0
  <1>3. g1 \in Graph /\ Len(g1) = Len(g0)
    BY <1>2, AddNodeLemma
  <1>4. /\ \A k \in DOMAIN g1[1].body : k \in DOMAIN g0[1].body \/ g1[1].body[k] = alloc
        /\ \E k \in DOMAIN g1[1].body : g1[1].body[k] = alloc
    BY <1>2, AddNodeBodies DEF NodeOps
  <1> HIDE DEF g1
  <1>5. 1 \in DOMAIN g1
    BY <1>2, <1>3, LenProperties DEF Graph
  <1>6. /\ \A k \in DOMAIN g1[1].body : k \in DOMAIN g2[1].body /\ g2[1].body[k] = g1[1].body[k]
        /\ \A k \in DOMAIN g2[1].body :
              \/ k \in DOMAIN g1[1].body
              \/ g2[1].body[k] = use /\ \A j \in DOMAIN g1[1].body : j \in 1..(k - 1)
    BY <1>3, <1>5, AddNodeBodies DEF NodeOps
  <1> HIDE DEF g2, use
  <1>7. PICK j \in DOMAIN g1[1].body : g1[1].body[j] = alloc
    BY <1>4
  <1>8. j \in DOMAIN g2[1].body /\ g2[1].body[j] = alloc
    BY <1>6, <1>7
  <1>9. \A k \in DOMAIN g1[1].body : g1[1].body[k] = alloc
    BY <1>2, <1>4
  <1>10. \A k \in DOMAIN g2[1].body : \/ g2[1].body[k] = alloc
                                      \/ g2[1].body[k] = use /\ AllocBefore(g2, 1, k, 0)
    BY <1>6, <1>7, <1>8, <1>9 DEF AllocBefore
  <1>11. CASE params
    <2>1. cfg' = g2
      BY <1>1, <1>11
    <2> QED
      BY <1>8, <1>10, <1>11, <2>1 DEF use
  <1>12. CASE ~params
    BY <1>1, <1>2, <1>12
  <1> QED
    BY <1>11, <1>12

(* A function starts with one block, which dominates all that comes.       *)
LEMMA DomStart ==
    ASSUME TypeInv, ScopeInv, NEW void \in BOOLEAN, NEW params \in BOOLEAN,
           CreateFunction(void, params)
    PROVE  DomInv'
  <1> DEFINE D == IF params THEN {0} ELSE {}
  <1>1. /\ mode = "idle" /\ mode' = "body" /\ frames' = <<>> /\ controls' = <<>> /\ ast' = <<>>
        /\ scopes' = scopes \o <<D, {}>>
    BY DEF CreateFunction, TypeInv, ModeShowsFrame, Nested
  <1>2. cfg' \in Graph /\ DOMAIN cfg' = {1} /\ sel' = 1 /\ IsOpen(cfg'[1])
    BY CreateFunctionGraph
  <1>3. /\ \A k \in DOMAIN cfg'[1].body :
              /\ params
              /\ \/ cfg'[1].body[k] = [op |-> "alloca", ref |-> 0]
                 \/ cfg'[1].body[k] = [op |-> "use", ref |-> 0] /\ AllocBefore(cfg', 1, k, 0)
        /\ params => \E k \in DOMAIN cfg'[1].body : cfg'[1].body[k] = [op |-> "alloca", ref |-> 0]
    BY CreateFunctionBody
  <1>4. /\ params => 0 \in Vars(cfg', 1)
        /\ \A v \in Vars(cfg', 1) : v = 0
    BY <1>3 DEF Vars
  <1>5. \A k \in DOMAIN cfg'[1].body : cfg'[1].body[k].op = "use" =>
            /\ cfg'[1].body[k].ref = 0 /\ 0 \in Vars(cfg', 1) /\ AllocBefore(cfg', 1, k, 0)
    <2> TAKE k \in DOMAIN cfg'[1].body
    <2> HAVE cfg'[1].body[k].op = "use"
    <2>1. CASE cfg'[1].body[k] = [op |-> "alloca", ref |-> 0]
      <3>1. cfg'[1].body[k].op = "alloca"
        BY <2>1
      <3> QED
        BY <3>1
    <2>2. CASE cfg'[1].body[k] = [op |-> "use", ref |-> 0] /\ AllocBefore(cfg', 1, k, 0)
      <3>1. cfg'[1].body[k].ref = 0
        BY <2>2
      <3> QED
        BY <1>3, <1>4, <2>2, <3>1
    <2> QED
      BY <1>3, <2>1, <2>2
  <1>6. Homes(cfg')
    BY <1>2, <1>5 DEF Homes
  <1>7. Arcs(cfg', 1) = {}
    BY <1>2, OpenArcs
  <1>8. Tidy(cfg')
    BY <1>2, <1>7 DEF Tidy
  <1>9. Region(cfg', sel', frames', controls', scopes', 1)
    <2> DEFINE O == {}
    <2>1. Shut(cfg', 1, O) /\ Served(cfg', 1, O)
      BY <1>2, <1>5 DEF Shut, Served
    <2>2. Len(frames') = 0
      BY <1>1
    <2>3. /\ 0 \in 0..Len(frames') /\ \A k : k \notin 1..0 /\ k \notin (0 + 1)..Len(frames')
          /\ sel' \notin O
      BY <2>2
    <2>4. Inside(cfg', sel', frames', scopes', 1, O)
      BY <2>3 DEF Inside
    <2> HIDE DEF O
    <2> QED
      BY <2>1, <2>4 DEF Region
  <1>10. \A h \in Allocs(cfg') \cup Firsts(controls') : h = 1
    BY <1>1, <1>2 DEF Firsts, Allocs
  <1>11. Blocks(controls') = {}
    <2>1. \A b : b \notin Blocks(<<>>)
      BY BlocksMember
    <2> QED
      BY <1>1, <2>1
  <1>12. InScope(cfg', scopes')
    <2> SUFFICES ASSUME NEW k \in DOMAIN scopes', NEW v \in scopes'[k]
                 PROVE  \E h \in DOMAIN cfg' : v \in Vars(cfg', h)
      BY DEF InScope
    <2>1. ScopesGrow(scopes, scopes', D)
      <3>1. D \in SUBSET D
        OBVIOUS
      <3> HIDE DEF D
      <3> QED
        BY <1>1, <3>1, ScopesPush
    <2>2. (k \in DOMAIN scopes /\ v \in scopes[k]) \/ v \in D
      BY <2>1 DEF ScopesGrow
    <2>3. k \in DOMAIN scopes => scopes[k] = {}
      <3>1. Len(scopes) = 1 /\ scopes[1] = {}
        BY <1>1 DEF ScopeInv
      <3>2. DOMAIN scopes = 1..Len(scopes)
        BY ScopesLemma, LenProperties
      <3> QED
        BY <3>1, <3>2
    <2>4. params /\ v = 0
      BY <2>2, <2>3
    <2> QED
      BY <1>2, <1>4, <2>4
  <1>13. Older(cfg', Here')
    <2>1. Here' = 1
      BY <1>1 DEF Here
    <2> QED
      BY <1>2, <1>4, <2>1 DEF Older
  <1> QED
    BY <1>1, <1>6, <1>8, <1>9, <1>10, <1>11, <1>12, <1>13 DEF DomInv

(* The end of a body finishes the selected block without an arc.           *)
LEMMA DomEnd ==
    ASSUME TypeInv, DomInv, EndBody \/ FinishFunction, mode' # "error"
    PROVE  DomInv'
  <1>1. CASE FinishFunction
    BY <1>1 DEF FinishFunction, DomInv
  <1>2. CASE EndBody
    <2>1. /\ mode = "body" /\ mode' = "resolve"
          /\ cfg' = IF sel = NoBlock THEN cfg ELSE SetTerminator(cfg, sel, "RET")
      BY <1>2 DEF EndBody, SemanticError
    <2>2. /\ DOMAIN cfg' = DOMAIN cfg
          /\ \A b \in DOMAIN cfg : cfg'[b].body = cfg[b].body /\ cfg'[b].next = cfg[b].next
      <3>1. CASE sel = NoBlock
        BY <2>1, <3>1
      <3>2. CASE sel # NoBlock
        <4>1. cfg \in Graph /\ sel \in DOMAIN cfg /\ "RET" \in TermTypes
          BY <3>2 DEF TypeInv, TypeOK, TermTypes
        <4>2. /\ SetTerminator(cfg, sel, "RET") \in Graph
              /\ Len(SetTerminator(cfg, sel, "RET")) = Len(cfg)
          BY <4>1, SetTerminatorLemma
        <4>3. DOMAIN SetTerminator(cfg, sel, "RET") = DOMAIN cfg
          BY <4>1, <4>2, LenProperties DEF Graph
        <4> QED
          BY <2>1, <3>2, <4>1, <4>3, TerminatorKeepsBodies
      <3> QED
        BY <3>1, <3>2
    <2>3. Allocs(cfg') = Allocs(cfg) /\ \A h \in DOMAIN cfg : Vars(cfg', h) = Vars(cfg, h)
      BY <2>2 DEF Allocs, Vars
    <2>4. \A b : Arcs(cfg', b) = Arcs(cfg, b)
      BY <2>2 DEF Arcs
    <2>5. \A h, O : Shut(cfg, h, O) => Shut(cfg', h, O)
      BY <2>2, <2>4 DEF Shut
    <2>6. \A h \in DOMAIN cfg : \A O : Served(cfg, h, O) => Served(cfg', h, O)
      BY <2>2, <2>3 DEF Served, AllocBefore
    <2>7. Homes(cfg')
      BY <2>1, <2>2, <2>3 DEF DomInv, Homes
    <2>8. \A h \in Allocs(cfg) : h \in DOMAIN cfg /\ \E O : Shut(cfg, h, O) /\ Served(cfg, h, O)
      BY <2>1 DEF DomInv, Region, Allocs
    <2> QED
      BY <2>1, <2>3, <2>5, <2>6, <2>7, <2>8 DEF DomInv
  <1> QED
    BY <1>1, <1>2

(* Every step keeps every allocation in front of its uses.                 *)
LEMMA DomStep ==
    ASSUME Structured, TypeInv, BlockInv, NoSwitches, ScopeInv, DomInv, [Next]_vars
    PROVE  DomInv'
  <1> SUFFICES ASSUME mode' # "error" PROVE DomInv'
    BY DEF DomInv
  <1>1. CASE UNCHANGED vars
    BY <1>1 DEF vars, DomInv, Here
  <1>2. ASSUME NEW void \in BOOLEAN, NEW params \in BOOLEAN, CreateFunction(void, params)
        PROVE  DomInv'
    BY <1>2, DomStart
  <1>3. ASSUME NEW e \in Exprs, ExprStmt(e) \/ Return(e) \/ InsertSwitchStatement(e)
        PROVE  DomInv'
    BY <1>3, DomSimple, NotStructured
  <1>4. ASSUME NEW e \in Exprs \cup {"none"}, InsertDeclaration(e) PROVE DomInv'
    BY <1>4, DomDeclaration
  <1>5. ASSUME NEW v \in UNION {scopes[k] : k \in DOMAIN scopes}, UseVariable(v)
        PROVE  DomInv'
    BY <1>5, DomSimple
  <1>6. ASSUME NEW e \in Exprs, NEW hasElse \in BOOLEAN, InsertIfStatement(e, hasElse)
        PROVE  DomInv'
    BY <1>6, DomIfCompound
  <1>7. ASSUME NEW e \in Exprs, NEW kind \in LoopKinds,
               InsertLoopStatement(kind, <<"none", "">>, e, "none")
        PROVE  DomInv'
    <2> DEFINE init == <<"none", "">>
               act == "none"
    <2>1. init \in ForInits /\ kind \in {"while", "do", "for"} /\ act \in LastActs \cup {"none"}
          /\ InsertLoopStatement(kind, init, e, act)
      BY <1>7 DEF ForInits, LoopKinds
    <2> HIDE DEF init, act
    <2> QED
      BY <2>1, DomLoop
  <1>8. ASSUME NEW e \in Exprs, NEW init \in ForInits, NEW act \in LastActs \cup {"none"},
               InsertLoopStatement("for", init, e, act)
        PROVE  DomInv'
    <2> DEFINE kind == "for"
    <2>1. kind \in {"while", "do", "for"} /\ InsertLoopStatement(kind, init, e, act)
      BY <1>8
    <2> HIDE DEF kind
    <2> QED
      BY <2>1, DomLoop
  <1>9. ASSUME NEW l \in Labels, Goto(l) \/ InsertLabel(l) PROVE DomInv'
    BY <1>9, DomSimple, NotStructured
  <1>10. CASE ReturnNothing \/ Break \/ Continue
    BY <1>10, DomSimple
  <1>11. CASE InsertCompoundStatement
    BY <1>11, DomIfCompound
  <1>12. CASE EndThen \/ EndIf \/ EndCompound \/ EndLoop
    BY <1>12, DomEnding
  <1>13. CASE EndBody \/ FinishFunction
    BY <1>13, DomEnd
  <1> QED
    BY <1>1, <1>2, <1>3, <1>4, <1>5, <1>6, <1>7, <1>8, <1>9, <1>10, <1>11, <1>12, <1>13,
       NotStructured DEF Next

-----------------------------------------------------------------------------
(* What is outside the set of h is only reached through h.                 *)
LEMMA ShutDominates ==
    ASSUME TypeInv, NEW h, NEW O, Shut(cfg, h, O), NEW b \in DOMAIN cfg, b \notin O
    PROVE  Dominates(h, b)
  <1>1. Len(cfg) \in Nat
    BY Setting, LenProperties DEF Graph
  <1> DEFINE start == {1}
             avoid == {h}
  <1>2. start \ avoid \subseteq O /\ \A p \in O : Succs(p) \ avoid \subseteq O
    BY DEF Shut, Arcs, Succs
  <1>3. Dominates(h, b) <=> b \notin ReachAvoiding(start, avoid)
    BY DEF Dominates
  <1> HIDE DEF start, avoid
  <1>4. ReachAvoiding(start, avoid) \subseteq O
    BY <1>1, <1>2, ReachInside
  <1> QED
    BY <1>3, <1>4

(* The invariant says it of every use.                                     *)
LEMMA DomUses ==
    ASSUME TypeInv, DomInv
    PROVE  AllocDominatesUse
  <1> SUFFICES ASSUME Finished, NEW b \in DOMAIN cfg, NEW k \in DOMAIN cfg[b].body,
                      cfg[b].body[k].op = "use"
               PROVE  \E h \in DOMAIN cfg : \E j \in DOMAIN cfg[h].body :
                         /\ cfg[h].body[j] = [op |-> "alloca", ref |-> cfg[b].body[k].ref]
                         /\ IF h = b THEN j < k ELSE Dominates(h, b)
    BY DEF AllocDominatesUse
  <1> DEFINE v == cfg[b].body[k].ref
             n == [op |-> "alloca", ref |-> v]
  <1>1. PICK h \in DOMAIN cfg : v \in Vars(cfg, h)
    BY DEF DomInv, Homes, Finished
  <1>2. cfg \in Graph
    BY Setting
  <1>3. h \in Allocs(cfg)
    BY <1>1, <1>2, VarsOfAllocs
  <1>4. PICK O : Shut(cfg, h, O) /\ Served(cfg, h, O)
    BY <1>3 DEF DomInv, Finished
  <1>5. b \notin O /\ (b = h => AllocBefore(cfg, b, k, v))
    BY <1>1, <1>4 DEF Served
  <1>6. CASE b = h
    <2>1. PICK j \in 1..(k - 1) : cfg[b].body[j] = n
      BY <1>5, <1>6 DEF AllocBefore
    <2>2. DOMAIN cfg[b].body = 1..Len(cfg[b].body) /\ Len(cfg[b].body) \in Nat
      BY <1>2, BodyFacts
    <2>3. j \in DOMAIN cfg[b].body /\ j < k
      BY <2>2
    <2> QED
      BY <1>6, <2>1, <2>3
  <1>7. CASE b # h
    <2>1. Dominates(h, b)
      BY <1>4, <1>5, ShutDominates
    <2>2. \E j \in DOMAIN cfg[h].body : cfg[h].body[j] = n
      BY <1>1 DEF Vars
    <2> QED
      BY <1>7, <2>1, <2>2
  <1> QED
    BY <1>6, <1>7

(***************************************************************************)
(* In a program without goto and switch every use of a variable is         *)
(* dominated by its allocation, whatever the nesting and the order of the  *)
(* statements: the block before the outermost loop, to which               *)
(* insertDeclaration moves the allocation (generator.cpp:307-316), is      *)
(* passed on every path to the place where the name is in scope, since no  *)
(* handler keeps a way round it while the name can still be looked up.     *)
(***************************************************************************)
THEOREM AllocationsDominate == ASSUME Structured PROVE Spec => []AllocDominatesUse
  <1> DEFINE Inv == TypeInv /\ BlockInv /\ NoSwitches /\ ScopeInv /\ DomInv
  <1>1. Init => Inv
    <2> SUFFICES ASSUME Init PROVE Inv
      OBVIOUS
    <2>1. TypeInv /\ BlockInv /\ ScopeInv
      BY InitStep, BlockInit DEF Init, ScopeInv
    <2>2. mode = "idle" /\ cfg = <<>> /\ frames = <<>> /\ controls = <<>> /\ dangling = <<>>
      BY DEF Init
    <2>3. NoSwitches
      BY <2>2 DEF NoSwitches
    <2>4. DomInv
      BY <2>2 DEF DomInv, Allocs, Homes
    <2> QED
      BY <2>1, <2>3, <2>4
  <1>2. Inv /\ [Next]_vars => Inv'
    <2> SUFFICES ASSUME TypeInv, BlockInv, NoSwitches, ScopeInv, DomInv, [Next]_vars PROVE Inv'
      OBVIOUS
    <2>1. Straight
      BY DEF Structured
    <2>2. BlockInv'
      BY <2>1, BlockStep DEF Advances
    <2> QED
      BY <2>2, NextStep, NoSwitchesStep, ScopeStep, DomStep
  <1>3. Inv => AllocDominatesUse
    BY DomUses
  <1> QED
    BY <1>1, <1>2, <1>3, PTL DEF Spec
=============================================================================
