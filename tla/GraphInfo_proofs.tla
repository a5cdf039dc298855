-------------------------- MODULE GraphInfo_proofs --------------------------
(***************************************************************************)
(* The analyses of a control flow graph are right, for every graph: the    *)
(* semidominators and the dominators found by dominators (the algorithm of *)
(* Lengauer and Tarjan), the refusal of irreducible graphs, the natural    *)
(* loops and how they nest.                                                *)
(*                                                                         *)
(* The argument goes along the code.  WalkInv is the order of dfs: what is *)
(* met is on the path or finished, and the times of two blocks never       *)
(* cross, so that Anc, by the times, is the ancestry of its tree; ArcInv   *)
(* says which arcs have a class.  What leads from one block to another     *)
(* passes through common ancestors (StartAbove, FirstAncestor, WayAround), *)
(* hence what semidominators are and what they tell of dominators.         *)
(* Linked describes the forest of findMin whatever was compressed,         *)
(* SemiInv the state between two turns of the descending loop, PassedTo    *)
(* that of the ascending one.  Body is the loop of a head: the least set   *)
(* that leads to its ends.  IInv puts them together, phase by phase.       *)
(***************************************************************************)
EXTENDS GraphInfo, FiniteSetTheorems, WellFoundedInduction, TLAPS

-----------------------------------------------------------------------------
(* Induction and recursion. *)

(* A set of numbers that is not empty has a least one.                     *)
LEMMA LeastNatural ==
  ASSUME NEW T, T \subseteq Nat, T # {}
  PROVE  \E x \in T : \A y \in T : x <= y
  <1> DEFINE R == OpToRel(<, Nat)
  <1>1. IsWellFoundedOn(R, Nat)
    BY NatLessThanWellFounded
  <1>2. \A x, y \in Nat : y < x => <<y, x>> \in R
    BY DEF OpToRel
  <1> HIDE DEF R
  <1>3. PICK x \in T : \A y \in T : ~(<<y, x>> \in R)
    BY <1>1, WFMin
  <1>4. \A y \in T : y \in Nat /\ x \in Nat /\ ~(y < x)
    BY <1>2, <1>3
  <1>5. \A y \in T : x <= y
    BY <1>4
  <1> QED
    BY <1>5

(* A set with 0 and the successors of its members has all numbers.         *)
LEMMA NatSetInduction ==
  ASSUME NEW T, 0 \in T, \A n \in Nat : n \in T => n + 1 \in T
  PROVE  Nat \subseteq T
  <1> DEFINE Bad == Nat \ T
  <1>1. SUFFICES ASSUME Bad # {} PROVE FALSE
    OBVIOUS
  <1>2. PICK x \in Bad : \A y \in Bad : x <= y
    BY <1>1, LeastNatural
  <1>3. x \in Nat /\ x # 0 /\ x - 1 \in Nat /\ x - 1 < x
    OBVIOUS
  <1>4. x - 1 \in T
    BY <1>2, <1>3
  <1>5. (x - 1) + 1 \in T
    BY <1>3, <1>4
  <1> QED
    BY <1>3, <1>5

(* Among things with times one is earliest.                                *)
LEMMA Earliest ==
  ASSUME NEW M, NEW t, \A c \in M : t[c] \in Nat, NEW S, S \subseteq M, S # {}
  PROVE  \E x \in S : \A y \in S : t[x] <= t[y]
  <1> DEFINE T == {t[c] : c \in S}
  <1>1. T \subseteq Nat /\ T # {}
    OBVIOUS
  <1>2. PICK n \in T : \A m \in T : n <= m
    BY <1>1, LeastNatural
  <1>3. \A c \in S : t[c] \in T
    OBVIOUS
  <1>4. PICK x \in S : n = t[x]
    BY <1>2
  <1> QED
    BY <1>2, <1>3, <1>4

(* What holds of each thing if it holds of those before it holds of all.   *)
LEMMA TimeInduction ==
  ASSUME NEW M, NEW t, \A c \in M : t[c] \in Nat, NEW S,
         \A c \in M : (\A d \in M : t[d] < t[c] => d \in S) => c \in S
  PROVE  M \subseteq S
  <1> DEFINE Bad == M \ S
  <1>1. SUFFICES ASSUME Bad # {} PROVE FALSE
    OBVIOUS
  <1>2. PICK x \in Bad : \A y \in Bad : t[x] <= t[y]
    <2> Bad \subseteq M
      OBVIOUS
    <2> HIDE DEF Bad
    <2> QED
      BY <1>1, Earliest
  <1>3. \A d \in M : t[d] < t[x] => d \in S
    BY <1>2
  <1> QED
    BY <1>2, <1>3

(* ... and of all things up to n, if they are numbered.                    *)
LEMMA UpToInduction ==
  ASSUME NEW n \in Nat, NEW S, 0 \in S, \A k \in Nat : k < n /\ k \in S => k + 1 \in S
  PROVE  0 .. n \subseteq S
  <1> DEFINE T == {k \in Nat : k <= n => k \in S}
  <1>1. 0 \in T
    OBVIOUS
  <1>2. \A k \in Nat : k \in T => k + 1 \in T
    OBVIOUS
  <1>3. Nat \subseteq T
    <2> HIDE DEF T
    <2> QED
      BY <1>1, <1>2, NatSetInduction
  <1> QED
    BY <1>3

(* A function on M defined by recursion from p[c], which is before c.      *)
Follows(g, M, p, base, step) ==
  g = [c \in M |-> IF p[c] = None THEN base[c] ELSE step[c][g[p[c]]]]

(* There is a function defined by recursion from what comes before.        *)
LEMMA RecursionExists ==
  ASSUME NEW M, NEW t, \A c \in M : t[c] \in Nat, NEW N \in Nat, \A c \in M : t[c] < N,
         NEW p, \A c \in M : p[c] = None \/ (p[c] \in M /\ t[p[c]] < t[c]),
         NEW base, NEW step
  PROVE  \E g : Follows(g, M, p, base, step)
  <1> DEFINE First(n) == {c \in M : t[c] < n}
             T == {n \in Nat : \E g : Follows(g, First(n), p, base, step)}
  <1>1. 0 \in T
    <2> DEFINE g == [c \in {} |-> base[c]]
    <2>1. First(0) = {}
      OBVIOUS
    <2>2. Follows(g, {}, p, base, step)
      BY DEF Follows
    <2> QED
      BY <2>1, <2>2
  <1>2. ASSUME NEW n \in Nat, n \in T PROVE n + 1 \in T
    <2>1. PICK f : Follows(f, First(n), p, base, step)
      BY <1>2
    <2> DEFINE new(c) == IF p[c] = None THEN base[c] ELSE step[c][f[p[c]]]
               g == [c \in First(n + 1) |-> IF c \in First(n) THEN f[c] ELSE new(c)]
    <2>2. ASSUME NEW c \in First(n + 1)
          PROVE  g[c] = IF p[c] = None THEN base[c] ELSE step[c][g[p[c]]]
      <3>1. p[c] # None => p[c] \in First(n) /\ p[c] \in First(n + 1)
        OBVIOUS
      <3>2. p[c] # None => g[p[c]] = f[p[c]]
        BY <3>1
      <3>3. g[c] = new(c)
        <4>1. c \in First(n) => f[c] = new(c)
          BY <2>1 DEF Follows
        <4> HIDE DEF new, First
        <4> QED
          BY <4>1
      <3> HIDE DEF g, First
      <3> QED
        BY <3>2, <3>3
    <2>3. g = [c \in First(n + 1) |-> g[c]]
      OBVIOUS
    <2> HIDE DEF g, First
    <2>4. Follows(g, First(n + 1), p, base, step)
      BY <2>2, <2>3 DEF Follows
    <2> QED
      BY <2>4
  <1>3. Nat \subseteq T
    <2> HIDE DEF T
    <2> QED
      BY <1>1, <1>2, NatSetInduction
  <1>4. First(N) = M
    OBVIOUS
  <1> QED
    BY <1>3, <1>4

(* What the function may be at c, if it may be that wherever it is from.   *)
LEMMA RecursionWithin ==
  ASSUME NEW M, NEW t, \A c \in M : t[c] \in Nat,
         NEW p, \A c \in M : p[c] = None \/ (p[c] \in M /\ t[p[c]] < t[c]),
         NEW base, NEW step, NEW g, Follows(g, M, p, base, step),
         NEW V, \A c \in M : /\ p[c] = None => base[c] \in V[c]
                             /\ p[c] # None => \A x \in V[p[c]] : step[c][x] \in V[c]
  PROVE  \A c \in M : g[c] \in V[c]
  <1> DEFINE S == {c \in M : g[c] \in V[c]}
  <1>1. \A c \in M : g[c] = IF p[c] = None THEN base[c] ELSE step[c][g[p[c]]]
    BY DEF Follows
  <1>2. ASSUME NEW c \in M, \A d \in M : t[d] < t[c] => d \in S PROVE c \in S
    <2>1. CASE p[c] = None
      BY <1>1, <2>1
    <2>2. CASE p[c] # None
      <3>1. g[p[c]] \in V[p[c]]
        BY <1>2, <2>2
      <3> QED
        BY <1>1, <2>2, <3>1
    <2> QED
      BY <2>1, <2>2
  <1>3. M \subseteq S
    <2> HIDE DEF S
    <2> QED
      BY <1>2, TimeInduction
  <1> QED
    BY <1>3

-----------------------------------------------------------------------------
(***************************************************************************)
(* The traversal.  Every block met is on the path or finished, and the     *)
(* times of two blocks never cross.                                        *)
(***************************************************************************)
Finished == DOMAIN timeOut
OnPath(b) == \E i \in DOMAIN path : path[i].block = b
Calls == [block : Met, arcs : 0 .. 2]

(* What a call on the path is, and that counting an arc leaves a call.     *)
LEMMA CallFacts ==
  /\ \A e \in Calls : e.block \in Met /\ e.arcs \in 0 .. 2
  /\ \A b \in Met, k \in 0 .. 2 : [block |-> b, arcs |-> k] \in Calls
  /\ \A e \in Calls, k \in 0 .. 2 : [e EXCEPT !.arcs = k] \in Calls
  BY DEF Calls

WalkTypes ==
  /\ phase \in Phases
  /\ found # <<>> /\ found \in Seq(Blocks)
  /\ DOMAIN next \subseteq Blocks /\ Met \subseteq DOMAIN next
  /\ \A b \in DOMAIN next : next[b] \in Lists
  /\ path \in Seq(Calls)
  /\ phase = "dfs" <=> path # <<>>
  /\ timeIn \in [Met -> Nat] /\ \A b \in Met : 1 <= timeIn[b] /\ timeIn[b] <= Clock
  /\ Finished \subseteq Met
  /\ \A b \in Finished : timeOut[b] \in Nat /\ 1 <= timeOut[b] /\ timeOut[b] <= Clock
  /\ parent \in [Met -> Met \cup {None}]

(* The path goes down in the order of the calls; what is not on it is done. *)
PathInOrder ==
  /\ \A i, j \in DOMAIN path : i < j => timeIn[path[i].block] < timeIn[path[j].block]
  /\ \A i \in DOMAIN path : path[i].block \notin Finished
  /\ \A b \in Met : b \in Finished \/ OnPath(b)

FoundInOrder == \A i, j \in DOMAIN found : i < j => timeIn[found[i]] < timeIn[found[j]]

NoCrossing ==
  /\ \A x \in Finished : timeIn[x] < timeOut[x]
  /\ \A x, y \in Finished :
       timeIn[x] < timeIn[y] => timeOut[x] < timeIn[y] \/ timeOut[y] < timeOut[x]
  /\ \A x \in Finished, i \in DOMAIN path :
       timeIn[x] < timeIn[path[i].block] => timeOut[x] < timeIn[path[i].block]

(* A block is called from its parent, and what is called in between is     *)
(* finished before.                                                        *)
CalledFrom(b, p) ==
  /\ p \in Met /\ timeIn[p] < timeIn[b] /\ b \in ToSet(next[p])
  /\ p \in Finished => b \in Finished /\ timeOut[b] < timeOut[p]
  /\ \A a \in Met : timeIn[p] < timeIn[a] /\ timeIn[a] < timeIn[b]
                      => a \in Finished /\ timeOut[a] < timeIn[b]

Parents ==
  /\ parent[Entry] = None
  /\ \A b \in Met \ {Entry} : CalledFrom(b, parent[b])

ArcsFollowed ==
  /\ \A a \in Finished : \A b \in ToSet(next[a]) : b \in Met /\ timeIn[b] < timeOut[a]
  /\ \A i \in DOMAIN path :
       /\ path[i].arcs <= Len(next[path[i].block])
       /\ \A k \in 1 .. path[i].arcs : next[path[i].block][k] \in Met

WalkInv == WalkTypes /\ PathInOrder /\ FoundInOrder /\ NoCrossing /\ Parents /\ ArcsFollowed

-----------------------------------------------------------------------------
(* Small facts. *)

(* A list of successors is a short sequence of blocks.                     *)
LEMMA ListFacts ==
  ASSUME NEW l \in Lists
  PROVE  /\ l \in Seq(Blocks) /\ Len(l) \in 0 .. 2 /\ DOMAIN l = 1 .. Len(l)
         /\ ToSet(l) \subseteq Blocks
  <1>1. PICK n \in 0 .. 2 : l \in [1 .. n -> Blocks]
    BY DEF Lists
  <1>2. l \in Seq(Blocks) /\ Len(l) = n
    BY <1>1
  <1> QED
    BY <1>1, <1>2 DEF ToSet

(* The blocks are finitely many numbers, and None is not one of them.      *)
LEMMA BlocksFinite ==
  /\ IsFiniteSet(Blocks) /\ Blocks \subseteq Nat /\ None \notin Blocks
  /\ Cardinality(Blocks) \in Nat
  <1>1. IsFiniteSet(Blocks) /\ Blocks \subseteq Nat
    BY GraphInfoAssumption DEF Blocks
  <1> QED
    BY <1>1, FS_CardinalityType DEF None

(* globalTime never exceeds twice the number of blocks.                    *)
LEMMA ClockFacts ==
  ASSUME WalkTypes
  PROVE  /\ IsFiniteSet(Met) /\ IsFiniteSet(Finished)
         /\ Cardinality(Met) \in Nat /\ Cardinality(Finished) \in Nat
         /\ Clock = Cardinality(Met) + Cardinality(Finished) /\ Clock \in Nat
         /\ Met \subseteq Blocks /\ Entry \in Met
         /\ Cardinality(Met) <= Cardinality(Blocks)
         /\ Cardinality(Finished) <= Cardinality(Met)
         /\ Clock <= 2 * Cardinality(Blocks)
  <1>1. Met \subseteq Blocks /\ Entry \in Met
    BY DEF WalkTypes, Met, ToSet, Entry
  <1>2. /\ IsFiniteSet(Met) /\ Cardinality(Met) \in Nat /\ Cardinality(Met) <= Cardinality(Blocks)
        /\ Cardinality(Blocks) \in Nat
    BY <1>1, BlocksFinite, FS_Subset, FS_CardinalityType
  <1>3. /\ IsFiniteSet(Finished) /\ Cardinality(Finished) \in Nat
        /\ Cardinality(Finished) <= Cardinality(Met)
    BY <1>2, FS_Subset, FS_CardinalityType DEF WalkTypes
  <1>4. Clock = Cardinality(Met) + Cardinality(Finished)
    BY DEF Clock, WalkTypes, Finished
  <1> QED
    BY <1>1, <1>2, <1>3, <1>4

(* The path and the list of the blocks met, element by element.            *)
LEMMA PathFacts ==
  ASSUME WalkTypes
  PROVE  /\ DOMAIN path = 1 .. Len(path) /\ Len(path) \in Nat
         /\ path = <<>> <=> Len(path) = 0
         /\ \A i \in DOMAIN path : /\ path[i] \in Calls
                                   /\ path[i].block \in Met /\ path[i].arcs \in 0 .. 2
         /\ DOMAIN found = 1 .. Len(found) /\ Len(found) \in Nat /\ Len(found) >= 1
         /\ \A i \in DOMAIN found : found[i] \in Met
         /\ \A b \in Met : \E i \in DOMAIN found : found[i] = b
  <1>1. \A e \in Calls : e.block \in Met /\ e.arcs \in 0 .. 2
    BY CallFacts
  <1>2. path \in Seq(Calls) /\ found # <<>> /\ found \in Seq(Blocks)
    BY DEF WalkTypes
  <1>3. /\ \A i \in DOMAIN found : found[i] \in Met
        /\ \A b \in Met : \E i \in DOMAIN found : found[i] = b
    BY DEF Met, ToSet
  <1>4. DOMAIN found = 1 .. Len(found) /\ Len(found) \in Nat /\ Len(found) >= 1
    BY <1>2
  <1>5. /\ DOMAIN path = 1 .. Len(path) /\ Len(path) \in Nat
        /\ path = <<>> <=> Len(path) = 0
        /\ \A i \in DOMAIN path : path[i] \in Calls
    BY <1>2
  <1> QED
    BY <1>1, <1>3, <1>4, <1>5

-----------------------------------------------------------------------------
(* The steps of dfs, element by element. *)

(* What the recursive call of dfs changes.                                 *)
LEMMA TreeArcEffect ==
  ASSUME WalkTypes, NEW b \in Blocks, TreeArc(b), NEW c, c = Current.block,
         NEW n, n = Len(path)
  PROVE  /\ n \in Nat /\ n >= 1 /\ c \in Met /\ c = path[n].block /\ b \notin Met
         /\ path[n].arcs < Len(next[c]) /\ b = next[c][path[n].arcs + 1]
         /\ b \in ToSet(next[c])
         /\ Met' = Met \cup {b} /\ found' = Append(found, b) /\ Entry' = Entry /\ Blocks' = Blocks
         /\ Finished' = Finished /\ timeOut' = timeOut /\ phase' = phase /\ phase = "dfs"
         /\ timeIn' \in [Met' -> Nat] /\ timeIn'[b] = Clock + 1
         /\ \A x \in Met : timeIn'[x] = timeIn[x]
         /\ parent' \in [Met' -> Met' \cup {None}] /\ parent'[b] = c
         /\ \A x \in Met : parent'[x] = parent[x]
         /\ DOMAIN next' = DOMAIN next \cup {b} /\ \A x \in DOMAIN next : next'[x] = next[x]
         /\ next'[b] \in Lists
         /\ Len(path') = n + 1 /\ path' \in Seq(Calls')
         /\ path'[n + 1].block = b /\ path'[n + 1].arcs = 0
         /\ \A i \in 1 .. n : path'[i].block = path[i].block
         /\ \A i \in 1 .. (n - 1) : path'[i] = path[i]
         /\ path'[n].arcs = path[n].arcs + 1
         /\ Clock' = Clock + 1
  <1>1. /\ n \in Nat /\ n >= 1 /\ c \in Met /\ c = path[n].block /\ b \notin Met
        /\ path[n].arcs < Len(next[c]) /\ b = next[c][path[n].arcs + 1]
        /\ path[n] \in Calls
    BY PathFacts DEF TreeArc, ArcTo, Current, Last
  <1>2. next[c] \in Lists /\ Len(next[c]) \in 0 .. 2 /\ DOMAIN next[c] = 1 .. Len(next[c])
    BY <1>1, ListFacts DEF WalkTypes
  <1>3. b \in ToSet(next[c])
    BY <1>1, <1>2, CallFacts DEF ToSet
  <1>4. /\ found' = Append(found, b) /\ Len(found) \in Nat /\ Len(found) >= 1
        /\ found' \in Seq(Blocks) /\ Len(found') = Len(found) + 1
        /\ \A i \in 1 .. Len(found) : found'[i] = found[i]
        /\ found'[Len(found) + 1] = b
    BY PathFacts DEF TreeArc, WalkTypes
  <1>5. Entry' = Entry
    BY <1>4 DEF Entry
  <1>6. Met' = Met \cup {b}
    <2>1. DOMAIN found' = (1 .. Len(found)) \cup {Len(found) + 1}
      BY <1>4
    <2>2. DOMAIN found = 1 .. Len(found)
      BY PathFacts
    <2> QED
      BY <1>4, <2>1, <2>2 DEF Met, ToSet
  <1>7. Blocks' = Blocks
    BY <1>5 DEF Blocks
  <1>8. /\ timeIn' = Emplace(timeIn, b, Clock + 1) /\ parent' = Emplace(parent, b, c)
        /\ timeOut' = timeOut /\ phase' = phase /\ phase = "dfs"
        /\ path' = Append(ArcHandled, [block |-> b, arcs |-> 0])
    BY DEF TreeArc, ArcTo
  <1>9. DOMAIN timeIn = Met /\ DOMAIN parent = Met /\ \A x \in Met : timeIn[x] \in Nat
    BY DEF WalkTypes
  <1>10. /\ DOMAIN timeIn' = Met' /\ timeIn'[b] = Clock + 1
         /\ \A x \in Met : timeIn'[x] = timeIn[x]
         /\ DOMAIN parent' = Met' /\ parent'[b] = c
         /\ \A x \in Met : parent'[x] = parent[x]
    BY <1>1, <1>6, <1>8, <1>9 DEF Emplace, EmplaceAll
  <1>11. timeIn' \in [Met' -> Nat]
    <2>1. timeIn' = [x \in DOMAIN timeIn' |-> timeIn'[x]]
      BY <1>8 DEF Emplace, EmplaceAll
    <2>2. \A x \in Met' : timeIn'[x] \in Nat
      BY <1>6, <1>9, <1>10, ClockFacts
    <2> QED
      BY <1>10, <2>1, <2>2
  <1>12. parent' \in [Met' -> Met' \cup {None}]
    <2>1. parent' = [x \in DOMAIN parent' |-> parent'[x]]
      BY <1>8 DEF Emplace, EmplaceAll
    <2>2. \A x \in Met' : parent'[x] \in Met' \cup {None}
      BY <1>1, <1>6, <1>10 DEF WalkTypes
    <2> QED
      BY <1>10, <2>1, <2>2
  <1>13. \E succ \in Successors(b) : next' = Emplace(next, b, succ)
    BY DEF TreeArc, ReadBlock
  <1>14. /\ DOMAIN next' = DOMAIN next \cup {b} /\ \A x \in DOMAIN next : next'[x] = next[x]
         /\ next'[b] \in Lists
    <2>1. Successors(b) \subseteq Lists
      BY DEF Successors
    <2> QED
      BY <1>13, <2>1 DEF Emplace, EmplaceAll, WalkTypes
  <1>15. /\ ArcHandled \in Seq(Calls) /\ Len(ArcHandled) = n
         /\ \A i \in 1 .. n : ArcHandled[i].block = path[i].block
         /\ \A i \in 1 .. (n - 1) : ArcHandled[i] = path[i]
         /\ ArcHandled[n].arcs = path[n].arcs + 1
    <2>1. path[n].arcs + 1 \in 0 .. 2
      BY <1>1, <1>2, CallFacts
    <2>2. [path[n] EXCEPT !.arcs = path[n].arcs + 1] \in Calls
      BY <1>1, <2>1, CallFacts
    <2>3. path \in Seq(Calls) /\ DOMAIN path = 1 .. n
      BY PathFacts DEF WalkTypes
    <2> QED
      BY <1>1, <2>2, <2>3 DEF ArcHandled
  <1>16. /\ Len(path') = n + 1 /\ path' \in Seq(Calls')
         /\ path'[n + 1] = [block |-> b, arcs |-> 0]
         /\ \A i \in 1 .. n : path'[i] = ArcHandled[i]
    <2>1. [block |-> b, arcs |-> 0] \in Calls'
      BY <1>6 DEF Calls
    <2>2. ArcHandled \in Seq(Calls')
      <3>1. Calls \subseteq Calls'
        BY <1>6 DEF Calls
      <3> HIDE DEF ArcHandled
      <3> QED
        BY <1>15, <3>1
    <2> DEFINE call == [block |-> b, arcs |-> 0]
    <2>3. call \in Calls' /\ ArcHandled \in Seq(Calls') /\ path' = Append(ArcHandled, call)
      BY <1>8, <2>1, <2>2
    <2>4. n \in Nat /\ Len(ArcHandled) = n
      BY <1>1, <1>15
    <2> HIDE DEF call, ArcHandled
    <2>5. /\ Len(path') = n + 1 /\ path' \in Seq(Calls') /\ path'[n + 1] = call
          /\ \A i \in 1 .. n : path'[i] = ArcHandled[i]
      BY <2>3, <2>4
    <2> QED
      BY <2>5 DEF call
  <1>17. Clock' = Clock + 1
    <2>1. Cardinality(Met \cup {b}) = Cardinality(Met) + 1
      BY <1>1, ClockFacts, FS_AddElement
    <2>2. Clock' = Cardinality(DOMAIN timeIn') + Cardinality(DOMAIN timeOut')
      BY DEF Clock
    <2> QED
      BY <1>6, <1>8, <1>10, <2>1, <2>2, ClockFacts DEF Finished
  <1> HIDE DEF ArcHandled
  <1>18. /\ path'[n + 1].block = b /\ path'[n + 1].arcs = 0
         /\ \A i \in 1 .. n : path'[i].block = path[i].block
         /\ \A i \in 1 .. (n - 1) : path'[i] = path[i]
         /\ path'[n].arcs = path[n].arcs + 1
    <2>1. path'[n + 1].block = b /\ path'[n + 1].arcs = 0
      BY <1>16
    <2>2. n \in 1 .. n /\ n \in Nat /\ 1 .. (n - 1) \subseteq 1 .. n
      BY <1>1
    <2>3. \A i \in 1 .. n : path'[i] = ArcHandled[i]
      BY <1>16
    <2>4. /\ \A i \in 1 .. n : ArcHandled[i].block = path[i].block
          /\ \A i \in 1 .. (n - 1) : ArcHandled[i] = path[i]
          /\ ArcHandled[n].arcs = path[n].arcs + 1
      BY <1>15
    <2> QED
      BY <2>1, <2>2, <2>3, <2>4
  <1>19. Finished' = Finished
    BY <1>8 DEF Finished
  <1> QED
    BY <1>1, <1>3, <1>4, <1>5, <1>6, <1>7, <1>8, <1>10, <1>11, <1>12, <1>14, <1>16, <1>17, <1>18,
       <1>19

(* What an arc to a block already met changes.                             *)
LEMMA OtherArcEffect ==
  ASSUME WalkTypes, NEW b \in Blocks, OtherArc(b), NEW c, c = Current.block,
         NEW n, n = Len(path)
  PROVE  /\ n \in Nat /\ n >= 1 /\ c \in Met /\ c = path[n].block /\ b \in Met
         /\ path[n].arcs < Len(next[c]) /\ b = next[c][path[n].arcs + 1]
         /\ b \in ToSet(next[c])
         /\ UNCHANGED <<phase, next, found, timeIn, timeOut, parent, arcsClasses>>
         /\ unprocArcs' = unprocArcs \cup {<<c, b>>} /\ phase = "dfs"
         /\ Len(path') = n /\ path' \in Seq(Calls)
         /\ \A i \in 1 .. n : path'[i].block = path[i].block
         /\ \A i \in 1 .. (n - 1) : path'[i] = path[i]
         /\ path'[n].arcs = path[n].arcs + 1
  <1>1. /\ n \in Nat /\ n >= 1 /\ c \in Met /\ c = path[n].block /\ b \in Met
        /\ path[n].arcs < Len(next[c]) /\ b = next[c][path[n].arcs + 1]
        /\ path[n] \in Calls
    BY PathFacts DEF OtherArc, ArcTo, Current, Last
  <1>2. next[c] \in Lists /\ Len(next[c]) \in 0 .. 2 /\ DOMAIN next[c] = 1 .. Len(next[c])
    BY <1>1, ListFacts DEF WalkTypes
  <1>3. b \in ToSet(next[c])
    BY <1>1, <1>2, CallFacts DEF ToSet
  <1>4. path[n].arcs + 1 \in 0 .. 2
    BY <1>1, <1>2, CallFacts
  <1>5. [path[n] EXCEPT !.arcs = path[n].arcs + 1] \in Calls
    BY <1>1, <1>4, CallFacts
  <1>6. path \in Seq(Calls) /\ DOMAIN path = 1 .. n
    BY PathFacts DEF WalkTypes
  <1>7. path' = ArcHandled
    BY DEF OtherArc
  <1>8. /\ Len(path') = n /\ path' \in Seq(Calls)
        /\ \A i \in 1 .. n : path'[i].block = path[i].block
        /\ \A i \in 1 .. (n - 1) : path'[i] = path[i]
        /\ path'[n].arcs = path[n].arcs + 1
    BY <1>1, <1>5, <1>6, <1>7 DEF ArcHandled
  <1>9. /\ UNCHANGED <<phase, next, found, timeIn, timeOut, parent, arcsClasses>>
        /\ unprocArcs' = unprocArcs \cup {<<c, b>>} /\ phase = "dfs"
    BY DEF OtherArc, ArcTo
  <1> QED
    BY <1>1, <1>3, <1>8, <1>9

(* What the return of a call of dfs changes.                               *)
LEMMA LeaveEffect ==
  ASSUME WalkTypes, Leave, NEW c, c = Current.block, NEW n, n = Len(path), c \notin Finished
  PROVE  /\ n \in Nat /\ n >= 1 /\ c \in Met /\ c = path[n].block
         /\ path[n].arcs = Len(next[c])
         /\ UNCHANGED <<next, found, timeIn, parent, unprocArcs, arcsClasses>>
         /\ phase = "dfs" /\ phase' \in {"dfs", "classify"} /\ (phase' = "dfs" <=> n > 1)
         /\ Finished' = Finished \cup {c} /\ timeOut'[c] = Clock + 1
         /\ \A x \in Finished : timeOut'[x] = timeOut[x]
         /\ Clock' = Clock + 1
         /\ Len(path') = n - 1 /\ path' \in Seq(Calls)
         /\ \A i \in 1 .. (n - 1) : path'[i] = path[i]
  <1>1. phase = "dfs" /\ path # <<>>
    BY DEF Leave, WalkTypes
  <1>2. /\ n \in Nat /\ n >= 1 /\ c \in Met /\ c = path[n].block /\ path[n].arcs = Len(next[c])
    BY <1>1, PathFacts DEF Leave, Current, Last
  <1>3. /\ UNCHANGED <<next, found, timeIn, parent, unprocArcs, arcsClasses>>
        /\ path' = SubSeq(path, 1, n - 1)
        /\ phase' = IF n = 1 THEN "classify" ELSE "dfs"
        /\ timeOut' = Emplace(timeOut, c, Clock + 1)
    BY DEF Leave, Front
  <1>4. phase' \in {"dfs", "classify"} /\ (phase' = "dfs" <=> n > 1)
    BY <1>2, <1>3
  <1>5. /\ Finished' = Finished \cup {c} /\ timeOut'[c] = Clock + 1
        /\ \A x \in Finished : timeOut'[x] = timeOut[x]
    BY <1>3 DEF Finished, Emplace, EmplaceAll
  <1>6. Clock' = Clock + 1
    <2>1. Cardinality(Finished \cup {c}) = Cardinality(Finished) + 1
      BY ClockFacts, FS_AddElement
    <2>2. Clock' = Cardinality(DOMAIN timeIn) + Cardinality(Finished')
      BY <1>3 DEF Clock, Finished
    <2>3. DOMAIN timeIn = Met
      BY DEF WalkTypes
    <2> QED
      BY <1>5, <2>1, <2>2, <2>3, ClockFacts
  <1>7. /\ Len(path') = n - 1 /\ path' \in Seq(Calls)
        /\ \A i \in 1 .. (n - 1) : path'[i] = path[i]
    <2>1. path \in Seq(Calls)
      BY DEF WalkTypes
    <2>2. /\ Len(path') = n - 1 /\ path' \in Seq(Calls)
          /\ \A i \in 1 .. (n - 1) : path'[i] = path[i]
      BY <1>2, <1>3, <2>1
    <2> QED
      BY <2>2
  <1> QED
    BY <1>1, <1>2, <1>3, <1>4, <1>5, <1>6, <1>7

-----------------------------------------------------------------------------
(* dfs keeps the order. *)

(* The block on top of the path is the last one that is not finished.      *)
LEMMA TopIsLast ==
  ASSUME WalkTypes, PathInOrder, NEW n, n = Len(path), n >= 1
  PROVE  /\ path[n].block \in Met /\ path[n].block \notin Finished
         /\ \A i \in 1 .. (n - 1) : timeIn[path[i].block] < timeIn[path[n].block]
         /\ \A x \in Met : timeIn[x] > timeIn[path[n].block] => x \in Finished
  <1>1. /\ DOMAIN path = 1 .. n /\ n \in Nat
        /\ \A i \in DOMAIN path : path[i].block \in Met
    BY PathFacts
  <1>2. n \in DOMAIN path /\ \A i \in 1 .. (n - 1) : i \in DOMAIN path /\ i < n
    BY <1>1
  <1>3. \A i \in 1 .. (n - 1) : timeIn[path[i].block] < timeIn[path[n].block]
    BY <1>2 DEF PathInOrder
  <1>4. ASSUME NEW x \in Met, timeIn[x] > timeIn[path[n].block] PROVE x \in Finished
    <2>1. CASE OnPath(x)
      <3>1. PICK i \in DOMAIN path : path[i].block = x
        BY <2>1 DEF OnPath
      <3>2. i = n \/ i \in 1 .. (n - 1)
        BY <1>1
      <3>3. timeIn[x] \in Nat /\ timeIn[path[n].block] \in Nat
        BY <1>1, <1>2 DEF WalkTypes
      <3> QED
        BY <1>3, <1>4, <3>1, <3>2, <3>3
    <2> QED
      BY <2>1 DEF PathInOrder
  <1> QED
    BY <1>1, <1>2, <1>3, <1>4 DEF PathInOrder

(* A call keeps the order: the new block comes last and is on top.         *)
LEMMA TreeArcKeeps ==
  ASSUME WalkInv, NEW b \in Blocks, TreeArc(b)
  PROVE  WalkInv'
  <1> SUFFICES ASSUME NEW c, c = Current.block, NEW n, n = Len(path) PROVE WalkInv'
    OBVIOUS
  <1>1. /\ n \in Nat /\ n >= 1 /\ c \in Met /\ c = path[n].block /\ b \notin Met
        /\ path[n].arcs < Len(next[c]) /\ b = next[c][path[n].arcs + 1]
        /\ b \in ToSet(next[c])
    BY TreeArcEffect DEF WalkInv
  <1>2. /\ Met' = Met \cup {b} /\ found' = Append(found, b) /\ Entry' = Entry /\ Blocks' = Blocks
        /\ Finished' = Finished /\ timeOut' = timeOut /\ phase' = phase /\ phase = "dfs"
        /\ Clock' = Clock + 1
    BY TreeArcEffect DEF WalkInv
  <1>3. /\ timeIn' \in [Met' -> Nat] /\ timeIn'[b] = Clock + 1
        /\ \A x \in Met : timeIn'[x] = timeIn[x]
        /\ parent' \in [Met' -> Met' \cup {None}] /\ parent'[b] = c
        /\ \A x \in Met : parent'[x] = parent[x]
    BY TreeArcEffect DEF WalkInv
  <1>4. /\ DOMAIN next' = DOMAIN next \cup {b} /\ \A x \in DOMAIN next : next'[x] = next[x]
        /\ next'[b] \in Lists
    BY TreeArcEffect DEF WalkInv
  <1>5. /\ Len(path') = n + 1 /\ path' \in Seq(Calls')
        /\ path'[n + 1].block = b /\ path'[n + 1].arcs = 0
        /\ \A i \in 1 .. n : path'[i].block = path[i].block
        /\ \A i \in 1 .. (n - 1) : path'[i] = path[i]
        /\ path'[n].arcs = path[n].arcs + 1
    BY TreeArcEffect DEF WalkInv
  <1>6. /\ Clock \in Nat /\ \A x \in Met : timeIn[x] \in Nat /\ 1 <= timeIn[x] /\ timeIn[x] <= Clock
        /\ \A x \in Finished : x \in Met /\ timeOut[x] \in Nat /\ 1 <= timeOut[x] /\ timeOut[x] <= Clock
    BY ClockFacts DEF WalkInv, WalkTypes
  <1>7. /\ c \notin Finished
        /\ \A i \in 1 .. n : timeIn[path[i].block] <= timeIn[c]
        /\ \A x \in Met : timeIn[x] > timeIn[c] => x \in Finished
    <2>1. /\ \A i \in 1 .. (n - 1) : timeIn[path[i].block] < timeIn[c]
          /\ c \notin Finished /\ \A x \in Met : timeIn[x] > timeIn[c] => x \in Finished
      BY <1>1, TopIsLast DEF WalkInv
    <2>2. \A i \in 1 .. n : path[i].block \in Met /\ (i = n \/ i \in 1 .. (n - 1))
      BY <1>1, PathFacts DEF WalkInv
    <2>3. \A i \in 1 .. n : timeIn[path[i].block] <= timeIn[c]
      BY <1>1, <1>6, <2>1, <2>2
    <2> QED
      BY <2>1, <2>3
  <1>8. /\ DOMAIN path = 1 .. n /\ \A i \in 1 .. n : path[i].block \in Met
        /\ DOMAIN found = 1 .. Len(found) /\ Len(found) \in Nat /\ Len(found) >= 1
        /\ \A i \in DOMAIN found : found[i] \in Met
        /\ Met \subseteq DOMAIN next /\ Met \subseteq Blocks
    BY PathFacts, ClockFacts DEF WalkInv, WalkTypes
  <1>9. DOMAIN path' = (1 .. n) \cup {n + 1} /\ n + 1 \notin 1 .. n
    <2>2. DOMAIN path' = 1 .. (n + 1)
      BY <1>5
    <2> QED
      BY <1>1, <2>2
  <1>10. WalkTypes'
    <2>1. phase' \in Phases /\ (phase' = "dfs" <=> path' # <<>>)
      <3>1. path' # <<>>
        BY <1>1, <1>5
      <3> QED
        BY <1>2, <3>1 DEF WalkInv, WalkTypes
    <2>2. found' # <<>> /\ found' \in Seq(Blocks')
      BY <1>2 DEF WalkInv, WalkTypes
    <2>3. /\ DOMAIN next' \subseteq Blocks' /\ Met' \subseteq DOMAIN next'
          /\ \A x \in DOMAIN next' : next'[x] \in Lists'
      <3>1. Lists' = Lists
        BY <1>2 DEF Lists
      <3> QED
        BY <1>2, <1>4, <3>1 DEF WalkInv, WalkTypes
    <2>4. \A x \in Met' : 1 <= timeIn'[x] /\ timeIn'[x] <= Clock'
      BY <1>2, <1>3, <1>6
    <2>5. /\ Finished' \subseteq Met'
          /\ \A x \in Finished' : timeOut'[x] \in Nat /\ 1 <= timeOut'[x] /\ timeOut'[x] <= Clock'
      BY <1>2, <1>6
    <2> QED
      BY <1>3, <1>5, <2>1, <2>2, <2>3, <2>4, <2>5 DEF WalkTypes
  <1>11. PathInOrder'
    <2>1. ASSUME NEW i \in DOMAIN path', NEW j \in DOMAIN path', i < j
          PROVE  timeIn'[path'[i].block] < timeIn'[path'[j].block]
      <3>1. i \in 1 .. n
        BY <1>1, <1>9, <2>1
      <3>2. CASE j = n + 1
        <4>1. /\ path'[i].block = path[i].block /\ path[i].block \in Met
              /\ path'[j].block = b
          BY <1>5, <1>8, <3>1, <3>2
        <4>2. timeIn[path[i].block] <= Clock /\ timeIn'[path[i].block] = timeIn[path[i].block]
          BY <1>3, <1>6, <4>1
        <4> QED
          BY <1>3, <1>6, <4>1, <4>2
      <3>3. CASE j \in 1 .. n
        <4>1. timeIn[path[i].block] < timeIn[path[j].block]
          BY <1>8, <2>1, <3>1, <3>3 DEF WalkInv, PathInOrder
        <4> QED
          BY <1>3, <1>5, <1>8, <3>1, <3>3, <4>1
      <3> QED
        BY <1>9, <3>2, <3>3
    <2>2. \A i \in DOMAIN path' : path'[i].block \notin Finished'
      BY <1>1, <1>2, <1>5, <1>6, <1>8, <1>9 DEF WalkInv, PathInOrder
    <2>3. ASSUME NEW x \in Met' PROVE x \in Finished' \/ OnPath(x)'
      <3>1. CASE x = b
        BY <1>5, <1>9, <3>1 DEF OnPath
      <3>2. CASE x \in Met /\ OnPath(x)
        BY <1>5, <1>8, <1>9, <3>2 DEF OnPath
      <3> QED
        BY <1>2, <3>1, <3>2 DEF WalkInv, PathInOrder
    <2> QED
      BY <2>1, <2>2, <2>3 DEF PathInOrder
  <1>12. FoundInOrder'
    <2> DEFINE m == Len(found)
    <2>2. m \in Nat /\ DOMAIN found = 1 .. m
      BY <1>8
    <2>1. /\ DOMAIN found' = (1 .. m) \cup {m + 1} /\ found'[m + 1] = b
          /\ \A i \in 1 .. m : found'[i] = found[i] /\ found[i] \in Met
      <3>1. found \in Seq(Blocks) /\ found' = Append(found, b)
        BY <1>2 DEF WalkInv, WalkTypes
      <3>2. /\ Len(found') = m + 1 /\ DOMAIN found' = 1 .. (m + 1) /\ found'[m + 1] = b
            /\ \A i \in 1 .. m : found'[i] = found[i]
        BY <3>1
      <3>3. 1 .. (m + 1) = (1 .. m) \cup {m + 1}
        BY <2>2
      <3> QED
        BY <1>8, <3>2, <3>3
    <2> HIDE DEF m
    <2> SUFFICES ASSUME NEW i \in DOMAIN found', NEW j \in DOMAIN found', i < j
                 PROVE  timeIn'[found'[i]] < timeIn'[found'[j]]
      BY DEF FoundInOrder
    <2>3. i \in 1 .. m
      BY <2>1, <2>2
    <2>4. CASE j = m + 1
      BY <1>3, <1>6, <2>1, <2>3, <2>4
    <2>5. CASE j \in 1 .. m
      <3>1. timeIn[found[i]] < timeIn[found[j]]
        BY <2>2, <2>3, <2>5 DEF WalkInv, FoundInOrder
      <3> QED
        BY <1>3, <2>1, <2>3, <2>5, <3>1
    <2> QED
      BY <2>1, <2>4, <2>5
  <1>13. NoCrossing'
    <2>1. \A x \in Finished' : timeIn'[x] = timeIn[x] /\ timeOut'[x] = timeOut[x] /\ x \in Finished
      BY <1>2, <1>3, <1>6
    <2>2. ASSUME NEW x \in Finished', NEW i \in DOMAIN path', timeIn'[x] < timeIn'[path'[i].block]
          PROVE  timeOut'[x] < timeIn'[path'[i].block]
      <3>1. CASE i = n + 1
        BY <1>3, <1>5, <1>6, <2>1, <3>1
      <3>2. CASE i \in 1 .. n
        <4>1. path'[i].block = path[i].block /\ path[i].block \in Met
          BY <1>5, <1>8, <3>2
        <4>2. timeIn[x] < timeIn[path[i].block] => timeOut[x] < timeIn[path[i].block]
          BY <1>8, <2>1, <3>2 DEF WalkInv, NoCrossing
        <4> QED
          BY <1>3, <2>1, <2>2, <4>1, <4>2
      <3> QED
        BY <1>9, <3>1, <3>2
    <2>3. /\ \A x \in Finished' : timeIn'[x] < timeOut'[x]
          /\ \A x, y \in Finished' :
               timeIn'[x] < timeIn'[y] => timeOut'[x] < timeIn'[y] \/ timeOut'[y] < timeOut'[x]
      BY <2>1 DEF WalkInv, NoCrossing
    <2> QED
      BY <2>2, <2>3 DEF NoCrossing
  <1>14. Parents'
    <2>1. parent'[Entry'] = None
      BY <1>2, <1>3, ClockFacts DEF WalkInv, Parents
    <2>2. ASSUME NEW x \in Met \ {Entry}, NEW p, p = parent[x] PROVE CalledFrom(x, p)'
      <3>1. /\ p \in Met /\ timeIn[p] < timeIn[x] /\ x \in ToSet(next[p])
            /\ p \in Finished => x \in Finished /\ timeOut[x] < timeOut[p]
            /\ \A a \in Met : timeIn[p] < timeIn[a] /\ timeIn[a] < timeIn[x]
                                => a \in Finished /\ timeOut[a] < timeIn[x]
        BY <2>2 DEF WalkInv, Parents, CalledFrom
      <3>2. next'[p] = next[p] /\ p \in Met'
        BY <1>2, <1>4, <1>8, <3>1
      <3>3. /\ timeIn'[p] < timeIn'[x]
            /\ p \in Finished' => x \in Finished' /\ timeOut'[x] < timeOut'[p]
        BY <1>2, <1>3, <3>1
      <3>4. ASSUME NEW a \in Met', timeIn'[p] < timeIn'[a], timeIn'[a] < timeIn'[x]
            PROVE  a \in Finished' /\ timeOut'[a] < timeIn'[x]
        <4>1. a # b
          BY <1>3, <1>6, <3>4
        <4> QED
          BY <1>2, <1>3, <3>1, <3>4, <4>1
      <3>5. (x \in ToSet(next[p]))'
        BY <3>1, <3>2 DEF ToSet
      <3> QED
        BY <3>2, <3>3, <3>4, <3>5 DEF CalledFrom
    <2>3. CalledFrom(b, c)'
      <3>1. next'[c] = next[c] /\ c \in Met' /\ c \notin Finished'
        BY <1>1, <1>2, <1>4, <1>7, <1>8
      <3>2. (b \in ToSet(next[c]))'
        BY <1>1, <3>1 DEF ToSet
      <3>3. timeIn'[c] < timeIn'[b]
        BY <1>1, <1>3, <1>6
      <3>4. ASSUME NEW a \in Met', timeIn'[c] < timeIn'[a], timeIn'[a] < timeIn'[b]
            PROVE  a \in Finished' /\ timeOut'[a] < timeIn'[b]
        <4>1. a \in Met
          BY <1>2, <1>3, <1>6, <3>4
        <4>2. timeIn[a] > timeIn[c]
          BY <1>1, <1>3, <1>6, <3>4, <4>1
        <4>3. a \in Finished /\ timeOut[a] <= Clock
          BY <1>6, <1>7, <4>1, <4>2
        <4> QED
          BY <1>2, <1>3, <1>6, <4>3
      <3> QED
        BY <3>1, <3>2, <3>3, <3>4 DEF CalledFrom
    <2>5. ASSUME NEW x \in Met' \ {Entry'}, NEW p, p = parent'[x] PROVE CalledFrom(x, p)'
      <3>1. CASE x = b
        BY <1>3, <2>3, <2>5, <3>1
      <3>2. CASE x \in Met \ {Entry}
        BY <1>3, <2>2, <2>5, <3>2
      <3> QED
        BY <1>2, <2>5, <3>1, <3>2
    <2> QED
      BY <2>1, <2>5 DEF Parents, CalledFrom
  <1>15. ArcsFollowed'
    <2>1. ASSUME NEW a \in Finished', NEW x \in ToSet(next'[a])
          PROVE  x \in Met' /\ timeIn'[x] < timeOut'[a]
      <3>1. a \in Finished /\ a \in Met /\ next'[a] = next[a] /\ timeOut'[a] = timeOut[a]
        BY <1>2, <1>4, <1>6, <1>8
      <3>2. x \in Met /\ timeIn[x] < timeOut[a]
        BY <2>1, <3>1 DEF WalkInv, ArcsFollowed
      <3> QED
        BY <1>2, <1>3, <3>1, <3>2
    <2>2. ASSUME NEW i \in DOMAIN path'
          PROVE  /\ path'[i].arcs <= Len(next'[path'[i].block])
                 /\ \A k \in 1 .. path'[i].arcs : next'[path'[i].block][k] \in Met'
      <3>1. CASE i = n + 1
        <4>1. path'[i].arcs = 0 /\ path'[i].block = b /\ Len(next'[b]) \in 0 .. 2
          BY <1>4, <1>5, <3>1, ListFacts
        <4> QED
          BY <4>1
      <3>2. CASE i = n
        <4>1. path'[i].arcs = path[n].arcs + 1 /\ path'[i].block = c /\ next'[c] = next[c]
          BY <1>1, <1>4, <1>5, <1>8, <3>2
        <4>2. path[n].arcs \in 0 .. 2 /\ n \in DOMAIN path
          BY <1>1, <1>8, PathFacts DEF WalkInv
        <4>3. \A k \in 1 .. path[n].arcs : next[c][k] \in Met
          BY <1>1, <4>2 DEF WalkInv, ArcsFollowed
        <4>4. Len(next[c]) \in 0 .. 2
          BY <1>1, <1>8, ListFacts DEF WalkInv, WalkTypes
        <4>5. \A k \in 1 .. (path[n].arcs + 1) : k \in 1 .. path[n].arcs \/ k = path[n].arcs + 1
          BY <4>2
        <4>6. path[n].arcs + 1 <= Len(next[c])
          BY <1>1, <4>2, <4>4
        <4>7. \A k \in 1 .. (path[n].arcs + 1) : next[c][k] \in Met'
          BY <1>1, <1>2, <4>3, <4>5
        <4> QED
          BY <4>1, <4>6, <4>7
      <3>3. CASE i \in 1 .. (n - 1)
        <4>1. path'[i] = path[i] /\ i \in DOMAIN path /\ path[i].block \in Met
          BY <1>1, <1>5, <1>8, <3>3
        <4>2. next'[path[i].block] = next[path[i].block]
          BY <1>4, <1>8, <4>1
        <4>3. /\ path[i].arcs <= Len(next[path[i].block])
              /\ \A k \in 1 .. path[i].arcs : next[path[i].block][k] \in Met
          BY <4>1 DEF WalkInv, ArcsFollowed
        <4> QED
          BY <1>2, <4>1, <4>2, <4>3
      <3>4. i = n + 1 \/ i = n \/ i \in 1 .. (n - 1)
        BY <1>1, <1>9
      <3> QED
        BY <3>1, <3>2, <3>3, <3>4
    <2> QED
      BY <2>1, <2>2 DEF ArcsFollowed
  <1> QED
    BY <1>10, <1>11, <1>12, <1>13, <1>14, <1>15 DEF WalkInv

(* A step that leaves the blocks, times and parents and only goes on in    *)
(* the list of the block on top.                                           *)
LEMMA OtherArcKeeps ==
  ASSUME WalkInv, NEW b \in Blocks, OtherArc(b)
  PROVE  WalkInv'
  <1> SUFFICES ASSUME NEW c, c = Current.block, NEW n, n = Len(path) PROVE WalkInv'
    OBVIOUS
  <1>1. /\ n \in Nat /\ n >= 1 /\ c \in Met /\ c = path[n].block /\ b \in Met
        /\ path[n].arcs < Len(next[c]) /\ b = next[c][path[n].arcs + 1]
    BY OtherArcEffect DEF WalkInv
  <1>2. /\ UNCHANGED <<phase, next, found, timeIn, timeOut, parent>> /\ phase = "dfs"
        /\ Len(path') = n /\ path' \in Seq(Calls)
        /\ \A i \in 1 .. n : path'[i].block = path[i].block
        /\ \A i \in 1 .. (n - 1) : path'[i] = path[i]
        /\ path'[n].arcs = path[n].arcs + 1
    BY OtherArcEffect DEF WalkInv
  <1>3. /\ Met' = Met /\ Entry' = Entry /\ Blocks' = Blocks /\ Finished' = Finished
        /\ Clock' = Clock /\ Lists' = Lists /\ Calls' = Calls
    BY <1>2 DEF Met, Entry, Blocks, Finished, Clock, Lists, Calls
  <1>4. DOMAIN path' = 1 .. n /\ DOMAIN path = 1 .. n
    BY <1>1, <1>2, PathFacts DEF WalkInv
  <1>5. WalkTypes'
    <2>1. path' # <<>>
      BY <1>1, <1>2
    <2> QED
      BY <1>2, <1>3, <2>1 DEF WalkInv, WalkTypes
  <1>6. PathInOrder'
    <2>1. \A x : OnPath(x)' <=> OnPath(x)
      BY <1>2, <1>4 DEF OnPath
    <2> QED
      BY <1>2, <1>3, <1>4, <2>1 DEF WalkInv, PathInOrder
  <1>7. FoundInOrder'
    BY <1>2 DEF WalkInv, FoundInOrder
  <1>8. NoCrossing'
    BY <1>2, <1>3, <1>4 DEF WalkInv, NoCrossing
  <1>9. Parents'
    BY <1>2, <1>3 DEF WalkInv, Parents, CalledFrom
  <1>10. ArcsFollowed'
    <2>1. \A a \in Finished' : \A x \in ToSet(next'[a]) : x \in Met' /\ timeIn'[x] < timeOut'[a]
      BY <1>2, <1>3 DEF WalkInv, ArcsFollowed
    <2>2. ASSUME NEW i \in DOMAIN path'
          PROVE  /\ path'[i].arcs <= Len(next'[path'[i].block])
                 /\ \A k \in 1 .. path'[i].arcs : next'[path'[i].block][k] \in Met'
      <3>1. CASE i = n
        <4>1. path'[i].arcs = path[n].arcs + 1 /\ path'[i].block = c
          BY <1>1, <1>2, <1>4, <3>1
        <4>2. path[n].arcs \in 0 .. 2 /\ n \in DOMAIN path
          BY <1>1, <1>4, PathFacts DEF WalkInv
        <4>3. \A k \in 1 .. path[n].arcs : next[c][k] \in Met
          BY <1>1, <4>2 DEF WalkInv, ArcsFollowed
        <4>4. Len(next[c]) \in 0 .. 2
          BY <1>1, ListFacts DEF WalkInv, WalkTypes
        <4>5. \A k \in 1 .. (path[n].arcs + 1) : k \in 1 .. path[n].arcs \/ k = path[n].arcs + 1
          BY <4>2
        <4>6. path[n].arcs + 1 <= Len(next[c])
          BY <1>1, <4>2, <4>4
        <4>7. \A k \in 1 .. (path[n].arcs + 1) : next[c][k] \in Met
          BY <1>1, <4>3, <4>5
        <4> QED
          BY <1>2, <1>3, <4>1, <4>6, <4>7
      <3>2. CASE i \in 1 .. (n - 1)
        <4>1. path'[i] = path[i] /\ i \in DOMAIN path
          BY <1>1, <1>2, <1>4, <3>2
        <4>3. /\ path[i].arcs <= Len(next[path[i].block])
              /\ \A k \in 1 .. path[i].arcs : next[path[i].block][k] \in Met
          BY <4>1 DEF WalkInv, ArcsFollowed
        <4> QED
          BY <1>2, <1>3, <4>1, <4>3
      <3> QED
        BY <1>1, <1>4, <3>1, <3>2
    <2> QED
      BY <2>1, <2>2 DEF ArcsFollowed
  <1> QED
    BY <1>5, <1>6, <1>7, <1>8, <1>9, <1>10 DEF WalkInv

(* The block on top is finished, and everything called after it has been.  *)
LEMMA LeaveKeeps ==
  ASSUME WalkInv, Leave
  PROVE  WalkInv'
  <1> SUFFICES ASSUME NEW c, c = Current.block, NEW n, n = Len(path) PROVE WalkInv'
    OBVIOUS
  <1>0. n >= 1 /\ c = path[n].block /\ c \notin Finished
    <2>1. phase = "dfs" /\ path # <<>>
      BY DEF Leave, WalkInv, WalkTypes
    <2>2. n >= 1 /\ n \in Nat /\ c = path[n].block
      BY <2>1, PathFacts DEF WalkInv, Current, Last
    <2> QED
      BY <2>2, TopIsLast DEF WalkInv
  <1>1. /\ n \in Nat /\ n >= 1 /\ c \in Met /\ c = path[n].block /\ c \notin Finished
        /\ path[n].arcs = Len(next[c])
        /\ UNCHANGED <<next, found, timeIn, parent>>
    BY <1>0, LeaveEffect DEF WalkInv
  <1>2. /\ phase = "dfs" /\ phase' \in {"dfs", "classify"} /\ (phase' = "dfs" <=> n > 1)
        /\ Finished' = Finished \cup {c} /\ timeOut'[c] = Clock + 1
        /\ \A x \in Finished : timeOut'[x] = timeOut[x]
        /\ Clock' = Clock + 1
    BY <1>0, LeaveEffect DEF WalkInv
  <1>3. /\ Len(path') = n - 1 /\ path' \in Seq(Calls)
        /\ \A i \in 1 .. (n - 1) : path'[i] = path[i]
    BY <1>0, LeaveEffect DEF WalkInv
  <1>4. /\ Met' = Met /\ Entry' = Entry /\ Blocks' = Blocks /\ Lists' = Lists /\ Calls' = Calls
    BY <1>1 DEF Met, Entry, Blocks, Lists, Calls
  <1>5. /\ Clock \in Nat /\ \A x \in Met : timeIn[x] \in Nat /\ 1 <= timeIn[x] /\ timeIn[x] <= Clock
        /\ \A x \in Finished : x \in Met /\ timeOut[x] \in Nat /\ 1 <= timeOut[x] /\ timeOut[x] <= Clock
    BY ClockFacts DEF WalkInv, WalkTypes
  <1>6. /\ \A i \in 1 .. (n - 1) : timeIn[path[i].block] < timeIn[c]
        /\ \A x \in Met : timeIn[x] > timeIn[c] => x \in Finished
    BY <1>1, TopIsLast DEF WalkInv
  <1>7. /\ DOMAIN path = 1 .. n /\ \A i \in 1 .. n : path[i].block \in Met
        /\ DOMAIN path' = 1 .. (n - 1)
        /\ \A i \in 1 .. n : i = n \/ i \in 1 .. (n - 1)
    <2>1. DOMAIN path' = 1 .. (n - 1)
      BY <1>1, <1>3
    <2> QED
      BY <1>1, <2>1, PathFacts DEF WalkInv
  <1>8. WalkTypes'
    <2>1. phase' \in Phases /\ (phase' = "dfs" <=> path' # <<>>)
      <3>1. path' # <<>> <=> n > 1
        BY <1>1, <1>3
      <3> QED
        BY <1>2, <3>1 DEF Phases
    <2>2. /\ Finished' \subseteq Met'
          /\ \A x \in Finished' : timeOut'[x] \in Nat /\ 1 <= timeOut'[x] /\ timeOut'[x] <= Clock'
      BY <1>1, <1>2, <1>4, <1>5
    <2>3. \A x \in Met' : 1 <= timeIn'[x] /\ timeIn'[x] <= Clock'
      BY <1>1, <1>2, <1>4, <1>5
    <2> QED
      BY <1>1, <1>3, <1>4, <2>1, <2>2, <2>3 DEF WalkInv, WalkTypes
  <1>9. PathInOrder'
    <2>1. ASSUME NEW i \in DOMAIN path', NEW j \in DOMAIN path', i < j
          PROVE  timeIn'[path'[i].block] < timeIn'[path'[j].block]
      <3>1. /\ path'[i] = path[i] /\ i \in DOMAIN path
            /\ path'[j] = path[j] /\ j \in DOMAIN path
        BY <1>1, <1>3, <1>7
      <3> QED
        BY <1>1, <2>1, <3>1 DEF WalkInv, PathInOrder
    <2>2. ASSUME NEW i \in DOMAIN path' PROVE path'[i].block \notin Finished'
      <3>1. path'[i] = path[i] /\ i \in DOMAIN path /\ timeIn[path[i].block] < timeIn[c]
        BY <1>1, <1>3, <1>6, <1>7
      <3>2. path[i].block \notin Finished /\ path[i].block # c
        BY <1>1, <1>5, <3>1 DEF WalkInv, PathInOrder
      <3> QED
        BY <1>2, <3>1, <3>2
    <2>3. ASSUME NEW x \in Met', x \notin Finished' PROVE OnPath(x)'
      <3>1. x \in Met /\ x \notin Finished /\ x # c
        BY <1>2, <1>4, <2>3
      <3>2. PICK i \in DOMAIN path : path[i].block = x
        BY <3>1 DEF WalkInv, PathInOrder, OnPath
      <3>3. i \in 1 .. (n - 1)
        BY <1>1, <1>7, <3>1, <3>2
      <3> QED
        BY <1>3, <1>7, <3>2, <3>3 DEF OnPath
    <2> QED
      BY <2>1, <2>2, <2>3 DEF PathInOrder
  <1>10. FoundInOrder'
    BY <1>1 DEF WalkInv, FoundInOrder
  <1>11. NoCrossing'
    <2>1. \A x \in Finished' : (x \in Finished /\ timeOut'[x] = timeOut[x]) \/ x = c
      BY <1>2
    <2>2. \A x \in Finished' : timeIn'[x] < timeOut'[x]
      BY <1>1, <1>2, <1>5, <2>1 DEF WalkInv, NoCrossing
    <2>3. ASSUME NEW x \in Finished', NEW y \in Finished', timeIn'[x] < timeIn'[y]
          PROVE  timeOut'[x] < timeIn'[y] \/ timeOut'[y] < timeOut'[x]
      <3>1. CASE x = c
        <4>1. y \in Finished /\ timeOut'[y] = timeOut[y]
          BY <1>1, <1>5, <2>1, <2>3, <3>1
        <4> QED
          BY <1>2, <1>5, <3>1, <4>1
      <3>2. CASE x # c /\ y = c
        <4>1. x \in Finished /\ timeOut'[x] = timeOut[x] /\ timeIn[x] < timeIn[c]
          BY <1>1, <2>1, <2>3, <3>2
        <4>2. n \in DOMAIN path
          BY <1>1, <1>7
        <4>3. timeOut[x] < timeIn[c]
          BY <1>1, <4>1, <4>2 DEF WalkInv, NoCrossing
        <4> QED
          BY <1>1, <3>2, <4>1, <4>3
      <3>3. CASE x # c /\ y # c
        BY <1>1, <2>1, <2>3, <3>3 DEF WalkInv, NoCrossing
      <3> QED
        BY <3>1, <3>2, <3>3
    <2>4. ASSUME NEW x \in Finished', NEW i \in DOMAIN path', timeIn'[x] < timeIn'[path'[i].block]
          PROVE  timeOut'[x] < timeIn'[path'[i].block]
      <3>1. path'[i] = path[i] /\ i \in DOMAIN path /\ timeIn[path[i].block] < timeIn[c]
            /\ path[i].block \in Met
        BY <1>1, <1>3, <1>6, <1>7
      <3>2. x \in Finished /\ timeOut'[x] = timeOut[x]
        BY <1>1, <1>5, <2>1, <2>4, <3>1
      <3> QED
        BY <1>1, <2>4, <3>1, <3>2 DEF WalkInv, NoCrossing
    <2> QED
      BY <2>2, <2>3, <2>4 DEF NoCrossing
  <1>12. Parents'
    <2>1. parent'[Entry'] = None
      BY <1>1, <1>4 DEF WalkInv, Parents
    <2>2. ASSUME NEW x \in Met' \ {Entry'}, NEW p, p = parent'[x] PROVE CalledFrom(x, p)'
      <3>1. /\ p \in Met /\ timeIn[p] < timeIn[x] /\ x \in ToSet(next[p])
            /\ p \in Finished => x \in Finished /\ timeOut[x] < timeOut[p]
            /\ \A a \in Met : timeIn[p] < timeIn[a] /\ timeIn[a] < timeIn[x]
                                => a \in Finished /\ timeOut[a] < timeIn[x]
        BY <1>1, <1>4, <2>2 DEF WalkInv, Parents, CalledFrom
      <3>2. p \in Finished' => x \in Finished' /\ timeOut'[x] < timeOut'[p]
        <4>1. CASE p = c
          <5>1. x \in Finished
            BY <1>4, <1>6, <3>1, <4>1
          <5> QED
            BY <1>2, <1>5, <4>1, <5>1
        <4>2. CASE p # c
          BY <1>2, <3>1, <4>2
        <4> QED
          BY <4>1, <4>2
      <3>3. \A a \in Met' : timeIn'[p] < timeIn'[a] /\ timeIn'[a] < timeIn'[x]
                              => a \in Finished' /\ timeOut'[a] < timeIn'[x]
        BY <1>1, <1>2, <1>4, <3>1
      <3>4. (x \in ToSet(next[p]))'
        BY <1>1, <3>1 DEF ToSet
      <3> QED
        BY <1>1, <1>4, <3>1, <3>2, <3>3, <3>4 DEF CalledFrom
    <2> QED
      BY <2>1, <2>2 DEF Parents, CalledFrom
  <1>13. ArcsFollowed'
    <2>1. ASSUME NEW a \in Finished', NEW x \in ToSet(next'[a])
          PROVE  x \in Met' /\ timeIn'[x] < timeOut'[a]
      <3>1. CASE a \in Finished
        BY <1>1, <1>2, <1>4, <2>1, <3>1 DEF WalkInv, ArcsFollowed
      <3>2. CASE a = c
        <4>1. n \in DOMAIN path
          BY <1>1, <1>7
        <4>2. \A k \in 1 .. Len(next[c]) : next[c][k] \in Met
          BY <1>1, <4>1 DEF WalkInv, ArcsFollowed
        <4>3. DOMAIN next[c] = 1 .. Len(next[c])
          BY <1>1, ListFacts DEF WalkInv, WalkTypes
        <4>4. x \in Met
          BY <1>1, <2>1, <3>2, <4>2, <4>3 DEF ToSet
        <4> QED
          BY <1>1, <1>2, <1>4, <1>5, <3>2, <4>4
      <3> QED
        BY <1>2, <2>1, <3>1, <3>2
    <2>2. ASSUME NEW i \in DOMAIN path'
          PROVE  /\ path'[i].arcs <= Len(next'[path'[i].block])
                 /\ \A k \in 1 .. path'[i].arcs : next'[path'[i].block][k] \in Met'
      <3>1. path'[i] = path[i] /\ i \in DOMAIN path
        BY <1>1, <1>3, <1>7
      <3> QED
        BY <1>1, <1>4, <3>1 DEF WalkInv, ArcsFollowed
    <2> QED
      BY <2>1, <2>2 DEF ArcsFollowed
  <1> QED
    BY <1>8, <1>9, <1>10, <1>11, <1>12, <1>13 DEF WalkInv

(* What comes after the traversal leaves it as it is.                      *)
WalkKept ==
  /\ UNCHANGED <<path, found, timeIn, timeOut, parent>>
  /\ phase # "dfs" /\ phase' \in Phases /\ phase' # "dfs"
  /\ \A b \in DOMAIN next : b \in DOMAIN next' /\ next'[b] = next[b]
  /\ DOMAIN next' \subseteq Blocks /\ \A b \in DOMAIN next' : next'[b] \in Lists

(* What leaves the traversal alone keeps its order.                        *)
LEMMA KeptKeeps ==
  ASSUME WalkInv, WalkKept
  PROVE  WalkInv' /\ Met' = Met /\ Entry' = Entry /\ Blocks' = Blocks /\ Lists' = Lists
  <1>1. /\ Met' = Met /\ Entry' = Entry /\ Blocks' = Blocks /\ Finished' = Finished
        /\ Clock' = Clock /\ Lists' = Lists /\ Calls' = Calls
    BY DEF WalkKept, Met, Entry, Blocks, Finished, Clock, Lists, Calls
  <1>2. /\ UNCHANGED <<path, found, timeIn, timeOut, parent>>
        /\ \A b \in Met : next'[b] = next[b]
        /\ path = <<>>
    BY DEF WalkKept, WalkInv, WalkTypes
  <1>3. WalkTypes'
    BY <1>1, <1>2 DEF WalkKept, WalkInv, WalkTypes
  <1>4. PathInOrder' /\ FoundInOrder' /\ NoCrossing'
    BY <1>1, <1>2 DEF WalkInv, PathInOrder, FoundInOrder, NoCrossing, OnPath
  <1>5. Parents'
    <2>1. ASSUME NEW x \in Met' \ {Entry'}, NEW p, p = parent'[x] PROVE CalledFrom(x, p)'
      <3>1. CalledFrom(x, p)
        BY <1>1, <1>2, <2>1 DEF WalkInv, Parents
      <3>2. (x \in ToSet(next[p]))'
        BY <1>2, <3>1 DEF CalledFrom, ToSet
      <3> QED
        BY <1>1, <1>2, <3>1, <3>2 DEF CalledFrom
    <2>2. parent'[Entry'] = None
      BY <1>1, <1>2 DEF WalkInv, Parents
    <2> QED
      BY <2>1, <2>2 DEF Parents, CalledFrom
  <1>6. ArcsFollowed'
    <2>1. DOMAIN path' = {}
      BY <1>2
    <2>2. \A a \in Finished : a \in Met
      BY DEF WalkInv, WalkTypes
    <2> QED
      BY <1>1, <1>2, <2>1, <2>2 DEF WalkInv, ArcsFollowed
  <1> QED
    BY <1>1, <1>3, <1>4, <1>5, <1>6 DEF WalkInv

(* The traversal begins in order, with the entry.                          *)
LEMMA WalkStarts ==
  ASSUME Init
  PROVE  WalkInv /\ Met = {Entry}
  <1>1. PICK ids \in {Free, Line} \ {{}} : found = <<Min(ids)>>
    BY DEF Init
  <1>2. Min(ids) \in ids /\ ids \in {Free, Line} /\ ids \subseteq Nat
    <2>1. ids \subseteq Nat /\ ids # {}
      BY GraphInfoAssumption
    <2>2. \E x \in ids : \A y \in ids : x <= y
      BY <2>1, LeastNatural
    <2> QED
      BY <2>1, <2>2 DEF Min
  <1>3. Entry = Min(ids) /\ Met = {Entry} /\ DOMAIN found = {1} /\ found[1] = Entry
    BY <1>1 DEF Entry, Met, ToSet
  <1>4. Entry \in Blocks /\ found \in Seq(Blocks) /\ found # <<>>
    <2>1. Entry \in Blocks
      BY <1>2, <1>3, GraphInfoAssumption DEF Blocks
    <2> QED
      BY <1>1, <1>3, <2>1
  <1>5. /\ DOMAIN next = {Entry} /\ next[Entry] \in Lists
    <2>1. Successors(Entry) \subseteq Lists
      BY DEF Successors
    <2> QED
      BY <2>1 DEF Init
  <1>6. /\ timeIn = [b \in {Entry} |-> 1] /\ timeOut = <<>> /\ parent = [b \in {Entry} |-> None]
        /\ path = <<[block |-> Entry, arcs |-> 0]>> /\ phase = "dfs"
    BY DEF Init
  <1>7. Finished = {}
    BY <1>6 DEF Finished
  <1>8. /\ path \in Seq(Calls) /\ DOMAIN path = {1} /\ path[1].block = Entry /\ path[1].arcs = 0
        /\ path # <<>>
    <2>1. [block |-> Entry, arcs |-> 0] \in Calls
      BY <1>3, CallFacts
    <2> QED
      BY <1>6, <2>1
  <1>9. Clock = 1
    <2>1. Cardinality({Entry}) = 1 /\ Cardinality({}) = 0
      BY FS_Singleton, FS_EmptySet
    <2>2. DOMAIN timeIn = {Entry} /\ DOMAIN timeOut = {}
      BY <1>6
    <2> QED
      BY <2>1, <2>2 DEF Clock
  <1>10. WalkTypes
    <2>1. timeIn \in [Met -> Nat] /\ parent \in [Met -> Met \cup {None}] /\ timeIn[Entry] = 1
      BY <1>3, <1>6
    <2> QED
      BY <1>3, <1>4, <1>5, <1>6, <1>7, <1>8, <1>9, <2>1 DEF WalkTypes, Phases
  <1>11. PathInOrder /\ FoundInOrder /\ NoCrossing
    BY <1>3, <1>7, <1>8 DEF PathInOrder, FoundInOrder, NoCrossing, OnPath
  <1>12. Parents
    BY <1>3, <1>6 DEF Parents
  <1>13. ArcsFollowed
    BY <1>5, <1>7, <1>8, ListFacts DEF ArcsFollowed
  <1> QED
    BY <1>3, <1>10, <1>11, <1>12, <1>13 DEF WalkInv

-----------------------------------------------------------------------------
(***************************************************************************)
(* The tree of a finished traversal.                                       *)
(***************************************************************************)
Walked == WalkInv /\ phase # "dfs"

Anc(a, b) == timeIn[a] <= timeIn[b] /\ timeIn[b] < timeOut[a]

(* After the traversal all blocks are finished and their times do not      *)
(* cross.                                                                  *)
LEMMA TreeTimes ==
  ASSUME Walked
  PROVE  /\ Finished = Met /\ Entry \in Met /\ path = <<>>
         /\ IsFiniteSet(Met)
         /\ \A x \in Met : timeIn[x] \in Nat /\ timeOut[x] \in Nat /\ timeIn[x] < timeOut[x]
         /\ \A x, y \in Met : timeIn[x] = timeIn[y] => x = y
         /\ \A x \in Met : timeIn[Entry] <= timeIn[x]
         /\ \A x, y \in Met :
              timeIn[x] < timeIn[y] => timeOut[x] < timeIn[y] \/ timeOut[y] < timeOut[x]
  <1>1. path = <<>> /\ Entry \in Met /\ Finished \subseteq Met /\ IsFiniteSet(Met)
    BY ClockFacts DEF Walked, WalkInv, WalkTypes
  <1>2. Finished = Met
    <2>1. \A b \in Met : ~OnPath(b)
      BY <1>1 DEF OnPath
    <2> QED
      BY <1>1, <2>1 DEF Walked, WalkInv, PathInOrder
  <1>3. \A x \in Met : timeIn[x] \in Nat /\ timeOut[x] \in Nat /\ timeIn[x] < timeOut[x]
    BY <1>2 DEF Walked, WalkInv, WalkTypes, NoCrossing
  <1>4. /\ DOMAIN found = 1 .. Len(found) /\ Len(found) \in Nat /\ Len(found) >= 1
        /\ \A b \in Met : \E i \in DOMAIN found : found[i] = b
    BY PathFacts DEF Walked, WalkInv
  <1>5. ASSUME NEW x \in Met, NEW y \in Met, timeIn[x] = timeIn[y] PROVE x = y
    <2>1. PICK i \in DOMAIN found : found[i] = x
      BY <1>4
    <2>2. PICK j \in DOMAIN found : found[j] = y
      BY <1>4
    <2>3. ~(timeIn[x] < timeIn[y]) /\ ~(timeIn[y] < timeIn[x])
      BY <1>3, <1>5
    <2>4. ~(i < j) /\ ~(j < i)
      BY <2>1, <2>2, <2>3 DEF Walked, WalkInv, FoundInOrder
    <2>5. i \in Nat /\ j \in Nat
      BY <1>4
    <2> QED
      BY <2>1, <2>2, <2>4, <2>5
  <1>6. ASSUME NEW x \in Met PROVE timeIn[Entry] <= timeIn[x]
    <2>1. PICK i \in DOMAIN found : found[i] = x
      BY <1>4
    <2>2. 1 \in DOMAIN found /\ Entry = found[1] /\ (i = 1 \/ 1 < i)
      BY <1>4 DEF Entry
    <2>3. Entry = x \/ timeIn[Entry] < timeIn[x]
      BY <2>1, <2>2 DEF Walked, WalkInv, FoundInOrder
    <2>4. timeIn[Entry] \in Nat /\ timeIn[x] \in Nat
      BY <1>1, <1>3
    <2> QED
      BY <2>3, <2>4
  <1>7. \A x, y \in Met :
          timeIn[x] < timeIn[y] => timeOut[x] < timeIn[y] \/ timeOut[y] < timeOut[x]
    BY <1>2 DEF Walked, WalkInv, NoCrossing
  <1> QED
    BY <1>1, <1>2, <1>3, <1>5, <1>6, <1>7

(* Being an ancestor is an order, and the ancestors of a block form a      *)
(* chain.                                                                  *)
LEMMA AncOrder ==
  ASSUME Walked
  PROVE  /\ \A x \in Met : Anc(x, x)
         /\ \A x, y, z \in Met : Anc(x, y) /\ Anc(y, z) => Anc(x, z)
         /\ \A x, y \in Met : Anc(x, y) /\ x # y => timeIn[x] < timeIn[y]
         /\ \A x, y, z \in Met : Anc(x, z) /\ Anc(y, z) /\ timeIn[x] <= timeIn[y] => Anc(x, y)
         /\ \A x, y, z \in Met :
              Anc(x, z) /\ timeIn[x] <= timeIn[y] /\ timeIn[y] <= timeIn[z] => Anc(x, y)
  <1>1. /\ \A x \in Met : timeIn[x] \in Nat /\ timeOut[x] \in Nat /\ timeIn[x] < timeOut[x]
        /\ \A x, y \in Met : timeIn[x] = timeIn[y] => x = y
        /\ \A x, y \in Met :
              timeIn[x] < timeIn[y] => timeOut[x] < timeIn[y] \/ timeOut[y] < timeOut[x]
    BY TreeTimes
  <1>2. \A x \in Met : Anc(x, x)
    BY <1>1 DEF Anc
  <1>3. ASSUME NEW x \in Met, NEW y \in Met, NEW z \in Met, Anc(x, y), Anc(y, z) PROVE Anc(x, z)
    <2>1. CASE timeIn[x] = timeIn[y]
      BY <1>1, <1>3, <2>1
    <2>2. CASE timeIn[x] < timeIn[y]
      BY <1>1, <1>3, <2>2 DEF Anc
    <2> QED
      BY <1>1, <1>3, <2>1, <2>2 DEF Anc
  <1>4. \A x, y \in Met : Anc(x, y) /\ x # y => timeIn[x] < timeIn[y]
    BY <1>1 DEF Anc
  <1>5. \A x, y, z \in Met : Anc(x, z) /\ Anc(y, z) /\ timeIn[x] <= timeIn[y] => Anc(x, y)
    BY <1>1 DEF Anc
  <1>6. \A x, y, z \in Met :
              Anc(x, z) /\ timeIn[x] <= timeIn[y] /\ timeIn[y] <= timeIn[z] => Anc(x, y)
    BY <1>1 DEF Anc
  <1> QED
    BY <1>2, <1>3, <1>4, <1>5, <1>6

(* Arcs lead to blocks met; one that goes forward in time goes down the    *)
(* tree.                                                                   *)
LEMMA ArcsInTree ==
  ASSUME Walked
  PROVE  /\ \A a \in Met : Succ(a) = ToSet(next[a]) /\ Succ(a) \subseteq Met
         /\ \A a \in Met : \A b \in Succ(a) : timeIn[a] <= timeIn[b] => Anc(a, b)
  <1>1. Finished = Met
    BY TreeTimes
  <1>2. \A a \in Met : Succ(a) = ToSet(next[a])
    BY DEF Succ, Walked, WalkInv, WalkTypes
  <1>3. \A a \in Met : \A b \in Succ(a) : b \in Met /\ timeIn[b] < timeOut[a]
    BY <1>1, <1>2 DEF Walked, WalkInv, ArcsFollowed
  <1> QED
    BY <1>2, <1>3 DEF Anc

(* What a block reaches by arcs that stay after it is below it.            *)
LEMMA StaysBelow ==
  ASSUME Walked, NEW s \in Met, NEW y \in Met, Anc(s, y), NEW x \in Succ(y), timeIn[s] <= timeIn[x]
  PROVE  x \in Met /\ Anc(s, x)
  <1>1. x \in Met /\ (timeIn[y] <= timeIn[x] => Anc(y, x))
    BY ArcsInTree
  <1>2. timeIn[x] \in Nat /\ timeIn[y] \in Nat
    BY <1>1, TreeTimes
  <1>3. CASE timeIn[y] <= timeIn[x]
    BY <1>1, <1>3, AncOrder
  <1>4. CASE timeIn[x] <= timeIn[y]
    BY <1>1, <1>4, AncOrder
  <1> QED
    BY <1>1, <1>2, <1>3, <1>4

(* The parent is the closest ancestor.                                     *)
LEMMA ParentFacts ==
  ASSUME Walked
  PROVE  /\ parent[Entry] = None
         /\ \A x \in Met \ {Entry} :
              /\ parent[x] \in Met /\ Anc(parent[x], x) /\ timeIn[parent[x]] < timeIn[x]
              /\ x \in Succ(parent[x])
         /\ \A x \in Met \ {Entry} : \A a \in Met : Anc(a, x) /\ a # x => Anc(a, parent[x])
         /\ \A x \in Met \ {Entry} : \A a \in Met :
              timeIn[parent[x]] < timeIn[a] /\ timeIn[a] < timeIn[x] => timeOut[a] < timeIn[x]
  <1>1. /\ Finished = Met
        /\ \A x \in Met : timeIn[x] \in Nat /\ timeOut[x] \in Nat /\ timeIn[x] < timeOut[x]
        /\ \A x, y \in Met : timeIn[x] = timeIn[y] => x = y
    BY TreeTimes
  <1>2. parent[Entry] = None /\ \A x \in Met \ {Entry} : CalledFrom(x, parent[x])
    BY DEF Walked, WalkInv, Parents
  <1>3. ASSUME NEW x \in Met \ {Entry}, NEW p, p = parent[x]
        PROVE  /\ p \in Met /\ Anc(p, x) /\ timeIn[p] < timeIn[x] /\ x \in Succ(p)
               /\ \A a \in Met : timeIn[p] < timeIn[a] /\ timeIn[a] < timeIn[x]
                                   => timeOut[a] < timeIn[x]
               /\ \A a \in Met : Anc(a, x) /\ a # x => Anc(a, p)
    <2>1. /\ p \in Met /\ timeIn[p] < timeIn[x] /\ x \in ToSet(next[p]) /\ timeOut[x] < timeOut[p]
          /\ \A a \in Met : timeIn[p] < timeIn[a] /\ timeIn[a] < timeIn[x]
                              => timeOut[a] < timeIn[x]
      BY <1>1, <1>2, <1>3 DEF CalledFrom
    <2>2. x \in Succ(p)
      BY <2>1, ArcsInTree
    <2>3. Anc(p, x)
      BY <1>1, <2>1 DEF Anc
    <2>4. ASSUME NEW a \in Met, Anc(a, x), a # x PROVE Anc(a, p)
      <3>1. timeIn[a] < timeIn[x]
        BY <2>4, AncOrder
      <3>2. ~(timeIn[p] < timeIn[a])
        BY <1>1, <2>1, <2>4, <3>1 DEF Anc
      <3>3. timeIn[a] <= timeIn[p]
        BY <1>1, <2>1, <3>2
      <3> QED
        BY <2>1, <2>3, <2>4, <3>3, AncOrder
    <2> QED
      BY <2>1, <2>2, <2>3, <2>4
  <1> QED
    BY <1>2, <1>3

(* The entry is above all blocks met.                                      *)
LEMMA EntryAbove ==
  ASSUME Walked
  PROVE  \A x \in Met : Anc(Entry, x)
  <1> DEFINE S == {x \in Met : Anc(Entry, x)}
  <1>1. \A c \in Met : timeIn[c] \in Nat
    BY TreeTimes
  <1>2. ASSUME NEW c \in Met, \A d \in Met : timeIn[d] < timeIn[c] => d \in S PROVE c \in S
    <2>1. CASE c = Entry
      BY <2>1, AncOrder
    <2>2. CASE c # Entry
      <3>1. parent[c] \in Met /\ Anc(parent[c], c) /\ timeIn[parent[c]] < timeIn[c]
        BY <2>2, ParentFacts
      <3>2. Anc(Entry, parent[c]) /\ Entry \in Met
        BY <1>2, <3>1, TreeTimes
      <3> QED
        BY <3>1, <3>2, AncOrder
    <2> QED
      BY <2>1, <2>2
  <1>3. Met \subseteq S
    <2> HIDE DEF S
    <2> QED
      BY <1>1, <1>2, TimeInduction
  <1> QED
    BY <1>3

(* The child of a block above another one.                                 *)
LEMMA ChildAbove ==
  ASSUME Walked, NEW p \in Met
  PROVE  \A v \in Met : Anc(p, v) /\ p # v
                          => \E c \in Met \ {Entry} : parent[c] = p /\ Anc(c, v)
  <1> DEFINE S == {v \in Met : Anc(p, v) /\ p # v
                                 => \E c \in Met \ {Entry} : parent[c] = p /\ Anc(c, v)}
  <1>1. \A c \in Met : timeIn[c] \in Nat
    BY TreeTimes
  <1>2. ASSUME NEW v \in Met, \A d \in Met : timeIn[d] < timeIn[v] => d \in S PROVE v \in S
    <2>1. SUFFICES ASSUME Anc(p, v), p # v
                   PROVE  \E c \in Met \ {Entry} : parent[c] = p /\ Anc(c, v)
      OBVIOUS
    <2>2. v # Entry
      BY <1>1, <2>1, AncOrder, TreeTimes
    <2>3. /\ parent[v] \in Met /\ Anc(parent[v], v) /\ timeIn[parent[v]] < timeIn[v]
          /\ Anc(p, parent[v])
      BY <2>1, <2>2, ParentFacts
    <2>4. CASE p = parent[v]
      BY <2>2, <2>4, AncOrder
    <2>5. CASE p # parent[v]
      <3>1. PICK c \in Met \ {Entry} : parent[c] = p /\ Anc(c, parent[v])
        BY <1>2, <2>3, <2>5
      <3>2. Anc(c, v)
        BY <2>3, <3>1, AncOrder
      <3> QED
        BY <3>1, <3>2
    <2> QED
      BY <2>4, <2>5
  <1>3. Met \subseteq S
    <2> HIDE DEF S
    <2> QED
      BY <1>1, <1>2, TimeInduction
  <1> QED
    BY <1>3

(* A set that goes on along the tree from u to v has all of that stretch.  *)
LEMMA DownTheTree ==
  ASSUME Walked, NEW u \in Met, NEW v \in Met, NEW S, u \in S,
         \A x \in Met \ {Entry} :
           Anc(x, v) /\ Anc(u, x) /\ x # u /\ parent[x] \in S => x \in S
  PROVE  \A x \in Met : Anc(u, x) /\ Anc(x, v) => x \in S
  <1> DEFINE T == {x \in Met : Anc(u, x) /\ Anc(x, v) => x \in S}
  <1>1. \A c \in Met : timeIn[c] \in Nat
    BY TreeTimes
  <1>2. ASSUME NEW x \in Met, \A d \in Met : timeIn[d] < timeIn[x] => d \in T PROVE x \in T
    <2>1. SUFFICES ASSUME Anc(u, x), Anc(x, v), x # u PROVE x \in S
      OBVIOUS
    <2>2. x # Entry
      BY <1>1, <2>1, AncOrder, TreeTimes
    <2>3. /\ parent[x] \in Met /\ Anc(parent[x], x) /\ timeIn[parent[x]] < timeIn[x]
          /\ Anc(u, parent[x])
      BY <2>1, <2>2, ParentFacts
    <2>4. Anc(parent[x], v)
      BY <2>1, <2>3, AncOrder
    <2>5. parent[x] \in S
      BY <1>2, <2>3, <2>4
    <2> QED
      BY <2>1, <2>2, <2>5
  <1>3. Met \subseteq T
    <2> HIDE DEF T
    <2> QED
      BY <1>1, <1>2, TimeInduction
  <1> QED
    BY <1>3

(* A sequence of values, each made from the one before.                    *)
Iterates(g, n, first, step) ==
  g = [i \in 0 .. n |-> IF i = 0 THEN first ELSE step[i][g[i - 1]]]

(* Such a sequence exists.                                                 *)
LEMMA IterationExists ==
  ASSUME NEW n \in Nat, NEW first, NEW step
  PROVE  \E g : Iterates(g, n, first, step)
  <1> DEFINE M == 0 .. n
             t == [i \in M |-> i]
             p == [i \in M |-> IF i = 0 THEN None ELSE i - 1]
             base == [i \in M |-> first]
  <1>1. /\ \A c \in M : t[c] \in Nat /\ t[c] < n + 1
        /\ \A c \in M : p[c] = None \/ (p[c] \in M /\ t[p[c]] < t[c])
    BY DEF None
  <1>2. \A c \in M : /\ (p[c] = None) <=> (c = 0)
                     /\ c # 0 => p[c] = c - 1
                     /\ base[c] = first
    BY DEF None
  <1>3. \E g : Follows(g, M, p, base, step)
    <2>1. n + 1 \in Nat
      OBVIOUS
    <2> HIDE DEF M, t, p, base
    <2> QED
      BY <1>1, <2>1, RecursionExists
  <1>4. PICK g : g = [c \in M |-> IF p[c] = None THEN base[c] ELSE step[c][g[p[c]]]]
    BY <1>3 DEF Follows
  <1>5. g = [c \in M |-> IF c = 0 THEN first ELSE step[c][g[c - 1]]]
    <2> HIDE DEF M, p, base
    <2> QED
      BY <1>2, <1>4
  <1> QED
    BY <1>5 DEF Iterates

(* What its values may be, if each step leads from one such value to the   *)
(* next.                                                                   *)
LEMMA IterationWithin ==
  ASSUME NEW n \in Nat, NEW first, NEW step, NEW g, Iterates(g, n, first, step),
         NEW V, first \in V[0], \A i \in 1 .. n : \A x \in V[i - 1] : step[i][x] \in V[i]
  PROVE  \A i \in 0 .. n : g[i] \in V[i]
  <1> DEFINE S == {i \in 0 .. n : g[i] \in V[i]}
  <1>1. 0 \in S
    BY DEF Iterates
  <1>2. ASSUME NEW k \in Nat, k < n, k \in S PROVE k + 1 \in S
    <2>1. k + 1 \in 1 .. n /\ k + 1 \in 0 .. n /\ (k + 1) - 1 = k /\ k + 1 # 0
      BY <1>2
    <2>2. g[k + 1] = step[k + 1][g[k]]
      BY <2>1 DEF Iterates
    <2>3. g[k] \in V[k]
      BY <1>2
    <2>4. step[k + 1][g[k]] \in V[k + 1]
      BY <2>1, <2>3
    <2> QED
      BY <2>1, <2>2, <2>4
  <1>3. 0 .. n \subseteq S
    <2> HIDE DEF S
    <2> QED
      BY <1>1, <1>2, UpToInduction
  <1> QED
    BY <1>3

-----------------------------------------------------------------------------
(***************************************************************************)
(* What can be reached, as the least closed set.                           *)
(***************************************************************************)
ClosedBy(S, E) == \A y \in S : E[y] \subseteq S
Least(M, start, E) == {x \in M : \A S \in SUBSET M : start \subseteq S /\ ClosedBy(S, E) => x \in S}

(* The least closed set is closed, and in every other that has the start.  *)
LEMMA LeastFacts ==
  ASSUME NEW M, NEW start, start \subseteq M, NEW E, \A b \in M : E[b] \subseteq M
  PROVE  /\ start \subseteq Least(M, start, E) /\ Least(M, start, E) \subseteq M
         /\ ClosedBy(Least(M, start, E), E)
         /\ \A S \in SUBSET M : start \subseteq S /\ ClosedBy(S, E) => Least(M, start, E) \subseteq S
  <1>1. ASSUME NEW y \in Least(M, start, E), NEW x \in E[y] PROVE x \in Least(M, start, E)
    <2>1. x \in M
      BY <1>1 DEF Least
    <2>2. \A S \in SUBSET M : start \subseteq S /\ ClosedBy(S, E) => x \in S
      BY <1>1 DEF Least, ClosedBy
    <2> QED
      BY <2>1, <2>2 DEF Least
  <1>2. ClosedBy(Least(M, start, E), E)
    BY <1>1 DEF ClosedBy
  <1> QED
    BY <1>2 DEF Least

(* Rounds of a search end with the least closed set.                       *)
LEMMA Rounds ==
  ASSUME NEW M, IsFiniteSet(M), NEW N \in Nat, Cardinality(M) <= N,
         NEW start, start \subseteq M, NEW E, \A b \in M : E[b] \subseteq M,
         NEW g, g[0] = start,
         \A n \in 1 .. N : g[n - 1] \subseteq M
                             => g[n] = g[n - 1] \cup UNION {E[b] : b \in g[n - 1]}
  PROVE  g[N] = Least(M, start, E)
  <1>1. N \in Nat /\ Cardinality(M) \in Nat
    BY FS_CardinalityType
  <1> DEFINE L == Least(M, start, E)
             T == {n \in 0 .. N : /\ g[n] \subseteq L /\ start \subseteq g[n]
                                  /\ ClosedBy(g[n], E) \/ Cardinality(g[n]) >= n}
  <1>2. /\ start \subseteq L /\ L \subseteq M /\ ClosedBy(L, E)
        /\ \A S \in SUBSET M : start \subseteq S /\ ClosedBy(S, E) => L \subseteq S
    BY LeastFacts
  <1>3. ASSUME NEW S, S \subseteq M
        PROVE  IsFiniteSet(S) /\ Cardinality(S) \in Nat /\ Cardinality(S) <= N
               /\ (Cardinality(S) >= N => S = M)
    <2>1. IsFiniteSet(S) /\ Cardinality(S) \in Nat /\ Cardinality(S) <= Cardinality(M)
      BY <1>3, FS_Subset, FS_CardinalityType
    <2>2. Cardinality(S) <= N
      BY <1>1, <2>1
    <2>3. Cardinality(S) >= N => Cardinality(S) = Cardinality(M)
      BY <1>1, <2>1
    <2>4. Cardinality(S) >= N => S = M
      BY <1>3, <2>1, <2>3, FS_Subset
    <2> QED
      BY <2>1, <2>2, <2>4
  <1> HIDE DEF L
  <1>4. 0 \in T
    <2>1. g[0] = start
      OBVIOUS
    <2>2. g[0] \subseteq L
      BY <1>2, <2>1
    <2>3. g[0] \subseteq M
      BY <1>2, <2>2
    <2>4. Cardinality(g[0]) \in Nat
      BY <1>3, <2>3
    <2>5. Cardinality(g[0]) >= 0
      BY <2>4
    <2> QED
      BY <1>1, <2>1, <2>2, <2>5
  <1>5. ASSUME NEW n \in Nat, n < N, n \in T PROVE n + 1 \in T
    <2>1. g[n + 1] = g[n] \cup UNION {E[b] : b \in g[n]}
      <3>1. n + 1 \in 1 .. N /\ (n + 1) - 1 = n
        BY <1>1, <1>5
      <3>2. g[n] \subseteq M
        BY <1>2, <1>5
      <3>3. g[(n + 1) - 1] \subseteq M
        BY <3>1, <3>2
      <3>4. g[n + 1] = g[(n + 1) - 1] \cup UNION {E[b] : b \in g[(n + 1) - 1]}
        BY <3>1, <3>3
      <3> QED
        BY <3>1, <3>4
    <2>2. g[n] \subseteq L /\ start \subseteq g[n] /\ g[n] \subseteq g[n + 1]
      BY <1>5, <2>1
    <2>3. \A x : x \in g[n + 1] <=> x \in g[n] \/ \E b \in g[n] : x \in E[b]
      BY <2>1
    <2>4. g[n + 1] \subseteq L
      BY <1>2, <2>2, <2>3 DEF ClosedBy
    <2>5. g[n] \subseteq M /\ g[n + 1] \subseteq M
      BY <1>2, <2>2, <2>4
    <2>6. CASE ClosedBy(g[n], E)
      <3>1. g[n + 1] \subseteq g[n]
        BY <2>3, <2>6 DEF ClosedBy
      <3>2. g[n + 1] = g[n]
        BY <2>2, <3>1
      <3> QED
        BY <1>1, <1>5, <2>2, <2>4, <2>6, <3>2
    <2>7. CASE ~ClosedBy(g[n], E)
      <3>1. Cardinality(g[n]) >= n
        BY <1>5, <2>7
      <3>2. PICK y \in g[n] : ~(E[y] \subseteq g[n])
        BY <2>7 DEF ClosedBy
      <3>3. g[n + 1] # g[n]
        BY <2>3, <3>2
      <3>4. /\ IsFiniteSet(g[n + 1]) /\ Cardinality(g[n]) \in Nat /\ Cardinality(g[n + 1]) \in Nat
        BY <1>3, <2>5
      <3>5. Cardinality(g[n]) <= Cardinality(g[n + 1]) /\ Cardinality(g[n]) # Cardinality(g[n + 1])
        BY <2>2, <3>3, <3>4, FS_Subset
      <3>6. Cardinality(g[n + 1]) >= n + 1
        BY <1>5, <3>1, <3>4, <3>5
      <3> QED
        BY <1>1, <1>5, <2>2, <2>4, <3>6
    <2> QED
      BY <2>6, <2>7
  <1>6. 0 .. N \subseteq T
    <2> HIDE DEF T
    <2> QED
      BY <1>1, <1>4, <1>5, UpToInduction
  <1>7. N \in T
    BY <1>1, <1>6
  <1>8. g[N] \subseteq L /\ start \subseteq g[N] /\ g[N] \subseteq M
    BY <1>2, <1>7
  <1>9. ClosedBy(g[N], E)
    <2>1. CASE Cardinality(g[N]) >= N
      <3>1. g[N] = M
        BY <1>3, <1>8, <2>1
      <3> QED
        BY <3>1 DEF ClosedBy
    <2> QED
      BY <1>7, <2>1
  <1> QED
    BY <1>2, <1>8, <1>9 DEF L

Search(g, N, start, E) ==
  g = [n \in 0 .. N |-> IF n = 0 THEN start ELSE g[n - 1] \cup UNION {E[b] : b \in g[n - 1]}]

(* The rounds of the search exist and stay in the set.                     *)
LEMMA RoundsExist ==
  ASSUME NEW M, NEW N \in Nat, NEW start, start \subseteq M, NEW E, \A b \in M : E[b] \subseteq M
  PROVE  \E g : Search(g, N, start, E) /\ \A n \in 0 .. N : g[n] \subseteq M
  <1> DEFINE grown == [X \in SUBSET M |-> X \cup UNION {E[b] : b \in X}]
             step == [i \in 1 .. N |-> grown]
             V == [i \in 0 .. N |-> SUBSET M]
  <1>1. PICK g : Iterates(g, N, start, step)
    <2> HIDE DEF step
    <2> QED
      BY IterationExists
  <1>2. \A X \in SUBSET M : X \cup UNION {E[b] : b \in X} \in SUBSET M
    OBVIOUS
  <1>3. \A i \in 0 .. N : g[i] \in V[i]
    <2>1. start \in V[0] /\ \A i \in 1 .. N : \A x \in V[i - 1] : step[i][x] \in V[i]
      <3>1. ASSUME NEW i \in 1 .. N PROVE i - 1 \in 0 .. N /\ i \in 0 .. N
        OBVIOUS
      <3>2. ASSUME NEW i \in 1 .. N, NEW x \in SUBSET M PROVE step[i][x] \in SUBSET M
        BY <1>2
      <3> QED
        BY <3>1, <3>2
    <2> HIDE DEF step, V
    <2> QED
      BY <1>1, <2>1, IterationWithin
  <1>4. \A n \in 1 .. N : step[n][g[n - 1]] = g[n - 1] \cup UNION {E[b] : b \in g[n - 1]}
    <2>1. \A n \in 1 .. N : n - 1 \in 0 .. N
      OBVIOUS
    <2> QED
      BY <1>3, <2>1
  <1>5. \A n \in 0 .. N : n = 0 \/ n \in 1 .. N
    OBVIOUS
  <1>6. g = [n \in 0 .. N |-> IF n = 0 THEN start ELSE step[n][g[n - 1]]]
    BY <1>1 DEF Iterates
  <1> HIDE DEF step, V
  <1> DEFINE U(n) == g[n - 1] \cup UNION {E[b] : b \in g[n - 1]}
  <1>7. g = [n \in 0 .. N |-> IF n = 0 THEN start ELSE U(n)]
    <2>1. \A n \in 0 .. N : n # 0 => step[n][g[n - 1]] = U(n)
      BY <1>4, <1>5
    <2> HIDE DEF U
    <2> QED
      BY <1>6, <2>1
  <1>8. \A n \in 0 .. N : g[n] \subseteq M
    BY <1>3 DEF V
  <1> QED
    BY <1>7, <1>8 DEF Search

-----------------------------------------------------------------------------
(* The blocks reached from the set start through the set among. *)
Arcs(among) == [b \in Met |-> Succ(b) \cap among]
Reached(start, among) == Least(Met, start, Arcs(among))

(* What is reached is closed under the arcs it may take.                   *)
LEMMA ReachedFacts ==
  ASSUME Walked, NEW start, start \subseteq Met, NEW among
  PROVE  /\ start \subseteq Reached(start, among) /\ Reached(start, among) \subseteq Met
         /\ \A y \in Reached(start, among), x \in among :
              x \in Succ(y) => x \in Reached(start, among)
         /\ \A x \in Reached(start, among) : x \in start \/ x \in among
  <1>1. \A b \in Met : Arcs(among)[b] = Succ(b) \cap among /\ Succ(b) \subseteq Met
    BY ArcsInTree DEF Arcs
  <1>2. /\ start \subseteq Reached(start, among) /\ Reached(start, among) \subseteq Met
        /\ ClosedBy(Reached(start, among), Arcs(among))
        /\ \A S \in SUBSET Met : start \subseteq S /\ ClosedBy(S, Arcs(among))
                                   => Reached(start, among) \subseteq S
    <2>1. \A b \in Met : Arcs(among)[b] \subseteq Met
      BY <1>1
    <2> QED
      BY <2>1, LeastFacts DEF Reached
  <1>3. \A y \in Reached(start, among), x \in among :
          x \in Succ(y) => x \in Reached(start, among)
    BY <1>1, <1>2 DEF ClosedBy
  <1>4. \A x \in Reached(start, among) : x \in start \/ x \in among
    <2> DEFINE S == start \cup (Met \cap among)
    <2>1. S \in SUBSET Met /\ start \subseteq S /\ ClosedBy(S, Arcs(among))
      BY <1>1 DEF ClosedBy
    <2>2. Reached(start, among) \subseteq S
      <3> HIDE DEF S
      <3> QED
        BY <1>2, <2>1
    <2> QED
      BY <2>2
  <1> QED
    BY <1>2, <1>3, <1>4

(* A set that has the start and is closed has all that is reached.         *)
LEMMA ReachedInduction ==
  ASSUME Walked, NEW start, start \subseteq Met, NEW among, NEW S, start \subseteq S,
         \A y \in Met, x \in Met :
           y \in S /\ x \in Succ(y) /\ x \in among => x \in S
  PROVE  Reached(start, among) \subseteq S
  <1>1. \A b \in Met : Arcs(among)[b] = Succ(b) \cap among /\ Succ(b) \subseteq Met
    BY ArcsInTree DEF Arcs
  <1>2. S \cap Met \in SUBSET Met /\ start \subseteq S \cap Met /\ ClosedBy(S \cap Met, Arcs(among))
    BY <1>1 DEF ClosedBy
  <1>3. \A b \in Met : Arcs(among)[b] \subseteq Met
    BY <1>1
  <1>4. Least(Met, start, Arcs(among)) \subseteq S \cap Met
    BY <1>2, <1>3, LeastFacts
  <1> QED
    BY <1>4 DEF Reached

(* From a block reached, by blocks that may be passed, one goes on.        *)
LEMMA ReachedOn ==
  ASSUME Walked, NEW start, start \subseteq Met, NEW among, NEW narrow, narrow \subseteq among,
         NEW y \in Reached(start, among)
  PROVE  Reached({y}, narrow) \subseteq Reached(start, among)
  <1>1. /\ {y} \subseteq Met /\ {y} \subseteq Reached(start, among)
    BY ReachedFacts
  <1>2. \A z \in Met, x \in Met : z \in Reached(start, among) /\ x \in Succ(z) /\ x \in narrow
                                    => x \in Reached(start, among)
    BY ReachedFacts
  <1> HIDE DEF Reached
  <1> QED
    BY <1>1, <1>2, ReachedInduction

(* ReachFrom, which goes by rounds, finds that set.                        *)
LEMMA ReachFromIs ==
  ASSUME Walked, NEW start, start \subseteq Met, NEW among
  PROVE  ReachFrom(start, among) = Reached(start, among)
  <1> DEFINE E == Arcs(among)
             N == Cardinality(Met)
             Grown(X) == X \cup ((UNION {Succ(b) : b \in X}) \cap among)
             reach == CHOOSE g : g = [n \in 0 .. N |-> IF n = 0 THEN start ELSE Grown(g[n - 1])]
  <1>1. \A b \in Met : E[b] = Succ(b) \cap among /\ E[b] \subseteq Met
    BY ArcsInTree DEF Arcs
  <1>2. IsFiniteSet(Met) /\ N \in Nat
    BY TreeTimes, FS_CardinalityType
  <1>3. \A X \in SUBSET Met : Grown(X) = X \cup UNION {E[b] : b \in X}
    BY <1>1
  <1>4. PICK g : Search(g, N, start, E) /\ \A n \in 0 .. N : g[n] \subseteq Met
    <2>1. \A b \in Met : E[b] \subseteq Met
      BY <1>1
    <2>2. N \in Nat
      BY <1>2
    <2> HIDE DEF E, N
    <2> QED
      BY <2>1, <2>2, RoundsExist
  <1>5. g = [n \in 0 .. N |-> IF n = 0 THEN start ELSE Grown(g[n - 1])]
    <2> DEFINE Before1(n) == g[n - 1] \cup UNION {E[b] : b \in g[n - 1]}
    <2>1. \A n \in 0 .. N : n # 0 => n - 1 \in 0 .. N
      BY <1>2
    <2>2. \A n \in 0 .. N : n # 0 => Grown(g[n - 1]) = Before1(n)
      BY <1>3, <1>4, <2>1
    <2>3. g = [n \in 0 .. N |-> IF n = 0 THEN start ELSE Before1(n)]
      BY <1>4 DEF Search
    <2> HIDE DEF Before1, Grown, N
    <2> QED
      BY <2>2, <2>3
  <1>6. reach = [n \in 0 .. N |-> IF n = 0 THEN start ELSE Grown(reach[n - 1])]
    <2> HIDE DEF Grown, N
    <2> QED
      BY <1>5
  <1>7. ReachFrom(start, among) = reach[N]
    BY DEF ReachFrom
  <1> HIDE DEF reach
  <1>8. reach[0] = start
    BY <1>2, <1>6
  <1>9. \A n \in 1 .. N : reach[n - 1] \subseteq Met
                            => reach[n] = reach[n - 1] \cup UNION {E[b] : b \in reach[n - 1]}
    <2>1. \A n \in 1 .. N : n \in 0 .. N /\ n # 0
      BY <1>2
    <2>2. \A n \in 1 .. N : reach[n] = Grown(reach[n - 1])
      <3> HIDE DEF Grown, N
      <3> QED
        BY <1>6, <2>1
    <2> HIDE DEF Grown, N, E
    <2> QED
      BY <1>3, <2>2
  <1>10. reach[N] = Least(Met, start, E)
    <2>1. Cardinality(Met) <= N /\ N \in Nat /\ IsFiniteSet(Met)
      BY <1>2
    <2>2. \A b \in Met : E[b] \subseteq Met
      BY <1>1
    <2> HIDE DEF N, E
    <2> QED
      BY <1>8, <1>9, <2>1, <2>2, Rounds
  <1> QED
    BY <1>7, <1>10 DEF Reached

-----------------------------------------------------------------------------
(***************************************************************************)
(* Semidominators, as EarliestInto defines them.                           *)
(***************************************************************************)
Later(w) == {b \in Met : timeIn[b] > timeIn[w]}
Starts(w) == {v \in Met : \E b \in Reached({v}, Later(w)) : w \in Succ(b)}

(* A predecessor is a start, by the path without other blocks.             *)
LEMMA OwnStart ==
  ASSUME Walked, NEW w \in Met, NEW y \in Met, w \in Succ(y)
  PROVE  y \in Starts(w)
  <1>1. y \in Reached({y}, Later(w))
    <2>1. {y} \subseteq Met
      OBVIOUS
    <2>2. {y} \subseteq Reached({y}, Later(w))
      BY <2>1, ReachedFacts
    <2> QED
      BY <2>2
  <1> QED
    BY <1>1 DEF Starts

(* What leads to a start of w by a block after w is a start of w.          *)
LEMMA StartBefore ==
  ASSUME Walked, NEW w \in Met, NEW z \in Met, NEW n \in Starts(w), n \in Succ(z),
         timeIn[n] > timeIn[w]
  PROVE  z \in Starts(w)
  <1>1. n \in Met /\ n \in Later(w)
    BY DEF Starts, Later
  <1>2. {z} \subseteq Met
    OBVIOUS
  <1>3. z \in Reached({z}, Later(w))
    <2>1. {z} \subseteq Reached({z}, Later(w))
      BY <1>2, ReachedFacts
    <2> QED
      BY <2>1
  <1>4. n \in Reached({z}, Later(w))
    BY <1>1, <1>2, <1>3, ReachedFacts
  <1>5. Reached({n}, Later(w)) \subseteq Reached({z}, Later(w))
    BY <1>2, <1>4, ReachedOn
  <1> QED
    BY <1>5 DEF Starts

(* A start before w is above all that it reaches without going before w,   *)
(* w itself included.                                                      *)
LEMMA StartAbove ==
  ASSUME Walked, NEW w \in Met, NEW v \in Met, timeIn[v] <= timeIn[w]
  PROVE  /\ \A x \in Reached({v}, Later(w)) : Anc(v, x)
         /\ v \in Starts(w) => Anc(v, w)
  <1> DEFINE S == {x \in Met : Anc(v, x)}
  <1>1. v \in S
    BY AncOrder
  <1>2. \A y \in Met, x \in Met : y \in S /\ x \in Succ(y) /\ x \in Later(w) => x \in S
    <2> SUFFICES ASSUME NEW y \in Met, NEW x \in Met, Anc(v, y), x \in Succ(y), x \in Later(w)
                 PROVE  Anc(v, x)
      OBVIOUS
    <2>1. timeIn[v] \in Nat /\ timeIn[w] \in Nat /\ timeIn[x] \in Nat /\ timeIn[x] > timeIn[w]
      BY TreeTimes DEF Later
    <2>2. timeIn[v] <= timeIn[x]
      BY <2>1
    <2> QED
      BY <2>2, StaysBelow
  <1>3. Reached({v}, Later(w)) \subseteq S
    <2>1. {v} \subseteq S /\ {v} \subseteq Met
      BY <1>1
    <2> HIDE DEF S
    <2> QED
      BY <1>2, <2>1, ReachedInduction
  <1>4. ASSUME v \in Starts(w) PROVE Anc(v, w)
    <2>1. PICK b \in Reached({v}, Later(w)) : w \in Succ(b)
      BY <1>4 DEF Starts
    <2>2. b \in Met /\ Anc(v, b)
      BY <1>3, <2>1
    <2> QED
      BY <2>1, <2>2, StaysBelow
  <1> QED
    BY <1>3, <1>4

(* The semidominator is the one earliest start, a proper ancestor.         *)
LEMMA SemiFacts ==
  ASSUME Walked, NEW w \in Met \ {Entry}, NEW s, s = EarliestInto(w)
  PROVE  /\ s \in Starts(w) /\ s \in Met
         /\ \A v \in Starts(w) : timeIn[s] <= timeIn[v]
         /\ Anc(s, w) /\ s # w /\ timeIn[s] < timeIn[w]
         /\ \A v \in Starts(w) : timeIn[v] <= timeIn[s] => v = s
         /\ \A x \in Reached({s}, Later(w)) : Anc(s, x)
  <1>1. \A v \in Met : ReachFrom({v}, Later(w)) = Reached({v}, Later(w))
    BY ReachFromIs
  <1>2. Starts(w) = {v \in Met : w \in UNION {Succ(b) : b \in ReachFrom({v}, Later(w))}}
    BY <1>1 DEF Starts
  <1>3. s = CHOOSE v \in Starts(w) : \A u \in Starts(w) : timeIn[v] <= timeIn[u]
    BY <1>2 DEF EarliestInto, Later
  <1>4. /\ parent[w] \in Met /\ timeIn[parent[w]] < timeIn[w] /\ w \in Succ(parent[w])
    BY ParentFacts
  <1>5. parent[w] \in Starts(w)
    BY <1>4, OwnStart
  <1>6. \E v \in Starts(w) : \A u \in Starts(w) : timeIn[v] <= timeIn[u]
    <2>1. Starts(w) \subseteq Met /\ Starts(w) # {}
      BY <1>5 DEF Starts
    <2> QED
      BY <2>1, Earliest, TreeTimes
  <1>7. s \in Starts(w) /\ \A u \in Starts(w) : timeIn[s] <= timeIn[u]
    BY <1>3, <1>6
  <1>8. s \in Met
    BY <1>7 DEF Starts
  <1>9. timeIn[s] < timeIn[w]
    <2>1. timeIn[s] \in Nat /\ timeIn[w] \in Nat /\ timeIn[parent[w]] \in Nat
      BY <1>4, <1>8, TreeTimes
    <2> QED
      BY <1>4, <1>5, <1>7, <2>1
  <1>10. \A v \in Starts(w) : timeIn[v] <= timeIn[s] => v = s
    <2>1. \A v \in Starts(w) : v \in Met
      BY DEF Starts
    <2>2. \A x, y \in Met : timeIn[x] <= timeIn[y] /\ timeIn[y] <= timeIn[x] => x = y
      BY TreeTimes
    <2> QED
      BY <1>7, <1>8, <2>1, <2>2
  <1>11. timeIn[s] \in Nat /\ timeIn[w] \in Nat
    BY <1>8, TreeTimes
  <1>12. timeIn[s] <= timeIn[w] /\ s # w
    BY <1>9, <1>11
  <1>13. Anc(s, w) /\ \A x \in Reached({s}, Later(w)) : Anc(s, x)
    BY <1>7, <1>8, <1>12, StartAbove
  <1> QED
    BY <1>7, <1>8, <1>9, <1>10, <1>12, <1>13

(* To reach b from a block not after x by blocks after x, one comes to an  *)
(* ancestor of b after x, from which the first block is a start.           *)
LEMMA FirstAncestor ==
  ASSUME Walked, NEW x \in Met, NEW b \in Met, NEW s \in Met,
         timeIn[s] <= timeIn[x], timeIn[b] > timeIn[x], b \in Reached({s}, Later(x))
  PROVE  \E u \in Met : timeIn[u] > timeIn[x] /\ Anc(u, b) /\ s \in Starts(u)
  <1> DEFINE U == {u \in Met : timeIn[u] > timeIn[x] /\ Anc(u, b)}
             A == Later(x) \ U
             Q == Reached({s}, A)
  <1>1. SUFFICES ASSUME \A u \in U : s \notin Starts(u) PROVE FALSE
    OBVIOUS
  <1>2. {s} \subseteq Met /\ \A c \in Met : timeIn[c] \in Nat
    BY TreeTimes
  <1>3. /\ Q \subseteq Met /\ {s} \subseteq Q
        /\ \A y \in Q, c \in A : c \in Succ(y) => c \in Q
        /\ \A c \in Q : c \in {s} \/ c \in A
    <2> HIDE DEF A
    <2> QED
      BY <1>2, ReachedFacts
  <1>4. ASSUME NEW y \in Q, NEW u \in Succ(y), u \in U PROVE FALSE
    <2> DEFINE C == Met \ Starts(u)
    <2>1. s \in C
      BY <1>1, <1>4
    <2>2. u \in Met /\ y \in Met /\ Anc(u, b)
      BY <1>3, <1>4
    <2>3. ASSUME NEW z \in Met, NEW c \in Met, z \in C, c \in Succ(z), c \in A PROVE c \in C
      <3>1. SUFFICES ASSUME c \in Starts(u) PROVE FALSE
        OBVIOUS
      <3>2. ~(timeIn[c] > timeIn[u])
        BY <2>2, <2>3, <3>1, StartBefore
      <3>3. timeIn[c] <= timeIn[u]
        BY <1>2, <2>2, <3>2
      <3>4. Anc(c, u)
        BY <2>2, <3>1, <3>3, StartAbove
      <3>5. Anc(c, b)
        BY <2>2, <3>4, AncOrder
      <3> QED
        BY <2>3, <3>5 DEF Later
    <2>4. Q \subseteq C
      <3>1. {s} \subseteq C
        BY <2>1
      <3> HIDE DEF C, A
      <3> QED
        BY <1>2, <2>3, <3>1, ReachedInduction
    <2>5. y \in Starts(u)
      BY <1>4, <2>2, OwnStart
    <2> QED
      BY <1>4, <2>4, <2>5
  <1>5. Reached({s}, Later(x)) \subseteq Q
    <2>1. \A y \in Met, c \in Met : y \in Q /\ c \in Succ(y) /\ c \in Later(x) => c \in Q
      <3> HIDE DEF Q
      <3> QED
        BY <1>3, <1>4
    <2> HIDE DEF Q
    <2> QED
      BY <1>2, <1>3, <2>1, ReachedInduction
  <1>6. b \in Q /\ b \in U
    BY <1>5, AncOrder
  <1>7. b # s
    BY <1>2
  <1> QED
    BY <1>3, <1>6, <1>7

(* A block reached reaches what is below it, along the tree.               *)
LEMMA ReachedBelow ==
  ASSUME Walked, NEW start, start \subseteq Met, NEW among,
         NEW u \in Reached(start, among), NEW v \in Met, Anc(u, v),
         \A x \in Met : Anc(u, x) /\ Anc(x, v) /\ x # u => x \in among
  PROVE  v \in Reached(start, among)
  <1>1. u \in Met /\ \A y \in Reached(start, among), x \in among :
                       x \in Succ(y) => x \in Reached(start, among)
    BY ReachedFacts
  <1>2. \A x \in Met \ {Entry} :
          Anc(x, v) /\ Anc(u, x) /\ x # u /\ parent[x] \in Reached(start, among)
             => x \in Reached(start, among)
    BY <1>1, ParentFacts
  <1>3. \A x \in Met : Anc(u, x) /\ Anc(x, v) => x \in Reached(start, among)
    <2> DEFINE S == Reached(start, among)
    <2> HIDE DEF S
    <2>1. /\ u \in S
          /\ \A x \in Met \ {Entry} : Anc(x, v) /\ Anc(u, x) /\ x # u /\ parent[x] \in S => x \in S
      BY <1>2 DEF S
    <2>2. \A x \in Met : Anc(u, x) /\ Anc(x, v) => x \in S
      BY <1>1, <2>1, DownTheTree
    <2> QED
      BY <2>2 DEF S
  <1> QED
    BY <1>1, <1>3, AncOrder

(* The semidominator of a later ancestor of a predecessor of w leads to w. *)
LEMMA SemiOfAncestor ==
  ASSUME Walked, NEW w \in Met, NEW b \in Met, w \in Succ(b),
         NEW u \in Met \ {Entry}, timeIn[u] > timeIn[w], Anc(u, b), NEW s, s = EarliestInto(u)
  PROVE  s \in Starts(w)
  <1>1. s \in Starts(u) /\ s \in Met
    BY SemiFacts
  <1>2. PICK y \in Reached({s}, Later(u)) : u \in Succ(y)
    BY <1>1 DEF Starts
  <1>3. \A c \in Met : timeIn[c] \in Nat
    BY TreeTimes
  <1>4. Later(u) \subseteq Later(w) /\ u \in Later(w)
    BY <1>3 DEF Later
  <1>5. {s} \subseteq Met /\ {s} \subseteq Reached({s}, Later(w))
    <2>1. {s} \subseteq Met
      BY <1>1
    <2> QED
      BY <2>1, ReachedFacts
  <1>6. Reached({s}, Later(u)) \subseteq Reached({s}, Later(w))
    BY <1>4, <1>5, ReachedOn
  <1>7. u \in Reached({s}, Later(w))
    BY <1>2, <1>4, <1>5, <1>6, ReachedFacts
  <1>8. \A x \in Met : Anc(u, x) /\ Anc(x, b) /\ x # u => x \in Later(w)
    BY <1>3 DEF Later, Anc
  <1>9. b \in Reached({s}, Later(w))
    BY <1>5, <1>7, <1>8, ReachedBelow
  <1> QED
    BY <1>1, <1>9 DEF Starts

(* The semidominator of w is a predecessor or that of a later ancestor of  *)
(* one.                                                                    *)
LEMMA SemiComesFrom ==
  ASSUME Walked, NEW w \in Met \ {Entry}, NEW s, s = EarliestInto(w)
  PROVE  \E b \in Met :
           /\ w \in Succ(b)
           /\ \/ b = s
              \/ \E u \in Met \ {Entry} :
                   /\ timeIn[u] > timeIn[w] /\ Anc(u, b)
                   /\ timeIn[EarliestInto(u)] <= timeIn[s]
  <1>1. s \in Starts(w) /\ s \in Met /\ timeIn[s] < timeIn[w]
    BY SemiFacts
  <1>2. PICK b \in Reached({s}, Later(w)) : w \in Succ(b)
    BY <1>1 DEF Starts
  <1>3. {s} \subseteq Met
    BY <1>1
  <1>4. b \in Met /\ (b = s \/ b \in Later(w))
    BY <1>2, <1>3, ReachedFacts
  <1>5. CASE b = s
    BY <1>2, <1>4, <1>5
  <1>6. CASE b \in Later(w)
    <2>1. timeIn[s] <= timeIn[w] /\ timeIn[b] > timeIn[w]
      BY <1>1, <1>6, TreeTimes DEF Later
    <2>2. PICK u \in Met : timeIn[u] > timeIn[w] /\ Anc(u, b) /\ s \in Starts(u)
      BY <1>1, <1>2, <1>4, <2>1, FirstAncestor
    <2>3. u # Entry
      BY <2>2, TreeTimes
    <2>4. timeIn[EarliestInto(u)] <= timeIn[s]
      BY <2>2, <2>3, SemiFacts
    <2> QED
      BY <1>2, <1>4, <2>2, <2>3, <2>4
  <1> QED
    BY <1>4, <1>5, <1>6

-----------------------------------------------------------------------------
(***************************************************************************)
(* Dominance, and what semidominators tell of it.                          *)
(***************************************************************************)
Avoiding(x) == Reached({Entry}, Met \ {x})

(* The blocks reached around x are those that x does not dominate.         *)
LEMMA AvoidingFacts ==
  ASSUME Walked, NEW x \in Met \ {Entry}
  PROVE  /\ Entry \in Avoiding(x) /\ Avoiding(x) \subseteq Met /\ x \notin Avoiding(x)
         /\ \A y \in Avoiding(x) : \A z \in Succ(y) : z # x => z \in Avoiding(x)
         /\ \A y \in Met : Dominates(x, y) <=> x = y \/ y \notin Avoiding(x)
  <1>1. Entry \in Met /\ {Entry} \subseteq Met
    BY TreeTimes
  <1>2. /\ {Entry} \subseteq Avoiding(x) /\ Avoiding(x) \subseteq Met
        /\ \A y \in Avoiding(x), z \in Met \ {x} : z \in Succ(y) => z \in Avoiding(x)
        /\ \A y \in Avoiding(x) : y \in {Entry} \/ y \in Met \ {x}
    BY <1>1, ReachedFacts DEF Avoiding
  <1>3. \A y \in Avoiding(x) : Succ(y) \subseteq Met
    BY <1>2, ArcsInTree
  <1>4. \A y \in Met : Dominates(x, y) <=> x = y \/ y \notin Avoiding(x)
    BY <1>1, ReachFromIs DEF Dominates, Avoiding
  <1>5. Entry \in Avoiding(x) /\ x \notin Avoiding(x)
    BY <1>2
  <1>6. \A y \in Avoiding(x) : \A z \in Succ(y) : z # x => z \in Avoiding(x)
    BY <1>2, <1>3
  <1> QED
    BY <1>2, <1>4, <1>5, <1>6

(* With a block, what is below it but not below x is reached around x.     *)
LEMMA AvoidingBelow ==
  ASSUME Walked, NEW x \in Met \ {Entry}, NEW u \in Avoiding(x), NEW v \in Met, Anc(u, v),
         timeIn[x] < timeIn[u] \/ ~Anc(x, v)
  PROVE  v \in Avoiding(x)
  <1>1. Entry \in Met /\ {Entry} \subseteq Met /\ Avoiding(x) \subseteq Met
    BY AvoidingFacts, TreeTimes
  <1>2. \A z \in Met : Anc(u, z) /\ Anc(z, v) => z \in Met \ {x}
    <2>1. timeIn[x] \in Nat /\ timeIn[u] \in Nat
      BY <1>1, TreeTimes
    <2> QED
      BY <2>1 DEF Anc
  <1> QED
    BY <1>1, <1>2, ReachedBelow DEF Avoiding

(* Dominators are ancestors. *)
LEMMA DominatorsAbove ==
  ASSUME Walked, NEW x \in Met, NEW y \in Met, Dominates(x, y)
  PROVE  Anc(x, y)
  <1>1. CASE x = Entry
    BY <1>1, EntryAbove
  <1>2. CASE x # Entry
    <2>1. x = y \/ y \notin Avoiding(x)
      BY <1>2, AvoidingFacts
    <2>2. Entry \in Avoiding(x) /\ Anc(Entry, y)
      BY <1>2, AvoidingFacts, EntryAbove
    <2>3. ~Anc(x, y) => y \in Avoiding(x)
      BY <1>2, <2>2, AvoidingBelow
    <2> QED
      BY <2>1, <2>3, AncOrder
  <1> QED
    BY <1>1, <1>2

(* Dominance is an order, with the entry first.                            *)
LEMMA DominatesOrder ==
  ASSUME Walked
  PROVE  /\ \A x \in Met : Dominates(x, x) /\ Dominates(Entry, x)
         /\ \A x \in Met : Dominates(x, Entry) <=> x = Entry
         /\ \A x, y, z \in Met : Dominates(x, y) /\ Dominates(y, z) => Dominates(x, z)
         /\ \A x, y \in Met : Dominates(x, y) /\ Dominates(y, x) => x = y
  <1>1. \A x \in Met : Dominates(x, x) /\ Dominates(Entry, x)
    BY DEF Dominates
  <1>2. Entry \in Met
    BY TreeTimes
  <1>3. \A x \in Met : Dominates(x, Entry) <=> x = Entry
    BY <1>1, <1>2, AvoidingFacts
  <1>4. ASSUME NEW x \in Met, NEW y \in Met, NEW z \in Met, Dominates(x, y), Dominates(y, z),
               ~Dominates(x, z)
        PROVE  FALSE
    <2>1. x # Entry /\ x # z /\ x # y
      BY <1>1, <1>4
    <2>2. y # Entry /\ y # z
      BY <1>2, <1>3, <1>4, <2>1
    <2>3. z \in Avoiding(x) /\ y \notin Avoiding(x) /\ z \notin Avoiding(y)
      BY <1>4, <2>1, <2>2, AvoidingFacts
    <2>4. /\ Entry \in Avoiding(x) /\ Avoiding(x) \subseteq Met
          /\ \A c \in Avoiding(x) : \A d \in Succ(c) : d # x => d \in Avoiding(x)
      BY <2>1, AvoidingFacts
    <2>5. /\ Entry \in Avoiding(y)
          /\ \A c \in Avoiding(y) : \A d \in Succ(c) : d # y => d \in Avoiding(y)
      BY <2>2, AvoidingFacts
    <2> DEFINE S == Avoiding(x) \cap Avoiding(y)
    <2>6. \A c \in Met, d \in Met : c \in S /\ d \in Succ(c) /\ d \in Met \ {x} => d \in S
      BY <2>3, <2>4, <2>5
    <2>7. {Entry} \subseteq S /\ {Entry} \subseteq Met
      BY <1>2, <2>4, <2>5
    <2>8. Reached({Entry}, Met \ {x}) \subseteq S
      <3> HIDE DEF S
      <3> QED
        BY <2>6, <2>7, ReachedInduction
    <2> QED
      BY <2>3, <2>8 DEF Avoiding
  <1>5. ASSUME NEW x \in Met, NEW y \in Met, Dominates(x, y), Dominates(y, x) PROVE x = y
    <2>1. Anc(x, y) /\ Anc(y, x)
      BY <1>5, DominatorsAbove
    <2>2. timeIn[x] = timeIn[y]
      BY <2>1, TreeTimes DEF Anc
    <2> QED
      BY <2>2, TreeTimes
  <1> QED
    BY <1>1, <1>3, <1>4, <1>5

(* What dominates w, but w itself, dominates its semidominator.            *)
LEMMA SemiDominated ==
  ASSUME Walked, NEW w \in Met \ {Entry}, NEW s, s = EarliestInto(w), NEW x \in Met, x # w,
         Dominates(x, w)
  PROVE  Dominates(x, s)
  <1>1. s \in Starts(w) /\ s \in Met
    BY SemiFacts
  <1>2. SUFFICES ASSUME ~Dominates(x, s) PROVE FALSE
    OBVIOUS
  <1>3. x # Entry
    BY <1>1, <1>2, DominatesOrder
  <1>4. s \in Avoiding(x) /\ w \notin Avoiding(x)
    BY <1>1, <1>2, <1>3, AvoidingFacts
  <1>5. timeIn[x] < timeIn[w]
    BY DominatorsAbove, AncOrder
  <1>6. Later(w) \subseteq Met \ {x}
    BY <1>5, TreeTimes DEF Later
  <1>7. Reached({s}, Later(w)) \subseteq Avoiding(x)
    <2>1. {Entry} \subseteq Met
      BY TreeTimes
    <2> QED
      BY <1>4, <1>6, <2>1, ReachedOn DEF Avoiding
  <1>8. PICK b \in Reached({s}, Later(w)) : w \in Succ(b)
    BY <1>1 DEF Starts
  <1> QED
    BY <1>3, <1>4, <1>7, <1>8, AvoidingFacts

(* A way to w around an ancestor x comes in above x at a block between.    *)
LEMMA WayAround ==
  ASSUME Walked, NEW x \in Met \ {Entry}, NEW w \in Met, Anc(x, w), x # w, w \in Avoiding(x)
  PROVE  \E z \in Met \ {Entry} : /\ Anc(z, w) /\ timeIn[z] > timeIn[x]
                                  /\ timeIn[EarliestInto(z)] < timeIn[x]
  <1> DEFINE Reaches(y, v) == timeIn[y] < timeIn[x] /\ v \in Reached({y}, Later(x))
             S == {v \in Met : timeIn[v] < timeIn[x] \/ \E y \in Met : Reaches(y, v)}
  <1>1. \A c \in Met : timeIn[c] \in Nat
    BY TreeTimes
  <1>2. Entry \in Met /\ timeIn[Entry] < timeIn[x] /\ {Entry} \subseteq Met
    BY TreeTimes
  <1>3. timeIn[x] < timeIn[w]
    BY AncOrder
  <1>4. ASSUME NEW y \in Met PROVE y \in Reached({y}, Later(x))
    <2>1. {y} \subseteq Met
      OBVIOUS
    <2>2. {y} \subseteq Reached({y}, Later(x))
      BY <2>1, ReachedFacts
    <2> QED
      BY <2>2
  <1>5. ASSUME NEW c \in Met, NEW d \in Met, c \in S, d \in Succ(c), d \in Met \ {x} PROVE d \in S
    <2>1. CASE timeIn[d] < timeIn[x]
      BY <2>1
    <2>2. CASE ~(timeIn[d] < timeIn[x])
      <3>1. timeIn[d] > timeIn[x] /\ d \in Later(x)
        BY <1>1, <1>5, <2>2, TreeTimes DEF Later
      <3>2. \A y \in Met : Reaches(y, c) => Reaches(y, d)
        <4> SUFFICES ASSUME NEW y \in Met, Reaches(y, c) PROVE d \in Reached({y}, Later(x))
          OBVIOUS
        <4>1. {y} \subseteq Met
          OBVIOUS
        <4> QED
          BY <1>5, <3>1, <4>1, ReachedFacts
      <3>3. timeIn[c] < timeIn[x] => Reaches(c, c)
        BY <1>4
      <3>4. \E y \in Met : Reaches(y, d)
        BY <1>5, <3>2, <3>3
      <3> QED
        BY <3>4
    <2> QED
      BY <2>1, <2>2
  <1>6. w \in S
    <2>1. {Entry} \subseteq S
      BY <1>2
    <2>2. Reached({Entry}, Met \ {x}) \subseteq S
      <3> HIDE DEF S
      <3> QED
        BY <1>2, <1>5, <2>1, ReachedInduction
    <2> QED
      BY <2>2 DEF Avoiding
  <1>7. PICK y \in Met : timeIn[y] < timeIn[x] /\ w \in Reached({y}, Later(x))
    <2>1. ~(timeIn[w] < timeIn[x])
      BY <1>1, <1>3
    <2>2. \E y \in Met : Reaches(y, w)
      <3> HIDE DEF Reaches
      <3> QED
        BY <1>6, <2>1
    <2> QED
      BY <2>2
  <1>8. timeIn[y] <= timeIn[x] /\ timeIn[w] > timeIn[x]
    BY <1>1, <1>3, <1>7
  <1>9. PICK z \in Met : timeIn[z] > timeIn[x] /\ Anc(z, w) /\ y \in Starts(z)
    BY <1>7, <1>8, FirstAncestor
  <1>10. z # Entry
    BY <1>1, <1>2, <1>9
  <1>11. timeIn[EarliestInto(z)] <= timeIn[y] /\ EarliestInto(z) \in Met
    BY <1>9, <1>10, SemiFacts
  <1>12. timeIn[EarliestInto(z)] < timeIn[x]
    BY <1>1, <1>7, <1>11
  <1> QED
    BY <1>9, <1>10, <1>12

(* The blocks on the tree between the semidominator of w and w, the last   *)
(* one included.                                                           *)
Stretch(w) == {z \in Met : Anc(z, w) /\ timeIn[z] > timeIn[EarliestInto(w)]}

(* If no block on the stretch has an earlier semidominator, that of w is   *)
(* its immediate dominator.                                                *)
LEMMA SemiDominates ==
  ASSUME Walked, NEW w \in Met \ {Entry}, NEW s, s = EarliestInto(w),
         \A z \in Stretch(w) : timeIn[s] <= timeIn[EarliestInto(z)], NEW x \in Met
  PROVE  (x # w /\ Dominates(x, w)) <=> Dominates(x, s)
  <1>1. s \in Met /\ Anc(s, w) /\ s # w /\ timeIn[s] < timeIn[w]
    BY SemiFacts
  <1>2. \A c \in Met : timeIn[c] \in Nat
    BY TreeTimes
  <1>3. Dominates(s, w)
    <2>1. SUFFICES ASSUME ~Dominates(s, w) PROVE FALSE
      OBVIOUS
    <2>2. s # Entry
      BY <2>1, DominatesOrder
    <2>3. w \in Avoiding(s)
      BY <1>1, <2>1, <2>2, AvoidingFacts
    <2>4. PICK z \in Met \ {Entry} : /\ Anc(z, w) /\ timeIn[z] > timeIn[s]
                                     /\ timeIn[EarliestInto(z)] < timeIn[s]
      BY <1>1, <2>2, <2>3, WayAround
    <2>5. EarliestInto(z) \in Met /\ z \in Stretch(w)
      BY <2>4, SemiFacts DEF Stretch
    <2> QED
      BY <1>1, <1>2, <2>4, <2>5
  <1>4. ASSUME Dominates(x, s) PROVE x # w /\ Dominates(x, w)
    <2>1. Dominates(x, w)
      BY <1>1, <1>3, <1>4, DominatesOrder
    <2>2. Anc(x, s)
      BY <1>1, <1>4, DominatorsAbove
    <2>3. x # w
      BY <1>1, <1>2, <2>2 DEF Anc
    <2> QED
      BY <2>1, <2>3
  <1> QED
    BY <1>4, SemiDominated

(* Otherwise w has the dominators of the block on the stretch whose        *)
(* semidominator is earliest.                                              *)
LEMMA DominatedAlike ==
  ASSUME Walked, NEW w \in Met \ {Entry}, NEW s, s = EarliestInto(w),
         NEW u \in Stretch(w),
         \A z \in Stretch(w) : timeIn[EarliestInto(u)] <= timeIn[EarliestInto(z)],
         timeIn[EarliestInto(u)] < timeIn[s], NEW x \in Met
  PROVE  (x # w /\ Dominates(x, w)) <=> (x # u /\ Dominates(x, u))
  <1>1. s \in Met /\ Anc(s, w) /\ s # w /\ timeIn[s] < timeIn[w]
    BY SemiFacts
  <1>2. \A c \in Met : timeIn[c] \in Nat
    BY TreeTimes
  <1>3. u \in Met /\ Anc(u, w) /\ timeIn[u] > timeIn[s] /\ u # Entry
    BY <1>1, TreeTimes DEF Stretch
  <1>4. EarliestInto(u) \in Met
    BY <1>3, SemiFacts
  <1>5. ASSUME x # w, Dominates(x, w) PROVE x # u /\ Dominates(x, u)
    <2>1. Dominates(x, s)
      BY <1>5, SemiDominated
    <2>2. Anc(x, s)
      BY <1>1, <2>1, DominatorsAbove
    <2>3. timeIn[x] < timeIn[u] /\ x # u
      BY <1>1, <1>2, <1>3, <2>2 DEF Anc
    <2>4. SUFFICES ASSUME ~Dominates(x, u) PROVE FALSE
      BY <2>3
    <2>5. x # Entry
      BY <1>3, <2>4, DominatesOrder
    <2>6. u \in Avoiding(x) /\ w \notin Avoiding(x)
      BY <1>3, <1>5, <2>4, <2>5, AvoidingFacts
    <2> QED
      BY <1>3, <2>3, <2>5, <2>6, AvoidingBelow
  <1>6. ASSUME x # u, Dominates(x, u) PROVE x # w /\ Dominates(x, w)
    <2>1. Dominates(x, EarliestInto(u))
      BY <1>3, <1>6, SemiDominated
    <2>2. Anc(x, EarliestInto(u))
      BY <1>4, <2>1, DominatorsAbove
    <2>3. timeIn[x] < timeIn[s] /\ timeIn[x] <= timeIn[EarliestInto(u)]
      BY <1>1, <1>2, <1>4, <2>2 DEF Anc
    <2>4. Anc(x, u)
      BY <1>3, <1>6, DominatorsAbove
    <2>5. Anc(x, w) /\ x # w
      <3>1. Anc(x, w)
        BY <1>3, <2>4, AncOrder
      <3> QED
        BY <1>1, <1>2, <2>3, <3>1
    <2>6. SUFFICES ASSUME ~Dominates(x, w) PROVE FALSE
      BY <2>5
    <2>7. x # Entry
      BY <2>6, DominatesOrder
    <2>8. w \in Avoiding(x) /\ u \notin Avoiding(x)
      BY <1>3, <1>6, <2>6, <2>7, AvoidingFacts
    <2>9. PICK z \in Met \ {Entry} : /\ Anc(z, w) /\ timeIn[z] > timeIn[x]
                                     /\ timeIn[EarliestInto(z)] < timeIn[x]
      BY <2>5, <2>7, <2>8, WayAround
    <2> DEFINE a == EarliestInto(z)
    <2>10. a \in Met /\ a \in Starts(z)
      BY <2>9, SemiFacts
    <2> HIDE DEF a
    <2>11. CASE timeIn[z] > timeIn[s]
      <3>1. z \in Stretch(w)
        BY <2>9, <2>11 DEF Stretch
      <3>2. timeIn[EarliestInto(u)] <= timeIn[a]
        BY <3>1 DEF a
      <3>3. timeIn[a] < timeIn[x]
        BY <2>9 DEF a
      <3> QED
        BY <1>2, <1>4, <2>3, <2>10, <3>2, <3>3
    <2>12. CASE ~(timeIn[z] > timeIn[s])
      <3>1. timeIn[z] <= timeIn[u]
        BY <1>1, <1>2, <1>3, <2>12
      <3>2. Anc(z, u)
        BY <1>3, <2>9, <3>1, AncOrder
      <3>3. Entry \in Avoiding(x) /\ Anc(Entry, a)
        BY <2>7, <2>10, AvoidingFacts, EntryAbove
      <3>4. timeIn[a] < timeIn[x]
        BY <2>9 DEF a
      <3>5. ~Anc(x, a)
        BY <1>2, <2>10, <3>4 DEF Anc
      <3>6. a \in Avoiding(x)
        BY <2>7, <2>10, <3>3, <3>5, AvoidingBelow
      <3>7. PICK b \in Reached({a}, Later(z)) : z \in Succ(b)
        BY <2>10 DEF Starts
      <3>8. Later(z) \subseteq Met \ {x}
        BY <1>2, <2>9 DEF Later
      <3>9. {Entry} \subseteq Met
        BY TreeTimes
      <3>10. Reached({a}, Later(z)) \subseteq Avoiding(x)
        BY <3>6, <3>8, <3>9, ReachedOn DEF Avoiding
      <3>11. z # x
        BY <1>2, <2>9
      <3>12. z \in Avoiding(x)
        BY <2>7, <3>7, <3>10, <3>11, AvoidingFacts
      <3>13. timeIn[x] < timeIn[z]
        BY <1>2, <2>9
      <3>14. u \in Avoiding(x)
        BY <1>3, <2>7, <3>2, <3>12, <3>13, AvoidingBelow
      <3> QED
        BY <2>8, <3>14
    <2> QED
      BY <2>11, <2>12
  <1> QED
    BY <1>5, <1>6

-----------------------------------------------------------------------------
(***************************************************************************)
(* The forest of findMin, when the blocks of P are linked.                 *)
(***************************************************************************)
Forests == [ancestor : [Met -> Met \cup {None}], label : [Met -> Met], sdom : [Met -> Met],
            dominator : [Met -> Met \cup {None}]]

Between(a, c) == {x \in Met : Anc(a, x) /\ Anc(x, c) /\ x # a}

(* The blocks of P are the last ones of the traversal.                     *)
Latest(P) ==
  /\ P \subseteq Met \ {Entry}
  /\ \A x \in P, y \in Met : timeIn[x] < timeIn[y] => y \in P

LeastOn(S, u) == u \in S /\ \A x \in S : timeIn[EarliestInto(u)] <= timeIn[EarliestInto(x)]

Linked(f, P) ==
  /\ f \in Forests
  /\ \A c \in Met \ P : f.ancestor[c] = None /\ f.label[c] = c
  /\ \A c \in P : /\ f.ancestor[c] \in Met /\ f.ancestor[c] # c /\ Anc(f.ancestor[c], c)
                  /\ Between(f.ancestor[c], c) \subseteq P
                  /\ LeastOn(Between(f.ancestor[c], c), f.label[c])
                  /\ f.sdom[c] = EarliestInto(c)

LinkedAbove(P, c) == {x \in P : Anc(x, c)}

(* The fields of a forest are of their kinds.                              *)
LEMMA ForestTypes ==
  ASSUME NEW f \in Forests
  PROVE  /\ f.ancestor \in [Met -> Met \cup {None}] /\ f.label \in [Met -> Met]
         /\ f.sdom \in [Met -> Met] /\ f.dominator \in [Met -> Met \cup {None}]
  BY DEF Forests

(* None is not a block.                                                    *)
LEMMA NoneNotMet ==
  ASSUME Walked
  PROVE  None \notin Met
  BY ClockFacts, BlocksFinite DEF Walked, WalkInv

(* A recursion up the tree has a solution.                                 *)
LEMMA UpwardExists ==
  ASSUME Walked, NEW p, \A c \in Met : p[c] = None \/ (p[c] \in Met /\ timeIn[p[c]] < timeIn[c]),
         NEW D, NEW base, \A c \in Met : base[c] \in D,
         NEW step, \A c \in Met : \A x \in D : step[c][x] \in D
  PROVE  \E g : Follows(g, Met, p, base, step) /\ \A c \in Met : g[c] \in D
  <1>1. Clock + 1 \in Nat /\ \A c \in Met : timeIn[c] \in Nat /\ timeIn[c] < Clock + 1
    BY ClockFacts, TreeTimes DEF Walked, WalkInv, WalkTypes
  <1>2. PICK g : Follows(g, Met, p, base, step)
    <2> DEFINE N == Clock + 1
    <2>1. N \in Nat /\ \A c \in Met : timeIn[c] \in Nat /\ timeIn[c] < N
      BY <1>1
    <2> HIDE DEF N
    <2> QED
      BY <2>1, RecursionExists
  <1> DEFINE V == [c \in Met |-> D]
  <1>3. \A c \in Met : /\ p[c] = None => base[c] \in V[c]
                       /\ p[c] # None => \A x \in V[p[c]] : step[c][x] \in V[c]
    OBVIOUS
  <1>4. \A c \in Met : g[c] \in V[c]
    <2> HIDE DEF V
    <2> QED
      BY <1>1, <1>2, <1>3, RecursionWithin
  <1>5. \A c \in Met : g[c] \in D
    BY <1>4
  <1> QED
    BY <1>2, <1>5

(* An ancestor in the forest is an earlier block, and only linked blocks   *)
(* have one.                                                               *)
LEMMA LinkedUp ==
  ASSUME Walked, NEW P, Latest(P), NEW f, Linked(f, P)
  PROVE  \A c \in Met : f.ancestor[c] = None \/ (/\ c \in P /\ f.ancestor[c] \in Met
                                                 /\ timeIn[f.ancestor[c]] < timeIn[c])
  BY AncOrder DEF Linked, Latest

(* Best is what it says. *)
LEMMA BestEquation ==
  ASSUME Walked, NEW P, Latest(P), NEW f, Linked(f, P)
  PROVE  \A c \in Met :
           LET a == f.ancestor[c]
           IN  Best(f)[c] = IF a = None \/ f.ancestor[a] = None THEN f.label[c]
                            ELSE IF Below(f, Best(f)[a], f.label[c]) THEN Best(f)[a]
                                 ELSE f.label[c]
  <1> DEFINE base == f.label
             p == [c \in Met |-> IF f.ancestor[c] = None \/ f.ancestor[f.ancestor[c]] = None
                                 THEN None ELSE f.ancestor[c]]
             step == [c \in Met |-> [x \in Met |-> IF Below(f, x, f.label[c]) THEN x
                                                   ELSE f.label[c]]]
  <1>1. /\ \A c \in Met : f.label[c] \in Met
        /\ \A c \in Met : p[c] = None \/ (p[c] \in Met /\ timeIn[p[c]] < timeIn[c])
    BY ForestTypes, LinkedUp DEF Linked
  <1>2. \A c \in Met : \A x \in Met : step[c][x] \in Met
    BY <1>1
  <1>3. PICK g : Follows(g, Met, p, base, step) /\ \A c \in Met : g[c] \in Met
    <2> HIDE DEF p, step
    <2> QED
      BY <1>1, <1>2, UpwardExists
  <1> DEFINE value(h, c) == IF f.ancestor[c] = None \/ f.ancestor[f.ancestor[c]] = None
                            THEN f.label[c]
                            ELSE IF Below(f, h[f.ancestor[c]], f.label[c]) THEN h[f.ancestor[c]]
                                 ELSE f.label[c]
  <1>4. g = [c \in Met |-> value(g, c)]
    <2>1. g = [c \in Met |-> IF p[c] = None THEN base[c] ELSE step[c][g[p[c]]]]
      BY <1>3 DEF Follows
    <2>2. ASSUME NEW c \in Met
          PROVE  (IF p[c] = None THEN base[c] ELSE step[c][g[p[c]]]) = value(g, c)
      <3>1. CASE f.ancestor[c] = None \/ f.ancestor[f.ancestor[c]] = None
        BY <3>1
      <3>2. CASE ~(f.ancestor[c] = None \/ f.ancestor[f.ancestor[c]] = None)
        <4>1. p[c] = f.ancestor[c] /\ p[c] # None /\ p[c] \in Met
          BY <1>1, <3>2
        <4>2. g[p[c]] \in Met
          BY <1>3, <4>1
        <4> QED
          BY <3>2, <4>1, <4>2
      <3> QED
        BY <3>1, <3>2
    <2> HIDE DEF p, base, step, value
    <2> QED
      BY <2>1, <2>2
  <1>5. Best(f) = CHOOSE h : h = [c \in Met |-> value(h, c)]
    BY DEF Best
  <1>6. Best(f) = [c \in Met |-> value(Best(f), c)]
    <2> HIDE DEF value
    <2> QED
      BY <1>4, <1>5
  <1> QED
    BY <1>6

(* A linked block has a semidominator, which is before it.                 *)
LEMMA SemiTimes ==
  ASSUME Walked, NEW P, Latest(P)
  PROVE  \A x \in P : /\ x \in Met /\ x # Entry /\ EarliestInto(x) \in Met
                      /\ timeIn[EarliestInto(x)] \in Nat /\ timeIn[EarliestInto(x)] < timeIn[x]
  BY SemiFacts, TreeTimes DEF Latest

(* Of the least blocks of two sets one is least of both.                   *)
LEMMA LeastOfTwo ==
  ASSUME Walked, NEW P, Latest(P), NEW S, S \subseteq P, NEW T, T \subseteq P,
         NEW u, LeastOn(S, u), NEW v, LeastOn(T, v),
         NEW w, w = IF timeIn[EarliestInto(u)] < timeIn[EarliestInto(v)] THEN u ELSE v
  PROVE  LeastOn(S \cup T, w)
  <1> DEFINE d(x) == timeIn[EarliestInto(x)]
  <1>1. \A x \in P : d(x) \in Nat
    BY SemiTimes
  <1>2. /\ u \in S /\ \A x \in S : d(u) <= d(x)
        /\ v \in T /\ \A x \in T : d(v) <= d(x)
        /\ w = IF d(u) < d(v) THEN u ELSE v
    BY DEF LeastOn
  <1> HIDE DEF d
  <1>3. w \in S \cup T /\ d(w) <= d(u) /\ d(w) <= d(v)
    BY <1>1, <1>2
  <1>4. \A x \in S \cup T : d(w) <= d(x)
    BY <1>1, <1>2, <1>3
  <1> QED
    BY <1>3, <1>4 DEF LeastOn, d

(* findMin finds the block of least semidominator among the linked ones    *)
(* above b.                                                                *)
LEMMA FindMinIs ==
  ASSUME Walked, NEW P, Latest(P), NEW f, Linked(f, P), NEW b \in Met
  PROVE  /\ b \in P => LeastOn(LinkedAbove(P, b), FindMin(f, b))
         /\ b \notin P => FindMin(f, b) = b
  <1> DEFINE S == {c \in Met : c \in P => LeastOn(LinkedAbove(P, c), Best(f)[c])}
  <1>1. None \notin Met /\ \A c \in Met : timeIn[c] \in Nat
    BY NoneNotMet, TreeTimes
  <1>2. P \subseteq Met
    BY DEF Latest
  <1>3. ASSUME NEW c \in Met, \A d \in Met : timeIn[d] < timeIn[c] => d \in S PROVE c \in S
    <2>1. SUFFICES ASSUME c \in P PROVE LeastOn(LinkedAbove(P, c), Best(f)[c])
      OBVIOUS
    <2> DEFINE a == f.ancestor[c]
    <2>2. /\ a \in Met /\ a # c /\ Anc(a, c)
          /\ Between(a, c) \subseteq P
          /\ LeastOn(Between(a, c), f.label[c])
      BY <2>1 DEF Linked
    <2>3. timeIn[a] < timeIn[c]
      BY <2>2, AncOrder
    <2>4. a \in P <=> f.ancestor[a] # None
      BY <1>1, <2>2 DEF Linked
    <2>5. Best(f)[c] = IF a = None \/ f.ancestor[a] = None THEN f.label[c]
                       ELSE IF Below(f, Best(f)[a], f.label[c]) THEN Best(f)[a] ELSE f.label[c]
      BY BestEquation
    <2> HIDE DEF a
    <2>6. CASE a \notin P
      <3>1. ASSUME NEW x \in P, Anc(x, c) PROVE x \in Between(a, c)
        <4>1. x # a /\ x \in Met
          BY <1>2, <2>6
        <4>2. ~(timeIn[x] < timeIn[a])
          BY <2>2, <2>6 DEF Latest
        <4>3. timeIn[a] <= timeIn[x]
          BY <1>1, <2>2, <4>1, <4>2
        <4> QED
          BY <2>2, <3>1, <4>1, <4>3, AncOrder DEF Between
      <3>2. LinkedAbove(P, c) = Between(a, c)
        BY <2>2, <3>1 DEF LinkedAbove, Between
      <3> QED
        BY <2>2, <2>4, <2>5, <2>6, <3>2
    <2>7. CASE a \in P
      <3>1. LeastOn(LinkedAbove(P, a), Best(f)[a])
        BY <1>3, <2>2, <2>3, <2>7
      <3>2. ASSUME NEW x \in P, Anc(x, c) PROVE x \in LinkedAbove(P, a) \/ x \in Between(a, c)
        <4>1. x \in Met
          BY <1>2
        <4>2. CASE timeIn[x] <= timeIn[a]
          BY <2>2, <3>2, <4>1, <4>2, AncOrder DEF LinkedAbove
        <4>3. CASE ~(timeIn[x] <= timeIn[a])
          <5>1. timeIn[a] <= timeIn[x] /\ x # a
            BY <1>1, <2>2, <4>1, <4>3
          <5> QED
            BY <2>2, <3>2, <4>1, <5>1, AncOrder DEF Between
        <4> QED
          BY <4>2, <4>3
      <3>3. ASSUME NEW x \in LinkedAbove(P, a) PROVE x \in LinkedAbove(P, c)
        BY <1>2, <2>2, <3>3, AncOrder DEF LinkedAbove
      <3>4. LinkedAbove(P, c) = LinkedAbove(P, a) \cup Between(a, c)
        BY <2>2, <3>2, <3>3 DEF LinkedAbove, Between
      <3>5. /\ f.sdom[Best(f)[a]] = EarliestInto(Best(f)[a])
            /\ f.sdom[f.label[c]] = EarliestInto(f.label[c])
        BY <2>2, <3>1 DEF Linked, LeastOn, LinkedAbove
      <3>6. Best(f)[c] = IF timeIn[EarliestInto(Best(f)[a])] < timeIn[EarliestInto(f.label[c])]
                         THEN Best(f)[a] ELSE f.label[c]
        BY <1>1, <2>2, <2>4, <2>5, <2>7, <3>5 DEF Below
      <3>7. LinkedAbove(P, a) \subseteq P
        BY DEF LinkedAbove
      <3> DEFINE S1 == LinkedAbove(P, a)
                 T1 == Between(a, c)
                 u1 == Best(f)[a]
                 v1 == f.label[c]
                 w1 == Best(f)[c]
      <3>8. /\ S1 \subseteq P /\ T1 \subseteq P /\ LeastOn(S1, u1) /\ LeastOn(T1, v1)
            /\ w1 = IF timeIn[EarliestInto(u1)] < timeIn[EarliestInto(v1)] THEN u1 ELSE v1
        BY <2>2, <3>1, <3>6, <3>7
      <3> HIDE DEF S1, T1, u1, v1, w1
      <3>9. LeastOn(S1 \cup T1, w1)
        BY <3>8, LeastOfTwo
      <3> QED
        BY <3>4, <3>9 DEF S1, T1, w1
    <2> QED
      BY <2>6, <2>7
  <1>4. Met \subseteq S
    <2> HIDE DEF S
    <2> QED
      BY <1>1, <1>3, TimeInduction
  <1>5. b \in P => f.ancestor[b] # None
    BY <1>1 DEF Linked
  <1>6. b \notin P => f.ancestor[b] = None
    BY DEF Linked
  <1> QED
    BY <1>4, <1>5, <1>6 DEF FindMin

(* Root and Up are what they say. *)
LEMMA RootEquation ==
  ASSUME Walked, NEW P, Latest(P), NEW f, Linked(f, P)
  PROVE  /\ \A c \in Met : Root(f)[c] = IF f.ancestor[c] = None THEN c
                                        ELSE Root(f)[f.ancestor[c]]
         /\ \A c \in Met : Up(f)[c] = {c} \cup (IF f.ancestor[c] = None THEN {}
                                                ELSE Up(f)[f.ancestor[c]])
  <1> DEFINE p == [c \in Met |-> f.ancestor[c]]
             self == [c \in Met |-> c]
             same == [c \in Met |-> [x \in Met |-> x]]
             alone == [c \in Met |-> {c}]
             joined == [c \in Met |-> [X \in SUBSET Met |-> {c} \cup X]]
             root(h, c) == IF f.ancestor[c] = None THEN c ELSE h[f.ancestor[c]]
             up(h, c) == {c} \cup (IF f.ancestor[c] = None THEN {} ELSE h[f.ancestor[c]])
  <1>1. \A c \in Met : p[c] = None \/ (p[c] \in Met /\ timeIn[p[c]] < timeIn[c])
    BY LinkedUp
  <1>2. PICK g : Follows(g, Met, p, self, same) /\ \A c \in Met : g[c] \in Met
    <2>1. /\ \A c \in Met : self[c] \in Met
          /\ \A c \in Met : \A x \in Met : same[c][x] \in Met
      OBVIOUS
    <2> HIDE DEF p, self, same
    <2> QED
      BY <1>1, <2>1, UpwardExists
  <1>3. g = [c \in Met |-> root(g, c)]
    <2>1. g = [c \in Met |-> IF p[c] = None THEN self[c] ELSE same[c][g[p[c]]]]
      BY <1>2 DEF Follows
    <2>2. ASSUME NEW c \in Met
          PROVE  (IF p[c] = None THEN self[c] ELSE same[c][g[p[c]]]) = root(g, c)
      <3>1. f.ancestor[c] # None => f.ancestor[c] \in Met /\ g[f.ancestor[c]] \in Met
        BY <1>1, <1>2
      <3> QED
        BY <3>1
    <2> HIDE DEF p, self, same, root
    <2> QED
      BY <2>1, <2>2
  <1>4. Root(f) = CHOOSE h : h = [c \in Met |-> root(h, c)]
    BY DEF Root
  <1>5. Root(f) = [c \in Met |-> root(Root(f), c)]
    <2> HIDE DEF root
    <2> QED
      BY <1>3, <1>4
  <1>6. PICK k : Follows(k, Met, p, alone, joined) /\ \A c \in Met : k[c] \in SUBSET Met
    <2> DEFINE D == SUBSET Met
    <2>1. /\ \A c \in Met : alone[c] \in D
          /\ \A c \in Met : \A x \in D : joined[c][x] \in D
      OBVIOUS
    <2>2. \E h : Follows(h, Met, p, alone, joined) /\ \A c \in Met : h[c] \in D
      <3> HIDE DEF p, alone, joined, D
      <3> QED
        BY <1>1, <2>1, UpwardExists
    <2> QED
      BY <2>2
  <1>7. k = [c \in Met |-> up(k, c)]
    <2>1. k = [c \in Met |-> IF p[c] = None THEN alone[c] ELSE joined[c][k[p[c]]]]
      BY <1>6 DEF Follows
    <2>2. ASSUME NEW c \in Met
          PROVE  (IF p[c] = None THEN alone[c] ELSE joined[c][k[p[c]]]) = up(k, c)
      <3>1. f.ancestor[c] # None => f.ancestor[c] \in Met /\ k[f.ancestor[c]] \in SUBSET Met
        BY <1>1, <1>6
      <3> QED
        BY <3>1
    <2> HIDE DEF p, alone, joined, up
    <2> QED
      BY <2>1, <2>2
  <1>8. Up(f) = CHOOSE h : h = [c \in Met |-> up(h, c)]
    BY DEF Up
  <1>9. Up(f) = [c \in Met |-> up(Up(f), c)]
    <2> HIDE DEF up
    <2> QED
      BY <1>7, <1>8
  <1> QED
    BY <1>5, <1>9

(* The root of the tree of c is its first ancestor that is not linked.     *)
IsRoot(P, r, c) == r \in Met \ P /\ Anc(r, c) /\ Between(r, c) \subseteq P

(* Root finds that ancestor, and Up what is linked below it.               *)
LEMMA RootIs ==
  ASSUME Walked, NEW P, Latest(P), NEW f, Linked(f, P)
  PROVE  \A c \in Met : /\ IsRoot(P, Root(f)[c], c)
                        /\ \A x \in Up(f)[c] : Anc(x, c) /\ (x \in P \/ x = Root(f)[c])
  <1> DEFINE S == {c \in Met : /\ IsRoot(P, Root(f)[c], c)
                               /\ \A x \in Up(f)[c] : /\ x \in Met /\ Anc(x, c)
                                                      /\ x \in P \/ x = Root(f)[c]}
  <1>1. None \notin Met /\ \A c \in Met : timeIn[c] \in Nat
    BY NoneNotMet, TreeTimes
  <1>2. P \subseteq Met
    BY DEF Latest
  <1>3. ASSUME NEW c \in Met, \A d \in Met : timeIn[d] < timeIn[c] => d \in S PROVE c \in S
    <2>1. CASE c \notin P
      <3>1. f.ancestor[c] = None
        BY <2>1 DEF Linked
      <3>2. Root(f)[c] = c /\ Up(f)[c] = {c}
        BY <3>1, RootEquation
      <3>3. Anc(c, c) /\ Between(c, c) = {}
        BY TreeTimes, AncOrder DEF Between, Anc
      <3> QED
        BY <2>1, <3>2, <3>3 DEF IsRoot
    <2>2. CASE c \in P
      <3> DEFINE a == f.ancestor[c]
                 r == Root(f)[a]
      <3>1. /\ a \in Met /\ a # c /\ Anc(a, c) /\ Between(a, c) \subseteq P
        BY <2>2 DEF Linked
      <3>2. timeIn[a] < timeIn[c]
        BY <3>1, AncOrder
      <3>3. Root(f)[c] = r /\ Up(f)[c] = {c} \cup Up(f)[a]
        BY <1>1, <3>1, RootEquation
      <3> HIDE DEF a
      <3>4. /\ r \in Met \ P /\ Anc(r, a) /\ Between(r, a) \subseteq P
            /\ \A x \in Up(f)[a] : x \in Met /\ Anc(x, a) /\ (x \in P \/ x = r)
        BY <1>3, <3>1, <3>2 DEF IsRoot
      <3> HIDE DEF r
      <3>5. Anc(r, c)
        BY <3>1, <3>4, AncOrder
      <3>6. ASSUME NEW x \in Between(r, c) PROVE x \in P
        <4>1. x \in Met /\ Anc(r, x) /\ Anc(x, c) /\ x # r
          BY <3>6 DEF Between
        <4>2. CASE timeIn[x] <= timeIn[a]
          <5>1. Anc(x, a)
            BY <3>1, <4>1, <4>2, AncOrder
          <5> QED
            BY <3>4, <4>1, <5>1 DEF Between
        <4>3. CASE ~(timeIn[x] <= timeIn[a])
          <5>1. timeIn[a] <= timeIn[x] /\ x # a
            BY <1>1, <3>1, <4>1, <4>3
          <5>2. Anc(a, x)
            BY <3>1, <4>1, <5>1, AncOrder
          <5> QED
            BY <3>1, <4>1, <5>1, <5>2 DEF Between
        <4> QED
          BY <4>2, <4>3
      <3>7. \A x \in Up(f)[c] : x \in Met /\ Anc(x, c) /\ (x \in P \/ x = r)
        BY <2>2, <3>1, <3>3, <3>4, AncOrder
      <3> QED
        BY <3>3, <3>4, <3>5, <3>6, <3>7 DEF IsRoot
    <2> QED
      BY <2>1, <2>2
  <1>4. Met \subseteq S
    <2> HIDE DEF S
    <2> QED
      BY <1>1, <1>3, TimeInduction
  <1> QED
    BY <1>4

(* The root of b is that of what is linked above b.                        *)
LEMMA RootAbove ==
  ASSUME Walked, NEW P, Latest(P), NEW b \in Met, NEW r, IsRoot(P, r, b),
         NEW c \in P, Anc(c, b)
  PROVE  /\ r \in Met /\ r # c /\ Anc(r, c)
         /\ Between(r, c) \subseteq P /\ Between(r, c) = LinkedAbove(P, c)
  <1>1. \A d \in Met : timeIn[d] \in Nat
    BY TreeTimes
  <1>2. P \subseteq Met /\ r \in Met /\ r \notin P /\ Anc(r, b) /\ Between(r, b) \subseteq P
    BY DEF Latest, IsRoot
  <1>3. \A x \in P : timeIn[r] <= timeIn[x] /\ r # x
    BY <1>1, <1>2 DEF Latest
  <1>4. r # c /\ Anc(r, c)
    BY <1>2, <1>3, AncOrder
  <1>5. Between(r, c) \subseteq Between(r, b)
    BY <1>2, AncOrder DEF Between
  <1>6. \A x \in P : Anc(x, c) => Anc(r, x)
    BY <1>2, <1>3, <1>4, AncOrder
  <1>7. Between(r, c) = LinkedAbove(P, c)
    <2>1. \A x : x \in Between(r, c) => x \in LinkedAbove(P, c)
      BY <1>2, <1>5 DEF Between, LinkedAbove
    <2>2. \A x : x \in LinkedAbove(P, c) => x \in Between(r, c)
      BY <1>2, <1>3, <1>6 DEF Between, LinkedAbove
    <2> QED
      BY <2>1, <2>2
  <1> QED
    BY <1>2, <1>4, <1>5, <1>7

(* findMin finds a block that was met.                                     *)
LEMMA FindMinType ==
  ASSUME Walked, NEW P, Latest(P), NEW f, Linked(f, P), NEW b \in Met
  PROVE  FindMin(f, b) \in Met
  BY FindMinIs DEF LeastOn, LinkedAbove, Latest

(* Compressing a path leaves the forest as it should be. *)
LEMMA CompressKeeps ==
  ASSUME Walked, NEW P, Latest(P), NEW f, Linked(f, P), NEW b \in Met, NEW g, g = Compress(f, b)
  PROVE  Linked(g, P) /\ g \in Forests /\ g.sdom = f.sdom /\ g.dominator = f.dominator
  <1> DEFINE root == Root(f)[b]
             moved == {c \in Up(f)[b] \ {root} : f.ancestor[c] # root}
             labels == [c \in Met |-> IF c \in moved THEN FindMin(f, c) ELSE f.label[c]]
             above == [c \in Met |-> IF c \in moved THEN root ELSE f.ancestor[c]]
  <1>1. /\ f \in Forests /\ P \subseteq Met
        /\ f.ancestor \in [Met -> Met \cup {None}] /\ f.label \in [Met -> Met]
    BY ForestTypes DEF Linked, Latest
  <1>2. g = [f EXCEPT !.label = labels, !.ancestor = above]
    BY DEF Compress
  <1>3. IsRoot(P, root, b) /\ \A c \in moved : c \in P /\ Anc(c, b)
    BY RootIs
  <1>4. \A c \in moved : /\ root \in Met /\ root # c /\ Anc(root, c)
                         /\ Between(root, c) \subseteq P /\ Between(root, c) = LinkedAbove(P, c)
    <2> HIDE DEF root, moved
    <2> QED
      BY <1>3, RootAbove
  <1> HIDE DEF root, moved
  <1>5. labels \in [Met -> Met] /\ above \in [Met -> Met \cup {None}]
    <2>1. root \in Met
      BY <1>3 DEF IsRoot
    <2> QED
      BY <1>1, <2>1, FindMinType
  <1>6. \A c \in Met : /\ labels[c] = IF c \in moved THEN FindMin(f, c) ELSE f.label[c]
                       /\ above[c] = IF c \in moved THEN root ELSE f.ancestor[c]
    OBVIOUS
  <1> HIDE DEF labels, above
  <1>7. /\ g \in Forests /\ g.sdom = f.sdom /\ g.dominator = f.dominator
        /\ g.label = labels /\ g.ancestor = above
    BY <1>1, <1>2, <1>5 DEF Forests
  <1>8. \A c \in Met \ P : g.ancestor[c] = None /\ g.label[c] = c
    <2>1. \A c \in Met \ P : c \notin moved
      BY <1>3
    <2> QED
      BY <1>6, <1>7, <2>1 DEF Linked
  <1>9. ASSUME NEW c \in P
        PROVE  /\ g.ancestor[c] \in Met /\ g.ancestor[c] # c /\ Anc(g.ancestor[c], c)
               /\ Between(g.ancestor[c], c) \subseteq P
               /\ LeastOn(Between(g.ancestor[c], c), g.label[c])
               /\ g.sdom[c] = EarliestInto(c)
    <2>1. c \in Met /\ g.sdom[c] = EarliestInto(c)
      BY <1>1, <1>7 DEF Linked
    <2>2. CASE c \in moved
      <3>1. g.ancestor[c] = root /\ g.label[c] = FindMin(f, c)
        BY <1>6, <1>7, <2>1, <2>2
      <3>2. LeastOn(LinkedAbove(P, c), FindMin(f, c))
        BY <2>1, FindMinIs
      <3> QED
        BY <1>4, <2>1, <2>2, <3>1, <3>2
    <2>3. CASE c \notin moved
      <3>1. g.ancestor[c] = f.ancestor[c] /\ g.label[c] = f.label[c]
        BY <1>6, <1>7, <2>1, <2>3
      <3> QED
        BY <2>1, <3>1 DEF Linked
    <2> QED
      BY <2>2, <2>3
  <1> QED
    BY <1>7, <1>8, <1>9 DEF Linked

(* The forest is about the semidominators of what is linked only.          *)
LEMMA OtherFields ==
  ASSUME Walked, NEW P, Latest(P), NEW f, Linked(f, P), NEW g \in Forests,
         g.ancestor = f.ancestor, g.label = f.label, \A c \in P : g.sdom[c] = f.sdom[c]
  PROVE  Linked(g, P)
  BY DEF Linked

-----------------------------------------------------------------------------
(***************************************************************************)
(* The semidominator of w, from its predecessors.                          *)
(***************************************************************************)
(* The block before w, or what a later ancestor of a predecessor knows.    *)
Offers(P, w, v, x) ==
  (v \notin P /\ x = v) \/ \E u \in P : Anc(u, v) /\ x = EarliestInto(u)

(* When the predecessors in V have been looked at.                         *)
Scanned(f, g, P, w, V) ==
  /\ Linked(g, P)
  /\ \A c \in Met \ {w} : g.sdom[c] = f.sdom[c]
  /\ g.dominator = f.dominator
  /\ g.sdom[w] = w \/ \E v \in V : Offers(P, w, v, g.sdom[w])
  /\ timeIn[g.sdom[w]] <= timeIn[w]
  /\ \A v \in V : \A x : Offers(P, w, v, x) => timeIn[g.sdom[w]] <= timeIn[x]

(* One more predecessor is looked at.                                      *)
LEMMA LookAtKeeps ==
  ASSUME Walked, NEW P, Latest(P), NEW w \in Met \ P, NEW f, NEW h, NEW V, V \subseteq Met,
         \A c \in Met \ P : f.sdom[c] = c,
         Scanned(f, h, P, w, V), NEW v \in Met, NEW g, g = LookAt(h, w, v)
  PROVE  Scanned(f, g, P, w, V \cup {v})
  <1> DEFINE u == FindMin(h, v)
             k == Compress(h, v)
             found1 == IF timeIn[h.sdom[u]] < timeIn[h.sdom[w]] THEN h.sdom[u] ELSE h.sdom[w]
  <1>1. Linked(h, P) /\ h \in Forests /\ P \subseteq Met /\ h.sdom \in [Met -> Met]
    BY ForestTypes DEF Scanned, Linked, Latest
  <1>2. u \in Met
    BY <1>1, FindMinType
  <1>3. Linked(k, P) /\ k \in Forests /\ k.sdom = h.sdom /\ k.dominator = h.dominator
    BY <1>1, CompressKeeps
  <1>4. g = [k EXCEPT !.sdom[w] = found1]
    BY <1>3 DEF LookAt, Below
  <1>5. found1 \in Met
    BY <1>1, <1>2
  <1>6. \A c \in Met : timeIn[c] \in Nat
    BY TreeTimes
  <1>7. found1 = h.sdom[u] \/ found1 = h.sdom[w]
    OBVIOUS
  <1>8. timeIn[found1] <= timeIn[h.sdom[u]] /\ timeIn[found1] <= timeIn[h.sdom[w]]
    BY <1>1, <1>2, <1>6
  <1> HIDE DEF found1, k
  <1>9. /\ g \in Forests /\ g.ancestor = k.ancestor /\ g.label = k.label
        /\ g.dominator = k.dominator /\ g.sdom[w] = found1
        /\ \A c \in Met \ {w} : g.sdom[c] = k.sdom[c]
    <2>1. k.sdom \in [Met -> Met]
      BY <1>3, ForestTypes
    <2> QED
      BY <1>3, <1>4, <1>5, <2>1 DEF Forests
  <1>10. Linked(g, P)
    <2>1. \A c \in P : g.sdom[c] = k.sdom[c]
      BY <1>1, <1>9
    <2> QED
      BY <1>3, <1>9, <2>1, OtherFields
  <1>11. \A c \in Met \ {w} : g.sdom[c] = f.sdom[c]
    BY <1>3, <1>9 DEF Scanned
  <1>12. timeIn[found1] <= timeIn[w]
    BY <1>1, <1>5, <1>6, <1>8 DEF Scanned
  <1>13. /\ \A y \in V : \A x : Offers(P, w, y, x) => timeIn[h.sdom[w]] <= timeIn[x]
         /\ h.sdom[w] = w \/ \E y \in V : Offers(P, w, y, h.sdom[w])
    BY DEF Scanned
  <1>14. \A y \in Met : \A x : Offers(P, w, y, x) => x \in Met
    BY SemiTimes DEF Offers
  <1>15. /\ h.sdom[u] = h.sdom[w] \/ Offers(P, w, v, h.sdom[u])
         /\ \A x : Offers(P, w, v, x) => timeIn[found1] <= timeIn[x]
    <2>1. CASE v \in P
      <3>1. LeastOn(LinkedAbove(P, v), u)
        BY <1>1, <2>1, FindMinIs
      <3>2. u \in P /\ Anc(u, v) /\ h.sdom[u] = EarliestInto(u)
        BY <1>1, <3>1 DEF LeastOn, LinkedAbove, Linked
      <3>3. Offers(P, w, v, h.sdom[u])
        BY <3>2 DEF Offers
      <3>4. \A x : Offers(P, w, v, x) => timeIn[h.sdom[u]] <= timeIn[x]
        BY <2>1, <3>1, <3>2 DEF Offers, LeastOn, LinkedAbove
      <3>5. \A x : Offers(P, w, v, x) => x \in Met
        BY <1>14
      <3>6. h.sdom[u] \in Met
        BY <1>1, <1>2
      <3> QED
        BY <1>5, <1>6, <1>8, <3>3, <3>4, <3>5, <3>6
    <2>2. CASE v \notin P
      <3>1. u = v
        BY <1>1, <2>2, FindMinIs
      <3>2. \A x : Offers(P, w, v, x) => x = v
        <4> SUFFICES ASSUME NEW y \in P, Anc(y, v) PROVE FALSE
          BY DEF Offers
        <4>1. timeIn[y] <= timeIn[v] /\ y # v /\ y \in Met
          BY <1>1, <2>2 DEF Anc
        <4>2. timeIn[y] < timeIn[v]
          BY <4>1, TreeTimes
        <4> QED
          BY <2>2, <4>2 DEF Latest
      <3>3. CASE v = w
        <4>1. timeIn[found1] <= timeIn[v]
          BY <1>12, <3>3
        <4> QED
          BY <3>1, <3>2, <3>3, <4>1
      <3>4. CASE v # w
        <4>1. h.sdom[v] = v
          BY <2>2, <3>4 DEF Scanned
        <4>2. Offers(P, w, v, v)
          BY <2>2 DEF Offers
        <4> QED
          BY <1>8, <3>1, <3>2, <4>1, <4>2
      <3> QED
        BY <3>3, <3>4
    <2> QED
      BY <2>1, <2>2
  <1> HIDE DEF u
  <1>16. g.sdom[w] = w \/ \E y \in V \cup {v} : Offers(P, w, y, g.sdom[w])
    <2>1. CASE found1 = h.sdom[u]
      BY <1>9, <1>13, <1>15, <2>1
    <2>2. CASE found1 = h.sdom[w]
      BY <1>9, <1>13, <2>2
    <2> QED
      BY <1>7, <2>1, <2>2
  <1>17. \A y \in V \cup {v} : \A x : Offers(P, w, y, x) => timeIn[g.sdom[w]] <= timeIn[x]
    <2>1. ASSUME NEW y \in V, NEW x, Offers(P, w, y, x)
          PROVE  timeIn[found1] <= timeIn[x]
      <3>1. x \in Met /\ timeIn[h.sdom[w]] <= timeIn[x] /\ h.sdom[w] \in Met
        BY <1>1, <1>13, <1>14, <2>1
      <3> QED
        BY <1>5, <1>6, <1>8, <3>1
    <2> QED
      BY <1>9, <1>15, <2>1
  <1> QED
    BY <1>3, <1>9, <1>10, <1>11, <1>12, <1>16, <1>17 DEF Scanned

Firsts(l, n) == {l[i] : i \in 1 .. n}

(* All of them are, whatever their order.                                  *)
LEMMA LookAtAllIs ==
  ASSUME Walked, NEW P, Latest(P), NEW w \in Met \ P, NEW f, Linked(f, P),
         \A c \in Met \ P : f.sdom[c] = c,
         NEW preds, NEW m \in Nat, m = Len(preds), \A i \in 1 .. m : preds[i] \in Met
  PROVE  Scanned(f, LookAtAll(f, w, preds), P, w, Firsts(preds, m))
  <1> DEFINE V == [n \in 0 .. m |-> {g \in Forests : Scanned(f, g, P, w, Firsts(preds, n))}]
             step == [n \in 1 .. m |-> [x \in Forests |-> LookAt(x, w, preds[n])]]
             seen == CHOOSE s : s = [n \in 0 .. m |-> IF n = 0 THEN f
                                                      ELSE LookAt(s[n - 1], w, preds[n])]
  <1>1. f \in Forests /\ Scanned(f, f, P, w, {})
    <2>1. timeIn[w] \in Nat /\ f.sdom[w] = w /\ f \in Forests
      BY TreeTimes DEF Linked
    <2>2. timeIn[f.sdom[w]] <= timeIn[w]
      BY <2>1
    <2> QED
      BY <2>1, <2>2 DEF Scanned
  <1>2. Firsts(preds, 0) = {}
    BY DEF Firsts
  <1>3. \A n \in 1 .. m : /\ Firsts(preds, n) = Firsts(preds, n - 1) \cup {preds[n]}
                          /\ Firsts(preds, n - 1) \subseteq Met /\ n - 1 \in 0 .. m
    BY DEF Firsts
  <1>4. ASSUME NEW n \in 1 .. m, NEW x \in Forests, Scanned(f, x, P, w, Firsts(preds, n - 1))
        PROVE  /\ LookAt(x, w, preds[n]) \in Forests
               /\ Scanned(f, LookAt(x, w, preds[n]), P, w, Firsts(preds, n))
    <2> DEFINE g == LookAt(x, w, preds[n])
               U == Firsts(preds, n - 1)
               v == preds[n]
    <2>1. U \subseteq Met /\ v \in Met /\ g = LookAt(x, w, v) /\ Scanned(f, x, P, w, U)
      BY <1>3, <1>4
    <2>2. Scanned(f, g, P, w, U \cup {v})
      <3> HIDE DEF g, U, v
      <3> QED
        BY <2>1, LookAtKeeps
    <2>3. g \in Forests
      <3> HIDE DEF g
      <3> QED
        BY <2>2 DEF Scanned, Linked
    <2> QED
      BY <1>3, <2>2, <2>3
  <1>5. /\ f \in V[0]
        /\ \A n \in 1 .. m : \A x \in V[n - 1] : x \in Forests /\ step[n][x] \in V[n]
    <2>1. f \in V[0]
      BY <1>1, <1>2
    <2>2. ASSUME NEW n \in 1 .. m, NEW x \in V[n - 1] PROVE x \in Forests /\ step[n][x] \in V[n]
      <3>1. n - 1 \in 0 .. m /\ n \in 0 .. m
        OBVIOUS
      <3>2. x \in Forests /\ Scanned(f, x, P, w, Firsts(preds, n - 1))
        BY <2>2, <3>1
      <3>3. step[n][x] = LookAt(x, w, preds[n])
        BY <3>2
      <3>4. /\ LookAt(x, w, preds[n]) \in Forests
            /\ Scanned(f, LookAt(x, w, preds[n]), P, w, Firsts(preds, n))
        BY <1>4, <3>2
      <3>5. V[n] = {g \in Forests : Scanned(f, g, P, w, Firsts(preds, n))}
        BY <3>1
      <3> HIDE DEF V, step
      <3> QED
        BY <3>2, <3>3, <3>4, <3>5
    <2> QED
      BY <2>1, <2>2
  <1>6. PICK h : Iterates(h, m, f, step)
    <2> HIDE DEF step
    <2> QED
      BY IterationExists
  <1>7. \A n \in 0 .. m : h[n] \in V[n]
    <2> HIDE DEF V, step
    <2> QED
      BY <1>5, <1>6, IterationWithin
  <1>8. h = [n \in 0 .. m |-> IF n = 0 THEN f ELSE LookAt(h[n - 1], w, preds[n])]
    <2>1. h = [n \in 0 .. m |-> IF n = 0 THEN f ELSE step[n][h[n - 1]]]
      BY <1>6 DEF Iterates
    <2>2. ASSUME NEW n \in 0 .. m, n # 0
          PROVE  step[n][h[n - 1]] = LookAt(h[n - 1], w, preds[n])
      <3>1. n \in 1 .. m /\ n - 1 \in 0 .. m
        BY <2>2
      <3>2. h[n - 1] \in Forests
        <4>1. h[n - 1] \in V[n - 1]
          BY <1>7, <3>1
        <4> HIDE DEF V, step
        <4> QED
          BY <1>5, <3>1, <4>1
      <3> QED
        BY <3>1, <3>2
    <2> HIDE DEF step
    <2> QED
      BY <2>1, <2>2
  <1>9. seen = [n \in 0 .. m |-> IF n = 0 THEN f ELSE LookAt(seen[n - 1], w, preds[n])]
    BY <1>8
  <1>10. LookAtAll(f, w, preds) = seen[m]
    BY DEF LookAtAll
  <1> HIDE DEF seen
  <1> DEFINE S == {n \in 0 .. m : seen[n] \in V[n]}
  <1>11. 0 \in S
    BY <1>5, <1>9
  <1>12. ASSUME NEW k \in Nat, k < m, k \in S PROVE k + 1 \in S
    <2>1. k + 1 \in 1 .. m /\ k + 1 \in 0 .. m /\ (k + 1) - 1 = k /\ k + 1 # 0
      BY <1>12
    <2>2. seen[k + 1] = LookAt(seen[k], w, preds[k + 1])
      BY <1>9, <2>1
    <2>3. seen[k] \in V[k]
      BY <1>12
    <2>4. seen[k] \in Forests /\ step[k + 1][seen[k]] \in V[k + 1]
      <3> HIDE DEF V, step
      <3> QED
        BY <1>5, <2>1, <2>3
    <2>5. step[k + 1][seen[k]] = LookAt(seen[k], w, preds[k + 1])
      BY <2>1, <2>4
    <2> HIDE DEF V, step
    <2> QED
      BY <2>1, <2>2, <2>4, <2>5
  <1>13. 0 .. m \subseteq S
    <2> HIDE DEF S
    <2> QED
      BY <1>11, <1>12, UpToInduction
  <1>14. seen[m] \in V[m] /\ m \in 0 .. m
    BY <1>13
  <1> QED
    BY <1>10, <1>14

(* ... of all predecessors: the semidominator of the definition.           *)
LEMMA ScanFindsSemi ==
  ASSUME Walked, NEW w \in Met \ {Entry}, NEW P, P = {x \in Met : timeIn[x] > timeIn[w]},
         NEW f, NEW g, NEW V, V = {v \in Met : w \in Succ(v)}, Scanned(f, g, P, w, V)
  PROVE  g.sdom[w] = EarliestInto(w)
  <1> DEFINE s == EarliestInto(w)
             d == g.sdom[w]
  <1>1. \A c \in Met : timeIn[c] \in Nat
    BY TreeTimes
  <1>2. s \in Met /\ timeIn[s] < timeIn[w]
    BY SemiFacts
  <1>3. /\ g \in Forests /\ d \in Met
        /\ d = w \/ \E v \in V : Offers(P, w, v, d)
        /\ \A v \in V : \A x : Offers(P, w, v, x) => timeIn[d] <= timeIn[x]
    <2>1. g \in Forests /\ g.sdom \in [Met -> Met]
      BY ForestTypes DEF Scanned, Linked
    <2> QED
      BY <2>1 DEF Scanned
  <1>4. timeIn[d] <= timeIn[s]
    <2>1. PICK b \in Met :
           /\ w \in Succ(b)
           /\ \/ b = s
              \/ \E u \in Met \ {Entry} :
                   /\ timeIn[u] > timeIn[w] /\ Anc(u, b)
                   /\ timeIn[EarliestInto(u)] <= timeIn[s]
      BY SemiComesFrom
    <2>2. CASE b = s
      <3>1. b \in V /\ b \notin P
        BY <1>1, <1>2, <2>1, <2>2
      <3>2. Offers(P, w, b, s)
        BY <2>2, <3>1 DEF Offers
      <3> QED
        BY <1>3, <3>1, <3>2
    <2>3. ASSUME NEW u \in Met \ {Entry}, timeIn[u] > timeIn[w], Anc(u, b),
                 timeIn[EarliestInto(u)] <= timeIn[s]
          PROVE  timeIn[d] <= timeIn[s]
      <3>1. u \in P /\ b \in V
        BY <2>1, <2>3
      <3>2. Offers(P, w, b, EarliestInto(u))
        BY <2>3, <3>1 DEF Offers
      <3>3. timeIn[d] <= timeIn[EarliestInto(u)]
        BY <1>3, <3>1, <3>2
      <3>4. EarliestInto(u) \in Met
        BY SemiFacts
      <3> HIDE DEF d, s
      <3> QED
        BY <1>1, <1>2, <1>3, <2>3, <3>3, <3>4
    <2> QED
      BY <2>1, <2>2, <2>3
  <1> HIDE DEF d, s
  <1>5. d # w
    BY <1>1, <1>2, <1>4
  <1>6. PICK v \in V : Offers(P, w, v, d)
    BY <1>3, <1>5
  <1>7. d \in Starts(w)
    <2>1. CASE v \notin P /\ d = v
      <3>1. v \in Met /\ w \in Succ(v) /\ w \in Met
        OBVIOUS
      <3> QED
        BY <2>1, <3>1, OwnStart
    <2>2. ASSUME NEW u \in P, Anc(u, v), d = EarliestInto(u) PROVE d \in Starts(w)
      <3>1. u \in Met \ {Entry} /\ timeIn[u] > timeIn[w] /\ v \in Met /\ w \in Succ(v) /\ w \in Met
        BY <1>1, TreeTimes
      <3> QED
        BY <2>2, <3>1, SemiOfAncestor
    <2> QED
      BY <1>6, <2>1, <2>2 DEF Offers
  <1>8. d = s
    BY <1>4, <1>7, SemiFacts DEF s
  <1> QED
    BY <1>8 DEF d, s

-----------------------------------------------------------------------------
(***************************************************************************)
(* A block is linked, and what waited for it is decided.                   *)
(***************************************************************************)
LEMMA LinkKeeps ==
  ASSUME Walked, NEW w \in Met \ {Entry},
         NEW h, Linked(h, Later(w)), h.sdom[w] = EarliestInto(w), NEW f, f = Link(h, w)
  PROVE  /\ Latest(Later(w)) /\ w \notin Later(w)
         /\ Latest(Later(w) \cup {w}) /\ Linked(f, Later(w) \cup {w}) /\ f \in Forests
         /\ f.sdom = h.sdom /\ f.dominator = h.dominator
  <1> DEFINE P == Later(w)
  <1>1. \A c \in Met : timeIn[c] \in Nat /\ timeIn[Entry] <= timeIn[c]
    BY TreeTimes
  <1>2. Entry \in Met /\ timeIn[Entry] < timeIn[w]
    BY TreeTimes
  <1>3. Latest(P) /\ w \notin P
    BY <1>1, <1>2 DEF Latest, Later
  <1>4. Latest(P \cup {w})
    BY <1>1, <1>2 DEF Latest, Later
  <1>5. /\ h \in Forests /\ h.ancestor \in [Met -> Met \cup {None}]
        /\ f = [h EXCEPT !.ancestor[w] = parent[w]]
    BY ForestTypes DEF Linked, Link
  <1>6. /\ parent[w] \in Met /\ Anc(parent[w], w) /\ timeIn[parent[w]] < timeIn[w]
        /\ \A a \in Met : Anc(a, w) /\ a # w => Anc(a, parent[w])
    BY ParentFacts
  <1>7. /\ f \in Forests /\ f.sdom = h.sdom /\ f.dominator = h.dominator /\ f.label = h.label
        /\ f.ancestor[w] = parent[w] /\ \A c \in Met \ {w} : f.ancestor[c] = h.ancestor[c]
    BY <1>5, <1>6 DEF Forests
  <1>8. Between(parent[w], w) = {w}
    <2>1. ASSUME NEW x \in Between(parent[w], w) PROVE x = w
      <3>1. x \in Met /\ Anc(parent[w], x) /\ Anc(x, w) /\ x # parent[w]
        BY <2>1 DEF Between
      <3>2. SUFFICES ASSUME x # w PROVE FALSE
        OBVIOUS
      <3>3. Anc(x, parent[w])
        BY <1>6, <3>1, <3>2
      <3>4. timeIn[x] < timeIn[parent[w]] /\ timeIn[parent[w]] < timeIn[x]
        BY <1>6, <3>1, <3>3, AncOrder
      <3> QED
        BY <1>1, <1>6, <3>1, <3>4
    <2>2. w \in Between(parent[w], w)
      BY <1>1, <1>6, AncOrder DEF Between
    <2> QED
      BY <2>1, <2>2
  <1>9. \A c \in Met \ (P \cup {w}) : f.ancestor[c] = None /\ f.label[c] = c
    BY <1>7 DEF Linked
  <1>10. ASSUME NEW c \in P \cup {w}
         PROVE  /\ f.ancestor[c] \in Met /\ f.ancestor[c] # c /\ Anc(f.ancestor[c], c)
                /\ Between(f.ancestor[c], c) \subseteq P \cup {w}
                /\ LeastOn(Between(f.ancestor[c], c), f.label[c])
                /\ f.sdom[c] = EarliestInto(c)
    <2>1. CASE c = w
      <3>1. f.label[w] = w
        BY <1>3, <1>7 DEF Linked
      <3>2. LeastOn({w}, w)
        <4>1. EarliestInto(w) \in Met
          BY SemiFacts
        <4>2. timeIn[EarliestInto(w)] \in Nat
          BY <1>1, <4>1
        <4>3. timeIn[EarliestInto(w)] <= timeIn[EarliestInto(w)]
          BY <4>2
        <4> QED
          BY <4>3 DEF LeastOn
      <3>3. parent[w] # w
        BY <1>1, <1>6
      <3> QED
        BY <1>6, <1>7, <1>8, <2>1, <3>1, <3>2, <3>3
    <2>2. CASE c \in P
      <3>1. f.ancestor[c] = h.ancestor[c] /\ f.label[c] = h.label[c] /\ f.sdom[c] = h.sdom[c]
        BY <1>3, <1>7, <2>2 DEF Later
      <3> QED
        BY <2>2, <3>1 DEF Linked
    <2> QED
      BY <2>1, <2>2
  <1>11. Linked(f, P \cup {w})
    BY <1>7, <1>9, <1>10 DEF Linked
  <1> QED
    BY <1>3, <1>4, <1>7, <1>11

(* What dominators knows of v: its dominator, or a block that has the same. *)
Decided(v, d) ==
  \E u \in Stretch(v) :
    /\ LeastOn(Stretch(v), u)
    /\ d = IF EarliestInto(u) = EarliestInto(v) THEN EarliestInto(v) ELSE u

(* When the blocks in V are decided. *)
Settled(f, g, Q, V) ==
  /\ Linked(g, Q) /\ g.sdom = f.sdom
  /\ \A v \in V : Decided(v, g.dominator[v])
  /\ \A v \in Met \ V : g.dominator[v] = f.dominator[v]

(* One more block is decided.                                              *)
LEMMA DecideKeeps ==
  ASSUME Walked, NEW Q, Latest(Q), NEW f, NEW h, NEW V, V \subseteq Met, Settled(f, h, Q, V),
         NEW v \in Q, LinkedAbove(Q, v) = Stretch(v), NEW g, g = Decide(h, v)
  PROVE  Settled(f, g, Q, V \cup {v}) /\ g \in Forests
  <1> DEFINE u == FindMin(h, v)
             k == Compress(h, v)
             d == IF h.sdom[u] = h.sdom[v] THEN h.sdom[v] ELSE u
  <1>1. /\ Linked(h, Q) /\ h \in Forests /\ Q \subseteq Met /\ v \in Met
        /\ h.sdom \in [Met -> Met]
    BY ForestTypes DEF Settled, Linked, Latest
  <1>2. LeastOn(Stretch(v), u) /\ u \in Q
    BY <1>1, FindMinIs DEF LeastOn, LinkedAbove
  <1>3. h.sdom[u] = EarliestInto(u) /\ h.sdom[v] = EarliestInto(v)
    BY <1>1, <1>2 DEF Linked
  <1>4. Decided(v, d) /\ d \in Met
    <2>1. u \in Stretch(v)
      BY <1>2 DEF LeastOn
    <2>2. d = IF EarliestInto(u) = EarliestInto(v) THEN EarliestInto(v) ELSE u
      BY <1>3
    <2>3. d \in Met
      BY <1>1, <1>2
    <2> HIDE DEF d, u
    <2> QED
      BY <1>2, <2>1, <2>2, <2>3 DEF Decided
  <1>5. Linked(k, Q) /\ k \in Forests /\ k.sdom = h.sdom /\ k.dominator = h.dominator
    BY <1>1, CompressKeeps
  <1>6. g = [k EXCEPT !.dominator[v] = d]
    BY DEF Decide
  <1> HIDE DEF d, k, u
  <1>7. /\ g \in Forests /\ g.ancestor = k.ancestor /\ g.label = k.label /\ g.sdom = k.sdom
        /\ g.dominator[v] = d /\ \A c \in Met \ {v} : g.dominator[c] = k.dominator[c]
    <2>1. k.dominator \in [Met -> Met \cup {None}]
      BY <1>5, ForestTypes
    <2> QED
      BY <1>1, <1>4, <1>5, <1>6, <2>1 DEF Forests
  <1>8. Linked(g, Q)
    BY <1>5, <1>7, OtherFields
  <1>9. g.sdom = f.sdom
    BY <1>5, <1>7 DEF Settled
  <1>10. \A c \in V \cup {v} : Decided(c, g.dominator[c])
    BY <1>4, <1>5, <1>7 DEF Settled
  <1>11. \A c \in Met \ (V \cup {v}) : g.dominator[c] = f.dominator[c]
    BY <1>5, <1>7 DEF Settled
  <1> QED
    BY <1>7, <1>8, <1>9, <1>10, <1>11 DEF Settled

(* All that waited are.                                                    *)
LEMMA DecideAllIs ==
  ASSUME Walked, NEW Q, Latest(Q), NEW f, Linked(f, Q),
         NEW blocks, NEW m \in Nat, m = Len(blocks),
         \A i \in 1 .. m : blocks[i] \in Q /\ LinkedAbove(Q, blocks[i]) = Stretch(blocks[i])
  PROVE  Settled(f, DecideAll(f, blocks), Q, Firsts(blocks, m))
  <1> DEFINE V == [n \in 0 .. m |-> {g \in Forests : Settled(f, g, Q, Firsts(blocks, n))}]
             step == [n \in 1 .. m |-> [x \in Forests |-> Decide(x, blocks[n])]]
             done == CHOOSE s : s = [n \in 0 .. m |-> IF n = 0 THEN f
                                                      ELSE Decide(s[n - 1], blocks[n])]
  <1>1. f \in Forests /\ Settled(f, f, Q, {})
    BY DEF Settled, Linked
  <1>2. Firsts(blocks, 0) = {}
    BY DEF Firsts
  <1>3. \A n \in 1 .. m : /\ Firsts(blocks, n) = Firsts(blocks, n - 1) \cup {blocks[n]}
                          /\ Firsts(blocks, n - 1) \subseteq Met /\ n - 1 \in 0 .. m
    <2>1. \A i \in 1 .. m : blocks[i] \in Met
      BY DEF Latest
    <2> QED
      BY <2>1 DEF Firsts
  <1>4. ASSUME NEW n \in 1 .. m, NEW x \in Forests, Settled(f, x, Q, Firsts(blocks, n - 1))
        PROVE  /\ Decide(x, blocks[n]) \in Forests
               /\ Settled(f, Decide(x, blocks[n]), Q, Firsts(blocks, n))
    <2> DEFINE g == Decide(x, blocks[n])
               U == Firsts(blocks, n - 1)
               v == blocks[n]
    <2>1. /\ U \subseteq Met /\ v \in Q /\ LinkedAbove(Q, v) = Stretch(v)
          /\ g = Decide(x, v) /\ Settled(f, x, Q, U)
      BY <1>3, <1>4
    <2>2. Settled(f, g, Q, U \cup {v}) /\ g \in Forests
      <3> HIDE DEF g, U, v
      <3> QED
        BY <2>1, DecideKeeps
    <2> QED
      BY <1>3, <2>2
  <1>5. /\ f \in V[0]
        /\ \A n \in 1 .. m : \A x \in V[n - 1] : x \in Forests /\ step[n][x] \in V[n]
    <2>1. f \in V[0]
      BY <1>1, <1>2
    <2>2. ASSUME NEW n \in 1 .. m, NEW x \in V[n - 1] PROVE x \in Forests /\ step[n][x] \in V[n]
      <3>1. n - 1 \in 0 .. m /\ n \in 0 .. m
        OBVIOUS
      <3>2. x \in Forests /\ Settled(f, x, Q, Firsts(blocks, n - 1))
        BY <2>2, <3>1
      <3>3. step[n][x] = Decide(x, blocks[n])
        BY <3>2
      <3>4. /\ Decide(x, blocks[n]) \in Forests
            /\ Settled(f, Decide(x, blocks[n]), Q, Firsts(blocks, n))
        BY <1>4, <3>2
      <3>5. V[n] = {g \in Forests : Settled(f, g, Q, Firsts(blocks, n))}
        BY <3>1
      <3> HIDE DEF V, step
      <3> QED
        BY <3>2, <3>3, <3>4, <3>5
    <2> QED
      BY <2>1, <2>2
  <1>6. PICK h : Iterates(h, m, f, step)
    <2> HIDE DEF step
    <2> QED
      BY IterationExists
  <1>7. \A n \in 0 .. m : h[n] \in V[n]
    <2> HIDE DEF V, step
    <2> QED
      BY <1>5, <1>6, IterationWithin
  <1>8. h = [n \in 0 .. m |-> IF n = 0 THEN f ELSE Decide(h[n - 1], blocks[n])]
    <2>1. h = [n \in 0 .. m |-> IF n = 0 THEN f ELSE step[n][h[n - 1]]]
      BY <1>6 DEF Iterates
    <2>2. ASSUME NEW n \in 0 .. m, n # 0
          PROVE  step[n][h[n - 1]] = Decide(h[n - 1], blocks[n])
      <3>1. n \in 1 .. m /\ n - 1 \in 0 .. m
        BY <2>2
      <3>2. h[n - 1] \in Forests
        <4>1. h[n - 1] \in V[n - 1]
          BY <1>7, <3>1
        <4> HIDE DEF V, step
        <4> QED
          BY <1>5, <3>1, <4>1
      <3> QED
        BY <3>1, <3>2
    <2> HIDE DEF step
    <2> QED
      BY <2>1, <2>2
  <1>9. done = [n \in 0 .. m |-> IF n = 0 THEN f ELSE Decide(done[n - 1], blocks[n])]
    BY <1>8
  <1>10. DecideAll(f, blocks) = done[m]
    BY DEF DecideAll
  <1> HIDE DEF done
  <1> DEFINE S == {n \in 0 .. m : done[n] \in V[n]}
  <1>11. 0 \in S
    BY <1>5, <1>9
  <1>12. ASSUME NEW k \in Nat, k < m, k \in S PROVE k + 1 \in S
    <2>1. k + 1 \in 1 .. m /\ k + 1 \in 0 .. m /\ (k + 1) - 1 = k /\ k + 1 # 0
      BY <1>12
    <2>2. done[k + 1] = Decide(done[k], blocks[k + 1])
      BY <1>9, <2>1
    <2>3. done[k] \in V[k]
      BY <1>12
    <2>4. done[k] \in Forests /\ step[k + 1][done[k]] \in V[k + 1]
      <3> HIDE DEF V, step
      <3> QED
        BY <1>5, <2>1, <2>3
    <2>5. step[k + 1][done[k]] = Decide(done[k], blocks[k + 1])
      BY <2>1, <2>4
    <2> HIDE DEF V, step
    <2> QED
      BY <2>1, <2>2, <2>4, <2>5
  <1>13. 0 .. m \subseteq S
    <2> HIDE DEF S
    <2> QED
      BY <1>11, <1>12, UpToInduction
  <1>14. done[m] \in V[m] /\ m \in 0 .. m
    BY <1>13
  <1> QED
    BY <1>10, <1>14

(* An ordering of a finite set has all of it.                              *)
LEMMA OrderingHasAll ==
  ASSUME NEW S, IsFiniteSet(S), NEW l \in SetToSeqs(S)
  PROVE  \E m \in Nat : /\ Len(l) = m /\ \A i \in 1 .. m : l[i] \in S
                        /\ Firsts(l, m) = S
  <1> DEFINE m == Cardinality(S)
             D == 1 .. m
  <1>1. m \in Nat
    BY FS_CardinalityType
  <1>2. l \in [D -> S] /\ \A i, j \in D : i # j => l[i] # l[j]
    BY DEF SetToSeqs
  <1>3. IsFiniteSet(D) /\ Cardinality(D) = m
    BY <1>1, FS_Interval
  <1>4. l \in Injection(D, S)
    <2> HIDE DEF D
    <2> QED
      BY <1>2 DEF Injection, IsInjective
  <1>5. l \in Surjection(D, S)
    <2> HIDE DEF D
    <2>1. Cardinality(D) = Cardinality(S)
      BY <1>3
    <2> QED
      BY <1>4, <2>1, FS_Injection
  <1>6. \A x \in S : \E i \in D : l[i] = x
    <2> HIDE DEF D
    <2> QED
      BY <1>5 DEF Surjection
  <1>7. Firsts(l, m) = S
    BY <1>2, <1>6 DEF Firsts
  <1>8. Len(l) = m
    BY <1>1, <1>2
  <1> QED
    BY <1>1, <1>2, <1>7, <1>8

-----------------------------------------------------------------------------
(***************************************************************************)
(* The classes of the arcs.                                                *)
(***************************************************************************)
Known(a, b) == <<a, b>> \in DOMAIN arcsClasses \/ <<a, b>> \in unprocArcs

Walking == phase \in {"dfs", "classify"}

Unprocessed == unprocArcs \subseteq Met \X Met /\ \A a \in unprocArcs : a[2] \in ToSet(next[a[1]])

TreeArcs ==
  /\ DOMAIN arcsClasses \subseteq Met \X Met
  /\ \A a \in DOMAIN arcsClasses :
       arcsClasses[a] = "TREE" /\ a[2] # Entry /\ parent[a[2]] = a[1]

HandledKnown ==
  /\ \A a \in Finished : \A b \in ToSet(next[a]) : Known(a, b)
  /\ \A i \in DOMAIN path : \A k \in 1 .. path[i].arcs :
       Known(path[i].block, next[path[i].block][k])

Classified ==
  /\ unprocArcs = {}
  /\ DOMAIN arcsClasses = {a \in Met \X Met : a[2] \in Succ(a[1])}
  /\ \A a \in DOMAIN arcsClasses :
       arcsClasses[a] \in Classes /\ (arcsClasses[a] = "BACK" <=> Inside(a[1], a[2]))

ArcInv ==
  /\ Walking => Unprocessed /\ TreeArcs /\ HandledKnown
  /\ ~Walking => Classified

KnownAfter(a, b) == <<a, b>> \in DOMAIN arcsClasses' \/ <<a, b>> \in unprocArcs'

(* A call gives its arc the class TREE.                                    *)
LEMMA TreeArcArcs ==
  ASSUME WalkInv, ArcInv, NEW b \in Blocks, TreeArc(b)
  PROVE  ArcInv'
  <1> SUFFICES ASSUME NEW c, c = Current.block, NEW n, n = Len(path) PROVE ArcInv'
    OBVIOUS
  <1>1. /\ n \in Nat /\ n >= 1 /\ c \in Met /\ c = path[n].block /\ b \notin Met
        /\ path[n].arcs < Len(next[c]) /\ b = next[c][path[n].arcs + 1]
        /\ b \in ToSet(next[c])
    BY TreeArcEffect DEF WalkInv
  <1>2. /\ Met' = Met \cup {b} /\ Entry' = Entry
        /\ Finished' = Finished /\ phase' = phase /\ phase = "dfs"
    BY TreeArcEffect DEF WalkInv
  <1>3. parent'[b] = c /\ \A x \in Met : parent'[x] = parent[x]
    BY TreeArcEffect DEF WalkInv
  <1>4. \A x \in Met : next'[x] = next[x]
    BY TreeArcEffect DEF WalkInv, WalkTypes
  <1>5. /\ Len(path') = n + 1 /\ path' \in Seq(Calls')
        /\ path'[n + 1].block = b /\ path'[n + 1].arcs = 0
        /\ \A i \in 1 .. n : path'[i].block = path[i].block
        /\ \A i \in 1 .. (n - 1) : path'[i] = path[i]
        /\ path'[n].arcs = path[n].arcs + 1
    BY TreeArcEffect DEF WalkInv
  <1>6. /\ DOMAIN path = 1 .. n /\ \A i \in 1 .. n : path[i].block \in Met /\ path[i].arcs \in 0 .. 2
    BY PathFacts DEF WalkInv
  <1>7. DOMAIN path' = 1 .. (n + 1)
    BY <1>5
  <1>8. unprocArcs' = unprocArcs /\ arcsClasses' = Emplace(arcsClasses, <<c, b>>, "TREE")
    BY DEF TreeArc
  <1>9. /\ DOMAIN arcsClasses' = DOMAIN arcsClasses \cup {<<c, b>>}
        /\ \A a \in DOMAIN arcsClasses : arcsClasses'[a] = arcsClasses[a]
        /\ <<c, b>> \notin DOMAIN arcsClasses => arcsClasses'[<<c, b>>] = "TREE"
    BY <1>8 DEF Emplace, EmplaceAll
  <1>10. Walking /\ Walking' /\ Unprocessed /\ TreeArcs /\ HandledKnown
    BY <1>2 DEF Walking, ArcInv
  <1>11. <<c, b>> \notin DOMAIN arcsClasses
    BY <1>1, <1>10 DEF TreeArcs
  <1>12. \A x, y : Known(x, y) => KnownAfter(x, y)
    BY <1>8, <1>9 DEF Known, KnownAfter
  <1>13. Unprocessed'
    <2>1. \A a \in unprocArcs : a \in Met \X Met /\ a[1] \in Met /\ a[2] \in ToSet(next[a[1]])
      BY <1>10 DEF Unprocessed
    <2> QED
      BY <1>2, <1>4, <1>8, <2>1 DEF Unprocessed, ToSet
  <1>14. TreeArcs'
    <2>1. ASSUME NEW a \in DOMAIN arcsClasses'
          PROVE  /\ a \in Met' \X Met'
                 /\ arcsClasses'[a] = "TREE" /\ a[2] # Entry' /\ parent'[a[2]] = a[1]
      <3>1. CASE a = <<c, b>>
        <4>1. b # Entry
          BY <1>1, ClockFacts DEF WalkInv
        <4> QED
          BY <1>1, <1>2, <1>3, <1>9, <1>11, <3>1, <4>1
      <3>2. CASE a \in DOMAIN arcsClasses
        BY <1>2, <1>3, <1>9, <1>10, <3>2 DEF TreeArcs
      <3> QED
        BY <1>9, <3>1, <3>2
    <2> QED
      BY <2>1 DEF TreeArcs
  <1>15. HandledKnown'
    <2>1. ASSUME NEW a \in Finished', NEW x \in ToSet(next'[a]) PROVE KnownAfter(a, x)
      <3>1. a \in Finished /\ a \in Met
        BY <1>2, <2>1 DEF WalkInv, WalkTypes
      <3>2. x \in ToSet(next[a])
        BY <1>4, <2>1, <3>1
      <3> QED
        BY <1>10, <1>12, <3>1, <3>2 DEF HandledKnown
    <2>2. ASSUME NEW i \in DOMAIN path', NEW k \in 1 .. path'[i].arcs
          PROVE  KnownAfter(path'[i].block, next'[path'[i].block][k])
      <3>1. CASE i = n + 1
        BY <1>5, <2>2, <3>1
      <3>2. CASE i \in 1 .. n
        <4> DEFINE a == path[i].block
        <4>1. path'[i].block = a /\ a \in Met /\ next'[a] = next[a] /\ i \in DOMAIN path
          BY <1>4, <1>5, <1>6, <3>2
        <4>2. CASE k \in 1 .. path[i].arcs
          <5>1. Known(a, next[a][k])
            BY <1>10, <4>1, <4>2 DEF HandledKnown
          <5> HIDE DEF a
          <5> QED
            BY <1>12, <4>1, <5>1
        <4>3. CASE ~(k \in 1 .. path[i].arcs)
          <5>1. i = n
            BY <1>5, <1>1, <2>2, <3>2, <4>3
          <5>2. k = path[n].arcs + 1 /\ a = c
            BY <1>1, <1>5, <1>6, <2>2, <4>3, <5>1
          <5>3. next[a][k] = b
            BY <1>1, <5>2
          <5>4. KnownAfter(c, b)
            BY <1>9 DEF KnownAfter
          <5> HIDE DEF a
          <5> QED
            BY <4>1, <5>2, <5>3, <5>4
        <4> QED
          BY <4>2, <4>3
      <3> QED
        BY <1>1, <1>7, <3>1, <3>2
    <2> QED
      BY <2>1, <2>2 DEF HandledKnown, Known, KnownAfter
  <1> QED
    BY <1>10, <1>13, <1>14, <1>15 DEF ArcInv

(* An arc to a block already met waits for its class.                      *)
LEMMA OtherArcArcs ==
  ASSUME WalkInv, ArcInv, NEW b \in Blocks, OtherArc(b)
  PROVE  ArcInv'
  <1> SUFFICES ASSUME NEW c, c = Current.block, NEW n, n = Len(path) PROVE ArcInv'
    OBVIOUS
  <1>1. /\ n \in Nat /\ n >= 1 /\ c \in Met /\ c = path[n].block /\ b \in Met
        /\ path[n].arcs < Len(next[c]) /\ b = next[c][path[n].arcs + 1]
        /\ b \in ToSet(next[c])
    BY OtherArcEffect DEF WalkInv
  <1>2. /\ UNCHANGED <<phase, next, found, timeIn, timeOut, parent, arcsClasses>>
        /\ unprocArcs' = unprocArcs \cup {<<c, b>>} /\ phase = "dfs"
        /\ Len(path') = n /\ path' \in Seq(Calls)
        /\ \A i \in 1 .. n : path'[i].block = path[i].block
        /\ \A i \in 1 .. (n - 1) : path'[i] = path[i]
        /\ path'[n].arcs = path[n].arcs + 1
    BY OtherArcEffect DEF WalkInv
  <1>3. Met' = Met /\ Entry' = Entry /\ Finished' = Finished
    BY <1>2 DEF Met, Entry, Finished
  <1>4. /\ DOMAIN path' = 1 .. n /\ DOMAIN path = 1 .. n
        /\ \A i \in 1 .. n : path[i].arcs \in 0 .. 2
    BY <1>1, <1>2, PathFacts DEF WalkInv
  <1>5. Walking /\ Walking' /\ Unprocessed /\ TreeArcs /\ HandledKnown
    BY <1>2 DEF Walking, ArcInv
  <1>6. KnownAfter(c, b) /\ \A x, y : Known(x, y) => KnownAfter(x, y)
    BY <1>2 DEF Known, KnownAfter
  <1>7. Unprocessed'
    <2>1. ASSUME NEW a \in unprocArcs' PROVE a \in Met \X Met /\ a[2] \in ToSet(next[a[1]])
      BY <1>1, <1>2, <1>5, <2>1 DEF Unprocessed
    <2> QED
      BY <1>2, <1>3, <2>1 DEF Unprocessed
  <1>8. TreeArcs'
    BY <1>2, <1>3, <1>5 DEF TreeArcs
  <1>9. HandledKnown'
    <2>1. \A a \in Finished' : \A x \in ToSet(next'[a]) : KnownAfter(a, x)
      BY <1>2, <1>3, <1>5, <1>6 DEF HandledKnown
    <2>2. ASSUME NEW i \in DOMAIN path', NEW k \in 1 .. path'[i].arcs
          PROVE  KnownAfter(path'[i].block, next'[path'[i].block][k])
      <3> DEFINE a == path[i].block
      <3>1. path'[i].block = a /\ next' = next /\ i \in DOMAIN path /\ i \in 1 .. n
        BY <1>2, <1>4
      <3>2. CASE k \in 1 .. path[i].arcs
        <4>1. Known(a, next[a][k])
          BY <1>5, <3>1, <3>2 DEF HandledKnown
        <4> HIDE DEF a
        <4> QED
          BY <1>6, <3>1, <4>1
      <3>3. CASE ~(k \in 1 .. path[i].arcs)
        <4>1. i = n
          BY <1>1, <1>2, <2>2, <3>1, <3>3
        <4>2. k = path[n].arcs + 1 /\ a = c
          BY <1>1, <1>2, <1>4, <2>2, <3>3, <4>1
        <4>3. next[a][k] = b
          BY <1>1, <4>2
        <4> HIDE DEF a
        <4> QED
          BY <1>6, <3>1, <4>2, <4>3
      <3> QED
        BY <3>2, <3>3
    <2> QED
      BY <2>1, <2>2 DEF HandledKnown, Known, KnownAfter
  <1> QED
    BY <1>5, <1>7, <1>8, <1>9 DEF ArcInv

(* When a call returns all arcs of its block are known.                    *)
LEMMA LeaveArcs ==
  ASSUME WalkInv, ArcInv, Leave
  PROVE  ArcInv'
  <1> SUFFICES ASSUME NEW c, c = Current.block, NEW n, n = Len(path) PROVE ArcInv'
    OBVIOUS
  <1>0. n >= 1 /\ c = path[n].block /\ c \notin Finished
    <2>1. phase = "dfs" /\ path # <<>>
      BY DEF Leave, WalkInv, WalkTypes
    <2>2. n >= 1 /\ n \in Nat /\ c = path[n].block
      BY <2>1, PathFacts DEF WalkInv, Current, Last
    <2> QED
      BY <2>2, TopIsLast DEF WalkInv
  <1>1. /\ n \in Nat /\ n >= 1 /\ c \in Met /\ c = path[n].block
        /\ path[n].arcs = Len(next[c])
        /\ UNCHANGED <<next, found, timeIn, parent, unprocArcs, arcsClasses>>
        /\ phase = "dfs" /\ phase' \in {"dfs", "classify"}
        /\ Finished' = Finished \cup {c}
        /\ Len(path') = n - 1 /\ path' \in Seq(Calls)
        /\ \A i \in 1 .. (n - 1) : path'[i] = path[i]
    BY <1>0, LeaveEffect DEF WalkInv
  <1>2. Met' = Met /\ Entry' = Entry
    BY <1>1 DEF Met, Entry
  <1>3. DOMAIN path' = 1 .. (n - 1) /\ DOMAIN path = 1 .. n
    BY <1>1, PathFacts DEF WalkInv
  <1>4. Walking /\ Walking' /\ Unprocessed /\ TreeArcs /\ HandledKnown
    BY <1>1 DEF Walking, ArcInv
  <1>5. \A x, y : Known(x, y) => KnownAfter(x, y)
    BY <1>1 DEF Known, KnownAfter
  <1>6. Unprocessed' /\ TreeArcs'
    BY <1>1, <1>2, <1>4 DEF Unprocessed, TreeArcs
  <1>7. HandledKnown'
    <2>1. ASSUME NEW a \in Finished', NEW x \in ToSet(next[a]) PROVE Known(a, x)
      <3>1. CASE a = c
        <4>1. next[c] \in Lists /\ DOMAIN next[c] = 1 .. Len(next[c])
          BY <1>1, ListFacts DEF WalkInv, WalkTypes
        <4>2. PICK k \in 1 .. Len(next[c]) : x = next[c][k]
          BY <2>1, <3>1, <4>1 DEF ToSet
        <4>3. n \in DOMAIN path /\ k \in 1 .. path[n].arcs
          BY <1>1, <1>3
        <4> QED
          BY <1>1, <1>4, <3>1, <4>2, <4>3 DEF HandledKnown
      <3>2. CASE a \in Finished
        BY <1>4, <2>1, <3>2 DEF HandledKnown
      <3> QED
        BY <1>1, <3>1, <3>2
    <2>2. \A i \in DOMAIN path' : path'[i] = path[i] /\ i \in DOMAIN path
      BY <1>1, <1>3
    <2>3. \A i \in DOMAIN path : \A k \in 1 .. path[i].arcs :
             Known(path[i].block, next[path[i].block][k])
      BY <1>4 DEF HandledKnown
    <2>4. \A i \in DOMAIN path' : \A k \in 1 .. path'[i].arcs :
             Known(path'[i].block, next[path'[i].block][k])
      BY <2>2, <2>3
    <2> QED
      BY <1>1, <1>5, <2>1, <2>4 DEF HandledKnown, Known, KnownAfter
  <1> QED
    BY <1>4, <1>6, <1>7 DEF ArcInv

(* classifyArcs leaves the traversal as it is.                             *)
LEMMA ClassifyWalk ==
  ASSUME WalkInv, ClassifyArcs
  PROVE  /\ WalkInv' /\ Met' = Met /\ Entry' = Entry /\ Blocks' = Blocks
         /\ \A b \in Met : next'[b] = next[b] /\ b \in DOMAIN next'
  <1>1. /\ phase = "classify" /\ phase' = "semi"
        /\ UNCHANGED <<path, found, timeIn, timeOut, parent>>
    BY DEF ClassifyArcs
  <1>2. PICK rest \in [Blocks \ Met -> Lists] : next' = EmplaceAll(next, rest)
    BY DEF ClassifyArcs
  <1>3. /\ DOMAIN next' = DOMAIN next \cup DOMAIN rest
        /\ \A x \in DOMAIN next : next'[x] = next[x]
        /\ \A x \in DOMAIN rest : x \notin DOMAIN next => next'[x] = rest[x]
    BY <1>2 DEF EmplaceAll
  <1>4. WalkKept
    <2>1. \A b \in DOMAIN next' : next'[b] \in Lists
      BY <1>3 DEF WalkInv, WalkTypes
    <2>2. DOMAIN next' \subseteq Blocks
      BY <1>3 DEF WalkInv, WalkTypes
    <2> QED
      BY <1>1, <1>3, <2>1, <2>2 DEF WalkKept, Phases
  <1>5. Met \subseteq DOMAIN next
    BY DEF WalkInv, WalkTypes
  <1> QED
    BY <1>3, <1>4, <1>5, KeptKeeps

(* It gives every arc its class.                                           *)
LEMMA ClassifyArcsArcs ==
  ASSUME WalkInv, ArcInv, ClassifyArcs
  PROVE  ArcInv'
  <1>1. /\ WalkInv' /\ Met' = Met /\ Entry' = Entry
        /\ \A b \in Met : next'[b] = next[b] /\ b \in DOMAIN next'
    BY ClassifyWalk
  <1>2. /\ phase = "classify" /\ phase' = "semi" /\ unprocArcs' = {}
        /\ timeIn' = timeIn /\ timeOut' = timeOut
        /\ arcsClasses' = EmplaceAll(arcsClasses, [a \in unprocArcs |-> ArcClass(a[1], a[2])])
    BY DEF ClassifyArcs
  <1>3. Walked /\ Unprocessed /\ TreeArcs /\ HandledKnown /\ ~Walking'
    BY <1>2 DEF Walked, ArcInv, Walking
  <1>4. Finished = Met /\ \A c \in Met : timeIn[c] \in Nat /\ timeOut[c] \in Nat
    BY <1>3, TreeTimes
  <1>5. \A b \in Met : (Succ(b))' = Succ(b) /\ Succ(b) = ToSet(next[b]) /\ Succ(b) \subseteq Met
    <2>1. \A b \in Met : Succ(b) = ToSet(next[b]) /\ Succ(b) \subseteq Met
      BY <1>3, ArcsInTree
    <2>2. \A b \in Met : (Succ(b))' = ToSet(next'[b])
      BY <1>1 DEF Succ
    <2> QED
      BY <1>1, <2>1, <2>2
  <1>6. /\ DOMAIN arcsClasses' = DOMAIN arcsClasses \cup unprocArcs
        /\ \A a \in DOMAIN arcsClasses : arcsClasses'[a] = arcsClasses[a]
        /\ \A a \in unprocArcs : a \notin DOMAIN arcsClasses
                                   => arcsClasses'[a] = ArcClass(a[1], a[2])
    <2> DEFINE g == [a \in unprocArcs |-> ArcClass(a[1], a[2])]
    <2>1. DOMAIN g = unprocArcs /\ \A a \in unprocArcs : g[a] = ArcClass(a[1], a[2])
      OBVIOUS
    <2> HIDE DEF g
    <2>2. arcsClasses' = EmplaceAll(arcsClasses, g)
      BY <1>2 DEF g
    <2> QED
      BY <2>1, <2>2 DEF EmplaceAll
  <1>7. \A a \in DOMAIN arcsClasses :
          /\ a \in Met \X Met /\ arcsClasses[a] = "TREE" /\ a[2] \in Succ(a[1])
          /\ timeIn[a[1]] < timeIn[a[2]]
    <2>1. \A x \in Met \ {Entry} : timeIn[parent[x]] < timeIn[x] /\ x \in Succ(parent[x])
      BY <1>3, ParentFacts
    <2>2. ASSUME NEW a \in DOMAIN arcsClasses
          PROVE  /\ a \in Met \X Met /\ arcsClasses[a] = "TREE"
                 /\ a[2] \in Met \ {Entry} /\ parent[a[2]] = a[1]
      BY <1>3 DEF TreeArcs
    <2> QED
      BY <2>1, <2>2
  <1>8. \A a \in unprocArcs : a \in Met \X Met /\ a[2] \in Succ(a[1])
    BY <1>3, <1>5 DEF Unprocessed
  <1>9. ASSUME NEW a \in Met \X Met, a[2] \in Succ(a[1])
        PROVE  a \in DOMAIN arcsClasses \cup unprocArcs
    <2>1. a = <<a[1], a[2]>> /\ a[1] \in Finished
      BY <1>4, <1>9
    <2>2. Known(a[1], a[2])
      BY <1>3, <1>5, <1>9, <2>1 DEF HandledKnown
    <2> QED
      BY <2>1, <2>2 DEF Known
  <1>10. DOMAIN arcsClasses' = {a \in Met \X Met : a[2] \in Succ(a[1])}
    BY <1>6, <1>7, <1>8, <1>9
  <1>11. ASSUME NEW a \in DOMAIN arcsClasses'
         PROVE  arcsClasses'[a] \in Classes /\ (arcsClasses'[a] = "BACK" <=> Inside(a[1], a[2]))
    <2>1. CASE a \in DOMAIN arcsClasses
      <3>1. arcsClasses'[a] = "TREE" /\ timeIn[a[1]] \in Nat /\ timeIn[a[2]] \in Nat
        BY <1>4, <1>6, <1>7, <2>1
      <3>2. ~Inside(a[1], a[2])
        BY <1>7, <2>1, <3>1 DEF Inside
      <3> QED
        BY <3>1, <3>2 DEF Classes
    <2>2. CASE a \notin DOMAIN arcsClasses
      <3>1. arcsClasses'[a] = ArcClass(a[1], a[2]) /\ a[1] \in Met /\ a[2] \in Met
        BY <1>6, <1>8, <2>2
      <3>2. ~(Inside(a[2], a[1]) /\ Inside(a[1], a[2]))
        BY <1>4, <3>1 DEF Inside
      <3> QED
        BY <3>1, <3>2 DEF ArcClass, Classes
    <2> QED
      BY <2>1, <2>2
  <1>12. \A a \in Met \X Met : a[2] \in Succ(a[1]) <=> a[2] \in (Succ(a[1]))'
    BY <1>5
  <1>13. Classified'
    <2>1. \A x, y : Inside(x, y)' <=> Inside(x, y)
      BY <1>2 DEF Inside
    <2>2. DOMAIN arcsClasses' = {a \in Met \X Met : (a[2] \in Succ(a[1]))'}
      BY <1>10, <1>12
    <2>3. \A a \in DOMAIN arcsClasses' :
            arcsClasses'[a] \in Classes /\ (arcsClasses'[a] = "BACK" <=> (Inside(a[1], a[2]))')
      BY <1>11, <2>1
    <2> QED
      BY <1>1, <1>2, <2>2, <2>3 DEF Classified
  <1> QED
    BY <1>3, <1>13 DEF ArcInv

(* Later phases change nothing that dfs and classifyArcs have found.       *)
Rested == ~Walking /\ ~Walking' /\ UNCHANGED <<next, dfsVars, arcsClasses>>

(* So they keep what is known of the traversal and the arcs.               *)
LEMMA RestedKeeps ==
  ASSUME WalkInv, ArcInv, Rested, phase' \in Phases
  PROVE  /\ WalkInv' /\ ArcInv' /\ Met' = Met /\ Entry' = Entry /\ Blocks' = Blocks
         /\ Walked /\ Walked'
  <1>1. WalkKept
    BY DEF Rested, WalkKept, Walking, dfsVars, WalkInv, WalkTypes
  <1>2. WalkInv' /\ Met' = Met /\ Entry' = Entry /\ Blocks' = Blocks
    BY <1>1, KeptKeeps
  <1>3. Classified
    BY DEF Rested, ArcInv
  <1>4. Classified'
    BY <1>2, <1>3 DEF Rested, dfsVars, Classified, Succ, Inside
  <1>5. ArcInv'
    BY <1>4 DEF Rested, ArcInv
  <1> QED
    BY <1>2, <1>5 DEF Walked, Rested, Walking

(* At the start no arc is known.                                           *)
LEMMA ArcsStart ==
  ASSUME Init
  PROVE  ArcInv
  <1>1. /\ phase = "dfs" /\ unprocArcs = {} /\ DOMAIN arcsClasses = {} /\ DOMAIN timeOut = {}
        /\ path = <<[block |-> Entry, arcs |-> 0]>>
    BY DEF Init
  <1>2. DOMAIN path = {1} /\ path[1].arcs = 0
    BY <1>1
  <1>3. HandledKnown
    BY <1>1, <1>2 DEF HandledKnown, Finished
  <1> QED
    BY <1>1, <1>3 DEF ArcInv, Walking, Unprocessed, TreeArcs

-----------------------------------------------------------------------------
(***************************************************************************)
(* The invariant of dominators.                                            *)
(***************************************************************************)
Processed == Met \ ({Entry} \cup ToSet(pending))

(* Those still to come are the first of the traversal but the entry.       *)
PendingInOrder ==
  /\ pending \in Seq(Met) /\ Len(pending) < Len(found)
  /\ \A i \in 1 .. Len(pending) : pending[i] = found[i + 1]

(* A block of P waits in b, at its semidominator, for the child of that     *)
(* which is above it, or is decided in d.                                  *)
Waiting(b, P) ==
  /\ b \in [Met -> Seq(Met)]
  /\ \A x \in Met : \A v \in ToSet(b[x]) :
       /\ v \in P /\ EarliestInto(v) = x
       /\ \A c \in P : parent[c] = x => ~Anc(c, v)

WaitsOrDecided(b, d, P) == \A v \in P : v \in ToSet(b[EarliestInto(v)]) \/ Decided(v, d[v])

Buckets == Waiting(bucket, Processed) /\ WaitsOrDecided(bucket, dominator, Processed)

SemiInv ==
  /\ PendingInOrder
  /\ Linked(Forest, Processed)
  /\ \A c \in Met \ Processed : sdom[c] = c
  /\ dominator[Entry] = None
  /\ Buckets

(* What the graph and the times determine stays when they do.              *)
LEMMA SameGraph ==
  ASSUME UNCHANGED <<next, found, timeIn, timeOut>>
  PROVE  /\ Met' = Met /\ Entry' = Entry
         /\ \A x, y : Anc(x, y)' <=> Anc(x, y)
         /\ \A w : EarliestInto(w)' = EarliestInto(w)
         /\ \A x, y : Dominates(x, y)' <=> Dominates(x, y)
  <1>1. ASSUME NEW w PROVE EarliestInto(w)' = EarliestInto(w)
    BY DEF EarliestInto, ReachFrom, Succ, Met
  <1>2. ASSUME NEW x, NEW y PROVE Dominates(x, y)' <=> Dominates(x, y)
    BY DEF Dominates, ReachFrom, Succ, Met, Entry
  <1>3. ASSUME NEW x, NEW y PROVE Anc(x, y)' <=> Anc(x, y)
    BY DEF Anc
  <1>4. Met' = Met /\ Entry' = Entry
    BY DEF Met, Entry
  <1> QED
    BY <1>1, <1>2, <1>3, <1>4

(* What the forest is measured by stays too.                               *)
LEMMA SameForest ==
  ASSUME UNCHANGED <<next, found, timeIn, timeOut, parent>>
  PROVE  /\ Forests' = Forests
         /\ \A f, P : Linked(f, P)' <=> Linked(f, P)
         /\ \A v, d : Decided(v, d)' <=> Decided(v, d)
         /\ \A b, P : Waiting(b, P)' <=> Waiting(b, P)
         /\ \A b, d, P : WaitsOrDecided(b, d, P)' <=> WaitsOrDecided(b, d, P)
  <1>1. /\ Met' = Met
        /\ \A x, y : Anc(x, y)' <=> Anc(x, y)
        /\ \A w : EarliestInto(w)' = EarliestInto(w)
    BY SameGraph
  <1>2. Forests' = Forests
    BY <1>1 DEF Forests
  <1>3. \A a, c : Between(a, c)' = Between(a, c)
    BY <1>1 DEF Between
  <1>4. \A S, u : LeastOn(S, u)' <=> LeastOn(S, u)
    BY <1>1 DEF LeastOn
  <1>5. ASSUME NEW f, NEW P PROVE Linked(f, P)' <=> Linked(f, P)
    BY <1>1, <1>2, <1>3, <1>4 DEF Linked
  <1>6. \A v : Stretch(v)' = Stretch(v)
    BY <1>1 DEF Stretch
  <1>7. ASSUME NEW v, NEW d PROVE Decided(v, d)' <=> Decided(v, d)
    BY <1>1, <1>4, <1>6 DEF Decided
  <1>8. ASSUME NEW b, NEW P PROVE Waiting(b, P)' <=> Waiting(b, P)
    BY <1>1 DEF Waiting
  <1>9. ASSUME NEW b, NEW d, NEW P PROVE WaitsOrDecided(b, d, P)' <=> WaitsOrDecided(b, d, P)
    BY <1>1, <1>7 DEF WaitsOrDecided
  <1> QED
    BY <1>2, <1>5, <1>7, <1>8, <1>9

(* The blocks that have been passed are those after the last pending one.  *)
LEMMA PendingFacts ==
  ASSUME Walked, PendingInOrder, NEW n, n = Len(pending), NEW b, b = found[n + 1]
  PROVE  /\ n \in Nat /\ n + 1 \in DOMAIN found /\ b \in Met /\ DOMAIN pending = 1 .. n
         /\ Processed = {x \in Met : timeIn[x] > timeIn[b]}
         /\ n = 0 <=> b = Entry
         /\ n > 0 => b = pending[n]
         /\ pending = <<>> <=> n = 0
         /\ Latest(Processed)
  <1> DEFINE L == Len(found)
  <1>1. /\ DOMAIN found = 1 .. L /\ L \in Nat
        /\ \A i \in DOMAIN found : found[i] \in Met
        /\ \A x \in Met : \E i \in DOMAIN found : found[i] = x
    BY PathFacts DEF Walked, WalkInv
  <1>2. \A i, j \in DOMAIN found : i < j => timeIn[found[i]] < timeIn[found[j]]
    BY DEF Walked, WalkInv, FoundInOrder
  <1>3. n \in Nat /\ n < L /\ DOMAIN pending = 1 .. n /\ \A i \in 1 .. n : pending[i] = found[i + 1]
    BY DEF PendingInOrder
  <1>4. \A x \in Met : timeIn[x] \in Nat
    BY TreeTimes
  <1> HIDE DEF L
  <1>5. n + 1 \in DOMAIN found /\ b \in Met
    BY <1>1, <1>3
  <1>6. 1 \in DOMAIN found /\ Entry = found[1]
    BY <1>1, <1>3 DEF Entry
  <1>7. ToSet(pending) = {found[i] : i \in 2 .. (n + 1)}
    <2>1. ToSet(pending) = {pending[i] : i \in 1 .. n}
      BY <1>3 DEF ToSet
    <2>2. \A i \in 1 .. n : i + 1 \in 2 .. (n + 1) /\ pending[i] = found[i + 1]
      BY <1>3
    <2>3. \A i \in 2 .. (n + 1) : i - 1 \in 1 .. n /\ pending[i - 1] = found[i]
      BY <1>3
    <2> QED
      BY <2>1, <2>2, <2>3
  <1>8. ASSUME NEW i \in DOMAIN found
        PROVE  found[i] \in Processed <=> i > n + 1
    <2>1. i \in Nat /\ i >= 1
      BY <1>1, <1>8
    <2>2. CASE i > n + 1
      <3>1. \A j \in DOMAIN found : j <= n + 1 => found[j] # found[i]
        BY <1>1, <1>2, <1>3, <1>4, <2>1, <2>2
      <3>2. \A j \in 2 .. (n + 1) : j \in DOMAIN found
        BY <1>1, <1>3
      <3>3. found[i] # Entry
        BY <1>3, <1>6, <3>1
      <3> QED
        BY <1>1, <1>3, <1>7, <2>2, <3>1, <3>2, <3>3 DEF Processed
    <2>3. CASE i <= n + 1
      <3>1. i = 1 \/ i \in 2 .. (n + 1)
        BY <1>3, <2>1, <2>3
      <3>2. found[i] = Entry \/ found[i] \in ToSet(pending)
        BY <1>6, <1>7, <3>1
      <3> QED
        BY <1>3, <2>1, <2>3, <3>2 DEF Processed
    <2> QED
      BY <1>3, <2>1, <2>2, <2>3
  <1>9. \A i \in DOMAIN found : timeIn[found[i]] > timeIn[b] <=> i > n + 1
    BY <1>1, <1>2, <1>3, <1>4, <1>5
  <1>10. Processed \subseteq Met
    BY DEF Processed
  <1>11. Processed = {x \in Met : timeIn[x] > timeIn[b]}
    BY <1>1, <1>8, <1>9, <1>10
  <1>12. n = 0 <=> b = Entry
    BY <1>2, <1>3, <1>4, <1>5, <1>6, <1>1
  <1>13. n > 0 => b = pending[n]
    BY <1>3
  <1>14. pending = <<>> <=> n = 0
    BY <1>3 DEF PendingInOrder
  <1>15. Latest(Processed)
    <2>1. Entry \notin Processed
      BY DEF Processed
    <2> QED
      BY <1>4, <1>5, <1>11, <2>1 DEF Latest
  <1> QED
    BY <1>3, <1>5, <1>11, <1>12, <1>13, <1>14, <1>15

-----------------------------------------------------------------------------
(* A turn of the descending loop. *)
LEMMA AppendFacts ==
  ASSUME NEW S, NEW q \in Seq(S), NEW w \in S
  PROVE  /\ Append(q, w) \in Seq(S) /\ ToSet(Append(q, w)) = ToSet(q) \cup {w}
         /\ Len(q) \in Nat /\ ToSet(q) = Firsts(q, Len(q)) /\ ToSet(q) \subseteq S
         /\ \A i \in 1 .. Len(q) : q[i] \in S
  <1> DEFINE n == Len(q)
             r == Append(q, w)
  <1>1. n \in Nat /\ DOMAIN q = 1 .. n /\ \A i \in 1 .. n : q[i] \in S
    OBVIOUS
  <1>2. /\ r \in Seq(S) /\ DOMAIN r = 1 .. (n + 1) /\ r[n + 1] = w
        /\ \A i \in 1 .. n : r[i] = q[i]
    OBVIOUS
  <1> HIDE DEF n, r
  <1>3. ToSet(q) = Firsts(q, n) /\ ToSet(q) \subseteq S
    BY <1>1 DEF ToSet, Firsts
  <1>4. ToSet(r) = ToSet(q) \cup {w}
    <2>1. ToSet(r) = {r[i] : i \in 1 .. (n + 1)} /\ ToSet(q) = {q[i] : i \in 1 .. n}
      BY <1>1, <1>2 DEF ToSet
    <2>2. \A i \in 1 .. n : i \in 1 .. (n + 1)
      BY <1>1
    <2>3. n + 1 \in 1 .. (n + 1)
      BY <1>1
    <2>4. \A i \in 1 .. (n + 1) : i \in 1 .. n \/ i = n + 1
      BY <1>1
    <2> QED
      BY <1>2, <2>1, <2>2, <2>3, <2>4
  <1> QED
    BY <1>1, <1>2, <1>3, <1>4 DEF n, r

(* The semidominator of the block of this turn is found.                   *)
LEMMA TurnFinds ==
  ASSUME Walked, SemiInv, pending # <<>>, NEW w, w = Last(pending),
         Pred(w) \subseteq Met, NEW preds, preds \in SetToSeqs(Pred(w)),
         NEW h, h = LookAtAll(Forest, w, preds)
  PROVE  /\ w \in Met \ {Entry} /\ Processed = Later(w) /\ w \notin Later(w)
         /\ Linked(h, Later(w)) /\ h.dominator = dominator
         /\ h.sdom[w] = EarliestInto(w) /\ \A c \in Met \ {w} : h.sdom[c] = sdom[c]
  <1> DEFINE P == Later(w)
  <1> DEFINE n == Len(pending)
             b == found[n + 1]
  <1>1. PendingInOrder
    BY DEF SemiInv
  <1>2. n \in Nat /\ b \in Met /\ Processed = {x \in Met : timeIn[x] > timeIn[b]}
        /\ (n = 0 <=> b = Entry) /\ (n > 0 => b = pending[n]) /\ (pending = <<>> <=> n = 0)
        /\ Latest(Processed)
    BY <1>1, PendingFacts
  <1>3. w = pending[n]
    BY DEF Last
  <1> HIDE DEF n, b
  <1>4. w = b /\ w \in Met \ {Entry}
    BY <1>2, <1>3
  <1>5. Processed = P /\ P = {x \in Met : timeIn[x] > timeIn[w]} /\ Latest(P)
    BY <1>2, <1>4 DEF Later
  <1>6. w \notin P
    <2>1. timeIn[w] \in Nat
      BY <1>4, TreeTimes
    <2> QED
      BY <1>5, <2>1
  <1> DEFINE V == Pred(w)
             F == Forest
  <1>7. V = {v \in Met : w \in Succ(v)}
    <2>1. \A v \in Met : Succ(v) = ToSet(next[v]) /\ v \in DOMAIN next
      BY ArcsInTree DEF Walked, WalkInv, WalkTypes
    <2> QED
      BY <2>1 DEF Pred
  <1>8. IsFiniteSet(V)
    BY <1>7, TreeTimes, FS_Subset
  <1>9. Linked(F, P) /\ (\A c \in Met \ P : sdom[c] = c)
    BY <1>5 DEF SemiInv
  <1>10. F.sdom = sdom /\ F.dominator = dominator
    BY DEF Forest
  <1>11. \A c \in Met \ P : F.sdom[c] = c
    BY <1>9, <1>10
  <1>12. preds \in SetToSeqs(V)
    OBVIOUS
  <1> HIDE DEF V, F
  <1>13. PICK m \in Nat : /\ Len(preds) = m /\ \A i \in 1 .. m : preds[i] \in V
                          /\ Firsts(preds, m) = V
    BY <1>8, <1>12, OrderingHasAll
  <1>14. \A i \in 1 .. m : preds[i] \in Met
    BY <1>7, <1>13
  <1>15. Scanned(F, h, P, w, V)
    <2>1. w \in Met \ P
      BY <1>4, <1>6
    <2>2. m = Len(preds)
      BY <1>13
    <2>3. Scanned(F, h, P, w, Firsts(preds, m))
      <3>1. Scanned(F, LookAtAll(F, w, preds), P, w, Firsts(preds, m))
        BY <1>5, <1>9, <1>11, <1>14, <2>1, <2>2, LookAtAllIs
      <3> QED
        BY <3>1 DEF F
    <2> QED
      BY <1>13, <2>3
  <1>17. h.sdom[w] = EarliestInto(w)
    BY <1>4, <1>5, <1>7, <1>15, ScanFindsSemi
  <1>18. Linked(h, P) /\ h.dominator = F.dominator /\ \A c \in Met \ {w} : h.sdom[c] = F.sdom[c]
    BY <1>15 DEF Scanned
  <1> QED
    BY <1>4, <1>5, <1>6, <1>10, <1>17, <1>18

(* What waits at the parent of w waited for w to be linked.                *)
LEMMA WaitsForW ==
  ASSUME Walked, Buckets, NEW w \in Met \ {Entry}, Processed = Later(w),
         NEW p, p = parent[w], NEW v,
         v \in ToSet(bucket[p]) \/ (v = w /\ EarliestInto(w) = p)
  PROVE  v \in Later(w) \cup {w} /\ LinkedAbove(Later(w) \cup {w}, v) = Stretch(v)
  <1>1. /\ p \in Met /\ timeIn[p] < timeIn[w]
        /\ \A a \in Met : Anc(a, w) /\ a # w => Anc(a, p)
        /\ \A a \in Met : timeIn[p] < timeIn[a] /\ timeIn[a] < timeIn[w] => timeOut[a] < timeIn[w]
    BY ParentFacts
  <1>2. /\ \A x \in Met : timeIn[x] \in Nat /\ timeOut[x] \in Nat
        /\ \A x, y \in Met : timeIn[x] = timeIn[y] => x = y
        /\ \A x \in Met : timeIn[Entry] <= timeIn[x]
    BY TreeTimes
  <1>3. \A x \in Met : x \in Later(w) <=> timeIn[x] > timeIn[w]
    BY DEF Later
  <1>4. v \in ToSet(bucket[p]) => /\ v \in Later(w) /\ EarliestInto(v) = p
                                  /\ \A c \in Later(w) : parent[c] = p => ~Anc(c, v)
    BY <1>1 DEF Buckets, Waiting
  <1>5. v \in Later(w) \cup {w} /\ EarliestInto(v) = p /\ v \in Met
    BY <1>4 DEF Later
  <1>6. v # Entry
    BY <1>2, <1>3, <1>5
  <1>7. Anc(p, v) /\ p # v
    BY <1>5, <1>6, SemiFacts
  <1>8. PICK c \in Met \ {Entry} : parent[c] = p /\ Anc(c, v)
    BY <1>1, <1>5, <1>7, ChildAbove
  <1>9. timeIn[p] < timeIn[c] /\ \A a \in Met : Anc(a, c) /\ a # c => Anc(a, p)
    BY <1>8, ParentFacts
  <1>10. c = w
    <2>1. CASE v \in ToSet(bucket[p])
      <3>1. c \notin Later(w) /\ timeIn[v] > timeIn[w] /\ timeIn[v] < timeOut[c]
        BY <1>3, <1>4, <1>5, <1>8, <2>1 DEF Anc
      <3>2. timeIn[c] <= timeIn[w]
        BY <1>2, <1>3, <3>1
      <3>3. ~(timeIn[c] < timeIn[w])
        BY <1>1, <1>2, <1>5, <1>9, <3>1
      <3> QED
        BY <1>2, <3>2, <3>3
    <2>2. CASE v = w
      <3>1. SUFFICES ASSUME c # w PROVE FALSE
        OBVIOUS
      <3>2. Anc(c, p)
        BY <1>1, <1>8, <2>2, <3>1
      <3> QED
        BY <1>1, <1>2, <1>9, <3>2 DEF Anc
    <2> QED
      BY <2>1, <2>2
  <1>11. ASSUME NEW z \in Stretch(v) PROVE z \in LinkedAbove(Later(w) \cup {w}, v)
    <2>1. z \in Met /\ Anc(z, v) /\ timeIn[z] > timeIn[p]
      BY <1>5, <1>11 DEF Stretch
    <2>2. SUFFICES ASSUME z \notin Later(w) \cup {w} PROVE FALSE
      BY <2>1 DEF LinkedAbove
    <2>3. timeIn[z] <= timeIn[w] /\ z # w
      BY <1>2, <1>3, <2>1, <2>2
    <2>4. Anc(z, w)
      BY <1>5, <1>8, <1>10, <2>1, <2>3, AncOrder
    <2>5. Anc(z, p)
      BY <1>1, <2>1, <2>3, <2>4
    <2> QED
      BY <1>1, <1>2, <2>1, <2>5 DEF Anc
  <1>12. ASSUME NEW z \in LinkedAbove(Later(w) \cup {w}, v) PROVE z \in Stretch(v)
    <2>1. z \in Later(w) \cup {w} /\ Anc(z, v) /\ z \in Met
      BY <1>12 DEF LinkedAbove, Later
    <2>2. timeIn[z] >= timeIn[w]
      BY <1>2, <1>3, <2>1
    <2>3. timeIn[z] > timeIn[p]
      BY <1>1, <1>2, <2>1, <2>2
    <2> QED
      BY <1>5, <2>1, <2>3 DEF Stretch
  <1> QED
    BY <1>5, <1>11, <1>12

(* ... and is decided now.                                                 *)
LEMMA TurnDecides ==
  ASSUME Walked, Buckets, NEW w \in Met \ {Entry}, Processed = Later(w),
         NEW p, p = parent[w], NEW list \in Seq(Met),
         \A v \in ToSet(list) : v \in ToSet(bucket[p]) \/ (v = w /\ EarliestInto(w) = p),
         NEW f, Latest(Later(w) \cup {w}), Linked(f, Later(w) \cup {w})
  PROVE  /\ ToSet(list) \subseteq Later(w) \cup {w}
         /\ Settled(f, DecideAll(f, list), Later(w) \cup {w}, ToSet(list))
  <1> DEFINE Q == Later(w) \cup {w}
             m == Len(list)
  <1>1. m \in Nat /\ ToSet(list) = Firsts(list, m)
    BY AppendFacts
  <1>2. \A i \in 1 .. m : list[i] \in ToSet(list)
    BY <1>1 DEF Firsts
  <1>3. \A v \in ToSet(list) : v \in Q /\ LinkedAbove(Q, v) = Stretch(v)
    BY WaitsForW
  <1> HIDE DEF Q, m
  <1>4. Linked(f, Q) /\ Latest(Q)
    BY DEF Q
  <1>5. m = Len(list)
    BY DEF m
  <1>6. Settled(f, DecideAll(f, list), Q, Firsts(list, m))
    BY <1>1, <1>2, <1>3, <1>4, <1>5, DecideAllIs
  <1> QED
    BY <1>1, <1>3, <1>6 DEF Q

(* w waits at its semidominator, and what waits at its parent is decided.  *)
TurnTo(w, f, filled, d, emptied) ==
  /\ filled = [bucket EXCEPT ![EarliestInto(w)] = Append(@, w)]
  /\ d = DecideAll(f, filled[parent[w]])
  /\ emptied = [filled EXCEPT ![parent[w]] = <<>>]

(* What waits elsewhere goes on waiting, and w with it.                    *)
LEMMA TurnBuckets ==
  ASSUME Walked, Buckets, NEW w \in Met \ {Entry}, Processed = Later(w),
         NEW f, Latest(Later(w) \cup {w}), Linked(f, Later(w) \cup {w}), f.dominator = dominator,
         NEW filled, NEW d, NEW emptied, TurnTo(w, f, filled, d, emptied)
  PROVE  /\ Waiting(emptied, Later(w) \cup {w})
         /\ WaitsOrDecided(emptied, d.dominator, Later(w) \cup {w})
         /\ Linked(d, Later(w) \cup {w}) /\ d.sdom = f.sdom
         /\ d.dominator[Entry] = dominator[Entry]
  <1> DEFINE Q == Later(w) \cup {w}
             b == bucket
             p == parent[w]
             s == EarliestInto(w)
  <1>1. p \in Met /\ s \in Met /\ w \in Met /\ timeIn[p] < timeIn[w]
    BY ParentFacts, SemiFacts
  <1>2. b \in [Met -> Seq(Met)]
    BY DEF Buckets, Waiting
  <1>3. /\ filled = [b EXCEPT ![s] = Append(@, w)] /\ d = DecideAll(f, filled[p])
        /\ emptied = [filled EXCEPT ![p] = <<>>] /\ s = EarliestInto(w)
        /\ p = parent[w]
    BY DEF TurnTo
  <1> HIDE DEF b, p, s
  <1>4. /\ filled \in [Met -> Seq(Met)] /\ emptied \in [Met -> Seq(Met)]
        /\ \A x \in Met : ToSet(filled[x]) = IF x = s THEN ToSet(b[x]) \cup {w} ELSE ToSet(b[x])
        /\ \A x \in Met : ToSet(emptied[x]) = IF x = p THEN {} ELSE ToSet(filled[x])
    <2>1. \A x \in Met : /\ Append(b[x], w) \in Seq(Met)
                         /\ ToSet(Append(b[x], w)) = ToSet(b[x]) \cup {w}
      BY <1>1, <1>2, AppendFacts
    <2>2. /\ filled \in [Met -> Seq(Met)]
          /\ \A x \in Met : filled[x] = IF x = s THEN Append(b[x], w) ELSE b[x]
      BY <1>1, <1>2, <1>3, <2>1
    <2>3. <<>> \in Seq(Met) /\ ToSet(<<>>) = {}
      BY DEF ToSet
    <2>4. /\ emptied \in [Met -> Seq(Met)]
          /\ \A x \in Met : emptied[x] = IF x = p THEN <<>> ELSE filled[x]
      BY <1>1, <1>3, <2>2, <2>3
    <2> QED
      BY <2>1, <2>2, <2>3, <2>4
  <1>5. /\ \A x \in Met : \A v \in ToSet(b[x]) :
             /\ v \in Later(w) /\ EarliestInto(v) = x
             /\ \A c \in Later(w) : parent[c] = x => ~Anc(c, v)
        /\ \A v \in Later(w) : v \in ToSet(b[EarliestInto(v)]) \/ Decided(v, dominator[v])
    BY DEF b, Buckets, Waiting, WaitsOrDecided
  <1>6. \A v \in ToSet(filled[p]) : v \in ToSet(bucket[p]) \/ (v = w /\ EarliestInto(w) = p)
    BY <1>1, <1>3, <1>4 DEF b
  <1>7. /\ ToSet(filled[p]) \subseteq Q
        /\ Settled(f, d, Q, ToSet(filled[p]))
    <2> DEFINE l == filled[p]
    <2>1. l \in Seq(Met) /\ d = DecideAll(f, l)
          /\ \A v \in ToSet(l) : v \in ToSet(bucket[p]) \/ (v = w /\ EarliestInto(w) = p)
      BY <1>1, <1>3, <1>4, <1>6
    <2> HIDE DEF l
    <2>2. /\ ToSet(l) \subseteq Later(w) \cup {w}
          /\ Settled(f, DecideAll(f, l), Later(w) \cup {w}, ToSet(l))
      BY <1>3, <2>1, TurnDecides
    <2> QED
      BY <2>1, <2>2 DEF l
  <1>8. /\ Linked(d, Q) /\ d.sdom = f.sdom
        /\ \A v \in ToSet(filled[p]) : Decided(v, d.dominator[v])
        /\ \A v \in Met \ ToSet(filled[p]) : d.dominator[v] = dominator[v]
    BY <1>7 DEF Settled
  <1>9. /\ Entry \in Met /\ Entry \notin Q /\ Q \subseteq Met
    BY TreeTimes DEF Latest
  <1>10. ~Anc(w, p) /\ \A c \in Later(w) : ~Anc(c, w)
    <2>1. timeIn[p] \in Nat /\ timeIn[w] \in Nat /\ \A c \in Met : timeIn[c] \in Nat
      BY <1>1, TreeTimes
    <2> QED
      BY <1>1, <2>1 DEF Anc, Later
  <1>11. ASSUME NEW x \in Met, NEW v \in ToSet(emptied[x])
         PROVE  /\ v \in Q /\ EarliestInto(v) = x
                /\ \A c \in Q : parent[c] = x => ~Anc(c, v)
    <2>1. x # p /\ v \in ToSet(filled[x])
      BY <1>4, <1>11
    <2>2. v \in ToSet(b[x]) \/ (x = s /\ v = w)
      BY <1>4, <2>1
    <2>3. v \in Q /\ EarliestInto(v) = x
      BY <1>3, <1>5, <2>2
    <2>4. ASSUME NEW c \in Q, parent[c] = x PROVE ~Anc(c, v)
      <3>1. c # w /\ c \in Later(w)
        BY <1>3, <2>1, <2>4
      <3>2. CASE v \in ToSet(b[x])
        BY <1>5, <2>4, <3>1, <3>2
      <3>3. CASE v = w
        BY <1>10, <3>1, <3>3
      <3> QED
        BY <2>2, <3>2, <3>3
    <2> QED
      BY <2>3, <2>4
  <1>12. Waiting(emptied, Q)
    BY <1>4, <1>11 DEF Waiting
  <1>13. ASSUME NEW v \in Q
         PROVE  v \in ToSet(emptied[EarliestInto(v)]) \/ Decided(v, d.dominator[v])
    <2>1. v \in Met /\ EarliestInto(v) \in Met
      <3>1. v \in Met \ {Entry}
        BY <1>9
      <3> QED
        BY <3>1, SemiFacts
    <2>2. CASE v \in ToSet(filled[p])
      BY <1>8, <2>2
    <2>3. CASE v \notin ToSet(filled[p])
      <3>1. d.dominator[v] = dominator[v]
        BY <1>8, <2>1, <2>3
      <3>2. CASE v \in ToSet(filled[EarliestInto(v)])
        <4>1. EarliestInto(v) # p
          BY <2>3, <3>2
        <4> QED
          BY <1>4, <2>1, <3>2, <4>1
      <3>3. CASE v \notin ToSet(filled[EarliestInto(v)])
        <4>1. v # w
          BY <1>1, <1>3, <1>4, <3>3
        <4>2. v \in Later(w) /\ v \notin ToSet(b[EarliestInto(v)])
          BY <1>4, <2>1, <3>3, <4>1
        <4> QED
          BY <1>5, <3>1, <4>2
      <3> QED
        BY <3>2, <3>3
    <2> QED
      BY <2>2, <2>3
  <1>14. WaitsOrDecided(emptied, d.dominator, Q)
    BY <1>13 DEF WaitsOrDecided
  <1>15. d.dominator[Entry] = dominator[Entry]
    BY <1>7, <1>8, <1>9
  <1> QED
    BY <1>8, <1>12, <1>14, <1>15

-----------------------------------------------------------------------------
(* The steps of dominators. *)
LEMMA FrontFacts ==
  ASSUME Walked, PendingInOrder, NEW n, n = Len(pending), n > 0, NEW w, w = Last(pending),
         NEW rest, rest = Front(pending)
  PROVE  /\ w \in Met /\ rest \in Seq(Met) /\ Len(rest) = n - 1
         /\ \A i \in 1 .. (n - 1) : rest[i] = found[i + 1]
         /\ n < Len(found)
         /\ Met \ ({Entry} \cup ToSet(rest)) = Processed \cup {w}
  <1>1. /\ n \in Nat /\ n + 1 \in DOMAIN found /\ DOMAIN pending = 1 .. n /\ pending \in Seq(Met)
        /\ (n = 0 <=> found[n + 1] = Entry) /\ pending[n] = found[n + 1] /\ found[n + 1] \in Met
    BY PendingFacts DEF PendingInOrder
  <1>2. w = pending[n] /\ w \in Met /\ w # Entry
    BY <1>1 DEF Last
  <1>3. /\ n < Len(found) /\ \A i \in 1 .. n : pending[i] = found[i + 1]
    BY DEF PendingInOrder
  <1>4. rest = [i \in 1 .. (n - 1) |-> pending[i]]
    BY <1>1 DEF Front
  <1>5. /\ rest \in Seq(Met) /\ Len(rest) = n - 1 /\ DOMAIN rest = 1 .. (n - 1)
        /\ \A i \in 1 .. (n - 1) : rest[i] = pending[i]
    <2> DEFINE m == n - 1
    <2>1. m \in Nat /\ \A i \in 1 .. m : pending[i] \in Met /\ i \in 1 .. n
      BY <1>1
    <2>2. rest = [i \in 1 .. m |-> pending[i]]
      BY <1>4
    <2> HIDE DEF m
    <2>3. /\ rest \in Seq(Met) /\ Len(rest) = m /\ DOMAIN rest = 1 .. m
          /\ \A i \in 1 .. m : rest[i] = pending[i]
      BY <2>1, <2>2
    <2> QED
      BY <2>3 DEF m
  <1>6. \A i \in 1 .. (n - 1) : rest[i] = found[i + 1]
    <2>1. \A i \in 1 .. (n - 1) : i \in 1 .. n
      BY <1>1
    <2> QED
      BY <1>3, <1>5, <2>1
  <1>7. \A i, j \in DOMAIN found : i < j => timeIn[found[i]] < timeIn[found[j]]
    BY DEF Walked, WalkInv, FoundInOrder
  <1>8. \A i \in 1 .. (n - 1) : rest[i] # w
    <2>1. DOMAIN found = 1 .. Len(found) /\ Len(found) \in Nat
      BY PathFacts DEF Walked, WalkInv
    <2>2. \A i \in 1 .. (n - 1) : i + 1 \in DOMAIN found /\ i + 1 < n + 1
      BY <1>1, <1>3, <2>1
    <2>3. \A x \in Met : timeIn[x] \in Nat
      BY TreeTimes
    <2> QED
      BY <1>1, <1>2, <1>6, <1>7, <2>2, <2>3
  <1>9. ToSet(pending) = ToSet(rest) \cup {w} /\ w \notin ToSet(rest)
    <2>1. ToSet(pending) = {pending[i] : i \in 1 .. n}
          /\ ToSet(rest) = {rest[i] : i \in 1 .. (n - 1)}
      BY <1>1, <1>5 DEF ToSet
    <2>2. \A i \in 1 .. n : i = n \/ i \in 1 .. (n - 1)
      BY <1>1
    <2>3. n \in 1 .. n /\ \A i \in 1 .. (n - 1) : i \in 1 .. n
      BY <1>1
    <2>4. w \notin ToSet(rest)
      BY <1>8, <2>1
    <2>5. \A i \in 1 .. n : pending[i] = w \/ (i \in 1 .. (n - 1) /\ pending[i] = rest[i])
      BY <1>2, <1>5, <2>2
    <2>6. ToSet(pending) \subseteq ToSet(rest) \cup {w}
      BY <2>1, <2>5
    <2>7. ToSet(rest) \subseteq ToSet(pending) /\ w \in ToSet(pending)
      BY <1>2, <1>5, <2>1, <2>3
    <2> QED
      BY <2>4, <2>6, <2>7
  <1>10. Met \ ({Entry} \cup ToSet(rest)) = Processed \cup {w}
    BY <1>2, <1>9 DEF Processed
  <1> QED
    BY <1>2, <1>3, <1>5, <1>6, <1>10

(* The end of a turn, when the predecessors of w have been looked at.      *)
TurnEnds(w, h) ==
  LET f == Link(h, w)
      filled == [bucket EXCEPT ![f.sdom[w]] = Append(@, w)]
      g == DecideAll(f, filled[parent[w]])
  IN  /\ ancestor' = g.ancestor /\ label' = g.label
      /\ sdom' = g.sdom /\ dominator' = g.dominator
      /\ bucket' = [filled EXCEPT ![parent[w]] = <<>>]

(* A turn that does not fail links one block with its semidominator found. *)
LEMMA TurnLooks ==
  ASSUME Walked, SemiInv, Semidominator, phase' = "semi", NEW w, w = Last(pending)
  PROVE  /\ pending # <<>> /\ UNCHANGED <<next, found, timeIn, timeOut, parent>>
         /\ pending' = Front(pending)
         /\ w \in Met \ {Entry} /\ Processed = Later(w) /\ w \notin Later(w)
         /\ \E h : /\ Linked(h, Later(w)) /\ h.dominator = dominator
                   /\ h.sdom[w] = EarliestInto(w) /\ \A c \in Met \ {w} : h.sdom[c] = sdom[c]
                   /\ TurnEnds(w, h)
  <1>1. /\ pending # <<>> /\ UNCHANGED <<next, found, timeIn, timeOut, parent>>
        /\ Pred(w) \subseteq Met /\ pending' = Front(pending)
    BY DEF Semidominator, dfsVars
  <1>2. PICK preds \in SetToSeqs(Pred(w)) : TurnEnds(w, LookAtAll(Forest, w, preds))
    BY DEF Semidominator, TurnEnds
  <1>3. PICK h : h = LookAtAll(Forest, w, preds)
    OBVIOUS
  <1>4. /\ w \in Met \ {Entry} /\ Processed = Later(w) /\ w \notin Later(w)
        /\ Linked(h, Later(w)) /\ h.dominator = dominator
        /\ h.sdom[w] = EarliestInto(w) /\ \A c \in Met \ {w} : h.sdom[c] = sdom[c]
    BY <1>1, <1>3, TurnFinds
  <1>5. TurnEnds(w, h)
    BY <1>2, <1>3
  <1> QED
    BY <1>1, <1>4, <1>5

(* A turn of the descending loop keeps the invariant of dominators.        *)
LEMMA TurnKeeps ==
  ASSUME Walked, SemiInv, Semidominator, phase' = "semi"
  PROVE  SemiInv'
  <1> SUFFICES ASSUME NEW w, w = Last(pending) PROVE SemiInv'
    OBVIOUS
  <1>1. /\ pending # <<>> /\ UNCHANGED <<next, found, timeIn, timeOut, parent>>
        /\ pending' = Front(pending)
        /\ w \in Met \ {Entry} /\ Processed = Later(w) /\ w \notin Later(w)
    BY TurnLooks
  <1>2. PICK h : /\ Linked(h, Later(w)) /\ h.dominator = dominator
                 /\ h.sdom[w] = EarliestInto(w) /\ \A c \in Met \ {w} : h.sdom[c] = sdom[c]
                 /\ TurnEnds(w, h)
    BY TurnLooks
  <1>3. /\ PendingInOrder /\ dominator[Entry] = None /\ Buckets
        /\ \A c \in Met \ Processed : sdom[c] = c
    BY DEF SemiInv
  <1>4. PICK f : f = Link(h, w)
    OBVIOUS
  <1>5. /\ Latest(Later(w) \cup {w}) /\ Linked(f, Later(w) \cup {w})
        /\ f.sdom = h.sdom /\ f.dominator = h.dominator
    BY <1>1, <1>2, <1>4, LinkKeeps
  <1>6. f.sdom[w] = EarliestInto(w) /\ f.dominator = dominator
    BY <1>2, <1>5
  <1>7. PICK filled : filled = [bucket EXCEPT ![EarliestInto(w)] = Append(@, w)]
    OBVIOUS
  <1>8. PICK d : d = DecideAll(f, filled[parent[w]])
    OBVIOUS
  <1>9. PICK emptied : emptied = [filled EXCEPT ![parent[w]] = <<>>]
    OBVIOUS
  <1>10. TurnTo(w, f, filled, d, emptied)
    BY <1>7, <1>8, <1>9 DEF TurnTo
  <1>12. /\ ancestor' = d.ancestor /\ label' = d.label /\ sdom' = d.sdom
         /\ dominator' = d.dominator /\ bucket' = emptied
    BY <1>2, <1>4, <1>6, <1>7, <1>8, <1>9 DEF TurnEnds
  <1>13. /\ Waiting(emptied, Later(w) \cup {w})
         /\ WaitsOrDecided(emptied, d.dominator, Later(w) \cup {w})
         /\ Linked(d, Later(w) \cup {w}) /\ d.sdom = f.sdom
         /\ d.dominator[Entry] = dominator[Entry]
    <2>1. /\ Buckets /\ w \in Met \ {Entry} /\ Processed = Later(w)
          /\ Latest(Later(w) \cup {w}) /\ Linked(f, Later(w) \cup {w}) /\ f.dominator = dominator
      BY <1>1, <1>3, <1>5, <1>6
    <2> QED
      BY <1>10, <2>1, TurnBuckets
  <1>14. PICK Q : Q = Later(w) \cup {w}
    OBVIOUS
  <1>15. Forest' = d
    <2>1. d \in Forests
      BY <1>13 DEF Linked
    <2>2. d = [ancestor |-> d.ancestor, label |-> d.label, sdom |-> d.sdom,
               dominator |-> d.dominator]
      BY <2>1 DEF Forests
    <2>3. Forest' = [ancestor |-> ancestor', label |-> label', sdom |-> sdom',
                     dominator |-> dominator']
      BY DEF Forest
    <2> QED
      BY <1>12, <2>2, <2>3
  <1>16. /\ Met' = Met /\ Entry' = Entry
         /\ \A g, P : Linked(g, P)' <=> Linked(g, P)
         /\ \A b, P : Waiting(b, P)' <=> Waiting(b, P)
         /\ \A b, e, P : WaitsOrDecided(b, e, P)' <=> WaitsOrDecided(b, e, P)
    BY <1>1, SameGraph, SameForest
  <1> PICK n : n = Len(pending)
    OBVIOUS
  <1>17. n > 0
    BY <1>1, <1>3, PendingFacts
  <1>18. /\ pending' \in Seq(Met) /\ Len(pending') = n - 1
         /\ \A i \in 1 .. (n - 1) : pending'[i] = found[i + 1]
         /\ n < Len(found)
         /\ Met \ ({Entry} \cup ToSet(pending')) = Processed \cup {w}
    BY <1>1, <1>3, <1>17, FrontFacts
  <1>19. Processed' = Q
    BY <1>1, <1>14, <1>16, <1>18 DEF Processed
  <1>20. PendingInOrder'
    <2>1. n \in Nat /\ n - 1 < n /\ Len(found) \in Nat
      BY <1>3, PathFacts DEF PendingInOrder, Walked, WalkInv
    <2>2. n - 1 < Len(found)
      BY <1>18, <2>1
    <2> QED
      BY <1>1, <1>16, <1>18, <2>2 DEF PendingInOrder
  <1>21. Linked(Forest, Processed)'
    <2>1. Linked(d, Q)'
      BY <1>13, <1>14, <1>16
    <2> QED
      BY <1>15, <1>19, <2>1
  <1>22. Buckets'
    <2>1. Waiting(emptied, Q)' /\ WaitsOrDecided(emptied, d.dominator, Q)'
      BY <1>13, <1>14, <1>16
    <2> QED
      BY <1>12, <1>19, <2>1 DEF Buckets
  <1>23. \A c \in Met' \ Processed' : sdom'[c] = c
    <2>1. \A c \in Met \ Q : c # w /\ c \notin Processed
      BY <1>1, <1>14
    <2>2. sdom' = h.sdom
      BY <1>5, <1>12, <1>13
    <2> QED
      BY <1>2, <1>3, <1>16, <1>19, <2>1, <2>2
  <1>24. dominator'[Entry'] = None
    BY <1>3, <1>12, <1>13, <1>16
  <1> QED
    BY <1>20, <1>21, <1>22, <1>23, <1>24 DEF SemiInv

(* classifyArcs establishes it.                                            *)
LEMMA SemiStarts ==
  ASSUME WalkInv, ClassifyArcs
  PROVE  SemiInv'
  <1>1. Met' = Met /\ Entry' = Entry /\ Entry \in Met
    BY ClassifyWalk, ClockFacts DEF WalkInv
  <1>2. /\ pending' = Tail(found) /\ found' = found
        /\ ancestor' = [b \in Met |-> None]
        /\ label' = [b \in Met |-> b] /\ sdom' = [b \in Met |-> b]
        /\ bucket' = [b \in Met |-> <<>>]
        /\ dominator' = [b \in Met |-> None]
    BY DEF ClassifyArcs
  <1>3. /\ pending' \in Seq(Met) /\ Len(pending') < Len(found')
        /\ \A i \in 1 .. Len(pending') : pending'[i] = found'[i + 1]
        /\ ToSet(pending') \cup {Entry} = Met
    <2> SUFFICES ASSUME NEW l, l = found, NEW r, r = Tail(found), NEW n, n = Len(found)
                 PROVE  /\ r \in Seq(Met) /\ Len(r) < n
                        /\ \A i \in 1 .. Len(r) : r[i] = l[i + 1]
                        /\ ToSet(r) \cup {Entry} = Met
      BY <1>2
    <2>1. /\ DOMAIN l = 1 .. n /\ n \in Nat /\ n >= 1 /\ \A i \in DOMAIN l : l[i] \in Met
          /\ \A b \in Met : \E i \in DOMAIN l : l[i] = b
      BY PathFacts DEF WalkInv
    <2>2. l \in Seq(Met)
      <3>1. l \in Seq(Blocks)
        BY DEF WalkInv, WalkTypes
      <3> QED
        BY <2>1, <3>1
    <2>3. l # <<>> /\ r = Tail(l) /\ n = Len(l)
      <3>1. l # <<>>
        BY DEF WalkInv, WalkTypes
      <3> QED
        BY <3>1
    <2>4. /\ r \in Seq(Met) /\ Len(r) = n - 1 /\ DOMAIN r = 1 .. (n - 1)
          /\ \A i \in 1 .. (n - 1) : r[i] = l[i + 1]
      <3>1. l \in Seq(Met) /\ l # <<>> /\ r = Tail(l) /\ Len(l) = n /\ n \in Nat
        BY <2>1, <2>2, <2>3
      <3>2. r \in Seq(Met) /\ Len(r) = Len(l) - 1
        BY <3>1
      <3>3. \A i \in 1 .. Len(r) : r[i] = l[i + 1]
        BY <3>1
      <3>4. DOMAIN r = 1 .. Len(r)
        BY <3>2
      <3> QED
        BY <3>1, <3>2, <3>3, <3>4
    <2>5. ToSet(r) = {r[i] : i \in 1 .. (n - 1)} /\ ToSet(r) \subseteq Met
      <3>1. ToSet(r) = {r[i] : i \in 1 .. (n - 1)}
        BY <2>4 DEF ToSet
      <3>2. \A i \in 1 .. (n - 1) : r[i] \in Met
        BY <2>4
      <3> QED
        BY <3>1, <3>2
    <2>6. ASSUME NEW b \in Met, b # Entry PROVE b \in ToSet(r)
      <3>1. PICK i \in 1 .. n : l[i] = b
        BY <2>1
      <3>2. i # 1
        BY <2>6, <3>1 DEF Entry
      <3>3. i - 1 \in 1 .. (n - 1) /\ r[i - 1] = b
        BY <2>1, <2>4, <3>1, <3>2
      <3> QED
        BY <2>5, <3>3
    <2> QED
      BY <1>1, <2>1, <2>4, <2>5, <2>6
  <1>4. PendingInOrder'
    BY <1>1, <1>3 DEF PendingInOrder
  <1>5. Processed' = {}
    BY <1>1, <1>3 DEF Processed
  <1>6. /\ Forest' \in Forests' /\ \A c \in Met : Forest'.ancestor[c] = None /\ Forest'.label[c] = c
    <2>1. Forest' = [ancestor |-> ancestor', label |-> label', sdom |-> sdom',
                     dominator |-> dominator']
      BY DEF Forest
    <2>2. Forests' = [ancestor : [Met -> Met \cup {None}], label : [Met -> Met],
                      sdom : [Met -> Met], dominator : [Met -> Met \cup {None}]]
      BY <1>1 DEF Forests
    <2>3. /\ ancestor' \in [Met -> Met \cup {None}] /\ label' \in [Met -> Met]
          /\ sdom' \in [Met -> Met] /\ dominator' \in [Met -> Met \cup {None}]
      BY <1>2
    <2>4. Forest' \in Forests'
      BY <2>1, <2>2, <2>3
    <2>5. Forest'.ancestor = ancestor' /\ Forest'.label = label'
      BY <2>1
    <2> QED
      BY <1>2, <2>4, <2>5
  <1>7. Linked(Forest, Processed)'
    BY <1>1, <1>5, <1>6 DEF Linked
  <1>8. Buckets'
    <2>1. \A b \in Met : <<>> \in Seq(Met) /\ ToSet(<<>>) = {}
      BY DEF ToSet
    <2>2. bucket' \in [Met -> Seq(Met)] /\ \A b \in Met : ToSet(bucket'[b]) = {}
      BY <1>2, <2>1
    <2> QED
      BY <1>1, <1>5, <2>2 DEF Buckets, Waiting, WaitsOrDecided
  <1>9. \A c \in Met' \ Processed' : sdom'[c] = c
    BY <1>1, <1>2
  <1>10. dominator'[Entry'] = None
    BY <1>1, <1>2
  <1> QED
    BY <1>4, <1>7, <1>8, <1>9, <1>10 DEF SemiInv

-----------------------------------------------------------------------------
(***************************************************************************)
(* The ascending loop finds the immediate dominators.                      *)
(***************************************************************************)
(* d is before w, and its dominators are those of w but w itself.          *)
Immediately(d, w) ==
  /\ d \in Met /\ timeIn[d] < timeIn[w]
  /\ \A x \in Met : (x # w /\ Dominates(x, w)) <=> Dominates(x, d)

DomTree(d) ==
  /\ d \in [Met -> Met \cup {None}] /\ d[Entry] = None
  /\ \A w \in Met \ {Entry} : Immediately(d[w], w)

(* The blocks up to the n-th are passed.                                   *)
PassedTo(d, n) ==
  /\ d \in [Met -> Met \cup {None}] /\ d[Entry] = None
  /\ \A i \in 2 .. n : Immediately(d[found[i]], found[i])
  /\ \A i \in 2 .. Len(found) : i > n => Decided(found[i], d[found[i]])

Pass(d, w) == [d EXCEPT ![w] = IF @ # sdom[w] THEN d[@] ELSE @]

(* At the end of the descending loop nothing waits.                        *)
LEMMA AllDecided ==
  ASSUME Walked, SemiInv, pending = <<>>
  PROVE  /\ \A w \in Met \ {Entry} : sdom[w] = EarliestInto(w) /\ Decided(w, dominator[w])
         /\ dominator \in [Met -> Met \cup {None}] /\ dominator[Entry] = None
  <1>1. Processed = Met \ {Entry}
    BY DEF Processed, ToSet
  <1>2. Linked(Forest, Processed) /\ Buckets /\ dominator[Entry] = None
    BY DEF SemiInv
  <1>3. /\ dominator \in [Met -> Met \cup {None}]
        /\ \A w \in Met \ {Entry} : sdom[w] = EarliestInto(w)
    <2> DEFINE F == Forest
    <2>1. F.dominator = dominator /\ F.sdom = sdom
      BY DEF Forest
    <2> HIDE DEF F
    <2>2. F \in Forests /\ \A w \in Processed : F.sdom[w] = EarliestInto(w)
      BY <1>2 DEF Linked, F
    <2>3. F.dominator \in [Met -> Met \cup {None}]
      BY <2>2, ForestTypes
    <2> QED
      BY <1>1, <2>1, <2>2, <2>3
  <1>4. ASSUME NEW w \in Met \ {Entry} PROVE Decided(w, dominator[w])
    <2> DEFINE x == EarliestInto(w)
    <2>1. x \in Met /\ Anc(x, w) /\ x # w
      BY SemiFacts
    <2>2. PICK c \in Met \ {Entry} : parent[c] = x /\ Anc(c, w)
      BY <2>1, ChildAbove
    <2>3. w \notin ToSet(bucket[x])
      <3> HIDE DEF x
      <3>1. c \in Processed
        BY <1>1, <2>2
      <3> QED
        BY <1>2, <2>1, <2>2, <3>1 DEF Buckets, Waiting
    <2> QED
      BY <1>1, <1>2, <2>3 DEF Buckets, WaitsOrDecided
  <1> QED
    BY <1>2, <1>3, <1>4

(* The blocks in the order of the traversal.                               *)
LEMMA FoundTwice ==
  ASSUME Walked
  PROVE  /\ Len(found) \in Nat /\ Len(found) >= 1
         /\ \A i \in 2 .. Len(found) : found[i] \in Met \ {Entry}
         /\ \A w \in Met \ {Entry} : \E i \in 2 .. Len(found) : found[i] = w
         /\ \A i, j \in 1 .. Len(found) : i < j <=> timeIn[found[i]] < timeIn[found[j]]
         /\ \A i, j \in 1 .. Len(found) : found[i] = found[j] => i = j
  <1> SUFFICES ASSUME NEW L, L = Len(found)
               PROVE  /\ L \in Nat /\ L >= 1
                      /\ \A i \in 2 .. L : found[i] \in Met \ {Entry}
                      /\ \A w \in Met \ {Entry} : \E i \in 2 .. L : found[i] = w
                      /\ \A i, j \in 1 .. L : i < j <=> timeIn[found[i]] < timeIn[found[j]]
                      /\ \A i, j \in 1 .. L : found[i] = found[j] => i = j
    OBVIOUS
  <1>1. /\ DOMAIN found = 1 .. L /\ L \in Nat /\ L >= 1
        /\ \A i \in 1 .. L : found[i] \in Met
        /\ \A x \in Met : \E i \in 1 .. L : found[i] = x
    BY PathFacts DEF Walked, WalkInv
  <1>2. \A i, j \in 1 .. L : i < j => timeIn[found[i]] < timeIn[found[j]]
    BY <1>1 DEF Walked, WalkInv, FoundInOrder
  <1>3. \A x \in Met : timeIn[x] \in Nat
    BY TreeTimes
  <1>4. \A i, j \in 1 .. L : found[i] = found[j] => i = j
    BY <1>1, <1>2, <1>3
  <1>5. \A i, j \in 1 .. L : i < j <=> timeIn[found[i]] < timeIn[found[j]]
    BY <1>1, <1>2, <1>3
  <1>6. Entry = found[1] /\ 1 \in 1 .. L
    BY <1>1 DEF Entry
  <1>7. \A i \in 2 .. L : found[i] \in Met \ {Entry}
    BY <1>1, <1>4, <1>6
  <1>8. \A w \in Met \ {Entry} : \E i \in 2 .. L : found[i] = w
    BY <1>1, <1>6
  <1> QED
    BY <1>1, <1>4, <1>5, <1>7, <1>8

(* Before the ascending loop only the entry is passed.                     *)
LEMMA PassStarts ==
  ASSUME Walked, SemiInv, pending = <<>>
  PROVE  PassedTo(dominator, 1)
  <1>1. /\ \A w \in Met \ {Entry} : Decided(w, dominator[w])
        /\ dominator \in [Met -> Met \cup {None}] /\ dominator[Entry] = None
    BY AllDecided
  <1>2. \A i \in 2 .. Len(found) : found[i] \in Met \ {Entry}
    BY FoundTwice
  <1> QED
    BY <1>1, <1>2 DEF PassedTo

(* A block that was decided gets its immediate dominator.                  *)
LEMMA PassDecides ==
  ASSUME Walked, NEW w \in Met \ {Entry}, NEW s, s = EarliestInto(w), NEW d, Decided(w, d[w]),
         d \in [Met -> Met \cup {None}],
         \A u \in Met \ {Entry} : timeIn[u] < timeIn[w] => Immediately(d[u], u)
  PROVE  Immediately(IF d[w] # s THEN d[d[w]] ELSE d[w], w)
  <1>1. PICK u : LeastOn(Stretch(w), u)
                 /\ d[w] = IF EarliestInto(u) = s THEN s ELSE u
    BY DEF Decided
  <1>2. /\ \A x \in Met : timeIn[x] \in Nat /\ timeIn[Entry] <= timeIn[x]
        /\ \A x, y \in Met : timeIn[x] = timeIn[y] => x = y
    BY TreeTimes
  <1>3. s \in Met /\ Anc(s, w) /\ timeIn[s] < timeIn[w]
    BY SemiFacts
  <1>4. /\ u \in Stretch(w) /\ \A z \in Stretch(w) : timeIn[EarliestInto(u)] <= timeIn[EarliestInto(z)]
    BY <1>1 DEF LeastOn
  <1>5. u \in Met /\ Anc(u, w) /\ timeIn[u] > timeIn[s]
    BY <1>4 DEF Stretch
  <1>6. u \in Met \ {Entry} /\ u # s
    BY <1>2, <1>3, <1>5
  <1>7. EarliestInto(u) \in Met
    BY <1>6, SemiFacts
  <1>8. CASE EarliestInto(u) = s
    <2>1. d[w] = s
      BY <1>1, <1>8
    <2>2. \A z \in Stretch(w) : timeIn[s] <= timeIn[EarliestInto(z)]
      BY <1>4, <1>8
    <2>3. \A x \in Met : (x # w /\ Dominates(x, w)) <=> Dominates(x, s)
      BY <2>2, SemiDominates
    <2> QED
      BY <1>3, <2>1, <2>3 DEF Immediately
  <1>9. CASE EarliestInto(u) # s
    <2>1. d[w] = u
      BY <1>1, <1>9
    <2>2. w \in Stretch(w)
      BY <1>2, <1>3, AncOrder DEF Stretch
    <2>3. timeIn[EarliestInto(u)] <= timeIn[s]
      BY <1>4, <2>2
    <2>4. timeIn[EarliestInto(u)] < timeIn[s]
      BY <1>2, <1>3, <1>7, <1>9, <2>3
    <2>5. u # w /\ timeIn[u] < timeIn[w]
      BY <1>5, <1>9, AncOrder
    <2>6. \A x \in Met : (x # w /\ Dominates(x, w)) <=> (x # u /\ Dominates(x, u))
      BY <1>4, <2>4, DominatedAlike
    <2>7. Immediately(d[u], u)
      BY <1>6, <2>5
    <2>8. d[u] \in Met /\ timeIn[d[u]] < timeIn[u]
          /\ \A x \in Met : (x # u /\ Dominates(x, u)) <=> Dominates(x, d[u])
      BY <2>7 DEF Immediately
    <2>9. timeIn[d[u]] < timeIn[w]
      BY <1>2, <1>6, <2>5, <2>8
    <2>10. Immediately(d[u], w)
      BY <2>6, <2>8, <2>9 DEF Immediately
    <2> QED
      BY <1>6, <2>1, <2>10
  <1> QED
    BY <1>8, <1>9

(* A turn of the ascending loop passes one more block.                     *)
LEMMA PassKeeps ==
  ASSUME Walked, \A w \in Met \ {Entry} : sdom[w] = EarliestInto(w),
         NEW n \in 2 .. Len(found), NEW d, PassedTo(d, n - 1), NEW e, e = Pass(d, found[n])
  PROVE  PassedTo(e, n)
  <1> SUFFICES ASSUME NEW L, L = Len(found), NEW w, w = found[n] PROVE PassedTo(e, n)
    OBVIOUS
  <1>1. /\ L \in Nat /\ n \in 2 .. L /\ n \in Nat
        /\ \A i \in 2 .. L : found[i] \in Met \ {Entry}
        /\ \A x \in Met \ {Entry} : \E i \in 2 .. L : found[i] = x
        /\ \A i, j \in 1 .. L : i < j <=> timeIn[found[i]] < timeIn[found[j]]
        /\ \A i, j \in 1 .. L : found[i] = found[j] => i = j
    BY FoundTwice
  <1>2. /\ d \in [Met -> Met \cup {None}] /\ d[Entry] = None
        /\ \A i \in 2 .. (n - 1) : Immediately(d[found[i]], found[i])
        /\ \A i \in 2 .. L : i > n - 1 => Decided(found[i], d[found[i]])
    BY DEF PassedTo
  <1>3. w \in Met \ {Entry} /\ Decided(w, d[w]) /\ sdom[w] = EarliestInto(w)
    BY <1>1, <1>2
  <1>4. ASSUME NEW u \in Met \ {Entry}, timeIn[u] < timeIn[w] PROVE Immediately(d[u], u)
    <2>1. PICK i \in 2 .. L : found[i] = u
      BY <1>1
    <2>2. i < n
      BY <1>1, <1>4, <2>1
    <2> QED
      BY <1>1, <1>2, <2>1, <2>2
  <1> DEFINE v == IF d[w] # sdom[w] THEN d[d[w]] ELSE d[w]
  <1>5. Immediately(v, w)
    BY <1>2, <1>3, <1>4, PassDecides
  <1>6. e = [d EXCEPT ![w] = v]
    BY DEF Pass
  <1> HIDE DEF v
  <1>7. v \in Met
    BY <1>5 DEF Immediately
  <1>8. /\ e \in [Met -> Met \cup {None}] /\ e[w] = v
        /\ \A x \in Met : x # w => e[x] = d[x]
    BY <1>2, <1>3, <1>6, <1>7
  <1>9. e[Entry] = None
    BY <1>2, <1>3, <1>8, TreeTimes
  <1>10. ASSUME NEW i \in 2 .. n PROVE Immediately(e[found[i]], found[i])
    <2>1. CASE i = n
      BY <1>5, <1>8, <2>1
    <2>2. CASE i # n
      <3>1. i \in 2 .. (n - 1) /\ i \in 1 .. L /\ i \in 2 .. L /\ n \in 1 .. L
        BY <1>1, <2>2
      <3>2. found[i] # w /\ found[i] \in Met
        BY <1>1, <2>2, <3>1
      <3> QED
        BY <1>2, <1>8, <3>1, <3>2
    <2> QED
      BY <2>1, <2>2
  <1>11. ASSUME NEW i \in 2 .. L, i > n PROVE Decided(found[i], e[found[i]])
    <2>1. i > n - 1 /\ i \in 1 .. L /\ n \in 1 .. L /\ i # n
      BY <1>1, <1>11
    <2>2. found[i] # w /\ found[i] \in Met
      BY <1>1, <2>1
    <2>3. e[found[i]] = d[found[i]]
      BY <1>8, <2>2
    <2> QED
      BY <1>2, <2>1, <2>3
  <1> QED
    BY <1>8, <1>9, <1>10, <1>11 DEF PassedTo

(* When all are passed the tree of dominators is there.                    *)
LEMMA PassedAll ==
  ASSUME Walked, NEW d, PassedTo(d, Len(found))
  PROVE  DomTree(d)
  <1>1. \A w \in Met \ {Entry} : \E i \in 2 .. Len(found) : found[i] = w
    BY FoundTwice
  <1> QED
    BY <1>1 DEF PassedTo, DomTree

(* So it is after all turns.                                               *)
LEMMA PassesAre ==
  ASSUME Walked, SemiInv, pending = <<>>, NEW N, N = Len(found), NEW passed,
         passed = CHOOSE s : s = [n \in 1 .. N |-> IF n = 1 THEN dominator
                                                   ELSE Pass(s[n - 1], found[n])]
  PROVE  DomTree(passed[N])
  <1> DEFINE D == [Met -> Met \cup {None}]
             m == N - 1
             first == dominator
             V == [k \in 0 .. m |-> {d \in D : PassedTo(d, k + 1)}]
             step == [k \in 1 .. m |-> [x \in D |-> Pass(x, found[k + 1])]]
  <1>1. N \in Nat /\ N >= 1 /\ m \in Nat
    BY FoundTwice
  <1>2. first \in V[0]
    BY <1>1, PassStarts, AllDecided
  <1>3. \A k \in 1 .. m, x \in D : PassedTo(x, k) => PassedTo(Pass(x, found[k + 1]), k + 1)
    <2> SUFFICES ASSUME NEW k \in 1 .. m, NEW x \in D, PassedTo(x, k)
                 PROVE  PassedTo(Pass(x, found[k + 1]), k + 1)
      OBVIOUS
    <2> DEFINE n == k + 1
    <2>1. n \in 2 .. Len(found) /\ n - 1 = k
      BY <1>1
    <2>2. \A w \in Met \ {Entry} : sdom[w] = EarliestInto(w)
      BY AllDecided
    <2> HIDE DEF n
    <2>3. PassedTo(x, n - 1)
      BY <2>1
    <2>4. PassedTo(Pass(x, found[n]), n)
      BY <2>1, <2>2, <2>3, PassKeeps
    <2> QED
      BY <2>4 DEF n
  <1>4. \A d, k : PassedTo(d, k) => d \in D
    BY DEF PassedTo
  <1> HIDE DEF D
  <1>5. ASSUME NEW k \in 1 .. m, NEW x \in V[k - 1]
        PROVE  x \in D /\ step[k][x] \in V[k] /\ step[k][x] = Pass(x, found[k + 1])
    <2>1. k - 1 \in 0 .. m /\ k \in 0 .. m /\ (k - 1) + 1 = k
      BY <1>1
    <2>2. V[k - 1] = {d \in D : PassedTo(d, (k - 1) + 1)} /\ V[k] = {d \in D : PassedTo(d, k + 1)}
      BY <2>1
    <2> HIDE DEF V
    <2>3. x \in D /\ PassedTo(x, k)
      BY <1>5, <2>1, <2>2
    <2>4. step[k][x] = Pass(x, found[k + 1])
      BY <2>3
    <2> HIDE DEF step
    <2>5. PassedTo(step[k][x], k + 1)
      BY <1>3, <2>3, <2>4
    <2> QED
      BY <1>4, <2>2, <2>3, <2>4, <2>5
  <1> HIDE DEF V, step, m, first
  <1>6. PICK h : Iterates(h, m, first, step)
    BY <1>1, IterationExists
  <1>7. \A k \in 0 .. m : h[k] \in V[k]
    BY <1>1, <1>2, <1>5, <1>6, IterationWithin
  <1> DEFINE g == [n \in 1 .. N |-> h[n - 1]]
  <1>8. g = [n \in 1 .. N |-> IF n = 1 THEN dominator ELSE Pass(g[n - 1], found[n])]
    <2>1. ASSUME NEW n \in 1 .. N
          PROVE  g[n] = IF n = 1 THEN dominator ELSE Pass(g[n - 1], found[n])
      <3>1. CASE n = 1
        <4>1. h[0] = dominator
          BY <1>1, <1>6 DEF Iterates, first
        <4> QED
          BY <3>1, <4>1
      <3>2. CASE n # 1
        <4>1. /\ n - 1 \in 1 .. m /\ n - 1 \in 0 .. m /\ n - 1 # 0 /\ n - 1 \in 1 .. N
              /\ (n - 1) + 1 = n /\ (n - 1) - 1 \in 0 .. m
          BY <1>1, <3>2 DEF m
        <4>2. h[n - 1] = step[n - 1][h[(n - 1) - 1]]
          BY <1>6, <4>1 DEF Iterates
        <4>3. h[(n - 1) - 1] \in V[(n - 1) - 1]
          BY <1>7, <4>1
        <4>4. h[n - 1] = Pass(h[(n - 1) - 1], found[n])
          BY <1>5, <4>1, <4>2, <4>3
        <4>5. g[n - 1] = h[(n - 1) - 1] /\ g[n] = h[n - 1]
          BY <4>1
        <4> QED
          BY <3>2, <4>4, <4>5
      <3> QED
        BY <3>1, <3>2
    <2> QED
      BY <2>1
  <1>9. passed = [n \in 1 .. N |-> IF n = 1 THEN dominator ELSE Pass(passed[n - 1], found[n])]
    BY <1>8
  <1> DEFINE S == {k \in 0 .. m : PassedTo(passed[k + 1], k + 1) /\ passed[k + 1] \in D}
  <1>10. 0 \in S
    <2>1. passed[1] = dominator
      BY <1>1, <1>9
    <2> QED
      BY <1>1, <1>4, <2>1, PassStarts
  <1>11. ASSUME NEW k \in Nat, k < m, k \in S PROVE k + 1 \in S
    <2>1. k + 1 \in 1 .. m /\ (k + 1) + 1 \in 1 .. N /\ (k + 1) + 1 # 1 /\ ((k + 1) + 1) - 1 = k + 1
          /\ k + 1 \in 0 .. m
      BY <1>1, <1>11 DEF m
    <2>2. passed[(k + 1) + 1] = Pass(passed[k + 1], found[(k + 1) + 1])
      BY <1>9, <2>1
    <2>3. PassedTo(passed[(k + 1) + 1], (k + 1) + 1)
      BY <1>3, <1>11, <2>1, <2>2
    <2> QED
      BY <1>4, <2>1, <2>3
  <1>12. 0 .. m \subseteq S
    <2> HIDE DEF S
    <2> QED
      BY <1>1, <1>10, <1>11, UpToInduction
  <1>13. PassedTo(passed[N], N)
    <2>1. m \in 0 .. m /\ m + 1 = N
      BY <1>1 DEF m
    <2> QED
      BY <1>12, <2>1
  <1> QED
    BY <1>13, PassedAll

(* The pass of the ascending loop finds the tree of dominators.            *)
LEMMA ImmediateFinds ==
  ASSUME Walked, SemiInv, Immediate
  PROVE  DomTree(dominator')
  <1> DEFINE N == Len(found)
             passed == CHOOSE s : s = [n \in 1 .. N |-> IF n = 1 THEN dominator
                                                   ELSE Pass(s[n - 1], found[n])]
  <1>1. pending = <<>> /\ dominator' = passed[N]
    BY DEF Immediate, Pass
  <1> HIDE DEF N, passed
  <1>2. DomTree(passed[N])
    BY <1>1, PassesAre DEF N, passed
  <1> QED
    BY <1>1, <1>2

(* isDom goes up the dominator tree. *)
LEMMA AboveEquation ==
  ASSUME Walked, DomTree(dominator)
  PROVE  \A c \in Met : Above[c] = {c} \cup (IF dominator[c] = None THEN {} ELSE Above[dominator[c]])
  <1> DEFINE p == dominator
             base == [c \in Met |-> {c}]
             step == [c \in Met |-> [X \in SUBSET Met |-> {c} \cup X]]
             value(h, c) == {c} \cup (IF p[c] = None THEN {} ELSE h[p[c]])
  <1>1. \A c \in Met : p[c] = None \/ (p[c] \in Met /\ timeIn[p[c]] < timeIn[c])
    BY DEF DomTree, Immediately
  <1>2. /\ \A c \in Met : base[c] \in SUBSET Met
        /\ \A c \in Met : \A X \in SUBSET Met : step[c][X] \in SUBSET Met
    OBVIOUS
  <1>3. PICK g : Follows(g, Met, p, base, step) /\ \A c \in Met : g[c] \in SUBSET Met
    <2> DEFINE D == SUBSET Met
    <2>1. /\ \A c \in Met : base[c] \in D
          /\ \A c \in Met : \A X \in D : step[c][X] \in D
      BY <1>2
    <2> HIDE DEF p, base, step, D
    <2>2. \E g : Follows(g, Met, p, base, step) /\ \A c \in Met : g[c] \in D
      BY <1>1, <2>1, UpwardExists
    <2> QED
      BY <2>2 DEF D
  <1>4. g = [c \in Met |-> value(g, c)]
    <2>1. g = [c \in Met |-> IF p[c] = None THEN base[c] ELSE step[c][g[p[c]]]]
      BY <1>3 DEF Follows
    <2>2. ASSUME NEW c \in Met
          PROVE  (IF p[c] = None THEN base[c] ELSE step[c][g[p[c]]]) = value(g, c)
      <3>1. CASE p[c] = None
        BY <3>1
      <3>2. CASE p[c] # None
        <4>1. p[c] \in Met /\ g[p[c]] \in SUBSET Met
          BY <1>1, <1>3, <3>2
        <4> QED
          BY <3>2, <4>1
      <3> QED
        BY <3>1, <3>2
    <2> HIDE DEF p, base, step, value
    <2> QED
      BY <2>1, <2>2
  <1>5. Above = CHOOSE h : h = [c \in Met |-> value(h, c)]
    BY DEF Above
  <1>6. Above = [c \in Met |-> value(Above, c)]
    <2> HIDE DEF value
    <2> QED
      BY <1>4, <1>5
  <1> QED
    BY <1>6

(* isDom, which goes up that tree, tells dominance.                        *)
LEMMA AboveDominates ==
  ASSUME Walked, DomTree(dominator)
  PROVE  \A x, y \in Met : isDom(x, y) <=> Dominates(x, y)
  <1> DEFINE S == {y \in Met : \A x \in Met : x \in Above[y] <=> Dominates(x, y)}
  <1>1. ASSUME NEW y \in Met, \A d \in Met : timeIn[d] < timeIn[y] => d \in S
        PROVE  y \in S
    <2>1. Above[y] = {y} \cup (IF dominator[y] = None THEN {} ELSE Above[dominator[y]])
      BY AboveEquation
    <2>2. CASE y = Entry
      <3>1. Above[y] = {y}
        BY <2>1, <2>2 DEF DomTree
      <3> QED
        BY <2>2, <3>1, DominatesOrder
    <2>3. CASE y # Entry
      <3> DEFINE d == dominator[y]
      <3>1. /\ d \in Met /\ timeIn[d] < timeIn[y]
            /\ \A x \in Met : (x # y /\ Dominates(x, y)) <=> Dominates(x, d)
        BY <2>3 DEF DomTree, Immediately
      <3>2. d # None
        BY <3>1, NoneNotMet
      <3>3. \A x \in Met : x \in Above[d] <=> Dominates(x, d)
        BY <1>1, <3>1
      <3>4. Above[y] = {y} \cup Above[d]
        BY <2>1, <3>2
      <3>5. Dominates(y, y)
        BY DominatesOrder
      <3> HIDE DEF d
      <3> QED
        BY <3>1, <3>3, <3>4, <3>5
    <2> QED
      BY <2>2, <2>3
  <1>2. \A c \in Met : timeIn[c] \in Nat
    BY TreeTimes
  <1>3. Met \subseteq S
    <2> HIDE DEF S
    <2> QED
      BY <1>1, <1>2, TimeInduction
  <1> QED
    BY <1>3 DEF isDom

-----------------------------------------------------------------------------
(***************************************************************************)
(* Natural loops.                                                          *)
(***************************************************************************)
BackArc(x, h) == h \in Succ(x) /\ Anc(h, x) /\ h # x

(* No loop is improper.                                                    *)
Proper == \A x, h \in Met : BackArc(x, h) => Dominates(h, x)

PredsMet == \A w \in Met \ {Entry} : Pred(w) \subseteq Met

Ends(h) == {x \in Met : BackArc(x, h)}
Under(h) == {b \in Met : Dominates(h, b)}
Into(h) == [b \in Under(h) |-> IF b = h THEN {} ELSE Pred(b)]

(* What leads to an end of the loop not through its head, and the loop.    *)
Upstream(h) == Least(Under(h), Ends(h), Into(h))
Body(h) == {h} \cup Upstream(h)

(* The arcs of the class BACK are those that go up the tree.               *)
LEMMA BackArcsAre ==
  ASSUME Walked, Classified
  PROVE  ArcsOf("BACK") = {a \in Met \X Met : BackArc(a[1], a[2])}
  <1>1. ASSUME NEW x \in Met, NEW h \in Met
        PROVE  Inside(x, h) <=> Anc(h, x) /\ h # x
    <2>1. /\ timeIn[x] \in Nat /\ timeIn[h] \in Nat /\ timeOut[x] \in Nat /\ timeOut[h] \in Nat
          /\ timeIn[x] < timeOut[x] /\ timeIn[h] < timeOut[h]
          /\ (timeIn[x] = timeIn[h] => x = h)
          /\ (timeIn[h] < timeIn[x] => timeOut[h] < timeIn[x] \/ timeOut[x] < timeOut[h])
      BY TreeTimes
    <2> QED
      BY <2>1 DEF Inside, Anc
  <1>2. /\ DOMAIN arcsClasses = {a \in Met \X Met : a[2] \in Succ(a[1])}
        /\ \A a \in DOMAIN arcsClasses : arcsClasses[a] = "BACK" <=> Inside(a[1], a[2])
    BY DEF Classified
  <1>3. ASSUME NEW a \in Met \X Met
        PROVE  a \in ArcsOf("BACK") <=> BackArc(a[1], a[2])
    BY <1>1, <1>2, <1>3 DEF ArcsOf, BackArc
  <1>4. ArcsOf("BACK") \subseteq Met \X Met
    BY <1>2 DEF ArcsOf
  <1> QED
    BY <1>3, <1>4

(* Predecessors that were met are those whose arcs lead to the block.      *)
LEMMA PredFacts ==
  ASSUME Walked
  PROVE  \A p, b \in Met : p \in Pred(b) <=> b \in Succ(p)
  <1>1. \A p \in Met : Succ(p) = ToSet(next[p]) /\ p \in DOMAIN next
    BY ArcsInTree DEF Walked, WalkInv, WalkTypes
  <1> QED
    BY <1>1 DEF Pred

(* What leads to a block that h dominates is dominated by h, but for h     *)
(* itself.                                                                 *)
LEMMA UnderClosed ==
  ASSUME Walked, PredsMet, NEW h \in Met
  PROVE  \A b \in Under(h) : b # h => b # Entry /\ Pred(b) \subseteq Under(h)
  <1> SUFFICES ASSUME NEW b \in Met, Dominates(h, b), b # h
               PROVE  b # Entry /\ Pred(b) \subseteq Under(h)
    BY DEF Under
  <1>1. b # Entry
    BY DominatesOrder
  <1>2. Pred(b) \subseteq Met
    BY <1>1 DEF PredsMet
  <1>3. ASSUME NEW p \in Pred(b) PROVE Dominates(h, p)
    <2>1. p \in Met /\ b \in Succ(p)
      BY <1>2, PredFacts
    <2>2. CASE h = Entry
      BY <2>1, <2>2, DominatesOrder
    <2>3. CASE h # Entry
      <3>1. h \in Met \ {Entry} /\ b \notin Avoiding(h)
        BY <2>3, AvoidingFacts
      <3>2. p \notin Avoiding(h)
        BY <2>1, <3>1, AvoidingFacts
      <3> QED
        BY <2>1, <3>1, <3>2, AvoidingFacts
    <2> QED
      BY <2>2, <2>3
  <1> QED
    BY <1>1, <1>2, <1>3 DEF Under

(* The upstream of h is under h, has the ends of the loop and is closed.   *)
LEMMA UpstreamFacts ==
  ASSUME Walked, PredsMet, Proper, NEW h \in Met
  PROVE  /\ Ends(h) \subseteq Upstream(h) /\ Upstream(h) \subseteq Under(h)
         /\ \A b \in Upstream(h) : b # h => b # Entry /\ Pred(b) \subseteq Upstream(h)
         /\ \A S \in SUBSET Under(h) : Ends(h) \subseteq S /\ ClosedBy(S, Into(h))
                                         => Upstream(h) \subseteq S
  <1> DEFINE M == Under(h)
             E == Into(h)
             start == Ends(h)
  <1>1. start \subseteq M
    BY DEF Ends, Under, Proper
  <1>2. \A b \in M : b # h => b # Entry /\ Pred(b) \subseteq M
    BY UnderClosed
  <1>3. \A b \in M : E[b] = IF b = h THEN {} ELSE Pred(b)
    BY DEF Into
  <1>4. \A b \in M : E[b] \subseteq M
    BY <1>2, <1>3
  <1>5. Upstream(h) = Least(M, start, E)
    BY DEF Upstream
  <1> HIDE DEF M, E, start
  <1>6. /\ start \subseteq Least(M, start, E) /\ Least(M, start, E) \subseteq M
        /\ ClosedBy(Least(M, start, E), E)
        /\ \A S \in SUBSET M : start \subseteq S /\ ClosedBy(S, E) => Least(M, start, E) \subseteq S
    BY <1>1, <1>4, LeastFacts
  <1>7. \A b \in Upstream(h) : b # h => b # Entry /\ Pred(b) \subseteq Upstream(h)
    BY <1>2, <1>3, <1>5, <1>6 DEF ClosedBy
  <1> QED
    BY <1>5, <1>6, <1>7 DEF M, E, start

(* traverseLoopBranch finds it.                                            *)
LEMMA BodyOfIs ==
  ASSUME Walked, PredsMet, Proper, NEW h \in Met
  PROVE  BodyOf(h, Ends(h)) = Body(h)
  <1> DEFINE M == Under(h)
             E == Into(h)
             N == Cardinality(Met)
             start == Ends(h)
             Grown(X) == X \cup UNION {Pred(b) : b \in X \ {h}}
             reach == CHOOSE g : g = [n \in 0 .. N |-> IF n = 0 THEN start ELSE Grown(g[n - 1])]
  <1>1. start \subseteq M
    BY DEF Ends, Under, Proper
  <1>2. \A b \in M : E[b] = (IF b = h THEN {} ELSE Pred(b)) /\ E[b] \subseteq M
    BY UnderClosed DEF Into
  <1>3. IsFiniteSet(M) /\ N \in Nat /\ Cardinality(M) <= N
    <2>1. IsFiniteSet(Met) /\ M \subseteq Met
      BY TreeTimes DEF Under
    <2> QED
      BY <2>1, FS_Subset, FS_CardinalityType
  <1>4. \A X \in SUBSET M : Grown(X) = X \cup UNION {E[b] : b \in X}
    <2> HIDE DEF M, E
    <2> SUFFICES ASSUME NEW X \in SUBSET M
                 PROVE  UNION {Pred(b) : b \in X \ {h}} = UNION {E[b] : b \in X}
      OBVIOUS
    <2>1. ASSUME NEW x PROVE x \in UNION {Pred(b) : b \in X \ {h}} => x \in UNION {E[b] : b \in X}
      <3> HAVE x \in UNION {Pred(b) : b \in X \ {h}}
      <3>1. PICK b \in X \ {h} : x \in Pred(b)
        OBVIOUS
      <3>2. x \in E[b] /\ b \in X
        BY <1>2, <3>1
      <3> QED
        BY <3>2
    <2>2. ASSUME NEW x PROVE x \in UNION {E[b] : b \in X} => x \in UNION {Pred(b) : b \in X \ {h}}
      <3> HAVE x \in UNION {E[b] : b \in X}
      <3>1. PICK b \in X : x \in E[b]
        OBVIOUS
      <3>2. x \in Pred(b) /\ b \in X \ {h}
        BY <1>2, <3>1
      <3> QED
        BY <3>2
    <2> QED
      BY <2>1, <2>2
  <1>5. PICK g : Search(g, N, start, E) /\ \A n \in 0 .. N : g[n] \subseteq M
    <2>1. \A b \in M : E[b] \subseteq M
      BY <1>2
    <2> HIDE DEF E, N, M, start
    <2> QED
      BY <1>1, <1>3, <2>1, RoundsExist
  <1>6. g = [n \in 0 .. N |-> IF n = 0 THEN start ELSE Grown(g[n - 1])]
    <2> DEFINE Next1(n) == g[n - 1] \cup UNION {E[b] : b \in g[n - 1]}
    <2>1. \A n \in 0 .. N : n # 0 => n - 1 \in 0 .. N
      BY <1>3
    <2>2. \A n \in 0 .. N : n # 0 => Grown(g[n - 1]) = Next1(n)
      <3> HIDE DEF E, M, N, start
      <3> QED
        BY <1>4, <1>5, <2>1
    <2>3. g = [n \in 0 .. N |-> IF n = 0 THEN start ELSE Next1(n)]
      BY <1>5 DEF Search
    <2> HIDE DEF Next1, Grown, N
    <2> QED
      BY <2>2, <2>3
  <1>7. reach = [n \in 0 .. N |-> IF n = 0 THEN start ELSE Grown(reach[n - 1])]
    <2> HIDE DEF Grown, N
    <2> QED
      BY <1>6
  <1>8. BodyOf(h, start) = {h} \cup reach[N]
    BY DEF BodyOf
  <1> HIDE DEF reach
  <1>9. reach[0] = start
    BY <1>3, <1>7
  <1>10. \A n \in 1 .. N : reach[n - 1] \subseteq M
                             => reach[n] = reach[n - 1] \cup UNION {E[b] : b \in reach[n - 1]}
    <2>1. \A n \in 1 .. N : n \in 0 .. N /\ n # 0
      BY <1>3
    <2>2. \A n \in 1 .. N : reach[n] = Grown(reach[n - 1])
      <3> HIDE DEF Grown, N
      <3> QED
        BY <1>7, <2>1
    <2> HIDE DEF Grown, N, E, M
    <2> QED
      BY <1>4, <2>2
  <1>11. reach[N] = Least(M, start, E)
    <2>1. \A b \in M : E[b] \subseteq M
      BY <1>2
    <2> HIDE DEF N, E, M, start
    <2> QED
      BY <1>1, <1>3, <1>9, <1>10, <2>1, Rounds
  <1> QED
    BY <1>8, <1>11 DEF Body, Upstream

-----------------------------------------------------------------------------
(* What the loops are. *)
LEMMA BodyFacts ==
  ASSUME Walked, PredsMet, Proper, NEW h \in Met
  PROVE  /\ h \in Body(h) /\ Body(h) \subseteq Met /\ \A b \in Body(h) : Dominates(h, b)
         /\ \A b \in Body(h) : \A p \in Met : b # h /\ b \in Succ(p) => p \in Body(h)
         /\ \A b \in Body(h) : b # h => b \in Upstream(h)
  <1>1. /\ Upstream(h) \subseteq Under(h)
        /\ \A b \in Upstream(h) : b # h => b # Entry /\ Pred(b) \subseteq Upstream(h)
    BY UpstreamFacts
  <1>2. \A b \in Upstream(h) : b \in Met /\ Dominates(h, b)
    BY <1>1 DEF Under
  <1>3. Dominates(h, h)
    BY DominatesOrder
  <1>4. ASSUME NEW b \in Upstream(h), NEW p \in Met, b # h, b \in Succ(p) PROVE p \in Upstream(h)
    <2>1. p \in Pred(b)
      BY <1>2, <1>4, PredFacts
    <2> QED
      BY <1>1, <1>4, <2>1
  <1> QED
    BY <1>2, <1>3, <1>4 DEF Body

(* Its blocks reach one another inside the loop.                           *)
LEMMA BodyConnected ==
  ASSUME Walked, PredsMet, Proper, NEW h \in Met
  PROVE  Connected(Body(h))
  <1> SUFFICES ASSUME NEW S, S = Body(h) PROVE Connected(S)
    OBVIOUS
  <1>1. /\ h \in S /\ S \subseteq Met /\ (\A b \in S : Dominates(h, b))
        /\ \A b \in S : \A p \in Met : b # h /\ b \in Succ(p) => p \in S
    BY BodyFacts
  <1>2. ASSUME NEW b \in S
        PROVE  /\ b \in Reached({b}, S) /\ Reached({b}, S) \subseteq Met
               /\ \A y \in Reached({b}, S), x \in S : x \in Succ(y) => x \in Reached({b}, S)
               /\ \A y \in Reached({b}, S) : Reached({y}, S) \subseteq Reached({b}, S)
    <2>1. {b} \subseteq Met
      BY <1>1
    <2>2. /\ {b} \subseteq Reached({b}, S) /\ Reached({b}, S) \subseteq Met
          /\ \A y \in Reached({b}, S), x \in S : x \in Succ(y) => x \in Reached({b}, S)
      BY <2>1, ReachedFacts
    <2>3. \A y \in Reached({b}, S) : Reached({y}, S) \subseteq Reached({b}, S)
      BY <2>1, ReachedOn
    <2> QED
      BY <2>2, <2>3
  (* Down the tree from the head. *)
  <1> DEFINE T == {b \in Met : b \in S => b \in Reached({h}, S)}
  <1>3. ASSUME NEW b \in Met, \A d \in Met : timeIn[d] < timeIn[b] => d \in T
        PROVE  b \in T
    <2> SUFFICES ASSUME b \in S PROVE b \in Reached({h}, S)
      OBVIOUS
    <2>1. CASE b = h
      BY <1>1, <1>2, <2>1
    <2>2. CASE b # h
      <3>1. b # Entry
        BY <1>1, <2>2, DominatesOrder
      <3>2. parent[b] \in Met /\ timeIn[parent[b]] < timeIn[b] /\ b \in Succ(parent[b])
        BY <3>1, ParentFacts
      <3>3. parent[b] \in S
        BY <1>1, <2>2, <3>2
      <3>4. parent[b] \in Reached({h}, S)
        BY <1>3, <3>2, <3>3
      <3> QED
        BY <1>1, <1>2, <3>2, <3>4
    <2> QED
      BY <2>1, <2>2
  <1>4. Met \subseteq T
    <2>1. \A c \in Met : timeIn[c] \in Nat
      BY TreeTimes
    <2> HIDE DEF T
    <2> QED
      BY <1>3, <2>1, TimeInduction
  (* And back to it. *)
  <1> DEFINE L == Upstream(h)
             U == {b \in L : h \in Reached({b}, S)}
  <1>5. /\ Ends(h) \subseteq L /\ L \subseteq Under(h)
        /\ \A b \in L : b # h => b # Entry /\ Pred(b) \subseteq L
        /\ \A X \in SUBSET Under(h) : Ends(h) \subseteq X /\ ClosedBy(X, Into(h)) => L \subseteq X
    BY UpstreamFacts
  <1>6. L \subseteq S
    BY DEF Body
  <1>7. Ends(h) \subseteq U
    <2> SUFFICES ASSUME NEW x \in Ends(h) PROVE x \in U
      OBVIOUS
    <2>1. x \in Met /\ h \in Succ(x) /\ x \in S
      BY <1>5, <1>6 DEF Ends, BackArc
    <2> QED
      BY <1>1, <1>2, <1>5, <2>1
  <1>8. ClosedBy(U, Into(h))
    <2> SUFFICES ASSUME NEW y \in U, NEW p \in Into(h)[y] PROVE p \in U
      BY DEF ClosedBy
    <2>1. y \in Under(h) /\ y \in L /\ y \in S /\ h \in Reached({y}, S)
      BY <1>5, <1>6
    <2>2. y # h /\ p \in Pred(y)
      BY <2>1 DEF Into
    <2>3. p \in L /\ p \in S /\ p \in Met /\ y \in Met
      BY <1>1, <1>5, <1>6, <2>1, <2>2
    <2>4. y \in Succ(p)
      BY <2>2, <2>3, PredFacts
    <2>5. y \in Reached({p}, S)
      BY <1>2, <2>1, <2>3, <2>4
    <2>6. h \in Reached({p}, S)
      BY <1>2, <2>1, <2>3, <2>5
    <2> QED
      BY <2>3, <2>6
  <1>9. L \subseteq U
    <2>1. U \in SUBSET Under(h)
      BY <1>5
    <2> HIDE DEF L, U
    <2> QED
      BY <1>5, <1>7, <1>8, <2>1
  <1>10. \A b \in S : h \in Reached({b}, S)
    <2>1. \A b \in S : b = h \/ b \in L
      BY DEF Body
    <2> QED
      BY <1>1, <1>2, <1>9, <2>1
  <1>11. S \subseteq Reached({h}, S)
    BY <1>1, <1>4
  <1>12. ASSUME NEW b \in S PROVE S \subseteq ReachFrom({b}, S)
    <2>1. S \subseteq Reached({b}, S)
      BY <1>2, <1>10, <1>11
    <2>2. {b} \subseteq Met
      BY <1>1
    <2>3. ReachFrom({b}, S) = Reached({b}, S)
      BY <2>2, ReachFromIs
    <2> QED
      BY <2>1, <2>3
  <1> QED
    BY <1>12 DEF Connected

(* The dominators of a block dominate one another.                         *)
LEMMA DominatorsOrdered ==
  ASSUME Walked, NEW h \in Met, NEW k \in Met, NEW b \in Met, Dominates(h, b), Dominates(k, b),
         timeIn[h] <= timeIn[k]
  PROVE  Dominates(h, k)
  <1>1. CASE h = Entry \/ h = k
    BY <1>1, DominatesOrder
  <1>2. CASE h # Entry /\ h # k
    <2>1. Anc(k, b)
      BY DominatorsAbove
    <2>2. /\ timeIn[h] \in Nat /\ timeIn[k] \in Nat /\ timeIn[h] < timeIn[k] /\ timeIn[b] \in Nat
      BY <1>2, TreeTimes
    <2>3. h # b
      BY <2>1, <2>2 DEF Anc
    <2>4. b \notin Avoiding(h)
      BY <1>2, <2>3, AvoidingFacts
    <2>5. k \notin Avoiding(h)
      BY <1>2, <2>1, <2>2, <2>4, AvoidingBelow
    <2> QED
      BY <1>2, <2>5, AvoidingFacts
  <1> QED
    BY <1>1, <1>2

(* Two loops of which one's head is above the other's.                     *)
LEMMA NestBelow ==
  ASSUME Walked, PredsMet, Proper, NEW h \in Met, NEW k \in Met, h # k, Dominates(h, k),
         NEW b, b \in Body(h), b \in Body(k)
  PROVE  Body(k) \subseteq Body(h)
  <1>1. /\ Body(h) \subseteq Met
        /\ \A y \in Body(h) : \A p \in Met : y # h /\ y \in Succ(p) => p \in Body(h)
    BY BodyFacts
  <1>2. /\ Body(k) \subseteq Met /\ \A y \in Body(k) : Dominates(k, y)
    BY BodyFacts
  <1>3. h \notin Body(k)
    BY <1>2, DominatesOrder
  <1> SUFFICES ASSUME NEW x \in Body(k), x \notin Body(h) PROVE FALSE
    OBVIOUS
  <1> DEFINE S == Body(k)
             U == {y \in S : y \notin Body(h)}
  <1>4. {x} \subseteq Met /\ {x} \subseteq U
    BY <1>2
  <1>5. ASSUME NEW y \in Met, NEW z \in Met, y \in U, z \in Succ(y), z \in S PROVE z \in U
    BY <1>1, <1>3, <1>5
  <1>6. Reached({x}, S) \subseteq U
    <2> HIDE DEF S, U
    <2> QED
      BY <1>4, <1>5, ReachedInduction
  <1>7. ReachFrom({x}, S) = Reached({x}, S)
    BY <1>4, ReachFromIs
  <1>8. S \subseteq ReachFrom({x}, S)
    BY BodyConnected DEF Connected
  <1> QED
    BY <1>6, <1>7, <1>8

(* Loops that share a block are nested.                                    *)
LEMMA BodiesNest ==
  ASSUME Walked, PredsMet, Proper, NEW h \in Met, NEW k \in Met
  PROVE  \/ Body(h) \cap Body(k) = {}
         \/ Body(h) \subseteq Body(k)
         \/ Body(k) \subseteq Body(h)
  <1> SUFFICES ASSUME NEW b, b \in Body(h), b \in Body(k), h # k
               PROVE  Body(h) \subseteq Body(k) \/ Body(k) \subseteq Body(h)
    OBVIOUS
  <1>1. b \in Met /\ Dominates(h, b) /\ Dominates(k, b)
    BY BodyFacts
  <1>2. timeIn[h] \in Nat /\ timeIn[k] \in Nat
    BY TreeTimes
  <1>3. CASE timeIn[h] <= timeIn[k]
    BY <1>1, <1>3, DominatorsOrdered, NestBelow
  <1>4. CASE timeIn[k] <= timeIn[h]
    BY <1>1, <1>4, DominatorsOrdered, NestBelow
  <1> QED
    BY <1>2, <1>3, <1>4

(* A block that the earliest one reaches without going before it is below. *)
LEMMA ReachedAbove ==
  ASSUME Walked, NEW m \in Met, NEW among, \A x \in among : x \in Met => timeIn[m] <= timeIn[x]
  PROVE  \A x \in Reached({m}, among) : Anc(m, x)
  <1> DEFINE U == {x \in Met : Anc(m, x)}
  <1>1. {m} \subseteq Met /\ {m} \subseteq U
    BY AncOrder
  <1>2. ASSUME NEW y \in Met, NEW x \in Met, y \in U, x \in Succ(y), x \in among PROVE x \in U
    BY <1>2, StaysBelow
  <1>3. Reached({m}, among) \subseteq U
    <2> HIDE DEF U
    <2> QED
      BY <1>1, <1>2, ReachedInduction
  <1> QED
    BY <1>3

(* A block on a cycle of several blocks is in the loop of the earliest one *)
(* of the blocks that it reaches and that reach it.                        *)
LEMMA LoopAround ==
  ASSUME Walked, PredsMet, Proper, NEW b \in Met, b \in ReachFrom(Succ(b) \ {b}, Met)
  PROVE  \E h \in Met : (\E x \in Met : BackArc(x, h)) /\ b \in Body(h)
  <1> DEFINE R(x) == Reached({x}, Met)
             C == {x \in Met : x \in R(b) /\ b \in R(x)}
  <1>1. ASSUME NEW x \in Met
        PROVE  /\ x \in R(x) /\ R(x) \subseteq Met
               /\ \A y \in R(x) : \A z \in Succ(y) : z \in R(x)
               /\ \A y \in R(x) : R(y) \subseteq R(x)
    <2>1. {x} \subseteq Met
      OBVIOUS
    <2>2. {x} \subseteq R(x) /\ R(x) \subseteq Met
          /\ \A y \in R(x), z \in Met : z \in Succ(y) => z \in R(x)
      BY <2>1, ReachedFacts
    <2>3. \A y \in R(x) : R(y) \subseteq R(x)
      BY <2>1, ReachedOn
    <2>4. \A y \in Met : Succ(y) \subseteq Met
      BY ArcsInTree
    <2> QED
      BY <2>2, <2>3, <2>4
  <1>2. PICK c \in Met : c # b /\ c \in C
    <2> DEFINE start == Succ(b) \ {b}
    <2>1. start \subseteq Met /\ Succ(b) \subseteq Met
      BY ArcsInTree
    <2>2. b \in Reached(start, Met)
      BY <2>1, ReachFromIs
    <2>3. SUFFICES ASSUME \A x \in start : b \notin R(x) PROVE FALSE
      <3>1. \A x \in start : x \in Met /\ x # b /\ x \in R(b)
        BY <1>1, <2>1
      <3> QED
        BY <2>3, <3>1
    <2> DEFINE U == {x \in Met : \E y \in start : x \in R(y)}
    <2>4. start \subseteq U
      BY <1>1, <2>1
    <2>5. ASSUME NEW y \in Met, NEW x \in Met, y \in U, x \in Succ(y), x \in Met PROVE x \in U
      BY <1>1, <2>1, <2>5
    <2>6. Reached(start, Met) \subseteq U
      <3> HIDE DEF U, start
      <3> QED
        BY <2>1, <2>4, <2>5, ReachedInduction
    <2> QED
      BY <2>2, <2>3, <2>6
  <1> HIDE DEF R
  <1>3. b \in C /\ C \subseteq Met /\ \A x, y \in C : x \in R(y)
    BY <1>1
  <1>4. PICK m \in C : \A x \in C : timeIn[m] <= timeIn[x]
    <2>1. \A x \in Met : timeIn[x] \in Nat
      BY TreeTimes
    <2> HIDE DEF C
    <2> QED
      BY <1>3, <2>1, Earliest
  <1>5. PICK d \in C : d # m
    BY <1>2, <1>3
  <1>6. \A x \in C : R(x) = R(m)
    BY <1>1, <1>3
  <1>7. \A y \in R(m) : \A x \in Succ(y) : x \in C => y \in C
    <2> SUFFICES ASSUME NEW y \in R(m), NEW x \in Succ(y), x \in C PROVE y \in C
      OBVIOUS
    <2>1. y \in Met /\ y \in R(b)
      BY <1>1, <1>3
    <2>2. x \in R(y)
      BY <1>1, <2>1
    <2>3. b \in R(y)
      BY <1>1, <1>3, <2>1, <2>2
    <2> QED
      BY <2>1, <2>3
  <1> HIDE DEF C
  (* Arcs from C to m are back arcs. *)
  <1>8. \A x \in C : Anc(m, x)
    <2>1. {m} \subseteq Met
      BY <1>3
    <2> DEFINE U == {x \in Met : x \in R(m) /\ (x \in C => Anc(m, x))}
    <2>2. {m} \subseteq U
      BY <1>1, <1>3, AncOrder
    <2>3. ASSUME NEW y \in Met, NEW x \in Met, y \in U, x \in Succ(y), x \in Met PROVE x \in U
      <3>1. x \in R(m) /\ y \in R(m)
        BY <1>1, <1>3, <2>3
      <3>2. ASSUME x \in C PROVE Anc(m, x)
        <4>1. y \in C /\ Anc(m, y)
          BY <1>7, <2>3, <3>1, <3>2
        <4>2. timeIn[m] <= timeIn[x]
          BY <1>4, <3>2
        <4> QED
          BY <1>3, <2>3, <4>1, <4>2, StaysBelow
      <3> QED
        BY <3>1, <3>2
    <2>4. Reached({m}, Met) \subseteq U
      <3> HIDE DEF U
      <3> QED
        BY <2>1, <2>2, <2>3, ReachedInduction
    <2>5. \A x \in C : x \in Reached({m}, Met)
      BY <1>3 DEF R
    <2> QED
      BY <2>4, <2>5
  <1>9. \A x \in C : x # m /\ m \in Succ(x) => BackArc(x, m) /\ x \in Ends(m)
    BY <1>3, <1>8 DEF BackArc, Ends
  <1>10. /\ Ends(m) \subseteq Upstream(m)
         /\ \A y \in Upstream(m) : y # m => y # Entry /\ Pred(y) \subseteq Upstream(m)
    BY <1>3, UpstreamFacts
  (* What goes round and comes back to m is upstream of it. *)
  <1>11. ASSUME NEW s \in C, s # m, s \notin Upstream(m) PROVE FALSE
    <2> DEFINE U == {x \in Met : x \in R(m) /\ (x \in C => x # m /\ x \notin Upstream(m))}
    <2>1. {s} \subseteq Met /\ {s} \subseteq U
      BY <1>3, <1>11
    <2>2. ASSUME NEW y \in Met, NEW x \in Met, y \in U, x \in Succ(y), x \in Met PROVE x \in U
      <3>1. x \in R(m) /\ y \in R(m)
        BY <1>1, <1>3, <2>2
      <3>2. ASSUME x \in C PROVE x # m /\ x \notin Upstream(m)
        <4>1. y \in C
          BY <1>7, <2>2, <3>1, <3>2
        <4>2. y # m /\ y \notin Upstream(m)
          BY <2>2, <4>1
        <4>3. x # m
          BY <1>9, <1>10, <2>2, <4>1, <4>2
        <4>4. y \in Pred(x)
          BY <2>2, PredFacts
        <4> QED
          BY <1>10, <4>2, <4>3, <4>4
      <3> QED
        BY <3>1, <3>2
    <2>3. Reached({s}, Met) \subseteq U
      <3> HIDE DEF U
      <3> QED
        BY <2>1, <2>2, ReachedInduction
    <2>4. m \in Reached({s}, Met)
      BY <1>3, <1>11 DEF R
    <2> QED
      BY <2>3, <2>4
  <1>12. d \in Upstream(m) /\ (b = m \/ b \in Upstream(m))
    BY <1>3, <1>5, <1>11
  <1>13. \E x \in Met : BackArc(x, m)
    <2> SUFFICES ASSUME \A x \in Met : ~BackArc(x, m) PROVE FALSE
      OBVIOUS
    <2>1. Ends(m) = {}
      BY DEF Ends
    <2>2. ClosedBy({}, Into(m)) /\ {} \in SUBSET Under(m)
      BY DEF ClosedBy
    <2>3. Upstream(m) \subseteq {}
      BY <1>3, <2>1, <2>2, UpstreamFacts
    <2> QED
      BY <1>12, <2>3
  <1> QED
    BY <1>3, <1>12, <1>13 DEF Body

-----------------------------------------------------------------------------
(* Improper graphs are those with a cycle that none of its blocks dominates. *)
TwoEntries(S) == Connected(S) /\ \A h \in S : \E b \in S : ~Dominates(h, b)

(* A back arc whose head does not dominate its end is on a cycle with two  *)
(* entries.                                                                *)
LEMMA ImproperCycle ==
  ASSUME Walked, NEW x \in Met, NEW h \in Met, BackArc(x, h), ~Dominates(h, x)
  PROVE  \E S \in (SUBSET Met) \ {{}} : TwoEntries(S)
  <1> DEFINE S == {z \in Met : Anc(h, z) /\ Anc(z, x)}
  <1>1. h \in Succ(x) /\ Anc(h, x) /\ h # x
    BY DEF BackArc
  <1>2. h \in S /\ x \in S /\ S \subseteq Met
    BY <1>1, AncOrder
  <1>3. ASSUME NEW z \in S PROVE \E b \in S : ~Dominates(z, b)
    <2>1. CASE z = h
      BY <1>2, <2>1
    <2>2. CASE z # h
      <3>1. ~Dominates(z, h)
        <4> SUFFICES ASSUME Dominates(z, h) PROVE FALSE
          OBVIOUS
        <4>1. Anc(z, h) /\ Anc(h, z) /\ z \in Met
          BY DominatorsAbove
        <4>2. timeIn[z] < timeIn[h] /\ timeIn[h] < timeIn[z]
          BY <2>2, <4>1, AncOrder
        <4>3. timeIn[z] \in Nat /\ timeIn[h] \in Nat
          BY <4>1, TreeTimes
        <4> QED
          BY <4>2, <4>3
      <3> QED
        BY <1>2, <3>1
    <2> QED
      BY <2>1, <2>2
  <1>4. ASSUME NEW z \in S PROVE S \subseteq ReachFrom({z}, S)
    <2> SUFFICES ASSUME NEW v \in S PROVE v \in Reached({z}, S)
      <3>1. {z} \subseteq Met
        BY <1>2
      <3> QED
        BY <3>1, ReachFromIs
    <2> DEFINE R(a) == Reached({a}, S)
    <2>1. \A a \in S : {a} \subseteq Met
      BY <1>2
    <2>2. \A a \in S : /\ a \in R(a)
                       /\ \A y \in R(a), c \in S : c \in Succ(y) => c \in R(a)
                       /\ \A y \in R(a) : R(y) \subseteq R(a)
      BY <2>1, ReachedFacts, ReachedOn
    <2>3. ASSUME NEW a \in S, NEW c \in S, Anc(a, c) PROVE c \in R(a)
      <3>1. a \in R(a) /\ c \in Met /\ a \in Met
        BY <1>2, <2>2
      <3>2. \A y \in Met : Anc(a, y) /\ Anc(y, c) /\ y # a => y \in S
        <4> SUFFICES ASSUME NEW y \in Met, Anc(a, y), Anc(y, c) PROVE Anc(h, y) /\ Anc(y, x)
          OBVIOUS
        <4> QED
          BY <3>1, AncOrder
      <3>3. {a} \subseteq Met
        BY <3>1
      <3> HIDE DEF S
      <3> QED
        BY <2>3, <3>1, <3>2, <3>3, ReachedBelow
    <2>4. x \in R(z)
      BY <1>2, <2>3
    <2>5. h \in R(z)
      <3> HIDE DEF R
      <3> QED
        BY <1>1, <1>2, <2>2, <2>4
    <2>6. v \in R(h)
      BY <1>2, <2>3
    <2> HIDE DEF R, S
    <2>7. v \in R(z)
      BY <2>2, <2>5, <2>6
    <2> QED
      BY <2>7 DEF R
  <1>5. TwoEntries(S)
    BY <1>3, <1>4 DEF TwoEntries, Connected
  <1>6. S \in (SUBSET Met) \ {{}}
    BY <1>2
  <1> QED
    BY <1>5, <1>6

(* If all back arcs are proper, the earliest block of a connected set      *)
(* dominates it.                                                           *)
LEMMA ProperHasNone ==
  ASSUME Walked, Proper, NEW S, S \subseteq Met, S # {}
  PROVE  ~TwoEntries(S)
  <1> SUFFICES ASSUME TwoEntries(S) PROVE FALSE
    OBVIOUS
  <1>1. \A x \in Met : timeIn[x] \in Nat
    BY TreeTimes
  <1>2. PICK m \in S : \A x \in S : timeIn[m] <= timeIn[x]
    BY <1>1, Earliest
  <1>3. \A x \in S : S \subseteq Reached({x}, S)
    <2> SUFFICES ASSUME NEW x \in S PROVE S \subseteq Reached({x}, S)
      OBVIOUS
    <2>1. {x} \subseteq Met
      OBVIOUS
    <2>2. S \subseteq ReachFrom({x}, S)
      BY DEF TwoEntries, Connected
    <2> QED
      BY <2>1, <2>2, ReachFromIs
  <1>4. \A x \in S : Anc(m, x)
    <2>1. m \in Met /\ \A x \in S : x \in Met => timeIn[m] <= timeIn[x]
      BY <1>2
    <2>2. \A x \in Reached({m}, S) : Anc(m, x)
      BY <2>1, ReachedAbove
    <2> QED
      BY <1>3, <2>2
  <1>5. PICK b \in S : ~Dominates(m, b)
    BY DEF TwoEntries
  <1>6. m # Entry /\ b # m
    BY <1>5, DominatesOrder
  <1>7. /\ m \notin Avoiding(m) /\ \A y \in Avoiding(m) : \A z \in Succ(y) : z # m => z \in Avoiding(m)
        /\ \A y \in Met : Dominates(m, y) <=> m = y \/ y \notin Avoiding(m)
    BY <1>6, AvoidingFacts
  <1> DEFINE U == {x \in S : x \in Avoiding(m)}
  <1>8. {b} \subseteq Met /\ {b} \subseteq U
    BY <1>5, <1>6, <1>7
  <1>9. ASSUME NEW y \in Met, NEW x \in Met, y \in U, x \in Succ(y), x \in S PROVE x \in U
    <2>1. x # m
      <3> SUFFICES ASSUME x = m PROVE FALSE
        OBVIOUS
      <3>1. y # m
        BY <1>7, <1>9
      <3>2. BackArc(y, m)
        BY <1>4, <1>9, <3>1 DEF BackArc
      <3>3. Dominates(m, y)
        BY <3>2 DEF Proper
      <3> QED
        BY <1>7, <1>9, <3>1, <3>3
    <2> QED
      BY <1>7, <1>9, <2>1
  <1>10. Reached({b}, S) \subseteq U
    <2> HIDE DEF U
    <2> QED
      BY <1>8, <1>9, ReachedInduction
  <1> QED
    BY <1>3, <1>7, <1>10

-----------------------------------------------------------------------------
(* LoopsDetector. *)

Heads == {h \in Met : \E x \in Met : BackArc(x, h)}

(* The loops have been found: none is improper, each is at its head.       *)
LoopsFound(l) ==
  /\ Proper /\ DOMAIN l = Heads /\ \A h \in Heads : l[h] = Body(h)

LoopTypes(l) == DOMAIN l \subseteq Met /\ \A h \in DOMAIN l : l[h] \subseteq Met

(* LoopsDetector finds the loops, or that one is improper.                 *)
LEMMA FindLoopsFinds ==
  ASSUME Walked, Classified, PredsMet, DomTree(dominator), FindLoops
  PROVE  /\ phase' \in {"improper", "relate"}
         /\ phase' = "relate" => LoopsFound(loops')
         /\ phase' = "improper" => ~Proper
         /\ LoopTypes(loops') /\ outer' = [h \in DOMAIN loops' |-> None]
  <1> DEFINE back == ArcsOf("BACK")
             bad == \E e \in back : Improper(e)
             ends(head) == {a[1] : a \in {e \in back : e[2] = head}}
             good == {a \in back : \A e \in back : Improper(e) => Before(a, e)}
  <1>1. back = {a \in Met \X Met : BackArc(a[1], a[2])}
    BY BackArcsAre
  <1>2. \A x, y \in Met : isDom(x, y) <=> Dominates(x, y)
    BY AboveDominates
  <1>3. \A a \in back : a[1] \in Met /\ a[2] \in Met /\ BackArc(a[1], a[2])
    BY <1>1
  <1>4. \A x, h \in Met : BackArc(x, h) => <<x, h>> \in back
    BY <1>1
  <1>5. bad <=> ~Proper
    <2>1. ASSUME NEW e \in back, Improper(e) PROVE ~Proper
      BY <2>1, <1>2, <1>3 DEF Improper, Proper
    <2>2. ASSUME NEW x \in Met, NEW h \in Met, BackArc(x, h), ~Dominates(h, x) PROVE bad
      <3>1. <<x, h>> \in back
        BY <2>2, <1>4
      <3>2. Improper(<<x, h>>)
        BY <2>2, <1>2 DEF Improper
      <3> QED BY <3>1, <3>2
    <2> QED BY <2>1, <2>2 DEF Proper
  <1>6. outer' = [h \in DOMAIN loops' |-> None]
    BY DEF FindLoops
  <1>7. CASE bad
    <2>1. loops' = [h \in {a[2] : a \in good} |-> {}] /\ phase' = "improper"
      BY <1>7 DEF FindLoops
    <2>2. {a[2] : a \in good} \subseteq Met
      BY <1>3
    <2>3. LoopTypes(loops')
      BY <2>1, <2>2 DEF LoopTypes
    <2> QED BY <2>1, <2>3, <1>5, <1>6, <1>7
  <1>8. CASE ~bad
    <2>1. loops' = [h \in {a[2] : a \in back} |-> BodyOf(h, ends(h))] /\ phase' = "relate"
      BY <1>8 DEF FindLoops
    <2>2. Proper
      BY <1>5, <1>8
    <2>3. {a[2] : a \in back} = Heads
      <3>1. \A a \in back : a[2] \in Heads
        BY <1>3 DEF Heads
      <3>2. ASSUME NEW h \in Heads PROVE \E a \in back : a[2] = h
        <4>1. PICK x \in Met : BackArc(x, h)
          BY DEF Heads
        <4>2. <<x, h>> \in back
          BY <4>1, <1>4 DEF Heads
        <4> QED BY <4>2
      <3> QED BY <3>1, <3>2
    <2>4. ASSUME NEW h \in Heads PROVE loops'[h] = Body(h) /\ Body(h) \subseteq Met
      <3>1. h \in Met
        BY DEF Heads
      <3>2. ends(h) = Ends(h)
        <4>1. \A a \in back : a[2] = h => a[1] \in Ends(h)
          BY <1>3 DEF Ends
        <4>2. ASSUME NEW x \in Ends(h) PROVE x \in ends(h)
          <5>1. <<x, h>> \in back
            BY <3>1, <1>4 DEF Ends
          <5> QED BY <5>1
        <4> QED BY <4>1, <4>2
      <3>3. BodyOf(h, Ends(h)) = Body(h)
        BY <3>1, <2>2, BodyOfIs
      <3>4. Body(h) \subseteq Met
        BY <3>1, <2>2, BodyFacts
      <3> QED BY <3>2, <3>3, <3>4, <2>1, <2>3
    <2>5. DOMAIN loops' = Heads
      BY <2>1, <2>3
    <2>6. Heads \subseteq Met
      BY DEF Heads
    <2>7. LoopsFound(loops')
      BY <2>2, <2>4, <2>5 DEF LoopsFound
    <2>8. LoopTypes(loops')
      BY <2>4, <2>5, <2>6 DEF LoopTypes
    <2> QED BY <2>1, <2>7, <2>8, <1>6
  <1> QED BY <1>7, <1>8

-----------------------------------------------------------------------------
(* How the loops nest. *)

(* A finite set of numbers that is not empty has a greatest one.           *)
LEMMA GreatestNatural ==
  ASSUME NEW F, F \subseteq Nat, IsFiniteSet(F), F # {}
  PROVE  \E x \in F : \A y \in F : y <= x
  <1> DEFINE above(x) == {y \in F : y > x}
             t == [x \in F |-> Cardinality(above(x))]
  <1>1. \A x \in F : IsFiniteSet(above(x)) /\ above(x) \in SUBSET F /\ t[x] = Cardinality(above(x))
    BY FS_Subset
  <1>2. \A x \in F : t[x] \in Nat
    BY <1>1, FS_CardinalityType
  <1>3. PICK x \in F : \A y \in F : t[x] <= t[y]
    <2> HIDE DEF t
    <2> QED BY <1>2, Earliest
  <1>4. ASSUME NEW y \in F, ~(y <= x) PROVE FALSE
    <2>1. y > x /\ x \in Nat /\ y \in Nat
      BY <1>4
    <2>2. above(y) \in SUBSET above(x)
      <3>1. \A z \in F : z \in Nat /\ (z > y => z > x)
        BY <2>1
      <3> QED BY <3>1
    <2>3. y \in above(x) /\ y \notin above(y)
      BY <2>1
    <2>4. IsFiniteSet(above(x))
      BY <1>1
    <2> HIDE DEF above
    <2>5. Cardinality(above(y)) <= Cardinality(above(x))
          /\ Cardinality(above(x)) # Cardinality(above(y))
      BY <2>2, <2>3, <2>4, FS_Subset
    <2>6. t[x] = Cardinality(above(x)) /\ t[y] = Cardinality(above(y))
      BY <1>1
    <2>7. t[x] <= t[y] /\ t[x] \in Nat /\ t[y] \in Nat
      <3> HIDE DEF t
      <3> QED BY <1>2, <1>3, <1>4
    <2> HIDE DEF t
    <2> QED BY <2>5, <2>6, <2>7
  <1> QED BY <1>3, <1>4

(* Of a finite set of pairs of numbers one comes last.                     *)
LEMMA LastPair ==
  ASSUME NEW M, M \subseteq Nat, IsFiniteSet(M), NEW S, S \subseteq M \X M, S # {}
  PROVE  \E p \in S : \A q \in S : ~Before(p, q)
  <1> DEFINE F == {p[1] : p \in S}
  <1>1. F \subseteq M /\ F # {} /\ \A p \in S : p[1] \in F /\ p[1] \in M /\ p[2] \in M
    OBVIOUS
  <1>2. F \subseteq Nat /\ IsFiniteSet(F)
    <2> HIDE DEF F
    <2> QED BY <1>1, FS_Subset
  <1>3. PICK x \in F : \A y \in F : y <= x
    <2> HIDE DEF F
    <2> QED BY <1>1, <1>2, GreatestNatural
  <1> DEFINE G == {p[2] : p \in {q \in S : q[1] = x}}
  <1>4. G \subseteq M /\ G # {} /\ \A p \in S : p[1] = x => p[2] \in G
    BY <1>1
  <1>5. G \subseteq Nat /\ IsFiniteSet(G)
    <2> HIDE DEF G
    <2> QED BY <1>4, FS_Subset
  <1>6. PICK z \in G : \A y \in G : y <= z
    <2> HIDE DEF G
    <2> QED BY <1>4, <1>5, GreatestNatural
  <1>7. PICK p \in S : p[1] = x /\ p[2] = z
    OBVIOUS
  <1>8. ASSUME NEW q \in S PROVE ~Before(p, q)
    <2>1. q[1] \in Nat /\ q[2] \in Nat /\ x \in Nat /\ z \in Nat
      BY <1>1, <1>2, <1>5
    <2>2. q[1] <= x
      BY <1>1, <1>3
    <2>3. q[1] = x => q[2] <= z
      BY <1>4, <1>6
    <2> QED BY <2>1, <2>2, <2>3, <1>7 DEF Before
  <1> QED BY <1>8

(* Two loops that share a block: the one that is not larger is inside.     *)
LEMMA SmallerInside ==
  ASSUME Walked, PredsMet, LoopsFound(loops), NEW h \in Heads, NEW k \in Heads, h # k, Share(h, k)
  PROVE  /\ Included(h, k)
         /\ {SmallerOf(h, k), LargerOf(h, k)} = {h, k}
         /\ SmallerOf(h, k) # LargerOf(h, k)
  <1>1. h \in Met /\ k \in Met /\ Proper /\ loops[h] = Body(h) /\ loops[k] = Body(k)
    BY DEF LoopsFound, Heads
  <1>2. Body(h) \subseteq Met /\ Body(k) \subseteq Met
    BY <1>1, BodyFacts
  <1>3. IsFiniteSet(Body(h)) /\ IsFiniteSet(Body(k))
    BY <1>2, FS_Subset, TreeTimes
  <1>4. Cardinality(Body(h)) \in Nat /\ Cardinality(Body(k)) \in Nat
    BY <1>3, FS_CardinalityType
  <1>5. \/ Body(h) \subseteq Body(k)
        \/ Body(k) \subseteq Body(h)
    BY <1>1, BodiesNest DEF Share
  <1>6. SmallerOf(h, k) = (IF Cardinality(Body(h)) > Cardinality(Body(k)) THEN k ELSE h)
    BY <1>1 DEF SmallerOf
  <1>7. CASE Cardinality(Body(h)) > Cardinality(Body(k))
    <2>1. SmallerOf(h, k) = k /\ LargerOf(h, k) = h
      BY <1>6, <1>7 DEF LargerOf
    <2>2. ~(Body(h) \subseteq Body(k))
      <3>1. SUFFICES ASSUME Body(h) \in SUBSET Body(k) PROVE FALSE
        OBVIOUS
      <3>2. Cardinality(Body(h)) <= Cardinality(Body(k))
        BY <3>1, <1>3, FS_Subset
      <3> QED BY <3>2, <1>4, <1>7
    <2>3. Included(h, k)
      BY <2>1, <2>2, <1>1, <1>5 DEF Included
    <2> QED BY <2>1, <2>3
  <1>8. CASE ~(Cardinality(Body(h)) > Cardinality(Body(k)))
    <2>1. SmallerOf(h, k) = h /\ LargerOf(h, k) = k
      BY <1>6, <1>8 DEF LargerOf
    <2>2. Body(k) \subseteq Body(h) => Body(h) = Body(k)
      <3>1. SUFFICES ASSUME Body(k) \in SUBSET Body(h) PROVE Body(h) = Body(k)
        OBVIOUS
      <3>2. /\ Cardinality(Body(k)) <= Cardinality(Body(h))
            /\ Cardinality(Body(h)) = Cardinality(Body(k)) => Body(h) = Body(k)
        BY <3>1, <1>3, FS_Subset
      <3>3. Cardinality(Body(k)) = Cardinality(Body(h))
        BY <3>2, <1>4, <1>8
      <3> QED BY <3>2, <3>3
    <2>3. Included(h, k)
      BY <2>1, <2>2, <1>1, <1>5 DEF Included
    <2> QED BY <2>1, <2>3
  <1> QED BY <1>7, <1>8

(* The parents are right: a loop without one is in no other.               *)
OuterRight(l, o) ==
  /\ o \in [DOMAIN l -> (DOMAIN l) \cup {None}]
  /\ \A h \in DOMAIN l :
       IF o[h] = None THEN \A k \in (DOMAIN l) \ {h} : h \notin l[k]
       ELSE o[h] \in DOMAIN l /\ o[h] # h /\ l[h] \subseteq l[o[h]]

(* testLoopsRelation finds all loops nested and gives them right parents.  *)
LEMMA RelateLoopsNests ==
  ASSUME Walked, PredsMet, LoopsFound(loops), outer = [h \in DOMAIN loops |-> None], RelateLoops
  PROVE  phase' = "done" /\ loops' = loops /\ OuterRight(loops, outer')
  <1> DEFINE pairs == {p \in (DOMAIN loops) \X (DOMAIN loops) : p[1] < p[2] /\ Share(p[1], p[2])}
             tested == {p \in pairs : \A q \in pairs : Before(q, p) => Included(q[1], q[2])}
             placing(h) == {p \in tested : Included(p[1], p[2]) /\ SmallerOf(p[1], p[2]) = h}
             place(h) == CHOOSE p \in placing(h) : \A q \in placing(h) : ~Before(p, q)
  <1>1. DOMAIN loops = Heads /\ Proper /\ Heads \subseteq Met
    BY DEF LoopsFound, Heads
  <1>2. Met \subseteq Nat /\ IsFiniteSet(Met) /\ None \notin Met
    BY NoneNotMet, ClockFacts, BlocksFinite DEF Walked, WalkInv
  <1>3. ASSUME NEW p \in pairs
        PROVE  /\ p[1] \in Heads /\ p[2] \in Heads /\ p[1] # p[2]
               /\ Included(p[1], p[2]) /\ SmallerOf(p[1], p[2]) # LargerOf(p[1], p[2])
               /\ LargerOf(p[1], p[2]) \in Heads
    <2>1. p[1] \in Heads /\ p[2] \in Heads /\ p[1] < p[2] /\ Share(p[1], p[2])
      BY <1>1
    <2>2. p[1] \in Nat /\ p[2] \in Nat
      BY <2>1, <1>1, <1>2
    <2>3. p[1] # p[2]
      BY <2>1, <2>2
    <2>4. /\ Included(p[1], p[2])
          /\ {SmallerOf(p[1], p[2]), LargerOf(p[1], p[2])} = {p[1], p[2]}
          /\ SmallerOf(p[1], p[2]) # LargerOf(p[1], p[2])
      BY <2>1, <2>3, SmallerInside
    <2> QED BY <2>1, <2>3, <2>4
  <1>4. phase' = "done" /\ loops' = loops
    BY <1>3 DEF RelateLoops
  <1>5. tested = pairs
    BY <1>3
  <1>6. \A h : placing(h) = {p \in pairs : SmallerOf(p[1], p[2]) = h}
    BY <1>3, <1>5
  <1>7. outer' = [h \in DOMAIN loops |->
                    IF placing(h) = {} THEN outer[h] ELSE LargerOf(place(h)[1], place(h)[2])]
    BY DEF RelateLoops
  <1>8. ASSUME NEW h \in Heads, placing(h) # {}
        PROVE  outer'[h] \in Heads /\ outer'[h] # h /\ loops[h] \subseteq loops[outer'[h]]
    <2>1. placing(h) \subseteq Met \X Met
      BY <1>1
    <2>2. \E p \in placing(h) : \A q \in placing(h) : ~Before(p, q)
      <3> HIDE DEF placing
      <3> QED BY <2>1, <1>2, <1>8, LastPair
    <2>3. place(h) \in placing(h)
      <3> HIDE DEF placing
      <3> QED BY <2>2
    <2> DEFINE p == place(h)
    <2>4. outer'[h] = LargerOf(p[1], p[2])
      BY <1>1, <1>7, <1>8
    <2>5. p \in pairs /\ SmallerOf(p[1], p[2]) = h
      BY <2>3, <1>6
    <2> HIDE DEF p, pairs
    <2>6. Included(p[1], p[2]) /\ SmallerOf(p[1], p[2]) # LargerOf(p[1], p[2])
          /\ LargerOf(p[1], p[2]) \in Heads
      BY <2>5, <1>3
    <2> QED BY <2>4, <2>5, <2>6 DEF Included
  <1>9. ASSUME NEW h \in Heads, placing(h) = {}
        PROVE  outer'[h] = None /\ \A k \in Heads \ {h} : h \notin loops[k]
    <2>1. outer'[h] = None
      BY <1>1, <1>7, <1>9
    <2>2. ASSUME NEW k \in Heads \ {h}, h \in loops[k] PROVE FALSE
      <3>1. h \in Met /\ k \in Met /\ loops[h] = Body(h) /\ loops[k] = Body(k) /\ k # h
        BY <1>1 DEF LoopsFound
      <3>2. /\ h \in Body(h) /\ \A b \in Body(h) : Dominates(h, b)
            /\ k \in Body(k) /\ \A b \in Body(k) : Dominates(k, b)
        BY <3>1, <1>1, BodyFacts
      <3>3. Share(h, k) /\ Share(k, h)
        BY <2>2, <3>1, <3>2 DEF Share
      <3>4. Dominates(k, h)
        BY <2>2, <3>1, <3>2
      <3>5. h \in Nat /\ k \in Nat
        BY <3>1, <1>2
      <3>6. ASSUME NEW x, NEW y, x < y, {x, y} = {h, k}, Share(x, y) PROVE FALSE
        <4>1. x \in Heads /\ y \in Heads /\ x # y
          BY <3>6, <3>5, <3>1
        <4>2. <<x, y>> \in pairs
          BY <4>1, <3>6, <1>1
        <4>3. SmallerOf(x, y) # h
          BY <4>2, <1>6, <1>9
        <4>4. Included(x, y) /\ {SmallerOf(x, y), LargerOf(x, y)} = {x, y}
          BY <4>1, <3>6, SmallerInside
        <4>5. SmallerOf(x, y) = k /\ LargerOf(x, y) = h
          BY <4>3, <4>4, <3>6, <3>1 DEF LargerOf
        <4>6. Body(k) \subseteq Body(h)
          BY <4>4, <4>5, <3>1 DEF Included
        <4>7. Dominates(h, k)
          BY <4>6, <3>2
        <4> QED BY <4>7, <3>4, <3>1, DominatesOrder
      <3>7. CASE h < k
        BY <3>6, <3>7, <3>3
      <3>8. CASE k < h
        BY <3>6, <3>8, <3>3
      <3> QED BY <3>7, <3>8, <3>5, <3>1
    <2> QED BY <2>1, <2>2
  <1>10. DOMAIN outer' = DOMAIN loops
    BY <1>7
  <1>11. ASSUME NEW h \in DOMAIN loops
         PROVE  IF outer'[h] = None THEN \A k \in (DOMAIN loops) \ {h} : h \notin loops[k]
                ELSE outer'[h] \in DOMAIN loops /\ outer'[h] # h /\ loops[h] \subseteq loops[outer'[h]]
    <2> HIDE DEF placing
    <2>1. CASE placing(h) = {}
      BY <2>1, <1>1, <1>9
    <2>2. CASE placing(h) # {}
      <3>1. outer'[h] # None
        BY <2>2, <1>1, <1>2, <1>8
      <3> QED BY <3>1, <2>2, <1>1, <1>8
    <2> QED BY <2>1, <2>2
  <1>12. outer' \in [DOMAIN loops -> (DOMAIN loops) \cup {None}]
    <2> DEFINE value(h) == IF placing(h) = {} THEN outer[h] ELSE LargerOf(place(h)[1], place(h)[2])
    <2>1. outer' = [h \in DOMAIN loops |-> value(h)]
      BY <1>7
    <2>2. \A h \in DOMAIN loops : outer'[h] \in (DOMAIN loops) \cup {None}
      BY <1>11
    <2> HIDE DEF value, placing
    <2> QED BY <2>1, <2>2
  <1> QED BY <1>4, <1>11, <1>12 DEF OuterRight

-----------------------------------------------------------------------------
(***************************************************************************)
(* The inductive invariant.                                                *)
(***************************************************************************)

Answered == phase \in {"loops", "relate", "improper", "done"}

DomTypes ==
  /\ pending \in Seq(Met)
  /\ ~Walking => Forest \in Forests /\ bucket \in [Met -> Seq(Met)]

(* The predecessors of a block that has been passed were met.              *)
PredInv ==
  /\ phase = "semi" => \A w \in Processed : Pred(w) \subseteq Met
  /\ Answered => PredsMet

LoopInv ==
  /\ LoopTypes(loops)
  /\ phase # "done" => outer = [h \in DOMAIN loops |-> None]
  /\ phase = "relate" => LoopsFound(loops)
  /\ phase = "improper" => ~Proper
  /\ phase = "done" => LoopsFound(loops) /\ OuterRight(loops, outer)

IInv ==
  /\ WalkInv /\ ArcInv /\ DomTypes /\ PredInv
  /\ phase = "semi" => SemiInv
  /\ Answered => DomTree(dominator)
  /\ LoopInv

(* What depends on the graph and the traversal only.                       *)
LEMMA SameParts ==
  ASSUME UNCHANGED <<next, found, timeIn, timeOut, parent>>
  PROVE  /\ Met' = Met /\ Heads' = Heads
         /\ PredsMet' <=> PredsMet
         /\ Proper' <=> Proper
         /\ \A h : Body(h)' = Body(h)
         /\ \A d, w : Immediately(d, w)' <=> Immediately(d, w)
  <1>1. /\ Met' = Met /\ Entry' = Entry
        /\ \A x, y : Anc(x, y)' <=> Anc(x, y)
        /\ \A x, y : Dominates(x, y)' <=> Dominates(x, y)
    BY SameGraph
  <1>2. \A b : Succ(b)' = Succ(b) /\ Pred(b)' = Pred(b)
    BY DEF Succ, Pred
  <1>3. PredsMet' <=> PredsMet
    BY <1>1, <1>2 DEF PredsMet
  <1>4. \A x, h : BackArc(x, h)' <=> BackArc(x, h)
    BY <1>1, <1>2 DEF BackArc
  <1>5. Proper' <=> Proper
    BY <1>1, <1>4 DEF Proper
  <1>6. Heads' = Heads
    BY <1>1, <1>4 DEF Heads
  <1>7. \A h : Under(h)' = Under(h) /\ Ends(h)' = Ends(h)
    BY <1>1, <1>4 DEF Under, Ends
  <1>8. \A h : Into(h)' = Into(h)
    BY <1>2, <1>7 DEF Into
  <1>9. \A h : Body(h)' = Body(h)
    BY <1>7, <1>8 DEF Body, Upstream
  <1>10. \A d, w : Immediately(d, w)' <=> Immediately(d, w)
    BY <1>1 DEF Immediately
  <1> QED BY <1>1, <1>3, <1>5, <1>6, <1>9, <1>10

(* The same of tables that may have changed.                               *)
LEMMA SameTables ==
  ASSUME UNCHANGED <<next, found, timeIn, timeOut, parent>>
  PROVE  /\ LoopTypes(loops)' <=> LoopTypes(loops')
         /\ LoopsFound(loops)' <=> LoopsFound(loops')
         /\ DomTree(dominator)' <=> DomTree(dominator')
         /\ OuterRight(loops, outer)' <=> OuterRight(loops', outer')
  <1>1. /\ Met' = Met /\ Heads' = Heads /\ (Proper' <=> Proper) /\ \A h : Body(h)' = Body(h)
        /\ \A d, w : Immediately(d, w)' <=> Immediately(d, w)
    BY SameParts
  <1>2. Entry' = Entry
    BY DEF Entry
  <1>3. LoopTypes(loops)' <=> LoopTypes(loops')
    BY <1>1 DEF LoopTypes
  <1>4. LoopsFound(loops)' <=> LoopsFound(loops')
    BY <1>1 DEF LoopsFound
  <1>5. DomTree(dominator)' <=> DomTree(dominator')
    BY <1>1, <1>2 DEF DomTree
  <1>6. OuterRight(loops, outer)' <=> OuterRight(loops', outer')
    BY DEF OuterRight
  <1> QED BY <1>3, <1>4, <1>5, <1>6

(* A table that is empty is one of Nones.                                  *)
LEMMA EmptyTable == <<>> = [h \in DOMAIN <<>> |-> None] /\ DOMAIN <<>> = {}
OBVIOUS

(* The invariant holds at the start.                                       *)
LEMMA IInvStarts ==
  ASSUME Init
  PROVE  IInv
  <1>1. WalkInv /\ ArcInv
    BY WalkStarts, ArcsStart
  <1>2. phase = "dfs" /\ pending = <<>> /\ loops = <<>> /\ outer = <<>>
    BY DEF Init
  <1>3. pending \in Seq(Met)
    BY <1>2
  <1>4. LoopInv
    BY <1>2, EmptyTable DEF LoopInv, LoopTypes
  <1> QED BY <1>1, <1>2, <1>3, <1>4 DEF IInv, DomTypes, PredInv, Answered, Walking

(* While dfs is at work the rest waits.                                    *)
LEMMA DfsKeepsRest ==
  ASSUME IInv, WalkInv', ArcInv', phase = "dfs", phase' \in {"dfs", "classify"},
         UNCHANGED <<domVars, loopVars>>, Met \subseteq Met'
  PROVE  IInv'
  <1>1. pending' \in Seq(Met')
    <2>1. pending \in Seq(Met) /\ pending' = pending
      BY DEF IInv, DomTypes, domVars
    <2>2. pending \in Seq(Met')
      BY <2>1
    <2> QED BY <2>1, <2>2
  <1>2. LoopInv'
    <2>1. LoopTypes(loops) /\ outer = [h \in DOMAIN loops |-> None] /\ loops' = loops /\ outer' = outer
      BY DEF IInv, LoopInv, loopVars
    <2>2. LoopTypes(loops)'
      BY <2>1 DEF LoopTypes
    <2> QED BY <2>1, <2>2 DEF LoopInv
  <1> QED BY <1>1, <1>2 DEF IInv, DomTypes, PredInv, Answered, Walking

(* A call of dfs keeps it.                                                 *)
LEMMA TreeArcInv ==
  ASSUME IInv, NEW b \in Blocks, TreeArc(b)
  PROVE  IInv'
  <1>1. WalkInv' /\ ArcInv'
    BY TreeArcKeeps, TreeArcArcs DEF IInv
  <1>2. phase = "dfs" /\ phase' = "dfs" /\ UNCHANGED <<domVars, loopVars>>
    BY DEF TreeArc, ArcTo
  <1>3. Met \subseteq Met'
    <2>1. found' = Append(found, b) /\ found \in Seq(Blocks)
      BY DEF TreeArc, IInv, WalkInv, WalkTypes
    <2> QED BY <2>1, AppendFacts DEF Met
  <1> QED BY <1>1, <1>2, <1>3, DfsKeepsRest

(* An arc to a block already met keeps it.                                 *)
LEMMA OtherArcInv ==
  ASSUME IInv, NEW b \in Blocks, OtherArc(b)
  PROVE  IInv'
  <1>1. WalkInv' /\ ArcInv'
    BY OtherArcKeeps, OtherArcArcs DEF IInv
  <1>2. phase = "dfs" /\ phase' = "dfs" /\ UNCHANGED <<domVars, loopVars>> /\ Met' = Met
    BY DEF OtherArc, ArcTo, Met
  <1> QED BY <1>1, <1>2, DfsKeepsRest

(* The return of a call keeps it.                                          *)
LEMMA LeaveInv ==
  ASSUME IInv, Leave
  PROVE  IInv'
  <1>1. WalkInv' /\ ArcInv'
    BY LeaveKeeps, LeaveArcs DEF IInv
  <1>2. /\ phase = "dfs" /\ phase' \in {"dfs", "classify"}
        /\ UNCHANGED <<domVars, loopVars>> /\ Met' = Met
    BY DEF Leave, Met
  <1> QED BY <1>1, <1>2, DfsKeepsRest

(* What SemiInv says of the types.                                         *)
LEMMA SemiTypes ==
  ASSUME SemiInv
  PROVE  pending \in Seq(Met) /\ Forest \in Forests /\ bucket \in [Met -> Seq(Met)]
BY DEF SemiInv, PendingInOrder, Linked, Buckets, Waiting

(* classifyArcs keeps it.                                                  *)
LEMMA ClassifyInv ==
  ASSUME IInv, ClassifyArcs
  PROVE  IInv'
  <1>1. WalkInv' /\ ArcInv' /\ SemiInv' /\ Met' = Met
    BY ClassifyWalk, ClassifyArcsArcs, SemiStarts DEF IInv
  <1>2. phase' = "semi" /\ loops' = loops /\ outer' = outer /\ phase = "classify"
    BY DEF ClassifyArcs, loopVars
  <1>3. DomTypes'
    BY <1>1, SemiTypes, PTL DEF DomTypes
  <1>4. Processed' = {}
    <2>1. pending' = Tail(found) /\ found' = found
      BY DEF ClassifyArcs
    <2>2. found \in Seq(Blocks) /\ found # <<>>
      BY DEF IInv, WalkInv, WalkTypes
    <2>3. ASSUME NEW x \in Met PROVE x = Entry \/ x \in ToSet(Tail(found))
      <3>1. PICK i \in 1 .. Len(found) : found[i] = x
        BY <2>2 DEF Met, ToSet
      <3>2. CASE i = 1
        BY <3>1, <3>2 DEF Entry
      <3>3. CASE i # 1
        <4>1. i - 1 \in DOMAIN Tail(found) /\ Tail(found)[i - 1] = x
          BY <3>1, <3>3, <2>2
        <4> QED BY <4>1 DEF ToSet
      <3> QED BY <3>2, <3>3
    <2>4. Entry' = Entry
      BY <2>1 DEF Entry
    <2> QED BY <2>1, <2>3, <2>4, <1>1 DEF Processed
  <1>5. LoopInv'
    <2>1. LoopTypes(loops) /\ outer = [h \in DOMAIN loops |-> None]
      BY <1>2 DEF IInv, LoopInv
    <2>2. LoopTypes(loops)'
      BY <2>1, <1>1, <1>2 DEF LoopTypes
    <2> QED BY <2>1, <2>2, <1>2 DEF LoopInv
  <1> QED BY <1>1, <1>2, <1>3, <1>4, <1>5 DEF IInv, PredInv, Answered

(* A turn of the descending loop keeps it, also when it fails.             *)
LEMMA SemidominatorInv ==
  ASSUME IInv, Semidominator
  PROVE  IInv'
  <1>1. /\ phase = "semi" /\ phase' \in {"semi", "failed"}
        /\ UNCHANGED <<next, dfsVars, arcsClasses, loopVars>>
    BY DEF Semidominator
  <1>2. /\ WalkInv' /\ ArcInv' /\ Met' = Met /\ Walked
    BY <1>1, RestedKeeps DEF Rested, Walking, IInv, Phases
  <1>3. UNCHANGED <<next, found, timeIn, timeOut, parent>> /\ loops' = loops /\ outer' = outer
    BY <1>1 DEF dfsVars, loopVars
  <1>4. SemiInv /\ \A w \in Processed : Pred(w) \subseteq Met
    BY <1>1 DEF IInv, PredInv
  <1>5. LoopInv'
    <2>1. LoopTypes(loops) /\ outer = [h \in DOMAIN loops |-> None]
      BY <1>1 DEF IInv, LoopInv
    <2>2. LoopTypes(loops)'
      BY <2>1, <1>2, <1>3 DEF LoopTypes
    <2> QED BY <2>1, <2>2, <1>1, <1>3 DEF LoopInv
  <1>6. CASE phase' = "failed"
    <2>1. UNCHANGED domVars
      BY <1>6, <1>1 DEF Semidominator
    <2>2. pending \in Seq(Met) /\ Forest \in Forests /\ bucket \in [Met -> Seq(Met)]
      BY <1>4, SemiTypes
    <2>3. pending' = pending /\ Forest' = Forest /\ bucket' = bucket /\ Forests' = Forests
      BY <2>1, <1>3, SameForest DEF domVars, Forest
    <2>4. DomTypes'
      BY <2>2, <2>3, <1>2 DEF DomTypes
    <2> QED BY <2>4, <1>2, <1>5, <1>6 DEF IInv, PredInv, Answered
  <1>7. CASE phase' = "semi"
    <2>1. SemiInv'
      BY <1>2, <1>4, <1>7, TurnKeeps
    <2>2. DomTypes'
      BY <2>1, SemiTypes, PTL DEF DomTypes
    <2>3. pending # <<>> /\ pending' = Front(pending) /\ Pred(Last(pending)) \subseteq Met
      BY <1>1, <1>7 DEF Semidominator
    <2>4. Processed' = Processed \cup {Last(pending)}
      <3>1. PendingInOrder /\ pending \in Seq(Met)
        BY <1>4 DEF SemiInv, PendingInOrder
      <3>2. Len(pending) > 0
        BY <2>3, <3>1
      <3>3. Met \ ({Entry} \cup ToSet(Front(pending))) = Processed \cup {Last(pending)}
        BY <1>2, <3>1, <3>2, FrontFacts
      <3>4. Entry' = Entry
        BY <1>3 DEF Entry
      <3> QED BY <2>3, <3>3, <3>4, <1>2 DEF Processed
    <2>5. \A w : Pred(w)' = Pred(w)
      BY <1>3 DEF Pred
    <2>6. \A w \in Processed' : Pred(w)' \subseteq Met'
      BY <2>3, <2>4, <2>5, <1>2, <1>4
    <2>7. PredInv'
      BY <2>6, <1>7 DEF PredInv, Answered
    <2> QED BY <2>1, <2>2, <2>7, <1>2, <1>5, <1>7 DEF IInv, Answered
  <1> QED BY <1>1, <1>6, <1>7

(* The ascending loop keeps it.                                            *)
LEMMA ImmediateInv ==
  ASSUME IInv, Immediate
  PROVE  IInv'
  <1>1. /\ phase = "semi" /\ phase' = "loops" /\ pending = <<>>
        /\ UNCHANGED <<next, dfsVars, arcsClasses, pending, ancestor, label, sdom, bucket, loopVars>>
    BY DEF Immediate
  <1>2. /\ WalkInv' /\ ArcInv' /\ Met' = Met /\ Walked
    BY <1>1, RestedKeeps DEF Rested, Walking, IInv, Phases
  <1>3. UNCHANGED <<next, found, timeIn, timeOut, parent>> /\ loops' = loops /\ outer' = outer
    BY <1>1 DEF dfsVars, loopVars
  <1>4. SemiInv /\ \A w \in Processed : Pred(w) \subseteq Met
    BY <1>1 DEF IInv, PredInv
  <1>5. LoopInv'
    <2>1. LoopTypes(loops) /\ outer = [h \in DOMAIN loops |-> None]
      BY <1>1 DEF IInv, LoopInv
    <2>2. LoopTypes(loops)'
      BY <2>1, <1>2, <1>3 DEF LoopTypes
    <2> QED BY <2>1, <2>2, <1>1, <1>3 DEF LoopInv
  <1>6. DomTree(dominator')
    BY <1>2, <1>4, ImmediateFinds
  <1>7. DomTree(dominator)'
    BY <1>3, <1>6, SameTables
  <1>8. PredsMet
    <2>1. Processed = Met \ {Entry}
      BY <1>1 DEF Processed, ToSet
    <2> QED BY <2>1, <1>4 DEF PredsMet
  <1>9. PredsMet'
    BY <1>3, <1>8, SameParts
  <1>10. DomTypes'
    <2>1. pending \in Seq(Met) /\ Forest \in Forests /\ bucket \in [Met -> Seq(Met)]
      BY <1>4, SemiTypes
    <2>2. ancestor \in [Met -> Met \cup {None}] /\ label \in [Met -> Met] /\ sdom \in [Met -> Met]
      BY <2>1 DEF Forest, Forests
    <2>3. dominator' \in [Met -> Met \cup {None}]
      BY <1>6 DEF DomTree
    <2>4. Forest' \in Forests'
      BY <2>2, <2>3, <1>1, <1>2 DEF Forest, Forests
    <2> QED BY <2>1, <2>4, <1>1, <1>2 DEF DomTypes
  <1> QED BY <1>1, <1>2, <1>5, <1>7, <1>9, <1>10 DEF IInv, PredInv, Answered

(* LoopsDetector leaves the dominators as they are.                        *)
LEMMA DetectorKeeps ==
  ASSUME IInv, UNCHANGED <<next, dfsVars, arcsClasses, domVars>>,
         Answered, phase' \in {"relate", "improper", "done"}
  PROVE  /\ WalkInv' /\ ArcInv' /\ DomTypes' /\ PredInv' /\ DomTree(dominator)'
         /\ UNCHANGED <<next, found, timeIn, timeOut, parent>>
         /\ Walked /\ Classified /\ PredsMet /\ DomTree(dominator)
  <1>1. Rested /\ phase' \in Phases
    BY DEF Rested, Walking, Answered, Phases
  <1>2. /\ WalkInv' /\ ArcInv' /\ Met' = Met /\ Walked
    BY <1>1, RestedKeeps DEF IInv
  <1>3. UNCHANGED <<next, found, timeIn, timeOut, parent>>
    BY DEF dfsVars
  <1>4. Classified /\ PredsMet /\ DomTree(dominator)
    BY <1>1 DEF Rested, IInv, ArcInv, PredInv
  <1>5. PredsMet' /\ Forests' = Forests /\ DomTree(dominator)'
    <2>1. DomTree(dominator')
      BY <1>4 DEF domVars
    <2> QED BY <2>1, <1>3, <1>4, SameParts, SameForest, SameTables
  <1>6. DomTypes'
    <2>1. Forest' = Forest /\ pending' = pending /\ bucket' = bucket
      BY DEF domVars, Forest
    <2>2. pending \in Seq(Met) /\ Forest \in Forests /\ bucket \in [Met -> Seq(Met)]
      BY <1>1 DEF IInv, DomTypes, Rested
    <2> QED BY <2>1, <2>2, <1>2, <1>5 DEF DomTypes
  <1>7. PredInv'
    BY <1>5 DEF PredInv
  <1> QED BY <1>2, <1>3, <1>4, <1>5, <1>6, <1>7

(* Finding the loops keeps it.                                             *)
LEMMA FindLoopsInv ==
  ASSUME IInv, FindLoops
  PROVE  IInv'
  <1>1. phase = "loops" /\ UNCHANGED <<next, dfsVars, arcsClasses, domVars>>
    BY DEF FindLoops
  <1>2. Answered /\ Walked /\ Classified /\ PredsMet /\ DomTree(dominator)
    BY <1>1 DEF Answered, IInv, Walked, ArcInv, Walking, PredInv
  <1>3. /\ phase' \in {"improper", "relate"}
        /\ phase' = "relate" => LoopsFound(loops')
        /\ phase' = "improper" => ~Proper
        /\ LoopTypes(loops') /\ outer' = [h \in DOMAIN loops' |-> None]
    BY <1>2, FindLoopsFinds
  <1>4. /\ WalkInv' /\ ArcInv' /\ DomTypes' /\ PredInv' /\ DomTree(dominator)'
        /\ UNCHANGED <<next, found, timeIn, timeOut, parent>>
    BY <1>1, <1>2, <1>3, DetectorKeeps
  <1>5. LoopInv'
    <2>1. (Proper' <=> Proper) /\ (LoopTypes(loops)' <=> LoopTypes(loops'))
          /\ (LoopsFound(loops)' <=> LoopsFound(loops'))
      BY <1>4, SameParts, SameTables
    <2> QED BY <2>1, <1>3 DEF LoopInv
  <1> QED BY <1>3, <1>4, <1>5 DEF IInv

(* Relating the loops keeps it.                                            *)
LEMMA RelateLoopsInv ==
  ASSUME IInv, RelateLoops
  PROVE  IInv'
  <1>1. phase = "relate" /\ UNCHANGED <<next, dfsVars, arcsClasses, domVars, loops>>
    BY DEF RelateLoops
  <1>2. Answered /\ Walked /\ PredsMet /\ LoopsFound(loops) /\ outer = [h \in DOMAIN loops |-> None]
        /\ LoopTypes(loops)
    BY <1>1 DEF Answered, IInv, Walked, PredInv, LoopInv
  <1>3. phase' = "done" /\ loops' = loops /\ OuterRight(loops, outer')
    BY <1>2, RelateLoopsNests
  <1>4. /\ WalkInv' /\ ArcInv' /\ DomTypes' /\ PredInv' /\ DomTree(dominator)'
        /\ UNCHANGED <<next, found, timeIn, timeOut, parent>>
    BY <1>1, <1>2, <1>3, DetectorKeeps
  <1>5. LoopInv'
    <2>1. LoopTypes(loops') /\ LoopsFound(loops') /\ OuterRight(loops', outer')
      BY <1>2, <1>3
    <2>2. LoopTypes(loops)' /\ LoopsFound(loops)' /\ OuterRight(loops, outer)'
      BY <2>1, <1>4, SameTables
    <2> QED BY <2>2, <1>3 DEF LoopInv
  <1> QED BY <1>3, <1>4, <1>5 DEF IInv

(* It is about the variables of the specification only.                    *)
LEMMA StutterInv ==
  ASSUME IInv, UNCHANGED vars
  PROVE  IInv'
  <1>1. /\ UNCHANGED <<phase, next, path, found, timeIn, timeOut, parent, unprocArcs, arcsClasses>>
        /\ UNCHANGED <<pending, ancestor, label, sdom, bucket, dominator, loops, outer>>
    BY DEF vars, dfsVars, domVars, loopVars
  <1>2. UNCHANGED <<next, found, timeIn, timeOut, parent>>
    BY <1>1
  <1>3. /\ Met' = Met /\ Entry' = Entry /\ Blocks' = Blocks /\ Lists' = Lists /\ Calls' = Calls
        /\ Finished' = Finished /\ Clock' = Clock
    BY <1>1 DEF Met, Entry, Blocks, Lists, Calls, Finished, Clock
  <1>4. WalkInv'
    <2>1. WalkTypes' <=> WalkTypes
      BY <1>1, <1>3 DEF WalkTypes
    <2>2. /\ PathInOrder' <=> PathInOrder
          /\ FoundInOrder' <=> FoundInOrder
          /\ NoCrossing' <=> NoCrossing
      BY <1>1, <1>3 DEF PathInOrder, FoundInOrder, NoCrossing, OnPath
    <2>3. /\ Parents' <=> Parents
          /\ ArcsFollowed' <=> ArcsFollowed
      BY <1>1, <1>3 DEF Parents, ArcsFollowed, CalledFrom
    <2> QED BY <2>1, <2>2, <2>3 DEF IInv, WalkInv
  <1>5. ArcInv'
    <2>1. \A a, b : /\ Known(a, b)' <=> Known(a, b)
                    /\ Inside(a, b)' <=> Inside(a, b)
                    /\ Succ(a)' = Succ(a)
      BY <1>1 DEF Known, Inside, Succ
    <2>2. /\ Unprocessed' <=> Unprocessed
          /\ TreeArcs' <=> TreeArcs
      BY <1>1, <1>3 DEF Unprocessed, TreeArcs
    <2>3. HandledKnown' <=> HandledKnown
      BY <1>1, <1>3, <2>1 DEF HandledKnown
    <2>4. Classified' <=> Classified
      BY <1>1, <1>3, <2>1 DEF Classified
    <2>5. Walking' <=> Walking
      BY <1>1 DEF Walking
    <2> QED BY <2>2, <2>3, <2>4, <2>5 DEF IInv, ArcInv
  <1>6. Forests' = Forests /\ Forest' = Forest /\ Processed' = Processed
        /\ (Walking' <=> Walking) /\ (Answered' <=> Answered)
        /\ \A w : Pred(w)' = Pred(w)
    BY <1>1, <1>2, <1>3, SameForest DEF Forest, Processed, Walking, Answered, Pred
  <1>7. DomTypes'
    BY <1>1, <1>3, <1>6 DEF IInv, DomTypes
  <1>8. PredInv'
    <2>1. PredsMet' <=> PredsMet
      BY <1>2, SameParts
    <2> QED BY <1>1, <1>3, <1>6, <2>1 DEF IInv, PredInv
  <1>9. SemiInv' <=> SemiInv
    <2>1. PendingInOrder' <=> PendingInOrder
      BY <1>1, <1>3 DEF PendingInOrder
    <2>2. Linked(Forest, Processed)' <=> Linked(Forest, Processed)
      BY <1>2, <1>6, SameForest
    <2>3. Buckets' <=> Buckets
      BY <1>1, <1>2, <1>6, SameForest DEF Buckets
    <2> QED BY <1>1, <1>3, <1>6, <2>1, <2>2, <2>3 DEF SemiInv
  <1>10. DomTree(dominator)' <=> DomTree(dominator)
    BY <1>1, <1>2, SameTables
  <1>11. LoopInv'
    <2>1. /\ LoopTypes(loops)' <=> LoopTypes(loops)
          /\ LoopsFound(loops)' <=> LoopsFound(loops)
          /\ OuterRight(loops, outer)' <=> OuterRight(loops, outer)
          /\ Proper' <=> Proper
      BY <1>1, <1>2, SameTables, SameParts
    <2> QED BY <1>1, <2>1 DEF IInv, LoopInv
  <1> QED BY <1>1, <1>4, <1>5, <1>6, <1>7, <1>8, <1>9, <1>10, <1>11 DEF IInv

(* Every step keeps it.                                                    *)
LEMMA StepInv ==
  ASSUME IInv, [Next]_vars
  PROVE  IInv'
  <1>1. CASE UNCHANGED vars
    BY <1>1, StutterInv
  <1>2. CASE \E b \in Blocks : TreeArc(b) \/ OtherArc(b)
    BY <1>2, TreeArcInv, OtherArcInv
  <1>3. CASE Leave
    BY <1>3, LeaveInv
  <1>4. CASE ClassifyArcs
    BY <1>4, ClassifyInv
  <1>5. CASE Semidominator
    BY <1>5, SemidominatorInv
  <1>6. CASE Immediate
    BY <1>6, ImmediateInv
  <1>7. CASE FindLoops
    BY <1>7, FindLoopsInv
  <1>8. CASE RelateLoops
    BY <1>8, RelateLoopsInv
  <1> QED BY <1>1, <1>2, <1>3, <1>4, <1>5, <1>6, <1>7, <1>8 DEF Next

(* The invariant of all the analyses together: the order of the traversal, *)
(* the forest of findMin, what waits in the buckets, the loops.            *)
THEOREM Invariant == Spec => []IInv
  <1>1. Init => IInv
    BY IInvStarts
  <1>2. IInv /\ [Next]_vars => IInv'
    BY StepInv
  <1> QED BY <1>1, <1>2, PTL DEF Spec

-----------------------------------------------------------------------------
(* What follows. *)

(* The invariant implies the types,                                        *)
LEMMA IInvTypes ==
  ASSUME IInv
  PROVE  TypeOK
  <1>1. WalkTypes /\ DomTypes /\ ArcInv /\ LoopInv
    BY DEF IInv, WalkInv
  <1>2. Met \subseteq Blocks /\ Clock \in Nat /\ Clock <= 2 * Cardinality(Blocks)
        /\ Cardinality(Blocks) \in Nat
    BY <1>1, ClockFacts, BlocksFinite
  <1> DEFINE N == 2 * Cardinality(Blocks)
  <1>3. N \in Nat /\ Clock <= N
    BY <1>2
  <1> HIDE DEF N
  <1>4. timeIn \in [Met -> 1 .. N]
    <2>1. \A b \in Met : timeIn[b] \in Nat /\ 1 <= timeIn[b] /\ timeIn[b] <= Clock
      BY <1>1 DEF WalkTypes
    <2>2. \A b \in Met : timeIn[b] \in 1 .. N
      BY <2>1, <1>2, <1>3
    <2> QED BY <2>2, <1>1 DEF WalkTypes
  <1>5. DOMAIN timeOut \subseteq Met /\ \A b \in DOMAIN timeOut : timeOut[b] \in 1 .. N
    <2>1. \A b \in Finished : timeOut[b] \in Nat /\ 1 <= timeOut[b] /\ timeOut[b] <= Clock
      BY <1>1 DEF WalkTypes
    <2>2. Finished \subseteq Met
      BY <1>1 DEF WalkTypes
    <2> QED BY <2>1, <2>2, <1>2, <1>3 DEF Finished
  <1>6. /\ phase \in Phases
        /\ DOMAIN next \subseteq Blocks /\ \A b \in DOMAIN next : next[b] \in Lists
        /\ path \in Seq([block : Met, arcs : 0 .. 2])
        /\ parent \in [Met -> Met \cup {None}]
    BY <1>1 DEF WalkTypes, Calls
  <1>7. /\ unprocArcs \subseteq Met \X Met
        /\ DOMAIN arcsClasses \subseteq Met \X Met
        /\ \A a \in DOMAIN arcsClasses : arcsClasses[a] \in Classes
    <2>1. CASE Walking
      BY <1>1, <2>1 DEF ArcInv, Unprocessed, TreeArcs, Classes
    <2>2. CASE ~Walking
      BY <1>1, <2>2 DEF ArcInv, Classified
    <2> QED BY <2>1, <2>2
  <1>8. /\ pending \in Seq(Met)
        /\ phase \notin {"dfs", "classify"} =>
             /\ ancestor \in [Met -> Met \cup {None}]
             /\ label \in [Met -> Met] /\ sdom \in [Met -> Met]
             /\ bucket \in [Met -> Seq(Met)]
             /\ dominator \in [Met -> Met \cup {None}]
    BY <1>1 DEF DomTypes, Walking, Forest, Forests
  <1>9. /\ DOMAIN loops \subseteq Met
        /\ \A h \in DOMAIN loops : loops[h] \subseteq Met
        /\ outer \in [DOMAIN loops -> DOMAIN loops \cup {None}]
    <2>1. CASE phase = "done"
      BY <1>1, <2>1 DEF LoopInv, LoopTypes, OuterRight
    <2>2. CASE phase # "done"
      BY <1>1, <2>2 DEF LoopInv, LoopTypes
    <2> QED BY <2>1, <2>2
  <1> QED BY <1>2, <1>4, <1>5, <1>6, <1>7, <1>8, <1>9 DEF TypeOK, N

(* that the semidominators are right,                                      *)
LEMMA IInvSemi ==
  ASSUME IInv
  PROVE  SemiCorrect
BY DEF IInv, SemiCorrect, SemiInv, Linked, Forest, Processed

(* that isDom tells dominance,                                             *)
LEMMA IInvDom ==
  ASSUME IInv
  PROVE  DomCorrect
  <1>1. phase = "loops" => Walked /\ DomTree(dominator)
    BY DEF IInv, Walked, Answered
  <1> QED BY <1>1, AboveDominates DEF DomCorrect

(* that what is given up is irreducible,                                   *)
LEMMA IInvImproper ==
  ASSUME IInv
  PROVE  ImproperIffIrreducible
  <1>1. SUFFICES ASSUME phase \in {"done", "improper"}
                 PROVE  phase = "improper" <=> \E S \in (SUBSET Met) \ {{}} : TwoEntries(S)
    BY DEF ImproperIffIrreducible, TwoEntries
  <1>2. Walked
    BY <1>1 DEF IInv, Walked
  <1>3. CASE phase = "done"
    <2>1. Proper
      BY <1>3 DEF IInv, LoopInv, LoopsFound
    <2> QED BY <2>1, <1>2, <1>3, ProperHasNone
  <1>4. CASE phase = "improper"
    <2>1. ~Proper
      BY <1>4 DEF IInv, LoopInv
    <2>2. PICK x \in Met, h \in Met : BackArc(x, h) /\ ~Dominates(h, x)
      BY <2>1 DEF Proper
    <2>3. \E S \in (SUBSET Met) \ {{}} : TwoEntries(S)
      BY <2>2, <1>2, ImproperCycle
    <2> QED BY <2>3, <1>4
  <1> QED BY <1>1, <1>3, <1>4

(* that the loops are the natural ones,                                    *)
LEMMA IInvNatural ==
  ASSUME IInv
  PROVE  LoopsNatural
  <1>1. SUFFICES ASSUME phase = "relate"
                 PROVE  /\ \A h \in DOMAIN loops : /\ \A b \in loops[h] : Dominates(h, b)
                                                   /\ Connected(loops[h])
                        /\ \A b \in Met : b \in ReachFrom(Succ(b) \ {b}, Met)
                                            => \E h \in DOMAIN loops : b \in loops[h]
    BY DEF LoopsNatural
  <1>2. Walked /\ PredsMet /\ LoopsFound(loops)
    BY <1>1 DEF IInv, Walked, PredInv, Answered, LoopInv
  <1>3. ASSUME NEW h \in DOMAIN loops
        PROVE  (\A b \in loops[h] : Dominates(h, b)) /\ Connected(loops[h])
    <2>1. h \in Met /\ loops[h] = Body(h) /\ Proper
      BY <1>2 DEF LoopsFound, Heads
    <2>2. (\A b \in Body(h) : Dominates(h, b)) /\ Connected(Body(h))
      BY <2>1, <1>2, BodyFacts, BodyConnected
    <2> QED BY <2>1, <2>2
  <1>4. ASSUME NEW b \in Met, b \in ReachFrom(Succ(b) \ {b}, Met)
        PROVE  \E h \in DOMAIN loops : b \in loops[h]
    <2>1. Proper
      BY <1>2 DEF LoopsFound
    <2>2. PICK h \in Met : (\E x \in Met : BackArc(x, h)) /\ b \in Body(h)
      BY <2>1, <1>2, <1>4, LoopAround
    <2> QED BY <2>2, <1>2 DEF LoopsFound, Heads
  <1> QED BY <1>3, <1>4

(* that they are nested,                                                   *)
LEMMA IInvNest ==
  ASSUME IInv
  PROVE  LoopsNest
  <1>1. SUFFICES ASSUME phase \in {"relate", "done"}, NEW h \in DOMAIN loops, NEW k \in DOMAIN loops
                 PROVE  \/ loops[h] \cap loops[k] = {}
                        \/ loops[h] \subseteq loops[k]
                        \/ loops[k] \subseteq loops[h]
    BY DEF LoopsNest
  <1>2. Walked /\ PredsMet /\ LoopsFound(loops)
    BY <1>1 DEF IInv, Walked, PredInv, Answered, LoopInv
  <1>3. h \in Met /\ k \in Met /\ loops[h] = Body(h) /\ loops[k] = Body(k) /\ Proper
    BY <1>2 DEF LoopsFound, Heads
  <1> QED BY <1>2, <1>3, BodiesNest

(* and that their parents are around them.                                 *)
LEMMA IInvOuter ==
  ASSUME IInv
  PROVE  OuterEncloses
BY DEF IInv, LoopInv, OuterRight, OuterEncloses

(* The tables are of their kinds.                                          *)
THEOREM Types == Spec => []TypeOK
BY Invariant, IInvTypes, PTL

(* The semidominators that dominators keeps are those of the definition.   *)
THEOREM Semidominators == Spec => []SemiCorrect
BY Invariant, IInvSemi, PTL

(* isDom tells dominance.                                                  *)
THEOREM Dominance == Spec => []DomCorrect
BY Invariant, IInvDom, PTL

(* LoopsDetector gives up on irreducible graphs and on no others.          *)
THEOREM GivesUpOnIrreducible == Spec => []ImproperIffIrreducible
BY Invariant, IInvImproper, PTL

(* The loops found are the natural ones, and they are all there.           *)
THEOREM NaturalLoops == Spec => []LoopsNatural
BY Invariant, IInvNatural, PTL

(* Loops that share a block are nested.                                    *)
THEOREM LoopsAreNested == Spec => []LoopsNest
BY Invariant, IInvNest, PTL

(* The parents of loops are around them.                                   *)
THEOREM ParentsEnclose == Spec => []OuterEncloses
BY Invariant, IInvOuter, PTL
=============================================================================
