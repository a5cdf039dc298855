------------------------------- MODULE CFGraph -------------------------------
(***************************************************************************)
(* The control flow graph of one function (ir/unit.hpp CFGraph) and its    *)
(* basic blocks (ir/nodes.hpp IR_Block) as the IR generator builds them.   *)
(*                                                                         *)
(* Blocks are only ever added while a function is generated, so a graph is *)
(* a sequence of blocks: the block with id k of the code is element k + 1, *)
(* and blocksCounter is Len(g).  NoBlock stands for the null pointer.      *)
(***************************************************************************)
EXTENDS Integers, Sequences

NoBlock == 0
Ids == Nat

(* termNode: absent, or one of IR_ExprTerminator's types. *)
TermTypes == {"none", "JUMP", "BRANCH", "RET"}

(***************************************************************************)
(* A node of a body keeps what the properties tell apart: "alloca" is the  *)
(* allocation of a declared variable, "tmp" that of an expression's        *)
(* temporary, "use" an access to a declared variable, "op" anything else.  *)
(* ref is the index of the source statement the node (for a "use", the     *)
(* variable) comes from.                                                   *)
(***************************************************************************)
Node == [op : {"op", "alloca", "tmp", "use"}, ref : Nat]

Block == [next : Seq(Ids), prev : Seq(Ids), term : TermTypes, body : Seq(Node)]

Graph == Seq(Block)

NewBlock == [next |-> <<>>, prev |-> <<>>, term |-> "none", body |-> <<>>]

(* createBlock: a fresh id and an empty block; NewId is that id. *)
CreateBlock(g) == Append(g, NewBlock)
NewId(g) == Len(g) + 1

(* linkBlocks: the arc is recorded at both of its ends, duplicates kept. *)
LinkBlocks(g, a, b) ==
    LET h == [g EXCEPT ![a].next = Append(@, b)]
    IN  [h EXCEPT ![b].prev = Append(@, a)]

SetTerminator(g, b, t) == [g EXCEPT ![b].term = t]

AddNode(g, b, op, ref) ==
    [g EXCEPT ![b].body = Append(@, [op |-> op, ref |-> ref])]

(* getAllNodes().empty(): no instruction and no terminator either. *)
IsEmpty(blk) == blk.body = <<>> /\ blk.term = "none"

(***************************************************************************)
(* What a terminator demands of the successors: IR2LLVM reads next[0] of a *)
(* JUMP, next[0] and next[1] of a BRANCH, none of a RET.                   *)
(***************************************************************************)
Arity(t) == CASE t = "JUMP" -> 1 [] t = "BRANCH" -> 2 [] OTHER -> 0

(* A block still being filled, and one that is finished. *)
IsOpen(blk)   == blk.term = "none" /\ blk.next = <<>>
IsSealed(blk) == blk.term # "none" /\ Len(blk.next) = Arity(blk.term)
=============================================================================
