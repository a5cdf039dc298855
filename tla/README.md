# Formal models of cw39

cw39 is an optimizing compiler for a subset of C99, written in C++20 and run as
one sequential process: preprocessor, Flex/Bison parser, IR generator, a fixed
list of IR passes, LLVM back end. There are no threads, no messages and no
persistent state. What is hard in it is *protocol*: long sequences of legal calls
on shared mutable state (the selected block, the stacks of scopes and controls,
the tables of labels and waiting gotos, the nesting of files and conditionals,
the numbering of a graph) whose errors show far from the call that made them.
The models follow that. A handler of the C++ code is an action; a recursive
handler is split at its recursive calls, its local variables kept in an explicit
frame; and the input (the program, the text of the files, the graph) is chosen
nondeterministically as it is read, so that TLC walks over every input up to a
bound.

Paths below are relative to the repository; its sources are in `src/`.

## Inventory

| Component | State it keeps | Operations | Interacts with |
|---|---|---|---|
| Preprocessor (`src/parser/preprocessor.cpp`) | stack of files with their locations, `isSkip`, `nestCntr`, `condStatuses`, the macros, `globalLine`, the output | a line of each kind, comments, `#include` and its return, end of file | appends to the line map, which the parser asks later |
| Source line map (`src/parser/parsing_context.cpp`) | `ldata`, entries from output lines to places in files | `appendWarpLoc`, `getLoc` | written by the preprocessor, read for messages |
| Lexer, parser, tree (`src/parser/lexer.l`, `parser.y`, `core_driver.cpp`, `ast.hpp`) | the stack of states and values, the lookahead token, the driver's table of typedefs (`typesAliases`), the tree | a token, a shift, a reduction with its action, `parseDeclaration` | the lexer asks the table that the parser's reductions fill; gives the tree to the IR generator |
| IR generator, statements (`src/ir/generator.cpp`) | `selectedBlock`, `activeControls`, `VariablesStack`, `labels`, `danglingGotos` | a handler per statement, `createFunction` | builds a `CFGraph` by `createBlock`, `linkBlocks`, `setTerminator` |
| IR generator, expressions (`src/ir/expr_gen.cpp`) | the nodes and registers made so far, the variables and functions known | `evalExpr`, `doAssignment`, `doAddrOf`, `doCall` over the tree; the first operand evaluated is the C++ compiler's choice | casts as `types.cpp` says, folds as `constants_folder.cpp` says |
| IR generator, types and constants (`src/ir/types_gen.cpp`, `types.cpp`, `value.cpp`, `constants_folder.cpp`) | the structures met (`iunit->structs`) | a type from specifiers and declarator, common types, sizes, folding | used by the expressions and by the passes that fold |
| Control flow graph (`src/ir/unit.cpp`, `nodes.cpp`) | blocks with `next`, `prev`, body and terminator | the above; removal and copying for the passes | shared by generator, passes and back end |
| Graph analyses (`src/transformations/graph_info.cpp`) | numbering, arc classes, the forest of Lengauer and Tarjan, dominators, loops | the constructors of `GraphInfo` and `LoopsDetector` | built anew by each pass that asks |
| CFG cleaner, SSA construction, optimization passes (`src/transformations/`) | the graph being rewritten, phi arguments by position of the predecessor | one function per clean-up or pass | run by the pipeline |
| Pipeline (`src/main.cpp`) | the unit, counters of its fixpoint loops | `optimizeFunction`, `doOptimizations` | runs the passes |
| LLVM back end (`src/ir_2_llvm.cpp`) | maps to LLVM values | a function per kind of node | demands that every block is terminated, that operands have the same type, that a definition dominates its uses |

What is hard, by component, and the properties that make it right:

* **Preprocessor.** Three variables changed by four handlers decide whether text
  is passed on; an `#include` resets them in the middle; the lines of a file, of
  the output and of the file that waits advance at different moments; the map
  accepts positions only in increasing order. It is right when the text written
  is the text that the open groups keep, when line numbers follow the files, and
  when it ends, whatever includes what.
* **Lexer, parser, tree.** What a name means depends on the typedefs the parser has
  reduced by the time it reads the name, one token ahead; 227 productions resolve
  C's precedences, the dangling `else`, casts and declarators by the way they are
  written; each action puts its values into fields the later code casts without a
  look. They are right when the tree is the one C gives the text, when every node
  has children of the classes its readers expect, and when no lookahead token is
  older than the table.
* **IR generator.** Blocks are created by one handler and finished by another,
  and a jump in a nested statement leaves no selected block; `break`, `continue`
  and `case` look into a deque that each handler pushes and pops by hand; gotos
  wait for labels until the end of the function; the allocation of a variable is
  moved to a block finished long before. It is right when every block ends
  finished, when the graph orders expressions as C does, and when allocations
  dominate uses.
* **Expressions and types.** What a C expression does is spread over loads, casts,
  address arithmetic in `u64` and whole-structure stores that have to fit
  together and fit the layout LLVM chooses; the text says the same thing in a
  recursion over declarators read inside out. They are right when the code LLVM
  gets does to the variables what C says, whatever the order of operands, and when
  LLVM's verifier accepts it.
* **Graph analyses.** Answers depend on a numbering, on path compression done
  while answering and on two passes in opposite directions. They are right when
  they agree with the definitions of dominance, of reducibility and of natural
  loops.
* **Passes and pipeline.** Phi arguments are kept by position while arcs are
  removed and merged; blocks and loops found before a rewriting are used after
  it; each pass leaves nops, transit blocks and unused phis for a clean-up that
  must come in time; fixpoints are bounded; constants are folded in C++ types that
  are not the IR's. They are right when arcs and phi arguments stay consistent, when
  the function stays in SSA form and computes the same after every pass, and when
  the fixpoints are reached.

Every hazard, at its line and with the properties that would catch it, is in
`PROJECT.json`.

## Modules

| Module | Models | Uses |
|---|---|---|
| `CFGraph` | blocks, arcs and terminators as the generator makes them (operators, no state) | |
| `IRGenerator` | the statement handlers and `createFunction` | `CFGraph` |
| `IRFlow` | what a finished graph means, and what the C program means | `IRGenerator` |
| `IRGenerator_proofs`, `IRGenerator_blocks` | theorems: types and controls; then blocks and scopes | `IRGenerator` |
| `IRFlow_proofs`, `IRFlow_dominance` | theorems: where variables are allocated; that this dominates their uses | `IRFlow`, `IRGenerator_blocks` |
| `Conditionals` | what conditional compilation promises, without the code's three variables | |
| `Preprocessor` | the preprocessor and `LinesWarpMap` | instantiates `Conditionals` |
| `Preprocessor_proofs`, `Preprocessor_lines` | theorems: groups and the refinement; then line numbers | `Preprocessor` |
| `GraphInfo` | `GraphInfo` and `LoopsDetector` | |
| `GraphInfo_proofs` | theorems: dominators and loops are right for every graph | `GraphInfo` |
| `FunctionIR` | a function as the passes see it: nodes, phis, arcs, dominators and loops by their definitions | |
| `CfgCleaner`, `SSAGenerator`, `ComputingPasses`, `GlobalPasses`, `LoopPasses` | the passes, as operators from a function to a function | `FunctionIR` |
| `Materializer` | `createFunctions` of the back end, what LLVM's verifier asks, and a run of the function | `FunctionIR` |
| `Optimizer` | `doOptimizations`: which pass runs when, and what holds after each | the passes |
| `MCOptimizer` | the functions `Optimizer` is checked with | `Optimizer` |
| `Algebra` | integer types, `ConstantsFolder`, the rules of `AlgebraicTransformer` | |
| `Arithmetic` | programs of three nodes, folded and rewritten in any order | `Algebra` |
| `Arithmetic_proofs` | theorem | `Arithmetic` |
| `Grammar` | the productions of `parser.y`, each with the name of its action | |
| `Automaton` | the LR automaton of the grammar and what the parser asks of its tables | `Grammar` |
| `SyntaxTree` | the nodes of the tree and the actions that make them | |
| `TreeShape` | the classes of `ast.hpp`: what is a child of what | `SyntaxTree` |
| `Lexer` | the token of a lexeme | `SyntaxTree` |
| `Parser` | the loop of the parser, with the parts of `CoreDriver` its actions call | `Automaton`, `TreeShape`, `Lexer` |
| `CText` | the text C gives a tree (reference, not the program) | `SyntaxTree` |
| `MCParser` | the programs `Parser` is checked with | `Parser`, `CText` |
| `CSyntax` | the syntax tree of expressions and declarations | |
| `IRTypes` | types, their sizes, casts, and the type of a declaration | `CSyntax` |
| `ExprGen` | how an expression becomes nodes | `IRTypes`, `Algebra` |
| `CMachine` | what C promises of expression statements (abstract) | `IRTypes` |
| `Expressions` | the generator on one translation unit, then LLVM running its nodes | `ExprGen`, instantiates `CMachine` |
| `MCExpressions` | the translation units `Expressions` is checked with | `Expressions` |

A configuration gives constants their values and replaces nothing; `MCOptimizer`,
`MCExpressions` and `MCParser` define the larger ones (`Jobs <- UnitJobs`).

### `IRGenerator`, `IRFlow`

The C++ call stack is the variable `frames`: `InsertIfStatement` is the code of
the handler up to the nested statement, `EndThen` and `EndIf` what follows it.
The elements of the tree arrive one at a time and are remembered in `ast`. `sel`
is `selectedBlock` (`NoBlock` for null), `controls` is `activeControls`, `scopes`
the variables stack, `dangling` the gotos waiting for a label. Helpers keep the
code's steps in their order (`Fresh`, `JumpTo`, `BranchTo`, `Select`). An
expression is kept as its shape: a constant (no node), one node, `&&`, `||`,
`?:`, and a `?:` with a branching arm. A new label may be refused like one that exists:
`insertLabeledStatement` reads what `lower_bound` returns without asking whether it
is the end of the map (`generator.cpp:644`). `fellOff` and `orphans` are history, the
two kinds of block `insertSwitchStatement` abandons, so that `BlocksAccounted`
can say that there are no others.

`IRFlow` reads a finished function twice, as the successor relation of C over
the elements of `ast` (`Step`) and as the graph, reduces both to "after
expression m, on outcome true or false, expression n comes next", and compares.
Expressions leave their index in the graph, which makes the comparison exact.

### `Preprocessor`, `Conditionals`

A step handles one line of the file being read, kept as its kind and argument: a
turn of the loop of `processFile`, or a part of one where a comment, a character
literal or a quoted argument goes on over the end of the line (`status` is then
`"comment"`, `"literal"` or `"argument"`). What the code counts differs: a comment
counts its line feeds, `passChar` writes a raw one it takes for its character and
counts nothing (the line is `"cut"` in `out`), `getStringArg` swallows those in the
argument of a `#warning` and counts nothing either. Files are unknown until read,
and read the same way again. `out` remembers, for each line written, the place it
came from; `warps` is `LinesWarpMap::ldata`. An exception is `status`: `"error"`
for a message to the user, `"internal"` for the exception of `appendWarpLoc`,
`"undefined"` where the code reads the top of an empty stack or (`'\x`) past the end
of the file, after which nothing is claimed.

`getLoc` compares the line with the entry `lower_bound` gives before it looks
whether there is one (`parsing_context.cpp:143`), so for every line past the last
entry it reads what stands behind the vector. In the model that is `behind`, any
record over `Memory` and `Files`; the theorem is for any set `Memory` of integers. The
read only misleads when the position found there equals the line (`Misread`). That
the read does not stop the program is assumed.

Not modelled: file names of `#include` and `#line` that run over a line feed, the
escape `\x` taking line feeds for its digits, and an unknown directive of a dropped
group whose unread argument begins with `#`.

`Conditionals` is the abstract specification: a stack of groups and the lines
passed on. `AbstractGroups` maps to it the code's stack, of which only the
innermost group can be a dropped one, followed by the `nestCntr` groups met
inside a dropped one, which have no status at all.

### `GraphInfo`

`path` is the recursion of `dfs`; after it a step is a turn of the loop of
`dominators` or a whole pass. `Semidominator` takes the predecessors of a block
in any order (in the code, the order in which arcs were linked) and passes the
forest through `LookAt`, `Link` and `Decide`, each with the path compression
`findMin` does. A predecessor that `dfs` did not meet ends in `"failed"`, the
`std::out_of_range` of `utilNodes.at`. `FindLoops` keeps the heads found before
an improper arc, as the code does. The reference definitions (`Dominates`,
`EarliestInto`, `Connected`) are closures over the graph and share nothing with
the algorithm.

### `FunctionIR`, the passes, `Optimizer`

A function is a record: entry, counters, and for each block its phis, body,
terminator, `prev` and `next`, the last two kept apart as in the code, so that a
pass can leave them disagreeing. Numbers are unsigned and have two bits. A pass is
an operator that does what the class does from its constructor to `moveCfg`, the
clean-ups it calls included and in their order; where the code would dereference
nothing or throw, the function becomes failed (`Fail`). Dominators and loops are
computed from their definitions: that the code's algorithms agree with these is
what `GraphInfo` is for, and what `GraphInfo_proofs` proves.

`Optimizer` takes a translation unit, a level (`-O0` to `-O2`) and whether `--s1`
is given, and runs one pass per step in the order of `optimizeFunction`, its three
bounded loops included (`stage`, `round`, and whether a pass of the round changed
anything). Its invariants are stated after every pass, not only at the end.
`SameBehaviour` runs the function, before and after, for every answer of the
environment: which external calls happen with which arguments, and what is
returned.

### `Algebra`, `Arithmetic`

A constant carries the C++ type its `std::variant` holds beside its IR type, since
`foldOper` computes in the former. `Arithmetic` generates three nodes (a variable
or constant, an operation on it, a comparison, remainder or cast of the result),
folding as `emitNode` does, and then lets copies be propagated, constants folded
and rules applied in any order, which includes the order of the passes. `Run`
computes what LLVM will for one input; `RewritingKeepsValue` compares it over all
inputs. `KnownWrong` names the nodes for which it does not hold, each at its line.

### `Grammar` to `Parser`

Bison's tables are not transcribed: `Automaton` makes the states from the
productions. A state is its kernel (the set of items before closure), the
default reduction and the gotos follow from it, and the states reached are, one
for one, the 387 of `yy_parser.cpp`, with its defaults. `Parser` has an action for
each turn of the loop of `yy::parser::parse`: `ReadToken`, `Shift`, `ReduceAtOnce`
(a state with one reduction and no shift reads no token), `ReduceOnToken`,
`SyntaxError`, `Accept`. An error is thrown out of the parser by `CoreDriver`, so
there is no recovery to model. Before the first reduction a token causes, the parser
tries whether the token can be shifted in the end (`Viable`, Bison's lookahead
correction); that it then never meets a state which can do nothing with the token is
what the deadlock check of `PARSE` shows.

The value of a symbol is a node: class, tag, flags and children. `Action` is the
switch of semantic actions, in the order of the grammar. `TreeShape` says for each
class which children it has, and for each symbol which classes its value has;
`TypeOK` holds every value pushed against both. A lexeme arrives cut; what the model
keeps of the lexer is what decides on the token: keywords, the table of typedefs,
punctuators and the suffixes of literals, read letter by letter as the code does.

`CText` goes the other way, from a tree to its text, by the rules of C: brackets from
the precedence of the operators, declarators around the name, and the role of each
name. It knows nothing of the productions. `ParsedAsWritten` says that parsing gives
the tree back, up to brackets around expressions, for the texts that are C as the
front end means to take it (`Plain`). An empty text is refused before the parser is
called, so no program is empty.

### `CSyntax` to `Expressions`

`ExprGen` follows the recursion of `evalExpr`, `doAssignment` and `doAddrOf`; the
state of the generator is passed along as a record, and an exception leaves its
reason in it and skips what follows. The order in which the two operands of a
binary operator are evaluated is the choice of the compiler that builds the
program (`leftFirst`). `Expressions` generates a unit declaration by declaration
and statement by statement; then `CreateGlobals` lays out the globals, and each
node runs as the instruction the back end makes of it, on a memory of addressed
cells with LLVM's alignment and padding. An access that hits no object of its size,
an uninitialised read or an undefined operation sets `fault`.

`CMachine` is the abstract specification: a store with a tree of values for each
variable, pointers that name an object instead of an address, and a statement
executed at once by the rules of C99, with a choice wherever C leaves the order
open. `ActsAsC` says that `Expressions` implements it; between two statements the
memory, decoded, is its store. `DeclaredAsC` states declarators the other way
round from the code, from use to type.

## Runs

Times are for two workers, with coverage. All runs but `PARSE` turn the deadlock check off: a
function whose text has reached the bound, a preprocessor that is done, an analysis
that has its answer, a unit that is compiled or a program that has run really stop.

| Run | Distinct states | Bounds | Shows |
|---|---|---|---|
| `IR_all` | 1.07 million, 122 s | 4 statements of any of 15 kinds, 2 deep, 2 functions, 2 labels, 1 case value | `TypeOK`, `ControlsMatchFrames`, `FlowMatchesC`, `BlocksAccounted`, `ScopesBalanced`, `SealedStaysSealed` for if, loops, switch, jumps and labels |
| `IR_scopes` | 609 000, 75 s | 4 statements, 2 deep | `SelectedOpen`, `AllocDominatesUse`, `DeclaredOutsideLoops` with declarations and branching expressions |
| `IR_switch_end` | | | refutes `NoUnterminatedBlock` |
| `PP_all` | 575 000, 55 s | 4 lines in 3 names, includes 2 deep | `TypeOK`, `SkipExplained`, `LineTracksSource`, `AlignedOutput`, `LocNearby`, `RefusedAtSeams`, `Terminates` for every kind of line |
| `PP_groups` | 930 000, 20 s | 7 lines, 2 files | `KeepsGroups`, the refinement of `Conditionals` |
| `GI_loops` | 996 000, 158 s | all graphs of 4 blocks and 7 arcs; 6 blocks in a line and 8 arcs | `TypeOK`, `SemiCorrect`, `DomCorrect`, `ImproperIffIrreducible`, `LoopsNatural`, `LoopsNest`, `OuterEncloses` |
| `ARITH` | 148 000, 91 s | widths 2, 3, 4 for 8, 32, 64; 10 operations, every input | `TypeOK`, `RewritingKeepsValue`, `Settles` |
| `ARITH_power` | | | refutes `MulByPowerOf2` |
| `OPT_all` | 313 000, 139 s | 16 shapes of graphs, statements in at most 2 blocks, 2 functions; `-O0` to `-O2`, `--s1` | `TypeOK`, `ArcsAgree`, `SSAForm`, `NothingFails`, `SameBehaviour`, `Converges` after every pass |
| `OPT_siblings` | | | refutes `Verified` |
| `EXPR` | 190 000, 53 s | widths 2, 8, 16 for 8, 32, 64; 43 statements two at a time, 2016 declarations | `TypeOK`, `LegalCode`, `DeclaredAsC`, `ActsAsC` |
| `PARSE` | 450 000, 61 s | 5940 programs | `TypeOK`, `ParsedAsWritten`, `LookaheadFresh`, no deadlock |

### Bounds

*Generator.* A statement handler touches the block before it, its own and the one
after; two nested statements give every pair of handlers with a jump across both,
and two more leave room for code before, inside or after. Two functions are
needed for what one leaves to the next.

*Parser.* The programs hold every operator alone and one of each level inside and
beside every other, every form of statement inside two others, declarators and type
names two deep, every specifier, initializers with designators, and
every pair of seventeen items that declare, use or shadow a typedef name, with a
typedef before them. A deeper text repeats pairs of productions that are met
already: the parser sees no more of it than its stack top and one token. What `Plain`
leaves out is in the programs, but nothing is said of its tree: `long long`
literals (the suffix of `1ll` is refused), a second storage class (refused
with an exception), and a name declared anew where a typedef of that name is known
(the table has no scopes, so it stays a type to the end of the file).

*Preprocessor.* Three nested groups, closed again, and a line inside take seven
lines; a file that includes another between lines of its own takes four, and so does
a literal, comment or argument that goes on over two line feeds with a line of text
behind it. `Memory = {3}` lets the leftover behind the map stand at a line that was
written, before or behind the one asked for.

*Graphs.* With four blocks there are irreducible graphs, three nested loops (the
entry may be a head), two ends of one loop, unreachable predecessors and every order
of ids. A path compressed twice needs six, hence the graphs that have a line of six
as their tree: with four, a `findMin` that loses labels goes unnoticed.

*Arithmetic.* The three widths keep what the code distinguishes: each type is a
different number of bits, the narrow one is promoted to the middle one, and the
wide one does not fit it. Larger widths add values and no case. In `EXPR` a long
must hold an address, so there they are 2, 8 and 16.

*Passes.* The shapes are what structured C gives up to two branches or loops, with
the entry before them; two blocks with a statement each are enough for one to
feed, dominate or exclude the other. `MaxIter` and `MaxIter2` are 3 (the code has
20 and 10): every job reaches its fixpoint in three rounds, which is `Converges`
and why the larger bounds would add no state. `Fuel`, 60 blocks and calls of a run,
bounds what `SameBehaviour` compares; a run that uses it up is compared as far as
it went.

*What the jobs leave out, because the code fails there.* In `OPT_all`: a computation
repeated in two blocks of which none dominates the other (finding `OPT_siblings`);
a variable whose address was taken, in a loop (`LoopInvMover` moves its loads and
stores); inline functions that call themselves other than at their end; empty nested
ifs on a loaded condition, and a tail call whose argument nobody uses (an empty node
is left to a pass that dereferences it); a `continue` in a branch at `-O2`
(`removeUselessBranches` leaves a predecessor twice, and `LoopInvMover` refuses the
loop); useless `do` loops with `--s1`. In `EXPR`: effects in the target of a
compound or field assignment (it is evaluated twice), a value narrower or wider than
the field stored through `->`, arguments wider than their parameter, negative
indices, structures whose size `getBytesSize` gets wrong, `p++` and comparisons of
pointers, arrays as fields, `&a[i]` and `&s.f` (refused). Each is in
`PROJECT.json` at its line.

Each property of a passing run has a mutant in the module, marked as such beside
the definition it replaces: a plausible slip in that code which the run refutes.

### Fairness

Two properties need any. `Terminates`: `FairSpec` of `Preprocessor` is
`WF_vars(Next)`, since the loop of `processFile` is sequential code that runs on
until it ends; nothing is assumed of the choice between kinds of line. `Settles`:
`Spec` of `Arithmetic` has `WF_vars(Next)`, since `optimizeFunction` runs its passes
again as long as one of them changed something; nothing is assumed of which. All
else is safety, also `Converges`, which says that the loops of `optimizeFunction`
end before their bound.

### Refinements

`KeepsGroups`: `Preprocessor` implements `Conditionals`. `ActsAsC`: `Expressions`
implements `CMachine`. `FlowMatchesC`, `SameBehaviour` and `RewritingKeepsValue`
state the same of a finished object: the graph against the text, the function
against what it was, the nodes against what they were.

### What the failing runs show

* `IR_switch_end`: a `switch` whose body ends without `break` links its last
  block to the exit and does not terminate it (`generator.cpp:443`); the back
  end refuses the block (`ir_2_llvm.cpp:438`). The same property fails for a
  `?:` with an arm that branches (`Exprs = {"condAnd"}`; `expr_gen.cpp:380`) and
  for a `for` loop whose last action does (`LastActs = {"and"}`;
  `generator.cpp:521`): the arm's or action's block is terminated before the
  expression is evaluated.
* `ARITH_power`: `2 * x` becomes `x << 1`; the same rule then looks at the second
  argument, by now the logarithm 1, which is a power of two as well, and the node
  ends as `x << 0` (`algebraic_transformer.cpp:134`).
* `OPT_siblings`: `CommonSubexprElim` reuses a computation of a block that does not
  dominate the use (`common_subexpr_elim.cpp:17`). LLVM's verifier notices, which is
  printed and does not stop the compiler.

Other disagreements are stated by a property that describes what the code does:
`RefusedAtSeams` (an included file that is empty, or ends in an `#include`, makes
the map refuse a position); or are only noted with their hazard, such as `#ifndef`
that keeps its group whatever the macro (`preprocessor.cpp:449`) and the loop of a
single block that is never found (`graph_info.cpp:62`).

## Proofs

TLAPS checks the following for every value of the constants that the modules'
assumptions allow: files and programs of any length, any nesting, any number of
files, functions and labels, graphs of any size. `Straight` and `Structured` are
conditions on the program, explained below the table.

| Theorem | Statement |
|---|---|
| `IRGenerator_proofs!TypeCorrect` | `Spec => []TypeOK` |
| `IRGenerator_proofs!ControlsMatch` | `Spec => []ControlsMatchFrames` |
| `IRGenerator_blocks!SelectedIsOpen` | `Straight` implies `Spec => []SelectedOpen` |
| `IRGenerator_blocks!AllBlocksAccounted` | `Straight` implies `Spec => []BlocksAccounted` |
| `IRGenerator_blocks!FinishedForGood` | `Straight` implies `Spec => SealedStaysSealed` |
| `IRGenerator_blocks!ScopesAreBalanced` | `Spec => []ScopesBalanced` |
| `IRFlow_proofs!AllocationsOutsideLoops` | `Structured` implies `Spec => []DeclaredOutsideLoops` |
| `IRFlow_dominance!AllocationsDominate` | `Structured` implies `Spec => []AllocDominatesUse` |
| `Preprocessor_proofs!PreprocessorTypeCorrect` | `Spec => []TypeOK` |
| `Preprocessor_proofs!SkipIsExplained` | `Spec => []SkipExplained` |
| `Preprocessor_proofs!OutputAligned` | `Spec => []AlignedOutput` |
| `Preprocessor_proofs!Refinement` | `WellFormed` implies `Spec => KeepsGroups` |
| `Preprocessor_lines!LinesTracked` | `Spec => []LineTracksSource` |
| `Preprocessor_lines!RefusalsAreSeams` | `Spec => []RefusedAtSeams` |
| `Preprocessor_lines!LinesLocated` | `Spec => []LocNearby` |
| `GraphInfo_proofs!Types` | `Spec => []TypeOK` |
| `GraphInfo_proofs!Semidominators` | `Spec => []SemiCorrect` |
| `GraphInfo_proofs!Dominance` | `Spec => []DomCorrect` |
| `GraphInfo_proofs!GivesUpOnIrreducible` | `Spec => []ImproperIffIrreducible` |
| `GraphInfo_proofs!NaturalLoops` | `Spec => []LoopsNatural` |
| `GraphInfo_proofs!LoopsAreNested` | `Spec => []LoopsNest` |
| `GraphInfo_proofs!ParentsEnclose` | `Spec => []OuterEncloses` |
| `Arithmetic_proofs!ArithmeticTypeCorrect` | `Spec => []TypeOK` |
| `Arithmetic_proofs!RewritingIsSound` | `Spec => RewritingKeepsValue` |

**Generator, types and controls.** `TypeOK` is not inductive: that a block a handler resumes with
exists is known only from its frame. The invariant `TypeInv` adds
`FramesInRange` (the blocks a frame holds are blocks of the graph), `Nested`
(frames and controls correspond entry for entry, defined on sequences so that
pushing and popping are lemmas) and `ModeShowsFrame` (no frame is left and the
tables are empty between functions, and while a switch tests its cases its frame
is the top one and a block is selected). The graph only grows, so `CarryOver` moves everything about old blocks
to the new graph, and each action has a lemma of its own. `ControlsMatchFrames`
follows from `Nested`.

**Generator, blocks.** `BlockInv` says of every block without a terminator who
will finish it: it is the selected one, or a frame holds it, or a label or a goto
waits for it, or it is one of the two kinds that `insertSwitchStatement` abandons
(`Accounted`); that no two of these hold the same block (`Apart`), since a block
held twice would be finished twice; and that a goto waits once (`WaitOnce`). `Straight` says that no `?:` has a branching
arm and no last action of a `for` branches. It is what the code needs:
`evalTernaryExpr` terminates the blocks of both arms, and `insertLoopStatement` that
of the last action, before the expression in them is evaluated, and an expression that branches then
goes on in a block nobody terminates (see the failing runs). Both `IR_all` and
`IR_scopes` run `Straight` programs. `SealedStaysSealed` is about the terminator and the
successors of a finished block; its body still gets the allocations that
`insertDeclaration` moves before a loop (`generator.cpp:312`), which is what
`AllocDominatesUse` is for.

**Generator, scopes.** `ScopeInv` gives the depth of the stack of scopes in every state: the
globals and two of the function, one for each frame and one more for each `for`, whose handler opens
a scope for its first part, and none for a switch that is testing its cases. It
needs no assumption: `break`, `continue` and `goto` leave the scopes to the
handlers they jump out of.

**Generator, paths.** The two properties of `IRFlow` about declarations are about paths of
the finished graph, and a path is a recursion. The proofs avoid it: a set that no arc leaves
contains everything reached from it (`ReachInside`, by induction on the rounds). For
`DeclaredOutsideLoops`, `DeclInv` keeps for each block with an allocation such a set, the
blocks made after it that cannot come back. For `AllocDominatesUse`, `DomInv`
keeps for each allocating block `h` a set with the entry whose arcs leave only into
`h` and in which no variable of `h` is used. While functions are walked the set
is chosen in one of two ways. As long as the handler that selected `h` is active (`Inside`), the
handlers from some frame on hold only blocks outside the set, those before hold only
blocks of it, and variables of `h` are in the scopes of the inner handlers only; later (`Outside`) no variable
of `h` is in a scope any more and everything known is in the set. `Structured`
excludes `goto` and `switch` (besides what `Straight` excludes): with them the property is false, as
a jump may enter a scope behind the declaration. `IR_scopes` runs `Structured` programs.

**Preprocessor, groups.** The invariant is `TypeOK /\ SkipExplained /\ AlignedOutput`,
which is inductive (`AlignedOutput` counts the lines of `out` that are not cut, since
`globalLine` does): `directiveElse` decides from the top of the stack alone, and
only because nothing below the top can be a dropped group does `#endif` resetting
`isSkip` to FALSE restore the state of the group around. For the refinement,
`isSkip` is false exactly when every abstract group is kept; each line then maps
to a step of `Conditionals` or a stutter: text by the flag, `#ifdef` in a dropped
group to the opening of a dead one, `#include` to a blank line, because under
`WellFormed` no group is open there. A line that goes on in a comment, literal or
argument does so only in kept text (`WholeLines`), so that what it gives is text or
blank. `WellFormed` (balanced groups, no include inside a group) is needed:
`#include` clears the stack, and an unmatched `#else` is undefined.

**Preprocessor, lines.** `LineTracksSource` bounds the number kept for a file from
both sides, by the line feeds literals and arguments can have taken (`Lost`: the lines
behind which one can be open) and the unknown directives (`Doubled`). The lower bound
needs that a literal or argument that is open was opened by a line of that file
and not ended since (`ArgumentOpen`). `LineInv` ties four counters together: no record of the map is ahead of
`globalLine`; a file that waits stands at its `#include`; in an included file the last record is at the
present line only at its start or behind an `#include` or `#line`, the seams at which
another record is refused; and, while includes are one deep, it foretells the number of the next line, one too few at times. A shown line is located by the record that was
the last one when it was written, and later records are for later lines. This is so up to
the first cut line, from which on the output is ahead of the map. `getLoc` finds that
record because positions ascend (`WarpsAscend`), whatever stands behind the last,
`Misread` apart.

**Graph analyses.** All seven properties of `GraphInfo` are proved, for every finite
graph: the code's version of the algorithm of Lengauer and Tarjan, and `LoopsDetector`
on top of it. One invariant, `IInv`, carries all of them, phase by phase.

* `WalkInv`: what `dfs` met is on the path or finished, the path is in the order of the
  calls, and the times of two blocks never cross. Once `dfs` is over, `Anc`, defined
  by the times, is therefore the ancestry of a tree, and an arc that goes forward in
  time goes down it (`ArcsInTree`). `ArcInv` adds which arcs have a class already; in
  the end an arc is `BACK` exactly when it leads to a proper ancestor.
* The mathematics needs no state. What a block reaches by later blocks is below it
  (`StartAbove`), and a way around an ancestor comes in again at a block in between
  (`WayAround`); from these follow the two rules by which a semidominator tells the
  immediate dominator (`SemiDominates`, `DominatedAlike`). Reachability, a
  recursion by rounds in the reference definitions, is replaced by the least closed set
  (`ReachFromIs`), over which one can argue without induction over paths.
* `Linked` describes the forest of `findMin` whatever has been compressed so far: the
  label of a block has the least semidominator on the stretch up to its ancestor
  in the forest. `Compress`, `Link`, `LookAt` and `Decide` keep it
  (`CompressKeeps`, `LinkKeeps`, `LookAtKeeps`, `DecideKeeps`). `SemiInv`, the
  invariant of the descending loop, adds what waits in the buckets: a block
  passed waits at its semidominator until the child above it is linked, or is decided
  (`Buckets`), so that nothing is left undecided when the ascending loop, whose
  turns `PassKeeps` takes one by one, relies on it.
* `DomTree` is what `isDom` relies on. `Body` is the loop of a head as the least set that leads
  to its ends; `traverseLoopBranch` finds it (`BodyOfIs`). That a cycle has its loop
  (`LoopAround`) and that an improper arc is on a cycle with two entries
  (`ImproperCycle`) are argued at the earliest block of the cycle.

The only assumption is that the sets of ids are finite sets of natural numbers. A
graph in which a block that the entry does not reach has an arc to one that it reaches
ends in `"failed"`, and of it the theorems say the types only, and the semidominators
found until then. TLC can evaluate `IInv` too: as the invariant of
`GraphInfo_proofs` it holds on all graphs of 3 blocks and 6 arcs and of 5 blocks in a
line and 7 arcs.

**Arithmetic, types.** Every rule and fold gives a node whose arguments and result have types
of the module again, for every width.

**Arithmetic, values.** `RewritingIsSound` is proved from numbers up. The library has
no facts about powers, remainders and shifts, so they come first: `2 ^ n` from the
subsets of a set of `n` elements, division with remainder (`Division`), casts
(`CastFacts`: a cast is congruent to its argument modulo the size of the type), and bitwise operations
as sums of powers (`AndWithMask`, `XorWithItself`). Each rule then *keeps* its node: from any registers
that hold bits of their types the new node computes what the old one did, wherever the
old one computed a number (`Keeps`; one lemma per rule, and `FoldKeeps` for the
folder). At most one rule changes a node (`ProcessNodeIs`), which is why the rules may be
taken one by one although each sees what the one before left. From nodes to programs: a node reads
only registers before it (`NodeLocal`), so a program of kept nodes computes what it did
(`NodesKeepRun`), and a register may be replaced by what its node copies
(`ReplacedKeepRun`). The invariant `ValueInv` adds to the types that constants are numbers
and that no cast is to `i1`, which the folder has no case for. The disjuncts of `KnownWrong` are the
hypotheses of the lemmas, one by one: `OddConstant` of all of them, `LeftPower`,
`SignedPower` and `WideMask` of the rule each is named after, `NarrowFold` and
`UnsignedCast` of folding. `ArithmeticAssumption` says that literals are natural
numbers, as the lexer makes them; minus is an operator.

Recursive functions are reasoned about by their recursion law and induction over
sets of numbers (`NatSetInduction`), which needs no operator parameter.

Only model-checked: the liveness properties `Terminates` and `Settles`;
`FlowMatchesC`, which compares two closures, one of them over the syntax; and
`Optimizer`, `Expressions` and `Parser`, which reach RECURSIVE operators (walks
over graphs, trees, types and stacks) and would need induction over data.

## Not modelled, and why

* How a text is cut into lexemes, the values of literals, locations, messages, the
  memory of nodes, and the printing of trees and graphs: character work, or output
  without state. Of the repository's 29 800 lines, 11 800 are the generated scanner
  and parser and 4 700 the bundled `cxxopts` and `subprocess`; of the generated code
  the parser's loop and its actions are modelled, not its boilerplate. The model
  covers a third of all lines, and nearly all of the code between the text and LLVM.
* The text a macro expands to, the pasting of strings and numbers, quoted
  arguments that run over the end of their line: no property is about the
  characters.
* Behind the parser: floating point, string literals, `__func__`, enumerations, unions, qualifiers,
  variadic functions, and the linkage of globals and functions. Floating-point casts
  are chosen (`CastOp`) but no such value is computed.
* `&&`, `||` and `?:` inside the programs of `Expressions`: they make blocks, and are
  in `IRGenerator` with their control flow. The expressions of a pass's jobs are
  whatever the two modules agree on: loads, stores, calls and arithmetic.
* `goto` past a declaration: the allocation may then not dominate a use, which is
  a property of the program, not of the handlers; `AllocDominatesUse` is checked
  on programs without `goto` and `switch`.
* Options, output files and the call of `llc` (`cli_args.cpp`, the end of
  `main.cpp`): no state that lasts. LLVM is external: its instructions, its verifier
  and its layout are modelled as far as the code relies on them.

## Plan

Done: the preprocessor against `Conditionals`, the parser from token to tree, the
generator's statements and expressions, types and constants, the analyses, the
clean-ups, SSA construction, every pass, the order they run in, and the back end.

Left to model: `switch` and `?:` in the jobs of `Optimizer`, declarations with
linkage (a prototype followed by its definition is refused, repeated globals share
one LLVM variable), and the cutting of a text into lexemes.
