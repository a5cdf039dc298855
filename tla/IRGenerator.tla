----------------------------- MODULE IRGenerator -----------------------------
(***************************************************************************)
(* IR_Generator (ir/generator.cpp, ir/expr_gen.cpp): the walk over a       *)
(* function's syntax tree that builds its control flow graph.              *)
(*                                                                         *)
(* The C++ code is recursive; here its call stack is the variable frames   *)
(* and the syntax tree arrives one element at a time.  A handler with      *)
(* nested statements is an action up to the recursive call and another     *)
(* action after it: InsertIfStatement, then EndThen, EndElse.  The element *)
(* that comes next is chosen freely among those a C parser would let       *)
(* through, so the behaviours are those of every program up to the bounds. *)
(*                                                                         *)
(* A labelled statement is the label followed by its statement, and a body *)
(* that is a single statement is a block of one statement.                 *)
(***************************************************************************)
EXTENDS CFGraph, SequencesExt

CONSTANTS
    Kinds,      \* the kinds of element the program is built from
    Exprs,      \* the shapes of its expressions
    LastActs,   \* the shapes of the last action of a for loop
    Labels,     \* the names of its labels
    Vals,       \* the values of its case labels
    MaxSize,    \* bound: no element is opened once the text is this long
    MaxDepth,   \* bound: nested statements
    MaxFuncs    \* bound: functions in the translation unit

AllKinds == {"expr", "decl", "use", "if", "ifelse", "while", "do", "for",
             "switch", "badswitch", "break", "continue", "goto", "return",
             "compound", "label", "case", "default"}

(* "const" emits nothing (it is folded), "plain" emits one node; the others *)
(* branch: &&, ||, ?: and a ?: whose true arm is itself an &&.              *)
AllExprs == {"const", "plain", "and", "or", "cond", "condAnd"}

ASSUME KindsAssumption == Kinds \subseteq AllKinds
ASSUME ExprsAssumption == Exprs \subseteq AllExprs /\ LastActs \subseteq AllExprs
ASSUME BoundsAssumption == MaxSize \in Nat /\ MaxDepth \in Nat /\ MaxFuncs \in Nat

VARIABLES
    mode,      \* where createFunction is
    fn,        \* the function's signature: returns void, has parameters
    funcs,     \* functions generated so far
    ast,       \* the elements of the body walked so far
    cfg,       \* curFunc->cfg
    sel,       \* selectedBlock
    controls,  \* activeControls
    frames,    \* the nested calls of the statement handlers
    scopes,    \* VariablesStack: per level the declarations in scope
    labels,    \* labels, NoBlock where a label is not in the map
    dangling,  \* danglingGotos
    fellOff,   \* history: blocks that left a switch by its closing brace
    orphans    \* history: exits of switches nothing leaves

vars == <<mode, fn, funcs, ast, cfg, sel, controls, frames, scopes, labels,
          dangling, fellOff, orphans>>

history == <<fellOff, orphans>>

Modes == {"idle", "body", "dispatch", "resolve", "error"}

(* LoopBlocks and SwitchBlocks; the fields a kind lacks stay at NoBlock. *)
Control == [kind : {"loop", "switch"}, exit : Ids, skip : Ids, before : Ids,
            labels : Seq([val : Vals, block : Ids]), default : Ids]

(***************************************************************************)
(* The local variables of an interrupted handler; done counts the cases a  *)
(* switch has tested, and depth (history) is the size of activeControls    *)
(* while the nested statement is walked.                                   *)
(***************************************************************************)
FrameKinds == {"then", "else", "loop", "for", "switch", "dispatch", "compound"}
Breakable  == {"loop", "for", "switch", "dispatch"}

Frame == [kind : FrameKinds, blockFalse : Ids, blockAfter : Ids, entry : Ids,
          done : Nat, depth : Nat]

(* An element and the shape of its expression, its label or its value. *)
ElementKinds == AllKinds \cup {"else", "endif", "endloop", "endswitch",
                                "endcompound", "init", "act"}
Args == AllExprs \cup Labels \cup Vals \cup {"", "none"}

Element == [kind : ElementKinds, arg : Args]

TypeOK ==
    /\ mode \in Modes
    /\ fn \in [void : BOOLEAN, params : BOOLEAN]
    /\ funcs \in Nat
    /\ ast \in Seq(Element)
    /\ cfg \in Graph
    /\ sel \in {NoBlock} \cup DOMAIN cfg
    /\ controls \in Seq(Control)
    /\ frames \in Seq(Frame)
    /\ scopes \in Seq(SUBSET Nat)
    /\ labels \in [Labels -> {NoBlock} \cup DOMAIN cfg]
    /\ dangling \in Seq([block : DOMAIN cfg, label : Labels])
    /\ fellOff \subseteq DOMAIN cfg
    /\ orphans \subseteq DOMAIN cfg

Init ==
    /\ mode = "idle"
    /\ fn = [void |-> TRUE, params |-> FALSE]
    /\ funcs = 0
    /\ ast = <<>>
    /\ cfg = <<>>
    /\ sel = NoBlock
    /\ controls = <<>>
    /\ frames = <<>>
    /\ scopes = <<{}>>
    /\ labels = [l \in Labels |-> NoBlock]
    /\ dangling = <<>>
    /\ fellOff = {}
    /\ orphans = {}

-----------------------------------------------------------------------------
(* Emission: a position is a graph and the selected block in it. *)

Emit(s, op, i)   == [g |-> AddNode(s.g, s.at, op, i), at |-> s.at]
Select(s, b)     == [g |-> s.g, at |-> b]
Fresh(s)         == [g |-> CreateBlock(s.g), at |-> s.at]
(* Slip: the arc without its terminator. *)
JumpUnterminated(s, b) == [g |-> LinkBlocks(s.g, s.at, b), at |-> s.at]
JumpTo(s, b)     == [g |-> SetTerminator(LinkBlocks(s.g, s.at, b), s.at, "JUMP"),
                     at |-> s.at]
BranchTo(s, a, b) ==
    [g |-> SetTerminator(LinkBlocks(LinkBlocks(s.g, s.at, a), s.at, b), s.at, "BRANCH"),
     at |-> s.at]

(* doShortLogicOp: the right operand is evaluated in a block of its own,    *)
(* the value passes through a temporary allocated where the left one was.   *)
ShortLogicArms(op, s, i) ==
    LET long  == NewId(s.g)
        after == long + 1
        lhs   == Fresh(Fresh(Emit(Emit(s, "op", i), "tmp", i)))
        fork  == IF op = "and" THEN BranchTo(lhs, long, after)
                               ELSE BranchTo(lhs, after, long)
    IN  JumpTo(Emit(Select(fork, long), "op", i), after)

ShortLogicStays(op, s, i) == ShortLogicArms(op, s, i)  \* slip: no selectBlock(blockAfter)
ShortLogic(op, s, i) ==
    Emit(Select(ShortLogicArms(op, s, i), NewId(s.g) + 1), "op", i)

(* evalTernaryExpr: both arms are terminated and linked before they are     *)
(* evaluated, and the value of each is stored in the arm's first block.     *)
Ternary(isNested, s, i) ==
    LET true  == NewId(s.g)
        false == true + 1
        after == true + 2
        fork  == BranchTo(Fresh(Fresh(Fresh(Emit(s, "op", i)))), true, false)
        arms  == JumpTo(Select(JumpTo(Select(fork, true), after), false), after)
        vtrue == IF isNested THEN ShortLogic("and", Select(arms, true), i)
                             ELSE Emit(Select(arms, true), "op", i)
        tmp   == Emit(Select(vtrue, s.at), "tmp", i)
        store == Emit(Select(tmp, true), "op", i)
    IN  Emit(Select(Emit(Select(store, false), "op", i), after), "op", i)

(* evalExpr of an expression of shape e. *)
Eval(e, s, i) ==
    CASE e = "const"   -> s
      [] e = "plain"   -> Emit(s, "op", i)
      [] e = "and"     -> ShortLogic("and", s, i)
      [] e = "or"      -> ShortLogic("or", s, i)
      [] e = "cond"    -> Ternary(FALSE, s, i)
      [] e = "condAnd" -> Ternary(TRUE, s, i)

-----------------------------------------------------------------------------
(* The stacks. *)

IsLoop(c) == c.kind = "loop"
LoopsOf   == {k \in DOMAIN controls : IsLoop(controls[k])}
Switches  == DOMAIN controls \ LoopsOf

(* Slips: the search starts at the wrong end of the deque; an allocation    *)
(* stays where the declaration is.                                          *)
OutermostLoop   == CHOOSE k \in LoopsOf : \A j \in LoopsOf : k <= j
AllocInPlace(b) == b

(* getNearestLoop, getNearestSwitch, and the block getTopmostLoop sends the *)
(* allocation of a variable to: the one before the outermost loop.          *)
NearestLoop   == CHOOSE k \in LoopsOf : \A j \in LoopsOf : j <= k
NearestSwitch == CHOOSE k \in Switches : \A j \in Switches : j <= k
AllocBlock(b) ==
    IF LoopsOf = {} THEN b
    ELSE controls[CHOOSE k \in LoopsOf : \A j \in LoopsOf : k <= j].before

(* Slips: the exit is the skip block, the block before is the skip block. *)
LoopControlNoExit(skip, exit, before) ==
    [kind |-> "loop", exit |-> skip, skip |-> skip, before |-> before,
     labels |-> <<>>, default |-> NoBlock]
LoopControlNoBefore(skip, exit, before) ==
    [kind |-> "loop", exit |-> exit, skip |-> skip, before |-> skip,
     labels |-> <<>>, default |-> NoBlock]
LoopControl(skip, exit, before) ==
    [kind |-> "loop", exit |-> exit, skip |-> skip, before |-> before,
     labels |-> <<>>, default |-> NoBlock]
SwitchControl(exit) ==
    [kind |-> "switch", exit |-> exit, skip |-> NoBlock, before |-> NoBlock,
     labels |-> <<>>, default |-> NoBlock]

MkFrame(kind, false, after, entry) ==
    [kind |-> kind, blockFalse |-> false, blockAfter |-> after, entry |-> entry,
     done |-> 0, depth |-> Len(controls) + (IF kind \in Breakable THEN 1 ELSE 0)]

Top == Last(frames)
InFrame(kinds) == mode = "body" /\ frames # <<>> /\ Top.kind \in kinds

(* fillBlock: code after a jump gets a block of its own. *)
Ready ==
    IF sel = NoBlock THEN [g |-> CreateBlock(cfg), at |-> NewId(cfg)]
                     ELSE [g |-> cfg, at |-> sel]

Here == Len(ast) + 1

Walk(kind, arg) == ast' = Append(ast, [kind |-> kind, arg |-> arg])

(* The next element of the current block is of this kind. *)
Opens(kind) == mode = "body" /\ kind \in Kinds /\ Len(ast) < MaxSize

(* ... and has nested statements. *)
Nests(kind) == Opens(kind) /\ Len(frames) < MaxDepth

(* selectedBlock and the graph after a handler. *)
At(s) == cfg' = s.g /\ sel' = s.at
KeepSelected(s) == cfg' = s.g /\ sel' = s.at  \* slip: deselectBlock forgotten
Deselect(s) == cfg' = s.g /\ sel' = NoBlock

(* semanticError: an exception nobody catches before main. *)
SemanticError == mode' = "error" /\ UNCHANGED <<fn, funcs, ast, cfg, sel, controls,
                     frames, scopes, labels, dangling, history>>

-----------------------------------------------------------------------------
(* createFunction up to fillBlock: parameters are allocated in the entry. *)
CreateFunction(void, params) ==
    LET entry == [g |-> CreateBlock(<<>>), at |-> 1]
    IN  /\ mode = "idle" /\ funcs < MaxFuncs
        /\ mode' = "body"
        /\ fn' = [void |-> void, params |-> params]
        /\ funcs' = funcs + 1
        /\ ast' = <<>>
        /\ At(IF params THEN Emit(Emit(entry, "alloca", 0), "use", 0) ELSE entry)
        /\ scopes' = scopes \o <<IF params THEN {0} ELSE {}, {}>>
        /\ fellOff' = {}
        /\ orphans' = {}
        /\ UNCHANGED <<controls, frames, labels, dangling>>

ExprStmt(e) ==
    /\ Opens("expr")
    /\ At(Eval(e, Ready, Here))
    /\ Walk("expr", e)
    /\ UNCHANGED <<mode, fn, funcs, controls, frames, scopes, labels, dangling, history>>

(* insertDeclaration of one variable; its initializer is stored into it. *)
Declare(e, s, i) ==
    LET allocated == [g |-> AddNode(s.g, AllocBlock(s.at), "alloca", i), at |-> s.at]
    IN  IF e = "none" THEN allocated ELSE Emit(Eval(e, allocated, i), "use", i)

Declared(i) == scopes' = [scopes EXCEPT ![Len(scopes)] = @ \cup {i}]

InsertDeclaration(e) ==
    /\ Opens("decl")
    /\ At(Declare(e, Ready, Here))
    /\ Declared(Here)
    /\ Walk("decl", e)
    /\ UNCHANGED <<mode, fn, funcs, controls, frames, labels, dangling, history>>

(* A load or a store of a variable that is in scope (VariablesStack::get). *)
UseVariable(v) ==
    /\ Opens("use")
    /\ \E k \in DOMAIN scopes : v \in scopes[k]
    /\ At(Emit(Ready, "use", v))
    /\ Walk("use", "")
    /\ UNCHANGED <<mode, fn, funcs, controls, frames, scopes, labels, dangling, history>>

-----------------------------------------------------------------------------
(* insertIfStatement: up to the true body, between the bodies, at the end. *)
InsertIfStatement(e, hasElse) ==
    LET cond  == Eval(e, Ready, Here)
        true  == NewId(cond.g)
        other == true + 1
        kind  == IF hasElse THEN "ifelse" ELSE "if"
    IN  /\ Nests(kind)
        /\ At(Select(BranchTo(Fresh(Fresh(cond)), true, other), true))
        /\ frames' = Append(frames, IF hasElse
                        THEN MkFrame("then", other, NoBlock, NoBlock)
                        ELSE MkFrame("then", NoBlock, other, NoBlock))
        /\ scopes' = Append(scopes, {})
        /\ Walk(kind, e)
        /\ UNCHANGED <<mode, fn, funcs, controls, labels, dangling, history>>

(* Slip: the block after is selected whether or not it was created. *)
JoinUncreated(after) ==
    LET to == IF after = NoBlock THEN NewId(cfg) ELSE after
    IN  IF sel = NoBlock THEN [g |-> cfg, at |-> to]
        ELSE Select(JumpTo([g |-> IF after = NoBlock THEN CreateBlock(cfg) ELSE cfg,
                            at |-> sel], to), to)

(* A body that did not end in a jump continues at the block after the if,  *)
(* which is created when the first body needs it.                          *)
JoinAfter(after) ==
    IF sel = NoBlock THEN [g |-> cfg, at |-> after]
    ELSE IF after = NoBlock
    THEN Select(JumpTo([g |-> CreateBlock(cfg), at |-> sel], NewId(cfg)), NewId(cfg))
    ELSE Select(JumpTo([g |-> cfg, at |-> sel], after), after)

EndThen ==
    LET join == JoinAfter(Top.blockAfter)
    IN  /\ InFrame({"then"}) /\ Top.blockFalse # NoBlock
        /\ At(Select(join, Top.blockFalse))
        /\ frames' = Append(Front(frames), MkFrame("else", NoBlock, join.at, NoBlock))
        /\ scopes' = Append(Front(scopes), {})
        /\ Walk("else", "")
        /\ UNCHANGED <<mode, fn, funcs, controls, labels, dangling, history>>

EndIf ==
    /\ InFrame({"then", "else"}) /\ Top.blockFalse = NoBlock
    /\ At(JoinAfter(Top.blockAfter))
    /\ frames' = Front(frames)
    /\ scopes' = Front(scopes)
    /\ Walk("endif", "")
    /\ UNCHANGED <<mode, fn, funcs, controls, labels, dangling, history>>

-----------------------------------------------------------------------------
(* insertLoopStatement up to the body.  An absent condition emits nothing,  *)
(* like a constant; only a for loop has an initializer and a last action.   *)
ForInits == {<<"none", "">>} \cup ({"expr", "decl"} \X Exprs)

InsertLoopStatement(kind, init, e, act) ==
    LET isFor  == kind = "for"
        condB  == NewId(Ready.g)
        body   == condB + 1
        after  == condB + 2
        blocks == Fresh(Fresh(Fresh(Ready)))
        pre    == CASE init[1] = "expr" -> Eval(init[2], blocks, Here)
                    [] init[1] = "decl" -> Declare(init[2], blocks, Here)
                    [] OTHER            -> blocks
        enter  == JumpTo(pre, IF kind = "do" THEN body ELSE condB)
        at     == IF isFor THEN Here + 1 ELSE Here
        cond   == BranchTo(Eval(e, Select(enter, condB), at), body, after)
        last   == NewId(cond.g)
        step   == Eval(act, Select(JumpTo(Select(Fresh(cond), last), condB), last), at + 1)
        hasAct == act # "none"
    IN  /\ Nests(kind)
        /\ At(Select(IF hasAct THEN step ELSE cond, body))
        /\ controls' = Append(controls,
                LoopControl(IF hasAct THEN last ELSE condB, after, Ready.at))
        /\ frames' = Append(frames,
                MkFrame(IF isFor THEN "for" ELSE "loop", NoBlock, after, NoBlock))
        /\ scopes' = IF ~isFor THEN Append(scopes, {})
                     ELSE scopes \o <<IF init[1] = "decl" THEN {Here} ELSE {}, {}>>
        /\ IF isFor THEN ast' = ast \o << [kind |-> "init", arg |-> init[2]],
                                          [kind |-> "for", arg |-> e],
                                          [kind |-> "act", arg |-> act] >>
                    ELSE Walk(kind, e)
        /\ UNCHANGED <<mode, fn, funcs, labels, dangling, history>>

(* A for loop has a scope for its initializer besides that of its body. *)
LeaveBodyOnly(kind) == Front(scopes)  \* slip: the scope of the initializer stays
LeaveLoop(kind)     == IF kind = "for" THEN Front(Front(scopes)) ELSE Front(scopes)

EndLoop ==
    /\ InFrame({"loop", "for"})
    /\ sel' = Top.blockAfter
    /\ cfg' = IF sel = NoBlock THEN cfg
              ELSE JumpTo([g |-> cfg, at |-> sel], Last(controls).skip).g
    /\ controls' = Front(controls)
    /\ frames' = Front(frames)
    /\ scopes' = LeaveLoop(Top.kind)
    /\ Walk("endloop", "")
    /\ UNCHANGED <<mode, fn, funcs, labels, dangling, history>>

-----------------------------------------------------------------------------
(* insertSwitchStatement up to the body, which starts in a block no arc     *)
(* leads to.                                                                *)
InsertSwitchStatement(e) ==
    LET value    == Eval(e, Ready, Here)
        switched == NewId(value.g)
        after    == switched + 1
    IN  /\ Nests("switch")
        /\ At(Select(Fresh(Fresh(value)), switched))
        /\ controls' = Append(controls, SwitchControl(after))
        /\ frames' = Append(frames, MkFrame("switch", NoBlock, after, value.at))
        /\ scopes' = Append(scopes, {})
        /\ Walk("switch", e)
        /\ UNCHANGED <<mode, fn, funcs, labels, dangling, history>>

(* ... its body ended: an open block is linked but gets no terminator, and *)
(* the tests of the cases start at the block the switch was met in.        *)
EndSwitch ==
    /\ InFrame({"switch"})
    /\ cfg' = IF sel = NoBlock THEN cfg ELSE LinkBlocks(cfg, sel, Top.blockAfter)
    /\ fellOff' = IF sel = NoBlock THEN fellOff ELSE fellOff \cup {sel}
    /\ sel' = Top.entry
    /\ mode' = "dispatch"
    /\ frames' = Append(Front(frames), [Top EXCEPT !.kind = "dispatch"])
    /\ scopes' = Front(scopes)
    /\ Walk("endswitch", "")
    /\ UNCHANGED <<fn, funcs, controls, labels, dangling, orphans>>

(* One turn of the loop over the collected labels (nearestSwitch). *)
Cases == controls[NearestSwitch].labels

DispatchCase ==
    LET k     == Top.done + 1
        test  == Fresh(Emit([g |-> cfg, at |-> sel], "op", 0))
        other == NewId(cfg)
    IN  /\ mode = "dispatch" /\ k <= Len(Cases)
        /\ IF \E j \in 1..(k - 1) : Cases[j].val = Cases[k].val
           THEN SemanticError
           ELSE /\ At(Select(BranchTo(test, Cases[k].block, other), other))
                /\ frames' = Append(Front(frames), [Top EXCEPT !.done = k])
                /\ UNCHANGED <<mode, fn, funcs, ast, controls, scopes, labels,
                               dangling, history>>

(* ... the last test leads to the default, or past the switch, and walking  *)
(* goes on after the switch when anything leads there.                      *)
DispatchDone ==
    LET default == controls[NearestSwitch].default
        final   == JumpTo([g |-> cfg, at |-> sel],
                          IF default # NoBlock THEN default ELSE Top.blockAfter)
    IN  /\ mode = "dispatch" /\ Top.done = Len(Cases)
        /\ mode' = "body"
        /\ cfg' = final.g
        /\ IF final.g[Top.blockAfter].prev # <<>>
           THEN sel' = Top.blockAfter /\ UNCHANGED orphans
           ELSE sel' = NoBlock /\ orphans' = orphans \cup {Top.blockAfter}
        /\ controls' = Front(controls)
        /\ frames' = Front(frames)
        /\ UNCHANGED <<fn, funcs, ast, scopes, labels, dangling, fellOff>>

(* A switch whose body is not a compound statement is refused. *)
BadSwitch == Opens("badswitch") /\ SemanticError

-----------------------------------------------------------------------------
(* insertJumpStatement *)
Return(e) ==
    /\ Opens("return")
    /\ LET value == Eval(e, Ready, Here)
       IN  Deselect([g |-> SetTerminator(value.g, value.at, "RET"), at |-> NoBlock])
    /\ Walk("return", e)
    /\ UNCHANGED <<mode, fn, funcs, controls, frames, scopes, labels, dangling, history>>

ReturnNothing ==
    /\ Opens("return")
    /\ IF ~fn.void THEN SemanticError
       ELSE /\ Deselect([g |-> SetTerminator(Ready.g, Ready.at, "RET"), at |-> NoBlock])
            /\ Walk("return", "none")
            /\ UNCHANGED <<mode, fn, funcs, controls, frames, scopes, labels, dangling, history>>

Break ==
    /\ Opens("break")
    /\ IF controls = <<>> THEN SemanticError
       ELSE /\ Deselect(JumpTo(Ready, Last(controls).exit))
            /\ Walk("break", "")
            /\ UNCHANGED <<mode, fn, funcs, controls, frames, scopes, labels, dangling, history>>

Continue ==
    /\ Opens("continue")
    /\ IF LoopsOf = {} THEN SemanticError
       ELSE /\ Deselect(JumpTo(Ready, controls[NearestLoop].skip))
            /\ Walk("continue", "")
            /\ UNCHANGED <<mode, fn, funcs, controls, frames, scopes, labels, dangling, history>>

(* Slip: a goto is resolved at once and again at the end of the function. *)
GotoTwice(l) ==
    /\ Opens("goto")
    /\ Deselect(IF labels[l] # NoBlock THEN JumpTo(Ready, labels[l])
               ELSE [g |-> SetTerminator(Ready.g, Ready.at, "JUMP"), at |-> NoBlock])
    /\ dangling' = Append(dangling, [block |-> Ready.at, label |-> l])
    /\ Walk("goto", l)
    /\ UNCHANGED <<mode, fn, funcs, controls, frames, scopes, labels, history>>

(* A goto to a label not met yet keeps its JUMP and waits in danglingGotos. *)
Goto(l) ==
    /\ Opens("goto")
    /\ IF labels[l] # NoBlock
       THEN /\ Deselect(JumpTo(Ready, labels[l]))
            /\ UNCHANGED dangling
       ELSE /\ Deselect([g |-> SetTerminator(Ready.g, Ready.at, "JUMP"), at |-> NoBlock])
            /\ dangling' = Append(dangling, [block |-> Ready.at, label |-> l])
    /\ Walk("goto", l)
    /\ UNCHANGED <<mode, fn, funcs, controls, frames, scopes, labels, history>>

(* insertCompoundStatement; an empty one is the empty statement. *)
InsertCompoundStatement ==
    /\ Nests("compound")
    /\ At(Select(JumpTo(Fresh(Ready), NewId(Ready.g)), NewId(Ready.g)))
    /\ frames' = Append(frames, MkFrame("compound", NoBlock, NoBlock, NoBlock))
    /\ scopes' = Append(scopes, {})
    /\ Walk("compound", "")
    /\ UNCHANGED <<mode, fn, funcs, controls, labels, dangling, history>>

EndCompound ==
    /\ InFrame({"compound"})
    /\ At(JoinAfter(NoBlock))
    /\ frames' = Front(frames)
    /\ scopes' = Front(scopes)
    /\ Walk("endcompound", "")
    /\ UNCHANGED <<mode, fn, funcs, controls, labels, dangling, history>>

LabelInPlace == Ready  \* slip: a label in the middle of a block

(* insertLabeledStatement: a label starts a block, unless the current one   *)
(* is still empty.                                                          *)
LabelStart ==
    IF IsEmpty(Ready.g[Ready.at]) THEN Ready
    ELSE Select(JumpTo(Fresh(Ready), NewId(Ready.g)), NewId(Ready.g))

(* "Such label already exists": said of a label that does, and perhaps of  *)
(* a new one, since what lower_bound returns is read without asking        *)
(* whether it is the end of the map (line 644).                            *)
InsertLabel(l) ==
    /\ Opens("label")
    /\ \/ SemanticError
       \/ /\ labels[l] = NoBlock
          /\ At(LabelStart)
          /\ labels' = [labels EXCEPT ![l] = LabelStart.at]
          /\ Walk("label", l)
          /\ UNCHANGED <<mode, fn, funcs, controls, frames, scopes, dangling, history>>

(* Refused outside a switch, or if the label is not a constant.            *)
InsertCase(v) ==
    /\ Opens("case")
    /\ \/ SemanticError
       \/ /\ Switches # {}
          /\ At(LabelStart)
          /\ controls' = [controls EXCEPT ![NearestSwitch].labels =
                              Append(@, [val |-> v, block |-> LabelStart.at])]
          /\ Walk("case", v)
          /\ UNCHANGED <<mode, fn, funcs, frames, scopes, labels, dangling, history>>

InsertDefault ==
    /\ Opens("default")
    /\ IF Switches = {} \/ controls[NearestSwitch].default # NoBlock THEN SemanticError
       ELSE /\ At(LabelStart)
            /\ controls' = [controls EXCEPT ![NearestSwitch].default = LabelStart.at]
            /\ Walk("default", "")
            /\ UNCHANGED <<mode, fn, funcs, frames, scopes, labels, dangling, history>>

-----------------------------------------------------------------------------
(* createFunction after fillBlock: the end of the body, the gotos that wait *)
(* for a label, and the reset of the per-function tables.                   *)
EndBody ==
    /\ mode = "body" /\ frames = <<>>
    /\ IF sel # NoBlock /\ ~fn.void THEN SemanticError
       ELSE /\ mode' = "resolve"
            /\ cfg' = IF sel = NoBlock THEN cfg ELSE SetTerminator(cfg, sel, "RET")
            /\ scopes' = Front(scopes)
            /\ UNCHANGED <<fn, funcs, ast, sel, controls, frames, labels, dangling, history>>

ResolveGoto ==
    LET waiting == Head(dangling)
    IN  /\ mode = "resolve" /\ dangling # <<>>
        /\ IF labels[waiting.label] = NoBlock THEN SemanticError
           ELSE /\ cfg' = LinkBlocks(cfg, waiting.block, labels[waiting.label])
                /\ dangling' = Tail(dangling)
                /\ UNCHANGED <<mode, fn, funcs, ast, sel, controls, frames, scopes, labels,
                               history>>

FinishFunction ==
    /\ mode = "resolve" /\ dangling = <<>>
    /\ mode' = "idle"
    /\ scopes' = Front(scopes)
    /\ labels' = [l \in Labels |-> NoBlock]
    /\ UNCHANGED <<fn, funcs, ast, cfg, sel, controls, frames, dangling, history>>

LoopKinds == {"while", "do"}

Next ==
    \/ \E void, params \in BOOLEAN : CreateFunction(void, params)
    \/ \E e \in Exprs : ExprStmt(e) \/ Return(e) \/ InsertSwitchStatement(e)
    \/ \E e \in Exprs \cup {"none"} : InsertDeclaration(e)
    \/ \E v \in UNION {scopes[k] : k \in DOMAIN scopes} : UseVariable(v)
    \/ \E e \in Exprs, hasElse \in BOOLEAN : InsertIfStatement(e, hasElse)
    \/ \E e \in Exprs, kind \in LoopKinds :
            InsertLoopStatement(kind, <<"none", "">>, e, "none")
    \/ \E e \in Exprs, init \in ForInits, act \in LastActs \cup {"none"} :
            InsertLoopStatement("for", init, e, act)
    \/ \E l \in Labels : Goto(l) \/ InsertLabel(l)
    \/ \E v \in Vals : InsertCase(v)
    \/ ReturnNothing \/ Break \/ Continue \/ InsertDefault \/ BadSwitch
    \/ InsertCompoundStatement
    \/ EndThen \/ EndIf \/ EndLoop \/ EndSwitch \/ EndCompound
    \/ DispatchCase \/ DispatchDone
    \/ EndBody \/ ResolveGoto \/ FinishFunction

Spec == Init /\ [][Next]_vars

-----------------------------------------------------------------------------
(* Correctness. *)

(***************************************************************************)
(* The block that takes the next instruction has neither a terminator nor  *)
(* a successor: no handler leaves a finished block selected (selectBlock,  *)
(* deselectBlock), so no instruction is emitted after a jump and no        *)
(* terminator is overwritten.                                              *)
(***************************************************************************)
SelectedOpen ==
    mode \in {"body", "dispatch"} /\ sel # NoBlock => IsOpen(cfg[sel])

(* The blocks interrupted handlers still have to fill or to leave. *)
HeldBy(f) == {f.blockFalse, f.blockAfter}
                \cup (IF f.kind = "switch" THEN {f.entry} ELSE {})
Held == (IF mode \in {"body", "dispatch"} THEN {sel} ELSE {})
            \cup UNION {HeldBy(frames[k]) : k \in DOMAIN frames}

WaitsForLabel(b) ==
    /\ cfg[b].term = "JUMP" /\ cfg[b].next = <<>>
    /\ \E k \in DOMAIN dangling : dangling[k].block = b

(***************************************************************************)
(* Every block is finished (a terminator and as many successors as it      *)
(* needs), or held open by a handler that will finish it, or a goto waits  *)
(* for its label in it, or it is one of the two kinds insertSwitchStatement *)
(* abandons: the end of a switch body, linked but not terminated (line     *)
(* 443), and an exit nothing leads to (line 473).  In particular a finished *)
(* function has only finished blocks besides those two kinds.              *)
(***************************************************************************)
BlocksAccounted ==
    mode # "error" => \A b \in DOMAIN cfg :
        \/ IsSealed(cfg[b])
        \/ b \in Held /\ IsOpen(cfg[b])
        \/ WaitsForLabel(b)
        \/ b \in fellOff /\ cfg[b].term = "none" /\ Len(cfg[b].next) = 1
        \/ b \in orphans /\ IsOpen(cfg[b])

(***************************************************************************)
(* activeControls mirrors the handlers being walked: one entry for each    *)
(* nested loop and switch, outermost first, with that statement's exit.    *)
(* So break and continue leave the statement C says, and none is active    *)
(* when a function is complete, though nothing resets the deque.           *)
(***************************************************************************)
DepthBefore(k) == IF k = 1 THEN 0 ELSE frames[k - 1].depth

ControlsMatchFrames ==
    /\ frames = <<>> => controls = <<>>
    /\ frames # <<>> => Top.depth = Len(controls)
    /\ \A k \in DOMAIN frames :
          LET f == frames[k]
          IN  IF f.kind \in Breakable
              THEN /\ f.depth = DepthBefore(k) + 1
                   /\ controls[f.depth].exit = f.blockAfter
                   /\ IsLoop(controls[f.depth]) <=> f.kind \in {"loop", "for"}
              ELSE f.depth = DepthBefore(k)
    /\ mode \in {"idle", "resolve"} => frames = <<>>

(* The scopes the handlers of these frames have entered: two for a for     *)
(* loop, none any more when the cases of a switch are tested, else one.    *)
FramesOf(fs, kind) == {k \in DOMAIN fs : fs[k].kind = kind}
ScopesOf(fs) == Len(fs) + Cardinality(FramesOf(fs, "for"))
                        - Cardinality(FramesOf(fs, "dispatch"))

(***************************************************************************)
(* Every handler leaves as many scopes as it entered, so a name is never   *)
(* looked up in a scope that was left, nor does one reach the next         *)
(* function.                                                               *)
(***************************************************************************)
ScopesBalanced ==
    /\ mode \in {"body", "dispatch"} => Len(scopes) = 3 + ScopesOf(frames)
    /\ mode = "idle" => scopes = <<{}>>

(***************************************************************************)
(* A finished block is never relinked or reterminated by a later step of   *)
(* the walk (a goto resolved at the end included).                         *)
(***************************************************************************)
SealedStaysSealed ==
    [][funcs' = funcs => \A b \in DOMAIN cfg : IsSealed(cfg[b]) =>
            cfg'[b].next = cfg[b].next /\ cfg'[b].term = cfg[b].term]_vars
=============================================================================
