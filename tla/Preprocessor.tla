---------------------------- MODULE Preprocessor ----------------------------
(***************************************************************************)
(* The preprocessor (src/parser/preprocessor.cpp) and the map from its     *)
(* output back to the source files (LinesWarpMap, parsing_context.cpp).    *)
(*                                                                         *)
(* A step handles one line of the file being read: a turn of the loop of   *)
(* processFile, or a part of one where a comment, a character literal or a *)
(* quoted argument goes on over the end of a line.  The text of a file is  *)
(* fixed but unknown until it is read: a line read for the first time is   *)
(* any line, and a file read again gives the lines it gave before.  A      *)
(* file's last line ends in a line feed.  Lines are kept as their kind and *)
(* argument; what a macro expands to is left out.                          *)
(***************************************************************************)
EXTENDS Integers, Sequences, FiniteSets, SequencesExt

CONSTANTS
  Files,       \* the names that can be opened or included
  Root,        \* the file given to the compiler
  Missing,     \* the files that cannot be read
  Macros,      \* macro names
  Predefined,  \* the macros defined by the system or on the command line
  Kinds,       \* the kinds of line the files may hold
  Malformed,   \* the kinds that may come with a wrong argument
  Tails,       \* how the lines of text may end, other than well
  LineNums,    \* the numbers a #line may give
  Memory,      \* the numbers that may stand behind the last entry of ldata
  MaxDepth,    \* MAX_INCLUDES_DEPTH
  MaxLines,    \* bound: lines of all the files together
  WellFormed   \* TRUE: the groups of every file are balanced, and includes
               \* stand outside them

Directives ==
  {"include", "define", "undef", "ifdef", "ifndef", "else", "endif", "line",
   "error", "warning"}

ASSUME PreprocessorAssumption ==
  /\ Root \in Files \ Missing
  /\ Predefined \subseteq Macros
  /\ Malformed \subseteq Directives
  /\ Tails \subseteq {"open", "split", "bad"}
  /\ LineNums \subseteq Nat
  /\ Memory \subseteq Int
  /\ MaxDepth \in Nat
  /\ MaxLines \in Nat
  /\ WellFormed \in BOOLEAN

VARIABLES
  text,          \* file -> the lines of it that are known
  whole,         \* the files known to their end
  status,        \* "run", what goes on over the end of a line ("comment",
                 \* "literal" or "argument"), "done", or why it stopped
  locations,     \* the files being read, innermost last (raw and locations)
  isSkip,        \* the current group is dropped
  nestCntr,      \* groups opened since then
  condStatuses,  \* the other groups that are open, outermost first
  defines,       \* the macros defined
  globalLine,    \* lines begun so far
  warps,         \* LinesWarpMap::ldata
  out            \* the lines written, and where each came from

source == <<text, whole>>
conds == <<isSkip, nestCntr, condStatuses>>
places == <<locations, globalLine, warps>>
vars == <<source, status, places, conds, defines, out>>

-----------------------------------------------------------------------------
(* The lines a file may hold.  A line of text may hold the end of a comment *)
(* ("close": it has text behind it, and is text where there is no comment)  *)
(* or begin with the mark that ends a literal or an argument left open by   *)
(* the line before, and can begin nothing ("quote").  Its argument is how   *)
(* it ends: well ("none"), in a comment ("open"), behind the mark that      *)
(* begins a character literal, whose character is the line feed ("split"),  *)
(* or in a literal that is refused ("bad").  A #warning may leave its       *)
(* argument open ("split"); the names of #include and #line do not.         *)

TextKinds == {"text", "close", "quote"}
BareKinds == {"else", "endif", "error", "warning", "null"}

LineOf(kinds, args, nums) == [kind : kinds \cap Kinds, arg : args, num : nums]

SourceLines ==
  LineOf(TextKinds, {"none"} \cup Tails, {0})
    \cup LineOf(BareKinds, {"none"}, {0})
    \cup LineOf({"warning"}, Tails \cap {"split"}, {0})
    \cup LineOf({"include"}, Files, {0})
    \cup LineOf({"define", "undef", "ifdef", "ifndef"}, Macros, {0})
    \cup LineOf({"line"}, Files \cup {"none"}, LineNums)
    \cup LineOf({"unknown"}, {"none", "rest"}, {0})
    \cup LineOf(Malformed, {"bad"}, {0})

Within == {"comment", "literal", "argument"}
Reading == {"run"} \cup Within
Statuses == Reading \cup {"done", "error", "internal", "undefined"}
CondStates == {"IF_TRUE", "IF_FALSE", "ELSE"}

WarpTypes == [old : Nat, new : Int, name : Files]
PlaceTypes == [src : Files, pos : Nat, line : Nat, name : Files]
OutTypes ==
  [src : Files, pos : Nat, line : Nat, name : Files, depth : Nat,
   what : {"shown", "hidden", "blank", "cut"}]

(* Every location, line counter and status is of its kind, and the root    *)
(* file is never popped.                                                   *)
TypeOK ==
  /\ text \in [Files -> Seq(SourceLines)]
  /\ whole \subseteq Files
  /\ status \in Statuses
  /\ locations \in Seq(PlaceTypes) /\ locations # <<>>
  /\ isSkip \in BOOLEAN
  /\ nestCntr \in Nat
  /\ condStatuses \in Seq(CondStates)
  /\ defines \subseteq Macros
  /\ globalLine \in Nat
  /\ warps \in Seq(WarpTypes) /\ warps # <<>>
  /\ out \in Seq(OutTypes)

Place(src, pos, line, name) ==
  [src |-> src, pos |-> pos, line |-> line, name |-> name]

OpenFile(file) == Place(file, 0, 1, file)
NextLine(loc) == Place(loc.src, loc.pos + 1, loc.line + 1, loc.name)
Warp(old, new, name) == [old |-> old, new |-> new, name |-> name]

Init ==
  /\ text = [f \in Files |-> <<>>]
  /\ whole = {}
  /\ status = "run"
  /\ locations = <<OpenFile(Root)>>
  /\ isSkip = FALSE /\ nestCntr = 0 /\ condStatuses = <<>>
  /\ defines = Predefined
  /\ globalLine = 0
  /\ warps = <<Warp(0, 0, Root)>>
  /\ out = <<>>

-----------------------------------------------------------------------------
(* Reading.                                                                *)

Top == locations[Len(locations)]
Read == Len(text[Top.src])
GroupOpen == condStatuses # <<>>

(* What WellFormed demands of line l of a file.                            *)
Suits(l) ==
  /\ l.kind \in {"else", "endif"} => GroupOpen
  /\ l.kind = "include" => ~GroupOpen

(* l is the next line of the file being read.                              *)
Fetch(l) ==
  /\ WellFormed => Suits(l)
  /\ \/ /\ Top.pos < Read
        /\ l = text[Top.src][Top.pos + 1]
        /\ UNCHANGED source
     \/ /\ Top.pos = Read
        /\ Top.src \notin whole
        /\ Cardinality(UNION {{f} \X DOMAIN text[f] : f \in Files}) < MaxLines
        /\ text' = [text EXCEPT ![Top.src] = Append(@, l)]
        /\ UNCHANGED whole

(* The file being read has no further line.                                *)
NoEnd ==
  /\ Top.pos = Read
  /\ WellFormed => ~GroupOpen
  /\ whole' = whole \cup {Top.src}
  /\ UNCHANGED text

Stop(reason) ==
  /\ status' = reason
  /\ UNCHANGED <<places, conds, defines, out>>

(* The line of output that a line of place loc gives, with depth includes  *)
(* open.  One that a literal ends is "cut".                                *)
Written(loc, depth, what) ==
  [src |-> loc.src, pos |-> loc.pos + 1, line |-> loc.line, name |-> loc.name,
   depth |-> depth, what |-> what]

Depth == Len(locations) - 1

(* The end of a line, of which loc is the place so far: the line feed is   *)
(* written and the counters of the line go up.                             *)
FinishLine(loc, what) ==
  /\ out' = Append(out, Written(loc, Depth, what))
  /\ locations' = [locations EXCEPT ![Len(locations)] = NextLine(loc)]
  /\ globalLine' = globalLine + 1

(* Mutant of PassLine: globalLine is not counted up.                       *)
PassUncounted(what) ==
  /\ out' = Append(out, Written(Top, Depth, what))
  /\ locations' = [locations EXCEPT ![Len(locations)] = NextLine(Top)]
  /\ UNCHANGED <<globalLine, warps, defines>>

PassLine(what) ==
  /\ FinishLine(Top, what)
  /\ UNCHANGED <<warps, defines>>

(* The file being read is at its next line, and nothing else changes.      *)
PassOver ==
  /\ locations' = [locations EXCEPT ![Len(locations)] =
                      Place(Top.src, Top.pos + 1, Top.line, Top.name)]
  /\ UNCHANGED <<globalLine, warps, defines>>

(* appendWarpLoc: positions only grow.                                     *)
CanWarp(old) == old > warps[Len(warps)].old

-----------------------------------------------------------------------------
(* Lines of text and comments.                                             *)

(* Lines a dropped group swallows: text, and the directives that return at *)
(* once when isSkip holds.  #undef checks its argument before that.        *)
SkipLine(l) ==
  /\ isSkip
  /\ \/ l.kind \in TextKinds \cup {"include", "define", "line", "error", "warning"}
     \/ l.kind = "undef" /\ l.arg # "bad"
     \/ l.kind = "unknown" /\ l.arg = "none"
  /\ PassLine(IF l.kind \in TextKinds THEN "hidden" ELSE "blank")
  /\ UNCHANGED <<status, conds>>

(* An unknown directive of a dropped group returns with its argument not   *)
(* yet read: the loop of processFile takes that for a line of its own.     *)
SkipUnknown(l) ==
  /\ isSkip
  /\ l.kind = "unknown" /\ l.arg = "rest"
  /\ LET second == Place(Top.src, Top.pos, Top.line + 1, Top.name)
     IN  /\ out' = Append(Append(out, Written(Top, Depth, "blank")),
                           Written(second, Depth, "blank"))
         /\ locations' = [locations EXCEPT ![Len(locations)] = NextLine(second)]
  /\ globalLine' = globalLine + 2
  /\ UNCHANGED <<status, warps, conds, defines>>

(* A line of text from where no comment and no literal holds any more.  A  *)
(* literal takes the line feed for its character (passChar): it is written *)
(* and nothing counts it.                                                  *)
PassText(l) ==
  /\ \/ /\ l.arg \in {"none", "open"}
        /\ PassLine("shown")
        /\ status' = IF l.arg = "open" THEN "comment" ELSE "run"
     \/ /\ l.arg = "split"
        /\ PassOver
        /\ out' = Append(out, Written(Top, Depth, "cut"))
        /\ status' = "literal"
  /\ UNCHANGED conds

TextLine(l) ==
  /\ ~isSkip
  /\ l.kind \in {"text", "close"}
  /\ PassText(l)

(* Mutants of InsideComment: a comment does not count the lines of the     *)
(* output, or of the file.                                                 *)
InsideNotCounted ==
  /\ out' = Append(out, Written(Top, Depth, "blank"))
  /\ locations' = [locations EXCEPT ![Len(locations)] = NextLine(Top)]
  /\ UNCHANGED <<status, globalLine, warps, conds, defines>>

InsideOneLine ==
  /\ FinishLine(Place(Top.src, Top.pos, Top.line - 1, Top.name), "blank")
  /\ UNCHANGED <<status, warps, conds, defines>>

InsideComment ==
  /\ PassLine("blank")
  /\ UNCHANGED <<status, conds>>

(* A line that begins inside a comment.                                    *)
CommentLine(l) ==
  \/ l.kind # "close" /\ InsideComment
  \/ l.kind = "close" /\ PassText(l)
  \/ l.kind = "close" /\ l.arg = "bad" /\ Stop("error")

(* The line behind a line feed taken by a literal, which it must end (or   *)
(* go on with: \x takes two characters, line feeds too).                   *)
LiteralLine(l) ==
  \/ l.kind = "quote" /\ PassText(l)
  \/ (l.kind # "quote" \/ l.arg = "bad") /\ Stop("error")

(* A line that begins inside the argument of a #warning (getStringArg): it *)
(* is swallowed, unless it ends the argument and the directive with it; a  *)
(* mark that more text stands behind is refused.                           *)
ArgumentLine(l) ==
  \/ /\ l.kind = "quote" /\ l.arg = "none"
     /\ PassLine("blank")
     /\ status' = "run"
     /\ UNCHANGED conds
  \/ /\ l.kind # "quote"
     /\ PassOver
     /\ UNCHANGED <<status, conds, out>>
  \/ (l.kind # "quote" \/ l.arg # "none") /\ Stop("error")

(* Mutant of InNested: the counter is not looked at.                       *)
InSkipped == isSkip

(* In a group inside the dropped one.                                      *)
InNested == isSkip /\ nestCntr > 0

(* What is refused where it is met: a literal that does not end, a line    *)
(* with "#" and no name, whether skipped or not, and a directive of        *)
(* unknown name or wrong argument that is not skipped.                     *)
Refuse(l) ==
  /\ \/ l.kind = "null"
     \/ l.kind = "undef" /\ l.arg = "bad"
     \/ ~isSkip /\ (l.kind \in {"quote", "unknown", "error"} \/ l.arg = "bad")
     \/ l.kind \in {"else", "endif"} /\ l.arg = "bad" /\ ~InNested
  /\ Stop("error")

-----------------------------------------------------------------------------
(* Conditional groups.                                                     *)

directiveIfdef(l) ==
  /\ l.kind \in {"ifdef", "ifndef"}
  /\ PassLine("blank")
  /\ \/ /\ isSkip
        /\ nestCntr' = nestCntr + 1
        /\ UNCHANGED <<isSkip, condStatuses>>
     \/ /\ ~isSkip /\ l.arg # "bad"
        /\ LET kept == l.arg \in defines \/ l.kind = "ifndef"
           IN  /\ condStatuses' = Append(condStatuses, IF kept THEN "IF_TRUE" ELSE "IF_FALSE")
               /\ isSkip' = ~kept
        /\ UNCHANGED nestCntr
  /\ UNCHANGED status

LastGroup == condStatuses[Len(condStatuses)]

(* The top of an empty stack is read: whatever follows is not the code's.  *)
StrayElse(l) ==
  /\ l.kind \in {"else", "endif"} /\ l.arg # "bad"
  /\ ~InNested
  /\ ~GroupOpen
  /\ Stop("undefined")

(* Mutant of directiveElse: one inside the dropped group takes part.       *)
ElseOfNested(l) ==
  /\ l.kind = "else" /\ l.arg # "bad" /\ GroupOpen
  /\ PassLine("blank")
  /\ isSkip' = (LastGroup = "IF_TRUE")
  /\ condStatuses' = [condStatuses EXCEPT ![Len(condStatuses)] = "ELSE"]
  /\ UNCHANGED <<status, nestCntr>>

directiveElse(l) ==
  /\ l.kind = "else"
  /\ \/ /\ InNested
        /\ PassLine("blank")
        /\ UNCHANGED <<status, conds>>
     \/ /\ ~InNested /\ l.arg # "bad" /\ GroupOpen
        /\ LastGroup # "ELSE"
        /\ PassLine("blank")
        /\ isSkip' = (LastGroup = "IF_TRUE")
        /\ condStatuses' = [condStatuses EXCEPT ![Len(condStatuses)] = "ELSE"]
        /\ UNCHANGED <<status, nestCntr>>
     \/ /\ ~InNested /\ l.arg # "bad" /\ GroupOpen
        /\ LastGroup = "ELSE"
        /\ Stop("error")

(* Mutant of directiveEndif: the flag is left as it is.                    *)
EndifKeepsFlag(l) ==
  /\ l.kind = "endif" /\ l.arg # "bad" /\ GroupOpen
  /\ PassLine("blank")
  /\ condStatuses' = Front(condStatuses)
  /\ UNCHANGED <<status, isSkip, nestCntr>>

directiveEndif(l) ==
  /\ l.kind = "endif"
  /\ PassLine("blank")
  /\ \/ /\ InNested
        /\ nestCntr' = nestCntr - 1
        /\ UNCHANGED <<isSkip, condStatuses>>
     \/ /\ ~InNested /\ l.arg # "bad" /\ GroupOpen
        /\ condStatuses' = Front(condStatuses)
        /\ isSkip' = FALSE
        /\ UNCHANGED nestCntr
  /\ UNCHANGED status

-----------------------------------------------------------------------------
(* The other directives.                                                   *)

directiveDefine(l) ==
  /\ l.kind \in {"define", "undef"} /\ l.arg # "bad"
  /\ ~isSkip
  /\ FinishLine(Top, "blank")
  /\ defines' = IF l.kind = "define" THEN defines \cup {l.arg} ELSE defines \ {l.arg}
  /\ UNCHANGED <<status, conds, warps>>

directiveWarning(l) ==
  /\ l.kind = "warning"
  /\ ~isSkip
  /\ \/ l.arg = "none" /\ PassLine("blank") /\ UNCHANGED status
     \/ l.arg = "split" /\ PassOver /\ status' = "argument" /\ UNCHANGED out
  /\ UNCHANGED conds

directiveLine(l) ==
  /\ l.kind = "line" /\ l.arg # "bad"
  /\ ~isSkip
  /\ LET named == Place(Top.src, Top.pos, l.num,
                        IF l.arg = "none" THEN Top.name ELSE l.arg)
         now == globalLine + 1
     IN  IF CanWarp(now)
         THEN /\ FinishLine(named, "blank")
              /\ warps' = Append(warps, Warp(now, l.num, named.name))
              /\ UNCHANGED <<status, conds, defines>>
         ELSE Stop("internal")

(* The included file is entered; the line of the #include is finished when *)
(* it returns.  The groups of the including file are forgotten.            *)
directiveInclude(l) ==
  /\ l.kind = "include" /\ l.arg # "bad"
  /\ ~isSkip
  /\ \/ Len(locations) > MaxDepth /\ Stop("error")
     \/ Len(locations) <= MaxDepth /\ ~CanWarp(globalLine + 1) /\ Stop("internal")
     \/ /\ Len(locations) <= MaxDepth /\ CanWarp(globalLine + 1)
        /\ \/ l.arg \in Missing /\ Stop("error")
           \/ /\ l.arg \notin Missing
              /\ globalLine' = globalLine + 1
              /\ warps' = Append(warps, Warp(globalLine + 1, 0, l.arg))
              /\ locations' = Append(locations, OpenFile(l.arg))
              /\ isSkip' = FALSE /\ nestCntr' = 0 /\ condStatuses' = <<>>
              /\ UNCHANGED <<status, defines, out>>

(* Mutant of EndInclude: the return to the including file is not recorded.  *)
ReturnUnrecorded ==
  /\ status = "run"
  /\ Len(locations) > 1
  /\ NoEnd
  /\ LET back == locations[Len(locations) - 1]
     IN  /\ locations' = Append(Front(Front(locations)), NextLine(back))
         /\ out' = Append(out, Written(back, Len(locations) - 2, "blank"))
  /\ UNCHANGED <<status, globalLine, warps, conds, defines>>

(* The end of a file, and of the #include line that entered it.            *)
EndInclude ==
  /\ status = "run"
  /\ Len(locations) > 1
  /\ NoEnd
  /\ LET back == locations[Len(locations) - 1]
     IN  IF CanWarp(globalLine)
         THEN /\ warps' = Append(warps, Warp(globalLine, back.line - 1, back.name))
              /\ locations' = Append(Front(Front(locations)), NextLine(back))
              /\ out' = Append(out, Written(back, Len(locations) - 2, "blank"))
              /\ UNCHANGED <<status, globalLine, conds, defines>>
         ELSE Stop("internal")

EndRoot ==
  /\ status = "run"
  /\ Len(locations) = 1
  /\ NoEnd
  /\ Stop("done")

(* Mutant of EndWithin: the end of the file is not looked for.             *)
EndlessComment ==
  /\ status = "comment"
  /\ UNCHANGED vars

(* "Unterminated comment", and what is said of literals and arguments.  A  *)
(* literal that begins with \x reads on past the end.                      *)
EndWithin ==
  /\ status \in Within
  /\ NoEnd
  /\ Stop("error") \/ (status = "literal" /\ Stop("undefined"))

ProcessLine(l) ==
  \/ SkipLine(l) \/ SkipUnknown(l) \/ TextLine(l) \/ Refuse(l)
  \/ directiveIfdef(l) \/ StrayElse(l) \/ directiveElse(l) \/ directiveEndif(l)
  \/ directiveDefine(l) \/ directiveWarning(l) \/ directiveLine(l)
  \/ directiveInclude(l)

Next ==
  \/ \E l \in SourceLines : status = "run" /\ Fetch(l) /\ ProcessLine(l)
  \/ \E l \in SourceLines : status = "comment" /\ Fetch(l) /\ CommentLine(l)
  \/ \E l \in SourceLines : status = "literal" /\ Fetch(l) /\ LiteralLine(l)
  \/ \E l \in SourceLines : status = "argument" /\ Fetch(l) /\ ArgumentLine(l)
  \/ EndInclude
  \/ EndRoot
  \/ EndWithin

Spec == Init /\ [][Next]_vars

(* The loop of processFile runs on until it ends.                          *)
FairSpec == Spec /\ WF_vars(Next)

-----------------------------------------------------------------------------
(* LinesWarpMap::getLoc: the entry at the line, or else the one before the *)
(* first past it.  Where there is none past it, what stands in memory      *)
(* behind the last entry is compared with the line all the same.           *)

Leftovers == [old : Memory, new : Memory, name : Files]

getLoc(line, behind) ==
  LET entries == Append(warps, behind)
      lbIt == CHOOSE k \in DOMAIN entries :
                /\ k <= Len(warps) => entries[k].old >= line
                /\ \A j \in 1 .. k - 1 : entries[j].old < line
      at == IF entries[lbIt].old = line \/ lbIt = 1 THEN lbIt ELSE lbIt - 1
  IN  [name |-> entries[at].name, line |-> entries[at].new + line - entries[at].old]

-----------------------------------------------------------------------------
(* Properties.                                                             *)

(* The flag, the counter and the stack that processDirective and the       *)
(* handlers of #ifdef, #else and #endif keep separately tell one story,    *)
(* through every include: nothing is skipped outside a group, only the     *)
(* innermost group kept on the stack can be a dropped one, and it is       *)
(* dropped exactly when its status says so.                                *)
SkipExplained ==
  /\ isSkip => GroupOpen
  /\ nestCntr > 0 => isSkip
  /\ \A i \in 1 .. Len(condStatuses) - 1 : condStatuses[i] # "IF_FALSE"
  /\ GroupOpen /\ LastGroup = "IF_TRUE" => ~isSkip
  /\ GroupOpen /\ LastGroup = "IF_FALSE" => isSkip

(* globalLine, by which warps are recorded, is not the number of lines     *)
(* written: it runs ahead by the includes that are open, since the line    *)
(* feed of an #include comes when the file returns, and it stays behind by *)
(* the line feeds that literals take, and by nothing else.                 *)
Uncut(lines) == Cardinality({i \in DOMAIN lines : lines[i].what # "cut"})

AlignedOutput == Uncut(out) = globalLine - Depth

Unnumbered == \A f \in Files : \A l \in ToSet(text[f]) : l.kind # "line"

(* Line k ends in a literal or an argument, at most: a line before it      *)
(* leaves one open, and none since can have ended it.                      *)
EndsOpen(lines, k) ==
  \E j \in 1 .. k : lines[j].arg = "split" /\ \A i \in j + 1 .. k : lines[i].kind # "quote"

(* Of the first n lines of a file, those whose line feed may be taken by a *)
(* literal or an argument, and the unknown directives.                     *)
Lost(lines, n) == Cardinality({k \in 1 .. n : EndsOpen(lines, k)})
Doubled(lines, n) == Cardinality({k \in 1 .. n : lines[k].kind = "unknown"})

(* Without #line, the line number kept for messages and __LINE__ is the    *)
(* number of the line being read, in the file being read and in every file *)
(* that waits for an include, across comments and includes; it is behind   *)
(* at most by the line feeds that literals and arguments take, and ahead   *)
(* at most by the unknown directives that were skipped.                    *)
LineTracksSource ==
  Unnumbered =>
    \A i \in DOMAIN locations :
      LET loc == locations[i]
          lines == text[loc.src]
      IN  /\ loc.name = loc.src
          /\ loc.line >= loc.pos + 1 - Lost(lines, loc.pos)
          /\ loc.line <= loc.pos + 1 + Doubled(lines, loc.pos)

(* The parser sees only line numbers of the output and asks getLoc where   *)
(* they come from.  Where no included file includes another, a line of     *)
(* text is reported in its own file, at its own number or the one before,  *)
(* as long as no literal has taken a line feed, and unless the memory      *)
(* behind the last entry of the map happens to hold the number of a line   *)
(* past it.                                                                *)
Shallow == \A i \in DOMAIN out : out[i].depth < 2

Misread(line, behind) == behind.old = line /\ Last(warps).old < line

LocNearby ==
  status = "done" /\ Shallow =>
    \A i \in DOMAIN out, behind \in Leftovers :
      /\ out[i].what = "shown"
      /\ \A j \in 1 .. i : out[j].what # "cut"
      /\ ~Misread(i, behind)
      => LET loc == getLoc(i, behind)
         IN  loc.name = out[i].name /\ loc.line \in {out[i].line - 1, out[i].line}

(* Preprocessing ends, with the text or with an error, whatever the files  *)
(* include, themselves too.                                                *)
Terminates == <>(status \notin Reading)

(* "Warp loc can be appended only at the end" (parsing_context.cpp): the   *)
(* line map refuses a position, and the compiler gives up on the program,  *)
(* only at the end of an included file that gave no line of its own since  *)
(* the last position: it is empty, or its last line is an #include or a    *)
(* #line.                                                                  *)
RefusedAtSeams ==
  status = "internal" =>
    /\ Depth > 0 /\ Top.src \in whole
    /\ \/ text[Top.src] = <<>>
       \/ Last(text[Top.src]).kind \in {"include", "line"}

(* The stack of groups the three variables stand for: those on the stack,  *)
(* of which only the innermost can be dropped, and those counted inside.   *)
GroupOf(statuses, skipped, i) ==
  CASE statuses[i] = "IF_FALSE" -> "off"
    [] statuses[i] = "IF_TRUE" -> "on"
    [] statuses[i] = "ELSE" -> IF skipped /\ i = Len(statuses) THEN "elseOff" ELSE "elseOn"

AbstractGroups ==
  [i \in 1 .. Len(condStatuses) + nestCntr |->
     IF i <= Len(condStatuses) THEN GroupOf(condStatuses, isSkip, i) ELSE "dead"]

ShownOf(lines) ==
  [i \in DOMAIN lines |-> IF lines[i].what = "cut" THEN "shown" ELSE lines[i].what]

Groups == INSTANCE Conditionals WITH
  groups <- AbstractGroups,
  shown <- ShownOf(out),
  stopped <- status \notin Reading

(* In files whose groups are balanced, with includes outside them, the     *)
(* text written is the text conditional compilation keeps: no line of a    *)
(* dropped group, and every line of a kept one.                            *)
KeepsGroups == Groups!Spec
=============================================================================
