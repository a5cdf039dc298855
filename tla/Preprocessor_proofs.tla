------------------------- MODULE Preprocessor_proofs -------------------------
(***************************************************************************)
(* Proofs about the preprocessor, for any files, macros, depth of includes *)
(* and length of text.                                                     *)
(***************************************************************************)
EXTENDS Preprocessor, SequenceTheorems, FiniteSetTheorems, TLAPS

(* What a whole line of output may be.                                     *)
Whats == {"shown", "hidden", "blank"}

(* What a line's argument is, by its kind.                                 *)
LEMMA LineArgs ==
  ASSUME NEW l \in SourceLines, l.arg # "bad"
  PROVE  /\ l.kind \in {"define", "undef"} => l.arg \in Macros
         /\ l.kind = "include" => l.arg \in Files
         /\ l.kind = "line" => l.num \in Nat /\ (l.arg = "none" \/ l.arg \in Files)
  BY PreprocessorAssumption DEF SourceLines, LineOf, BareKinds, TextKinds

(* There is always a file being read.                                      *)
LEMMA TopType ==
  ASSUME TypeOK
  PROVE  /\ Len(locations) \in Nat /\ Len(locations) > 0
         /\ Top \in PlaceTypes
         /\ Top.pos \in Nat /\ Top.line \in Nat /\ Top.src \in Files /\ Top.name \in Files
  <1>1. locations \in Seq(PlaceTypes) /\ locations # <<>>
    BY DEF TypeOK
  <1>2. Len(locations) \in Nat /\ Len(locations) > 0
    BY <1>1
  <1>3. Top \in PlaceTypes
    BY <1>1, <1>2 DEF Top
  <1> QED
    BY <1>2, <1>3 DEF PlaceTypes

(* Reading a line keeps the texts well typed.                              *)
LEMMA FetchType ==
  ASSUME TypeOK, NEW l \in SourceLines, Fetch(l)
  PROVE  text' \in [Files -> Seq(SourceLines)] /\ whole' \subseteq Files
  <1>1. CASE UNCHANGED source
    BY <1>1 DEF TypeOK, source
  <1>2. CASE text' = [text EXCEPT ![Top.src] = Append(@, l)] /\ UNCHANGED whole
    <2>1. text[Top.src] \in Seq(SourceLines)
      BY TopType DEF TypeOK
    <2>2. Append(text[Top.src], l) \in Seq(SourceLines)
      BY <2>1
    <2> QED
      BY <1>2, <2>2 DEF TypeOK
  <1> QED
    BY <1>1, <1>2 DEF Fetch

(* So does meeting the end of a file.                                      *)
LEMMA NoEndType ==
  ASSUME TypeOK, NoEnd
  PROVE  text' \in [Files -> Seq(SourceLines)] /\ whole' \subseteq Files
  BY TopType DEF NoEnd, TypeOK

(* A line of output counts unless a literal ends it.                       *)
LEMMA UncutAppend ==
  ASSUME NEW o \in Seq(OutTypes), NEW e \in OutTypes
  PROVE  /\ Uncut(o) \in Nat
         /\ Uncut(Append(o, e)) = IF e.what = "cut" THEN Uncut(o) ELSE Uncut(o) + 1
  <1> DEFINE n == Len(o)
             t == Append(o, e)
             C == {i \in DOMAIN o : o[i].what # "cut"}
             D == {i \in DOMAIN t : t[i].what # "cut"}
  <1>1. n \in Nat /\ DOMAIN o = 1 .. n
    BY LenProperties
  <1>2. /\ DOMAIN t = 1 .. n + 1 /\ t[n + 1] = e
        /\ \A i \in 1 .. n : t[i] = o[i]
    BY AppendProperties
  <1> HIDE DEF n, t
  <1>3. IsFiniteSet(C)
    BY <1>1, FS_Interval, FS_Subset
  <1>4. Cardinality(C) \in Nat /\ n + 1 \notin C
    BY <1>1, <1>3, FS_CardinalityType
  <1>5. CASE e.what = "cut"
    <2>1. D = C
      BY <1>1, <1>2, <1>5
    <2> QED
      BY <1>4, <1>5, <2>1 DEF Uncut, t
  <1>6. CASE e.what # "cut"
    <2>1. D = C \cup {n + 1}
      BY <1>1, <1>2, <1>6
    <2>2. Cardinality(D) = Cardinality(C) + 1
      BY <1>3, <1>4, <2>1, FS_AddElement
    <2> QED
      BY <1>4, <1>6, <2>2 DEF Uncut, t
  <1> QED
    BY <1>5, <1>6

(* A finished line leaves as many files open, and one more line of output. *)
LEMMA FinishType ==
  ASSUME TypeOK, NEW loc \in PlaceTypes, NEW what \in Whats,
         FinishLine(loc, what)
  PROVE  /\ locations' \in Seq(PlaceTypes) /\ locations' # <<>>
         /\ Len(locations') = Len(locations)
         /\ globalLine' \in Nat /\ globalLine' = globalLine + 1
         /\ out' \in Seq(OutTypes) /\ Uncut(out') = Uncut(out) + 1
  <1>1. /\ loc.pos \in Nat /\ loc.line \in Nat /\ loc.src \in Files /\ loc.name \in Files
        /\ NextLine(loc) \in PlaceTypes
    BY DEF PlaceTypes, NextLine, Place
  <1>2. /\ locations' \in Seq(PlaceTypes) /\ Len(locations') = Len(locations)
    BY <1>1, TopType DEF FinishLine, TypeOK
  <1>3. /\ Written(loc, Depth, what) \in OutTypes
        /\ Written(loc, Depth, what).what # "cut"
    BY <1>1, TopType DEF Written, OutTypes, Depth, Whats
  <1>4. out' \in Seq(OutTypes) /\ Uncut(out') = Uncut(out) + 1
    BY <1>3, UncutAppend DEF FinishLine, TypeOK
  <1>5. globalLine' \in Nat /\ globalLine' = globalLine + 1
    BY DEF FinishLine, TypeOK
  <1> QED
    BY <1>2, <1>4, <1>5, TopType

(* The same of a line that is only passed.                                 *)
LEMMA PassType ==
  ASSUME TypeOK, NEW what \in Whats, PassLine(what)
  PROVE  /\ locations' \in Seq(PlaceTypes) /\ locations' # <<>>
         /\ Len(locations') = Len(locations)
         /\ globalLine' \in Nat /\ globalLine' = globalLine + 1
         /\ out' \in Seq(OutTypes) /\ Uncut(out') = Uncut(out) + 1
         /\ defines' \subseteq Macros
         /\ warps' \in Seq(WarpTypes) /\ warps' # <<>>
  BY FinishType, TopType DEF PassLine, TypeOK

-----------------------------------------------------------------------------
(* The inductive invariant.  None of its parts needs another to be kept    *)
(* except for the types, but the refinement below rests on all of them.    *)

IInv == TypeOK /\ SkipExplained /\ AlignedOutput

(* Without the last element a sequence is of the same type, and one        *)
(* shorter.                                                                *)
LEMMA FrontType ==
  ASSUME NEW S, NEW s \in Seq(S), s # <<>>
  PROVE  /\ Front(s) \in Seq(S)
         /\ Len(Front(s)) = Len(s) - 1
         /\ \A i \in 1 .. Len(s) - 1 : Front(s)[i] = s[i]
  <1>1. Len(s) \in Nat /\ Len(s) > 0 /\ \A i \in 1 .. Len(s) - 1 : s[i] \in S
    OBVIOUS
  <1> DEFINE n == Len(s) - 1
  <1>2. n \in Nat /\ \A i \in 1 .. n : s[i] \in S
    BY <1>1
  <1> HIDE DEF n
  <1>3. /\ SubSeq(s, 1, n) \in Seq(S)
        /\ Len(SubSeq(s, 1, n)) = IF 1 <= n THEN n - 1 + 1 ELSE 0
        /\ \A i \in 1 .. n - 1 + 1 : SubSeq(s, 1, n)[i] = s[1 + i - 1]
    BY <1>2, SubSeqProperties
  <1>4. Len(SubSeq(s, 1, n)) = n /\ \A i \in 1 .. n : SubSeq(s, 1, n)[i] = s[i]
    BY <1>2, <1>3
  <1> QED
    BY <1>3, <1>4 DEF Front, n

(* Where the groups are left alone, so is what explains them.              *)
LEMMA CondsKept ==
  ASSUME TypeOK, SkipExplained, UNCHANGED conds
  PROVE  /\ SkipExplained'
         /\ isSkip' \in BOOLEAN /\ nestCntr' \in Nat /\ condStatuses' \in Seq(CondStates)
  BY DEF SkipExplained, conds, GroupOpen, LastGroup, TypeOK

(* Stopping changes nothing but the status.                                *)
LEMMA StopKeeps ==
  ASSUME IInv, NEW reason \in Statuses, Stop(reason),
         text' \in [Files -> Seq(SourceLines)], whole' \subseteq Files
  PROVE  IInv'
  <1>1. TypeOK'
    BY CondsKept DEF IInv, TypeOK, Stop, places, conds
  <1>2. SkipExplained'
    BY CondsKept DEF IInv, Stop
  <1>3. AlignedOutput'
    BY DEF IInv, AlignedOutput, Depth, Stop, places
  <1> QED
    BY <1>1, <1>2, <1>3 DEF IInv

(* A line that is passed and leaves the groups in order keeps the          *)
(* invariant.                                                              *)
LEMMA PassKeeps ==
  ASSUME IInv, NEW what \in Whats, PassLine(what),
         status' \in Statuses, SkipExplained',
         text' \in [Files -> Seq(SourceLines)], whole' \subseteq Files,
         isSkip' \in BOOLEAN, nestCntr' \in Nat, condStatuses' \in Seq(CondStates)
  PROVE  IInv'
  <1>1. TypeOK
    BY DEF IInv
  <1>2. TypeOK'
    BY <1>1, PassType DEF TypeOK
  <1>3. AlignedOutput'
    <2>1. /\ Uncut(out') = Uncut(out) + 1
          /\ globalLine' = globalLine + 1
          /\ Len(locations') = Len(locations)
      BY <1>1, PassType
    <2>2. Uncut(out) = globalLine - (Len(locations) - 1)
      BY DEF IInv, AlignedOutput, Depth
    <2>3. Len(locations) \in Nat /\ globalLine \in Nat
      BY <1>1, TopType DEF TypeOK
    <2> QED
      BY <2>1, <2>2, <2>3 DEF AlignedOutput, Depth
  <1> QED
    BY <1>2, <1>3 DEF IInv

(* The lines that leave the groups alone.                                  *)
LEMMA SkipLineKeeps ==
  ASSUME IInv, NEW l \in SourceLines, Fetch(l), SkipLine(l)
  PROVE  IInv'
  <1> DEFINE what == IF l.kind \in TextKinds THEN "hidden" ELSE "blank"
  <1>1. what \in Whats /\ PassLine(what)
    BY DEF SkipLine, Whats
  <1>2. status' \in Statuses /\ UNCHANGED conds
    BY DEF SkipLine, IInv, TypeOK
  <1> QED
    BY <1>1, <1>2, PassKeeps, CondsKept, FetchType DEF IInv

(* A line whose line feed nothing counts leaves the file at its next line. *)
LEMMA OverType ==
  ASSUME TypeOK, PassOver
  PROVE  /\ locations' \in Seq(PlaceTypes) /\ locations' # <<>>
         /\ Len(locations') = Len(locations)
         /\ globalLine' = globalLine /\ globalLine' \in Nat
         /\ defines' \subseteq Macros
         /\ warps' \in Seq(WarpTypes) /\ warps' # <<>>
  <1>1. Place(Top.src, Top.pos + 1, Top.line, Top.name) \in PlaceTypes
    BY TopType DEF PlaceTypes, Place
  <1>2. locations' \in Seq(PlaceTypes) /\ Len(locations') = Len(locations)
    BY <1>1, TopType DEF PassOver, TypeOK
  <1> QED
    BY <1>2, TopType DEF PassOver, TypeOK

(* It keeps the invariant if it writes nothing, or a line that a literal   *)
(* ends.                                                                   *)
LEMMA OverKeeps ==
  ASSUME IInv, PassOver, status' \in Statuses, UNCHANGED conds,
         text' \in [Files -> Seq(SourceLines)], whole' \subseteq Files,
         out' = out \/ out' = Append(out, Written(Top, Depth, "cut"))
  PROVE  IInv'
  <1>1. TypeOK /\ SkipExplained
    BY DEF IInv
  <1>2. out' \in Seq(OutTypes) /\ Uncut(out') = Uncut(out)
    <2>1. out \in Seq(OutTypes)
      BY <1>1 DEF TypeOK
    <2>2. /\ Written(Top, Depth, "cut") \in OutTypes
          /\ Written(Top, Depth, "cut").what = "cut"
      BY <1>1, TopType DEF Written, OutTypes, Depth
    <2>3. CASE out' = Append(out, Written(Top, Depth, "cut"))
      <3> DEFINE w == Written(Top, Depth, "cut")
      <3> HIDE DEF w
      <3>1. Append(out, w) \in Seq(OutTypes) /\ Uncut(Append(out, w)) = Uncut(out)
        BY <2>1, <2>2, UncutAppend DEF w
      <3> QED
        BY <2>3, <3>1 DEF w
    <2> QED
      BY <2>1, <2>3
  <1>3. TypeOK'
    BY <1>1, <1>2, OverType, CondsKept DEF TypeOK
  <1>4. AlignedOutput'
    BY <1>1, <1>2, OverType DEF IInv, AlignedOutput, Depth
  <1> QED
    BY <1>1, <1>3, <1>4, CondsKept DEF IInv

(* A line of text is passed on, the whole of it or what a literal ends.    *)
LEMMA PassTextKeeps ==
  ASSUME IInv, NEW l \in SourceLines, Fetch(l), PassText(l)
  PROVE  IInv'
  <1>1. CASE PassLine("shown") /\ UNCHANGED conds /\ status' \in {"comment", "run"}
    BY <1>1, PassKeeps, CondsKept, FetchType DEF IInv, Whats, Statuses, Reading, Within
  <1>2. CASE /\ PassOver /\ UNCHANGED conds /\ status' = "literal"
             /\ out' = Append(out, Written(Top, Depth, "cut"))
    BY <1>2, OverKeeps, FetchType DEF IInv, Statuses, Reading, Within
  <1> QED
    BY <1>1, <1>2 DEF PassText

(* So is a line inside a comment.                                          *)
LEMMA CommentLineKeeps ==
  ASSUME IInv, NEW l \in SourceLines, Fetch(l), CommentLine(l)
  PROVE  IInv'
  <1>1. CASE InsideComment
    BY <1>1, PassKeeps, CondsKept, FetchType DEF InsideComment, IInv, TypeOK, Whats
  <1>2. CASE Stop("error")
    BY <1>2, StopKeeps, FetchType DEF Statuses, IInv
  <1> QED
    BY <1>1, <1>2, PassTextKeeps DEF CommentLine

(* A literal goes on with text, or is refused.                             *)
LEMMA LiteralLineKeeps ==
  ASSUME IInv, NEW l \in SourceLines, Fetch(l), LiteralLine(l)
  PROVE  IInv'
  <1>1. CASE Stop("error")
    BY <1>1, StopKeeps, FetchType DEF Statuses, IInv
  <1> QED
    BY <1>1, PassTextKeeps DEF LiteralLine

(* An argument swallows its lines, and the last of them is counted.        *)
LEMMA ArgumentLineKeeps ==
  ASSUME IInv, NEW l \in SourceLines, Fetch(l), ArgumentLine(l)
  PROVE  IInv'
  <1>1. CASE PassLine("blank") /\ UNCHANGED conds /\ status' = "run"
    BY <1>1, PassKeeps, CondsKept, FetchType DEF IInv, Whats, Statuses, Reading
  <1>2. CASE PassOver /\ UNCHANGED <<status, conds, out>>
    BY <1>2, OverKeeps, FetchType DEF IInv, TypeOK
  <1>3. CASE Stop("error")
    BY <1>3, StopKeeps, FetchType DEF Statuses, IInv
  <1> QED
    BY <1>1, <1>2, <1>3 DEF ArgumentLine

(* A #warning passes, or leaves its argument open.                         *)
LEMMA WarningKeeps ==
  ASSUME IInv, NEW l \in SourceLines, Fetch(l), directiveWarning(l)
  PROVE  IInv'
  <1>1. CASE PassLine("blank") /\ UNCHANGED <<status, conds>>
    BY <1>1, PassKeeps, CondsKept, FetchType DEF IInv, TypeOK, Whats
  <1>2. CASE PassOver /\ status' = "argument" /\ UNCHANGED <<conds, out>>
    BY <1>2, OverKeeps, FetchType DEF IInv, Statuses, Reading, Within
  <1> QED
    BY <1>1, <1>2 DEF directiveWarning

(* A skipped line that counts twice is written twice.                      *)
LEMMA SkipUnknownKeeps ==
  ASSUME IInv, NEW l \in SourceLines, Fetch(l), SkipUnknown(l)
  PROVE  IInv'
  <1> DEFINE second == Place(Top.src, Top.pos, Top.line + 1, Top.name)
  <1>0. TypeOK /\ UNCHANGED conds
    BY DEF IInv, SkipUnknown
  <1>1. second \in PlaceTypes /\ NextLine(second) \in PlaceTypes
    BY <1>0, TopType DEF PlaceTypes, Place, NextLine
  <1>2. locations' \in Seq(PlaceTypes) /\ Len(locations') = Len(locations) /\ locations' # <<>>
    <2>1. locations' = [locations EXCEPT ![Len(locations)] = NextLine(second)]
      BY DEF SkipUnknown
    <2> QED
      BY <1>0, <1>1, <2>1, TopType DEF TypeOK
  <1>3. /\ Written(Top, Depth, "blank") \in OutTypes
        /\ Written(second, Depth, "blank") \in OutTypes
        /\ Written(Top, Depth, "blank").what # "cut"
        /\ Written(second, Depth, "blank").what # "cut"
    BY <1>0, TopType DEF Written, OutTypes, Depth, Place
  <1>4. out' \in Seq(OutTypes) /\ Uncut(out') = Uncut(out) + 2
    <2> DEFINE o == Append(out, Written(Top, Depth, "blank"))
    <2>1. out \in Seq(OutTypes)
      BY <1>0 DEF TypeOK
    <2>2. o \in Seq(OutTypes) /\ Uncut(o) = Uncut(out) + 1 /\ Uncut(out) \in Nat
      BY <1>3, <2>1, UncutAppend
    <2>3. out' = Append(o, Written(second, Depth, "blank"))
      BY DEF SkipUnknown
    <2> HIDE DEF o
    <2>4. Append(o, Written(second, Depth, "blank")) \in Seq(OutTypes)
      BY <1>3, <2>2
    <2>5. Uncut(out') = Uncut(o) + 1
      BY <1>3, <2>2, <2>3, UncutAppend
    <2> QED
      BY <2>2, <2>3, <2>4, <2>5
  <1>5. TypeOK'
    BY <1>0, <1>2, <1>4, FetchType, CondsKept DEF SkipUnknown, TypeOK, IInv
  <1>6. AlignedOutput'
    BY <1>0, <1>2, <1>4, TopType DEF IInv, AlignedOutput, Depth, SkipUnknown, TypeOK
  <1> QED
    BY <1>0, <1>5, <1>6, CondsKept DEF IInv

(* A refusal stops.                                                        *)
LEMMA RefusalsKeep ==
  ASSUME IInv, NEW l \in SourceLines, Fetch(l), Refuse(l) \/ StrayElse(l)
  PROVE  IInv'
  BY FetchType, StopKeeps DEF Refuse, StrayElse, IInv, Statuses

(* Opening a group: one inside a dropped group is only counted, another    *)
(* is put on the stack, and dropped if it is the new top and says so.      *)
LEMMA IfdefKeeps ==
  ASSUME IInv, NEW l \in SourceLines, Fetch(l), directiveIfdef(l)
  PROVE  IInv'
  <1>0. TypeOK /\ SkipExplained
    BY DEF IInv
  <1>1. PassLine("blank") /\ status' \in Statuses
    BY <1>0 DEF directiveIfdef, TypeOK
  <1>2. /\ isSkip' \in BOOLEAN /\ nestCntr' \in Nat /\ condStatuses' \in Seq(CondStates)
        /\ SkipExplained'
    <2>1. CASE isSkip /\ nestCntr' = nestCntr + 1 /\ UNCHANGED <<isSkip, condStatuses>>
      BY <1>0, <2>1 DEF SkipExplained, TypeOK, GroupOpen, LastGroup
    <2>2. ASSUME ~isSkip, NEW kept \in BOOLEAN, isSkip' = ~kept, UNCHANGED nestCntr,
                 condStatuses' = Append(condStatuses, IF kept THEN "IF_TRUE" ELSE "IF_FALSE")
          PROVE  /\ isSkip' \in BOOLEAN /\ nestCntr' \in Nat
                 /\ condStatuses' \in Seq(CondStates) /\ SkipExplained'
      <3> DEFINE new == IF kept THEN "IF_TRUE" ELSE "IF_FALSE"
      <3>1. new \in CondStates /\ (new = "IF_FALSE" <=> isSkip')
        BY <2>2 DEF CondStates
      <3>2. condStatuses \in Seq(CondStates) /\ nestCntr \in Nat
        BY <1>0 DEF TypeOK
      <3>3. condStatuses' = Append(condStatuses, new)
        BY <2>2
      <3> HIDE DEF new
      <3>4. /\ condStatuses' \in Seq(CondStates)
            /\ Len(condStatuses') = Len(condStatuses) + 1
            /\ condStatuses'[Len(condStatuses')] = new
            /\ \A i \in 1 .. Len(condStatuses) : condStatuses'[i] = condStatuses[i]
            /\ condStatuses' # <<>>
        BY <3>1, <3>2, <3>3
      <3>5. \A i \in 1 .. Len(condStatuses) : condStatuses[i] # "IF_FALSE"
        BY <1>0, <2>2, <3>2 DEF SkipExplained, GroupOpen, LastGroup
      <3>6. ~(nestCntr > 0)
        BY <1>0, <2>2 DEF SkipExplained
      <3>7. new = "IF_TRUE" => ~isSkip'
        BY <3>1
      <3>8. nestCntr' = nestCntr /\ isSkip' \in BOOLEAN
        BY <2>2
      <3>9. \A i \in 1 .. Len(condStatuses') - 1 : condStatuses'[i] # "IF_FALSE"
        BY <3>2, <3>4, <3>5
      <3> QED
        BY <3>1, <3>2, <3>4, <3>6, <3>7, <3>8, <3>9 DEF SkipExplained, GroupOpen, LastGroup
    <2>3. CASE ~isSkip /\ UNCHANGED nestCntr
      <3> DEFINE kept == l.arg \in defines \/ l.kind = "ifndef"
      <3>1. /\ kept \in BOOLEAN /\ isSkip' = ~kept
            /\ condStatuses' = Append(condStatuses, IF kept THEN "IF_TRUE" ELSE "IF_FALSE")
        BY <2>3 DEF directiveIfdef
      <3> HIDE DEF kept
      <3> QED
        BY <2>2, <2>3, <3>1
    <2> QED
      BY <2>1, <2>3 DEF directiveIfdef
  <1> QED
    BY <1>1, <1>2, PassKeeps, FetchType, <1>0 DEF Whats

(* The status of the innermost group on the stack changes, and the flag    *)
(* with it.                                                                *)
LEMMA ElseKeeps ==
  ASSUME IInv, NEW l \in SourceLines, Fetch(l), directiveElse(l)
  PROVE  IInv'
  <1>0. TypeOK /\ SkipExplained
    BY DEF IInv
  <1>1. CASE PassLine("blank") /\ UNCHANGED <<status, conds>>
    BY <1>0, <1>1, PassKeeps, CondsKept, FetchType DEF TypeOK, Whats
  <1>2. CASE /\ ~InNested /\ GroupOpen /\ PassLine("blank")
             /\ isSkip' = (LastGroup = "IF_TRUE")
             /\ condStatuses' = [condStatuses EXCEPT ![Len(condStatuses)] = "ELSE"]
             /\ UNCHANGED <<status, nestCntr>>
    <2>1. condStatuses \in Seq(CondStates) /\ nestCntr \in Nat /\ condStatuses # <<>>
      BY <1>0, <1>2 DEF TypeOK, GroupOpen
    <2>2. ~(nestCntr > 0)
      BY <1>0, <1>2 DEF SkipExplained, InNested
    <2>3. /\ condStatuses' \in Seq(CondStates)
          /\ Len(condStatuses') = Len(condStatuses)
          /\ condStatuses' # <<>>
          /\ condStatuses'[Len(condStatuses')] = "ELSE"
          /\ \A i \in 1 .. Len(condStatuses) - 1 : condStatuses'[i] = condStatuses[i]
      BY <1>2, <2>1 DEF CondStates
    <2>4. SkipExplained'
      BY <1>0, <1>2, <2>1, <2>2, <2>3 DEF SkipExplained, GroupOpen, LastGroup
    <2> QED
      BY <1>0, <1>2, <2>1, <2>3, <2>4, PassKeeps, FetchType DEF TypeOK, Whats
  <1>3. CASE Stop("error")
    BY <1>0, <1>3, StopKeeps, FetchType DEF Statuses
  <1> QED
    BY <1>1, <1>2, <1>3 DEF directiveElse

(* Closing a group uncovers one that is kept.                              *)
LEMMA EndifKeeps ==
  ASSUME IInv, NEW l \in SourceLines, Fetch(l), directiveEndif(l)
  PROVE  IInv'
  <1>0. TypeOK /\ SkipExplained
    BY DEF IInv
  <1>1. PassLine("blank") /\ status' \in Statuses
    BY <1>0 DEF directiveEndif, TypeOK
  <1>2. condStatuses \in Seq(CondStates) /\ nestCntr \in Nat /\ isSkip \in BOOLEAN
    BY <1>0 DEF TypeOK
  <1>3. CASE InNested /\ nestCntr' = nestCntr - 1 /\ UNCHANGED <<isSkip, condStatuses>>
    <2>1. nestCntr' \in Nat /\ isSkip
      BY <1>2, <1>3 DEF InNested
    <2>2. SkipExplained'
      BY <1>0, <1>2, <1>3, <2>1 DEF SkipExplained, GroupOpen, LastGroup
    <2> QED
      BY <1>0, <1>1, <1>2, <1>3, <2>1, <2>2, PassKeeps, FetchType DEF Whats
  <1>4. CASE /\ ~InNested /\ GroupOpen
             /\ condStatuses' = Front(condStatuses)
             /\ isSkip' = FALSE
             /\ UNCHANGED nestCntr
    <2>1. ~(nestCntr > 0)
      BY <1>0, <1>4 DEF SkipExplained, InNested
    <2>2. /\ condStatuses' \in Seq(CondStates)
          /\ Len(condStatuses') = Len(condStatuses) - 1
          /\ \A i \in 1 .. Len(condStatuses) - 1 : condStatuses'[i] = condStatuses[i]
      BY <1>2, <1>4, FrontType DEF GroupOpen
    <2>3. \A i \in 1 .. Len(condStatuses) - 1 : condStatuses'[i] # "IF_FALSE"
      BY <1>0, <2>2 DEF SkipExplained
    <2>4. condStatuses' # <<>> => condStatuses'[Len(condStatuses')] # "IF_FALSE"
      BY <1>2, <2>2, <2>3
    <2>5. \A i \in 1 .. Len(condStatuses') - 1 : condStatuses'[i] # "IF_FALSE"
      BY <1>2, <2>2, <2>3
    <2>6. SkipExplained'
      BY <1>4, <2>1, <2>4, <2>5 DEF SkipExplained, GroupOpen, LastGroup
    <2> QED
      BY <1>0, <1>1, <1>2, <1>4, <2>2, <2>6, PassKeeps, FetchType DEF Whats
  <1> QED
    BY <1>3, <1>4 DEF directiveEndif

(* #define and #undef change the macros and nothing else.                  *)
LEMMA DefineKeeps ==
  ASSUME IInv, NEW l \in SourceLines, Fetch(l), directiveDefine(l)
  PROVE  IInv'
  <1>0. TypeOK /\ SkipExplained
    BY DEF IInv
  <1>1. FinishLine(Top, "blank") /\ UNCHANGED <<status, conds, warps>>
    BY DEF directiveDefine
  <1>2. defines' \subseteq Macros
    BY <1>0, LineArgs DEF directiveDefine, TypeOK
  <1>3. TypeOK'
    BY <1>0, <1>1, <1>2, TopType, FinishType, FetchType, CondsKept DEF TypeOK, Whats
  <1>4. AlignedOutput'
    <2>1. /\ Uncut(out') = Uncut(out) + 1
          /\ globalLine' = globalLine + 1
          /\ Len(locations') = Len(locations)
      BY <1>0, <1>1, TopType, FinishType DEF Whats
    <2>2. Uncut(out) = globalLine - (Len(locations) - 1)
      BY DEF IInv, AlignedOutput, Depth
    <2>3. Len(locations) \in Nat /\ globalLine \in Nat
      BY <1>0, TopType DEF TypeOK
    <2> QED
      BY <2>1, <2>2, <2>3 DEF AlignedOutput, Depth
  <1> QED
    BY <1>0, <1>1, <1>3, <1>4, CondsKept DEF IInv

(* A position appended to the line map.                                    *)
LEMMA WarpType ==
  ASSUME TypeOK, NEW old \in Nat, NEW new \in Int, NEW name \in Files,
         warps' = Append(warps, Warp(old, new, name))
  PROVE  warps' \in Seq(WarpTypes) /\ warps' # <<>>
  <1>1. Warp(old, new, name) \in WarpTypes
    BY DEF Warp, WarpTypes
  <1>2. warps \in Seq(WarpTypes)
    BY DEF TypeOK
  <1> QED
    BY <1>1, <1>2

(* #line changes the number and name of the place, which stays a place.    *)
LEMMA LineKeeps ==
  ASSUME IInv, NEW l \in SourceLines, Fetch(l), directiveLine(l)
  PROVE  IInv'
  <1>0. TypeOK /\ SkipExplained
    BY DEF IInv
  <1> DEFINE named == Place(Top.src, Top.pos, l.num,
                            IF l.arg = "none" THEN Top.name ELSE l.arg)
             now == globalLine + 1
  <1>1. l.num \in Nat /\ (l.arg = "none" \/ l.arg \in Files)
    BY LineArgs DEF directiveLine
  <1>2. named \in PlaceTypes /\ named.name \in Files
    BY <1>0, <1>1, TopType DEF Place, PlaceTypes
  <1>3. CASE Stop("internal")
    BY <1>0, <1>3, StopKeeps, FetchType DEF Statuses
  <1>4. CASE /\ FinishLine(named, "blank")
             /\ warps' = Append(warps, Warp(now, l.num, named.name))
             /\ UNCHANGED <<status, conds, defines>>
    <2> HIDE DEF named
    <2>1. now \in Nat
      BY <1>0 DEF TypeOK
    <2>2. warps' \in Seq(WarpTypes) /\ warps' # <<>>
      BY <1>0, <1>1, <1>2, <1>4, <2>1, WarpType
    <2>3. TypeOK'
      BY <1>0, <1>2, <1>4, <2>2, FinishType, FetchType, CondsKept DEF TypeOK, Whats
    <2>4. AlignedOutput'
      <3>1. /\ Uncut(out') = Uncut(out) + 1
            /\ globalLine' = globalLine + 1
            /\ Len(locations') = Len(locations)
        BY <1>0, <1>2, <1>4, FinishType DEF Whats
      <3>2. Uncut(out) = globalLine - (Len(locations) - 1)
        BY DEF IInv, AlignedOutput, Depth
      <3>3. Len(locations) \in Nat /\ globalLine \in Nat
        BY <1>0, TopType DEF TypeOK
      <3> QED
        BY <3>1, <3>2, <3>3 DEF AlignedOutput, Depth
    <2> QED
      BY <1>0, <1>4, <2>3, <2>4, CondsKept DEF IInv
  <1> QED
    BY <1>3, <1>4 DEF directiveLine

(* One file more is open, and globalLine one more ahead of the output.     *)
LEMMA IncludeKeeps ==
  ASSUME IInv, NEW l \in SourceLines, Fetch(l), directiveInclude(l)
  PROVE  IInv'
  <1>0. TypeOK
    BY DEF IInv
  <1>1. l.arg \in Files
    BY LineArgs DEF directiveInclude
  <1>2. CASE \E reason \in {"error", "internal"} : Stop(reason)
    BY <1>0, <1>2, StopKeeps, FetchType DEF Statuses
  <1>3. CASE /\ globalLine' = globalLine + 1
             /\ warps' = Append(warps, Warp(globalLine + 1, 0, l.arg))
             /\ locations' = Append(locations, OpenFile(l.arg))
             /\ isSkip' = FALSE /\ nestCntr' = 0 /\ condStatuses' = <<>>
             /\ UNCHANGED <<status, defines, out>>
    <2>1. globalLine \in Nat /\ globalLine + 1 \in Nat
      BY <1>0 DEF TypeOK
    <2>2. warps' \in Seq(WarpTypes) /\ warps' # <<>>
      BY <1>0, <1>1, <1>3, <2>1, WarpType
    <2>3. OpenFile(l.arg) \in PlaceTypes
      BY <1>1 DEF OpenFile, Place, PlaceTypes
    <2>4. locations \in Seq(PlaceTypes)
      BY <1>0 DEF TypeOK
    <2>5. locations' \in Seq(PlaceTypes) /\ locations' # <<>> /\ Len(locations') = Len(locations) + 1
      BY <1>3, <2>3, <2>4
    <2>6. SkipExplained'
      <3>1. \A i \in 1 .. Len(condStatuses') - 1 : FALSE
        BY <1>3
      <3>2. ~GroupOpen' /\ ~isSkip' /\ ~(nestCntr' > 0)
        BY <1>3 DEF GroupOpen
      <3> QED
        BY <3>1, <3>2 DEF SkipExplained
    <2>7. TypeOK'
      <3>1. isSkip' \in BOOLEAN /\ nestCntr' \in Nat /\ condStatuses' \in Seq(CondStates)
        <4>1. <<>> \in Seq(CondStates)
          OBVIOUS
        <4>2. condStatuses' = <<>> /\ isSkip' = FALSE /\ nestCntr' = 0
          BY <1>3
        <4> QED
          BY <4>1, <4>2
      <3>2. UNCHANGED <<status, defines, out>> /\ globalLine' \in Nat
        BY <1>3, <2>1
      <3> QED
        BY <1>0, <2>2, <2>5, <3>1, <3>2, FetchType DEF TypeOK
    <2>8. AlignedOutput'
      BY <1>0, <1>3, <2>1, <2>5, TopType DEF IInv, AlignedOutput, Depth
    <2> QED
      BY <2>6, <2>7, <2>8 DEF IInv
  <1> QED
    BY <1>2, <1>3 DEF directiveInclude

(* One file less is open, and the line that waited for it is written.      *)
LEMMA EndIncludeKeeps ==
  ASSUME IInv, EndInclude
  PROVE  IInv'
  <1>0. TypeOK /\ SkipExplained
    BY DEF IInv
  <1> DEFINE back == locations[Len(locations) - 1]
  <1>1. /\ locations \in Seq(PlaceTypes) /\ Len(locations) \in Nat /\ Len(locations) > 1
        /\ globalLine \in Nat
    BY <1>0, TopType DEF EndInclude, TypeOK
  <1>2. back \in PlaceTypes
    BY <1>1
  <1>3. NoEnd
    BY DEF EndInclude
  <1> HIDE DEF back
  <1>4. CASE Stop("internal")
    BY <1>0, <1>3, <1>4, StopKeeps, NoEndType DEF Statuses
  <1>5. CASE /\ warps' = Append(warps, Warp(globalLine, back.line - 1, back.name))
             /\ locations' = Append(Front(Front(locations)), NextLine(back))
             /\ out' = Append(out, Written(back, Len(locations) - 2, "blank"))
             /\ UNCHANGED <<status, globalLine, conds, defines>>
    <2>1. /\ back.line - 1 \in Int /\ back.name \in Files
          /\ NextLine(back) \in PlaceTypes
          /\ Written(back, Len(locations) - 2, "blank") \in OutTypes
      BY <1>1, <1>2 DEF PlaceTypes, NextLine, Place, Written, OutTypes
    <2>2. warps' \in Seq(WarpTypes) /\ warps' # <<>>
      BY <1>0, <1>1, <1>5, <2>1, WarpType
    <2>3. Front(locations) \in Seq(PlaceTypes) /\ Len(Front(locations)) = Len(locations) - 1
      BY <1>1, FrontType
    <2>4. Front(locations) # <<>>
      BY <1>1, <2>3
    <2>5. /\ Front(Front(locations)) \in Seq(PlaceTypes)
          /\ Len(Front(Front(locations))) = Len(locations) - 2
      BY <1>1, <2>3, <2>4, FrontType
    <2>6. /\ locations' \in Seq(PlaceTypes)
          /\ Len(locations') = Len(locations) - 1
          /\ locations' # <<>>
      BY <1>1, <1>5, <2>1, <2>5
    <2>7. out' \in Seq(OutTypes) /\ Uncut(out') = Uncut(out) + 1 /\ Uncut(out) \in Nat
      <3>1. out \in Seq(OutTypes)
        BY <1>0 DEF TypeOK
      <3>2. Written(back, Len(locations) - 2, "blank").what # "cut"
        BY DEF Written
      <3> QED
        BY <1>5, <2>1, <3>1, <3>2, UncutAppend
    <2>8. TypeOK'
      BY <1>0, <1>3, <1>5, <2>2, <2>6, <2>7, NoEndType, CondsKept DEF TypeOK
    <2>9. AlignedOutput'
      <3>1. Uncut(out) = globalLine - (Len(locations) - 1)
        BY DEF IInv, AlignedOutput, Depth
      <3> QED
        BY <1>1, <1>5, <2>6, <2>7, <3>1 DEF AlignedOutput, Depth
    <2> QED
      BY <1>0, <1>5, <2>8, <2>9, CondsKept DEF IInv
  <1> QED
    BY <1>4, <1>5 DEF EndInclude, back

(* The end of the root file, and one inside a comment, a literal or an     *)
(* argument, only stop.                                                    *)
LEMMA EndsKeep ==
  ASSUME IInv, EndRoot \/ EndWithin
  PROVE  IInv'
  BY NoEndType, StopKeeps DEF EndRoot, EndWithin, Statuses, IInv

(* At the start the root file is open and no group is.                     *)
LEMMA InitHolds ==
  ASSUME Init
  PROVE  IInv
  <1>1. locations \in Seq(PlaceTypes) /\ locations # <<>> /\ Len(locations) = 1
    <2>1. OpenFile(Root) \in PlaceTypes
      BY PreprocessorAssumption DEF OpenFile, Place, PlaceTypes
    <2> QED
      BY <2>1 DEF Init
  <1>2. warps \in Seq(WarpTypes) /\ warps # <<>>
    <2>1. Warp(0, 0, Root) \in WarpTypes
      BY PreprocessorAssumption DEF Warp, WarpTypes
    <2> QED
      BY <2>1 DEF Init
  <1>3. TypeOK
    <2>1. text \in [Files -> Seq(SourceLines)]
      BY DEF Init
    <2>2. condStatuses \in Seq(CondStates) /\ out \in Seq(OutTypes)
      BY DEF Init
    <2>3. /\ whole \subseteq Files /\ status \in Statuses /\ isSkip \in BOOLEAN
          /\ nestCntr \in Nat /\ defines \subseteq Macros /\ globalLine \in Nat
      BY PreprocessorAssumption DEF Init, Statuses, Reading
    <2> QED
      BY <1>1, <1>2, <2>1, <2>2, <2>3 DEF TypeOK
  <1>4. SkipExplained
    <2>1. \A i \in 1 .. Len(condStatuses) - 1 : FALSE
      BY DEF Init
    <2>2. ~GroupOpen /\ ~isSkip /\ ~(nestCntr > 0)
      BY DEF Init, GroupOpen
    <2> QED
      BY <2>1, <2>2 DEF SkipExplained
  <1>5. AlignedOutput
    <2>1. Uncut(out) = 0 /\ globalLine = 0
      <3>1. {i \in DOMAIN out : out[i].what # "cut"} = {} /\ globalLine = 0
        BY DEF Init
      <3> QED
        BY <3>1, FS_EmptySet DEF Uncut
    <2> QED
      BY <1>1, <2>1 DEF AlignedOutput, Depth
  <1> QED
    BY <1>3, <1>4, <1>5 DEF IInv

(* Every step keeps the invariant.                                         *)
LEMMA NextKeeps ==
  ASSUME IInv, [Next]_vars
  PROVE  IInv'
  <1>1. ASSUME NEW l \in SourceLines, Fetch(l), ProcessLine(l)
        PROVE  IInv'
    BY <1>1, SkipLineKeeps, SkipUnknownKeeps, PassTextKeeps, RefusalsKeep, IfdefKeeps,
       ElseKeeps, EndifKeeps, DefineKeeps, WarningKeeps, LineKeeps, IncludeKeeps
       DEF ProcessLine, TextLine
  <1>2. ASSUME NEW l \in SourceLines, Fetch(l),
               CommentLine(l) \/ LiteralLine(l) \/ ArgumentLine(l)
        PROVE  IInv'
    BY <1>2, CommentLineKeeps, LiteralLineKeeps, ArgumentLineKeeps
  <1>3. CASE UNCHANGED vars
    BY <1>3, CondsKept
       DEF IInv, TypeOK, AlignedOutput, Depth, vars, source, places, conds
  <1> QED
    BY <1>1, <1>2, <1>3, EndIncludeKeeps, EndsKeep DEF Next

(* Type correctness: the location counters stay natural numbers, the root  *)
(* file stays open, and nestCntr never falls below zero.                   *)
THEOREM PreprocessorTypeCorrect == Spec => []TypeOK
<1>1. Init => IInv
  BY InitHolds
<1>2. IInv /\ [Next]_vars => IInv'
  BY NextKeeps
<1>3. IInv => TypeOK
  BY DEF IInv
<1> QED
  BY <1>1, <1>2, <1>3, PTL DEF Spec

(* isSkip, nestCntr and condStatuses agree after any sequence of lines, in *)
(* any nesting of files, balanced or not.                                  *)
THEOREM SkipIsExplained == Spec => []SkipExplained
<1>1. Init => IInv
  BY InitHolds
<1>2. IInv /\ [Next]_vars => IInv'
  BY NextKeeps
<1>3. IInv => SkipExplained
  BY DEF IInv
<1> QED
  BY <1>1, <1>2, <1>3, PTL DEF Spec

(* globalLine is ahead of the lines written by the open includes, and      *)
(* behind them by the line feeds that character literals take, whatever    *)
(* the files hold.                                                         *)
THEOREM OutputAligned == Spec => []AlignedOutput
<1>1. Init => IInv
  BY InitHolds
<1>2. IInv /\ [Next]_vars => IInv'
  BY NextKeeps
<1>3. IInv => AlignedOutput
  BY DEF IInv
<1> QED
  BY <1>1, <1>2, <1>3, PTL DEF Spec

-----------------------------------------------------------------------------
(* The refinement.  Outside a dropped group every entry of condStatuses is *)
(* a group that is kept, so the abstract stack is active exactly when      *)
(* isSkip is false; the rest follows handler by handler.                   *)

(* What a line of output shows: one that a literal ends is text.           *)
Shows(e) == IF e.what = "cut" THEN "shown" ELSE e.what

(* What each line shows is a sequence as long as the output.               *)
LEMMA ShownType ==
  ASSUME NEW o \in Seq(OutTypes)
  PROVE  /\ ShownOf(o) \in Seq(Whats)
         /\ Len(ShownOf(o)) = Len(o)
         /\ \A i \in 1 .. Len(o) : ShownOf(o)[i] = Shows(o[i])
  <1>1. Len(o) \in Nat /\ DOMAIN o = 1 .. Len(o) /\ \A i \in 1 .. Len(o) : o[i] \in OutTypes
    OBVIOUS
  <1>2. \A i \in 1 .. Len(o) : Shows(o[i]) \in Whats
    BY <1>1 DEF OutTypes, Whats, Shows
  <1>3. ShownOf(o) = [i \in 1 .. Len(o) |-> Shows(o[i])]
    BY <1>1 DEF ShownOf, Shows
  <1> QED
    BY <1>1, <1>2, <1>3

(* A line more of output is a line more shown, hidden or blank.            *)
LEMMA ShownAppend ==
  ASSUME NEW o \in Seq(OutTypes), NEW e \in OutTypes
  PROVE  ShownOf(Append(o, e)) = Append(ShownOf(o), Shows(e))
  <1>1. /\ ShownOf(o) \in Seq(Whats) /\ Len(ShownOf(o)) = Len(o)
        /\ \A i \in 1 .. Len(o) : ShownOf(o)[i] = Shows(o[i])
    BY ShownType
  <1>2. /\ Append(o, e) \in Seq(OutTypes) /\ Len(Append(o, e)) = Len(o) + 1
        /\ \A i \in 1 .. Len(o) : Append(o, e)[i] = o[i]
        /\ Append(o, e)[Len(o) + 1] = e
    OBVIOUS
  <1> DEFINE oe == Append(o, e)
  <1> HIDE DEF oe
  <1>3. /\ ShownOf(oe) \in Seq(Whats) /\ Len(ShownOf(oe)) = Len(oe)
        /\ \A i \in 1 .. Len(oe) : ShownOf(oe)[i] = Shows(oe[i])
    <2>1. oe \in Seq(OutTypes)
      BY <1>2 DEF oe
    <2> QED
      BY <2>1, ShownType
  <1>4. Shows(e) \in Whats
    BY DEF OutTypes, Whats, Shows
  <1>5. /\ Append(ShownOf(o), Shows(e)) \in Seq(Whats)
        /\ Len(Append(ShownOf(o), Shows(e))) = Len(o) + 1
        /\ \A i \in 1 .. Len(o) : Append(ShownOf(o), Shows(e))[i] = Shows(o[i])
        /\ Append(ShownOf(o), Shows(e))[Len(o) + 1] = Shows(e)
    BY <1>1, <1>4
  <1>6. /\ Len(oe) = Len(o) + 1
        /\ \A i \in 1 .. Len(o) : oe[i] = o[i]
        /\ oe[Len(o) + 1] = e
    BY <1>2 DEF oe
  <1>7. \A i \in 1 .. Len(o) + 1 : ShownOf(oe)[i] = Append(ShownOf(o), Shows(e))[i]
    BY <1>3, <1>5, <1>6
  <1>8. ShownOf(oe) = Append(ShownOf(o), Shows(e))
    BY <1>3, <1>5, <1>6, <1>7, SeqEqual
  <1> QED
    BY <1>8 DEF oe

(* A finished line adds its kind to the text shown.                        *)
LEMMA FinishShown ==
  ASSUME TypeOK, NEW loc \in PlaceTypes, NEW what \in Whats, FinishLine(loc, what)
  PROVE  ShownOf(out)' = Append(ShownOf(out), what)
  <1>1. Written(loc, Depth, what) \in OutTypes /\ Shows(Written(loc, Depth, what)) = what
    BY TopType DEF Written, OutTypes, Depth, PlaceTypes, Whats, Shows
  <1>2. out \in Seq(OutTypes)
    BY DEF TypeOK
  <1> QED
    BY <1>1, <1>2, ShownAppend DEF FinishLine

(* So does one that is only passed.                                        *)
LEMMA PassShown ==
  ASSUME TypeOK, NEW what \in Whats, PassLine(what)
  PROVE  ShownOf(out)' = Append(ShownOf(out), what)
  BY FinishShown, TopType DEF PassLine

(* The abstract stack: first the groups of condStatuses, then the dead     *)
(* ones.                                                                   *)
GroupsShape ==
  /\ AbstractGroups \in Seq(Groups!GroupStates)
  /\ Len(AbstractGroups) = Len(condStatuses) + nestCntr
  /\ \A i \in 1 .. Len(condStatuses) : AbstractGroups[i] = GroupOf(condStatuses, isSkip, i)
  /\ \A i \in Len(condStatuses) + 1 .. Len(condStatuses) + nestCntr :
        AbstractGroups[i] = "dead"

(* The stack of groups is one of groups.                                   *)
LEMMA GroupsType == TypeOK => GroupsShape
  <1> SUFFICES ASSUME TypeOK
               PROVE  GroupsShape
    OBVIOUS
  <1>1. condStatuses \in Seq(CondStates) /\ nestCntr \in Nat /\ Len(condStatuses) \in Nat
    BY DEF TypeOK
  <1>2. \A i \in 1 .. Len(condStatuses) : GroupOf(condStatuses, isSkip, i) \in Groups!GroupStates
    BY <1>1 DEF GroupOf, CondStates, Groups!GroupStates
  <1>3. "dead" \in Groups!GroupStates
    BY DEF Groups!GroupStates
  <1> DEFINE n == Len(condStatuses) + nestCntr
             g(i) == IF i <= Len(condStatuses) THEN GroupOf(condStatuses, isSkip, i) ELSE "dead"
  <1>4. n \in Nat /\ \A i \in 1 .. n : g(i) \in Groups!GroupStates
    BY <1>1, <1>2, <1>3
  <1>5. AbstractGroups = [i \in 1 .. n |-> g(i)]
    BY DEF AbstractGroups
  <1>6. \A i \in 1 .. Len(condStatuses) : g(i) = GroupOf(condStatuses, isSkip, i) /\ i \in 1 .. n
    BY <1>1
  <1>7. \A i \in Len(condStatuses) + 1 .. n : g(i) = "dead" /\ i \in 1 .. n
    BY <1>1
  <1> HIDE DEF n, g
  <1>8. AbstractGroups \in Seq(Groups!GroupStates) /\ Len(AbstractGroups) = n
    BY <1>4, <1>5
  <1>9. /\ \A i \in 1 .. Len(condStatuses) : AbstractGroups[i] = GroupOf(condStatuses, isSkip, i)
        /\ \A i \in Len(condStatuses) + 1 .. n : AbstractGroups[i] = "dead"
    BY <1>5, <1>6, <1>7
  <1> QED
    BY <1>8, <1>9 DEF n, GroupsShape

(* The same of the next state.                                             *)
LEMMA GroupsTypeNext == TypeOK' => GroupsShape'
  <1>1. TypeOK => GroupsShape
    BY GroupsType
  <1> QED
    BY <1>1, PTL

(* Every group is kept exactly when lines are not skipped.                 *)
LEMMA ActiveWhenNotSkipped ==
  ASSUME TypeOK, SkipExplained
  PROVE  Groups!Active <=> ~isSkip
  <1>0. condStatuses \in Seq(CondStates) /\ nestCntr \in Nat /\ Len(condStatuses) \in Nat
    BY DEF TypeOK
  <1>1. CASE isSkip
    <2>1. condStatuses # <<>> /\ LastGroup \in CondStates /\ LastGroup # "IF_TRUE"
      BY <1>0, <1>1 DEF SkipExplained, GroupOpen, LastGroup
    <2>2. Len(condStatuses) \in 1 .. Len(condStatuses)
      BY <1>0, <2>1
    <2>3. GroupOf(condStatuses, isSkip, Len(condStatuses)) \in {"off", "elseOff"}
      BY <1>1, <2>1 DEF GroupOf, LastGroup, CondStates
    <2>4. AbstractGroups[Len(condStatuses)] \in {"off", "elseOff"}
      BY <2>2, <2>3, GroupsType DEF GroupsShape
    <2>5. Len(condStatuses) \in DOMAIN AbstractGroups
      BY <1>0, <2>2, GroupsType DEF GroupsShape
    <2> QED
      BY <1>1, <2>4, <2>5 DEF Groups!Active
  <1>2. CASE ~isSkip
    <2>1. nestCntr = 0
      BY <1>0, <1>2 DEF SkipExplained
    <2>2. \A i \in 1 .. Len(condStatuses) : condStatuses[i] \in {"IF_TRUE", "ELSE"}
      BY <1>0, <1>2 DEF SkipExplained, GroupOpen, LastGroup, CondStates
    <2>3. \A i \in 1 .. Len(condStatuses) : GroupOf(condStatuses, isSkip, i) \in {"on", "elseOn"}
      BY <1>2, <2>2 DEF GroupOf
    <2>4. DOMAIN AbstractGroups = 1 .. Len(condStatuses)
      BY <1>0, <2>1, GroupsType DEF GroupsShape
    <2> QED
      BY <1>2, <2>3, <2>4, GroupsType DEF Groups!Active, GroupsShape
  <1> QED
    BY <1>1, <1>2 DEF TypeOK

Running == status \in Reading

(* Nothing is skipped where a comment, a literal or an argument goes on.   *)
WholeLines == status \in Within => ~isSkip

(* Only text and #warning lead there, and what is skipped does not change  *)
(* before they are left.                                                   *)
LEMMA WithinKept ==
  ASSUME WholeLines, [Next]_vars
  PROVE  WholeLines'
  <1>1. ASSUME NEW l, status = "run", ProcessLine(l)
        PROVE  WholeLines'
    <2>1. CASE TextLine(l) \/ directiveWarning(l)
      BY <2>1 DEF TextLine, PassText, directiveWarning, conds, WholeLines
    <2>2. CASE UNCHANGED status
      BY <1>1, <2>2 DEF WholeLines, Within
    <2>3. CASE \E reason \in {"error", "internal", "undefined"} : Stop(reason)
      BY <2>3 DEF Stop, WholeLines, Within
    <2> QED
      BY <1>1, <2>1, <2>2, <2>3
         DEF ProcessLine, SkipLine, SkipUnknown, Refuse, StrayElse, directiveIfdef,
             directiveElse, directiveEndif, directiveDefine, directiveLine, directiveInclude
  <1>2. ASSUME NEW l, status \in Within, CommentLine(l) \/ LiteralLine(l) \/ ArgumentLine(l)
        PROVE  WholeLines'
    <2>1. UNCHANGED conds
      BY <1>2 DEF CommentLine, InsideComment, LiteralLine, ArgumentLine, PassText, Stop
    <2> QED
      BY <1>2, <2>1 DEF WholeLines, conds
  <1>3. CASE EndInclude \/ EndRoot \/ EndWithin
    BY <1>3 DEF EndInclude, EndRoot, EndWithin, Stop, WholeLines, Within, conds
  <1>4. CASE UNCHANGED vars
    BY <1>4 DEF vars, conds, WholeLines
  <1> QED
    BY <1>1, <1>2, <1>3, <1>4 DEF Next, Within

(* The stack of groups depends on nothing but the three variables.         *)
LEMMA GroupsKept ==
  ASSUME UNCHANGED conds
  PROVE  AbstractGroups' = AbstractGroups
  BY DEF AbstractGroups, conds

(* Every way of stopping is the abstract one.                              *)
LEMMA StopStep ==
  ASSUME NEW reason \in {"done", "error", "internal", "undefined"}, Stop(reason)
  PROVE  Groups!Next
  <1>1. AbstractGroups' = AbstractGroups /\ ShownOf(out)' = ShownOf(out)
    BY GroupsKept DEF Stop, ShownOf
  <1>2. (status \notin Reading)' = TRUE
    BY DEF Stop, Reading, Within
  <1> QED
    BY <1>1, <1>2 DEF Groups!Next, Groups!Stop

(* A line without text that leaves the groups alone.                       *)
LEMMA BlankStep ==
  ASSUME TypeOK, Running, Running', PassLine("blank"), AbstractGroups' = AbstractGroups
  PROVE  Groups!Next
  <1>1. ShownOf(out)' = Append(ShownOf(out), "blank")
    BY PassShown DEF Whats
  <1> QED
    BY <1>1 DEF Groups!Next, Groups!Line, Groups!OtherLine, Groups!Blank, Running

(* Text is shown outside dropped groups and hidden inside.                 *)
LEMMA TextStep ==
  ASSUME TypeOK, SkipExplained, Running, Running',
         PassLine(IF isSkip THEN "hidden" ELSE "shown"), UNCHANGED conds
  PROVE  Groups!Next
  <1>1. ShownOf(out)' = Append(ShownOf(out), IF Groups!Active THEN "shown" ELSE "hidden")
    BY PassShown, ActiveWhenNotSkipped DEF Whats
  <1>2. AbstractGroups' = AbstractGroups
    BY GroupsKept
  <1> QED
    BY <1>1, <1>2 DEF Groups!Next, Groups!Line, Groups!Text, Running

(* A line of a dropped group is one the abstract stack drops.              *)
LEMMA SkipLineStep ==
  ASSUME IInv, Running, NEW l \in SourceLines, SkipLine(l)
  PROVE  Groups!Next
  <1>1. TypeOK /\ SkipExplained /\ isSkip /\ Running' /\ UNCHANGED conds
    BY DEF IInv, SkipLine, Running
  <1>2. CASE PassLine("hidden")
    BY <1>1, <1>2, TextStep
  <1>3. CASE PassLine("blank")
    BY <1>1, <1>3, BlankStep, GroupsKept
  <1> QED
    BY <1>2, <1>3 DEF SkipLine

(* An unknown directive of a dropped group gives two blank lines.          *)
LEMMA SkipUnknownStep ==
  ASSUME IInv, Running, NEW l \in SourceLines, SkipUnknown(l)
  PROVE  Groups!Next
  <1> DEFINE second == Place(Top.src, Top.pos, Top.line + 1, Top.name)
             one == Written(Top, Depth, "blank")
             two == Written(second, Depth, "blank")
  <1>1. TypeOK /\ Running' /\ UNCHANGED conds
    BY DEF IInv, SkipUnknown, Running
  <1>2. one \in OutTypes /\ two \in OutTypes /\ Shows(one) = "blank" /\ Shows(two) = "blank"
    BY <1>1, TopType DEF Written, OutTypes, Depth, Place, Shows
  <1>3. out' = Append(Append(out, one), two)
    BY DEF SkipUnknown
  <1> HIDE DEF one, two
  <1>4. out \in Seq(OutTypes) /\ Append(out, one) \in Seq(OutTypes)
    BY <1>1, <1>2 DEF TypeOK
  <1>5. ShownOf(out)' = Append(Append(ShownOf(out), "blank"), "blank")
    BY <1>2, <1>3, <1>4, ShownAppend
  <1> QED
    BY <1>1, <1>5, GroupsKept DEF Groups!Next, Groups!Line, Groups!OtherLine, Running

(* A line that a literal ends is text like any other.                      *)
LEMMA PassTextStep ==
  ASSUME IInv, Running, ~isSkip, NEW l \in SourceLines, PassText(l)
  PROVE  Groups!Next
  <1>1. TypeOK /\ SkipExplained /\ UNCHANGED conds /\ Running'
    BY DEF IInv, PassText, Running, Reading, Within
  <1>2. CASE PassLine("shown")
    BY <1>1, <1>2, TextStep
  <1>3. CASE out' = Append(out, Written(Top, Depth, "cut"))
    <2>1. /\ Written(Top, Depth, "cut") \in OutTypes
          /\ Shows(Written(Top, Depth, "cut")) = "shown"
      BY <1>1, TopType DEF Written, OutTypes, Depth, Shows
    <2>2. out \in Seq(OutTypes)
      BY <1>1 DEF TypeOK
    <2>3. ShownOf(out)' = Append(ShownOf(out), "shown")
      BY <1>3, <2>1, <2>2, ShownAppend
    <2> QED
      BY <1>1, <2>3, ActiveWhenNotSkipped, GroupsKept
         DEF Groups!Next, Groups!Line, Groups!Text, Running
  <1> QED
    BY <1>2, <1>3 DEF PassText

(* A line that writes nothing is none that the groups account for.         *)
LEMMA SilentStep ==
  ASSUME Running, Running', UNCHANGED <<conds, out>>
  PROVE  Groups!Next
  BY GroupsKept DEF Groups!Next, Groups!Line, Groups!OtherLine, Running, ShownOf

(* A #warning passes, or leaves its argument open.                         *)
LEMMA WarningStep ==
  ASSUME IInv, Running, NEW l \in SourceLines, directiveWarning(l)
  PROVE  Groups!Next
  <1>1. TypeOK /\ UNCHANGED conds /\ AbstractGroups' = AbstractGroups
    BY GroupsKept DEF IInv, directiveWarning
  <1>2. CASE PassLine("blank") /\ UNCHANGED status
    BY <1>1, <1>2, BlankStep DEF Running
  <1>3. CASE UNCHANGED out /\ status' = "argument"
    BY <1>1, <1>3, SilentStep DEF Running, Reading, Within
  <1> QED
    BY <1>2, <1>3 DEF directiveWarning

(* So do the lines that begin where a comment, a literal or an argument    *)
(* goes on.                                                                *)
LEMMA WithinStep ==
  ASSUME IInv, WholeLines, status \in Within, NEW l \in SourceLines,
         CommentLine(l) \/ LiteralLine(l) \/ ArgumentLine(l)
  PROVE  Groups!Next
  <1>1. TypeOK /\ ~isSkip /\ Running
    BY DEF IInv, WholeLines, Running, Reading
  <1>2. CASE PassText(l)
    BY <1>1, <1>2, PassTextStep
  <1>3. CASE Stop("error")
    BY <1>3, StopStep
  <1>4. CASE PassLine("blank") /\ UNCHANGED conds /\ (status' = status \/ status' = "run")
    <2>1. Running' /\ AbstractGroups' = AbstractGroups
      BY <1>1, <1>4, GroupsKept DEF Running, Reading
    <2> QED
      BY <1>1, <1>4, <2>1, BlankStep
  <1>5. CASE UNCHANGED <<status, conds, out>>
    BY <1>1, <1>5, SilentStep DEF Running
  <1> QED
    BY <1>2, <1>3, <1>4, <1>5 DEF CommentLine, InsideComment, LiteralLine, ArgumentLine

(* A #define or #undef is a blank line of the abstract stack.              *)
LEMMA DefineStep ==
  ASSUME IInv, Running, NEW l \in SourceLines, directiveDefine(l)
  PROVE  Groups!Next
  <1>1. TypeOK /\ UNCHANGED conds /\ Running' /\ FinishLine(Top, "blank")
    BY DEF IInv, directiveDefine, Running
  <1>2. ShownOf(out)' = Append(ShownOf(out), "blank")
    BY <1>1, FinishShown, TopType DEF Whats
  <1> QED
    BY <1>1, <1>2, GroupsKept
       DEF Groups!Next, Groups!Line, Groups!OtherLine, Groups!Blank, Running

(* So is a #line, unless the line map refuses it.                          *)
LEMMA LineStep ==
  ASSUME IInv, Running, NEW l \in SourceLines, directiveLine(l)
  PROVE  Groups!Next
  <1> DEFINE named == Place(Top.src, Top.pos, l.num,
                            IF l.arg = "none" THEN Top.name ELSE l.arg)
  <1>0. TypeOK
    BY DEF IInv
  <1>1. l.num \in Nat /\ (l.arg = "none" \/ l.arg \in Files)
    BY LineArgs DEF directiveLine
  <1>2. named \in PlaceTypes
    BY <1>0, <1>1, TopType DEF Place, PlaceTypes
  <1>3. CASE Stop("internal")
    BY <1>3, StopStep
  <1>4. CASE FinishLine(named, "blank") /\ UNCHANGED <<status, conds>>
    <2> HIDE DEF named
    <2>1. ShownOf(out)' = Append(ShownOf(out), "blank")
      BY <1>0, <1>2, <1>4, FinishShown DEF Whats
    <2>2. Running'
      BY <1>4 DEF Running
    <2> QED
      BY <1>4, <2>1, <2>2, GroupsKept
         DEF Groups!Next, Groups!Line, Groups!OtherLine, Groups!Blank, Running
  <1> QED
    BY <1>3, <1>4 DEF directiveLine

(* A group opened inside a dropped one is dead, and any other is kept or   *)
(* dropped by its condition; the groups around it stay as they are.        *)
LEMMA IfdefStep ==
  ASSUME IInv, IInv', Running, NEW l \in SourceLines, directiveIfdef(l)
  PROVE  Groups!Next
  <1>0. TypeOK /\ SkipExplained /\ TypeOK' /\ Running' /\ PassLine("blank")
    BY DEF IInv, directiveIfdef, Running
  <1>1. ShownOf(out)' = Append(ShownOf(out), "blank")
    BY <1>0, PassShown DEF Whats
  <1>2. /\ condStatuses \in Seq(CondStates) /\ nestCntr \in Nat /\ Len(condStatuses) \in Nat
        /\ condStatuses' \in Seq(CondStates) /\ Len(condStatuses') \in Nat
    BY <1>0 DEF TypeOK
  <1>3. GroupsShape /\ GroupsShape'
    BY <1>0, GroupsType, GroupsTypeNext
  <1>4. ASSUME NEW state \in Groups!GroupStates,
               Len(condStatuses') + nestCntr' = Len(condStatuses) + nestCntr + 1,
               \A i \in 1 .. Len(condStatuses) + nestCntr :
                  AbstractGroups'[i] = AbstractGroups[i],
               AbstractGroups'[Len(condStatuses) + nestCntr + 1] = state
        PROVE  AbstractGroups' = Append(AbstractGroups, state)
    <2> DEFINE G == AbstractGroups
               H == AbstractGroups'
               n == Len(condStatuses) + nestCntr
    <2>1. G \in Seq(Groups!GroupStates) /\ H \in Seq(Groups!GroupStates)
      BY <1>3 DEF GroupsShape
    <2>2. n \in Nat /\ Len(G) = n /\ Len(H) = n + 1
      BY <1>2, <1>3, <1>4 DEF GroupsShape
    <2>3. (\A i \in 1 .. n : H[i] = G[i]) /\ H[n + 1] = state
      BY <1>4
    <2> HIDE DEF G, H, n
    <2>4. /\ Append(G, state) \in Seq(Groups!GroupStates)
          /\ Len(Append(G, state)) = n + 1
          /\ \A i \in 1 .. n : Append(G, state)[i] = G[i]
          /\ Append(G, state)[n + 1] = state
      BY <1>4, <2>1, <2>2
    <2>5. \A i \in 1 .. n + 1 : H[i] = Append(G, state)[i]
      BY <2>2, <2>3, <2>4
    <2>6. H = Append(G, state)
      BY <2>1, <2>2, <2>4, <2>5, SeqEqual
    <2> QED
      BY <2>6 DEF G, H
  <1>5. CASE isSkip /\ nestCntr' = nestCntr + 1 /\ UNCHANGED <<isSkip, condStatuses>>
    <2>1. \A i \in 1 .. Len(condStatuses) : AbstractGroups'[i] = AbstractGroups[i]
      BY <1>3, <1>5 DEF GroupsShape
    <2>2. \A i \in Len(condStatuses) + 1 .. Len(condStatuses) + nestCntr :
             AbstractGroups'[i] = AbstractGroups[i]
      BY <1>2, <1>3, <1>5 DEF GroupsShape
    <2>3. \A i \in 1 .. Len(condStatuses) + nestCntr :
             i \in 1 .. Len(condStatuses)
               \/ i \in Len(condStatuses) + 1 .. Len(condStatuses) + nestCntr
      BY <1>2
    <2>4. AbstractGroups'[Len(condStatuses) + nestCntr + 1] = "dead"
      BY <1>2, <1>3, <1>5 DEF GroupsShape
    <2>5. Len(condStatuses') + nestCntr' = Len(condStatuses) + nestCntr + 1
      BY <1>2, <1>5
    <2>6. AbstractGroups' = Append(AbstractGroups, "dead")
      BY <1>4, <2>1, <2>2, <2>3, <2>4, <2>5 DEF Groups!GroupStates
    <2>7. ~Groups!Active
      BY <1>0, <1>5, ActiveWhenNotSkipped
    <2> QED
      BY <1>0, <1>1, <2>6, <2>7 DEF Groups!Next, Groups!Line, Groups!Open, Groups!Blank, Running
  <1>6. ASSUME ~isSkip, NEW kept \in BOOLEAN, isSkip' = ~kept, UNCHANGED nestCntr,
               condStatuses' = Append(condStatuses, IF kept THEN "IF_TRUE" ELSE "IF_FALSE")
        PROVE  Groups!Next
    <2> DEFINE new == IF kept THEN "IF_TRUE" ELSE "IF_FALSE"
               state == IF kept THEN "on" ELSE "off"
    <2>1. nestCntr = 0 /\ nestCntr' = 0
      BY <1>0, <1>2, <1>6 DEF SkipExplained
    <2>2. new \in CondStates
      BY DEF CondStates
    <2>3. condStatuses' = Append(condStatuses, new)
      BY <1>6
    <2>4. (new = "IF_TRUE" /\ state = "on") \/ (new = "IF_FALSE" /\ state = "off")
      OBVIOUS
    <2> HIDE DEF new, state
    <2>5. /\ Len(condStatuses') = Len(condStatuses) + 1
          /\ \A i \in 1 .. Len(condStatuses) : condStatuses'[i] = condStatuses[i]
          /\ condStatuses'[Len(condStatuses) + 1] = new
      BY <1>2, <2>2, <2>3
    <2>6. \A i \in 1 .. Len(condStatuses) :
             /\ GroupOf(condStatuses', isSkip', i) = GroupOf(condStatuses, isSkip, i)
             /\ i \in 1 .. Len(condStatuses')
      <3>1. \A i \in 1 .. Len(condStatuses) :
               /\ condStatuses'[i] = condStatuses[i]
               /\ condStatuses[i] \in {"IF_TRUE", "IF_FALSE", "ELSE"}
               /\ i # Len(condStatuses') /\ i \in 1 .. Len(condStatuses')
        BY <1>2, <2>5 DEF CondStates
      <3> QED
        BY <1>6, <3>1 DEF GroupOf
    <2>7. \A i \in 1 .. Len(condStatuses) : AbstractGroups'[i] = AbstractGroups[i]
      BY <1>3, <2>6 DEF GroupsShape
    <2>8. GroupOf(condStatuses', isSkip', Len(condStatuses) + 1) = state
      BY <1>2, <2>4, <2>5 DEF GroupOf
    <2>9. AbstractGroups'[Len(condStatuses) + 1] = state
      BY <1>2, <1>3, <2>5, <2>8 DEF GroupsShape
    <2>10. state \in Groups!GroupStates
      BY <2>4 DEF Groups!GroupStates
    <2>11. AbstractGroups' = Append(AbstractGroups, state)
      BY <1>2, <1>4, <2>1, <2>5, <2>7, <2>9, <2>10
    <2>12. Groups!Active
      BY <1>0, <1>6, ActiveWhenNotSkipped
    <2> QED
      BY <1>0, <1>1, <2>4, <2>11, <2>12
         DEF Groups!Next, Groups!Line, Groups!Open, Groups!Blank, Running
  <1>7. CASE ~isSkip /\ UNCHANGED nestCntr
    <2> DEFINE kept == l.arg \in defines \/ l.kind = "ifndef"
    <2>1. /\ kept \in BOOLEAN /\ isSkip' = ~kept
          /\ condStatuses' = Append(condStatuses, IF kept THEN "IF_TRUE" ELSE "IF_FALSE")
      BY <1>7 DEF directiveIfdef
    <2> HIDE DEF kept
    <2> QED
      BY <1>6, <1>7, <2>1
  <1> QED
    BY <1>5, <1>7 DEF directiveIfdef

(* #else inside a dropped group leaves the dead groups dead; any other     *)
(* turns the innermost group over, or is refused a second time.            *)
LEMMA ElseStep ==
  ASSUME IInv, IInv', Running, NEW l \in SourceLines, directiveElse(l)
  PROVE  Groups!Next
  <1>0. TypeOK /\ SkipExplained /\ TypeOK' /\ GroupsShape /\ GroupsShape'
    BY GroupsType, GroupsTypeNext DEF IInv
  <1>1. /\ condStatuses \in Seq(CondStates) /\ nestCntr \in Nat /\ Len(condStatuses) \in Nat
        /\ isSkip \in BOOLEAN
    BY <1>0 DEF TypeOK
  <1> DEFINE last == Len(AbstractGroups)
  <1>2. CASE InNested /\ PassLine("blank") /\ UNCHANGED <<status, conds>>
    <2>1. last \in Len(condStatuses) + 1 .. Len(condStatuses) + nestCntr
      BY <1>0, <1>1, <1>2 DEF GroupsShape, InNested
    <2>2. AbstractGroups[last] = "dead" /\ AbstractGroups # <<>>
      BY <1>0, <1>1, <2>1 DEF GroupsShape
    <2>3. AbstractGroups' = AbstractGroups /\ Running'
      BY <1>2, GroupsKept DEF Running
    <2>4. ShownOf(out)' = Append(ShownOf(out), "blank")
      BY <1>0, <1>2, PassShown DEF Whats
    <2> QED
      BY <2>2, <2>3, <2>4 DEF Groups!Next, Groups!Line, Groups!Else, Groups!Blank, Running
  <1>3. CASE /\ ~InNested /\ GroupOpen /\ PassLine("blank")
             /\ LastGroup # "ELSE"
             /\ isSkip' = (LastGroup = "IF_TRUE")
             /\ condStatuses' = [condStatuses EXCEPT ![Len(condStatuses)] = "ELSE"]
             /\ UNCHANGED <<status, nestCntr>>
    <2> DEFINE n == Len(condStatuses)
               new == IF LastGroup = "IF_TRUE" THEN "elseOff" ELSE "elseOn"
               G == AbstractGroups
               H == AbstractGroups'
    <2>1. nestCntr = 0 /\ nestCntr' = 0
      BY <1>0, <1>1, <1>3 DEF SkipExplained, InNested
    <2>2. n \in Nat /\ n > 0 /\ LastGroup \in {"IF_TRUE", "IF_FALSE"}
      BY <1>1, <1>3 DEF GroupOpen, LastGroup, CondStates
    <2>3. /\ Len(condStatuses') = n
          /\ condStatuses'[n] = "ELSE"
          /\ \A i \in 1 .. n - 1 : condStatuses'[i] = condStatuses[i]
      BY <1>1, <1>3, <2>2
    <2>4. /\ G \in Seq(Groups!GroupStates) /\ H \in Seq(Groups!GroupStates)
          /\ Len(G) = n /\ Len(H) = n
          /\ \A i \in 1 .. n : G[i] = GroupOf(condStatuses, isSkip, i)
          /\ \A i \in 1 .. n : H[i] = GroupOf(condStatuses', isSkip', i)
      BY <1>0, <2>1, <2>2, <2>3 DEF GroupsShape
    <2>5. \A i \in 1 .. n - 1 : condStatuses[i] \in {"IF_TRUE", "ELSE"}
      BY <1>0, <1>1 DEF SkipExplained, CondStates
    <2>6. \A i \in 1 .. n - 1 : H[i] = G[i]
      <3>1. \A i \in 1 .. n - 1 : i \in 1 .. n /\ i # n
        BY <2>2
      <3>2. \A i \in 1 .. n - 1 :
               GroupOf(condStatuses', isSkip', i) = GroupOf(condStatuses, isSkip, i)
        BY <2>3, <2>5, <3>1 DEF GroupOf
      <3> QED
        BY <2>4, <3>1, <3>2
    <2>7. G[n] = IF LastGroup = "IF_TRUE" THEN "on" ELSE "off"
      BY <2>2, <2>4 DEF GroupOf, LastGroup
    <2>8. H[n] = new
      <3>1. n \in 1 .. n
        BY <2>2
      <3>2. isSkip' <=> LastGroup = "IF_TRUE"
        BY <1>3
      <3>3. GroupOf(condStatuses', isSkip', n) = new
        BY <2>3, <3>2 DEF GroupOf
      <3> QED
        BY <2>4, <3>1, <3>3
    <2>9. new \in Groups!GroupStates
      BY DEF Groups!GroupStates
    <2> HIDE DEF G, H, n, new
    <2>10. H = [G EXCEPT ![n] = new]
      <3>1. /\ [G EXCEPT ![n] = new] \in Seq(Groups!GroupStates)
            /\ Len([G EXCEPT ![n] = new]) = n
            /\ \A i \in 1 .. n : [G EXCEPT ![n] = new][i] = IF i = n THEN new ELSE G[i]
        BY <2>2, <2>4, <2>9, ExceptSeq
      <3>2. \A i \in 1 .. n : H[i] = [G EXCEPT ![n] = new][i]
        BY <2>2, <2>6, <2>8, <3>1
      <3> QED
        BY <2>4, <3>1, <3>2, SeqEqual
    <2>11. ShownOf(out)' = Append(ShownOf(out), "blank") /\ Running'
      BY <1>0, <1>3, PassShown DEF Whats, Running
    <2>12. G # <<>>
      BY <2>2, <2>4
    <2>13. CASE LastGroup = "IF_TRUE"
      BY <2>4, <2>7, <2>10, <2>11, <2>12, <2>13
         DEF Groups!Next, Groups!Line, Groups!Else, Groups!Blank, Running, G, H, new
    <2>14. CASE LastGroup = "IF_FALSE"
      BY <2>4, <2>7, <2>10, <2>11, <2>12, <2>14
         DEF Groups!Next, Groups!Line, Groups!Else, Groups!Blank, Running, G, H, new
    <2> QED
      BY <2>2, <2>13, <2>14
  <1>4. CASE Stop("error")
    BY <1>4, StopStep
  <1> QED
    BY <1>2, <1>3, <1>4 DEF directiveElse

(* The innermost group is closed, dead or not, and the others stay.        *)
LEMMA EndifStep ==
  ASSUME IInv, IInv', Running, NEW l \in SourceLines, directiveEndif(l)
  PROVE  Groups!Next
  <1>0. /\ TypeOK /\ SkipExplained /\ TypeOK' /\ GroupsShape /\ GroupsShape'
        /\ Running' /\ PassLine("blank")
    BY GroupsType, GroupsTypeNext DEF IInv, directiveEndif, Running
  <1>1. /\ condStatuses \in Seq(CondStates) /\ nestCntr \in Nat /\ Len(condStatuses) \in Nat
        /\ isSkip \in BOOLEAN
    BY <1>0 DEF TypeOK
  <1>2. ShownOf(out)' = Append(ShownOf(out), "blank")
    BY <1>0, PassShown DEF Whats
  <1> DEFINE G == AbstractGroups
             H == AbstractGroups'
  <1>3. ASSUME Len(H) = Len(G) - 1, Len(G) > 0, \A i \in 1 .. Len(G) - 1 : H[i] = G[i]
        PROVE  Groups!Next
    <2>1. G \in Seq(Groups!GroupStates) /\ H \in Seq(Groups!GroupStates)
      BY <1>0 DEF GroupsShape
    <2> HIDE DEF G, H
    <2>2. Len(G) \in Nat /\ G # <<>>
      BY <1>3, <2>1
    <2>3. /\ Front(G) \in Seq(Groups!GroupStates)
          /\ Len(Front(G)) = Len(G) - 1
          /\ \A i \in 1 .. Len(G) - 1 : Front(G)[i] = G[i]
      BY <2>1, <2>2, FrontType
    <2>4. H = Front(G)
      BY <1>3, <2>1, <2>3, SeqEqual
    <2> QED
      BY <1>0, <1>2, <2>2, <2>4
         DEF Groups!Next, Groups!Line, Groups!Close, Groups!Blank, Running, G, H, Front
  <1>4. CASE InNested /\ nestCntr' = nestCntr - 1 /\ UNCHANGED <<isSkip, condStatuses>>
    <2> DEFINE n == Len(condStatuses)
    <2>1. /\ nestCntr > 0 /\ nestCntr' \in Nat
          /\ Len(G) = n + nestCntr /\ Len(H) = n + nestCntr - 1
      BY <1>0, <1>1, <1>4 DEF InNested, GroupsShape
    <2>2. \A i \in 1 .. n : H[i] = G[i]
      BY <1>0, <1>4 DEF GroupsShape
    <2>3. \A i \in n + 1 .. n + nestCntr - 1 : H[i] = G[i]
      BY <1>0, <1>1, <1>4, <2>1 DEF GroupsShape
    <2>4. \A i \in 1 .. Len(G) - 1 : i \in 1 .. n \/ i \in n + 1 .. n + nestCntr - 1
      BY <1>1, <2>1
    <2>5. Len(H) = Len(G) - 1 /\ Len(G) > 0
      BY <1>1, <2>1
    <2>6. \A i \in 1 .. Len(G) - 1 : H[i] = G[i]
      BY <2>2, <2>3, <2>4
    <2> HIDE DEF G, H
    <2> QED
      BY <1>3, <2>5, <2>6
  <1>5. CASE /\ ~InNested /\ GroupOpen
             /\ condStatuses' = Front(condStatuses)
             /\ isSkip' = FALSE
             /\ UNCHANGED nestCntr
    <2> DEFINE n == Len(condStatuses)
    <2>1. nestCntr = 0 /\ nestCntr' = 0
      BY <1>0, <1>1, <1>5 DEF SkipExplained, InNested
    <2>2. /\ n > 0 /\ Len(condStatuses') = n - 1
          /\ \A i \in 1 .. n - 1 : condStatuses'[i] = condStatuses[i]
      BY <1>1, <1>5, FrontType DEF GroupOpen
    <2>3. Len(G) = n /\ Len(H) = n - 1
      BY <1>0, <1>1, <2>1, <2>2 DEF GroupsShape
    <2>4. \A i \in 1 .. n - 1 : condStatuses[i] \in {"IF_TRUE", "ELSE"} /\ i # n /\ i \in 1 .. n
      BY <1>0, <1>1 DEF SkipExplained, CondStates
    <2>5. \A i \in 1 .. n - 1 :
             GroupOf(condStatuses', isSkip', i) = GroupOf(condStatuses, isSkip, i)
      BY <1>5, <2>2, <2>4 DEF GroupOf
    <2>6. \A i \in 1 .. n - 1 : /\ G[i] = GroupOf(condStatuses, isSkip, i)
                                /\ H[i] = GroupOf(condStatuses', isSkip', i)
      BY <1>0, <1>1, <2>1, <2>2, <2>4 DEF GroupsShape
    <2>7. \A i \in 1 .. Len(G) - 1 : H[i] = G[i]
      BY <2>3, <2>5, <2>6
    <2> HIDE DEF G, H
    <2> QED
      BY <1>1, <1>3, <2>2, <2>3, <2>7
  <1> QED
    BY <1>4, <1>5 DEF directiveEndif

(* A file is entered and left with no group open, so there is nothing to   *)
(* forget.                                                                 *)
LEMMA IncludeStep ==
  ASSUME WellFormed, IInv, IInv', Running, NEW l \in SourceLines, Fetch(l), directiveInclude(l)
  PROVE  Groups!Next
  <1>0. /\ TypeOK /\ SkipExplained /\ TypeOK' /\ GroupsShape /\ GroupsShape'
    BY GroupsType, GroupsTypeNext DEF IInv
  <1>1. CASE \E reason \in {"error", "internal"} : Stop(reason)
    BY <1>1, StopStep
  <1>2. CASE /\ isSkip' = FALSE /\ nestCntr' = 0 /\ condStatuses' = <<>>
             /\ UNCHANGED <<status, out>>
    <2>1. condStatuses = <<>>
      BY DEF Fetch, Suits, directiveInclude, GroupOpen
    <2>2. nestCntr = 0
      BY <1>0, <2>1 DEF SkipExplained, GroupOpen, TypeOK
    <2>3. AbstractGroups = <<>>
      BY <1>0, <2>1, <2>2 DEF GroupsShape
    <2>4. AbstractGroups' = <<>>
      BY <1>0, <1>2 DEF GroupsShape
    <2>5. ShownOf(out)' = ShownOf(out) /\ Running'
      BY <1>2 DEF ShownOf, Running
    <2> QED
      BY <2>3, <2>4, <2>5 DEF Groups!Next, Groups!Line, Groups!OtherLine, Running
  <1> QED
    BY <1>1, <1>2 DEF directiveInclude

(* The return from an include gives a blank line, between groups.          *)
LEMMA EndIncludeStep ==
  ASSUME IInv, EndInclude
  PROVE  Groups!Next
  <1>0. TypeOK
    BY DEF IInv
  <1> DEFINE back == locations[Len(locations) - 1]
             line == Written(back, Len(locations) - 2, "blank")
  <1>1. CASE Stop("internal")
    BY <1>1, StopStep
  <1>2. CASE out' = Append(out, line) /\ UNCHANGED <<status, conds>>
    <2>1. locations \in Seq(PlaceTypes) /\ Len(locations) \in Nat /\ Len(locations) > 1
      BY <1>0, TopType DEF EndInclude, TypeOK
    <2>2. back \in PlaceTypes
      BY <2>1
    <2> HIDE DEF back
    <2>3. line \in OutTypes /\ Shows(line) = "blank"
      BY <2>1, <2>2 DEF PlaceTypes, Written, OutTypes, Shows
    <2>4. out \in Seq(OutTypes)
      BY <1>0 DEF TypeOK
    <2> HIDE DEF line
    <2>5. ShownOf(out)' = Append(ShownOf(out), "blank")
      BY <1>2, <2>3, <2>4, ShownAppend
    <2>6. Running /\ Running'
      BY <1>2 DEF EndInclude, Running, Reading
    <2> QED
      BY <1>2, <2>5, <2>6, GroupsKept
         DEF Groups!Next, Groups!Line, Groups!OtherLine, Groups!Blank, Running
  <1> QED
    BY <1>1, <1>2 DEF EndInclude

(* Every step of the preprocessor is a step of the abstract stack.         *)
LEMMA NextRefines ==
  ASSUME WellFormed, IInv, WholeLines, [Next]_vars
  PROVE  [Groups!Next]_(Groups!vars)
  <1>0. IInv'
    BY NextKeeps
  <1>1. ASSUME NEW l \in SourceLines, status = "run", Fetch(l), ProcessLine(l)
        PROVE  Groups!Next
    <2>1. Running
      BY <1>1 DEF Running, Reading
    <2>2. CASE Refuse(l) \/ StrayElse(l)
      BY <2>2, StopStep DEF Refuse, StrayElse
    <2>3. CASE directiveIfdef(l) \/ directiveElse(l) \/ directiveEndif(l)
      BY <1>0, <2>1, <2>3, IfdefStep, ElseStep, EndifStep
    <2>4. CASE directiveInclude(l)
      BY <1>0, <1>1, <2>1, <2>4, IncludeStep
    <2>5. CASE \/ SkipLine(l) \/ SkipUnknown(l) \/ TextLine(l)
               \/ directiveDefine(l) \/ directiveWarning(l) \/ directiveLine(l)
      BY <2>1, <2>5, SkipLineStep, SkipUnknownStep, PassTextStep, WarningStep, DefineStep,
         LineStep DEF TextLine
    <2> QED
      BY <1>1, <2>2, <2>3, <2>4, <2>5 DEF ProcessLine
  <1>2. ASSUME NEW l \in SourceLines, status \in Within,
               CommentLine(l) \/ LiteralLine(l) \/ ArgumentLine(l)
        PROVE  Groups!Next
    BY <1>2, WithinStep
  <1>3. CASE EndRoot \/ EndWithin
    BY <1>3, StopStep DEF EndRoot, EndWithin
  <1>4. CASE UNCHANGED vars
    BY <1>4, GroupsKept DEF vars, conds, ShownOf, Groups!vars
  <1> QED
    BY <1>1, <1>2, <1>3, <1>4, EndIncludeStep DEF Next, Within

(* At the start no group is open and nothing is shown.                     *)
LEMMA InitRefines ==
  ASSUME Init
  PROVE  Groups!Init
  <1>1. TypeOK
    BY InitHolds DEF IInv
  <1>2. AbstractGroups = <<>>
    BY <1>1, GroupsType DEF Init, GroupsShape
  <1>3. ShownOf(out) = <<>>
    <2>1. out \in Seq(OutTypes) /\ Len(out) = 0
      BY DEF Init
    <2>2. ShownOf(out) \in Seq(Whats) /\ Len(ShownOf(out)) = 0
      BY <2>1, ShownType
    <2> QED
      BY <2>2
  <1> QED
    BY <1>2, <1>3 DEF Init, Groups!Init, Reading

(* In files whose groups are balanced the text written is the text that    *)
(* conditional compilation keeps, for any nesting of groups and files.     *)
THEOREM Refinement == ASSUME WellFormed PROVE Spec => KeepsGroups
<1>1. Init => Groups!Init
  BY InitRefines
<1>2. Init => IInv /\ WholeLines
  BY InitHolds DEF Init, WholeLines, Within
<1>3. IInv /\ WholeLines /\ [Next]_vars => (IInv /\ WholeLines)'
  BY NextKeeps, WithinKept
<1>4. IInv /\ WholeLines /\ [Next]_vars => [Groups!Next]_(Groups!vars)
  BY NextRefines
<1> QED
  BY <1>1, <1>2, <1>3, <1>4, PTL DEF Spec, KeepsGroups, Groups!Spec
==============================================================================
