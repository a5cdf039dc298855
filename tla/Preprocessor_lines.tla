------------------------- MODULE Preprocessor_lines -------------------------
(***************************************************************************)
(* Proofs about the line numbers the preprocessor keeps: those of the      *)
(* files (locations), those of the output (globalLine) and the map between *)
(* them (warps).                                                           *)
(***************************************************************************)
EXTENDS Preprocessor_proofs

LastWarp == warps[Len(warps)]

(* No position is recorded before it is reached.                           *)
WarpsBehind == LastWarp.old <= globalLine

(* Positions are recorded in the order they are reached.                   *)
WarpsAscend == \A j, k \in DOMAIN warps : j < k => warps[j].old < warps[k].old

(* What has been read of a file is known, and a file that waits for an     *)
(* include stands at the line of the #include.                             *)
LinesRead ==
  /\ \A i \in DOMAIN locations : locations[i].pos <= Len(text[locations[i].src])
  /\ \A i \in 1 .. Len(locations) - 1 :
       /\ locations[i].pos < Len(text[locations[i].src])
       /\ text[locations[i].src][locations[i].pos + 1].kind = "include"

(* No line feed has been taken that the next finished line is to count.    *)
Outside == status \in {"run", "comment"}

(* Where an argument goes on, a line before left it open.                  *)
ArgumentOpen == status = "argument" => EndsOpen(text[Top.src], Top.pos)

(* In an included file the last position recorded is the present one only  *)
(* at its start and behind the lines that record one.                      *)
Seam(lines, n) == n = 0 \/ lines[n].kind \in {"include", "line"}

SeamRecorded ==
  Outside /\ Depth > 0 /\ LastWarp.old = globalLine => Seam(text[Top.src], Top.pos)

(* As long as no file included by an included one has given a line, the    *)
(* last record foretells the number of the line to be read: in the root    *)
(* file but for one line too few, which an #include costs when it returns, *)
(* and in an included file one line too few.                               *)
Foretold == LastWarp.new + globalLine - LastWarp.old

NearlyForetold ==
  Shallow /\ Running =>
    /\ Depth > 1 => LastWarp.old = globalLine
    /\ Depth <= 1 =>
         /\ Top.name = LastWarp.name
         /\ Top.line = Foretold + 1 \/ (Depth = 0 /\ Top.line = Foretold + 2)

(* The record that getLoc finds for a line of the output stays the one     *)
(* that was the last when the line was written, as long as every line up   *)
(* to it was counted.                                                      *)
WholeTo(i) == \A j \in 1 .. i : out[j].what # "cut"

LocatedBy(k, i) ==
  /\ warps[k].old <= i
  /\ \A j \in DOMAIN warps : j > k => warps[j].old > i
  /\ warps[k].name = out[i].name
  /\ warps[k].new + i - warps[k].old \in {out[i].line - 1, out[i].line}

ShownLocated ==
  Shallow =>
    \A i \in DOMAIN out :
      out[i].what = "shown" /\ WholeTo(i) => \E k \in DOMAIN warps : LocatedBy(k, i)

LineInv ==
  /\ WarpsBehind
  /\ WarpsAscend
  /\ LinesRead
  /\ ArgumentOpen
  /\ SeamRecorded
  /\ RefusedAtSeams
  /\ NearlyForetold
  /\ ShownLocated
  /\ LineTracksSource

-----------------------------------------------------------------------------
(* What the steps do to the line numbers, element by element.              *)

(* The file being read goes on at place, behind the line that was read.    *)
Goes(place) ==
  /\ Len(locations') = Len(locations)
  /\ \A i \in 1 .. Len(locations) - 1 : locations'[i] = locations[i]
  /\ locations'[Len(locations)] = place
  /\ place.src = Top.src /\ place.pos = Top.pos + 1

(* k lines of the output are written, none of them but one of text, for a  *)
(* line of the file being read, which goes on at place.                    *)
Writes(place, k) ==
  /\ Goes(place)
  /\ globalLine' = globalLine + k
  /\ Len(out') = Len(out) + k
  /\ \A i \in 1 .. Len(out) : out'[i] = out[i]
  /\ \A i \in Len(out) + 1 .. Len(out) + k : out'[i].depth = Depth

(* A line that is only counted: an unknown directive counts twice.         *)
Passes(l) ==
  \E k \in {1, 2} :
    /\ Writes(Place(Top.src, Top.pos + 1, Top.line + k, Top.name), k)
    /\ k = 2 => l.kind = "unknown"
    /\ \A i \in Len(out) + 1 .. Len(out) + k :
         out'[i].what = "shown" =>
           k = 1 /\ out'[i].line = Top.line /\ out'[i].name = Top.name
    /\ warps' = warps

(* A line whose line feed a literal takes, which is written, or that is    *)
(* swallowed by an argument.  Nothing counts it.                           *)
Continues(l) ==
  /\ Goes(Place(Top.src, Top.pos + 1, Top.line, Top.name))
  /\ globalLine' = globalLine /\ warps' = warps
  /\ \E k \in {0, 1} :
       /\ Len(out') = Len(out) + k
       /\ \A i \in 1 .. Len(out) : out'[i] = out[i]
       /\ \A i \in Len(out) + 1 .. Len(out) + k : out'[i].what = "cut"
  /\ status' \in {"literal", "argument"}
  /\ l.arg = "split" \/ (status = "argument" /\ l.kind # "quote")

Records(w) ==
  /\ w.old > LastWarp.old
  /\ Len(warps') = Len(warps) + 1
  /\ \A i \in 1 .. Len(warps) : warps'[i] = warps[i]
  /\ warps'[Len(warps) + 1] = w

(* A #line.                                                                *)
Numbers(l) ==
  /\ l.kind = "line"
  /\ \E num \in Nat, name \in Files :
       /\ Writes(Place(Top.src, Top.pos + 1, num + 1, name), 1)
       /\ Records(Warp(globalLine + 1, num, name))
  /\ \A i \in Len(out) + 1 .. Len(out) + 1 : out'[i].what # "shown"

(* An #include.                                                            *)
Enters(l) ==
  /\ l.kind = "include" /\ l.arg \in Files
  /\ Len(locations') = Len(locations) + 1
  /\ \A i \in 1 .. Len(locations) : locations'[i] = locations[i]
  /\ locations'[Len(locations) + 1] = OpenFile(l.arg)
  /\ globalLine' = globalLine + 1
  /\ out' = out
  /\ Records(Warp(globalLine + 1, 0, l.arg))

(* The end of an included file.                                            *)
Returns ==
  LET back == locations[Len(locations) - 1]
  IN  /\ Len(locations) > 1
      /\ Len(locations') = Len(locations) - 1
      /\ \A i \in 1 .. Len(locations) - 2 : locations'[i] = locations[i]
      /\ locations'[Len(locations) - 1] = NextLine(back)
      /\ globalLine' = globalLine
      /\ Len(out') = Len(out) + 1
      /\ \A i \in 1 .. Len(out) : out'[i] = out[i]
      /\ out'[Len(out) + 1].depth = Depth - 1 /\ out'[Len(out) + 1].what = "blank"
      /\ Records(Warp(globalLine, back.line - 1, back.name))

(* The line map refuses a position.                                        *)
Refuses ==
  /\ status' = "internal"
  /\ UNCHANGED <<places, out>>

Halts ==
  /\ status' \notin Reading \cup {"internal"}
  /\ UNCHANGED <<places, out>>

(* What a file is known to hold is only added to.                          *)
Grows ==
  \A f \in Files :
    /\ Len(text'[f]) >= Len(text[f])
    /\ \A k \in 1 .. Len(text[f]) : text'[f][k] = text[f][k]

Reads(l) ==
  /\ Grows
  /\ Top.pos + 1 \in 1 .. Len(text'[Top.src])
  /\ text'[Top.src][Top.pos + 1] = l

-----------------------------------------------------------------------------
(* Sequences.                                                              *)

(* The last element of a sequence replaced.                                *)
LEMMA LastReplaced ==
  ASSUME NEW S, NEW s \in Seq(S), s # <<>>, NEW e \in S
  PROVE  LET t == [s EXCEPT ![Len(s)] = e]
         IN  /\ t \in Seq(S) /\ Len(t) = Len(s) /\ t[Len(s)] = e
             /\ \A i \in 1 .. Len(s) - 1 : t[i] = s[i]
  <1> DEFINE n == Len(s)
  <1>1. n \in Nat /\ n > 0 /\ s \in [1 .. n -> S]
    OBVIOUS
  <1> HIDE DEF n
  <1> DEFINE t == [s EXCEPT ![n] = e]
  <1>2. DOMAIN t = 1 .. n /\ t[n] = e /\ \A i \in 1 .. n - 1 : t[i] = s[i]
    BY <1>1
  <1>3. t \in [1 .. n -> S]
    BY <1>1
  <1>4. t \in Seq(S)
    BY <1>1, <1>3
  <1> HIDE DEF t
  <1>5. Len(t) = n
    BY <1>1, <1>2, <1>4
  <1> QED
    BY <1>2, <1>4, <1>5 DEF t, n

(* An element added at the end.                                            *)
LEMMA OneAppended ==
  ASSUME NEW S, NEW s \in Seq(S), NEW e \in S
  PROVE  /\ Append(s, e) \in Seq(S) /\ Len(Append(s, e)) = Len(s) + 1
         /\ Append(s, e)[Len(s) + 1] = e
         /\ \A i \in 1 .. Len(s) : Append(s, e)[i] = s[i]
  BY AppendProperties

-----------------------------------------------------------------------------
(* Every step has one of these shapes.                                     *)

(* The line read is the one at the position of the file being read.        *)
LEMMA FetchReads ==
  ASSUME TypeOK, NEW l \in SourceLines, Fetch(l)
  PROVE  Reads(l)
  <1>1. /\ Top.pos \in Nat /\ Top.src \in Files /\ text \in [Files -> Seq(SourceLines)]
        /\ \A f \in Files : text[f] \in Seq(SourceLines) /\ Len(text[f]) \in Nat
    BY TopType, LenProperties DEF TypeOK
  <1>2. CASE Top.pos < Read /\ l = text[Top.src][Top.pos + 1] /\ UNCHANGED source
    <2>1. text' = text
      BY <1>2 DEF source
    <2>2. Top.pos + 1 \in 1 .. Len(text[Top.src])
      BY <1>1, <1>2 DEF Read
    <2> QED
      BY <1>1, <1>2, <2>1, <2>2 DEF Reads, Grows
  <1>3. CASE Top.pos = Read /\ text' = [text EXCEPT ![Top.src] = Append(@, l)]
    <2> DEFINE s == text[Top.src]
               t == Append(s, l)
    <2>1. /\ s \in Seq(SourceLines) /\ Len(s) = Top.pos
      BY <1>1, <1>3 DEF Read
    <2>2. text'[Top.src] = t /\ \A f \in Files \ {Top.src} : text'[f] = text[f]
      BY <1>1, <1>3
    <2> HIDE DEF s
    <2>3. Len(t) = Len(s) + 1 /\ t[Len(s) + 1] = l /\ \A i \in 1 .. Len(s) : t[i] = s[i]
      BY <2>1, OneAppended
    <2> HIDE DEF t
    <2>4. ASSUME NEW f \in Files
          PROVE  /\ Len(text'[f]) >= Len(text[f])
                 /\ \A k \in 1 .. Len(text[f]) : text'[f][k] = text[f][k]
      <3>1. CASE f = Top.src
        BY <1>1, <2>1, <2>2, <2>3, <3>1 DEF s
      <3>2. CASE f # Top.src
        BY <1>1, <2>2, <3>2
      <3> QED
        BY <3>1, <3>2
    <2>5. Top.pos + 1 \in 1 .. Len(text'[Top.src]) /\ text'[Top.src][Top.pos + 1] = l
      BY <1>1, <2>1, <2>2, <2>3
    <2> QED
      BY <2>4, <2>5 DEF Reads, Grows
  <1> QED
    BY <1>2, <1>3 DEF Fetch

(* Nothing is read at the end of a file.                                   *)
LEMMA NothingRead ==
  ASSUME TypeOK, text' = text
  PROVE  Grows
  <1>1. \A f \in Files : Len(text[f]) \in Nat
    BY LenProperties DEF TypeOK
  <1> QED
    BY <1>1 DEF Grows

(* A finished line.                                                        *)
LEMMA FinishWrites ==
  ASSUME TypeOK, NEW loc \in PlaceTypes, loc.src = Top.src, loc.pos = Top.pos,
         NEW what \in Whats, FinishLine(loc, what)
  PROVE  /\ Writes(NextLine(loc), 1)
         /\ \A i \in Len(out) + 1 .. Len(out) + 1 :
              out'[i].what = what /\ out'[i].line = loc.line /\ out'[i].name = loc.name
  <1> DEFINE place == NextLine(loc)
             w == Written(loc, Depth, what)
  <1>1. /\ loc.pos \in Nat /\ loc.line \in Nat /\ loc.src \in Files /\ loc.name \in Files
        /\ place \in PlaceTypes
    BY DEF PlaceTypes, NextLine, Place
  <1>2. w \in OutTypes
    BY <1>1, TopType DEF Written, OutTypes, Depth, Whats
  <1>3. /\ locations \in Seq(PlaceTypes) /\ locations # <<>> /\ out \in Seq(OutTypes)
        /\ Len(out) \in Nat
    BY LenProperties DEF TypeOK
  <1>4. place.src = Top.src /\ place.pos = Top.pos + 1
    BY DEF NextLine, Place
  <1>5. w.depth = Depth /\ w.what = what /\ w.line = loc.line /\ w.name = loc.name
    BY DEF Written
  <1>6. /\ out' = Append(out, w) /\ locations' = [locations EXCEPT ![Len(locations)] = place]
        /\ globalLine' = globalLine + 1
    BY DEF FinishLine
  <1> HIDE DEF place, w
  <1>7. /\ Len(locations') = Len(locations) /\ locations'[Len(locations)] = place
        /\ \A i \in 1 .. Len(locations) - 1 : locations'[i] = locations[i]
    BY <1>1, <1>3, <1>6, LastReplaced
  <1>8. /\ Len(out') = Len(out) + 1 /\ out'[Len(out) + 1] = w
        /\ \A i \in 1 .. Len(out) : out'[i] = out[i]
    BY <1>2, <1>3, <1>6, OneAppended
  <1>9. \A i \in Len(out) + 1 .. Len(out) + 1 : out'[i] = w
    BY <1>3, <1>8
  <1>10. Writes(place, 1)
    BY <1>4, <1>5, <1>6, <1>7, <1>8, <1>9 DEF Writes, Goes
  <1> QED
    BY <1>5, <1>9, <1>10 DEF place

(* A line that is only passed.                                             *)
LEMMA PassPasses ==
  ASSUME TypeOK, NEW l, NEW what \in Whats, FinishLine(Top, what), warps' = warps
  PROVE  Passes(l)
  <1>1. /\ Top \in PlaceTypes
        /\ NextLine(Top) = Place(Top.src, Top.pos + 1, Top.line + 1, Top.name)
    BY TopType DEF NextLine
  <1>2. /\ Writes(NextLine(Top), 1)
        /\ \A i \in Len(out) + 1 .. Len(out) + 1 :
             out'[i].line = Top.line /\ out'[i].name = Top.name
    BY <1>1, FinishWrites
  <1> QED
    BY <1>1, <1>2 DEF Passes

(* A line counted twice.                                                   *)
LEMMA UnknownPasses ==
  ASSUME TypeOK, NEW l, SkipUnknown(l)
  PROVE  Passes(l)
  <1> DEFINE second == Place(Top.src, Top.pos, Top.line + 1, Top.name)
             place == NextLine(second)
             w == Written(Top, Depth, "blank")
             v == Written(second, Depth, "blank")
  <1>1. /\ Top.pos \in Nat /\ Top.line \in Nat /\ Top.src \in Files /\ Top.name \in Files
        /\ Len(locations) \in Nat /\ Len(locations) > 0
    BY TopType
  <1>2. /\ out \in Seq(OutTypes) /\ Len(out) \in Nat
        /\ locations \in Seq(PlaceTypes) /\ locations # <<>>
    BY LenProperties DEF TypeOK
  <1>3. /\ place = Place(Top.src, Top.pos + 1, Top.line + 2, Top.name)
        /\ place \in PlaceTypes /\ place.src = Top.src /\ place.pos = Top.pos + 1
    BY <1>1 DEF NextLine, Place, PlaceTypes
  <1>4. /\ w \in OutTypes /\ w.depth = Depth /\ w.what = "blank"
        /\ v \in OutTypes /\ v.depth = Depth /\ v.what = "blank"
    BY <1>1 DEF Written, OutTypes, Depth, Place
  <1>5. /\ l.kind = "unknown" /\ warps' = warps
        /\ out' = Append(Append(out, w), v)
        /\ locations' = [locations EXCEPT ![Len(locations)] = place]
        /\ globalLine' = globalLine + 2
    BY DEF SkipUnknown
  <1> HIDE DEF place, w, v
  <1>6. /\ Len(locations') = Len(locations) /\ locations'[Len(locations)] = place
        /\ \A i \in 1 .. Len(locations) - 1 : locations'[i] = locations[i]
    BY <1>2, <1>3, <1>5, LastReplaced
  <1> DEFINE o == Append(out, w)
  <1>7. /\ o \in Seq(OutTypes) /\ Len(o) = Len(out) + 1 /\ o[Len(out) + 1] = w
        /\ \A i \in 1 .. Len(out) : o[i] = out[i]
    BY <1>2, <1>4, OneAppended
  <1> HIDE DEF o
  <1>8. /\ Len(out') = Len(o) + 1 /\ out'[Len(o) + 1] = v
        /\ \A i \in 1 .. Len(o) : out'[i] = o[i]
    <2>1. out' = Append(o, v)
      BY <1>5 DEF o
    <2> QED
      BY <1>4, <1>7, <2>1, OneAppended
  <1>9. /\ Len(out') = Len(out) + 2 /\ \A i \in 1 .. Len(out) : out'[i] = out[i]
        /\ \A i \in Len(out) + 1 .. Len(out) + 2 : out'[i] = w \/ out'[i] = v
    BY <1>2, <1>7, <1>8
  <1>10. Writes(Place(Top.src, Top.pos + 1, Top.line + 2, Top.name), 2)
    BY <1>3, <1>4, <1>5, <1>6, <1>9 DEF Writes, Goes
  <1>11. \A i \in Len(out) + 1 .. Len(out) + 2 : out'[i].what # "shown"
    BY <1>4, <1>9
  <1> QED
    BY <1>5, <1>10, <1>11 DEF Passes

(* A line that nothing counts.                                             *)
LEMMA OverContinues ==
  ASSUME TypeOK, NEW l, PassOver,
         out' = out \/ out' = Append(out, Written(Top, Depth, "cut")),
         status' \in {"literal", "argument"},
         l.arg = "split" \/ (status = "argument" /\ l.kind # "quote")
  PROVE  Continues(l)
  <1> DEFINE place == Place(Top.src, Top.pos + 1, Top.line, Top.name)
             w == Written(Top, Depth, "cut")
  <1>1. /\ place \in PlaceTypes /\ place.src = Top.src /\ place.pos = Top.pos + 1
        /\ w \in OutTypes /\ w.what = "cut"
    BY TopType DEF Place, PlaceTypes, Written, OutTypes, Depth
  <1>2. /\ locations \in Seq(PlaceTypes) /\ locations # <<>> /\ out \in Seq(OutTypes)
        /\ Len(out) \in Nat
    BY LenProperties DEF TypeOK
  <1>3. /\ locations' = [locations EXCEPT ![Len(locations)] = place]
        /\ globalLine' = globalLine /\ warps' = warps
        /\ out' = out \/ out' = Append(out, w)
    BY DEF PassOver
  <1> HIDE DEF place, w
  <1>4. Goes(place)
    BY <1>1, <1>2, <1>3, LastReplaced DEF Goes
  <1>5. \E k \in {0, 1} :
          /\ Len(out') = Len(out) + k
          /\ \A i \in 1 .. Len(out) : out'[i] = out[i]
          /\ \A i \in Len(out) + 1 .. Len(out) + k : out'[i].what = "cut"
    <2>1. CASE out' = out
      <3>1. Len(out') = Len(out) + 0 /\ Len(out) + 1 .. Len(out) + 0 = {}
        BY <1>2, <2>1
      <3> QED
        BY <2>1, <3>1
    <2>2. CASE out' = Append(out, w)
      <3>1. /\ Len(out') = Len(out) + 1 /\ out'[Len(out) + 1] = w
            /\ \A i \in 1 .. Len(out) : out'[i] = out[i]
        BY <1>1, <1>2, <2>2, OneAppended
      <3>2. \A i \in Len(out) + 1 .. Len(out) + 1 : out'[i].what = "cut"
        BY <1>1, <1>2, <3>1
      <3> QED
        BY <3>1, <3>2
    <2> QED
      BY <1>3, <2>1, <2>2
  <1> QED
    BY <1>3, <1>4, <1>5 DEF Continues, place

(* A line of text, as far as no literal takes its line feed.               *)
LEMMA TextShape ==
  ASSUME TypeOK, NEW l \in SourceLines, PassText(l)
  PROVE  \/ Outside' /\ Passes(l)
         \/ Continues(l)
  <1>1. CASE PassLine("shown") /\ status' \in {"run", "comment"}
    BY <1>1, PassPasses DEF PassLine, Whats, Outside
  <1>2. CASE /\ l.arg = "split" /\ PassOver /\ status' = "literal"
             /\ out' = Append(out, Written(Top, Depth, "cut"))
    BY <1>2, OverContinues
  <1> QED
    BY <1>1, <1>2 DEF PassText

(* A record added to the line map.                                         *)
LEMMA WarpRecords ==
  ASSUME TypeOK, NEW w \in WarpTypes, CanWarp(w.old), warps' = Append(warps, w)
  PROVE  Records(w)
  <1>1. /\ warps \in Seq(WarpTypes) /\ Len(warps') = Len(warps) + 1
        /\ warps'[Len(warps) + 1] = w
        /\ \A i \in 1 .. Len(warps) : warps'[i] = warps[i]
    BY OneAppended DEF TypeOK
  <1> QED
    BY <1>1 DEF Records, CanWarp, LastWarp

(* A #line, and the position it may be refused.                            *)
LEMMA LineShape ==
  ASSUME TypeOK, NEW l \in SourceLines, directiveLine(l)
  PROVE  \/ Numbers(l) /\ status' = status
         \/ Refuses /\ ~CanWarp(globalLine + 1)
  <1> DEFINE named == Place(Top.src, Top.pos, l.num,
                            IF l.arg = "none" THEN Top.name ELSE l.arg)
             w == Warp(globalLine + 1, l.num, named.name)
  <1>1. l.kind = "line" /\ l.num \in Nat /\ (l.arg = "none" \/ l.arg \in Files)
    BY LineArgs DEF directiveLine
  <1>2. /\ Top.pos \in Nat /\ Top.src \in Files /\ Top.name \in Files
    BY TopType
  <1>3. /\ named \in PlaceTypes /\ named.src = Top.src /\ named.pos = Top.pos
        /\ named.name \in Files
        /\ NextLine(named) = Place(Top.src, Top.pos + 1, l.num + 1, named.name)
    BY <1>1, <1>2 DEF Place, PlaceTypes, NextLine
  <1>4. w \in WarpTypes /\ w.old = globalLine + 1
    BY <1>1, <1>3 DEF Warp, WarpTypes, TypeOK
  <1>5. CASE CanWarp(globalLine + 1)
    <2>1. /\ FinishLine(named, "blank") /\ warps' = Append(warps, w) /\ status' = status
      BY <1>5 DEF directiveLine
    <2> HIDE DEF named, w
    <2>2. Records(w)
      BY <1>4, <1>5, <2>1, WarpRecords
    <2>3. /\ Writes(NextLine(named), 1)
          /\ \A i \in Len(out) + 1 .. Len(out) + 1 : out'[i].what = "blank"
      BY <1>3, <2>1, FinishWrites DEF Whats
    <2>4. /\ Writes(Place(Top.src, Top.pos + 1, l.num + 1, named.name), 1)
          /\ Records(Warp(globalLine + 1, l.num, named.name))
      BY <1>3, <2>2, <2>3 DEF w
    <2> QED
      BY <1>1, <1>3, <2>1, <2>3, <2>4 DEF Numbers
  <1>6. CASE ~CanWarp(globalLine + 1)
    BY <1>6 DEF directiveLine, Stop, Refuses
  <1> QED
    BY <1>5, <1>6

(* An #include, and what stops it.                                         *)
LEMMA IncludeShape ==
  ASSUME TypeOK, NEW l \in SourceLines, directiveInclude(l)
  PROVE  \/ Enters(l) /\ status' = status
         \/ Halts
         \/ Refuses /\ ~CanWarp(globalLine + 1)
  <1> DEFINE w == Warp(globalLine + 1, 0, l.arg)
             place == OpenFile(l.arg)
  <1>1. l.kind = "include" /\ l.arg \in Files
    BY LineArgs DEF directiveInclude
  <1>2. w \in WarpTypes /\ w.old = globalLine + 1 /\ place \in PlaceTypes
    BY <1>1 DEF Warp, WarpTypes, TypeOK, OpenFile, Place, PlaceTypes
  <1>3. CASE Stop("error")
    BY <1>3 DEF Stop, Halts, Reading, Within
  <1>4. CASE Stop("internal") /\ ~CanWarp(globalLine + 1)
    BY <1>4 DEF Stop, Refuses
  <1>5. CASE /\ CanWarp(globalLine + 1)
             /\ globalLine' = globalLine + 1
             /\ warps' = Append(warps, Warp(globalLine + 1, 0, l.arg))
             /\ locations' = Append(locations, OpenFile(l.arg))
             /\ status' = status /\ out' = out
    <2>1. locations \in Seq(PlaceTypes)
      BY DEF TypeOK
    <2> HIDE DEF w, place
    <2>2. /\ Len(locations') = Len(locations) + 1 /\ locations'[Len(locations) + 1] = place
          /\ \A i \in 1 .. Len(locations) : locations'[i] = locations[i]
      <3>1. locations' = Append(locations, place)
        BY <1>5 DEF place
      <3> QED
        BY <1>2, <2>1, <3>1, OneAppended
    <2>3. Records(w)
      <3>1. warps' = Append(warps, w) /\ CanWarp(w.old)
        BY <1>2, <1>5 DEF w
      <3> QED
        BY <1>2, <3>1, WarpRecords
    <2>4. Records(Warp(globalLine + 1, 0, l.arg)) /\ locations'[Len(locations) + 1] = OpenFile(l.arg)
      BY <2>2, <2>3 DEF w, place
    <2> QED
      BY <1>1, <1>5, <2>2, <2>4 DEF Enters
  <1> QED
    BY <1>3, <1>4, <1>5 DEF directiveInclude

(* Every line that is read from its beginning.                             *)
LEMMA LineShapes ==
  ASSUME TypeOK, NEW l \in SourceLines, status = "run", ProcessLine(l)
  PROVE  \/ Outside' /\ (Passes(l) \/ Numbers(l) \/ Enters(l))
         \/ Continues(l)
         \/ Halts
         \/ Refuses /\ ~CanWarp(globalLine + 1)
  <1>1. Outside
    BY DEF Outside
  <1>2. ASSUME NEW what \in Whats, PassLine(what) PROVE Passes(l)
    BY <1>2, PassPasses DEF PassLine
  <1>3. CASE SkipLine(l)
    <2>1. \E what \in Whats : PassLine(what)
      BY <1>3 DEF SkipLine, Whats
    <2> QED
      BY <1>1, <1>2, <1>3, <2>1 DEF SkipLine, Outside
  <1>4. CASE SkipUnknown(l)
    BY <1>1, <1>4, UnknownPasses DEF SkipUnknown, Outside
  <1>5. CASE TextLine(l)
    BY <1>5, TextShape DEF TextLine
  <1>6. CASE Refuse(l) \/ StrayElse(l)
    BY <1>6 DEF Refuse, StrayElse, Stop, Halts, Reading, Within
  <1>7. CASE directiveIfdef(l) \/ directiveEndif(l)
    <2>1. PassLine("blank") /\ status' = status
      BY <1>7 DEF directiveIfdef, directiveEndif
    <2> QED
      BY <1>1, <1>2, <2>1 DEF Whats, Outside
  <1>8. CASE directiveElse(l)
    <2>1. (PassLine("blank") /\ status' = status) \/ Stop("error")
      BY <1>8 DEF directiveElse
    <2> QED
      BY <1>1, <1>2, <2>1 DEF Whats, Outside, Stop, Halts, Reading, Within
  <1>9. CASE directiveDefine(l)
    BY <1>1, <1>9, PassPasses DEF directiveDefine, Outside, Whats
  <1>10. CASE directiveLine(l)
    BY <1>1, <1>10, LineShape DEF Outside
  <1>11. CASE directiveInclude(l)
    BY <1>1, <1>11, IncludeShape DEF Outside
  <1>12. CASE directiveWarning(l)
    <2>1. \/ PassLine("blank") /\ status' = status
          \/ l.arg = "split" /\ PassOver /\ status' = "argument" /\ out' = out
      BY <1>12 DEF directiveWarning
    <2> QED
      BY <1>1, <1>2, <2>1, OverContinues DEF Whats, Outside
  <1> QED
    BY <1>3, <1>4, <1>5, <1>6, <1>7, <1>8, <1>9, <1>10, <1>11, <1>12 DEF ProcessLine

(* Every other line that is read.                                          *)
LEMMA WithinShapes ==
  ASSUME TypeOK, NEW l \in SourceLines,
         \/ status = "comment" /\ CommentLine(l)
         \/ status = "literal" /\ LiteralLine(l)
         \/ status = "argument" /\ ArgumentLine(l)
  PROVE  \/ Outside' /\ Passes(l)
         \/ Continues(l)
         \/ Halts
  <1>1. CASE PassText(l)
    BY <1>1, TextShape
  <1>2. CASE Stop("error")
    BY <1>2 DEF Stop, Halts, Reading, Within
  <1>3. CASE PassLine("blank") /\ status' \in {"run", "comment"}
    BY <1>3, PassPasses DEF PassLine, Whats, Outside
  <1>4. CASE status = "argument" /\ l.kind # "quote" /\ PassOver /\ UNCHANGED <<status, out>>
    BY <1>4, OverContinues
  <1> QED
    BY <1>1, <1>2, <1>3, <1>4 DEF CommentLine, InsideComment, LiteralLine, ArgumentLine

(* The end of an included file, and the position it may be refused.        *)
LEMMA ReturnShape ==
  ASSUME TypeOK, EndInclude
  PROVE  \/ Returns /\ status' = status
         \/ Refuses /\ ~CanWarp(globalLine)
  <1> DEFINE n == Len(locations)
             back == locations[n - 1]
             w == Warp(globalLine, back.line - 1, back.name)
             place == NextLine(back)
             o == Written(back, n - 2, "blank")
             rest == Front(Front(locations))
  <1>1. /\ locations \in Seq(PlaceTypes) /\ n \in Nat /\ n > 1 /\ back \in PlaceTypes
    BY TopType DEF TypeOK, EndInclude
  <1>2. CASE ~CanWarp(globalLine)
    BY <1>2 DEF EndInclude, Stop, Refuses
  <1>3. CASE CanWarp(globalLine)
    <2>1. /\ warps' = Append(warps, w) /\ locations' = Append(rest, place)
          /\ out' = Append(out, o) /\ globalLine' = globalLine /\ status' = status
      BY <1>3 DEF EndInclude
    <2>2. /\ back.src \in Files /\ back.pos \in Nat /\ back.line \in Nat /\ back.name \in Files
      BY <1>1 DEF PlaceTypes
    <2>3. /\ place \in PlaceTypes /\ w \in WarpTypes /\ o \in OutTypes
          /\ w.old = globalLine /\ o.depth = n - 2 /\ o.what = "blank"
      <3> HIDE DEF back, n
      <3>1. place \in PlaceTypes
        BY <2>2 DEF NextLine, Place, PlaceTypes
      <3>2. w \in WarpTypes /\ w.old = globalLine
        BY <2>2 DEF Warp, WarpTypes, TypeOK
      <3>3. o \in OutTypes /\ o.depth = n - 2 /\ o.what = "blank"
        BY <1>1, <2>2 DEF Written, OutTypes
      <3> QED
        BY <3>1, <3>2, <3>3
    <2>4. /\ rest \in Seq(PlaceTypes) /\ Len(rest) = n - 2
          /\ \A i \in 1 .. n - 2 : rest[i] = locations[i]
      <3> DEFINE s == Front(locations)
      <3>1. /\ s \in Seq(PlaceTypes) /\ Len(s) = n - 1
            /\ \A i \in 1 .. n - 1 : s[i] = locations[i]
        BY <1>1, FrontType
      <3> HIDE DEF s, n
      <3>2. s # <<>>
        BY <1>1, <3>1
      <3>3. /\ Front(s) \in Seq(PlaceTypes) /\ Len(Front(s)) = Len(s) - 1
            /\ \A i \in 1 .. Len(s) - 1 : Front(s)[i] = s[i]
        BY <3>1, <3>2, FrontType
      <3> QED
        BY <1>1, <3>1, <3>3 DEF s
    <2> HIDE DEF back, w, place, o, rest
    <2>5. /\ Len(locations') = n - 1 /\ locations'[n - 1] = place
          /\ \A i \in 1 .. n - 2 : locations'[i] = locations[i]
      <3> HIDE DEF n
      <3>1. /\ Len(locations') = Len(rest) + 1 /\ locations'[Len(rest) + 1] = place
            /\ \A i \in 1 .. Len(rest) : locations'[i] = rest[i]
        BY <2>1, <2>3, <2>4, OneAppended
      <3>2. Len(rest) + 1 = n - 1
        BY <1>1, <2>4
      <3> QED
        BY <2>4, <3>1, <3>2
    <2>6. /\ Len(out') = Len(out) + 1 /\ out'[Len(out) + 1] = o
          /\ \A i \in 1 .. Len(out) : out'[i] = out[i]
      <3>1. out \in Seq(OutTypes)
        BY DEF TypeOK
      <3> QED
        BY <2>1, <2>3, <3>1, OneAppended
    <2>7. Records(w)
      BY <1>3, <2>1, <2>3, WarpRecords
    <2>8. n - 2 = Depth - 1
      BY <1>1 DEF Depth
    <2>9. /\ \A i \in 1 .. Len(locations) - 2 : locations'[i] = locations[i]
          /\ Len(locations') = Len(locations) - 1
          /\ locations'[Len(locations) - 1] = NextLine(locations[Len(locations) - 1])
      BY <2>5 DEF place, back, n
    <2>10. Records(Warp(globalLine, locations[Len(locations) - 1].line - 1,
                        locations[Len(locations) - 1].name))
      BY <2>7 DEF w, back, n
    <2>11. out'[Len(out) + 1].depth = Depth - 1 /\ out'[Len(out) + 1].what = "blank"
      BY <2>3, <2>6, <2>8
    <2>12. Returns
      BY <1>1, <2>1, <2>6, <2>9, <2>10, <2>11 DEF Returns
    <2> QED
      BY <2>1, <2>12
  <1> QED
    BY <1>2, <1>3

(* Every step but a stutter.                                               *)
LEMMA StepShapes ==
  ASSUME TypeOK, Next
  PROVE  /\ Running
         /\ \/ \E l \in SourceLines :
                 /\ Reads(l)
                 /\ \/ Outside' /\ (Passes(l) \/ Numbers(l) \/ Enters(l))
                    \/ Continues(l)
                    \/ Refuses /\ ~CanWarp(globalLine + 1)
            \/ Outside /\ Outside' /\ Returns /\ text' = text
            \/ Halts /\ Grows
            \/ Refuses /\ EndInclude /\ ~CanWarp(globalLine)
  <1>1. ASSUME NEW l \in SourceLines, status = "run", Fetch(l), ProcessLine(l)
        PROVE  /\ Running /\ Reads(l) /\ Grows
               /\ \/ Outside' /\ (Passes(l) \/ Numbers(l) \/ Enters(l))
                  \/ Continues(l)
                  \/ Refuses /\ ~CanWarp(globalLine + 1)
                  \/ Halts
    BY <1>1, LineShapes, FetchReads DEF Running, Reading, Reads
  <1>2. ASSUME NEW l \in SourceLines, Fetch(l),
               \/ status = "comment" /\ CommentLine(l)
               \/ status = "literal" /\ LiteralLine(l)
               \/ status = "argument" /\ ArgumentLine(l)
        PROVE  /\ Running /\ Reads(l) /\ Grows
               /\ (Outside' /\ Passes(l)) \/ Continues(l) \/ Halts
    BY <1>2, WithinShapes, FetchReads DEF Running, Reading, Within, Reads
  <1>3. CASE EndInclude
    <2>1. Running /\ Outside /\ text' = text
      BY <1>3 DEF EndInclude, NoEnd, Running, Reading, Outside
    <2> QED
      BY <1>3, <2>1, ReturnShape DEF Outside
  <1>4. CASE EndRoot \/ EndWithin
    <2>1. Running /\ text' = text /\ Halts
      BY <1>4 DEF EndRoot, EndWithin, NoEnd, Running, Reading, Within, Stop, Halts
    <2> QED
      BY <2>1, NothingRead
  <1> QED
    BY <1>1, <1>2, <1>3, <1>4 DEF Next

-----------------------------------------------------------------------------
(* What a step leaves at the ends of the two stacks.                       *)

(* There is always a last record, of a line that was reached.              *)
LEMMA LastWarpType ==
  ASSUME TypeOK
  PROVE  /\ Len(warps) \in Nat /\ Len(warps) > 0
         /\ LastWarp \in WarpTypes
         /\ LastWarp.old \in Nat /\ LastWarp.new \in Int /\ LastWarp.name \in Files
         /\ globalLine \in Nat
  <1>1. warps \in Seq(WarpTypes) /\ warps # <<>> /\ globalLine \in Nat
    BY DEF TypeOK
  <1>2. Len(warps) \in Nat /\ Len(warps) > 0
    BY <1>1
  <1>3. LastWarp \in WarpTypes
    BY <1>1, <1>2 DEF LastWarp
  <1> QED
    BY <1>1, <1>2, <1>3 DEF WarpTypes

(* The record added is the last.                                           *)
LEMMA RecordLast ==
  ASSUME NEW w, Records(w)
  PROVE  LastWarp' = w
  BY DEF Records, LastWarp

(* The file that is read goes on at its place ...                          *)
LEMMA WritesTop ==
  ASSUME TypeOK, NEW place, NEW k, Writes(place, k)
  PROVE  Top' = place /\ Depth' = Depth
  BY DEF Writes, Goes, Top, Depth

(* ... counted or not ...                                                  *)
LEMMA ContinuesTop ==
  ASSUME TypeOK, NEW l, Continues(l)
  PROVE  /\ Top' = Place(Top.src, Top.pos + 1, Top.line, Top.name) /\ Depth' = Depth
         /\ LastWarp' = LastWarp
  BY DEF Continues, Goes, Top, Depth, LastWarp

(* ... an included file begins ...                                         *)
LEMMA EntersTop ==
  ASSUME TypeOK, NEW l, Enters(l)
  PROVE  Top' = OpenFile(l.arg) /\ Depth' = Depth + 1
  <1>1. Len(locations) \in Nat
    BY TopType
  <1> QED
    BY <1>1 DEF Enters, Top, Depth

(* ... or the including one goes on behind its #include.                   *)
LEMMA ReturnsTop ==
  ASSUME TypeOK, Returns
  PROVE  /\ Top' = NextLine(locations[Len(locations) - 1])
         /\ Depth \in Nat /\ Depth > 0 /\ Depth' = Depth - 1
         /\ locations[Len(locations) - 1] \in PlaceTypes
  <1>1. /\ Len(locations) \in Nat /\ Len(locations) > 1
        /\ Len(locations') = Len(locations) - 1
        /\ locations'[Len(locations) - 1] = NextLine(locations[Len(locations) - 1])
    BY TopType DEF Returns
  <1>2. locations[Len(locations) - 1] \in PlaceTypes
    BY <1>1 DEF TypeOK
  <1> QED
    BY <1>1, <1>2 DEF Top, Depth

-----------------------------------------------------------------------------
(* The parts of the invariant, one after the other.                        *)

(* A record is of the line just begun.                                     *)
LEMMA BehindKept ==
  ASSUME TypeOK, WarpsBehind, Next
  PROVE  WarpsBehind'
  <1>1. LastWarp.old \in Nat /\ globalLine \in Nat /\ LastWarp.old <= globalLine
    BY LastWarpType DEF WarpsBehind
  <1>2. ASSUME NEW l, Passes(l) PROVE WarpsBehind'
    <2>1. PICK k \in {1, 2} : globalLine' = globalLine + k /\ warps' = warps
      BY <1>2 DEF Passes, Writes
    <2>2. LastWarp' = LastWarp
      BY <2>1 DEF LastWarp
    <2> QED
      BY <1>1, <2>1, <2>2 DEF WarpsBehind
  <1>3. ASSUME NEW l, Numbers(l) PROVE WarpsBehind'
    <2>1. PICK num \in Nat, name \in Files :
            globalLine' = globalLine + 1 /\ Records(Warp(globalLine + 1, num, name))
      BY <1>3 DEF Numbers, Writes
    <2>2. LastWarp'.old = globalLine + 1
      BY <2>1, RecordLast DEF Warp
    <2> QED
      BY <1>1, <2>1, <2>2 DEF WarpsBehind
  <1>4. ASSUME NEW l, Enters(l) PROVE WarpsBehind'
    <2>1. globalLine' = globalLine + 1 /\ Records(Warp(globalLine + 1, 0, l.arg))
      BY <1>4 DEF Enters
    <2>2. LastWarp'.old = globalLine + 1
      BY <2>1, RecordLast DEF Warp
    <2> QED
      BY <1>1, <2>1, <2>2 DEF WarpsBehind
  <1>5. CASE Returns
    <2>1. /\ globalLine' = globalLine
          /\ Records(Warp(globalLine, locations[Len(locations) - 1].line - 1,
                          locations[Len(locations) - 1].name))
      BY <1>5 DEF Returns
    <2>2. LastWarp'.old = globalLine
      BY <2>1, RecordLast DEF Warp
    <2> QED
      BY <1>1, <2>1, <2>2 DEF WarpsBehind
  <1>6. CASE UNCHANGED places
    BY <1>6 DEF places, WarpsBehind, LastWarp
  <1>7. ASSUME NEW l, Continues(l) PROVE WarpsBehind'
    BY <1>1, <1>7, ContinuesTop DEF Continues, WarpsBehind
  <1> QED
    BY <1>2, <1>3, <1>4, <1>5, <1>6, <1>7, StepShapes DEF Halts, Refuses

(* The positions recorded are numbers.                                     *)
LEMMA WarpsTyped ==
  ASSUME TypeOK
  PROVE  /\ DOMAIN warps = 1 .. Len(warps) /\ Len(warps) \in Nat /\ Len(warps) > 0
         /\ \A j \in 1 .. Len(warps) : warps[j].old \in Nat
  <1>1. warps \in Seq(WarpTypes) /\ warps # <<>>
    BY DEF TypeOK
  <1>2. DOMAIN warps = 1 .. Len(warps) /\ Len(warps) \in Nat /\ Len(warps) > 0
    BY <1>1
  <1>3. \A j \in 1 .. Len(warps) : warps[j] \in WarpTypes
    BY <1>1, <1>2
  <1> QED
    BY <1>2, <1>3 DEF WarpTypes

(* A record is added behind the last, or none is.                          *)
LEMMA AscentKept ==
  ASSUME TypeOK, TypeOK', WarpsAscend, Next
  PROVE  WarpsAscend'
  <1>1. /\ DOMAIN warps = 1 .. Len(warps) /\ Len(warps) \in Nat /\ Len(warps) > 0
        /\ DOMAIN warps' = 1 .. Len(warps')
        /\ \A j \in 1 .. Len(warps) : warps[j].old \in Nat
    <2>1. DOMAIN warps' = 1 .. Len(warps')
      BY DEF TypeOK
    <2> QED
      BY <2>1, WarpsTyped
  <1>2. CASE warps' = warps
    BY <1>2 DEF WarpsAscend
  <1>3. ASSUME NEW w, Records(w) PROVE WarpsAscend'
    <2>1. /\ Len(warps') = Len(warps) + 1 /\ warps'[Len(warps) + 1] = w
          /\ \A j \in 1 .. Len(warps) : warps'[j] = warps[j]
          /\ w.old > warps[Len(warps)].old
      BY <1>3 DEF Records, LastWarp
    <2>2. ASSUME NEW j \in 1 .. Len(warps), j # Len(warps)
          PROVE  warps[j].old < warps[Len(warps)].old
      <3>1. Len(warps) \in DOMAIN warps /\ j \in DOMAIN warps /\ j < Len(warps)
        <4>1. Len(warps) \in 1 .. Len(warps) /\ j < Len(warps)
          <5>1. Len(warps) \in Nat /\ Len(warps) > 0
            BY WarpsTyped
          <5> DEFINE n == Len(warps)
          <5>2. n \in Nat /\ n > 0 /\ j \in 1 .. n /\ j # n
            BY <2>2, <5>1
          <5> HIDE DEF n
          <5>3. n \in 1 .. n /\ j < n
            BY <5>2
          <5> QED
            BY <5>3 DEF n
        <4> QED
          BY <4>1, WarpsTyped
      <3> QED
        BY <3>1 DEF WarpsAscend
    <2>3. w.old \in Nat
      <3>1. warps' \in Seq(WarpTypes) /\ Len(warps) + 1 \in 1 .. Len(warps')
        <4>1. warps' \in Seq(WarpTypes)
          BY DEF TypeOK
        <4> QED
          BY <1>1, <2>1, <4>1
      <3>2. w \in WarpTypes
        <4>1. warps'[Len(warps) + 1] \in WarpTypes
          BY <3>1
        <4> QED
          BY <2>1, <4>1
      <3> QED
        BY <3>2 DEF WarpTypes
    <2>4. \A j \in 1 .. Len(warps) : warps[j].old < w.old
      <3>1. ASSUME NEW j \in 1 .. Len(warps)
            PROVE  warps[j].old < w.old
        <4>1. warps[Len(warps)].old \in Nat /\ warps[j].old \in Nat
          BY <1>1
        <4>2. warps[j].old <= warps[Len(warps)].old
          BY <2>2, <4>1
        <4> QED
          BY <2>1, <2>3, <4>1, <4>2
      <3> QED
        BY <3>1
    <2>5. ASSUME NEW j \in DOMAIN warps', NEW k \in DOMAIN warps', j < k
          PROVE  warps'[j].old < warps'[k].old
      <3>1. CASE k = Len(warps) + 1
        <4>1. j \in 1 .. Len(warps)
          BY <1>1, <2>1, <2>5, <3>1
        <4> QED
          BY <2>1, <2>4, <3>1, <4>1
      <3>2. CASE k # Len(warps) + 1
        <4>1. j \in 1 .. Len(warps) /\ k \in 1 .. Len(warps)
          BY <1>1, <2>1, <2>5, <3>2
        <4> QED
          BY <1>1, <2>1, <2>5, <4>1 DEF WarpsAscend
      <3> QED
        BY <3>1, <3>2
    <2> QED
      BY <2>5 DEF WarpsAscend
  <1>4. warps' = warps \/ \E w : Records(w)
    BY StepShapes
       DEF Passes, Numbers, Enters, Continues, Returns, Halts, Refuses, places
  <1> QED
    BY <1>2, <1>3, <1>4

(* A place whose line is known stays so.                                   *)
LEMMA PlaceKept ==
  ASSUME TypeOK, Grows, NEW p \in PlaceTypes
  PROVE  /\ p.pos <= Len(text[p.src]) => p.pos <= Len(text'[p.src])
         /\ p.pos < Len(text[p.src]) =>
              /\ p.pos < Len(text'[p.src])
              /\ text'[p.src][p.pos + 1] = text[p.src][p.pos + 1]
         /\ Len(text'[p.src]) >= 0
  <1>1. p.src \in Files /\ p.pos \in Nat
    BY DEF PlaceTypes
  <1>2. Len(text[p.src]) \in Nat
    BY <1>1, LenProperties DEF TypeOK
  <1>3. Len(text'[p.src]) \in Int
    <2>1. Len(text'[p.src]) >= Len(text[p.src])
      BY <1>1 DEF Grows
    <2> QED
      BY <2>1
  <1> QED
    BY <1>1, <1>2, <1>3 DEF Grows

(* A file that waits keeps the place of its #include, and the one read is  *)
(* never ahead of what is known of it.                                     *)
LEMMA LinesReadKept ==
  ASSUME TypeOK, TypeOK', LinesRead, Next
  PROVE  LinesRead'
  <1> DEFINE n == Len(locations)
  <1>1. /\ locations \in Seq(PlaceTypes) /\ n \in Nat /\ n > 0 /\ DOMAIN locations = 1 .. n
        /\ \A i \in 1 .. n : locations[i] \in PlaceTypes
        /\ Top = locations[n] /\ Top.src \in Files /\ Top.pos \in Nat
    BY TopType DEF TypeOK, Top
  <1>2. /\ \A i \in 1 .. n : locations[i].pos <= Len(text[locations[i].src])
        /\ \A i \in 1 .. n - 1 :
             /\ locations[i].pos < Len(text[locations[i].src])
             /\ text[locations[i].src][locations[i].pos + 1].kind = "include"
    BY <1>1 DEF LinesRead
  <1> DEFINE Stands(i) ==
               locations'[i].pos <= Len(text'[locations'[i].src])
             Waits(i) ==
               /\ locations'[i].pos < Len(text'[locations'[i].src])
               /\ text'[locations'[i].src][locations'[i].pos + 1].kind = "include"
  <1>3. /\ Len(locations') \in Nat
        /\ DOMAIN locations' = 1 .. Len(locations')
        /\ \A f \in Files : Len(text'[f]) \in Nat
    BY LenProperties DEF TypeOK
  <1>4. ASSUME \A i \in 1 .. Len(locations') : Stands(i),
               \A i \in 1 .. Len(locations') - 1 : Waits(i)
        PROVE  LinesRead'
    BY <1>3, <1>4 DEF LinesRead
  <1> HIDE DEF n
  <1>5. ASSUME Grows, NEW i \in 1 .. n - 1, locations'[i] = locations[i]
        PROVE  Waits(i) /\ Stands(i)
    <2> DEFINE p == locations[i]
    <2>1. p \in PlaceTypes /\ p.pos < Len(text[p.src]) /\ text[p.src][p.pos + 1].kind = "include"
      BY <1>1, <1>2
    <2> HIDE DEF p
    <2>2. /\ p.pos < Len(text'[p.src]) /\ text'[p.src][p.pos + 1].kind = "include"
          /\ p.pos \in Nat /\ Len(text'[p.src]) \in Nat
      BY <1>3, <1>5, <2>1, PlaceKept DEF PlaceTypes
    <2> QED
      BY <1>5, <2>2 DEF p
  <1>6. ASSUME NEW l, Reads(l), NEW place, Goes(place)
        PROVE  LinesRead'
    <2>1. /\ Len(locations') = n /\ locations'[n] = place
          /\ \A i \in 1 .. n - 1 : locations'[i] = locations[i]
          /\ place.src = Top.src /\ place.pos = Top.pos + 1
      BY <1>6 DEF Goes, n
    <2>2. Stands(n)
      BY <1>1, <1>3, <1>6, <2>1 DEF Reads
    <2>3. \A i \in 1 .. n - 1 : Waits(i) /\ Stands(i)
      BY <1>5, <1>6, <2>1 DEF Reads
    <2>4. \A i \in 1 .. n : i = n \/ i \in 1 .. n - 1
      BY <1>1
    <2> HIDE DEF Stands, Waits
    <2> QED
      BY <1>4, <2>1, <2>2, <2>3, <2>4
  <1>7. ASSUME NEW l, Reads(l), Enters(l)
        PROVE  LinesRead'
    <2>1. /\ Len(locations') = n + 1 /\ locations'[n + 1] = OpenFile(l.arg)
          /\ \A i \in 1 .. n : locations'[i] = locations[i]
          /\ l.kind = "include" /\ l.arg \in Files
      BY <1>7 DEF Enters, n
    <2>2. Stands(n + 1)
      BY <1>3, <2>1 DEF OpenFile, Place
    <2>3. Waits(n) /\ Stands(n)
      BY <1>1, <1>3, <1>7, <2>1 DEF Reads
    <2>4. \A i \in 1 .. n - 1 : Waits(i) /\ Stands(i)
      <3>1. \A i \in 1 .. n - 1 : i \in 1 .. n
        BY <1>1
      <3> QED
        BY <1>5, <1>7, <2>1, <3>1 DEF Reads
    <2>5. /\ \A i \in 1 .. n + 1 : i = n + 1 \/ i = n \/ i \in 1 .. n - 1
          /\ (n + 1) - 1 = n
      BY <1>1
    <2>6. \A i \in 1 .. n : i = n \/ i \in 1 .. n - 1
      BY <1>1
    <2> HIDE DEF Stands, Waits
    <2> QED
      BY <1>4, <2>1, <2>2, <2>3, <2>4, <2>5, <2>6
  <1>8. ASSUME Grows, text' = text, Returns
        PROVE  LinesRead'
    <2>1. /\ n > 1 /\ Len(locations') = n - 1
          /\ locations'[n - 1] = NextLine(locations[n - 1])
          /\ \A i \in 1 .. n - 2 : locations'[i] = locations[i]
      BY <1>8 DEF Returns, n
    <2>2. Stands(n - 1)
      <3>1. /\ n - 1 \in 1 .. n - 1 /\ locations[n - 1] \in PlaceTypes
        BY <1>1, <2>1
      <3> DEFINE back == locations[n - 1]
      <3>2. back.pos < Len(text[back.src]) /\ back.pos \in Nat /\ back.src \in Files
        BY <1>2, <3>1 DEF PlaceTypes
      <3> HIDE DEF back
      <3>3. NextLine(back).pos <= Len(text'[NextLine(back).src])
        BY <1>3, <1>8, <3>2 DEF NextLine, Place
      <3> QED
        BY <2>1, <3>3 DEF back
    <2>3. \A i \in 1 .. n - 2 : Waits(i) /\ Stands(i)
      <3>1. \A i \in 1 .. n - 2 : i \in 1 .. n - 1
        BY <1>1
      <3> QED
        BY <1>5, <1>8, <2>1, <3>1
    <2>4. /\ \A i \in 1 .. n - 1 : i = n - 1 \/ i \in 1 .. n - 2
          /\ (n - 1) - 1 = n - 2
      BY <1>1
    <2> HIDE DEF Stands, Waits
    <2> QED
      BY <1>4, <2>1, <2>2, <2>3, <2>4
  <1>9. ASSUME Grows, UNCHANGED places
        PROVE  LinesRead'
    <2>1. Len(locations') = n /\ \A i \in 1 .. n : locations'[i] = locations[i]
      BY <1>9 DEF places, n
    <2>2. \A i \in 1 .. n - 1 : Waits(i) /\ Stands(i)
      <3>1. \A i \in 1 .. n - 1 : i \in 1 .. n
        BY <1>1
      <3> QED
        BY <1>5, <1>9, <2>1, <3>1
    <2>3. Stands(n)
      <3> DEFINE p == locations[n]
      <3>1. p \in PlaceTypes /\ p.pos <= Len(text[p.src])
        BY <1>1, <1>2
      <3> HIDE DEF p
      <3>2. p.pos <= Len(text'[p.src])
        BY <1>9, <3>1, PlaceKept
      <3>3. locations'[n] = p
        BY <1>1, <2>1 DEF p
      <3> QED
        BY <3>2, <3>3
    <2>4. \A i \in 1 .. n : i = n \/ i \in 1 .. n - 1
      BY <1>1
    <2> HIDE DEF Stands, Waits
    <2> QED
      BY <1>4, <2>1, <2>2, <2>3, <2>4
  <1>10. ASSUME NEW l, Reads(l), Passes(l) \/ Numbers(l) \/ Continues(l)
         PROVE  LinesRead'
    <2>1. \E place : Goes(place)
      BY <1>10 DEF Passes, Numbers, Continues, Writes
    <2> QED
      BY <1>6, <1>10, <2>1
  <1>11. \/ \E l : Reads(l) /\ (Passes(l) \/ Numbers(l) \/ Enters(l) \/ Continues(l))
         \/ Returns /\ text' = text
         \/ Grows /\ UNCHANGED places
    <2>1. EndInclude => text' = text
      BY DEF EndInclude, NoEnd
    <2> QED
      BY <2>1, StepShapes, NothingRead DEF Halts, Refuses, Reads
  <1> QED
    BY <1>7, <1>8, <1>9, <1>10, <1>11, NothingRead

(* What refuses a position is the end of an included file, and what stands *)
(* before it has recorded one.                                             *)
LEMMA SeamsKept ==
  ASSUME TypeOK, TypeOK', WarpsBehind, LinesRead, SeamRecorded, RefusedAtSeams, Next
  PROVE  SeamRecorded' /\ RefusedAtSeams'
  <1>1. /\ LastWarp.old \in Nat /\ globalLine \in Nat /\ LastWarp.old <= globalLine
        /\ Len(locations) \in Nat
    BY LastWarpType, TopType DEF WarpsBehind
  <1>2. Running' => RefusedAtSeams'
    BY DEF Running, Reading, Within, RefusedAtSeams
  <1>3. ASSUME NEW l, Reads(l), Passes(l) PROVE SeamRecorded'
    <2>1. PICK k \in {1, 2} : globalLine' = globalLine + k /\ warps' = warps
      BY <1>3 DEF Passes, Writes
    <2>2. LastWarp' = LastWarp
      BY <2>1 DEF LastWarp
    <2>3. LastWarp'.old # globalLine'
      BY <1>1, <2>1, <2>2
    <2> QED
      BY <2>3 DEF SeamRecorded
  <1>4. ASSUME NEW l, Reads(l), Numbers(l) PROVE SeamRecorded'
    <2>1. PICK num \in Nat, name \in Files :
            Writes(Place(Top.src, Top.pos + 1, num + 1, name), 1)
      BY <1>4 DEF Numbers
    <2>2. Top'.src = Top.src /\ Top'.pos = Top.pos + 1
      BY <2>1, WritesTop DEF Place
    <2>3. text'[Top'.src][Top'.pos].kind = "line"
      BY <1>4, <2>2 DEF Reads, Numbers
    <2> QED
      BY <2>3 DEF SeamRecorded, Seam
  <1>5. ASSUME NEW l, Enters(l) PROVE SeamRecorded'
    BY <1>5, EntersTop DEF SeamRecorded, Seam, OpenFile, Place
  <1>6. ASSUME Returns, text' = text PROVE SeamRecorded'
    <2> DEFINE back == locations[Len(locations) - 1]
    <2>1. Top' = NextLine(back) /\ back \in PlaceTypes
      BY <1>6, ReturnsTop
    <2>2. text[back.src][back.pos + 1].kind = "include"
      <3>1. Len(locations) - 1 \in 1 .. Len(locations) - 1
        BY <1>1, <1>6 DEF Returns
      <3> QED
        BY <3>1 DEF LinesRead
    <2> HIDE DEF back
    <2>3. Top'.src = back.src /\ Top'.pos = back.pos + 1
      BY <2>1 DEF NextLine, Place
    <2>4. text'[Top'.src][Top'.pos].kind = "include"
      BY <1>6, <2>2, <2>3
    <2> QED
      BY <2>4 DEF SeamRecorded, Seam
  <1>7. CASE Halts
    BY <1>7 DEF Halts, SeamRecorded, RefusedAtSeams, Outside, Reading, Within
  <1>8. CASE Refuses /\ ~CanWarp(globalLine + 1)
    BY <1>1, <1>8 DEF CanWarp, LastWarp
  <1>9. CASE Refuses /\ EndInclude /\ ~CanWarp(globalLine)
    <2>1. SeamRecorded'
      BY <1>9 DEF Refuses, SeamRecorded, Outside
    <2>2. LastWarp.old = globalLine
      BY <1>1, <1>9 DEF CanWarp, LastWarp
    <2>3. /\ Outside /\ Depth > 0 /\ Top.pos = Read /\ Top.src \in whole'
          /\ text' = text /\ Top' = Top /\ Depth' = Depth
      BY <1>1, <1>9 DEF EndInclude, NoEnd, Refuses, places, Depth, Outside, Top
    <2>4. Top.pos = 0 \/ text[Top.src][Top.pos].kind \in {"include", "line"}
      BY <2>2, <2>3 DEF SeamRecorded, Seam
    <2>5. text[Top.src] \in Seq(SourceLines)
      BY TopType DEF TypeOK
    <2>6. CASE Top.pos = 0
      <3>1. text[Top.src] = <<>>
        <4> DEFINE s == text[Top.src]
        <4>1. s \in Seq(SourceLines) /\ Len(s) = 0
          BY <2>3, <2>5, <2>6 DEF Read
        <4> HIDE DEF s
        <4>2. s = <<>>
          BY <4>1
        <4> QED
          BY <4>2 DEF s
      <3> QED
        BY <2>1, <2>3, <3>1 DEF RefusedAtSeams
    <2>7. CASE text[Top.src][Top.pos].kind \in {"include", "line"}
      <3>1. Last(text[Top.src]) = text[Top.src][Top.pos]
        BY <2>3 DEF Last, Read
      <3> QED
        BY <2>1, <2>3, <2>7, <3>1 DEF RefusedAtSeams
    <2> QED
      BY <2>4, <2>6, <2>7
  <1>10. ASSUME NEW l, Continues(l) PROVE SeamRecorded' /\ RefusedAtSeams'
    BY <1>10 DEF Continues, SeamRecorded, RefusedAtSeams, Outside
  <1>11. Outside' => Running'
    BY DEF Outside, Running, Reading, Within
  <1> QED
    BY <1>2, <1>3, <1>4, <1>5, <1>6, <1>7, <1>8, <1>9, <1>10, <1>11, StepShapes

(* The output is only added to.                                            *)
LEMMA OutGrows ==
  ASSUME TypeOK, TypeOK', NEW k \in Nat, Len(out') = Len(out) + k,
         \A i \in 1 .. Len(out) : out'[i] = out[i]
  PROVE  /\ Len(out) \in Nat
         /\ DOMAIN out = 1 .. Len(out) /\ DOMAIN out' = 1 .. Len(out) + k
         /\ Shallow' => /\ Shallow
                        /\ \A i \in Len(out) + 1 .. Len(out) + k : out'[i].depth < 2
  <1>1. /\ Len(out) \in Nat /\ DOMAIN out = 1 .. Len(out) /\ DOMAIN out' = 1 .. Len(out) + k
    BY DEF TypeOK
  <1>2. ASSUME Shallow', NEW i \in 1 .. Len(out) PROVE out[i].depth < 2
    <2>1. i \in DOMAIN out' /\ out'[i] = out[i]
      BY <1>1
    <2> QED
      BY <1>2, <2>1 DEF Shallow
  <1>3. ASSUME Shallow', NEW i \in Len(out) + 1 .. Len(out) + k PROVE out'[i].depth < 2
    <2>1. i \in DOMAIN out'
      BY <1>1
    <2> QED
      BY <1>3, <2>1 DEF Shallow
  <1> QED
    BY <1>1, <1>2, <1>3 DEF Shallow

(* The same of the shapes.                                                 *)
LEMMA WritesShallow ==
  ASSUME TypeOK, TypeOK', NEW place, NEW k \in {1, 2}, Writes(place, k), Shallow'
  PROVE  Shallow /\ Depth <= 1
  <1>1. Len(out') = Len(out) + k /\ \A i \in 1 .. Len(out) : out'[i] = out[i]
    BY DEF Writes
  <1>2. Shallow /\ \A i \in Len(out) + 1 .. Len(out) + k : out'[i].depth < 2
    BY <1>1, OutGrows
  <1>3. Len(out) \in Nat /\ Depth \in Int
    BY TopType, LenProperties DEF TypeOK, Depth
  <1>4. Len(out) + 1 \in Len(out) + 1 .. Len(out) + k
    BY <1>3
  <1>5. Depth < 2
    BY <1>2, <1>4 DEF Writes
  <1> QED
    BY <1>2, <1>3, <1>5

(* The last record foretells the next line.                                *)
LEMMA ForetoldKept ==
  ASSUME TypeOK, TypeOK', WarpsBehind, NearlyForetold, Next
  PROVE  NearlyForetold'
  <1>1. /\ LastWarp.old \in Nat /\ LastWarp.new \in Int /\ globalLine \in Nat
        /\ Top.pos \in Nat /\ Top.line \in Nat /\ Depth \in Int
    BY LastWarpType, TopType DEF Depth
  <1>2. SUFFICES ASSUME Shallow', Running'
                 PROVE  /\ Depth' > 1 => LastWarp'.old = globalLine'
                        /\ Depth' <= 1 =>
                             /\ Top'.name = LastWarp'.name
                             /\ \/ Top'.line = Foretold' + 1
                                \/ Depth' = 0 /\ Top'.line = Foretold' + 2
    BY DEF NearlyForetold
  <1>3. Running
    BY StepShapes
  <1>4. ASSUME NEW l, Passes(l) PROVE NearlyForetold'
    <2>1. PICK k \in {1, 2} :
            /\ Writes(Place(Top.src, Top.pos + 1, Top.line + k, Top.name), k)
            /\ warps' = warps
      BY <1>4 DEF Passes
    <2> DEFINE place == Place(Top.src, Top.pos + 1, Top.line + k, Top.name)
    <2>2. Shallow /\ Depth <= 1 /\ Top' = place /\ Depth' = Depth /\ globalLine' = globalLine + k
      BY <1>2, <2>1, WritesShallow, WritesTop DEF Writes
    <2>3. Top'.line = Top.line + k /\ Top'.name = Top.name
      BY <2>2 DEF Place
    <2>4. LastWarp' = LastWarp
      BY <2>1 DEF LastWarp
    <2>5. Foretold' = LastWarp.new + (globalLine + k) - LastWarp.old
      BY <2>2, <2>4 DEF Foretold
    <2>6. /\ Top.name = LastWarp.name
          /\ \/ Top.line = Foretold + 1
             \/ Depth = 0 /\ Top.line = Foretold + 2
      BY <1>3, <2>2 DEF NearlyForetold
    <2>7. Foretold' = Foretold + k
      BY <1>1, <2>5 DEF Foretold
    <2>8. Foretold \in Int
      BY <1>1 DEF Foretold
    <2> QED
      BY <1>1, <2>2, <2>3, <2>4, <2>6, <2>7, <2>8 DEF NearlyForetold
  <1>5. ASSUME NEW l, Numbers(l) PROVE NearlyForetold'
    <2>1. PICK num \in Nat, name \in Files :
            /\ Writes(Place(Top.src, Top.pos + 1, num + 1, name), 1)
            /\ Records(Warp(globalLine + 1, num, name))
      BY <1>5 DEF Numbers
    <2>2. Depth <= 1 /\ Depth' = Depth /\ globalLine' = globalLine + 1
      BY <1>2, <2>1, WritesShallow, WritesTop DEF Writes
    <2>3. Top'.line = num + 1 /\ Top'.name = name
      BY <2>1, WritesTop DEF Place
    <2>4. LastWarp' = Warp(globalLine + 1, num, name)
      BY <2>1, RecordLast
    <2>5. Foretold' = num + (globalLine + 1) - (globalLine + 1) /\ LastWarp'.name = name
      BY <2>2, <2>4 DEF Foretold, Warp
    <2> QED
      BY <1>1, <2>2, <2>3, <2>5 DEF NearlyForetold
  <1>6. ASSUME NEW l, Enters(l) PROVE NearlyForetold'
    <2>1. globalLine' = globalLine + 1 /\ LastWarp' = Warp(globalLine + 1, 0, l.arg)
      BY <1>6, RecordLast DEF Enters
    <2>2. Top'.line = 1 /\ Top'.name = l.arg
      BY <1>6, EntersTop DEF OpenFile, Place
    <2>3. /\ Foretold' = 0 + (globalLine + 1) - (globalLine + 1) /\ LastWarp'.name = l.arg
          /\ LastWarp'.old = globalLine'
      BY <2>1 DEF Foretold, Warp
    <2> QED
      BY <1>1, <2>2, <2>3 DEF NearlyForetold
  <1>7. CASE Returns
    <2> DEFINE back == locations[Len(locations) - 1]
               w == Warp(globalLine, back.line - 1, back.name)
    <2>1. /\ globalLine' = globalLine /\ Records(w) /\ Len(out') = Len(out) + 1
          /\ \A i \in 1 .. Len(out) : out'[i] = out[i]
      BY <1>7 DEF Returns
    <2>2. Shallow
      BY <1>2, <2>1, OutGrows
    <2>3. /\ Top' = NextLine(back) /\ back \in PlaceTypes
          /\ Depth \in Nat /\ Depth > 0 /\ Depth' = Depth - 1
      BY <1>7, ReturnsTop
    <2>4. globalLine > LastWarp.old
      BY <2>1 DEF Records, Warp
    <2>5. Depth = 1
      BY <1>1, <1>3, <2>2, <2>3, <2>4 DEF NearlyForetold
    <2>6. LastWarp' = w
      BY <2>1, RecordLast
    <2> HIDE DEF back
    <2>7. Top'.line = back.line + 1 /\ Top'.name = back.name /\ back.line \in Nat
      BY <2>3 DEF NextLine, Place, PlaceTypes
    <2>8. Foretold' = (back.line - 1) + globalLine - globalLine /\ LastWarp'.name = back.name
      BY <2>1, <2>6 DEF Foretold, Warp
    <2>9. Depth' = 0
      BY <2>3, <2>5
    <2> QED
      BY <1>1, <2>7, <2>8, <2>9 DEF NearlyForetold
  <1>8. ASSUME NEW l, Continues(l) PROVE NearlyForetold'
    <2>1. /\ Top' = Place(Top.src, Top.pos + 1, Top.line, Top.name)
          /\ Depth' = Depth /\ LastWarp' = LastWarp /\ globalLine' = globalLine
      BY <1>8, ContinuesTop DEF Continues
    <2>2. Top'.line = Top.line /\ Top'.name = Top.name /\ Foretold' = Foretold
      BY <2>1 DEF Place, Foretold
    <2>3. Shallow
      <3>1. PICK k \in {0, 1} : /\ Len(out') = Len(out) + k
                                /\ \A i \in 1 .. Len(out) : out'[i] = out[i]
        BY <1>8 DEF Continues
      <3> QED
        BY <1>2, <3>1, OutGrows
    <2> QED
      BY <1>3, <2>1, <2>2, <2>3 DEF NearlyForetold
  <1>9. \/ \E l : Passes(l) \/ Numbers(l) \/ Enters(l) \/ Continues(l)
        \/ Returns
    BY <1>2, StepShapes DEF Halts, Refuses, Running, Reading, Within
  <1> QED
    BY <1>2, <1>4, <1>5, <1>6, <1>7, <1>8, <1>9 DEF NearlyForetold

(* A line of the output stays located by its record: later ones are of     *)
(* later lines.                                                            *)
LEMMA StaysLocated ==
  ASSUME TypeOK, TypeOK', NEW i, out'[i] = out[i],
         NEW k \in DOMAIN warps, LocatedBy(k, i),
         warps' = warps \/ (\E w : Records(w) /\ w.old > i)
  PROVE  k \in DOMAIN warps' /\ LocatedBy(k, i)'
  <1>1. DOMAIN warps = 1 .. Len(warps) /\ DOMAIN warps' = 1 .. Len(warps') /\ Len(warps) \in Nat
    BY DEF TypeOK
  <1>2. CASE warps' = warps
    BY <1>2 DEF LocatedBy
  <1>3. ASSUME NEW w, Records(w), w.old > i
        PROVE  k \in DOMAIN warps' /\ LocatedBy(k, i)'
    <2>1. /\ Len(warps') = Len(warps) + 1 /\ warps'[Len(warps) + 1] = w
          /\ \A j \in 1 .. Len(warps) : warps'[j] = warps[j]
      BY <1>3 DEF Records
    <2>2. k \in DOMAIN warps' /\ warps'[k] = warps[k]
      BY <1>1, <2>1
    <2>3. ASSUME NEW j \in DOMAIN warps', j > k PROVE warps'[j].old > i
      <3>1. j = Len(warps) + 1 \/ j \in 1 .. Len(warps)
        BY <1>1, <2>1
      <3> QED
        BY <1>1, <1>3, <2>1, <2>3, <3>1 DEF LocatedBy
    <2> QED
      BY <2>2, <2>3 DEF LocatedBy
  <1> QED
    BY <1>2, <1>3

(* As many lines are counted as are written, as long as none is cut.       *)
LEMMA WholeUncut ==
  ASSUME TypeOK, NEW i \in 0 .. Len(out), WholeTo(i)
  PROVE  /\ i <= Uncut(out)
         /\ i = Len(out) => Uncut(out) = i
  <1> DEFINE C == {j \in DOMAIN out : out[j].what # "cut"}
  <1>1. Len(out) \in Nat /\ DOMAIN out = 1 .. Len(out)
    BY LenProperties DEF TypeOK
  <1>2. i \in Nat /\ IsFiniteSet(1 .. i) /\ Cardinality(1 .. i) = i
    <2>1. i \in Nat
      BY <1>1
    <2> QED
      BY <2>1, FS_Interval
  <1>3. IsFiniteSet(C)
    <2>1. IsFiniteSet(1 .. Len(out)) /\ C \subseteq 1 .. Len(out)
      BY <1>1, FS_Interval
    <2> HIDE DEF C
    <2> QED
      BY <2>1, FS_Subset
  <1>4. 1 .. i \subseteq C
    <2>1. \A j \in 1 .. i : j \in DOMAIN out
      BY <1>1, <1>2
    <2>2. \A j \in 1 .. i : out[j].what # "cut"
      BY <2>1 DEF WholeTo
    <2> QED
      BY <2>1, <2>2
  <1>5. i <= Cardinality(C)
    BY <1>2, <1>3, <1>4, FS_Subset
  <1>6. i = Len(out) => C = 1 .. i
    BY <1>1, <1>4
  <1> QED
    BY <1>2, <1>5, <1>6 DEF Uncut

(* So do all the lines written before a step.                              *)
LEMMA OldLocated ==
  ASSUME TypeOK, TypeOK', ShownLocated, Shallow, NEW i \in 1 .. Len(out),
         out'[i] = out[i], out[i].what = "shown", WholeTo(i),
         warps' = warps \/ (\E w : Records(w) /\ w.old > i)
  PROVE  \E k \in DOMAIN warps' : LocatedBy(k, i)'
  <1>1. i \in DOMAIN out
    BY DEF TypeOK
  <1>2. PICK k \in DOMAIN warps : LocatedBy(k, i)
    BY <1>1 DEF ShownLocated
  <1> QED
    BY <1>2, StaysLocated

(* A line of text is located by the last record when it is written.        *)
LEMMA NewLocated ==
  ASSUME TypeOK, TypeOK', WarpsBehind, NearlyForetold, Shallow, Running,
         Depth <= 1, warps' = warps, NEW i, i = Len(out) + 1,
         Len(out) = globalLine - Depth,
         out'[i].line = Top.line, out'[i].name = Top.name
  PROVE  Len(warps) \in DOMAIN warps' /\ LocatedBy(Len(warps), i)'
  <1>1. /\ LastWarp.old \in Nat /\ LastWarp.new \in Int /\ globalLine \in Nat
        /\ LastWarp.old <= globalLine
        /\ Len(warps) \in Nat /\ Len(warps) > 0
    BY LastWarpType DEF WarpsBehind
  <1>2. /\ Depth \in Nat /\ Depth \in {0, 1} /\ Top.line \in Nat
        /\ i = globalLine - Depth + 1
    <2>1. Depth \in Nat /\ Top.line \in Nat
      BY TopType DEF Depth
    <2> QED
      BY <1>1, <2>1
  <1>3. DOMAIN warps' = 1 .. Len(warps) /\ warps'[Len(warps)] = LastWarp
    BY DEF TypeOK, LastWarp
  <1>4. LastWarp.old <= i
    BY <1>1, <1>2
  <1>5. \A j \in 1 .. Len(warps) : ~(j > Len(warps))
    BY <1>1
  <1>6. LastWarp.name = out'[i].name
    BY DEF NearlyForetold
  <1>7. LastWarp.new + i - LastWarp.old \in {out'[i].line - 1, out'[i].line}
    <2>1. Foretold \in Int /\ LastWarp.new + i - LastWarp.old = Foretold + 1 - Depth
      <3> DEFINE o == LastWarp.old
                 m == LastWarp.new
      <3>1. o \in Nat /\ m \in Int /\ Foretold = m + globalLine - o
        BY <1>1 DEF Foretold
      <3> HIDE DEF o, m
      <3>2. Foretold \in Int /\ m + i - o = Foretold + 1 - Depth
        BY <1>1, <1>2, <3>1
      <3> QED
        BY <3>2 DEF o, m
    <2>2. Top.line = Foretold + 1 \/ (Depth = 0 /\ Top.line = Foretold + 2)
      BY DEF NearlyForetold
    <2> QED
      BY <1>2, <2>1, <2>2
  <1>8. Len(warps) \in 1 .. Len(warps)
    BY <1>1
  <1> QED
    BY <1>3, <1>4, <1>5, <1>6, <1>7, <1>8 DEF LocatedBy

(* The records locate the lines of text.                                   *)
LEMMA LocatedKept ==
  ASSUME TypeOK, TypeOK', AlignedOutput, WarpsBehind, NearlyForetold, ShownLocated, Next
  PROVE  ShownLocated'
  <1>1. /\ Len(out) \in Nat /\ Depth \in Nat /\ globalLine \in Nat
        /\ Uncut(out) = globalLine - Depth
    <2>1. Depth \in Nat
      BY TopType DEF Depth
    <2>2. Len(out) \in Nat /\ globalLine \in Nat
      BY LenProperties DEF TypeOK
    <2> QED
      BY <2>1, <2>2 DEF AlignedOutput
  <1>2. DOMAIN out' = 1 .. Len(out')
    BY DEF TypeOK
  <1>3. SUFFICES ASSUME Shallow', NEW i \in 1 .. Len(out'), out'[i].what = "shown",
                        WholeTo(i)'
                 PROVE  \E k \in DOMAIN warps' : LocatedBy(k, i)'
    BY <1>2 DEF ShownLocated
  <1> DEFINE Goal == \E k \in DOMAIN warps' : LocatedBy(k, i)'
  <1> HIDE DEF Goal
  <1>a. ASSUME \A j \in 1 .. Len(out) : out'[j] = out[j], i \in 1 .. Len(out)
        PROVE  /\ WholeTo(i) /\ out'[i] = out[i] /\ out[i].what = "shown"
               /\ i + Depth <= globalLine
    <2>1. WholeTo(i) /\ out'[i] = out[i] /\ out[i].what = "shown"
      BY <1>1, <1>3, <1>a DEF WholeTo
    <2>2. i <= Uncut(out)
      BY <1>1, <1>a, <2>1, WholeUncut
    <2> QED
      BY <1>1, <2>1, <2>2
  <1>b. ASSUME \A j \in 1 .. Len(out) : out'[j] = out[j], i = Len(out) + 1
        PROVE  Len(out) = globalLine - Depth
    <2>1. WholeTo(Len(out))
      BY <1>1, <1>3, <1>b DEF WholeTo
    <2>2. Uncut(out) = Len(out)
      BY <1>1, <2>1, WholeUncut
    <2> QED
      BY <1>1, <2>2
  <1>4. ASSUME NEW l, Passes(l) PROVE Goal
    <2>1. PICK k \in {1, 2} :
            /\ Writes(Place(Top.src, Top.pos + 1, Top.line + k, Top.name), k)
            /\ warps' = warps
            /\ \A j \in Len(out) + 1 .. Len(out) + k :
                 out'[j].what = "shown" =>
                   k = 1 /\ out'[j].line = Top.line /\ out'[j].name = Top.name
      BY <1>4 DEF Passes
    <2>2. Shallow /\ Depth <= 1
      BY <1>3, <2>1, WritesShallow
    <2>3. Len(out') = Len(out) + k /\ \A j \in 1 .. Len(out) : out'[j] = out[j]
      BY <2>1 DEF Writes
    <2>4. CASE i \in 1 .. Len(out)
      BY <1>a, <2>1, <2>2, <2>3, <2>4, OldLocated DEF Goal
    <2>5. CASE i \in Len(out) + 1 .. Len(out) + k
      <3>1. k = 1 /\ out'[i].line = Top.line /\ out'[i].name = Top.name
        BY <1>3, <2>1, <2>5
      <3>2. i = Len(out) + 1
        BY <1>1, <2>5, <3>1
      <3>3. Running
        BY StepShapes
      <3>4. Len(warps) \in DOMAIN warps' /\ LocatedBy(Len(warps), i)'
        BY <1>b, <2>1, <2>2, <2>3, <3>1, <3>2, <3>3, NewLocated
      <3> QED
        BY <3>4 DEF Goal
    <2> QED
      BY <1>1, <2>3, <2>4, <2>5
  <1>5. ASSUME NEW l, Numbers(l) PROVE Goal
    <2>1. PICK num \in Nat, name \in Files :
            /\ Writes(Place(Top.src, Top.pos + 1, num + 1, name), 1)
            /\ Records(Warp(globalLine + 1, num, name))
      BY <1>5 DEF Numbers
    <2>2. Shallow
      BY <1>3, <2>1, WritesShallow
    <2>3. /\ Len(out') = Len(out) + 1 /\ \A j \in 1 .. Len(out) : out'[j] = out[j]
          /\ \A j \in Len(out) + 1 .. Len(out) + 1 : out'[j].what # "shown"
      BY <1>5, <2>1 DEF Writes, Numbers
    <2>4. i \in 1 .. Len(out)
      BY <1>1, <1>3, <2>3
    <2>5. Warp(globalLine + 1, num, name).old > i
      BY <1>1, <1>a, <2>3, <2>4 DEF Warp
    <2> QED
      BY <1>a, <2>1, <2>2, <2>3, <2>4, <2>5, OldLocated DEF Goal
  <1>6. ASSUME NEW l, Enters(l) PROVE Goal
    <2>1. /\ out' = out /\ Records(Warp(globalLine + 1, 0, l.arg))
      BY <1>6 DEF Enters
    <2>2. Shallow /\ i \in 1 .. Len(out) /\ out'[i] = out[i]
      BY <1>3, <2>1 DEF Shallow
    <2>3. Warp(globalLine + 1, 0, l.arg).old > i
      BY <1>1, <1>a, <2>1, <2>2 DEF Warp
    <2> QED
      BY <1>a, <2>1, <2>2, <2>3, OldLocated DEF Goal
  <1>7. CASE Returns
    <2> DEFINE w == Warp(globalLine, locations[Len(locations) - 1].line - 1,
                         locations[Len(locations) - 1].name)
    <2>1. /\ Len(out') = Len(out) + 1 /\ \A j \in 1 .. Len(out) : out'[j] = out[j]
          /\ out'[Len(out) + 1].what = "blank" /\ Records(w)
      BY <1>7 DEF Returns
    <2>2. Shallow
      BY <1>3, <2>1, OutGrows
    <2>3. i \in 1 .. Len(out)
      <3>1. i # Len(out) + 1
        BY <1>3, <2>1
      <3> QED
        BY <1>1, <1>3, <2>1, <3>1
    <2>4. w.old > i
      <3>1. Depth > 0
        BY <1>7, ReturnsTop
      <3> QED
        BY <1>1, <1>a, <2>1, <2>3, <3>1 DEF Warp
    <2> HIDE DEF w
    <2> QED
      BY <1>a, <2>1, <2>2, <2>3, <2>4, OldLocated DEF Goal
  <1>8. CASE UNCHANGED <<places, out>>
    <2>1. Shallow /\ i \in 1 .. Len(out) /\ out'[i] = out[i] /\ warps' = warps
      BY <1>3, <1>8 DEF Shallow, places
    <2> QED
      BY <1>a, <1>8, <2>1, OldLocated DEF Goal
  <1>9. ASSUME NEW l, Continues(l) PROVE Goal
    <2>1. PICK k \in {0, 1} :
            /\ Len(out') = Len(out) + k
            /\ \A j \in 1 .. Len(out) : out'[j] = out[j]
            /\ \A j \in Len(out) + 1 .. Len(out) + k : out'[j].what = "cut"
      BY <1>9 DEF Continues
    <2>2. Shallow /\ warps' = warps
      BY <1>3, <1>9, <2>1, OutGrows DEF Continues
    <2>3. i \in 1 .. Len(out)
      <3>1. i \notin Len(out) + 1 .. Len(out) + k
        BY <1>3, <2>1
      <3> QED
        BY <1>1, <2>1, <3>1
    <2> QED
      BY <1>a, <2>1, <2>2, <2>3, OldLocated DEF Goal
  <1> QED
    BY <1>4, <1>5, <1>6, <1>7, <1>8, <1>9, StepShapes DEF Halts, Refuses, Goal

(* Of the numbers up to n + 1, those in a set are those up to n and        *)
(* perhaps the last.                                                       *)
LEMMA CountNext ==
  ASSUME NEW n \in Nat, NEW T
  PROVE  /\ Cardinality((1 .. n) \cap T) \in Nat
         /\ Cardinality((1 .. n + 1) \cap T) =
              Cardinality((1 .. n) \cap T) + IF n + 1 \in T THEN 1 ELSE 0
  <1> DEFINE C == (1 .. n) \cap T
             D == (1 .. n + 1) \cap T
  <1>1. IsFiniteSet(C) /\ n + 1 \notin C
    <2>1. IsFiniteSet(1 .. n)
      BY FS_Interval
    <2>2. C \subseteq 1 .. n /\ n + 1 \notin C
      OBVIOUS
    <2> QED
      BY <2>1, <2>2, FS_Subset
  <1>2. Cardinality(C) \in Nat
    BY <1>1, FS_CardinalityType
  <1>3. CASE n + 1 \in T
    <2>1. D = C \cup {n + 1}
      BY <1>3
    <2> HIDE DEF C, D
    <2>2. Cardinality(D) = Cardinality(C) + 1
      BY <1>1, <2>1, FS_AddElement
    <2> QED
      BY <1>2, <1>3, <2>2 DEF C, D
  <1>4. CASE n + 1 \notin T
    <2>1. D = C
      BY <1>4
    <2> QED
      BY <1>2, <1>4, <2>1
  <1> QED
    BY <1>3, <1>4

(* A line more adds one at most to what is lost or counted twice.          *)
LEMMA BoundsNext ==
  ASSUME NEW lines, NEW n \in Nat
  PROVE  /\ Lost(lines, n) \in Nat /\ Doubled(lines, n) \in Nat
         /\ Lost(lines, n + 1) = Lost(lines, n) + IF EndsOpen(lines, n + 1) THEN 1 ELSE 0
         /\ Doubled(lines, n + 1) =
              Doubled(lines, n) + IF lines[n + 1].kind = "unknown" THEN 1 ELSE 0
  <1>1. /\ Lost(lines, n) \in Nat
        /\ Lost(lines, n + 1) = Lost(lines, n) + IF EndsOpen(lines, n + 1) THEN 1 ELSE 0
    <2> DEFINE T == {k \in 1 .. n + 1 : EndsOpen(lines, k)}
    <2>1. /\ {k \in 1 .. n : EndsOpen(lines, k)} = (1 .. n) \cap T
          /\ {k \in 1 .. n + 1 : EndsOpen(lines, k)} = (1 .. n + 1) \cap T
          /\ n + 1 \in T <=> EndsOpen(lines, n + 1)
      OBVIOUS
    <2> HIDE DEF T
    <2> QED
      BY <2>1, CountNext DEF Lost
  <1>2. /\ Doubled(lines, n) \in Nat
        /\ Doubled(lines, n + 1) =
             Doubled(lines, n) + IF lines[n + 1].kind = "unknown" THEN 1 ELSE 0
    <2> DEFINE T == {k \in 1 .. n + 1 : lines[k].kind = "unknown"}
    <2>1. /\ {k \in 1 .. n : lines[k].kind = "unknown"} = (1 .. n) \cap T
          /\ {k \in 1 .. n + 1 : lines[k].kind = "unknown"} = (1 .. n + 1) \cap T
          /\ n + 1 \in T <=> lines[n + 1].kind = "unknown"
      OBVIOUS
    <2> HIDE DEF T
    <2> QED
      BY <2>1, CountNext DEF Doubled
  <1> QED
    BY <1>1, <1>2

(* Both depend on nothing but the lines up to the one asked for.           *)
LEMMA BoundsKept ==
  ASSUME NEW lines, NEW more, NEW n \in Nat, \A k \in 1 .. n : more[k] = lines[k]
  PROVE  /\ Lost(more, n) = Lost(lines, n) /\ Doubled(more, n) = Doubled(lines, n)
         /\ EndsOpen(more, n) = EndsOpen(lines, n)
  <1>1. \A k \in 1 .. n : EndsOpen(more, k) <=> EndsOpen(lines, k)
    <2>1. ASSUME NEW k \in 1 .. n, NEW j \in 1 .. k
          PROVE  /\ j \in 1 .. n /\ more[j] = lines[j]
                 /\ \A i \in j + 1 .. k : i \in 1 .. n /\ more[i] = lines[i]
      OBVIOUS
    <2> QED
      BY <2>1 DEF EndsOpen
  <1>2. {k \in 1 .. n : EndsOpen(more, k)} = {k \in 1 .. n : EndsOpen(lines, k)}
    BY <1>1
  <1>3. {k \in 1 .. n : more[k].kind = "unknown"} = {k \in 1 .. n : lines[k].kind = "unknown"}
    OBVIOUS
  <1>4. EndsOpen(more, n) = EndsOpen(lines, n)
    <2>1. CASE n = 0
      BY <2>1 DEF EndsOpen
    <2>2. CASE n # 0
      BY <1>1, <2>2 DEF EndsOpen
    <2> QED
      BY <2>1, <2>2
  <1> QED
    BY <1>2, <1>3, <1>4 DEF Lost, Doubled

(* What a literal or an argument goes on behind ends open.                 *)
LEMMA ContinuesOpen ==
  ASSUME TypeOK, LinesRead, ArgumentOpen, NEW l, Reads(l), Continues(l)
  PROVE  EndsOpen(text'[Top.src], Top.pos + 1)
  <1> DEFINE lines == text[Top.src]
             more == text'[Top.src]
             n == Top.pos
  <1>1. n \in Nat /\ more[n + 1] = l /\ \A k \in 1 .. n : more[k] = lines[k]
    <2>1. /\ n \in Nat /\ Top.src \in Files /\ Top = locations[Len(locations)]
          /\ Len(locations) \in Nat /\ Len(locations) > 0
      BY TopType DEF Top
    <2>2. n <= Len(lines)
      <3>1. Len(locations) \in DOMAIN locations
        BY <2>1 DEF TypeOK
      <3> QED
        BY <2>1, <3>1 DEF LinesRead
    <2>3. Len(lines) \in Nat
      BY <2>1, LenProperties DEF TypeOK
    <2>4. \A k \in 1 .. Len(lines) : more[k] = lines[k]
      BY <2>1 DEF Reads, Grows
    <2> QED
      BY <2>1, <2>2, <2>3, <2>4 DEF Reads
  <1> HIDE DEF lines, more, n
  <1>2. CASE l.arg = "split"
    <2>1. n + 1 \in 1 .. n + 1 /\ (n + 1) + 1 .. n + 1 = {}
      BY <1>1
    <2>2. EndsOpen(more, n + 1)
      BY <1>1, <1>2, <2>1 DEF EndsOpen
    <2> QED
      BY <2>2 DEF more, n
  <1>3. CASE status = "argument" /\ l.kind # "quote"
    <2>1. EndsOpen(more, n)
      <3>1. EndsOpen(lines, n)
        BY <1>3 DEF ArgumentOpen, lines, n
      <3> QED
        BY <1>1, <3>1, BoundsKept
    <2>2. PICK j \in 1 .. n : /\ more[j].arg = "split"
                              /\ \A i \in j + 1 .. n : more[i].kind # "quote"
      BY <2>1 DEF EndsOpen
    <2>3. j \in 1 .. n + 1 /\ \A i \in j + 1 .. n + 1 : i = n + 1 \/ i \in j + 1 .. n
      BY <1>1
    <2>4. EndsOpen(more, n + 1)
      BY <1>1, <1>3, <2>2, <2>3 DEF EndsOpen
    <2> QED
      BY <2>4 DEF more, n
  <1> QED
    BY <1>2, <1>3 DEF Continues

(* The line before an argument's next one leaves it open.                  *)
LEMMA OpenKept ==
  ASSUME TypeOK, LinesRead, ArgumentOpen, Next
  PROVE  ArgumentOpen'
  <1>1. ASSUME NEW l, Reads(l), Continues(l) PROVE ArgumentOpen'
    <2>1. Top'.src = Top.src /\ Top'.pos = Top.pos + 1
      BY <1>1, ContinuesTop DEF Place
    <2> QED
      BY <1>1, <2>1, ContinuesOpen DEF ArgumentOpen
  <1>2. status' # "argument" => ArgumentOpen'
    BY DEF ArgumentOpen
  <1> QED
    BY <1>1, <1>2, StepShapes DEF Outside, Halts, Refuses, Reading, Within

(* The number kept for place p of a file with these lines is its own, but  *)
(* for the line feeds lost and the directives counted twice.               *)
Tracks(p, lines) ==
  /\ p.name = p.src
  /\ p.line >= p.pos + 1 - Lost(lines, p.pos)
  /\ p.line <= p.pos + 1 + Doubled(lines, p.pos)

(* A line counted once stays within the bounds; so do one counted twice    *)
(* and one that is not counted, for which the bounds give way.             *)
LEMMA TracksNext ==
  ASSUME NEW p \in PlaceTypes, NEW lines, Tracks(p, lines), NEW line \in Nat,
         \/ line = p.line + 1
         \/ line = p.line + 2 /\ lines[p.pos + 1].kind = "unknown"
         \/ line = p.line /\ EndsOpen(lines, p.pos + 1)
  PROVE  Tracks(Place(p.src, p.pos + 1, line, p.name), lines)
  <1> DEFINE n == p.pos
             a == Lost(lines, n)
             d == Doubled(lines, n)
             e == Lost(lines, n + 1)
             f == Doubled(lines, n + 1)
             m == p.line
  <1>1. n \in Nat /\ m \in Nat
    BY DEF PlaceTypes
  <1>2. /\ a \in Nat /\ d \in Nat
        /\ e = a + IF EndsOpen(lines, n + 1) THEN 1 ELSE 0
        /\ f = d + IF lines[n + 1].kind = "unknown" THEN 1 ELSE 0
    BY <1>1, BoundsNext
  <1>3. /\ p.name = p.src /\ m >= n + 1 - a /\ m <= n + 1 + d
        /\ \/ line = m + 1
           \/ line = m + 2 /\ lines[n + 1].kind = "unknown"
           \/ line = m /\ EndsOpen(lines, n + 1)
    BY DEF Tracks
  <1> HIDE DEF n, a, d, e, f, m
  <1>4. line >= (n + 1) + 1 - e
    BY <1>1, <1>2, <1>3
  <1>5. line <= (n + 1) + 1 + f
    BY <1>1, <1>2, <1>3
  <1> QED
    BY <1>3, <1>4, <1>5 DEF Tracks, Place, n, e, f

(* Where no line renumbers, every file that is open tracks its source      *)
(* after a step.                                                           *)
LEMMA TrackedKept ==
  ASSUME TypeOK, TypeOK', LinesRead, ArgumentOpen, LineTracksSource, Next
  PROVE  LineTracksSource'
  <1> DEFINE n == Len(locations)
             True(p) == Tracks(p, text'[p.src])
  <1>1. /\ n \in Nat /\ n > 0 /\ DOMAIN locations = 1 .. n
        /\ Top = locations[n] /\ Top \in PlaceTypes /\ Top.src \in Files
        /\ Top.pos \in Nat /\ Top.line \in Nat
        /\ DOMAIN locations' = 1 .. Len(locations')
        /\ \A i \in 1 .. n : locations[i] \in PlaceTypes
    BY TopType DEF TypeOK, Top
  <1>2. Grows
    BY StepShapes, NothingRead DEF Reads, EndInclude, NoEnd
  <1>3. SUFFICES ASSUME Unnumbered'
                 PROVE  \A i \in 1 .. Len(locations') : True(locations'[i])
    BY <1>1 DEF LineTracksSource, Tracks
  <1>4. \A f \in Files : \A k \in 1 .. Len(text'[f]) : text'[f][k].kind # "line"
    <2>1. ASSUME NEW f \in Files, NEW k \in 1 .. Len(text'[f])
          PROVE  text'[f][k].kind # "line"
      <3>1. DOMAIN text'[f] = 1 .. Len(text'[f])
        BY DEF TypeOK
      <3>2. text'[f][k] \in ToSet(text'[f])
        BY <3>1 DEF ToSet
      <3> QED
        BY <1>3, <3>2 DEF Unnumbered
    <2> QED
      BY <2>1
  <1>5. Unnumbered
    <2>1. ASSUME NEW f \in Files, NEW l \in ToSet(text[f])
          PROVE  l.kind # "line"
      <3>1. DOMAIN text[f] = 1 .. Len(text[f]) /\ Len(text[f]) \in Nat /\ Len(text'[f]) \in Nat
        BY DEF TypeOK
      <3>2. PICK k \in 1 .. Len(text[f]) : l = text[f][k]
        BY <3>1 DEF ToSet
      <3>3. text'[f][k] = l /\ k \in 1 .. Len(text'[f])
        BY <1>2, <3>1, <3>2 DEF Grows
      <3> QED
        BY <1>4, <3>3
    <2> QED
      BY <2>1 DEF Unnumbered
  <1>6. \A i \in 1 .. n : True(locations[i])
    <2>1. ASSUME NEW i \in 1 .. n PROVE True(locations[i])
      <3> DEFINE p == locations[i]
      <3>1. p \in PlaceTypes /\ Tracks(p, text[p.src]) /\ p.pos <= Len(text[p.src])
        BY <1>1, <1>5 DEF LineTracksSource, Tracks, LinesRead
      <3> HIDE DEF p
      <3>2. /\ p.pos \in Nat /\ p.src \in Files
            /\ \A k \in 1 .. p.pos : text'[p.src][k] = text[p.src][k]
        <4>1. p.pos \in Nat /\ p.src \in Files
          BY <3>1 DEF PlaceTypes
        <4>2. Len(text[p.src]) \in Nat
          BY <4>1, LenProperties DEF TypeOK
        <4>3. \A k \in 1 .. Len(text[p.src]) : text'[p.src][k] = text[p.src][k]
          BY <1>2, <4>1 DEF Grows
        <4> QED
          BY <3>1, <4>1, <4>2, <4>3
      <3>3. /\ Lost(text'[p.src], p.pos) = Lost(text[p.src], p.pos)
            /\ Doubled(text'[p.src], p.pos) = Doubled(text[p.src], p.pos)
        BY <3>2, BoundsKept
      <3> QED
        BY <3>1, <3>3 DEF Tracks, p
    <2> QED
      BY <2>1
  <1>7. True(Top)
    BY <1>1, <1>6
  <1> HIDE DEF n, True
  <1>8. ASSUME NEW l, Reads(l) PROVE l.kind # "line" /\ text'[Top.src][Top.pos + 1] = l
    BY <1>1, <1>4, <1>8 DEF Reads
  <1>9. ASSUME NEW place, Goes(place), True(place)
        PROVE  \A i \in 1 .. Len(locations') : True(locations'[i])
    <2>1. /\ Len(locations') = n /\ \A i \in 1 .. n - 1 : locations'[i] = locations[i]
          /\ locations'[n] = place
      BY <1>9 DEF Goes, n
    <2>2. \A i \in 1 .. n : i = n \/ (i \in 1 .. n - 1 /\ i \in 1 .. n)
      BY <1>1
    <2> QED
      BY <1>6, <1>9, <2>1, <2>2
  <1>10. ASSUME NEW l, Reads(l), Passes(l)
         PROVE  \A i \in 1 .. Len(locations') : True(locations'[i])
    <2>1. PICK k \in {1, 2} :
            /\ Goes(Place(Top.src, Top.pos + 1, Top.line + k, Top.name))
            /\ k = 2 => l.kind = "unknown"
      BY <1>10 DEF Passes, Writes
    <2> DEFINE place == Place(Top.src, Top.pos + 1, Top.line + k, Top.name)
    <2>2. Tracks(place, text'[Top.src])
      <3>1. Tracks(Top, text'[Top.src]) /\ Top.line + k \in Nat
        BY <1>1, <1>7 DEF True
      <3>2. \/ Top.line + k = Top.line + 1
            \/ Top.line + k = Top.line + 2 /\ text'[Top.src][Top.pos + 1].kind = "unknown"
        BY <1>8, <1>10, <2>1
      <3> QED
        BY <1>1, <3>1, <3>2, TracksNext
    <2>3. True(place)
      BY <2>2 DEF True, Place
    <2> QED
      BY <1>9, <2>1, <2>3
  <1>11. ASSUME NEW l, Reads(l), Continues(l)
         PROVE  \A i \in 1 .. Len(locations') : True(locations'[i])
    <2> DEFINE place == Place(Top.src, Top.pos + 1, Top.line, Top.name)
    <2>1. Goes(place)
      BY <1>11 DEF Continues
    <2>2. Tracks(place, text'[Top.src])
      <3>1. Tracks(Top, text'[Top.src])
        BY <1>7 DEF True
      <3>2. EndsOpen(text'[Top.src], Top.pos + 1)
        BY <1>11, ContinuesOpen
      <3> QED
        BY <1>1, <3>1, <3>2, TracksNext
    <2>3. True(place)
      BY <2>2 DEF True, Place
    <2> QED
      BY <1>9, <2>1, <2>3
  <1>12. ASSUME NEW l, Reads(l), Numbers(l)
         PROVE  FALSE
    BY <1>8, <1>12 DEF Numbers
  <1>13. ASSUME NEW l, Enters(l)
         PROVE  \A i \in 1 .. Len(locations') : True(locations'[i])
    <2>1. /\ Len(locations') = n + 1 /\ \A i \in 1 .. n : locations'[i] = locations[i]
          /\ locations'[n + 1] = OpenFile(l.arg)
      BY <1>13 DEF Enters, n
    <2>2. True(locations'[n + 1])
      <3>1. Lost(text'[l.arg], 0) \in Nat /\ Doubled(text'[l.arg], 0) \in Nat
        BY BoundsNext
      <3> QED
        BY <2>1, <3>1 DEF True, Tracks, OpenFile, Place
    <2>3. \A i \in 1 .. n + 1 : i = n + 1 \/ i \in 1 .. n
      BY <1>1
    <2> QED
      BY <1>6, <2>1, <2>2, <2>3
  <1>14. CASE Returns
    <2>1. /\ n > 1 /\ Len(locations') = n - 1
          /\ locations'[n - 1] = NextLine(locations[n - 1])
          /\ \A i \in 1 .. n - 2 : locations'[i] = locations[i]
      BY <1>14 DEF Returns, n
    <2>2. True(locations'[n - 1])
      <3> DEFINE back == locations[n - 1]
      <3>1. n - 1 \in 1 .. n
        BY <1>1, <2>1
      <3>2. back \in PlaceTypes /\ Tracks(back, text'[back.src])
        BY <1>1, <1>6, <3>1 DEF True
      <3> HIDE DEF back
      <3>3. Tracks(NextLine(back), text'[back.src])
        <4>1. back.line + 1 \in Nat
          BY <3>2 DEF PlaceTypes
        <4> QED
          BY <3>2, <4>1, TracksNext DEF NextLine
      <3>4. True(NextLine(back))
        BY <3>3 DEF True, NextLine, Place
      <3> QED
        BY <2>1, <3>4 DEF back
    <2>3. \A i \in 1 .. n - 1 : i = n - 1 \/ (i \in 1 .. n - 2 /\ i \in 1 .. n)
      BY <1>1
    <2> QED
      BY <1>6, <2>1, <2>2, <2>3
  <1>15. CASE UNCHANGED places
    BY <1>6, <1>15 DEF places, n
  <1> QED
    BY <1>10, <1>11, <1>12, <1>13, <1>14, <1>15, StepShapes DEF Halts, Refuses

-----------------------------------------------------------------------------
(* The theorems.                                                           *)

(* getLoc takes the record that locates the line, unless it is misled by   *)
(* what stands behind the last.                                            *)
LEMMA GetLocFinds ==
  ASSUME TypeOK, WarpsAscend, NEW i \in Nat, NEW behind, ~Misread(i, behind),
         NEW k \in DOMAIN warps, LocatedBy(k, i)
  PROVE  /\ getLoc(i, behind).name = out[i].name
         /\ getLoc(i, behind).line \in {out[i].line - 1, out[i].line}
  <1> DEFINE N == Len(warps)
             entries == Append(warps, behind)
             Bound(h) == /\ h <= N => entries[h].old >= i
                         /\ \A j \in 1 .. h - 1 : entries[j].old < i
             lbIt == CHOOSE h \in DOMAIN entries : Bound(h)
             at == IF entries[lbIt].old = i \/ lbIt = 1 THEN lbIt ELSE lbIt - 1
             m == IF warps[k].old = i THEN k ELSE k + 1
  <1>1. /\ DOMAIN warps = 1 .. N /\ N \in Nat
        /\ \A j \in 1 .. N : warps[j].old \in Nat
        /\ k \in 1 .. N
    BY WarpsTyped
  <1>2. /\ DOMAIN entries = 1 .. N + 1 /\ entries[N + 1] = behind
        /\ \A j \in 1 .. N : entries[j] = warps[j]
    <2>1. warps \in Seq(WarpTypes)
      BY DEF TypeOK
    <2>2. warps \in Seq(WarpTypes \cup {behind})
      BY <2>1
    <2> QED
      BY <1>1, <2>2, AppendProperties
  <1>3. /\ warps[k].old <= i /\ \A j \in 1 .. N : j > k => warps[j].old > i
        /\ \A j \in 1 .. N : j < k => warps[j].old < warps[k].old
    BY <1>1 DEF LocatedBy, WarpsAscend
  <1>4. getLoc(i, behind) =
          [name |-> entries[at].name, line |-> entries[at].new + i - entries[at].old]
    BY DEF getLoc
  <1> HIDE DEF N, entries
  <1>5. m \in 1 .. N + 1 /\ Bound(m)
    BY <1>1, <1>2, <1>3
  <1>6. \A h \in 1 .. N + 1 : Bound(h) => h = m
    <2>1. ASSUME NEW h \in 1 .. N + 1, Bound(h) PROVE h = m
      <3>1. ~(h < m)
        <4>1. ASSUME h < m PROVE FALSE
          <5>1. h \in 1 .. m - 1 /\ h <= N
            BY <1>1, <1>5, <4>1
          <5>2. entries[h].old < i /\ entries[h].old >= i
            BY <1>5, <2>1, <5>1
          <5>3. entries[h].old \in Nat
            BY <1>1, <1>2, <5>1
          <5> QED
            BY <5>2, <5>3
        <4> QED
          BY <4>1
      <3>2. ~(m < h)
        <4>1. ASSUME m < h PROVE FALSE
          <5>1. m \in 1 .. h - 1 /\ m <= N
            BY <1>1, <1>5, <4>1
          <5>2. entries[m].old < i /\ entries[m].old >= i
            BY <1>5, <2>1, <5>1
          <5>3. entries[m].old \in Nat
            BY <1>1, <1>2, <1>5, <5>1
          <5> QED
            BY <5>2, <5>3
        <4> QED
          BY <4>1
      <3> QED
        BY <1>1, <1>5, <3>1, <3>2
    <2> QED
      BY <2>1
  <1> HIDE DEF Bound
  <1>7. lbIt = m
    BY <1>2, <1>5, <1>6
  <1> HIDE DEF lbIt
  <1>8. at = k
    <2>1. CASE warps[k].old = i
      BY <1>1, <1>2, <1>7, <2>1
    <2>2. CASE warps[k].old # i
      <3>1. m = k + 1 /\ warps[k].old < i
        BY <1>1, <1>3, <2>2
      <3>2. entries[k + 1].old # i
        <4>1. CASE k = N
          <5>1. Last(warps).old < i
            BY <3>1, <4>1 DEF Last, N
          <5> QED
            BY <1>2, <4>1, <5>1 DEF Misread
        <4>2. CASE k # N
          <5>1. k + 1 \in 1 .. N /\ k + 1 > k
            BY <1>1, <4>2
          <5> QED
            BY <1>1, <1>2, <1>3, <5>1
        <4> QED
          BY <4>1, <4>2
      <3> QED
        BY <1>1, <1>7, <3>1, <3>2
    <2> QED
      BY <2>1, <2>2
  <1> HIDE DEF at
  <1>9. entries[k] = warps[k]
    BY <1>1, <1>2
  <1> QED
    BY <1>4, <1>8, <1>9 DEF LocatedBy

(* At the start nothing is read, written or refused.                       *)
LEMMA LinesStart ==
  ASSUME Init
  PROVE  LineInv
  <1>1. /\ TypeOK /\ Root \in Files
    BY InitHolds, PreprocessorAssumption DEF IInv
  <1>2. /\ Len(locations) = 1 /\ DOMAIN locations = {1} /\ locations[1] = OpenFile(Root)
        /\ Len(warps) = 1 /\ warps[1] = Warp(0, 0, Root)
        /\ globalLine = 0 /\ DOMAIN out = {} /\ status = "run"
        /\ text[Root] = <<>>
    BY <1>1 DEF Init
  <1>3. LastWarp = Warp(0, 0, Root) /\ Top = OpenFile(Root) /\ Depth = 0
    BY <1>2 DEF LastWarp, Top, Depth
  <1>4. WarpsBehind
    BY <1>2, <1>3 DEF WarpsBehind, Warp
  <1>5. LinesRead
    <2>1. 1 .. Len(locations) - 1 = {}
      BY <1>2
    <2>2. locations[1].pos = 0 /\ locations[1].src = Root
      BY <1>2 DEF OpenFile, Place
    <2>3. Len(text[Root]) = 0
      BY <1>2
    <2>4. \A i \in DOMAIN locations : locations[i].pos <= Len(text[locations[i].src])
      BY <1>2, <2>2, <2>3
    <2> QED
      BY <2>1, <2>4 DEF LinesRead
  <1>6. SeamRecorded /\ RefusedAtSeams
    BY <1>2, <1>3 DEF SeamRecorded, RefusedAtSeams
  <1>a. WarpsAscend
    <2>1. DOMAIN warps = {1}
      BY <1>1, <1>2 DEF TypeOK
    <2> QED
      BY <2>1 DEF WarpsAscend
  <1>b. ArgumentOpen
    BY <1>2 DEF ArgumentOpen
  <1>7. NearlyForetold
    <2>1. Foretold = 0 /\ Top.line = 1 /\ Top.name = Root /\ LastWarp.name = Root
      BY <1>2, <1>3 DEF Foretold, Warp, OpenFile, Place
    <2> QED
      BY <1>3, <2>1 DEF NearlyForetold
  <1>8. ShownLocated
    BY <1>2 DEF ShownLocated
  <1>9. LineTracksSource
    <2>1. Lost(text[Root], 0) \in Nat /\ Doubled(text[Root], 0) \in Nat
      BY BoundsNext
    <2> QED
      BY <1>2, <2>1 DEF LineTracksSource, OpenFile, Place
  <1> QED
    BY <1>a, <1>b, <1>4, <1>5, <1>6, <1>7, <1>8, <1>9 DEF LineInv

(* Every step keeps the invariant.                                         *)
LEMMA LinesStep ==
  ASSUME IInv, LineInv, [Next]_vars
  PROVE  LineInv'
  <1>1. TypeOK /\ TypeOK' /\ AlignedOutput
    BY NextKeeps DEF IInv
  <1>2. CASE Next
    BY <1>1, <1>2, BehindKept, AscentKept, LinesReadKept, OpenKept, SeamsKept, ForetoldKept,
       LocatedKept, TrackedKept DEF LineInv
  <1>3. CASE UNCHANGED vars
    <2>1. /\ UNCHANGED <<text, whole, status, locations, globalLine, warps, out>>
      BY <1>3 DEF vars, source, places
    <2>2. Top' = Top /\ Depth' = Depth /\ LastWarp' = LastWarp
      BY <2>1 DEF Top, Depth, LastWarp
    <2>3. /\ WarpsBehind' /\ WarpsAscend' /\ LinesRead' /\ ArgumentOpen'
          /\ SeamRecorded' /\ RefusedAtSeams'
      BY <2>1, <2>2
         DEF LineInv, WarpsBehind, WarpsAscend, LinesRead, ArgumentOpen, SeamRecorded,
             RefusedAtSeams, Outside
    <2>4. NearlyForetold'
      BY <2>1, <2>2 DEF LineInv, NearlyForetold, Foretold, Shallow, Running
    <2>5. ShownLocated'
      BY <2>1 DEF LineInv, ShownLocated, LocatedBy, Shallow, WholeTo
    <2>6. LineTracksSource'
      BY <2>1 DEF LineInv, LineTracksSource, Unnumbered
    <2> QED
      BY <2>3, <2>4, <2>5, <2>6 DEF LineInv
  <1> QED
    BY <1>2, <1>3

(* The invariants hold together.                                           *)
LEMMA LinesInductive == Spec => [](IInv /\ LineInv)
<1>1. Init => IInv /\ LineInv
  BY InitHolds, LinesStart
<1>2. IInv /\ LineInv /\ [Next]_vars => (IInv /\ LineInv)'
  BY NextKeeps, LinesStep
<1> QED
  BY <1>1, <1>2, PTL DEF Spec

(* For any files that do not renumber their lines, the line kept for       *)
(* messages and __LINE__ is the line read, through any nesting of          *)
(* includes: but for the line feeds that literals and arguments may take,  *)
(* by which it is behind, and the unknown directives that may be skipped,  *)
(* by which it is ahead.                                                   *)
THEOREM LinesTracked == Spec => []LineTracksSource
<1>1. IInv /\ LineInv => LineTracksSource
  BY DEF LineInv
<1> QED
  BY <1>1, LinesInductive, PTL

(* The line map refuses a position only where an included file that has    *)
(* given no line of its own since the last position ends: no #include and  *)
(* no #line is ever refused.                                               *)
THEOREM RefusalsAreSeams == Spec => []RefusedAtSeams
<1>1. IInv /\ LineInv => RefusedAtSeams
  BY DEF LineInv
<1> QED
  BY <1>1, LinesInductive, PTL

(* With includes one deep, getLoc reports each line of text in its own     *)
(* file, at its own number or the one before, whatever the files hold: up  *)
(* to the first line that a character literal ends, and unless the memory  *)
(* behind the last record, which is read, holds the number of the line.    *)
THEOREM LinesLocated == Spec => []LocNearby
<1>1. IInv /\ LineInv => LocNearby
  <2> SUFFICES ASSUME TypeOK, WarpsAscend, ShownLocated, Shallow,
                      NEW i \in DOMAIN out, NEW behind \in Leftovers,
                      out[i].what = "shown", WholeTo(i), ~Misread(i, behind)
               PROVE  /\ getLoc(i, behind).name = out[i].name
                      /\ getLoc(i, behind).line \in {out[i].line - 1, out[i].line}
    BY DEF IInv, LineInv, LocNearby, WholeTo
  <2>1. i \in Nat
    BY DEF TypeOK
  <2>2. PICK k \in DOMAIN warps : LocatedBy(k, i)
    BY DEF ShownLocated
  <2> QED
    BY <2>1, <2>2, GetLocFinds
<1> QED
  BY <1>1, LinesInductive, PTL
=============================================================================
