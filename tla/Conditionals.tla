---------------------------- MODULE Conditionals ----------------------------
(***************************************************************************)
(* What conditional compilation promises, without saying how: the groups   *)
(* that are open form a stack, a line of text is passed on if and only if  *)
(* every open group is kept, a group inside a dropped one is dead whatever *)
(* its condition says, and a group changes side at most once.              *)
(* Preprocessor implements it with a flag, a counter and a stack of        *)
(* statuses that covers only the groups met outside a dropped one.         *)
(***************************************************************************)
EXTENDS Integers, Sequences

VARIABLES
  groups,   \* the groups that are open, outermost first
  shown,    \* for each line so far: "shown", "hidden" or "blank" (no text)
  stopped   \* the text has ended, or an error was reported

vars == <<groups, shown, stopped>>

GroupStates == {"on", "off", "elseOn", "elseOff", "dead"}

Init ==
  /\ groups = <<>>
  /\ shown = <<>>
  /\ stopped = FALSE

Active == \A i \in DOMAIN groups : groups[i] \in {"on", "elseOn"}

Blank == shown' = Append(shown, "blank")

Text ==
  /\ shown' = Append(shown, IF Active THEN "shown" ELSE "hidden")
  /\ UNCHANGED groups

(* A line inside a comment, or a directive that concerns no group.  It may *)
(* give no line of output or two: only text is accounted for.              *)
OtherLine ==
  /\ \/ UNCHANGED shown
     \/ Blank
     \/ shown' = Append(Append(shown, "blank"), "blank")
  /\ UNCHANGED groups

Open ==
  /\ Blank
  /\ \E state \in IF Active THEN {"on", "off"} ELSE {"dead"} :
        groups' = Append(groups, state)

Else ==
  /\ groups # <<>>
  /\ Blank
  /\ LET last == Len(groups)
     IN  \/ groups[last] = "on"   /\ groups' = [groups EXCEPT ![last] = "elseOff"]
         \/ groups[last] = "off"  /\ groups' = [groups EXCEPT ![last] = "elseOn"]
         \/ groups[last] = "dead" /\ UNCHANGED groups

Close ==
  /\ groups # <<>>
  /\ Blank
  /\ groups' = SubSeq(groups, 1, Len(groups) - 1)

Line ==
  /\ ~stopped
  /\ UNCHANGED stopped
  /\ Text \/ OtherLine \/ Open \/ Else \/ Close

Stop ==
  /\ stopped' = TRUE
  /\ UNCHANGED <<groups, shown>>

Next == Line \/ Stop

Spec == Init /\ [][Next]_vars
=============================================================================
