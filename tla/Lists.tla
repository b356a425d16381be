-------------------------------- MODULE Lists --------------------------------
(***************************************************************************)
(* What the code does with arrays, defined by recursion on a position:     *)
(* filter by a set, new Set(...) in its insertion order, flatMap, reduce   *)
(* to a sum.  They say the same as SelectSeq and the folds of the          *)
(* community modules, in a form that a proof can unfold.                   *)
(***************************************************************************)
EXTENDS Naturals, Sequences

Elements(s) == {s[i] : i \in DOMAIN s}
FirstOf(s, count) == SubSeq(s, 1, IF Len(s) < count THEN Len(s) ELSE count)

\* the elements of s that are in T, after so many positions
Keeping(s, T) ==
  LET Kept[i \in 0..Len(s)] ==
        IF i = 0 THEN <<>>
        ELSE IF s[i] \in T THEN Append(Kept[i - 1], s[i]) ELSE Kept[i - 1]
  IN  Kept
Filtered(s, T) == Keeping(s, T)[Len(s)]

\* each element where it comes first
Deduplicating(s) ==
  LET Kept[i \in 0..Len(s)] ==
        IF i = 0 THEN <<>>
        ELSE IF s[i] \in Elements(Kept[i - 1]) THEN Kept[i - 1] ELSE Append(Kept[i - 1], s[i])
  IN  Kept
Distinct(s) == Deduplicating(s)[Len(s)]

\* the lists of the elements of s, one after the other
Concatenating(s, lists) ==
  LET All[i \in 0..Len(s)] == IF i = 0 THEN <<>> ELSE All[i - 1] \o lists[s[i]]
  IN  All
Concatenated(s, lists) == Concatenating(s, lists)[Len(s)]

\* the sum of a list of numbers
Adding(s) ==
  LET Total[i \in 0..Len(s)] == IF i = 0 THEN 0 ELSE Total[i - 1] + s[i]
  IN  Total
Sum(s) == Adding(s)[Len(s)]
=============================================================================
