----------------------------- MODULE ChangeFeed -----------------------------
(***************************************************************************)
(* What an incremental connector promises, without rows, handlers and      *)
(* clocks.  A feed publishes stamped changes; a reader takes some of them  *)
(* and moves a mark, below which it will not look again.                   *)
(***************************************************************************)
EXTENDS Integers

VARIABLES
  published,  \* pairs <<change, stamp>> that can be read
  taken,      \* those the reader has
  mark        \* stamps up to here will not be asked for again

vars == <<published, taken, mark>>

Init == published = {} /\ taken = {} /\ mark = 0

\* Changes appear above the mark only.
Publish ==
  /\ published \subseteq published'
  /\ \A x \in published' \ published : x[2] > mark
  /\ UNCHANGED <<taken, mark>>

\* The reader takes some changes and moves the mark, forwards or backwards,
\* to a point below which it has everything.
Take ==
  /\ taken \subseteq taken' /\ taken' \subseteq published
  /\ mark' \in Int
  /\ \A x \in published : x[2] <= mark' => x \in taken'
  /\ UNCHANGED published

Next == Publish \/ Take

Spec == Init /\ [][Next]_vars

\* Nothing below the mark is missing.
Complete == \A x \in published : x[2] <= mark => x \in taken

=============================================================================
