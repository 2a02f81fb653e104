------------------------------- MODULE OnePass -------------------------------
(***************************************************************************)
(* What any reader does that sees each word of the calldata once, in       *)
(* order, and keeps some of its bytes: a session starts with blank memory, *)
(* a word can only put bytes of its own into cells that are still blank,   *)
(* and after the last word the memory stays as it is until the next        *)
(* session.  What is kept is no part of it.                                *)
(*                                                                         *)
(* A cell holds the position of the byte kept in it, or 0 while blank.     *)
(***************************************************************************)
EXTENDS Integers

CONSTANTS
  Fixed,     \* cells that stand for a field of fixed size
  Buffers,   \* buffers,
  Cells,     \* and the cells of each
  WordSize,  \* the number of bytes of a word
  First      \* the position of the first word

VARIABLES
  reading,  \* a session is under way and its words are being read
  at,       \* the position of the next word
  fixed,    \* [Fixed -> positions]
  bytes     \* [Buffers -> [Cells -> positions]]

vars == <<reading, at, fixed, bytes>>

Blank ==
    /\ fixed = [f \in Fixed |-> 0]
    /\ bytes = [b \in Buffers |-> [c \in Cells |-> 0]]

Init == ~reading /\ at = First /\ Blank

\* A session starts, or is refused before its first word.
Start ==
    /\ ~reading
    /\ at' = First
    /\ \/ Blank'
       \/ ~reading' /\ UNCHANGED <<fixed, bytes>>

\* A cell is left alone, or was blank and gets a byte of this word.
Fills(old, new) == new = old \/ (old = 0 /\ new \in at .. at + WordSize - 1)

Read ==
    /\ reading
    /\ at' = at + WordSize
    /\ \A f \in Fixed : Fills(fixed[f], fixed'[f])
    /\ \A b \in Buffers, c \in Cells : Fills(bytes[b][c], bytes'[b][c])

Stop ==
    /\ reading
    /\ ~reading'
    /\ UNCHANGED <<at, fixed, bytes>>

Next == Start \/ Read \/ Stop

Spec == Init /\ [][Next]_vars
=============================================================================
