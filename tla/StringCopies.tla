---------------------------- MODULE StringCopies ----------------------------
(***************************************************************************)
(* The string copies of fuzzing/mocks.c, which the plugin is linked with   *)
(* when it is built for the fuzzer: strlcpy puts every title, the plugin's *)
(* name and the operation into buffers of the host that are used again and *)
(* again; strlcat is there beside it.  A buffer is an array of bytes, with *)
(* what lies behind its end.                                               *)
(*                                                                         *)
(* size - 1 and size - (dstlen + 1) are a size_t: both functions are       *)
(* called with room for the NUL, so that neither wraps around.             *)
(***************************************************************************)
EXTENDS EnsDefs

CONSTANTS
  Chars,    \* the characters of strings
  MaxSize,  \* bound on the size of the buffer
  MaxLen    \* bound on the length of a source string

ASSUME BufferAssumption == MaxSize \in Nat \ {0} /\ MaxLen \in Nat

NUL     == "nul"
Outside == "outside"  \* what the bytes behind the buffer hold

\* No character of a C string is its NUL.
ASSUME CharsAssumption == NUL \notin Chars

VARIABLES
  memory,  \* the buffer, and the bytes behind it
  size,    \* its size: titleLength, nameLength, versionLength
  wanted   \* history: the string the calls so far should have left in it

vars == <<memory, size, wanted>>

Strings == UNION { [1 .. n -> Chars] : n \in 0 .. MaxLen }
Addresses == 0 .. MaxSize + MaxLen

strlen(dst) == CHOOSE n \in Addresses : dst[n] = NUL /\ \A i \in 0 .. n - 1 : dst[i] # NUL

\* memcpy(dst + at, src, n) and the NUL after it.
Put(dst, at, src, n) ==
    [a \in Addresses |-> IF a \in at .. at + n - 1 THEN src[a - at + 1]
                         ELSE IF a = at + n THEN NUL ELSE dst[a]]

\* size--; if (srclen > size) srclen = size;
RoomForAll(room) == room   \* mutant: no byte is left for the NUL
Room(room) == room - 1

strlcpy(dst, src, room) == Put(dst, 0, src, Least(Len(src), Room(room)))

\* No room: return at once.
strlcat(dst, src, room) ==
    IF Room(room - strlen(dst)) = 0 THEN dst
    ELSE Put(dst, strlen(dst), src, Least(Len(src), Room(room - strlen(dst))))

\* The host's buffers are zeroed to begin with.
Init ==
    /\ size \in 1 .. MaxSize
    /\ memory = [a \in Addresses |-> IF a < size THEN NUL ELSE Outside]
    /\ wanted = << >>

Prefix(s, n) == SubSeq(s, 1, Least(n, Len(s)))

Copy(src) ==
    /\ memory' = strlcpy(memory, src, size)
    /\ wanted' = Prefix(src, size - 1)
    /\ UNCHANGED size

Concatenate(src) ==
    /\ memory' = strlcat(memory, src, size)
    /\ wanted' = Prefix(wanted \o src, size - 1)
    /\ UNCHANGED size

Next == \E src \in Strings : Copy(src) \/ Concatenate(src)

Spec == Init /\ [][Next]_vars

(***************************************************************************)
(* Properties.                                                             *)
(***************************************************************************)

\* However often a buffer is written to, by strings shorter or longer than
\* what it held, it holds the string asked for, cut off where it ends, with
\* its NUL, and nothing is written behind it.
TruncatedString ==
    /\ \A a \in Addresses : a >= size => memory[a] = Outside
    /\ \E a \in 0 .. size - 1 : memory[a] = NUL
    /\ wanted = [i \in 1 .. strlen(memory) |-> memory[i - 1]]
=============================================================================
