------------------------------- MODULE MCStream -------------------------------
(***************************************************************************)
(* Instances of EnsStream for TLC.                                         *)
(***************************************************************************)
EXTENDS EnsStream

\* A number in the last two bytes, and a word that is no 16-bit number.
Number(n) == [low |-> n, small |-> TRUE, alias |-> 0, digits |-> 1]
Large     == [low |-> 1, small |-> FALSE, alias |-> 40, digits |-> 78]

Numbers(S) == { Number(n) : n \in S }

\* The functions without an array, and a selector the plugin does not know.
FieldSelectors == {"f14fcbc8", "85f6d155", "f7a16963", "acf1a841", "c47f0027",
                   "5b0fc9c3", "1896f70a", "5ef2c7f0", "8b95dd71", "10f13a8c",
                   "304e6ade", "00000000"}
\* The functions with an array, and one that leaves a bytes_missing behind.
ArraySelectors == {"e8d6dbb4", "ac9650d8", "c47f0027"}
\* The functions that check three offsets, two of them in globals.
ClaimSelectors == {"8bbedf75", "224199c2"}

\* Numbers that are offsets of heads of one to six words, and lengths of
\* fields of one, two and three words, in all the ways to split the last 16;
\* and one so great that the position sought with it wraps around 2^16.
FieldWords == Numbers({32, 40, 50, 64, 72, 96, 128, 192, 65488}) \cup {Large}
ArrayWords == Numbers({1, 2, 3, 32, 40, 64, 96, 160, 65504}) \cup {Large}
\* Those of the claims have, behind heads of three and of five words, a name of
\* 40 bytes, the inputs and then the proof.
ClaimWords == Numbers({40, 96, 160, 192, 256, 288}) \cup {Large}
=============================================================================
