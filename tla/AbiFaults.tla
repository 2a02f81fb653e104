------------------------------ MODULE AbiFaults ------------------------------
(***************************************************************************)
(* Transactions that are not what their encoder made of them: calldata     *)
(* that ends early, and calldata one word of which holds more than the     *)
(* parser can read there.  External to the plugin, like AbiCalls: what the *)
(* host is sent, and what is left of README.md's display of it.            *)
(*                                                                         *)
(* A call has two more fields: cut, the number of words missing at its     *)
(* end, and large, the word that holds a 256-bit number, or 0.             *)
(***************************************************************************)
EXTENDS AbiCalls

\* The calls there are, of the functions README.md lists: with a length for
\* each string or byte array, or for each element of their array.
Transactions ==
    { c \in [selector : { ENS_SELECTORS[i] : i \in DOMAIN ENS_SELECTORS }, lens : Seq(Nat),
            inputs : Nat, digits : 1 .. 78, cut : Nat, large : Nat] :
        LET kinds == Signature(c.selector)
        IN \/ \E i \in DOMAIN kinds : kinds[i] = "array"
           \/ Len(c.lens) = DataIndex(c, Len(kinds)) }

Intact(call) == call.cut = 0 /\ call.large = 0

\* The words the host is sent.
Sent(call) ==
    LET words == Encode(call)
    IN SubSeq(IF call.large = 0 THEN words ELSE ReplaceAt(words, call.large, Opaque),
              1, Len(words) - call.cut)

\* The position after the last word.
EndOf(call) == SELECTOR_SIZE + SizeOf(Sent(call))

\* The words with the numbers a reader needs to find the fields: the offsets
\* in the head, the lengths, the number of elements and their offsets.
WordAt(bytes) == bytes \div PARAMETER_LENGTH + 1

Numbers(call) ==
    LET kinds  == Signature(call.selector)
        tails  == { i \in DOMAIN kinds : kinds[i] \in {"data", "array"} }
        arrays == { i \in DOMAIN kinds : kinds[i] = "array" }
    IN { i \in DOMAIN kinds : kinds[i] # "word" }
         \cup { WordAt(TailAt(call, i)) : i \in tails }
         \cup { WordAt(TailAt(call, i)) + e : i \in arrays, e \in DOMAIN call.lens }
         \cup { WordAt(ElementAt(call, i, e)) : i \in arrays, e \in DOMAIN call.lens }

\* One of them arrives, and is no 16-bit number.
Oversized(call) == call.large \in Numbers(call) /\ call.large <= Len(Sent(call))

(***************************************************************************)
(* What is left of the display of a transaction whose calldata ends before *)
(* position `end`.                                                         *)
(***************************************************************************)
InHead(call, bytes) ==
    bytes # << >> /\ bytes[1] < SELECTOR_SIZE + SizeOf(Signature(call.selector))

\* The length of a string or byte array, the word before it, did not arrive.
NoLength(call, bytes, end) ==
    bytes # << >> /\ ~InHead(call, bytes) /\ bytes[1] - PARAMETER_LENGTH >= end

\* A string stops where its bytes do; of a byte array whose length arrived,
\* and of a parameter of fixed size, the rest is 0.
BytesLeft(call, screen, end) ==
    LET bytes == screen.bytes
    IN IF screen.format = "string" THEN RestrictValues(bytes, LAMBDA b : b < end)
       ELSE IF screen.format = "hex" /\ NoLength(call, bytes, end) THEN << >>
       ELSE [j \in DOMAIN bytes |-> IF bytes[j] < end THEN bytes[j] ELSE 0]

\* The dots come with the first bytes.
ScreenLeft(call, screen, end) ==
    Promise(screen.title, screen.format, BytesLeft(call, screen, end),
            screen.dots /\ screen.bytes[1] < end)

\* The elements of an array, whose screens come first, have none before their
\* number is known.
ElementsKnown(call, end) ==
    \A i \in DOMAIN Signature(call.selector) :
        Signature(call.selector)[i] = "array" => SELECTOR_SIZE + TailAt(call, i) < end

DisplayLeft(call) ==
    LET end     == EndOf(call)
        display == Display(call)
        screens == IF ElementsKnown(call, end) THEN display
                   ELSE SubSeq(display, Len(call.lens) + 1, Len(display))
    IN IF call.cut = 0 THEN display
       ELSE [i \in DOMAIN screens |-> ScreenLeft(call, screens[i], end)]
=============================================================================
