------------------------------ MODULE MCSigning ------------------------------
(***************************************************************************)
(* Instances of EnsSigning for TLC: transactions of every function, with   *)
(* fields in one, two, three and four words and the last 16 bytes of a     *)
(* long one in one word or across two.                                     *)
(***************************************************************************)
EXTENDS EnsSigning

Call(selector, lens) ==
    [selector |-> selector, lens |-> lens, inputs |-> 1, digits |-> 76,
     cut |-> 0, large |-> 0]

\* Lengths of a field others follow, and of one that comes last.
Inner == {1, 32, 33, 47, 48, 66, 80}
Final  == {0, 34, 64, 95}

NoField == { Call(s, << >>) : s \in {"f14fcbc8", "5b0fc9c3", "1896f70a", "5ef2c7f0"} }
OneField == { Call(s, << n >>) : s \in {"85f6d155", "f7a16963", "acf1a841", "c47f0027", "304e6ade"},
                                 n \in Inner \cup Final }
Addresses == { Call("8b95dd71", << n >>) : n \in {0, 20, 32} }
TwoFields == { Call(s, << m, n >>) : s \in {"10f13a8c", "8bbedf75", "224199c2"},
                                     m \in Inner, n \in Final \cup {48} }
Arrays == { Call(s, << n >>) : s \in {"e8d6dbb4", "ac9650d8"}, n \in Final \cup {20} }
    \cup { Call(s, << m, n >>) : s \in {"e8d6dbb4", "ac9650d8"}, m \in Inner, n \in {20, 34, 64} }
    \cup { Call("ac9650d8", << l, m, n >>) : l \in {4, 33, 80}, m \in {20, 48}, n \in {0, 66} }

SupportedCalls == NoField \cup OneField \cup Addresses \cup TwoFields \cup Arrays

\* Beyond the README's limits.
OverLimitCalls == { Call("e8d6dbb4", << 3, 4, 5 >>), Call("ac9650d8", << 4, 4, 4, 4 >>),
                    Call("e8d6dbb4", << 3, 40, 5, 33 >>) }

\* Transactions the plugin refuses on the way, or shows wrongly: they leave
\* the globals as a session that went wrong leaves them.
OtherCalls == { Call("224199c2", << 64, 34 >>), Call("224199c2", << 0, 34 >>),
                Call("10f13a8c", << 64, 7 >>), Call("e8d6dbb4", << >>),
                Call("ac9650d8", << >>), Call("8b95dd71", << 60 >>),
                [Call("acf1a841", << 5 >>) EXCEPT !.digits = 78] }

\* One transaction of every function, and those over the limits, for the
\* temporal properties.
OfEveryFunction ==
    NoField \cup Addresses \cup
    { Call(s, << 47 >>) : s \in {"85f6d155", "f7a16963", "acf1a841", "304e6ade"} } \cup
    { Call("c47f0027", << n >>) : n \in {5, 64, 66} } \cup
    { Call(s, << 33, 66 >>) : s \in {"10f13a8c", "8bbedf75", "224199c2", "e8d6dbb4"} } \cup
    { Call("ac9650d8", << 66, 20, 48 >>) }

\* The same, ended after any of their words, or with any of their numbers
\* out of the parser's range.
Truncated(calls) ==
    UNION { { [c EXCEPT !.cut = n] : n \in 1 .. Len(Encode(c)) } : c \in calls }
Damaged(calls) ==
    UNION { { [c EXCEPT !.large = n] : n \in Numbers(c) } : c \in calls }

TruncatedCalls == Truncated(OfEveryFunction)
DamagedCalls == Damaged(OfEveryFunction)

AllCalls == SupportedCalls \cup OverLimitCalls \cup OtherCalls
               \cup TruncatedCalls \cup DamagedCalls

\* A field and an array of one call, five words each, with their faults.
Sample == { Call("acf1a841", << 47 >>), Call("ac9650d8", << 20 >>) }
RefinementCalls ==
    OfEveryFunction \cup OverLimitCalls
      \cup { [c EXCEPT !.cut = n] : c \in Sample, n \in 1 .. 5 }
      \cup { [c EXCEPT !.large = n] : c \in Sample, n \in {1, 3} }

\* What the theorem about the promise supposes of the transactions.
ASSUME RefinementAnswered == \A c \in RefinementCalls : Answered(c)
=============================================================================
