------------------------------ MODULE MCCapi ------------------------------
(* Instances of Capi for TLC.                                              *)
EXTENDS Capi

CONSTANTS k1, k2, s1

OneSlot == [k \in Key |-> s1]

Bytes == {NUL, BadByte, "=", "a", "b", " ", "-", "+", "x"} \cup ToSet(Digits)

\* A name of one byte and one of two; values: the empty one, and one with "=".
Names  == [k \in Key |-> IF k = k1 THEN <<"a">> ELSE <<"a", "b">>]
Values == {<<>>, <<"=", "7">>}

\* The values, every text of up to three bytes, and numbers around the limit.
Texts ==
  Values \cup BoundedSeq({" ", "-", "+", "7", "x", BadByte}, 3)
    \cup {s \o n \o j : s \in {<<>>, <<"-">>, <<"+">>, <<" ", "-">>},
                        n \in {<<"1", "2", "7">>, <<"1", "2", "8">>, <<"1", "2", "9">>,
                               <<"0", "1", "2", "7">>, <<"9", "9", "9">>},
                        j \in {<<>>, <<"x">>, <<" ", "1">>}}
=============================================================================
