------------------------------- MODULE MCText -------------------------------
(***************************************************************************)
(* Model-checking what comes out of a step: the stop tail of a sequence    *)
(* and the incremental detokenizer.  A behaviour exercises one of the two, *)
(* the other keeps its initial state.                                      *)
(***************************************************************************)
EXTENDS StopTail, StreamDetokenizer

VARIABLE part

(* Bytes of one and two bytes, a lead byte, stop strings that overlap       *)
(* themselves, end in a multi-byte character or are empty.                  *)

A == 97
B == 98
Lead2 == 195
Cont == 160

TailStops ==
    {<<<<A, B>>>>, <<<<B, A, B>>, <<B, B>>>>, <<<<Lead2, Cont>>, <<A, A, A>>>>, <<<<A, Lead2, Cont>>, <<>>>>}

OneByteStops == {<<<<B>>>>}

\* " a", "b", "ab", the three bytes of U+20AC apart, a lead that only a high
\* second byte completes, EOS, BOS, and four bytes only decode_one accepts.
MCPieces ==
    <<<<32, 97>>, <<98>>, <<97, 98>>, <<226>>, <<130>>, <<172>>, <<224, 128>>, <<69>>, <<66>>,
      <<248, 144, 130, 172>>>>

MCStreamStops == {<<>>, <<<<97, 98, 97>>>>, <<<<98, 32, 97>>, <<226, 130, 172, 98>>>>}

OneOf(set) == CHOOSE x \in set : TRUE

PartInit ==
    /\ part \in {"tail", "stream"}
    /\ TailInit /\ StreamInit
    /\ part = "stream" => stops = OneOf(StopSets)
    /\ part = "tail" => stop_strings = OneOf(StreamStops) /\ stop_on_eos = OneOf(StopOnEos)

PartNext ==
    /\ UNCHANGED part
    /\ \/ part = "tail" /\ TailNext /\ UNCHANGED streamVars
       \/ part = "stream" /\ StreamNext /\ UNCHANGED tailVars

PartSpec == PartInit /\ [][PartNext]_<<part, tailVars, streamVars>>
=============================================================================
