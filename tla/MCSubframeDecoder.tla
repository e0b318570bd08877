-------------------------- MODULE MCSubframeDecoder --------------------------
(***************************************************************************)
(* A small instance of a decoder thread: three cells with the same number,   *)
(* one too narrow for three symbols of control, one with eleven elements,    *)
(* one with four antennas; grants of one segment, and of 11 and              *)
(* of 13 segments in as many bits as the whole of 100 blocks has with two    *)
(* symbols of control, and one that is refused for the bits there are with   *)
(* one symbol.                                                             *)
(***************************************************************************)
EXTENDS SubframeDecoder

Narrow == [id |-> 1, rbs |-> 6, ants |-> 2, ng |-> 0]
Wide   == [id |-> 1, rbs |-> 15, ants |-> 2, ng |-> 3]
Four   == [id |-> 1, rbs |-> 15, ants |-> 4, ng |-> 0]

MCCells == {Narrow, Wide, Four}
MCRntis == <<61, 65535>>
MCMasks == {0..7, {0, 1, 3}}

MCPayloads ==
    {[type |-> "1a", grant |-> [A |-> 1000, G |-> 1440, mod |-> 2]],
     [type |-> "1", grant |-> [A |-> 61664, G |-> 82800, mod |-> 6]],
     [type |-> "1", grant |-> [A |-> 75376, G |-> 82800, mod |-> 6]],
     [type |-> "1b", grant |-> [A |-> 75376, G |-> 90000, mod |-> 6]],
     [type |-> "1c", grant |-> NoGrant]}
=============================================================================
