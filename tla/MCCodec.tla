------------------------------ MODULE MCCodec -------------------------------
EXTENDS Codec

(* Texts: the empty one, the blank one, and two whose frames are told apart  *)
(* by length and by letter.  A reply to the longer needs two header bytes.   *)
MCText == {<<>>, <<5>>, <<1>>, <<2, 1>>}
MCPrefix == <<3, 3, 3, 3>>
=============================================================================
