------------------------------ MODULE MCRadio ------------------------------
(* Numbers stand for bytes: 0 and 1 are the tags, and the body of a message *)
(* is its number.  Others publish an empty message, one of an unknown kind, *)
(* a title that is not text, a title that is, and a packet with nothing in  *)
(* it.                                                                      *)
EXTENDS Radio

MCByte == 0..9
MCUtf8 == {<<n>> : n \in 1..MaxTitles}
MCStrays == {<<>>, <<2, 1>>, <<1, 9>>, <<1, 1>>, <<0>>}
=============================================================================
