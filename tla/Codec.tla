------------------------------- MODULE Codec -------------------------------
(***************************************************************************)
(* The bytes of a gossip message (p2p/codec.rs): one byte that says what   *)
(* it is, then the packet or the text of the title.  A message is a pair   *)
(* of its kind and its bytes.                                              *)
(***************************************************************************)
EXTENDS Naturals, Sequences, TLAPS

CONSTANTS
  Byte,  \* the bytes
  Utf8   \* the byte strings that are text

ASSUME ByteAssumption == {0, 1} \subseteq Byte
ASSUME Utf8Assumption == Utf8 \subseteq Seq(Byte)

Message == ({"audio"} \X Seq(Byte)) \cup ({"title"} \X Utf8)

Invalid == <<"invalid", <<>>>>

Prefixed(tag, body) == <<tag>> \o body

EncodeUntagged(msg) == Prefixed(0, msg[2])         \* mutant: one tag for both kinds

Encode(msg) == Prefixed(IF msg[1] = "audio" THEN 0 ELSE 1, msg[2])

DecodeLossy(bytes) ==                              \* mutant: from_utf8_lossy
  IF bytes = <<>> THEN Invalid
  ELSE <<IF Head(bytes) = 0 THEN "audio" ELSE "title", Tail(bytes)>>

Decode(bytes) ==
  IF bytes = <<>> THEN Invalid
  ELSE IF Head(bytes) = 0 THEN <<"audio", Tail(bytes)>>
  ELSE IF Head(bytes) = 1 /\ Tail(bytes) \in Utf8 THEN <<"title", Tail(bytes)>>
  ELSE Invalid

-----------------------------------------------------------------------------
(* What encode and decode are built from: a tag put in front of a string   *)
(* can be taken off again, and a string that is not empty is its first     *)
(* byte in front of the others.                                            *)
LEMMA PrefixTaken ==
  ASSUME NEW S, NEW tag \in S, NEW body \in Seq(S)
  PROVE  /\ Prefixed(tag, body) # <<>>
         /\ Head(Prefixed(tag, body)) = tag
         /\ Tail(Prefixed(tag, body)) = body
  BY DEF Prefixed

LEMMA PrefixPut ==
  ASSUME NEW S, NEW bytes \in Seq(S), bytes # <<>>
  PROVE  Prefixed(Head(bytes), Tail(bytes)) = bytes
  BY DEF Prefixed

(* decode undoes encode: what one node encodes, every other node decodes   *)
(* to the same message.                                                    *)
THEOREM RoundTrip ==
  ASSUME NEW msg \in Message
  PROVE  Decode(Encode(msg)) = msg
<1>1. msg[2] \in Seq(Byte)
  BY Utf8Assumption DEF Message
<1>2. \A tag \in {0, 1} : /\ Prefixed(tag, msg[2]) # <<>>
                         /\ Head(Prefixed(tag, msg[2])) = tag
                         /\ Tail(Prefixed(tag, msg[2])) = msg[2]
  BY <1>1, ByteAssumption, PrefixTaken
<1>3. CASE msg \in {"audio"} \X Seq(Byte)
  <2>1. msg = <<"audio", msg[2]>> /\ Encode(msg) = Prefixed(0, msg[2])
    BY <1>3 DEF Encode
  <2> QED
    BY <1>2, <2>1 DEF Decode
<1>4. CASE msg \in {"title"} \X Utf8
  <2>1. msg = <<"title", msg[2]>> /\ msg[2] \in Utf8 /\ Encode(msg) = Prefixed(1, msg[2])
    BY <1>4 DEF Encode
  <2>2. /\ Encode(msg) # <<>> /\ Head(Encode(msg)) = 1 /\ Head(Encode(msg)) # 0
        /\ Tail(Encode(msg)) = msg[2]
    BY <1>2, <2>1
  <2>3. Decode(Encode(msg)) = <<"title", msg[2]>>
    BY <2>1, <2>2, Zenon DEF Decode
  <2> QED
    BY <2>1, <2>3
<1> QED
  BY <1>3, <1>4 DEF Message

(* encode undoes decode: a string of bytes that decodes is the encoding of *)
(* what it decodes to, so no two strings carry the same message.           *)
THEOREM Canonical ==
  ASSUME NEW bytes \in Seq(Byte), Decode(bytes) # Invalid
  PROVE  Decode(bytes) \in Message /\ Encode(Decode(bytes)) = bytes
<1>1. bytes # <<>>
  BY DEF Decode
<1>2. Tail(bytes) \in Seq(Byte) /\ Prefixed(Head(bytes), Tail(bytes)) = bytes
  BY <1>1, PrefixPut
<1>3. CASE Head(bytes) = 0
  BY <1>1, <1>2, <1>3 DEF Decode, Encode, Message
<1>4. CASE Head(bytes) = 1 /\ Tail(bytes) \in Utf8
  BY <1>1, <1>2, <1>4 DEF Decode, Encode, Message
<1> QED
  BY <1>1, <1>3, <1>4 DEF Decode
=============================================================================
