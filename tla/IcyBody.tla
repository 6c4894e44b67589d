------------------------------- MODULE IcyBody -------------------------------
(***************************************************************************)
(* The body of a client that asked for ICY metadata (IcyEncoder and        *)
(* format_title in rpc/mod.rs): after every Interval bytes of audio, a     *)
(* length byte that counts blocks of BlockSize bytes, then the title in as *)
(* many blocks.  The encoder is called once per Ogg page and remembers how *)
(* far it is in the interval; one step here is one turn of its loop, or of *)
(* the loop in format_title.  The player takes the body apart again, byte  *)
(* by byte (strip_icy), and can only count: it does not know audio from    *)
(* metadata by looking at a byte.                                          *)
(*                                                                         *)
(* A byte is a pair of what it is and a value: the audio byte's number,    *)
(* the length byte's value, or the part of the metadata it belongs to.     *)
(***************************************************************************)
EXTENDS Integers, Sequences

CONSTANTS
  Interval,   \* audio bytes between two metadata blocks (ICY_METAINT)
  BlockSize,  \* bytes per block (16)
  MaxBlocks,  \* largest value of the length byte (255)
  Opening,    \* bytes of "StreamTitle='"
  Pages,      \* sizes a page may have
  Titles,     \* titles that may be announced
  MaxAudio    \* bound: audio bytes the server gets to encode

MaxText == MaxBlocks * BlockSize

(* A character by its UTF-8 width and by whether it is a quote or a        *)
(* control character.                                                      *)
Chars == [width : 1..4, bad : BOOLEAN]

ASSUME IntervalAssumption == Interval \in Nat \ {0}
ASSUME BlockAssumption == BlockSize \in Nat \ {0} /\ MaxBlocks \in Nat \ {0}
ASSUME OpeningAssumption == Opening \in Nat /\ Opening + 2 <= MaxText
ASSUME PagesAssumption == Pages \subseteq Nat
ASSUME TitlesAssumption == Titles \subseteq Seq(Chars) /\ <<>> \in Titles
ASSUME MaxAudioAssumption == MaxAudio \in Nat

VARIABLES
  title,      \* the shared title
  stage,      \* where the encoder is: between pages, copying, in format_title
  page,       \* bytes of the page still to be copied
  remaining,  \* audio bytes until the next metadata block
  fed,        \* audio bytes copied to the body so far
  text,       \* format_title: the text so far
  index,      \* format_title: characters of the title looked at
  body,       \* the response body, all of it
  sent,       \* how much of it the client has been given
  read,       \* how much of that the player has read
  wait,       \* player: audio bytes until it expects a length byte
  skip,       \* player: metadata bytes it still expects
  heard,      \* player: the bytes it takes for audio
  shown       \* player: the metadata block it reads or read last

encoder == <<page, remaining, fed, text, index, body>>
player == <<read, wait, skip, heard, shown>>
vars == <<title, stage, page, remaining, fed, text, index, body, sent,
          read, wait, skip, heard, shown>>

Marks == {"open", "char", "quote", "semicolon", "nul"}
Bytes == ({"audio"} \X Nat) \cup ({"size"} \X (0..MaxBlocks)) \cup ({"meta"} \X Marks)

TypeOK ==
  /\ title \in Titles
  /\ stage \in {"idle", "copy", "format"}
  /\ page \in Nat
  /\ remaining \in 0..Interval /\ (remaining = 0 <=> stage = "format")
  /\ fed \in Nat
  /\ text \in Seq(Marks)
  /\ index \in 0..Len(title)
  /\ stage # "format" => text = <<>> /\ index = 0
  /\ body \in Seq(Bytes)
  /\ sent \in 0..Len(body) /\ read \in 0..sent
  /\ wait \in 0..Interval
  /\ skip \in Nat
  /\ heard \in Seq(Bytes)
  /\ shown \in Seq(Bytes)

Init ==
  /\ title = <<>>
  /\ stage = "idle"
  /\ page = 0
  /\ remaining = Interval
  /\ fed = 0
  /\ text = <<>> /\ index = 0
  /\ body = <<>> /\ sent = 0
  /\ read = 0 /\ wait = Interval /\ skip = 0
  /\ heard = <<>> /\ shown = <<>>

Times(n, b) == [i \in 1..n |-> b]

-----------------------------------------------------------------------------
(* The bridge writes the title; a call of encode holds the read lock.      *)

SetTitle ==
  /\ stage = "idle"
  /\ title' \in Titles \ {title}
  /\ UNCHANGED <<stage, encoder, sent, player>>

-----------------------------------------------------------------------------
(* IcyEncoder::encode.                                                     *)

EncodeBegins ==
  /\ stage = "idle"
  /\ page' \in {n \in Pages : fed + n <= MaxAudio}
  /\ stage' = "copy"
  /\ UNCHANGED <<title, remaining, fed, text, index, body, sent, player>>

CountIgnoringInterval == page             \* mutant: the whole rest of the page

(* How much of the page goes out before the next block. *)
Count == IF page < remaining THEN page ELSE remaining

Copy ==
  /\ stage = "copy" /\ page > 0
  /\ body' = body \o [i \in 1..Count |-> <<"audio", fed + i>>]
  /\ page' = page - Count
  /\ fed' = fed + Count
  /\ remaining' = IF Count < remaining THEN remaining - Count ELSE 0
  /\ IF remaining' = 0
     THEN stage' = "format" /\ text' = Times(Opening, "open") /\ index' = 0
     ELSE UNCHANGED <<stage, text, index>>
  /\ UNCHANGED <<title, sent, player>>

(* The page is done: the output is frozen and handed to the connection. *)
EncodeReturns ==
  /\ stage = "copy" /\ page = 0
  /\ stage' = "idle"
  /\ sent' = Len(body)
  /\ UNCHANGED <<title, encoder, player>>

-----------------------------------------------------------------------------
(* format_title.                                                           *)

CleanNothing(c) == c                      \* mutant: quotes go through

Clean(c) == IF c.bad THEN [width |-> 1, bad |-> FALSE] ELSE c

FitsWithoutClosing(c) == Len(text) + c.width <= MaxText         \* mutant
FitsStrictly(c) == Len(text) + c.width + 2 < MaxText            \* mutant

(* Room for the character and for the closing quote and semicolon. *)
Fits(c) == Len(text) + c.width + 2 <= MaxText

NextChar == Clean(title[index + 1])

PushChar ==
  /\ stage = "format" /\ index < Len(title) /\ Fits(NextChar)
  /\ text' = text \o Times(NextChar.width, IF NextChar.bad THEN "quote" ELSE "char")
  /\ index' = index + 1
  /\ UNCHANGED <<title, stage, page, remaining, fed, body, sent, player>>

Closed == text \o <<"quote", "semicolon">>

(* text.len().div_ceil(16) *)
Blocks == (Len(Closed) + BlockSize - 1) \div BlockSize

(* blocks as u8 *)
LengthByte == Blocks % (MaxBlocks + 1)

Padded == Closed \o Times(Blocks * BlockSize - Len(Closed), "nul")

NextIntervalNotReset == remaining         \* mutant

NextInterval == Interval

(* What format_title returns. *)
Block ==
  <<<<"size", LengthByte>>>> \o [i \in 1..Len(Padded) |-> <<"meta", Padded[i]>>]

(* The end of the title, or a character that does not fit, ends the loop;  *)
(* encode appends the block and starts the next interval.                  *)
AppendBlock ==
  /\ stage = "format"
  /\ index < Len(title) => ~Fits(NextChar)
  /\ body' = body \o Block
  /\ remaining' = NextInterval
  /\ stage' = "copy" /\ text' = <<>> /\ index' = 0
  /\ UNCHANGED <<title, page, fed, sent, player>>

-----------------------------------------------------------------------------
(* A player (strip_icy), which reads as much as it likes at a time.        *)

NextByte == body[read + 1]

HearAudio ==
  /\ read < sent /\ skip = 0 /\ wait > 0
  /\ heard' = Append(heard, NextByte) /\ wait' = wait - 1
  /\ read' = read + 1
  /\ UNCHANGED <<title, stage, encoder, sent, skip, shown>>

ReadLength ==
  /\ read < sent /\ skip = 0 /\ wait = 0
  /\ skip' = (IF NextByte[1] = "size" THEN NextByte[2] ELSE 0) * BlockSize
  /\ shown' = <<>> /\ wait' = Interval
  /\ read' = read + 1
  /\ UNCHANGED <<title, stage, encoder, sent, heard>>

ReadMetadata ==
  /\ read < sent /\ skip > 0
  /\ shown' = Append(shown, NextByte) /\ skip' = skip - 1
  /\ read' = read + 1
  /\ UNCHANGED <<title, stage, encoder, sent, wait, heard>>

-----------------------------------------------------------------------------
Next ==
  \/ SetTitle
  \/ EncodeBegins \/ Copy \/ EncodeReturns
  \/ PushChar \/ AppendBlock
  \/ HearAudio \/ ReadLength \/ ReadMetadata

Spec == Init /\ [][Next]_vars

-----------------------------------------------------------------------------
(* Properties. *)

(* The player hears exactly the audio that was encoded: wherever pages,    *)
(* intervals and blocks fall, it never takes metadata for audio, nor loses *)
(* a byte of audio to metadata.                                            *)
PlaysExactly ==
  /\ \A i \in 1..Len(heard) : heard[i] = <<"audio", i>>
  /\ read = Len(body) /\ stage = "idle" => Len(heard) = fed

(* The length byte counts the blocks that follow it: no title, however     *)
(* long and wide its characters, makes it wrap around.                     *)
LengthByteExact ==
  stage = "format" => LengthByte * BlockSize = Len(Padded) /\ Len(Padded) <= MaxText

(* What the player shows is one quoted title: the quote that opens it is   *)
(* closed at the end, by the only other quote, and only padding follows.   *)
IsMeta(q, mark) == q = <<"meta", mark>>

TitleQuoted ==
  skip = 0 /\ shown # <<>> =>
    /\ \E k \in Opening+1..Len(shown)-1 :
         /\ IsMeta(shown[k], "quote") /\ IsMeta(shown[k+1], "semicolon")
         /\ \A i \in 1..k-1 : IsMeta(shown[i], IF i <= Opening THEN "open" ELSE "char")
         /\ \A i \in k+2..Len(shown) : IsMeta(shown[i], "nul")
    /\ Len(shown) % BlockSize = 0

(* format_title shows as much of the title as fits, character by           *)
(* character: the longest prefix whose width leaves room for the rest.     *)
Widths(t) ==
  LET w[k \in 0..Len(t)] == IF k = 0 THEN 0 ELSE w[k-1] + Clean(t[k]).width
  IN  w

Room == {k \in 0..Len(title) : Opening + Widths(title)[k] + 2 <= MaxText}

LongestPrefix ==
  stage = "format" /\ (index < Len(title) => ~Fits(NextChar)) =>
    index \in Room /\ \A k \in Room : k <= index
=============================================================================
