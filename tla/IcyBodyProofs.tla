---------------------------- MODULE IcyBodyProofs ----------------------------
(***************************************************************************)
(* Proofs about IcyBody for any interval, block size, pages and titles.    *)
(*                                                                         *)
(* The length byte: format_title leaves room for the closing marks with    *)
(* every character it takes, so the text never exceeds what the byte can   *)
(* count (TextFits).                                                       *)
(*                                                                         *)
(* The player: the invariant says that an ideal player has a run over the  *)
(* whole body, byte by byte, that ends where the encoder is in the current *)
(* interval.  Encoding extends the run; the real player is somewhere on    *)
(* it, because a player's next state is determined by the byte it reads.   *)
(*                                                                         *)
(* The title: behind every length byte of the body there is one quoted     *)
(* title (Titled), what the player shows was read from there (ShownRead),  *)
(* and the text has the width of the characters looked at (TextWide).      *)
(***************************************************************************)
EXTENDS IcyBody, WellFoundedInduction, TLAPS

TextFits == stage = "format" => Len(text) + 2 <= MaxText

(* A player's state, and its step on byte b. *)
PlayerStates == [wait : 0..Interval, skip : Nat, audio : Nat]

At(w, s, a) == [wait |-> w, skip |-> s, audio |-> a]

Step(r, s, b) ==
  \/ r.skip > 0 /\ s = At(r.wait, r.skip - 1, r.audio)
  \/ /\ r.skip = 0 /\ r.wait > 0 /\ b = <<"audio", r.audio + 1>>
     /\ s = At(r.wait - 1, 0, r.audio + 1)
  \/ /\ r.skip = 0 /\ r.wait = 0 /\ b[1] = "size"
     /\ s = At(Interval, b[2] * BlockSize, r.audio)

(* run is a player's run over the bytes of q. *)
Chain(run, q) ==
  /\ run \in [0..Len(q) -> PlayerStates]
  /\ \A p \in 0..Len(q)-1 : Step(run[p], run[p+1], q[p+1])

BodyRun(run) ==
  /\ Chain(run, body)
  /\ run[0] = At(Interval, 0, 0)
  /\ run[Len(body)] = At(remaining, 0, fed)
  /\ run[read] = At(wait, skip, Len(heard))

OnTrack == \E run : BodyRun(run)

HeardExact == \A i \in 1..Len(heard) : heard[i] = <<"audio", i>>

IInv == TypeOK /\ TextFits /\ OnTrack /\ HeardExact

-----------------------------------------------------------------------------
(* Arithmetic of the blocks. *)

LEMMA TimesMonotone ==
  ASSUME NEW x \in Int, NEW y \in Int, NEW b \in Nat, x <= y
  PROVE  b * x <= b * y
BY SMT

LEMMA Division ==
  ASSUME NEW a \in Nat, NEW b \in Nat \ {0}
  PROVE  /\ a \div b \in Nat /\ a % b \in 0..b-1
         /\ a = b * (a \div b) + (a % b)
BY SMT

(* What div_ceil returns covers its argument, and m blocks are enough for  *)
(* what fits into m blocks.                                                *)
LEMMA DivCeil ==
  ASSUME NEW a \in Nat, NEW b \in Nat \ {0}
  PROVE  LET q == (a + b - 1) \div b
         IN  /\ q \in Nat /\ a <= q * b
             /\ \A m \in Nat : a <= m * b => q <= m
<1> DEFINE q == (a + b - 1) \div b
           r == (a + b - 1) % b
<1>1. q \in Nat /\ r \in 0..b-1 /\ a + b - 1 = b * q + r
  <2>1. a + b - 1 \in Nat
    OBVIOUS
  <2> QED
    BY <2>1, Division
<1>2. a <= q * b
  <2>1. q * b = b * q
    BY <1>1
  <2> HIDE DEF q, r
  <2> QED
    BY <1>1, <2>1
<1>3. ASSUME NEW m \in Nat, a <= m * b PROVE q <= m
  <2> SUFFICES ASSUME ~(q <= m) PROVE FALSE
    OBVIOUS
  <2> HIDE DEF q, r
  <2>1. b * (m + 1) <= b * q
    BY <1>1, TimesMonotone
  <2>2. b * (m + 1) = m * b + b
    OBVIOUS
  <2> QED
    BY <1>1, <1>3, <2>1, <2>2
<1> QED
  BY <1>1, <1>2, <1>3

LEMMA MaxTextNat == MaxText \in Nat
BY BlockAssumption DEF MaxText

-----------------------------------------------------------------------------
(* Types. *)

(* The next character, cleaned, is a character. *)
LEMMA CharType ==
  ASSUME TypeOK, index < Len(title)
  PROVE  NextChar.width \in 1..4
<1>1. title \in Seq(Chars)
  BY TitlesAssumption DEF TypeOK
<1>2. index + 1 \in 1..Len(title)
  BY <1>1 DEF TypeOK
<1>3. title[index + 1] \in Chars
  BY <1>1, <1>2
<1> QED
  BY <1>3 DEF NextChar, Clean, Chars

LEMMA TimesType ==
  ASSUME NEW n \in Nat, NEW S, NEW b \in S
  PROVE  Times(n, b) \in Seq(S) /\ Len(Times(n, b)) = n
BY DEF Times

(* The block that format_title makes of a text that leaves room for the    *)
(* closing marks: it fits, and the length byte counts it exactly.          *)
LEMMA BlockType ==
  ASSUME text \in Seq(Marks)
  PROVE  /\ Closed \in Seq(Marks) /\ Len(Closed) = Len(text) + 2
         /\ Blocks \in Nat /\ Len(Closed) <= Blocks * BlockSize
         /\ Padded \in Seq(Marks) /\ Len(Padded) = Blocks * BlockSize
         /\ LengthByte \in 0..MaxBlocks
<1>1. Closed \in Seq(Marks) /\ Len(Closed) = Len(text) + 2
  BY DEF Closed, Marks
<1>2. Blocks \in Nat /\ Len(Closed) <= Blocks * BlockSize
  <2>1. Len(Closed) \in Nat
    BY <1>1
  <2> QED
    BY <2>1, DivCeil, BlockAssumption DEF Blocks
<1>3. Blocks * BlockSize - Len(Closed) \in Nat
  <2>1. Blocks * BlockSize \in Nat
    BY <1>2, BlockAssumption
  <2> QED
    BY <1>1, <1>2, <2>1
<1>4. "nul" \in Marks
  BY DEF Marks
<1>5. /\ Times(Blocks * BlockSize - Len(Closed), "nul") \in Seq(Marks)
      /\ Len(Times(Blocks * BlockSize - Len(Closed), "nul"))
           = Blocks * BlockSize - Len(Closed)
  BY <1>3, <1>4, TimesType
<1>6. Blocks * BlockSize \in Nat
  BY <1>2, BlockAssumption
<1>7. Padded \in Seq(Marks) /\ Len(Padded) = Blocks * BlockSize
  BY <1>1, <1>3, <1>5, <1>6 DEF Padded
<1>8. LengthByte \in 0..MaxBlocks
  <2> DEFINE m == MaxBlocks + 1
  <2>1. m \in Nat \ {0}
    BY BlockAssumption
  <2>2. LengthByte = Blocks % m
    BY DEF LengthByte
  <2> HIDE DEF m
  <2>3. Blocks % m \in 0..m-1
    BY <1>2, <2>1, Division
  <2> QED
    BY <2>2, <2>3, BlockAssumption DEF m
<1> QED
  BY <1>1, <1>2, <1>7, <1>8

LEMMA BlockFits ==
  ASSUME text \in Seq(Marks), Len(text) + 2 <= MaxText
  PROVE  LengthByte = Blocks /\ Blocks <= MaxBlocks
<1>1. /\ Blocks \in Nat /\ Len(Closed) \in Nat
      /\ Len(Closed) <= MaxBlocks * BlockSize
  BY BlockType DEF MaxText
<1>2. Blocks <= MaxBlocks
  BY <1>1, DivCeil, BlockAssumption DEF Blocks
<1>3. LengthByte = Blocks
  <2>1. \A n, m \in Nat : n < m => n % m = n
    BY SMT
  <2>2. Blocks < MaxBlocks + 1
    BY <1>1, <1>2, BlockAssumption
  <2> QED
    BY <1>1, <2>1, <2>2, BlockAssumption DEF LengthByte
<1> QED
  BY <1>2, <1>3

LEMMA Concat ==
  ASSUME NEW S, NEW q \in Seq(S), NEW t \in Seq(S)
  PROVE  /\ q \o t \in Seq(S) /\ Len(q \o t) = Len(q) + Len(t)
         /\ Len(q) \in Nat /\ Len(t) \in Nat
         /\ \A i \in 1..Len(q) : (q \o t)[i] = q[i]
         /\ \A i \in 1..Len(t) : (q \o t)[Len(q) + i] = t[i]
OBVIOUS

LEMMA TypeInit == Init => TypeOK
BY IntervalAssumption, TitlesAssumption DEF Init, TypeOK

(* The byte the player reads next. *)
LEMMA NextByteType ==
  ASSUME TypeOK, read < sent
  PROVE  NextByte \in Bytes /\ (NextByte[1] = "size" => NextByte[2] \in 0..MaxBlocks)
<1>1. read + 1 \in 1..Len(body)
  BY DEF TypeOK
<1>2. NextByte \in Bytes
  BY <1>1 DEF TypeOK, NextByte
<1> QED
  BY <1>2 DEF Bytes

(* What Copy appends. *)
Copied == [i \in 1..Count |-> <<"audio", fed + i>>]

LEMMA CopiedType ==
  ASSUME TypeOK, page > 0, stage = "copy"
  PROVE  /\ Count \in 1..page /\ Count <= remaining
         /\ Copied \in Seq(Bytes) /\ Len(Copied) = Count
<1>1. Count \in 1..page /\ Count <= remaining
  <2>1. page \in Nat /\ remaining \in Nat /\ remaining # 0
    BY IntervalAssumption DEF TypeOK
  <2> QED
    BY <2>1 DEF Count
<1>2. \A i \in 1..Count : <<"audio", fed + i>> \in Bytes
  BY <1>1 DEF TypeOK, Bytes
<1>3. Count \in Nat
  BY <1>1 DEF TypeOK
<1>4. Copied \in Seq(Bytes) /\ Len(Copied) = Count
  BY <1>2, <1>3 DEF Copied
<1> QED
  BY <1>1, <1>4

LEMMA AppendedType ==
  ASSUME text \in Seq(Marks)
  PROVE  /\ Block \in Seq(Bytes) /\ Len(Block) = Len(Padded) + 1
         /\ Block[1] = <<"size", LengthByte>>
<1> DEFINE meta == [i \in 1..Len(Padded) |-> <<"meta", Padded[i]>>]
<1>1. Padded \in Seq(Marks) /\ Len(Padded) \in Nat /\ LengthByte \in 0..MaxBlocks
  BY BlockType
<1>2. <<"size", LengthByte>> \in Bytes
  BY <1>1 DEF Bytes
<1>3. \A i \in 1..Len(Padded) : <<"meta", Padded[i]>> \in Bytes
  BY <1>1 DEF Bytes
<1>4. meta \in Seq(Bytes) /\ Len(meta) = Len(Padded)
  BY <1>1, <1>3
<1> HIDE DEF meta
<1>5. /\ <<<<"size", LengthByte>>>> \o meta \in Seq(Bytes)
      /\ Len(<<<<"size", LengthByte>>>> \o meta) = Len(Padded) + 1
      /\ (<<<<"size", LengthByte>>>> \o meta)[1] = <<"size", LengthByte>>
  BY <1>1, <1>2, <1>4
<1> QED
  BY <1>5 DEF Block, meta

LEMMA TypeStep == TypeOK /\ [Next]_vars => TypeOK'
<1> SUFFICES ASSUME TypeOK, [Next]_vars PROVE TypeOK'
  OBVIOUS
<1>1. CASE SetTitle
  BY <1>1, TitlesAssumption DEF TypeOK, SetTitle, encoder, player
<1>2. CASE EncodeBegins
  BY <1>2, PagesAssumption DEF TypeOK, EncodeBegins, player
<1>3. CASE Copy
  <2>1. /\ Count \in 1..page /\ Count <= remaining
        /\ Copied \in Seq(Bytes) /\ Len(Copied) = Count
    BY <1>3, CopiedType DEF Copy
  <2>2. body' = body \o Copied
    BY <1>3 DEF Copy, Copied
  <2>3. body' \in Seq(Bytes) /\ Len(body') = Len(body) + Count
    <3>1. body \in Seq(Bytes)
      BY DEF TypeOK
    <3> QED
      BY <2>1, <2>2, <3>1, Concat
  <2>4. sent' \in 0..Len(body') /\ read' \in 0..sent'
    BY <1>3, <2>1, <2>3 DEF TypeOK, Copy, player
  <2>5. page' \in Nat /\ fed' \in Nat
    BY <1>3, <2>1 DEF TypeOK, Copy
  <2>6. /\ remaining' \in 0..Interval
        /\ remaining' = 0 <=> Count = remaining
    BY <1>3, <2>1, IntervalAssumption DEF TypeOK, Copy
  <2>7. CASE remaining' = 0
    <3>1. stage' = "format" /\ text' = Times(Opening, "open") /\ index' = 0
      BY <1>3, <2>7 DEF Copy
    <3>2. text' \in Seq(Marks)
      BY <3>1, TimesType, OpeningAssumption DEF Marks
    <3> QED
      BY <1>3, <2>3, <2>4, <2>5, <2>6, <2>7, <3>1, <3>2 DEF TypeOK, Copy, player
  <2>8. CASE remaining' # 0
    BY <1>3, <2>3, <2>4, <2>5, <2>6, <2>8 DEF TypeOK, Copy, player
  <2> QED
    BY <2>7, <2>8
<1>4. CASE EncodeReturns
  BY <1>4 DEF TypeOK, EncodeReturns, encoder, player
<1>5. CASE PushChar
  <2>1. NextChar.width \in Nat
    BY <1>5, CharType DEF PushChar
  <2>2. Times(NextChar.width, IF NextChar.bad THEN "quote" ELSE "char") \in Seq(Marks)
    <3>1. (IF NextChar.bad THEN "quote" ELSE "char") \in Marks
      BY DEF Marks
    <3> QED
      BY <2>1, <3>1, TimesType
  <2>3. text' \in Seq(Marks)
    BY <1>5, <2>2 DEF TypeOK, PushChar
  <2> QED
    BY <1>5, <2>3, TitlesAssumption DEF TypeOK, PushChar, player
<1>6. CASE AppendBlock
  <2>1. Block \in Seq(Bytes)
    BY AppendedType DEF TypeOK
  <2>2. body' = body \o Block
    BY <1>6 DEF AppendBlock
  <2>3. body' \in Seq(Bytes) /\ Len(body') = Len(body) + Len(Block) /\ Len(Block) \in Nat
    <3>1. body \in Seq(Bytes)
      BY DEF TypeOK
    <3> QED
      BY <2>1, <2>2, <3>1, Concat
  <2>4. sent' \in 0..Len(body') /\ read' \in 0..sent'
    BY <1>6, <2>3 DEF TypeOK, AppendBlock, player
  <2> QED
    BY <1>6, <2>3, <2>4, IntervalAssumption, TitlesAssumption
    DEF TypeOK, AppendBlock, NextInterval, player
<1>7. CASE HearAudio
  <2>1. NextByte \in Bytes
    BY <1>7, NextByteType DEF HearAudio
  <2> QED
    BY <1>7, <2>1, IntervalAssumption DEF TypeOK, HearAudio, encoder
<1>8. CASE ReadLength
  <2>1. NextByte[1] = "size" => NextByte[2] \in Nat
    BY <1>8, NextByteType, BlockAssumption DEF ReadLength
  <2>2. skip' \in Nat
    BY <1>8, <2>1, BlockAssumption DEF ReadLength
  <2> QED
    BY <1>8, <2>2, IntervalAssumption DEF TypeOK, ReadLength, encoder
<1>9. CASE ReadMetadata
  <2>1. NextByte \in Bytes
    BY <1>9, NextByteType DEF ReadMetadata
  <2> QED
    BY <1>9, <2>1 DEF TypeOK, ReadMetadata, encoder
<1>10. CASE UNCHANGED vars
  BY <1>10 DEF TypeOK, vars
<1> QED
  BY <1>1, <1>2, <1>3, <1>4, <1>5, <1>6, <1>7, <1>8, <1>9, <1>10 DEF Next

-----------------------------------------------------------------------------
(* The length byte. *)

LEMMA TextFitsStep == TypeOK /\ TextFits /\ [Next]_vars => TextFits'
<1> SUFFICES ASSUME TypeOK, TextFits, [Next]_vars PROVE TextFits'
  OBVIOUS
<1> MaxText \in Nat /\ MaxText' = MaxText
  BY MaxTextNat DEF MaxText
<1>1. CASE Copy
  <2>1. CASE remaining' = 0
    <3>1. text' = Times(Opening, "open")
      BY <1>1, <2>1 DEF Copy
    <3>2. Len(text') = Opening
      BY <3>1, TimesType, OpeningAssumption
    <3> QED
      BY <3>2, OpeningAssumption DEF TextFits
  <2>2. CASE remaining' # 0
    BY <1>1, <2>2 DEF Copy, TextFits
  <2> QED
    BY <2>1, <2>2
<1>2. CASE PushChar
  <2>1. NextChar.width \in Nat
    BY <1>2, CharType DEF PushChar
  <2> DEFINE more == Times(NextChar.width, IF NextChar.bad THEN "quote" ELSE "char")
  <2>2. more \in Seq(Marks) /\ Len(more) = NextChar.width
    <3>1. (IF NextChar.bad THEN "quote" ELSE "char") \in Marks
      BY DEF Marks
    <3> QED
      BY <2>1, <3>1, TimesType
  <2>3. text' = text \o more
    BY <1>2 DEF PushChar
  <2> HIDE DEF more
  <2>4. Len(text') = Len(text) + NextChar.width
    <3>1. text \in Seq(Marks)
      BY DEF TypeOK
    <3> QED
      BY <2>2, <2>3, <3>1, Concat
  <2> QED
    BY <1>2, <2>1, <2>4 DEF PushChar, Fits, TextFits, TypeOK
<1>3. CASE SetTitle \/ EncodeBegins \/ EncodeReturns \/ AppendBlock
  BY <1>3 DEF SetTitle, EncodeBegins, EncodeReturns, AppendBlock, TextFits
<1>4. CASE HearAudio \/ ReadLength \/ ReadMetadata \/ UNCHANGED vars
  BY <1>4 DEF HearAudio, ReadLength, ReadMetadata, encoder, vars, TextFits
<1> QED
  BY <1>1, <1>2, <1>3, <1>4 DEF Next

-----------------------------------------------------------------------------
(* Runs of the ideal player. *)

(* c is run r over q, continued by run e over t. *)
Joins(c, q, t, r, e) ==
  /\ Chain(c, q \o t)
  /\ \A p \in 0..Len(q) : c[p] = r[p]
  /\ c[Len(q \o t)] = e[Len(t)]

(* A run over q and a run over t that starts where it ends make a run over *)
(* q \o t.                                                                 *)
LEMMA ChainConcat ==
  ASSUME NEW q \in Seq(Bytes), NEW t \in Seq(Bytes), NEW r, NEW e,
         Chain(r, q), Chain(e, t), e[0] = r[Len(q)]
  PROVE  \E c : Joins(c, q, t, r, e)
<1> DEFINE m == Len(q)
           n == Len(t)
           qt == q \o t
           c == [p \in 0..m+n |-> IF p <= m THEN r[p] ELSE e[p - m]]
<1>1. /\ m \in Nat /\ n \in Nat /\ Len(qt) = m + n
      /\ \A i \in 1..m : qt[i] = q[i]
      /\ \A i \in 1..n : qt[m + i] = t[i]
  BY Concat
<1>2. /\ r \in [0..m -> PlayerStates]
      /\ \A p \in 0..m-1 : Step(r[p], r[p+1], q[p+1])
  BY DEF Chain
<1>3. /\ e \in [0..n -> PlayerStates]
      /\ \A p \in 0..n-1 : Step(e[p], e[p+1], t[p+1])
      /\ e[0] = r[m]
  BY DEF Chain
<1> HIDE DEF m, n, qt
<1>4. c \in [0..m+n -> PlayerStates]
  BY <1>1, <1>2, <1>3
<1>5. \A p \in 0..m : c[p] = r[p]
  BY <1>1
<1>6. \A p \in 0..n : c[m + p] = e[p]
  <2> TAKE p \in 0..n
  <2>1. m + p \in 0..m+n
    BY <1>1
  <2>2. CASE p = 0
    BY <1>1, <1>3, <2>1, <2>2
  <2>3. CASE p # 0
    <3>1. ~(m + p <= m) /\ (m + p) - m = p
      BY <1>1, <2>3
    <3> QED
      BY <2>1, <3>1
  <2> QED
    BY <2>2, <2>3
<1> HIDE DEF c
<1>7. ASSUME NEW p \in 0..m+n-1 PROVE Step(c[p], c[p+1], qt[p+1])
  <2>1. CASE p < m
    <3>1. p \in 0..m-1 /\ p \in 0..m /\ p + 1 \in 0..m /\ p + 1 \in 1..m
      BY <1>1, <2>1
    <3>2. c[p] = r[p] /\ c[p+1] = r[p+1] /\ qt[p+1] = q[p+1]
      BY <1>1, <1>5, <3>1
    <3> QED
      BY <1>2, <3>1, <3>2
  <2>2. CASE p >= m
    <3>1. PICK k \in 0..n-1 : p = m + k
      BY <1>1, <2>2
    <3>2. k \in 0..n /\ k + 1 \in 0..n /\ k + 1 \in 1..n /\ p + 1 = m + (k + 1)
      BY <1>1, <3>1
    <3>3. c[p] = e[k] /\ c[p+1] = e[k+1] /\ qt[p+1] = t[k+1]
      BY <1>1, <1>6, <3>1, <3>2
    <3> QED
      BY <1>3, <3>1, <3>3
  <2> QED
    BY <1>1, <2>1, <2>2
<1>8. Chain(c, qt)
  BY <1>1, <1>4, <1>7 DEF Chain
<1>9. c[Len(qt)] = e[n]
  BY <1>1, <1>6
<1>10. Joins(c, q, t, r, e)
  BY <1>5, <1>8, <1>9 DEF Joins, m, n, qt
<1> QED
  BY <1>10

(* What is needed of the bytes t that the encoder appends: a run over them *)
(* that starts and ends where the encoder does.                            *)
LEMMA RunExtends ==
  ASSUME TypeOK, OnTrack, NEW t \in Seq(Bytes), NEW e, Chain(e, t),
         body' = body \o t, UNCHANGED player,
         e[0] = At(remaining, 0, fed),
         e[Len(t)] = At(remaining', 0, fed')
  PROVE  OnTrack'
<1>1. PICK run : BodyRun(run)
  BY DEF OnTrack
<1>2. body \in Seq(Bytes) /\ Len(body) \in Nat /\ read \in 0..Len(body)
  BY DEF TypeOK
<1>3. PICK c : Joins(c, body, t, run, e)
  <2>1. Chain(run, body) /\ e[0] = run[Len(body)]
    BY <1>1 DEF BodyRun
  <2> QED
    BY <1>2, <2>1, ChainConcat
<1>4. c[0] = run[0] /\ c[read] = run[read]
  BY <1>2, <1>3 DEF Joins
<1>5. BodyRun(c)'
  BY <1>1, <1>3, <1>4 DEF BodyRun, Joins, player, Chain, Step, At
<1> QED
  BY <1>5 DEF OnTrack

LEMMA CopyOnTrack == TypeOK /\ OnTrack /\ Copy => OnTrack'
<1> SUFFICES ASSUME TypeOK, OnTrack, Copy PROVE OnTrack'
  OBVIOUS
<1> DEFINE e == [i \in 0..Count |-> At(remaining - i, 0, fed + i)]
<1>1. /\ Count \in 1..page /\ Count <= remaining
      /\ Copied \in Seq(Bytes) /\ Len(Copied) = Count
  BY CopiedType DEF Copy
<1>2. /\ Count \in Nat /\ page \in Nat /\ fed \in Nat
      /\ remaining \in Nat /\ remaining <= Interval
  BY <1>1, IntervalAssumption DEF TypeOK
<1>3. e \in [0..Len(Copied) -> PlayerStates]
  <2>1. \A i \in 0..Count : At(remaining - i, 0, fed + i) \in PlayerStates
    BY <1>1, <1>2, IntervalAssumption DEF At, PlayerStates
  <2> QED
    BY <1>1, <2>1
<1>4. ASSUME NEW p \in 0..Len(Copied)-1
      PROVE  Step(e[p], e[p+1], Copied[p+1])
  <2>1. /\ p \in 0..Count /\ p + 1 \in 0..Count /\ p + 1 \in 1..Count
        /\ remaining - p > 0 /\ remaining - (p + 1) = (remaining - p) - 1
        /\ fed + (p + 1) = (fed + p) + 1
    BY <1>1, <1>2
  <2>2. /\ e[p] = At(remaining - p, 0, fed + p)
        /\ e[p+1] = At((remaining - p) - 1, 0, (fed + p) + 1)
    BY <2>1
  <2>3. Copied[p+1] = <<"audio", (fed + p) + 1>>
    BY <2>1 DEF Copied
  <2> HIDE DEF e
  <2> QED
    BY <2>1, <2>2, <2>3 DEF Step, At
<1>5. e[0] = At(remaining, 0, fed)
  BY <1>2
<1>6. e[Len(Copied)] = At(remaining', 0, fed')
  <2>1. remaining' = remaining - Count /\ fed' = fed + Count
    BY <1>1, <1>2 DEF Copy
  <2> QED
    BY <1>1, <1>2, <2>1
<1>7. body' = body \o Copied /\ UNCHANGED player
  BY DEF Copy, Copied
<1> HIDE DEF e
<1>8. Chain(e, Copied)
  BY <1>3, <1>4 DEF Chain
<1> QED
  BY <1>1, <1>5, <1>6, <1>7, <1>8, RunExtends

LEMMA AppendOnTrack == TypeOK /\ TextFits /\ OnTrack /\ AppendBlock => OnTrack'
<1> SUFFICES ASSUME TypeOK, TextFits, OnTrack, AppendBlock PROVE OnTrack'
  OBVIOUS
<1> DEFINE n == Len(Padded)
           e == [i \in 0..n+1 |-> IF i = 0 THEN At(0, 0, fed)
                                           ELSE At(Interval, n + 1 - i, fed)]
<1>1. /\ Block \in Seq(Bytes) /\ Len(Block) = n + 1
      /\ Block[1] = <<"size", LengthByte>>
  BY AppendedType DEF TypeOK
<1>2. n \in Nat /\ LengthByte * BlockSize = n
  <2>1. text \in Seq(Marks) /\ Len(text) + 2 <= MaxText
    BY DEF TypeOK, TextFits, AppendBlock
  <2> QED
    BY <2>1, BlockType, BlockFits
<1>3. remaining = 0 /\ remaining' = Interval /\ fed' = fed /\ fed \in Nat
  BY DEF TypeOK, AppendBlock, NextInterval
<1> HIDE DEF n
<1>4. e \in [0..Len(Block) -> PlayerStates]
  <2>1. \A i \in 0..n+1 :
          i # 0 => At(Interval, n + 1 - i, fed) \in PlayerStates
    BY <1>2, <1>3, IntervalAssumption DEF At, PlayerStates
  <2>2. At(0, 0, fed) \in PlayerStates
    BY <1>3, IntervalAssumption DEF At, PlayerStates
  <2> QED
    BY <1>1, <2>1, <2>2
<1>5. ASSUME NEW p \in 0..Len(Block)-1
      PROVE  Step(e[p], e[p+1], Block[p+1])
  <2>1. p \in 0..n+1 /\ p + 1 \in 0..n+1 /\ p + 1 # 0
    BY <1>1, <1>2
  <2>2. e[p+1] = At(Interval, n + 1 - (p + 1), fed)
    BY <2>1
  <2>3. CASE p = 0
    <3>1. e[p] = At(0, 0, fed) /\ n + 1 - (p + 1) = n
      BY <1>2, <2>1, <2>3
    <3>2. Block[p+1][1] = "size" /\ Block[p+1][2] * BlockSize = n
      BY <1>1, <1>2, <2>3
    <3> HIDE DEF e
    <3> QED
      BY <2>2, <3>1, <3>2 DEF Step, At
  <2>4. CASE p # 0
    <3>1. e[p] = At(Interval, n + 1 - p, fed)
      BY <2>1, <2>4
    <3>2. n + 1 - p > 0 /\ n + 1 - (p + 1) = (n + 1 - p) - 1
      BY <1>1, <1>2
    <3> HIDE DEF e
    <3> QED
      BY <2>2, <3>1, <3>2 DEF Step, At
  <2> QED
    BY <2>3, <2>4
<1>6. e[0] = At(remaining, 0, fed) /\ e[Len(Block)] = At(remaining', 0, fed')
  <2>1. 0 \in 0..n+1 /\ n + 1 \in 0..n+1 /\ n + 1 # 0 /\ n + 1 - (n + 1) = 0
    BY <1>2
  <2> QED
    BY <1>1, <1>3, <2>1
<1>7. body' = body \o Block /\ UNCHANGED player
  BY DEF AppendBlock
<1> HIDE DEF e
<1>8. Chain(e, Block)
  BY <1>4, <1>5 DEF Chain
<1> QED
  BY <1>1, <1>6, <1>7, <1>8, RunExtends

(* A byte the player reads takes it one step along the run. *)
LEMMA ReadOnTrack ==
  TypeOK /\ OnTrack /\ HeardExact /\ (HearAudio \/ ReadLength \/ ReadMetadata)
    => OnTrack' /\ HeardExact'
<1> SUFFICES ASSUME TypeOK, OnTrack, HeardExact,
                    HearAudio \/ ReadLength \/ ReadMetadata
             PROVE  OnTrack' /\ HeardExact'
  OBVIOUS
<1>1. PICK run : BodyRun(run)
  BY DEF OnTrack
<1>2. read < sent /\ read' = read + 1 /\ UNCHANGED encoder
  BY DEF HearAudio, ReadLength, ReadMetadata
<1>3. read \in 0..Len(body)-1 /\ Len(body) \in Nat
  BY <1>2 DEF TypeOK
<1>4. Step(run[read], run[read+1], NextByte)
  BY <1>1, <1>3 DEF BodyRun, Chain, NextByte
<1>5. run[read] = At(wait, skip, Len(heard))
  BY <1>1 DEF BodyRun
<1>6. wait \in Nat /\ skip \in Nat /\ heard \in Seq(Bytes) /\ Len(heard) \in Nat
  BY IntervalAssumption DEF TypeOK
<1>7. /\ At(wait, skip, Len(heard)).wait = wait
      /\ At(wait, skip, Len(heard)).skip = skip
      /\ At(wait, skip, Len(heard)).audio = Len(heard)
  BY DEF At
<1>8. run[read+1] = At(wait', skip', Len(heard')) /\ HeardExact'
  <2>1. CASE HearAudio
    <3>1. skip = 0 /\ wait > 0 /\ heard' = Append(heard, NextByte)
          /\ wait' = wait - 1 /\ skip' = skip
      BY <2>1 DEF HearAudio
    <3>2. /\ NextByte = <<"audio", Len(heard) + 1>>
          /\ run[read+1] = At(wait - 1, 0, Len(heard) + 1)
      BY <1>4, <1>5, <1>6, <1>7, <3>1 DEF Step
    <3>3. /\ Len(heard') = Len(heard) + 1
          /\ \A i \in 1..Len(heard) : heard'[i] = heard[i]
          /\ heard'[Len(heard) + 1] = NextByte
      BY <1>6, <3>1
    <3>4. HeardExact'
      BY <1>6, <3>2, <3>3 DEF HeardExact
    <3> QED
      BY <3>1, <3>2, <3>3, <3>4
  <2>2. CASE ReadLength
    <3>1. /\ skip = 0 /\ wait = 0 /\ heard' = heard /\ wait' = Interval
          /\ skip' = (IF NextByte[1] = "size" THEN NextByte[2] ELSE 0) * BlockSize
      BY <2>2 DEF ReadLength
    <3>2. /\ NextByte[1] = "size"
          /\ run[read+1] = At(Interval, NextByte[2] * BlockSize, Len(heard))
      BY <1>4, <1>5, <1>6, <1>7, <3>1 DEF Step
    <3> QED
      BY <3>1, <3>2 DEF HeardExact
  <2>3. CASE ReadMetadata
    <3>1. skip > 0 /\ skip' = skip - 1 /\ heard' = heard /\ wait' = wait
      BY <2>3 DEF ReadMetadata
    <3>2. run[read+1] = At(wait, skip - 1, Len(heard))
      BY <1>4, <1>5, <1>6, <1>7, <3>1 DEF Step
    <3> QED
      BY <3>1, <3>2 DEF HeardExact
  <2> QED
    BY <2>1, <2>2, <2>3
<1>9. BodyRun(run)'
  BY <1>1, <1>2, <1>8 DEF BodyRun, encoder, Chain, Step, At
<1> QED
  BY <1>8, <1>9 DEF OnTrack

-----------------------------------------------------------------------------
(* The invariant. *)

LEMMA InvInit == Init => IInv
<1> SUFFICES ASSUME Init PROVE IInv
  OBVIOUS
<1>1. TypeOK
  BY TypeInit
<1>2. TextFits /\ HeardExact
  BY DEF Init, TextFits, HeardExact
<1>3. BodyRun([p \in 0..0 |-> At(Interval, 0, 0)])
  <2>1. At(Interval, 0, 0) \in PlayerStates
    BY IntervalAssumption DEF At, PlayerStates
  <2> QED
    BY <2>1 DEF Init, BodyRun, Chain
<1> QED
  BY <1>1, <1>2, <1>3 DEF IInv, OnTrack

LEMMA InvStep == IInv /\ [Next]_vars => IInv'
<1> SUFFICES ASSUME IInv, [Next]_vars PROVE IInv'
  OBVIOUS
<1>1. TypeOK /\ TextFits /\ OnTrack /\ HeardExact
  BY DEF IInv
<1>2. TypeOK' /\ TextFits'
  BY <1>1, TypeStep, TextFitsStep
<1>3. CASE Copy
  BY <1>1, <1>2, <1>3, CopyOnTrack DEF Copy, player, HeardExact, IInv
<1>4. CASE AppendBlock
  BY <1>1, <1>2, <1>4, AppendOnTrack DEF AppendBlock, player, HeardExact, IInv
<1>5. CASE HearAudio \/ ReadLength \/ ReadMetadata
  BY <1>1, <1>2, <1>5, ReadOnTrack DEF IInv
<1>6. CASE SetTitle \/ EncodeBegins \/ EncodeReturns \/ PushChar \/ UNCHANGED vars
  <2>1. UNCHANGED <<body, remaining, fed, player>>
    BY <1>6 DEF SetTitle, EncodeBegins, EncodeReturns, PushChar, vars, encoder, player
  <2>2. PICK run : BodyRun(run)
    BY <1>1 DEF OnTrack
  <2>3. BodyRun(run)'
    BY <2>1, <2>2 DEF BodyRun, player, Chain, Step, At
  <2>4. HeardExact'
    BY <1>1, <2>1 DEF HeardExact, player
  <2> QED
    BY <1>2, <2>3, <2>4 DEF IInv, OnTrack
<1> QED
  BY <1>3, <1>4, <1>5, <1>6 DEF Next

(* The types, the room left in the text, and the run of an ideal player    *)
(* over the body hold throughout.                                          *)
THEOREM Invariance == Spec => []IInv
BY InvInit, InvStep, PTL DEF Spec

(* Every reachable state of encoder and player is type-correct. *)
THEOREM TypeCorrect == Spec => []TypeOK
<1>1. IInv => TypeOK
  BY DEF IInv
<1> QED
  BY <1>1, Invariance, PTL

(* format_title's length byte is exact for every title: it never wraps.    *)
THEOREM LengthByteAlwaysExact == Spec => []LengthByteExact
<1>1. IInv => LengthByteExact
  <2> SUFFICES ASSUME IInv, stage = "format"
               PROVE  LengthByte * BlockSize = Len(Padded) /\ Len(Padded) <= MaxText
    BY DEF LengthByteExact
  <2>1. text \in Seq(Marks) /\ Len(text) + 2 <= MaxText
    BY DEF IInv, TypeOK, TextFits
  <2>2. /\ LengthByte = Blocks /\ Blocks <= MaxBlocks
        /\ Len(Padded) = Blocks * BlockSize /\ Blocks \in Nat
    BY <2>1, BlockType, BlockFits
  <2>3. BlockSize * Blocks <= BlockSize * MaxBlocks
    BY <2>2, TimesMonotone, BlockAssumption
  <2> QED
    BY <2>2, <2>3, BlockAssumption DEF MaxText
<1> QED
  BY <1>1, Invariance, PTL

(* Whatever the pages and the titles, the player of an encoded body hears  *)
(* the audio that was encoded, all of it and nothing else.                 *)
THEOREM AlwaysPlaysExactly == Spec => []PlaysExactly
<1>1. IInv => PlaysExactly
  <2> SUFFICES ASSUME IInv PROVE PlaysExactly
    OBVIOUS
  <2>1. PICK run : BodyRun(run)
    BY DEF IInv, OnTrack
  <2>2. read = Len(body) => At(wait, skip, Len(heard)) = At(remaining, 0, fed)
    BY <2>1 DEF BodyRun
  <2>3. read = Len(body) => Len(heard) = fed
    BY <2>2 DEF At
  <2> QED
    BY <2>3 DEF IInv, HeardExact, PlaysExactly
<1> QED
  BY <1>1, Invariance, PTL

-----------------------------------------------------------------------------
(* The title shown.  Everywhere in the body a length byte is followed by   *)
(* one quoted title; what the player shows was read from behind the last   *)
(* length byte it read.                                                    *)

(* TitleQuoted, said of any metadata block. *)
Quoted(s) ==
  /\ \E k \in Opening+1..Len(s)-1 :
       /\ IsMeta(s[k], "quote") /\ IsMeta(s[k+1], "semicolon")
       /\ \A i \in 1..k-1 : IsMeta(s[i], IF i <= Opening THEN "open" ELSE "char")
       /\ \A i \in k+2..Len(s) : IsMeta(s[i], "nul")
  /\ Len(s) % BlockSize = 0

(* The text that format_title builds is the opening and then characters:   *)
(* no quote gets in.                                                       *)
Open(s) ==
  /\ Len(s) >= Opening
  /\ \A i \in 1..Len(s) : s[i] = IF i <= Opening THEN "open" ELSE "char"

(* The bytes of b from q + 1 are those of s. *)
Behind(b, q, s) == q + Len(s) <= Len(b) /\ \A i \in 1..Len(s) : b[q+i] = s[i]

(* The length byte at q of b is followed by a quoted title of that length. *)
Entitled(b, q) ==
  \E s \in Seq(Bytes) :
    Quoted(s) /\ Len(s) = b[q][2] * BlockSize /\ Behind(b, q, s)

Titled(b) == \A q \in 1..Len(b) : b[q][1] = "size" => Entitled(b, q)

(* A player that has read s and has k bytes to go, at r, read s from       *)
(* behind a length byte of b.                                              *)
ReadFrom(b, s, k, r) ==
  \E q \in 1..Len(b) :
    /\ b[q][1] = "size" /\ Len(s) + k = b[q][2] * BlockSize
    /\ q + Len(s) + k <= Len(b) /\ Behind(b, q, s)
    /\ k > 0 => r = q + Len(s)

TextOpen == stage = "format" => Open(text)

ShownRead == shown # <<>> \/ skip > 0 => ReadFrom(body, shown, skip, read)

ShownInv == TextOpen /\ Titled(body) /\ ShownRead

LEMMA MultipleOf ==
  ASSUME NEW n \in Nat, NEW b \in Nat \ {0}
  PROVE  (n * b) % b = 0
<1> DEFINE a == n * b
           q == a \div b
           r == a % b
<1>1. a \in Nat /\ a = b * n
  OBVIOUS
<1> HIDE DEF a
<1>2. q \in Nat /\ r \in 0..b-1 /\ a = b * q + r
  BY <1>1, Division
<1> HIDE DEF q, r
<1>3. q <= n
  <2> SUFFICES ASSUME n + 1 <= q PROVE FALSE
    BY <1>2
  <2>1. b * (n + 1) <= b * q
    BY <1>2, TimesMonotone
  <2>2. b * (n + 1) = b * n + b
    OBVIOUS
  <2> QED
    BY <1>1, <1>2, <2>1, <2>2
<1>4. n <= q
  <2> SUFFICES ASSUME q + 1 <= n PROVE FALSE
    BY <1>2
  <2>1. b * (q + 1) <= b * n
    BY <1>2, TimesMonotone
  <2>2. b * (q + 1) = b * q + b
    BY <1>2
  <2> QED
    BY <1>1, <1>2, <2>1, <2>2
<1>5. r = 0
  <2>1. q = n
    BY <1>2, <1>3, <1>4
  <2>2. b * q = a /\ b * q \in Nat
    BY <1>1, <2>1
  <2> QED
    BY <1>2, <2>2
<1> QED
  BY <1>5 DEF r, a

(* The block of an open text is a length byte and a quoted title.          *)
LEMMA BlockTitled ==
  ASSUME text \in Seq(Marks), Len(text) + 2 <= MaxText, Open(text)
  PROVE  Titled(Block)
<1> DEFINE n == Len(Padded)
           s == [i \in 1..n |-> <<"meta", Padded[i]>>]
           k == Len(text) + 1
<1>1. /\ Closed \in Seq(Marks) /\ Len(Closed) = k + 1
      /\ Blocks \in Nat /\ Len(Closed) <= Blocks * BlockSize
      /\ Padded \in Seq(Marks) /\ n = Blocks * BlockSize /\ n \in Nat
      /\ LengthByte = Blocks /\ LengthByte \in 0..MaxBlocks /\ k \in Nat
  BY BlockType, BlockFits
<1>2. s \in Seq(Bytes) /\ Len(s) = n /\ \A i \in 1..n : s[i] = <<"meta", Padded[i]>>
  <2>1. \A i \in 1..n : <<"meta", Padded[i]>> \in Bytes
    BY <1>1 DEF Bytes
  <2>2. n \in Nat
    BY <1>1
  <2> HIDE DEF n
  <2>3. s \in Seq(Bytes) /\ Len(s) = n
    BY <2>1, <2>2
  <2>4. \A i \in 1..n : s[i] = <<"meta", Padded[i]>>
    OBVIOUS
  <2> QED
    BY <2>3, <2>4
<1>3. /\ \A i \in 1..k+1 : Padded[i] = Closed[i]
      /\ \A i \in k+2..n : Padded[i] = "nul"
  <2> DEFINE pad == Times(Blocks * BlockSize - Len(Closed), "nul")
  <2>1. Blocks * BlockSize - Len(Closed) \in Nat
    BY <1>1
  <2>2. /\ pad \in Seq(Marks) /\ Len(pad) = Blocks * BlockSize - Len(Closed)
        /\ \A i \in 1..Len(pad) : pad[i] = "nul"
    <3>1. "nul" \in Marks
      BY DEF Marks
    <3> QED
      BY <2>1, <3>1, TimesType DEF Times
  <2>3. Padded = Closed \o pad
    BY DEF Padded
  <2> HIDE DEF pad
  <2>4. /\ \A i \in 1..Len(Closed) : Padded[i] = Closed[i]
        /\ \A i \in 1..Len(pad) : Padded[Len(Closed) + i] = pad[i]
    <3>1. Closed \in Seq(Marks)
      BY <1>1
    <3> QED
      BY <2>2, <2>3, <3>1, Concat
  <2>5. ASSUME NEW i \in k+2..n PROVE Padded[i] = "nul"
    <3>1. i - (k + 1) \in 1..Len(pad) /\ Len(Closed) + (i - (k + 1)) = i
      BY <1>1, <2>2
    <3> QED
      BY <2>2, <2>4, <3>1
  <2> QED
    BY <1>1, <2>4, <2>5
<1>4. /\ \A i \in 1..k-1 : Closed[i] = IF i <= Opening THEN "open" ELSE "char"
      /\ Closed[k] = "quote" /\ Closed[k+1] = "semicolon"
  <2>1. <<"quote", "semicolon">> \in Seq(Marks)
    BY DEF Marks
  <2>2. /\ \A i \in 1..Len(text) : Closed[i] = text[i]
        /\ \A i \in 1..2 : Closed[Len(text) + i] = <<"quote", "semicolon">>[i]
    BY <2>1, Concat DEF Closed
  <2>3. Closed[Len(text) + 1] = "quote" /\ Closed[Len(text) + 2] = "semicolon"
    BY <2>2
  <2>4. \A i \in 1..Len(text) : Closed[i] = IF i <= Opening THEN "open" ELSE "char"
    BY <2>2 DEF Open
  <2>5. k - 1 = Len(text) /\ k + 1 = Len(text) + 2
    BY <1>1
  <2> QED
    BY <2>3, <2>4, <2>5
<1>5. k \in Opening+1..n-1
  BY <1>1, OpeningAssumption DEF Open
<1>6. Block \in Seq(Bytes) /\ Len(Block) = n + 1 /\ Block[1] = <<"size", LengthByte>>
      /\ \A i \in 1..n : Block[1 + i] = s[i]
  <2>1. <<<<"size", LengthByte>>>> \in Seq(Bytes)
    <3>1. <<"size", LengthByte>> \in Bytes
      BY <1>1 DEF Bytes
    <3> QED
      BY <3>1
  <2>2. Block = <<<<"size", LengthByte>>>> \o s
    BY DEF Block
  <2> HIDE DEF s
  <2>3. \A i \in 1..n : (<<<<"size", LengthByte>>>> \o s)[1 + i] = s[i]
    BY <1>2, <2>1, Concat
  <2> QED
    BY <2>2, <2>3, AppendedType
<1> HIDE DEF s, k, n
<1>7. Quoted(s)
  <2>1. IsMeta(s[k], "quote") /\ IsMeta(s[k+1], "semicolon")
    <3>1. k \in 1..n /\ k + 1 \in 1..n /\ k \in 1..k+1 /\ k + 1 \in 1..k+1
      BY <1>1, <1>5, OpeningAssumption
    <3> QED
      BY <1>2, <1>3, <1>4, <3>1 DEF IsMeta
  <2>2. ASSUME NEW i \in 1..k-1
        PROVE  IsMeta(s[i], IF i <= Opening THEN "open" ELSE "char")
    <3>1. i \in 1..n /\ i \in 1..k+1
      BY <1>1, <1>5
    <3> QED
      BY <1>2, <1>3, <1>4, <3>1 DEF IsMeta
  <2>3. ASSUME NEW i \in k+2..Len(s) PROVE IsMeta(s[i], "nul")
    <3>1. i \in 1..n /\ i \in k+2..n
      BY <1>1, <1>2
    <3> QED
      BY <1>2, <1>3, <3>1 DEF IsMeta
  <2>4. Len(s) % BlockSize = 0
    BY <1>1, <1>2, MultipleOf, BlockAssumption
  <2>5. k \in Opening+1..Len(s)-1
    BY <1>2, <1>5
  <2> QED
    BY <2>1, <2>2, <2>3, <2>4, <2>5 DEF Quoted
<1>8. ASSUME NEW q \in 1..Len(Block), Block[q][1] = "size" PROVE Entitled(Block, q)
  <2>1. CASE q = 1
    <3>1. Len(s) = Block[q][2] * BlockSize
      BY <1>1, <1>2, <1>6, <2>1
    <3>2. Behind(Block, q, s)
      BY <1>1, <1>2, <1>6, <2>1 DEF Behind
    <3> QED
      BY <1>2, <1>7, <3>1, <3>2 DEF Entitled
  <2>2. CASE q # 1
    <3>1. PICK i \in 1..n : q = 1 + i
      <4>1. q - 1 \in 1..n /\ q = 1 + (q - 1)
        BY <1>1, <1>6, <2>2
      <4> QED
        BY <4>1
    <3>2. Block[q] = <<"meta", Padded[i]>>
      BY <1>2, <1>6, <3>1
    <3> QED
      BY <1>8, <3>2
  <2> QED
    BY <2>1, <2>2
<1> QED
  BY <1>8 DEF Titled

(* What is titled stays titled when audio or another block follows it, and *)
(* what was read stays where it was.                                       *)
LEMMA TitledConcat ==
  ASSUME NEW b \in Seq(Bytes), NEW t \in Seq(Bytes), Titled(b), Titled(t)
  PROVE  Titled(b \o t)
<1> DEFINE c == b \o t
           m == Len(b)
<1>1. /\ Len(c) = m + Len(t) /\ m \in Nat /\ Len(t) \in Nat
      /\ \A i \in 1..m : c[i] = b[i]
      /\ \A i \in 1..Len(t) : c[m + i] = t[i]
  BY Concat
<1> HIDE DEF c, m
<1> SUFFICES ASSUME NEW q \in 1..Len(c), c[q][1] = "size" PROVE Entitled(c, q)
  BY DEF Titled, c
<1>2. CASE q <= m
  <2>1. q \in 1..m /\ c[q] = b[q]
    BY <1>1, <1>2
  <2>2. PICK s \in Seq(Bytes) :
          Quoted(s) /\ Len(s) = b[q][2] * BlockSize /\ Behind(b, q, s)
    BY <2>1 DEF Titled, Entitled, m
  <2>3. Len(s) \in Nat /\ q + Len(s) <= m
    BY <2>2 DEF Behind, m
  <2>4. \A i \in 1..Len(s) : c[q + i] = s[i]
    <3> TAKE i \in 1..Len(s)
    <3>1. q + i \in 1..m
      BY <1>1, <2>1, <2>3
    <3> QED
      BY <1>1, <2>2, <3>1 DEF Behind
  <2>5. Behind(c, q, s)
    BY <1>1, <2>1, <2>3, <2>4 DEF Behind
  <2> QED
    BY <2>1, <2>2, <2>5 DEF Entitled
<1>3. CASE q > m
  <2>1. PICK j \in 1..Len(t) : q = m + j
    <3>1. q - m \in 1..Len(t) /\ q = m + (q - m)
      BY <1>1, <1>3
    <3> QED
      BY <3>1
  <2>2. c[q] = t[j]
    BY <1>1, <2>1
  <2>3. PICK s \in Seq(Bytes) :
          Quoted(s) /\ Len(s) = t[j][2] * BlockSize /\ Behind(t, j, s)
    BY <2>2 DEF Titled, Entitled
  <2>4. Len(s) \in Nat /\ j + Len(s) <= Len(t)
    BY <2>3 DEF Behind
  <2>5. \A i \in 1..Len(s) : c[q + i] = s[i]
    <3> TAKE i \in 1..Len(s)
    <3>1. j + i \in 1..Len(t) /\ q + i = m + (j + i)
      BY <1>1, <2>1, <2>4
    <3> QED
      BY <1>1, <2>3, <3>1 DEF Behind
  <2>6. Behind(c, q, s)
    <3>1. q + Len(s) <= Len(c)
      BY <1>1, <2>1, <2>4
    <3> QED
      BY <2>5, <3>1 DEF Behind
  <2> QED
    BY <2>2, <2>3, <2>6 DEF Entitled
<1> QED
  BY <1>1, <1>2, <1>3

LEMMA ReadFromConcat ==
  ASSUME NEW b \in Seq(Bytes), NEW t \in Seq(Bytes), NEW s \in Seq(Bytes),
         NEW k \in Nat, NEW r, ReadFrom(b, s, k, r)
  PROVE  ReadFrom(b \o t, s, k, r)
<1> DEFINE c == b \o t
<1>1. /\ Len(c) = Len(b) + Len(t) /\ Len(b) \in Nat /\ Len(t) \in Nat
      /\ \A i \in 1..Len(b) : c[i] = b[i]
  BY Concat
<1> HIDE DEF c
<1>2. Len(s) \in Nat
  OBVIOUS
<1>3. PICK q \in 1..Len(b) :
        /\ b[q][1] = "size" /\ Len(s) + k = b[q][2] * BlockSize
        /\ q + Len(s) + k <= Len(b) /\ Behind(b, q, s)
        /\ k > 0 => r = q + Len(s)
  BY DEF ReadFrom
<1>4. q \in 1..Len(c) /\ c[q] = b[q] /\ q + Len(s) + k <= Len(c)
  BY <1>1, <1>2, <1>3
<1>5. \A i \in 1..Len(s) : c[q + i] = s[i]
  <2> TAKE i \in 1..Len(s)
  <2>1. q + i \in 1..Len(b)
    BY <1>1, <1>2, <1>3
  <2> QED
    BY <1>1, <1>3, <2>1 DEF Behind
<1>6. Behind(c, q, s)
  BY <1>1, <1>2, <1>3, <1>5 DEF Behind
<1>7. ReadFrom(c, s, k, r)
  BY <1>3, <1>4, <1>6 DEF ReadFrom
<1> QED
  BY <1>7 DEF c

(* No quote or control character gets into the text.                       *)
LEMMA TextOpenStep == TypeOK /\ TextOpen /\ [Next]_vars => TextOpen'
<1> SUFFICES ASSUME TypeOK, TextOpen, [Next]_vars PROVE TextOpen'
  OBVIOUS
<1>1. CASE Copy
  <2>1. CASE remaining' = 0
    <3>1. text' = Times(Opening, "open")
      BY <1>1, <2>1 DEF Copy
    <3>2. Len(text') = Opening /\ \A i \in 1..Opening : text'[i] = "open"
      BY <3>1, TimesType, OpeningAssumption DEF Times
    <3>3. \A i \in 1..Opening : i <= Opening
      BY OpeningAssumption
    <3> QED
      BY <3>2, <3>3, OpeningAssumption DEF TextOpen, Open
  <2>2. CASE remaining' # 0
    BY <1>1, <2>2 DEF Copy, TextOpen
  <2> QED
    BY <2>1, <2>2
<1>2. CASE PushChar
  <2>1. NextChar.width \in Nat /\ ~NextChar.bad
    <3>1. NextChar.width \in Nat
      BY <1>2, CharType DEF PushChar
    <3>2. title[index + 1] \in Chars
      <4>1. title \in Seq(Chars) /\ index + 1 \in 1..Len(title)
        BY <1>2, TitlesAssumption DEF TypeOK, PushChar
      <4> QED
        BY <4>1
    <3>3. ~NextChar.bad
      <4>1. CASE title[index + 1].bad
        BY <4>1 DEF NextChar, Clean
      <4>2. CASE ~title[index + 1].bad
        BY <4>2 DEF NextChar, Clean
      <4> QED
        BY <4>1, <4>2
    <3> QED
      BY <3>1, <3>3
  <2> DEFINE more == Times(NextChar.width, "char")
  <2>2. more \in Seq(Marks) /\ \A i \in 1..Len(more) : more[i] = "char"
    <3>1. "char" \in Marks
      BY DEF Marks
    <3> QED
      BY <2>1, <3>1, TimesType DEF Times
  <2>3. text' = text \o more /\ stage = "format"
    BY <1>2, <2>1 DEF PushChar
  <2> HIDE DEF more
  <2>4. text \in Seq(Marks) /\ Open(text)
    BY <2>3 DEF TypeOK, TextOpen
  <2>5. /\ Len(text') = Len(text) + Len(more) /\ Len(text) \in Nat /\ Len(more) \in Nat
        /\ \A i \in 1..Len(text) : text'[i] = text[i]
        /\ \A i \in 1..Len(more) : text'[Len(text) + i] = more[i]
    BY <2>2, <2>3, <2>4, Concat
  <2>6. ASSUME NEW i \in 1..Len(text')
        PROVE  text'[i] = IF i <= Opening THEN "open" ELSE "char"
    <3>1. CASE i <= Len(text)
      <4>1. i \in 1..Len(text)
        BY <2>5, <3>1
      <4> QED
        BY <2>4, <2>5, <4>1 DEF Open
    <3>2. CASE i > Len(text)
      <4>1. PICK j \in 1..Len(more) : i = Len(text) + j
        <5>1. i - Len(text) \in 1..Len(more) /\ i = Len(text) + (i - Len(text))
          BY <2>5, <3>2
        <5> QED
          BY <5>1
      <4>2. ~(i <= Opening)
        BY <2>4, <2>5, <3>2, OpeningAssumption DEF Open
      <4> QED
        BY <2>2, <2>5, <4>1, <4>2
    <3> QED
      BY <2>5, <3>1, <3>2
  <2>7. Len(text') >= Opening
    BY <2>4, <2>5, OpeningAssumption DEF Open
  <2> QED
    BY <2>6, <2>7 DEF TextOpen, Open
<1>3. CASE SetTitle \/ EncodeBegins \/ EncodeReturns \/ AppendBlock
  BY <1>3 DEF SetTitle, EncodeBegins, EncodeReturns, AppendBlock, TextOpen
<1>4. CASE HearAudio \/ ReadLength \/ ReadMetadata \/ UNCHANGED vars
  BY <1>4 DEF HearAudio, ReadLength, ReadMetadata, encoder, vars, TextOpen
<1> QED
  BY <1>1, <1>2, <1>3, <1>4 DEF Next

(* The body stays titled: a page's audio has no length byte, and a block   *)
(* comes whole.                                                            *)
LEMMA TitledStep ==
  TypeOK /\ TextFits /\ TextOpen /\ Titled(body) /\ [Next]_vars
    => /\ Titled(body')
       /\ \E t \in Seq(Bytes) : body' = body \o t
<1> SUFFICES ASSUME TypeOK, TextFits, TextOpen, Titled(body), [Next]_vars
             PROVE  \E t \in Seq(Bytes) : Titled(body \o t) /\ body' = body \o t
  OBVIOUS
<1>1. body \in Seq(Bytes)
  BY DEF TypeOK
<1>2. CASE Copy
  <2>1. Copied \in Seq(Bytes) /\ Len(Copied) = Count
    BY <1>2, CopiedType DEF Copy
  <2>2. Titled(Copied)
    <3> SUFFICES ASSUME NEW q \in 1..Len(Copied) PROVE Copied[q][1] # "size"
      BY DEF Titled
    <3> QED
      BY <2>1 DEF Copied
  <2>3. body' = body \o Copied
    BY <1>2 DEF Copy, Copied
  <2> QED
    BY <1>1, <2>1, <2>2, <2>3, TitledConcat
<1>3. CASE AppendBlock
  <2>1. text \in Seq(Marks) /\ Len(text) + 2 <= MaxText /\ Open(text)
    BY <1>3 DEF TypeOK, TextFits, TextOpen, AppendBlock
  <2>2. Block \in Seq(Bytes) /\ Titled(Block)
    BY <2>1, AppendedType, BlockTitled
  <2>3. body' = body \o Block
    BY <1>3 DEF AppendBlock
  <2> QED
    BY <1>1, <2>2, <2>3, TitledConcat
<1>4. CASE ~Copy /\ ~AppendBlock
  <2>1. body' = body
    BY <1>4 DEF Next, SetTitle, EncodeBegins, EncodeReturns, PushChar, HearAudio,
                ReadLength, ReadMetadata, encoder, vars
  <2>2. <<>> \in Seq(Bytes) /\ body \o <<>> = body
    BY <1>1
  <2> QED
    BY <2>1, <2>2
<1> QED
  BY <1>2, <1>3, <1>4

(* What the player shows stays what the body says.                         *)
LEMMA ShownReadStep ==
  TypeOK /\ Titled(body) /\ ShownRead /\ [Next]_vars
    /\ (\E t \in Seq(Bytes) : body' = body \o t)
    => ShownRead'
<1> SUFFICES ASSUME TypeOK, Titled(body), ShownRead, [Next]_vars,
                    NEW t \in Seq(Bytes), body' = body \o t
             PROVE  shown' # <<>> \/ skip' > 0 => ReadFrom(body', shown', skip', read')
  BY DEF ShownRead
<1>1. body \in Seq(Bytes) /\ shown \in Seq(Bytes) /\ skip \in Nat /\ read \in Nat
      /\ Len(shown) \in Nat /\ Len(body) \in Nat
  BY DEF TypeOK
<1>2. CASE ReadLength
  <2>1. /\ body' = body /\ shown' = <<>> /\ read' = read + 1
        /\ skip' = (IF NextByte[1] = "size" THEN NextByte[2] ELSE 0) * BlockSize
    BY <1>2 DEF ReadLength, encoder
  <2>2. CASE NextByte[1] = "size"
    <3> DEFINE q == read + 1
    <3>1. q \in 1..Len(body) /\ NextByte = body[q]
      BY <1>2 DEF ReadLength, TypeOK, NextByte
    <3> HIDE DEF q
    <3>2. PICK s \in Seq(Bytes) :
            Quoted(s) /\ Len(s) = body[q][2] * BlockSize /\ Behind(body, q, s)
      BY <2>2, <3>1 DEF Titled, Entitled
    <3>3. skip' = Len(s) /\ Len(s) \in Nat /\ q + Len(s) <= Len(body)
      BY <2>1, <2>2, <3>1, <3>2 DEF Behind
    <3>4. Len(shown') = 0
      BY <2>1
    <3>5. /\ body'[q][1] = "size" /\ Len(shown') + skip' = body'[q][2] * BlockSize
          /\ q + Len(shown') + skip' <= Len(body')
      BY <2>1, <2>2, <3>1, <3>2, <3>3, <3>4
    <3>6. Behind(body', q, shown')
      BY <1>1, <2>1, <3>1, <3>4 DEF Behind
    <3>7. read' = q + Len(shown')
      BY <1>1, <2>1, <3>4 DEF q
    <3> QED
      BY <2>1, <3>1, <3>5, <3>6, <3>7 DEF ReadFrom
  <2>3. CASE NextByte[1] # "size"
    <3>1. skip' = 0
      BY <2>1, <2>3, BlockAssumption
    <3> QED
      BY <2>1, <3>1
  <2> QED
    BY <2>2, <2>3
<1>3. CASE ReadMetadata
  <2>1. /\ body' = body /\ read' = read + 1 /\ skip' = skip - 1 /\ skip > 0
        /\ shown' = Append(shown, body[read + 1]) /\ body[read + 1] \in Bytes
    <3>1. body[read + 1] \in Bytes
      BY <1>3, NextByteType DEF ReadMetadata, NextByte
    <3> QED
      BY <1>3, <3>1 DEF ReadMetadata, encoder, NextByte
  <2>2. PICK q \in 1..Len(body) :
          /\ body[q][1] = "size" /\ Len(shown) + skip = body[q][2] * BlockSize
          /\ q + Len(shown) + skip <= Len(body) /\ Behind(body, q, shown)
          /\ skip > 0 => read = q + Len(shown)
    BY <2>1 DEF ShownRead, ReadFrom
  <2>3. /\ Len(shown') = Len(shown) + 1
        /\ \A i \in 1..Len(shown) : shown'[i] = shown[i]
        /\ shown'[Len(shown) + 1] = body[read + 1]
    BY <1>1, <2>1
  <2>4. ASSUME NEW i \in 1..Len(shown') PROVE body[q + i] = shown'[i]
    <3>1. CASE i = Len(shown) + 1
      <4>1. q + i = read + 1
        BY <1>1, <2>1, <2>2, <3>1
      <4> QED
        BY <2>3, <3>1, <4>1
    <3>2. CASE i # Len(shown) + 1
      <4>1. i \in 1..Len(shown)
        BY <1>1, <2>3, <3>2
      <4> QED
        BY <2>2, <2>3, <4>1 DEF Behind
    <3> QED
      BY <3>1, <3>2
  <2>5. /\ Len(shown') + skip' = Len(shown) + skip
        /\ q + Len(shown') + skip' = q + Len(shown) + skip
        /\ q + Len(shown') <= Len(body)
        /\ skip' > 0 => read' = q + Len(shown')
    BY <1>1, <2>1, <2>2, <2>3
  <2>6. Behind(body, q, shown')
    BY <2>4, <2>5 DEF Behind
  <2>7. ReadFrom(body, shown', skip', read')
    BY <2>2, <2>5, <2>6 DEF ReadFrom
  <2> QED
    BY <2>1, <2>7
<1>4. CASE HearAudio
  <2>1. body' = body /\ shown' = shown /\ skip' = skip /\ skip = 0
    BY <1>4 DEF HearAudio, encoder
  <2> QED
    BY <2>1 DEF ShownRead, ReadFrom
<1>5. CASE ~ReadLength /\ ~ReadMetadata /\ ~HearAudio
  <2>1. shown' = shown /\ skip' = skip /\ read' = read
    BY <1>5 DEF Next, SetTitle, EncodeBegins, Copy, EncodeReturns, PushChar,
                AppendBlock, player, vars
  <2> QED
    BY <1>1, <2>1, ReadFromConcat DEF ShownRead
<1> QED
  BY <1>2, <1>3, <1>4, <1>5

LEMMA ShownInit == Init => ShownInv
BY DEF Init, ShownInv, TextOpen, Titled, ShownRead

LEMMA ShownStep == IInv /\ ShownInv /\ [Next]_vars => ShownInv'
<1> SUFFICES ASSUME IInv, ShownInv, [Next]_vars PROVE ShownInv'
  OBVIOUS
<1>1. TypeOK /\ TextFits /\ TextOpen /\ Titled(body) /\ ShownRead
  BY DEF IInv, ShownInv
<1>2. TextOpen'
  BY <1>1, TextOpenStep
<1>3. Titled(body') /\ \E t \in Seq(Bytes) : body' = body \o t
  BY <1>1, TitledStep
<1>4. ShownRead'
  BY <1>1, <1>3, ShownReadStep
<1>5. Titled(body)'
  BY <1>3 DEF Titled, Entitled, Quoted, Behind, IsMeta
<1> QED
  BY <1>2, <1>4, <1>5 DEF ShownInv

(* What a player shows is always one whole title in quotes: nothing in a   *)
(* title, however long, can close the quote early or leave it open.        *)
THEOREM TitleAlwaysQuoted == Spec => []TitleQuoted
<1>1. IInv /\ ShownInv => TitleQuoted
  <2> SUFFICES ASSUME IInv, ShownInv, skip = 0, shown # <<>> PROVE Quoted(shown)
    BY DEF TitleQuoted, Quoted
  <2>1. PICK q \in 1..Len(body) :
          /\ body[q][1] = "size" /\ Len(shown) + skip = body[q][2] * BlockSize
          /\ Behind(body, q, shown)
    BY DEF ShownInv, ShownRead, ReadFrom
  <2>2. PICK s \in Seq(Bytes) :
          Quoted(s) /\ Len(s) = body[q][2] * BlockSize /\ Behind(body, q, s)
    BY <2>1 DEF ShownInv, Titled, Entitled
  <2>3. shown \in Seq(Bytes) /\ Len(shown) \in Nat
    BY DEF IInv, TypeOK
  <2>4. Len(shown) = Len(s)
    BY <2>1, <2>2, <2>3
  <2>5. \A i \in 1..Len(shown) : shown[i] = s[i]
    BY <2>1, <2>2, <2>4 DEF Behind
  <2>6. shown = s
    BY <2>3, <2>4, <2>5
  <2> QED
    BY <2>2, <2>6
<1> QED
  BY <1>1, Invariance, ShownInit, ShownStep, PTL DEF Spec

-----------------------------------------------------------------------------
(* The longest prefix.  format_title's text is as long as the opening and  *)
(* the characters looked at, and widths only add up.                       *)

(* A set of natural numbers has a least element: induction without an      *)
(* operator parameter.                                                     *)
LEMMA LeastNat ==
  ASSUME NEW T \in SUBSET Nat, T # {}
  PROVE  \E x \in T : \A y \in T : x <= y
<1> DEFINE R == OpToRel(<, Nat)
<1>1. IsWellFoundedOn(R, Nat)
  BY Zenon, NatLessThanWellFounded
<1>2. \A x, y \in Nat : x < y => <<x, y>> \in R
  BY DEF OpToRel
<1> HIDE DEF R
<1>3. PICK x \in T : \A y \in T : ~(<<y, x>> \in R)
  BY <1>1, WFMin
<1>4. \A y \in T : x <= y
  <2> TAKE y \in T
  <2>1. ~(y < x)
    BY <1>2, <1>3
  <2> QED
    BY <2>1
<1> QED
  BY <1>4

(* A table of the widths of the first n characters. *)
Adds(w, t, n) ==
  w = [k \in 0..n |-> IF k = 0 THEN 0 ELSE w[k-1] + Clean(t[k]).width]

LEMMA CleanWidth ==
  ASSUME NEW c \in Chars
  PROVE  Clean(c).width \in Nat
BY DEF Clean, Chars

LEMMA TableType ==
  ASSUME NEW t \in Seq(Chars), NEW n \in 0..Len(t), NEW w, Adds(w, t, n)
  PROVE  /\ w[0] = 0
         /\ \A k \in 1..n : w[k] = w[k-1] + Clean(t[k]).width
         /\ w \in [0..n -> Nat]
<1>1. n \in Nat /\ Len(t) \in Nat
  OBVIOUS
<1>2. w = [k \in 0..n |-> IF k = 0 THEN 0 ELSE w[k-1] + Clean(t[k]).width]
  BY DEF Adds
<1>3. DOMAIN w = 0..n
  BY <1>2
<1>4. \A k \in 0..n : w[k] = IF k = 0 THEN 0 ELSE w[k-1] + Clean(t[k]).width
  BY <1>2
<1>5. w[0] = 0 /\ \A k \in 1..n : w[k] = w[k-1] + Clean(t[k]).width
  <2>1. 0 \in 0..n
    BY <1>1
  <2>2. \A k \in 1..n : k \in 0..n /\ k # 0
    BY <1>1
  <2> QED
    BY <1>4, <2>1, <2>2
<1>6. \A k \in 0..n : w[k] \in Nat
  <2> DEFINE T == {k \in 0..n : w[k] \notin Nat}
  <2> SUFFICES ASSUME T # {} PROVE FALSE
    OBVIOUS
  <2>1. PICK x \in T : \A y \in T : x <= y
    <3>1. T \in SUBSET Nat
      BY <1>1
    <3> QED
      BY <3>1, LeastNat
  <2>2. x # 0
    BY <1>5
  <2>3. x \in 1..n /\ x - 1 \in 0..n /\ ~(x <= x - 1)
    BY <1>1, <2>2
  <2>4. w[x-1] \in Nat
    BY <2>1, <2>3
  <2>5. t[x] \in Chars
    BY <1>1, <2>3
  <2>6. Clean(t[x]).width \in Nat
    BY <2>5, CleanWidth
  <2>7. w[x] \in Nat
    BY <1>5, <2>3, <2>4, <2>6
  <2> QED
    BY <2>7
<1> QED
  BY <1>2, <1>3, <1>5, <1>6

LEMMA TableExists ==
  ASSUME NEW t \in Seq(Chars), NEW n \in 0..Len(t)
  PROVE  \E w : Adds(w, t, n)
<1> DEFINE T == {m \in 0..Len(t) : ~ \E w : Adds(w, t, m)}
<1> SUFFICES ASSUME T # {} PROVE FALSE
  OBVIOUS
<1>1. PICK x \in T : \A y \in T : x <= y
  <2>1. T \in SUBSET Nat
    OBVIOUS
  <2> QED
    BY <2>1, LeastNat
<1>2. CASE x = 0
  <2> DEFINE w == [k \in 0..0 |-> 0]
  <2>1. \A k \in 0..0 : k = 0
    OBVIOUS
  <2>2. w = [k \in 0..0 |-> IF k = 0 THEN 0 ELSE w[k-1] + Clean(t[k]).width]
    BY <2>1
  <2>3. Adds(w, t, 0)
    BY <2>2 DEF Adds
  <2> QED
    BY <1>2, <2>3
<1>3. CASE x # 0
  <2>1. x - 1 \in 0..Len(t) /\ ~(x <= x - 1) /\ x \in 1..Len(t)
    BY <1>3
  <2>2. PICK v : Adds(v, t, x - 1)
    BY <1>1, <2>1
  <2>3. /\ v[0] = 0 /\ v \in [0..x-1 -> Nat]
        /\ \A k \in 1..x-1 : v[k] = v[k-1] + Clean(t[k]).width
    BY <2>1, <2>2, TableType
  <2> DEFINE w == [k \in 0..x |-> IF k < x THEN v[k] ELSE v[x-1] + Clean(t[x]).width]
  <2>4. \A k \in 0..x-1 : w[k] = v[k]
    BY <2>1
  <2>5. w[x] = v[x-1] + Clean(t[x]).width
    BY <2>1
  <2>6. w = [k \in 0..x |-> w[k]]
    OBVIOUS
  <2> HIDE DEF w
  <2>7. ASSUME NEW k \in 0..x
        PROVE  w[k] = IF k = 0 THEN 0 ELSE w[k-1] + Clean(t[k]).width
    <3>1. CASE k = 0
      BY <2>1, <2>3, <2>4, <3>1
    <3>2. CASE k \in 1..x-1
      <4>1. k \in 0..x-1 /\ k - 1 \in 0..x-1 /\ k # 0
        BY <2>1, <3>2
      <4> QED
        BY <2>3, <2>4, <3>2, <4>1
    <3>3. CASE k = x
      <4>1. x - 1 \in 0..x-1 /\ k # 0
        BY <2>1, <3>3
      <4> QED
        BY <2>4, <2>5, <3>3, <4>1
    <3> QED
      BY <2>1, <3>1, <3>2, <3>3
  <2>8. w = [k \in 0..x |-> IF k = 0 THEN 0 ELSE w[k-1] + Clean(t[k]).width]
    BY <2>6, <2>7
  <2>9. Adds(w, t, x)
    BY <2>8 DEF Adds
  <2> QED
    BY <2>9
<1> QED
  BY <1>2, <1>3

(* Widths is such a table, and it only grows.                              *)
LEMMA WidthsAdd ==
  ASSUME NEW t \in Seq(Chars)
  PROVE  Adds(Widths(t), t, Len(t))
<1>1. Len(t) \in 0..Len(t)
  OBVIOUS
<1>2. \E w : Adds(w, t, Len(t))
  BY <1>1, TableExists
<1>3. Widths(t) = CHOOSE w : Adds(w, t, Len(t))
  BY DEF Widths, Adds
<1> QED
  BY <1>2, <1>3

LEMMA WidthsGrow ==
  ASSUME NEW t \in Seq(Chars), NEW j \in 0..Len(t), NEW k \in j..Len(t)
  PROVE  Widths(t)[j] <= Widths(t)[k]
<1> DEFINE w == Widths(t)
           n == Len(t)
           T == {m \in j..n : ~(w[j] <= w[m])}
<1>1. /\ n \in Nat /\ j \in 0..n
      /\ w \in [0..n -> Nat]
      /\ \A m \in 1..n : w[m] = w[m-1] + Clean(t[m]).width
  <2>1. n \in 0..n /\ n \in Nat
    OBVIOUS
  <2> QED
    BY <2>1, WidthsAdd, TableType
<1> HIDE DEF w, n
<1> SUFFICES ASSUME T # {} PROVE FALSE
  BY DEF w, n
<1>2. PICK x \in T : \A y \in T : x <= y
  <2>1. T \in SUBSET Nat
    BY <1>1
  <2> QED
    BY <2>1, LeastNat
<1>3. x # j /\ x \in j..n
  BY <1>1
<1>4. x - 1 \in j..n /\ ~(x <= x - 1) /\ x \in 1..n /\ x - 1 \in 0..n
  BY <1>1, <1>3
<1>5. w[j] <= w[x-1]
  BY <1>2, <1>4
<1>6. t[x] \in Chars
  BY <1>4 DEF n
<1>7. Clean(t[x]).width \in Nat
  BY <1>6, CleanWidth
<1>8. w[j] <= w[x]
  BY <1>1, <1>4, <1>5, <1>7
<1> QED
  BY <1>8

(* format_title has counted what it looked at.                             *)
TextWide == stage = "format" => Len(text) = Opening + Widths(title)[index]

LEMMA TextWideStep == TypeOK /\ TextWide /\ [Next]_vars => TextWide'
<1> SUFFICES ASSUME TypeOK, TextWide, [Next]_vars PROVE TextWide'
  OBVIOUS
<1>1. CASE Copy
  <2>1. CASE remaining' = 0
    <3>1. text' = Times(Opening, "open") /\ index' = 0 /\ title' = title
      BY <1>1, <2>1 DEF Copy
    <3>2. Len(text') = Opening
      BY <3>1, TimesType, OpeningAssumption
    <3>3. Widths(title)[0] = 0
      <4>1. title \in Seq(Chars)
        BY TitlesAssumption DEF TypeOK
      <4>2. Len(title) \in 0..Len(title)
        BY <4>1
      <4> QED
        BY <4>1, <4>2, WidthsAdd, TableType
    <3>4. Widths(title')[index'] = 0
      BY <3>1, <3>3
    <3>5. Len(text') = Opening + Widths(title')[index']
      BY <3>2, <3>4, OpeningAssumption
    <3> QED
      BY <3>5 DEF TextWide, Widths, Clean
  <2>2. CASE remaining' # 0
    BY <1>1, <2>2 DEF Copy, TextWide, Widths, Clean
  <2> QED
    BY <2>1, <2>2
<1>2. CASE PushChar
  <2>1. /\ stage = "format" /\ index < Len(title) /\ index' = index + 1 /\ title' = title
        /\ text' = text \o Times(NextChar.width, IF NextChar.bad THEN "quote" ELSE "char")
    BY <1>2 DEF PushChar
  <2>2. NextChar.width \in Nat /\ text \in Seq(Marks)
    BY <2>1, CharType DEF TypeOK
  <2>3. Len(text') = Len(text) + NextChar.width
    <3> DEFINE more == Times(NextChar.width, IF NextChar.bad THEN "quote" ELSE "char")
    <3>1. (IF NextChar.bad THEN "quote" ELSE "char") \in Marks
      BY DEF Marks
    <3>2. more \in Seq(Marks) /\ Len(more) = NextChar.width
      BY <2>2, <3>1, TimesType
    <3> HIDE DEF more
    <3>3. Len(text \o more) = Len(text) + Len(more)
      BY <2>2, <3>2, Concat
    <3> QED
      BY <2>1, <3>2, <3>3 DEF more
  <2>4. /\ Widths(title)[index+1] = Widths(title)[index] + NextChar.width
        /\ Widths(title)[index] \in Nat
    <3>1. title \in Seq(Chars) /\ index + 1 \in 1..Len(title) /\ index \in 0..Len(title)
      BY <2>1, TitlesAssumption DEF TypeOK
    <3>2. Len(title) \in 0..Len(title) /\ (index + 1) - 1 = index
      BY <3>1
    <3> DEFINE w == Widths(title)
    <3>3. /\ w \in [0..Len(title) -> Nat]
          /\ \A k \in 1..Len(title) : w[k] = w[k-1] + Clean(title[k]).width
      BY <3>1, <3>2, WidthsAdd, TableType
    <3> HIDE DEF w
    <3>4. w[index+1] = w[index] + NextChar.width
      BY <3>1, <3>2, <3>3 DEF NextChar
    <3>5. w[index] \in Nat
      BY <3>1, <3>3
    <3> QED
      BY <3>4, <3>5 DEF w
  <2>5. Len(text) = Opening + Widths(title)[index]
    BY <2>1 DEF TextWide
  <2>6. Len(text') = Opening + Widths(title')[index']
    BY <2>1, <2>2, <2>3, <2>4, <2>5, OpeningAssumption
  <2> QED
    BY <2>6 DEF TextWide, Widths, Clean
<1>3. CASE SetTitle \/ EncodeBegins \/ EncodeReturns \/ AppendBlock
  BY <1>3 DEF SetTitle, EncodeBegins, EncodeReturns, AppendBlock, TextWide
<1>4. CASE HearAudio \/ ReadLength \/ ReadMetadata \/ UNCHANGED vars
  BY <1>4 DEF HearAudio, ReadLength, ReadMetadata, encoder, vars, TextWide, Widths, Clean
<1> QED
  BY <1>1, <1>2, <1>3, <1>4 DEF Next

(* format_title shows the longest prefix of the title that leaves room for *)
(* the closing marks: it stops neither early nor late.                     *)
THEOREM AlwaysLongestPrefix == Spec => []LongestPrefix
<1>1. Init => TextWide
  BY DEF Init, TextWide
<1>2. IInv /\ TextWide => LongestPrefix
  <2> SUFFICES ASSUME IInv, TextWide, stage = "format",
                      index < Len(title) => ~Fits(NextChar)
               PROVE  index \in Room /\ \A k \in Room : k <= index
    BY DEF LongestPrefix
  <2> DEFINE w == Widths(title)
             n == Len(title)
  <2>1. /\ title \in Seq(Chars) /\ n \in Nat /\ index \in 0..n
        /\ Len(text) = Opening + w[index] /\ Len(text) + 2 <= MaxText
    BY TitlesAssumption DEF IInv, TypeOK, TextFits, TextWide
  <2>2. w \in [0..n -> Nat] /\ \A k \in 1..n : w[k] = w[k-1] + Clean(title[k]).width
    <3>1. n \in 0..n
      BY <2>1
    <3> QED
      BY <2>1, <3>1, WidthsAdd, TableType
  <2>3. Room = {k \in 0..n : Opening + w[k] + 2 <= MaxText}
    BY DEF Room
  <2>4. index \in Room
    BY <2>1, <2>3
  <2>5. ASSUME NEW k \in Room, ~(k <= index) PROVE FALSE
    <3>1. k \in index+1..n /\ index + 1 \in 0..n /\ index + 1 \in 1..n
      BY <2>1, <2>3, <2>5
    <3>2. w[index+1] <= w[k]
      BY <2>1, <3>1, WidthsGrow
    <3>3. w[index+1] = w[index] + NextChar.width
      <4>1. (index + 1) - 1 = index
        BY <2>1
      <4> QED
        BY <2>2, <3>1, <4>1 DEF NextChar
    <3>4. ~(Len(text) + NextChar.width + 2 <= MaxText)
      BY <2>1, <3>1 DEF Fits
    <3>5. Opening + w[k] + 2 <= MaxText
      BY <2>3
    <3>6. /\ w[index] \in Nat /\ w[k] \in Nat /\ NextChar.width \in Nat
          /\ MaxText \in Nat /\ Opening \in Nat
      <4>1. k \in 0..n
        BY <2>3
      <4>2. title[index+1] \in Chars
        BY <2>1, <3>1
      <4>3. NextChar.width \in Nat
        BY <4>2, CleanWidth DEF NextChar
      <4> QED
        BY <2>1, <2>2, <4>1, <4>3, MaxTextNat, OpeningAssumption
    <3> HIDE DEF w, n
    <3>7. \A a, b, e, f \in Nat :
            a + b <= e /\ f + e + 2 <= MaxText => f + a + b + 2 <= MaxText
      BY <3>6
    <3>8. w[index] + NextChar.width <= w[k]
      BY <3>2, <3>3
    <3>9. Opening + w[index] + NextChar.width + 2 <= MaxText
      BY <3>5, <3>6, <3>7, <3>8
    <3>10. Len(text) = Opening + w[index]
      BY <2>1
    <3> QED
      BY <3>4, <3>9, <3>10
  <2>6. \A k \in Room : k <= index
    BY <2>5
  <2> QED
    BY <2>4, <2>6
<1>3. TypeOK /\ TextWide /\ [Next]_vars => TextWide'
  BY TextWideStep
<1> QED
  BY <1>1, <1>2, <1>3, Invariance, TypeCorrect, PTL DEF Spec
=============================================================================
