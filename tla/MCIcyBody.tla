----------------------------- MODULE MCIcyBody -----------------------------
(* IcyBody for TLC: titles of characters of several widths, with and       *)
(* without quotes, that end before, at and beyond the last block.          *)
EXTENDS IcyBody

Narrow == [width |-> 1, bad |-> FALSE]
Wide == [width |-> 2, bad |-> FALSE]
Broad == [width |-> 3, bad |-> FALSE]
Quote == [width |-> 1, bad |-> TRUE]
Control == [width |-> 2, bad |-> TRUE]

SomeTitles ==
  {<<>>, <<Narrow>>, <<Quote, Wide>>, <<Wide, Narrow, Narrow>>,
   <<Narrow, Wide, Broad>>, <<Wide, Wide, Narrow>>,
   <<Wide, Control, Narrow, Narrow>>}
=============================================================================
