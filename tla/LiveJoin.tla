------------------------------ MODULE LiveJoin ------------------------------
(***************************************************************************)
(* What a listener node promises the HTTP clients of /stream, with no      *)
(* lock, cache or channel in sight: joining is one step, and from then on  *)
(* a client receives, in order and once each, the header pages of the Ogg  *)
(* stream that was current when it joined and every page published since,  *)
(* until the connection ends.                                              *)
(*                                                                         *)
(* A page is named by its position in the muxer's output; pages[n] is its  *)
(* kind.                                                                   *)
(***************************************************************************)
EXTENDS Naturals, Sequences

CONSTANTS
  Clients,    \* the HTTP connections that may exist
  MaxPages    \* bound: how many pages the muxer produces

VARIABLES
  pages,      \* kinds of the pages published so far
  on,         \* on[c]: c is being streamed to
  since,      \* since[c]: how many pages had been published when c joined
  got         \* got[c]: the pages c has received, oldest first

vars == <<pages, on, since, got>>

PageKinds == {"header", "audio"}

(* The header pages of the stream that is current after k pages: a header  *)
(* page belongs to it unless a later header page starts another stream,    *)
(* which an audio page between the two gives away.                         *)
Opening(s, k) ==
  {h \in 1..k : /\ s[h] = "header"
                /\ \A i, j \in h..k : i < j /\ s[j] = "header" => s[i] = "header"}

(* The pages c is to receive, among those already published. *)
Entitled(c) == Opening(pages, since[c]) \cup (since[c]+1)..Len(pages)

LastGot(c) == IF got[c] = <<>> THEN 0 ELSE got[c][Len(got[c])]

Init ==
  /\ pages = <<>>
  /\ on = [c \in Clients |-> FALSE]
  /\ since = [c \in Clients |-> 0]
  /\ got = [c \in Clients |-> <<>>]

Publish(kind) ==
  /\ Len(pages) < MaxPages
  /\ pages' = Append(pages, kind)
  /\ UNCHANGED <<on, since, got>>

Join(c) ==
  /\ ~on[c]
  /\ on' = [on EXCEPT ![c] = TRUE]
  /\ since' = [since EXCEPT ![c] = Len(pages)]
  /\ UNCHANGED <<pages, got>>

Receive(c) ==
  /\ on[c]
  /\ \E n \in Entitled(c) :
       /\ n > LastGot(c)
       /\ \A m \in Entitled(c) : m > LastGot(c) => n <= m
       /\ got' = [got EXCEPT ![c] = Append(@, n)]
  /\ UNCHANGED <<pages, on, since>>

Leave(c) ==
  /\ on[c]
  /\ on' = [on EXCEPT ![c] = FALSE]
  /\ since' = [since EXCEPT ![c] = 0]
  /\ got' = [got EXCEPT ![c] = <<>>]
  /\ UNCHANGED pages

Next ==
  \/ \E kind \in PageKinds : Publish(kind)
  \/ \E c \in Clients : Join(c) \/ Receive(c) \/ Leave(c)

Spec == Init /\ [][Next]_vars
=============================================================================
