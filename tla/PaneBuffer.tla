----------------------------- MODULE PaneBuffer -----------------------------
(***************************************************************************)
(* The bounded tail of a pane's output (PaneBuffer, core/supervisor) and   *)
(* the byte cursor the app reads it with: delta_payload in the app's       *)
(* backend, applyDelta in its frontend.                                    *)
(*                                                                         *)
(* A byte is named by its offset in what the pane ever wrote, so a copy of *)
(* the stream is a sequence of consecutive numbers wherever it is kept.    *)
(* Leads holds the offsets that begin a UTF-8 character; every other byte  *)
(* is a continuation byte.                                                 *)
(***************************************************************************)
EXTENDS Integers, Sequences

CONSTANTS
  RetainCap,    \* RETAIN_CAP: what compaction cuts the tail back to
  Leads         \* offsets of the first bytes of characters

ASSUME BufferAssumption ==
  /\ RetainCap \in Nat /\ RetainCap >= 4
  /\ Leads \subseteq Nat /\ 0 \in Leads

IsCont(byte) == byte \notin Leads

\* The offset after the character that begins at lead.
CharEnd(lead) == CHOOSE e \in lead + 1 .. lead + 4 :
  /\ e \in Leads
  /\ \A x \in lead + 1 .. e - 1 : IsCont(x)

\* The bytes from lo up to, not including, hi.
Run(lo, hi) == [k \in 1 .. hi - lo |-> lo + k - 1]

EmptyBuffer == [base |-> 0, bytes |-> <<>>]

End(b) == b.base + Len(b.bytes)

\* Mutant: the cut may fall inside a character.
CutAnywhere(bytes) == Len(bytes) - RetainCap

\* How much push drains: down to the cap, then at most three bytes on, to the
\* beginning of a character.
Cut(bytes) ==
  LET over == Len(bytes) - RetainCap
      StopsAt(k) == k = 3 \/ over + k = Len(bytes) \/ ~IsCont(bytes[over + k + 1])
  IN  over + CHOOSE k \in 0 .. 3 : StopsAt(k) /\ \A j \in 0 .. k - 1 : ~StopsAt(j)

Push(b, chunk) ==
  LET bytes == b.bytes \o chunk
      cut   == IF Len(bytes) > RetainCap + RetainCap \div 2 THEN Cut(bytes) ELSE 0
  IN  [base |-> b.base + cut, bytes |-> SubSeq(bytes, cut + 1, Len(bytes))]

\* A cursor outside the retained window gets the whole window.
Delta(b, since) ==
  IF since \in b.base .. End(b)
    THEN [start |-> since, bytes |-> SubSeq(b.bytes, since - b.base + 1, Len(b.bytes))]
    ELSE [start |-> b.base, bytes |-> b.bytes]

-----------------------------------------------------------------------------
(* The cursor *)

\* incomplete_utf8_suffix_len: the last of the final four bytes that begins a
\* character, when that character is not all there.
HeldBack(bytes) ==
  LET n == Len(bytes)
      leads == {i \in 1 .. n : i > n - 4 /\ ~IsCont(bytes[i])}
  IN  IF leads = {} THEN 0
      ELSE LET i == CHOOSE i \in leads : \A j \in leads : j <= i
               have == n - i + 1
           IN  IF have < CharEnd(bytes[i]) - bytes[i] THEN have ELSE 0

DeltaPayload(since, d) ==
  LET cut == Len(d.bytes) - HeldBack(d.bytes)
  IN  [next |-> d.start + cut, data |-> SubSeq(d.bytes, 1, cut),
       truncated |-> d.start # since]

\* A terminal: its cursor and what it shows since the last reset.
EmptyTerminal == [consumed |-> 0, screen |-> <<>>]

ApplyDelta(term, payload) ==
  LET reset == payload.truncated /\ term.consumed > 0
  IN  [consumed |-> payload.next,
       screen |-> (IF reset THEN <<>> ELSE term.screen) \o payload.data]
=============================================================================
