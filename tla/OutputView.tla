----------------------------- MODULE OutputView -----------------------------
(***************************************************************************)
(* What a terminal promises of a pane's output, whatever carries it there: *)
(* it shows one unbroken stretch of what the pane wrote, in whole          *)
(* characters, and never goes back to an earlier end.                      *)
(***************************************************************************)
EXTENDS Integers, Sequences

CONSTANT Leads   \* offsets of the first bytes of characters

VARIABLES
  written,  \* how many bytes the pane wrote
  screen    \* the bytes on the terminal, each named by its offset

viewVars == <<written, screen>>

Stretch(lo, hi) == [k \in 1 .. hi - lo |-> lo + k - 1]

\* The offset after the last byte shown.
ShownEnd == IF screen = <<>> THEN 0 ELSE screen[Len(screen)] + 1

ViewInit == written = 0 /\ screen = <<>>

Write == written' > written /\ UNCHANGED screen

\* New output goes after what is shown.
Extend ==
  \E hi \in Leads :
    /\ ShownEnd < hi /\ hi <= written
    /\ screen # <<>>
    /\ screen' = screen \o Stretch(ShownEnd, hi)
    /\ UNCHANGED written

\* The terminal is cleared and shows a later stretch, or the same end again.
Repaint ==
  \E lo, hi \in Leads :
    /\ lo < hi /\ ShownEnd <= hi /\ hi <= written
    /\ screen' = Stretch(lo, hi)
    /\ UNCHANGED written

\* The window is reloaded: its terminal starts empty.
Blank == screen' = <<>> /\ UNCHANGED written

ViewNext == Write \/ Extend \/ Repaint \/ Blank

ViewSpec == ViewInit /\ [][ViewNext]_viewVars
=============================================================================
