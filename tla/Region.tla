------------------------------- MODULE Region -------------------------------
(***************************************************************************)
(* The part of a window that lists lines (common/reg.c, win_reg_t).        *)
(*                                                                         *)
(* A list has more lines than the screen shows: start is the first one     *)
(* shown, hl the highlighted one, NoLine until a key or a draw has chosen  *)
(* one.  The list is drawn anew with every sample and its length changes   *)
(* with it; the keys UP and DOWN move hl in between.  cap is the length of *)
(* the buffer behind the list, which reg.c does not know.                  *)
(***************************************************************************)
EXTENDS Integers

NoLine == -1

Least(a, b) == IF a < b THEN a ELSE b

\* The division of C, which drops the fraction: -1 / 2 is 0.
Quotient(a, b) == IF a < 0 THEN -((-a) \div b) ELSE a \div b

\* reg_init, reg_buf_init and reg_scroll_init.  No region is made of no lines.
NewRegion(height, cap) ==
  IF height <= 0 THEN {}
  ELSE {[height |-> height, cap |-> cap, total |-> 0, start |-> 0,
         hl |-> NoLine]}

-----------------------------------------------------------------------------
(* The keys.                                                               *)

Highlit(r) == IF r.hl = NoLine THEN 0 ELSE r.hl

\* The line below is not on the screen: the screen moves down by one.
NextHidden(r) == (Highlit(r) + 1 - r.start) % r.height = 0

ScrollUp(r) ==
  LET next == Highlit(r) - 1 IN
  IF next < 0 THEN r
  ELSE [r EXCEPT !.hl = next,
                 !.start = IF next < @ THEN @ - 1 ELSE @]

\* Fault: the highlight moves on to the line after the last.
ScrollDownPast(r) ==
  LET next == Highlit(r) + 1 IN
  IF next > r.total THEN r
  ELSE [r EXCEPT !.hl = next,
                 !.start = IF NextHidden(r) THEN @ + 1 ELSE @]
ScrollDown(r) ==
  LET next == Highlit(r) + 1 IN
  IF next >= r.total THEN r
  ELSE [r EXCEPT !.hl = next,
                 !.start = IF NextHidden(r) THEN @ + 1 ELSE @]

LineScroll(r, key) == IF key = "UP" THEN ScrollUp(r) ELSE ScrollDown(r)

\* reg_hidden_show: the lines of the screen that begins at start.
HiddenShown(r) == r.start .. (Least(r.start + r.height, r.total) - 1)

\* The lines that line_get is asked for by a key that leads from r to s:
\* the two whose highlight changes, and all of the screen if it moves.
LinesAsked(r, s) ==
  IF s = r THEN {}
  ELSE {Highlit(r), s.hl} \union
       (IF s.start # r.start THEN HiddenShown(s) ELSE {})

-----------------------------------------------------------------------------
(* The drawing.                                                            *)

\* The highlight moves up to the last line of a list that has become shorter.
\* Fault: it stays.
ClampedNot(r) == r.hl
Clamped(r) == IF r.hl >= r.total THEN r.total - 1 ELSE r.hl

\* page_start moves by whole screens until it shows the highlighted line.
StartOf(r) ==
  LET h == Clamped(r) IN
  IF h >= r.start THEN r.start + r.height * ((h - r.start) \div r.height)
  ELSE Quotient(h, r.height) * r.height

\* reg_scroll_show, asked to show n lines: as long as nothing is highlighted
\* it is the first line, and page_start is left alone.
ScrollShow(r, n) ==
  LET lines == Least(n, r.height)
      start == IF r.hl = NoLine THEN 0 ELSE StartOf(r)
      end == IF r.hl = NoLine THEN lines ELSE Least(start + lines, r.total)
      h == IF r.hl = NoLine THEN 0 ELSE Clamped(r)
  IN [r EXCEPT !.start = IF r.hl = NoLine THEN @ ELSE start,
               !.hl = IF start <= h /\ h < end THEN h ELSE @]

\* The highlighted line is a line of the list and it is on the screen.
LineInView(r) ==
  r.hl # NoLine /\ r.total > 0 =>
    /\ r.hl \in 0 .. r.total - 1
    /\ r.start <= r.hl /\ r.hl < r.start + r.height

=============================================================================
