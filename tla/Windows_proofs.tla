--------------------------- MODULE Windows_proofs ---------------------------
(***************************************************************************)
(* Proofs about Region and Windows, for every height of the screen, every  *)
(* length of a list and any number of pages.                               *)
(***************************************************************************)
EXTENDS Windows, SequenceTheorems, TLAPS

-----------------------------------------------------------------------------
(* The inductive invariant, of the state as a record.                      *)

Reg == [height : Nat, cap : Nat, total : Nat, start : Int, hl : Int]
Page == [cmd : Forward, who : {"all", "proc", "lwp"}, inited : BOOLEAN,
         dyn : {"unmade", "live", "none", "freed"}, reg : Reg, count : Counts]
State ==
  [pages : Seq(Page), cur : Nat, next : Nat, small : BOOLEAN,
   first : BOOLEAN, nnodes : NodeCounts,
   mail : {"none", "home", "ready", "fail"},
   task : {"none", "profiling", "ll", "pqos_cmt", "uncore"},
   status : {"none", "profiling", "ll", "pqos_cmt", "uncore"},
   counted : Counts \union {"all"}, missed : BOOLEAN,
   fault : [what : {"none", "write", "read", "freed", "null", "hung"},
            by : {"none", "draw", "key"}]]

\* The screen of a list begins at a line of it, or, one line high, anywhere;
\* before a line is highlighted it begins at the first.
Placed(r) ==
  /\ r.hl >= NoLine /\ r.start >= -1
  /\ r.start >= 0 \/ r.height = 1
  /\ r.hl = NoLine => r.start = 0
Scrolled(r) == Placed(r) /\ LineInView(r)

Listing(p) == p.dyn = "live" /\ p.cmd # "NODE_DETAIL"
Pqos == {"PQOS_CMT", "PQOS_MBM"}
Buffered == {"HOME", "IR_NORMALIZE", "LWP"} \union Pqos

\* What is true of a page whatever stops the program.
Sound(p) ==
  /\ Scrolled(p.reg)
  /\ p.inited <=> p.dyn = "live"
  /\ Listing(p) => p.reg.height >= 1
  /\ Listing(p) /\ p.cmd \in Buffered => p.reg.cap = Many
  /\ p.cmd \in Pqos => p.reg.total <= 1 /\ p.reg.hl <= 0 /\ p.reg.start = 0
  /\ p.dyn = "unmade" => p.count = Rma

\* The lines of a list, and the one highlighted, are in its buffer; but for the
\* list of a buffer's pages, where the highlight outlives the lines.
Held(p) ==
  /\ p.reg.total <= p.reg.cap
  /\ p.cmd # "LATNODE" => p.reg.hl < p.reg.cap \/ p.reg.hl = NoLine

\* What has stopped the program is one of the faults that are known.
Excused(u) ==
  /\ u.fault.what = "write" => WinType(u.pages[Len(u.pages)])
                               \in {"MONIPROC", "MONILWP", "NODE_OVERVIEW", "ACCDST"}
  /\ u.fault.what = "read" => WinType(u.pages[Len(u.pages)]) = "LATNODE"
  /\ u.fault.what \in {"freed", "null"} => u.fault.by = "key"

\* The page list as such: home is the first page.
Core(u) ==
  /\ u \in State
  /\ \A i \in 1..Len(u.pages) : Sound(u.pages[i])
  /\ Len(u.pages) > 0 => u.pages[1].cmd = "HOME"
  /\ Excused(u)
  /\ u.fault = NoFault => \A i \in 1..Len(u.pages) : Held(u.pages[i])

\* What a list of pages shows on the screen.
Wanted(ps) == IF Len(ps) > 0 /\ ps[Len(ps)].cmd = "CALLCHAIN"
              THEN ps[Len(ps)].count ELSE "all"

\* Only the last page can be a call-chain page; and its event is counted.
Events(u) ==
  u.fault = NoFault /\ ~u.missed =>
    /\ \A i \in 1..Len(u.pages) : i < Len(u.pages) => u.pages[i].cmd # "CALLCHAIN"
    /\ u.counted = Wanted(u.pages)

Good(u) ==
  /\ Core(u) /\ Events(u)
  /\ u.fault = NoFault => u.cur = Len(u.pages) /\ u.next \in {0, u.cur}

IInv == Good(Now)

-----------------------------------------------------------------------------
(* The arithmetic of a list (reg.c).                                       *)

\* Division and remainder, for a divisor that is a variable.
LEMMA DivMod ==
  ASSUME NEW a \in Int, NEW h \in Nat \ {0}
  PROVE  /\ a \div h \in Int /\ a % h \in Int
         /\ a = h * (a \div h) + (a % h)
         /\ 0 <= a % h /\ a % h < h
OBVIOUS

\* One above a multiple of h is as far as h goes.
LEMMA OneScreen ==
  ASSUME NEW a \in Int, NEW h \in Nat \ {0}, 1 <= a, a <= h
  PROVE  a % h = 0 <=> a = h
<1>1. CASE a = h
  OBVIOUS
<1>2. CASE a < h
  <2>1. a % h = a
    BY <1>2
  <2>2. QED
    BY <1>2, <2>1
<1>3. QED
  BY <1>1, <1>2

\* The start of the screen that has line h, counted from start in screens.
LEMMA ScreenOf ==
  ASSUME NEW a \in Nat, NEW h \in Nat \ {0}
  PROVE  /\ h * (a \div h) \in Int /\ (a \div h) * h = h * (a \div h)
         /\ 0 <= h * (a \div h)
         /\ h * (a \div h) <= a /\ a < h * (a \div h) + h
<1>1. a \div h \in Int /\ a % h \in Int /\ a = h * (a \div h) + (a % h)
      /\ 0 <= a % h /\ a % h < h
  BY DivMod
<1>2. a \div h >= 0
  OBVIOUS
<1>3. h * (a \div h) \in Int /\ (a \div h) * h = h * (a \div h)
  BY <1>1
<1>4. h * (a \div h) >= 0
  BY <1>1, <1>2
<1>5. QED
  BY <1>1, <1>3, <1>4

\* A key keeps the highlighted line on the screen.
LEMMA UpKept ==
  ASSUME NEW r \in Reg, Scrolled(r), r.height >= 1,
         NEW s, s = ScrollUp(r)
  PROVE  /\ s \in Reg /\ Scrolled(s)
         /\ s.height = r.height /\ s.cap = r.cap /\ s.total = r.total
         /\ s # r => /\ r.hl # NoLine /\ s.hl = r.hl - 1 /\ s.hl >= 0
                     /\ s.start = r.start \/ s.start >= 0
<1>0. /\ r.hl \in Int /\ r.start \in Int /\ r.total \in Nat /\ r.height \in Nat
      /\ r.hl >= -1
  BY DEF Reg, Scrolled, Placed, NoLine
<1>1. CASE Highlit(r) - 1 < 0
  BY <1>1 DEF ScrollUp
<1>2. CASE ~(Highlit(r) - 1 < 0)
  <2>1. r.hl # NoLine /\ r.hl - 1 >= 0 /\ Highlit(r) = r.hl
    BY <1>0, <1>2 DEF Highlit, NoLine
  <2>2. s = [r EXCEPT !.hl = r.hl - 1,
                      !.start = IF r.hl - 1 < r.start THEN r.start - 1 ELSE r.start]
    BY <1>2, <2>1 DEF ScrollUp
  <2>3. PICK start \in Int :
          start = IF r.hl - 1 < r.start THEN r.start - 1 ELSE r.start
    BY <1>0
  <2>4. s = [r EXCEPT !.hl = r.hl - 1, !.start = start]
    BY <2>2, <2>3
  <2>5. /\ s \in Reg /\ s.hl = r.hl - 1 /\ s.start = start
        /\ s.height = r.height /\ s.cap = r.cap /\ s.total = r.total
    <3>1. r.hl - 1 \in Int
      BY <1>0
    <3>2. QED
      BY <2>4, <3>1 DEF Reg
  <2>6. r.total > 0 => r.hl \in 0..r.total - 1 /\ r.start <= r.hl
                       /\ r.hl < r.start + r.height
    BY <2>1 DEF Scrolled, LineInView
  <2>7. start = r.start \/ (start = r.start - 1 /\ r.hl - 1 < r.start /\ start >= 0)
    BY <1>0, <2>1, <2>3
  <2>8. (r.start >= 0 \/ r.height = 1) /\ r.start >= -1
    BY DEF Scrolled, Placed
  <2>9. s.hl >= 0 /\ s.start >= -1 /\ (s.start >= 0 \/ s.height = 1)
    BY <1>0, <2>1, <2>5, <2>7, <2>8
  <2>10. LineInView(s)
    BY <1>0, <2>1, <2>3, <2>5, <2>6 DEF LineInView
  <2>11. Scrolled(s)
    BY <1>0, <2>5, <2>9, <2>10 DEF Scrolled, Placed, NoLine
  <2>12. s.start = r.start \/ s.start >= 0
    BY <2>5, <2>7
  <2>13. QED
    BY <2>1, <2>5, <2>9, <2>11, <2>12
<1>3. QED
  BY <1>1, <1>2

LEMMA DownKept ==
  ASSUME NEW r \in Reg, Scrolled(r), r.height >= 1,
         NEW s, s = ScrollDown(r)
  PROVE  /\ s \in Reg /\ Scrolled(s)
         /\ s.height = r.height /\ s.cap = r.cap /\ s.total = r.total
         /\ s # r => /\ s.hl = Highlit(r) + 1 /\ s.hl < r.total
                     /\ s.start = r.start \/ s.start >= 0
<1>0. /\ r.hl \in Int /\ r.start \in Int /\ r.total \in Nat /\ r.height \in Nat
      /\ r.hl >= -1 /\ Highlit(r) \in Nat
  BY DEF Reg, Scrolled, Placed, NoLine, Highlit
<1>1. CASE Highlit(r) + 1 >= r.total
  BY <1>1 DEF ScrollDown
<1>2. CASE ~(Highlit(r) + 1 >= r.total)
  <2> DEFINE h == Highlit(r)
  <2>1. PICK hl \in Int : hl = h + 1
    BY <1>0
  <2>2. PICK start \in Int :
          start = IF NextHidden(r) THEN r.start + 1 ELSE r.start
    BY <1>0
  <2>3. s = [r EXCEPT !.hl = hl, !.start = start]
    BY <1>2, <2>1, <2>2 DEF ScrollDown
  <2>4. /\ s \in Reg /\ s.hl = hl /\ s.start = start
        /\ s.height = r.height /\ s.cap = r.cap /\ s.total = r.total
    BY <2>3 DEF Reg
  <2>5. r.start <= h /\ h < r.start + r.height
    BY <1>0, <1>2 DEF Scrolled, Placed, LineInView, Highlit, NoLine
  <2>6. NextHidden(r) <=> h + 1 - r.start = r.height
    BY <1>0, <2>5, OneScreen DEF NextHidden
  <2>7. /\ start = r.start \/ start = r.start + 1
        /\ start <= hl /\ hl < start + r.height
    BY <1>0, <2>1, <2>2, <2>5, <2>6
  <2>8. (r.start >= 0 \/ r.height = 1) /\ r.start >= -1
    BY DEF Scrolled, Placed
  <2>9. s.hl >= 0 /\ s.hl < r.total /\ s.start >= -1
        /\ (s.start >= 0 \/ s.height = 1)
    BY <1>0, <1>2, <2>1, <2>4, <2>7, <2>8
  <2>10. LineInView(s)
    BY <1>0, <2>4, <2>7, <2>9 DEF LineInView
  <2>11. Scrolled(s)
    BY <1>0, <2>4, <2>9, <2>10 DEF Scrolled, Placed, NoLine
  <2>12. s.start = r.start \/ s.start >= 0
    BY <1>0, <2>4, <2>7, <2>8
  <2>13. QED
    BY <2>1, <2>4, <2>9, <2>11, <2>12
<1>3. QED
  BY <1>1, <1>2

\* A draw puts the highlighted line on the screen, wherever it was and however
\* long the list is now.
LEMMA ShowKept ==
  ASSUME NEW r \in Reg, Placed(r), r.height >= 1,
         NEW n \in Nat, r.total = n,
         NEW s, s = ScrollShow(r, n)
  PROVE  /\ s \in Reg /\ Scrolled(s)
         /\ s.height = r.height /\ s.cap = r.cap /\ s.total = n
         /\ n > 0 => s.hl \in 0..n - 1
         /\ n = 0 => s.hl = r.hl
         /\ n = 1 /\ r.hl <= 0 /\ r.start = 0 => s.start = 0
<1>0. /\ r.hl \in Int /\ r.start \in Int /\ r.height \in Nat \ {0}
      /\ r.cap \in Nat /\ r.hl >= -1 /\ r.start >= -1
      /\ r.start >= 0 \/ r.height = 1
      /\ r.hl = -1 => r.start = 0
  BY DEF Reg, Placed, NoLine
<1>1. PICK lines \in Nat : lines = Least(n, r.height)
  BY <1>0 DEF Least
<1>2. /\ lines <= n /\ lines <= r.height /\ (lines = n \/ lines = r.height)
  BY <1>0, <1>1 DEF Least
<1>3. CASE r.hl = NoLine
  <2>1. PICK hl \in Int : hl = IF 0 < lines THEN 0 ELSE -1
    OBVIOUS
  <2>2. s = [r EXCEPT !.start = r.start, !.hl = hl]
    BY <1>1, <1>3, <2>1 DEF ScrollShow, NoLine
  <2>3. /\ s \in Reg /\ s.hl = hl /\ s.start = r.start
        /\ s.height = r.height /\ s.cap = r.cap /\ s.total = n
    BY <2>2 DEF Reg
  <2>4. r.start = 0
    BY <1>0, <1>3 DEF NoLine
  <2>5. n > 0 <=> 0 < lines
    BY <1>0, <1>2
  <2>6. LineInView(s)
    BY <1>0, <2>1, <2>3, <2>4, <2>5 DEF LineInView, NoLine
  <2>7. Scrolled(s)
    BY <1>0, <2>1, <2>3, <2>4, <2>6 DEF Scrolled, Placed, NoLine
  <2>8. QED
    BY <1>0, <1>3, <2>1, <2>3, <2>4, <2>5, <2>7 DEF NoLine
<1>4. CASE r.hl # NoLine
  <2>0. r.hl \in Nat
    BY <1>0, <1>4 DEF NoLine
  <2>1. PICK h \in Int : h = Clamped(r)
    BY <1>0 DEF Clamped
  <2>2. h >= -1 /\ h < n /\ h <= r.hl /\ (n > 0 => h >= 0) /\ (n = 0 => h = -1)
    BY <1>0, <2>0, <2>1 DEF Clamped
  <2>3. StartOf(r) \in Int
        /\ (h >= 0 => StartOf(r) <= h /\ h < StartOf(r) + r.height)
        /\ (h >= 0 => StartOf(r) >= 0 \/ r.height = 1)
        /\ (h = 0 /\ r.start = 0 => StartOf(r) = 0)
        /\ StartOf(r) >= -1
        /\ (h = -1 => StartOf(r) \in {-1, 0} /\ (StartOf(r) = -1 => r.height = 1))
    <3>1. CASE h >= r.start
      <4>1. PICK d \in Nat : d = h - r.start
        BY <1>0, <3>1
      <4>2. StartOf(r) = r.start + r.height * (d \div r.height)
        BY <2>1, <3>1, <4>1 DEF StartOf
      <4>3. PICK k \in Int : k = r.height * (d \div r.height)
        BY <1>0, ScreenOf
      <4>4. 0 <= k /\ k <= d /\ d < k + r.height
        BY <1>0, <4>3, ScreenOf
      <4>5. StartOf(r) = r.start + k
        BY <4>2, <4>3
      <4>6. StartOf(r) \in Int /\ StartOf(r) >= r.start
            /\ StartOf(r) <= h /\ h < StartOf(r) + r.height
        BY <1>0, <4>1, <4>4, <4>5
      <4>7. h = -1 => StartOf(r) = -1 /\ r.height = 1
        BY <1>0, <3>1, <4>6
      <4>8. QED
        BY <1>0, <2>2, <4>6, <4>7
    <3>2. CASE ~(h >= r.start) /\ h >= 0
      <4>1. StartOf(r) = (h \div r.height) * r.height
        BY <2>1, <3>2 DEF StartOf, Quotient
      <4>2. h \in Nat
        BY <3>2
      <4>3. /\ StartOf(r) \in Int /\ 0 <= StartOf(r)
            /\ StartOf(r) <= h /\ h < StartOf(r) + r.height
        BY <1>0, <4>1, <4>2, ScreenOf
      <4>4. QED
        BY <1>0, <3>2, <4>2, <4>3
    <3>3. CASE ~(h >= r.start) /\ h = -1
      <4>1. StartOf(r) = (-(1 \div r.height)) * r.height
        BY <2>1, <3>3 DEF StartOf, Quotient
      <4>2. CASE r.height = 1
        <5>1. StartOf(r) = -1
          BY <4>1, <4>2
        <5>2. QED
          BY <4>2, <5>1, <3>3
      <4>3. CASE r.height > 1
        <5>1. 1 \div r.height = 0
          BY <1>0, <4>3
        <5>2. StartOf(r) = 0
          BY <1>0, <4>1, <5>1
        <5>3. QED
          BY <5>2, <3>3
      <4>4. QED
        BY <1>0, <4>2, <4>3
    <3>4. QED
      BY <1>0, <2>2, <3>1, <3>2, <3>3
  <2>4. PICK start \in Int : start = StartOf(r)
    BY <2>3
  <2>5. PICK end \in Int : end = Least(start + lines, n)
    BY DEF Least
  <2>6. n > 0 => start <= h /\ h < end
    BY <1>0, <1>2, <2>2, <2>3, <2>4, <2>5 DEF Least
  <2>7. n = 0 => ~(start <= h /\ h < end)
    BY <1>0, <1>2, <2>2, <2>3, <2>4, <2>5 DEF Least
  <2>8. PICK hl \in Int : hl = IF start <= h /\ h < end THEN h ELSE r.hl
    BY <1>0
  <2>9. s = [r EXCEPT !.start = start, !.hl = hl]
    BY <1>1, <1>4, <2>1, <2>4, <2>5, <2>8 DEF ScrollShow
  <2>10. /\ s \in Reg /\ s.hl = hl /\ s.start = start
         /\ s.height = r.height /\ s.cap = r.cap /\ s.total = n
    BY <2>9 DEF Reg
  <2>11. (n > 0 => hl = h) /\ (n = 0 => hl = r.hl)
    BY <2>6, <2>7, <2>8
  <2>12. LineInView(s)
    BY <1>0, <2>2, <2>3, <2>4, <2>10, <2>11 DEF LineInView
  <2>13. Scrolled(s)
    BY <1>0, <2>0, <2>2, <2>3, <2>4, <2>10, <2>11, <2>12
       DEF Scrolled, Placed, NoLine
  <2>14. n = 1 /\ r.hl <= 0 /\ r.start = 0 => start = 0
    BY <1>0, <2>0, <2>2, <2>3, <2>4
  <2>15. QED
    BY <2>2, <2>10, <2>11, <2>13, <2>14
<1>5. QED
  BY <1>3, <1>4

\* A key looks at lines of the buffer only, if the list and the highlight are
\* in it.
LEMMA KeyInBuffer ==
  ASSUME NEW r \in Reg, Scrolled(r), r.height >= 1,
         NEW key, NEW s, s = LineScroll(r, key)
  PROVE  /\ s \in Reg /\ Scrolled(s)
         /\ s.height = r.height /\ s.cap = r.cap /\ s.total = r.total
         /\ r.total <= 1 /\ r.hl <= 0 => s = r
         /\ r.total <= r.cap /\ (r.hl < r.cap \/ r.hl = NoLine) =>
              /\ LinesAsked(r, s) \subseteq 0 .. r.cap - 1
              /\ s.hl < r.cap \/ s.hl = NoLine
<1>0. /\ r.hl \in Int /\ r.start \in Int /\ r.total \in Nat /\ r.height \in Nat
      /\ r.cap \in Nat /\ r.hl >= -1 /\ Highlit(r) \in Nat
      /\ Highlit(r) = r.hl \/ (Highlit(r) = 0 /\ r.hl = -1)
  BY DEF Reg, Scrolled, Placed, NoLine, Highlit
<1>1. /\ s \in Reg /\ Scrolled(s)
      /\ s.height = r.height /\ s.cap = r.cap /\ s.total = r.total
      /\ s # r => \/ /\ r.hl # NoLine /\ s.hl = r.hl - 1 /\ s.hl >= 0
                     /\ s.start = r.start \/ s.start >= 0
                  \/ /\ s.hl = Highlit(r) + 1 /\ s.hl < r.total
                     /\ s.start = r.start \/ s.start >= 0
  <2>1. CASE s = ScrollUp(r)
    BY <2>1, UpKept
  <2>2. CASE s = ScrollDown(r)
    BY <2>2, DownKept
  <2>3. QED
    BY <2>1, <2>2 DEF LineScroll
<1>2. s.hl \in Int /\ s.start \in Int
  BY <1>1 DEF Reg
<1>3. r.total <= 1 /\ r.hl <= 0 => s = r
  BY <1>0, <1>1, <1>2
<1>4. ASSUME r.total <= r.cap, r.hl < r.cap \/ r.hl = NoLine, s # r
      PROVE  /\ LinesAsked(r, s) \subseteq 0 .. r.cap - 1
             /\ s.hl < r.cap
  <2>1. Highlit(r) \in 0..r.cap - 1 /\ s.hl \in 0..r.cap - 1
    BY <1>0, <1>1, <1>2, <1>4 DEF NoLine
  <2>2. s.start # r.start => HiddenShown(s) \subseteq 0..r.cap - 1
    <3>1. SUFFICES ASSUME s.start >= 0, NEW x \in HiddenShown(s)
                   PROVE  x \in 0..r.cap - 1
      BY <1>1, <1>4
    <3>2. PICK e \in Int : e = Least(s.start + s.height, s.total)
      BY <1>0, <1>1, <1>2 DEF Least
    <3>3. e <= s.total
      BY <1>0, <1>1, <1>2, <3>2 DEF Least
    <3>4. x \in s.start..e - 1
      BY <3>1, <3>2 DEF HiddenShown
    <3>5. QED
      BY <1>0, <1>1, <1>2, <1>4, <3>1, <3>3, <3>4
  <2>3. QED
    BY <1>0, <2>1, <2>2, <1>4 DEF LinesAsked
<1>5. QED
  BY <1>1, <1>3, <1>4 DEF LinesAsked

-----------------------------------------------------------------------------
(* Changes of a state.                                                     *)

\* Nothing changes that the pages depend on.
Same(u, v) ==
  /\ v \in State
  /\ v.pages = u.pages /\ v.cur = u.cur /\ v.next = u.next
  /\ v.counted = u.counted /\ v.missed = u.missed /\ v.fault = u.fault

LEMMA SameKept ==
  ASSUME NEW u, NEW v, Core(u), Same(u, v)
  PROVE  Core(v) /\ (Events(u) => Events(v)) /\ (Good(u) => Good(v))
<1>1. Core(v)
  BY DEF Core, Same, Excused
<1>2. Events(u) => Events(v)
  BY DEF Events, Same
<1>3. QED
  BY <1>1, <1>2 DEF Good, Same

LEMMA TaskSetSame ==
  ASSUME NEW u \in State, NEW v \in TaskSet(u)
  PROVE  Same(u, v)
<1>1. CASE v = [u EXCEPT !.task = "none"]
  BY <1>1 DEF State, Same
<1>2. ASSUME NEW a \in Answers(u, u.task), u.task # "none",
             v = [u EXCEPT !.task = "none", !.mail = a]
      PROVE  Same(u, v)
  <2>1. a \in {"none", "ready", "fail"}
    <3>1. u.task \in {"profiling", "ll", "pqos_cmt", "uncore"}
      BY <1>2 DEF State
    <3>2. QED
      BY <1>2, <3>1 DEF Answers
  <2>2. QED
    BY <1>2, <2>1 DEF State, Same
<1>3. QED
  BY <1>1, <1>2 DEF TaskSet

LEMMA AskSame ==
  ASSUME NEW u \in State, NEW t \in {"profiling", "ll", "pqos_cmt", "uncore"},
         NEW w \in Ask(u, t)
  PROVE  Same(u, w)
<1>1. PICK v \in TaskSet(u) : w = [v EXCEPT !.task = t]
  BY DEF Ask
<1>2. Same(u, v)
  BY TaskSetSame
<1>3. QED
  BY <1>1, <1>2 DEF Same, State

LEMMA SmplSame ==
  ASSUME NEW u \in State, NEW p \in Page, NEW v \in PageSmplStart(u, p)
  PROVE  Same(u, v)
<1>1. CASE p.cmd \in {"HOME", "IR_NORMALIZE", "MONITOR", "LWP",
                      "NODE_OVERVIEW", "CALLCHAIN"}
  BY <1>1, AskSame DEF PageSmplStart
<1>2. CASE p.cmd = "NODE_DETAIL"
  BY <1>2, AskSame DEF PageSmplStart
<1>3. CASE p.cmd \in {"LAT", "LLCALLCHAIN", "LATNODE", "ACCDST"}
  BY <1>3, AskSame DEF PageSmplStart
<1>4. CASE p.cmd = "PQOS_CMT"
  BY <1>4, AskSame, TaskSetSame DEF PageSmplStart
<1>5. CASE p.cmd = "PQOS_MBM"
  BY <1>5, AskSame DEF PageSmplStart
<1>6. QED
  BY <1>1, <1>2, <1>3, <1>4, <1>5 DEF Page, Forward

-----------------------------------------------------------------------------
(* Drawing.                                                                *)

\* Only lists change.
Kin(u, v) ==
  /\ v \in State /\ u \in State
  /\ v.cur = u.cur /\ v.next = u.next
  /\ v.counted = u.counted /\ v.missed = u.missed
  /\ Len(v.pages) = Len(u.pages)
  /\ \A i \in 1..Len(u.pages) :
       /\ v.pages[i].cmd = u.pages[i].cmd /\ v.pages[i].dyn = u.pages[i].dyn
       /\ v.pages[i].count = u.pages[i].count
       /\ v.pages[i].inited = u.pages[i].inited

LEMMA KinEvents ==
  ASSUME NEW u, NEW v, Kin(u, v), u.fault = NoFault, Events(u)
  PROVE  Events(v)
<1>1. u.pages \in Seq(Page) /\ v.pages \in Seq(Page) /\ Len(u.pages) \in Nat
  BY DEF Kin, State
<1>2. Wanted(v.pages) = Wanted(u.pages)
  BY <1>1 DEF Wanted, Kin
<1>3. QED
  BY <1>1, <1>2 DEF Events, Kin

LEMMA KinOfSame ==
  ASSUME NEW u \in State, NEW v, Same(u, v)
  PROVE  Kin(u, v)
BY DEF Same, Kin

\* One page has another region.
LEMMA WithRegion ==
  ASSUME NEW u \in State, NEW k \in 1..Len(u.pages), NEW s \in Reg,
         NEW v, v = [u EXCEPT !.pages[k].reg = s]
  PROVE  /\ Kin(u, v) /\ v.fault = u.fault
         /\ v.pages[k].reg = s
         /\ \A i \in 1..Len(u.pages) : i # k => v.pages[i] = u.pages[i]
<1> DEFINE q == [u.pages[k] EXCEPT !.reg = s]
<1>1. u.pages \in Seq(Page) /\ u.pages[k] \in Page
  BY ElementOfSeq DEF State
<1>2. /\ q \in Page /\ q.reg = s /\ q.cmd = u.pages[k].cmd
      /\ q.dyn = u.pages[k].dyn /\ q.count = u.pages[k].count
      /\ q.inited = u.pages[k].inited
  BY <1>1 DEF Page
<1> HIDE DEF q
<1>3. PICK ps : ps = [u.pages EXCEPT ![k] = q]
  OBVIOUS
<1>4. /\ ps \in Seq(Page) /\ Len(ps) = Len(u.pages) /\ ps[k] = q
      /\ \A i \in 1..Len(u.pages) : i # k => ps[i] = u.pages[i]
  BY <1>1, <1>2, <1>3, ExceptSeq
<1>5. v = [u EXCEPT !.pages = ps]
  BY <1>3 DEF q
<1>6. /\ v \in State /\ v.pages = ps /\ v.cur = u.cur /\ v.next = u.next
      /\ v.counted = u.counted /\ v.missed = u.missed /\ v.fault = u.fault
  BY <1>4, <1>5 DEF State
<1>7. QED
  BY <1>2, <1>4, <1>6 DEF Kin

\* What a draw starts from.
Drawn(u) ==
  /\ Core(u) /\ u.fault = NoFault
  /\ u.next = Len(u.pages) /\ u.next >= 1

NodeLists == {"MONITOR", "NODE_OVERVIEW", "ACCDST"}

\* A program that has stopped is done with.
LEMMA Stopped ==
  ASSUME NEW u, Core(u), NEW v,
         NEW what \in {"hung", "freed", "null"}, NEW by \in {"draw", "key"},
         what \in {"freed", "null"} => by = "key",
         v = Fails(u, what, by)
  PROVE  Core(v) /\ Kin(u, v) /\ v.fault # NoFault /\ Events(v)
<1>1. /\ v \in State /\ v.pages = u.pages /\ v.cur = u.cur /\ v.next = u.next
      /\ v.counted = u.counted /\ v.missed = u.missed
      /\ v.fault = [what |-> what, by |-> by]
  BY DEF Core, Fails, State
<1>2. v.fault # NoFault
  <2>1. v.fault.what # NoFault.what
    BY <1>1 DEF NoFault
  <2>2. QED
    BY <2>1
<1>3. v.fault.what = what /\ v.fault.by = by
  BY <1>1
<1>4. Excused(v)
  BY <1>3 DEF Excused
<1>5. Core(v)
  BY <1>1, <1>2, <1>4 DEF Core
<1>6. Kin(u, v)
  BY <1>1 DEF Kin, Core
<1>7. QED
  BY <1>2, <1>5, <1>6 DEF Events

LEMMA GoHomeKept ==
  ASSUME NEW u, Core(u), NEW v \in DispGoHome(u)
  PROVE  Core(v) /\ Kin(u, v) /\ (Events(u) => Events(v))
<1>1. CASE v = Fails(u, "hung", "draw")
  BY <1>1, Stopped
<1>2. CASE v = [u EXCEPT !.mail = "home"]
  <2>1. Same(u, v)
    BY <1>2 DEF Core, State, Same
  <2>2. QED
    BY <2>1, SameKept, KinOfSame DEF Core
<1>3. QED
  BY <1>1, <1>2 DEF DispGoHome

LEMMA ListKept ==
  ASSUME NEW u, Drawn(u), NEW p, p = u.pages[u.next], Listing(p),
         NEW r \in Reg, r.height = p.reg.height, r.hl = p.reg.hl,
         r.start = p.reg.start, NEW n \in Nat,
         n <= r.cap \/ p.cmd \in NodeLists,
         n = 0 => p.cmd = "LATNODE" \/ r.cap = p.reg.cap,
         p.cmd \in Buffered => r.cap = Many,
         p.cmd \in Pqos => n = 1,
         NEW w, w = List(u, r, n)
  PROVE  Core(w) /\ Kin(u, w)
<1>1. /\ u \in State /\ u.pages \in Seq(Page) /\ u.next \in 1..Len(u.pages)
      /\ Len(u.pages) \in Nat /\ p \in Page /\ Sound(p) /\ Held(p)
  BY ElementOfSeq DEF Drawn, Core, State
<1>2. p.reg \in Reg /\ Placed(p.reg) /\ p.reg.height >= 1
  BY <1>1 DEF Sound, Scrolled, Page
<1>3. PICK r0 : r0 = [r EXCEPT !.total = n]
  OBVIOUS
<1>4. /\ r0 \in Reg /\ Placed(r0) /\ r0.height = r.height /\ r0.height >= 1
      /\ r0.total = n /\ r0.cap = r.cap /\ r0.hl = r.hl /\ r0.start = r.start
  BY <1>2, <1>3 DEF Reg, Placed
<1>5. PICK s : s = ScrollShow(r0, n)
  OBVIOUS
<1>6. /\ s \in Reg /\ Scrolled(s)
      /\ s.height = r0.height /\ s.cap = r0.cap /\ s.total = n
      /\ n > 0 => s.hl \in 0..n - 1
      /\ n = 0 => s.hl = r0.hl
      /\ n = 1 /\ r0.hl <= 0 /\ r0.start = 0 => s.start = 0
  BY <1>4, <1>5, ShowKept
<1>7. PICK v : v = [u EXCEPT !.pages[u.next].reg = s]
  OBVIOUS
<1>8. /\ Kin(u, v) /\ v.fault = u.fault /\ v.pages[u.next].reg = s
      /\ \A i \in 1..Len(u.pages) : i # u.next => v.pages[i] = u.pages[i]
  BY <1>1, <1>6, <1>7, WithRegion
<1> DEFINE q == v.pages[u.next]
<1>9. /\ q.cmd = p.cmd /\ q.dyn = p.dyn /\ q.count = p.count
      /\ q.inited = p.inited /\ q.reg = s
      /\ v \in State /\ Len(v.pages) = Len(u.pages) /\ v.pages \in Seq(Page)
  BY <1>1, <1>8 DEF Kin, State
<1> HIDE DEF q
<1>10. Sound(q)
  <2>1. Scrolled(q.reg) /\ (q.inited <=> q.dyn = "live")
    BY <1>1, <1>6, <1>9 DEF Sound
  <2>2. q.reg.height >= 1
    BY <1>4, <1>6, <1>9
  <2>3. q.cmd \in Buffered => q.reg.cap = Many
    BY <1>4, <1>6, <1>9
  <2>4. q.cmd \in Pqos => q.reg.total <= 1 /\ q.reg.hl <= 0 /\ q.reg.start = 0
    <3>1. SUFFICES ASSUME p.cmd \in Pqos
                   PROVE  s.total <= 1 /\ s.hl <= 0 /\ s.start = 0
      BY <1>9
    <3>2. n = 1 /\ r0.hl <= 0 /\ r0.start = 0
      BY <1>1, <1>4, <3>1 DEF Sound
    <3>3. s.hl \in 0..0
      BY <1>6, <3>2
    <3>4. QED
      BY <1>6, <3>2, <3>3
  <2>5. q.dyn = "unmade" => q.count = Rma
    BY <1>1, <1>9 DEF Sound
  <2>6. QED
    BY <2>1, <2>2, <2>3, <2>4, <2>5 DEF Sound
<1>11. n <= r.cap => Held(q)
  <2>1. SUFFICES ASSUME n <= r.cap PROVE Held(q)
    OBVIOUS
  <2>2. s.cap = r.cap /\ r.cap \in Nat /\ s.total = n
    BY <1>4, <1>6 DEF Reg
  <2>3. CASE n > 0
    BY <1>6, <1>9, <2>1, <2>2, <2>3 DEF Held
  <2>4. CASE n = 0
    BY <1>1, <1>4, <1>6, <1>9, <2>1, <2>2, <2>4 DEF Held
  <2>5. QED
    BY <2>3, <2>4
<1>12. \A i \in 1..Len(v.pages) : Sound(v.pages[i])
  BY <1>8, <1>9, <1>10 DEF q, Drawn, Core
<1>13. Len(v.pages) > 0 => v.pages[1].cmd = "HOME"
  BY <1>1, <1>8, <1>9 DEF Kin, Drawn, Core
<1>14. CASE n <= r.cap
  <2>1. w = v
    BY <1>3, <1>4, <1>5, <1>7, <1>14 DEF List, Reg
  <2>2. \A i \in 1..Len(v.pages) : Held(v.pages[i])
    BY <1>8, <1>9, <1>11, <1>14 DEF q, Drawn, Core
  <2>3. Excused(v)
    BY <1>8 DEF Excused, Drawn, NoFault
  <2>4. Core(v)
    BY <1>9, <1>12, <1>13, <2>2, <2>3 DEF Core
  <2>5. QED
    BY <1>8, <2>1, <2>4
<1>15. CASE n > r.cap
  <2>1. w = Fails(v, "write", "draw")
    BY <1>3, <1>5, <1>7, <1>15 DEF List
  <2>2. /\ w \in State /\ w.pages = v.pages /\ w.cur = v.cur /\ w.next = v.next
        /\ w.counted = v.counted /\ w.missed = v.missed
        /\ w.fault = [what |-> "write", by |-> "draw"]
    BY <1>9, <2>1 DEF Fails, State
  <2>3. w.fault.what = "write" /\ w.fault # NoFault
    <3>1. w.fault.what # NoFault.what
      BY <2>2 DEF NoFault
    <3>2. QED
      BY <2>2, <3>1
  <2>4. WinType(w.pages[Len(w.pages)])
          \in {"MONIPROC", "MONILWP", "NODE_OVERVIEW", "ACCDST"}
    <3>1. w.pages[Len(w.pages)] = q
      BY <1>9, <2>2 DEF q, Drawn
    <3>2. q.cmd \in NodeLists /\ q.dyn = "live"
      BY <1>9, <1>15, <1>4 DEF Listing, Reg
    <3>3. QED
      BY <3>1, <3>2 DEF WinType, NodeLists
  <2>5. Core(w)
    BY <1>9, <1>12, <1>13, <2>2, <2>3, <2>4 DEF Core, Excused
  <2>6. Kin(u, w)
    BY <1>8, <2>2 DEF Kin
  <2>7. QED
    BY <2>5, <2>6
<1>16. QED
  BY <1>4, <1>14, <1>15 DEF Reg

\* A list that is drawn into the buffer that is there, or into one made for it.
LEMMA InPlaceKept ==
  ASSUME NEW u, Drawn(u), NEW p, p = u.pages[u.next], Listing(p), NEW n \in Nat,
         p.cmd \in NodeLists \/ (p.cmd \in Buffered /\ n <= Many),
         p.cmd \in Pqos => n = 1,
         NEW w, w = InPlace(u, n)
  PROVE  Core(w) /\ Kin(u, w)
<1>1. p \in Page /\ Sound(p)
  BY ElementOfSeq DEF Drawn, Core, State
<1>2. PICK r : r = p.reg
  OBVIOUS
<1>3. r \in Reg /\ (p.cmd \in Buffered => r.cap = Many)
  BY <1>1, <1>2 DEF Page, Sound
<1>4. w = List(u, r, n)
  BY <1>2 DEF InPlace
<1>5. QED
  BY <1>2, <1>3, <1>4, ListKept

LEMMA InNewKept ==
  ASSUME NEW u, Drawn(u), NEW p, p = u.pages[u.next], Listing(p), NEW n \in Nat,
         n > 0 \/ p.cmd = "LATNODE", NEW cap \in Nat, n <= cap,
         p.cmd \notin Buffered \union Pqos,
         NEW w, w = InNew(u, n, cap)
  PROVE  Core(w) /\ Kin(u, w)
<1>1. p \in Page
  BY ElementOfSeq DEF Drawn, Core, State
<1>2. PICK r : r = [p.reg EXCEPT !.cap = cap]
  OBVIOUS
<1>3. /\ r \in Reg /\ r.height = p.reg.height /\ r.hl = p.reg.hl
      /\ r.start = p.reg.start /\ r.cap = cap
  BY <1>1, <1>2 DEF Page, Reg
<1>4. w = List(u, r, n)
  BY <1>2 DEF InNew
<1>5. QED
  BY <1>3, <1>4, ListKept

LEMMA StayKept ==
  ASSUME NEW u, Drawn(u)
  PROVE  Core(u) /\ Kin(u, u)
BY DEF Drawn, Core, Kin

\* The window of an exited process.
LEMMA InvalidKept ==
  ASSUME NEW u, Drawn(u),
         NEW w \in WinInvalidProc(u) \union WinInvalidLwp(u)
  PROVE  Core(w) /\ Kin(u, w)
BY GoHomeKept DEF WinInvalidProc, WinInvalidLwp, Drawn

LEMMA SizesInBuffer ==
  /\ \A n \in ListSizes : n \in Nat /\ n <= Many
  /\ Many \in Nat \ {0} /\ NodeCounts \subseteq Nat
BY WindowsAssumption

\* The windows of processes, threads, and nodes, by their buffers.
LEMMA TopDraws ==
  ASSUME NEW u, Drawn(u), NEW p, p = u.pages[u.next], Listing(p)
  PROVE  /\ p.cmd \in {"HOME", "IR_NORMALIZE"} =>
              \A w \in TopnprocDraw(u) : Core(w) /\ Kin(u, w)
         /\ p.cmd = "LWP" => \A w \in TopnlwpDraw(u) : Core(w) /\ Kin(u, w)
<1>1. ASSUME p.cmd \in {"HOME", "IR_NORMALIZE", "LWP"}, NEW n \in ListSizes \ {0}
      PROVE  Core(InPlace(u, n)) /\ Kin(u, InPlace(u, n))
  BY <1>1, SizesInBuffer, InPlaceKept DEF Buffered, Pqos
<1>2. ASSUME p.cmd \in {"HOME", "IR_NORMALIZE"}, NEW w \in TopnprocDraw(u)
      PROVE  Core(w) /\ Kin(u, w)
  <2>1. CASE w = [u EXCEPT !.first = FALSE]
    <3>1. Same(u, w)
      BY <2>1 DEF Drawn, Core, State, Same
    <3>2. QED
      BY <3>1, SameKept, KinOfSame DEF Drawn, Core
  <2>2. CASE w \in {InPlace(u, n) : n \in ListSizes \ {0}}
    BY <1>1, <1>2, <2>2
  <2>3. QED
    BY <1>2, <2>1, <2>2 DEF TopnprocDraw
<1>3. ASSUME p.cmd = "LWP", NEW w \in TopnlwpDraw(u)
      PROVE  Core(w) /\ Kin(u, w)
  BY <1>1, <1>3, InvalidKept DEF TopnlwpDraw
<1>4. QED
  BY <1>2, <1>3

LEMMA NodeDraws ==
  ASSUME NEW u, Drawn(u), NEW p, p = u.pages[u.next], Listing(p),
         p.cmd \in NodeLists,
         NEW w \in MoniprocDraw(u) \union MonilwpDraw(u)
                   \union NodeoverviewDraw(u) \union AccdstDraw(u)
  PROVE  Core(w) /\ Kin(u, w)
<1>1. u.nnodes \in Nat
  BY SizesInBuffer DEF Drawn, Core, State
<1>2. Core(InPlace(u, u.nnodes)) /\ Kin(u, InPlace(u, u.nnodes))
  BY <1>1, InPlaceKept DEF NodeLists, Pqos
<1>3. QED
  BY <1>2, InvalidKept, StayKept
     DEF MoniprocDraw, MonilwpDraw, NodeoverviewDraw, AccdstDraw

\* The lists that get a new buffer with each draw.
LEMMA NewDraws ==
  ASSUME NEW u, Drawn(u), NEW p, p = u.pages[u.next], Listing(p),
         p.cmd \in {"CALLCHAIN", "LLCALLCHAIN", "LAT"},
         NEW w \in CallchainDraw(u) \union LlcallchainDraw(u) \union LatDraw(u)
  PROVE  Core(w) /\ Kin(u, w)
<1>1. ASSUME NEW n \in ListSizes \ {0}
      PROVE  /\ Core(InNew(u, n, n)) /\ Kin(u, InNew(u, n, n))
             /\ Core(InNew(u, n, n + 1)) /\ Kin(u, InNew(u, n, n + 1))
  <2>1. n \in Nat /\ n > 0 /\ n + 1 \in Nat /\ n <= n + 1
    BY SizesInBuffer
  <2>2. p.cmd \notin Buffered \union Pqos
    BY DEF Buffered, Pqos
  <2>3. QED
    BY <2>1, <2>2, InNewKept
<1>2. \A x \in ChainlistShow(u) \union LatLines(u) : Core(x) /\ Kin(u, x)
  BY <1>1, StayKept DEF ChainlistShow, LatLines
<1>3. \A x \in CallchainDraw(u) \union LlcallchainDraw(u) : Core(x) /\ Kin(u, x)
  BY <1>2, InvalidKept, StayKept DEF CallchainDraw, LlcallchainDraw
<1>4. \A x \in LatDraw(u) : Core(x) /\ Kin(u, x)
  BY <1>2, InvalidKept, StayKept DEF LatDraw
<1>5. QED
  BY <1>3, <1>4

LEMMA LatnodeDraws ==
  ASSUME NEW u, Drawn(u), NEW p, p = u.pages[u.next], Listing(p),
         p.cmd = "LATNODE", NEW w \in LatnodeDraw(u)
  PROVE  Core(w) /\ Kin(u, w)
<1>1. ASSUME NEW n \in ListSizes
      PROVE  Core(InNew(u, n, n)) /\ Kin(u, InNew(u, n, n))
  <2>1. n \in Nat
    BY SizesInBuffer
  <2>2. p.cmd \notin Buffered \union Pqos
    BY DEF Buffered, Pqos
  <2>3. QED
    BY <2>1, <2>2, InNewKept
<1>2. QED
  BY <1>1, StayKept DEF LatnodeDraw, LatnodeLines

\* The lists of one line: it is counted before the process is looked up.
LEMMA PqosDraws ==
  ASSUME NEW u, Drawn(u), NEW p, p = u.pages[u.next], Listing(p),
         p.cmd \in Pqos, NEW w \in PqosCmtDraw(u) \union PqosMbmDraw(u)
  PROVE  Core(w) /\ Kin(u, w)
<1>1. Core(InPlace(u, 1)) /\ Kin(u, InPlace(u, 1))
  BY SizesInBuffer, InPlaceKept DEF Buffered, Pqos
<1>2. PICK s : s = [p.reg EXCEPT !.total = 1]
  OBVIOUS
<1>3. PICK v : v = [u EXCEPT !.pages[u.next].reg.total = 1]
  OBVIOUS
<1>4. /\ u \in State /\ u.next \in 1..Len(u.pages) /\ p \in Page
      /\ Sound(p) /\ Held(p) /\ u.fault = NoFault /\ Len(u.pages) \in Nat
  BY ElementOfSeq DEF Drawn, Core, State
<1>5. /\ s \in Reg /\ s.total = 1 /\ s.height = p.reg.height
      /\ s.cap = p.reg.cap /\ s.hl = p.reg.hl /\ s.start = p.reg.start
  BY <1>2, <1>4 DEF Page, Reg
<1>6. v = [u EXCEPT !.pages[u.next].reg = s]
  BY <1>2, <1>3
<1>7. /\ Kin(u, v) /\ v.fault = u.fault /\ v.pages[u.next].reg = s
      /\ \A i \in 1..Len(u.pages) : i # u.next => v.pages[i] = u.pages[i]
  BY <1>4, <1>5, <1>6, WithRegion
<1> DEFINE q == v.pages[u.next]
<1>8. /\ q.cmd = p.cmd /\ q.dyn = p.dyn /\ q.count = p.count
      /\ q.inited = p.inited /\ q.reg = s
      /\ v \in State /\ Len(v.pages) = Len(u.pages)
  BY <1>4, <1>7 DEF Kin
<1> HIDE DEF q
<1>9. /\ s.hl \in {-1, 0} /\ s.start = 0 /\ s.height >= 1 /\ s.height \in Nat
      /\ s.cap = Many
  <2>1. p.reg \in Reg /\ Scrolled(p.reg)
    BY <1>4 DEF Sound, Page
  <2>2. p.reg.height >= 1 /\ p.reg.cap = Many /\ p.reg.hl <= 0 /\ p.reg.start = 0
    BY <1>4 DEF Sound, Buffered
  <2>3. QED
    BY <1>5, <2>1, <2>2 DEF Scrolled, Placed, NoLine, Reg
<1>10. Scrolled(s)
  BY <1>5, <1>9 DEF Scrolled, Placed, NoLine, LineInView
<1>11. Sound(q)
  BY <1>4, <1>5, <1>8, <1>9, <1>10 DEF Sound
<1>12. Held(q)
  BY <1>5, <1>8, <1>9, SizesInBuffer DEF Held
<1>13. \A i \in 1..Len(v.pages) : Sound(v.pages[i]) /\ Held(v.pages[i])
  BY <1>7, <1>8, <1>11, <1>12 DEF q, Drawn, Core
<1>14. Len(v.pages) > 0 => v.pages[1].cmd = "HOME"
  BY <1>4, <1>7, <1>8 DEF Kin, Drawn, Core
<1>15. Excused(v)
  BY <1>4, <1>7 DEF Excused, NoFault
<1>16. Core(v)
  BY <1>8, <1>13, <1>14, <1>15 DEF Core
<1>17. \A x \in WinInvalidProc(v) : Core(x) /\ Kin(u, x)
  <2>1. SUFFICES ASSUME NEW x \in DispGoHome(v) PROVE Core(x) /\ Kin(u, x)
    BY DEF WinInvalidProc
  <2>2. Core(x) /\ Kin(v, x)
    BY <1>16, GoHomeKept
  <2>3. QED
    BY <1>7, <2>2 DEF Kin
<1>18. QED
  BY <1>1, <1>3, <1>17 DEF PqosCmtDraw, PqosMbmDraw

\* A draw of any window leaves what holds of the pages, and their kinds.
LEMMA DrawKept ==
  ASSUME NEW u, Drawn(u), u.pages[u.next].dyn = "live", NEW w \in WinDraw(u)
  PROVE  Core(w) /\ Kin(u, w) /\ (Events(u) => Events(w))
<1> DEFINE p == u.pages[u.next]
           t == WinType(p)
<1>0. p \in Page
  BY ElementOfSeq DEF Drawn, Core, State
<1>1. p.cmd \in Forward
  <2> HIDE DEF p
  <2> QED
    BY <1>0 DEF Page
<1>2. SUFFICES Core(w) /\ Kin(u, w)
  BY KinEvents DEF Drawn
<1>3. CASE p.cmd \in {"HOME", "IR_NORMALIZE"}
  <2>1. t \in {"RAW_NUM", "TOPNPROC"}
    BY <1>3 DEF WinType
  <2>2. w \in TopnprocDraw(u)
    BY <2>1 DEF WinDraw
  <2>3. QED
    BY <1>3, <2>2, TopDraws DEF Listing
<1>4. CASE p.cmd = "LWP"
  <2>1. t = "TOPNLWP"
    BY <1>4 DEF WinType
  <2>2. w \in TopnlwpDraw(u)
    BY <2>1 DEF WinDraw
  <2>3. QED
    BY <1>4, <2>2, TopDraws DEF Listing
<1>5. CASE p.cmd \in NodeLists
  <2>1. t \in {"MONIPROC", "MONILWP", "NODE_OVERVIEW", "ACCDST"}
    BY <1>5 DEF WinType, NodeLists
  <2>2. w \in MoniprocDraw(u) \union MonilwpDraw(u)
              \union NodeoverviewDraw(u) \union AccdstDraw(u)
    BY <2>1 DEF WinDraw
  <2>3. Listing(p)
    BY <1>5 DEF Listing, NodeLists
  <2>4. QED
    BY <1>5, <2>2, <2>3, NodeDraws
<1>6. CASE p.cmd \in {"CALLCHAIN", "LLCALLCHAIN", "LAT"}
  <2>1. t \in {"CALLCHAIN", "LLCALLCHAIN", "LAT"}
    BY <1>6 DEF WinType
  <2>2. w \in CallchainDraw(u) \union LlcallchainDraw(u) \union LatDraw(u)
    BY <2>1 DEF WinDraw
  <2>3. QED
    BY <1>6, <2>2, NewDraws DEF Listing
<1>7. CASE p.cmd = "LATNODE"
  <2>1. t = "LATNODE"
    BY <1>7 DEF WinType
  <2>2. w \in LatnodeDraw(u)
    BY <2>1 DEF WinDraw
  <2>3. QED
    BY <1>7, <2>2, LatnodeDraws DEF Listing
<1>8. CASE p.cmd \in Pqos
  <2>1. t \in Pqos
    BY <1>8 DEF WinType, Pqos
  <2>2. w \in PqosCmtDraw(u) \union PqosMbmDraw(u)
    BY <2>1 DEF WinDraw, Pqos
  <2>3. Listing(p)
    BY <1>8 DEF Listing, Pqos
  <2>4. QED
    BY <1>8, <2>2, <2>3, PqosDraws
<1>9. CASE p.cmd = "NODE_DETAIL"
  <2>1. t = "NODE_DETAIL"
    BY <1>9 DEF WinType
  <2>2. w \in NodedetailDraw(u)
    BY <2>1 DEF WinDraw
  <2>3. QED
    BY <2>2, StayKept DEF NodedetailDraw
<1>10. QED
  BY <1>1, <1>3, <1>4, <1>5, <1>6, <1>7, <1>8, <1>9
     DEF Forward, NodeLists, Pqos

-----------------------------------------------------------------------------
(* Windows that are made, and pages that are shown.                        *)

LEMMA NewRegionSound ==
  ASSUME NEW height \in Nat, NEW cap \in Nat, NEW r \in NewRegion(height, cap)
  PROVE  /\ r \in Reg /\ Scrolled(r) /\ r.height >= 1
         /\ r.cap = cap /\ r.total = 0 /\ r.hl = NoLine /\ r.start = 0
BY DEF NewRegion, Reg, Scrolled, Placed, LineInView, NoLine

LEMMA CreateSound ==
  ASSUME NEW p \in Page, NEW n \in Nat, NEW r \in DynCreate(p, n)
  PROVE  /\ r \in Reg /\ Scrolled(r)
         /\ r.total = 0 /\ r.hl = NoLine /\ r.start = 0
         /\ p.cmd # "NODE_DETAIL" => r.height >= 1
         /\ p.cmd \in Buffered => r.cap = Many
<1> DEFINE Made(x) == /\ x \in Reg /\ Scrolled(x)
                      /\ x.total = 0 /\ x.hl = NoLine /\ x.start = 0
<1>1. /\ \A x \in NewRegion(Height, Many) : Made(x) /\ x.height >= 1 /\ x.cap = Many
      /\ \A x \in NewRegion(Height, 0) : Made(x) /\ x.height >= 1
      /\ \A x \in NewRegion(n, n) : Made(x) /\ x.height >= 1
  BY WindowsAssumption, NewRegionSound
<1>2. Made(NoRegion)
  BY DEF NoRegion, Reg, Scrolled, Placed, LineInView, NoLine
<1> HIDE DEF Made
<1>3. CASE p.cmd \in {"HOME", "IR_NORMALIZE", "LWP"} \union Pqos
  <2>1. r \in NewRegion(Height, Many)
    BY <1>3 DEF DynCreate, TopnprocCreate, TopnlwpCreate, PqosCmtCreate,
                PqosMbmCreate, Pqos
  <2>2. QED
    BY <1>1, <2>1 DEF Made
<1>4. CASE p.cmd \in NodeLists
  <2>1. r \in NewRegion(n, n)
    BY <1>4 DEF DynCreate, MoniCreate, MoniprocCreate, MonilwpCreate,
                NodeoverviewCreate, AccdstCreate, NodeLists
  <2>2. QED
    BY <1>1, <1>4, <2>1 DEF Made, NodeLists, Buffered, Pqos
<1>5. CASE p.cmd \in {"CALLCHAIN", "LAT", "LATNODE", "LLCALLCHAIN"}
  <2>1. r \in NewRegion(Height, 0)
    BY <1>5 DEF DynCreate, CallchainCreate, LatCreate, LatnodeCreate,
                LlcallchainCreate
  <2>2. QED
    BY <1>1, <1>5, <2>1 DEF Made, Buffered, Pqos
<1>6. CASE p.cmd = "NODE_DETAIL"
  <2>1. r = NoRegion
    BY <1>6 DEF DynCreate, NodedetailCreate
  <2>2. QED
    BY <1>2, <1>6, <2>1 DEF Made, Buffered, Pqos
<1>7. QED
  BY <1>3, <1>4, <1>5, <1>6 DEF Page, Forward, NodeLists, Pqos

\* The last page has become q.
Replaced(u, v, q, m) ==
  /\ Drawn(v) /\ v.cur = u.cur /\ v.next = u.next
  /\ Len(v.pages) = Len(u.pages) /\ v.pages[v.next] = q
  /\ v.counted = u.counted /\ v.missed = m
  /\ \A i \in 1..Len(u.pages) : v.pages[i].cmd = u.pages[i].cmd

LEMMA WithPage ==
  ASSUME NEW u, Drawn(u), NEW q \in Page, Sound(q), Held(q),
         q.cmd = u.pages[u.next].cmd, NEW m \in BOOLEAN,
         NEW ps, ps = [u.pages EXCEPT ![u.next] = q],
         NEW v, v = [u EXCEPT !.pages = ps, !.missed = m]
  PROVE  Replaced(u, v, q, m)
<1>1. /\ u \in State /\ u.pages \in Seq(Page) /\ Len(u.pages) \in Nat
      /\ u.next \in 1..Len(u.pages) /\ u.fault = NoFault
  BY DEF Drawn, Core, State
<1>2. /\ ps \in Seq(Page) /\ Len(ps) = Len(u.pages) /\ ps[u.next] = q
      /\ \A i \in 1..Len(u.pages) : i # u.next => ps[i] = u.pages[i]
  BY <1>1, ExceptSeq
<1>3. /\ v \in State /\ v.pages = ps /\ v.cur = u.cur /\ v.next = u.next
      /\ v.counted = u.counted /\ v.missed = m /\ v.fault = u.fault
  BY <1>1, <1>2 DEF State
<1>4. \A i \in 1..Len(v.pages) : Sound(v.pages[i]) /\ Held(v.pages[i])
  BY <1>1, <1>2, <1>3 DEF Drawn, Core
<1>5. \A i \in 1..Len(u.pages) : v.pages[i].cmd = u.pages[i].cmd
  BY <1>1, <1>2, <1>3
<1>6. Core(v)
  BY <1>1, <1>2, <1>3, <1>4, <1>5 DEF Core, Drawn, Excused, NoFault
<1>7. QED
  BY <1>1, <1>2, <1>3, <1>5, <1>6 DEF Drawn, Replaced

LEMMA DynInitKept ==
  ASSUME NEW u, Drawn(u), ~u.pages[u.next].inited, NEW v \in WinDynInit(u)
  PROVE  Drawn(v) /\ v.cur = u.cur /\ (Events(u) => Events(v))
<1> DEFINE p == u.pages[u.next]
<1>0. /\ p \in Page /\ Sound(p) /\ Held(p) /\ u.missed \in BOOLEAN
      /\ u.nnodes \in Nat /\ u \in State /\ u.next \in 1..Len(u.pages)
      /\ Len(u.pages) \in Nat
  <2>1. u \in State /\ u.pages \in Seq(Page) /\ u.missed \in BOOLEAN
        /\ u.nnodes \in NodeCounts
    BY DEF Drawn, Core, State
  <2>2. Len(u.pages) \in Nat /\ u.next \in 1..Len(u.pages)
    BY <2>1 DEF Drawn
  <2>3. p \in Page
    BY <2>1, <2>2, ElementOfSeq
  <2>4. Sound(p) /\ Held(p)
    BY <2>2 DEF Drawn, Core
  <2>5. QED
    BY <2>1, <2>2, <2>3, <2>4, SizesInBuffer
<1>1. PICK e \in BOOLEAN : e = (p.cmd = "CALLCHAIN" /\ p.dyn # "unmade")
  <2>1. (p.cmd = "CALLCHAIN" /\ p.dyn # "unmade") \in BOOLEAN
    BY Zenon
  <2>2. QED
    BY <2>1, Zenon
<1>2. PICK m \in BOOLEAN : m = (u.missed \/ e)
  <2>1. (u.missed \/ e) \in BOOLEAN
    BY Zenon
  <2>2. QED
    BY <2>1, Zenon
<1>3. ~m => ~u.missed /\ (p.cmd = "CALLCHAIN" => p.dyn = "unmade")
  BY <1>1, <1>2, Zenon
<1>4. ASSUME NEW r \in DynCreate(p, u.nnodes),
             v = [u EXCEPT !.pages[u.next] =
                             [@ EXCEPT !.inited = TRUE, !.dyn = "live",
                                       !.reg = r, !.count = Rma],
                           !.missed = @ \/ (p.cmd = "CALLCHAIN" /\ p.dyn # "unmade")]
      PROVE  Drawn(v) /\ v.cur = u.cur /\ (Events(u) => Events(v))
  <2>1. PICK q : q = [p EXCEPT !.inited = TRUE, !.dyn = "live",
                               !.reg = r, !.count = Rma]
    OBVIOUS
  <2>2. /\ r \in Reg /\ Scrolled(r)
        /\ r.total = 0 /\ r.hl = NoLine /\ r.start = 0
        /\ p.cmd # "NODE_DETAIL" => r.height >= 1
        /\ p.cmd \in Buffered => r.cap = Many
    BY <1>0, <1>4, CreateSound
  <2> HIDE DEF p
  <2>3. /\ q \in Page /\ q.cmd = p.cmd /\ q.reg = r /\ q.dyn = "live"
        /\ q.inited = TRUE /\ q.count = Rma
    BY <1>0, <2>1, <2>2, WindowsAssumption DEF Page
  <2>4. Sound(q) /\ Held(q)
    BY <2>2, <2>3 DEF Sound, Held, Listing, NoLine, Reg
  <2>5. PICK ps : ps = [u.pages EXCEPT ![u.next] = q]
    OBVIOUS
  <2>10. v = [u EXCEPT !.pages = ps, !.missed = m]
    BY <1>1, <1>2, <1>4, <2>1, <2>5, Zenon DEF p
  <2>6. /\ Drawn(v) /\ v.cur = u.cur /\ v.next = u.next
        /\ Len(v.pages) = Len(u.pages) /\ v.pages[v.next] = q
        /\ v.counted = u.counted /\ v.missed = m
        /\ \A i \in 1..Len(u.pages) : v.pages[i].cmd = u.pages[i].cmd
    <3>1. q.cmd = u.pages[u.next].cmd
      BY <2>3 DEF p
    <3>2. Replaced(u, v, q, m)
      BY <2>3, <2>4, <2>5, <2>10, <3>1, WithPage, Zenon
    <3>3. QED
      BY <3>2 DEF Replaced
  <2>7. ASSUME Events(u), ~m PROVE v.counted = Wanted(v.pages)
    <3>1. u.counted = Wanted(u.pages) /\ u.fault = NoFault
      BY <1>3, <2>7 DEF Events, Drawn
    <3>2. p = u.pages[Len(u.pages)] /\ q = v.pages[Len(v.pages)]
      BY <2>6 DEF p, Drawn
    <3>3. q.cmd = "CALLCHAIN" => p.count = Rma
      BY <1>0, <1>3, <2>3, <2>7 DEF Sound
    <3>4. QED
      BY <1>0, <2>3, <2>6, <3>1, <3>2, <3>3 DEF Wanted
  <2>8. ASSUME Events(u) PROVE Events(v)
    BY <1>3, <2>6, <2>7, <2>8 DEF Events, Drawn
  <2>9. QED
    BY <2>6, <2>8
<1>5. ASSUME v = [u EXCEPT !.pages[u.next].dyn =
                              IF @ = "unmade" THEN @ ELSE "none"]
      PROVE  Drawn(v) /\ v.cur = u.cur /\ (Events(u) => Events(v))
  <2>1. PICK q : q = [p EXCEPT !.dyn = IF @ = "unmade" THEN @ ELSE "none"]
    OBVIOUS
  <2>2. PICK ps : ps = [u.pages EXCEPT ![u.next] = q]
    OBVIOUS
  <2>3. v = [u EXCEPT !.pages = ps, !.missed = u.missed]
    BY <1>0, <1>5, <2>1, <2>2 DEF State
  <2> HIDE DEF p
  <2>4. /\ q \in Page /\ q.cmd = p.cmd /\ q.reg = p.reg
        /\ q.dyn # "live" /\ (q.dyn = "unmade" => p.dyn = "unmade")
        /\ q.inited = p.inited /\ q.count = p.count /\ ~q.inited
    BY <1>0, <2>1 DEF Page, p
  <2>5. Sound(q) /\ Held(q)
    BY <1>0, <2>4 DEF Sound, Held, Listing
  <2>6. /\ Drawn(v) /\ v.cur = u.cur /\ v.next = u.next
        /\ Len(v.pages) = Len(u.pages) /\ v.pages[v.next] = q
        /\ v.counted = u.counted /\ v.missed = u.missed
        /\ \A i \in 1..Len(u.pages) : v.pages[i].cmd = u.pages[i].cmd
    <3>1. q.cmd = u.pages[u.next].cmd
      BY <2>4 DEF p
    <3>2. Replaced(u, v, q, u.missed)
      BY <1>0, <2>3, <2>4, <2>5, <2>2, <3>1, WithPage, Zenon
    <3>3. QED
      BY <3>2 DEF Replaced
  <2>7. p = u.pages[Len(u.pages)] /\ q = v.pages[Len(v.pages)]
    BY <2>6 DEF p, Drawn
  <2>8. Wanted(v.pages) = Wanted(u.pages)
    BY <1>0, <2>4, <2>6, <2>7 DEF Wanted
  <2>9. Events(u) => Events(v)
    BY <2>6, <2>8 DEF Events, Drawn
  <2>10. QED
    BY <2>6, <2>9
<1>6. QED
  BY <1>4, <1>5 DEF WinDynInit

\* What holds of the pages does not depend on which is the current one.
LEMMA CoreOf ==
  ASSUME NEW u, Core(u), NEW v \in State, v.pages = u.pages, v.fault = u.fault
  PROVE  Core(v)
BY DEF Core, Excused

LEMMA ShowWindowKept ==
  ASSUME NEW u, Drawn(u), Events(u), NEW smpl, NEW w \in ShowWindow(u, smpl)
  PROVE  /\ Core(w) /\ Events(w) /\ w.cur = u.cur /\ w.next = Len(w.pages)
         /\ w.next >= 1
<1> DEFINE p == u.pages[u.next]
           Shown(v) == IF ~v.pages[v.next].inited THEN {v}
                       ELSE IF smpl THEN PageSmplStart(v, v.pages[v.next])
                       ELSE WinDraw(v)
<1>1. PICK v \in (IF p.inited THEN {u} ELSE WinDynInit(u)) :
        w \in (IF v.fault = NoFault THEN Shown(v) ELSE {v})
  BY DEF ShowWindow, Then
<1>2. Drawn(v) /\ v.cur = u.cur /\ Events(v)
  <2>1. CASE p.inited
    BY <1>1, <2>1
  <2>2. CASE ~p.inited
    BY <1>1, <2>2, DynInitKept
  <2>3. QED
    BY <2>1, <2>2
<1>3. w \in Shown(v)
  BY <1>1, <1>2 DEF Drawn
<1> DEFINE q == v.pages[v.next]
<1>4. /\ v \in State /\ v.pages \in Seq(Page) /\ v.next \in 1..Len(v.pages)
      /\ Len(v.pages) \in Nat /\ v.next = Len(v.pages) /\ v.next >= 1
  BY <1>2 DEF Drawn, Core, State
<1>5. q \in Page
  BY <1>4, ElementOfSeq
<1>6. CASE ~q.inited
  <2>1. w = v
    BY <1>3, <1>6
  <2>2. QED
    BY <1>2, <1>4, <2>1 DEF Drawn
<1>7. CASE w \in PageSmplStart(v, q)
  <2>1. Same(v, w)
    BY <1>4, <1>5, <1>7, SmplSame
  <2>2. QED
    BY <1>2, <1>4, <2>1, SameKept DEF Drawn, Same
<1>8. CASE q.inited /\ w \in WinDraw(v)
  <2>1. q.dyn = "live"
    BY <1>2, <1>4, <1>8 DEF Drawn, Core, Sound
  <2>2. Core(w) /\ Kin(v, w) /\ Events(w)
    BY <1>2, <1>8, <2>1, DrawKept
  <2>3. QED
    BY <1>2, <1>4, <2>2 DEF Kin
<1>9. QED
  <2>1. ~q.inited \/ w \in PageSmplStart(v, q) \/ (q.inited /\ w \in WinDraw(v))
    BY <1>3
  <2>2. QED
    BY <1>6, <1>7, <1>8, <2>1

LEMMA PageShowKept ==
  ASSUME NEW u, Drawn(u), Events(u), NEW smpl, NEW w \in PageShow(u, smpl)
  PROVE  /\ Core(w) /\ Events(w) /\ w.cur = u.cur /\ w.next = Len(w.pages)
         /\ w.next >= 1
<1>1. CASE w = u
  BY <1>1 DEF Drawn
<1>2. ASSUME NEW n \in NodeCounts, w \in ShowWindow([u EXCEPT !.nnodes = n], smpl)
      PROVE  /\ Core(w) /\ Events(w) /\ w.cur = u.cur /\ w.next = Len(w.pages)
             /\ w.next >= 1
  <2>1. PICK v : v = [u EXCEPT !.nnodes = n]
    OBVIOUS
  <2>2. Same(u, v)
    BY <2>1 DEF Drawn, Core, State, Same
  <2>3. Drawn(v) /\ Events(v)
    BY <2>2, SameKept DEF Drawn, Same
  <2>4. QED
    BY <1>2, <2>1, <2>2, <2>3, ShowWindowKept DEF Same
<1>3. QED
  BY <1>1, <1>2 DEF PageShow

\* The page that is shown next becomes the current one.
LEMMA PageNextKept ==
  ASSUME NEW u, Drawn(u), Events(u), NEW smpl,
         NEW w \in PageNextExecute(u, smpl)
  PROVE  Good(w)
<1>1. u.next # 0
  BY DEF Drawn
<1>2. PICK v \in PageShow(u, smpl) :
        w = [v EXCEPT !.cur = v.next, !.next = IF smpl THEN @ ELSE 0]
  BY <1>1 DEF PageNextExecute
<1>3. /\ Core(v) /\ Events(v) /\ v.next = Len(v.pages) /\ v.next >= 1
      /\ v \in State /\ v.next \in Nat
  BY PageShowKept DEF Core, State
<1>4. PICK k \in {0, v.next} : k = IF smpl THEN v.next ELSE 0
  OBVIOUS
<1>5. PICK c \in Nat : c = v.next
  BY <1>3
<1>6. k \in Nat
  BY <1>3, <1>4
<1>7. w = [v EXCEPT !.cur = c, !.next = k]
  BY <1>2, <1>3, <1>4, <1>5 DEF State
<1>8. /\ w \in State /\ w.pages = v.pages /\ w.fault = v.fault
      /\ w.cur = v.next /\ w.next = k
      /\ w.counted = v.counted /\ w.missed = v.missed
  BY <1>3, <1>7, <1>5, <1>6 DEF State
<1>9. Core(w) /\ Events(w)
  BY <1>3, <1>8, CoreOf DEF Events
<1>10. QED
  BY <1>3, <1>8, <1>9 DEF Good

-----------------------------------------------------------------------------
(* The list of pages.                                                      *)

\* The pages from i on go; none of their windows has been freed before.
LEMMA DropKept ==
  ASSUME NEW u, Core(u), u.fault = NoFault, NEW i \in 1..Len(u.pages) + 1,
         NEW w, w = PageDrop(u, i)
  PROVE  /\ Core(w) /\ w.fault = NoFault
         /\ Len(w.pages) = i - 1
         /\ \A j \in 1..i - 1 : w.pages[j] = u.pages[j]
         /\ w.cur = u.cur /\ w.next = u.next
         /\ w.counted = u.counted /\ w.missed = u.missed
<1>1. u \in State /\ u.pages \in Seq(Page) /\ Len(u.pages) \in Nat
  BY DEF Core, State
<1>2. PICK gone : gone = SubSeq(u.pages, i, Len(u.pages))
  OBVIOUS
<1>3. PICK ps : ps = SubSeq(u.pages, 1, i - 1)
  OBVIOUS
<1>4. /\ ps \in Seq(Page) /\ Len(ps) = i - 1
      /\ \A j \in 1..i - 1 : ps[j] = u.pages[j]
  <2>1. i - 1 \in 0..Len(u.pages)
    BY <1>1
  <2>2. /\ SubSeq(u.pages, 1, i - 1) \in Seq(Page)
        /\ Len(SubSeq(u.pages, 1, i - 1)) = IF 1 <= i - 1 THEN i - 1 - 1 + 1 ELSE 0
        /\ \A j \in 1..i - 1 - 1 + 1 : SubSeq(u.pages, 1, i - 1)[j] = u.pages[1 + j - 1]
    BY <1>1, <2>1, SubSeqProperties
  <2>3. QED
    BY <1>1, <1>3, <2>1, <2>2
<1>5. ~FreedTwice(gone)
  <2>1. SUFFICES ASSUME NEW k \in DOMAIN gone
                 PROVE  gone[k].inited => gone[k].dyn = "live"
    BY DEF FreedTwice
  <2>2. i + k - 1 \in 1..Len(u.pages) /\ gone[k] = u.pages[i + k - 1]
    <3>1. /\ gone \in Seq(Page)
          /\ Len(gone) = IF i <= Len(u.pages) THEN Len(u.pages) - i + 1 ELSE 0
          /\ \A j \in 1..Len(u.pages) - i + 1 : gone[j] = u.pages[i + j - 1]
      BY <1>1, <1>2, SubSeqProperties
    <3>2. k \in 1..Len(gone)
      BY <2>1, <3>1, LenProperties
    <3>3. QED
      BY <1>1, <3>1, <3>2
  <2>3. Sound(u.pages[i + k - 1])
    BY <2>2 DEF Core
  <2>4. QED
    BY <2>2, <2>3 DEF Sound
<1>6. w = [u EXCEPT !.pages = ps]
  BY <1>2, <1>3, <1>5 DEF PageDrop
<1>7. /\ w \in State /\ w.pages = ps /\ w.fault = u.fault
      /\ w.cur = u.cur /\ w.next = u.next
      /\ w.counted = u.counted /\ w.missed = u.missed
  BY <1>1, <1>4, <1>6 DEF State
<1>8. ASSUME NEW j \in 1..Len(ps) PROVE Sound(ps[j]) /\ Held(ps[j])
  <2>1. j \in 1..Len(u.pages) /\ ps[j] = u.pages[j]
    BY <1>1, <1>4
  <2>2. QED
    BY <2>1 DEF Core
<1>9. Len(ps) > 0 => ps[1].cmd = "HOME"
  BY <1>1, <1>4 DEF Core
<1>10. Core(w)
  BY <1>7, <1>8, <1>9 DEF Core, Excused, NoFault
<1>11. QED
  BY <1>4, <1>7, <1>10

LEMMA NewPageSound ==
  ASSUME NEW c \in Forward, NEW who \in {"all", "proc", "lwp"}
  PROVE  LET p == NewPage(c, who) IN
         p \in Page /\ Sound(p) /\ Held(p) /\ p.cmd = c /\ p.count = Rma
<1> DEFINE p == NewPage(c, who)
<1>1. /\ p \in Page /\ p.cmd = c /\ p.dyn = "unmade" /\ p.reg = NoRegion
      /\ ~p.inited /\ p.count = Rma
  BY WindowsAssumption DEF NewPage, Page, NoRegion, Reg, NoLine
<1> HIDE DEF p
<1>2. Scrolled(NoRegion)
  BY DEF NoRegion, Reg, Scrolled, Placed, LineInView, NoLine
<1>3. Sound(p) /\ Held(p)
  BY <1>1, <1>2 DEF Sound, Held, Listing, NoRegion, NoLine
<1>4. QED
  BY <1>1, <1>3 DEF p

\* The events that are counted are those of a page that c is to make.
CountedFor(u, c) ==
  ~u.missed =>
    /\ \A i \in 1..Len(u.pages) : u.pages[i].cmd # "CALLCHAIN"
    /\ u.counted = IF c = "CALLCHAIN" THEN Rma ELSE "all"

LEMMA PageCreateKept ==
  ASSUME NEW u, Core(u), u.fault = NoFault, u.cur = Len(u.pages),
         NEW c \in Forward, NEW who \in {"all", "proc", "lwp"},
         Len(u.pages) = 0 => c = "HOME",
         CountedFor(u, c), NEW w, w = PageCreate(u, c, who)
  PROVE  Drawn(w) /\ Events(w)
<1>1. u \in State /\ Len(u.pages) \in Nat
  BY DEF Core, State
<1>2. PICK v : v = PageDrop(u, u.cur + 1)
  OBVIOUS
<1>3. PICK i \in 1..Len(u.pages) + 1 : i = u.cur + 1 /\ i - 1 = Len(u.pages)
  BY <1>1
<1>4. /\ Core(v) /\ v.fault = NoFault
      /\ Len(v.pages) = Len(u.pages)
      /\ \A j \in 1..Len(u.pages) : v.pages[j] = u.pages[j]
      /\ v.cur = u.cur /\ v.counted = u.counted /\ v.missed = u.missed
  BY <1>2, <1>3, DropKept
<1>5. PICK p : p = NewPage(c, who)
  OBVIOUS
<1>6. p \in Page /\ Sound(p) /\ Held(p) /\ p.cmd = c /\ p.count = Rma
  BY <1>5, NewPageSound
<1>7. v \in State /\ v.pages \in Seq(Page) /\ Len(v.pages) \in Nat
  BY <1>4 DEF Core, State
<1>8. PICK n \in Nat : n = Len(v.pages) + 1
  BY <1>7
<1>9. PICK ps : ps = Append(v.pages, p)
  OBVIOUS
<1>10. /\ ps \in Seq(Page) /\ Len(ps) = n /\ ps[n] = p
       /\ \A j \in 1..Len(v.pages) : ps[j] = v.pages[j]
  BY <1>6, <1>7, <1>8, <1>9, AppendProperties
<1>11. w = [v EXCEPT !.pages = ps, !.next = n]
  BY <1>2, <1>5, <1>8, <1>9 DEF PageCreate
<1>12. /\ w \in State /\ w.pages = ps /\ w.next = n /\ w.fault = NoFault
       /\ w.counted = v.counted /\ w.missed = v.missed
  BY <1>4, <1>7, <1>10, <1>11 DEF State
<1>13. \A j \in 1..Len(ps) : Sound(ps[j]) /\ Held(ps[j])
  BY <1>4, <1>6, <1>7, <1>8, <1>10 DEF Core
<1>14. ps[1].cmd = "HOME"
  BY <1>1, <1>4, <1>6, <1>7, <1>8, <1>10 DEF Core
<1>15. Core(w)
  BY <1>12, <1>13, <1>14 DEF Core, Excused, NoFault
<1>16. Drawn(w)
  BY <1>8, <1>10, <1>12, <1>15 DEF Drawn
<1>17. ASSUME ~w.missed
       PROVE  /\ \A j \in 1..Len(ps) : j < Len(ps) => ps[j].cmd # "CALLCHAIN"
              /\ w.counted = Wanted(ps)
  <2>1. /\ \A j \in 1..Len(u.pages) : u.pages[j].cmd # "CALLCHAIN"
        /\ u.counted = IF c = "CALLCHAIN" THEN Rma ELSE "all"
    BY <1>4, <1>12, <1>17 DEF CountedFor
  <2>2. Wanted(ps) = IF c = "CALLCHAIN" THEN Rma ELSE "all"
    BY <1>6, <1>8, <1>10 DEF Wanted
  <2>3. QED
    BY <1>4, <1>7, <1>8, <1>10, <1>12, <2>1, <2>2
<1>18. QED
  BY <1>12, <1>16, <1>17 DEF Events

LEMMA OpPageNextKept ==
  ASSUME NEW u, Core(u), u.fault = NoFault, u.cur = Len(u.pages),
         NEW c \in Forward, NEW who \in {"all", "proc", "lwp"},
         Len(u.pages) = 0 => c = "HOME",
         CountedFor(u, c), NEW smpl, NEW w \in OpPageNext(u, c, who, smpl)
  PROVE  Good(w)
<1>1. PICK v : v = PageCreate(u, c, who)
  OBVIOUS
<1>2. Drawn(v) /\ Events(v)
  BY <1>1, PageCreateKept
<1>3. QED
  BY <1>1, <1>2, PageNextKept DEF OpPageNext

\* The first page takes the place of all pages.
LEMMA OpHomeKept ==
  ASSUME NEW u, Core(u), u.fault = NoFault,
         ~u.missed => u.counted = "all", NEW smpl, NEW w \in OpHome(u, smpl)
  PROVE  Good(w)
<1>0. u \in State /\ Len(u.pages) \in Nat
  BY DEF Core, State
<1>1. PICK v : v = PageDrop(u, 1)
  OBVIOUS
<1>2. 1 \in 1..Len(u.pages) + 1
  BY <1>0
<1>3. /\ Core(v) /\ v.fault = NoFault /\ Len(v.pages) = 0
      /\ v.counted = u.counted /\ v.missed = u.missed
  BY <1>1, <1>2, DropKept
<1>4. PICK x : x = [v EXCEPT !.cur = 0, !.next = 0]
  OBVIOUS
<1>5. /\ x \in State /\ x.pages = v.pages /\ x.fault = v.fault /\ x.cur = 0
      /\ x.counted = v.counted /\ x.missed = v.missed
  BY <1>3, <1>4 DEF Core, State
<1>6. Core(x)
  BY <1>3, <1>5, CoreOf
<1>7. CountedFor(x, "HOME")
  BY <1>3, <1>5 DEF CountedFor
<1>8. w \in OpPageNext(x, "HOME", "all", smpl)
  BY <1>1, <1>4 DEF OpHome
<1>9. QED
  BY <1>3, <1>5, <1>6, <1>7, <1>8, OpPageNextKept DEF Forward

\* The page before the last one, which is no call-chain page.
LEMMA OpPagePrevKept ==
  ASSUME NEW u, Core(u), u.fault = NoFault, u.cur = Len(u.pages), u.cur >= 2,
         ~u.missed => /\ u.counted = "all"
                      /\ \A i \in 1..Len(u.pages) :
                           i < Len(u.pages) => u.pages[i].cmd # "CALLCHAIN",
         NEW smpl, NEW w \in OpPagePrev(u, smpl)
  PROVE  Good(w)
<1>0. u \in State /\ Len(u.pages) \in Nat /\ u.cur \in Nat
  BY DEF Core, State
<1>1. PICK v : v = PageDrop(u, u.cur)
  OBVIOUS
<1>2. u.cur \in 1..Len(u.pages) + 1
  BY <1>0
<1>3. /\ Core(v) /\ v.fault = NoFault /\ Len(v.pages) = u.cur - 1
      /\ \A j \in 1..u.cur - 1 : v.pages[j] = u.pages[j]
      /\ v.cur = u.cur /\ v.counted = u.counted /\ v.missed = u.missed
  BY <1>1, <1>2, DropKept
<1>4. PICK k \in Nat : k = u.cur - 1 /\ k >= 1
  BY <1>0
<1>5. PICK x : x = [v EXCEPT !.cur = k, !.next = k]
  OBVIOUS
<1>6. /\ x \in State /\ x.pages = v.pages /\ x.fault = v.fault /\ x.next = k
      /\ x.counted = v.counted /\ x.missed = v.missed
  BY <1>3, <1>4, <1>5 DEF Core, State
<1>7. Drawn(x)
  BY <1>3, <1>4, <1>6, CoreOf DEF Drawn
<1>8. ~x.missed => \A i \in 1..Len(x.pages) : x.pages[i].cmd # "CALLCHAIN"
  <2>1. SUFFICES ASSUME ~u.missed, NEW i \in 1..Len(v.pages)
                 PROVE  v.pages[i].cmd # "CALLCHAIN"
    BY <1>3, <1>6
  <2>2. i \in 1..u.cur - 1 /\ i \in 1..Len(u.pages) /\ i < Len(u.pages)
    BY <1>0, <1>3, <2>1
  <2>3. u.pages[i].cmd # "CALLCHAIN"
    BY <2>1, <2>2
  <2>4. QED
    BY <1>3, <2>2, <2>3
<1>9. Events(x)
  BY <1>3, <1>4, <1>6, <1>8 DEF Events, Wanted
<1>10. w \in PageNextExecute(x, smpl)
  <2>1. ~(u.cur <= 1)
    BY <1>0
  <2>2. x = [v EXCEPT !.cur = @ - 1, !.next = u.cur - 1]
    BY <1>3, <1>4, <1>5 DEF Core, State
  <2>3. QED
    BY <1>1, <2>1, <2>2 DEF OpPagePrev
<1>11. QED
  BY <1>7, <1>9, <1>10, PageNextKept

\* The current page is to be shown again.
LEMMA OpRefreshKept ==
  ASSUME NEW u, Core(u), u.fault = NoFault, u.cur = Len(u.pages), u.cur >= 1,
         Events(u), NEW w \in OpRefresh(u)
  PROVE  Good(w)
<1>1. /\ u \in State /\ u.pages \in Seq(Page) /\ Len(u.pages) \in Nat
      /\ u.cur \in 1..Len(u.pages) /\ u.cur \in Nat
  BY DEF Core, State
<1>2. PICK v : v = [u EXCEPT !.next = u.cur]
  OBVIOUS
<1>3. /\ v \in State /\ v.pages = u.pages /\ v.fault = u.fault
      /\ v.cur = u.cur /\ v.next = u.cur
      /\ v.counted = u.counted /\ v.missed = u.missed
  BY <1>1, <1>2 DEF State
<1>4. Core(v) /\ Events(v)
  BY <1>3, CoreOf DEF Events
<1>5. Good(v)
  BY <1>3, <1>4 DEF Good
<1>6. Current(u) \in Page
  BY <1>1, ElementOfSeq DEF Current
<1>7. w \in PageSmplStart(v, Current(u))
  BY <1>2 DEF OpRefresh
<1>8. QED
  BY <1>3, <1>4, <1>5, <1>6, <1>7, SmplSame, SameKept

-----------------------------------------------------------------------------
(* The preops.                                                             *)

\* A handler goes on only with a window that is there.
LEMMA UseDynKept ==
  ASSUME NEW u, Core(u), u.fault = NoFault, NEW v \in UseDyn(u)
  PROVE  \/ v = u /\ Current(u).dyn = "live"
         \/ Good(v) /\ v.fault # NoFault /\ Kin(u, v) /\ v.pages = u.pages
<1>1. CASE Current(u).dyn = "live"
  BY <1>1 DEF UseDyn
<1>2. ASSUME NEW what \in {"freed", "null"}, v = Fails(u, what, "key")
      PROVE  Good(v) /\ v.fault # NoFault /\ Kin(u, v) /\ v.pages = u.pages
  <2>1. Core(v) /\ Kin(u, v) /\ v.fault # NoFault /\ Events(v)
    BY <1>2, Stopped
  <2>2. v.pages = u.pages
    BY <1>2 DEF Fails, Core, State
  <2>3. QED
    BY <2>1, <2>2 DEF Good
<1>3. QED
  BY <1>1, <1>2 DEF UseDyn

\* A preop leaves the pages alone and changes what is counted.
Tuned(u, v) ==
  /\ Core(v) /\ v.pages = u.pages /\ v.cur = u.cur /\ v.next = u.next
  /\ v.missed = u.missed

\* It runs on, and e is counted.
Tuning(u, v, e) == Tuned(u, v) /\ v.fault = NoFault /\ v.counted = e

LEMMA TunedTask ==
  ASSUME NEW u, Core(u), u.fault = NoFault, NEW x \in TaskSet(u),
         NEW s \in {"none", "profiling", "ll", "pqos_cmt", "uncore"},
         NEW e \in Counts \union {"all"},
         NEW v, v = [x EXCEPT !.status = s, !.counted = e]
  PROVE  Tuning(u, v, e)
<1>1. Same(u, x) /\ Core(x)
  BY TaskSetSame, SameKept DEF Core
<1>2. /\ v \in State /\ v.pages = x.pages /\ v.fault = x.fault
      /\ v.cur = x.cur /\ v.next = x.next /\ v.missed = x.missed
      /\ v.counted = e
  BY <1>1 DEF Core, State
<1>3. Core(v)
  BY <1>1, <1>2, CoreOf
<1>4. QED
  BY <1>1, <1>2, <1>3 DEF Tuned, Tuning, Same

LEMMA TunedStatus ==
  ASSUME NEW u, Core(u), u.fault = NoFault, NEW x \in TaskSet(u),
         NEW s \in {"none", "profiling", "ll", "pqos_cmt", "uncore"},
         NEW v, v = [x EXCEPT !.status = s]
  PROVE  Tuning(u, v, u.counted)
<1>1. Same(u, x) /\ Core(x)
  BY TaskSetSame, SameKept DEF Core
<1>2. /\ v \in State /\ v.pages = x.pages /\ v.fault = x.fault
      /\ v.cur = x.cur /\ v.next = x.next /\ v.missed = x.missed
      /\ v.counted = x.counted
  BY <1>1 DEF Core, State
<1>3. Core(v)
  BY <1>1, <1>2, CoreOf
<1>4. QED
  BY <1>1, <1>2, <1>3 DEF Tuned, Tuning, Same

LEMMA TunedNot ==
  ASSUME NEW u, Core(u), u.fault = NoFault
  PROVE  Tuning(u, u, u.counted)
BY DEF Tuned, Tuning

\* The program is stopped by a key.
Stop(v) == Good(v) /\ v.fault # NoFault

LEMMA InResult ==
  ASSUME NEW S, NEW b, NEW r \in Result(S, b)
  PROVE  r.u \in S
BY DEF Result

LEMMA Switch2profilingKept ==
  ASSUME NEW u, Core(u), u.fault = NoFault, NEW r \in Switch2profiling(u)
  PROVE  Tuning(u, r.u, u.counted) \/ Tuning(u, r.u, "all")
<1>1. CASE u.status = "profiling"
  <2>1. r \in Result({u}, FALSE)
    BY <1>1 DEF Switch2profiling
  <2>2. r.u = u
    BY <2>1, InResult
  <2>3. QED
    BY <2>2, TunedNot
<1>2. CASE u.status # "profiling"
  <2>1. r \in Result({[x EXCEPT !.status = "profiling",
                                !.counted = IF u.status = "none" \/ u.status = "ll"
                                            THEN "all" ELSE @]
                        : x \in TaskSet(u)}, TRUE)
    BY <1>2 DEF Switch2profiling
  <2>2. r.u \in {[x EXCEPT !.status = "profiling",
                           !.counted = IF u.status = "none" \/ u.status = "ll"
                                       THEN "all" ELSE @]
                   : x \in TaskSet(u)}
    BY <2>1, InResult, Zenon
  <2>3. PICK x \in TaskSet(u) :
          r.u = [x EXCEPT !.status = "profiling",
                          !.counted = IF u.status = "none" \/ u.status = "ll"
                                      THEN "all" ELSE @]
    BY <2>2, Zenon
  <2>4. Same(u, x)
    BY TaskSetSame DEF Core
  <2>5. PICK e : e = IF u.status = "none" \/ u.status = "ll" THEN "all" ELSE x.counted
    OBVIOUS
  <2>6. (e = u.counted \/ e = "all") /\ e \in Counts \union {"all"}
    BY <2>4, <2>5 DEF Same, State
  <2>7. r.u = [x EXCEPT !.status = "profiling", !.counted = e]
    BY <2>3, <2>4, <2>5 DEF Same, State
  <2>8. Tuning(u, r.u, e)
    BY <2>6, <2>7, TunedTask
  <2>9. QED
    BY <2>6, <2>8
<1>3. QED
  BY <1>1, <1>2

LEMMA Switch2llKept ==
  ASSUME NEW u, Core(u), u.fault = NoFault, NEW r \in Switch2ll(u)
  PROVE  Tuning(u, r.u, u.counted)
<1>1. CASE u.status = "ll"
  <2>1. r \in Result({u}, FALSE)
    BY <1>1 DEF Switch2ll
  <2>2. r.u = u
    BY <2>1, InResult
  <2>3. QED
    BY <2>2, TunedNot
<1>2. CASE u.status # "ll"
  <2>1. PICK x \in TaskSet(u) :
          r \in Result({[x EXCEPT !.status = "ll"]}, TRUE)
                \union Result({[x EXCEPT !.status = "none"]}, FALSE)
    BY <1>2 DEF Switch2ll
  <2>2. \/ r.u \in {[x EXCEPT !.status = "ll"]}
        \/ r.u \in {[x EXCEPT !.status = "none"]}
    BY <2>1, InResult, Zenon
  <2>3. PICK s \in {"ll", "none"} : r.u = [x EXCEPT !.status = s]
    BY <2>2
  <2>4. QED
    BY <2>3, TunedStatus
<1>3. QED
  BY <1>1, <1>2

LEMMA SetupKept ==
  ASSUME NEW u, Core(u), u.fault = NoFault, NEW what \in {"pqos_cmt", "uncore"},
         NEW v \in Setup(u, what)
  PROVE  Tuning(u, v, u.counted)
<1>1. PICK x \in TaskSet(u), s \in {what, "profiling", "none"} :
        v = [x EXCEPT !.status = s]
  BY DEF Setup
<1>2. s \in {"none", "profiling", "ll", "pqos_cmt", "uncore"}
  OBVIOUS
<1>3. QED
  BY <1>1, <1>2, TunedStatus, Zenon

LEMMA PqosKept ==
  ASSUME NEW u, Core(u), u.fault = NoFault,
         NEW r \in Switch2pqoscmt(u) \union Switch2pqosmbm(u)
  PROVE  Stop(r.u) \/ Tuning(u, r.u, u.counted)
<1>1. PICK y \in UseDyn(u) :
        r.u \in (IF y.fault = NoFault THEN Setup(y, "pqos_cmt") ELSE {y})
  BY DEF Switch2pqoscmt, Switch2pqosmbm, Result, Then
<1>2. CASE y = u
  BY <1>1, <1>2, SetupKept
<1>3. CASE Good(y) /\ y.fault # NoFault
  BY <1>1, <1>3 DEF Stop
<1>4. QED
  BY <1>2, <1>3, UseDynKept

\* The call-chain window is entered with its first event, left with all.
LEMMA RetunedKept ==
  ASSUME NEW u, Core(u), u.fault = NoFault, NEW e \in Counts \union {"all"},
         NEW v, NEW y \in Then(UseDyn(u), TaskSet),
         v = [y EXCEPT !.counted = IF y.fault = NoFault THEN e ELSE @]
  PROVE  Stop(v) \/ Tuning(u, v, e)
<1>1. PICK z \in UseDyn(u) :
        y \in (IF z.fault = NoFault THEN TaskSet(z) ELSE {z})
  BY DEF Then
<1>2. CASE z = u
  <2>1. Same(u, y) /\ y.fault = NoFault /\ y \in TaskSet(u)
    BY <1>1, <1>2, TaskSetSame DEF Core, Same
  <2>2. PICK s \in {"none", "profiling", "ll", "pqos_cmt", "uncore"} : s = y.status
    BY <2>1 DEF Same, State
  <2>3. v = [y EXCEPT !.status = s, !.counted = e]
    BY <2>1, <2>2 DEF Same, State
  <2>4. QED
    BY <2>1, <2>3, TunedTask, Zenon
<1>3. CASE Good(z) /\ z.fault # NoFault
  <2>1. y = z
    BY <1>1, <1>3
  <2>2. v = z
    BY <1>3, <2>1 DEF Good, Core, State
  <2>3. QED
    BY <1>3, <2>2 DEF Stop
<1>4. QED
  BY <1>2, <1>3, UseDynKept

LEMMA CallchainKept ==
  ASSUME NEW u, Core(u), u.fault = NoFault
  PROVE  /\ \A r \in Switch2callchain(u) : Stop(r.u) \/ Tuning(u, r.u, Rma)
         /\ \A r \in Leavecallchain(u) : Stop(r.u) \/ Tuning(u, r.u, "all")
<1>1. Rma \in Counts \union {"all"} /\ "all" \in Counts \union {"all"}
  BY WindowsAssumption
<1>2. ASSUME NEW r \in Switch2callchain(u)
      PROVE  Stop(r.u) \/ Tuning(u, r.u, Rma)
  <2>1. r.u \in {[y EXCEPT !.counted = IF y.fault = NoFault THEN Rma ELSE @]
                   : y \in Then(UseDyn(u), TaskSet)}
    BY InResult, Zenon DEF Switch2callchain
  <2>2. QED
    BY <1>1, <2>1, RetunedKept, Zenon
<1>3. ASSUME NEW r \in Leavecallchain(u)
      PROVE  Stop(r.u) \/ Tuning(u, r.u, "all")
  <2>1. r.u \in {[y EXCEPT !.counted = IF y.fault = NoFault THEN "all" ELSE @]
                   : y \in Then(UseDyn(u), TaskSet)}
    BY InResult, Zenon DEF Leavecallchain
  <2>2. QED
    BY <1>1, <2>1, RetunedKept, Zenon
<1>4. QED
  BY <1>2, <1>3


\* What is counted once the preop of c has run: e.
Retuned(u, c, e) ==
  /\ IF c = "CALLCHAIN" THEN e = Rma ELSE e \in {u.counted, "all"}
  /\ c \in {"BACK", "HOME"} /\ CurType(u) = "CALLCHAIN" => e = "all"
  /\ c \in {"REFRESH", "SORT", "MAP_GET", "COUNT"} => e = u.counted

LEMMA PreopKept ==
  ASSUME NEW u, Core(u), u.fault = NoFault, NEW c, NEW r \in Preop(u, c)
  PROVE  \/ Stop(r.u)
         \/ \E e \in Counts \union {"all"} : Tuning(u, r.u, e) /\ Retuned(u, c, e)
<1>0. /\ u.counted \in Counts \union {"all"} /\ Rma \in Counts \union {"all"}
      /\ "all" \in Counts \union {"all"}
  BY WindowsAssumption DEF Core, State
<1> DEFINE t == CurType(u)
<1>1. CASE c = "HOME" /\ t # "CALLCHAIN"
  <2>1. r \in Switch2profiling(u)
    BY <1>1 DEF Preop
  <2>2. Tuning(u, r.u, u.counted) \/ Tuning(u, r.u, "all")
    BY <2>1, Switch2profilingKept
  <2>3. Retuned(u, c, u.counted) /\ Retuned(u, c, "all")
    BY <1>1 DEF Retuned
  <2>4. QED
    BY <1>0, <2>2, <2>3, Zenon
<1>2. CASE \/ c = "NODE_OVERVIEW"
           \/ c = "BACK" /\ t \in {"LAT", "NODE_DETAIL", "PQOS_CMT"}
  <2>1. r \in Switch2profiling(u)
    BY <1>2 DEF Preop
  <2>2. Tuning(u, r.u, u.counted) \/ Tuning(u, r.u, "all")
    BY <2>1, Switch2profilingKept
  <2>3. Retuned(u, c, u.counted) /\ Retuned(u, c, "all")
    BY <1>2 DEF Retuned
  <2>4. QED
    BY <1>0, <2>2, <2>3, Zenon
<1>3. CASE (c = "BACK" /\ t = "PQOS_MBM") \/ c \in {"PQOS_CMT", "PQOS_MBM"}
  <2>1. r \in Switch2pqoscmt(u) \union Switch2pqosmbm(u)
    BY <1>3 DEF Preop
  <2>2. Stop(r.u) \/ Tuning(u, r.u, u.counted)
    BY <2>1, PqosKept
  <2>3. Retuned(u, c, u.counted)
    BY <1>3 DEF Retuned
  <2>4. QED
    BY <1>0, <2>2, <2>3, Zenon
<1>4. CASE c \in {"BACK", "HOME"} /\ t = "CALLCHAIN"
  <2>1. r \in Leavecallchain(u)
    BY <1>4 DEF Preop
  <2>2. Stop(r.u) \/ Tuning(u, r.u, "all")
    BY <2>1, CallchainKept
  <2>3. Retuned(u, c, "all")
    BY <1>4 DEF Retuned
  <2>4. QED
    BY <1>0, <2>2, <2>3, Zenon
<1>5. CASE c = "CALLCHAIN"
  <2>1. r \in Switch2callchain(u)
    BY <1>5 DEF Preop
  <2>2. Stop(r.u) \/ Tuning(u, r.u, Rma)
    BY <2>1, CallchainKept
  <2>3. Retuned(u, c, Rma)
    BY <1>5 DEF Retuned
  <2>4. QED
    BY <1>0, <2>2, <2>3, Zenon
<1>6. CASE c = "LAT"
  <2>1. r \in Switch2ll(u)
    BY <1>6 DEF Preop
  <2>2. Tuning(u, r.u, u.counted) /\ Retuned(u, c, u.counted)
    BY <1>6, <2>1, Switch2llKept DEF Retuned
  <2>3. QED
    BY <1>0, <2>2, Zenon
<1>7. CASE c = "ACCDST"
  <2>1. r \in Result(UseDyn(u), FALSE)
    BY <1>7 DEF Preop, Switch2accdst
  <2>2. Stop(r.u) \/ Tuning(u, r.u, u.counted)
    BY <2>1, InResult, UseDynKept, TunedNot DEF Stop
  <2>3. Retuned(u, c, u.counted)
    BY <1>7 DEF Retuned
  <2>4. QED
    BY <1>0, <2>2, <2>3, Zenon
<1>8. CASE c = "NODE_DETAIL"
  <2>1. r \in Result({v \in Setup(u, "uncore") : v.status # "profiling"}, FALSE)
    BY <1>8 DEF Preop, Switch2uncore
  <2>2. r.u \in {v \in Setup(u, "uncore") : v.status # "profiling"}
    BY <2>1, InResult, Zenon
  <2>3. Tuning(u, r.u, u.counted)
    BY <2>2, SetupKept
  <2>4. Retuned(u, c, u.counted)
    BY <1>8 DEF Retuned
  <2>5. QED
    BY <1>0, <2>3, <2>4, Zenon
<1>9. CASE /\ ~(c = "HOME" /\ t # "CALLCHAIN")
           /\ ~(c = "BACK" /\ t \in {"LAT", "NODE_DETAIL", "PQOS_CMT"})
           /\ ~(c = "BACK" /\ t = "PQOS_MBM")
           /\ ~(c \in {"BACK", "HOME"} /\ t = "CALLCHAIN")
           /\ c \notin {"NODE_OVERVIEW", "PQOS_CMT", "PQOS_MBM", "CALLCHAIN",
                        "LAT", "ACCDST", "NODE_DETAIL"}
  <2>1. r \in Result({u}, FALSE)
    BY <1>9 DEF Preop
  <2>2. Tuning(u, r.u, u.counted)
    BY <2>1, InResult, TunedNot
  <2>3. Retuned(u, c, u.counted)
    BY <1>9 DEF Retuned
  <2>4. QED
    BY <1>0, <2>2, <2>3, Zenon
<1>10. QED
  BY <1>1, <1>2, <1>3, <1>4, <1>5, <1>6, <1>7, <1>8, <1>9

-----------------------------------------------------------------------------
(* What is counted when a command is given.                                *)

\* A command that the current window has an op for; a call-chain window that
\* was never made is left unnoticed.
Given(u, c) ==
  /\ c \in Offers(CurType(u)) /\ (u.cur # 0 \/ c = "HOME")
  /\ Unnoticed(u, c) => u.missed

LEMMA CurrentPage ==
  ASSUME NEW u, Good(u), u.fault = NoFault, u.cur # 0
  PROVE  /\ u.cur = Len(u.pages) /\ u.cur \in 1..Len(u.pages) /\ u.cur >= 1
         /\ Current(u) = u.pages[Len(u.pages)] /\ Current(u) = u.pages[u.cur]
         /\ Current(u) \in Page /\ Sound(Current(u)) /\ Held(Current(u))
<1>1. /\ u.pages \in Seq(Page) /\ Len(u.pages) \in Nat
      /\ u.cur = Len(u.pages) /\ u.cur \in 1..Len(u.pages)
  BY DEF Good, Core, State
<1>2. u.pages[u.cur] \in Page
  BY <1>1, ElementOfSeq
<1>3. QED
  BY <1>1, <1>2 DEF Current, Good, Core

\* The type of the call-chain window.
LEMMA CallchainType ==
  ASSUME NEW u, Good(u), u.fault = NoFault, u.cur # 0
  PROVE  /\ CurType(u) = "CALLCHAIN" <=>
              Current(u).cmd = "CALLCHAIN" /\ Current(u).dyn # "unmade"
         /\ Current(u).dyn = "unmade" => CurType(u) = "RAW_NUM"
<1>1. Current(u) \in Page
  BY CurrentPage
<1>2. QED
  BY <1>1 DEF CurType, WinType, Page, Forward

\* A command that adds a page to others is given in a window that shows all
\* events.
LEMMA OnwardCounted ==
  ASSUME NEW u, Good(u), u.fault = NoFault, NEW c \in Forward \ {"HOME"},
         Given(u, c), ~u.missed
  PROVE  /\ \A i \in 1..Len(u.pages) : u.pages[i].cmd # "CALLCHAIN"
         /\ u.counted = "all"
<1>0. u.cur # 0 /\ c \in Offers(CurType(u)) /\ ~Unnoticed(u, c)
  BY DEF Given
<1>1. CurType(u) # "CALLCHAIN"
  BY <1>0 DEF Offers, Forward, Ll
<1>2. Current(u).cmd # "CALLCHAIN"
  BY <1>0, <1>1, CallchainType DEF Unnoticed
<1>3. /\ u.pages[Len(u.pages)].cmd # "CALLCHAIN" /\ Len(u.pages) \in Nat
  BY <1>0, <1>2, CurrentPage DEF Good, Core, State
<1>4. QED
  BY <1>3 DEF Good, Events, Wanted

\* So does the window that HOME and BACK leave, but for the call-chain window.
LEMMA LeavingCounted ==
  ASSUME NEW u, Good(u), u.fault = NoFault, NEW c \in {"BACK", "HOME"},
         Given(u, c), ~u.missed, CurType(u) # "CALLCHAIN"
  PROVE  u.counted = "all"
<1>1. CASE u.cur = 0
  <2>1. Len(u.pages) = 0
    BY <1>1 DEF Good
  <2>2. QED
    BY <2>1 DEF Good, Events, Wanted
<1>2. CASE u.cur # 0
  <2>1. ~Unnoticed(u, c) /\ c \in Offers(CurType(u))
    BY DEF Given
  <2>2. c = "BACK" => CurType(u) # "RAW_NUM"
    BY <2>1 DEF Offers, Ll
  <2>3. Current(u).cmd # "CALLCHAIN"
    BY <1>2, <2>1, <2>2, CallchainType DEF Unnoticed, Forward
  <2>4. u.pages[Len(u.pages)].cmd # "CALLCHAIN"
    BY <1>2, <2>3, CurrentPage
  <2>5. QED
    BY <2>4 DEF Good, Events, Wanted
<1>3. QED
  BY <1>1, <1>2

\* BACK is not a command of the first page.
LEMMA BackFromLater ==
  ASSUME NEW u, Good(u), u.fault = NoFault, Given(u, "BACK")
  PROVE  u.cur >= 2
<1>1. u.cur # 0 /\ CurType(u) # "RAW_NUM"
  BY DEF Given, Offers, Ll
<1>2. Current(u).cmd # "HOME"
  BY <1>1 DEF CurType, WinType
<1>3. u.cur # 1
  BY <1>1, <1>2, CurrentPage DEF Good, Core
<1>4. QED
  BY <1>1, <1>3, CurrentPage

-----------------------------------------------------------------------------
(* Commands.                                                               *)

\* The line that is highlighted is in the buffer, but for a buffer's pages.
LEMMA LineReadKept ==
  ASSUME NEW u, Core(u), u.fault = NoFault, Current(u) \in Page,
         Sound(Current(u)), Held(Current(u)), Current(u).cmd # "LATNODE",
         Current(u).reg.hl # NoLine
  PROVE  LineRead(u) = {u}
<1>1. /\ Current(u).reg.hl \in Int /\ Current(u).reg.hl >= NoLine
      /\ Current(u).reg.cap \in Nat /\ Current(u).reg.hl < Current(u).reg.cap
  BY DEF Page, Reg, Sound, Scrolled, Placed, Held
<1>2. Current(u).reg.hl \in 0 .. Current(u).reg.cap - 1
  BY <1>1 DEF NoLine
<1>3. QED
  BY <1>2 DEF LineRead

\* A new page, once its preop has run.
LEMMA OnwardKept ==
  ASSUME NEW u, Good(u), u.fault = NoFault, NEW c \in Forward \ {"HOME"},
         Given(u, c), NEW e, NEW v, Tuning(u, v, e), Retuned(u, c, e),
         NEW who \in {"all", "proc", "lwp"}, NEW smpl,
         NEW w \in OpPageNext(v, c, who, smpl)
  PROVE  Good(w)
<1>1. /\ Core(v) /\ v.pages = u.pages /\ v.cur = u.cur /\ v.missed = u.missed
      /\ v.fault = NoFault /\ v.counted = e
  BY DEF Tuning, Tuned
<1>2. v.cur = Len(v.pages) /\ Len(v.pages) # 0
  BY <1>1 DEF Good, Given
<1>3. CountedFor(v, c)
  BY <1>1, OnwardCounted DEF CountedFor, Retuned
<1>4. QED
  BY <1>1, <1>2, <1>3, OpPageNextKept

LEMMA OpSwitch2llKept ==
  ASSUME NEW u, Good(u), u.fault = NoFault, Given(u, "LAT"),
         NEW e, NEW v, Tuning(u, v, e), Retuned(u, "LAT", e),
         NEW who \in {"all", "proc", "lwp"}, NEW smpl,
         NEW w \in OpSwitch2ll(v, "LAT", who, smpl)
  PROVE  Good(w)
<1>1. PICK y \in UseDyn(v) :
        w \in (IF y.fault = NoFault THEN OpPageNext(y, "LAT", who, smpl) ELSE {y})
  BY DEF OpSwitch2ll, Then
<1>2. CASE y = v
  <2>1. w \in OpPageNext(v, "LAT", who, smpl)
    BY <1>1, <1>2 DEF Tuning
  <2>2. QED
    BY <2>1, OnwardKept DEF Forward
<1>3. CASE Good(y) /\ y.fault # NoFault
  BY <1>1, <1>3
<1>4. QED
  BY <1>2, <1>3, UseDynKept DEF Tuning, Tuned

LEMMA OpSwitch2llcallchainKept ==
  ASSUME NEW u, Good(u), u.fault = NoFault, Given(u, "LLCALLCHAIN"),
         NEW e, NEW v, Tuning(u, v, e), Retuned(u, "LLCALLCHAIN", e), Good(v),
         NEW who \in {"all", "proc", "lwp"}, NEW smpl,
         NEW w \in OpSwitch2llcallchain(v, "LLCALLCHAIN", who, smpl)
  PROVE  Good(w)
<1> DEFINE Go(y) == OpPageNext(y, "LLCALLCHAIN", who, smpl)
<1>0. /\ Core(v) /\ v.fault = NoFault /\ v.pages = u.pages /\ v.cur = u.cur
      /\ v.cur # 0
  BY DEF Tuning, Tuned, Given
<1>1. PICK y \in UseDyn(v) :
        w \in (IF y.fault = NoFault
               THEN IF Current(y).reg.hl = NoLine THEN {y} ELSE Then(LineRead(y), Go)
               ELSE {y})
  BY DEF OpSwitch2llcallchain, Then
<1>2. CASE y = v
  <2>1. w \in (IF Current(v).reg.hl = NoLine THEN {v} ELSE Then(LineRead(v), Go))
    BY <1>0, <1>1, <1>2
  <2>2. CASE Current(v).reg.hl = NoLine
    BY <2>1, <2>2
  <2>3. CASE Current(v).reg.hl # NoLine
    <3>1. CurType(v) = "LAT"
      <4>1. "LLCALLCHAIN" \in Offers(CurType(u)) /\ CurType(v) = CurType(u)
        BY <1>0 DEF Given, CurType, Current
      <4>2. QED
        BY <4>1 DEF Offers, Ll
    <3>2. /\ Current(v) \in Page /\ Sound(Current(v)) /\ Held(Current(v))
      BY <1>0, CurrentPage
    <3>3. Current(v).cmd # "LATNODE"
      BY <1>0, <3>1 DEF CurType, WinType
    <3>4. LineRead(v) = {v}
      BY <1>0, <2>3, <3>2, <3>3, LineReadKept
    <3>5. w \in OpPageNext(v, "LLCALLCHAIN", who, smpl)
      BY <1>0, <2>1, <2>3, <3>4 DEF Then
    <3>6. QED
      BY <3>5, OnwardKept DEF Forward
  <2>4. QED
    BY <2>2, <2>3
<1>3. CASE Good(y) /\ y.fault # NoFault
  BY <1>1, <1>3
<1>4. QED
  BY <1>0, <1>2, <1>3, UseDynKept

\* The window names the event that is counted.
LEMMA OpCallchainCountKept ==
  ASSUME NEW u, Good(u), u.fault = NoFault, u.cur # 0,
         CurType(u) = "CALLCHAIN", NEW w \in OpCallchainCount(u)
  PROVE  Good(w)
<1> DEFINE Counted(y) == UNION {OpRefresh(CountidSet(x, n))
                                   : x \in TaskSet(y), n \in Counts}
<1>0. w \in UNION {IF y.fault = NoFault THEN Counted(y) ELSE {y} : y \in UseDyn(u)}
  BY DEF OpCallchainCount, Then
<1> HIDE DEF Counted
<1>1. PICK y \in UseDyn(u) : w \in (IF y.fault = NoFault THEN Counted(y) ELSE {y})
  BY <1>0
<1>2. CASE y = u /\ Current(u).dyn = "live"
  <2>1. PICK x \in TaskSet(u), n \in Counts : w \in OpRefresh(CountidSet(x, n))
    <3>1. w \in Counted(u)
      BY <1>1, <1>2
    <3>2. QED
      BY <3>1 DEF Counted
  <2>2. Same(u, x) /\ Core(x) /\ Good(x)
    BY TaskSetSame, SameKept DEF Good, Core
  <2>3. x.fault = NoFault /\ x.cur # 0 /\ x.cur = u.cur /\ x.pages = u.pages
    BY <2>2 DEF Same
  <2>4. PICK p : p = Current(x)
    OBVIOUS
  <2>5. /\ p \in Page /\ Sound(p) /\ Held(p) /\ x.cur = Len(x.pages)
        /\ x.cur \in 1..Len(x.pages) /\ x.cur >= 1 /\ p = x.pages[x.cur]
        /\ p.dyn = "live" /\ p.cmd = "CALLCHAIN"
    BY <1>2, <2>2, <2>3, <2>4, CurrentPage, CallchainType DEF Current
  <2>6. PICK q : q = [p EXCEPT !.count = n]
    OBVIOUS
  <2>7. /\ q \in Page /\ q.cmd = p.cmd /\ q.dyn = p.dyn /\ q.reg = p.reg
        /\ q.inited = p.inited /\ q.count = n
    BY <2>5, <2>6 DEF Page
  <2>8. Sound(q) /\ Held(q)
    BY <2>5, <2>7 DEF Sound, Held, Listing
  <2>9. PICK ps : ps = [x.pages EXCEPT ![x.cur] = q]
    OBVIOUS
  <2>10. PICK v : v = [x EXCEPT !.counted = n, !.pages = ps]
    OBVIOUS
  <2>11. w \in OpRefresh(v)
    <3>1. CountidSet(x, n) = v
      BY <2>2, <2>5, <2>6, <2>9, <2>10 DEF Core, State, CountidSet
    <3>2. QED
      BY <2>1, <3>1
  <2>12. x.pages \in Seq(Page) /\ Len(x.pages) \in Nat /\ x \in State
    BY <2>2 DEF Core, State
  <2>13. /\ ps \in Seq(Page) /\ Len(ps) = Len(x.pages) /\ ps[x.cur] = q
         /\ \A i \in 1..Len(x.pages) : i # x.cur => ps[i] = x.pages[i]
    BY <2>5, <2>7, <2>9, <2>12, ExceptSeq
  <2>14. /\ v \in State /\ v.pages = ps /\ v.fault = NoFault /\ v.cur = x.cur
         /\ v.counted = n /\ v.missed = x.missed
    BY <2>3, <2>10, <2>12, <2>13 DEF State
  <2>15. \A i \in 1..Len(ps) : Sound(ps[i]) /\ Held(ps[i])
    BY <2>2, <2>3, <2>8, <2>13 DEF Core
  <2>16. Len(ps) > 0 => ps[1].cmd = "HOME"
    BY <2>2, <2>5, <2>7, <2>13 DEF Core
  <2>17. Core(v)
    BY <2>14, <2>15, <2>16 DEF Core, Excused, NoFault
  <2>18. Events(v)
    <3>1. Wanted(ps) = n
      BY <2>5, <2>7, <2>13 DEF Wanted
    <3>2. ~x.missed => \A i \in 1..Len(ps) : i < Len(ps) => ps[i].cmd # "CALLCHAIN"
      BY <2>2, <2>3, <2>5, <2>13 DEF Good, Events
    <3>3. QED
      BY <2>14, <3>1, <3>2 DEF Events
  <2>19. QED
    BY <2>5, <2>11, <2>13, <2>14, <2>17, <2>18, OpRefreshKept
<1>3. CASE Good(y) /\ y.fault # NoFault
  BY <1>1, <1>3
<1>4. QED
  BY <1>2, <1>3, UseDynKept DEF Good

LEMMA WhoKept ==
  ASSUME NEW u, Good(u), u.fault = NoFault, u.cur # 0, NEW c
  PROVE  (IF Who(CurType(u), c) = "same" THEN Current(u).who
          ELSE Who(CurType(u), c)) \in {"all", "proc", "lwp"}
BY CurrentPage DEF Page, Who

\* The commands that stay with the page.
Staying == {"REFRESH", "SORT", "MAP_GET", "COUNT"}

LEMMA OffersKnown ==
  ASSUME NEW t, NEW c \in Offers(t)
  PROVE  /\ c \in Forward \union {"BACK"} \union Staying
         /\ c = "COUNT" => t = "CALLCHAIN"
BY DEF Offers, Ll, Forward, Staying

LEMMA StayingKept ==
  ASSUME NEW u, Good(u), u.fault = NoFault, NEW c \in Staying, Given(u, c),
         NEW e, NEW v, Tuning(u, v, e), Retuned(u, c, e), NEW smpl,
         NEW w \in Op(v, c, smpl)
  PROVE  Good(w)
<1>1. /\ Core(v) /\ v.pages = u.pages /\ v.cur = u.cur /\ v.missed = u.missed
      /\ v.fault = NoFault /\ v.counted = u.counted /\ v.next = u.next
  BY DEF Tuning, Tuned, Retuned, Staying
<1>2. Events(v) /\ Good(v) /\ v.cur # 0
  BY <1>1 DEF Good, Events, Given, Staying
<1>3. CASE c = "COUNT"
  <2>1. CurType(v) = "CALLCHAIN"
    BY <1>1, <1>3, OffersKnown DEF CurType, Current, Given
  <2>2. w \in OpCallchainCount(v)
    BY <1>3 DEF Op
  <2>3. QED
    BY <1>1, <1>2, <2>1, <2>2, OpCallchainCountKept
<1>4. CASE c # "COUNT"
  <2>1. w \in OpRefresh(v)
    BY <1>4 DEF Op, OpSort, Staying
  <2>2. v.cur = Len(v.pages) /\ v.cur >= 1
    BY <1>1, <1>2, CurrentPage
  <2>3. QED
    BY <1>1, <1>2, <2>1, <2>2, OpRefreshKept
<1>5. QED
  BY <1>3, <1>4

LEMMA LeavingKept ==
  ASSUME NEW u, Good(u), u.fault = NoFault, NEW c \in {"BACK", "HOME"},
         Given(u, c), NEW e, NEW v, Tuning(u, v, e), Retuned(u, c, e),
         NEW smpl, NEW w \in Op(v, c, smpl)
  PROVE  Good(w)
<1>1. /\ Core(v) /\ v.pages = u.pages /\ v.cur = u.cur /\ v.missed = u.missed
      /\ v.fault = NoFault /\ v.counted = e
  BY DEF Tuning, Tuned
<1>2. ~v.missed => v.counted = "all"
  <2>1. ASSUME ~u.missed PROVE e = "all"
    <3>1. CASE CurType(u) = "CALLCHAIN"
      BY <3>1 DEF Retuned
    <3>2. CASE CurType(u) # "CALLCHAIN"
      <4>1. u.counted = "all"
        BY <2>1, <3>2, LeavingCounted
      <4>2. QED
        BY <4>1 DEF Retuned
    <3>3. QED
      BY <3>1, <3>2
  <2>2. QED
    BY <1>1, <2>1
<1>3. CASE c = "HOME"
  <2>1. w \in OpHome(v, smpl)
    BY <1>3 DEF Op
  <2>2. QED
    BY <1>1, <1>2, <2>1, OpHomeKept
<1>4. CASE c = "BACK"
  <2>1. w \in OpPagePrev(v, smpl)
    BY <1>4 DEF Op
  <2>2. v.cur >= 2 /\ v.cur = Len(v.pages)
    BY <1>1, <1>4, BackFromLater DEF Good
  <2>3. ~v.missed => \A i \in 1..Len(v.pages) :
                       i < Len(v.pages) => v.pages[i].cmd # "CALLCHAIN"
    BY <1>1 DEF Good, Events
  <2>4. QED
    BY <1>1, <1>2, <2>1, <2>2, <2>3, OpPagePrevKept
<1>5. QED
  BY <1>3, <1>4

LEMMA OpKept ==
  ASSUME NEW u, Good(u), u.fault = NoFault, NEW c, Given(u, c),
         NEW e \in Counts \union {"all"},
         NEW v, Tuning(u, v, e), Retuned(u, c, e), NEW smpl,
         NEW w \in Op(v, c, smpl)
  PROVE  Good(w)
<1>1. c \in Forward \union {"BACK"} \union Staying
  BY OffersKnown DEF Given
<1>2. CASE c \in Staying
  BY <1>2, StayingKept
<1>3. CASE c \in {"BACK", "HOME"}
  BY <1>3, LeavingKept
<1>4. CASE c \in Forward \ {"HOME"}
  <2>1. u.cur # 0 /\ v.cur = u.cur /\ v.pages = u.pages
    BY <1>4 DEF Given, Tuning, Tuned
  <2>2. Current(v) = Current(u) /\ CurType(v) = CurType(u)
    BY <2>1 DEF Current, CurType
  <2>3. PICK who \in {"all", "proc", "lwp"} :
          who = IF Who(CurType(v), c) = "same" THEN Current(v).who
                ELSE Who(CurType(v), c)
    BY <2>1, <2>2, WhoKept
  <2>4. CASE c = "LAT"
    <3>1. w \in OpSwitch2ll(v, "LAT", who, smpl)
      BY <2>3, <2>4 DEF Op
    <3>2. QED
      BY <2>4, <3>1, OpSwitch2llKept
  <2>5. CASE c = "LLCALLCHAIN"
    <3>1. w \in OpSwitch2llcallchain(v, "LLCALLCHAIN", who, smpl)
      BY <2>3, <2>5 DEF Op
    <3>2. Good(v)
      <4>1. v.counted = u.counted \/ v.counted = "all"
        BY <2>5 DEF Retuned, Tuning
      <4>2. ~u.missed => u.counted = "all"
        BY <1>4, OnwardCounted
      <4>3. QED
        BY <4>1, <4>2 DEF Tuning, Tuned, Good, Events
    <3>3. QED
      BY <2>5, <3>1, <3>2, OpSwitch2llcallchainKept
  <2>6. CASE c \notin {"LAT", "LLCALLCHAIN"}
    <3>1. w \in OpPageNext(v, c, who, smpl)
      BY <1>4, <2>3, <2>6 DEF Op, Forward
    <3>2. QED
      BY <1>4, <3>1, OnwardKept
  <2>7. QED
    BY <2>4, <2>5, <2>6
<1>5. QED
  BY <1>1, <1>2, <1>3, <1>4

\* A command: its preop, and its op unless the preop has stopped the program.
LEMMA CmdExecuteKept ==
  ASSUME NEW u, Good(u), u.fault = NoFault, NEW c, u.cur # 0 \/ c = "HOME",
         NEW w \in CmdExecute(u, c)
  PROVE  Good(w)
<1>1. CASE c \notin Offers(CurType(u))
  BY <1>1 DEF CmdExecute
<1>2. CASE c \in Offers(CurType(u))
  <2>0. u \in State /\ u.missed \in BOOLEAN
    BY DEF Good, Core, State
  <2>1. (u.missed \/ Unnoticed(u, c)) \in BOOLEAN
    BY <2>0, Zenon DEF Unnoticed
  <2>2. PICK m \in BOOLEAN : m = (u.missed \/ Unnoticed(u, c))
    BY <2>1, Zenon
  <2>3. PICK v : v = [u EXCEPT !.missed = m]
    OBVIOUS
  <2>4. w \in UNION {IF r.u.fault = NoFault THEN Op(r.u, c, r.smpl) ELSE {r.u}
                       : r \in Preop(v, c)}
    BY <1>2, <2>2, <2>3 DEF CmdExecute
  <2>5. PICK r \in Preop(v, c) :
          w \in (IF r.u.fault = NoFault THEN Op(r.u, c, r.smpl) ELSE {r.u})
    BY <2>4, Zenon
  <2>6. /\ v \in State /\ v.pages = u.pages /\ v.cur = u.cur /\ v.next = u.next
        /\ v.fault = u.fault /\ v.counted = u.counted
        /\ v.missed = m
    BY <2>0, <2>3 DEF State
  <2>7. (u.missed => m) /\ (Unnoticed(u, c) => m)
    BY <2>2, Zenon
  <2>8. Good(v)
    <3>1. Core(v)
      BY <2>6, CoreOf DEF Good
    <3>2. QED
      BY <2>6, <2>7, <3>1 DEF Good, Events
  <2>9. Given(v, c)
    BY <1>2, <2>6, <2>7 DEF Given, CurType, Current, Unnoticed
  <2>10. \/ Stop(r.u)
         \/ \E e \in Counts \union {"all"} : Tuning(v, r.u, e) /\ Retuned(v, c, e)
    BY <2>6, <2>8, PreopKept DEF Good
  <2>11. CASE Stop(r.u)
    BY <2>5, <2>11 DEF Stop
  <2>12. CASE \E e \in Counts \union {"all"} : Tuning(v, r.u, e) /\ Retuned(v, c, e)
    <3>1. PICK e \in Counts \union {"all"} : Tuning(v, r.u, e) /\ Retuned(v, c, e)
      BY <2>12
    <3>2. w \in Op(r.u, c, r.smpl)
      BY <2>5, <3>1 DEF Tuning
    <3>3. QED
      BY <2>6, <2>8, <2>9, <3>1, <3>2, OpKept
  <2>13. QED
    BY <2>10, <2>11, <2>12
<1>3. QED
  BY <1>1, <1>2

-----------------------------------------------------------------------------
(* Keys.                                                                   *)

\* A key moves the highlight of the window that is there; only in the list of
\* a buffer's pages may it look at a line that is not in the buffer.
LEMMA WinScrollKept ==
  ASSUME NEW u, Good(u), u.fault = NoFault, u.cur # 0,
         Listing(Current(u)), NEW key, NEW w \in WinScroll(u, key)
  PROVE  Good(w)
<1>0. PICK p, k : p = Current(u) /\ k = u.cur
  OBVIOUS
<1>1. /\ k = Len(u.pages) /\ k \in 1..Len(u.pages) /\ p = u.pages[k]
      /\ p \in Page /\ Sound(p) /\ Held(p) /\ Listing(p)
      /\ u \in State /\ Len(u.pages) \in Nat /\ Core(u)
  BY <1>0, CurrentPage DEF Good, Core, State
<1>2. PICK r \in Reg : r = p.reg
  BY <1>1 DEF Page
<1>3. PICK s : s = LineScroll(r, key)
  OBVIOUS
<1>4. Scrolled(r) /\ r.height >= 1 /\ r.total <= r.cap
  BY <1>1, <1>2 DEF Sound, Held
<1>5. /\ s \in Reg /\ Scrolled(s)
      /\ s.height = r.height /\ s.cap = r.cap /\ s.total = r.total
      /\ r.total <= 1 /\ r.hl <= 0 => s = r
      /\ r.total <= r.cap /\ (r.hl < r.cap \/ r.hl = NoLine) =>
           /\ LinesAsked(r, s) \subseteq 0 .. r.cap - 1
           /\ s.hl < r.cap \/ s.hl = NoLine
  BY <1>3, <1>4, KeyInBuffer
<1>6. PICK v : v = [u EXCEPT !.pages[k].reg = s]
  OBVIOUS
<1>7. /\ Kin(u, v) /\ v.fault = NoFault /\ v.pages[k].reg = s
      /\ \A i \in 1..Len(u.pages) : i # k => v.pages[i] = u.pages[i]
  BY <1>1, <1>5, <1>6, WithRegion
<1>8. /\ v \in State /\ Len(v.pages) = Len(u.pages) /\ v.cur = u.cur
      /\ v.next = u.next
      /\ v.pages[k].cmd = p.cmd /\ v.pages[k].dyn = p.dyn
      /\ v.pages[k].inited = p.inited /\ v.pages[k].count = p.count
      /\ v.pages[1].cmd = "HOME"
  BY <1>1, <1>7 DEF Kin, Core
<1>9. Sound(v.pages[k])
  <2>1. p.cmd \in Pqos => s = r
    BY <1>1, <1>2, <1>5 DEF Sound
  <2>2. QED
    BY <1>1, <1>2, <1>4, <1>5, <1>7, <1>8, <2>1 DEF Sound, Listing
<1>10. Held(v.pages[k])
  BY <1>1, <1>2, <1>4, <1>5, <1>7, <1>8 DEF Held
<1>11. \A i \in 1..Len(v.pages) : Sound(v.pages[i]) /\ Held(v.pages[i])
  BY <1>1, <1>7, <1>8, <1>9, <1>10 DEF Core
<1>12. Core(v)
  BY <1>7, <1>8, <1>11 DEF Core, Excused, NoFault
<1>13. Good(v)
  BY <1>1, <1>7, <1>8, <1>12, KinEvents DEF Good
<1>14. w = v \/ (p.cmd = "LATNODE" /\ w = Fails(v, "read", "key"))
  <2>1. p.cmd # "LATNODE" => LinesAsked(r, s) \subseteq 0 .. r.cap - 1
    BY <1>1, <1>2, <1>4, <1>5 DEF Held
  <2>2. QED
    BY <1>0, <1>2, <1>3, <1>6, <2>1 DEF WinScroll
<1>15. CASE p.cmd = "LATNODE" /\ w = Fails(v, "read", "key")
  <2>1. PICK f : f = [what |-> "read", by |-> "key"]
    OBVIOUS
  <2>2. w = [v EXCEPT !.fault = f]
    BY <1>15, <2>1 DEF Fails
  <2>3. /\ w \in State /\ w.pages = v.pages /\ w.fault = f /\ f # NoFault
        /\ f.what = "read"
    BY <1>8, <2>1, <2>2 DEF State, NoFault
  <2>4. WinType(v.pages[Len(v.pages)]) = "LATNODE"
    BY <1>1, <1>8, <1>15 DEF WinType, Listing
  <2>5. Core(w)
    BY <1>8, <1>11, <2>3, <2>4 DEF Core, Excused
  <2>6. QED
    BY <2>3, <2>5 DEF Good, Events
<1>16. QED
  BY <1>13, <1>14, <1>15

LEMMA KeyScrollKept ==
  ASSUME NEW u, Good(u), u.fault = NoFault, u.cur # 0, NEW key,
         NEW w \in KeyScroll(u, key)
  PROVE  Good(w)
<1>1. CASE Current(u).dyn = "unmade" \/ WinType(Current(u)) = "NODE_DETAIL"
  BY <1>1 DEF KeyScroll
<1>2. CASE ~(Current(u).dyn = "unmade" \/ WinType(Current(u)) = "NODE_DETAIL")
  <2>1. PICK y \in UseDyn(u) :
          w \in (IF y.fault = NoFault THEN WinScroll(y, key) ELSE {y})
    BY <1>2 DEF KeyScroll, Then
  <2>2. CASE y = u /\ Current(u).dyn = "live"
    <3>1. Listing(Current(u))
      BY <1>2, <2>2 DEF Listing, WinType
    <3>2. QED
      BY <2>1, <2>2, <3>1, WinScrollKept
  <2>3. CASE Good(y) /\ y.fault # NoFault
    BY <2>1, <2>3
  <2>4. QED
    BY <2>2, <2>3, UseDynKept DEF Good
<1>3. QED
  BY <1>1, <1>2

LEMMA ScrollEnterKept ==
  ASSUME NEW u, Good(u), u.fault = NoFault, u.cur # 0,
         NEW w \in ScrollEnter(u)
  PROVE  Good(w)
<1>0. PICK c : c = WinEnter(CurType(u))
  OBVIOUS
<1>1. CASE c = "none" \/ Current(u).dyn = "unmade"
  BY <1>0, <1>1 DEF ScrollEnter
<1>2. CASE ~(c = "none" \/ Current(u).dyn = "unmade")
  <2> DEFINE Go(v) == CmdExecute(v, c)
  <2>1. PICK y \in UseDyn(u) :
          w \in (IF y.fault = NoFault
                 THEN IF Current(y).reg.hl = NoLine THEN {y}
                      ELSE Then(LineRead(y), Go)
                 ELSE {y})
    BY <1>0, <1>2 DEF ScrollEnter, Then
  <2>2. CASE y = u
    <3>1. w \in (IF Current(u).reg.hl = NoLine THEN {u} ELSE Then(LineRead(u), Go))
      BY <2>1, <2>2
    <3>2. CASE Current(u).reg.hl = NoLine
      BY <3>1, <3>2
    <3>3. CASE Current(u).reg.hl # NoLine
      <4>1. Current(u).cmd # "LATNODE"
        BY <1>0, <1>2 DEF CurType, WinType, WinEnter
      <4>2. LineRead(u) = {u}
        BY <3>3, <4>1, CurrentPage, LineReadKept DEF Good
      <4>3. w \in CmdExecute(u, c)
        BY <3>1, <3>3, <4>2 DEF Then
      <4>4. QED
        BY <4>3, CmdExecuteKept
    <3>4. QED
      BY <3>2, <3>3
  <2>3. CASE Good(y) /\ y.fault # NoFault
    BY <2>1, <2>3
  <2>4. QED
    BY <2>2, <2>3, UseDynKept DEF Good
<1>3. QED
  BY <1>1, <1>2

-----------------------------------------------------------------------------
(* Resizes.                                                                *)

LEMMA WinDynFiniKept ==
  ASSUME NEW p \in Page, Sound(p), NEW q, q = WinDynFini(p)
  PROVE  /\ q \in Page /\ Sound(q) /\ (Held(p) => Held(q))
         /\ q.cmd = p.cmd /\ q.count = p.count
<1>1. CASE p.inited
  <2>1. /\ q \in Page /\ q.dyn = "freed" /\ ~q.inited /\ q.reg = p.reg
        /\ q.cmd = p.cmd /\ q.count = p.count
    BY <1>1 DEF WinDynFini, Page
  <2>2. QED
    BY <2>1 DEF Sound, Held, Listing
<1>2. CASE ~p.inited
  BY <1>2 DEF WinDynFini
<1>3. QED
  BY <1>1, <1>2

\* All windows are freed, each of them once.
LEMMA PageWinDestroyKept ==
  ASSUME NEW u, Good(u), u.fault = NoFault, NEW w, w = PageWinDestroy(u)
  PROVE  Good(w) /\ w.fault = NoFault /\ w.cur = u.cur
<1>0. u \in State /\ u.pages \in Seq(Page) /\ Len(u.pages) \in Nat
  BY DEF Good, Core, State
<1>1. PICK ps : ps = [i \in DOMAIN u.pages |-> WinDynFini(u.pages[i])]
  OBVIOUS
<1>2. DOMAIN u.pages = 1..Len(u.pages)
  BY <1>0, LenProperties
<1>3. ASSUME NEW i \in 1..Len(u.pages)
      PROVE  /\ ps[i] \in Page /\ Sound(ps[i]) /\ Held(ps[i])
             /\ ps[i].cmd = u.pages[i].cmd /\ ps[i].count = u.pages[i].count
             /\ u.pages[i].inited => u.pages[i].dyn = "live"
  <2>1. u.pages[i] \in Page /\ ps[i] = WinDynFini(u.pages[i])
    BY <1>0, <1>1, <1>2, ElementOfSeq
  <2>2. Sound(u.pages[i]) /\ Held(u.pages[i])
    BY DEF Good, Core
  <2>3. u.pages[i].inited => u.pages[i].dyn = "live"
    BY <2>2 DEF Sound
  <2>4. QED
    BY <2>1, <2>2, <2>3, WinDynFiniKept
<1>4. ps \in Seq(Page) /\ Len(ps) = Len(u.pages)
  <2>1. ps \in [1..Len(u.pages) -> Page]
    BY <1>1, <1>2, <1>3
  <2>2. QED
    BY <1>0, <2>1, IsASeq, LenProperties
<1>5. ~FreedTwice(u.pages)
  BY <1>2, <1>3 DEF FreedTwice
<1>6. w = [u EXCEPT !.pages = ps]
  BY <1>1, <1>5 DEF PageWinDestroy
<1>7. /\ w \in State /\ w.pages = ps /\ w.fault = NoFault /\ w.cur = u.cur
      /\ w.next = u.next /\ w.counted = u.counted /\ w.missed = u.missed
  BY <1>0, <1>4, <1>6 DEF State
<1>8. Len(ps) > 0 => ps[1].cmd = "HOME"
  BY <1>0, <1>3, <1>4 DEF Good, Core
<1>9. Core(w)
  BY <1>3, <1>4, <1>7, <1>8 DEF Core, Excused, NoFault
<1>10. Wanted(ps) = Wanted(u.pages)
  BY <1>0, <1>3, <1>4 DEF Wanted
<1>11. Events(w)
  BY <1>0, <1>3, <1>4, <1>7, <1>10 DEF Good, Events
<1>12. QED
  BY <1>4, <1>7, <1>9, <1>11 DEF Good

-----------------------------------------------------------------------------
(* The invariant of the specification.                                     *)

\* A step leads to the state that its handler leaves behind.
LEMMA BecomesGood ==
  ASSUME NEW u, Good(u), Becomes(u)
  PROVE  IInv'
<1>1. u \in State
  BY DEF Good, Core
<1>2. [pages |-> pages', cur |-> cur', next |-> next', small |-> small',
       first |-> first', nnodes |-> nnodes', mail |-> mail', task |-> task',
       status |-> status', counted |-> counted', missed |-> missed',
       fault |-> fault'] = u
  BY <1>1 DEF Becomes, State
<1>3. QED
  BY <1>2 DEF IInv, Now

LEMMA InitGood == Init => IInv
<1> SUFFICES ASSUME Init PROVE IInv
  OBVIOUS
<1>1. PICK u : u = Now
  OBVIOUS
<1>2. /\ u.pages = <<>> /\ u.cur = 0 /\ u.next = 0 /\ u.fault = NoFault
      /\ u.counted = "all" /\ u.missed = FALSE
  BY <1>1 DEF Init, Now
<1>3. u \in State
  <2>1. <<>> \in Seq(Page)
    BY EmptySeq
  <2>2. QED
    BY <1>1, <2>1 DEF Init, Now, State, NoFault
<1>4. Len(u.pages) = 0 /\ 1..Len(u.pages) = {}
  BY <1>2
<1>5. Core(u)
  BY <1>2, <1>3, <1>4 DEF Core, Excused, NoFault
<1>6. Events(u)
  BY <1>2, <1>4 DEF Events, Wanted
<1>7. Good(u)
  BY <1>2, <1>4, <1>5, <1>6 DEF Good
<1>8. QED
  BY <1>1, <1>7 DEF IInv

\* A message that is taken.
LEMMA TakenGood ==
  ASSUME IInv, fault = NoFault
  PROVE  Good(Taken) /\ Taken.fault = NoFault
<1>1. Now \in State
  BY DEF IInv, Good, Core
<1>2. Same(Now, Taken)
  BY <1>1 DEF Taken, Same, State
<1>3. QED
  BY <1>2, SameKept DEF IInv, Good, Same, Now

\* READY: the page that was asked for is drawn.
LEMMA ReadyKept ==
  ASSUME NEW u, Good(u), u.fault = NoFault, NEW smpl,
         NEW w \in PageNextExecute(u, smpl)
  PROVE  Good(w)
<1>1. CASE u.next = 0
  BY <1>1 DEF PageNextExecute
<1>2. CASE u.next # 0
  <2>1. u.next \in Nat /\ u.next = Len(u.pages)
    BY <1>2 DEF Good, Core, State
  <2>2. Drawn(u)
    BY <1>2, <2>1 DEF Drawn, Good
  <2>3. QED
    BY <2>2, PageNextKept DEF Good
<1>3. QED
  BY <1>1, <1>2

LEMMA NextGood == IInv /\ [Next]_vars => IInv'
<1> SUFFICES ASSUME IInv, [Next]_vars PROVE IInv'
  OBVIOUS
<1>0. Good(Now) /\ Now.fault = fault /\ Now.cur = cur
  BY DEF IInv, Now
<1>1. CASE Command
  <2>1. PICK c \in Keys : \E u \in CmdExecute(Now, c) : Becomes(u)
    BY <1>1 DEF Command
  <2>2. PICK u \in CmdExecute(Now, c) : Becomes(u)
    BY <2>1
  <2>3. Good(u)
    BY <1>0, <1>1, <2>2, CmdExecuteKept DEF Command, Idle
  <2>4. QED
    BY <2>2, <2>3, BecomesGood
<1>2. CASE Scroll
  <2>1. PICK key \in {"UP", "DOWN"} : \E u \in KeyScroll(Now, key) : Becomes(u)
    BY <1>2 DEF Scroll
  <2>2. PICK u \in KeyScroll(Now, key) : Becomes(u)
    BY <2>1
  <2>3. Good(u)
    BY <1>0, <1>2, <2>2, KeyScrollKept DEF Scroll, Idle
  <2>4. QED
    BY <2>2, <2>3, BecomesGood
<1>3. CASE Enter
  <2>1. PICK u \in ScrollEnter(Now) : Becomes(u)
    BY <1>3 DEF Enter
  <2>2. Good(u)
    BY <1>0, <1>3, <2>1, ScrollEnterKept DEF Enter, Idle
  <2>3. QED
    BY <2>1, <2>2, BecomesGood
<1>4. CASE Resize
  <2>1. PICK x : x = PageWinDestroy(Now)
    OBVIOUS
  <2>2. Good(x) /\ x.fault = NoFault /\ x.cur # 0
    BY <1>0, <1>4, <2>1, PageWinDestroyKept DEF Resize, Idle
  <2>3. PICK s \in BOOLEAN :
          \E u \in (IF s THEN {[x EXCEPT !.small = s]}
                    ELSE CmdExecute([x EXCEPT !.small = s], "REFRESH")) : Becomes(u)
    BY <1>4, <2>1, Zenon DEF Resize
  <2>4. PICK v : v = [x EXCEPT !.small = s]
    OBVIOUS
  <2>5. Same(x, v)
    BY <2>2, <2>4 DEF Same, State, Good, Core
  <2>6. Good(v) /\ v.fault = NoFault /\ v.cur # 0
    BY <2>2, <2>5, SameKept DEF Good, Same
  <2>7. PICK u : Becomes(u) /\ (u = v \/ u \in CmdExecute(v, "REFRESH"))
    BY <2>3, <2>4
  <2>8. Good(u)
    BY <2>6, <2>7, CmdExecuteKept
  <2>9. QED
    BY <2>7, <2>8, BecomesGood
<1>5. CASE Timeout
  <2>1. PICK u \in CmdExecute(Now, "REFRESH") : Becomes(u)
    BY <1>5 DEF Timeout
  <2>2. Good(u)
    BY <1>0, <1>5, <2>1, CmdExecuteKept DEF Timeout, Idle
  <2>3. QED
    BY <2>1, <2>2, BecomesGood
<1>6. CASE PerfAnswer
  <2>1. PICK a \in Answers(Now, task) : mail' = a
    BY <1>6 DEF PerfAnswer
  <2>2. a \in {"none", "ready", "fail"}
    <3>1. task \in {"profiling", "ll", "pqos_cmt", "uncore"}
      BY <1>0, <1>6 DEF PerfAnswer, Good, Core, State, Now
    <3>2. QED
      BY <2>1, <3>1 DEF Answers
  <2>3. PICK u : u = [Now EXCEPT !.mail = a, !.task = "none"]
    OBVIOUS
  <2>4. Same(Now, u)
    BY <1>0, <2>2, <2>3 DEF Same, State, Good, Core
  <2>5. Good(u)
    BY <1>0, <2>4, SameKept DEF Good
  <2>6. Becomes(u)
    BY <1>6, <2>1, <2>3 DEF PerfAnswer, Becomes, Now
  <2>7. QED
    BY <2>5, <2>6, BecomesGood
<1>7. CASE GoHome
  <2>1. PICK u \in CmdExecute(Taken, "HOME") : Becomes(u)
    BY <1>7 DEF GoHome
  <2>2. Good(u)
    BY <1>7, <2>1, TakenGood, CmdExecuteKept DEF GoHome
  <2>3. QED
    BY <2>1, <2>2, BecomesGood
<1>8. CASE Ready
  <2>1. PICK u \in PageNextExecute(Taken, FALSE) : Becomes(u)
    BY <1>8 DEF Ready
  <2>2. Good(u)
    BY <1>8, <2>1, TakenGood, ReadyKept DEF Ready
  <2>3. QED
    BY <2>1, <2>2, BecomesGood
<1>9. CASE Fail
  <2>1. PICK u \in DispGoHome(Taken) : Becomes(u)
    BY <1>9 DEF Fail
  <2>2. Good(Taken) /\ Taken.fault = NoFault
    BY <1>9, TakenGood DEF Fail
  <2>3. Core(u) /\ Kin(Taken, u) /\ Events(u)
    BY <2>1, <2>2, GoHomeKept DEF Good
  <2>4. Good(u)
    BY <2>2, <2>3 DEF Good, Kin
  <2>5. QED
    BY <2>1, <2>4, BecomesGood
<1>10. CASE UNCHANGED vars
  BY <1>10 DEF vars, IInv, Now
<1>11. QED
  BY <1>1, <1>2, <1>3, <1>4, <1>5, <1>6, <1>7, <1>8, <1>9, <1>10 DEF Next

\* Every handler leads from a good state to a good one.
THEOREM Inductive == Spec => []IInv
<1>1. Init => IInv
  BY InitGood
<1>2. IInv /\ [Next]_vars => IInv'
  BY NextGood
<1>3. QED
  BY <1>1, <1>2, PTL DEF Spec

-----------------------------------------------------------------------------
(* What it shows.                                                          *)

\* Whatever is typed, posted or timed out, the current page is the last of the
\* list, and the next one to be shown is none but it (page_create,
\* page_drop_next, page_next_execute).
THEOREM OnePageLine == Spec => []OneLine
<1>1. IInv => OneLine
  BY DEF IInv, Good, Now, OneLine
<1>2. QED
  BY <1>1, Inductive, PTL

\* In every window that has lines the highlighted one is a line of the list and
\* on the screen, for every height of the screen and whatever lengths the list
\* has from one draw to the next (reg_line_scroll, reg_scroll_show).
THEOREM HighlightInView == Spec => []InView
<1>1. IInv => InView
  <2>1. SUFFICES ASSUME IInv, NEW i \in DOMAIN pages PROVE LineInView(pages[i].reg)
    BY DEF InView
  <2>2. pages \in Seq(Page) /\ \A j \in 1..Len(pages) : Sound(pages[j])
    BY <2>1 DEF IInv, Good, Core, Now, State
  <2>3. i \in 1..Len(pages)
    BY <2>1, <2>2, LenProperties
  <2>4. QED
    BY <2>2, <2>3 DEF Sound, Scrolled
<1>2. QED
  BY <1>1, Inductive, PTL

\* No draw but that of a list of nodes writes past its buffer, and no key but
\* one in the window of a buffer's pages reads past it, whatever WIN_NLINES_MAX
\* is, as long as the lists are no longer than that.
THEOREM BuffersHold == Spec => []LinesInBuffer
<1>1. IInv => LinesInBuffer
  BY DEF IInv, Good, Core, Excused, Now, LinesInBuffer
<1>2. QED
  BY <1>1, Inductive, PTL

\* No window is drawn or freed that is not there (win_dyn_init, win_dyn_fini,
\* page_win_destroy, page_drop_next).
THEOREM WindowsAlive == Spec => []DrawsLive
<1>1. IInv => DrawsLive
  BY DEF IInv, Good, Core, Excused, Now, DrawsLive
<1>2. QED
  BY <1>1, Inductive, PTL

\* The events that are counted are those that the window on the screen shows,
\* for every set of events and in every order of the commands, but for the two
\* ways the code forgets that missed tells (os_preop_switch2callchain,
\* os_preop_leavecallchain, os_op_callchain_count).
THEOREM CountsShown == Spec => []EventsShown
<1>1. IInv => EventsShown
  <2>1. SUFFICES ASSUME IInv, fault = NoFault, cur # 0, ~missed,
                        pages[cur].dyn # "unmade"
                 PROVE  counted = IF pages[cur].cmd = "CALLCHAIN"
                                  THEN pages[cur].count ELSE "all"
    BY DEF EventsShown
  <2>2. cur = Len(pages) /\ cur \in Nat /\ counted = Wanted(pages)
    BY <2>1 DEF IInv, Good, Core, State, Events, Now
  <2>3. QED
    BY <2>1, <2>2 DEF Wanted
<1>2. QED
  BY <1>1, Inductive, PTL
=============================================================================
