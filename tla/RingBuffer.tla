----------------------------- MODULE RingBuffer -----------------------------
(***************************************************************************)
(* The ring buffer of a CPU (common/os/pfwrapper.c).                       *)
(*                                                                         *)
(* The kernel writes records at data_head, the perf thread reads them at   *)
(* data_tail field by field, while the kernel goes on writing.  Both       *)
(* positions only grow; the place in the buffer is the position modulo its *)
(* size.  A record is a header, which has its length, and fields; a sample *)
(* of the profiling and one of the load latency have different fields, and *)
(* both have a call-chain of any length, of which IpNum user addresses are *)
(* kept.  The kernel writes no record without a body, so the branches of   *)
(* the code for one are for a reader that takes other words for a header:  *)
(* one that has strayed.                                                   *)
(*                                                                         *)
(* The unit is a word of 8 bytes, the size of every field.  mmap_buffer_   *)
(* read is one step.  The positions have 64 bits and are not bounded by    *)
(* that here; some of the code keeps them in an int, which is, by HalfInt. *)
(***************************************************************************)
EXTENDS Integers, Sequences

CONSTANTS
  Size,     \* words of the buffer
  HalfInt,  \* an int is in -HalfInt .. HalfInt-1, in words
  LenMax,   \* words of the longest record that a header can tell of
  IpNum,    \* IP_NUM
  NEvents,  \* events of the group that is profiled
  Chains,   \* call-chains, sequences of "user" and "kernel" addresses
  Bases,    \* where both positions may be to begin with
  MaxWords  \* bound on what the kernel writes

ASSUME RingBufferAssumption ==
  /\ Size \in Nat \ {0} /\ IpNum \in Nat \ {0} /\ NEvents \in Nat \ {0}
  /\ HalfInt \in Nat \ {0} /\ HalfInt % Size = 0 /\ HalfInt >= 2 * Size
  /\ LenMax \in Nat \ {0} /\ LenMax < Size
  /\ Bases \subseteq Nat
  /\ Chains \subseteq Seq({"user", "kernel"}) /\ MaxWords \in Nat

VARIABLES
  mode,   \* what is sampled: "profiling" or "ll"
  base,   \* the position of all that is read already
  log,    \* the words that the kernel has written since
  tail,   \* data_tail
  pc,     \* "idle", before a "header", within the "fields" of a record, or
          \* "stray": at any place of any record, and reading on
  keep,   \* rec_arr is not NULL
  left,   \* size: the words of the record that are left
  todo,   \* the fields that the reader takes to come
  nips,   \* j, the user addresses it has
  rec,    \* the record it is filling in
  out,    \* the samples recorded, or discarded on purpose, so far
  strayed,\* a record was not read to its end, nor was the rest skipped
  jumped  \* a skip went on to the head of the buffer instead

vars == <<mode, base, log, tail, pc, keep, left, todo, nips, rec, out,
          strayed, jumped>>

DataHead == base + Len(log)
AtPos(p) == log[p - base]   \* the p-th word

-----------------------------------------------------------------------------
(* What the kernel writes.                                                 *)

\* The process of a sample: one that runs, the idle process 0, or, in a
\* sample of the load latency, one that is gone.
Whos == [profiling |-> {"user", "idle"}, ll |-> {"user", "idle", "gone"}]

Word(f, n, who, i) == [field |-> f, n |-> n, who |-> who, rec |-> i]

Fields(m, chain) ==
  CASE m = "profiling" ->
         <<"id", "nr", "enabled", "running">>
         \o [i \in 1..NEvents |-> "value"] \o <<"nips">> \o chain
    [] m = "ll" -> <<"id", "addr", "cpu", "nips">> \o chain \o <<"weight", "src">>

\* n is what the word says of the length: of the record, of the group of
\* events, of the call-chain.
Sample(i, who, chain) ==
  LET fs == Fields(mode, chain) IN
  <<Word("sample", Len(fs), who, i)>> \o
  [k \in 1..Len(fs) |->
     Word(fs[k], CASE fs[k] = "nr" -> NEvents
                   [] fs[k] = "nips" -> Len(chain)
                   [] OTHER -> 0, who, i)]

Other(i) == <<Word("other", 1, "idle", i), Word("body", 0, "idle", i)>>

NextRecord == IF log = <<>> THEN 1 ELSE log[Len(log)].rec + 1

\* A record that does not fit is dropped; the buffer is never quite full.
Write ==
  \E words \in {Other(NextRecord)} \union
               {Sample(NextRecord, w, c) : w \in Whos[mode], c \in Chains} :
    /\ Len(log) + Len(words) <= MaxWords
    /\ ((DataHead - tail) % Size) + Len(words) < Size
    /\ log' = log \o words
    /\ UNCHANGED <<mode, base, tail, pc, keep, left, todo, nips, rec, out,
                   strayed, jumped>>

-----------------------------------------------------------------------------
(* mmap_buffer_read, _skip and _reset.                                     *)

Blank == Word("blank", 0, "idle", 0)

\* mmap_buffer_read of a word: what was written last at that place.
At(t) ==
  LET P == {p \in (base + 1)..DataHead : (p - 1) % Size = t % Size} IN
  IF P = {} THEN Blank ELSE AtPos(CHOOSE p \in P : \A q \in P : q <= p)

CanRead == DataHead - tail >= 1

\* What is left of x in an int.
ToInt(x) == ((x + HalfInt) % (2 * HalfInt)) - HalfInt

\* Fault: the end of the buffer is not looked at.
SkippedPast(t, n) == t + n
Skipped(t, n) ==
  IF ToInt(t + n) > ToInt(DataHead) THEN t + ToInt(ToInt(DataHead) - t) ELSE t + n

\* The skip goes to the head although the record ends before it.
Jumps(t, n) == t + n < DataHead /\ Skipped(t, n) # t + n

-----------------------------------------------------------------------------
(* pf_profiling_record and pf_ll_record.                                   *)

NoRec == [rec |-> 0, who |-> "idle", weight |-> "none"]

Start ==
  /\ pc = "idle"
  /\ pc' = IF strayed THEN "stray" ELSE "header"
  /\ keep' \in IF mode = "profiling" THEN BOOLEAN ELSE {TRUE}
  /\ UNCHANGED <<mode, base, log, tail, left, todo, nips, rec, out, strayed,
                 jumped>>

End ==
  /\ pc = "header" /\ ~CanRead
  /\ pc' = "idle"
  /\ UNCHANGED <<mode, base, log, tail, keep, left, todo, nips, rec, out,
                 strayed, jumped>>

SkipRecord ==
  LET w == At(tail) IN
  /\ pc = "header" /\ CanRead
  /\ ~(w.field = "sample" /\ keep)
  /\ tail' = Skipped(tail + 1, w.n)
  /\ jumped' = (jumped \/ Jumps(tail + 1, w.n))
  /\ out' = IF w.field = "sample" /\ w.who = "user"
            THEN Append(out, [NoRec EXCEPT !.rec = w.rec]) ELSE out
  /\ UNCHANGED <<mode, base, log, pc, keep, left, todo, nips, rec, strayed>>

BeginSample ==
  LET w == At(tail) IN
  /\ pc = "header" /\ CanRead
  /\ w.field = "sample" /\ keep
  /\ tail' = tail + 1
  /\ pc' = "fields"
  /\ left' = w.n
  /\ todo' = IF mode = "profiling" THEN <<"id", "nr">>
             ELSE <<"id", "addr", "cpu", "nips", "weight", "src">>
  /\ nips' = 0
  /\ rec' = NoRec
  /\ UNCHANGED <<mode, base, log, keep, out, strayed, jumped>>

Times(n, f) == [i \in 1..n |-> f]

\* The fields that follow the call-chain.
AfterChain == IF mode = "ll" THEN <<"weight", "src">> ELSE <<>>

\* The fields to come after the next one was w and there are j addresses.
\* Fault: the first field after the call-chain is taken to be its last.
AfterShort(w, j) ==
  LET next == todo[1]
      rest == Tail(todo)
  IN CASE next = "nr" ->
            <<"enabled", "running">> \o Times(w.n, "value") \o <<"nips">>
       [] next = "nips" -> Times(w.n + 1, "ip") \o rest
       [] next = "ip" /\ j >= IpNum -> AfterChain
       [] OTHER -> rest
After(w, j) ==
  LET next == todo[1]
      rest == Tail(todo)
  IN CASE next = "nr" ->
            <<"enabled", "running">> \o Times(w.n, "value") \o <<"nips">>
       [] next = "nips" -> Times(w.n, "ip") \o rest
       [] next = "ip" /\ j >= IpNum -> AfterChain
       [] OTHER -> rest

\* The word that was taken for the source of the data says whether there is
\* an address; one that is an address itself may say anything.
HasAddr(w) == IF mode = "ll" /\ w.field # "src" THEN BOOLEAN ELSE {TRUE}

\* Fault: the idle process is one, too.
UpdateIdle(r, addr) ==
  out' = IF addr THEN Append(out, r) ELSE out
\* profiling_recbuf_update and ll_recbuf_update
Update(r, addr) ==
  IF r.who = "user" /\ addr
  THEN out' = Append(out, r)
  ELSE UNCHANGED out

\* Fault: what is left of a record that is read is not skipped.
FinishedAt(t, n) == t
Finished(t, n) == IF n > 0 THEN Skipped(t, n) ELSE t

ReadField ==
  LET w == At(tail)
      j == IF todo[1] = "ip" /\ w.field = "user" THEN nips + 1 ELSE nips
      r == CASE todo[1] = "id" -> [rec EXCEPT !.rec = w.rec, !.who = w.who]
             [] todo[1] = "weight" -> [rec EXCEPT !.weight = w.field]
             [] OTHER -> rec
  IN /\ pc = "fields" /\ CanRead
     /\ ~(mode = "ll" /\ todo[1] = "id" /\ w.who = "gone")
     /\ todo' = After(w, j)
     /\ left' = left - 1
     /\ nips' = j
     /\ rec' = r
     /\ IF todo' # <<>>
        THEN /\ tail' = tail + 1
             /\ UNCHANGED <<pc, out, jumped>>
        ELSE /\ \E addr \in HasAddr(w) : Update(r, addr)
             /\ tail' = Finished(tail + 1, left')
             /\ jumped' = (jumped \/ (left' > 0 /\ Jumps(tail + 1, left')))
             /\ pc' = "header"
     /\ UNCHANGED <<mode, base, log, keep, strayed>>

\* The process of a sample of the load latency is gone: what is skipped is
\* counted from before its id.
GoneProcess ==
  /\ pc = "fields" /\ CanRead
  /\ mode = "ll" /\ todo[1] = "id" /\ At(tail).who = "gone"
  /\ tail' = Skipped(tail + 1, left)
  /\ jumped' = (jumped \/ Jumps(tail + 1, left))
  /\ strayed' = (strayed \/ Skipped(tail + 1, left) > tail + left)
  /\ pc' = "idle"
  /\ UNCHANGED <<mode, base, log, keep, left, todo, nips, rec, out>>

(***************************************************************************)
(* A reader that has strayed takes any words for headers, and by the       *)
(* lengths that it finds there it may come to be between two words: what   *)
(* it reads may be anything, a length up to the longest that 16 bits can   *)
(* tell, and a sample with anything in it.  Its position is rounded up     *)
(* here, which keeps how many words there are to read.                     *)
(***************************************************************************)
Junk == [rec |-> 0, who |-> "user", weight |-> "junk"]

\* Several such samples in a row count as one.
WithJunk ==
  IF out # <<>> /\ out[Len(out)] = Junk THEN out ELSE Append(out, Junk)

\* A header or a field, and maybe the sample is complete.
StrayRead ==
  /\ pc = "stray" /\ CanRead
  /\ tail' = tail + 1
  /\ out' \in {out, WithJunk}
  /\ UNCHANGED <<mode, base, log, pc, keep, left, todo, nips, rec, strayed,
                 jumped>>

\* The record is not a sample, or there is more of it than its fields, or
\* one of them could not be read.
StraySkip ==
  /\ pc = "stray" /\ tail <= DataHead
  /\ \E n \in 0..LenMax : tail' = Skipped(tail, n)
  /\ UNCHANGED <<mode, base, log, pc, keep, left, todo, nips, rec, out,
                 strayed, jumped>>

\* There is too little to read, a length is 0, or a process is not one.
StrayEnd ==
  /\ pc = "stray"
  /\ pc' = "idle"
  /\ UNCHANGED <<mode, base, log, tail, keep, left, todo, nips, rec, out,
                 strayed, jumped>>

-----------------------------------------------------------------------------
Init ==
  /\ mode \in {"profiling", "ll"}
  /\ base \in Bases /\ tail = base /\ log = <<>>
  /\ pc = "idle" /\ keep = TRUE
  /\ left = 0 /\ todo = <<>> /\ nips = 0 /\ rec = NoRec
  /\ out = <<>>
  /\ strayed = FALSE /\ jumped = FALSE

Next == Write \/ Start \/ End \/ SkipRecord \/ BeginSample \/ ReadField
        \/ GoneProcess \/ StrayRead \/ StraySkip \/ StrayEnd

Spec == Init /\ [][Next]_vars

-----------------------------------------------------------------------------
\* The reader stays behind the kernel and the kernel does not overwrite what
\* the reader has not passed: "no data_head can wrap over the data_tail"
\* (mmap_buffer_read), whatever is skipped, in whichever width.  It is ahead
\* only, and by no more than the size of the buffer, if the skip of a reader
\* that has strayed has just passed the place where an int becomes negative;
\* the kernel may then take the buffer to be full for good.
Behind ==
  /\ base <= tail /\ DataHead - tail < Size
  /\ \/ tail <= DataHead
     \/ /\ strayed /\ tail - DataHead <= Size
        /\ ToInt(tail) < Size - HalfInt

Boundary(t) == t = DataHead \/ AtPos(t + 1).field \in {"sample", "other"}

\* Between two records the reader is at the header of one, after call-chains
\* of any length, and within a record all the fields that it reads are that
\* record's.  This ends with a sample of a process that is gone, whose skip
\* ends within the next record: of a reader that has strayed so it is not
\* said, whatever it finds then.
Framed ==
  /\ ~strayed /\ pc # "fields" => Boundary(tail)
  /\ pc = "fields" => /\ todo # <<>> /\ left > 0 /\ tail < DataHead
                      /\ AtPos(tail).rec = AtPos(tail + 1).rec
                      /\ AtPos(tail + left).rec = AtPos(tail).rec

Wanted(p) == AtPos(p).field = "sample" /\ AtPos(p).who = "user"

\* The records of the processes are all handed over once, in the order in
\* which the kernel wrote them, as far as the reader has come, unless it has
\* strayed or jumped over some.  A chain that is too long leaves it open
\* whether there is an address: see LatencyOwn.
Long(i) == \E p \in DOMAIN log : /\ log[p].rec = i /\ log[p].field = "nips"
                                 /\ log[p].n > IpNum
Delivered ==
  pc # "fields" /\ ~strayed /\ ~jumped =>
    LET passed == {AtPos(p).rec : p \in {q \in (base + 1)..tail : Wanted(q)}}
        handed == {out[k].rec : k \in DOMAIN out}
    IN /\ handed \subseteq passed
       /\ \A i \in passed \ handed : mode = "ll" /\ Long(i)
       /\ \A k, l \in DOMAIN out : k < l => out[k].rec < out[l].rec

\* The latency of a record is the one the kernel has measured, unless the
\* call-chain is longer than what is kept of it: then it is an address.  What
\* a reader that has strayed takes for a sample may have any latency.
LatencyOwn ==
  mode = "ll" => \A k \in DOMAIN out :
    \/ out[k].weight \in {"weight", "none"}
    \/ Long(out[k].rec)
    \/ strayed /\ out[k] = Junk

=============================================================================
