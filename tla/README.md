# A TLA+ model of numatop

numatop shows, in a terminal, where the processes of a NUMA machine access
memory.  It is a small concurrent program: four threads, one mailbox, one task
slot, and a page list whose every transition starts and stops hardware
counters.  This directory models what its threads do to each other and to the
counters, checks it with TLC and proves part of it with TLAPS.

## 1. Inventory

| component | source | state | operations | hard behaviour |
|---|---|---|---|---|
| disp mailbox | `common/disp.c` | `s_disp_ctl`: mutex, cond, `flag`, `cmd`, `flag2` | `disp_*_data_ready/fail`, `disp_go_home`, `disp_dispthr_quit_start`, `dispthr_flagset_*`, `disp_flag2_*` | posters that spin, a poster that is a signal handler, a poster that is the reader |
| disp thread | `common/disp.c` | timeout, the command at hand | `disp_handler`, `cmd_received`, `handle_getch` | blocking in `getch()`, start and exit |
| cons thread | `common/disp.c` | `s_cons_ctl`: pipe, fds | `cons_handler`, `disp_consthr_quit`, `disp_on_resize` | announces keys it does not read |
| main, signals | `common/numatop.c` | – | `main`, `sigint_handler` | handlers before the mailbox exists; joins |
| perf thread | `common/perf.c`, `os/os_perf.c` | `s_perf_ctl`: `task`, `status`, two mutex/cond pairs; `s_partpause_enabled`; descriptors per CPU and node | `perf_task_set`, `perf_status_wait`, `perf_handler`, `os_*_start/stop/smpl` | one slot, waits of 60 s, failures, exit |
| commands, pages | `common/cmd.c`, `page.c`, `os/os_cmd.c`, `os/os_page.c` | `s_switch`, `s_page_list` (`cur`, `next_run`) | `cmd_execute`, pre-operations, `op_*`, `page_*` | each transition must leave the right counters open |
| windows | `common/win.c`, `os/os_win.c` | `dyn_win` of each page: type, regions, buffers of lines | init, draw, scroll, enter, destroy | freed by a resize, made again by the next draw; buffers sized once |
| text regions | `common/reg.c` | lines, highlight, start of the screen | `reg_line_scroll`, `reg_scroll_show` | list ends, lists that change between keys |
| processes, threads | `common/proc.c`, `lwp.c` | `s_proc_group` hash and sort arrays, reference counts | refresh, find, traverse, sort | exit while referenced |
| nodes, CPUs | `os/node.c` | `s_node_group`: nodes, their CPUs, `cpuid_max` | refresh, traverse, sums over CPUs | hot-plug during sampling; a refresh that fails half-way |
| kernel events | `os/pfwrapper.c` | descriptors, mapped ring buffers | setup, start, stop, read, free | records around the end of the buffer; the kernel writes on |
| maps, symbols | `os/map.c`, `os/sym.c` | map, symbols and library references of a process; libraries of all; lists of call-chains | load, resolve, add, sort | the process changes its memory between two loads |
| utilities | `common/util.c`, `os/os_util.c` | – | `array_alloc`, locks, /proc | growth |
| event tables | `x86/`, `powerpc/`, `os/plat.c`, `ui_perf_map.c` | constant tables | – | – |

The threads interact only through: the mailbox (everyone to disp), the task
slot and status (disp to perf and back), `flag2` (perf to disp), the pipe
(SIGWINCH and main to cons), stdin (cons waits, disp reads), and the process
and node lists (perf writes, disp reads, under their locks).

What makes each correct:

* mailbox: mutual exclusion although the poster's loop opens and closes the
  mutex itself; no lost wakeup; no notification replaced; every notification
  taken; a command arrives as it was sent.
* threads: nothing is torn down while in use; every wait has somebody who can
  end it; every key is read; the program ends when asked.
* perf thread: a task is noticed; the status says what is open; nothing open
  is forgotten; the page that is shown has the counters it needs.
* processes and threads: counts agree with the table; nothing is freed while
  referenced; what has exited is freed.
* nodes and CPUs: a CPU is in one place; no descriptor is forgotten; every CPU
  that is online is sampled in the end.
* windows: the page that is drawn exists and is the current one; the highlighted
  line is on the screen and in the buffer; what is shown is what is counted.
* ring buffer: the reader is at a record whenever it looks for one, and hands
  each sample over once.
* maps and symbols: an address has the name of its function; accesses are
  counted for the area they hit; the samples of the same callers are one chain.

The hazards, each at its line, are listed in `PROJECT.json`.

## 2. Modules

```
FlagSlot         what the mailbox promises: one slot, nothing replaced
  ^ implemented by
DispMailbox      the mailbox, lock by lock, with its posters and the disp thread
  |                DispMailbox_proofs   (TLAPS)      MCDispMailbox*  (TLC)
Numatop          all threads, from signal() in main to the last join; the
  |              mailbox with each critical section as one step
  |                Numatop_proofs       (TLAPS)      MCNumatop*
PerfCtl          the perf thread, its slot and status, the counters, and the
                 commands that move between pages
                   PerfCtl_proofs        (TLAPS)     MCPerfCtl*
ProcGroup        processes and lwps: table, references, refresh
                   ProcGroup_proofs      (TLAPS)     MCProcGroup*
NodeGroup        nodes, CPUs and the life of each CPU's events
                   NodeGroup_proofs      (TLAPS)     MCNodeGroup*
Region           a list of lines that is scrolled and drawn
  ^ extended by
Windows          the page list, every window type, all keys and commands
                   Windows_proofs        (TLAPS)     MCWindows
RingBuffer       the kernel writes, the perf thread reads
                   RingBuffer_proofs     (TLAPS)     MCRingBuffer
AddressMap       areas, pages and nodes, accesses     CallChains   lists of chains
  ^ both extended by
Symbols          a process's symbols and the draws that use them
                   Symbols_proofs        (TLAPS)     MCSymbols
```

The modules overlap on purpose where components meet.  The commands are in
Numatop with the threads around them, in PerfCtl with what they do to the
counters, and in Windows with what they do to pages and windows.  What a task
does is one step in PerfCtl and a walk over the CPUs in NodeGroup.  A CPU's
ring buffer is mapped or not in NodeGroup and has its records in RingBuffer.

### DispMailbox (`common/disp.c`)

`pc[p]` follows a poster through `enter` (about to lock), `test` (holds the
mutex at the `while` of `dispthr_flagset_nolock`), `spin` (unlocked, in
`usleep`), `leave` (holds the mutex, flag set).  `dpc` follows
`consthr_init_wait` (`init*`) and the loop of `disp_handler`.  `mutex` is the
owner.  `Enter` writes `cmd` *before* the wait, as lines 741, 774 and 786 do.

`Sig` is the signal handler: `Interrupt(t)` starts it on thread `t`, which
makes no step until it returns (`Runs`).  `Self` is the disp thread calling
`disp_go_home` (line 588, and `win_invalid_proc`): `GoHome` takes it to `home`,
where it waits for its own post.  Signals come one at a time.

`READY` and `FAIL` stand for the four ready and four fail flags, which
`disp_handler` treats alike; `SCROLL*` never reach the mailbox, and no code
posts `DISP_FLAG_QUIT`.  `Work` ends what was taken where the code does: GETCH
leads to the blocking `getch()` of line 653 (`getch`, left by `KeyRead`), and a
command or a key may lead to `disp_flag2_wait` (`flag2`, left by `Answered` once
the perf thread posts nothing).  The disp thread may exit from `work` and from
`getch`, on `q`, QUIT, `-t` or an error of `getch()`.

`Stuck` names the places where it may stay for good with the slot full, the
exceptions of `FlagTaken`: `getch` without a further key (the one that was
announced may be read already), `flag2` while the perf thread spins, `home`
while the slot holds another notification, `exit` while the perf thread that
is joined spins, and `done`.

### Numatop (`common/numatop.c`, `disp.c`, `perf.c`)

One step per critical section.  A poster that finds the slot full has written
its command and spins (`post[p]`); `Deliver` is its turn.  `post[Sig]` blocks
the main thread, on which handlers run here (`DispMailbox` has them on the disp
and the perf thread).  The handlers stay installed until the process is gone:
`Signal` is possible between `disp_fini` (`JoinCons`) and the end of `main`
(`Return`), uses the destroyed mutex then, and sets `late`.  `Teardown` says
that every thread is gone by then and none is posting, and that only such a
late signal still uses the mailbox.

A command is a list of steps (`todo`): tasks for the perf thread, and the
points where `os_preop_switch2profiling`, `os_preop_switch2ll` and
`page_show` look at the status.  `pipe` and `stdin` are queues; the cons
thread sees keys, the disp thread consumes them.

`Draw` is the drawing of a page, or of the answer to a sampling: it may find
the process gone, or the sampling failed, and then `DispGoHome` posts HOME.  If
another notification came first, nobody takes that one: `self`.

`KeysRead` excepts the disp thread that stays in `flag2` (the perf thread spins
for the slot), in `self`, or on its way out (`fini`, `join`, `gone`).

Left out: failures of the counters, except that a sampling that failed goes
home (`PerfCtl` has them), pages reached through further keys (in PerfCtl),
the key B, run time (`-t`), `getch()` errors, failure of `pthread_create`.

### PerfCtl (`common/perf.c`, `os/os_perf.c`, `cmd.c`, `os/os_cmd.c`, `os/os_page.c`, `page.c`)

The client is main until `perf_init` returns and the disp thread afterwards;
it never has two requests at once, but after a 60 s timeout it goes on while
the perf thread may still be at the old task.  `status`, `slot`, `flag2` are
the code's; `cpu`, `uncore` and `pause` are what the perf thread has open:
events of the CPUs (`perf_cpu_t.fds`), of a node (`qpi`, `imc`), and
`s_partpause_enabled`.  `os_allstop` closes what the *status* says is open
(`AfterStop`), and `cpu_init` forgets old descriptors; so `leaked` records
when events were set up over open ones.  `hurt` records what excuses
`NothingLeaked` and `EventsFitPage`: a task failed, its client stopped waiting
for it, or a page was left astray.

A page is left astray (`Astray`) when its window was never made: `page_show`
gives up when the terminal is too small, the nodes cannot be refreshed or the
window cannot be made, and the type stays that of the first window.  `unmade` is
the places of these pages, `Type` what the commands see of the current one.  So
HOME on such a call-chain page goes by `os_preop_switch2profiling`, with no
RESTORE, and the counters stay paused under a plain page.  A later draw may
make the window (`ShowLater`).

The perf thread that posts (`Posted`) may do so for ever, since the disp thread
that waits for it takes nothing.  `WaitsEnd` therefore excepts it (`[](ppc =
"post")`), and, for the wait for `flag2`, a perf thread that has exited.

A page is its kind.  `plain` covers WIN1–5 and the node overview; `lat` is
WIN6, `lldetail` WIN7, 8 and 10, `uncore` WIN12, `cmt`/`mbm` the two PQoS
pages, `part`/`multi` the call-chain page (WIN9) with one or two events
running.  `Open`, `Back`, `Home`, `Refresh` give the page list and the steps
of each command of the switch table; a failed pre-operation does not stop the
command, since `cmd_execute` ignores its result.  The page list changes at
the start of a command rather than at its end: nobody else looks at it.

Merged: `RESTORE` and `MULTI_RESTORE`.  Left out: hot-added CPUs set up while
sampling, and single CPUs (set-up fails for some or all; `cpu' \in {"none",
for}`).  `PQOS` stop frees nothing on Linux.  The PQoS top-N page cannot be
reached from the switch table.  `RmaPause` is `"part"` on x86 and `"multi"` on
POWER, where the count RMA is two events.

### ProcGroup (`common/proc.c`, `lwp.c`)

The perf thread's `proc_enum_update(0)` is `Refresh` (the table, under the
mutex of the group), `RefreshLwps` for each process (under that process's own
mutex, so the other thread gets in between) and `RefreshEnd`.  Both threads
look up (`Find`, `FindLwp`) and give back (`DropLwp`, `DropProc`); where the
code unlocks before it frees, `FreeLwp` and `FreeProc` are steps of their own.
`Resort` is the disp thread's sort, draw and all, under the mutex of the group.
`Visited` keeps the way `proc_traverse` and `proc_sortkey` stop: after the
bucket with which the count is `nprocs`.  What /proc shows is any set of pids
with numatop's own, and any set of lwps, or an error, for each.

After `overrun` the model goes on as if nothing had happened.  Left out:
`nlwps`, the counts and chains, sorted lists of lwps, failing allocations,
`proc_obsolete` (nobody calls it: every caller passes pid 0),
`proc_group_fini`.  `cpu_*_smpl` returns at the first record of a process it
does not know, with the rest of that CPU's records unread; the model only has
that a look-up may find nothing.

### NodeGroup (`os/node.c`, the per-CPU part of `os/os_perf.c`, `pfwrapper.c`)

The disp thread's `node_group_refresh` is a step for each node it removes or
adds (`RefreshRemove`, `RefreshAdd`, `RefreshFill` for `node_init`, which clears
the node before it fills it) and one for the CPUs of all nodes (`CpuRefresh`);
it fails in `meminfo_refresh` or on a CPU nobody has closed (`RefreshFails`).
A page is sampled when it is shown, after a refresh (`Sample`), and by R and the
time-out of 5 s without one (`SampleAgain`, which is `op_refresh`); the end of a
sampling shows the page, and so refreshes.
The perf thread's task is a list of `passes` over the CPUs; each
`Visit*` is one slot of one node, hot-removed and hot-added CPUs included, with
`Setup` (only for CPUs that are online), `Freed` and the ioctls.  The mutex of
the group is not held by the walk, and is not modelled.

`raced` records that a refresh overlapped a walk. That happens when the user
presses R or a window is resized while a sampling is under way, and then most of
what the properties say is lost: `node_init` may clear a node the walk is in
(`faults` has `"walk"`), and marks are made and taken at the same time. The
properties name it as their exception, and hold without it. The other
exceptions, each a real path of the code: a start that failed; a CPU whose
events could not be opened (`event_valid` keeps all later ones from it); a node
that was given up with CPUs in it (its events are forgotten); a refresh that
fails before the perf thread has walked, after which the next one counts the
same node down again (`"twice"`); a refresh that failed and left `cpuid_max` as
it was, with a larger CPU put in. After a node has gone, all refreshes fail
until a walk has closed its CPUs; as the time-out samples all the same, that
walk comes, and `Sampled` says that the node is then given up. `Sampled` excepts
that the program ended (`dead`: a fault, or a profiling that cannot be started),
a race, a CPU whose events could not be opened, and that nothing is set up (a
start failed). `"sum"`: `countval_sum` indexes a process's array, allocated for
the CPUs there were, with the id of a CPU that came later.

Left out: memory sizes, the uncore units of a node, and descriptors that run
out (PerfCtl's failures stand for them).

### Region and Windows (`common/reg.c`, `win.c`, `page.c`, `cmd.c`, `os/os_win.c`, `os_cmd.c`, `os_page.c`)

A region is the height of the screen, the buffer behind the list (`cap`), the
lines of the list, the first one shown and the highlighted one.  A page is its
command, whom it shows, and its window: `unmade`, `live`, `freed` by a resize,
or `none` when it could not be made.  Each key, notification or timeout is one
step of the disp thread, and each handler an operator from states to sets of
states with the name of the code's function; `Then` composes calls.  Between
steps the perf thread answers (`PerfAnswer`) and lists change their length.

`fault` stops the model where the program leaves what C defines: a key for a
window that a resize has freed, or that could not be made again (`freed`,
`null`); a line beyond the buffer of its list (`read`, `write`); or the disp
thread posting HOME to itself (`hung`), for which the run does not check
deadlock.  The properties say that nothing else can.  The node lists'
buffers are made for `node_num` at creation and written for `node_num` at the
draw; LATNODE with no line left reads the line highlighted before.
`missed` records the two ways in which the call-chain window and what is
counted lose each other: a resize makes the window anew, which then names RMA;
and a call-chain page that was never made is left by HOME as if it were not one.

`profiling_smpl` and `ll_smpl` answer as `os_profiling_smpl` and `os_ll_smpl`
do: without the events of their kind open, the load latency posts nothing.
`cmd_execute` ignores the result of a preop. Left out: formatting and titles,
platforms where RMA is several events and one fails, CMT and MBM of all
processes (not reachable).

### RingBuffer (`os/pfwrapper.c`)

The unit is a word of 8 bytes, as every field.  The kernel appends whole
records if they fit (`Write`), at any time; `mmap_buffer_read` is one step
(`Start`, `ReadField`), `mmap_buffer_skip` another.  `log` keeps the words the kernel
has written with the record each belongs to, so that a property can say where
a value came from; `out` keeps what was recorded.  An `int` is `HalfInt` words
to each side.  The wrap branch of `mmap_buffer_read` is only taken by a reader that
has strayed, since the words of the others are aligned.

Three exceptions are real.  A load-latency sample of a process that is gone is
skipped by 8 bytes too many (`GoneProcess`), and the reader has then strayed.
From there on it takes whatever it finds for headers and fields: a kernel
address taken for a header has 65527 bytes to skip, other words have other
lengths, and the position need not be that of a word.  So `StrayRead`,
`StraySkip` and `StrayEnd` let it read anything, skip by any length up to
`LenMax`, record a sample with anything in it (`Junk`), and stop.  A
position between two words is rounded up, which keeps how many words there are
to read.  Of such a reader only `Behind` is claimed; `Framed`, `Delivered` and
`LatencyOwn` name it as their exception.  Second, a skip compares positions in
an int, and where that becomes negative jumps to the head, or, when the reader
has strayed, past it, by a buffer at most.  Third, a call-chain longer than
`IP_NUM` leaves addresses that are read as latency and source; `LatencyOwn` and
`Delivered` except these samples.

A record without a body is not written by the kernel, so the branches of the
code for one (`mmap_buffer_reset` among them) are only for a reader that has
strayed, whose resets and skips are `StraySkip` and `StrayEnd`. Samples of the
load latency that are dropped for another reason than the idle process, `mem_op`
NA or EXEC or the address 0, go with the idle ones: they are read to their end
and not recorded.

Left out: the array the records are copied to (the kernel would have to write
faster than the loop reads), `rmb`, event attributes.

### AddressMap, CallChains and Symbols (`os/map.c`, `os/sym.c`, the draws of `os/os_win.c` and `win.c`)

The memory of a process has slots in which it maps and unmaps files, splits a
mapping, or maps another file at the same place (`ProcessStep`); a library may
be replaced on the disk.  A draw of LATENCY or CALLCHAIN loads the map and the
missing symbols (`map_proc_load`, `sym_load`) and then resolves what it shows;
LATNODE looks up the nodes of the pages of one area of the map as it is.  A
chain list is a heap of records with `prev` and `next`, so that the sort, which
detaches and attaches links, is the code's.  `out` is what the last draw shows.

`Plain` is the condition under which names are right, each conjunct a way the
code can be wrong: `need_resolve` is carried from map to map by the range alone,
and references to libraries that are unmapped stay and are searched first
(`was`); an area that begins within its file gets the wrong base (`parts`); a
second image joins its symbols to the first's and replaces the base (`images`);
a segment may not begin where its address says (`vaddr`); a library is
known by its path for all processes (`libs`); and where a function lies within
another, `bsearch` may go the wrong way and find neither.
Each conjunct was found necessary.
`OneChain` compares complete chains: a sample with fewer callers counts for a
longer chain if that is listed, and makes its own if not.

Left out: the text of `/proc/pid/maps`, the layout of ELF files (32 and 64
bits give the same symbols), latencies, `map_addr2nodedst`, failing allocations.

## 3. Runs

| run | question | result |
|---|---|---|
| `mailbox` | exclusion, lost wakeup, implements FlagSlot; every notification is taken unless the disp thread is stuck | holds |
| `mailbox_cmd` | a taken command is what was sent | **violated** |
| `threads` | nothing in use by a thread is torn down; flag2 has one waiter per answer; every key is read unless the disp thread is stuck | holds |
| `threads_perf` | `perf_fini` returns | **violated** |
| `perf` | status true, nothing forgotten, events fit the page; waits for flag2 and for the exit end unless the perf thread spins | holds |
| `procs` | nothing in reach is freed; a look-up has one answer; what exits is freed | holds |
| `procs_sort` | the array for sorting has room | **violated** |
| `nodes` | one slot per CPU, nothing left open, counts and indices in range; every CPU is sampled in the end, after failed refreshes too | holds |
| `nodes_maps` | no ring buffer is read after it was unmapped | **violated** |
| `windows` | the page drawn, the line in view, buffers, use of freed windows, events shown | holds |
| `ring` | the reader is behind the kernel and, until it strays, at records, each sample once and whole | holds |
| `data` | names, chains, accesses and nodes are those of the process | holds |

The violated ones are findings; `PROJECT.json` gives for each the line and the
sentence of the code it contradicts.

* `mailbox_cmd`: `cmd` is written before the slot is free.  In Numatop a RESIZE
  written over the first HOME kills the process (`DispKilled`).
* `threads_perf`: the disp thread joins the perf thread while that spins for
  the slot the disp thread no longer empties.
* `procs_sort`: a process that is freed late is counted down twice.
* `nodes_maps`: `cpu_op` frees the events of a CPU whose ioctl fails and
  `event_valid` guards most users of them, but not restore, part-pause and the
  samplings.

Deviations that the passing runs state around instead, because no sentence of
the repository speaks against them: a signal handler on a thread that holds the
mutex never returns (`FlagTaken`); a GETCH for a key that is read already blocks
the disp thread until the next key (`FlagTaken`); the disp thread that posts
HOME waits for itself (`FlagTaken`, `KeysRead`); it waits for `flag2` while the
perf thread waits for the slot (`FlagTaken`, `KeysRead`, `WaitsEnd`); a signal
after `disp_fini` uses a destroyed mutex (`Teardown`); a call-chain page whose
window was never made leaves the counters paused (`EventsFitPage`); the node
page after N, B and R samples uncore events that are closed (`EventsFitPage`);
and the exceptions that section 2 names for NodeGroup, Windows, RingBuffer and
Symbols.  Every property that has an exception names it in its definition and in
the comment above.  The two deadlocks on the mailbox are therefore no violations of
a passing run: `threads_perf` shows that of the exit, and the others are named.

Types are an invariant of their own in DispMailbox, PerfCtl, ProcGroup and
Symbols, where something else rests on them: proofs, reference counts, and the order
that `bsearch` needs.  In the other modules the properties say it.

Each property of a passing run has a mutant: a definition of the model changed
the way a slip in the code would change it (`\* Fault:` in the modules), under
which TLC finds the property violated.

### Bounds

* Mailbox: one poster of each sort. Two threads never post with the same
  identity in the program. The handler interrupts the disp or the perf thread,
  for which others wait; `mailbox_cmd` has it on main, which does nothing else.
  Messages: every flag class; the commands HOME, RESIZE, QUIT are all that are
  posted.
* Threads: two of the keys N, ENTER, L and Q, one signal, one resize, and any
  number of refreshes by timeout. Two keys lead to every page there is, and the
  refreshes go on there; H and R do what the first command, the HOME of a
  process that is gone, the resize and the time-out do. The violation runs use
  the fewest inputs that show them.
* PerfCtl: no bound on commands, failures, timeouts or wakeups; only the page
  list is bounded (`MaxPages`), to 3. The rules of a transition look at the top
  page and the one below; three pages have every pair of kinds above the home
  page.

* ProcGroup: two pids (numatop and one that comes and goes), two thread ids,
  three process slots (one more than pids: the disp thread uses at most one that
  has left the table), two lwp slots: a process with two lwps, or an lwp and the
  exited one whose id it has.
* NodeGroup: two nodes with a CPU each, the second absent at boot; three changes
  of the hardware: the second comes, goes, and comes back, or a CPU does so
  alone. `MinNodes` stops the failing refreshes at -1: a second one in a row
  does what the first did.
* Windows: a screen of two lines, lists of none or two (a list of one is a node
  list's), `Many` of 3, one or two nodes, up to four pages: home, a list, a
  detail and the call-chain or node page on top of it. No bound on keys,
  resizes, samplings and refreshes.
* RingBuffer: 16 words, a record of the kernel at a time, up to 24 words: the
  buffer is passed once and full at any place of a record. Chains of none, of
  one kept after one that is not, and one too long. The lengths that a strayed
  reader may find go up to 10 words (`LenMax`), longer than any record and less
  than the buffer, as 65535 bytes are. The positions begin at 0 and where they
  pass the largest int, or become 0 again as an int.
* Symbols: two slots of four addresses, a page being one; three changes of the
  memory or the disk: a file, another in its place, and the first again. Batches
  of three pages, areas of four. Up to four samples of up to three addresses,
  which include the first and the last of each area and one outside of all.

### Fairness

* A thread that can run does (`WF`).
* A poster gets the mutex, and a spinning poster its turn, if the chance comes
  again and again (`SF`): it unlocks and sleeps at each round, and the others
  hold the mutex for a bounded time.
* `perf_status_wait`'s 60 s pass (`SF(Expire)`): the deadline is absolute and
  spurious wakeups do not move it.
* Nothing is assumed of keys, signals, resizes or spurious wakeups, nor, in
  DispMailbox, of the 5 s deadline: `FlagTaken` holds without it.  A `getch()`
  (`KeyRead`) and a wait for `flag2` (`Answered`) need not end there.
* In PerfCtl `Posted` is not fair: the perf thread that posts may spin for ever,
  as it does when the disp thread joins it (`threads_perf`) or waits for `flag2`.

* In ProcGroup a thread gives back what it uses, and gets the group's mutex
  for a late free if it is free again and again.

* In NodeGroup both threads go on; the deadline of 5 s asks for a sampling again
  and again (`SF(SampleAgain)`, disp.c:536-549 and cmd.c:187-204, since a
  refresh may be under way when it passes), and the end of a sampling shows the
  page, which refreshes (`SF(RefreshStart)`, disp.c:567-576 and page.c:157).
  `Sampled` supposes that the user at some point only looks, and that the
  hardware is left alone (`MaxChanges`).
* Windows, RingBuffer and Symbols have no liveness properties and no fairness:
  their questions are what a step may find.

Deadlock checking is off where the program may stop: when it has exited, when
an environment bound is used up, and in the runs about being stuck.

## 4. Proofs

All with tlapm, SMT (Z3), Zenon and LS4; from the named ASSUMEs of the modules
(different threads are different, messages are messages, `None` is none of the
values it stands beside, sets of pids, slots and CPUs are finite, sizes and
heights are positive, an int holds two ring buffers). Each result is an
invariant of `Spec`, so it holds under any fairness too, and for every value of
the constants: where a run has two nodes, three pages or a buffer of 16 words,
the theorem has any number. In each module an inductive invariant (`IInv`;
`Core` in RingBuffer_proofs) is proved for `Init` and kept by every action, one
lemma or step for each, and implies the property.

| module | theorems | what the inductive invariant adds, and why |
|---|---|---|
| `DispMailbox_proofs` | `TypeOK`, `MutexHeld`, `NoSleepOnFlag`, `SlotSpec` | `MsgPending`: a poster on its way has a message.  Types of `flag` and `sent` need it, exclusion needs the types of `pc`, and the wakeup argument needs exclusion: a flag set between the test and the sleep would need the mutex.  The refinement goes step by step: only `SetFlag` (with the slot empty), `TakeFlag` and `Exit` change the flag. |
| `Numatop_proofs` | `Teardown`, `Flag2Exact`, and that it implements FlagSlot (`MailboxKept`) | `Started` (threads are joined in order), `PostedAll` (a thread that works or has exited spins no more), `LatePost` (the handler that posts after `disp_fini` began after it), `OneWait` (the sample taken for `flag2` is in the slot, in work or answered, exactly one of these, and only while the disp thread waits).  `Typed` gives every poster a message to deliver, which is what the refinement needs; it holds DispMailbox and Numatop, which takes its critical sections as single steps, to one promise. |
| `PerfCtl_proofs` | `TypeOK`, `TaskNoticed`, `StatusHonest`, `NothingLeaked`, `EventsFitPage` | `Working` and `Asking` (who waits has asked), `InHand` (what is asked for is in the slot or in work until its wait ends, and no other task of its kind is), `Booked` (the status says all that is open), `Underway` (the steps left lead from the status there will be to the page on top, by kinds of page that open each other: `Stacked`).  All but the first two hold unless a task failed or came late, or a page was left astray. |
| `ProcGroup_proofs` | `TypeOK`, `NoDangling`, `OneAnswer`, `ExitsKept` | `RefsCounted` (a count is the number of threads that hold one), `InPlace` (what a thread holds fits where it is; the lwps are read under the mutex), `Marked` (what is marked is in no list, what is freed is as at first), `OwnLwp` (who uses an lwp uses its process), `LastOne` (who frees is alone).  The four properties are inductive only together: a free is safe because nobody else can reach the slot, which the counts and the marks say. |
| `NodeGroup_proofs` | `OneSlot`, `EventsKept`, `NodesCounted`, `InBounds` | `Apart`, `Filling` (a node is empty only between the two steps that add it), `Planned` (which walk may follow which, and that the disp thread waits for one that changes the status), `OfCpus`, `Booked` (slot by slot, what is open is what the walk has left so far), `Counted`, `Sized`. |
| `Windows_proofs` | `OneLine`, `InView`, `LinesInBuffer`, `DrawsLive`, `EventsShown` | `Good`: home is first, every list is `Scrolled` and its lines `Held` by its buffer, a fault is one of those named, a call-chain page is last and its event counted.  As a handler is an operator on states, there is a lemma for each that what it returns is good, and Region's arithmetic (quotients by a height) is proved on its own. |
| `RingBuffer_proofs` | `Behind`, `Framed`, `Delivered`, `LatencyOwn` | below |
| `Symbols_proofs` | `TypeOK`, `ReadOnce`, `LatExact`, `NumaExact`, `ListWhole`, `OneChain`, `NamesRight` | below |

RingBuffer's `Core` says how the log is laid out (`Records`: each header has a
length that is less than the buffer, the words of that record after it and
another header next; `Numbered`), `Behind`, and where the reader is (`Framing`):
at a boundary, or within the record at a header `h` whose chain has `l`
addresses (`Reading(h, l)`), with `log[h].n - left` fields read and the rest of
`todo` one of the six lists that the code can have there (`Expecting`). The
lemmas in between are about integers (`ToInt` takes a multiple of the range
away; two positions at the same place are a buffer apart) and lead to `SkipTo`,
where a skip may end, and `AtOf`, that a word that is read has not been
overwritten. `Framing` is about a reader that has not strayed; of one that has,
`Behind` needs only that it skips less than a buffer, whatever it reads.
`Delivered` needs `Delivery` on top: all before the record at hand is handed
over.

In Symbols `Typed` says that the areas of the map are apart, each within a slot,
that every table is in the order of `bsearch`, and that every base is far from
the last address, so that a difference taken modulo 2^64 does not hit by
accident. `LatExact`, `NumaExact`, `ListWhole` and `OneChain` are about one
draw, and follow from `Typed` and what its loops compute. These are recursive
functions in the model: `Recursion` proves that such a function exists and obeys
its equation, `Steps` is induction on its argument, as a statement about a set
of numbers. The list of chains has the invariant `Linked` (`prev` and `next`
hold a sequence in which each chain is once), which attaching appends to and
detaching takes from; while the sort runs there are two lists in one heap
(`Halves`), and while samples are added, each counts in one chain (`Listed`).
`ReadOnce` rests on what `Reloaded` carries over. `NamesRight` needs `Traced`
besides `Typed`, which relates the symbols to all that was seen before: the
image and every reference come from a file that was seen in the slot at whose
beginning they are based, and an area that was asked has the symbols of a file
seen there (`From`, `HasAll`). A function that is found has a place in one slot
only, hence is of that slot's only file.

The assumptions about Symbols' constants are those of the code's surroundings:
functions lie within the mapping of their file and not before its segment, slots
are of whole pages on both sides of a cut, and the process's memory is below the
last addresses, which are the kernel's. `Qsort` keeps ties in order, as glibc's
merge sort does.

Proving found errors of the model and of the properties, which TLC's instances
did not reach: `Plain` said nothing of functions that overlap, the sorts of
tables and lines left the order of equal keys open, `NodesCounted` excused too
much and too little (a node may be counted down twice), `EventsKept` and
`InBounds` did not name a node given up with CPUs in it and a refresh that fails
after it had put a CPU in, and `Behind` claimed that a strayed reader is never
ahead of the kernel. They say now what the code does, and the run of the ring
buffer begins at positions that show it.

Model-checked only:

* Liveness (`FlagTaken`, `KeysRead`, `WaitsEnd`, `RemovedFreed`,
  `Sampled`): fairness and ENABLED are outside the prover's reach.
* The violated properties, of course.

## 5. Not modelled, and the plan

Not to be modelled: formatting and layout, option parsing, the text of /proc
and /sys, ELF files, event attributes and tables, the kernel patches, the load
generator `mgen`.  Not modelled so far: allocations that fail (their effect is
a NULL that is used one step later); the records of a process between the perf
thread and the draw (`proc_countval_update`, `proc_callchain_*`), which are read
without the mutex of the process by the call-chain window; the uncore units of
a node; sorted lists of lwps.

Not proved, though it could be: the mailbox of Numatop, with each critical
section one step, is implemented by DispMailbox.  Both are proved to implement
FlagSlot, which says nothing of who spins or of the command that goes with a
flag.
