# TLA+ models of the nixMarkIV virtual-memory core

This directory holds TLA+ specifications of the kernel's VM core and name space in
`src/port`, the TLC configurations that check them, and `PROJECT.json`,
which lists the components, the runs, the mutants, the source lines that
each definition models, the findings, and the hazards.

## The system

| Part | Source | What it does |
|------|--------|--------------|
| Page allocator | `page.c` | Allocators (`Pgalloc`) per page size (1G, 2M, 16K, 4K). `newpg` takes from the smallest non-empty size and splits larger pages: `newepga` embeds a 4K allocator in a 2M page, and `initbundle` builds the 16K bundle allocator on top of it. `pgfree` gives pages back: `joinbundle` re-forms 16K bundles, and a drained allocator is joined back into its parent page (only with `*joinpages`). `putpage` keeps user pages in a per-process *selfish pool* (`NPROCPOOLSZ`). |
| Segments | `segment.c` | Segments map virtual addresses to page slots in `Pte` tables (`segwalk`). `forkseg` shares or copies them (`ptecpy`). `mfreeseg` releases a range of pages. |
| Text segment cache | `segment.c` | `attachseg` finds or builds text segments keyed by file. `segvictim` and `segreclaim` evict them. |
| Faults | `fault.c` | `fixfault` fills a slot. Zero-fill and file-backed `pagein` use a page lock so that only one process reads; copy-on-write uses `ref`. |
| File cache | `cache.c` | Whole-file cache segments. Reads go through `cread`/`mcread`, and read-ahead runs in `creadproc` workers. `cwrite` invalidates; `copen` checks the version; `creclaim` evicts. |
| Mount driver RPC | `devmnt.c` | Every 9P request is an `Mntrpc` with a tag from a bitmap. Processes queue their rpcs on the mount. One of them at a time, the *reader*, reads replies and hands them to their owners (`mountmux`); the others sleep. An interrupted request is flushed (`mntabort`). |
| Segment syscalls, process exit | `sysseg.c`, `proc.c` | Each process has a table of segments (`Proc.seg[NSEG]`). `brk`/`segbrk` grow one (`ibrk`), `segattach` adds one at a given or a free address (`isoverlap`), `segdetach` and `pexit` drop them (`putseg`), `segfree` calls `mfreeseg`. `procflushseg` makes every processor flush its MMU. |
| Byte allocator | `qmalloc.c` | `malloc` and `free` for the kernel: quick lists of small blocks in front of a first-fit list per arena segment, each with an unallocated tail; `morecore` adds segments with pages from `newpg`. |
| Mount table | `mnt.c`, `chan.c` | The name space of a process group: a prefix tree of `Mount`s from `pgrp->mnt` ("/"), each with a union list of `Mounted` entries holding a mounted Chan or the `Mount` of a longer prefix. `cmount`/`cunmount` change it under the `pgrp->ns` write lock and each `Mount`'s write lock; `mntlookup` reads it under the ns read lock; `createdir` scans a union's list later, under that `Mount`'s read lock only. |
| Scheduler | `proc.c`, `ps.c` | Processors are grouped into schedulers (`Sched`, `Schedsz` processors each). Each scheduler has priority run queues with `nrdy` and the `runvec` bitmap. `sched`/`runproc` pick a process, rebalance and migrate wired ones; `ready`, `sleep`, `wakeup`, `postnote`, `procwired`, `newproc` and `pexit` change process states. `ps.c` allocates process slots. |

The allocator is used by every other part. Faults and the file cache take
pages with `newpage` and release them with `putpage`. Segments own pages
through their slots, and the file cache owns the pages of its cache
segments.

## Modules

### `PageAlloc` (page.c), checked through `MC_PageAlloc`

**Abstraction of the sizes.** The size table is reduced to three classes, with the
types of the real 2M, 16K and 4K entries:

| Class | Allocator | Pages |
|-------|-----------|-------|
| 0 | one pre-allocated allocator `Top` | large pages `<<b,0>>` |
| 1 | bundle allocator `U(b)` | 16K pages, which are the user page size `UPGSHFT` |
| 2 | embedded allocator `E(b)` | 4K pages `<<b,k>>` |

The 1G class is left out: it is pre-allocated like the 2M class, so a 1G
split exercises the same code as a 2M one.

**Abstraction of the data.** A page is its position `<<b,k>>`. The model drops
addresses, colours, `va`, `nuser` and `nbundled`, because no decision reads
them.

**State.**
- `fl` holds the free lists exactly as the code keeps them: `next` and `prev`
  per page, plus a head and `nfree` per allocator. Unlinking a page that is
  not on a list therefore has the effect it has in C.
- `classlist` is `pgasz[i].pga`.
- `ref`, `pga` and `parent` are the `Page` and `Pgalloc` fields of the same
  names.
- `pool` and `npool` are `up->pgfree` and `up->npgfree`, one per CPU.
- `pc`, `req`, `ci`, `pg`, `fp` and `fa` are the locals of the call that the
  CPU is in.
- `held` is the set of pages that the CPU holds a reference to.

**Atomicity.** Each `ilock(&pgalk)` section is one step:
- `ScanHit` and `ScanMiss` are one iteration each of newpg's search.
- `SplitLarge` is newepga's first section, with `initbundle`.
- `LinkU` is its second section.
- `Take` is newpg's `nsplit++; pganewpg`.
- `SplitBundle` is `splitbundle`.
- `Put` and `Pgfree` are pgfree's first section, which ends with `joinbundle`.
- `JoinChk` is the unlocked `nfree` test.
- `Join` is pgfree's second section.

**Other actions.**
- `Free` is putpage's `decref`.
- `Share` is a second mapping (`ptecpy` in `forkseg`).
- `Halted` is a panic. The panics are those of the code:
  - `SplitLarge` panics when the bundle's last page is already linked, and
    `LinkU` when `U` is ("pga: linked", page.c:331-334, `PgaLinked`);
  - `PgfreeSection` (the section of `Put` and `Pgfree`) panics on a bad bundle before it tests `ref`
    (page.c:1088-1089, `JoinBad`);
  - `NewpgDone`, the end of newpg's loop, checks the page that `Take`
    got (page.c:995-1003, `NewpgOk`): its class, its place in its `pga`
    and its `ref` of 1.

| Run | Cfg | Expect | What it shows |
|-----|-----|--------|---------------|
| `pagealloc_both` | `PageAlloc_both.cfg` (module `MC_PageAllocBoth`) | pass | Two instances of `PageAlloc` in one model, chosen by the variable `mode` in the initial state. `"nojoin"` has two CPUs with joinpages off. `"join1"` has one CPU with joinpages on, two large pages and up to three pages held. In both, `TypeOK`, `FreeListsConsistent`, `NoDoubleAlloc` and `NoLeak` hold: joins keep the lists consistent, and no frame is duplicated or lost (87k states, no symmetry, under a minute). `PageAlloc_nojoin.cfg` and `PageAlloc_join1.cfg` still check each instance alone through `MC_PageAlloc`. |

`PageAlloc_joinrace.cfg` was a run until the segment system calls took its
place under the limit of twelve runs. With two CPUs and joinpages,
`NoDoubleAlloc` fails there. A `pgfree` on one CPU joins and frees the large
page that `newpg` on the other CPU is splitting, between `LinkU` and `Take`
(page.c:985). The same window, with joinpages off, lets a 16K request take
the only page of the new bundle allocator so that a 4K request reaches
`splitbundle(nil)` (page.c:967).

`RoundTrip` (not among the runs) fails on one CPU. Freeing a 16K page and
then the 4K head page leaves the 2M page split, because the last free is in
`E(b)`, whose `nfree` never reaches `npg` (page.c:1157).

**Properties.**
- `FreeListsConsistent`: a walk of every linked allocator's list has length
  `nfree`, and its pages are unreferenced, back-linked and correctly
  `prev`-linked.
- `NoDoubleAlloc` and `NoLeak`: every 4K frame is covered by at most one
  owner, and by exactly one when no CPU is inside the allocator. The owners
  are pages held, pages in flight inside newpg or pgfree, pages in pools, and
  free-list entries; each page covers the frames of its size.

**Bounds.**
- One large page of 1 head page and 2 bundles of 2 small pages, so
  `NInner` = 5. This is the smallest layout with head pages, two bundles (a
  bundle allocator can be partly free) and a bundle join.
- `"nojoin"`: two CPUs, a pool of one page, at most two references
  per CPU.
- `"join1"`: one CPU, two large pages and up to three references, so
  that one large page can be split and rejoined while the other is in use
  (the join then fires in 185 distinct states).

**Deadlock.** Deadlock is checked: a CPU can always request or free a page,
and a panic halts by stuttering.

**Fairness.** No liveness is checked in this module yet.

### `SegFault` (fault.c, segment.c, sysseg.c, procflushseg), checked through `MC_SegFault`

**Scope.** DATA segments only: a root segment `s0` and the copies that
`forkseg(share = 0)` makes, whose `src` is `s0`. Each process runs on its
own processor; threads made with `rfork(RFMEM)` are processes with the same
segment.

**State.**
- `slot[s][a]` is `s->map[i]->pages[j]`, and `pte[s][i]` says whether
  `s->map[i]` exists. Addresses are page numbers `0..NPte*PTEPERTAB-1`;
  pages below `FLen` are backed by the file, the others zero-fill.
- `slk[s]` is the holder of `s->lk`; `plk[f]` the holder of the page QLock.
- `ref`, `n` (the paged-in flag) and `lnk` (`pg->next`) are `Page` fields.
- The allocator is abstract: a `free` set and the per-process selfish pool
  `pool[p]`, with `putpage`'s pool limit and `pgfree`'s "linked" check.
  `PageAlloc` models the allocator itself.
- `tlb[p][a]` is the frame that `p`'s MMU maps at `a`; `mmuflush[p]` is the
  flag that `procflushseg` sets and the clock tick clears.
- `pc`, `va`, `pgv`, `list`, `mf` and `kid` are the locals of the call that a
  process is in. `crash` records a panic or a nil dereference.

**Atomicity.** A step ends wherever the code can block or drops a lock: at
every `qlock`, after every `qunlock` of a segment, and between a read of a
slot and its use when no lock is held. So `pagedin(*pg)`, the re-lock in
`fixfault`, the copy on reference and the `mmuput` each read the slot in a
step of their own. `PageinSrc` takes and releases `src->lk` in one step,
since nothing else happens while it is held. `MmuInstall` is one step
because `mmuput` runs at splhi, where the clock cannot flush.

**Actions.**
- The fault: `FaultStart`; then one of `PageinHit`, `PageinZfod`,
  `PageinSrc` or `PageinNew`, with `NoPages` when `newpage` would panic. Then
  `Read` or `ReadFail`, or `PagedIn` and `Turnstile`. Then `FaultErr` on the
  error path, or `Relock`, `Cow` and `CowPut`. Last come `MmuRead` and
  `MmuInstall`.
- The fork: `ForkLock`, `ForkCopy` (every `ptecpy`, with `mmuflushpg`), then
  `ForkFlushed` after `procflushseg`.
- The segfree: `SegFree`, then `MfreeEnd`, `MfreeSkip` (nil Pte) and
  `MfreeSlot` (one slot) for the loop. Then `MfreeOut`, `MfreeFlushed`,
  `MfreePut`, and `SegFreeDone` (`qunlock`, `mmuflush`).
- `Tick` is the clock interrupt of a processor whose flag is set. It lives in
  architecture code outside `src/`, so it is modelled from spec §5.

| Run | Cfg | Expect | What it shows |
|-----|-----|--------|---------------|
| `segfault_fork` | `SegFault_fork.cfg` | pass | A parent and its child fault on file-backed and zero-fill pages, with read errors possible, copy on reference and segfree single pages, with four frames. `TypeOK` and `PageOwnership` hold (173k states). |
| `segfault_srcleak` | `SegFault_srcleak.cfg` | violation | `UserMapsPrivate` fails. After the fork, the parent faults in a file page and maps it writable. The child's `pagein` then finds that page in `src`, which is the parent's own segment, and shares it (fault.c:147). The child sees the parent's post-fork writes. |

Three more configurations are kept but are not among the runs:
- `SegFault_unlockrace.cfg` finds `SegLockHeld` violated without any I/O
  error. A thread waits in `pagedin` on a page it holds no reference to, and
  its sibling segfrees the page, so `n` becomes 0. `fixfault`'s error handler
  then qunlocks `s->lk`, which the sibling holds (fault.c:221). It was a run
  until the mount table took its place under the limit of twelve runs.
- `SegFault_forkzfod.cfg` checks `UserMapsPrivate` with zero-fill pages
  only. Fork, copy on reference and segfree never leave a user mapping of a
  shared or freed page there (no error, 113k states).
- `SegFault_staletlb.cfg` finds `UserMapsPrivate` violated. A fault reads
  `*pg` for `mmuput` after unlocking the segment. A concurrent segfree
  clears the slot, and its `procflushseg` completes when this processor
  takes a tick. The segfree then frees the page, and `mmuput` maps the freed
  frame (fault.c:293). Spec §4.C says that clearing, then flushing, then
  dropping prevents a TLB from keeping a translation to a freed frame. With
  `NoCrash` in place of the invariant, the same unlocked re-reads of `*pg`
  (lines 134, 259 and 291) dereference a nil slot.

**Properties.**
- `SegLockHeld`: a process at a point that runs under `s->lk` holds it.
- `PageOwnership`: `ref` equals the number of slots, pending copy-on-reference
  puts and mfreeseg lists that hold the page. A page with `ref` 0 is in
  exactly one of the allocator and one selfish pool.
- `UserMapsPrivate`: a page mapped in a user-mode process's MMU is allocated
  and is in no other slot of a segment that a running process can see.
- `NoCrash`: no nil dereference and no panic other than `newpage`'s "no
  free pages" panic, which is how the kernel handles running out of memory.
  It is not among the runs. With empty pools and no segfree racing a
  fault it holds trivially. The "fixfault addr" panic (fault.c:291) cannot
  fire in the model: every page a slot holds was made for that slot's
  address. With a full pool (`PoolMax` 1, already full) and a
  segfree of two pages, TLC finds it violated: `mfreeseg` chains the pages
  through `pg->next` and never clears it, and `putpage` then calls
  `pgfree`, which panics "pgfree: linked" (segment.c:812). Since the pool
  holds 10 pages, a segfree of 12 pages or more always reaches this panic.
  That configuration is not among the runs.
- `MfreeInRange` (action property): a slot is cleared only by an `mfreeseg`
  whose range contains it. It is not among the runs. With one process, two
  slots per Pte and `UnalignedFrees`, TLC finds it violated: in a segfree of
  a page in a missing Pte, `pages -= PTEPERTAB-j` wraps the unsigned count
  (segment.c:791), and the loop frees the next Pte.

**Bounds.** Two Ptes: of one slot each for the fork and thread runs, and of
two slots for the `MfreeInRange` check, so that a range can start inside a Pte.
- The fork run has four frames, one for each slot of the two segments. A
  copy on reference while all four are in use needs a fifth frame, so
  `NoPages` (the "no free pages" panic) is reached.
- Pools hold 0 or 1 page, standing in for `NPROCPOOLSZ` = 10. A full pool is
  what matters, and a pool of size 0 is always full.
- Segfree requests are given in half pages, so that unaligned starts and
  ends occur.

Symmetry is over frames.

`SegFault_threads.cfg` is kept but is not among the runs. It has two
threads of one segment with two frames, and `PageOwnership` holds there
(97k states).

**Deadlock** is checked. A panic halts by stuttering, and every blocking
wait (segment and page qlocks, `procflushseg`) is released by a step that
stays enabled.


### `SegCache` (the text segment cache of segment.c), checked through `MC_SegCache`

`sysexec` gets the text segment of an executable with `newseg(..., c)`,
which calls `attachseg`:
1. While `nseg >= SCACHESIZE`, it calls `segreclaim`.
2. It looks up the file's segment under `lock(&segcache)`.
3. If there is none, it unlocks, builds one with `newseg`, and looks again
   before it links the new segment.

`segreclaim` runs under `reclaimlk`. It asks `segvictim` for an unused
segment; `segvictim` is a second-chance scan of the LRU queue. It unhashes
the victim, checks that `ref` is 1 and calls `putseg`. `putseg` drops a
reference; the last one puts the header on `segalloc.free`, and `newseg`
takes headers from there again.

**State.** `hash`, `lru`, `nseg` and `reclaimlk` are `segcache`. The
per-segment state `sfile`, `ref`, `used` and `stype` is `s->c`, `s->ref`,
`s->used` and the `SG_FREE` poison. `segs`, `sfree`, `nused` and `nfree`
are `segalloc`. A process has a point in `attachseg` (`pc`), its `ns` and
the segment it found (`sv`), and the text segment it runs (`txt`).

**Actions.**
- `Exec` is the call from `sysexec`. That is not under `src/`, so it is
  modelled from the spec.
- `Reclaim` is the `while` loop and `canqlock(reclaimlk)`.
- `Victim` is `segvictim` and the unhash. `Scan` is segvictim's loop, a
  RECURSIVE operator.
- `PutVictim` is the `ref` check and `putseg`.
- `Again` is attachseg's lookup and the linking of `ns` (with `linkseg`'s
  panic). `Linked`, putseg's "linked" test, leaves out `s->hash`: a hash
  chain holds the segments of one file, and `Again` hashes a segment only
  when none of its file is hashed, so `s->hash` is always nil.
- `NewSeg` is `newseg` with a nil channel.
- `Found` and `Incref` are the return of a cached segment: `putseg(ns)`,
  then `incref(s)`.
- `Fork` is `forkseg`'s `sameseg` for a text segment.
- `Exit` is `pexit`'s `putseg`.

Pages are left out. Every file has a hash bucket of its own, so a chain
holds one file's segments.

| Run | Cfg | Expect | What it shows |
|-----|-----|--------|---------------|
| `segcache_uaf` | `SegCache_uaf.cfg` | violation | `NoUseAfterFree` fails in 16 steps with two processes, two files, a cache of one segment and three headers. p2's exec finds `x1`'s segment and unlocks the cache (segment.c:313). p1's exec, with `nseg` at the limit, reclaims that segment: its `ref` is still 1. Then p2's `incref` (318) takes a segment on `segalloc.free`, which the next `newseg` hands out with `ref = 1`. With `NoPanic` in place of the invariant, the incref falls between the unhash and the ref check, and `segreclaim` panics "segreclaim: ref" (16 steps). |

**Properties.**
- `NoUseAfterFree`: a segment a process runs is neither poisoned nor on
  the free list.
- `RefExact`: `ref` counts the cache, the processes running the segment,
  an attachseg's `ns` and a reclaimer's victim.
- `CacheConsistent`: hash chains, LRU queue and `nseg` agree, at most one
  segment per file is cached, and `nused + nfree` counts the headers.
- `VictimCorrect`: `segvictim` returns the reference victim (the first
  segment in LRU order with ref 1 and no second chance, else the first
  with ref 1), keeps every other segment queued, and clears every second
  chance when it finds none.

`SegCache_seq.cfg` has one process and six operations and is not among the
runs. All six properties hold there (133 states). With two processes
`RefExact`, `CacheConsistent` and `VictimCorrect` all fail, and only after
the race above. An example: `linkseg` of a sole LRU member does not see it
as linked, so the segment is queued twice.

### `FileCache` (cache.c, with the parts of segment.c, chan.c, fault.c and devmnt.c it calls), checked through `MC_FileCache`

The model covers one cacheable file on a mount, the processes that have
channels on it, and the `creadproc` workers. File contents are abstracted
to a version: the server's `sver` grows with every write it performs, and
a page holds the version it was read at (`pdata`). Offsets are in units,
and a page is `PGSZ` units.

**State.**
- Segments: `hashed`, `sref`, `slot`, `slk` (`s->lk`), `clength`, `nbytes`
  and `cvers` (`s->cqid.vers`).
- Pages: `pref`, `pn` (`pg->n`), `plk` (the page qlock), `pdata`, and
  `free`.
- The cache: `cnbytes` (`cache.nbytes`, a uvlong, so a negative value
  stands for a wrapped one), `nseg`, `rq` (the `Frd` queue), `nprocs` and
  `rlk`.
- Channels: `cmc` (`c->mc`), `cref` (`c->ref`), `chvers` (`c->qid.vers`).
- Per actor: the program counter `pc`, and the locals of cread (`rd`), of
  mcread (`m`, `pgs`, `pgv`) and of cwrite and cremove (`cnt`).

**Actions.** Each action runs from one blocking point (a lock, an RPC reply)
to the next, in the order of the code.
- `copen` is `OpenStart`, then `Creclaim` (creclaim with `unhashseg` and
  `segvictim`) while `cache.nbytes >= NBYTES`, then `Clookup` and
  `CheckVers`.
- `cread` is `ReadStart`, `ReadAgain` (`cseg`, `clen`) and `ReadLoop`
  (done, `creadq`, `mcread`, or take a page). Then come `ReadPagedin`
  (`pagedin`'s turnstile and its `Eioload`), `ReadRelock` and `ReadCopy`.
- `mcread` is `McCount`, then `McLock` and `McLoop` (wait for, skip, or
  create a page), then `McWait`, `McRelock`, and `McCache` (the
  `cache.nbytes` update and the read RPCs).
- The replies are collected in page order by `McCollect`, using
  `ChunkEof` for the end-of-file test. Then come `McDone` and `McEof`
  (`ceof`).
- The error path is `McAbort`, `McErr` and `McErr2`.
- `cwrite` is `WriteStart`, `WriteClear`, `WriteSend` and `WriteDone`.
- `cremove` is `RemoveStart`, `RemoveClear`, `RemoveUnhash` and
  `RemoveClunk`.
- `creadproc` is `WStart`, `WCheck`, `WWake` (a wakeup or the 5 s timeout),
  `WExit` and `WDone`.
- The file server answers each page's reads (`Serve`) and each write
  (`ServeWrite`) whenever it chooses, or fails them (`RpcFail`).
- A panic (`putseg: linked`, `unhashseg: not found`, `newpage`'s out of
  memory) sets `crash`, and the
  system then stutters (`Halted`).

**Runs.**

| Run | Cfg | Expect | What it shows |
|-----|-----|--------|---------------|
| `filecache_basic` | `FileCache_basic.cfg` | pass | Two processes and one worker open, read, write, remove and close the file, and RPCs may fail, under `FairSpec`. `TypeOK`, `PageRefsExact`, `NoPanic` and `OpsComplete` hold (65k states, under a minute). The read of page 1 runs its two-page window past the file's end. |
| `filecache_stale` | `FileCache_stale.cfg` | violation | `ReadYourWrites` fails with a single process (48 steps). Pages are one unit, so a read of three pages runs past the two-page `NREAD` window. The process's read queues a read-ahead of the next page; then its `cwrite` clears the cache and sends the Twrite. The worker allocates the page after the clear, and its Tread is answered before the write. After `cwrite` returns, the process reads the pre-write page (cache.c:628). |

**Properties.**
- `PageRefsExact`: a page's `ref` is the number of slots, readers and
  `pgs[]` entries that hold it. A page is free exactly when its `ref` is 0.
- `NoPanic`: none of the cache's panics is reached.
- `QueueDrains` (liveness): a non-empty read-ahead queue is eventually
  empty. `creadq` starts no worker when `NRPROCS` run, and an idle worker
  exits when more than `KEEPPROCS` (2) run. It is checked by
  `FileCache_live.cfg` only, which is not among the runs: with two
  workers, neither ever exits. The exit path of `creadproc` (cache.c:372)
  meeting a queued request needs three workers, which is beyond the time
  limit with the liveness check.
- `OpsComplete` (liveness): every operation a process starts returns. No
  waiter on `s->lk`, or on a page qlock in `pagedin`, is left waiting for
  ever.
- `ReadYourWrites`: a page that a cread copies holds the process's last
  completed write, or a later one.

Three further properties, not among the runs, are found violated by TLC:
- `NBytesBalanced` fails under `FileCache_basic.cfg` in 18 steps.
  `ccheckvers` clears a segment without taking its pages off
  `cache.nbytes` (cache.c:177), so each reopen after a write leaks them.
- `ReadInsideFile` fails in 24 steps. `mcread` sets `pg->n = 1`
  (cache.c:304) before `ceof` lowers `clength`, so a concurrent `cread`
  copies the bytes after the end of the file. `newpage` never cleared
  those bytes.
- `EofSound` (a known `clength` of a segment in use is never inside the
  file) fails with `PGSZ` 3 and `IOUNIT` 2. A reply is compared with
  r0's count, not its own (cache.c:298), so the short last chunk of page 0
  sets `clength` to 3 for a 4-unit file. This happens whenever the iounit
  does not divide `CPGSZ`. With `IOUNIT` 1 it holds only because every
  chunk is full, so it is not checked by the passing run.

**Bounds and scaling.**
- `NREADPG` is 2 and `KEEPPROCS` is 2, as in the code (`NREAD` is
  `2*CPGSZ`; cache.c:372 keeps two workers).
- There is one worker in the runs (the code allows `NRPROCS` = 8). With
  one worker, `creadproc` never exits.
- `NBYTES` is 2 pages, so a reopen can reclaim.
- There are four frames. When none is free, `newpage` with `wait` 0
  panics (`crash = "nopages"`); the runs never reach it with four frames.
- A 3-unit file leaves the last page partly past the end.
- `MaxOps` = 4 operations are started in total, and `MaxVer` = 1 write is
  performed. That is enough for read, read-ahead, write and read again,
  which is what the stale-read trace needs.
- A process reopens its file only once its previous channel is gone.
- There is one segment: a second one could only be created after the first
  is unhashed.

**Fairness.** `FairSpec` adds strong fairness for each process's and each
worker's own steps once an operation has started. The kernel scheduler runs
every ready process. A qlock queues its waiters in order, so a step that is
enabled again and again (a lock that is released repeatedly) is eventually
taken. The server gets weak fairness: it eventually answers every RPC. The
starts of operations (open, read, write, remove, close) are the user's
choice, so they get no fairness.

`FileCache_live.cfg` uses two workers, one-unit pages (so the read queues a
read-ahead), `RpcFail` FALSE and a single read request. It has not been run
to completion at these bounds.

`newpage`'s frame is a fixed free one (`NewFrame`). Frames are
interchangeable, so this replaces frame symmetry, which liveness checking
cannot use. `filecache_basic` keeps symmetry over the two processes.

**Deadlock** is checked. Stopping is allowed only when every process is
idle and every worker is between requests, or after a panic.

### `MntRpc` (devmnt.c, with sleep, wakeup and postnote of proc.c), checked through `MC_MntRpc`

The model covers one mount (`Mnt`) shared by several processes. Each
process issues operations of a single request, such as `mntrdwr`: it calls
`mntralloc`, `mountrpcreq` and `mountrpcrep`, then `mntfree`. When
`mountrpcrep` raises an error, it calls `mntabort` instead. The file server
is the environment, modelled from 9P:
- it reads requests in order (`SrvRecv`);
- it answers them in any order, or in order when `SrvFifo` holds
  (`SrvAnswer`, which can send `Rerror` when `SrvErrors` holds);
- for a `Tflush`, it drops the named request if that is still pending and
  answers `Rflush` (`SrvFlush`).

Each request written gets a fresh `id`, which its answer repeats. The id is
not part of the 9P message; it only lets the properties tell answers
apart. `PostNote` delivers a note at any moment and wakes the process if it
is asleep.

**State.**
- `rpcfree`, `nrpcused`, `allocd` and `tagmask` are the `mntalloc` free
  list, its counter, the headers in use and the tag bitmap. `mntreset`
  reserves tag 0.
- Per header: `tag`, `owntag`, `oldtag`, `rtype`, `reqid`, `reply`, `done`
  and `rpid` are the `Mntrpc` fields.
- `queue` and `rip` are `mnt->queue` and `mnt->rip`.
- Per process: `pc` is the point in the code, `r0`/`cur` are the operation's
  rpc and the one being waited for (a flush during `mntabort`), and `note`
  is a pending note.
- `tx`, `pending` and `rx` are the connection and the server.

**Actions.**
- `Start` is `mntralloc` (`Mntralloc`, with `NewRpc` and `alloctag`).
- `Enq` and `Send` are `mountrpcreq`. `SendErr` is its write-error path
  (devmnt.c:1058-1064): `mntqrm` and the error, when `ConnErrors` holds.
- `TakeGate`, `WaitGate`, `Sleep` and `Slept` are the loop of
  `mountrpcrep`, with `sleep(rpcattn)`. `TakeGate` sets `rip` under the
  lock and goes straight to `ReadGate` when its rpc is already done. Only
  the reader completes queued rpcs, so the `done` test after the unlock
  sees the same value.
- `Read` is `mntrpcread` and `mountmux`. `mntrpcread` only touches the
  connection, which only the reader uses, so it is part of the same step.
  When the reply completes the reader's own rpc, `ReadGate` follows: it is
  `mntgate` (`Gate` wakes the first queued rpc whose process is asleep,
  and `rip` is cleared).
- `ReadIntr` is the reader's error path in `mountrpcrep`.
- `OpReturn` and `RepError` are the rest of `mountrpcrep` and `mntrdwred`.
- `AbortOther`, `AbortNoFlush`, `AbortFlush`, `FlushErr`, `FlushQrm`,
  `FlushReturn`, `FlushFree` and `AbortEnd` are `mntabort`, with
  `mntflushalloc` and `mntqrm`.
- `Panic` models each `panic` of the code (double send, double free, queue
  already done). The system then halts and stutters.

| Run | Cfg | Expect | What it shows |
|-----|-----|--------|---------------|
| `mntrpc_basic` | `MntRpc_basic.cfg` | pass | Two processes with two notes, server errors, write errors and answers out of order, under `Spec` with symmetry over processes (48k states, 5 s). `TypeOK` and `QueueExact` hold. |
| `mntrpc_stale` | `MntRpc_stale.cfg` | violation | `ReplyMatches` fails with one process and one note in 16 steps. The note interrupts the process while it is the reader waiting for its own reply. `mountrpcrep`'s error path calls `mntqrm`, which sets `done` (devmnt.c:1100-1104). `mntabort` then takes the rpc for answered and sends no `Tflush` (1531). The header and tag are freed and reused, and the server's answer to the interrupted request is delivered to the next one. |

**Properties.**
- `QueueExact`: `mnt->queue` holds each rpc at most once, and holds exactly
  the rpcs that some process sent and still waits for and that are not
  done.
- `NoStrandedSleeper`: when a process sleeps on an undone rpc and nobody
  holds the gate, some process is still running and can take the gate.
  It is not among the runs: it holds with two processes, since the process
  that leaves the gate is the only other one, and it fails with three.
- `OpsComplete`: every operation returns, unless the system panicked. It
  fails with three processes for the same reason, so it is not checked.
- `ReplyMatches`: the reply given to an rpc in use is the answer to its own
  request.
- `NoPanic`: no panic of the code is reached.

Two violations that TLC finds have configurations that are not among the
runs:
- `MntRpc_panic.cfg` (the basic bounds, `NoPanic`) fails in 26 steps. A
  process is interrupted while it waits for its flush. Its flush's error
  handler tests `fr->done` without the mount lock (devmnt.c:1548). Another
  reader delivers the `Rflush` in between, so the handler's `mntqrm` panics
  "already done".
- `MntRpc_strand.cfg` (three processes, two notes, symmetry over processes)
  fails `NoStrandedSleeper` in 32 steps (1.45M states, 1 min 51 s). `mntgate` wakes a
  process asleep on its flush. A second note makes that process leave by
  the flush's error path without taking the gate, so a third process sleeps
  on an undone rpc with nobody reading: its operation hangs.

**Bounds.** The runs use two or three headers per process and one more tag
than headers, so `alloctag` never runs out. The number of operations is
capped (`MaxOps`) and so is the number of notes (`MaxIntr`). Two operations
and two notes are enough for an operation that is interrupted, flushed and
interrupted again while another process reads. `NRPCS` is 0, the code's
value (an unlimited free list).

**Fairness.** `mntrpc_basic` checks only invariants, under `Spec`.
`FairSpec`, used by `MntRpc_strand.cfg`, gives weak fairness to each process's steps and to
the server's three steps. The scheduler runs every ready process. A process
that is not asleep always has an enabled step: the gate, the reader's read
once a reply is on the connection, or a return. The server answers every
request it has read. Notes and new operations get no fairness.

**Deadlock** is checked. Stopping is allowed only when every process is
idle, every operation has been started and the server has nothing left to answer (`Finished`), or after a panic
(`Halted`).

**Not modelled.**
- `mntversion`, `mntattach` and `mntauth`.
- The walk and clunk fixups of multi-request series. `r->tagnext` (the tag
  groups of 9P2000.ix) is left out: each operation has one request.
- Hangup and `mntchk`.
- The message contents; a reply is its type, tag and id.

### `Sched` (the scheduler of proc.c, with the slot allocator of ps.c), checked through `MC_Sched`

**State.** Per processor: where it is in the scheduler (`ms`: `"sw"` in
`schedinit`, `"sw2"` between the slot release and `up->mach = nil`,
`"sched"` in `runproc`, `"idle"` in `idlehands`, `"run"`) and its `up`
(`cur`). Per process slot: `state`, `mach`, `mp`, `sch`, `wired`,
`priority`, `notepending`, whether it sleeps on its Rendez (`asleep`) and
the condition that Rendez tests (`cond`). Per scheduler: the run queues
`runq[k]` as sequences, `nrdy`, `runvec` (the set of its bits), `nruns`,
and `sch->mp`. `crash` records a panic ("ready: already linked") or a
`lock` of a nil `Sched`.

**Actions.**
- `Schedinit` and `SchedinitDone` are `schedinit`: a Running process is
  readied, a Moribund one has its slot released (`psrelease`), then
  `up->mach = nil`.
- `Runproc` is `sched`/`runproc`/`rqrunproc`: the balance step (one call in
  `Nbalance` ignores affinity, and the processor named by `sch->mp`
  rebalances), the scan from the highest non-empty level, the migration of a
  process wired to another scheduler, `unlinkproc` (`Cleared`), and the
  switch (`Dispatch`). `Idle` is the idle loop when nothing is runnable.
- `Ready` is `ready`/`linkproc`; `Yield`, `Preempted`, `Sleep`, `Woke`,
  `Pexit`, `PexitSched`, `Execsched`, `Procwired` and `Newproc` are the
  running process's calls. `Wakeup` (an interrupt handler that sets the
  condition and calls `wakeup`) and `Postnote` come from outside.

**Runs.**

| Run | Cfg | Expect | What it shows |
|-----|-----|--------|---------------|
| `sched_reuse` | `Sched_reuse.cfg` | violation | Two processors share one scheduler (`Schedsz` 2, as in proc.c) and run the boot process and one more slot. `NoDoubleRun` fails in 15 states (47k distinct states under `MCView`, 15 s). `schedinit` releases a Moribund slot (`psrelease`, proc.c:203-204) before `up->mach = nil` (207). A second processor's `newproc` reallocates the slot and readies it, and a third processor runs it. The late store then clears `p->mach` of a process that is running. |

**Properties.**
- `RunqExact`: every Ready process is on exactly one run queue, the queue
  of its own scheduler at its own priority; nothing else is queued; `nrdy`
  counts the queued processes and `runvec` names the non-empty levels.
- `NoDoubleRun`: the process a processor runs is Running and its
  `p->mach` names that processor, so no process runs on two processors.
- `NoCrash`: no panic ("ready: already linked", a `wakeup` of a process
  in the wrong state), and `ready` is never called on a process whose `sch`
  is nil.

`sleep` and `wakeup` are single steps: both run under `lock(r)`, and
`sleep` tests the condition under that lock, so no interleaving of their
inner steps can be observed from outside.

Two more violations are configurations that are not among the runs:
- `Sched_wired.cfg` (`Schedsz` 1, `WireAcross`): `rqrunproc` sets
  `p->sch = p->wired->sch` before `unlinkproc` (proc.c:457-458), which then
  fixes `nrdy` and `runvec` of the wrong scheduler. `RunqExact` fails.
- `Sched_exitintr.cfg`: `pexit` sets `up->sch = nil` (proc.c:1139) with
  interrupts on, and a clock preemption (`Preempted`, allowed at `"user"`
  and `"exit"`) calls `ready` on a nil scheduler. `NoCrash` fails in 11
  states.

A panic sets `crash`, and the system then stutters (`Halted`).

**Bounds and view.** Two processors and two process slots (two priority
levels) give every pair of interleavings: two processors in `runproc` at
once, a wakeup racing a sleep, a slot released while another processor
allocates it. `Wirers` and `Noted` restrict `procwired` and `postnote` to
one process each, as in the kernel, where kprocs wire themselves and user
processes get notes. `MCView` forgets the fields of a Dead slot (`mp`,
`wired`, `priority`, `notepending`), which `newproc` resets before any use;
states that differ only there have the same futures.

**Not modelled.** `reprioritize` is abstracted to any level up to
`basepri`; there is no load or cpu-usage arithmetic. `tsleep` and its
timer, `procctl`, the EDF hooks (`noedf.c`), `killbig` (never called) and
the statistics are left out. No liveness is checked: a work-conserving
property under weak fairness of each processor did not finish within the
time limit on this model.

### `QMalloc` (the kernel byte allocator of qmalloc.c), checked through `MC_QMalloc`

**State.** Memory is counted in `Header` units. Segment 0 is `mseg0`. Segment
`k > 0` is the `k`-th page that `morecore` obtains; its first unit holds the
`MSeg`. Per segment: the list position after `mseg0` (`segs`), `tailptr`
(`tail`), the circular fragment list from the rover (`frag`, a sequence
whose head is the rover) and `maxsz` (`NoMax` for `~0`). `size` is the size
field of each header, `quick[n]` is `quicklist[n]`, and `held` holds the
blocks each CPU has been given. `mainlock` and `mclock` name their holder.
Requests are given in units of user bytes and converted by `NUNITS`.

**Actions.**
- `Malloc` is `malloc`/`smalloc`/`mallocz`. `malloc(0)` panics in
  `setmalloctag(nil)`. `QmallocEntry` is the quick path.
- `Lock` is `ilock(&mainlock)`. `Scan` is the rest of `qmalloc`: the tail
  test over the segments, the rover loops (`RoverTake`, with the split from
  the end and `maxsz`), and the call of `morecore`. `TailWrite` is
  `tailalloc`'s increment, a separate step after the read of `tailptr`.
- `Core`, `CoreWait`, `Newpg` and `Relock` are `morecore`. `CoreWait` is the
  contended path, which returns 0 without `mainlock`.
- `Free` and `FreeBody` are `free`. `QFree` is `qfreeinternal` as an
  operator on the allocator state `St`, so that `qmallocalign` can free
  runts inside its own step. `Realloc`, `RLock` and `FreeOld` are `realloc`.
- `MallocAlign` is `mallocalign`/`qmallocalign`'s entry with offset and span
  0. An alignment of one unit is `xmalloc`. A small request takes the first
  block of `quicklist[nunits]` whose user pointer is aligned. Anything else
  goes to `mainlock`, and then `AlignScan` runs. It serves the request from
  the first tail with room (`TailAlign`: the runt before the aligned header
  is freed), or from the first rover walk with a fitting block
  (`RoverAlign`: the runt in front of it is freed, and so is a residue of
  more than `Mult` units behind it). Failing both, it calls `morecore` for
  `nunits` plus the alignment. `al` records each CPU's alignment.

**Runs.**

| Run | Cfg | Expect | What it shows |
|-----|-----|--------|---------------|
| `qmalloc_corerace` | `QMalloc_corerace.cfg` | violation | Two CPUs; `NoOverlap` fails in 16 steps. c1's request exceeds `mseg0`, so it enters `morecore`, takes `mclock` and gets a page. c2's `morecore` finds `mclock` held, waits and returns 0 without retaking `mainlock` (qmalloc.c:884-889). c2 rescans while c1, holding the lock, tailallocs from the new segment. Both read the same `tailptr` and return the same block. |

Four configurations are not among the runs:
- `QMalloc_seq.cfg` (one CPU, 2.2M states, 90 s): `TypeOK`, `NoOverlap`
  and `NoLeak` hold.
- `QMalloc_maxsz.cfg` (one CPU, requests of 2, 3, 5 and 7 units) fails
  `MaxszSound` in 38 steps (3.5 minutes). A vain walk sets `maxsz` to 5. The
  5-unit block is split and the rest removed, which leaves the list empty
  and `maxsz` at 5. A 7-unit block freed onto the empty list becomes the
  rover without raising `maxsz` (qmalloc.c:597), so `qmalloc` would skip
  the segment for a 7-unit request.
- `QMalloc_quick.cfg` fails `QuickReuse` in 11 steps. A block of `NQUICK`
  units goes onto `quicklist[NQUICK]` when freed, but `qmalloc` looks only
  at lists below `NQUICK` (qmalloc.c:483), so the next malloc of that size
  takes new memory.
- `QMalloc_align.cfg` (one CPU, alignments of 2 and 4 units, 109k states,
  10 s): `TypeOK`, `NoOverlap`, `NoLeak` and `AlignedResult` hold, with
  every aligned path taken. With requests of 1, 2 and 3 units, 10.3M states
  also pass, in 6 minutes.

**Properties.**
- `NoOverlap`: the claims on memory (held blocks, quick and fragment
  entries, segment tails) are disjoint; their lengths add up to the size of
  their union.
- `NoLeak`: with no CPU inside the allocator, the claims cover every unit
  of every segment.
- `MaxszSound`: a known `maxsz` bounds every fragment of its segment.
- `QuickReuse` (action property): a request never goes to `mainlock` while
  the quick list of its own size holds a block.
- `AlignedResult` (action property): every block `qmallocalign` hands out
  has its user pointer aligned, so `mallocalign`'s panic at qmalloc.c:848
  never fires.

**Bounds.** `Mult` is 2 and `NQUICK` 3, the smallest values that keep the
code's shape: sizes below `Mult` are not rounded, a quick list above
`Mult` is searched over `Mult` sizes, and blocks above `NQUICK` go to the
fragment lists. `mseg0` is smaller than a 5-unit request in the race
configuration, so the first requests call `morecore`. One page can be
obtained (`MaxCore` 1), and `newpg` may also fail, which panics.

**Not modelled.** `mallocalign`'s `offset` and `span`: a span of at least
the alignment only becomes the alignment (and a request larger than it gets
nil), and any other nonzero offset or span panics. Also left out: the malloc tags and end
tags (the model's clients never double free or overrun), `poison`, the
`DEBUGALLOC` tables and the dumps. Free's locked body and `realloc`'s
locked test are single steps. So are `qmallocalign`'s two `tailalloc`s,
which after the contended `morecore` return would also run unlocked. The global `mseg` cursor, which the unlocked
rescan also writes, is not a variable, so the model sees fewer effects of
the race than the code has.

### `MountTable` (the mount table of mnt.c, with cmount, cunmount and createdir of chan.c), checked through `MC_MountTable`

**State.** `Mount` and `Mounted` structures are numbered from pools
(`NMount`, `NEl`), so that a freed one can be told apart and reused. Mount 1
is `pgrp->mnt`, "/". For each `Mount`: `mref` (`ref`), `mparent`, `melem`,
`ismount` and the union list `um`, a sequence of `Mounted`s. For each
`Mounted`: `eto` (a Chan or `Nil`), `echild` (a `Mount` or `Nil`) and
`ecreate` (`MCREATE`). A Chan is the driver it was attached from and the
names walked from its root; `eqchan` compares both (`EqChan`). `nsw` holds
the ns write lock, and `rd[m]` the processes holding `rlock(m)`. A writer's
`wlock(m)` is the guard `rd[m] = {}`, which is taken and released within
its step. `synced` says the table is the one `pgrp->vers` was last bumped
for. `Init` is `setslash`: "/" with the root device's Chan.

**Actions.** Each process is idle or inside one operation (`pc`).
- `Cmount` takes the ns lock and runs `mntwalk` (`MntWalk`).
  - `CmChild` adds one missing prefix `Mount` at the head of its parent's
    list.
  - `CmNew` does `putum` for `MREPL`, or decides on `initunion`.
  - `CmInit` is `initunion`. It copies the Chans of the nearest ancestor
    with Chans mounted (`MountedAbove`), walks each to the `Mount`'s path
    (`RelPath`), and drops the ones whose walk fails; which walks fail is
    chosen with `\E`.
  - `CmAdd` is `addmntel` at the head or the tail, then `vers++` and the
    unlock.
- `Cunmount` covers `cunmount`'s walk and its error checks.
  - `CuRm` unlinks the matching Chan.
  - `CuUp` is one turn of the collecting loop: `Unlink` from the parent
    and `mntclose`. At "/" it fails with `Eunmountslash`, after what was
    already removed.
- `Lookup` is `mntlookup` as `namec(Acreate)` calls it.
  - `LookWalk` follows `mntwalk1`, including its departure for Chans bound
    before a child in a union.
  - A union resolved in full gives the Chan `c->mnt` with an `incref`, and
    `mntlookup` panics when "/" has no entries.
  - `CdLock` and `CdScan` are `createdir`: `rlock`, then one step per
    entry up to an `MCREATE` Chan or the end, then `runlock` and the
    `mntclose` of `c->mnt` when the Chan is closed.
- `putum`, `mntclose` (`MntClose`) and their recursion over children
  (`Doomed`, `RelUm`) are operators on the tree value `T`. The frees they
  cause happen inside the step that calls them.

**Runs.**

| Run | Cfg | Expect | What it shows |
|-----|-----|--------|---------------|
| `mounttable_basic` | `MountTable_basic.cfg` | pass | Two processes share one name space. They bind one device before or after, with and without `MCREATE`, at paths of up to two elements. They unmount one Chan or a whole path, and run `createdir` on unions. `TypeOK`, `TreeConsistent` and `MountRefs` hold (558k states, 54 s). Without `MREPL` no step frees a list that a union reader walks, and without an unmount of "/" the root is never empty, so `NoUseAfterFree` and `NoPanic` are checked only by the two configurations below. |

Two configurations are not among the runs:
- `MountTable_repl.cfg` adds `MREPL` and finds `NoUseAfterFree` violated in
  8 states. p1 resolves a union at "/" for a create, takes `rlock` and
  stands on its first entry. p2 binds with `MREPL` at "/": `mntmount` calls
  `putum` (mnt.c:460-461), which frees every entry of the list without
  `wlock`. p1's next `m = m->next` reads freed memory (chan.c:540). The
  header of mnt.c says the `Mount` locks exist to sync with union readers;
  `putum` is the one list change that does not take them.
- `MountTable_slash.cfg` lets `cunmount` name the root device's Chan at
  "/". `VersSynced` fails in 4 states: `mntunmount` removes the last Chan of
  "/", then its collecting loop raises `Eunmountslash` (mnt.c:517), so
  `cunmount` skips `vers++` although the table changed. `NoPanic` fails in
  5: the next `mntlookup` finds "/" empty and panics (mnt.c:636-637). Its
  caller, `sysunmount` in sysfile.c, is not in this repository, so whether
  a user can make that call is not shown here.

**Properties.**
- `TreeConsistent`: the allocated `Mounted`s are exactly the entries of the
  lists, and each is in one list, once. A child's `parent` is the `Mount`
  whose list holds it. The children of a `Mount` have distinct names, and
  `ismount` counts its Chans. (`initunion` drops Chans whose walk fails, and
  `ismount` must count only the survivors.)
- `MountRefs`: a `Mount` is allocated iff its `ref` is positive, and `ref`
  is exactly its holders: `pgrp` for "/", its parent's entry, and each
  union Chan that `mntlookup` gave it to. Unmount, `putum` and the close of
  a union Chan neither leak a `Mount` nor free one in use.
- `NoUseAfterFree` (action property): no step of another process frees the
  entry `createdir` stands on.
- `NoPanic`: `mntlookup` never finds "/" empty.
- `VersSynced`: when no `cmount` or `cunmount` is in progress, the table is
  the one `vers` was last bumped for.

**Bounds and view.** The bounds are two processes, one name and two devices
(the root's and one more), paths of up to two elements, 3 `Mount`s and 5
`Mounted`s. That is enough for a union at "/" and at `/a`, for a two-level
path that the collecting loop climbs, and for a reader holding a `Mount`
that an unmount collects. A `Cmount` starts only if the pools can hold
everything it may allocate (`Room`), as `smalloc` never fails. With 6
`Mounted`s the space passes 15M states in 20 minutes.

`VIEW LiveView` leaves out the fields of freed structures and the locals of
idle processes. No action reads them: allocation writes every field, and an
operation sets its locals when it starts.

**Not modelled.**
- Binds of a Chan that is itself a union (`to->mnt`, copied by `dupum`).
- `relative()` and `dot`, '#' paths, `walklater`.
- `dupmnt` (fork of a name space), `closepgrp` and the op log.
- A second attach of one driver. `eqchan` compares the driver
  (`a->dev`) and `qid.path`, and `EqChan` does the same. The model has one
  attach per driver, so it cannot show that two mounts of one driver whose
  roots share a `qid.path` are equal to `eqchan`, letting `cunmount` remove
  the other one.

### `SegAttach` (the segment system calls of sysseg.c, with isoverlap, forkseg and putseg of segment.c), checked through `MC_SegAttach`

**State.**
- `seg[p][i]` is `p->seg[i]`. Slots 0 to 3 are `SSEG`, `TSEG`, `DSEG`
  and `ESEG`; `NSEG` is a constant.
- `sbase`, `stop`, `ref` and `stype` are a Segment's `base`, `top`, `ref`
  and `type & SG_TYPE`. `"free"` is the `SG_FREE` that `putseg` sets.
- `src[s]` is `s->src`: the segment a data copy was forked from, which
  holds a reference for it.
- `live[p]` says whether the process slot holds a process.
- `res[p]` is the result of p's last call: `"ok"` or the error raised.
- `panicked` is set by a panic.

Addresses are small numbers, with `PGSZ` of them to a page.
`RoundUp` and `RoundDown` are `ROUNDUP` and `va&~(PGSZ-1)`.

**Actions.** Each system call is one step of its process, on its own table:
- `SysBrk` is `sysbrk_`, and `SysSegBrk` is `syssegbrk`. Both call `Ibrk`
  (`ibrk`), which checks in the code's order:
  - the `Ebadarg` and `Enovmem` early returns;
  - the "ibrk doesn't shrink" panic;
  - the Esoverlap test against the other segments of the caller's table;
  - the `SEGMAXSIZE` test.

  It then sets `top`. `segmapsize` only resizes the Pte map, which is not
  modelled.
- `SegAttach` is `segattach` on the one physseg.
  - It checks the address range and takes the first free slot other than
    `ESEG`.
  - With va 0, it runs the hole search `Hole`, a RECURSIVE operator over
    `IsOverlap`: each time, it moves below the segment in the way.
  - It applies the final `isoverlap` and the size tests.
  - `newseg` gives it a free header.
- `SegDetach` is `syssegdetach`. The first segment that holds the address,
  or that is empty and based at it, leaves the table, unless it is the
  stack; `PutSegs` is `putseg`. A segment whose last reference goes is
  freed, and its `putseg(s->src)` (segment.c:585-586) drops one reference
  of the source too.
- `Fork` is `forkseg` for every slot, into a free process slot:
  - text and shared segments, and data with `share` (`RFMEM`), are the
    same Segment with one more reference;
  - a stack, and data without `share`, get a new Segment with the same
    range. A data copy's `src` is the source's own `src`, or the source
    when it has none, and that segment gains a reference (`incref(n->src)`,
    segment.c:703-706).
  - `data2txt` (segment.c:693-697) is not reached: the text slot holds a
    TEXT segment, and the segments `segattach` makes are `SG_SHARED`, so no
    DATA segment is ever marked for it.

  The loop over the slots is in `sysrfork`, which is not in this repository.
- `Exit` is the `putseg` loop of `pexit`.

**Runs.**

| Run | Cfg | Expect | What it shows |
|-----|-----|--------|---------------|
| `segattach_overlap` | `SegAttach_overlap.cfg` | violation | `NoOverlap` fails in two calls of one process. `segattach` puts a segment at [8,10), and `brk(9)` takes the data segment [4,6) to [4,10). `ibrk` refuses a new top only when it lies *inside* another segment (`newtop >= ns->base && newtop < ns->top`, sysseg.c:92). A top equal to that segment's top, or beyond it, passes. |

Three configurations are not among the runs:
- `SegAttach_contain.cfg` lets `brk` only query. `NoOverlap` still fails:
  `segattach` at [8,10), then at va 6 with len 6. `isoverlap`
  (segment.c:846-847) asks only whether va or va+len falls inside a
  segment, so [6,12) around [8,10) passes.
- `SegAttach_shrink.cfg` fails `NoPanic` in one call: `brk` below the data
  top panics the kernel (sysseg.c:88). A unit test reaches this.
- `SegAttach_refs.cfg` checks `TypeOK` and `RefExact` with 5 slots and
  attach length 2. Both hold (86k states, 13 minutes).

The Esoverlap test also consults only the caller's own table. A segment
that `forkseg` shares (SHARED, or data with `RFMEM`) can therefore be grown
by one process over a segment that only the other process attached. The
model allows this, but no configuration separates it from the
single-process case above, which TLC reaches first.

**Properties.**
- `NoOverlap`: the segments of one table have disjoint ranges. `seg()` and
  `fault` depend on this to find the one segment of an address.
- `RefExact`: `ref` counts the table slots holding the segment and the
  live copies whose `src` it is, and the segment is free exactly when
  `ref` is 0. This is about forkseg's increfs and the putsegs of segdetach
  and pexit, with their cascade to `src`.
- `NoPanic`: no call panics.

**Bounds.** The model has two process slots, six Segment headers and six
table slots (two free for attaching). A page is two addresses. The bounds
are:
- brk addresses: 0, the data base, inside a segment at 8, and next to the
  stack;
- segattach: at a hole or at 8, with one or two pages.

These bounds are enough for:
- a top landing on or past another segment's top;
- the hole search skipping a segment;
- a fork that shares or copies each segment type;
- a detach and an exit that free segments.

**Not modelled.**
- `segflush`: `pteflush` is empty, and the call only sets `s->flushme`.
- Global segments (`_globalsegattach` is nil in this tree), and the
  physseg table beyond one entry.
- Pages (`SegFault` models them).
- The reads by `ibrk` of other segments' `top` without their lock. Each
  call is one step.

## What is not modelled yet, and the plan

1. `SegFault` next steps:
   - `putseg`/`clearseg` on exit;
   - `segflush`. The unsigned `len -= chunk` of `syssegflush` wraps on a
     partial last page (sysseg.c:400); a single call reaches it, so it is
     not among the hazards;
   - STACK segments (deep `ptecpy`) and SHARED segments;
   - a liveness property that a fault on a readable page completes. The
     poisoned slot left by a failed `pgread` (fault.c:79) would break it.
2. `SegCache`: a passing run with two processes needs the attachseg race
   fixed first (incref under the lock).
3. `FileCache`: the `NFILES` reclaim, and several files.
   `MntRpc`: fids and `Twalk`. On a partial `Rwalk`, `mntwalked` still gives
   the clone to devmnt (devmnt.c:623), so freeing the `Walkqid` clunks a fid
   the server never created. It needs a single partial walk, which a test
with a scripted server reaches, so it is not among the hazards.
4. An abstract frame pool, which `PageAlloc` refines when joinpages is off
   (`INSTANCE ... WITH` mapping held, free and in-flight pages to owners).

Out of scope: the parts of the 9P mount driver that `MntRpc` leaves out
(version, attach, walk and clunk fixups, 9P2000.ix tag groups), the
parts of `chan.c`, `path.c` and `pgrp.c` that `MountTable` leaves out,
`nalloc.c` and `allocb.c`,
`devlater.c` and `noedf.c`. They hold no VM state. The MMU
(`k10/mmu.c`) appears only through the flush that `procflushseg` waits for.
