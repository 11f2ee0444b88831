----------------------------- MODULE UserMemory -----------------------------
(***************************************************************************)
(* The user memory of one xv6 process and the kernel's pool of free       *)
(* physical pages, as the system calls of src/kernel/sysproc.c use them.  *)
(* The code is xv6's own (vm.c, proc.c, kalloc.c, outside src/):           *)
(*   - a page is user read-write, user read-only (text), mapped without   *)
(*     user access (the stack guard), or not mapped;                      *)
(*   - kalloc takes a page off the free list or fails when it is empty;   *)
(*     uvmunmap with do_free gives a mapped page back with kfree;         *)
(*   - copyin and copyout work a page at a time; on a page that is not    *)
(*     mapped, vmfault maps a zeroed page from kalloc if the page lies    *)
(*     below p->sz (lazy sbrk) and kalloc has one;                        *)
(*   - growproc maps the new pages one by one (uvmalloc), undoing them    *)
(*     all if kalloc fails, or unmaps the pages above the new break       *)
(*     (uvmdealloc).                                                      *)
(* Page-table pages are taken to exist already.  An unmapped page holds   *)
(* no data: its bytes are kept 0, what a fresh page holds.                *)
(***************************************************************************)
EXTENDS Integers, FiniteSets

CONSTANTS
  PGSIZE,    \* bytes per page
  NPAGES,    \* pages of the user address space, up to TRAPFRAME
  HEAPBASE,  \* pages below the initial break: text, data, guard, stack
  FreeInit   \* pages on kmem's free list when the process starts

ASSUME /\ PGSIZE \in Nat \ {0}
       /\ HEAPBASE \in 0 .. NPAGES
       /\ FreeInit \subseteq Nat

Pages == 0 .. NPAGES - 1
Addrs == 0 .. NPAGES * PGSIZE - 1
TRAPFRAME == NPAGES * PGSIZE
Perms == {"rw", "ro", "guard", "none"}

VARIABLES
  mem,    \* the user bytes
  perm,   \* the mapping of each page
  sz,     \* p->sz, the break
  nfree   \* kmem.freelist: physical pages kalloc can still hand out

Page(x) == x \div PGSIZE
PGROUNDUP(a) == ((a + PGSIZE - 1) \div PGSIZE) * PGSIZE

\* the pages the bytes src .. src+n-1 lie in
PagesOf(src, n) == {Page(x) : x \in src .. src + n - 1}

\* the pages of the process that hold a physical page
Used(pg) == {p \in Pages : pg[p] # "none"}

\* vmfault(va): a page that is not mapped, starts below p->sz, and for
\* which kalloc still has a page (f of them are free)
Faultable(pg, f, p) ==
  p \in Pages /\ pg[p] = "none" /\ p * PGSIZE < sz /\ f > 0

\* walkaddr finds a user page, or vmfault maps one
CopyInPage(pg, f, p) ==
  p \in Pages /\ (pg[p] \in {"rw", "ro"} \/ Faultable(pg, f, p))

\* as CopyInPage, and the page is writable
CopyOutPage(pg, f, p) == p \in Pages /\ (pg[p] = "rw" \/ Faultable(pg, f, p))

\* the free pages left when a copy from page lo reaches page q: vmfault
\* has taken one for each unmapped page before q
FreeAt(pg, f, lo, q) == f - Cardinality({r \in lo .. q - 1 : pg[r] = "none"})

\* a copy of src .. src+n-1, out to the user if write: the pages it gets
\* through, the pages it faults in, and whether it gets through all
Copy(pg, f, src, n, write) ==
  LET ok(q)   == IF write THEN CopyOutPage(pg, FreeAt(pg, f, Page(src), q), q)
                 ELSE CopyInPage(pg, FreeAt(pg, f, Page(src), q), q)
      rng     == PagesOf(src, n)
      got     == {p \in rng : \A q \in rng : q <= p => ok(q)}
      faulted == {p \in got : pg[p] = "none"}
  IN  [ok    |-> got = rng,
       got   |-> got,
       perm  |-> [p \in Pages |-> IF p \in faulted THEN "rw" ELSE pg[p]],
       nfree |-> f - Cardinality(faulted)]

\* copyin(pagetable, buf, src, n): [ok, perm, nfree]
CopyIn(pg, f, src, n) == Copy(pg, f, src, n, FALSE)

\* copyout(pagetable, dst, buf, n): the bytes up to the first page it
\* cannot write are written; [ok, mem, perm, nfree]
CopyOut(m, pg, f, dst, buf, n) ==
  LET c == Copy(pg, f, dst, n, TRUE) IN
  [ok |-> c.ok, perm |-> c.perm, nfree |-> c.nfree,
   mem |-> [x \in Addrs |-> IF x \in dst .. dst + n - 1 /\ Page(x) \in c.got
                            THEN buf[x - dst] ELSE m[x]]]

\* the pages with a start in lo .. hi-1
PagesFrom(lo, hi) == {p \in Pages : lo <= p * PGSIZE /\ p * PGSIZE < hi}

(* Mutant: uvmunmap is called with do_free = 0, the pages are not freed. *)
UvmDeallocNoFree(pg, m, f, oldsz, newsz) ==
  IF newsz >= oldsz THEN [perm |-> pg, mem |-> m, nfree |-> f]
  ELSE LET gone == PagesFrom(PGROUNDUP(newsz), PGROUNDUP(oldsz)) IN
       [perm  |-> [p \in Pages |-> IF p \in gone THEN "none" ELSE pg[p]],
        mem   |-> [x \in Addrs |-> IF Page(x) \in gone THEN 0 ELSE m[x]],
        nfree |-> f]

\* uvmdealloc(pagetable, oldsz, newsz): unmap the pages from
\* PGROUNDUP(newsz) up to PGROUNDUP(oldsz) and kfree the ones mapped
UvmDealloc(pg, m, f, oldsz, newsz) ==
  IF newsz >= oldsz THEN [perm |-> pg, mem |-> m, nfree |-> f]
  ELSE LET gone == PagesFrom(PGROUNDUP(newsz), PGROUNDUP(oldsz)) IN
       [perm  |-> [p \in Pages |-> IF p \in gone THEN "none" ELSE pg[p]],
        mem   |-> [x \in Addrs |-> IF Page(x) \in gone THEN 0 ELSE m[x]],
        nfree |-> f + Cardinality(gone \cap Used(pg))]

RECURSIVE UvmAlloc(_, _, _, _, _)

\* the loop of uvmalloc from page address a on, oldsz rounded up: kalloc
\* and map a zeroed page, or on failure uvmdealloc(pagetable, a, oldsz)
UvmAlloc(pg, f, oldsz, a, newsz) ==
  IF a >= newsz THEN [ok |-> TRUE, perm |-> pg, nfree |-> f]
  ELSE IF f = 0
       THEN LET u == UvmDealloc(pg, mem, f, a, oldsz)
            IN  [ok |-> FALSE, perm |-> u.perm, nfree |-> u.nfree]
       ELSE UvmAlloc([pg EXCEPT ![Page(a)] = "rw"], f - 1, oldsz,
                     a + PGSIZE, newsz)

Unchanged == [ok |-> TRUE, sz |-> sz, perm |-> perm, mem |-> mem,
              nfree |-> nfree]

\* uvmalloc(pagetable, sz, sz + n): only the mapping changes (new pages
\* hold zeroes, as unmapped ones do)
Grow(n) ==
  LET u == UvmAlloc(perm, nfree, PGROUNDUP(sz), PGROUNDUP(sz), sz + n) IN
  [ok |-> u.ok, sz |-> IF u.ok THEN sz + n ELSE sz, perm |-> u.perm,
   mem |-> mem, nfree |-> u.nfree]

\* uvmdealloc(pagetable, sz, newsz), newsz being sz + n
Shrink(newsz, n) ==
  LET u == UvmDealloc(perm, mem, nfree, sz, newsz) IN
  [ok |-> TRUE, sz |-> sz + n, perm |-> u.perm, mem |-> u.mem,
   nfree |-> u.nfree]

(* Mutant: the shrink unmaps from PGROUNDDOWN(sz + n). *)
GrowprocRoundDown(n) ==
  IF n > 0
  THEN IF sz + n > TRAPFRAME THEN [Unchanged EXCEPT !.ok = FALSE] ELSE Grow(n)
  ELSE IF n < 0 /\ sz + n >= 0 THEN Shrink(((sz + n) \div PGSIZE) * PGSIZE, n)
  ELSE Unchanged

(* Mutant: the shrink leaves the first page above the new break mapped. *)
GrowprocKeepsPage(n) ==
  IF n > 0
  THEN IF sz + n > TRAPFRAME THEN [Unchanged EXCEPT !.ok = FALSE] ELSE Grow(n)
  ELSE IF n < 0 /\ sz + n >= 0 THEN Shrink(PGROUNDUP(sz + n) + PGSIZE, n)
  ELSE Unchanged

(* growproc(n): grow through uvmalloc, failing above TRAPFRAME or when    *)
(* kalloc runs out; shrink through uvmdealloc.  When sz + n wraps below  *)
(* 0, uvmdealloc sees newsz >= oldsz and changes nothing.                *)
Growproc(n) ==
  IF n > 0
  THEN IF sz + n > TRAPFRAME THEN [Unchanged EXCEPT !.ok = FALSE] ELSE Grow(n)
  ELSE IF n < 0 /\ sz + n >= 0 THEN Shrink(sz + n, n)
  ELSE Unchanged

=============================================================================
