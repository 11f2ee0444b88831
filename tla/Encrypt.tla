------------------------------ MODULE Encrypt ------------------------------
(***************************************************************************)
(* The system calls of src/kernel/sysproc.c that work on the calling      *)
(* process's user memory or on the kernel's free pages: sys_encrypt and   *)
(* sys_decrypt, which XOR a user buffer with ENCRYPT_KEY in place, CHUNK  *)
(* bytes at a time through a kernel buffer; sys_sbrk, which moves the     *)
(* break p->sz eagerly (growproc) or lazily; sys_freemem and sys_memstat, *)
(* which report the free pages.  The memory they work on is UserMemory.   *)
(* A process of xv6 has one thread, so nothing else touches its memory    *)
(* during a call, and each call is one step; the chunk loop is the        *)
(* recursive operator EncryptLoop.                                        *)
(***************************************************************************)
EXTENDS UserMemory, Bitwise

CONSTANTS
  ENCRYPT_KEY,  \* 0x5A
  CHUNK,        \* sizeof buf, 512
  MAXLEN,       \* the largest len accepted, 4096
  Lens,         \* lengths passed to encrypt
  SbrkArgs,     \* n passed to sbrk
  MemstatArgs,  \* <<freepages_addr, totalalloc_addr>> passed to memstat
  TOTALALLOC    \* the allocation count getmemstat reports (kalloc.c keeps
                \* it; no property reads it, so it is one fixed value)

ASSUME /\ CHUNK \in Nat \ {0} /\ MAXLEN \in Nat
       /\ Lens \subseteq Int /\ SbrkArgs \subseteq Int
       /\ MemstatArgs \subseteq Addrs \X Addrs /\ TOTALALLOC \in 0 .. 255

VARIABLE
  ret     \* what the last call returned

vars == <<mem, perm, sz, nfree, ret>>

TypeOK ==
  /\ mem \in [Addrs -> 0 .. 255]
  /\ perm \in [Pages -> Perms]
  /\ sz \in 0 .. TRAPFRAME
  /\ nfree \in Nat
  /\ ret \in Int

MinOf(a, b) == IF a < b THEN a ELSE b

RECURSIVE EncryptLoop(_, _, _, _, _, _)

(* Mutant: the XOR loop stops one byte early, i < chunk - 1. *)
EncryptLoopShortXor(m, pg, f, addr, len, processed) ==
  IF processed >= len THEN [mem |-> m, perm |-> pg, nfree |-> f, ret |-> len]
  ELSE LET chunk == MinOf(len - processed, CHUNK)
           src   == addr + processed
           in    == CopyIn(pg, f, src, chunk)
           buf   == [k \in 0 .. chunk - 1 |->
                      IF k < chunk - 1 THEN m[src + k] ^^ ENCRYPT_KEY
                      ELSE m[src + k]]
           out   == CopyOut(m, in.perm, in.nfree, src, buf, chunk)
       IN  IF ~in.ok
           THEN [mem |-> m, perm |-> in.perm, nfree |-> in.nfree, ret |-> -1]
           ELSE IF ~out.ok
                THEN [mem |-> out.mem, perm |-> out.perm, nfree |-> out.nfree,
                      ret |-> -1]
                ELSE EncryptLoop(out.mem, out.perm, out.nfree, addr, len,
                                 processed + chunk)

\* the body of the while loop from `processed` on, with f free pages:
\* [mem, perm, nfree, ret]
EncryptLoop(m, pg, f, addr, len, processed) ==
  IF processed >= len THEN [mem |-> m, perm |-> pg, nfree |-> f, ret |-> len]
  ELSE LET chunk == MinOf(len - processed, CHUNK)
           src   == addr + processed
           in    == CopyIn(pg, f, src, chunk)
           buf   == [k \in 0 .. chunk - 1 |-> m[src + k] ^^ ENCRYPT_KEY]
           out   == CopyOut(m, in.perm, in.nfree, src, buf, chunk)
       IN  IF ~in.ok
           THEN [mem |-> m, perm |-> in.perm, nfree |-> in.nfree, ret |-> -1]
           ELSE IF ~out.ok
                THEN [mem |-> out.mem, perm |-> out.perm, nfree |-> out.nfree,
                      ret |-> -1]
                ELSE EncryptLoop(out.mem, out.perm, out.nfree, addr, len,
                                 processed + chunk)

(* Mutant: the upper length check is len >= MAXLEN. *)
SysEncryptResultOffByOne(m, pg, f, addr, len) ==
  IF len <= 0 \/ len >= MAXLEN
  THEN [mem |-> m, perm |-> pg, nfree |-> f, ret |-> -1]
  ELSE EncryptLoop(m, pg, f, addr, len, 0)

\* sys_encrypt: the length check, then the loop
SysEncryptResult(m, pg, f, addr, len) ==
  IF len <= 0 \/ len > MAXLEN
  THEN [mem |-> m, perm |-> pg, nfree |-> f, ret |-> -1]
  ELSE EncryptLoop(m, pg, f, addr, len, 0)

(* The program starts with its break at the top of its HEAPBASE pages,   *)
(* each of them read-write, read-only or the guard, and no heap; other   *)
(* processes hold some of the machine's pages, the rest are free.        *)
Init ==
  /\ perm \in {pg \in [Pages -> Perms] :
                 \A p \in Pages : pg[p] = "none" <=> p >= HEAPBASE}
  /\ mem = [x \in Addrs |-> IF Page(x) < HEAPBASE THEN x ELSE 0]
  /\ sz = HEAPBASE * PGSIZE
  /\ nfree \in FreeInit
  /\ ret = 0

\* take the memory, mapping and free pages of a result r
Apply(r) == mem' = r.mem /\ perm' = r.perm /\ nfree' = r.nfree

\* sys_encrypt
SysEncrypt(addr, len) ==
  LET r == SysEncryptResult(mem, perm, nfree, addr, len) IN
  /\ Apply(r)
  /\ ret' = r.ret
  /\ UNCHANGED sz

\* sys_decrypt: return sys_encrypt()
SysDecrypt(addr, len) == SysEncrypt(addr, len)

(* sys_sbrk(n, t): eager, or any shrink, through growproc; a lazy grow   *)
(* only moves p->sz, and vmfault maps the pages on first use.  On that   *)
(* path n >= 0 and sz <= TRAPFRAME, so the uint64 sum sz + n does not    *)
(* wrap and its test is the integer one.  Returns the old break, or -1.  *)
SysSbrk(n, t) ==
  IF t = "eager" \/ n < 0
  THEN LET g == Growproc(n) IN
       /\ Apply(g) /\ sz' = g.sz
       /\ ret' = IF g.ok THEN sz ELSE -1
  ELSE /\ IF sz + n < sz \/ sz + n > TRAPFRAME
          THEN ret' = -1 /\ UNCHANGED sz
          ELSE sz' = sz + n /\ ret' = sz
       /\ UNCHANGED <<mem, perm, nfree>>

\* sys_freemem: getfreepages() * PGSIZE
SysFreemem ==
  /\ ret' = nfree * PGSIZE
  /\ UNCHANGED <<mem, perm, sz, nfree>>

\* a uint64 result copied out as one cell of mem
Value(v) == [k \in {0} |-> v]

(* sys_memstat(a1, a2): getmemstat reads both counts, then each is       *)
(* copied out to the caller in turn, -1 at the first copyout that fails; *)
(* a copyout can fault in a lazily allocated page of the caller's.       *)
SysMemstat(a1, a2) ==
  LET c1 == CopyOut(mem, perm, nfree, a1, Value(nfree), 1)
      c2 == CopyOut(c1.mem, c1.perm, c1.nfree, a2, Value(TOTALALLOC), 1)
  IN  /\ IF c1.ok THEN Apply(c2) ELSE Apply(c1)
      /\ ret' = IF c1.ok /\ c2.ok THEN 0 ELSE -1
      /\ UNCHANGED sz

Next ==
  \/ \E a \in Addrs, l \in Lens : SysEncrypt(a, l) \/ SysDecrypt(a, l)
  \/ \E n \in SbrkArgs, t \in {"eager", "lazy"} : SysSbrk(n, t)
  \/ SysFreemem
  \/ \E a \in MemstatArgs : SysMemstat(a[1], a[2])

Spec == Init /\ [][Next]_vars

-----------------------------------------------------------------------------
\* the whole range XORed with the key, the result the call promises
XorRange(m, addr, len) ==
  [x \in Addrs |-> IF x \in addr .. addr + len - 1
                   THEN m[x] ^^ ENCRYPT_KEY ELSE m[x]]

(* Chunking is invisible: for every buffer the program can have and every *)
(* call it can make, a call of sys_encrypt that returns len has XORed      *)
(* exactly the bytes addr .. addr+len-1, across chunk and page boundaries  *)
(* and across pages that the call itself faults in.                        *)
EncryptIsXor ==
  \A a \in Addrs, l \in Lens :
    LET r == SysEncryptResult(mem, perm, nfree, a, l)
    IN  r.ret = l => r.mem = XorRange(mem, a, l)

(* sys_encrypt returns len exactly when 0 < len <= MAXLEN and one copyout *)
(* of the whole range would succeed: every byte is in a writable page, or *)
(* below the break where a lazy sbrk has left it to vmfault and kalloc    *)
(* still has a page for it; otherwise it returns -1.                      *)
SucceedsIffWritable ==
  \A a \in Addrs, l \in Lens :
    LET r == SysEncryptResult(mem, perm, nfree, a, l)
    IN  /\ r.ret \in {l, -1}
        /\ (r.ret >= 0) <=>
             (0 < l /\ l <= MAXLEN /\ Copy(perm, nfree, a, l, TRUE).ok)

(* Only pages below the break are mapped: whatever mix of eager and lazy  *)
(* sbrk calls, faults and failed allocations the process goes through,    *)
(* every page from PGROUNDUP(sz) on is unmapped, so freed memory cannot   *)
(* be reached, a failed uvmalloc leaves nothing behind, and uvmalloc      *)
(* never finds a page already mapped (it would panic with "remap").       *)
MappedBelowBreak ==
  \A p \in Pages : p * PGSIZE >= PGROUNDUP(sz) => perm[p] = "none"

(* sbrk never changes a byte that is below both the old and the new break *)
(* nor unmaps its page: shrinking keeps the partly used last page.       *)
BreakKeepsData ==
  [][sz' # sz =>
       \A x \in Addrs :
         x < MinOf(sz, sz') => mem'[x] = mem[x] /\ perm'[Page(x)] = perm[Page(x)]]_vars

(* No physical page is lost or made up: every page kalloc hands out, to   *)
(* vmfault inside the copies of encrypt and memstat or to uvmalloc, is    *)
(* mapped into the process, and every page the process stops mapping,     *)
(* when a shrink unmaps it or a failed uvmalloc undoes it, goes back to   *)
(* the free list.                                                        *)
PagesConserved ==
  [][nfree' + Cardinality(Used(perm')) = nfree + Cardinality(Used(perm))]_vars

(* A call that returns -1 has left the buffer as it found it, so a caller *)
(* that sees the error can retry or give up (sys_encrypt's loop writes     *)
(* each chunk back before it copies in the next one).                      *)
FailureLeavesBuffer == [][ret' = -1 => mem' = mem]_vars

=============================================================================
