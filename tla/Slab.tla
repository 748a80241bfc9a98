-------------------------------- MODULE Slab --------------------------------
(* The slab allocator of a shared memory zone (core/ngx_slab.c): pages in   *)
(* runs, and pages cut into chunks of one size, whose use is a bitmap. Its   *)
(* callers (counters of limit_conn, peers of an upstream zone, sessions of a  *)
(* cache) hold the zone's mutex around every call, so a call is one step.     *)
(*                                                                          *)
(* The doubly linked lists of pages are sequences: unlinking a page is        *)
(* Unlink, page->next != NULL is being listed. A page's prev is kept where it *)
(* is more than its place in a list: the last page of a free run points to   *)
(* the first one, by which the page behind it finds the run. The statistics   *)
(* (pfree, stats), which no code of the allocator reads, are left out.        *)
EXTENDS Integers, SequencesExt

CONSTANTS N,         \* pool->last - pool->pages
          PageSize,  \* ngx_pagesize, in bytes
          Slots,     \* sizes of chunks: 1 << shift for each slot
          ExactSize, \* ngx_slab_exact_size: the bitmap fits in page->slab
          Requests,  \* sizes that are asked for
          Clients    \* each holds one block at most

\* ngx_slab_max_size
MaxSize == PageSize \div 2

\* Chunks in a page, and those at its start that hold the bitmap of the small
\* ones ("n" in alloc and free). The bitmap of the others is in page->slab.
Chunks(s) == PageSize \div s
Reserved(s) ==
    IF s >= ExactSize THEN 0
    ELSE IF Chunks(s) \div (s * 8) = 0 THEN 1 ELSE Chunks(s) \div (s * 8)

SlabAssumption ==
    /\ N \in Nat \ {0} /\ PageSize \in Nat \ {0} /\ ExactSize \in Nat
    /\ Slots \subseteq Nat \ {0} /\ Requests \subseteq Nat \ {0}
    /\ \A s \in Slots : s * Chunks(s) = PageSize /\ Reserved(s) + 1 < Chunks(s)
ASSUME SlabAssumption

Pages == 1..N

\* page->slab of a page that is not cut into chunks: FREE inside a free run,
\* the length of the run for its first page; START and the length for the first
\* page of a block, BUSY for the others.
FREE  == 0
START == N + 1
BUSY  == 2 * N + 2

\* Page type of a page that is not cut; the others have their chunks' size
PAGE == 0

VARIABLES
    type,  \* the low bits of page->prev, with the shift that page->slab holds
    slab,  \* page->slab, for the type PAGE
    busy,  \* the bitmap of a page that is cut: the chunks in use
    prev,  \* page->prev of the last page of a free run: its first page
    free,  \* the list pool->free
    list,  \* slots[slot]: pages of that size with a free chunk
    held,  \* what each client got and has not freed yet
    refused, \* the size asked for if the last call returned NULL, else 0
    alert  \* ngx_slab_error() was called with NGX_LOG_ALERT

vars == <<type, slab, busy, prev, free, list, held, refused, alert>>

Nothing == [page |-> 0, off |-> 0, size |-> 0]

Init ==
    /\ type = [p \in Pages |-> PAGE]
    /\ slab = [p \in Pages |-> IF p = 1 THEN N ELSE FREE]
    /\ busy = [p \in Pages |-> {}]
    /\ prev = [p \in Pages |-> 0]
    /\ free = <<1>>
    /\ list = [s \in Slots |-> <<>>]
    /\ held = [c \in Clients |-> Nothing]
    /\ refused = 0
    /\ alert = FALSE

\* prev->next = page->next; page->next->prev = page->prev
Unlink(l, p) == RemoveAt(l, CHOOSE i \in DOMAIN l : l[i] = p)

-----------------------------------------------------------------------------
(* Runs of pages *)

\* The first run on the list that is long enough
Fits(page, n) ==
    \E i \in DOMAIN free :
        /\ free[i] = page /\ slab[page] >= n
        /\ \A j \in 1..(i - 1) : slab[free[j]] < n

Available(n) == \E page \in ToSet(free) : slab[page] >= n

\* The run's last page points to the page that its free rest begins with.
SplitPrev(page, n) ==
    [prev EXCEPT ![page + slab[page] - 1] = IF slab[page] > n + 1 THEN page + n ELSE 0]

\* Takes n pages from the front of a free run. The caller makes a block or chunks
\* of them.
AllocPages(page, n) ==
    LET rest == slab[page] - n
    IN  /\ free' = IF rest > 0 THEN ReplaceAll(free, page, page + n) ELSE Unlink(free, page)
        /\ slab' = [q \in Pages |->
                       IF q = page THEN START + n
                       ELSE IF q \in (page + 1)..(page + n - 1) THEN BUSY
                       ELSE IF q = page + n /\ rest > 0 THEN rest
                       ELSE slab[q]]
        /\ prev' = SplitPrev(page, n)

\* The free run that begins behind a block, and the one that ends before it
JoinsNext(next) == next \in ToSet(free) /\ type[next] = PAGE
Before(page) == IF slab[page - 1] = FREE THEN prev[page - 1] ELSE page - 1
JoinsPrev(page) ==
    page > 1 /\ type[page - 1] = PAGE /\ Before(page) \in ToSet(free)

\* The page behind the run finds its first page through the last one (mutant:
\* the last page is not told).
MutantJoinedPrev(page, n, head, len) ==
    [q \in Pages |-> IF q \in page..(page + n) \/ q = head THEN 0 ELSE prev[q]]
JoinedPrev(page, n, head, len) ==
    [q \in Pages |->
        IF q = head + len - 1 /\ len > 1 THEN head
        ELSE IF q \in page..(page + n) \/ q = head THEN 0 ELSE prev[q]]

\* Gives back n pages and joins them with the free runs on both sides. The
\* new run becomes the first of the list.
FreePages(page, n) ==
    LET next  == page + n
        right == IF JoinsNext(next) THEN slab[next] ELSE 0
        left  == IF JoinsPrev(page) THEN slab[Before(page)] ELSE 0
        head  == IF JoinsPrev(page) THEN Before(page) ELSE page
        len   == left + n + right
        rest  == IF JoinsNext(next) THEN Unlink(free, next) ELSE free
    IN  /\ slab' = [q \in Pages |->
                       IF q = head THEN len
                       ELSE IF q \in page..(next - 1) \/ (q = next /\ JoinsNext(next))
                            THEN FREE
                       ELSE slab[q]]
        /\ prev' = JoinedPrev(page, IF JoinsNext(next) THEN n ELSE n - 1, head, len)
        /\ free' = <<head>> \o (IF JoinsPrev(page) THEN Unlink(rest, head) ELSE rest)

PagesFor(size) == size \div PageSize + (IF size % PageSize = 0 THEN 0 ELSE 1)

-----------------------------------------------------------------------------
(* Chunks *)

\* The slot whose chunks are the smallest that hold the size
SlotFor(s, size) == s >= size /\ \A t \in Slots : t >= size => s <= t

\* Bits of a page just cut: the bitmap's own chunks, and the one handed out
\* (mutant: not the one handed out)
MutantFirstBusy(s) == 0..(Reserved(s) - 1)
FirstBusy(s) == 0..Reserved(s)

\* All bits are set.
IsFull(bits, s) == bits = 0..(Chunks(s) - 1)

\* No bit is set but those of the bitmap's own chunks (mutant: one more is let
\* pass, as the same expression of alloc would).
MutantIsUnused(bits, s) == bits \subseteq 0..Reserved(s)
IsUnused(bits, s) == bits \subseteq 0..(Reserved(s) - 1)

FreeChunk(page, s, n) ==
    /\ n \in 0..(Chunks(s) - 1) \ busy[page]
    /\ \A m \in 0..(n - 1) : m \in busy[page]

Give(c, page, off, size) ==
    /\ held' = [held EXCEPT ![c] = [page |-> page, off |-> off, size |-> size]]
    /\ refused' = 0

\* No page, or no chunk: the call returns NULL.
Refuse(size) ==
    /\ ~Available(IF size > MaxSize THEN PagesFor(size) ELSE 1)
    /\ refused' = size
    /\ UNCHANGED <<type, slab, busy, prev, free, list, held>>

\* size > ngx_slab_max_size
AllocRun(c, size) ==
    /\ size > MaxSize
    /\ \/ /\ \E page \in ToSet(free) :
                /\ Fits(page, PagesFor(size))
                /\ AllocPages(page, PagesFor(size))
                /\ Give(c, page, 0, size)
          /\ UNCHANGED <<type, busy, list>>
       \/ Refuse(size)
    /\ UNCHANGED alert

\* The first page of the slot's list has a chunk; a page without another leaves
\* the list.
AllocChunk(c, s, size) ==
    /\ list[s] # <<>>
    /\ LET page == Head(list[s]) IN
       \E n \in 0..(Chunks(s) - 1) :
          /\ FreeChunk(page, s, n)
          /\ busy' = [busy EXCEPT ![page] = @ \cup {n}]
          /\ list' = [list EXCEPT ![s] = IF IsFull(busy'[page], s) THEN Tail(@) ELSE @]
          /\ Give(c, page, n * s, size)
    /\ UNCHANGED <<type, slab, prev, free, alert>>

\* The slot's list is empty, or its first page has no chunk, which is an error:
\* a new page is cut.
AllocCut(c, s, size) ==
    /\ list[s] # <<>> => \A n \in 0..(Chunks(s) - 1) : n \in busy[Head(list[s])]
    /\ alert' = (alert \/ list[s] # <<>>)
    /\ \/ \E page \in ToSet(free) :
             /\ Fits(page, 1)
             /\ AllocPages(page, 1)
             /\ type' = [type EXCEPT ![page] = s]
             /\ busy' = [busy EXCEPT ![page] = FirstBusy(s)]
             /\ list' = [list EXCEPT ![s] = <<page>>]
             /\ Give(c, page, Reserved(s) * s, size)
       \/ Refuse(size)

\* ngx_slab_alloc(): the zone's mutex is held
Alloc(c, size) ==
    /\ held[c] = Nothing
    /\ \/ AllocRun(c, size)
       \/ \E s \in Slots :
             /\ size <= MaxSize /\ SlotFor(s, size)
             /\ AllocChunk(c, s, size) \/ AllocCut(c, s, size)

-----------------------------------------------------------------------------
(* ngx_slab_free() *)

\* What the call accepts: a chunk in use, or the first page of a block.
Accepts(page, off) ==
    /\ page \in Pages
    /\ IF type[page] = PAGE
       THEN off = 0 /\ slab[page] >= START /\ slab[page] # BUSY
       ELSE off % type[page] = 0 /\ off \div type[page] \in busy[page]

\* A page without a free chunk is not listed. Chunks of the exact size tell by
\* the bitmap.
WasFull(page, s) ==
    IF s = ExactSize THEN IsFull(busy[page], s) ELSE page \notin ToSet(list[s])

\* A page that had no free chunk comes first on its list; a page without a
\* chunk in use is given back.
FreeOfChunk(page, n) ==
    LET s      == type[page]
        bits   == busy[page] \ {n}
        listed == IF WasFull(page, s) THEN <<page>> \o list[s] ELSE list[s]
    IN  IF IsUnused(bits, s)
        THEN /\ list' = [list EXCEPT ![s] = Unlink(listed, page)]
             /\ type' = [type EXCEPT ![page] = PAGE]
             /\ busy' = [busy EXCEPT ![page] = {}]
             /\ FreePages(page, 1)
        ELSE /\ list' = [list EXCEPT ![s] = listed]
             /\ busy' = [busy EXCEPT ![page] = bits]
             /\ UNCHANGED <<type, slab, prev, free>>

FreeBlock(page, off) ==
    IF type[page] = PAGE
    THEN FreePages(page, slab[page] - START) /\ UNCHANGED <<type, busy, list>>
    ELSE FreeOfChunk(page, off \div type[page])

Free(c) ==
    LET b == held[c] IN
    /\ b # Nothing
    /\ held' = [held EXCEPT ![c] = Nothing]
    /\ refused' = 0
    /\ alert' = (alert \/ ~Accepts(b.page, b.off))
    /\ IF Accepts(b.page, b.off) THEN FreeBlock(b.page, b.off)
       ELSE UNCHANGED <<type, slab, busy, prev, free, list>>

Next == \E c \in Clients : Free(c) \/ \E size \in Requests : Alloc(c, size)

Spec == Init /\ [][Next]_vars

-----------------------------------------------------------------------------
(* Properties. They look at what the clients hold, not at the lists.         *)

Holders == {c \in Clients : held[c] # Nothing}

\* The bytes of a client's block
Bytes(c) ==
    LET at == held[c].page * PageSize + held[c].off
    IN  at..(at + held[c].size - 1)

\* Blocks lie in the pool, clear of each other and of the bitmaps that small
\* chunks' pages begin with, whatever was split and joined before.
BlocksDisjoint ==
    \A c \in Holders :
        /\ Bytes(c) \subseteq PageSize..((N + 1) * PageSize - 1)
        /\ \A d \in Holders \ {c} : Bytes(c) \cap Bytes(d) = {}
        /\ type[held[c].page] # PAGE =>
               held[c].off >= Reserved(type[held[c].page]) * type[held[c].page]

\* Pages no block touches
Untouched(p) ==
    \A c \in Holders : Bytes(c) \cap (p * PageSize)..((p + 1) * PageSize - 1) = {}

\* A block in p of the slot's size, and a chunk of p that nobody holds
HasChunk(p, s) ==
    /\ \E c \in Holders : held[c].page = p /\ held[c].size <= MaxSize /\ SlotFor(s, held[c].size)
    /\ \E n \in Reserved(s)..(Chunks(s) - 1) :
          \A c \in Holders : held[c].page = p => held[c].off # n * s

Room(size) ==
    IF size > MaxSize
    THEN \E p \in Pages : \A q \in p..(p + PagesFor(size) - 1) : q \in Pages /\ Untouched(q)
    ELSE \E p \in Pages : Untouched(p) \/ \E s \in Slots : SlotFor(s, size) /\ HasChunk(p, s)

\* A call fails only if the pool has no room: freed runs are joined again, and
\* no page with a free chunk is forgotten, in whatever order blocks come and go.
FailsOnlyWhenFull == refused # 0 => ~Room(refused)

\* A block that was handed out can be freed, once: free() finds its page and its
\* chunk as alloc() left them, and alloc() never meets a full page on a list.
NeverRefused ==
    ~alert /\ \A c \in Holders : Accepts(held[c].page, held[c].off)

=============================================================================
