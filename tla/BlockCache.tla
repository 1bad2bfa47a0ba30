----------------------------- MODULE BlockCache -----------------------------
(***************************************************************************)
(* The cache of a shared parent image in memory (drivers/block-cache.c).   *)
(*                                                                         *)
(* What a read of the parent returned is kept as one page; a tree leads    *)
(* from each of its sectors to the page and the offset in it.  Reads that  *)
(* overlap may be under way together, so a page may displace the pages of  *)
(* its sectors when it comes; idle sectors are dropped from time to time.  *)
(* The nodes of the tree are left out: a node is as recent as its most     *)
(* recent sector, so a branch that goes holds idle sectors only.           *)
(***************************************************************************)
EXTENDS Integers, Sequences, FiniteSets, FiniteSetsExt, SequencesExt

CONSTANTS
    NSectors,     \* the sectors of the image
    PerPage,      \* BLOCK_CACHE_NODES_PER_PAGE
    CacheSize,    \* BLOCK_CACHE_MAX_SIZE, in sectors
    NRequests,    \* BLOCK_CACHE_REQUESTS
    MaxReads,     \* bound on the reads
    MaxFailures   \* bound on the errors of the image and of malloc

VARIABLES
    leaf,      \* the leaf of each sector: the page and the offset, page 0 if empty
    page,      \* the pages: allocated or not, first sector, length, owners
    size,      \* tree->size, in sectors
    breq,      \* the block_cache_requests in flight
    reads, failures

vars == <<leaf, page, size, breq, reads, failures>>

Sectors == 0 .. NSectors - 1

NoLeaf == [page |-> 0, off |-> 0]

NoPage == [live |-> FALSE, sec |-> 0, secs |-> 0, owners |-> {}]

\* block_cache_open.
Init ==
    /\ leaf = [s \in Sectors |-> NoLeaf]
    /\ page = [p \in 1 .. NSectors + NRequests |-> NoPage]
    /\ size = 0 /\ breq = << >> /\ reads = 0 /\ failures = 0

-----------------------------------------------------------------------------
(* The tree.  A record t holds leaf, page and size. *)

\* radix_tree_allocate_page; malloc may return memory that was freed before.
AllocatePage(t, p, sec, secs) ==
    [t EXCEPT !.page[p] = [live |-> TRUE, sec |-> sec, secs |-> secs, owners |-> {}],
              !.size = @ + secs]

\* Mutant: only the first owner is cleared.
RemovePage_mutant(t, p) ==
    IF p = 0 THEN t
    ELSE [t EXCEPT !.leaf = [s \in Sectors |-> IF t.page[p].owners # {} /\ s = Min(t.page[p].owners)
                                               THEN NoLeaf ELSE @[s]],
                   !.page[p] = NoPage, !.size = @ - t.page[p].secs]

\* radix_tree_remove_page and radix_tree_free_page.
RemovePage(t, p) ==
    IF p = 0 THEN t
    ELSE [t EXCEPT !.leaf = [s \in Sectors |-> IF s \in t.page[p].owners THEN NoLeaf ELSE @[s]],
                   !.page[p] = NoPage, !.size = @ - t.page[p].secs]

\* radix_tree_insert_leaf.
InsertLeaf(t, p, s, off) ==
    IF off >= t.page[p].secs THEN t
    ELSE [t EXCEPT !.page[p].owners = @ \cup {s}, !.leaf[s] = [page |-> p, off |-> off]]

\* radix_tree_add_leaf: the page that was there goes, with all its sectors.
AddLeaf(t, p, s, off) == InsertLeaf(RemovePage(t, t.leaf[s].page), p, s, off)

\* radix_tree_add_leaves.  The n-th node cannot be allocated if n <= secs; then the
\* new page is taken out again.
AddLeaves(t, p, sec, secs, n) ==
    LET upto == IF n <= secs THEN n - 1 ELSE secs
        add[k \in 0 .. upto] == IF k = 0 THEN AllocatePage(t, p, sec, secs)
                                ELSE AddLeaf(add[k - 1], p, sec + k - 1, k - 1)
    IN IF n <= secs THEN RemovePage(add[upto], p) ELSE add[upto]

Tree == [leaf |-> leaf, page |-> page, size |-> size]

SetTree(tree) == \E t \in {tree} : leaf' = t.leaf /\ page' = t.page /\ size' = t.size

\* radix_tree_prune_branch and radix_tree_delete_branch: the sectors that have been
\* idle go, in their order.
Prune(idle) ==
    LET prune[k \in 0 .. NSectors] ==
            IF k = 0 THEN Tree
            ELSE IF k - 1 \in idle THEN RemovePage(prune[k - 1], prune[k - 1].leaf[k - 1].page)
                 ELSE prune[k - 1]
    IN prune[NSectors]

-----------------------------------------------------------------------------
(* The driver. *)

\* block_cache_queue_read and block_cache_hit: a read of sectors that are all there.
Hit(sec, secs) ==
    /\ reads < MaxReads /\ reads' = reads + 1
    /\ \A s \in sec .. sec + secs - 1 : leaf[s].page # 0
    /\ UNCHANGED <<leaf, page, size, breq, failures>>

\* block_cache_queue_read and block_cache_miss: the parent is read into a buffer of
\* the cache's own, as long as there is room for it and a request.
Miss(sec, secs) ==
    /\ reads < MaxReads /\ reads' = reads + 1
    /\ \E s \in sec .. sec + secs - 1 : leaf[s].page = 0
    /\ size + secs < CacheSize /\ Len(breq) < NRequests
    /\ breq' = Append(breq, [sec |-> sec, secs |-> secs, left |-> secs, err |-> FALSE])
    /\ UNCHANGED <<leaf, page, size, failures>>

\* block_cache_miss without either: the read goes to the parent and leaves no trace.
\* (The nodes of the tree count against the limit too, so room may be short anytime.)
MissUncached(sec, secs) ==
    /\ reads < MaxReads /\ reads' = reads + 1
    /\ \E s \in sec .. sec + secs - 1 : leaf[s].page = 0
    /\ UNCHANGED <<leaf, page, size, breq, failures>>

\* block_cache_populate_cache, called for each part the parent was read in.
Populate(i, k, err) ==
    LET b == [breq[i] EXCEPT !.left = @ - k, !.err = @ \/ err]
    IN /\ k <= breq[i].left
       /\ \/ /\ b.left > 0 /\ breq' = [breq EXCEPT ![i] = b] /\ UNCHANGED <<leaf, page, size>>
             /\ failures' = failures + (IF err THEN 1 ELSE 0)
          \/ /\ b.left = 0 /\ b.err /\ breq' = RemoveAt(breq, i) /\ UNCHANGED <<leaf, page, size>>
             /\ failures' = failures + (IF err THEN 1 ELSE 0)
          \/ /\ b.left = 0 /\ ~b.err /\ breq' = RemoveAt(breq, i)
             /\ \E n \in IF failures < MaxFailures THEN 1 .. b.secs + 1 ELSE {b.secs + 1} :
                   /\ failures' = failures + (IF n <= b.secs THEN 1 ELSE 0)
                   /\ SetTree(AddLeaves(Tree, Min({p \in DOMAIN page : ~page[p].live}),
                                        b.sec, b.secs, n))
       /\ UNCHANGED reads

\* block_cache_prune_event.
PruneEvent ==
    /\ \E idle \in (SUBSET Sectors) \ {{}} : SetTree(Prune(idle))
    /\ UNCHANGED <<breq, reads, failures>>

Next ==
    \/ \E sec \in Sectors : \E secs \in 1 .. PerPage :
          /\ sec + secs <= NSectors
          /\ Hit(sec, secs) \/ Miss(sec, secs) \/ MissUncached(sec, secs)
    \/ \E i \in DOMAIN breq, k \in 1 .. PerPage, err \in BOOLEAN :
          (err => failures < MaxFailures) /\ Populate(i, k, err)
    \/ PruneEvent

Spec == Init /\ [][Next]_vars

-----------------------------------------------------------------------------
(* Properties. *)

\* A cached sector is its own (radix_tree_find_leaf hands out the buffer): every leaf
\* points into a page that is allocated, at the data of that sector, and the page
\* knows it as an owner, through reads that overlap, failures and pruning; no page is
\* left without a leaf that leads to it, and tree->size is what the pages take.
CacheRight ==
    /\ \A s \in Sectors : leaf[s].page # 0 =>
          LET p == page[leaf[s].page]
          IN p.live /\ s \in p.owners /\ p.sec + leaf[s].off = s
    /\ \A p \in DOMAIN page : page[p].live => page[p].owners # {}
    /\ size = FoldSet(LAMBDA p, n : n + page[p].secs, 0, DOMAIN page)
=============================================================================
