---------------------------- MODULE MCVhdChain ----------------------------
(* Instance of VhdChain for TLC: base <- mid <- leaf, and room for one more *)
EXTENDS VhdChain

\* an image with the blocks and sectors of writes, in that order
MakeImage(type, blocks, parent, writes, tag) ==
    FoldLeft(LAMBDA f, w :
                ApplyAll(f, DynamicWrite(OpenAll(f), f, w[1], w[2],
                                         [i \in 1..w[3] |-> Data(<<tag, w[1], w[2] + i>>)], FALSE, FALSE).ws),
             ApplyAll(<<>>, VhdCreate(type, blocks * SPB, blocks, parent)), writes)
Empty == <<>>
First == <<0, 0, 1>>        \* first sector of block 0
Second == <<1, 1, 1>>       \* last sector of block 1
All(b) == <<b, 0, SPB>>
RawDisk == [s \in 1..(2 * SPB) |-> Data(<<"base", s>>)]
Device(f, n) == WriteAt(SubSeq(f, 1, Len(f) - 1), n, <<f[Len(f)]>>)

Chain(base, rawbase, mid, leaf, devs) ==
    LET f == [base |-> IF rawbase THEN RawDisk ELSE MakeImage("dynamic", 2, NoParent, base, "base"),
              mid |-> MakeImage("diff", 2, Parent("base", rawbase), mid, "mid"),
              leaf |-> MakeImage("diff", 2, Parent("mid", FALSE), leaf, "leaf"),
              new |-> <<>>]
    IN [file |-> [i \in Names |-> IF i \in devs THEN Device(f[i], 30) ELSE f[i]],
        raw |-> IF rawbase THEN {"base"} ELSE {}, dev |-> devs]
MCNames == {"base", "mid", "leaf", "new"}
MCChains ==
    {Chain(<<All(0)>>, FALSE, <<All(1), First>>, <<Second>>, {}),
     Chain(<<First>>, FALSE, <<All(1)>>, Empty, {"base"}),
     Chain(Empty, TRUE, <<First>>, <<Second>>, {}),
     Chain(Empty, FALSE, <<All(0)>>, <<First>>, {"base", "leaf"})}
=============================================================================
