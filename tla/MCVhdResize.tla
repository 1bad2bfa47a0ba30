---------------------------- MODULE MCVhdResize ----------------------------
(* Instance of VhdResize for TLC: every small image and every goal *)
EXTENDS VhdResize

\* an image with blocks data blocks, metadata for max, and the blocks of alloc
\* written in that order
MakeImage(type, blocks, max, alloc) ==
    FoldLeft(LAMBDA f, b :
                LET c == VhdOpen(f, TRUE, FALSE, FALSE) IN
                ApplyAll(f, DynamicWrite(c, f, b, 0, [i \in 1..(IF b = 0 THEN SPB ELSE 1) |-> Data(<<b, i>>)], FALSE, FALSE).ws),
             ApplyAll(<<>>, VhdCreate(type, blocks * SPB, max, Parent("p", FALSE))), alloc)

Im(type, blocks, max, alloc) ==
    [file |-> MakeImage(type, blocks, max, alloc), hasmap |-> TRUE, isblock |-> FALSE,
     fast |-> FALSE]
\* the same on a device with room to spare
OnDevice(im) ==
    [im EXCEPT !.isblock = TRUE,
               !.file = WriteAt(SubSeq(im.file, 1, Len(im.file) - 1), 40, <<im.file[Len(im.file)]>>)]

\* images to be resized with -j, whose metadata is for the blocks they have
Exact == {Im("dynamic", 2, 2, <<>>), Im("dynamic", 2, 2, <<0>>), Im("dynamic", 2, 2, <<1, 0>>),
          Im("diff", 2, 2, <<0, 1>>), Im("diff", 2, 2, <<1>>)}

\* images made with -S, whose metadata is for more blocks, to be resized with -f
Preallocated == {Im("dynamic", 2, 4, <<0>>), Im("diff", 2, 3, <<1, 0>>)}
WithF(ims) == {[im EXCEPT !.fast = TRUE] : im \in ims}

MCImages == LET all == Exact \cup WithF(Preallocated \cup Exact)
            IN all \cup {OnDevice(im) : im \in all}
MCGoals == {2, 4, 6, 8, 14}

\* a differencing image whose batmap grows over the old place of its locators
GrowingMap == {Im("diff", 3, 3, <<2>>)}
GrowingMapGoals == {8, 12}
=============================================================================
