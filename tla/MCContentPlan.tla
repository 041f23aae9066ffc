---------------------------- MODULE MCContentPlan ----------------------------
(* Small staged titles for ContentPlan: every choice of a few sizes for the  *)
(* files of content/, with some shapes of code/ and meta/; one has a file    *)
(* that does not fit its fields, and one behind it.                          *)
EXTENDS ContentPlan

MCNameOrder ==
    <<"a.bin", "app.xml", "b.rpx", "bootTvTex.tga", "bootLogoTex.tga", "bootMovie.h264", "code",
      "content", "cos.xml", "hif_0", "hif_1", "iconTex.tga", "meta", "meta.xml", "sub">>
MCHifNames == {"hif_0", "hif_1"}
MCExecNames == {"b.rpx"}

Absent == 99
Game(h0, h1, a, c, sh) ==
    LET sizes == [p \in {<<"content", "hif_0">>, <<"content", "hif_1">>, <<"content", "a.bin">>,
                         <<"content", "sub", "a.bin">>, <<"content", "sub", "hif_0">>} |->
                    IF p = <<"content", "hif_0">> THEN h0
                    ELSE IF p = <<"content", "hif_1">> THEN h1
                    ELSE IF p = <<"content", "a.bin">> THEN a
                    ELSE IF p = <<"content", "sub", "a.bin">> THEN c ELSE sh]
    IN [p \in {q \in DOMAIN sizes : sizes[q] # Absent} |-> sizes[p]]

Games == {Game(h0, h1, a, c, sh) :
            h0 \in {Absent, 3, 8}, h1 \in {Absent, 0, 8}, a \in {Absent, 3},
            c \in {Absent, 1, 4}, sh \in {Absent, 3, 9}}

CodeFiles == {[p \in {} |-> 0],
              [p \in {<<"code", n>> : n \in {"app.xml"}} |-> 3],
              [p \in {<<"code", n>> : n \in {"a.bin", "app.xml", "b.rpx", "cos.xml"}} |->
                  IF p[2] = "b.rpx" THEN 5 ELSE 0],
              [p \in {<<"code", "sub", "a.bin">>} |-> 1]}

MetaFiles == {[p \in {} |-> 0],
              [p \in {<<"meta", n>> : n \in {"a.bin", "bootLogoTex.tga", "bootMovie.h264",
                                             "bootTvTex.tga", "iconTex.tga", "meta.xml"}} |->
                  IF p[2] = "iconTex.tga" THEN 3 ELSE 1],
              [p \in {<<"meta", n>> : n \in {"bootTvTex.tga", "iconTex.tga"}} |->
                  IF p[2] = "iconTex.tga" THEN 3 ELSE 19]}

Merge(f, g) == [p \in DOMAIN f \cup DOMAIN g |-> IF p \in DOMAIN f THEN f[p] ELSE g[p]]
Parents(S) == UNION {{SubSeq(p, 1, n) : n \in 1 .. Len(p) - 1} : p \in S}
TreeOf(sizes, extra) == [sizes |-> sizes, dirs |-> Parents(DOMAIN sizes) \cup extra]

\* Every game with a plain title around it, and some games with the other shapes, empty
\* directories at the top and below included.
MCTrees ==
    {TreeOf(Merge(g, [p \in {<<"code", "app.xml">>} |-> 3]), {<<"content">>}) : g \in Games}
    \cup {TreeOf(Merge(Merge(Game(8, a, a, 1, Absent), c), m), extra) :
            a \in {Absent, 3}, c \in CodeFiles, m \in MetaFiles,
            extra \in {{}, {<<"meta">>, <<"content">>, <<"content", "cos.xml">>}}}
    \cup {[sizes |-> <<>>, dirs |-> {<<"code">>, <<"content">>}]}
=============================================================================
