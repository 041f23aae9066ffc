--------------------------- MODULE MCHashedContent ---------------------------
(* Contents for HashedContent, with two bytes to a block and eight blocks to *)
(* a group: lengths around nothing, a block, a group and two groups, cut     *)
(* into files and gaps in several ways, empty files included.                *)
EXTENDS HashedContent

File(id, off, size) == [id |-> id, off |-> off, size |-> size]
Lengths == {0, 1, 2, 3, 5, 8, 9, 15, 16, 17, 31, 32, 33}

OneFile == {[files |-> <<File("a", 0, n)>>, len |-> n] : n \in Lengths}

\* A file of every small size, an empty one in the middle, and one that ends the content.
ThreeFiles ==
    {[files |-> <<File("a", 0, n), File("b", 2 * ((n + 1) \div 2), 0),
                  File("c", 2 * ((n + 1) \div 2) + 2 * gap, m)>>,
      len |-> 2 * ((n + 1) \div 2) + 2 * gap + m] :
        n \in {0, 1, 7, 16}, gap \in {0, 1, 8}, m \in {0, 1, 16, 17}}

MCContents == OneFile \cup ThreeFiles
=============================================================================
