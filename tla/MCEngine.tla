------------------------------ MODULE MCEngine -------------------------------
(* Two mines of two columns and seven rows: one with a block of every kind *)
(* and three sticks of dynamite, as many as ChainGuard lets off, so that a *)
(* chain ends with nothing left in its queue, and one with four, where the *)
(* guard stops it.  Only a pick that has grown reaches beyond its cell.    *)
EXTENDS Engine

S == Block("stone")
MCReach == [n \in 0..GrowMax |-> n]
Hp == <<2, 3>>
Dmg == <<1, 2>>

\* A column of blocks from the surface down.
Lay(first, second) == [r \in Rows |-> [c \in Columns |-> IF c = 0 THEN first[r + 1] ELSE second[r + 1]]]
O == Block("ore")
T == Block("tnt")
B(id) == Block(id)
Mixed == Lay(<<Times(3), B("grow"), T, T, B("upgrade"), O, O>>,
             <<B("magic"), B("rubber"), T, B("upgrade"), Times(2), B("scatter"), O>>)
\* More dynamite in one heap than the guard of a chain lets off.
Heap == Lay(<<Times(3), S, T, T, O, O, O>>, <<B("grow"), S, T, T, O, B("scatter"), O>>)
MCMines == {Mixed, Heap}
=============================================================================
