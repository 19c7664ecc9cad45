---------------------------- MODULE Engine_proofs ----------------------------
(***************************************************************************)
(* Proofs about Engine, for any mine, any number of picks and any limits   *)
(* that keep MarginAssumption and ChainAssumption: types, a cache that     *)
(* agrees with a mine that forgets nothing, a count without repetition,    *)
(* chains that run out and, for one pick, a screen on which no hole grows  *)
(* over.                                                                   *)
(*                                                                         *)
(* MineInv carries them.  CacheInv says that a row in the cache is what    *)
(* the strikes have made of it and that a row neither there nor above the  *)
(* line was never struck; PlaceInv keeps picks, cells about to be struck   *)
(* and explosions far enough below the line that nobody asks for a row     *)
(* that was thrown away; LaidInv says that dynamite was laid, never made,  *)
(* so that a chain stays within what ChainAssumption knows of the mine.    *)
(* Steps are first brought to a few kinds (Walk, Hit, Blow and the ends of *)
(* step, blast and tick), and each invariant is proved kind by kind.       *)
(***************************************************************************)
EXTENDS Engine, FiniteSetTheorems, TLAPS

(* Every nonempty set of natural numbers has a least element.              *)
LEMMA LeastNumber ==
  ASSUME NEW T \in SUBSET Nat, T # {}
  PROVE  \E n \in T : \A m \in T : n <= m
<1>1. IsWellFoundedOn(OpToRel(<, Nat), Nat) BY NatLessThanWellFounded
<1>2. PICK n \in T : \A m \in T : ~ (<<m, n>> \in OpToRel(<, Nat)) BY <1>1, WFMin
<1>3. \A m \in T : m < n => <<m, n>> \in OpToRel(<, Nat) BY DEF OpToRel
<1>4. \A m \in T : ~ (m < n) BY <1>2, <1>3, Zenon
<1>5. \A m \in T : n <= m BY <1>4
<1>6. QED BY <1>5

(***************************************************************************)
(* Types.                                                                  *)
(***************************************************************************)
PickState ==
  [level : 1..Len(TierHp), hp : Int, enchantLvl : 0..3, topHealUsed : BOOLEAN,
   x : Columns, y : Int, depth : Nat, dead : BOOLEAN, growT : Seq(Int),
   lastHit : SUBSET [cell : Cells, at : Nat]]
RunState ==
  [collected : Nat, multActive : Nat \ {0}, multWindowT : 0..MultWindow, blocks : Nat,
   hits : Nat, scatters : Nat, time : Nat, over : BOOLEAN,
   reason : {"none", "broken", "timeout", "limit"}, pruneIn : 1..PruneEvery]
BlastState ==
  [on : BOOLEAN, at : Cells, queue : SUBSET Cells, spent : SUBSET Cells,
   cleared : SUBSET Cells, chainLen : Nat, got : Nat]

Worthy(grid) == \A r \in Rows, c \in Columns : grid[r][c].id = "mult" => grid[r][c].m > 0

GridTypes ==
  /\ DOMAIN rows \subseteq Rows /\ rows \in [DOMAIN rows -> [Columns -> Cell]]
  /\ mined \in [Rows -> [Columns -> Cell]] /\ Worthy(mined)

Types ==
  /\ GridTypes
  /\ laid \in Mines /\ bonus \in BOOLEAN /\ prunedAbove \in Nat
  /\ picks \in [Picks -> PickState] /\ run \in RunState /\ blast \in BlastState
  /\ \A p \in Picks : Len(picks[p].growT) <= GrowMax /\ picks[p].y <= LastRow
  /\ turn \in 0..(NPicks + 1) /\ left \in -1..Substeps /\ sweep \subseteq Cells
  /\ touchedTop \in Int /\ touchedTop <= LastRow + 1
  /\ broken \subseteq Cells

(***************************************************************************)
(* The cache holds what the strikes have made of the mine, and a row that  *)
(* is neither there nor above the line was never struck.                   *)
(***************************************************************************)
Known(r) == r \in DOMAIN rows \/ r >= prunedAbove
CacheInv ==
  /\ \A r \in DOMAIN rows : rows[r] = mined[r]
  /\ \A r \in Rows : Known(r) => Row(r) = mined[r]

(***************************************************************************)
(* Where everything is, measured from the line.                            *)
(***************************************************************************)
Behind(n, r) == prunedAbove = 0 \/ prunedAbove + n <= r
InReach(e) == \A far \in {ChainRadius, RayReach} : Behind(Chain + far, e[1])
Digging(p) == ~picks[p].dead /\ (~run.over \/ turn = p)

PlaceInv ==
  /\ \A p \in Picks : Digging(p) => Behind(Margin, picks[p].depth)
  /\ \A p \in Picks : picks[p].depth <= picks[p].y + Climb
  /\ \A p \in Picks : p < turn /\ ~picks[p].dead /\ ~run.over => touchedTop <= picks[p].depth
  /\ turn \in Picks /\ left = -1 => ~picks[turn].dead /\ ~blast.on
  /\ turn \in Picks /\ blast.on => ~picks[turn].dead
  /\ turn \notin Picks => sweep = {} /\ ~blast.on
  /\ \A e \in sweep : e[1] \in DOMAIN rows /\ InReach(e)
  /\ blast.on => /\ InReach(blast.at)
                 /\ \E S \in ChainsFrom(blast.at, laid) : blast.queue \cup blast.spent \subseteq S

(***************************************************************************)
(* What is broken stays broken.                                            *)
(***************************************************************************)
AtCell(grid, e) == grid[e[1]][e[2]]
IsAir(e) == mined[e[1]][e[2]].id = "air"
LaidInv == \A e \in Cells : AtCell(mined, e).id = "tnt" => AtCell(laid, e).id = "tnt"
BrokenInv ==
  /\ IsFiniteSet(broken) /\ run.blocks = Cardinality(broken)
  /\ \A e \in broken : IsAir(e)
NoFuseLeft(at) == \A e \in Near(at, ChainRadius) : AtCell(mined, e).id # "tnt"
ChainInv ==
  blast.on => (\A e \in blast.cleared : IsAir(e)) /\ (\A at \in blast.spent : NoFuseLeft(at))

ScreenInv ==
  /\ Behind(Margin, picks[1].depth)
  /\ touchedTop <= LastRow => touchedTop <= picks[1].depth
(***************************************************************************)
(* Facts about the constants and about small operators.                    *)
(***************************************************************************)
LEMMA Numbers ==
  /\ LastRow \in Nat /\ OreTough \in Nat /\ OreValue \in Nat /\ TopHeal \in Nat
  /\ GrowMax \in Nat /\ ChainRadius \in Nat /\ ChainGuard \in Nat /\ RayReach \in Nat
  /\ Margin \in Nat /\ Screen \in Nat /\ Climb \in Nat /\ Chain \in Nat /\ StartHeight \in Nat
  /\ StartHeight <= Climb
  /\ Cols \in Nat \ {0} /\ NPicks \in Nat \ {0} /\ GrowSec \in Nat \ {0}
  /\ MultWindow \in Nat \ {0} /\ MultCap \in Nat \ {0} /\ PruneEvery \in Nat \ {0}
  /\ Substeps \in Nat \ {0}
  BY EngineAssumption

LEMMA Tiers ==
  /\ Len(TierHp) \in Nat \ {0} /\ Len(TierDmg) = Len(TierHp)
  /\ \A t \in 1..Len(TierHp) : TierHp[t] \in Nat \ {0} /\ TierDmg[t] \in Nat
<1>1. Len(TierHp) \in Nat \ {0} /\ Len(TierDmg) = Len(TierHp) BY EngineAssumption
<1>2. TierHp \in Seq(Nat \ {0}) /\ TierDmg \in Seq(Nat) BY EngineAssumption
<1>3. QED BY <1>1, <1>2

LEMMA CellsAreFinite == IsFiniteSet(Cells)
<1>1. IsFiniteSet(Rows) /\ IsFiniteSet(Columns)
  BY Numbers, FS_Interval DEF Rows, Columns
<1>2. QED BY <1>1, FS_Product DEF Cells

LEMMA FirstCell == <<0, 0>> \in Cells
  BY Numbers DEF Cells, Rows, Columns

LEMMA Products ==
  ASSUME NEW a \in Nat, NEW b \in Nat
  PROVE  a * b \in Nat
  OBVIOUS

LEMMA AirIsCell == Air \in Cell /\ Air.id = "air"
  BY DEF Air, Cell, Ids

(* NextAlive() passes over the dead only.                                  *)
LEMMA NextIsAlive ==
  ASSUME NEW p \in 0..NPicks, NEW rn,
         picks \in [Picks -> PickState]
  PROVE  /\ NextAlive(p, rn) \in (p + 1)..(NPicks + 1)
         /\ NextAlive(p, rn) \in Picks => ~picks[NextAlive(p, rn)].dead /\ ~rn.over
         /\ ~rn.over => \A q \in Picks : p < q /\ q < NextAlive(p, rn) => picks[q].dead
<1> DEFINE later == {q \in Picks : q > p /\ ~picks[q].dead}
<1>1. CASE rn.over \/ \A q \in Picks : q <= p \/ picks[q].dead
  <2>1. NextAlive(p, rn) = NPicks + 1 BY <1>1 DEF NextAlive
  <2>2. QED BY <1>1, <2>1, Numbers DEF Picks
<1>2. CASE ~ (rn.over \/ \A q \in Picks : q <= p \/ picks[q].dead)
  <2>1. later \in SUBSET Nat /\ later # {} BY <1>2, Numbers DEF Picks
  <2>2. \E q \in later : \A s \in later : q <= s
    <3> HIDE DEF later
    <3> QED BY <2>1, LeastNumber
  <2> DEFINE Least(q) == /\ q > p /\ ~picks[q].dead
                         /\ \A s \in Picks : s > p /\ ~picks[s].dead => q <= s
  <2>3. \E q \in Picks : Least(q) BY <2>2
  <2>4. NextAlive(p, rn) = CHOOSE q \in Picks : Least(q) BY <1>2 DEF NextAlive
  <2>5. NextAlive(p, rn) \in Picks /\ Least(NextAlive(p, rn))
    <3> HIDE DEF Least
    <3> QED BY <2>3, <2>4
  <2>6. NextAlive(p, rn) \in (p + 1)..(NPicks + 1) BY <2>5, Numbers DEF Picks
  <2>7. \A q \in Picks : p < q /\ q < NextAlive(p, rn) => picks[q].dead
    <3> DEFINE n == NextAlive(p, rn)
    <3>1. n \in Picks /\ Least(n) BY <2>5
    <3> HIDE DEF n
    <3>2. SUFFICES \A q \in Picks : p < q /\ q < n => picks[q].dead BY DEF n
    <3>3. QED BY <3>1, Numbers DEF Picks
  <2>8. QED BY <1>2, <2>5, <2>6, <2>7
<1>3. QED BY <1>1, <1>2

(* A growing pick never holds more than GrowMax timers.                    *)
LEMMA TickedShrinks ==
  ASSUME NEW growT \in Seq(Int)
  PROVE  Ticked(growT) \in Seq(Int) /\ Len(Ticked(growT)) <= Len(growT)
<1> DEFINE due == {i \in DOMAIN growT : growT[i] = 1}
           out == Cardinality(due)
           n == Len(growT) - out
<1>1. Len(growT) \in Nat /\ DOMAIN growT = 1..Len(growT) OBVIOUS
<1>2. IsFiniteSet(1..Len(growT)) /\ Cardinality(1..Len(growT)) = Len(growT)
  BY <1>1, FS_Interval
<1>3. due \subseteq 1..Len(growT) BY <1>1
<1>4. out \in Nat /\ out <= Len(growT)
  BY <1>2, <1>3, FS_Subset, FS_CardinalityType
<1>5. n \in Nat /\ n <= Len(growT) BY <1>1, <1>4
<1>6. Ticked(growT) = [i \in 1..n |-> growT[i + out] - 1] BY DEF Ticked
<1>7. \A i \in 1..n : i + out \in 1..Len(growT) BY <1>1, <1>4
<1>8. \A i \in 1..n : growT[i + out] - 1 \in Int BY <1>1, <1>7
<1> HIDE DEF n, out
<1>9. [i \in 1..n |-> growT[i + out] - 1] \in [1..n -> Int] BY <1>8
<1>10. Ticked(growT) \in [1..n -> Int] BY <1>6, <1>9
<1>11. Ticked(growT) \in Seq(Int) /\ Len(Ticked(growT)) = n BY <1>5, <1>10
<1>12. QED BY <1>5, <1>11

-----------------------------------------------------------------------------
(***************************************************************************)
(* The cache.  Whoever asks for a row that is not thrown away gets it as   *)
(* the strikes left it.                                                    *)
(***************************************************************************)
LEMMA CellFacts ==
  ASSUME Types, CacheInv, NEW e \in Cells, Known(e[1])
  PROVE  CellAt(e) = mined[e[1]][e[2]] /\ CellAt(e) \in Cell
  BY DEF Types, GridTypes, CacheInv, CellAt, Cells

LEMMA AskingKeepsCache ==
  ASSUME Types, CacheInv, NEW asked \in SUBSET Rows, \A r \in asked : Known(r),
         rows' = Asked(asked), UNCHANGED <<laid, mined, prunedAbove>>
  PROVE  CacheInv' /\ GridTypes' /\ DOMAIN rows' = DOMAIN rows \cup asked
<1>1. DOMAIN rows' = DOMAIN rows \cup asked BY DEF Asked
<1>2. \A r \in DOMAIN rows' : rows'[r] = Row(r) /\ Known(r) BY <1>1 DEF Asked, Known
<1>3. \A r \in DOMAIN rows' : rows'[r] = mined'[r] BY <1>1, <1>2 DEF CacheInv, Types, GridTypes
<1>4. ASSUME NEW r \in Rows, Known(r)' PROVE Row(r)' = mined'[r]
  <2>1. CASE r \in DOMAIN rows' BY <1>3, <2>1 DEF Row
  <2>2. CASE r \notin DOMAIN rows'
    <3>1. Known(r) /\ r \notin DOMAIN rows BY <1>1, <1>4, <2>2 DEF Known
    <3>2. QED BY <2>2, <3>1 DEF Row, CacheInv
  <2>3. QED BY <2>1, <2>2
<1>5. GridTypes'
  <2>1. mined' \in [Rows -> [Columns -> Cell]] /\ Worthy(mined')
    BY DEF Types, GridTypes
  <2>2. rows' = [r \in DOMAIN rows' |-> rows'[r]] BY DEF Asked
  <2>3. DOMAIN rows' \subseteq Rows BY <1>1 DEF Types, GridTypes
  <2>4. \A r \in DOMAIN rows' : rows'[r] \in [Columns -> Cell] BY <1>3, <2>1, <2>3
  <2>5. QED BY <2>1, <2>2, <2>3, <2>4 DEF GridTypes
<1>6. QED BY <1>1, <1>3, <1>4, <1>5 DEF CacheInv

(* A row struck is in the cache, and changes there and in the mine alike.  *)
LEMMA StrikingKeepsCache ==
  ASSUME Types, CacheInv, NEW e \in Cells, e[1] \in DOMAIN rows, NEW block \in Cell, block.id # "mult",
         rows' = Put(rows, e, block), mined' = Put(mined, e, block),
         UNCHANGED <<laid, prunedAbove>>
  PROVE  CacheInv' /\ GridTypes' /\ DOMAIN rows' = DOMAIN rows
<1>1. /\ rows' \in [DOMAIN rows -> [Columns -> Cell]]
      /\ \A r \in DOMAIN rows : r # e[1] => rows'[r] = rows[r]
      /\ rows'[e[1]] = [rows[e[1]] EXCEPT ![e[2]] = block]
  <2>1. DOMAIN rows \subseteq Rows /\ rows \in [DOMAIN rows -> [Columns -> Cell]] BY DEF Types, GridTypes
  <2>2. e = <<e[1], e[2]>> /\ e[2] \in Columns BY DEF Cells
  <2>3. QED BY <2>1, <2>2 DEF Put
<1>2. /\ \A r \in Rows : r # e[1] => mined'[r] = mined[r]
      /\ mined'[e[1]] = [mined[e[1]] EXCEPT ![e[2]] = block]
  <2>1. e[1] \in Rows /\ mined \in [Rows -> [Columns -> Cell]] BY DEF Cells, Types, GridTypes
  <2>2. e = <<e[1], e[2]>> /\ e[2] \in Columns BY DEF Cells
  <2>3. QED BY <2>1, <2>2 DEF Put
<1>3. DOMAIN rows' = DOMAIN rows BY <1>1
<1>4. \A r \in DOMAIN rows' : rows'[r] = mined'[r]
  BY <1>1, <1>2, <1>3 DEF CacheInv, Types, GridTypes
<1>5. ASSUME NEW r \in Rows, Known(r)' PROVE Row(r)' = mined'[r]
  <2>1. CASE r \in DOMAIN rows' BY <1>4, <2>1 DEF Row
  <2>2. CASE r \notin DOMAIN rows'
    <3>1. Known(r) /\ r # e[1] BY <1>3, <1>5, <2>2 DEF Known
    <3>2. QED BY <1>2, <1>3, <2>2, <3>1 DEF Row, CacheInv
  <2>3. QED BY <2>1, <2>2
<1>6. mined' \in [Rows -> [Columns -> Cell]] /\ Worthy(mined')
  <2>1. e[1] \in Rows /\ e[2] \in Columns BY DEF Cells
  <2>2. mined \in [Rows -> [Columns -> Cell]] /\ Worthy(mined) BY DEF Types, GridTypes
  <2>3. mined' = [mined EXCEPT ![e[1]][e[2]] = block] BY DEF Put
  <2>4. mined' \in [Rows -> [Columns -> Cell]] BY <2>1, <2>2, <2>3
  <2>5. ASSUME NEW r \in Rows, NEW c \in Columns
        PROVE  mined'[r][c] = mined[r][c] \/ mined'[r][c] = block
    BY <2>1, <2>2, <2>3
  <2>6. QED BY <2>2, <2>4, <2>5 DEF Worthy
<1>7. DOMAIN rows \subseteq Rows BY DEF Types, GridTypes
<1>8. QED BY <1>1, <1>3, <1>4, <1>5, <1>6, <1>7 DEF CacheInv, GridTypes

(* An explosion asks for the rows it reaches and clears what it hits.      *)
LEMMA BlastingKeepsCache ==
  ASSUME Types, CacheInv, NEW seen \in SUBSET Rows, \A r \in seen : Known(r),
         NEW hit \in SUBSET Cells, RowsOf(hit) \subseteq seen,
         rows' = PutAll(Asked(seen), hit), mined' = PutAll(mined, hit),
         UNCHANGED <<laid, prunedAbove>>
  PROVE  CacheInv' /\ GridTypes' /\ DOMAIN rows' = DOMAIN rows \cup seen
<1> DEFINE S == DOMAIN rows \cup seen
<1>1. \A r \in S : r \in Rows /\ Asked(seen)[r] = mined[r]
  BY DEF Asked, CacheInv, Known, Types, GridTypes
<1>2. Asked(seen) \in [S -> [Columns -> Cell]]
  <2>1. Asked(seen) = [r \in S |-> Row(r)] BY DEF Asked
  <2>2. \A r \in S : Asked(seen)[r] \in [Columns -> Cell]
    <3>1. mined \in [Rows -> [Columns -> Cell]] BY DEF Types, GridTypes
    <3>2. QED BY <1>1, <3>1
  <2>3. QED BY <2>1, <2>2
<1>3. /\ rows' \in [S -> [Columns -> Cell]]
      /\ \A r \in S, c \in Columns :
           rows'[r][c] = IF <<r, c>> \in hit THEN Air ELSE mined[r][c]
  <2> HIDE DEF S
  <2>1. S \subseteq Rows BY <1>1
  <2>2. /\ PutAll(Asked(seen), hit) \in [S -> [Columns -> Cell]]
        /\ \A r \in S, c \in Columns : PutAll(Asked(seen), hit)[r][c] =
             IF <<r, c>> \in hit THEN Air ELSE Asked(seen)[r][c]
    BY <1>2, <2>1, AirIsCell DEF PutAll
  <2>3. QED BY <1>1, <2>2
<1>4. /\ mined' \in [Rows -> [Columns -> Cell]]
      /\ \A r \in Rows, c \in Columns :
           mined'[r][c] = IF <<r, c>> \in hit THEN Air ELSE mined[r][c]
  <2>1. mined \in [Rows -> [Columns -> Cell]] BY DEF Types, GridTypes
  <2>2. QED BY <2>1, AirIsCell DEF PutAll
<1>5. ASSUME NEW r \in S PROVE rows'[r] = mined'[r]
  <2>1. r \in Rows BY <1>1
  <2>2. rows'[r] \in [Columns -> Cell] /\ mined'[r] \in [Columns -> Cell] BY <1>3, <1>4, <2>1
  <2>3. \A c \in Columns : rows'[r][c] = mined'[r][c] BY <1>3, <1>4, <2>1
  <2>4. QED BY <2>2, <2>3
<1>6. ASSUME NEW r \in Rows \ S PROVE mined'[r] = mined[r]
  <2>1. \A c \in Columns : <<r, c>> \notin hit
    BY <1>6 DEF RowsOf
  <2>2. mined'[r] \in [Columns -> Cell] /\ mined[r] \in [Columns -> Cell]
    BY <1>4 DEF Types, GridTypes
  <2>3. \A c \in Columns : mined'[r][c] = mined[r][c] BY <1>4, <2>1
  <2>4. QED BY <2>2, <2>3
<1>7. DOMAIN rows' = S BY <1>3
<1>8. ASSUME NEW r \in Rows, Known(r)' PROVE Row(r)' = mined'[r]
  <2>1. CASE r \in S BY <1>5, <1>7, <2>1 DEF Row
  <2>2. CASE r \notin S
    <3>1. Known(r) /\ r \notin DOMAIN rows BY <1>7, <1>8, <2>2 DEF Known
    <3>2. QED BY <1>6, <1>7, <2>2, <3>1 DEF Row, CacheInv
  <2>3. QED BY <2>1, <2>2
<1>9. Worthy(mined')
  <2>1. Worthy(mined) BY DEF Types, GridTypes
  <2>2. QED BY <1>4, <2>1, AirIsCell DEF Worthy
<1>10. S \subseteq Rows BY <1>1
<1>11. QED BY <1>3, <1>4, <1>5, <1>7, <1>8, <1>9, <1>10 DEF CacheInv, GridTypes

(* What is thrown away is above the line, and the line only sinks.         *)
LEMMA PruningKeepsCache ==
  ASSUME Types, CacheInv, NEW line \in Nat, prunedAbove <= line, prunedAbove' = line,
         rows' = [r \in {k \in DOMAIN rows : k >= line} |-> rows[r]],
         UNCHANGED <<laid, mined>>
  PROVE  CacheInv' /\ GridTypes' /\ DOMAIN rows' \subseteq DOMAIN rows
<1>1. DOMAIN rows' = {k \in DOMAIN rows : k >= line} OBVIOUS
<1>2. \A r \in DOMAIN rows' : rows'[r] = mined'[r] BY <1>1 DEF CacheInv
<1>3. ASSUME NEW r \in Rows, Known(r)' PROVE Row(r)' = mined'[r]
  <2>1. CASE r \in DOMAIN rows' BY <1>2, <2>1 DEF Row
  <2>2. CASE r \notin DOMAIN rows'
    <3>1. r >= line BY <1>3, <2>2 DEF Known
    <3>2. r \notin DOMAIN rows BY <1>1, <2>2, <3>1
    <3>3. r >= prunedAbove
      <4>1. r \in Nat /\ prunedAbove \in Nat BY Numbers DEF Types, GridTypes, Rows
      <4>2. QED BY <3>1, <4>1
    <3>4. QED BY <2>2, <3>2, <3>3 DEF Row, Known, CacheInv
  <2>3. QED BY <2>1, <2>2
<1>4. GridTypes' BY <1>1 DEF Types, GridTypes
<1>5. QED BY <1>1, <1>2, <1>3, <1>4 DEF CacheInv

-----------------------------------------------------------------------------
(***************************************************************************)
(* What a strike does, seen from the mine: the pick stays where it is, and *)
(* the block goes, cracks or, being rubber, does nothing.                  *)
(***************************************************************************)
Stays(pk, old) ==
  /\ pk \in PickState /\ pk.y = old.y /\ pk.depth = old.depth /\ pk.dead = old.dead
  /\ Len(pk.growT) <= GrowMax

Lit(cell) ==
  [NoBlast EXCEPT !.on = TRUE, !.at = cell, !.queue = {cell}, !.cleared = {cell}]

Digs(cell) ==
  /\ rows' = Put(rows, cell, Air) /\ mined' = Put(mined, cell, Air)
  /\ \/ broken' = broken /\ run'.blocks = run.blocks
     \/ broken' = broken \cup {cell} /\ run'.blocks = run.blocks + 1
Cracks(cell) ==
  /\ \E block \in Cell : /\ block.id \in {"stone", "ore"}
                         /\ CellAt(cell).id \in {"stone", "ore"}
                         /\ rows' = Put(rows, cell, block) /\ mined' = Put(mined, cell, block)
  /\ blast' = blast /\ broken' = broken /\ run'.blocks = run.blocks
Bounces ==
  /\ UNCHANGED <<rows, mined, broken>>
  /\ blast' = blast /\ run'.blocks = run.blocks

Hit(p, cell) ==
  /\ turn = p /\ left >= 0 /\ ~blast.on /\ cell \in sweep /\ ~picks[p].dead
  /\ CellAt(cell).id # "air"
  /\ sweep' \subseteq sweep
  /\ UNCHANGED <<laid, bonus, prunedAbove, turn, left, touchedTop>>
  /\ \E pk \in PickState :
       /\ picks' = [picks EXCEPT ![p] = pk]
       /\ pk.y = picks[p].y /\ pk.depth = picks[p].depth /\ Len(pk.growT) <= GrowMax
       /\ blast'.on => ~pk.dead
  /\ run' \in RunState /\ (run.over => run'.over)
  /\ blast' = blast \/ (blast' = Lit(cell) /\ CellAt(cell).id = "tnt")
  /\ Digs(cell) \/ Cracks(cell) \/ Bounces

LEMMA PaidStays ==
  ASSUME Types, NEW p \in Picks, NEW cell
  PROVE  Stays(Paid(p, cell), picks[p])
<1>1. picks[p] \in PickState /\ Len(picks[p].growT) <= GrowMax BY DEF Types
<1>2. Cost(CellAt(cell).id) \in Int BY DEF Cost
<1> DEFINE hp == picks[p].hp - Cost(CellAt(cell).id)
<1>3. hp \in Int /\ Paid(p, cell) = [picks[p] EXCEPT !.hp = hp]
  BY <1>1, <1>2 DEF PickState, Paid
<1> HIDE DEF hp
<1>4. QED BY <1>1, <1>3 DEF Stays, PickState

LEMMA CooledStays ==
  ASSUME Types, NEW p \in Picks, NEW cell \in Cells, NEW pk, Stays(pk, picks[p])
  PROVE  Stays(Cooled(pk, cell), picks[p])
<1>1. run.time \in Nat BY DEF Types, RunState
<1>2. QED BY <1>1 DEF Cooled, Stays, PickState

LEMMA UpgradedStays ==
  ASSUME Types, NEW p \in Picks, NEW pk, Stays(pk, picks[p])
  PROVE  Stays(Upgraded(pk), picks[p])
<1>1. pk.level \in 1..Len(TierHp) /\ pk.hp \in Int /\ pk \in PickState BY DEF Stays, PickState
<1>2. TopHeal \in Int BY Numbers
<1>3. CASE pk.level < Len(TierHp)
  <2>1. pk.level + 1 \in 1..Len(TierHp) BY <1>1, <1>3, Tiers
  <2>2. TierHp[pk.level + 1] \in Int BY <2>1, Tiers
  <2>3. QED BY <1>3, <2>1, <2>2 DEF Upgraded, Stays, PickState
<1>4. CASE ~ (pk.level < Len(TierHp))
  <2>1. TierHp[pk.level] \in Int BY <1>1, Tiers
  <2>2. Smaller(TopHeal, TierHp[pk.level] - pk.hp) \in Int
    BY <1>1, <1>2, <2>1 DEF Smaller
  <2>3. pk.hp + Smaller(TopHeal, TierHp[pk.level] - pk.hp) \in Int BY <1>1, <2>2
  <2>4. QED BY <1>4, <2>1, <2>3 DEF Upgraded, Stays, PickState
<1>5. QED BY <1>3, <1>4

LEMMA EnchantedStays ==
  ASSUME Types, NEW p \in Picks, NEW pk, Stays(pk, picks[p])
  PROVE  Stays(Enchanted(pk), picks[p])
<1>1. Len(EnchantSteps) = 4 BY DEF EnchantSteps
<1>2. pk.enchantLvl \in 0..3 BY DEF Stays, PickState
<1>3. Smaller(pk.enchantLvl + 1, Len(EnchantSteps) - 1) \in 0..3 BY <1>1, <1>2 DEF Smaller
<1>4. QED BY <1>3 DEF Enchanted, Stays, PickState

LEMMA GrownStays ==
  ASSUME Types, NEW p \in Picks, NEW pk, Stays(pk, picks[p])
  PROVE  Stays(Grown(pk), picks[p])
<1>1. GrowSec \in Int /\ GrowMax \in Nat BY Numbers
<1>2. pk.growT \in Seq(Int) BY DEF Stays, PickState
<1>3. CASE Len(pk.growT) < GrowMax
  <2>1. Append(pk.growT, GrowSec) \in Seq(Int) /\ Len(Append(pk.growT, GrowSec)) = Len(pk.growT) + 1
    BY <1>1, <1>2
  <2>2. Len(pk.growT) \in Nat BY <1>2
  <2> DEFINE growT == Append(pk.growT, GrowSec)
  <2>3. growT \in Seq(Int) /\ Len(growT) <= GrowMax BY <1>1, <1>3, <2>1, <2>2
  <2>4. Grown(pk) = [pk EXCEPT !.growT = growT] BY <1>3 DEF Grown
  <2> HIDE DEF growT
  <2>5. QED BY <2>3, <2>4 DEF Stays, PickState
<1>4. CASE ~ (Len(pk.growT) < GrowMax) BY <1>4 DEF Grown
<1>5. QED BY <1>3, <1>4

LEMMA CheckedPick ==
  ASSUME NEW pk \in PickState
  PROVE  /\ CheckDead(pk) \in PickState /\ CheckDead(pk).y = pk.y
         /\ CheckDead(pk).depth = pk.depth /\ CheckDead(pk).growT = pk.growT
<1> DEFINE dead == pk.hp <= 0
<1>1. CheckDead(pk) = [pk EXCEPT !.dead = dead] BY DEF CheckDead
<1>2. dead \in BOOLEAN BY DEF PickState
<1> HIDE DEF dead
<1>3. QED BY <1>1, <1>2 DEF PickState

(* Becomes() settles the pick and counts the hit.                          *)
LEMMA BecomesFacts ==
  ASSUME Types, NEW p \in Picks, NEW pk, Stays(pk, picks[p]),
         NEW rn \in RunState, rn.over = run.over, Becomes(p, pk, rn), ~blast.on
  PROVE  /\ \E new \in PickState :
              /\ picks' = [picks EXCEPT ![p] = new]
              /\ new.y = picks[p].y /\ new.depth = picks[p].depth /\ Len(new.growT) <= GrowMax
              /\ blast'.on => ~new.dead
         /\ run' \in RunState /\ (run.over => run'.over) /\ run'.blocks = rn.blocks
         /\ blast' = blast
<1>1. blast' = blast /\ ~blast'.on BY DEF Becomes
<1>2. CheckDead(pk) \in PickState /\ CheckDead(pk).y = pk.y /\ CheckDead(pk).depth = pk.depth
      /\ CheckDead(pk).growT = pk.growT
  BY CheckedPick DEF Stays
<1>3. [rn EXCEPT !.hits = @ + 1] \in RunState BY DEF RunState
<1>4. CheckHits([rn EXCEPT !.hits = @ + 1]) \in RunState
      /\ (rn.over => CheckHits([rn EXCEPT !.hits = @ + 1]).over)
      /\ CheckHits([rn EXCEPT !.hits = @ + 1]).blocks = rn.blocks
  BY <1>3 DEF CheckHits, Finish, RunState
<1>5. QED BY <1>1, <1>2, <1>4 DEF Becomes, Stays

(* Every strike is one.                                                    *)
LEMMA StruckFacts ==
  ASSUME Types, CacheInv, PlaceInv, NEW p \in Picks, NEW cell \in sweep, NEW id,
         Struck(p, cell, id)
  PROVE  /\ turn = p /\ left >= 0 /\ ~blast.on /\ ~picks[p].dead
         /\ CellAt(cell).id # "air" /\ CellAt(cell).id = id
         /\ sweep' \subseteq sweep
         /\ UNCHANGED <<laid, bonus, prunedAbove, turn, left, touchedTop>>
         /\ cell \in Cells /\ cell[1] \in DOMAIN rows /\ Known(cell[1])
         /\ CellAt(cell) = mined[cell[1]][cell[2]] /\ CellAt(cell) \in Cell
<1>1. cell \in Cells /\ cell[1] \in DOMAIN rows /\ Known(cell[1])
  BY DEF Types, PlaceInv, Known
<1>2. CellAt(cell) = mined[cell[1]][cell[2]] /\ CellAt(cell) \in Cell BY <1>1, CellFacts
<1>3. QED BY <1>1, <1>2 DEF Struck, Strikeable, After

(* The strikes that take the block away and pay nothing for it.            *)
LEMMA TakingIsHit ==
  ASSUME Types, CacheInv, PlaceInv, NEW p \in Picks, NEW cell \in sweep, NEW id,
         Struck(p, cell, id), Gone(cell), NEW pk, Stays(pk, picks[p]),
         NEW rn \in RunState, rn.over = run.over, rn.blocks = run.blocks, Becomes(p, pk, rn)
  PROVE  Hit(p, cell)
<1>1. ~blast.on BY DEF Struck
<1>2. Digs(cell) BY <1>1, BecomesFacts DEF Gone, Digs
<1>3. QED BY <1>1, <1>2, BecomesFacts, StruckFacts DEF Hit

LEMMA WorthIsNat ==
  ASSUME Types, NEW p \in Picks, NEW n \in Nat
  PROVE  Worth(picks[p], n) \in Nat
<1>1. picks[p].enchantLvl \in 0..3 /\ run.multActive \in Nat BY DEF Types, PickState, RunState
<1>2. EnchantSteps[picks[p].enchantLvl + 1] \in Nat BY <1>1 DEF EnchantSteps
<1>3. n * EnchantSteps[picks[p].enchantLvl + 1] \in Nat BY <1>2, Products
<1>4. QED BY <1>1, <1>3, Products DEF Worth

LEMMA ValueIsNat ==
  ASSUME NEW id
  PROVE  Value(id) \in Nat
  BY Numbers DEF Value

LEMMA MultipliedFacts ==
  ASSUME Types, NEW m \in Nat \ {0}
  PROVE  /\ Multiplied(m) \in RunState
         /\ Multiplied(m).over = run.over /\ Multiplied(m).blocks = run.blocks
<1>1. run.multActive \in Nat \ {0} /\ run \in RunState BY DEF Types, RunState
<1>2. MultCap \in Nat \ {0} /\ MultWindow \in 0..MultWindow BY Numbers
<1>3. CASE bonus
  <2> DEFINE n == Smaller(MultCap, (IF run.multActive <= 1 THEN 0 ELSE run.multActive) + m)
  <2>1. n \in Nat \ {0} BY <1>1, <1>2 DEF Smaller
  <2>2. Multiplied(m) = [run EXCEPT !.multActive = n] BY <1>3 DEF Multiplied
  <2> HIDE DEF n
  <2>3. QED BY <1>1, <2>1, <2>2 DEF RunState
<1>4. CASE ~bonus
  <2> DEFINE n == Larger(run.multActive, m)
  <2>1. n \in Nat \ {0} BY <1>1 DEF Larger
  <2>2. Multiplied(m) = [run EXCEPT !.multActive = n, !.multWindowT = MultWindow]
    BY <1>4 DEF Multiplied
  <2> HIDE DEF n
  <2>3. QED BY <1>1, <1>2, <2>1, <2>2 DEF RunState
<1>5. QED BY <1>3, <1>4

LEMMA SolidIsHit ==
  ASSUME Types, CacheInv, PlaceInv, NEW p \in Picks, NEW cell \in sweep,
         StrikeSolid(p, cell)
  PROVE  Hit(p, cell)
<1> DEFINE id == CellAt(cell).id
           dmg == TierDmg[picks[p].level]
           hole == CellAt(cell).dmg + dmg >= Tough(id)
           paid == Paid(p, cell)
           won == [run EXCEPT !.blocks = @ + 1,
                              !.collected = @ + 20 * Worth(picks[p], Value(id))]
<1>1. id \in {"stone", "ore"} /\ Struck(p, cell, id) BY DEF StrikeSolid
<1>2. ~blast.on /\ cell \in Cells /\ CellAt(cell) \in Cell
      /\ CellAt(cell) = mined[cell[1]][cell[2]]
  BY <1>1, StruckFacts
<1>3. Stays(paid, picks[p]) /\ Stays(Cooled(paid, cell), picks[p])
  BY <1>2, PaidStays, CooledStays
<1>4. run \in RunState BY DEF Types
<1>5. CASE hole
  <2>1. Becomes(p, paid, won) /\ broken' = broken \cup {cell}
        /\ rows' = Put(rows, cell, Air) /\ mined' = Put(mined, cell, Air)
    BY <1>5 DEF StrikeSolid
  <2>2. won \in RunState /\ won.over = run.over /\ won.blocks = run.blocks + 1
    <3> DEFINE sum == run.collected + 20 * Worth(picks[p], Value(id))
    <3>1. Worth(picks[p], Value(id)) \in Nat BY ValueIsNat, WorthIsNat
    <3>2. sum \in Nat BY <1>4, <3>1 DEF RunState
    <3> DEFINE n == run.blocks + 1
    <3>3. n \in Nat BY <1>4 DEF RunState
    <3>4. won = [run EXCEPT !.blocks = n, !.collected = sum] BY <1>4 DEF RunState
    <3> HIDE DEF sum, n
    <3>5. /\ [run EXCEPT !.blocks = n, !.collected = sum] \in RunState
          /\ [run EXCEPT !.blocks = n, !.collected = sum].over = run.over
          /\ [run EXCEPT !.blocks = n, !.collected = sum].blocks = n
      BY <1>4, <3>2, <3>3 DEF RunState
    <3>6. QED BY <3>4, <3>5 DEF n
  <2> HIDE DEF won, paid
  <2>3. Digs(cell) BY <1>2, <1>3, <2>1, <2>2, BecomesFacts DEF Digs
  <2>4. QED BY <1>1, <1>2, <1>3, <2>1, <2>2, <2>3, BecomesFacts, StruckFacts DEF Hit
<1>6. CASE ~hole
  <2> DEFINE block == Dented(CellAt(cell), dmg)
  <2>1. /\ Becomes(p, Cooled(paid, cell), run) /\ broken' = broken
        /\ rows' = Put(rows, cell, block)
        /\ mined' = Put(mined, cell, Dented(mined[cell[1]][cell[2]], dmg))
    BY <1>6 DEF StrikeSolid
  <2>2. dmg \in Nat BY Tiers DEF Types, PickState
  <2>3. block \in Cell /\ block.id = id
    <3> HIDE DEF dmg
    <3>1. CellAt(cell).dmg + dmg \in Nat BY <1>2, <2>2 DEF Cell
    <3>2. QED BY <1>2, <3>1 DEF Dented, Cell
  <2> HIDE DEF block, paid
  <2>4. Cracks(cell) BY <1>1, <1>2, <1>3, <1>4, <2>1, <2>3, BecomesFacts DEF Cracks, block
  <2>5. QED BY <1>1, <1>2, <1>3, <1>4, <2>1, <2>4, BecomesFacts, StruckFacts DEF Hit
<1>7. QED BY <1>5, <1>6

LEMMA TntIsHit ==
  ASSUME Types, CacheInv, PlaceInv, NEW p \in Picks, NEW cell \in sweep,
         StrikeTnt(p, cell)
  PROVE  Hit(p, cell)
<1>1. Struck(p, cell, "tnt") /\ Gone(cell) BY DEF StrikeTnt
<1>2. /\ picks' = [picks EXCEPT ![p] = Paid(p, cell)]
      /\ run' = [run EXCEPT !.hits = @ + 1] /\ blast' = Lit(cell)
  BY DEF StrikeTnt, Lit
<1>3. Stays(Paid(p, cell), picks[p]) /\ ~picks[p].dead BY <1>1, PaidStays, StruckFacts
<1>4. run' \in RunState /\ run'.over = run.over /\ run'.blocks = run.blocks
  <2>1. run \in RunState BY DEF Types
  <2>2. QED BY <1>2, <2>1 DEF RunState
<1>5. Digs(cell) BY <1>1, <1>4 DEF Gone, Digs
<1>6. \E pk \in PickState :
        /\ picks' = [picks EXCEPT ![p] = pk]
        /\ pk.y = picks[p].y /\ pk.depth = picks[p].depth /\ Len(pk.growT) <= GrowMax
        /\ blast'.on => ~pk.dead
  BY <1>2, <1>3 DEF Stays
<1>7. CellAt(cell).id = "tnt" BY <1>1 DEF Struck
<1>8. QED BY <1>1, <1>2, <1>4, <1>5, <1>6, <1>7, StruckFacts DEF Hit

LEMMA StrikeIsHit ==
  ASSUME Types, CacheInv, PlaceInv, NEW p \in Picks, NEW cell \in sweep, Strike(p, cell)
  PROVE  Hit(p, cell)
<1>1. run \in RunState /\ Stays(Paid(p, cell), picks[p]) BY PaidStays DEF Types
<1>2. CASE StrikeUpgrade(p, cell)
  BY <1>1, <1>2, UpgradedStays, TakingIsHit DEF StrikeUpgrade
<1>3. CASE StrikeMagic(p, cell)
  BY <1>1, <1>3, EnchantedStays, TakingIsHit DEF StrikeMagic
<1>4. CASE StrikeGrow(p, cell)
  BY <1>1, <1>4, GrownStays, TakingIsHit DEF StrikeGrow
<1>5. CASE StrikeScatter(p, cell)
  <2> DEFINE rn == [run EXCEPT !.scatters = @ + 1]
  <2>1. rn \in RunState /\ rn.over = run.over /\ rn.blocks = run.blocks BY <1>1 DEF RunState
  <2>2. Struck(p, cell, "scatter") /\ Gone(cell) /\ Becomes(p, Paid(p, cell), rn)
    BY <1>5 DEF StrikeScatter
  <2> HIDE DEF rn
  <2>3. QED BY <1>1, <2>1, <2>2, TakingIsHit
<1>6. CASE StrikeRubber(p, cell)
  <2>1. Struck(p, cell, "rubber") /\ Becomes(p, Cooled(Paid(p, cell), cell), run)
        /\ UNCHANGED <<rows, mined, broken>>
    BY <1>6 DEF StrikeRubber
  <2>2. cell \in Cells /\ ~blast.on BY <2>1, StruckFacts
  <2>3. Stays(Cooled(Paid(p, cell), cell), picks[p]) BY <1>1, <2>2, CooledStays
  <2>4. Bounces BY <1>1, <2>1, <2>2, <2>3, BecomesFacts DEF Bounces
  <2>5. QED BY <1>1, <2>1, <2>2, <2>3, <2>4, BecomesFacts, StruckFacts DEF Hit
<1>7. CASE StrikeMult(p, cell)
  <2>1. /\ Struck(p, cell, "mult") /\ Gone(cell)
        /\ Becomes(p, Paid(p, cell), Multiplied(CellAt(cell).m))
    BY <1>7 DEF StrikeMult
  <2>2. CellAt(cell).m \in Nat \ {0}
    <3>1. /\ cell \in Cells /\ CellAt(cell) \in Cell /\ CellAt(cell).id = "mult"
          /\ CellAt(cell) = mined[cell[1]][cell[2]]
      BY <2>1, StruckFacts
    <3>2. cell[1] \in Rows /\ cell[2] \in Columns BY <3>1 DEF Cells
    <3>3. CellAt(cell).m > 0 BY <3>1, <3>2 DEF Types, GridTypes, Worthy
    <3>4. QED BY <3>1, <3>3 DEF Cell
  <2>3. QED BY <1>1, <2>1, <2>2, MultipliedFacts, TakingIsHit
<1>8. CASE StrikeSolid(p, cell) BY <1>8, SolidIsHit
<1>9. CASE StrikeTnt(p, cell) BY <1>9, TntIsHit
<1>10. QED BY <1>2, <1>3, <1>4, <1>5, <1>6, <1>7, <1>8, <1>9 DEF Strike

-----------------------------------------------------------------------------
(***************************************************************************)
(* A move and an explosion ask only for rows that are not thrown away.     *)
(***************************************************************************)
LEMMA LineIsNat == ASSUME Types PROVE prunedAbove \in Nat
  BY DEF Types
LEMMA RowsAreNat == Rows \subseteq Nat
  BY Numbers DEF Rows

LEMMA ReachIsKnown ==
  ASSUME Types, NEW r \in Rows, Behind(0, r)
  PROVE  Known(r)
<1>1. r \in Nat /\ prunedAbove \in Nat BY LineIsNat, RowsAreNat
<1>2. QED BY <1>1 DEF Behind, Known

Walk(p) ==
  /\ turn = p /\ ~picks[p].dead /\ ~blast.on
  /\ \E to \in PickState :
       /\ picks' = [picks EXCEPT ![p] = to] /\ ~to.dead
       /\ to.depth = picks[p].depth /\ to.depth <= to.y + Climb /\ to.y <= LastRow
       /\ Len(to.growT) <= GrowMax
  /\ left' \in 0..Substeps
  /\ sweep' \subseteq Cells
  /\ \A e \in sweep' : InReach(e)
  /\ \A r \in RowsOf(sweep') : r \in Rows /\ Known(r)
  /\ rows' = Asked(RowsOf(sweep'))
  /\ UNCHANGED <<laid, bonus, prunedAbove, run, turn, touchedTop, blast, mined, broken>>

LEMMA MovedIsWalk ==
  ASSUME Types, PlaceInv, NEW p \in Picks, turn = p, ~blast.on, left' \in 0..Substeps,
         NEW pk, Stays(pk, picks[p]), ~pk.dead, Moved(p, pk)
  PROVE  Walk(p)
<1>1. PICK x \in {pk.x - 1, pk.x, pk.x + 1} \cap Columns, y \in (pk.y - 1)..(pk.y + 1) :
        LET to == [pk EXCEPT !.x = x, !.y = y] IN
        /\ y <= LastRow /\ y >= Larger(pk.depth, pk.y) - Climb
        /\ picks' = [picks EXCEPT ![p] = to]
        /\ sweep' = Window(to) /\ rows' = Asked(RowsOf(Window(to)))
        /\ UNCHANGED <<laid, bonus, prunedAbove, run, turn, touchedTop, blast, mined, broken>>
  BY DEF Moved
<1> DEFINE to == [pk EXCEPT !.x = x, !.y = y]
           far == Reach[Len(to.growT)]
<1>2. pk \in PickState /\ pk.y \in Int /\ pk.depth \in Nat /\ Climb \in Nat
  BY Numbers DEF Stays, PickState
<1>3. y \in Int /\ x \in Columns BY <1>2
<1>4. to \in PickState /\ to.y = y /\ to.depth = pk.depth /\ to.growT = pk.growT /\ ~to.dead
  BY <1>2, <1>3 DEF PickState
<1>5. pk.depth <= y + Climb BY <1>1, <1>2, <1>3 DEF Larger
<1>6. Len(to.growT) \in 0..GrowMax
  <2>1. to.growT \in Seq(Int) BY <1>4 DEF PickState
  <2>2. Len(to.growT) \in Nat BY <2>1
  <2>3. QED BY <1>4, <2>2, Numbers DEF Stays
<1>7. far \in Nat BY <1>6, EngineAssumption
<1>8. \A k \in {ChainRadius, RayReach} : Climb + far + Chain + k <= Margin
  BY <1>6, MarginAssumption
<1>9. Behind(Margin, pk.depth) BY <1>2 DEF PlaceInv, Digging, Stays
<1>10. sweep' = {e \in Cells : /\ e[1] \in (y - far)..(y + far)
                               /\ e[2] \in (to.x - far)..(to.x + far)}
  <2>1. sweep' = Near(<<y, to.x>>, far) BY <1>1, <1>4 DEF Window
  <2> HIDE DEF far, to
  <2>2. QED BY <2>1 DEF Near
<1>11. sweep' \subseteq Cells /\ \A e \in sweep' : e[1] \in (y - far)..(y + far)
  <2> HIDE DEF far, to
  <2> QED BY <1>10
<1>12. ASSUME NEW e \in sweep' PROVE InReach(e) /\ e[1] \in Rows /\ Known(e[1])
  <2>1. e \in Cells /\ e[1] \in Rows BY <1>11 DEF Cells
  <2>2. e[1] \in Nat /\ prunedAbove \in Nat BY <2>1, LineIsNat, RowsAreNat
  <2> HIDE DEF far
  <2>3. e[1] >= y - far BY <1>3, <1>7, <1>11, <2>2
  <2>4. ASSUME NEW k \in {ChainRadius, RayReach} PROVE Behind(Chain + k, e[1])
    <3>1. k \in Nat /\ Chain \in Nat /\ Margin \in Nat BY Numbers
    <3>2. Climb + far + Chain + k <= Margin BY <1>8
    <3>3. prunedAbove = 0 \/ prunedAbove + Margin <= pk.depth BY <1>9 DEF Behind
    <3>4. prunedAbove = 0 \/ prunedAbove + (Chain + k) <= e[1]
      BY <1>2, <1>3, <1>5, <1>7, <2>2, <2>3, <3>1, <3>2, <3>3
    <3>5. QED BY <3>4 DEF Behind
  <2>5. Behind(0, e[1])
    <3>1. Behind(Chain + RayReach, e[1]) BY <2>4
    <3>2. QED BY <2>2, <3>1, Numbers DEF Behind
  <2>6. QED BY <2>1, <2>4, <2>5, ReachIsKnown DEF InReach
<1>13. \A r \in RowsOf(sweep') : r \in Rows /\ Known(r) BY <1>12 DEF RowsOf
<1>14. picks' = [picks EXCEPT ![p] = to] /\ rows' = Asked(RowsOf(sweep'))
       /\ UNCHANGED <<laid, bonus, prunedAbove, run, turn, touchedTop, blast, mined, broken>>
  BY <1>1
<1>15. \E t \in PickState :
         /\ picks' = [picks EXCEPT ![p] = t] /\ ~t.dead
         /\ t.depth = picks[p].depth /\ t.depth <= t.y + Climb /\ t.y <= LastRow
         /\ Len(t.growT) <= GrowMax
  <2>1. y <= LastRow /\ pk.depth = picks[p].depth /\ Len(pk.growT) <= GrowMax
    BY <1>1 DEF Stays
  <2> HIDE DEF to
  <2>2. QED BY <1>4, <1>5, <1>14, <2>1
<1>16. ~picks[p].dead BY DEF Stays
<1>17. QED BY <1>11, <1>12, <1>13, <1>14, <1>15, <1>16 DEF Walk

LEMMA WalkOfSteps ==
  ASSUME Types, PlaceInv, NEW p \in Picks, StepPick(p) \/ Substep(p)
  PROVE  Walk(p)
<1>1. picks[p] \in PickState /\ Len(picks[p].growT) <= GrowMax BY DEF Types
<1>2. Substeps \in Nat \ {0} BY Numbers
<1>3. CASE StepPick(p)
  <2> DEFINE growT == Ticked(picks[p].growT)
             lastHit == Recent(picks[p].lastHit)
             pk == [picks[p] EXCEPT !.growT = growT, !.lastHit = lastHit]
  <2>1. turn = p /\ left = -1 /\ left' \in 0..Substeps BY <1>2, <1>3 DEF StepPick
  <2>2. ~picks[p].dead /\ ~blast.on BY <2>1 DEF PlaceInv
  <2>3. Moved(p, [picks[p] EXCEPT !.growT = Ticked(@), !.lastHit = Recent(@)])
    BY <1>3 DEF StepPick
  <2>4. Moved(p, pk) BY <2>3
  <2>5. picks[p].growT \in Seq(Int) BY <1>1 DEF PickState
  <2>6. growT \in Seq(Int) /\ Len(growT) <= Len(picks[p].growT) BY <2>5, TickedShrinks
  <2>7. Len(growT) \in Nat /\ Len(picks[p].growT) \in Nat BY <2>5, <2>6
  <2>8. Len(growT) <= GrowMax BY <1>1, <2>6, <2>7, Numbers
  <2>9. lastHit \in SUBSET [cell : Cells, at : Nat] BY <1>1 DEF PickState, Recent
  <2> HIDE DEF growT, lastHit
  <2>10. Stays(pk, picks[p]) /\ ~pk.dead BY <1>1, <2>2, <2>6, <2>8, <2>9 DEF Stays, PickState
  <2> HIDE DEF pk
  <2>11. QED BY <2>1, <2>2, <2>4, <2>10, MovedIsWalk
<1>4. CASE Substep(p)
  <2>1. turn = p /\ left > 0 /\ left' = left - 1 /\ ~blast.on /\ ~picks[p].dead
        /\ Moved(p, picks[p])
    BY <1>4 DEF Substep
  <2>2. left' \in 0..Substeps BY <1>2, <2>1 DEF Types
  <2>3. Stays(picks[p], picks[p]) BY <1>1 DEF Stays
  <2>4. QED BY <2>1, <2>2, <2>3, MovedIsWalk
<1>5. QED BY <1>3, <1>4

Blow(p, at, hit, seen) ==
  /\ turn = p /\ blast.on /\ at \in blast.queue /\ hit \subseteq Cells /\ IsFiniteSet(hit)
  /\ seen \subseteq Rows /\ (\A r \in seen : Known(r)) /\ RowsOf(hit) \subseteq seen
  /\ rows' = PutAll(Asked(seen), hit) /\ mined' = PutAll(mined, hit)
  /\ broken' = broken \cup hit
  /\ \A e \in hit : ~IsAir(e) /\ e \in Near(at, ChainRadius) \cup Near(at, RayReach)
  /\ \A e \in Near(at, ChainRadius) :
       e \in hit \/ e \in blast.cleared \/ AtCell(mined, e).id # "tnt"
  /\ run' \in RunState /\ run'.over = run.over /\ run'.blocks = run.blocks + Cardinality(hit)
  /\ blast' \in BlastState /\ blast'.on /\ blast'.at = blast.at
  /\ blast'.queue \subseteq blast.queue \cup {e \in hit : AtCell(mined, e).id = "tnt"}
  /\ blast'.spent = blast.spent \cup {at} /\ blast'.cleared = blast.cleared \cup hit
  /\ UNCHANGED <<laid, bonus, prunedAbove, picks, turn, left, sweep, touchedTop>>

(* A chain stays within Chain rows above the stick that was struck.        *)
LEMMA ChainRows ==
  ASSUME Types, PlaceInv, blast.on, NEW e \in blast.queue \cup blast.spent
  PROVE  e[1] + Chain >= blast.at[1]
<1>1. PICK S \in ChainsFrom(blast.at, laid) : blast.queue \cup blast.spent \subseteq S
  BY DEF PlaceInv
<1>2. e \in Cells /\ blast.at \in Cells BY DEF Types, BlastState
<1>3. e[1] \in Nat /\ blast.at[1] \in Nat /\ Chain \in Nat BY <1>2, RowsAreNat, Numbers DEF Cells
<1>4. e[1] >= blast.at[1] - Chain BY <1>1 DEF ChainsFrom
<1>5. QED BY <1>3, <1>4

LEMMA ExplodeIsBlow ==
  ASSUME Types, CacheInv, PlaceInv, NEW p \in Picks, Explode(p)
  PROVE  \E at \in Cells, hit \in SUBSET Cells, seen \in SUBSET Rows : Blow(p, at, hit, seen)
<1>1. PICK at \in blast.queue : \E hit \in Caught(at), flown \in Flown(at) :
        LET seen == RowsOf(Near(at, ChainRadius) \cup hit) \cup flown
            lit == {e \in hit : CellAt(e).id = "tnt"}
        IN /\ rows' = PutAll(Asked(seen), hit)
           /\ mined' = PutAll(mined, hit)
           /\ broken' = broken \cup hit
           /\ run' = [run EXCEPT !.blocks = @ + Cardinality(hit)]
           /\ blast' = [blast EXCEPT !.queue = (@ \ {at}) \cup lit, !.spent = @ \cup {at},
                                     !.cleared = @ \cup hit, !.chainLen = @ + 1,
                                     !.got = @ + Worth(picks[p], SumOf(hit))]
  BY DEF Explode
<1>2. PICK hit \in Caught(at), flown \in Flown(at) :
        LET seen == RowsOf(Near(at, ChainRadius) \cup hit) \cup flown
            lit == {e \in hit : CellAt(e).id = "tnt"}
        IN /\ rows' = PutAll(Asked(seen), hit)
           /\ mined' = PutAll(mined, hit)
           /\ broken' = broken \cup hit
           /\ run' = [run EXCEPT !.blocks = @ + Cardinality(hit)]
           /\ blast' = [blast EXCEPT !.queue = (@ \ {at}) \cup lit, !.spent = @ \cup {at},
                                     !.cleared = @ \cup hit, !.chainLen = @ + 1,
                                     !.got = @ + Worth(picks[p], SumOf(hit))]
  BY <1>1
<1> DEFINE seen == RowsOf(Near(at, ChainRadius) \cup hit) \cup flown
           lit == {e \in hit : CellAt(e).id = "tnt"}
<1>3. /\ turn = p /\ blast.on
      /\ UNCHANGED <<laid, bonus, prunedAbove, picks, turn, left, sweep, touchedTop>>
  BY DEF Explode
<1>4. run \in RunState /\ blast \in BlastState BY DEF Types
<1>5. at \in Cells /\ blast.at \in Cells /\ at[1] \in Rows /\ blast.at[1] \in Rows
  BY <1>4 DEF BlastState, Cells
<1>6. at[1] \in Nat /\ blast.at[1] \in Nat /\ prunedAbove \in Nat
      /\ ChainRadius \in Nat /\ RayReach \in Nat /\ Chain \in Nat
  BY <1>5, RowsAreNat, LineIsNat, Numbers
<1>7. InReach(blast.at) /\ at[1] + Chain >= blast.at[1] BY <1>3, ChainRows DEF PlaceInv
(* The rows behind an epicentre, as far as dynamite and rays go.           *)
<1>8. ASSUME NEW r \in Rows, r >= at[1] - ChainRadius \/ r >= at[1] - RayReach
      PROVE  Known(r)
  <2>1. r \in Nat BY RowsAreNat
  <2>2. /\ prunedAbove = 0 \/ prunedAbove + (Chain + ChainRadius) <= blast.at[1]
        /\ prunedAbove = 0 \/ prunedAbove + (Chain + RayReach) <= blast.at[1]
    BY <1>7 DEF InReach, Behind
  <2>3. prunedAbove <= r BY <1>6, <1>7, <1>8, <2>1, <2>2
  <2>4. QED BY <1>6, <2>1, <2>3 DEF Known
<1>9. /\ \A e \in Near(at, ChainRadius) : e \in Cells /\ e[1] \in Rows /\ Known(e[1])
      /\ \A e \in Near(at, RayReach) : e \in Cells /\ e[1] \in Rows /\ Known(e[1])
  <2>1. ASSUME NEW n \in {ChainRadius, RayReach}, NEW e \in Near(at, n)
        PROVE  e \in Cells /\ e[1] \in Rows /\ Known(e[1])
    <3>1. e \in Cells /\ e[1] \in (at[1] - n)..(at[1] + n) BY <2>1 DEF Near
    <3>2. e[1] \in Rows BY <3>1 DEF Cells
    <3>3. e[1] >= at[1] - n BY <1>6, <3>1
    <3>4. QED BY <1>8, <2>1, <3>1, <3>2, <3>3
  <2>2. QED BY <2>1
<1>10. /\ hit \subseteq Fuses(at, RayReach) \cup Fuses(at, ChainRadius) \cup Soft(at)
       /\ Fuses(at, ChainRadius) \subseteq hit
  BY DEF Caught
<1>11. ASSUME NEW e \in hit
       PROVE  /\ e \in Near(at, ChainRadius) \/ e \in Near(at, RayReach)
              /\ InBlast(e) /\ CellAt(e).id # "air"
  BY <1>10 DEF Fuses, Soft
<1>12. ASSUME NEW e \in hit
       PROVE  /\ e \in Cells /\ e[1] \in Rows /\ Known(e[1])
              /\ ~IsAir(e) /\ e \in Near(at, ChainRadius) \cup Near(at, RayReach)
              /\ CellAt(e) = AtCell(mined, e)
  <2>1. e \in Cells /\ e[1] \in Rows /\ Known(e[1]) BY <1>9, <1>11
  <2>2. CellAt(e) = mined[e[1]][e[2]] BY <2>1, CellFacts
  <2>3. QED BY <1>11, <2>1, <2>2 DEF IsAir, AtCell
<1>13. hit \in SUBSET Cells /\ IsFiniteSet(hit) BY <1>12, CellsAreFinite, FS_Subset
<1>14. ASSUME NEW r \in seen PROVE r \in Rows /\ Known(r)
  <2>1. CASE r \in RowsOf(Near(at, ChainRadius) \cup hit)
    <3>1. PICK e \in Near(at, ChainRadius) \cup hit : r = e[1] BY <2>1 DEF RowsOf
    <3>2. QED BY <1>9, <1>12, <3>1
  <2>2. CASE r \in flown
    <3>1. PICK n \in 0..RayReach, k \in 0..RayReach : flown = Rows \cap (at[1] - n)..(at[1] + k)
      BY DEF Flown
    <3>2. r \in Rows /\ r \in (at[1] - n)..(at[1] + k) BY <2>2, <3>1
    <3>3. r >= at[1] - RayReach BY <1>6, <3>2
    <3>4. QED BY <1>8, <3>2, <3>3
  <2>3. QED BY <2>1, <2>2
<1>15. RowsOf(hit) \subseteq seen BY DEF RowsOf
<1>16. ASSUME NEW e \in Near(at, ChainRadius)
       PROVE  e \in hit \/ e \in blast.cleared \/ AtCell(mined, e).id # "tnt"
  <2>1. CellAt(e) = AtCell(mined, e) BY <1>9, CellFacts DEF AtCell
  <2>2. CASE e \notin blast.cleared /\ CellAt(e).id = "tnt"
    <3>1. e \in Fuses(at, ChainRadius) BY <1>16, <2>2 DEF Fuses, InBlast
    <3>2. QED BY <1>10, <3>1
  <2>3. QED BY <2>1, <2>2
<1>17. Cardinality(hit) \in Nat BY <1>13, FS_CardinalityType
<1>18. run' \in RunState /\ run'.over = run.over /\ run'.blocks = run.blocks + Cardinality(hit)
  <2> DEFINE n == run.blocks + Cardinality(hit)
  <2>1. n \in Nat BY <1>4, <1>17 DEF RunState
  <2>2. run' = [run EXCEPT !.blocks = n] BY <1>2
  <2> HIDE DEF n
  <2>3. run' \in RunState /\ run'.over = run.over /\ run'.blocks = n BY <1>4, <2>1, <2>2 DEF RunState
  <2>4. QED BY <2>3 DEF n
<1>19. Worth(picks[p], SumOf(hit)) \in Nat
  <2> DEFINE ore == {e \in hit : CellAt(e).id = "ore"}
  <2>1. IsFiniteSet(ore) BY <1>13, FS_Subset
  <2>2. Cardinality(ore) \in Nat BY <2>1, FS_CardinalityType
  <2>3. OreValue \in Nat BY Numbers
  <2>4. SumOf(hit) = OreValue * Cardinality(ore) BY DEF SumOf
  <2> HIDE DEF ore
  <2>5. SumOf(hit) \in Nat BY <2>2, <2>3, <2>4, Products
  <2>6. QED BY <2>5, WorthIsNat
<1>20. /\ blast' \in BlastState /\ blast'.on /\ blast'.at = blast.at
       /\ blast'.queue \subseteq blast.queue \cup {e \in hit : AtCell(mined, e).id = "tnt"}
       /\ blast'.spent = blast.spent \cup {at} /\ blast'.cleared = blast.cleared \cup hit
  <2> DEFINE queue == (blast.queue \ {at}) \cup lit
             spent == blast.spent \cup {at}
             cleared == blast.cleared \cup hit
             chainLen == blast.chainLen + 1
             got == blast.got + Worth(picks[p], SumOf(hit))
  <2>1. blast' = [blast EXCEPT !.queue = queue, !.spent = spent, !.cleared = cleared,
                               !.chainLen = chainLen, !.got = got]
    BY <1>2
  <2>0. lit \subseteq {e \in hit : AtCell(mined, e).id = "tnt"} BY <1>12
  <2>2. /\ queue \in SUBSET Cells
        /\ queue \subseteq blast.queue \cup {e \in hit : AtCell(mined, e).id = "tnt"}
        /\ spent \in SUBSET Cells /\ cleared \in SUBSET Cells
    BY <1>4, <1>5, <1>13, <2>0 DEF BlastState
  <2>3. chainLen \in Nat /\ got \in Nat BY <1>4, <1>19 DEF BlastState
  <2>4. spent = blast.spent \cup {at} /\ cleared = blast.cleared \cup hit OBVIOUS
  <2> HIDE DEF queue, spent, cleared, chainLen, got
  <2>5. QED BY <1>3, <1>4, <2>1, <2>2, <2>3, <2>4 DEF BlastState
<1>21. /\ rows' = PutAll(Asked(seen), hit) /\ mined' = PutAll(mined, hit)
       /\ broken' = broken \cup hit
  BY <1>2
<1> HIDE DEF seen, lit
<1>22. seen \in SUBSET Rows BY <1>14
<1>23. Blow(p, at, hit, seen)
  BY <1>3, <1>12, <1>13, <1>14, <1>15, <1>16, <1>18, <1>20, <1>21, <1>22 DEF Blow
<1>24. QED BY <1>5, <1>13, <1>22, <1>23

-----------------------------------------------------------------------------
(***************************************************************************)
(* The kinds of steps.                                                     *)
(***************************************************************************)
LEMMA StepKinds ==
  ASSUME Types, CacheInv, PlaceInv, [Next]_vars
  PROVE  \/ UNCHANGED vars
         \/ BeginTick \/ EndTick \/ Draw
         \/ \E p \in Picks : \/ Walk(p) \/ EndStep(p) \/ EndBlast(p)
                             \/ \E cell \in sweep : Hit(p, cell)
                             \/ \E at \in Cells, hit \in SUBSET Cells, seen \in SUBSET Rows :
                                  Blow(p, at, hit, seen)
<1>1. CASE BeginTick \/ EndTick \/ Draw \/ UNCHANGED vars BY <1>1
<1>2. ASSUME NEW p \in Picks, StepPick(p) \/ Substep(p) PROVE Walk(p) BY <1>2, WalkOfSteps
<1>3. ASSUME NEW p \in Picks, NEW cell \in sweep, Strike(p, cell) PROVE Hit(p, cell)
  BY <1>3, StrikeIsHit
<1>4. ASSUME NEW p \in Picks, Explode(p)
      PROVE  \E at \in Cells, hit \in SUBSET Cells, seen \in SUBSET Rows : Blow(p, at, hit, seen)
  BY <1>4, ExplodeIsBlow
<1>5. QED BY <1>1, <1>2, <1>3, <1>4 DEF Next

LEMMA ElapsedFacts ==
  ASSUME Types, BeginTick
  PROVE  run' \in RunState /\ run'.over = run.over /\ run'.blocks = run.blocks
<1> DEFINE n == run.time + 1
           rn == [run EXCEPT !.time = n]
           t == rn.multWindowT - 1
<1>1. run \in RunState BY DEF Types
<1>2. n \in Nat /\ run' = Elapsed(rn) BY <1>1 DEF BeginTick, RunState
<1> HIDE DEF n
<1>3. rn \in RunState /\ rn.over = run.over /\ rn.blocks = run.blocks BY <1>1, <1>2 DEF RunState
<1>4. CASE bonus \/ rn.multWindowT = 0 BY <1>2, <1>3, <1>4 DEF Elapsed
<1>5. CASE ~ (bonus \/ rn.multWindowT = 0)
  <2> DEFINE m == IF t = 0 THEN 1 ELSE rn.multActive
  <2>1. t \in 0..MultWindow /\ m \in Nat \ {0} BY <1>3, <1>5, Numbers DEF RunState
  <2>2. run' = [rn EXCEPT !.multWindowT = t, !.multActive = m] BY <1>2, <1>5 DEF Elapsed
  <2> HIDE DEF rn, t, m
  <2>3. QED BY <1>3, <2>1, <2>2 DEF RunState
<1>6. QED BY <1>4, <1>5

LEMMA EndTickFacts ==
  ASSUME Types, EndTick
  PROVE  /\ run' \in RunState /\ (run.over => run'.over) /\ run'.blocks = run.blocks
         /\ (\A p \in Picks : picks[p].dead) => run'.over
         /\ prunedAbove' \in Nat /\ prunedAbove <= prunedAbove'
         /\ \/ prunedAbove' = prunedAbove \/ prunedAbove' = 0
            \/ prunedAbove' = touchedTop - Margin /\ touchedTop <= LastRow
         /\ rows' = [r \in {k \in DOMAIN rows : k >= prunedAbove'} |-> rows[r]]
<1> DEFINE due == run.pruneIn = 1
           n == IF due THEN PruneEvery ELSE run.pruneIn - 1
           new == IF due /\ touchedTop <= LastRow THEN PruneLine ELSE 0
<1>1. run \in RunState /\ touchedTop \in Int /\ prunedAbove \in Nat BY DEF Types
<1>2. n \in 1..PruneEvery BY <1>1, Numbers DEF RunState
<1>3. Ended \in RunState /\ Ended.pruneIn = run.pruneIn /\ (run.over => Ended.over)
      /\ Ended.blocks = run.blocks /\ ((\A p \in Picks : picks[p].dead) => Ended.over)
  BY <1>1 DEF Ended, Finish, RunState
<1>4. run' = [Ended EXCEPT !.pruneIn = n] BY <1>3 DEF EndTick
<1>5. prunedAbove' = Larger(prunedAbove, new)
      /\ rows' = [r \in {k \in DOMAIN rows : k >= prunedAbove'} |-> rows[r]]
  BY DEF EndTick
<1>6. /\ new \in Int
      /\ \/ new = 0
         \/ new = touchedTop - Margin /\ touchedTop <= LastRow
  <2>1. PruneLine = touchedTop - Margin /\ PruneLine \in Int BY <1>1, Numbers DEF PruneLine
  <2> HIDE DEF due
  <2>2. QED BY <2>1
<1> HIDE DEF n, new
<1>7. run' \in RunState /\ run'.over = Ended.over /\ run'.blocks = run.blocks
  BY <1>2, <1>3, <1>4 DEF RunState
<1>8. QED BY <1>1, <1>3, <1>5, <1>6, <1>7 DEF Larger

LEMMA EndStepFacts ==
  ASSUME Types, NEW p \in Picks, EndStep(p)
  PROVE  /\ \E pk \in PickState :
              /\ picks' = [picks EXCEPT ![p] = pk]
              /\ pk = [picks[p] EXCEPT !.depth = Larger(picks[p].depth, picks[p].y)]
              /\ pk.depth >= picks[p].depth /\ pk.depth >= picks[p].y
              /\ pk.depth = picks[p].depth \/ pk.depth = picks[p].y
              /\ pk.y = picks[p].y /\ pk.dead = picks[p].dead /\ pk.growT = picks[p].growT
         /\ touchedTop' \in Int /\ touchedTop' <= touchedTop /\ touchedTop' <= picks[p].y
         /\ touchedTop' = touchedTop \/ touchedTop' = picks[p].y
<1> DEFINE d == Larger(picks[p].depth, picks[p].y)
<1>1. picks[p] \in PickState /\ picks \in [Picks -> PickState] BY DEF Types
<1>2. picks[p].depth \in Nat /\ picks[p].y \in Int BY <1>1 DEF PickState
<1>3. d \in Nat /\ d >= picks[p].depth /\ d >= picks[p].y /\ (d = picks[p].depth \/ d = picks[p].y)
  BY <1>2 DEF Larger
<1>4. picks' = [picks EXCEPT ![p] = [picks[p] EXCEPT !.depth = d]] BY <1>1 DEF EndStep
<1>5. touchedTop' = Smaller(touchedTop, picks[p].y) /\ touchedTop \in Int BY DEF EndStep, Types
<1> DEFINE pk == [picks[p] EXCEPT !.depth = d]
<1>6. /\ pk \in PickState /\ picks' = [picks EXCEPT ![p] = pk]
      /\ pk = [picks[p] EXCEPT !.depth = Larger(picks[p].depth, picks[p].y)]
  BY <1>1, <1>3, <1>4 DEF PickState
<1>7. pk.depth = d /\ pk.y = picks[p].y /\ pk.dead = picks[p].dead /\ pk.growT = picks[p].growT
  BY <1>1 DEF PickState
<1> HIDE DEF d, pk
<1>8. /\ touchedTop' \in Int /\ touchedTop' <= touchedTop /\ touchedTop' <= picks[p].y
      /\ touchedTop' = touchedTop \/ touchedTop' = picks[p].y
  BY <1>2, <1>5 DEF Smaller
<1>9. QED BY <1>3, <1>6, <1>7, <1>8

LEMMA EndBlastFacts ==
  ASSUME Types, NEW p \in Picks, EndBlast(p)
  PROVE  /\ \E pk \in PickState :
              /\ picks' = [picks EXCEPT ![p] = pk]
              /\ pk.y = picks[p].y /\ pk.depth = picks[p].depth /\ pk.growT = picks[p].growT
         /\ run' \in RunState /\ (run.over => run'.over) /\ run'.blocks = run.blocks
         /\ blast' = NoBlast
<1> DEFINE sum == run.collected + blast.got * ChainBonus(blast.chainLen)
           rn == [run EXCEPT !.collected = sum]
<1>1. picks[p] \in PickState /\ picks \in [Picks -> PickState] /\ run \in RunState
      /\ blast \in BlastState
  BY DEF Types
<1>2. CheckDead(picks[p]) \in PickState /\ CheckDead(picks[p]).y = picks[p].y
      /\ CheckDead(picks[p]).depth = picks[p].depth /\ CheckDead(picks[p]).growT = picks[p].growT
  BY <1>1, CheckedPick
<1>3. picks' = [picks EXCEPT ![p] = CheckDead(picks[p])] BY <1>1 DEF EndBlast
<1>4. sum \in Nat
  <2>1. ChainBonus(blast.chainLen) \in Nat BY DEF ChainBonus
  <2>2. blast.got * ChainBonus(blast.chainLen) \in Nat BY <1>1, <2>1, Products DEF BlastState
  <2>3. QED BY <1>1, <2>2 DEF RunState
<1>5. run' = CheckHits(rn) BY DEF EndBlast
<1> HIDE DEF sum
<1>6. rn \in RunState /\ rn.over = run.over /\ rn.blocks = run.blocks BY <1>1, <1>4 DEF RunState
<1> HIDE DEF rn
<1>7. run' \in RunState /\ (run.over => run'.over) /\ run'.blocks = run.blocks
  BY <1>5, <1>6 DEF CheckHits, Finish, RunState
<1>8. blast' = NoBlast BY DEF EndBlast
<1>9. QED BY <1>2, <1>3, <1>7, <1>8

-----------------------------------------------------------------------------
(***************************************************************************)
(* The invariants, kind of step by kind of step.                           *)
(***************************************************************************)
LEMMA DrawAsks ==
  ASSUME Types, CacheInv, Draw
  PROVE  CacheInv' /\ GridTypes'
<1> DEFINE asked == UNION {Peek(r) : r \in OnScreen}
<1>1. rows' = Asked(asked) /\ UNCHANGED <<laid, mined, prunedAbove>> BY DEF Draw
<1>2. asked \in SUBSET Rows /\ \A r \in asked : Known(r) BY DEF Peek, OnScreen, Known
<1> HIDE DEF asked
<1>3. QED BY <1>1, <1>2, AskingKeepsCache

LEMMA HitKeepsCache ==
  ASSUME Types, CacheInv, PlaceInv, NEW p \in Picks, NEW cell \in sweep, Hit(p, cell)
  PROVE  CacheInv' /\ GridTypes' /\ DOMAIN rows' = DOMAIN rows
<1>1. cell \in Cells /\ cell[1] \in DOMAIN rows BY DEF Types, PlaceInv
<1>2. UNCHANGED <<laid, prunedAbove>> BY DEF Hit
<1>3. CASE Digs(cell)
  <2>1. rows' = Put(rows, cell, Air) /\ mined' = Put(mined, cell, Air) BY <1>3 DEF Digs
  <2>2. Air.id # "mult" BY AirIsCell
  <2>3. QED BY <1>1, <1>2, <2>1, <2>2, AirIsCell, StrikingKeepsCache
<1>4. CASE Cracks(cell)
  <2>1. PICK block \in Cell : /\ block.id \in {"stone", "ore"}
                              /\ rows' = Put(rows, cell, block) /\ mined' = Put(mined, cell, block)
    BY <1>4 DEF Cracks
  <2>2. block.id # "mult" BY <2>1
  <2>3. QED BY <1>1, <1>2, <2>1, <2>2, StrikingKeepsCache
<1>5. CASE Bounces
  <2>1. UNCHANGED <<rows, mined, laid, prunedAbove>> BY <1>2, <1>5 DEF Bounces
  <2>2. QED BY <2>1 DEF CacheInv, GridTypes, Types, Row, Known, Worthy
<1>6. QED BY <1>3, <1>4, <1>5 DEF Hit

LEMMA CacheStep ==
  ASSUME Types, CacheInv, PlaceInv, [Next]_vars
  PROVE  CacheInv' /\ GridTypes'
<1>1. ASSUME UNCHANGED <<rows, mined, laid, prunedAbove>> PROVE CacheInv' /\ GridTypes'
  BY <1>1 DEF CacheInv, GridTypes, Types, Row, Known, Worthy
<1>2. CASE UNCHANGED vars \/ BeginTick BY <1>1, <1>2 DEF vars, BeginTick
<1>3. CASE EndTick
  <2>1. UNCHANGED <<laid, mined>> BY <1>3 DEF EndTick
  <2>2. QED BY <1>3, <2>1, EndTickFacts, PruningKeepsCache
<1>4. CASE Draw BY <1>4, DrawAsks
<1>5. ASSUME NEW p \in Picks, EndStep(p) \/ EndBlast(p) PROVE CacheInv' /\ GridTypes'
  BY <1>1, <1>5 DEF EndStep, EndBlast
<1>6. ASSUME NEW p \in Picks, Walk(p) PROVE CacheInv' /\ GridTypes'
  <2>1. RowsOf(sweep') \in SUBSET Rows /\ \A r \in RowsOf(sweep') : Known(r) BY <1>6 DEF Walk
  <2>2. rows' = Asked(RowsOf(sweep')) /\ UNCHANGED <<laid, mined, prunedAbove>> BY <1>6 DEF Walk
  <2>3. QED BY <2>1, <2>2, AskingKeepsCache
<1>7. ASSUME NEW p \in Picks, NEW cell \in sweep, Hit(p, cell) PROVE CacheInv' /\ GridTypes'
  BY <1>7, HitKeepsCache
<1>8. ASSUME NEW p \in Picks, NEW at \in Cells, NEW hit \in SUBSET Cells, NEW seen \in SUBSET Rows,
             Blow(p, at, hit, seen)
      PROVE  CacheInv' /\ GridTypes'
  BY <1>8, BlastingKeepsCache DEF Blow
<1>9. QED BY <1>2, <1>3, <1>4, <1>5, <1>6, <1>7, <1>8, StepKinds

(* Types of the rest, once those of the mine are known.                    *)
LEMMA TypesStep ==
  ASSUME Types, CacheInv, PlaceInv, [Next]_vars
  PROVE  Types'
<1>1. GridTypes' BY CacheStep
<1>2. /\ laid \in Mines /\ bonus \in BOOLEAN /\ prunedAbove \in Nat
      /\ picks \in [Picks -> PickState] /\ run \in RunState /\ blast \in BlastState
      /\ \A p \in Picks : Len(picks[p].growT) <= GrowMax /\ picks[p].y <= LastRow
      /\ turn \in 0..(NPicks + 1) /\ left \in -1..Substeps /\ sweep \subseteq Cells
      /\ touchedTop \in Int /\ touchedTop <= LastRow + 1
      /\ broken \subseteq Cells
  BY DEF Types
<1>3. /\ LastRow \in Nat /\ NPicks \in Nat \ {0} /\ Substeps \in Nat \ {0}
      /\ LastRow + 1 \in Int /\ LastRow + 1 <= LastRow + 1
      /\ 0 \in 0..(NPicks + 1) /\ 0 \in -1..Substeps /\ -1 \in -1..Substeps
  BY Numbers
<1>4. CASE UNCHANGED vars BY <1>1, <1>2, <1>4 DEF Types, vars
<1>5. CASE BeginTick
  <2>1. run' \in RunState BY <1>5, ElapsedFacts
  <2>2. turn' \in 0..(NPicks + 1)
    <3>1. NextAlive(0, run) \in 1..(NPicks + 1) BY <1>2, <1>3, NextIsAlive
    <3>2. QED BY <1>3, <1>5, <3>1 DEF BeginTick
  <2>3. QED BY <1>1, <1>2, <1>3, <1>5, <2>1, <2>2 DEF Types, BeginTick
<1>6. CASE EndTick
  <2>1. run' \in RunState /\ prunedAbove' \in Nat BY <1>6, EndTickFacts
  <2>2. QED BY <1>1, <1>2, <1>3, <1>6, <2>1 DEF Types, EndTick
<1>7. CASE Draw BY <1>1, <1>2, <1>7 DEF Types, Draw
<1>8. ASSUME NEW p \in Picks, Walk(p) PROVE Types'
  <2>1. /\ picks' \in [Picks -> PickState]
        /\ \A q \in Picks : Len(picks'[q].growT) <= GrowMax /\ picks'[q].y <= LastRow
    BY <1>2, <1>8 DEF Walk
  <2>2. left' \in -1..Substeps /\ sweep' \subseteq Cells BY <1>3, <1>8 DEF Walk
  <2>3. QED BY <1>1, <1>2, <1>8, <2>1, <2>2 DEF Types, Walk
<1>9. ASSUME NEW p \in Picks, EndStep(p) PROVE Types'
  <2>1. /\ picks' \in [Picks -> PickState]
        /\ \A q \in Picks : Len(picks'[q].growT) <= GrowMax /\ picks'[q].y <= LastRow
    BY <1>2, <1>9, EndStepFacts
  <2>2. touchedTop' \in Int /\ touchedTop' <= LastRow + 1 BY <1>2, <1>3, <1>9, EndStepFacts
  <2>3. turn' \in 0..(NPicks + 1)
    <3>1. p \in 0..NPicks BY <1>3 DEF Picks
    <3>2. NextAlive(p, run) \in (p + 1)..(NPicks + 1) BY <1>2, <3>1, NextIsAlive
    <3>3. turn' = NextAlive(p, run) BY <1>9 DEF EndStep
    <3>4. QED BY <1>3, <3>1, <3>2, <3>3
  <2>4. QED BY <1>1, <1>2, <1>3, <1>9, <2>1, <2>2, <2>3 DEF Types, EndStep
<1>10. ASSUME NEW p \in Picks, EndBlast(p) PROVE Types'
  <2>1. /\ picks' \in [Picks -> PickState]
        /\ \A q \in Picks : Len(picks'[q].growT) <= GrowMax /\ picks'[q].y <= LastRow
    BY <1>2, <1>10, EndBlastFacts
  <2>2. run' \in RunState /\ blast' \in BlastState
    <3>1. NoBlast \in BlastState BY FirstCell DEF NoBlast, BlastState
    <3>2. QED BY <1>10, <3>1, EndBlastFacts
  <2>3. QED BY <1>1, <1>2, <1>10, <2>1, <2>2 DEF Types, EndBlast
<1>11. ASSUME NEW p \in Picks, NEW cell \in sweep, Hit(p, cell) PROVE Types'
  <2>1. /\ picks' \in [Picks -> PickState]
        /\ \A q \in Picks : Len(picks'[q].growT) <= GrowMax /\ picks'[q].y <= LastRow
    BY <1>2, <1>11 DEF Hit
  <2>2. blast' \in BlastState
    <3>1. cell \in Cells BY <1>2
    <3>2. Lit(cell) \in BlastState BY <3>1, FirstCell DEF Lit, NoBlast, BlastState
    <3>3. QED BY <1>2, <1>11, <3>2 DEF Hit
  <2>3. broken' \subseteq Cells BY <1>2, <1>11 DEF Hit, Digs, Cracks, Bounces
  <2>4. QED BY <1>1, <1>2, <1>11, <2>1, <2>2, <2>3 DEF Types, Hit
<1>12. ASSUME NEW p \in Picks, NEW at \in Cells, NEW hit \in SUBSET Cells, NEW seen \in SUBSET Rows,
              Blow(p, at, hit, seen)
       PROVE  Types'
  BY <1>1, <1>2, <1>12 DEF Types, Blow
<1>13. QED BY <1>4, <1>5, <1>6, <1>7, <1>8, <1>9, <1>10, <1>11, <1>12, StepKinds

LEMMA BehindDeeper ==
  ASSUME Types, NEW n \in Nat, NEW i \in Int, NEW j \in Int, i <= j, Behind(n, i)
  PROVE  Behind(n, j)
  BY LineIsNat DEF Behind

(* The dynamite that is left was laid, so a stick that is struck starts a  *)
(* chain that ChainAssumption knows, and one that a chain lights is of it. *)
LEMMA ChainStarts ==
  ASSUME Types, LaidInv, NEW cell \in Cells, AtCell(mined, cell).id = "tnt"
  PROVE  \E S \in ChainsFrom(cell, laid) : cell \in S
<1>1. cell \in Dynamite(laid) BY DEF LaidInv, Dynamite, AtCell
<1>2. laid \in Mines BY DEF Types
<1>3. ChainsFrom(cell, laid) # {} BY <1>1, <1>2, ChainAssumption
<1>4. QED BY <1>3 DEF ChainsFrom

LEMMA ChainGoesOn ==
  ASSUME LaidInv, NEW at \in Cells, NEW S \in ChainsFrom(blast.at, laid), at \in S,
         NEW e \in Cells, AtCell(mined, e).id = "tnt",
         e \in Near(at, ChainRadius) \cup Near(at, RayReach)
  PROVE  e \in S
<1>1. e \in Dynamite(laid) BY DEF LaidInv, Dynamite, AtCell
<1>2. HoldsChains(S, laid) BY DEF ChainsFrom
<1>3. QED BY <1>1, <1>2 DEF HoldsChains

LEMMA PlaceStep ==
  ASSUME Types, CacheInv, PlaceInv, LaidInv, [Next]_vars
  PROVE  PlaceInv'
<1>1. /\ picks \in [Picks -> PickState] /\ turn \in 0..(NPicks + 1)
      /\ \A q \in Picks : picks[q].depth \in Nat /\ picks[q].y \in Int /\ q \in Nat
      /\ NPicks \in Nat \ {0} /\ 0 \notin Picks /\ NPicks + 1 \notin Picks
      /\ touchedTop \in Int /\ Margin \in Nat /\ Climb \in Nat
  BY Numbers DEF Types, PickState, Picks
<1>2. /\ \A p \in Picks : Digging(p) => Behind(Margin, picks[p].depth)
      /\ \A p \in Picks : picks[p].depth <= picks[p].y + Climb
      /\ \A p \in Picks : p < turn /\ ~picks[p].dead /\ ~run.over => touchedTop <= picks[p].depth
      /\ turn \in Picks /\ left = -1 => ~picks[turn].dead /\ ~blast.on
      /\ turn \in Picks /\ blast.on => ~picks[turn].dead
      /\ turn \notin Picks => sweep = {} /\ ~blast.on
      /\ \A e \in sweep : e[1] \in DOMAIN rows /\ InReach(e)
      /\ blast.on => /\ InReach(blast.at)
                     /\ \E S \in ChainsFrom(blast.at, laid) : blast.queue \cup blast.spent \subseteq S
  BY DEF PlaceInv
<1>3. CASE UNCHANGED vars BY <1>3 DEF vars, PlaceInv, Digging, Behind, InReach
<1>4. CASE BeginTick
  <2>1. run'.over = run.over /\ ~run.over /\ turn = 0 BY <1>4, ElapsedFacts DEF BeginTick
  <2>2. /\ turn' = NextAlive(0, run) /\ left' = -1
        /\ UNCHANGED <<rows, prunedAbove, picks, sweep, blast>>
    BY <1>4 DEF BeginTick
  <2>3. sweep = {} /\ ~blast.on BY <1>1, <1>2, <2>1
  <2>4. /\ turn' \in Picks => ~picks[turn'].dead
        /\ \A q \in Picks : 0 < q /\ q < turn' => picks[q].dead
    BY <1>1, <2>1, <2>2, NextIsAlive
  <2>5. \A q \in Picks : 0 < q BY DEF Picks
  <2>6. \A q \in Picks : Digging(q)' => Digging(q) BY <2>1, <2>2 DEF Digging
  <2>7. QED BY <1>2, <2>2, <2>3, <2>4, <2>5, <2>6 DEF PlaceInv, Behind, InReach
<1>5. CASE EndTick
  <2>1. /\ turn = NPicks + 1 /\ turn' = 0 /\ UNCHANGED <<picks, sweep, blast>>
    BY <1>5 DEF EndTick
  <2>2. sweep = {} /\ ~blast.on BY <1>1, <1>2, <2>1
  <2>3. ASSUME NEW q \in Picks, Digging(q)' PROVE Behind(Margin, picks[q].depth)'
    <3>1. ~picks[q].dead /\ ~run'.over BY <1>1, <2>1, <2>3 DEF Digging
    <3>2. ~run.over BY <1>5, <3>1, EndTickFacts
    <3>3. q < turn BY <1>1, <2>1, Numbers DEF Picks
    <3>4. touchedTop <= picks[q].depth BY <1>2, <3>1, <3>2, <3>3
    <3>5. Behind(Margin, picks[q].depth) BY <1>2, <3>1, <3>2 DEF Digging
    <3>6. prunedAbove' = prunedAbove \/ prunedAbove' = 0 \/ prunedAbove' = touchedTop - Margin
      BY <1>5, EndTickFacts
    <3>7. QED BY <1>1, <2>1, <3>4, <3>5, <3>6 DEF Behind
  <2>4. \A q \in Picks : ~ (q < 0) BY <1>1
  <2>5. QED BY <1>1, <1>2, <2>1, <2>2, <2>3, <2>4 DEF PlaceInv
<1>6. CASE Draw
  <2>1. turn = 0 /\ UNCHANGED <<laid, prunedAbove, picks, run, turn, left, sweep, touchedTop, blast>>
    BY <1>6 DEF Draw
  <2>2. sweep = {} BY <1>1, <1>2, <2>1
  <2>3. QED BY <1>2, <2>1, <2>2 DEF PlaceInv, Digging, Behind, InReach
<1>7. ASSUME NEW p \in Picks, Walk(p) PROVE PlaceInv'
  <2>1. PICK to \in PickState :
          /\ picks' = [picks EXCEPT ![p] = to] /\ ~to.dead
          /\ to.depth = picks[p].depth /\ to.depth <= to.y + Climb
    BY <1>7 DEF Walk
  <2>2. /\ turn = p /\ ~picks[p].dead /\ ~blast.on /\ left' >= 0
        /\ UNCHANGED <<prunedAbove, run, turn, touchedTop, blast>>
        /\ rows' = Asked(RowsOf(sweep')) /\ \A e \in sweep' : InReach(e)
    BY <1>7, Numbers DEF Walk
  <2>3. ASSUME NEW q \in Picks
        PROVE  /\ picks'[q].depth = picks[q].depth /\ picks'[q].dead = picks[q].dead
               /\ picks'[q].depth <= picks'[q].y + Climb
    BY <1>1, <1>2, <2>1, <2>2, Zenon DEF PickState
  <2>4. \A e \in sweep' : e[1] \in DOMAIN rows' BY <2>2 DEF Asked, RowsOf
  <2>5. left' # -1 BY <2>2
  <2>6. QED BY <1>2, <1>7, <2>2, <2>3, <2>4, <2>5 DEF PlaceInv, Digging, Behind, InReach
<1>8. ASSUME NEW p \in Picks, EndStep(p) PROVE PlaceInv'
  <2>1. PICK pk \in PickState :
          /\ picks' = [picks EXCEPT ![p] = pk]
          /\ pk.depth >= picks[p].depth /\ pk.depth >= picks[p].y
          /\ pk.depth = picks[p].depth \/ pk.depth = picks[p].y
          /\ pk.y = picks[p].y /\ pk.dead = picks[p].dead
    BY <1>8, EndStepFacts
  <2>2. /\ touchedTop' \in Int /\ touchedTop' <= touchedTop /\ touchedTop' <= picks[p].y
    BY <1>8, EndStepFacts
  <2>3. /\ turn = p /\ turn' = NextAlive(p, run) /\ left' = -1 /\ sweep' = {} /\ ~blast.on
        /\ UNCHANGED <<rows, prunedAbove, run, blast>>
    BY <1>8 DEF EndStep
  <2>4. /\ turn' \in Picks => ~picks[turn'].dead /\ ~run.over
        /\ ~run.over => \A q \in Picks : p < q /\ q < turn' => picks[q].dead
    <3>1. p \in 0..NPicks BY <1>1 DEF Picks
    <3>2. QED BY <1>1, <2>3, <3>1, NextIsAlive
  <2>5. ASSUME NEW q \in Picks
        PROVE  /\ picks'[q].dead = picks[q].dead /\ picks'[q].depth >= picks[q].depth
               /\ picks'[q].depth <= picks'[q].y + Climb /\ picks'[q].depth \in Nat
    <3>1. CASE q = p
      <4>1. picks'[q] = pk /\ pk.depth \in Nat BY <1>1, <2>1, <3>1 DEF PickState
      <4>2. QED BY <1>1, <1>2, <2>1, <3>1, <4>1
    <3>2. CASE q # p
      <4>1. picks'[q] = picks[q] BY <1>1, <2>1, <3>2
      <4>2. QED BY <1>1, <1>2, <4>1
    <3>3. QED BY <3>1, <3>2
  <2>6. ASSUME NEW q \in Picks, Digging(q)' PROVE Behind(Margin, picks[q].depth)'
    <3>1. Digging(q) BY <2>3, <2>4, <2>5, <2>6 DEF Digging
    <3>2. Behind(Margin, picks[q].depth) BY <1>2, <3>1
    <3>3. Behind(Margin, picks'[q].depth) BY <1>1, <2>5, <3>2, BehindDeeper
    <3>4. QED BY <2>3, <3>3 DEF Behind
  <2>7. ASSUME NEW q \in Picks, q < turn', ~picks'[q].dead, ~run'.over
        PROVE  touchedTop' <= picks'[q].depth
    <3>1. CASE q = p
      <4>1. picks'[q] = pk BY <1>1, <2>1, <3>1
      <4>2. QED BY <1>1, <2>1, <2>2, <2>5, <4>1
    <3>2. CASE q < p
      <4>1. touchedTop <= picks[q].depth BY <1>2, <2>3, <2>5, <2>7, <3>2
      <4>2. QED BY <1>1, <2>2, <2>5, <4>1
    <3>3. CASE q > p BY <1>1, <2>3, <2>4, <2>5, <2>7, <3>3
    <3>4. QED BY <1>1, <3>1, <3>2, <3>3
  <2>8. turn' \in Picks => ~picks'[turn'].dead BY <2>4, <2>5
  <2>9. QED BY <2>3, <2>5, <2>6, <2>7, <2>8 DEF PlaceInv
<1>9. ASSUME NEW p \in Picks, EndBlast(p) PROVE PlaceInv'
  <2>1. PICK pk \in PickState :
          /\ picks' = [picks EXCEPT ![p] = pk]
          /\ pk.y = picks[p].y /\ pk.depth = picks[p].depth
    BY <1>9, EndBlastFacts
  <2>2. ~blast'.on /\ (run.over => run'.over) BY <1>9, EndBlastFacts DEF NoBlast
  <2>3. /\ turn = p /\ blast.on /\ UNCHANGED <<rows, prunedAbove, turn, left, sweep, touchedTop>>
    BY <1>9 DEF EndBlast
  <2>4. ~picks[p].dead /\ left # -1 BY <1>2, <2>3
  <2>5. ASSUME NEW q \in Picks
        PROVE  /\ picks'[q].y = picks[q].y /\ picks'[q].depth = picks[q].depth
               /\ q # p => picks'[q] = picks[q]
    BY <1>1, <2>1
  <2>6. \A q \in Picks : Digging(q)' => Digging(q) BY <2>2, <2>3, <2>4, <2>5 DEF Digging
  <2>7. \A q \in Picks : q < turn => q # p BY <1>1, <2>3
  <2>8. \A e \in sweep' : e[1] \in DOMAIN rows' /\ InReach(e)' BY <1>2, <2>3 DEF InReach, Behind
  <2>9. ASSUME NEW q \in Picks, q < turn', ~picks'[q].dead, ~run'.over
        PROVE  touchedTop' <= picks'[q].depth
    BY <1>2, <2>2, <2>3, <2>5, <2>7, <2>9
  <2>10. \A q \in Picks : Digging(q)' => Behind(Margin, picks[q].depth)'
    BY <1>2, <2>3, <2>5, <2>6 DEF Behind
  <2>11. QED BY <1>2, <2>2, <2>3, <2>4, <2>5, <2>8, <2>9, <2>10 DEF PlaceInv
<1>10. ASSUME NEW p \in Picks, NEW cell \in sweep, Hit(p, cell) PROVE PlaceInv'
  <2>1. PICK pk \in PickState :
          /\ picks' = [picks EXCEPT ![p] = pk]
          /\ pk.y = picks[p].y /\ pk.depth = picks[p].depth /\ (blast'.on => ~pk.dead)
    BY <1>10 DEF Hit
  <2>2. /\ turn = p /\ left >= 0 /\ ~blast.on /\ ~picks[p].dead /\ sweep' \subseteq sweep
        /\ UNCHANGED <<prunedAbove, turn, left, touchedTop>> /\ (run.over => run'.over)
        /\ blast' = blast \/ (blast' = Lit(cell) /\ CellAt(cell).id = "tnt")
        /\ laid' = laid
    BY <1>10 DEF Hit
  <2>3. DOMAIN rows' = DOMAIN rows BY <1>10, HitKeepsCache
  <2>4. left # -1 BY <2>2
  <2>5. ASSUME NEW q \in Picks
        PROVE  /\ picks'[q].y = picks[q].y /\ picks'[q].depth = picks[q].depth
               /\ q # p => picks'[q] = picks[q]
    BY <1>1, <2>1
  <2>6. \A q \in Picks : Digging(q)' => Digging(q) BY <2>2, <2>5 DEF Digging
  <2>7. \A q \in Picks : q < turn => q # p BY <1>1, <2>2
  <2>8. \A e \in sweep' : e[1] \in DOMAIN rows' /\ InReach(e)'
    BY <1>2, <2>2, <2>3 DEF InReach, Behind
  <2>9. ASSUME NEW q \in Picks, q < turn', ~picks'[q].dead, ~run'.over
        PROVE  touchedTop' <= picks'[q].depth
    BY <1>2, <2>2, <2>5, <2>7, <2>9
  <2>10. \A q \in Picks : Digging(q)' => Behind(Margin, picks[q].depth)'
    BY <1>2, <2>2, <2>5, <2>6 DEF Behind
  <2>11. ASSUME blast'.on
         PROVE  /\ InReach(blast.at)'
                /\ \E S \in ChainsFrom(blast'.at, laid') : blast'.queue \cup blast'.spent \subseteq S
    <3>1. blast' = Lit(cell) /\ CellAt(cell).id = "tnt" BY <2>2, <2>11
    <3>2. blast'.at = cell /\ blast'.queue = {cell} /\ blast'.spent = {}
      BY <3>1 DEF Lit, NoBlast
    <3>3. InReach(cell) /\ cell \in Cells /\ Known(cell[1]) BY <1>2 DEF Types, Known
    <3>4. AtCell(mined, cell).id = "tnt" BY <3>1, <3>3, CellFacts DEF AtCell
    <3>5. \E S \in ChainsFrom(cell, laid) : cell \in S BY <3>3, <3>4, ChainStarts
    <3>6. QED BY <2>2, <3>2, <3>3, <3>5 DEF InReach, Behind
  <2>12. blast'.on => ~picks'[turn'].dead BY <1>1, <2>1, <2>2
  <2>13. QED BY <1>2, <2>2, <2>4, <2>5, <2>8, <2>9, <2>10, <2>11, <2>12 DEF PlaceInv
<1>11. ASSUME NEW p \in Picks, NEW at \in Cells, NEW hit \in SUBSET Cells, NEW seen \in SUBSET Rows,
              Blow(p, at, hit, seen)
       PROVE  PlaceInv'
  <2>1. /\ turn = p /\ blast.on /\ run'.over = run.over /\ blast'.at = blast.at
        /\ blast'.queue \subseteq blast.queue \cup {e \in hit : AtCell(mined, e).id = "tnt"}
        /\ blast'.spent = blast.spent \cup {at} /\ at \in blast.queue
        /\ \A e \in hit : e \in Near(at, ChainRadius) \cup Near(at, RayReach)
        /\ UNCHANGED <<laid, prunedAbove, picks, turn, left, sweep, touchedTop>>
    BY <1>11 DEF Blow
  <2>2. DOMAIN rows' = DOMAIN rows \cup seen BY <1>11, BlastingKeepsCache DEF Blow
  <2>3. left # -1 /\ ~picks[p].dead BY <1>2, <2>1
  <2>4. \A q \in Picks : Digging(q)' => Digging(q) BY <2>1 DEF Digging
  <2>5. \E S \in ChainsFrom(blast'.at, laid') : blast'.queue \cup blast'.spent \subseteq S
    <3>1. PICK S \in ChainsFrom(blast.at, laid) : blast.queue \cup blast.spent \subseteq S
      BY <1>2, <2>1
    <3>2. \A e \in hit : AtCell(mined, e).id = "tnt" => e \in S
      BY <2>1, <3>1, ChainGoesOn
    <3>3. QED BY <2>1, <3>1, <3>2
  <2>6. QED BY <1>2, <2>1, <2>2, <2>3, <2>4, <2>5 DEF PlaceInv, Behind, InReach
<1>12. QED BY <1>3, <1>4, <1>5, <1>6, <1>7, <1>8, <1>9, <1>10, <1>11, StepKinds

(***************************************************************************)
(* Broken blocks and chains: a hole stays a hole.                          *)
(***************************************************************************)
LEMMA PutAt ==
  ASSUME NEW grid \in [Rows -> [Columns -> Cell]], NEW cell \in Cells, NEW block, NEW e \in Cells
  PROVE  AtCell(Put(grid, cell, block), e) = IF e = cell THEN block ELSE AtCell(grid, e)
<1>1. /\ cell[1] \in Rows /\ cell[2] \in Columns /\ cell = <<cell[1], cell[2]>>
      /\ e[1] \in Rows /\ e[2] \in Columns /\ e = <<e[1], e[2]>>
  BY DEF Cells
<1>2. QED BY <1>1 DEF AtCell, Put

LEMMA HitMine ==
  ASSUME Types, CacheInv, PlaceInv, NEW p \in Picks, NEW cell \in sweep, Hit(p, cell),
         NEW e \in Cells
  PROVE  /\ IsAir(e) => IsAir(e)'
         /\ AtCell(mined, e).id # "tnt" => AtCell(mined', e).id # "tnt"
         /\ Digs(cell) => IsAir(cell)'
         /\ cell \in Cells /\ ~IsAir(cell)
<1>1. cell \in Cells /\ Known(cell[1]) BY DEF Types, PlaceInv, Known
<1>2. CellAt(cell) = AtCell(mined, cell) BY <1>1, CellFacts DEF AtCell
<1>3. ~IsAir(cell) BY <1>2 DEF Hit, IsAir, AtCell
<1>4. mined \in [Rows -> [Columns -> Cell]] BY DEF Types, GridTypes
<1>5. CASE Digs(cell)
  <2>1. mined' = Put(mined, cell, Air) BY <1>5 DEF Digs
  <2>2. /\ AtCell(mined', e) = IF e = cell THEN Air ELSE AtCell(mined, e)
        /\ AtCell(mined', cell) = Air
    BY <1>1, <1>4, <2>1, PutAt
  <2>3. QED BY <1>1, <1>3, <2>2, AirIsCell DEF IsAir, AtCell
<1>6. CASE Cracks(cell)
  <2>1. PICK block \in Cell : /\ block.id \in {"stone", "ore"}
                              /\ mined' = Put(mined, cell, block)
    BY <1>6 DEF Cracks
  <2>2. AtCell(mined', e) = IF e = cell THEN block ELSE AtCell(mined, e)
    BY <1>1, <1>4, <2>1, PutAt
  <2>3. ~Digs(cell)
    <3>1. CASE Digs(cell)
      <4>1. mined' = Put(mined, cell, Air) BY <3>1 DEF Digs
      <4>2. AtCell(mined', cell) = Air BY <1>1, <1>4, <4>1, PutAt
      <4>3. AtCell(mined', cell) = block BY <1>1, <1>4, <2>1, PutAt
      <4>4. QED BY <2>1, <4>2, <4>3, AirIsCell
    <3>2. QED BY <3>1
  <2>4. QED BY <1>1, <1>3, <2>1, <2>2, <2>3 DEF IsAir, AtCell
<1>7. CASE Bounces /\ ~Digs(cell) BY <1>1, <1>3, <1>7 DEF Bounces, IsAir, AtCell
<1>8. QED BY <1>5, <1>6, <1>7 DEF Hit

LEMMA BlowMine ==
  ASSUME Types, NEW p \in Picks, NEW at \in Cells, NEW hit \in SUBSET Cells,
         NEW seen \in SUBSET Rows, Blow(p, at, hit, seen), NEW e \in Cells
  PROVE  /\ AtCell(mined', e) = IF e \in hit THEN Air ELSE AtCell(mined, e)
         /\ IsAir(e) \/ e \in hit => IsAir(e)'
         /\ AtCell(mined, e).id # "tnt" => AtCell(mined', e).id # "tnt"
<1>1. /\ mined \in [Rows -> [Columns -> Cell]] /\ mined' = PutAll(mined, hit)
      /\ e[1] \in Rows /\ e[2] \in Columns /\ e = <<e[1], e[2]>>
  BY DEF Types, GridTypes, Blow, Cells
<1>2. AtCell(mined', e) = IF e \in hit THEN Air ELSE AtCell(mined, e)
  BY <1>1 DEF AtCell, PutAll
<1>3. QED BY <1>2, AirIsCell DEF IsAir, AtCell

LEMMA LaidStep ==
  ASSUME Types, CacheInv, PlaceInv, LaidInv, [Next]_vars
  PROVE  LaidInv'
<1>1. ASSUME mined' = mined, laid' = laid PROVE LaidInv' BY <1>1 DEF LaidInv
<1>2. ASSUME laid' = laid,
             \A e \in Cells : AtCell(mined, e).id # "tnt" => AtCell(mined', e).id # "tnt"
      PROVE  LaidInv'
  BY <1>2 DEF LaidInv
<1>3. CASE UNCHANGED vars \/ BeginTick \/ EndTick \/ Draw
  BY <1>1, <1>3 DEF vars, BeginTick, EndTick, Draw
<1>4. ASSUME NEW p \in Picks, Walk(p) \/ EndStep(p) \/ EndBlast(p) PROVE LaidInv'
  BY <1>1, <1>4 DEF Walk, EndStep, EndBlast
<1>5. ASSUME NEW p \in Picks, NEW cell \in sweep, Hit(p, cell) PROVE LaidInv'
  <2>1. laid' = laid BY <1>5 DEF Hit
  <2>2. \A e \in Cells : AtCell(mined, e).id # "tnt" => AtCell(mined', e).id # "tnt"
    BY <1>5, HitMine
  <2>3. QED BY <1>2, <2>1, <2>2
<1>6. ASSUME NEW p \in Picks, NEW at \in Cells, NEW hit \in SUBSET Cells, NEW seen \in SUBSET Rows,
             Blow(p, at, hit, seen)
      PROVE  LaidInv'
  <2>1. laid' = laid BY <1>6 DEF Blow
  <2>2. \A e \in Cells : AtCell(mined, e).id # "tnt" => AtCell(mined', e).id # "tnt"
    BY <1>6, BlowMine
  <2>3. QED BY <1>2, <2>1, <2>2
<1>7. QED BY <1>3, <1>4, <1>5, <1>6, StepKinds

LEMMA BrokenStep ==
  ASSUME Types, CacheInv, PlaceInv, BrokenInv, [Next]_vars
  PROVE  BrokenInv'
<1>1. IsFiniteSet(broken) /\ broken \subseteq Cells /\ run.blocks = Cardinality(broken)
      /\ (\A e \in broken : IsAir(e)) /\ Cardinality(broken) \in Nat
  BY FS_CardinalityType DEF Types, BrokenInv
<1>2. ASSUME mined' = mined, broken' = broken, run'.blocks = run.blocks PROVE BrokenInv'
  BY <1>2 DEF BrokenInv, IsAir
<1>3. CASE UNCHANGED vars \/ BeginTick \/ EndTick \/ Draw
  BY <1>2, <1>3, ElapsedFacts, EndTickFacts DEF vars, BeginTick, EndTick, Draw
<1>4. ASSUME NEW p \in Picks, Walk(p) \/ EndStep(p) \/ EndBlast(p) PROVE BrokenInv'
  BY <1>2, <1>4, EndBlastFacts DEF Walk, EndStep, EndBlast
<1>5. ASSUME NEW p \in Picks, NEW cell \in sweep, Hit(p, cell) PROVE BrokenInv'
  <2>1. \A e \in broken : IsAir(e)' BY <1>1, <1>5, HitMine
  <2>2. ~IsAir(cell) /\ cell \in Cells /\ (Digs(cell) => IsAir(cell)')
    <3>1. cell \in Cells BY DEF Types
    <3>2. QED BY <1>5, <3>1, HitMine
  <2>3. CASE broken' = broken /\ run'.blocks = run.blocks BY <1>1, <2>1, <2>3 DEF BrokenInv
  <2>4. CASE Digs(cell) /\ broken' = broken \cup {cell} /\ run'.blocks = run.blocks + 1
    <3>1. cell \notin broken BY <1>1, <2>2
    <3>2. IsFiniteSet(broken \cup {cell})
          /\ Cardinality(broken \cup {cell}) = Cardinality(broken) + 1
      BY <1>1, <3>1, FS_AddElement
    <3>3. QED BY <1>1, <2>1, <2>2, <2>4, <3>2 DEF BrokenInv
  <2>5. QED BY <1>5, <2>3, <2>4 DEF Hit, Digs, Cracks, Bounces
<1>6. ASSUME NEW p \in Picks, NEW at \in Cells, NEW hit \in SUBSET Cells, NEW seen \in SUBSET Rows,
             Blow(p, at, hit, seen)
      PROVE  BrokenInv'
  <2>1. /\ broken' = broken \cup hit /\ run'.blocks = run.blocks + Cardinality(hit)
        /\ IsFiniteSet(hit) /\ \A e \in hit : ~IsAir(e)
    BY <1>6 DEF Blow
  <2>2. \A e \in broken \cup hit : IsAir(e)' BY <1>1, <1>6, BlowMine
  <2>3. broken \cap hit = {} BY <1>1, <2>1
  <2>4. /\ IsFiniteSet(broken \cup hit) /\ Cardinality(hit) \in Nat
        /\ Cardinality(broken \cup hit) =
             Cardinality(broken) + Cardinality(hit) - Cardinality(broken \cap hit)
    BY <1>1, <2>1, FS_Union, FS_CardinalityType
  <2>5. Cardinality(broken \cap hit) = 0 BY <2>3, FS_EmptySet
  <2>6. Cardinality(broken \cup hit) = Cardinality(broken) + Cardinality(hit)
    BY <1>1, <2>4, <2>5
  <2>7. QED BY <1>1, <2>1, <2>2, <2>4, <2>6 DEF BrokenInv
<1>7. QED BY <1>3, <1>4, <1>5, <1>6, StepKinds

LEMMA ChainStep ==
  ASSUME Types, CacheInv, PlaceInv, ChainInv, [Next]_vars
  PROVE  ChainInv'
<1>1. CASE ~blast'.on BY <1>1 DEF ChainInv
<1>2. ASSUME mined' = mined, blast' = blast PROVE ChainInv'
  BY <1>2 DEF ChainInv, IsAir, NoFuseLeft
<1>3. CASE UNCHANGED vars \/ BeginTick \/ EndTick \/ Draw
  BY <1>2, <1>3 DEF vars, BeginTick, EndTick, Draw
<1>4. ASSUME NEW p \in Picks, Walk(p) \/ EndStep(p) PROVE ChainInv'
  BY <1>2, <1>4 DEF Walk, EndStep
<1>5. ASSUME NEW p \in Picks, EndBlast(p) PROVE ChainInv'
  BY <1>1, <1>5, EndBlastFacts DEF NoBlast
<1>6. ASSUME NEW p \in Picks, NEW cell \in sweep, Hit(p, cell), blast'.on PROVE ChainInv'
  <2>1. ~blast.on /\ blast' = Lit(cell) BY <1>6 DEF Hit
  <2>2. blast'.cleared = {cell} /\ blast'.spent = {} /\ blast' # blast
    BY <1>6, <2>1 DEF Lit, NoBlast
  <2>3. Digs(cell) BY <1>6, <2>2 DEF Hit, Cracks, Bounces
  <2>4. IsAir(cell)'
    <3>1. cell \in Cells BY DEF Types
    <3>2. QED BY <1>6, <2>3, <3>1, HitMine
  <2>5. QED BY <2>2, <2>4 DEF ChainInv
<1>7. ASSUME NEW p \in Picks, NEW at \in Cells, NEW hit \in SUBSET Cells, NEW seen \in SUBSET Rows,
             Blow(p, at, hit, seen)
      PROVE  ChainInv'
  <2>1. /\ blast.on /\ blast'.at = blast.at
        /\ blast'.spent = blast.spent \cup {at} /\ blast'.cleared = blast.cleared \cup hit
        /\ blast \in BlastState
    BY <1>7 DEF Blow, Types
  <2>2. /\ \A e \in blast.cleared : e \in Cells /\ IsAir(e)
        /\ \A s \in blast.spent : NoFuseLeft(s)
    BY <2>1 DEF ChainInv, BlastState
  <2>3. \A e \in blast.cleared \cup hit : IsAir(e)' BY <1>7, <2>2, BlowMine
  <2>4. ASSUME NEW s \in blast.spent \cup {at}, NEW e \in Near(s, ChainRadius)
        PROVE  AtCell(mined', e).id # "tnt"
    <3>1. e \in Cells BY DEF Near
    <3>2. CASE s \in blast.spent
      <4>1. AtCell(mined, e).id # "tnt" BY <2>2, <2>4, <3>2 DEF NoFuseLeft, AtCell
      <4>2. QED BY <1>7, <3>1, <4>1, BlowMine
    <3>3. CASE s = at
      <4>1. e \in hit \/ e \in blast.cleared \/ AtCell(mined, e).id # "tnt"
        BY <1>7, <2>4, <3>3 DEF Blow, AtCell
      <4>2. CASE e \in hit \/ e \in blast.cleared BY <2>3, <4>2 DEF IsAir, AtCell
      <4>3. CASE AtCell(mined, e).id # "tnt" BY <1>7, <3>1, <4>3, BlowMine
      <4>4. QED BY <4>1, <4>2, <4>3
    <3>4. QED BY <3>2, <3>3
  <2>5. QED BY <2>1, <2>3, <2>4 DEF ChainInv, NoFuseLeft, AtCell
<1>8. QED BY <1>1, <1>3, <1>4, <1>5, <1>6, <1>7, StepKinds

-----------------------------------------------------------------------------
(***************************************************************************)
(* Theorems.                                                               *)
(***************************************************************************)
MineInv == Types /\ CacheInv /\ PlaceInv /\ LaidInv /\ BrokenInv /\ ChainInv

LEMMA PickStarts ==
  ASSUME NEW setup \in Setups
  PROVE  /\ Pick(setup.tier, setup.col) \in PickState
         /\ Pick(setup.tier, setup.col).depth = 0 /\ Pick(setup.tier, setup.col).y = -StartHeight
         /\ Pick(setup.tier, setup.col).growT = << >>
<1>1. setup.tier \in 1..Len(TierHp) /\ setup.col \in Columns BY DEF Setups
<1>2. TierHp[setup.tier] \in Int BY <1>1, Tiers
<1>3. -StartHeight \in Int BY Numbers
<1>4. << >> \in Seq(Int) OBVIOUS
<1>5. QED BY <1>1, <1>2, <1>3, <1>4 DEF Pick, PickState

LEMMA MineInvInit == Init => MineInv
<1>1. SUFFICES ASSUME Init PROVE MineInv OBVIOUS
<1>2. laid \in Mines /\ mined = laid /\ laid \in [Rows -> [Columns -> Cell]]
  BY <1>1, EngineAssumption DEF Init
<1>3. PICK setup \in Setups : /\ bonus = (setup.mode # "bet")
                              /\ picks = [p \in Picks |-> Pick(setup.tier, setup.col)]
  BY <1>1 DEF Init
<1>4. GridTypes
  <2>1. rows = [r \in {} |-> laid[r]] BY <1>1 DEF Init
  <2>2. DOMAIN rows = {} /\ rows \in [{} -> [Columns -> Cell]] BY <2>1
  <2>3. Worthy(mined) BY <1>2, EngineAssumption DEF Worthy
  <2>4. QED BY <1>2, <2>2, <2>3 DEF GridTypes
<1>5. bonus \in BOOLEAN BY <1>3
<1>6. ASSUME NEW p \in Picks
      PROVE  /\ picks[p] \in PickState /\ Len(picks[p].growT) = 0
             /\ picks[p].depth = 0 /\ picks[p].y = -StartHeight
  BY <1>3, PickStarts
<1>7. picks \in [Picks -> PickState] BY <1>3, <1>6
<1>8. run \in RunState /\ run.blocks = 0 BY <1>1, Numbers DEF Init, RunState
<1>9. blast \in BlastState /\ ~blast.on
  BY <1>1, FirstCell DEF Init, NoBlast, BlastState
<1>10. /\ prunedAbove = 0 /\ turn = 0 /\ left = 0 /\ sweep = {} /\ touchedTop = LastRow + 1
       /\ broken = {}
  BY <1>1 DEF Init
<1>11. Types
  <2>1. \A p \in Picks : Len(picks[p].growT) <= GrowMax /\ picks[p].y <= LastRow
    BY <1>6, Numbers
  <2>2. turn \in 0..(NPicks + 1) /\ left \in -1..Substeps /\ prunedAbove \in Nat
        /\ touchedTop \in Int /\ touchedTop <= LastRow + 1
    BY <1>10, Numbers
  <2>3. QED BY <1>2, <1>4, <1>5, <1>7, <1>8, <1>9, <1>10, <2>1, <2>2 DEF Types
<1>12. CacheInv
  <2>1. DOMAIN rows = {} BY <1>1 DEF Init
  <2>2. QED BY <1>2, <2>1 DEF CacheInv, Row
<1>13. PlaceInv
  <2>1. \A p \in Picks : picks[p].depth <= picks[p].y + Climb BY <1>6, Numbers
  <2>2. turn \notin Picks /\ \A p \in Picks : ~ (p < turn) BY <1>10 DEF Picks
  <2>3. QED BY <1>9, <1>10, <2>1, <2>2 DEF PlaceInv, Behind
<1>14. BrokenInv BY <1>8, <1>10, FS_EmptySet DEF BrokenInv
<1>15. ChainInv BY <1>9 DEF ChainInv
<1>16. LaidInv BY <1>2 DEF LaidInv
<1>17. QED BY <1>11, <1>12, <1>13, <1>14, <1>15, <1>16 DEF MineInv

LEMMA MineInvStep == MineInv /\ [Next]_vars => MineInv'
  BY TypesStep, CacheStep, PlaceStep, LaidStep, BrokenStep, ChainStep DEF MineInv

LEMMA MineInvariant == Spec => []MineInv
  BY MineInvInit, MineInvStep, PTL DEF Spec

(* The types of the run, for any mine with any number of picks; a window   *)
(* of the multiplier is never overdrawn.                                   *)
THEOREM TypeCorrect == Spec => []TypeOK
<1>1. MineInv => TypeOK
  <2>1. SUFFICES ASSUME MineInv PROVE TypeOK OBVIOUS
  <2>2. Types BY <2>1 DEF MineInv
  <2>3. run.collected \in Nat /\ run.multActive \in Nat \ {0} /\ run.blocks \in Nat
        /\ run.multWindowT \in 0..MultWindow /\ run.pruneIn \in 1..PruneEvery
    BY <2>2 DEF Types, RunState
  <2>4. \A r \in DOMAIN rows : rows[r] \in [Columns -> Cell] BY <2>2 DEF Types, GridTypes
  <2>5. QED BY <2>2, <2>3, <2>4 DEF TypeOK, Types, GridTypes
<1>2. QED BY <1>1, MineInvariant, PTL

(* However the picks fly, whatever explodes and whatever is drawn between  *)
(* two ticks, the physics reads the mine as the strikes have left it: the  *)
(* server and the client that replay one seed read the same blocks.        *)
THEOREM PhysicsReadsTheTruth == Spec => []MineIsHonest
<1>1. MineInv => MineIsHonest BY DEF MineInv, CacheInv, MineIsHonest
<1>2. QED BY <1>1, MineInvariant, PTL

(* No block is counted twice by strikes, rays and chains that overlap.     *)
THEOREM BlocksCountOnce == Spec => []EachBlockOnce
<1>1. MineInv => EachBlockOnce BY DEF MineInv, BrokenInv, EachBlockOnce
<1>2. QED BY <1>1, MineInvariant, PTL

(* A chain that ran out of dynamite left none around its epicentres: the   *)
(* limit of hits and the shape of the rays cut no chain.                   *)
THEOREM ChainsRunOut == Spec => ChainIsComplete
<1>1. MineInv /\ [Next]_vars =>
        [blast.on /\ ~blast'.on /\ blast.queue = {} =>
          \A at \in blast.spent : \A e \in Near(at, ChainRadius) : CellAt(e).id # "tnt"]_vars
  <2>1. SUFFICES ASSUME MineInv, blast.on, NEW at \in blast.spent, NEW e \in Near(at, ChainRadius)
                 PROVE  CellAt(e).id # "tnt"
    OBVIOUS
  <2>2. Types /\ CacheInv /\ PlaceInv /\ ChainInv BY <2>1 DEF MineInv
  <2>3. AtCell(mined, e).id # "tnt" BY <2>1, <2>2 DEF ChainInv, NoFuseLeft
  <2>4. e \in Cells /\ e[1] \in Rows /\ e[1] >= at[1] - ChainRadius
    <3>1. at \in Cells BY <2>2 DEF Types, BlastState
    <3>2. e \in Cells /\ e[1] \in (at[1] - ChainRadius)..(at[1] + ChainRadius) BY DEF Near
    <3>3. at[1] \in Nat /\ e[1] \in Rows /\ e[1] \in Nat BY <3>1, <3>2, RowsAreNat DEF Cells
    <3>4. QED BY <3>2, <3>3, Numbers
  <2>5. Known(e[1])
    <3>1. InReach(blast.at) /\ at[1] + Chain >= blast.at[1]
      BY <2>1, <2>2, ChainRows DEF PlaceInv
    <3>2. prunedAbove = 0 \/ prunedAbove + (Chain + ChainRadius) <= blast.at[1]
      BY <3>1 DEF InReach, Behind
    <3>3. blast.at \in Cells /\ at \in Cells BY <2>2 DEF Types, BlastState
    <3>4. blast.at[1] \in Nat /\ at[1] \in Nat /\ e[1] \in Nat /\ prunedAbove \in Nat
      BY <2>2, <2>4, <3>3, LineIsNat, RowsAreNat DEF Cells
    <3>5. prunedAbove <= e[1] BY <2>4, <3>1, <3>2, <3>4, Numbers
    <3>6. QED BY <3>4, <3>5 DEF Known
  <2>6. CellAt(e) = AtCell(mined, e) BY <2>2, <2>4, <2>5, CellFacts DEF AtCell
  <2>7. QED BY <2>3, <2>6
<1>2. QED BY <1>1, MineInvariant, PTL DEF Spec, ChainIsComplete

(***************************************************************************)
(* The screen.  A run has one pick (run.ts:6); were there two, the screen  *)
(* would follow one that died far above the line the other one draws.      *)
(***************************************************************************)
LEMMA ScreenInvStep ==
  ASSUME NPicks = 1, Types, CacheInv, PlaceInv, ScreenInv, [Next]_vars
  PROVE  ScreenInv'
<1>1. /\ picks \in [Picks -> PickState] /\ 1 \in Picks /\ Picks = {1}
      /\ picks[1].depth \in Nat /\ picks[1].y \in Int /\ prunedAbove \in Nat
      /\ touchedTop \in Int /\ Margin \in Nat /\ LastRow \in Nat
  BY Numbers DEF Types, PickState, Picks
<1>2. /\ prunedAbove = 0 \/ prunedAbove + Margin <= picks[1].depth
      /\ touchedTop <= LastRow => touchedTop <= picks[1].depth
  BY DEF ScreenInv, Behind
<1>3. ASSUME picks'[1].depth = picks[1].depth, UNCHANGED <<prunedAbove, touchedTop>>
      PROVE  ScreenInv'
  BY <1>2, <1>3 DEF ScreenInv, Behind
<1>4. CASE UNCHANGED vars \/ Draw BY <1>3, <1>4 DEF vars, Draw
<1>5. CASE BeginTick
  <2>1. touchedTop' = LastRow + 1 /\ UNCHANGED <<prunedAbove, picks>> BY <1>5 DEF BeginTick
  <2>2. ~ (touchedTop' <= LastRow) BY <1>1, <2>1
  <2>3. QED BY <1>2, <2>1, <2>2 DEF ScreenInv, Behind
<1>6. CASE EndTick
  <2>1. touchedTop' = LastRow + 1 /\ UNCHANGED picks BY <1>6 DEF EndTick
  <2>2. ~ (touchedTop' <= LastRow) BY <1>1, <2>1
  <2>3. \/ prunedAbove' = prunedAbove \/ prunedAbove' = 0
        \/ prunedAbove' = touchedTop - Margin /\ touchedTop <= LastRow
    BY <1>6, EndTickFacts
  <2>4. prunedAbove' = 0 \/ prunedAbove' + Margin <= picks[1].depth BY <1>1, <1>2, <2>3
  <2>5. QED BY <2>1, <2>2, <2>4 DEF ScreenInv, Behind
<1>7. ASSUME NEW p \in Picks, Walk(p) PROVE ScreenInv'
  BY <1>1, <1>3, <1>7 DEF Walk
<1>8. ASSUME NEW p \in Picks, EndStep(p) PROVE ScreenInv'
  <2>1. p = 1 /\ UNCHANGED prunedAbove BY <1>1, <1>8 DEF EndStep
  <2>2. /\ picks'[1].depth >= picks[1].depth /\ picks'[1].depth >= picks[1].y
        /\ picks'[1].depth \in Nat
    BY <1>1, <1>8, <2>1, EndStepFacts DEF PickState
  <2>3. touchedTop' <= picks[1].y /\ touchedTop' \in Int BY <1>8, <2>1, EndStepFacts
  <2>4. QED BY <1>1, <1>2, <2>1, <2>2, <2>3 DEF ScreenInv, Behind
<1>9. ASSUME NEW p \in Picks, EndBlast(p) PROVE ScreenInv'
  <2>1. picks'[1].depth = picks[1].depth BY <1>1, <1>9, EndBlastFacts
  <2>2. QED BY <1>3, <1>9, <2>1 DEF EndBlast
<1>10. ASSUME NEW p \in Picks, NEW cell \in sweep, Hit(p, cell) PROVE ScreenInv'
  BY <1>1, <1>3, <1>10 DEF Hit
<1>11. ASSUME NEW p \in Picks, NEW at \in Cells, NEW hit \in SUBSET Cells, NEW seen \in SUBSET Rows,
              Blow(p, at, hit, seen)
       PROVE  ScreenInv'
  BY <1>3, <1>11 DEF Blow
<1>12. QED BY <1>4, <1>5, <1>6, <1>7, <1>8, <1>9, <1>10, <1>11, StepKinds

(* No hole grows over on the screen of a run with its one pick, whenever a *)
(* frame is drawn.                                                         *)
THEOREM ScreenShowsTheTruth ==
  ASSUME NPicks = 1
  PROVE  Spec => []ScreenIsHonest
<1>1. Init => ScreenInv
  <2>1. SUFFICES ASSUME Init PROVE ScreenInv OBVIOUS
  <2>2. prunedAbove = 0 /\ touchedTop = LastRow + 1 BY <2>1 DEF Init
  <2>3. ~ (touchedTop <= LastRow) BY <2>2, Numbers
  <2>4. QED BY <2>2, <2>3 DEF ScreenInv, Behind
<1>2. MineInv /\ ScreenInv /\ [Next]_vars => ScreenInv' BY ScreenInvStep DEF MineInv
<1>3. MineInv /\ ScreenInv => ScreenIsHonest
  <2>1. SUFFICES ASSUME MineInv, ScreenInv, NEW r \in OnScreen PROVE Row(r) = mined[r]
    BY DEF ScreenIsHonest
  <2>2. Types /\ CacheInv /\ PlaceInv BY <2>1 DEF MineInv
  <2>3. /\ Picks = {1} /\ picks[1].depth \in Nat /\ picks[1].y \in Int /\ prunedAbove \in Nat
        /\ Climb \in Nat /\ Screen \in Nat /\ Margin \in Nat /\ Climb + Screen <= Margin
    BY <2>2, Numbers, MarginAssumption DEF Types, PickState, Picks
  <2>4. Highest = picks[1].y BY <2>3 DEF Highest
  <2>5. r \in Rows /\ r \in Nat /\ r >= picks[1].y - Screen
    BY <2>4, RowsAreNat DEF OnScreen
  <2>6. picks[1].depth <= picks[1].y + Climb BY <2>2, <2>3 DEF PlaceInv
  <2>7. prunedAbove = 0 \/ prunedAbove + Margin <= picks[1].depth BY <2>1 DEF ScreenInv, Behind
  <2>8. prunedAbove <= r BY <2>3, <2>5, <2>6, <2>7
  <2>9. Known(r) BY <2>3, <2>5, <2>8 DEF Known
  <2>10. QED BY <2>2, <2>5, <2>9 DEF CacheInv
<1>4. QED BY <1>1, <1>2, <1>3, MineInvariant, PTL DEF Spec

=============================================================================
