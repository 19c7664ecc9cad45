------------------------------- MODULE Engine --------------------------------
(***************************************************************************)
(* One run of a pick through the mine (run.ts, world.ts).                  *)
(*                                                                         *)
(* The server plays a run to its end in one loop, the client ticks the     *)
(* same run frame by frame and draws the mine in between, and both must    *)
(* arrive at the same sum.  The mine is laid row by row from its seed, so  *)
(* a row is generated when somebody first asks for it, and it is thrown    *)
(* away when the pick is far below it.  A row thrown away comes back       *)
(* whole, without the holes and the cracks it had.                         *)
(*                                                                         *)
(* Geometry is counted in cells.  How a pick flies and bounces is left to  *)
(* chance within what the physics allows: it moves by at most a cell at a  *)
(* substep, it never climbs more than Climb rows back, it strikes the cell *)
(* it is in and may strike the others within its reach.  The rays of an    *)
(* explosion may hit any cell within RayReach.  Sums are in twentieths of  *)
(* a quarter of a point, so that the multipliers are whole numbers.        *)
(*                                                                         *)
(* The bounds are LastRow, the deepest row of the mine (the code's has     *)
(* none), and Climb, the rows a pick may climb back, on which the code     *)
(* relies (run.ts:45).  Chain is no bound of the run but a property of the *)
(* mines, ChainAssumption: no chain of dynamite laid in them climbs more   *)
(* rows than that.  The code limits a chain to sixty explosions and lets   *)
(* chance see to the rest: ten rows would do, it says (run.ts:45).         *)
(***************************************************************************)
EXTENDS Integers, FiniteSets, Sequences

CONSTANTS
  Mines,                     \* the mines a seed may lay: [Rows -> [Columns -> Cell]]
  LastRow, Cols, NPicks,
  TierHp, TierDmg,           \* of every tier, from the lowest to the highest
  OreTough, OreValue, TopHeal,
  GrowSec, GrowMax, Reach,   \* Reach[n]: how far a pick reaches that has grown n times
  MultWindow, MultCap,
  ChainRadius, ChainGuard, RayReach, TntMaxHits,
  HitCooldown, MaxHits, MaxTime, PruneEvery, Margin, Screen,
  Climb, Chain, Substeps, StartHeight

Rows == 0..LastRow
Columns == 0..(Cols - 1)
Cells == Rows \X Columns
Picks == 1..NPicks
Ids == {"air", "stone", "ore", "tnt", "upgrade", "magic", "mult", "grow", "rubber", "scatter"}
Cell == [id : Ids, dmg : Nat, m : Nat]
Air == [id |-> "air", dmg |-> 0, m |-> 0]
Block(id) == [id |-> id, dmg |-> 0, m |-> 0]
Times(m) == [id |-> "mult", dmg |-> 0, m |-> m]

ASSUME EngineAssumption ==
  /\ {LastRow, OreTough, OreValue, TopHeal, GrowMax, ChainRadius, ChainGuard, RayReach,
      TntMaxHits, HitCooldown, MaxHits, MaxTime, Margin, Screen, Climb, Chain,
      StartHeight} \subseteq Nat
  /\ {Cols, NPicks, GrowSec, MultWindow, MultCap, PruneEvery, Substeps, Len(TierHp)}
       \subseteq Nat \ {0}
  /\ Mines \subseteq [Rows -> [Columns -> Cell]]
  /\ \A mine \in Mines, r \in Rows, c \in Columns : mine[r][c].id = "mult" => mine[r][c].m > 0
  /\ TierHp \in Seq(Nat \ {0}) /\ TierDmg \in Seq(Nat) /\ Len(TierDmg) = Len(TierHp)
  /\ Reach \in [0..GrowMax -> Nat]
  /\ StartHeight <= Climb

ASSUME MarginAssumption ==
  /\ \A n \in 0..GrowMax, far \in {ChainRadius, RayReach} : Climb + Reach[n] + Chain + far <= Margin
  /\ Climb + Screen <= Margin

Near(cell, n) == {e \in Cells : /\ e[1] \in (cell[1] - n)..(cell[1] + n)
                                /\ e[2] \in (cell[2] - n)..(cell[2] + n)}

Dynamite(mine) == {e \in Cells : mine[e[1]][e[2]].id = "tnt"}
HoldsChains(S, mine) ==
  \A e \in S, n \in {ChainRadius, RayReach} : Near(e, n) \cap Dynamite(mine) \subseteq S
ChainsFrom(at, mine) ==
  {S \in SUBSET Dynamite(mine) : /\ at \in S /\ HoldsChains(S, mine)
                                 /\ \A e \in S : e[1] >= at[1] - Chain}

ASSUME ChainAssumption == \A mine \in Mines : \A at \in Dynamite(mine) : ChainsFrom(at, mine) # {}

VARIABLES
  laid, bonus,               \* the mine of the seed
  rows, prunedAbove,         \* the rows in the cache, and the line above which all are gone
  picks, run,
  turn,                      \* 0 between ticks, p while p is stepped, NPicks + 1 at the end
  left, sweep,               \* the substeps left, and the cells still to be looked at
  touchedTop,
  blast,
  mined, broken              \* history: a mine that forgets nothing, and the cells broken

vars == <<laid, bonus, rows, prunedAbove, picks, run, turn, left, sweep, touchedTop, blast,
          mined, broken>>

(***************************************************************************)
(* The mine.                                                               *)
(***************************************************************************)
Row(r) == IF r \in DOMAIN rows THEN rows[r] ELSE laid[r]
Asked(asked) == [r \in DOMAIN rows \cup asked |-> Row(r)]
CellAt(cell) == Row(cell[1])[cell[2]]

(* What the screen shows of a row, and which rows it leaves in the cache.  *)
Peek(r) == IF r \in DOMAIN rows \/ r >= prunedAbove THEN {r} ELSE {}

RowsOf(cells) == {e[1] : e \in cells}

Put(grid, cell, block) == [grid EXCEPT ![cell[1]][cell[2]] = block]
PutAll(grid, cells) ==
  [r \in DOMAIN grid |-> [c \in Columns |-> IF <<r, c>> \in cells THEN Air ELSE grid[r][c]]]

Tough(id) == IF id = "ore" THEN OreTough ELSE 1
Cost(id) == IF id \in {"tnt", "rubber"} THEN 0 ELSE 1
Value(id) == IF id = "ore" THEN OreValue ELSE 0

(***************************************************************************)
(* The run.                                                                *)
(***************************************************************************)
EnchantSteps == <<4, 5, 6, 8>>
ChainBonus(n) == IF n >= 10 THEN 30 ELSE IF n >= 5 THEN 25 ELSE IF n >= 3 THEN 22 ELSE 20
Worth(pk, n) == n * EnchantSteps[pk.enchantLvl + 1] * run.multActive

Finish(rn, why) == IF rn.over THEN rn ELSE [rn EXCEPT !.over = TRUE, !.reason = why]

Smaller(i, j) == IF i < j THEN i ELSE j
Larger(i, j) == IF i > j THEN i ELSE j

NoBlast == [on |-> FALSE, at |-> <<0, 0>>, queue |-> {}, spent |-> {}, cleared |-> {},
            chainLen |-> 0, got |-> 0]

Pick(tier, col) ==
  [level |-> tier, hp |-> TierHp[tier], enchantLvl |-> 0, topHealUsed |-> FALSE,
   x |-> col, y |-> -StartHeight, depth |-> 0, dead |-> FALSE, growT |-> <<>>, lastHit |-> {}]

(* A bet plays the tier it drew in an ordinary mine; a bought and a won    *)
(* round play theirs in a bonus mine.  A bet that drew nothing has no run. *)
Setups ==
  [mode : {"bet", "buy", "free"}, tier : 1..Len(TierHp), col : Columns]

Init ==
  /\ laid \in Mines
  /\ \E setup \in Setups : /\ bonus = (setup.mode # "bet")
                           /\ picks = [p \in Picks |-> Pick(setup.tier, setup.col)]
  /\ rows = [r \in {} |-> laid[r]] /\ prunedAbove = 0
  /\ run = [collected |-> 0, multActive |-> 1, multWindowT |-> 0, blocks |-> 0, hits |-> 0,
            scatters |-> 0, time |-> 0, over |-> FALSE, reason |-> "none",
            pruneIn |-> PruneEvery]
  /\ turn = 0 /\ left = 0 /\ sweep = {} /\ touchedTop = LastRow + 1 /\ blast = NoBlast
  /\ mined = laid /\ broken = {}

(* The next pick to step, and the end of the tick when there is none.      *)
NextAlive(p, rn) ==
  IF rn.over \/ \A q \in Picks : q <= p \/ picks[q].dead THEN NPicks + 1
  ELSE CHOOSE q \in Picks : /\ q > p /\ ~picks[q].dead
                            /\ \A s \in Picks : s > p /\ ~picks[s].dead => q <= s

(* The window of a multiplier closes whether anybody is digging or not.    *)
Elapsed(rn) ==
  LET t == rn.multWindowT - 1 IN
  IF bonus \/ rn.multWindowT = 0 THEN rn
  ELSE [rn EXCEPT !.multWindowT = t, !.multActive = IF t = 0 THEN 1 ELSE @]

BeginTick ==
  /\ turn = 0 /\ ~run.over
  /\ run' = Elapsed([run EXCEPT !.time = @ + 1])
  /\ turn' = NextAlive(0, run)
  /\ left' = -1 /\ touchedTop' = LastRow + 1
  /\ UNCHANGED <<laid, bonus, rows, prunedAbove, picks, sweep, blast, mined, broken>>

(***************************************************************************)
(* A pick is stepped: timers, then one or more moves, and after each the   *)
(* cells around it.                                                        *)
(***************************************************************************)
(* All timers start with GrowSec, so that the oldest run out first.        *)
Ticked(growT) ==
  LET out == Cardinality({i \in DOMAIN growT : growT[i] = 1})
  IN [i \in 1..(Len(growT) - out) |-> growT[i + out] - 1]
Recent(lastHit) == {h \in lastHit : run.time - h.at < HitCooldown}

Window(pk) == Near(<<pk.y, pk.x>>, Reach[Len(pk.growT)])
Cooling(pk, cell) == \E h \in pk.lastHit : h.cell = cell /\ run.time - h.at < HitCooldown
Strikeable(pk, cell) == CellAt(cell).id # "air" /\ ~Cooling(pk, cell)

(* The cell a pick is in is always struck.                                 *)
Looked(pk) == ~(<<pk.y, pk.x>> \in sweep /\ Strikeable(pk, <<pk.y, pk.x>>)) \/ pk.dead

Moved(p, pk) ==
  \E x \in {pk.x - 1, pk.x, pk.x + 1} \cap Columns, y \in (pk.y - 1)..(pk.y + 1) :
    LET to == [pk EXCEPT !.x = x, !.y = y] IN
    /\ y <= LastRow /\ y >= Larger(pk.depth, pk.y) - Climb
    /\ picks' = [picks EXCEPT ![p] = to]
    /\ sweep' = Window(to)
    /\ rows' = Asked(RowsOf(Window(to)))
    /\ UNCHANGED <<laid, bonus, prunedAbove, run, turn, touchedTop, blast, mined, broken>>

StepPick(p) ==
  /\ turn = p /\ left = -1
  /\ left' \in 0..(Substeps - 1)
  /\ Moved(p, [picks[p] EXCEPT !.growT = Ticked(@), !.lastHit = Recent(@)])

Substep(p) ==
  /\ turn = p /\ left > 0 /\ ~blast.on /\ Looked(picks[p]) /\ ~picks[p].dead
  /\ left' = left - 1
  /\ Moved(p, picks[p])

EndStep(p) ==
  /\ turn = p /\ left >= 0 /\ ~blast.on /\ Looked(picks[p]) /\ (left = 0 \/ picks[p].dead)
  /\ picks' = [picks EXCEPT ![p].depth = Larger(@, picks[p].y)]
  /\ touchedTop' = Smaller(touchedTop, picks[p].y)
  /\ turn' = NextAlive(p, run) /\ left' = -1 /\ sweep' = {}
  /\ UNCHANGED <<laid, bonus, rows, prunedAbove, run, blast, mined, broken>>

(* The tail of the tick: who is left, the limit of time, the rows behind.  *)
Ended ==
  IF \A p \in Picks : picks[p].dead THEN Finish(run, "broken")
  ELSE IF run.time > MaxTime THEN Finish(run, "timeout") ELSE run

\* Mutants: no margin; the margin that physics alone needs.
PruneLine_NoMargin == touchedTop
PruneLine_ForPhysics == touchedTop - Climb - Reach[GrowMax] - Chain

PruneLine == touchedTop - Margin

EndTick ==
  LET due == run.pruneIn = 1
      line == Larger(prunedAbove, IF due /\ touchedTop <= LastRow THEN PruneLine ELSE 0)
  IN /\ turn = NPicks + 1
     /\ run' = [Ended EXCEPT !.pruneIn = IF due THEN PruneEvery ELSE @ - 1]
     /\ rows' = [r \in {k \in DOMAIN rows : k >= line} |-> rows[r]]
     /\ prunedAbove' = line
     /\ turn' = 0 /\ left' = 0 /\ touchedTop' = LastRow + 1
     /\ UNCHANGED <<laid, bonus, picks, sweep, blast, mined, broken>>

(***************************************************************************)
(* A strike.  pk and rn are the pick and the run after what the block does *)
(* to them; the pick pays the cost before it, and dies of it after it.     *)
(***************************************************************************)
After(cell) == {e \in sweep : e[1] > cell[1] \/ (e[1] = cell[1] /\ e[2] > cell[2])}

Paid(p, cell) == [picks[p] EXCEPT !.hp = @ - Cost(CellAt(cell).id)]

(* The cooldown is kept of a block that is still there.                    *)
Cooled(pk, cell) ==
  [pk EXCEPT !.lastHit = {h \in @ : h.cell # cell} \cup {[cell |-> cell, at |-> run.time]}]

CheckDead(pk) == [pk EXCEPT !.dead = pk.hp <= 0]
CheckHits(rn) == IF rn.hits >= MaxHits * NPicks THEN Finish(rn, "limit") ELSE rn

Struck(p, cell, id) ==
  /\ turn = p /\ left >= 0 /\ ~blast.on /\ cell \in sweep /\ ~picks[p].dead
  /\ CellAt(cell).id = id /\ Strikeable(picks[p], cell)
  /\ sweep' = After(cell)
  /\ UNCHANGED <<laid, bonus, prunedAbove, turn, left, touchedTop>>

Becomes(p, pk, rn) ==
  /\ picks' = [picks EXCEPT ![p] = CheckDead(pk)]
  /\ run' = CheckHits([rn EXCEPT !.hits = @ + 1])
  /\ UNCHANGED blast

Gone(cell) ==
  /\ rows' = Put(rows, cell, Air) /\ mined' = Put(mined, cell, Air)
  /\ UNCHANGED broken

(* The workbench: the next tier, and at the top one full cure and then a   *)
(* little of it.                                                           *)
Upgraded(pk) ==
  IF pk.level < Len(TierHp)
  THEN [pk EXCEPT !.level = @ + 1, !.hp = TierHp[pk.level + 1]]
  ELSE IF ~pk.topHealUsed THEN [pk EXCEPT !.hp = TierHp[pk.level], !.topHealUsed = TRUE]
  ELSE [pk EXCEPT !.hp = @ + Smaller(TopHeal, TierHp[pk.level] - @)]

StrikeUpgrade(p, cell) ==
  /\ Struck(p, cell, "upgrade") /\ Gone(cell)
  /\ Becomes(p, Upgraded(Paid(p, cell)), run)

Enchanted(pk) == [pk EXCEPT !.enchantLvl = Smaller(@ + 1, Len(EnchantSteps) - 1)]

StrikeMagic(p, cell) ==
  /\ Struck(p, cell, "magic") /\ Gone(cell)
  /\ Becomes(p, Enchanted(Paid(p, cell)), run)

Grown(pk) ==
  IF Len(pk.growT) < GrowMax THEN [pk EXCEPT !.growT = Append(@, GrowSec)] ELSE pk

(* The pick grows at once, and the sweep goes on within the old window.    *)
StrikeGrow(p, cell) ==
  /\ Struck(p, cell, "grow") /\ Gone(cell)
  /\ Becomes(p, Grown(Paid(p, cell)), run)

StrikeScatter(p, cell) ==
  /\ Struck(p, cell, "scatter") /\ Gone(cell)
  /\ Becomes(p, Paid(p, cell), [run EXCEPT !.scatters = @ + 1])

StrikeRubber(p, cell) ==
  /\ Struck(p, cell, "rubber")
  /\ Becomes(p, Cooled(Paid(p, cell), cell), run)
  /\ UNCHANGED <<rows, mined, broken>>

Multiplied(m) ==
  IF bonus
  THEN [run EXCEPT !.multActive = Smaller(MultCap, (IF @ <= 1 THEN 0 ELSE @) + m)]
  ELSE [run EXCEPT !.multActive = Larger(@, m), !.multWindowT = MultWindow]

StrikeMult(p, cell) ==
  /\ Struck(p, cell, "mult") /\ Gone(cell)
  /\ Becomes(p, Paid(p, cell), Multiplied(CellAt(cell).m))

Dented(cell, dmg) == [cell EXCEPT !.dmg = @ + dmg]

StrikeSolid(p, cell) ==
  LET id == CellAt(cell).id
      dmg == TierDmg[picks[p].level]
      hole == CellAt(cell).dmg + dmg >= Tough(id)
  IN /\ id \in {"stone", "ore"} /\ Struck(p, cell, id)
     /\ Becomes(p, IF hole THEN Paid(p, cell) ELSE Cooled(Paid(p, cell), cell),
                IF hole THEN [run EXCEPT !.blocks = @ + 1,
                                         !.collected = @ + 20 * Worth(picks[p], Value(id))]
                ELSE run)
     /\ broken' = IF hole THEN broken \cup {cell} ELSE broken
     /\ IF hole THEN rows' = Put(rows, cell, Air) /\ mined' = Put(mined, cell, Air)
        ELSE /\ rows' = Put(rows, cell, Dented(CellAt(cell), dmg))
             /\ mined' = Put(mined, cell, Dented(mined[cell[1]][cell[2]], dmg))

(***************************************************************************)
(* Dynamite.  A strike lights it, and then one epicentre after another     *)
(* goes off; the queue is served in any order.                             *)
(***************************************************************************)
StrikeTnt(p, cell) ==
  /\ Struck(p, cell, "tnt") /\ Gone(cell)
  /\ picks' = [picks EXCEPT ![p] = Paid(p, cell)]
  /\ run' = [run EXCEPT !.hits = @ + 1]
  /\ blast' = [NoBlast EXCEPT !.on = TRUE, !.at = cell, !.queue = {cell}, !.cleared = {cell}]

InBlast(cell) == cell \notin blast.cleared
Fuses(at, n) == {e \in Near(at, n) : InBlast(e) /\ CellAt(e).id = "tnt"}
Soft(at) == {e \in Near(at, RayReach) :
               InBlast(e) /\ CellAt(e).id \in {"stone", "ore", "magic", "upgrade"}}

SumOf(cells) == OreValue * Cardinality({e \in cells : CellAt(e).id = "ore"})

\* Mutant: the limit of fuses cuts all dynamite alike.
Caught_AllCut(at) ==
  {hit \in SUBSET (Fuses(at, RayReach) \cup Fuses(at, ChainRadius) \cup Soft(at)) :
     Cardinality(hit) <= TntMaxHits}

(* Dynamite within the radius always goes off, the limit cuts the rest.    *)
Caught(at) ==
  {hit \in SUBSET (Fuses(at, RayReach) \cup Fuses(at, ChainRadius) \cup Soft(at)) :
     /\ Fuses(at, ChainRadius) \subseteq hit
     /\ Cardinality(hit \ Fuses(at, RayReach + ChainRadius)) <= TntMaxHits}

(* The rows that rays ask for, those that hit nothing there included.      *)
Flown(at) == {Rows \cap (at[1] - n)..(at[1] + k) : n, k \in 0..RayReach}

Explode(p) ==
  /\ turn = p /\ blast.on /\ blast.chainLen < ChainGuard
  /\ \E at \in blast.queue : \E hit \in Caught(at), flown \in Flown(at) :
       LET seen == RowsOf(Near(at, ChainRadius) \cup hit) \cup flown
           lit == {e \in hit : CellAt(e).id = "tnt"}
       IN /\ rows' = PutAll(Asked(seen), hit)
          /\ mined' = PutAll(mined, hit)
          /\ broken' = broken \cup hit
          /\ run' = [run EXCEPT !.blocks = @ + Cardinality(hit)]
          /\ blast' = [blast EXCEPT !.queue = (@ \ {at}) \cup lit, !.spent = @ \cup {at},
                                    !.cleared = @ \cup hit, !.chainLen = @ + 1,
                                    !.got = @ + Worth(picks[p], SumOf(hit))]
  /\ UNCHANGED <<laid, bonus, prunedAbove, picks, turn, left, sweep, touchedTop>>

EndBlast(p) ==
  /\ turn = p /\ blast.on /\ (blast.queue = {} \/ blast.chainLen = ChainGuard)
  /\ picks' = [picks EXCEPT ![p] = CheckDead(@)]
  /\ run' = CheckHits([run EXCEPT !.collected = @ + blast.got * ChainBonus(blast.chainLen)])
  /\ blast' = NoBlast
  /\ UNCHANGED <<laid, bonus, rows, prunedAbove, turn, left, sweep, touchedTop, mined, broken>>

(***************************************************************************)
(* The client draws a frame between two ticks.                             *)
(***************************************************************************)
Highest == CHOOSE y \in {picks[p].y : p \in Picks} : \A p \in Picks : y <= picks[p].y
OnScreen == {r \in Rows : r >= Highest - Screen}

Draw ==
  /\ turn = 0
  /\ rows' = Asked(UNION {Peek(r) : r \in OnScreen})
  /\ UNCHANGED <<laid, bonus, prunedAbove, picks, run, turn, left, sweep, touchedTop, blast,
                 mined, broken>>

Strike(p, cell) ==
  \/ StrikeUpgrade(p, cell) \/ StrikeMagic(p, cell) \/ StrikeGrow(p, cell)
  \/ StrikeScatter(p, cell) \/ StrikeRubber(p, cell) \/ StrikeMult(p, cell)
  \/ StrikeSolid(p, cell) \/ StrikeTnt(p, cell)

Next ==
  \/ BeginTick \/ EndTick \/ Draw
  \/ \E p \in Picks : \/ StepPick(p) \/ Substep(p) \/ EndStep(p)
                      \/ \E cell \in sweep : Strike(p, cell)
                      \/ Explode(p) \/ EndBlast(p)

Spec == Init /\ [][Next]_vars

(***************************************************************************)
(* Properties.                                                             *)
(***************************************************************************)
(* Types, and a window that is never overdrawn.                            *)
TypeOK ==
  /\ laid \in Mines /\ bonus \in BOOLEAN /\ mined \in [Rows -> [Columns -> Cell]]
  /\ DOMAIN rows \subseteq Rows /\ \A r \in DOMAIN rows : rows[r] \in [Columns -> Cell]
  /\ prunedAbove \in Nat /\ turn \in 0..(NPicks + 1) /\ left \in -1..Substeps
  /\ sweep \subseteq Cells /\ broken \subseteq Cells
  /\ run.collected \in Nat /\ run.multActive \in Nat \ {0} /\ run.blocks \in Nat
  /\ run.multWindowT \in 0..MultWindow /\ run.pruneIn \in 1..PruneEvery

(* What the physics reads is what the strikes have made of the mine: no    *)
(* row comes back whole into the cache, whatever was thrown away and       *)
(* whatever was drawn in between.  Server and client arrive at one sum     *)
(* because of it.                                                          *)
MineIsHonest == \A r \in DOMAIN rows : rows[r] = mined[r]

(* The same of what the player sees: no hole grows over on the screen.     *)
ScreenIsHonest == turn = 0 => \A r \in OnScreen : Row(r) = mined[r]

(* The counter of broken blocks counts no block twice, however strikes,    *)
(* rays and chains overlap.                                                *)
EachBlockOnce == run.blocks = Cardinality(broken)

(* A chain that was not stopped by its guard leaves no dynamite within the *)
(* radius of any of its epicentres.                                        *)
ChainIsComplete ==
  [][blast.on /\ ~blast'.on /\ blast.queue = {} =>
       \A at \in blast.spent : \A e \in Near(at, ChainRadius) : CellAt(e).id # "tnt"]_vars

=============================================================================
