------------------------- MODULE ChainReaders_proofs --------------------------
(***************************************************************************)
(* Theorems about ChainReaders, for any number of transfers, any size of   *)
(* a page and any number of pages a scan may read.  A page is the first    *)
(* PageSize transfers of what is left of the window; all that is needed of *)
(* it is that what it leaves out comes after everything in it, and that    *)
(* it leaves nothing out when it is short.                                 *)
(***************************************************************************)
EXTENDS ChainReaders, FiniteSetTheorems, WellFoundedInduction, NaturalsInduction, TLAPS

(***************************************************************************)
(* The least and the greatest of a bounded set of numbers.                 *)
(***************************************************************************)
LEMMA LeastExists ==
  ASSUME NEW S \in SUBSET Nat, S # {}
  PROVE  \E x \in S : \A y \in S : x <= y
<1>1. PICK x \in S : \A y \in S : <<y, x>> \notin OpToRel(<, Nat)
  BY WFMin, NatLessThanWellFounded, Zenon
<1>2. \A y \in S : ~(y < x)
  BY <1>1, Zenon DEF OpToRel
<1> QED BY <1>2

LEMMA GreatestExists ==
  ASSUME NEW n \in Nat, NEW S \in SUBSET (0..n), S # {}
  PROVE  \E x \in S : \A y \in S : y <= x
<1> DEFINE T == {m \in Nat : \E x \in S : m = n - x}
<1>1. T # {}
  <2>1. PICK x \in S : TRUE
    OBVIOUS
  <2>2. x \in 0..n
    OBVIOUS
  <2>3. n - x \in Nat
    BY <2>2
  <2> QED BY <2>1, <2>3
<1>2. PICK t \in T : \A u \in T : t <= u
  BY <1>1, LeastExists
<1>3. PICK x \in S : t = n - x
  OBVIOUS
<1>4. ASSUME NEW y \in S PROVE y <= x
  <2>1. x \in 0..n /\ y \in 0..n
    OBVIOUS
  <2>2. n - y \in T
    BY <2>1
  <2> QED BY <1>2, <1>3, <2>1, <2>2
<1> QED BY <1>4

LEMMA MaxIsIn ==
  ASSUME NEW n \in Nat, NEW S \in SUBSET (0..n), S # {}
  PROVE  Max(S) \in S /\ \A y \in S : y <= Max(S)
<1>1. PICK x \in S : \A y \in S : y <= x
  BY GreatestExists
<1>2. \A y \in S : y \in Nat
  OBVIOUS
<1>3. \E z \in S : \A y \in S : z >= y
  BY <1>1, <1>2
<1>4. Max(S) \in S /\ \A y \in S : Max(S) >= y
  BY <1>3, Zenon DEF Max
<1> QED BY <1>2, <1>4

LEMMA EventsAreNumbers ==
  /\ Cardinality(Events) \in Nat /\ IsFiniteSet(Events)
  /\ \A e \in Events : e \in 1..Cardinality(Events)
<1>1. Cardinality(Events) \in Nat /\ Events = 1..Cardinality(Events)
  BY EventsAssumption
<1>2. IsFiniteSet(1..Cardinality(Events))
  BY <1>1, FS_Interval
<1> QED BY <1>1, <1>2

(***************************************************************************)
(* The invariant of every reader: types, and time goes with the numbers.   *)
(***************************************************************************)
Scans ==
  [pages : 1..MaxPages, from : Nat, last : Nat, newest : Nat, got : SUBSET Events,
   missed : SUBSET Events]

ScanFits ==
  scan # Idle =>
    /\ scan \in Scans /\ scan.got \cup scan.missed \subseteq Appeared
    /\ scan.last \in Appeared \cup {0}
    /\ scan.from = cursor /\ scan.newest >= cursor

Fits ==
  /\ reader \in Readers
  /\ clock \in 1..(MaxTime + 1)
  /\ Appeared \subseteq Events /\ time \in [Appeared -> 1..clock]
  /\ hidden \subseteq Appeared /\ reported \subseteq Appeared /\ missed \subseteq Appeared
  /\ cursor \in Nat /\ failures \in 0..MaxFailures
  /\ ScanFits

InOrder ==
  /\ \A e \in Appeared, f \in Events \ Appeared : e < f
  /\ \A e, f \in Appeared : e < f => time[e] <= time[f]

LEMMA AppearedIsFinite ==
  ASSUME Fits, NEW S, S \subseteq Appeared
  PROVE  IsFiniteSet(S) /\ Cardinality(S) \in Nat /\ \A e \in S : e \in Nat /\ e > 0
<1>1. IsFiniteSet(S)
  BY EventsAreNumbers, FS_Subset DEF Fits
<1> QED BY <1>1, FS_CardinalityType, EventsAreNumbers DEF Fits

LEMMA BeforeOrders ==
  ASSUME NEW e \in Nat, NEW f \in Nat
  PROVE  /\ Before(e, f) \/ Before(f, e) \/ e = f
         /\ ~(Before(e, f) /\ Before(f, e)) /\ ~Before(e, e)
         /\ \A g \in Nat : Before(e, f) /\ Before(f, g) => Before(e, g)
BY DEF Before

LEMMA PageIsOfRest ==
  ASSUME Fits, NEW cur, NEW last
  PROVE  /\ Page(cur, last) \subseteq Rest(cur, last) /\ Rest(cur, last) \subseteq Appeared
         /\ \A e \in Rest(cur, last) :
              e \in Page(cur, last) <=> Cardinality({f \in Rest(cur, last) : Before(f, e)}) < PageSize
BY DEF Page, Rest, Window, Listed, Fits

\* What a page leaves out comes after all that is in it.
LEMMA PageIsFirst ==
  ASSUME Fits, NEW cur, NEW last,
         NEW e \in Rest(cur, last), e \notin Page(cur, last), NEW p \in Page(cur, last)
  PROVE  Before(p, e)
<1> DEFINE R == Rest(cur, last)
           Ahead(x) == {f \in R : Before(f, x)}
<1>1. p \in R /\ R \subseteq Appeared /\ e \in Nat /\ p \in Nat
  BY PageIsOfRest, AppearedIsFinite
<1>2. SUFFICES ASSUME Before(e, p) \/ e = p PROVE FALSE
  BY <1>1, BeforeOrders
<1>3. Ahead(e) \subseteq Ahead(p)
  <2> SUFFICES ASSUME NEW f \in R, Before(f, e) PROVE Before(f, p)
    OBVIOUS
  <2>1. f \in Nat
    BY <1>1, AppearedIsFinite
  <2> QED BY <1>1, <1>2, <2>1, BeforeOrders
<1>4. Cardinality(Ahead(e)) <= Cardinality(Ahead(p))
  <2>1. IsFiniteSet(Ahead(p))
    BY <1>1, AppearedIsFinite
  <2> QED BY <1>3, <2>1, FS_Subset
<1>5. Cardinality(Ahead(e)) \in Nat /\ Cardinality(Ahead(p)) \in Nat
  <2>1. Ahead(e) \subseteq Appeared /\ Ahead(p) \subseteq Appeared
    BY <1>1
  <2> QED BY <2>1, AppearedIsFinite
<1>6. Cardinality(Ahead(p)) < PageSize /\ ~(Cardinality(Ahead(e)) < PageSize)
  BY PageIsOfRest
<1> HIDE DEF Ahead
<1> QED BY <1>4, <1>5, <1>6, PagingAssumption

\* A set of transfers has a first one.
LEMMA FirstExists ==
  ASSUME Fits, NEW S, S \subseteq Appeared, S # {}
  PROVE  /\ \E e \in S : \A f \in S : f = e \/ Before(f, e)
         /\ \E e \in S : \A f \in S : f = e \/ Before(e, f)
<1>1. S \in SUBSET (0..Cardinality(Events)) /\ S \in SUBSET Nat
  BY EventsAreNumbers, AppearedIsFinite DEF Fits
<1>2. PICK a \in S : \A y \in S : a <= y
  BY <1>1, LeastExists
<1>3. PICK z \in S : \A y \in S : y <= z
  BY <1>1, EventsAreNumbers, GreatestExists
<1>4. \A y \in S : y \in Nat
  BY <1>1
<1>5. CASE reader \in Ascending
  BY <1>2, <1>3, <1>4, <1>5 DEF Before
<1>6. CASE reader \notin Ascending
  BY <1>2, <1>3, <1>4, <1>6 DEF Before
<1> QED BY <1>5, <1>6

LEMMA LastOfIsLast ==
  ASSUME Fits, NEW page, page \subseteq Appeared, page # {}
  PROVE  LastOf(page) \in page /\ \A f \in page : f = LastOf(page) \/ Before(f, LastOf(page))
<1>1. \E e \in page : \A f \in page : f = e \/ Before(f, e)
  BY FirstExists
<1> QED BY <1>1, Zenon DEF LastOf

\* The newest a cursor has to cover is its own, or that of a row it acts on.
LEMMA NewestIs ==
  ASSUME Fits, NEW cur \in Nat, NEW page, page \subseteq Appeared
  PROVE  /\ Newest(cur, page) \in Nat /\ Newest(cur, page) >= cur
         /\ reader \in ByTime =>
              /\ \/ Newest(cur, page) = cur
                 \/ \E e \in Final(page) : Newest(cur, page) = time[e]
              /\ \A e \in Final(page) : time[e] <= Newest(cur, page)
         /\ reader \notin ByTime =>
              /\ Newest(cur, page) \in {cur} \cup page
              /\ \A e \in page : e <= Newest(cur, page)
<1>1. CASE reader \in ByTime
  <2> DEFINE S == {cur} \cup {time[e] : e \in Final(page)}
  <2>1. \A e \in page : time[e] \in 1..clock
    BY DEF Fits
  <2>2. clock \in Nat
    BY BoundsAssumption DEF Fits
  <2>3. S \in SUBSET (0..(cur + clock)) /\ S # {}
    BY <2>1, <2>2 DEF Final
  <2>4. Max(S) \in S /\ \A y \in S : y <= Max(S)
    <3>1. cur + clock \in Nat
      BY <2>2
    <3> HIDE DEF S
    <3> QED BY <2>3, <3>1, MaxIsIn
  <2>5. Newest(cur, page) = Max(S)
    BY <1>1 DEF Newest
  <2>6. Max(S) \in Nat /\ cur <= Max(S)
    BY <2>2, <2>3, <2>4
  <2>7. Max(S) = cur \/ \E e \in Final(page) : Max(S) = time[e]
    BY <2>4
  <2>8. \A e \in Final(page) : time[e] <= Max(S)
    BY <2>4
  <2> HIDE DEF S
  <2> QED BY <1>1, <2>5, <2>6, <2>7, <2>8
<1>2. CASE reader \notin ByTime
  <2> DEFINE S == {cur} \cup page
  <2>1. S \in SUBSET (0..(cur + Cardinality(Events))) /\ S # {}
    BY EventsAreNumbers DEF Fits
  <2>2. Max(S) \in S /\ \A y \in S : y <= Max(S)
    <3>1. cur + Cardinality(Events) \in Nat
      BY EventsAreNumbers
    <3> HIDE DEF S
    <3> QED BY <2>1, <3>1, MaxIsIn
  <2>3. Newest(cur, page) = Max(S)
    BY <1>2 DEF Newest
  <2>4. Max(S) \in Nat /\ cur <= Max(S)
    <3>1. cur \in S /\ S \in SUBSET Nat
      BY EventsAreNumbers DEF Fits
    <3> HIDE DEF S
    <3> QED BY <2>2, <3>1
  <2>5. Max(S) \in {cur} \cup page /\ \A e \in page : e <= Max(S)
    BY <2>2
  <2> HIDE DEF S
  <2> QED BY <1>2, <2>3, <2>4, <2>5
<1> QED BY <1>1, <1>2

(***************************************************************************)
(* The steps.                                                              *)
(***************************************************************************)
\* The page a scan has before it, and what it comes to after it.
NextOne == Page(scan.from, scan.last)

LEMMA PageFits ==
  ASSUME Fits, scan # Idle
  PROVE  /\ NextOne \subseteq Appeared /\ IsFiniteSet(NextOne)
         /\ Final(NextOne) \subseteq Appeared /\ Overtaken(NextOne) \subseteq Appeared
         /\ Newest(scan.newest, NextOne) \in Nat /\ Newest(scan.newest, NextOne) >= scan.newest
         /\ Newest(scan.newest, NextOne) >= cursor
<1>1. NextOne \subseteq Appeared
  BY PageIsOfRest DEF NextOne
<1>2. scan.newest \in Nat /\ cursor \in Nat /\ scan.newest >= cursor
  BY DEF Fits, ScanFits, Scans
<1>3. /\ IsFiniteSet(NextOne)
      /\ Final(NextOne) \subseteq Appeared /\ Overtaken(NextOne) \subseteq Appeared
  BY <1>1, AppearedIsFinite DEF Final, Overtaken, Fits
<1>4. Newest(scan.newest, NextOne) \in Nat /\ Newest(scan.newest, NextOne) >= scan.newest
  BY <1>1, <1>2, NewestIs
<1> QED BY <1>1, <1>2, <1>3, <1>4

LEMMA FullIsNotEmpty ==
  ASSUME Fits, scan # Idle, Cardinality(NextOne) = PageSize
  PROVE  /\ NextOne # {} /\ LastOf(NextOne) \in NextOne
         /\ \A f \in NextOne : f = LastOf(NextOne) \/ Before(f, LastOf(NextOne))
<1>1. NextOne # {}
  BY FS_EmptySet, PagingAssumption
<1> QED BY <1>1, PageFits, LastOfIsLast

LEMMA NextPageIs ==
  ASSUME NextPage
  PROVE  /\ scan # Idle /\ Cardinality(NextOne) = PageSize /\ scan.pages < MaxPages
         /\ scan' = [scan EXCEPT !.pages = @ + 1, !.last = LastOf(NextOne),
                                 !.newest = Newest(@, NextOne), !.got = @ \cup Final(NextOne),
                                 !.missed = @ \cup Overtaken(NextOne)]
         /\ UNCHANGED <<reader, clock, time, hidden, cursor, reported, missed, failures>>
BY DEF NextPage, NextOne

LEMMA NextPageScan ==
  ASSUME Fits, NextPage
  PROVE  /\ scan' \in Scans /\ scan'.pages = scan.pages + 1 /\ scan'.from = cursor
         /\ scan'.last = LastOf(NextOne) /\ scan'.newest = Newest(scan.newest, NextOne)
         /\ scan'.got = scan.got \cup Final(NextOne)
         /\ scan'.missed = scan.missed \cup Overtaken(NextOne)
         /\ scan'.got \cup scan'.missed \subseteq Appeared
         /\ scan'.last \in Appeared /\ scan'.newest >= cursor
<1> DEFINE got == scan.got \cup Final(NextOne)
           lost == scan.missed \cup Overtaken(NextOne)
           last == LastOf(NextOne)
           newest == Newest(scan.newest, NextOne)
<1>1. scan # Idle /\ scan \in Scans /\ scan.from = cursor
      /\ scan.got \cup scan.missed \subseteq Appeared
  BY NextPageIs DEF Fits, ScanFits
<1>2. scan.pages + 1 \in 1..MaxPages
  BY <1>1, NextPageIs, PagingAssumption DEF Scans
<1>3. last \in Appeared /\ last \in Nat
  BY NextPageIs, FullIsNotEmpty, PageFits, AppearedIsFinite
<1>4. /\ got \cup lost \subseteq Appeared
      /\ got \in SUBSET Events /\ lost \in SUBSET Events
  BY <1>1, PageFits DEF Fits
<1>5. newest \in Nat /\ newest >= cursor
  BY <1>1, PageFits
<1>6. scan' = [scan EXCEPT !.pages = scan.pages + 1, !.last = last, !.newest = newest,
                            !.got = got, !.missed = lost]
  BY NextPageIs
<1> HIDE DEF got, last, newest, lost
<1>7. /\ scan'.pages = scan.pages + 1 /\ scan'.from = scan.from /\ scan'.last = last
      /\ scan'.newest = newest /\ scan'.got = got /\ scan'.missed = lost
  BY <1>1, <1>6 DEF Scans
<1>8. scan' \in Scans
  <2>1. ASSUME NEW p \in 1..MaxPages, NEW l \in Nat, NEW n \in Nat, NEW g \in SUBSET Events,
               NEW m \in SUBSET Events
        PROVE  [scan EXCEPT !.pages = p, !.last = l, !.newest = n, !.got = g, !.missed = m]
                 \in Scans
    BY <1>1 DEF Scans
  <2> QED BY <1>2, <1>3, <1>4, <1>5, <1>6, <2>1
<1> QED BY <1>1, <1>3, <1>4, <1>5, <1>7, <1>8 DEF got, last, newest, lost

LEMMA LastPageIs ==
  ASSUME LastPage
  PROVE  /\ scan # Idle /\ scan' = Idle /\ cursor' = Newest(scan.newest, NextOne)
         /\ reported' = reported \cup scan.got \cup Final(NextOne)
         /\ missed' = missed \cup scan.missed \cup Overtaken(NextOne) \cup CutOff(NextOne)
         /\ UNCHANGED <<reader, clock, time, hidden, failures>>
BY DEF LastPage, NextOne

LEMMA ScanIsNotIdle == ASSUME NEW s \in Scans PROVE s # Idle
BY DEF Scans, Idle

\* A transfer that is made is the next one, at the present time.
LEMMA TransferIs ==
  ASSUME Fits, NEW late \in BOOLEAN, Transfer(late)
  PROVE  \E e \in Events \ Appeared :
           /\ \A f \in Events \ Appeared : e <= f
           /\ Appeared' = Appeared \cup {e} /\ time'[e] = clock
           /\ \A f \in Appeared : time'[f] = time[f]
           /\ hidden' \in {hidden, hidden \cup {e}} /\ (~late => hidden' = hidden)
           /\ time' \in [Appeared' -> 1..clock]
<1>1. PICK e \in Events \ Appeared :
        /\ \A f \in Events \ Appeared : e <= f
        /\ time' = [f \in Appeared \cup {e} |-> IF f = e THEN clock ELSE time[f]]
        /\ hidden' = IF late THEN hidden \cup {e} ELSE hidden
  BY DEF Transfer
<1>2. Appeared' = Appeared \cup {e} /\ time'[e] = clock /\ \A f \in Appeared : time'[f] = time[f]
  BY <1>1 DEF Appeared
<1>3. clock \in 1..clock
  BY BoundsAssumption DEF Fits
<1>4. time' \in [Appeared' -> 1..clock]
  BY <1>1, <1>2, <1>3 DEF Fits
<1> QED BY <1>1, <1>2, <1>4

LEMMA FitsInit == Init => Fits /\ InOrder
<1> SUFFICES ASSUME Init PROVE Fits /\ InOrder
  OBVIOUS
<1>1. Appeared = {} /\ time \in [Appeared -> 1..clock]
  BY DEF Init, Appeared
<1>2. 1 \in 1..(MaxTime + 1) /\ 0 \in 0..MaxFailures
  BY BoundsAssumption
<1> QED BY <1>1, <1>2 DEF Init, Fits, InOrder, ScanFits

LEMMA FitsNext ==
  ASSUME Fits, InOrder, [Next]_vars
  PROVE  Fits' /\ InOrder'
<1>1. CASE Tick
  <2>1. clock' \in 1..(MaxTime + 1) /\ clock <= clock' /\ clock \in Nat /\ clock' \in Nat
    BY <1>1, BoundsAssumption DEF Tick, Fits
  <2>2. Appeared' = Appeared /\ time' \in [Appeared -> 1..clock']
    BY <1>1, <2>1 DEF Tick, Fits, Appeared
  <2> QED BY <1>1, <2>1, <2>2 DEF Tick, Fits, InOrder, ScanFits
<1>2. CASE \E late \in BOOLEAN : Transfer(late)
  <2>1. PICK late \in BOOLEAN : Transfer(late)
    BY <1>2
  <2>2. PICK e \in Events \ Appeared :
           /\ \A f \in Events \ Appeared : e <= f
           /\ Appeared' = Appeared \cup {e} /\ time'[e] = clock
           /\ \A f \in Appeared : time'[f] = time[f]
           /\ hidden' \in {hidden, hidden \cup {e}}
           /\ time' \in [Appeared' -> 1..clock]
    BY <2>1, TransferIs
  <2>3. UNCHANGED <<reader, clock, cursor, scan, reported, missed, failures>>
    BY <2>1 DEF Transfer
  <2>4. Fits'
    BY <2>2, <2>3 DEF Fits, ScanFits
  <2>5. \A f \in Events : f \in Nat
    BY EventsAreNumbers
  <2>6. ASSUME NEW x \in Appeared', NEW f \in Events \ Appeared' PROVE x < f
    BY <2>2, <2>5, <2>6 DEF InOrder, Fits
  <2>7. ASSUME NEW x \in Appeared', NEW y \in Appeared', x < y PROVE time'[x] <= time'[y]
    <3>1. CASE y \in Appeared
      <4>1. x \in Appeared
        BY <2>2, <2>5, <2>7, <3>1 DEF InOrder, Fits
      <4> QED BY <2>2, <2>7, <3>1, <4>1 DEF InOrder
    <3>2. CASE y = e
      <4>1. x \in Appeared /\ time[x] \in 1..clock /\ clock \in Nat
        BY <2>2, <2>5, <2>7, <3>2, BoundsAssumption DEF Fits
      <4> QED BY <2>2, <3>2, <4>1
    <3> QED BY <2>2, <3>1, <3>2
  <2> QED BY <2>4, <2>6, <2>7 DEF InOrder
<1>3. CASE \E e \in hidden : Show(e)
  BY <1>3 DEF Show, Fits, InOrder, ScanFits, Appeared
<1>4. CASE Begin
  <2>1. scan'.from = cursor /\ scan'.newest = cursor /\ scan'.got = {} /\ scan'.last = 0
        /\ scan'.missed = {}
    BY <1>4 DEF Begin
  <2>2. scan' \in Scans
    BY <1>4, PagingAssumption DEF Begin, Scans, Fits
  <2> QED BY <1>4, <2>1, <2>2 DEF Begin, Fits, InOrder, ScanFits, Appeared
<1>5. CASE NextPage
  BY <1>5, NextPageScan, NextPageIs DEF Fits, InOrder, ScanFits, Appeared
<1>6. CASE LastPage
  <2>1. /\ scan # Idle /\ scan' = Idle /\ cursor' = Newest(scan.newest, NextOne)
        /\ reported' = reported \cup scan.got \cup Final(NextOne)
        /\ missed' = missed \cup scan.missed \cup Overtaken(NextOne) \cup CutOff(NextOne)
        /\ UNCHANGED <<reader, clock, time, hidden, failures>>
    BY <1>6, LastPageIs
  <2>2. cursor' \in Nat /\ reported' \subseteq Appeared
    BY <2>1, PageFits DEF Fits, ScanFits
  <2>3. CutOff(NextOne) \subseteq Appeared BY PageIsOfRest DEF CutOff
  <2>4. missed' \subseteq Appeared BY <2>1, <2>3, PageFits DEF Fits, ScanFits
  <2> QED BY <2>1, <2>2, <2>4 DEF Fits, InOrder, ScanFits, Appeared
<1>7. CASE Fail
  <2>1. failures' \in 0..MaxFailures
    BY <1>7, BoundsAssumption DEF Fail, Fits
  <2> QED BY <1>7, <2>1 DEF Fail, Fits, InOrder, ScanFits, Appeared
<1>8. CASE UNCHANGED vars
  BY <1>8 DEF vars, Fits, InOrder, ScanFits, Appeared
<1> QED BY <1>1, <1>2, <1>3, <1>4, <1>5, <1>6, <1>7, <1>8 DEF Next

(***************************************************************************)
(* What a scan covers.  A transfer that was neither reported nor missed is *)
(* in reach of the cursor; while a scan runs, one that is not in hand      *)
(* either comes after its last page, or was made too late for it and is in *)
(* reach of the cursor it is about to store.  A reader that lists from the *)
(* oldest passes nothing it has not in hand; one that lists from the       *)
(* newest is not about to put out of reach what is still hidden.           *)
(***************************************************************************)
Reached(e, cur) == IF reader \in ByTime THEN time[e] >= cur - 1 ELSE e > cur

NoFuture(cur) == IF reader \in ByTime THEN cur <= clock ELSE cur \in Appeared \cup {0}

InHand == scan.got \cup scan.missed

ScanCovers ==
  /\ NoFuture(scan.newest) /\ (scan.last = 0 => scan.newest = cursor)
  /\ \A e \in Appeared \ (reported \cup missed \cup InHand) :
       \/ scan.last = 0 \/ Before(scan.last, e)
       \/ reader \notin Ascending /\ Reached(e, scan.newest)
  /\ reader \in Ascending =>
       \/ scan.newest = cursor
       \/ \E x \in Appeared : x <= scan.last /\ scan.newest = time[x]
  /\ reader \notin Ascending =>
       \A e \in hidden \ (reported \cup missed \cup scan.missed) : Reached(e, scan.newest)

Covers == SkipsOnlyTheMissed /\ NoFuture(cursor) /\ (scan # Idle => ScanCovers)

CoverInv == Fits /\ InOrder /\ Covers

\* What is neither reported nor missed is in reach.
LEMMA LeftIsReached ==
  ASSUME CoverInv
  PROVE  \A e \in Appeared \ (reported \cup missed) : Reached(e, cursor)
BY DEF CoverInv, Covers, SkipsOnlyTheMissed, InReach, Reached

LEMMA Numbers ==
  ASSUME Fits
  PROVE  /\ clock \in Nat /\ cursor \in Nat
         /\ \A e \in Appeared : e \in Nat /\ e > 0 /\ time[e] \in Nat /\ time[e] <= clock
         /\ scan # Idle => /\ scan.last \in Nat /\ scan.newest \in Nat /\ scan.from = cursor
                           /\ scan.last \in Appeared \cup {0}
<1>1. clock \in Nat /\ cursor \in Nat BY BoundsAssumption DEF Fits
<1>2. \A e \in Appeared : e \in Nat /\ e > 0 BY AppearedIsFinite
<1>3. \A e \in Appeared : time[e] \in 1..clock BY DEF Fits
<1>4. \A e \in Appeared : time[e] \in Nat /\ time[e] <= clock BY <1>1, <1>3
<1>5. QED BY <1>1, <1>2, <1>4 DEF Fits, ScanFits, Scans

LEMMA TwoKinds ==
  ASSUME Fits
  PROVE  /\ reader \in Ascending => reader \in ByTime /\ reader # "ton"
         /\ reader \notin Ascending /\ reader \in ByTime => reader = "ton"
         /\ reader \notin ByTime => reader # "ton"
BY ReadersAssumption DEF Fits, Ascending, ByTime

LEMMA LaterIsNoEarlier ==
  ASSUME Fits, InOrder, NEW e \in Appeared, NEW f \in Appeared, f <= e
  PROVE  time[f] <= time[e]
BY Numbers DEF InOrder

\* The cursor that a page leads to is an old one, or that of a transfer it acts on.
LEMMA NewestComesFrom ==
  ASSUME Fits, scan # Idle
  PROVE  \/ Newest(scan.newest, NextOne) = scan.newest
         \/ \E f \in Final(NextOne) :
              Newest(scan.newest, NextOne) = IF reader \in ByTime THEN time[f] ELSE f
<1>1. scan.newest \in Nat /\ NextOne \subseteq Appeared BY Numbers, PageFits
<1>2. CASE reader \in ByTime BY <1>1, <1>2, NewestIs
<1>3. CASE reader \notin ByTime
  <2>1. reader # "ton" BY TwoKinds, <1>3
  <2>2. Final(NextOne) = NextOne
    BY <2>1, PageIsOfRest DEF Final, NextOne, Rest, Window, Listed
  <2>3. QED BY <1>1, <1>3, <2>2, NewestIs
<1>4. QED BY <1>2, <1>3

LEMMA NewestHasNoFuture ==
  ASSUME Fits, scan # Idle, NoFuture(scan.newest)
  PROVE  NoFuture(Newest(scan.newest, NextOne))
<1>1. Final(NextOne) \subseteq Appeared BY PageFits
<1>2. QED BY <1>1, Numbers, NewestComesFrom DEF NoFuture

\* What the next page holds comes after the last transfer of the one before.
LEMMA PageFollows ==
  ASSUME Fits, scan # Idle, NEW p \in NextOne
  PROVE  p \in Appeared /\ (scan.last # 0 => Before(scan.last, p))
BY PageIsOfRest DEF NextOne, Rest

\* What is still to be listed, and listed now, is on the page or comes after it.
LEMMA ListedIsLeft ==
  ASSUME CoverInv, scan # Idle, NEW e \in Appeared \ (reported \cup missed),
         e \in Listed, scan.last = 0 \/ Before(scan.last, e)
  PROVE  e \in Rest(scan.from, scan.last)
<1>1. Reached(e, cursor) /\ scan.from = cursor BY LeftIsReached, Numbers DEF CoverInv
<1>2. e \in Window(cursor) BY <1>1 DEF Window, Reached
<1>3. QED BY <1>1, <1>2 DEF Rest

-----------------------------------------------------------------------------
(* A page of a reader that lists from the oldest.                          *)
LEMMA AscendingPage ==
  ASSUME CoverInv, reader \in Ascending, scan # Idle,
         NEW e \in Appeared, e \notin reported \cup missed \cup InHand,
         e \notin Final(NextOne) \cup Overtaken(NextOne)
  PROVE  /\ \A p \in NextOne : p < e
         /\ Reached(e, Newest(scan.newest, NextOne))
<1>1. Fits /\ InOrder /\ ScanCovers /\ reader \in ByTime /\ reader # "ton"
  BY TwoKinds DEF CoverInv, Covers
<1>2. scan.last = 0 \/ Before(scan.last, e) BY <1>1 DEF ScanCovers
<1>3. Final(NextOne) = NextOne /\ NextOne \subseteq Appeared \ hidden
  BY <1>1, PageIsOfRest DEF Final, NextOne, Rest, Window, Listed
<1>4. \A p \in NextOne : p \in Nat /\ e \in Nat BY <1>1, <1>3, Numbers
<1>5. \A p \in NextOne : p < e
  <2>1. CASE e \in hidden
    <3>1. \A p \in NextOne : ~(e < p) /\ p # e BY <1>1, <1>3, <2>1 DEF Overtaken
    <3>2. QED BY <1>4, <3>1
  <2>2. CASE e \notin hidden
    <3>1. e \in Listed BY <1>1, <2>2 DEF Listed
    <3>2. e \in Rest(scan.from, scan.last) BY <1>2, <3>1, ListedIsLeft
    <3>3. \A p \in NextOne : Before(p, e)
      BY <1>1, <1>3, <3>2, PageIsFirst DEF NextOne
    <3>4. QED BY <3>3 DEF Before
  <2>3. QED BY <2>1, <2>2
<1>6. Reached(e, cursor) BY LeftIsReached
<1>7. ASSUME NEW x \in Appeared, x <= e PROVE Reached(e, time[x])
  BY <1>1, <1>7, LaterIsNoEarlier, Numbers DEF Reached
<1>8. Reached(e, scan.newest)
  <2>1. CASE scan.newest = cursor BY ONLY <1>6, <2>1
  <2>2. ASSUME NEW x \in Appeared, x <= scan.last, scan.newest = time[x]
        PROVE  Reached(e, scan.newest)
    <3>1. x \in Nat /\ x > 0 /\ scan.last \in Nat /\ e \in Nat BY <1>1, Numbers
    <3>2. x <= e BY <1>1, <1>2, <2>2, <3>1 DEF Before
    <3>3. Reached(e, time[x]) BY <1>7, <3>2
    <3>4. QED BY ONLY <2>2, <3>3
  <2>3. QED BY <1>1, <2>1, <2>2 DEF ScanCovers
<1>9. ASSUME NEW f \in Final(NextOne) PROVE Reached(e, time[f])
  BY <1>3, <1>4, <1>5, <1>7, <1>9
<1>10. Reached(e, Newest(scan.newest, NextOne))
  <2>1. CASE Newest(scan.newest, NextOne) = scan.newest BY ONLY <1>8, <2>1
  <2>2. ASSUME NEW f \in Final(NextOne), Newest(scan.newest, NextOne) = time[f]
        PROVE  Reached(e, Newest(scan.newest, NextOne))
    <3>1. Reached(e, time[f]) BY <1>9
    <3>2. QED BY ONLY <2>2, <3>1
  <2>3. QED BY <1>1, <2>1, <2>2, NewestComesFrom
<1>11. QED BY <1>5, <1>10

(* A page of a reader that lists from the newest.                          *)
LEMMA HiddenStaysReached ==
  ASSUME CoverInv, reader \notin Ascending, scan # Idle,
         NEW e \in hidden, e \notin reported \cup missed \cup scan.missed,
         e \notin Overtaken(NextOne)
  PROVE  Reached(e, Newest(scan.newest, NextOne))
<1>1. Fits /\ InOrder /\ ScanCovers /\ e \in Appeared BY DEF CoverInv, Covers, Fits
<1>2. Reached(e, scan.newest) BY <1>1 DEF ScanCovers
<1>3. ASSUME NEW f \in Final(NextOne),
             Newest(scan.newest, NextOne) = IF reader \in ByTime THEN time[f] ELSE f
      PROVE  Reached(e, Newest(scan.newest, NextOne))
  <2>1. f \in Appeared /\ f # e BY <1>1, PageFits DEF Final
  <2>2. f \in Nat /\ e \in Nat /\ time[f] \in Nat /\ time[e] \in Nat
    BY <1>1, <2>1, Numbers
  <2>3. CASE f < e
    <3>1. time[f] <= time[e] BY <1>1, <2>1, <2>2, <2>3, LaterIsNoEarlier
    <3>2. QED BY <1>3, <2>2, <2>3, <3>1 DEF Reached
  <2>4. CASE e < f
    <3>1. reader = "ton" /\ ~(time[e] + 1 < time[f]) BY <2>4 DEF Overtaken
    <3>2. QED BY <1>3, <2>2, <3>1 DEF Reached, ByTime
  <2>5. QED BY <2>1, <2>2, <2>3, <2>4
<1>4. QED BY <1>1, <1>2, <1>3, NewestComesFrom

LEMMA DescendingPage ==
  ASSUME CoverInv, reader \notin Ascending, scan # Idle,
         NEW e \in Appeared, e \notin reported \cup missed \cup InHand,
         e \notin Final(NextOne) \cup Overtaken(NextOne)
  PROVE  \/ Reached(e, Newest(scan.newest, NextOne))
         \/ e \in Rest(scan.from, scan.last) \ NextOne /\ \A p \in NextOne : Before(p, e)
<1>1. Fits /\ InOrder /\ ScanCovers BY DEF CoverInv, Covers
<1>2. CASE e \in hidden
  BY <1>2, HiddenStaysReached DEF InHand
<1>3. CASE e \notin hidden /\ (scan.last = 0 \/ Before(scan.last, e))
  <2>1. e \in Listed BY <1>3 DEF Listed
  <2>2. e \in Rest(scan.from, scan.last) BY <1>3, <2>1, ListedIsLeft
  <2>3. e \notin NextOne BY <1>3 DEF Final
  <2>4. \A p \in NextOne : Before(p, e) BY <1>1, <2>2, <2>3, PageIsFirst DEF NextOne
  <2>5. QED BY <2>2, <2>3, <2>4
<1>4. CASE scan.last # 0 /\ ~Before(scan.last, e)
  <2>1. Reached(e, scan.newest) BY <1>1, <1>4 DEF ScanCovers
  <2>2. ASSUME NEW f \in Final(NextOne),
               Newest(scan.newest, NextOne) = IF reader \in ByTime THEN time[f] ELSE f
        PROVE  Reached(e, Newest(scan.newest, NextOne))
    <3>1. f \in Appeared /\ Before(scan.last, f)
      BY <1>1, <1>4, PageFollows DEF Final
    <3>2. /\ f \in Nat /\ e \in Nat /\ scan.last \in Nat
          /\ time[f] \in Nat /\ time[e] \in Nat
      BY <1>1, <3>1, Numbers
    <3>3. f < scan.last /\ scan.last <= e BY <1>4, <3>1, <3>2 DEF Before
    <3>4. f < e BY <3>2, <3>3
    <3>5. time[f] <= time[e] BY <1>1, <3>1, <3>2, <3>4, LaterIsNoEarlier
    <3>6. QED BY <2>2, <3>2, <3>4, <3>5 DEF Reached
  <2>3. QED BY <1>1, <2>1, <2>2, NewestComesFrom
<1>5. QED BY <1>2, <1>3, <1>4

-----------------------------------------------------------------------------
(* The steps.                                                              *)
LEMMA TransferCovers ==
  ASSUME CoverInv, NEW late \in BOOLEAN, Transfer(late)
  PROVE  Covers'
<1>1. Fits /\ InOrder /\ Covers /\ Fits' BY FitsNext DEF CoverInv, Next
<1>2. PICK e \in Events \ Appeared :
         /\ Appeared' = Appeared \cup {e} /\ time'[e] = clock
         /\ \A f \in Appeared : time'[f] = time[f]
         /\ hidden' \in {hidden, hidden \cup {e}}
  BY <1>1, TransferIs
<1>3. UNCHANGED <<reader, clock, cursor, scan, reported, missed, failures>> BY DEF Transfer
<1>4. e \in Nat /\ \A x \in Appeared \cup {0} : x < e
  BY <1>1, <1>2, EventsAreNumbers DEF InOrder
<1>5. \A cur \in Nat : NoFuture(cur) => NoFuture(cur)' /\ Reached(e, cur)'
  BY <1>1, <1>2, <1>3, <1>4, Numbers DEF NoFuture, Reached
<1>6. \A f \in Appeared, cur \in Nat : Reached(f, cur) => Reached(f, cur)'
  BY <1>2, <1>3 DEF Reached
<1>7. cursor \in Nat /\ NoFuture(cursor) BY <1>1, Numbers DEF Covers
<1>8. SkipsOnlyTheMissed'
  <2>1. SUFFICES ASSUME NEW f \in Appeared', f \notin reported \cup missed
                 PROVE  Reached(f, cursor)'
    BY <1>3 DEF SkipsOnlyTheMissed, InReach, Reached
  <2>2. CASE f \in Appeared
    <3>1. Reached(f, cursor) BY <2>1, <2>2, LeftIsReached
    <3>2. QED BY <1>2, <1>3, <2>2, <3>1 DEF Reached
  <2>3. CASE f = e
    <3>1. Reached(e, cursor)' BY <1>5, <1>7, <1>3
    <3>2. QED BY <2>3, <3>1
  <2>4. QED BY <1>2, <2>1, <2>2, <2>3
<1>9. ASSUME scan # Idle PROVE ScanCovers'
  <2>1. /\ ScanCovers /\ scan.newest \in Nat /\ scan.last \in Nat
        /\ scan.last \in Appeared \cup {0}
    BY <1>1, <1>9, Numbers DEF Covers
  <2>2. Reached(e, scan.newest)' /\ NoFuture(scan.newest)'
    BY <1>3, <1>5, <2>1 DEF ScanCovers
  <2>3. reader \in Ascending => Before(scan.last, e)' BY <1>3, <1>4, <2>1 DEF Before
  <2>4. \A f : Before(scan.last, f)' = Before(scan.last, f) BY <1>3 DEF Before
  <2>5. ASSUME NEW f \in Appeared', f \notin reported \cup missed \cup InHand
        PROVE  \/ scan.last = 0 \/ Before(scan.last, f)'
               \/ reader \notin Ascending /\ Reached(f, scan.newest)'
    BY <1>2, <1>3, <1>6, <2>1, <2>2, <2>3, <2>4, <2>5 DEF ScanCovers
  <2>6. reader \in Ascending =>
          \/ scan.newest = cursor
          \/ \E x \in Appeared' : x <= scan.last /\ scan.newest = time'[x]
    BY <1>2, <2>1 DEF ScanCovers
  <2>7. reader \notin Ascending =>
          \A f \in hidden' \ (reported \cup missed \cup scan.missed) : Reached(f, scan.newest)'
    BY <1>1, <1>2, <1>3, <1>6, <2>1, <2>2 DEF ScanCovers, Fits
  <2>8. QED BY <1>3, <2>1, <2>2, <2>5, <2>6, <2>7 DEF ScanCovers, InHand
<1>10. QED BY <1>3, <1>5, <1>7, <1>8, <1>9 DEF Covers

LEMMA BeginCovers ==
  ASSUME CoverInv, Begin
  PROVE  Covers'
<1>1. /\ UNCHANGED <<reader, clock, time, hidden, cursor, reported, missed>>
      /\ scan'.last = 0 /\ scan'.newest = cursor
  BY DEF Begin
<1>2. Covers /\ Fits /\ \A e \in Appeared \ (reported \cup missed) : Reached(e, cursor)
  BY LeftIsReached DEF CoverInv
<1>3. ScanCovers'
  <2>1. NoFuture(cursor)' /\ \A e : Reached(e, cursor)' = Reached(e, cursor)
    BY <1>1, <1>2 DEF Covers, NoFuture, Reached, Appeared
  <2>2. QED BY <1>1, <1>2, <2>1 DEF ScanCovers, Fits, NoFuture, Reached, Appeared
<1>4. QED
  BY <1>1, <1>2, <1>3 DEF Covers, SkipsOnlyTheMissed, InReach, NoFuture, Appeared

LEMMA NextPageCovers ==
  ASSUME CoverInv, NextPage
  PROVE  Covers'
<1>1. Fits /\ InOrder /\ Covers /\ scan # Idle /\ ScanCovers
  BY NextPageIs DEF CoverInv, Covers
<1>2. UNCHANGED <<reader, clock, time, hidden, cursor, reported, missed>> /\ scan # Idle
  BY NextPageIs
<1>3. /\ scan'.last = LastOf(NextOne) /\ scan'.newest = Newest(scan.newest, NextOne)
      /\ scan'.got = scan.got \cup Final(NextOne)
      /\ scan'.missed = scan.missed \cup Overtaken(NextOne)
  BY <1>1, NextPageScan
<1>4. /\ LastOf(NextOne) \in NextOne /\ NextOne \subseteq Appeared
      /\ \A p \in NextOne : p = LastOf(NextOne) \/ Before(p, LastOf(NextOne))
  BY <1>1, NextPageIs, FullIsNotEmpty, PageFits
<1> DEFINE last == LastOf(NextOne)
           newest == Newest(scan.newest, NextOne)
<1>5. last \in Nat /\ last > 0 BY <1>1, <1>4, Numbers
<1>6. ASSUME NEW e \in Appeared, e \notin reported \cup missed \cup InHand,
             e \notin Final(NextOne) \cup Overtaken(NextOne)
      PROVE  Before(last, e) \/ (reader \notin Ascending /\ Reached(e, newest))
  <2>1. CASE reader \in Ascending
    <3>1. last < e BY <1>1, <1>4, <1>6, <2>1, AscendingPage
    <3>2. QED BY <2>1, <3>1 DEF Before
  <2>2. CASE reader \notin Ascending
    BY <1>1, <1>4, <1>6, <2>2, DescendingPage
  <2>3. QED BY <2>1, <2>2
<1>7. NoFuture(newest) BY <1>1, NewestHasNoFuture DEF ScanCovers
<1>8. ASSUME reader \in Ascending
      PROVE  newest = cursor \/ \E x \in Appeared : x <= last /\ newest = time[x]
  <2>1. reader \in ByTime BY <1>1, <1>8, TwoKinds
  <2>2. CASE newest = scan.newest
    <3>1. CASE scan.newest = cursor BY <2>2, <3>1
    <3>2. ASSUME NEW x \in Appeared, x <= scan.last, scan.newest = time[x]
          PROVE  x <= last
      <4>1. x \in Nat /\ x > 0 /\ scan.last \in Nat BY <1>1, Numbers
      <4>2. scan.last # 0 BY <3>2, <4>1
      <4>3. Before(scan.last, last) BY <1>1, <1>4, <4>2, PageFollows
      <4>4. QED BY <1>5, <1>8, <3>2, <4>1, <4>3 DEF Before
    <3>3. QED BY <1>1, <1>8, <2>2, <3>1, <3>2 DEF ScanCovers
  <2>3. ASSUME NEW f \in Final(NextOne), newest = time[f]
        PROVE  f \in Appeared /\ f <= last
    <3>1. f \in NextOne /\ f \in Nat BY <1>1, <1>4, Numbers DEF Final
    <3>2. QED BY <1>4, <1>5, <1>8, <3>1 DEF Before
  <2>4. QED BY <1>1, <2>1, <2>2, <2>3, NewestComesFrom
<1>9. ASSUME reader \notin Ascending,
             NEW e \in hidden, e \notin reported \cup missed \cup scan.missed,
             e \notin Overtaken(NextOne)
      PROVE  Reached(e, newest)
  BY <1>1, <1>9, HiddenStaysReached
<1> HIDE DEF last, newest
<1>10. ScanCovers'
  <2>1. scan'.last = last /\ scan'.newest = newest BY <1>3 DEF last, newest
  <2>2. \A e, cur : Reached(e, cur)' = Reached(e, cur) /\ Before(cur, e)' = Before(cur, e)
    BY <1>2 DEF Reached, Before
  <2>3. NoFuture(scan.newest)' BY <1>2, <1>7, <2>1 DEF NoFuture, Appeared
  <2>4. Appeared' = Appeared BY <1>2 DEF Appeared
  <2>5. scan'.last # 0 BY <1>5, <2>1
  <2>6. \A e \in Appeared' \ (reported' \cup missed' \cup InHand') :
          Before(scan.last, e)' \/ (reader \notin Ascending /\ Reached(e, scan.newest)')
    <3>1. InHand' = InHand \cup Final(NextOne) \cup Overtaken(NextOne) BY <1>3 DEF InHand
    <3>2. \A e : Before(scan.last, e)' = Before(last, e) BY <1>2, <2>1 DEF Before
    <3>3. \A e : Reached(e, scan.newest)' = Reached(e, newest) BY <1>2, <2>1 DEF Reached
    <3>4. QED BY <1>2, <1>6, <2>4, <3>1, <3>2, <3>3
  <2>7. \A e : Reached(e, scan.newest)' = Reached(e, newest) BY <1>2, <2>1 DEF Reached
  <2>8. QED BY <1>2, <1>3, <1>8, <1>9, <2>1, <2>3, <2>4, <2>5, <2>6, <2>7 DEF ScanCovers
<1>11. QED
  BY <1>1, <1>2, <1>10 DEF Covers, SkipsOnlyTheMissed, InReach, NoFuture, Appeared

LEMMA LastPageCovers ==
  ASSUME CoverInv, LastPage
  PROVE  Covers'
<1>1. Fits /\ InOrder /\ Covers /\ scan # Idle /\ ScanCovers
  BY LastPageIs DEF CoverInv, Covers
<1>2. /\ scan' = Idle /\ cursor' = Newest(scan.newest, NextOne)
      /\ reported' = reported \cup scan.got \cup Final(NextOne)
      /\ missed' = missed \cup scan.missed \cup Overtaken(NextOne) \cup CutOff(NextOne)
      /\ UNCHANGED <<reader, clock, time, hidden, failures>>
  BY LastPageIs
<1>3. Appeared' = Appeared BY <1>2 DEF Appeared
<1>4. NoFuture(cursor)'
  BY <1>1, <1>2, <1>3, NewestHasNoFuture DEF NoFuture, ScanCovers
<1>5. ASSUME NEW e \in Appeared, e \notin reported', e \notin missed'
      PROVE  Reached(e, Newest(scan.newest, NextOne))
  <2>1. /\ e \notin reported \cup missed \cup InHand
        /\ e \notin Final(NextOne) \cup Overtaken(NextOne)
    BY <1>2, <1>5 DEF InHand
  <2>2. CASE reader \in Ascending BY <1>1, <1>5, <2>1, <2>2, AscendingPage
  <2>3. CASE reader \notin Ascending
    <3>1. e \notin Rest(scan.from, scan.last) \ NextOne BY <1>2, <1>5, <2>3 DEF CutOff
    <3>2. QED BY <1>1, <1>5, <2>1, <2>3, <3>1, DescendingPage
  <2>4. QED BY <2>2, <2>3
<1>6. SkipsOnlyTheMissed'
  BY <1>2, <1>3, <1>5 DEF SkipsOnlyTheMissed, InReach, Reached
<1>7. QED BY <1>2, <1>4, <1>6 DEF Covers

LEMMA CoverNext ==
  ASSUME CoverInv, [Next]_vars
  PROVE  CoverInv'
<1>1. Fits' /\ InOrder' /\ Fits /\ InOrder /\ Covers BY FitsNext DEF CoverInv
<1>2. CASE Tick \/ (\E e \in hidden : Show(e)) \/ Fail \/ UNCHANGED vars
  <2>1. /\ UNCHANGED <<reader, time, cursor, reported, missed>>
        /\ hidden' \subseteq hidden /\ scan' \in {scan, Idle} /\ clock' \in {clock, clock + 1}
    BY <1>2 DEF Tick, Show, Fail, vars
  <2>2. Appeared' = Appeared BY <2>1 DEF Appeared
  <2>3. \A cur \in Nat : NoFuture(cur) => NoFuture(cur)'
    BY <1>1, <2>1, <2>2, Numbers DEF NoFuture
  <2>4. NoFuture(cursor)' /\ SkipsOnlyTheMissed'
    BY <1>1, <2>1, <2>2, <2>3, Numbers DEF Covers, SkipsOnlyTheMissed, InReach, NoFuture
  <2>5. ASSUME scan' # Idle PROVE ScanCovers'
    <3>1. scan' = scan /\ ScanCovers /\ scan.newest \in Nat
      BY <1>1, <2>1, <2>5, Numbers DEF Covers
    <3>2. NoFuture(scan.newest)' BY <2>1, <2>3, <3>1 DEF ScanCovers, NoFuture
    <3>3. \A e, cur : Reached(e, cur)' = Reached(e, cur) /\ Before(cur, e)' = Before(cur, e)
      BY <2>1 DEF Reached, Before
    <3>4. QED
      BY <2>1, <2>2, <3>1, <3>2, <3>3 DEF ScanCovers, InHand, Reached, Before
  <2>6. QED BY <1>1, <2>4, <2>5 DEF CoverInv, Covers
<1>3. QED
  BY <1>1, <1>2, TransferCovers, BeginCovers, NextPageCovers, LastPageCovers
  DEF CoverInv, Next

LEMMA CoverAlways == Spec => []CoverInv
<1>1. Init => CoverInv
  <2>1. SUFFICES ASSUME Init PROVE CoverInv OBVIOUS
  <2>2. Appeared = {} BY <2>1 DEF Init, Appeared
  <2>3. scan = Idle /\ cursor = 0 BY <2>1 DEF Init
  <2>4. Covers
    <3>1. SkipsOnlyTheMissed BY <2>2 DEF SkipsOnlyTheMissed
    <3>2. NoFuture(cursor) BY <2>1, <2>3 DEF Init, NoFuture
    <3>3. QED BY <2>3, <3>1, <3>2 DEF Covers
  <2>5. QED BY <2>1, <2>4, FitsInit DEF CoverInv
<1>2. CoverInv /\ [Next]_vars => CoverInv' BY CoverNext
<1>3. QED BY <1>1, <1>2, PTL DEF Spec

(***************************************************************************)
(* Where nothing is hidden, a reader that lists from the oldest misses     *)
(* nothing.                                                                *)
(***************************************************************************)
NoneMissed ==
  reader \in Ascending /\ reader \notin Late =>
    hidden = {} /\ missed = {} /\ (scan # Idle => scan.missed = {})

LEMMA NoneMissedNext ==
  ASSUME Fits, NoneMissed, [Next]_vars
  PROVE  NoneMissed'
<1>1. reader' = reader
  BY DEF Next, vars, Tick, Transfer, Show, Begin, NextPage, LastPage, Fail
<1>2. SUFFICES ASSUME reader \in Ascending, reader \notin Late
               PROVE  hidden' = {} /\ missed' = {} /\ (scan' # Idle => scan'.missed = {})
  BY <1>1 DEF NoneMissed
<1>3. hidden = {} /\ missed = {} /\ (scan # Idle => scan.missed = {}) BY <1>2 DEF NoneMissed
<1>4. \A page : Overtaken(page) = {} /\ CutOff(page) = {} BY <1>2, <1>3 DEF Overtaken, CutOff
<1>5. ASSUME NEW late \in BOOLEAN, Transfer(late)
      PROVE  hidden' = {} /\ missed' = {} /\ scan' = scan
  BY <1>2, <1>3, <1>5 DEF Transfer
<1>6. CASE NextPage BY <1>3, <1>4, <1>6, NextPageIs, NextPageScan
<1>7. CASE LastPage BY <1>3, <1>4, <1>7, LastPageIs
<1>8. CASE Tick \/ (\E e \in hidden : Show(e)) \/ Begin \/ Fail \/ UNCHANGED vars
  BY <1>3, <1>8 DEF vars, Tick, Show, Begin, Fail
<1>9. QED BY <1>3, <1>5, <1>6, <1>7, <1>8 DEF Next

(***************************************************************************)
(* What a reader should know.                                              *)
(***************************************************************************)
(* The cursor, the pages and what is reported are of their types, and a    *)
(* scan never stores a cursor older than the one it started from.          *)
THEOREM ReadersTyped == Spec => []TypeOK
<1>1. Fits => TypeOK
  BY BoundsAssumption DEF Fits, ScanFits, Scans, TypeOK
<1>2. CoverInv => Fits
  BY DEF CoverInv
<1> QED BY <1>1, <1>2, CoverAlways, PTL

(* Whatever the backlog, however many transfers come at a time and however *)
(* long one is hidden, the four readers leave behind their cursor nothing  *)
(* that a scan was shown, or that came after it or within the step back:   *)
(* only what was hidden when something newer was read (ton.ts:91), and     *)
(* what lay beyond the last page of a listing from the newest (ton.ts:92,  *)
(* solana.ts:63).                                                          *)
THEOREM ReadersSkipOnlyTheMissed == Spec => []SkipsOnlyTheMissed
<1>1. CoverInv => SkipsOnlyTheMissed BY DEF CoverInv, Covers
<1> QED BY <1>1, CoverAlways, PTL

(* A reader that lists from the oldest (evm.ts, tron.ts) leaves nothing at *)
(* all behind its cursor, with any backlog and wherever a page ends, when  *)
(* its provider lists a transfer at once.                                  *)
THEOREM AscendingSkipNothing ==
  Spec => [](reader \in Ascending /\ reader \notin Late => NothingSkipped)
<1>1. Init => NoneMissed BY DEF Init, NoneMissed
<1>2. CoverInv /\ NoneMissed /\ [Next]_vars => NoneMissed' BY NoneMissedNext DEF CoverInv
<1>3. CoverInv /\ NoneMissed =>
        (reader \in Ascending /\ reader \notin Late => NothingSkipped)
  BY DEF CoverInv, Covers, NoneMissed, SkipsOnlyTheMissed, NothingSkipped
<1> QED BY <1>1, <1>2, <1>3, CoverAlways, PTL DEF Spec
=============================================================================
