---------------------------- MODULE Wallet_proofs ----------------------------
(***************************************************************************)
(* Proofs about Wallet, for any number of players, rounds, withdrawals and *)
(* seeds and any bets, prices and payouts: types, one charge for a key, no *)
(* seed for two rounds, no money made or lost, and no free round that was  *)
(* not won.  The sums of money are SumFunction() of the community modules, *)
(* about which the first part proves what the proofs need.                 *)
(***************************************************************************)
EXTENDS Wallet, FiniteSetTheorems, TLAPS

-----------------------------------------------------------------------------
(* Sums.  An induction is a set of the things it holds of and the least    *)
(* number of the others.                                                   *)

(* A set of numbers has a least one.                                       *)
LEMMA LeastNumber ==
  ASSUME NEW T \in SUBSET Nat, T # {}
  PROVE  \E n \in T : \A m \in T : n <= m
<1>1. IsWellFoundedOn(OpToRel(<, Nat), Nat) BY NatLessThanWellFounded
<1>2. PICK n \in T : \A m \in T : ~ (<<m, n>> \in OpToRel(<, Nat)) BY <1>1, WFMin
<1>3. \A m \in T : m < n => <<m, n>> \in OpToRel(<, Nat) BY DEF OpToRel
<1>4. \A m \in T : ~ (m < n) BY <1>2, <1>3, Zenon
<1>5. \A m \in T : n <= m BY <1>4
<1>6. QED BY <1>5

(* Induction over the finite subsets of S: what holds of a set when it     *)
(* holds of the set without any one of its elements holds of all.          *)
LEMMA SetInduction ==
  ASSUME NEW S, IsFiniteSet(S), NEW Good, 
         \A s \in SUBSET S : (\A x \in s : s \ {x} \in Good) => s \in Good
  PROVE  SUBSET S \subseteq Good
<1>1. SUFFICES ASSUME NEW t \in SUBSET S, t \notin Good PROVE FALSE OBVIOUS
<1> DEFINE bad == {s \in SUBSET S : s \notin Good}
           sizes == {Cardinality(s) : s \in bad}
<1>2. \A s \in SUBSET S : IsFiniteSet(s) /\ Cardinality(s) \in Nat
  BY FS_Subset, FS_CardinalityType
<1>3. sizes \in SUBSET Nat /\ sizes # {} BY <1>1, <1>2
<1>4. PICK n \in sizes : \A m \in sizes : n <= m
  <2> HIDE DEF sizes
  <2> QED BY <1>3, LeastNumber
<1>5. PICK s \in bad : Cardinality(s) = n OBVIOUS
<1>6. ASSUME NEW x \in s PROVE s \ {x} \in Good
  <2>1. s \ {x} \in SUBSET S /\ IsFiniteSet(s) BY <1>2
  <2>2. Cardinality(s \ {x}) = Cardinality(s) - 1 BY <2>1, FS_RemoveElement
  <2>3. ~ (n <= Cardinality(s \ {x})) BY <1>2, <1>5, <2>2
  <2>4. s \ {x} \notin bad BY <1>4, <2>3
  <2>5. QED BY <2>1, <2>4
<1>7. QED BY <1>6

(* SumFunctionOnSet() chooses an element, adds its value to the sum of the *)
(* others, and so on.                                                      *)
Some(s) == CHOOSE x \in s : TRUE
Sums(f, g, S) ==
  g = [s \in SUBSET S |-> IF s = {} THEN 0 ELSE f[Some(s)] + g[s \ {Some(s)}]]

LEMMA SumIsChosen ==
  ASSUME NEW f, NEW S
  PROVE  SumFunctionOnSet(f, S) = (CHOOSE g : Sums(f, g, S))[S]
  BY DEF SumFunctionOnSet, FoldFunctionOnSet, MapThenFoldSet, Sums, Some

(* There is such a function: one that is right for the sets of fewer than  *)
(* n elements gives one that is right for those of n.                      *)
LEMMA SumsExist ==
  ASSUME NEW S, IsFiniteSet(S), NEW f, \A x \in S : f[x] \in Int
  PROVE  \E g \in [SUBSET S -> Int] : Sums(f, g, S)
<1> DEFINE Better(g) == [s \in SUBSET S |-> IF s = {} THEN 0 ELSE f[Some(s)] + g[s \ {Some(s)}]]
           Right(g, n) == \A s \in SUBSET S : Cardinality(s) < n => g[s] = Better(g)[s]
           never == {n \in Nat : \A g \in [SUBSET S -> Int] : ~Right(g, n)}
<1>1. \A s \in SUBSET S : IsFiniteSet(s) /\ Cardinality(s) \in Nat
  BY FS_Subset, FS_CardinalityType
<1>2. \A s \in SUBSET S : s # {} => Some(s) \in s BY DEF Some
<1>3. ASSUME NEW g \in [SUBSET S -> Int] PROVE Better(g) \in [SUBSET S -> Int]
  BY <1>2
<1>4. ASSUME NEW n \in Nat, NEW g \in [SUBSET S -> Int], Right(g, n) PROVE Right(Better(g), n + 1)
  <2>1. ASSUME NEW s \in SUBSET S, Cardinality(s) < n + 1, s # {}
        PROVE  g[s \ {Some(s)}] = Better(g)[s \ {Some(s)}]
    <3>1. s \ {Some(s)} \in SUBSET S OBVIOUS
    <3>2. Cardinality(s \ {Some(s)}) = Cardinality(s) - 1
      BY <1>1, <1>2, <2>1, FS_RemoveElement
    <3>3. Cardinality(s \ {Some(s)}) < n BY <1>1, <2>1, <3>2
    <3>4. QED BY <1>4, <3>1, <3>3
  <2>2. QED BY <2>1
<1>5. never = {}
  <2>1. SUFFICES ASSUME never # {} PROVE FALSE OBVIOUS
  <2>2. PICK n \in never : \A m \in never : n <= m
    <3>1. never \in SUBSET Nat OBVIOUS
    <3> HIDE DEF never
    <3>2. QED BY <2>1, <3>1, LeastNumber
  <2>3. [s \in SUBSET S |-> 0] \in [SUBSET S -> Int] OBVIOUS
  <2>4. Right([s \in SUBSET S |-> 0], 0) BY <1>1
  <2>5. n # 0
    <3>1. 0 \notin never BY <2>3, <2>4
    <3> HIDE DEF never
    <3>2. QED BY <2>2, <3>1
  <2>6. n \in Nat /\ n - 1 \in Nat BY <2>2, <2>5
  <2>7. n - 1 \notin never
    <3>1. ~ (n <= n - 1) BY <2>6
    <3> HIDE DEF never
    <3>2. QED BY <2>2, <3>1
  <2>8. PICK g \in [SUBSET S -> Int] : Right(g, n - 1) BY <2>6, <2>7
  <2>9. Right(Better(g), (n - 1) + 1)
    <3> HIDE DEF Right, Next
    <3>1. QED BY <1>4, <2>6, <2>8
  <2>10. (n - 1) + 1 = n BY <2>6
  <2>11. Better(g) \in [SUBSET S -> Int] /\ Right(Better(g), n)
    <3> HIDE DEF Right, Next
    <3>1. QED BY <1>3, <2>9, <2>10
  <2>12. QED BY <2>11
<1>6. Cardinality(S) + 1 \in Nat BY FS_CardinalityType
<1>7. PICK g \in [SUBSET S -> Int] : Right(g, Cardinality(S) + 1) BY <1>5, <1>6
<1>8. \A s \in SUBSET S : Cardinality(s) <= Cardinality(S) BY FS_Subset
<1>9. \A s \in SUBSET S : g[s] = Better(g)[s]
  <2>1. \A s \in SUBSET S : Cardinality(s) < Cardinality(S) + 1
    BY <1>1, <1>8, FS_CardinalityType
  <2>2. QED BY <1>7, <2>1
<1>10. g = Better(g) BY <1>3, <1>9
<1>11. QED BY <1>10 DEF Sums

(* Functions that agree on a set have the same sums on its subsets.        *)
LEMMA SumsAgree ==
  ASSUME NEW S, NEW T, IsFiniteSet(T), T \subseteq S,
         NEW f, NEW h, \A x \in T : f[x] = h[x],
         NEW g, Sums(f, g, S), NEW k, Sums(h, k, T)
  PROVE  \A s \in SUBSET T : g[s] = k[s]
<1> DEFINE Good == {s \in SUBSET T : g[s] = k[s]}
<1>1. ASSUME NEW s \in SUBSET T, \A x \in s : s \ {x} \in Good PROVE s \in Good
  <2>1. s # {} => Some(s) \in s BY DEF Some
  <2>2. g[s] = IF s = {} THEN 0 ELSE f[Some(s)] + g[s \ {Some(s)}] BY DEF Sums
  <2>3. k[s] = IF s = {} THEN 0 ELSE h[Some(s)] + k[s \ {Some(s)}] BY DEF Sums
  <2>4. QED BY <1>1, <2>1, <2>2, <2>3
<1>2. SUBSET T \subseteq Good
  <2> HIDE DEF Good
  <2>1. QED BY <1>1, SetInduction
<1>3. QED BY <1>2

(* What a sum is.                                                          *)
LEMMA SumIs ==
  ASSUME NEW S, IsFiniteSet(S), NEW f, \A x \in S : f[x] \in Int, NEW s \in SUBSET S
  PROVE  /\ SumFunctionOnSet(f, s) \in Int
         /\ SumFunctionOnSet(f, s) =
              IF s = {} THEN 0 ELSE f[Some(s)] + SumFunctionOnSet(f, s \ {Some(s)})
<1>1. PICK g \in [SUBSET S -> Int] : Sums(f, g, S) BY SumsExist
<1>2. ASSUME NEW t \in SUBSET S PROVE SumFunctionOnSet(f, t) = g[t]
  <2>1. IsFiniteSet(t) BY FS_Subset
  <2>2. \E k : Sums(f, k, t) BY <2>1, SumsExist
  <2>3. Sums(f, CHOOSE k : Sums(f, k, t), t) BY <2>2
  <2>4. (CHOOSE k : Sums(f, k, t))[t] = g[t] BY <1>1, <2>1, <2>3, SumsAgree
  <2>5. QED BY <2>4, SumIsChosen
<1>3. g[s] = IF s = {} THEN 0 ELSE f[Some(s)] + g[s \ {Some(s)}] BY <1>1 DEF Sums
<1>4. SumFunctionOnSet(f, s) = g[s] /\ SumFunctionOnSet(f, s \ {Some(s)}) = g[s \ {Some(s)}]
  BY <1>2
<1>5. QED BY <1>3, <1>4

LEMMA SumOfNone == ASSUME NEW f PROVE SumFunctionOnSet(f, {}) = 0
  BY FS_EmptySet, SumIs

LEMMA SumAgrees ==
  ASSUME NEW S, IsFiniteSet(S), NEW f, NEW h, \A x \in S : f[x] \in Int /\ f[x] = h[x]
  PROVE  SumFunctionOnSet(f, S) = SumFunctionOnSet(h, S)
<1> DEFINE Good == {s \in SUBSET S : SumFunctionOnSet(f, s) = SumFunctionOnSet(h, s)}
<1>1. ASSUME NEW s \in SUBSET S, \A x \in s : s \ {x} \in Good PROVE s \in Good
  <2>1. s # {} => Some(s) \in s BY DEF Some
  <2>2. SumFunctionOnSet(f, s) =
          IF s = {} THEN 0 ELSE f[Some(s)] + SumFunctionOnSet(f, s \ {Some(s)})
    BY SumIs
  <2>3. SumFunctionOnSet(h, s) =
          IF s = {} THEN 0 ELSE h[Some(s)] + SumFunctionOnSet(h, s \ {Some(s)})
    <3>1. \A x \in S : h[x] \in Int OBVIOUS
    <3>2. QED BY <3>1, SumIs
  <2>4. QED BY <1>1, <2>1, <2>2, <2>3
<1>2. SUBSET S \subseteq Good
  <2> HIDE DEF Good
  <2>1. QED BY <1>1, SetInduction
<1>3. QED BY <1>2

(* Any element may be the one that is added last.                          *)
LEMMA SumWithout ==
  ASSUME NEW S, IsFiniteSet(S), NEW f, \A y \in S : f[y] \in Int, NEW x \in S
  PROVE  /\ SumFunctionOnSet(f, S) = f[x] + SumFunctionOnSet(f, S \ {x})
         /\ SumFunctionOnSet(f, S \ {x}) \in Int
<1> DEFINE Sum(s) == SumFunctionOnSet(f, s)
           Good == {s \in SUBSET S : \A y \in s : Sum(s) = f[y] + Sum(s \ {y})}
<1>1. ASSUME NEW s \in SUBSET S, \A y \in s : s \ {y} \in Good PROVE s \in Good
  <2>1. SUFFICES ASSUME NEW z \in s PROVE Sum(s) = f[z] + Sum(s \ {z}) OBVIOUS
  <2> DEFINE c == Some(s)
  <2>2. c \in s BY DEF Some
  <2>3. Sum(s) = f[c] + Sum(s \ {c}) BY SumIs
  <2>4. CASE z # c
    <3> DEFINE rest == (s \ {c}) \ {z}
    <3>1. Sum(s \ {c}) = f[z] + Sum(rest) BY <1>1, <2>1, <2>2, <2>4
    <3>2. (s \ {z}) \ {c} = rest OBVIOUS
    <3>3. Sum(s \ {z}) = f[c] + Sum(rest) BY <1>1, <2>1, <2>2, <2>4, <3>2
    <3>4. Sum(rest) \in Int BY SumIs
    <3>5. f[z] \in Int /\ f[c] \in Int BY <2>1, <2>2
    <3> HIDE DEF Sum, rest, c
    <3>6. QED BY <2>3, <3>1, <3>3, <3>4, <3>5
  <2>5. QED BY <2>3, <2>4
<1>2. SUBSET S \subseteq Good
  <2> HIDE DEF Good
  <2>1. QED BY <1>1, SetInduction
<1>3. S \in Good /\ S \ {x} \in SUBSET S BY <1>2
<1>4. SumFunctionOnSet(f, S \ {x}) \in Int BY <1>3, SumIs
<1>5. QED BY <1>3, <1>4

(* A function changed, or given a value, at one place.                     *)
LEMMA SumChanges ==
  ASSUME NEW f, NEW h, IsFiniteSet(DOMAIN f), NEW x,
         DOMAIN h = DOMAIN f \cup {x}, \A y \in DOMAIN f \ {x} : h[y] = f[y],
         \A y \in DOMAIN f : f[y] \in Int, h[x] \in Int
  PROVE  /\ SumFunction(h) = SumFunction(f) + h[x] - (IF x \in DOMAIN f THEN f[x] ELSE 0)
         /\ SumFunction(f) \in Int
<1> DEFINE rest == DOMAIN f \ {x}
<1>1. IsFiniteSet(DOMAIN h) /\ IsFiniteSet(rest) BY FS_AddElement, FS_RemoveElement
<1>2. DOMAIN h \ {x} = rest OBVIOUS
<1>3. SumFunction(h) = h[x] + SumFunctionOnSet(h, rest)
  BY <1>1, <1>2, SumWithout DEF SumFunction
<1>4. SumFunctionOnSet(h, rest) = SumFunctionOnSet(f, rest) BY <1>1, SumAgrees
<1>5. SumFunctionOnSet(f, rest) \in Int /\ SumFunction(f) \in Int
  BY <1>1, SumIs DEF SumFunction
<1>6. x \in DOMAIN f => SumFunction(f) = f[x] + SumFunctionOnSet(f, rest)
  BY SumWithout DEF SumFunction
<1>7. x \notin DOMAIN f => SumFunction(f) = SumFunctionOnSet(f, rest)
  <2>1. x \notin DOMAIN f => rest = DOMAIN f OBVIOUS
  <2>2. QED BY <2>1 DEF SumFunction
<1>8. QED BY <1>3, <1>4, <1>5, <1>6, <1>7

(* A function without one of its places.                                   *)
LEMMA SumLoses ==
  ASSUME NEW f, NEW h, IsFiniteSet(DOMAIN f), NEW x \in DOMAIN f,
         DOMAIN h = DOMAIN f \ {x}, \A y \in DOMAIN h : h[y] = f[y],
         \A y \in DOMAIN f : f[y] \in Int
  PROVE  SumFunction(h) = SumFunction(f) - f[x] /\ SumFunction(f) \in Int
<1>1. IsFiniteSet(DOMAIN h) BY FS_RemoveElement
<1>2. SumFunctionOnSet(h, DOMAIN h) = SumFunctionOnSet(f, DOMAIN h) BY <1>1, SumAgrees
<1>3. SumFunction(f) = f[x] + SumFunctionOnSet(f, DOMAIN h) /\ SumFunctionOnSet(f, DOMAIN h) \in Int
  BY SumWithout DEF SumFunction
<1>4. SumFunction(f) \in Int BY <1>3
<1>5. QED BY <1>2, <1>3, <1>4 DEF SumFunction

-----------------------------------------------------------------------------
USE WalletAssumption

-----------------------------------------------------------------------------
(* What the helpers return.                                                *)

Asking == [player: Players, bet: AskedBets, buy: BOOLEAN]
Attempt == [try: Tries \cup {0}, reading: BOOLEAN]
Withdrawal ==
  [player: Players, amount: Amounts,
   status: {"pending", "approved", "rejected", "canceled"}]

(* Map.set() keeps a map of well-typed entries well typed.                 *)
LEMMA PutType ==
  ASSUME NEW map, NEW Ids, NEW Values, NEW key \in Ids, NEW value \in Values,
         DOMAIN map \subseteq Ids, map \in [DOMAIN map -> Values]
  PROVE  /\ DOMAIN Put(map, key, value) = DOMAIN map \cup {key}
         /\ DOMAIN Put(map, key, value) \subseteq Ids
         /\ Put(map, key, value) \in [DOMAIN Put(map, key, value) -> Values]
         /\ Put(map, key, value)[key] = value
         /\ \A k \in DOMAIN map : k # key => Put(map, key, value)[k] = map[k]
  BY DEF Put

(* An account found or created is well typed.                              *)
LEMMA AccountOfType ==
  ASSUME TypeOK, NEW p \in Players, MayRegister(p)
  PROVE  AccountOf(p) \in Account /\ SeedsAfter(p) \in 0..MaxSeeds /\ GrantTo(p) \in Int
<1>1. CASE Registered(p)
  <2>1. accounts[p] \in Account BY <1>1 DEF TypeOK, Registered
  <2>2. QED BY <1>1, <2>1 DEF AccountOf, SeedsAfter, GrantTo, TypeOK
<1>2. CASE ~Registered(p)
  <2>1. seeds + 1 \in 1..MaxSeeds BY <1>2 DEF MayRegister, TypeOK
  <2>2. [b \in Bets |-> 0] \in [Bets -> 0..Pity] OBVIOUS
  <2>3. Fresh \in Account BY <2>1, <2>2 DEF Fresh, Account, NoBonus
  <2>4. QED BY <1>2, <2>1, <2>3 DEF AccountOf, SeedsAfter, GrantTo
<1>3. QED BY <1>1, <1>2

(* The bet of a round that is not refused is one of CONFIG.bets, and the   *)
(* player can pay for it.                                                  *)
LEMMA BetType ==
  ASSUME NEW acc \in Account, NEW ask \in Asking, ~Refuses(acc, ask)
  PROVE  /\ BetOf(acc, ask) \in Bets
         /\ CostOf(acc, ask) \in Nat
         /\ CostOf(acc, ask) <= acc.balance
<1>1. acc.bonus \in Bets \cup {NoBonus} /\ acc.balance \in Nat BY DEF Account
<1>2. ask.bet \in AskedBets BY DEF Asking
<1>3. ask.bet \in Nat /\ Price \in Nat BY <1>2
<1>4. ask.bet * Price \in Nat BY <1>3
<1>5. CostOf(acc, ask) \in Nat BY <1>3, <1>4 DEF CostOf
<1>6. BetOf(acc, ask) \in Bets
  BY <1>1 DEF Refuses, BetOf, IsFree
<1>7. QED BY <1>1, <1>5, <1>6 DEF Refuses

(* settle() leaves a well-typed account: no negative balance, no row of    *)
(* misses past the pity.                                                   *)
LEMMA RoundType ==
  ASSUME NEW k \in Keys, k \in DOMAIN asked, asked[k] \in Asking,
         NEW acc \in Account, ~Refuses(acc, asked[k]), NEW o \in Outcomes(acc, asked[k])
  PROVE  /\ RoundOf(k, acc, o) \in Round
         /\ AccountAfter(k, acc, o) \in Account
         /\ Gain(acc, asked[k], o) \in Int
<1> DEFINE ask == asked[k]
           bet == BetOf(acc, ask)
<1>1. /\ bet \in Bets /\ CostOf(acc, ask) \in Nat
      /\ CostOf(acc, ask) <= acc.balance
  BY BetType
<1>2. /\ o.hit \in BOOLEAN /\ o.bonusWon \in BOOLEAN /\ o.pays \in Payouts
  BY DEF Outcomes
<1>3. o.pays * bet \in Nat
  <2>1. o.pays \in Nat /\ bet \in Nat BY <1>1, <1>2
  <2>2. QED BY <2>1
<1>4. acc.streak \in [Bets -> 0..Pity] /\ acc.nonce \in Nat /\ acc.balance \in Nat
      /\ acc.series \in 1..MaxSeeds /\ acc.bonus \in Bets \cup {NoBonus}
  BY DEF Account
<1>5. StreakAfter(acc, ask, o) \in 0..Pity
  <2>1. acc.streak[bet] \in 0..Pity BY <1>1, <1>4
  <2>2. ~o.hit => ask.buy \/ IsFree(acc, ask) \/ acc.streak[bet] < Pity
    BY <2>1 DEF Outcomes
  <2>3. QED BY <2>1, <2>2 DEF StreakAfter
<1>6. BonusAfter(acc, ask, o) \in Bets \cup {NoBonus}
  BY <1>1, <1>4 DEF BonusAfter
<1>7. /\ Gain(acc, ask, o) \in Int /\ acc.balance + Gain(acc, ask, o) \in Nat
  BY <1>1, <1>3, <1>4 DEF Gain
<1>8. RoundOf(k, acc, o) \in Round
  BY <1>1, <1>2, <1>4 DEF RoundOf, Round, IsFree
<1>9. AccountAfter(k, acc, o) \in Account
  <2>1. RoundOf(k, acc, o).bet = bet /\ RoundOf(k, acc, o).nonce = acc.nonce + 1
    BY DEF RoundOf
  <2>2. AccountAfter(k, acc, o) =
          [acc EXCEPT !.balance = @ + Gain(acc, ask, o),
                      !.streak[bet] = StreakAfter(acc, ask, o),
                      !.bonus = BonusAfter(acc, ask, o),
                      !.nonce = acc.nonce + 1]
    BY <2>1 DEF AccountAfter
  <2>3. [acc.streak EXCEPT ![bet] = StreakAfter(acc, ask, o)] \in [Bets -> 0..Pity]
    BY <1>1, <1>4, <1>5
  <2>4. acc.nonce + 1 \in Nat BY <1>4
  <2>5. AccountAfter(k, acc, o) =
          [balance |-> acc.balance + Gain(acc, ask, o),
           streak |-> [acc.streak EXCEPT ![bet] = StreakAfter(acc, ask, o)],
           bonus |-> BonusAfter(acc, ask, o), series |-> acc.series,
           nonce |-> acc.nonce + 1]
    BY <2>2 DEF Account
  <2>6. QED BY <1>4, <1>6, <1>7, <2>3, <2>4, <2>5 DEF Account
<1>10. QED BY <1>7, <1>8, <1>9
-----------------------------------------------------------------------------
(* Types.                                                                  *)

(* Map.set() on the maps of accounts and of answers.                       *)
LEMMA PutAccount ==
  ASSUME TypeOK, NEW p \in Players, NEW acc \in Account
  PROVE  /\ DOMAIN Put(accounts, p, acc) \subseteq Players
         /\ Put(accounts, p, acc) \in [DOMAIN Put(accounts, p, acc) -> Account]
<1>1. DOMAIN accounts \subseteq Players /\ accounts \in [DOMAIN accounts -> Account]
  BY DEF TypeOK
<1>2. QED BY <1>1 DEF Put

LEMMA PutRound ==
  ASSUME TypeOK, NEW k \in Keys, NEW round \in Round
  PROVE  /\ DOMAIN Put(recent, k, round) \subseteq Keys
         /\ Put(recent, k, round) \in [DOMAIN Put(recent, k, round) -> Round]
<1>1. DOMAIN recent \subseteq Keys /\ recent \in [DOMAIN recent -> Round]
  BY DEF TypeOK
<1>2. QED BY <1>1 DEF Put

(* Settling a round, or answering without one.                             *)
LEMMA PlayType ==
  ASSUME TypeOK, NEW k \in DOMAIN asked, NEW n \in Tries, Play(k, n)
  PROVE  TypeOK'
<1> DEFINE p == asked[k].player
           acc == AccountOf(p)
<1>1. /\ k \in Keys /\ asked[k] \in Asking /\ p \in Players /\ MayRegister(p)
  BY DEF TypeOK, Asking, Play
<1>2. acc \in Account /\ SeedsAfter(p) \in 0..MaxSeeds /\ GrantTo(p) \in Int
  BY <1>1, AccountOfType
<1>3. requests' \subseteq requests /\ seeds' = SeedsAfter(p)
      /\ withdrawals' = withdrawals /\ asked' = asked /\ attempt' = attempt
      /\ stalled' = stalled
  BY DEF Play
<1>4. ASSUME NEW round, round = Refusal \/ round \in Round, Reply(k, n, acc, round)
      PROVE  TypeOK'
  <2>1. accounts' = Put(accounts, p, acc) BY <1>4 DEF Reply
  <2>2. DOMAIN accounts' \subseteq Players /\ accounts' \in [DOMAIN accounts' -> Account]
    BY <1>1, <1>2, <2>1, PutAccount
  <2>3. \A a \in answers' \ answers : a = [key |-> k, round |-> round]
    BY <1>4 DEF Reply, Answer
  <2>4. \A a \in answers' : a.key \in DOMAIN asked /\ (a.round = Refusal \/ a.round \in Round)
    BY <1>4, <2>3 DEF TypeOK
  <2>5. supply' \in Int /\ recent' = recent /\ played' = played
    BY <1>2, <1>4 DEF Reply, TypeOK
  <2>6. QED BY <1>2, <1>3, <2>2, <2>4, <2>5 DEF TypeOK
<1>5. ASSUME ~Refuses(acc, asked[k]), Settle(k, n, acc)
      PROVE  TypeOK'
  <2>1. PICK o \in Outcomes(acc, asked[k]) :
          LET round == RoundOf(k, acc, o) IN
          /\ accounts' = Put(accounts, p, AccountAfter(k, acc, o))
          /\ recent' = Put(recent, k, round)
          /\ answers' = answers \cup Answer(k, n, round)
          /\ played' = played \cup {round}
          /\ supply' = supply + GrantTo(p) + Gain(acc, asked[k], o)
    BY <1>5 DEF Settle
  <2> DEFINE round == RoundOf(k, acc, o)
  <2>2. /\ round \in Round /\ AccountAfter(k, acc, o) \in Account
        /\ Gain(acc, asked[k], o) \in Int
    BY <1>1, <1>2, <1>5, RoundType
  <2>3. DOMAIN accounts' \subseteq Players /\ accounts' \in [DOMAIN accounts' -> Account]
    BY <1>1, <2>1, <2>2, PutAccount
  <2>4. DOMAIN recent' \subseteq Keys /\ recent' \in [DOMAIN recent' -> Round]
    BY <1>1, <2>1, <2>2, PutRound
  <2>5. \A a \in answers' \ answers : a = [key |-> k, round |-> round]
    BY <2>1 DEF Answer
  <2>6. \A a \in answers' : a.key \in DOMAIN asked /\ (a.round = Refusal \/ a.round \in Round)
    BY <2>2, <2>5 DEF TypeOK
  <2>7. supply' \in Int BY <1>2, <2>1, <2>2 DEF TypeOK
  <2>8. played' \subseteq Round BY <2>1, <2>2 DEF TypeOK
  <2>9. QED BY <1>2, <1>3, <2>3, <2>4, <2>6, <2>7, <2>8 DEF TypeOK
<1>6. k \in DOMAIN recent => recent[k] \in Round BY DEF TypeOK
<1>7. QED BY <1>4, <1>5, <1>6 DEF Play

(* The client's steps touch nothing but its own variables.                 *)
LEMMA AskType ==
  ASSUME TypeOK, NEW k \in Keys, NEW p \in Players, NEW bet \in AskedBets,
         NEW buy \in BOOLEAN, Ask(k, p, bet, buy)
  PROVE  TypeOK'
<1>1. DOMAIN asked' = DOMAIN asked \cup {k} BY DEF Ask, Put
<1>2. asked' \in [DOMAIN asked' -> Asking]
  <2>1. [player |-> p, bet |-> bet, buy |-> buy] \in Asking BY DEF Asking
  <2>2. asked \in [DOMAIN asked -> Asking] BY DEF TypeOK, Asking
  <2>3. QED BY <2>1, <2>2 DEF Ask, Put
<1>3. attempt' \in [DOMAIN asked' -> Attempt]
  <2>1. FirstTry \in Attempt BY DEF Tries, FirstTry, Attempt
  <2>2. attempt \in [DOMAIN asked -> Attempt] BY DEF TypeOK, Attempt
  <2>3. QED BY <2>1, <2>2, <1>1 DEF Ask, Put
<1>4. requests' \subseteq (DOMAIN asked') \X Tries
  <2>1. <<k, 1>> \in (DOMAIN asked') \X Tries BY <1>1 DEF Tries
  <2>2. requests \subseteq (DOMAIN asked) \X Tries BY DEF TypeOK
  <2>3. (DOMAIN asked) \X Tries \subseteq (DOMAIN asked') \X Tries BY <1>1
  <2>4. QED BY <2>1, <2>2, <2>3 DEF Ask
<1>5. QED BY <1>1, <1>2, <1>3, <1>4 DEF TypeOK, Ask, serverVars, Asking, Attempt

LEMMA TryFailsType ==
  ASSUME TypeOK, NEW k \in DOMAIN asked, Trying(k), TryFails(k)
  PROVE  TypeOK'
<1>1. attempt' \in [DOMAIN asked -> Attempt]
  <2>1. SecondTry \in Attempt /\ Over \in Attempt
    BY DEF Tries, SecondTry, Over, Attempt
  <2>2. attempt \in [DOMAIN asked -> Attempt] BY DEF TypeOK, Attempt
  <2>3. QED BY <2>1, <2>2 DEF TryFails
<1>2. requests' \subseteq (DOMAIN asked) \X Tries
  <2>1. <<k, 2>> \in (DOMAIN asked) \X Tries BY DEF Tries
  <2>2. requests \subseteq (DOMAIN asked) \X Tries BY DEF TypeOK
  <2>3. requests' \subseteq requests \cup {<<k, 2>>} BY DEF TryFails
  <2>4. QED BY <2>1, <2>2, <2>3
<1>3. answers' \subseteq answers BY DEF TryFails
<1>4. QED BY <1>1, <1>2, <1>3 DEF TypeOK, TryFails, serverVars, Attempt

LEMMA EndAttemptType ==
  ASSUME TypeOK, NEW a \in answers, EndAttempt(a)
  PROVE  TypeOK'
<1>1. attempt' \in [DOMAIN asked -> Attempt]
  <2>1. Over \in Attempt BY DEF Tries, Over, Attempt
  <2>2. attempt \in [DOMAIN asked -> Attempt] BY DEF TypeOK, Attempt
  <2>3. QED BY <2>1, <2>2 DEF EndAttempt
<1>2. QED BY <1>1 DEF TypeOK, EndAttempt, serverVars, Attempt

LEMMA HeadComesType ==
  ASSUME TypeOK, NEW a \in answers, HeadComes(a)
  PROVE  TypeOK'
<1>1. attempt \in [DOMAIN asked -> Attempt] /\ a.key \in DOMAIN asked
  BY DEF TypeOK, Attempt
<1>2. [attempt[a.key] EXCEPT !.reading = TRUE] \in Attempt BY <1>1 DEF Attempt
<1>3. attempt' \in [DOMAIN asked -> Attempt]
  BY <1>1, <1>2 DEF HeadComes
<1>4. QED BY <1>3 DEF TypeOK, HeadComes, serverVars, Attempt

LEMMA ClientType ==
  ASSUME TypeOK, ClientStep \/ (\E k \in DOMAIN asked : TimesOut(k))
  PROVE  TypeOK'
<1>1. ASSUME NEW a \in answers, Breaks(a) PROVE TypeOK'
  <2>1. a.key \in DOMAIN asked /\ Trying(a.key) BY <1>1 DEF Breaks, Reading, TypeOK
  <2>2. QED BY <1>1, <2>1, TryFailsType, EndAttemptType DEF Breaks
<1>2. ASSUME NEW a \in answers, Receive(a) PROVE TypeOK'
  BY <1>2, EndAttemptType DEF Receive
<1>3. ASSUME NEW k \in DOMAIN asked, TimesOut(k) PROVE TypeOK'
  BY <1>3, TryFailsType DEF TimesOut, Waiting
<1>4. QED BY <1>1, <1>2, <1>3, HeadComesType, AskType DEF ClientStep

(* Withdrawals.                                                            *)
LEMMA WithdrawalType ==
  ASSUME TypeOK, WithdrawalStep
  PROVE  TypeOK'
<1>1. withdrawals \in [DOMAIN withdrawals -> Withdrawal] BY DEF TypeOK, Withdrawal
<1>2. ASSUME NEW w \in Withdrawals, NEW p \in Players, NEW amount \in Amounts,
             Withdraw(w, p, amount)
      PROVE  TypeOK'
  <2>1. AccountOf(p) \in Account /\ SeedsAfter(p) \in 0..MaxSeeds /\ GrantTo(p) \in Int
    BY <1>2, AccountOfType DEF Withdraw
  <2>2. AccountOf(p).balance - amount \in Nat
    BY <1>2, <2>1 DEF Withdraw, Account
  <2>3. [AccountOf(p) EXCEPT !.balance = @ - amount] \in Account
    BY <2>1, <2>2 DEF Account
  <2>4. DOMAIN accounts' \subseteq Players /\ accounts' \in [DOMAIN accounts' -> Account]
    BY <1>2, <2>3, PutAccount DEF Withdraw
  <2>5. [player |-> p, amount |-> amount, status |-> "pending"] \in Withdrawal
    BY DEF Withdrawal
  <2>6. /\ DOMAIN withdrawals' \subseteq Withdrawals
        /\ withdrawals' \in [DOMAIN withdrawals' -> Withdrawal]
    BY <1>1, <1>2, <2>5 DEF Withdraw, Put, TypeOK
  <2>7. supply' \in Int /\ seeds' \in 0..MaxSeeds
    BY <1>2, <2>1 DEF Withdraw, TypeOK
  <2>8. QED BY <1>2, <2>4, <2>6, <2>7 DEF TypeOK, Withdraw, clientVars, Withdrawal
<1>3. ASSUME NEW w \in DOMAIN withdrawals, NEW status \in {"canceled", "rejected"},
             Refund(w, status)
      PROVE  TypeOK'
  <2> DEFINE p == withdrawals[w].player
  <2>1. /\ withdrawals[w].amount \in Nat /\ accounts[p] \in Account
        /\ p \in DOMAIN accounts
    BY <1>1, <1>3 DEF Refund, Registered, TypeOK, Withdrawal
  <2>2. [accounts[p] EXCEPT !.balance = @ + withdrawals[w].amount] \in Account
    BY <2>1 DEF Account
  <2>3. DOMAIN accounts' = DOMAIN accounts /\ accounts' \in [DOMAIN accounts -> Account]
    BY <1>3, <2>1, <2>2 DEF Refund, TypeOK
  <2>4. [withdrawals[w] EXCEPT !.status = status] \in Withdrawal
    BY <1>1, <1>3 DEF Withdrawal
  <2>5. /\ DOMAIN withdrawals' = DOMAIN withdrawals
        /\ withdrawals' \in [DOMAIN withdrawals -> Withdrawal]
    BY <1>1, <1>3, <2>4 DEF Refund
  <2>6. QED BY <1>3, <2>3, <2>5 DEF TypeOK, Refund, clientVars, Withdrawal
<1>4. ASSUME NEW w \in DOMAIN withdrawals, Approve(w) PROVE TypeOK'
  <2>1. [withdrawals[w] EXCEPT !.status = "approved"] \in Withdrawal
    BY <1>1 DEF Withdrawal
  <2>2. /\ DOMAIN withdrawals' = DOMAIN withdrawals
        /\ withdrawals' \in [DOMAIN withdrawals -> Withdrawal]
    BY <1>1, <1>4, <2>1 DEF Approve
  <2>3. supply' \in Int
    <3>1. withdrawals[w].amount \in Nat BY <1>1 DEF Withdrawal
    <3>2. QED BY <1>4, <3>1 DEF Approve, TypeOK
  <2>4. QED BY <1>4, <2>2, <2>3 DEF TypeOK, Approve, clientVars, Withdrawal
<1>5. QED BY <1>2, <1>3, <1>4 DEF WithdrawalStep

(* What the CRM and the fairness page do to an account.                    *)
LEMMA AccountStepType ==
  ASSUME TypeOK, AccountStep
  PROVE  TypeOK'
<1>1. DOMAIN accounts \subseteq Players /\ accounts \in [DOMAIN accounts -> Account]
  BY DEF TypeOK
<1>2. ASSUME NEW p \in Players, FindOrCreate(p) PROVE TypeOK'
  <2>1. Fresh \in Account /\ seeds + 1 \in 0..MaxSeeds
    BY <1>2, AccountOfType DEF FindOrCreate, AccountOf, SeedsAfter
  <2>2. DOMAIN accounts' \subseteq Players /\ accounts' \in [DOMAIN accounts' -> Account]
    BY <1>2, <2>1, PutAccount DEF FindOrCreate
  <2>3. QED BY <1>2, <2>1, <2>2 DEF TypeOK, FindOrCreate, clientVars
<1>3. ASSUME NEW p \in Players, Rotate(p) PROVE TypeOK'
  <2>1. seeds + 1 \in 1..MaxSeeds BY <1>3 DEF Rotate, TypeOK
  <2>2. accounts[p] \in Account BY <1>1, <1>3 DEF Rotate, Registered
  <2>3. [accounts[p] EXCEPT !.series = seeds + 1, !.nonce = 0] \in Account
    BY <2>1, <2>2 DEF Account
  <2>4. accounts' \in [DOMAIN accounts -> Account] /\ DOMAIN accounts' = DOMAIN accounts
    <3>1. accounts' = [accounts EXCEPT ![p] = [accounts[p] EXCEPT !.series = seeds + 1, !.nonce = 0]]
      BY <1>1, <1>3, <2>2 DEF Rotate, Registered, Account
    <3>2. QED BY <1>1, <2>3, <3>1
  <2>5. QED BY <1>3, <2>1, <2>4 DEF TypeOK, Rotate, clientVars
<1>4. ASSUME NEW p \in Players, Registered(p), NEW balance \in Nat, supply' \in Int,
             accounts' = [accounts EXCEPT ![p].balance = balance],
             UNCHANGED <<withdrawals, recent, seeds, clientVars, played>>
      PROVE  TypeOK'
  <2>1. accounts[p] \in Account BY <1>1, <1>4 DEF Registered
  <2>2. [accounts[p] EXCEPT !.balance = balance] \in Account BY <2>1 DEF Account
  <2>3. accounts' \in [DOMAIN accounts -> Account] /\ DOMAIN accounts' = DOMAIN accounts
    BY <1>1, <1>4, <2>2
  <2>4. QED BY <1>4, <2>3 DEF TypeOK, clientVars
<1>5. \A p \in Players : Registered(p) => accounts[p].balance \in Nat
  BY <1>1 DEF Registered, Account
<1>6. ASSUME NEW p \in Players, NEW amount \in TopUps, TopUp(p, amount) PROVE TypeOK'
  <2>1. accounts[p].balance + amount \in Nat BY <1>5, <1>6 DEF TopUp
  <2>2. accounts' = [accounts EXCEPT ![p].balance = accounts[p].balance + amount]
    BY <1>1, <1>6 DEF TopUp, Registered
  <2>3. supply' \in Int BY <1>6 DEF TopUp, TypeOK
  <2>4. QED BY <1>4, <1>6, <2>1, <2>2, <2>3 DEF TopUp
<1>7. ASSUME NEW p \in Players, ZeroBalance(p) PROVE TypeOK'
  <2>1. supply' \in Int BY <1>5, <1>7 DEF ZeroBalance, TypeOK
  <2>2. QED BY <1>4, <1>7, <2>1 DEF ZeroBalance
<1>8. ASSUME NEW p \in Players, Remove(p) PROVE TypeOK'
  <2>1. supply' \in Int BY <1>5, <1>8 DEF Remove, TypeOK
  <2>2. DOMAIN accounts' \subseteq Players /\ accounts' \in [DOMAIN accounts' -> Account]
    BY <1>1, <1>8 DEF Remove
  <2>3. QED BY <1>8, <2>1, <2>2 DEF TypeOK, Remove, clientVars
<1>9. ASSUME NEW k \in DOMAIN recent, Forget(k) PROVE TypeOK'
  <2>1. DOMAIN recent' \subseteq Keys /\ recent' \in [DOMAIN recent' -> Round]
    BY <1>9 DEF Forget, TypeOK
  <2>2. stalled' \subseteq DOMAIN asked'
    BY <1>9 DEF Forget, Reading, Trying, TypeOK
  <2>3. QED BY <1>9, <2>1, <2>2 DEF TypeOK, Forget
<1>10. QED BY <1>2, <1>3, <1>6, <1>7, <1>8, <1>9 DEF AccountStep

LEMMA StepType ==
  ASSUME TypeOK, [Next]_vars
  PROVE  TypeOK'
<1>1. CASE NetworkStep
  <2>1. ASSUME NEW r \in requests, LoseRequest(r) PROVE TypeOK'
    BY <2>1 DEF LoseRequest, TypeOK, serverVars
  <2>2. ASSUME NEW r \in requests, Play(r[1], r[2]) PROVE TypeOK'
    <3>1. r[1] \in DOMAIN asked /\ r[2] \in Tries BY DEF TypeOK
    <3>2. QED BY <2>2, <3>1, PlayType
  <2>3. QED BY <1>1, <2>1, <2>2 DEF NetworkStep
<1>2. CASE UNCHANGED vars
  BY <1>2 DEF TypeOK, vars, serverVars, clientVars
<1>3. QED
  BY <1>1, <1>2, ClientType, AccountStepType, WithdrawalType DEF Next

(* Types: no balance is ever negative, no row of misses outgrows the pity  *)
(* (play(), charge(), refund() and the CRM's changes in any order).        *)
THEOREM Types == Spec => []TypeOK
<1>1. Init => TypeOK BY DEF Init, TypeOK
<1>2. TypeOK /\ [Next]_vars => TypeOK' BY StepType
<1>3. QED BY <1>1, <1>2, PTL DEF Spec

-----------------------------------------------------------------------------
(* One charge for a key.  A round that was settled is remembered as long   *)
(* as its client may still ask for it: otherwise the attempt is over and   *)
(* no request of its key is on the way, or an answer was read for longer   *)
(* than it is remembered.                                                  *)

Done(k) == ~Trying(k) /\ \A n \in Tries : <<k, n>> \notin requests

Remembered ==
  \A round \in played :
    /\ round.key \in DOMAIN asked
    /\ round.key \in DOMAIN recent \/ Done(round.key) \/ round.key \in stalled

KeyInv == TypeOK /\ Remembered /\ OneChargePerKey

(* Where neither the rounds, the answers kept, the attempts nor the        *)
(* requests change, nothing changes; fewer requests do no harm.            *)
LEMMA QuietKeys ==
  ASSUME KeyInv, UNCHANGED <<played, recent, asked, attempt, stalled>>, requests' \subseteq requests
  PROVE  Remembered' /\ OneChargePerKey'
  BY DEF KeyInv, Remembered, OneChargePerKey, Done, Trying

LEMMA AskKeys ==
  ASSUME KeyInv, NEW k \in Keys, NEW p, NEW bet, NEW buy, Ask(k, p, bet, buy)
  PROVE  Remembered' /\ OneChargePerKey'
<1>1. k \notin DOMAIN asked BY DEF Ask, IsNext
<1>2. DOMAIN asked' = DOMAIN asked \cup {k} BY DEF Ask, Put
<1>3. \A j \in DOMAIN asked : Trying(j)' = Trying(j)
  BY <1>1 DEF Trying, Ask, Put, KeyInv, TypeOK
<1>4. ASSUME NEW round \in played
      PROVE  /\ round.key \in DOMAIN asked'
             /\ round.key \in DOMAIN recent \/ Done(round.key)' \/ round.key \in stalled
  <2>1. round.key \in DOMAIN asked /\ round.key # k BY <1>1 DEF KeyInv, Remembered
  <2>2. \A n \in Tries : <<round.key, n>> \notin requests => <<round.key, n>> \notin requests'
    BY <2>1 DEF Ask
  <2>3. QED BY <1>2, <1>3, <2>1, <2>2 DEF KeyInv, Remembered, Done
<1>5. QED BY <1>4 DEF Ask, serverVars, KeyInv, Remembered, OneChargePerKey

(* Only an attempt that goes on repeats a request, so its round, if there  *)
(* was one, is still remembered.                                           *)
LEMMA TryFailsKeys ==
  ASSUME KeyInv, NEW k, Trying(k), TryFails(k)
  PROVE  Remembered' /\ OneChargePerKey'
<1>1. \A j : j # k => Trying(j)' = Trying(j) BY DEF TryFails, Trying
<1>2. ASSUME NEW round \in played
      PROVE  round.key \in DOMAIN recent \/ Done(round.key)' \/ round.key \in stalled
  <2>1. CASE round.key = k BY <2>1 DEF KeyInv, Remembered, Done
  <2>2. CASE round.key # k
    <3>1. \A n \in Tries : <<round.key, n>> \notin requests => <<round.key, n>> \notin requests'
      BY <2>2 DEF TryFails
    <3>2. QED BY <1>1, <2>2, <3>1 DEF KeyInv, Remembered, Done
  <2>3. QED BY <2>1, <2>2
<1>3. QED BY <1>2 DEF TryFails, serverVars, KeyInv, Remembered, OneChargePerKey

LEMMA EndsKeys ==
  ASSUME KeyInv, NEW k, UNCHANGED <<played, recent, asked, requests, stalled>>,
         \/ attempt' = [attempt EXCEPT ![k] = Over]
         \/ Trying(k) /\ attempt' = [attempt EXCEPT ![k].reading = TRUE]
  PROVE  Remembered' /\ OneChargePerKey'
<1>1. \A j : Trying(j)' => Trying(j) BY DEF Trying
<1>2. QED BY <1>1 DEF KeyInv, Remembered, OneChargePerKey, Done

(* A request is answered: a round is settled only for a key no round was   *)
(* settled for.                                                            *)
LEMMA PlayKeys ==
  ASSUME KeyInv, NEW k \in DOMAIN asked, NEW n \in Tries, <<k, n>> \in requests, Play(k, n)
  PROVE  Remembered' /\ OneChargePerKey'
<1> DEFINE acc == AccountOf(asked[k].player)
<1>1. requests' \subseteq requests /\ UNCHANGED <<asked, attempt, stalled>> BY DEF Play
<1>2. CASE \E round : Reply(k, n, acc, round)
  BY <1>1, <1>2, QuietKeys DEF Reply
<1>3. CASE k \notin DOMAIN recent /\ Settle(k, n, acc)
  <2>1. PICK round : /\ round.key = k /\ recent' = Put(recent, k, round)
                     /\ played' = played \cup {round}
    BY <1>3 DEF Settle, RoundOf
  <2>2. \A old \in played : old.key = k => k \in stalled
    BY <1>3 DEF KeyInv, Remembered, Done
  <2>3. DOMAIN recent' = DOMAIN recent \cup {k} BY <2>1 DEF Put
  <2>4. \A j : Done(j) => Done(j)' BY <1>1 DEF Done, Trying
  <2>5. QED BY <1>1, <2>1, <2>2, <2>3, <2>4 DEF KeyInv, Remembered, OneChargePerKey
<1>4. QED BY <1>2, <1>3 DEF Play

(* An answer is forgotten when no one can ask for it any more, or while it *)
(* is read.                                                                *)
LEMMA ForgetKeys ==
  ASSUME KeyInv, NEW k, Forget(k)
  PROVE  Remembered' /\ OneChargePerKey'
<1>1. Done(k) \/ k \in stalled' BY DEF Forget, Done, Waiting, Reading
<1>2. DOMAIN recent' = DOMAIN recent \ {k} BY DEF Forget
<1>3. UNCHANGED <<played, asked, attempt, requests>> /\ stalled \subseteq stalled' BY DEF Forget
<1>4. \A j : Done(j)' = Done(j) BY <1>3 DEF Done, Trying
<1>5. QED BY <1>1, <1>2, <1>3, <1>4 DEF KeyInv, Remembered, OneChargePerKey

(* No retry costs a second bet, whatever is lost, late or forgotten, for   *)
(* every key but those an answer of which is read for longer than it is    *)
(* remembered (play(), sweep(), startRound()).                             *)
THEOREM RetryIsFree == Spec => []OneChargePerKey
<1>1. Init => KeyInv
  BY DEF Init, KeyInv, TypeOK, Remembered, OneChargePerKey
<1>2. KeyInv /\ [Next]_vars => KeyInv'
  <2>1. SUFFICES ASSUME KeyInv, [Next]_vars PROVE Remembered' /\ OneChargePerKey'
    BY StepType DEF KeyInv
  <2>2. CASE ClientStep
    <3>1. ASSUME NEW a \in answers, HeadComes(a) PROVE Remembered' /\ OneChargePerKey'
      BY <2>1, <3>1, EndsKeys DEF HeadComes, Waiting, serverVars
    <3>2. ASSUME NEW a \in answers, EndAttempt(a) PROVE Remembered' /\ OneChargePerKey'
      BY <2>1, <3>2, EndsKeys DEF EndAttempt, serverVars
    <3>3. ASSUME NEW a \in answers, Breaks(a) PROVE Remembered' /\ OneChargePerKey'
      BY <2>1, <3>2, <3>3, TryFailsKeys DEF Breaks, Reading
    <3>4. QED BY <2>1, <2>2, <3>1, <3>2, <3>3, AskKeys DEF ClientStep, Receive
  <2>3. CASE \E k \in DOMAIN asked : TimesOut(k)
    BY <2>1, <2>3, TryFailsKeys DEF TimesOut, Waiting
  <2>4. CASE NetworkStep
    <3>1. ASSUME NEW r \in requests, LoseRequest(r) PROVE Remembered' /\ OneChargePerKey'
      BY <2>1, <3>1, QuietKeys DEF LoseRequest, serverVars
    <3>2. ASSUME NEW r \in requests, Play(r[1], r[2]) PROVE Remembered' /\ OneChargePerKey'
      <4>1. r = <<r[1], r[2]>> /\ r[1] \in DOMAIN asked /\ r[2] \in Tries
        BY <2>1 DEF KeyInv, TypeOK
      <4>2. QED BY <2>1, <3>2, <4>1, PlayKeys
    <3>3. QED BY <2>4, <3>1, <3>2 DEF NetworkStep
  <2>5. CASE AccountStep
    <3>1. ASSUME NEW k, Forget(k) PROVE Remembered' /\ OneChargePerKey'
      BY <2>1, <3>1, ForgetKeys
    <3>2. QED
      BY <2>1, <2>5, <3>1, QuietKeys
      DEF AccountStep, FindOrCreate, Rotate, ZeroBalance, Remove, TopUp, clientVars
  <2>6. CASE WithdrawalStep
    BY <2>1, <2>6, QuietKeys DEF WithdrawalStep, Withdraw, Refund, Approve, clientVars
  <2>7. CASE UNCHANGED vars
    BY <2>1, <2>7, QuietKeys DEF vars, serverVars, clientVars
  <2>8. QED BY <2>1, <2>2, <2>3, <2>4, <2>5, <2>6, <2>7 DEF Next
<1>3. QED BY <1>1, <1>2, PTL DEF Spec, KeyInv

-----------------------------------------------------------------------------
(* No seed for two rounds.  Every series belongs to one account at most,   *)
(* comes from a seed that was made, and the account's nonce has reached    *)
(* every round of the series.                                              *)

SeriesMade ==
  /\ \A p \in DOMAIN accounts : accounts[p].series <= seeds
  /\ \A round \in played : round.series <= seeds

SeriesOwned ==
  \A p, q \in DOMAIN accounts : accounts[p].series = accounts[q].series => p = q

NoncesSpent ==
  \A round \in played, p \in DOMAIN accounts :
    round.series = accounts[p].series => round.nonce <= accounts[p].nonce

Seeds == SeriesMade /\ SeriesOwned /\ NoncesSpent /\ SeedUsedOnce
SeedInv == TypeOK /\ Seeds

(* Balances, bonuses and streaks may change, accounts may go.              *)
LEMMA QuietSeeds ==
  ASSUME SeedInv, UNCHANGED <<played, seeds>>, DOMAIN accounts' \subseteq DOMAIN accounts,
         \A p \in DOMAIN accounts' :
           /\ accounts'[p].series = accounts[p].series
           /\ accounts'[p].nonce = accounts[p].nonce
  PROVE  Seeds'
<1>1. SeriesMade' BY DEF SeedInv, Seeds, SeriesMade
<1>2. SeriesOwned' BY DEF SeedInv, Seeds, SeriesOwned
<1>3. NoncesSpent' BY DEF SeedInv, Seeds, NoncesSpent
<1>4. SeedUsedOnce' BY DEF SeedInv, Seeds, SeedUsedOnce
<1>5. QED BY <1>1, <1>2, <1>3, <1>4 DEF Seeds

(* The account findOrCreate() returns has a series of its own, whose       *)
(* rounds its nonce has reached.                                           *)
LEMMA FoundSeries ==
  ASSUME SeedInv, NEW p \in Players, MayRegister(p)
  PROVE  /\ AccountOf(p) \in Account /\ SeedsAfter(p) \in Nat /\ seeds \in Nat
         /\ seeds <= SeedsAfter(p) /\ AccountOf(p).series <= SeedsAfter(p)
         /\ \A q \in DOMAIN accounts : q # p => accounts[q].series # AccountOf(p).series
         /\ \A round \in played :
              round.series = AccountOf(p).series => round.nonce <= AccountOf(p).nonce
<1>1. AccountOf(p) \in Account /\ SeedsAfter(p) \in Nat /\ seeds \in Nat
  BY AccountOfType DEF SeedInv, TypeOK
<1>2. CASE Registered(p)
  <2>1. AccountOf(p) = accounts[p] /\ SeedsAfter(p) = seeds /\ p \in DOMAIN accounts
    BY <1>2 DEF AccountOf, SeedsAfter, Registered
  <2>2. QED BY <1>1, <2>1 DEF SeedInv, Seeds, SeriesMade, SeriesOwned, NoncesSpent
<1>3. CASE ~Registered(p)
  <2>1. AccountOf(p).series = seeds + 1 /\ SeedsAfter(p) = seeds + 1
    BY <1>3 DEF AccountOf, SeedsAfter, Fresh
  <2>2. /\ \A q \in DOMAIN accounts : accounts[q].series \in Int
        /\ \A round \in played : round.series \in Int
    BY DEF SeedInv, TypeOK, Account, Round
  <2>3. QED BY <1>1, <2>1, <2>2 DEF SeedInv, Seeds, SeriesMade
<1>4. QED BY <1>2, <1>3

(* An account found or created is written back, its nonce as it was, or    *)
(* moved on by the round that is added.                                    *)
LEMMA PutSeeds ==
  ASSUME SeedInv, NEW p \in Players, MayRegister(p), NEW acc, NEW new,
         acc.series = AccountOf(p).series,
         accounts' = Put(accounts, p, acc), seeds' = SeedsAfter(p), played' = played \cup new,
         \/ new = {} /\ acc.nonce = AccountOf(p).nonce
         \/ /\ acc.nonce = AccountOf(p).nonce + 1
            /\ \E round : /\ new = {round} /\ round.series = acc.series
                          /\ round.nonce = acc.nonce
  PROVE  Seeds'
<1> DEFINE old == AccountOf(p)
<1>1. /\ old \in Account /\ SeedsAfter(p) \in Nat /\ seeds \in Nat
      /\ seeds <= SeedsAfter(p) /\ old.series <= SeedsAfter(p)
      /\ \A q \in DOMAIN accounts : q # p => accounts[q].series # old.series
      /\ \A round \in played : round.series = old.series => round.nonce <= old.nonce
  BY FoundSeries
<1>2. /\ DOMAIN accounts' = DOMAIN accounts \cup {p} /\ accounts'[p] = acc
      /\ \A q \in DOMAIN accounts : q # p => accounts'[q] = accounts[q]
  BY DEF Put
<1>3. /\ old.nonce \in Nat
      /\ \A q \in DOMAIN accounts : accounts[q].series \in Int /\ accounts[q].nonce \in Int
      /\ \A round \in played : round.series \in Int /\ round.nonce \in Int
  BY <1>1 DEF SeedInv, TypeOK, Account, Round
<1>4. \A round \in new :
         round.series = old.series /\ round.nonce = acc.nonce /\ round.nonce = old.nonce + 1
  OBVIOUS
<1>5. old.nonce <= acc.nonce BY <1>3
<1>6. SeriesMade'
  BY <1>1, <1>2, <1>3, <1>4 DEF SeedInv, Seeds, SeriesMade, Account
<1>7. SeriesOwned' BY <1>1, <1>2 DEF SeedInv, Seeds, SeriesOwned
<1>8. NoncesSpent'
  <2>1. ASSUME NEW round \in played, NEW q \in DOMAIN accounts',
               round.series = accounts'[q].series
        PROVE  round.nonce <= accounts'[q].nonce
    <3>1. CASE q = p BY <1>1, <1>2, <1>3, <1>5, <2>1, <3>1
    <3>2. CASE q # p BY <1>2, <2>1, <3>2 DEF SeedInv, Seeds, NoncesSpent
    <3>3. QED BY <3>1, <3>2
  <2>2. ASSUME NEW round \in new, NEW q \in DOMAIN accounts',
               round.series = accounts'[q].series
        PROVE  round.nonce <= accounts'[q].nonce
    <3>1. q = p BY <1>1, <1>2, <1>4, <2>2
    <3>2. QED BY <1>2, <1>3, <1>4, <3>1
  <2>3. QED BY <2>1, <2>2 DEF NoncesSpent
<1>9. SeedUsedOnce'
  <2>1. \A a \in new, b \in played : a.series = b.series => a.nonce # b.nonce
    BY <1>1, <1>3, <1>4
  <2>2. \A a, b \in new : a = b OBVIOUS
  <2>3. QED BY <2>1, <2>2 DEF SeedInv, Seeds, SeedUsedOnce
<1>10. QED BY <1>6, <1>7, <1>8, <1>9 DEF Seeds

LEMMA PlaySeeds ==
  ASSUME SeedInv, NEW k \in DOMAIN asked, NEW n, Play(k, n)
  PROVE  Seeds'
<1> DEFINE p == asked[k].player
           acc == AccountOf(p)
<1>1. p \in Players /\ MayRegister(p) /\ seeds' = SeedsAfter(p)
  BY DEF SeedInv, TypeOK, Play
<1>2. CASE \E round : Reply(k, n, acc, round)
  <2>1. accounts' = Put(accounts, p, acc) /\ played' = played \cup {}
    BY <1>2 DEF Reply
  <2>2. QED BY <1>1, <2>1, PutSeeds
<1>3. CASE Settle(k, n, acc)
  <2>1. PICK o \in Outcomes(acc, asked[k]) :
          /\ accounts' = Put(accounts, p, AccountAfter(k, acc, o))
          /\ played' = played \cup {RoundOf(k, acc, o)}
    BY <1>3 DEF Settle
  <2>2. /\ RoundOf(k, acc, o).series = acc.series
        /\ RoundOf(k, acc, o).nonce = acc.nonce + 1
    BY DEF RoundOf
  <2>3. acc \in Account BY <1>1, FoundSeries
  <2>4. /\ AccountAfter(k, acc, o).series = acc.series
        /\ AccountAfter(k, acc, o).nonce = acc.nonce + 1
    BY <2>2, <2>3 DEF AccountAfter, Account
  <2>5. QED BY <1>1, <2>1, <2>2, <2>4, PutSeeds
<1>4. QED BY <1>2, <1>3 DEF Play

LEMMA AccountSeeds ==
  ASSUME SeedInv, AccountStep
  PROVE  Seeds'
<1>1. \A p \in DOMAIN accounts : accounts[p] \in Account BY DEF SeedInv, TypeOK
<1>2. ASSUME NEW p \in Players, FindOrCreate(p) PROVE Seeds'
  <2>1. /\ AccountOf(p) = Fresh /\ SeedsAfter(p) = seeds + 1 /\ MayRegister(p)
        /\ played' = played \cup {}
    BY <1>2 DEF FindOrCreate, AccountOf, SeedsAfter
  <2>2. QED BY <1>2, <2>1, PutSeeds DEF FindOrCreate
<1>3. ASSUME NEW p \in Players, Rotate(p) PROVE Seeds'
  <2>1. /\ p \in DOMAIN accounts /\ DOMAIN accounts' = DOMAIN accounts /\ played' = played
        /\ accounts'[p].series = seeds + 1 /\ accounts'[p].nonce = 0
        /\ \A q \in DOMAIN accounts : q # p => accounts'[q] = accounts[q]
        /\ seeds' = seeds + 1
    BY <1>1, <1>3 DEF Rotate, Registered, Account
  <2>2. /\ seeds \in Nat
        /\ \A q \in DOMAIN accounts : accounts[q].series \in Int
        /\ \A round \in played : round.series \in Int
    BY <1>1 DEF SeedInv, TypeOK, Account, Round
  <2>3. SeriesMade' BY <2>1, <2>2 DEF SeedInv, Seeds, SeriesMade
  <2>4. SeriesOwned' BY <2>1, <2>2 DEF SeedInv, Seeds, SeriesOwned, SeriesMade
  <2>5. NoncesSpent' BY <2>1, <2>2 DEF SeedInv, Seeds, NoncesSpent, SeriesMade
  <2>6. SeedUsedOnce' BY <2>1 DEF SeedInv, Seeds, SeedUsedOnce
  <2>7. QED BY <2>3, <2>4, <2>5, <2>6 DEF Seeds
<1>4. ASSUME NEW p \in Players, ZeroBalance(p) PROVE Seeds'
  BY <1>1, <1>4, QuietSeeds DEF ZeroBalance, Account
<1>5. ASSUME NEW p \in Players, NEW amount, TopUp(p, amount) PROVE Seeds'
  BY <1>1, <1>5, QuietSeeds DEF TopUp, Account
<1>6. ASSUME NEW p \in Players, Remove(p) PROVE Seeds'
  BY <1>6, QuietSeeds DEF Remove
<1>7. ASSUME NEW k, Forget(k) PROVE Seeds'
  BY <1>7, QuietSeeds DEF Forget
<1>8. QED BY <1>2, <1>3, <1>4, <1>5, <1>6, <1>7 DEF AccountStep

LEMMA WithdrawalSeeds ==
  ASSUME SeedInv, WithdrawalStep
  PROVE  Seeds'
<1>1. \A p \in DOMAIN accounts : accounts[p] \in Account BY DEF SeedInv, TypeOK
<1>2. ASSUME NEW w \in Withdrawals, NEW p \in Players, NEW amount, Withdraw(w, p, amount)
      PROVE  Seeds'
  <2>1. AccountOf(p) \in Account BY <1>2, FoundSeries DEF Withdraw
  <2>2. /\ [AccountOf(p) EXCEPT !.balance = @ - amount].series = AccountOf(p).series
        /\ [AccountOf(p) EXCEPT !.balance = @ - amount].nonce = AccountOf(p).nonce
    BY <2>1 DEF Account
  <2>3. played' = played \cup {} BY <1>2 DEF Withdraw
  <2>4. QED BY <1>2, <2>2, <2>3, PutSeeds DEF Withdraw
<1>3. ASSUME NEW w, NEW status, Refund(w, status) PROVE Seeds'
  BY <1>1, <1>3, QuietSeeds DEF Refund, Account
<1>4. ASSUME NEW w, Approve(w) PROVE Seeds'
  BY <1>4, QuietSeeds DEF Approve
<1>5. QED BY <1>2, <1>3, <1>4 DEF WithdrawalStep

(* Every step keeps what the seeds rest on.                                *)
LEMMA SeedStep ==
  ASSUME SeedInv, [Next]_vars
  PROVE  SeedInv'
<1>1. SUFFICES Seeds' BY StepType DEF SeedInv
<1>2. CASE ClientStep \/ (\E k \in DOMAIN asked : TimesOut(k))
  <2>1. UNCHANGED <<accounts, seeds, played>>
    BY <1>2
    DEF ClientStep, Ask, HeadComes, Receive, Breaks, EndAttempt, TimesOut, TryFails,
        serverVars
  <2>2. QED BY <2>1, QuietSeeds
<1>3. CASE NetworkStep
  <2>1. ASSUME NEW r \in requests, LoseRequest(r) PROVE Seeds'
    BY <2>1, QuietSeeds DEF LoseRequest, serverVars
  <2>2. ASSUME NEW r \in requests, Play(r[1], r[2]) PROVE Seeds'
    <3>1. r[1] \in DOMAIN asked BY <1>1 DEF SeedInv, TypeOK
    <3>2. QED BY <2>2, <3>1, PlaySeeds
  <2>3. QED BY <1>3, <2>1, <2>2 DEF NetworkStep
<1>4. CASE UNCHANGED vars
  BY <1>4, QuietSeeds DEF vars, serverVars
<1>5. QED BY <1>2, <1>3, <1>4, AccountSeeds, WithdrawalSeeds DEF Next

(* No two rounds come from one seed and nonce, whatever rotations,         *)
(* deletions and registrations happen between them (nextSeed(), rotate(),  *)
(* findOrCreate()).                                                        *)
THEOREM SeedsServeOnce == Spec => []SeedUsedOnce
<1>1. Init => SeedInv
  BY DEF Init, SeedInv, TypeOK, Seeds, SeriesMade, SeriesOwned, NoncesSpent, SeedUsedOnce
<1>2. SeedInv /\ [Next]_vars => SeedInv' BY SeedStep
<1>3. QED BY <1>1, <1>2, PTL DEF Spec, SeedInv, Seeds

-----------------------------------------------------------------------------
(* Money.  Every step changes the balances and the reserves by as much as  *)
(* it changes the supply.                                                  *)

Finite == IsFiniteSet(DOMAIN accounts) /\ IsFiniteSet(DOMAIN withdrawals)
MoneyInv == TypeOK /\ Finite /\ MoneyAddsUp

LEMMA AmountsAreNumbers ==
  ASSUME TypeOK, Finite
  PROVE  /\ \A p \in DOMAIN accounts : accounts[p] \in Account /\ accounts[p].balance \in Int
         /\ \A w \in DOMAIN withdrawals : withdrawals[w].amount \in Int
         /\ IsFiniteSet(DOMAIN Balances) /\ IsFiniteSet(DOMAIN Reserves)
         /\ SumFunction(Balances) \in Int /\ SumFunction(Reserves) \in Int /\ supply \in Int
<1>1. \A p \in DOMAIN accounts : accounts[p] \in Account /\ accounts[p].balance \in Int
  BY DEF TypeOK, Account
<1>2. \A w \in DOMAIN withdrawals : withdrawals[w].amount \in Int BY DEF TypeOK
<1>3. DOMAIN Balances = DOMAIN accounts /\ DOMAIN Reserves \subseteq DOMAIN withdrawals
  BY DEF Balances, Reserves
<1>4. IsFiniteSet(DOMAIN Balances) /\ IsFiniteSet(DOMAIN Reserves)
  BY <1>3, FS_Subset DEF Finite
<1>5. /\ \A p \in DOMAIN Balances : Balances[p] \in Int
      /\ \A w \in DOMAIN Reserves : Reserves[w] \in Int
  BY <1>1, <1>2 DEF Balances, Reserves
<1>6. SumFunction(Balances) \in Int /\ SumFunction(Reserves) \in Int
  BY <1>4, <1>5, SumIs DEF SumFunction
<1>7. QED BY <1>1, <1>2, <1>4, <1>6 DEF TypeOK

(* An account, found or created, is written back.                          *)
LEMMA BalanceChanges ==
  ASSUME TypeOK, Finite, NEW p \in Players, NEW acc, acc.balance \in Int,
         DOMAIN accounts' = DOMAIN accounts \cup {p}, accounts'[p] = acc,
         \A q \in DOMAIN accounts : q # p => accounts'[q].balance = accounts[q].balance
  PROVE  /\ SumFunction(Balances)' =
              SumFunction(Balances) + GrantTo(p) + (acc.balance - AccountOf(p).balance)
         /\ IsFiniteSet(DOMAIN accounts')
         /\ GrantTo(p) \in Int /\ AccountOf(p).balance \in Int
<1>1. /\ IsFiniteSet(DOMAIN Balances) /\ SumFunction(Balances) \in Int
      /\ \A q \in DOMAIN accounts : accounts[q].balance \in Int
  BY AmountsAreNumbers
<1>2. /\ DOMAIN Balances = DOMAIN accounts /\ DOMAIN Balances' = DOMAIN Balances \cup {p}
      /\ \A q \in DOMAIN Balances : Balances[q] = accounts[q].balance
      /\ \A q \in DOMAIN Balances \ {p} : Balances'[q] = Balances[q]
      /\ Balances'[p] = acc.balance
  BY DEF Balances
<1>3. SumFunction(Balances') = SumFunction(Balances) + acc.balance
        - (IF p \in DOMAIN Balances THEN Balances[p] ELSE 0)
  BY <1>1, <1>2, SumChanges
<1>4. /\ GrantTo(p) \in Int /\ AccountOf(p).balance \in Int
      /\ (IF p \in DOMAIN Balances THEN Balances[p] ELSE 0) = AccountOf(p).balance - GrantTo(p)
  BY <1>1, <1>2 DEF GrantTo, AccountOf, Registered, Fresh
<1>5. IsFiniteSet(DOMAIN accounts') BY FS_AddElement DEF Finite
<1>6. SumFunction(Balances)' = SumFunction(Balances') OBVIOUS
<1>7. QED BY <1>1, <1>3, <1>4, <1>5, <1>6

(* The balance of an account that exists is set.                           *)
LEMMA BalanceSet ==
  ASSUME TypeOK, Finite, NEW p \in DOMAIN accounts, NEW old, old = accounts[p].balance,
         NEW new \in Int, accounts' = [accounts EXCEPT ![p].balance = new]
  PROVE  /\ SumFunction(Balances)' = SumFunction(Balances) + (new - old)
         /\ IsFiniteSet(DOMAIN accounts') /\ old \in Int
<1>1. accounts[p] \in Account /\ p \in Players BY DEF TypeOK
<1>2. accounts'[p].balance = new BY <1>1 DEF Account
<1>3. GrantTo(p) = 0 /\ AccountOf(p) = accounts[p] BY DEF GrantTo, AccountOf, Registered
<1>4. SumFunction(Balances) \in Int /\ old \in Int BY AmountsAreNumbers
<1>5. /\ DOMAIN accounts' = DOMAIN accounts \cup {p}
      /\ \A q \in DOMAIN accounts : q # p => accounts'[q].balance = accounts[q].balance
  OBVIOUS
<1>6. /\ SumFunction(Balances)' =
           SumFunction(Balances) + GrantTo(p) + (new - AccountOf(p).balance)
      /\ IsFiniteSet(DOMAIN accounts')
  BY <1>1, <1>2, <1>5, BalanceChanges
<1>7. QED BY <1>3, <1>4, <1>6

(* Only balances count.                                                    *)
LEMMA SameBalances ==
  ASSUME Finite, DOMAIN accounts' = DOMAIN accounts,
         \A p \in DOMAIN accounts : accounts'[p].balance = accounts[p].balance
  PROVE  SumFunction(Balances)' = SumFunction(Balances) /\ IsFiniteSet(DOMAIN accounts')
<1>1. Balances' = Balances BY DEF Balances
<1>2. QED BY <1>1 DEF Finite

LEMMA SameReserves ==
  ASSUME Finite, UNCHANGED withdrawals
  PROVE  SumFunction(Reserves)' = SumFunction(Reserves) /\ IsFiniteSet(DOMAIN withdrawals')
<1>1. Reserves' = Reserves BY DEF Reserves, Pending
<1>2. QED BY <1>1 DEF Finite

(* A withdrawal that waits is settled one way or another.                  *)
LEMMA ReserveGoes ==
  ASSUME TypeOK, Finite, NEW w \in DOMAIN withdrawals, Pending(w),
         NEW status, status # "pending",
         withdrawals' = [withdrawals EXCEPT ![w].status = status]
  PROVE  /\ SumFunction(Reserves)' = SumFunction(Reserves) - withdrawals[w].amount
         /\ IsFiniteSet(DOMAIN withdrawals')
<1>1. /\ DOMAIN withdrawals' = DOMAIN withdrawals
      /\ withdrawals'[w].status = status
      /\ \A v \in DOMAIN withdrawals : v # w => withdrawals'[v] = withdrawals[v]
  BY DEF TypeOK
<1>2. /\ w \in DOMAIN Reserves /\ Reserves[w] = withdrawals[w].amount
      /\ DOMAIN Reserves' = DOMAIN Reserves \ {w}
      /\ \A v \in DOMAIN Reserves' : Reserves'[v] = Reserves[v]
      /\ \A v \in DOMAIN Reserves : Reserves[v] = withdrawals[v].amount
  BY <1>1 DEF Reserves, Pending
<1>3. \A v \in DOMAIN Reserves : Reserves[v] \in Int
  BY AmountsAreNumbers, <1>2 DEF Reserves
<1>4. IsFiniteSet(DOMAIN Reserves) BY AmountsAreNumbers
<1>5. SumFunction(Reserves') = SumFunction(Reserves) - Reserves[w]
  BY <1>2, <1>3, <1>4, SumLoses
<1>6. SumFunction(Reserves)' = SumFunction(Reserves') OBVIOUS
<1>7. QED BY <1>1, <1>2, <1>5, <1>6 DEF Finite

(* A handler of the account alone.                                         *)
LEMMA AccountMoney ==
  ASSUME MoneyInv, AccountStep
  PROVE  Finite' /\ MoneyAddsUp'
<1>1. /\ TypeOK /\ Finite /\ SumFunction(Balances) \in Int /\ SumFunction(Reserves) \in Int
      /\ supply \in Int /\ \A p \in DOMAIN accounts : accounts[p] \in Account
      /\ SumFunction(Balances) + SumFunction(Reserves) = supply
  BY AmountsAreNumbers DEF MoneyInv, MoneyAddsUp
<1>2. UNCHANGED withdrawals
  BY DEF AccountStep, FindOrCreate, Rotate, ZeroBalance, Remove, TopUp, Forget
<1>3. SumFunction(Reserves)' = SumFunction(Reserves) /\ IsFiniteSet(DOMAIN withdrawals')
  BY <1>1, <1>2, SameReserves
<1>4. ASSUME IsFiniteSet(DOMAIN accounts'),
             SumFunction(Balances)' - SumFunction(Balances) = supply' - supply,
             SumFunction(Balances)' \in Int, supply' \in Int
      PROVE  Finite' /\ MoneyAddsUp'
  BY <1>1, <1>3, <1>4 DEF Finite, MoneyAddsUp
<1>5. ASSUME NEW p \in Players, FindOrCreate(p) PROVE Finite' /\ MoneyAddsUp'
  <2>1. /\ DOMAIN accounts' = DOMAIN accounts \cup {p} /\ accounts'[p] = Fresh
        /\ \A q \in DOMAIN accounts : q # p => accounts'[q].balance = accounts[q].balance
    BY <1>5 DEF FindOrCreate, Put
  <2>2. Fresh.balance \in Int /\ AccountOf(p) = Fresh /\ GrantTo(p) = StartBalance
    BY <1>5 DEF Fresh, AccountOf, GrantTo, FindOrCreate
  <2>3. /\ SumFunction(Balances)' =
             SumFunction(Balances) + GrantTo(p) + (Fresh.balance - AccountOf(p).balance)
        /\ IsFiniteSet(DOMAIN accounts')
    BY <1>1, <2>1, <2>2, BalanceChanges
  <2>4. SumFunction(Balances)' = SumFunction(Balances) + StartBalance BY <1>1, <2>2, <2>3
  <2>5. supply' = supply + StartBalance BY <1>5 DEF FindOrCreate
  <2>6. QED BY <1>1, <1>4, <2>3, <2>4, <2>5
<1>6. ASSUME NEW p \in Players, Rotate(p) PROVE Finite' /\ MoneyAddsUp'
  <2>1. /\ DOMAIN accounts' = DOMAIN accounts /\ supply' = supply
        /\ \A q \in DOMAIN accounts : accounts'[q].balance = accounts[q].balance
    BY <1>1, <1>6 DEF Rotate, Account
  <2>2. QED BY <1>1, <1>4, <2>1, SameBalances
<1>7. ASSUME NEW p \in Players, NEW amount \in TopUps, TopUp(p, amount)
      PROVE  Finite' /\ MoneyAddsUp'
  <2>1. p \in DOMAIN accounts /\ supply' = supply + amount BY <1>7 DEF TopUp, Registered
  <2> DEFINE old == accounts[p].balance
             new == old + amount
  <2>2. old \in Int /\ amount \in Int BY <1>1, <2>1, AmountsAreNumbers
  <2>3. accounts' = [accounts EXCEPT ![p].balance = new] /\ new \in Int
    BY <1>7, <2>2 DEF TopUp
  <2>4. SumFunction(Balances)' = SumFunction(Balances) + (new - old) /\ IsFiniteSet(DOMAIN accounts')
    <3> HIDE DEF new
    <3>1. QED BY <1>1, <2>1, <2>3, BalanceSet
  <2>5. QED BY <1>1, <1>4, <2>1, <2>2, <2>4
<1>8. ASSUME NEW p \in Players, ZeroBalance(p) PROVE Finite' /\ MoneyAddsUp'
  <2> DEFINE old == accounts[p].balance
             new == 0
  <2>1. /\ p \in DOMAIN accounts /\ supply' = supply - old /\ new \in Int
        /\ accounts' = [accounts EXCEPT ![p].balance = new]
    BY <1>8 DEF ZeroBalance, Registered
  <2>2. /\ SumFunction(Balances)' = SumFunction(Balances) + (new - old)
        /\ IsFiniteSet(DOMAIN accounts') /\ old \in Int
    <3> HIDE DEF new
    <3>1. QED BY <1>1, <2>1, BalanceSet
  <2>3. QED BY <1>1, <1>4, <2>1, <2>2
<1>9. ASSUME NEW p \in Players, Remove(p) PROVE Finite' /\ MoneyAddsUp'
  <2>1. /\ p \in DOMAIN accounts /\ supply' = supply - accounts[p].balance
        /\ DOMAIN accounts' = DOMAIN accounts \ {p}
        /\ \A q \in DOMAIN accounts' : accounts'[q] = accounts[q]
    BY <1>9 DEF Remove, Registered
  <2>2. /\ p \in DOMAIN Balances /\ DOMAIN Balances' = DOMAIN Balances \ {p}
        /\ \A q \in DOMAIN Balances' : Balances'[q] = Balances[q]
        /\ Balances[p] = accounts[p].balance /\ \A q \in DOMAIN Balances : Balances[q] \in Int
        /\ IsFiniteSet(DOMAIN Balances)
    BY <1>1, <2>1, AmountsAreNumbers DEF Balances
  <2>3. SumFunction(Balances') = SumFunction(Balances) - accounts[p].balance
    BY <2>2, SumLoses
  <2>4. IsFiniteSet(DOMAIN accounts') BY <1>1, <2>1, FS_RemoveElement DEF Finite
  <2>5. accounts[p].balance \in Int BY <1>1, <2>1, AmountsAreNumbers
  <2>6. QED BY <1>1, <1>4, <2>1, <2>3, <2>4, <2>5
<1>10. ASSUME NEW k, Forget(k) PROVE Finite' /\ MoneyAddsUp'
  BY <1>1, <1>4, <1>10, SameBalances DEF Forget
<1>11. QED BY <1>5, <1>6, <1>7, <1>8, <1>9, <1>10 DEF AccountStep

(* A round, or an answer without one.                                      *)
LEMMA PlayMoney ==
  ASSUME MoneyInv, NEW k \in DOMAIN asked, NEW n, Play(k, n)
  PROVE  Finite' /\ MoneyAddsUp'
<1> DEFINE p == asked[k].player
           acc == AccountOf(p)
<1>1. /\ TypeOK /\ Finite /\ SumFunction(Balances) \in Int /\ SumFunction(Reserves) \in Int
      /\ supply \in Int /\ SumFunction(Balances) + SumFunction(Reserves) = supply
  BY AmountsAreNumbers DEF MoneyInv, MoneyAddsUp
<1>2. k \in Keys /\ asked[k] \in Asking /\ p \in Players /\ acc \in Account
      /\ acc.balance \in Int /\ UNCHANGED withdrawals
  <2>1. k \in Keys /\ asked[k] \in Asking /\ p \in Players /\ MayRegister(p)
    BY <1>1 DEF TypeOK, Asking, Play
  <2>2. acc \in Account BY <1>1, <2>1, AccountOfType
  <2>3. QED BY <2>1, <2>2 DEF Account, Play
<1>3. SumFunction(Reserves)' = SumFunction(Reserves) /\ IsFiniteSet(DOMAIN withdrawals')
  BY <1>1, <1>2, SameReserves
<1>4. ASSUME NEW new, NEW gain \in Int, new.balance = acc.balance + gain,
             accounts' = Put(accounts, p, new), supply' = supply + GrantTo(p) + gain
      PROVE  Finite' /\ MoneyAddsUp'
  <2>1. /\ DOMAIN accounts' = DOMAIN accounts \cup {p} /\ accounts'[p] = new
        /\ \A q \in DOMAIN accounts : q # p => accounts'[q].balance = accounts[q].balance
    BY <1>4 DEF Put
  <2>2. new.balance \in Int BY <1>2, <1>4
  <2>3. /\ SumFunction(Balances)' =
             SumFunction(Balances) + GrantTo(p) + (new.balance - acc.balance)
        /\ IsFiniteSet(DOMAIN accounts') /\ GrantTo(p) \in Int
    BY <1>1, <1>2, <2>1, <2>2, BalanceChanges
  <2>4. new.balance - acc.balance = gain BY <1>2, <1>4
  <2>5. SumFunction(Balances)' + SumFunction(Reserves)' = supply'
    BY <1>1, <1>3, <1>4, <2>3, <2>4
  <2>6. QED BY <1>3, <2>3, <2>5 DEF Finite, MoneyAddsUp
<1>5. CASE \E round : Reply(k, n, acc, round)
  <2>1. accounts' = Put(accounts, p, acc) /\ supply' = supply + GrantTo(p)
    BY <1>5 DEF Reply
  <2>2. GrantTo(p) \in Int BY DEF GrantTo
  <2>3. supply' = supply + GrantTo(p) + 0 /\ acc.balance = acc.balance + 0
    BY <1>1, <1>2, <2>1, <2>2
  <2>4. QED BY <1>4, <2>1, <2>3
<1>6. CASE ~Refuses(acc, asked[k]) /\ Settle(k, n, acc)
  <2>1. PICK o \in Outcomes(acc, asked[k]) :
          /\ accounts' = Put(accounts, p, AccountAfter(k, acc, o))
          /\ supply' = supply + GrantTo(p) + Gain(acc, asked[k], o)
    BY <1>6 DEF Settle
  <2>2. Gain(acc, asked[k], o) \in Int BY <1>2, <1>6, RoundType
  <2>3. AccountAfter(k, acc, o).balance = acc.balance + Gain(acc, asked[k], o)
    BY <1>2 DEF AccountAfter, Account
  <2>4. QED BY <1>4, <2>1, <2>2, <2>3
<1>7. QED BY <1>5, <1>6 DEF Play

(* Money is reserved, given back, or leaves.                               *)
LEMMA WithdrawalMoney ==
  ASSUME MoneyInv, WithdrawalStep
  PROVE  Finite' /\ MoneyAddsUp'
<1>1. /\ TypeOK /\ Finite /\ SumFunction(Balances) \in Int /\ SumFunction(Reserves) \in Int
      /\ supply \in Int /\ SumFunction(Balances) + SumFunction(Reserves) = supply
  BY AmountsAreNumbers DEF MoneyInv, MoneyAddsUp
<1>2. ASSUME NEW w \in Withdrawals, NEW p \in Players, NEW amount \in Amounts,
             Withdraw(w, p, amount)
      PROVE  Finite' /\ MoneyAddsUp'
  <2> DEFINE acc == AccountOf(p)
             new == [acc EXCEPT !.balance = @ - amount]
  <2>1. acc \in Account /\ MayRegister(p) BY <1>1, <1>2, AccountOfType DEF Withdraw
  <2>2. acc.balance \in Int /\ amount \in Int /\ new.balance = acc.balance - amount
    BY <2>1 DEF Account
  <2>3. /\ DOMAIN accounts' = DOMAIN accounts \cup {p} /\ accounts'[p] = new
        /\ \A q \in DOMAIN accounts : q # p => accounts'[q].balance = accounts[q].balance
    BY <1>2 DEF Put, Withdraw
  <2>4. new.balance \in Int BY <2>2
  <2>5. /\ SumFunction(Balances)' =
             SumFunction(Balances) + GrantTo(p) + (new.balance - acc.balance)
        /\ IsFiniteSet(DOMAIN accounts') /\ GrantTo(p) \in Int
    <3> HIDE DEF new
    <3>1. QED BY <1>1, <2>3, <2>4, BalanceChanges
  <2>6. new.balance - acc.balance = 0 - amount BY <2>2
  <2>7. /\ w \notin DOMAIN withdrawals /\ DOMAIN withdrawals' = DOMAIN withdrawals \cup {w}
        /\ withdrawals'[w].status = "pending" /\ withdrawals'[w].amount = amount
        /\ \A v \in DOMAIN withdrawals : withdrawals'[v] = withdrawals[v]
    BY <1>2 DEF Withdraw, IsNext, Put
  <2>8. /\ w \notin DOMAIN Reserves /\ DOMAIN Reserves' = DOMAIN Reserves \cup {w}
        /\ Reserves'[w] = amount
        /\ \A v \in DOMAIN Reserves \ {w} : Reserves'[v] = Reserves[v]
    BY <2>7 DEF Reserves, Pending
  <2>9. IsFiniteSet(DOMAIN Reserves) /\ \A v \in DOMAIN Reserves : Reserves[v] \in Int
    BY <1>1, AmountsAreNumbers DEF Reserves
  <2>10. SumFunction(Reserves') = SumFunction(Reserves) + Reserves'[w]
           - (IF w \in DOMAIN Reserves THEN Reserves[w] ELSE 0)
    BY <2>2, <2>8, <2>9, SumChanges
  <2>11. SumFunction(Reserves)' = SumFunction(Reserves) + amount
    BY <1>1, <2>2, <2>8, <2>10
  <2>12. supply' = supply + GrantTo(p) BY <1>2 DEF Withdraw
  <2>13. SumFunction(Balances)' + SumFunction(Reserves)' = supply'
    BY <1>1, <2>2, <2>5, <2>6, <2>11, <2>12
  <2>14. IsFiniteSet(DOMAIN withdrawals') BY <1>1, <2>7, FS_AddElement DEF Finite
  <2>15. QED BY <2>5, <2>13, <2>14 DEF Finite, MoneyAddsUp
<1>3. ASSUME NEW w \in DOMAIN withdrawals, NEW status \in {"canceled", "rejected"},
             Refund(w, status)
      PROVE  Finite' /\ MoneyAddsUp'
  <2> DEFINE p == withdrawals[w].player
             amount == withdrawals[w].amount
             old == accounts[p].balance
             new == old + amount
  <2>1. /\ p \in DOMAIN accounts /\ Pending(w) /\ supply' = supply
        /\ accounts' = [accounts EXCEPT ![p].balance = new]
        /\ withdrawals' = [withdrawals EXCEPT ![w].status = status]
    BY <1>3 DEF Refund, Registered
  <2>2. old \in Int /\ amount \in Int /\ new \in Int BY <1>1, <2>1, AmountsAreNumbers
  <2>3. SumFunction(Balances)' = SumFunction(Balances) + (new - old) /\ IsFiniteSet(DOMAIN accounts')
    <3> HIDE DEF new
    <3>1. QED BY <1>1, <2>1, <2>2, BalanceSet
  <2>4. /\ SumFunction(Reserves)' = SumFunction(Reserves) - amount
        /\ IsFiniteSet(DOMAIN withdrawals')
    BY <1>1, <2>1, ReserveGoes
  <2>5. SumFunction(Balances)' + SumFunction(Reserves)' = supply'
    BY <1>1, <2>1, <2>2, <2>3, <2>4
  <2>6. QED BY <2>3, <2>4, <2>5 DEF Finite, MoneyAddsUp
<1>4. ASSUME NEW w \in DOMAIN withdrawals, Approve(w) PROVE Finite' /\ MoneyAddsUp'
  <2> DEFINE amount == withdrawals[w].amount
  <2>1. /\ Pending(w) /\ supply' = supply - amount /\ UNCHANGED accounts
        /\ withdrawals' = [withdrawals EXCEPT ![w].status = "approved"]
    BY <1>4 DEF Approve
  <2>2. amount \in Int BY <1>1, AmountsAreNumbers
  <2>3. SumFunction(Balances)' = SumFunction(Balances) /\ IsFiniteSet(DOMAIN accounts')
    BY <1>1, <2>1, SameBalances
  <2>4. /\ SumFunction(Reserves)' = SumFunction(Reserves) - amount
        /\ IsFiniteSet(DOMAIN withdrawals')
    BY <1>1, <2>1, ReserveGoes
  <2>5. SumFunction(Balances)' + SumFunction(Reserves)' = supply'
    BY <1>1, <2>1, <2>2, <2>3, <2>4
  <2>6. QED BY <2>3, <2>4, <2>5 DEF Finite, MoneyAddsUp
<1>5. QED BY <1>2, <1>3, <1>4 DEF WithdrawalStep

(* Money is neither made nor lost, whatever rounds, withdrawals, refunds,  *)
(* top-ups and deletions there are and in whatever order (play(), charge(),*)
(* refund(), approve(), the CRM's changes).                                *)
THEOREM MoneyIsKept == Spec => []MoneyAddsUp
<1>1. Init => MoneyInv
  <2>1. SUFFICES ASSUME Init PROVE Finite /\ MoneyAddsUp BY DEF Init, MoneyInv, TypeOK
  <2>2. /\ DOMAIN accounts = {} /\ DOMAIN withdrawals = {} /\ supply = 0
        /\ DOMAIN Balances = {} /\ DOMAIN Reserves = {}
    BY <2>1 DEF Init, Balances, Reserves
  <2>3. SumFunction(Balances) = 0 /\ SumFunction(Reserves) = 0
    BY <2>2, SumOfNone DEF SumFunction
  <2>4. QED BY <2>2, <2>3, FS_EmptySet DEF Finite, MoneyAddsUp
<1>2. MoneyInv /\ [Next]_vars => MoneyInv'
  <2>1. SUFFICES ASSUME MoneyInv, [Next]_vars PROVE Finite' /\ MoneyAddsUp'
    BY StepType DEF MoneyInv
  <2>2. ASSUME UNCHANGED <<accounts, withdrawals, supply>> PROVE Finite' /\ MoneyAddsUp'
    <3>1. Balances' = Balances /\ Reserves' = Reserves BY <2>2 DEF Balances, Reserves, Pending
    <3>2. QED BY <2>1, <2>2, <3>1 DEF MoneyInv, Finite, MoneyAddsUp
  <2>3. CASE ClientStep \/ (\E k \in DOMAIN asked : TimesOut(k))
    BY <2>2, <2>3
    DEF ClientStep, Ask, HeadComes, Receive, Breaks, EndAttempt, TimesOut, TryFails,
        serverVars
  <2>4. CASE NetworkStep
    <3>1. ASSUME NEW r \in requests, LoseRequest(r) PROVE Finite' /\ MoneyAddsUp'
      BY <2>2, <3>1 DEF LoseRequest, serverVars
    <3>2. ASSUME NEW r \in requests, Play(r[1], r[2]) PROVE Finite' /\ MoneyAddsUp'
      <4>1. r[1] \in DOMAIN asked BY <2>1 DEF MoneyInv, TypeOK
      <4>2. QED BY <2>1, <3>2, <4>1, PlayMoney
    <3>3. QED BY <2>4, <3>1, <3>2 DEF NetworkStep
  <2>5. CASE UNCHANGED vars BY <2>2, <2>5 DEF vars, serverVars
  <2>6. QED BY <2>1, <2>3, <2>4, <2>5, AccountMoney, WithdrawalMoney DEF Next
<1>3. QED BY <1>1, <1>2, PTL DEF Spec, MoneyInv

-----------------------------------------------------------------------------
(* Free rounds.  A round that is settled is none of those before, so it    *)
(* counts once; a free one uses the bonus up, or wins it again.            *)

RoundsAt(p, b) == {round \in played : asked[round.key].player = p /\ round.bet = b}
FreeAt(p, b) == {round \in RoundsAt(p, b) : round.free}
WonAt(p, b) == {round \in RoundsAt(p, b) : round.bonusWon}
Waiters(p, b) == IF p \in DOMAIN accounts /\ accounts[p].bonus = b THEN 1 ELSE 0
Covered(p, b) == Cardinality(FreeAt(p, b)) + Waiters(p, b) <= Cardinality(WonAt(p, b))

PlayedWasAsked == IsFiniteSet(played) /\ \A round \in played : round.key \in DOMAIN asked
Bonuses == PlayedWasAsked /\ \A p \in Players, b \in Bets : Covered(p, b)
BonusInv == SeedInv /\ Bonuses

LEMMA BonusesAreWon == Bonuses => FreeRoundsAreWon
  BY DEF Bonuses, Covered, FreeRoundsAreWon, FreeAt, WonAt, RoundsAt, Waiters

LEMMA CountsAreNumbers ==
  ASSUME IsFiniteSet(played), NEW p, NEW b
  PROVE  /\ IsFiniteSet(FreeAt(p, b)) /\ Cardinality(FreeAt(p, b)) \in Int
         /\ IsFiniteSet(WonAt(p, b)) /\ Cardinality(WonAt(p, b)) \in Int
<1>1. FreeAt(p, b) \in SUBSET played /\ WonAt(p, b) \in SUBSET played
  BY DEF FreeAt, WonAt, RoundsAt
<1>2. IsFiniteSet(FreeAt(p, b)) /\ IsFiniteSet(WonAt(p, b)) BY <1>1, FS_Subset
<1>3. QED BY <1>2, FS_CardinalityType

(* No round is added, and no bonus is given.                               *)
LEMMA QuietBonuses ==
  ASSUME Bonuses, played' = played,
         \A k \in DOMAIN asked : k \in DOMAIN asked' /\ asked'[k] = asked[k],
         \A p \in DOMAIN accounts' :
           \/ p \in DOMAIN accounts /\ accounts'[p].bonus = accounts[p].bonus
           \/ accounts'[p].bonus = NoBonus
  PROVE  Bonuses'
<1>1. PlayedWasAsked' BY DEF Bonuses, PlayedWasAsked
<1>2. ASSUME NEW p \in Players, NEW b \in Bets PROVE Covered(p, b)'
  <2>1. FreeAt(p, b)' = FreeAt(p, b) /\ WonAt(p, b)' = WonAt(p, b)
    BY DEF FreeAt, WonAt, RoundsAt, Bonuses, PlayedWasAsked
  <2>2. Waiters(p, b)' \in Int /\ Waiters(p, b) \in Int /\ Waiters(p, b)' <= Waiters(p, b)
    BY DEF Waiters, NoBonus
  <2>3. Cardinality(FreeAt(p, b)) \in Int /\ Cardinality(WonAt(p, b)) \in Int
    BY CountsAreNumbers DEF Bonuses, PlayedWasAsked
  <2>4. Covered(p, b) BY DEF Bonuses
  <2>5. QED BY <2>1, <2>2, <2>3, <2>4 DEF Covered
<1>3. QED BY <1>1, <1>2 DEF Bonuses

(* settle(): one more round of the player, at its bet.                     *)
LEMMA SettleBonuses ==
  ASSUME BonusInv, NEW k \in DOMAIN asked, NEW p, p = asked[k].player, MayRegister(p),
         NEW acc, acc = AccountOf(p), ~Refuses(acc, asked[k]),
         NEW o \in Outcomes(acc, asked[k]), asked' = asked,
         accounts' = Put(accounts, p, AccountAfter(k, acc, o)),
         played' = played \cup {RoundOf(k, acc, o)}
  PROVE  Bonuses'
<1> DEFINE round == RoundOf(k, acc, o)
           ask == asked[k]
<1>1. k \in Keys /\ ask \in Asking /\ p \in Players BY DEF BonusInv, SeedInv, TypeOK, Asking
<1>2. acc \in Account BY <1>1, FoundSeries DEF BonusInv
<1>3. /\ round.key = k /\ round.bet = BetOf(acc, ask) /\ round.free = IsFree(acc, ask)
      /\ round.bonusWon = o.bonusWon /\ round.series = acc.series
      /\ round.nonce = acc.nonce + 1
  BY DEF RoundOf
<1>4. AccountAfter(k, acc, o).bonus = BonusAfter(acc, ask, o)
  BY <1>2 DEF AccountAfter, Account
<1>5. round \notin played
  <2>1. \A other \in played : other.series = acc.series => other.nonce <= acc.nonce
    BY <1>1, FoundSeries DEF BonusInv
  <2>2. acc.nonce \in Nat BY <1>2 DEF Account
  <2>3. ~ (round.nonce <= acc.nonce) BY <1>3, <2>2
  <2>4. QED BY <1>3, <2>1, <2>3
<1>6. IsFiniteSet(played) /\ IsFiniteSet(played')
  BY FS_AddElement DEF BonusInv, Bonuses, PlayedWasAsked
<1>7. PlayedWasAsked' BY <1>3, <1>6 DEF BonusInv, Bonuses, PlayedWasAsked
<1>8. /\ \A q \in DOMAIN accounts' :
           accounts'[q] = IF q = p THEN AccountAfter(k, acc, o) ELSE accounts[q]
      /\ DOMAIN accounts' = DOMAIN accounts \cup {p}
  BY DEF Put
<1>9. acc.bonus # NoBonus => p \in DOMAIN accounts /\ acc.bonus = accounts[p].bonus
  BY DEF AccountOf, Registered, Fresh
<1> HIDE DEF round
<1>10. ASSUME NEW q \in Players, NEW b \in Bets PROVE Covered(q, b)'
  <2>1. /\ IsFiniteSet(FreeAt(q, b)) /\ Cardinality(FreeAt(q, b)) \in Int
        /\ IsFiniteSet(WonAt(q, b)) /\ Cardinality(WonAt(q, b)) \in Int
    BY <1>6, CountsAreNumbers
  <2>2. Covered(q, b) BY DEF BonusInv, Bonuses
  <2>3. Waiters(q, b) \in {0, 1} /\ Waiters(q, b)' \in {0, 1} BY DEF Waiters
  <2>4. b # NoBonus BY DEF NoBonus
  <2>5. CASE q = p /\ b = round.bet
    <3>1. /\ FreeAt(q, b)' = IF round.free THEN FreeAt(q, b) \cup {round} ELSE FreeAt(q, b)
          /\ WonAt(q, b)' = IF round.bonusWon THEN WonAt(q, b) \cup {round} ELSE WonAt(q, b)
      BY <1>3, <2>5 DEF FreeAt, WonAt, RoundsAt, round
    <3>2. round \notin FreeAt(q, b) /\ round \notin WonAt(q, b)
      BY <1>5 DEF FreeAt, WonAt, RoundsAt
    <3>3. Cardinality(FreeAt(q, b)') = Cardinality(FreeAt(q, b)) + (IF round.free THEN 1 ELSE 0)
      <4>1. Cardinality(FreeAt(q, b) \cup {round}) = Cardinality(FreeAt(q, b)) + 1
        BY <2>1, <3>2, FS_AddElement
      <4>2. QED BY <2>1, <3>1, <4>1
    <3>4. Cardinality(WonAt(q, b)') = Cardinality(WonAt(q, b)) + (IF round.bonusWon THEN 1 ELSE 0)
      <4>1. Cardinality(WonAt(q, b) \cup {round}) = Cardinality(WonAt(q, b)) + 1
        BY <2>1, <3>2, FS_AddElement
      <4>2. QED BY <2>1, <3>1, <4>1
    <3>5. Waiters(q, b)' = IF BonusAfter(acc, ask, o) = b THEN 1 ELSE 0
      BY <1>4, <1>8, <2>5 DEF Waiters
    <3>6. round.free => Waiters(q, b) = 1
      BY <1>3, <1>9, <2>5 DEF Waiters, IsFree, BetOf
    <3>7. ~round.bonusWon /\ round.free => Waiters(q, b)' = 0
      BY <1>3, <2>4, <3>5 DEF BonusAfter
    <3>8. ~round.bonusWon /\ ~round.free => Waiters(q, b)' <= Waiters(q, b)
      BY <1>3, <1>9, <2>3, <2>4, <2>5, <3>5 DEF BonusAfter, Waiters
    <3>9. QED BY <2>1, <2>2, <2>3, <3>3, <3>4, <3>6, <3>7, <3>8 DEF Covered
  <2>6. CASE ~ (q = p /\ b = round.bet)
    <3>1. FreeAt(q, b)' = FreeAt(q, b) /\ WonAt(q, b)' = WonAt(q, b)
      BY <1>3, <2>6 DEF FreeAt, WonAt, RoundsAt, round
    <3>2. Waiters(q, b)' <= Waiters(q, b)
      <4>1. CASE q # p BY <1>8, <2>3, <4>1 DEF Waiters
      <4>2. CASE q = p
        <5>1. b # BetOf(acc, ask) BY <1>3, <2>6, <4>2
        <5>2. BonusAfter(acc, ask, o) = b => acc.bonus = b BY <2>4, <5>1 DEF BonusAfter
        <5>3. QED BY <1>4, <1>8, <1>9, <2>3, <2>4, <4>2, <5>2 DEF Waiters
      <4>3. QED BY <4>1, <4>2
    <3>3. QED BY <2>1, <2>2, <2>3, <3>1, <3>2 DEF Covered
  <2>7. QED BY <2>5, <2>6
<1>11. QED BY <1>7, <1>10 DEF Bonuses

LEMMA PlayBonuses ==
  ASSUME BonusInv, NEW k \in DOMAIN asked, NEW n, Play(k, n)
  PROVE  Bonuses'
<1> DEFINE p == asked[k].player
           acc == AccountOf(p)
<1>1. MayRegister(p) /\ UNCHANGED asked BY DEF Play
<1>2. CASE \E round : Reply(k, n, acc, round)
  <2>1. accounts' = Put(accounts, p, acc) /\ played' = played BY <1>2 DEF Reply
  <2>2. QED
    BY <1>1, <2>1, QuietBonuses DEF BonusInv, Put, AccountOf, Registered, Fresh
<1>3. CASE ~Refuses(acc, asked[k]) /\ Settle(k, n, acc)
  <2>1. PICK o \in Outcomes(acc, asked[k]) :
          /\ accounts' = Put(accounts, p, AccountAfter(k, acc, o))
          /\ played' = played \cup {RoundOf(k, acc, o)}
    BY <1>3 DEF Settle
  <2>2. QED BY <1>1, <1>3, <2>1, SettleBonuses
<1>4. QED BY <1>2, <1>3 DEF Play

LEMMA AccountBonuses ==
  ASSUME BonusInv, AccountStep
  PROVE  Bonuses'
<1>1. Bonuses /\ \A p \in DOMAIN accounts : accounts[p] \in Account
  BY DEF BonusInv, SeedInv, TypeOK
<1>2. UNCHANGED <<played, asked>>
  BY DEF AccountStep, FindOrCreate, Rotate, ZeroBalance, Remove, TopUp, Forget, clientVars
<1>3. ASSUME NEW p \in Players, FindOrCreate(p) PROVE Bonuses'
  BY <1>1, <1>2, <1>3, QuietBonuses DEF FindOrCreate, Put, Fresh
<1>4. ASSUME NEW p \in Players, Rotate(p) PROVE Bonuses'
  BY <1>1, <1>2, <1>4, QuietBonuses DEF Rotate, Account
<1>5. ASSUME NEW p \in Players, NEW balance, accounts' = [accounts EXCEPT ![p].balance = balance]
      PROVE  Bonuses'
  BY <1>1, <1>2, <1>5, QuietBonuses DEF Account
<1>6. ASSUME NEW p \in Players, Remove(p) PROVE Bonuses'
  BY <1>1, <1>2, <1>6, QuietBonuses DEF Remove
<1>7. ASSUME NEW k, Forget(k) PROVE Bonuses'
  BY <1>1, <1>2, <1>7, QuietBonuses DEF Forget
<1>8. ASSUME NEW p \in Players, ZeroBalance(p) PROVE Bonuses'
  BY <1>5, <1>8 DEF ZeroBalance
<1>9. ASSUME NEW p \in Players, NEW amount, TopUp(p, amount) PROVE Bonuses'
  <2>1. accounts' = [accounts EXCEPT ![p].balance = accounts[p].balance + amount]
    BY <1>9 DEF TopUp
  <2>2. QED BY <1>5, <2>1
<1>10. QED BY <1>3, <1>4, <1>6, <1>7, <1>8, <1>9 DEF AccountStep

LEMMA WithdrawalBonuses ==
  ASSUME BonusInv, WithdrawalStep
  PROVE  Bonuses'
<1>1. Bonuses /\ \A p \in DOMAIN accounts : accounts[p] \in Account
  BY DEF BonusInv, SeedInv, TypeOK
<1>2. UNCHANGED <<played, asked>>
  BY DEF WithdrawalStep, Withdraw, Refund, Approve, clientVars
<1>3. ASSUME NEW w, NEW p \in Players, NEW amount, Withdraw(w, p, amount) PROVE Bonuses'
  <2>1. AccountOf(p) \in Account BY <1>3, FoundSeries DEF Withdraw, BonusInv
  <2>2. [AccountOf(p) EXCEPT !.balance = @ - amount].bonus = AccountOf(p).bonus
    BY <2>1 DEF Account
  <2>3. accounts' = Put(accounts, p, [AccountOf(p) EXCEPT !.balance = @ - amount])
    BY <1>3 DEF Withdraw
  <2>4. \/ p \in DOMAIN accounts /\ AccountOf(p).bonus = accounts[p].bonus
        \/ AccountOf(p).bonus = NoBonus
    BY DEF AccountOf, Registered, Fresh
  <2>5. QED BY <1>1, <1>2, <2>2, <2>3, <2>4, QuietBonuses DEF Put
<1>4. ASSUME NEW w, NEW status, Refund(w, status) PROVE Bonuses'
  BY <1>1, <1>2, <1>4, QuietBonuses DEF Refund, Account
<1>5. ASSUME NEW w, Approve(w) PROVE Bonuses'
  BY <1>1, <1>2, <1>5, QuietBonuses DEF Approve
<1>6. QED BY <1>3, <1>4, <1>5 DEF WithdrawalStep

(* At every bet at most as many free rounds as bonuses were won at it,     *)
(* however rounds, purchases, deletions and retries follow each other      *)
(* (play(), consumeBonus(), grantBonus(), remove()).                       *)
THEOREM FreeRoundsWereWon == Spec => []FreeRoundsAreWon
<1>1. Init => BonusInv
  <2>1. SUFFICES ASSUME Init PROVE Bonuses
    BY DEF Init, BonusInv, SeedInv, TypeOK, Seeds, SeriesMade, SeriesOwned, NoncesSpent,
           SeedUsedOnce
  <2>2. played = {} /\ DOMAIN accounts = {} BY <2>1 DEF Init
  <2>3. ASSUME NEW p, NEW b PROVE Covered(p, b)
    <3>1. FreeAt(p, b) = {} /\ WonAt(p, b) = {} /\ Waiters(p, b) = 0
      BY <2>2 DEF FreeAt, WonAt, RoundsAt, Waiters
    <3>2. QED BY <3>1, FS_EmptySet DEF Covered
  <2>4. QED BY <2>2, <2>3, FS_EmptySet DEF Bonuses, PlayedWasAsked
<1>2. BonusInv /\ [Next]_vars => BonusInv'
  <2>1. SUFFICES ASSUME BonusInv, [Next]_vars PROVE Bonuses'
    BY SeedStep DEF BonusInv
  <2>2. /\ Bonuses /\ \A p \in DOMAIN accounts : accounts[p] \in Account
        /\ \A w \in DOMAIN withdrawals : withdrawals[w].player \in Players
    BY <2>1 DEF BonusInv, SeedInv, TypeOK
  <2>3. CASE ClientStep \/ (\E k \in DOMAIN asked : TimesOut(k))
    <3>1. UNCHANGED <<accounts, played>>
      BY <2>3
      DEF ClientStep, Ask, HeadComes, Receive, Breaks, EndAttempt, TimesOut, TryFails,
          serverVars
    <3>2. \A k \in DOMAIN asked : k \in DOMAIN asked' /\ asked'[k] = asked[k]
      BY <2>3
      DEF ClientStep, Ask, HeadComes, Receive, Breaks, EndAttempt, TimesOut, TryFails,
          Put, IsNext
    <3>3. QED BY <2>2, <3>1, <3>2, QuietBonuses
  <2>4. CASE NetworkStep
    <3>1. ASSUME NEW r \in requests, LoseRequest(r) PROVE Bonuses'
      BY <2>2, <3>1, QuietBonuses DEF LoseRequest, serverVars
    <3>2. ASSUME NEW r \in requests, Play(r[1], r[2]) PROVE Bonuses'
      <4>1. r[1] \in DOMAIN asked BY <2>1 DEF BonusInv, SeedInv, TypeOK
      <4>2. QED BY <2>1, <3>2, <4>1, PlayBonuses
    <3>3. QED BY <2>4, <3>1, <3>2 DEF NetworkStep
  <2>5. CASE AccountStep BY <2>1, <2>5, AccountBonuses
  <2>6. CASE WithdrawalStep BY <2>1, <2>6, WithdrawalBonuses
  <2>7. CASE UNCHANGED vars
    BY <2>2, <2>7, QuietBonuses DEF vars, serverVars, clientVars
  <2>8. QED BY <2>1, <2>3, <2>4, <2>5, <2>6, <2>7 DEF Next
<1>3. QED BY <1>1, <1>2, BonusesAreWon, PTL DEF Spec, BonusInv
=============================================================================
