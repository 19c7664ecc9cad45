------------------------------- MODULE Wallet --------------------------------
(***************************************************************************)
(* What moves a player's balance besides deposits: rounds (RoundsService,  *)
(* rounds.service.ts, with the seeds of FairnessService), withdrawals      *)
(* (WithdrawService, withdraw.service.ts) and the operations of            *)
(* PlayersService behind them and behind the CRM.  Every handler is        *)
(* synchronous, so one action; what interleaves is the order of the calls, *)
(* and the requests and answers of a client that times out and tries a     *)
(* second time with the same idempotency key (presenter.ts, startRound).   *)
(*                                                                         *)
(* The outcome of a round (packages/engine) is any the engine may come to: *)
(* a pickaxe or none, a payout out of Payouts times the bet, and scatters  *)
(* enough for a bonus or not.                                              *)
(*                                                                         *)
(* An answer is remembered for 60 seconds.  A client waits 15 seconds for  *)
(* the head of an answer and tries twice, so what it may still ask for is  *)
(* not forgotten; but nothing limits the reading of the body (api.ts:187), *)
(* which may take longer than the answer is remembered (a mini app in the  *)
(* background).                                                            *)
(*                                                                         *)
(* The bounds are Keys and Withdrawals (how many rounds are asked for, how *)
(* many withdrawals are made), MaxSeeds (server seeds ever made) and       *)
(* MaxSupply (no top-up beyond it).                                        *)
(***************************************************************************)
EXTENDS Integers, FiniteSets, Functions

CONSTANTS
  Players,
  Keys,           \* idempotency keys, in the order clients make them
  Withdrawals,    \* ids of withdrawals, in the order of creation
  Bets,           \* CONFIG.bets
  AskedBets,      \* bets a client may ask for
  Price,          \* CONFIG.buy.price: what a bought pickaxe costs, in bets
  StartBalance,   \* CONFIG.startBalance
  Pity,           \* CONFIG.pity
  Payouts,        \* what a round may pay, in bets
  Amounts, TopUps,
  MaxSeeds, MaxSupply

ASSUME WalletAssumption ==
  /\ Keys \subseteq Nat \ {0} /\ Withdrawals \subseteq Nat \ {0}
  /\ Bets \subseteq Nat \ {0} /\ AskedBets \subseteq Nat \ {0}
  /\ {Price, StartBalance, Pity, MaxSeeds, MaxSupply} \subseteq Nat
  /\ Payouts \subseteq Nat /\ Amounts \subseteq Nat /\ TopUps \subseteq Nat

NoBonus == 0
Tries == 1..2
FirstTry == [try |-> 1, reading |-> FALSE]
SecondTry == [try |-> 2, reading |-> FALSE]
Over == [try |-> 0, reading |-> FALSE]

VARIABLES
  accounts,     \* PlayersService.players
  withdrawals,  \* WithdrawService.items
  recent,       \* RoundsService.recent
  seeds,        \* how many server seeds were ever made
  asked,        \* asked[k]: the round a client asked for under key k
  attempt,      \* attempt[k]: which try, and is its answer being read
  requests,     \* requests <<key, try>> on the way
  answers,      \* answers on the way to a client that waits for them
  stalled,      \* history: the keys forgotten while an answer of theirs was read
  played,       \* history: the rounds that were settled
  supply        \* history: money granted, credited and won, less what was bet,
                \* taken and paid out

serverVars == <<accounts, withdrawals, recent, seeds>>
clientVars == <<asked, attempt, requests, answers, stalled>>
vars == <<serverVars, clientVars, played, supply>>

Account ==
  [balance: Nat, streak: [Bets -> 0..Pity], bonus: Bets \cup {NoBonus},
   series: 1..MaxSeeds, nonce: Nat]

Round ==
  [key: Keys, bet: Bets, free: BOOLEAN, bonusWon: BOOLEAN, series: 1..MaxSeeds,
   nonce: Nat]

Refusal == [refused |-> TRUE]

-----------------------------------------------------------------------------
Put(map, key, value) ==
  [k \in DOMAIN map \cup {key} |-> IF k = key THEN value ELSE map[k]]

IsNext(id, ids, used) == id \in ids \ used /\ \A other \in ids \ used : id <= other

(* findOrCreate(): the account of p, a new one with a new seed if there is *)
(* none.                                                                   *)
Fresh == [balance |-> StartBalance, streak |-> [b \in Bets |-> 0], bonus |-> NoBonus,
          series |-> seeds + 1, nonce |-> 0]

Registered(p) == p \in DOMAIN accounts
AccountOf(p) == IF Registered(p) THEN accounts[p] ELSE Fresh
MayRegister(p) == Registered(p) \/ seeds < MaxSeeds
SeedsAfter(p) == IF Registered(p) THEN seeds ELSE seeds + 1
GrantTo(p) == IF Registered(p) THEN 0 ELSE StartBalance

Init ==
  /\ accounts = [p \in {} |-> Fresh]
  /\ withdrawals = [w \in {} |-> {}]
  /\ recent = [k \in {} |-> {}]
  /\ seeds = 0
  /\ asked = [k \in {} |-> {}]
  /\ attempt = [k \in {} |-> {}]
  /\ requests = {} /\ answers = {} /\ stalled = {}
  /\ played = {} /\ supply = 0

FindOrCreate(p) ==
  /\ ~Registered(p) /\ MayRegister(p)
  /\ accounts' = Put(accounts, p, Fresh)
  /\ seeds' = seeds + 1
  /\ supply' = supply + StartBalance
  /\ UNCHANGED <<withdrawals, recent, clientVars, played>>

-----------------------------------------------------------------------------
(* The client.                                                             *)

Trying(k) == k \in DOMAIN attempt /\ attempt[k] # Over
Reading(k) == Trying(k) /\ attempt[k].reading
Waiting(k) == Trying(k) /\ ~attempt[k].reading

(* startRound(): one attempt at a time.                                    *)
Ask(k, p, bet, buy) ==
  /\ IsNext(k, Keys, DOMAIN asked)
  /\ ~ \E j \in DOMAIN asked : asked[j].player = p /\ Trying(j)
  /\ asked' = Put(asked, k, [player |-> p, bet |-> bet, buy |-> buy])
  /\ attempt' = Put(attempt, k, FirstTry)
  /\ requests' = requests \cup {<<k, 1>>}
  /\ UNCHANGED <<serverVars, answers, stalled, played, supply>>

(* A network error: the first try is repeated, the second one was the      *)
(* last.  The connection is gone, and with it the way for an answer.       *)
TryFails(k) ==
  /\ \/ /\ attempt[k].try = 1
        /\ attempt' = [attempt EXCEPT ![k] = SecondTry]
        /\ requests' = requests \cup {<<k, 2>>}
     \/ /\ attempt[k].try = 2
        /\ attempt' = [attempt EXCEPT ![k] = Over]
        /\ UNCHANGED requests
  /\ answers' = {a \in answers : a.key # k}
  /\ UNCHANGED <<serverVars, asked, stalled, played, supply>>

(* Fifteen seconds without the head of an answer, or a connection that     *)
(* broke before.                                                           *)
TimesOut(k) == Waiting(k) /\ TryFails(k)

(* fetch() returns and the time limit is lifted; the body is yet to come.  *)
HeadComes(a) ==
  /\ Waiting(a.key)
  /\ attempt' = [attempt EXCEPT ![a.key].reading = TRUE]
  /\ UNCHANGED <<serverVars, asked, requests, answers, stalled, played, supply>>

EndAttempt(a) ==
  /\ answers' = answers \ {a}
  /\ attempt' = [attempt EXCEPT ![a.key] = Over]
  /\ UNCHANGED <<serverVars, asked, requests, stalled, played, supply>>

Receive(a) == Reading(a.key) /\ EndAttempt(a)

(* The connection breaks before the end of the body: a refusal is one      *)
(* without its text, a round is asked for again.                           *)
Breaks(a) ==
  /\ Reading(a.key)
  /\ IF a.round = Refusal THEN EndAttempt(a) ELSE TryFails(a.key)

LoseRequest(r) ==
  /\ requests' = requests \ {r}
  /\ UNCHANGED <<serverVars, asked, attempt, answers, stalled, played, supply>>

-----------------------------------------------------------------------------
(* A round.                                                                *)

(* A won bonus turns the next round that is not bought into a free one, at *)
(* the bet it was won with.                                                *)
IsFree(acc, ask) == ~ask.buy /\ acc.bonus # NoBonus

BetOf(acc, ask) == IF IsFree(acc, ask) THEN acc.bonus ELSE ask.bet

CostOf(acc, ask) ==
  IF IsFree(acc, ask) THEN 0
  ELSE IF ask.buy THEN ask.bet * Price ELSE ask.bet

Refuses(acc, ask) ==
  \/ ~IsFree(acc, ask) /\ ask.bet \notin Bets
  \/ acc.balance < CostOf(acc, ask)

(* What the engine may come to: a bought, a free and a pity round have a   *)
(* pickaxe for certain; without one there is neither payout nor scatter.   *)
Outcomes(acc, ask) ==
  {o \in [hit: BOOLEAN, pays: Payouts, bonusWon: BOOLEAN] :
     /\ ask.buy \/ IsFree(acc, ask) \/ acc.streak[BetOf(acc, ask)] >= Pity => o.hit
     /\ ~o.hit => o.pays = 0 /\ ~o.bonusWon}

\* Mutant: a free round does not use the bonus up.
BonusAfter_Kept(acc, ask, o) == IF o.bonusWon THEN BetOf(acc, ask) ELSE acc.bonus

(* The old bonus is written off before the new one is written down.        *)
BonusAfter(acc, ask, o) ==
  IF o.bonusWon THEN BetOf(acc, ask)
  ELSE IF IsFree(acc, ask) THEN NoBonus ELSE acc.bonus

StreakAfter(acc, ask, o) ==
  IF ask.buy \/ IsFree(acc, ask) THEN acc.streak[BetOf(acc, ask)]
  ELSE IF o.hit THEN 0 ELSE acc.streak[BetOf(acc, ask)] + 1

(* What a round adds to the balance.                                       *)
Gain(acc, ask, o) == o.pays * BetOf(acc, ask) - CostOf(acc, ask)

RoundOf(k, acc, o) ==
  [key |-> k, bet |-> BetOf(acc, asked[k]), free |-> IsFree(acc, asked[k]),
   bonusWon |-> o.bonusWon, series |-> acc.series, nonce |-> acc.nonce + 1]

AccountAfter(k, acc, o) ==
  LET round == RoundOf(k, acc, o) IN
  [acc EXCEPT !.balance = @ + Gain(acc, asked[k], o),
              !.streak[round.bet] = StreakAfter(acc, asked[k], o),
              !.bonus = BonusAfter(acc, asked[k], o),
              !.nonce = round.nonce]

(* The answer to a try the client does not wait for any more goes nowhere. *)
Answer(k, n, round) ==
  IF Waiting(k) /\ attempt[k].try = n THEN {[key |-> k, round |-> round]} ELSE {}

\* Mutant: nothing is remembered.
Settle_Forgets(k, n, acc) ==
  \E o \in Outcomes(acc, asked[k]) :
    LET round == RoundOf(k, acc, o) IN
    /\ accounts' = Put(accounts, asked[k].player, AccountAfter(k, acc, o))
    /\ answers' = answers \cup Answer(k, n, round)
    /\ played' = played \cup {round}
    /\ supply' = supply + GrantTo(asked[k].player) + Gain(acc, asked[k], o)
    /\ UNCHANGED recent

(* settle(), and the answer is remembered under its key.                   *)
Settle(k, n, acc) ==
  \E o \in Outcomes(acc, asked[k]) :
    LET round == RoundOf(k, acc, o) IN
    /\ accounts' = Put(accounts, asked[k].player, AccountAfter(k, acc, o))
    /\ recent' = Put(recent, k, round)
    /\ answers' = answers \cup Answer(k, n, round)
    /\ played' = played \cup {round}
    /\ supply' = supply + GrantTo(asked[k].player) + Gain(acc, asked[k], o)

(* An answer without a new round: the remembered one, or a refusal.        *)
Reply(k, n, acc, round) ==
  /\ accounts' = Put(accounts, asked[k].player, acc)
  /\ answers' = answers \cup Answer(k, n, round)
  /\ supply' = supply + GrantTo(asked[k].player)
  /\ UNCHANGED <<recent, played>>

(* POST /rounds/play.                                                      *)
Play(k, n) ==
  LET acc == AccountOf(asked[k].player) IN
  /\ MayRegister(asked[k].player)
  /\ requests' = requests \ {<<k, n>>}
  /\ seeds' = SeedsAfter(asked[k].player)
  /\ \/ k \in DOMAIN recent /\ Reply(k, n, acc, recent[k])
     \/ k \notin DOMAIN recent /\ Refuses(acc, asked[k]) /\ Reply(k, n, acc, Refusal)
     \/ k \notin DOMAIN recent /\ ~Refuses(acc, asked[k]) /\ Settle(k, n, acc)
  /\ UNCHANGED <<withdrawals, asked, attempt, stalled>>

(* sweep() of RoundsService, a minute later.  Only play() reads what is    *)
(* remembered, and it sweeps first: an entry may go as soon as it lapses.  *)
(* A client that waits asks again long before that, but one that reads a   *)
(* body is bound to no time (api.ts:187): its try stalls.                  *)
Forget(k) ==
  /\ ~Waiting(k) /\ ~ \E n \in Tries : <<k, n>> \in requests
  /\ recent' = [j \in DOMAIN recent \ {k} |-> recent[j]]
  /\ stalled' = IF Reading(k) THEN stalled \cup {k} ELSE stalled
  /\ UNCHANGED <<accounts, withdrawals, seeds, asked, attempt, requests, answers,
                 played, supply>>

\* Mutant: the nonce is not set back, but the seed is kept.
Rotate_SeedKept(p) ==
  /\ Registered(p) /\ seeds < MaxSeeds
  /\ accounts' = [accounts EXCEPT ![p].nonce = 0]
  /\ UNCHANGED <<withdrawals, recent, seeds, clientVars, played, supply>>

(* rotate(): the seed is revealed, the next series starts.                 *)
Rotate(p) ==
  /\ Registered(p) /\ seeds < MaxSeeds
  /\ accounts' = [accounts EXCEPT ![p].series = seeds + 1, ![p].nonce = 0]
  /\ seeds' = seeds + 1
  /\ UNCHANGED <<withdrawals, recent, clientVars, played, supply>>

-----------------------------------------------------------------------------
(* Withdrawals.                                                            *)

Pending(w) == withdrawals[w].status = "pending"

(* POST /withdrawals: the amount is reserved at once.                      *)
Withdraw(w, p, amount) ==
  /\ MayRegister(p)
  /\ IsNext(w, Withdrawals, DOMAIN withdrawals)
  /\ ~ \E v \in DOMAIN withdrawals : withdrawals[v].player = p /\ Pending(v)
  /\ AccountOf(p).balance >= amount
  /\ accounts' = Put(accounts, p, [AccountOf(p) EXCEPT !.balance = @ - amount])
  /\ withdrawals' = Put(withdrawals, w, [player |-> p, amount |-> amount, status |-> "pending"])
  /\ seeds' = SeedsAfter(p)
  /\ supply' = supply + GrantTo(p)
  /\ UNCHANGED <<recent, clientVars, played>>

\* Mutant: any withdrawal that was not refunded may be.
Refund_NotPending(w, status) ==
  LET p == withdrawals[w].player IN
  /\ withdrawals[w].status \in {"pending", "approved"} /\ Registered(p)
  /\ accounts' = [accounts EXCEPT ![p].balance = @ + withdrawals[w].amount]
  /\ withdrawals' = [withdrawals EXCEPT ![w].status = status]
  /\ UNCHANGED <<recent, seeds, clientVars, played, supply>>

(* refund(), behind the player's cancel() and the administrator's          *)
(* reject(): nothing happens when the player is gone.                      *)
Refund(w, status) ==
  LET p == withdrawals[w].player IN
  /\ Pending(w) /\ Registered(p)
  /\ accounts' = [accounts EXCEPT ![p].balance = @ + withdrawals[w].amount]
  /\ withdrawals' = [withdrawals EXCEPT ![w].status = status]
  /\ UNCHANGED <<recent, seeds, clientVars, played, supply>>

(* approve(): the balance was charged when the request was made, now the   *)
(* money has left.                                                         *)
Approve(w) ==
  /\ Pending(w)
  /\ withdrawals' = [withdrawals EXCEPT ![w].status = "approved"]
  /\ supply' = supply - withdrawals[w].amount
  /\ UNCHANGED <<accounts, recent, seeds, clientVars, played>>

-----------------------------------------------------------------------------
(* The CRM, and the credit of a deposit.                                   *)

TopUp(p, amount) ==
  /\ Registered(p) /\ supply + amount <= MaxSupply
  /\ accounts' = [accounts EXCEPT ![p].balance = @ + amount]
  /\ supply' = supply + amount
  /\ UNCHANGED <<withdrawals, recent, seeds, clientVars, played>>

ZeroBalance(p) ==
  /\ Registered(p)
  /\ accounts' = [accounts EXCEPT ![p].balance = 0]
  /\ supply' = supply - accounts[p].balance
  /\ UNCHANGED <<withdrawals, recent, seeds, clientVars, played>>

(* remove(): withdrawals stay.                                             *)
Remove(p) ==
  /\ Registered(p)
  /\ accounts' = [q \in DOMAIN accounts \ {p} |-> accounts[q]]
  /\ supply' = supply - accounts[p].balance
  /\ UNCHANGED <<withdrawals, recent, seeds, clientVars, played>>

-----------------------------------------------------------------------------
ClientStep ==
  \/ \E k \in Keys, p \in Players, bet \in AskedBets, buy \in BOOLEAN : Ask(k, p, bet, buy)
  \/ \E a \in answers : HeadComes(a) \/ Receive(a) \/ Breaks(a)

NetworkStep ==
  \E r \in requests : LoseRequest(r) \/ Play(r[1], r[2])

AccountStep ==
  \/ \E p \in Players : FindOrCreate(p) \/ Rotate(p) \/ ZeroBalance(p) \/ Remove(p)
  \/ \E p \in Players, amount \in TopUps : TopUp(p, amount)
  \/ \E k \in DOMAIN recent : Forget(k)

WithdrawalStep ==
  \/ \E w \in Withdrawals, p \in Players, amount \in Amounts : Withdraw(w, p, amount)
  \/ \E w \in DOMAIN withdrawals :
       Refund(w, "canceled") \/ Refund(w, "rejected") \/ Approve(w)

Next ==
  \/ ClientStep
  \/ \E k \in DOMAIN asked : TimesOut(k)
  \/ NetworkStep
  \/ AccountStep
  \/ WithdrawalStep

Spec == Init /\ [][Next]_vars

(* The time limit of a request is the client's own; how long a body is     *)
(* read is the network's.                                                  *)
FairSpec == Spec /\ \A k \in Keys : WF_vars(TimesOut(k))

-----------------------------------------------------------------------------
(* Types; a balance is never negative, and there are never more misses in  *)
(* a row on one bet than CONFIG.pity allows.                               *)
TypeOK ==
  /\ DOMAIN accounts \subseteq Players /\ accounts \in [DOMAIN accounts -> Account]
  /\ DOMAIN withdrawals \subseteq Withdrawals
  /\ withdrawals \in [DOMAIN withdrawals ->
       [player: Players, amount: Amounts,
        status: {"pending", "approved", "rejected", "canceled"}]]
  /\ DOMAIN recent \subseteq Keys /\ recent \in [DOMAIN recent -> Round]
  /\ seeds \in 0..MaxSeeds
  /\ DOMAIN asked \subseteq Keys
  /\ asked \in [DOMAIN asked -> [player: Players, bet: AskedBets, buy: BOOLEAN]]
  /\ attempt \in [DOMAIN asked -> [try: Tries \cup {0}, reading: BOOLEAN]]
  /\ requests \subseteq (DOMAIN asked) \X Tries
  /\ \A a \in answers :
       a.key \in DOMAIN asked /\ (a.round = Refusal \/ a.round \in Round)
  /\ stalled \subseteq DOMAIN asked
  /\ played \subseteq Round
  /\ supply \in Int

(* However requests are lost, late or repeated, a round is settled once    *)
(* for its key, whatever else is done to the account between two tries and *)
(* whatever is forgotten; only a key an answer of which was read for       *)
(* longer than it is remembered may be charged again (api.ts:187).         *)
OneChargePerKey == \A a, b \in played : a.key = b.key /\ a.key \notin stalled => a = b

(* "A retry of the same request must not charge the bet a second time"     *)
(* (rounds.service.ts:38), with no exception.                              *)
RetryNeverCharges == \A a, b \in played : a.key = b.key => a = b

(* No two rounds come from the same seed and nonce, so none can be told    *)
(* from another one ("сид наступного раунду. Викликається рівно один раз   *)
(* на раунд", fairness.service.ts).                                        *)
SeedUsedOnce ==
  \A a, b \in played : a.series = b.series /\ a.nonce = b.nonce => a = b

(* What the players own: balances, and what waiting withdrawals reserve.   *)
Balances == [p \in DOMAIN accounts |-> accounts[p].balance]
Reserves == [w \in {w \in DOMAIN withdrawals : Pending(w)} |-> withdrawals[w].amount]

(* Money is neither made nor lost on the way: balances and reserves are    *)
(* what was granted, credited and won, less what was bet, taken and paid   *)
(* out ("повернути двічі не вийде", withdraw.service.ts).                  *)
MoneyAddsUp == SumFunction(Balances) + SumFunction(Reserves) = supply

(* At every bet a player has had, the one that waits included, at most as  *)
(* many free rounds as bonuses were won at that bet, whatever bet the      *)
(* client asks for ("бонуска належить тій ставці, на якій її виграли",     *)
(* players.service.ts).                                                    *)
FreeRoundsAreWon ==
  \A p \in Players, b \in Bets :
    LET rounds == {round \in played : asked[round.key].player = p /\ round.bet = b}
        waits == p \in DOMAIN accounts /\ accounts[p].bonus = b
    IN  Cardinality({round \in rounds : round.free}) + (IF waits THEN 1 ELSE 0) <=
        Cardinality({round \in rounds : round.bonusWon})

(* Every attempt ends and gives the button back: what the time limit was   *)
(* put in for ("waits for ever, and the button stays disabled",            *)
(* api.ts:164-169).                                                        *)
NoAttemptHangs == \A k \in Keys : Trying(k) ~> ~Trying(k)
=============================================================================
