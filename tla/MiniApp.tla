------------------------------- MODULE MiniApp --------------------------------
(***************************************************************************)
(* The game of the mini app (presenter.ts, reel.ts, GameClient.tsx, the    *)
(* calls of lib/api.ts): what stands between a press of the button and a   *)
(* round that was charged by the server.                                   *)
(*                                                                         *)
(* The presenter is one thread with three sources of events: the player,   *)
(* the answers of the server, and the frames, in which a timer of one      *)
(* slot, the reel and the run of the pick come to their ends.  Each of     *)
(* them goes on by what it finds in the fields of the presenter, and not   *)
(* by what was there when it was started.                                  *)
(*                                                                         *)
(* Left out: everything that is only drawn, the currency, the speed and    *)
(* the gestures (no guard reads them), and the check of the server's spins *)
(* against the seed (the server here is an honest one).  How long an       *)
(* animation takes is left open: the timer, the reel and the run end in    *)
(* any order.                                                              *)
(*                                                                         *)
(* The bounds are MaxPlays (how many rounds are asked for), MaxDeeds (how  *)
(* often a window has the state of the player read again, the network or a *)
(* frame fails, or the page is loaded anew) and MaxBalance.                *)
(***************************************************************************)
EXTENDS Integers, FiniteSets

CONSTANTS
  Bet, Price,     \* what a bet and a bought pick cost
  Spins,          \* CONFIG.spinsPerBet
  Payouts,        \* what a round may pay
  StartBalance, Deposit, MaxBalance,
  MaxPlays, MaxDeeds

ASSUME MiniAppAssumption ==
  /\ {Bet, Price, Spins, MaxPlays} \subseteq Nat \ {0}
  /\ {StartBalance, Deposit, MaxBalance, MaxDeeds} \subseteq Nat
  /\ Payouts \subseteq Nat

VARIABLES
  game,       \* the fields of Presenter
  plays,      \* startRound() calls that wait for the server
  mes,        \* Api.me() calls that wait for the server
  server,     \* the account, and the rounds by their idempotency keys
  presses,    \* history: how many rounds were ever asked for
  deeds,      \* history: readings of the player's state, and what went wrong
  odd,        \* history: a bonus was introduced, or a frame failed
  trouble     \* history: a round failed to come since the player's last press

vars == <<game, plays, mes, server, presses, deeds, odd, trouble>>

Keys == 1..MaxPlays
NoKey == 0
States == {"LOADING", "IDLE", "SPIN", "RISE", "RUNNING", "DROPDONE", "RESULT", "ERROR"}
Playing == {"SPIN", "RISE", "RUNNING", "DROPDONE"}
Callbacks == {"none", "intro", "next", "launch", "finish"}
Ages == 0..2                     \* of a result: new, past RESULT_GRACE, past AUTOPLAY_HOLD
Past_RESULT_GRACE == 1
Past_AUTOPLAY_HOLD == 2

(* What the server came to: how many spins, with a pick in the last or not *)
(* at all, and the balance with the stake off and with the payout on it.   *)
Round == [key : Keys, free : BOOLEAN, spins : 1..Spins, hit : BOOLEAN,
          charged : Nat, after : Nat]
NoRound == [key |-> NoKey, free |-> FALSE, spins |-> 1, hit |-> FALSE,
            charged |-> 0, after |-> 0]

Loading == [state |-> "LOADING", busy |-> FALSE, autoplay |-> FALSE, balance |-> 0,
            round |-> NoRound, spinIndex |-> 0, reel |-> "off", timer |-> "none",
            bonusIntro |-> FALSE, run |-> NoKey, resultT |-> 0]

Me(n) == [id |-> n, served |-> FALSE, balance |-> 0]
FirstLook == Me(0)

Init ==
  /\ game = Loading
  /\ plays = {}
  /\ mes = {FirstLook}
  /\ server = [balance |-> StartBalance, bonus |-> FALSE, rounds |-> [k \in {} |-> NoRound]]
  /\ presses = 0 /\ deeds = 0 /\ odd = FALSE /\ trouble = FALSE

(***************************************************************************)
(* From a round to its result.                                             *)
(***************************************************************************)
Wait(p, callback) == [p EXCEPT !.timer = callback]

FinishRound(p) ==
  [p EXCEPT !.balance = p.round.after, !.state = "RESULT", !.resultT = 0]

Rise(p) == Wait([p EXCEPT !.state = "RISE"], "launch")

Launch(p) ==
  IF ~p.round.hit THEN FinishRound(p)
  ELSE IF p.state # "RISE" THEN Rise(p)
  ELSE [p EXCEPT !.run = p.round.key, !.state = "RUNNING"]

(* The reel is told beforehand where to stop: a pick is the last spin.     *)
StartReel(p) ==
  [p EXCEPT !.state = "SPIN",
            !.reel = IF p.round.hit /\ p.spinIndex = p.round.spins - 1 THEN "hit" ELSE "miss"]

NextSpin(p) == IF p.spinIndex >= p.round.spins THEN Launch(p) ELSE StartReel(p)

(* What the reel does when it stands.                                      *)
ReelDone(p) ==
  IF p.reel = "hit" THEN Rise([p EXCEPT !.reel = "off"])
                    ELSE Wait([p EXCEPT !.reel = "off"], "next")

RunOver(p) == Wait([p EXCEPT !.state = "DROPDONE"], "finish")

(* closeResult(), and the age of a result that is gone.                    *)
CloseResult(p) ==
  [p EXCEPT !.round = NoRound, !.run = NoKey, !.state = "IDLE", !.resultT = 0]

\* Mutant: the new mine is laid and the run of the old one stays.
NewMine_KeepsRun(p) == p

NewMine(p) == [p EXCEPT !.run = NoKey]

(* An answer with a round: the stake is off, the payout is not yet shown.  *)
Take(p, round) ==
  LET q == NewMine([p EXCEPT !.round = round, !.busy = FALSE, !.balance = round.charged,
                             !.spinIndex = 0, !.resultT = 0])
  IN  IF round.free THEN Wait([q EXCEPT !.bonusIntro = TRUE], "intro") ELSE NextSpin(q)

\* Mutant: a failed frame is reported, and the game stays where it was.
Recover_Reports(p) == [p EXCEPT !.busy = FALSE, !.autoplay = FALSE]

(* loop(): a frame that throws gives the game back to the player.          *)
Recover(p) == [p EXCEPT !.busy = FALSE, !.autoplay = FALSE, !.state = "IDLE"]

(* What the timer does, in a frame; a callback that finds no round throws. *)
Fire(p) ==
  LET q == [p EXCEPT !.timer = "none"]
  IN  CASE p.timer = "intro" -> NextSpin([q EXCEPT !.bonusIntro = FALSE])
        [] p.timer = "next" -> NextSpin([q EXCEPT !.spinIndex = @ + 1])
        [] p.timer = "launch" -> Launch(q)
        [] p.timer = "finish" -> FinishRound(q)

Throws(p) == p.round = NoRound

(***************************************************************************)
(* The player.                                                             *)
(***************************************************************************)
Cost(buy) == IF buy THEN Price ELSE Bet

(* Enough by what the screen shows; the server will check again.           *)
Affords(p, buy) == p.balance >= Cost(buy)

(* startRound(): one key for both tries.                                   *)
StartRound(p, buy) ==
  /\ presses < MaxPlays
  /\ presses' = presses + 1
  /\ game' = [p EXCEPT !.busy = TRUE]
  /\ plays' = plays \cup {[key |-> presses + 1, buy |-> buy, try |-> 1, stage |-> "asked",
                           round |-> NoRound]}

NotEnough(p) == game' = p /\ UNCHANGED <<plays, presses>>

StartOrTell(p, buy) == IF Affords(p, buy) THEN StartRound(p, buy) ELSE NotEnough(p)

(* Nothing is played and nothing is asked for.                             *)
Idle(p) == p.state = "IDLE" /\ ~p.busy

RoundInFlight(p) == p.state \notin {"IDLE", "RESULT"}

(* primary(): the button.                                                  *)
Primary ==
  /\ \/ /\ game.state = "RESULT" /\ game.resultT >= Past_RESULT_GRACE
        /\ StartOrTell(CloseResult(game), FALSE)
     \/ /\ Idle(game)
        /\ StartOrTell(game, FALSE)
  /\ trouble' = FALSE
  /\ UNCHANGED <<mes, server, deeds, odd>>

(* buyBonus(): the price is checked before the result is closed.           *)
BuyBonus ==
  /\ ~game.busy /\ ~RoundInFlight(game)
  /\ IF ~Affords(game, TRUE) THEN NotEnough(game)
     ELSE StartRound(IF game.state = "RESULT" THEN CloseResult(game) ELSE game, TRUE)
  /\ trouble' = FALSE
  /\ UNCHANGED <<mes, server, deeds, odd>>

(* onClick(), and the space bar over a result.                             *)
Tap ==
  /\ game.state = "RESULT" /\ game.resultT >= Past_RESULT_GRACE
  /\ game' = CloseResult(game)
  /\ UNCHANGED <<plays, mes, server, presses, deeds, odd, trouble>>

(* toggleAutoplay(): the first round at once, if the game stands.          *)
ToggleAutoplay ==
  LET on == [game EXCEPT !.autoplay = ~@]
  IN  /\ IF on.autoplay /\ Idle(game)
         THEN IF Affords(on, FALSE) THEN StartRound(on, FALSE) ELSE NotEnough(game)
         ELSE game' = on /\ UNCHANGED <<plays, presses>>
      /\ trouble' = FALSE
      /\ UNCHANGED <<mes, server, deeds, odd>>

(* A window says that the money has changed: refreshPlayer().              *)
RefreshPlayer ==
  /\ deeds < MaxDeeds /\ deeds' = deeds + 1
  /\ mes' = mes \cup {Me(deeds + 1)}
  /\ UNCHANGED <<game, plays, server, presses, odd, trouble>>

(***************************************************************************)
(* The server, and the network.                                            *)
(***************************************************************************)
Answered(c, round) ==
  plays' = (plays \ {c}) \cup {[c EXCEPT !.stage = "played", !.round = round]}

(* A key that was seen brings the round that was played under it.          *)
PlayAgain(c) ==
  /\ c.key \in DOMAIN server.rounds
  /\ UNCHANGED server
  /\ Answered(c, server.rounds[c.key])

(* A won bonus takes the place of the next bet, not of a bought pick.      *)
PlayNew(c) ==
  LET free == ~c.buy /\ server.bonus
      cost == IF free THEN 0 ELSE Cost(c.buy)
  IN  /\ c.key \notin DOMAIN server.rounds
      /\ cost <= server.balance
      /\ \E spins \in 1..Spins, hit \in BOOLEAN, payout \in Payouts, won \in BOOLEAN :
           LET round == [key |-> c.key, free |-> free, spins |-> spins, hit |-> hit,
                         charged |-> server.balance - cost,
                         after |-> server.balance - cost + payout]
           IN  /\ free \/ c.buy => hit /\ spins = 1
               /\ ~hit => spins = Spins /\ payout = 0 /\ ~won
               /\ server' = [balance |-> round.after, bonus |-> won \/ (server.bonus /\ ~free),
                             rounds |-> [k \in DOMAIN server.rounds \cup {c.key} |->
                                           IF k = c.key THEN round ELSE server.rounds[k]]]
               /\ Answered(c, round)

Refuse(c) ==
  /\ c.key \notin DOMAIN server.rounds
  /\ c.buy \/ ~server.bonus
  /\ Cost(c.buy) > server.balance
  /\ plays' = (plays \ {c}) \cup {[c EXCEPT !.stage = "refused"]}
  /\ UNCHANGED server

ServePlay(c) ==
  /\ c.stage = "asked"
  /\ PlayAgain(c) \/ PlayNew(c) \/ Refuse(c)
  /\ UNCHANGED <<game, mes, presses, deeds, odd, trouble>>

ServeMe(m) ==
  /\ ~m.served
  /\ mes' = (mes \ {m}) \cup {[m EXCEPT !.served = TRUE, !.balance = server.balance]}
  /\ UNCHANGED <<game, plays, server, presses, deeds, odd, trouble>>

(* A deposit is credited.                                                  *)
MoneyMoves ==
  /\ server.balance + Deposit <= MaxBalance
  /\ server' = [server EXCEPT !.balance = @ + Deposit]
  /\ UNCHANGED <<game, plays, mes, presses, deeds, odd, trouble>>

(* A key that nobody will ask for again: RoundsService forgets it in time. *)
Sweep(key) ==
  server' = [server EXCEPT !.rounds = [k \in DOMAIN @ \ {key} |-> @[k]]]

GiveUp(p) == [p EXCEPT !.busy = FALSE, !.autoplay = FALSE]

PlayComes(c) ==
  /\ c.stage = "played"
  /\ plays' = plays \ {c}
  /\ game' = Take(game, c.round)
  /\ odd' = (odd \/ c.round.free)
  /\ Sweep(c.key)
  /\ UNCHANGED <<mes, presses, deeds, trouble>>

PlayRefused(c) ==
  /\ c.stage = "refused"
  /\ plays' = plays \ {c}
  /\ game' = GiveUp(game)
  /\ trouble' = TRUE
  /\ UNCHANGED <<mes, server, presses, deeds, odd>>

(* A request or its answer is lost, or fifteen seconds have passed: one    *)
(* more try under the same key.                                            *)
PlayFails(c) ==
  /\ deeds < MaxDeeds /\ deeds' = deeds + 1
  /\ \/ /\ c.try = 1
        /\ plays' = (plays \ {c}) \cup {[c EXCEPT !.try = 2, !.stage = "asked", !.round = NoRound]}
        /\ UNCHANGED <<game, server, trouble>>
     \/ /\ c.try = 2
        /\ plays' = plays \ {c}
        /\ game' = GiveUp(game)
        /\ Sweep(c.key)
        /\ trouble' = TRUE
  /\ UNCHANGED <<mes, presses, odd>>

\* Mutant: the balance is replaced whatever is on the screen.
Shows_Always(p, m) == [p EXCEPT !.balance = m.balance]

(* What an answer of me() replaces: the balance only between rounds.       *)
Shows(p, m) ==
  IF p.state \in {"IDLE", "RESULT", "ERROR"}
  THEN [p EXCEPT !.balance = m.balance, !.state = IF @ = "ERROR" THEN "IDLE" ELSE @]
  ELSE p

MeComes(m) ==
  /\ m.served
  /\ mes' = mes \ {m}
  /\ game' = IF m.id # FirstLook.id THEN Shows(game, m)
             ELSE [game EXCEPT !.balance = m.balance, !.state = "IDLE"]
  /\ UNCHANGED <<plays, server, presses, deeds, odd, trouble>>

MeFails(m) ==
  /\ deeds < MaxDeeds /\ deeds' = deeds + 1
  /\ mes' = mes \ {m}
  /\ game' = IF m.id = FirstLook.id THEN [game EXCEPT !.state = "ERROR"] ELSE game
  /\ UNCHANGED <<plays, server, presses, odd, trouble>>

(***************************************************************************)
(* The frames.  The intro's callback hides the intro before it throws.     *)
(***************************************************************************)
TimerFires ==
  /\ game.timer # "none"
  /\ game' = IF Throws(game)
             THEN Recover([game EXCEPT !.timer = "none",
                                       !.bonusIntro = @ /\ game.timer # "intro"])
             ELSE Fire(game)
  /\ odd' = (odd \/ Throws(game))
  /\ trouble' = (trouble \/ Throws(game))
  /\ UNCHANGED <<plays, mes, server, presses, deeds>>

ReelStops ==
  /\ game.reel # "off"
  /\ game' = ReelDone(game)
  /\ UNCHANGED <<plays, mes, server, presses, deeds, odd, trouble>>

RunEnds ==
  /\ game.state = "RUNNING" /\ game.run # NoKey
  /\ game' = RunOver(game)
  /\ UNCHANGED <<plays, mes, server, presses, deeds, odd, trouble>>

(* The intro fades on its own when its timer was taken by another wait.    *)
IntroFades ==
  /\ game.bonusIntro /\ game.timer # "intro"
  /\ game' = [game EXCEPT !.bonusIntro = FALSE]
  /\ UNCHANGED <<plays, mes, server, presses, deeds, odd, trouble>>

ResultAges ==
  /\ game.state = "RESULT" /\ game.resultT + 1 \in Ages
  /\ game' = [game EXCEPT !.resultT = @ + 1]
  /\ UNCHANGED <<plays, mes, server, presses, deeds, odd, trouble>>

AutoNext ==
  LET closed == CloseResult(game)
  IN  /\ game.state = "RESULT" /\ game.autoplay /\ game.resultT >= Past_AUTOPLAY_HOLD
      /\ IF Affords(closed, FALSE) THEN StartRound(closed, FALSE)
         ELSE NotEnough([closed EXCEPT !.autoplay = FALSE])
      /\ UNCHANGED <<mes, server, deeds, odd, trouble>>

FrameFails ==
  /\ deeds < MaxDeeds /\ deeds' = deeds + 1
  /\ game' = Recover(game)
  /\ odd' = TRUE /\ trouble' = TRUE
  /\ UNCHANGED <<plays, mes, server, presses>>

(* destroy(), and a new page: what was on its way answers to nobody.       *)
Reload ==
  /\ deeds < MaxDeeds /\ deeds' = deeds + 1
  /\ game' = Loading
  /\ plays' = {} /\ mes' = {FirstLook}
  /\ odd' = FALSE /\ trouble' = FALSE
  /\ server' = [server EXCEPT !.rounds = [k \in {} |-> NoRound]]
  /\ UNCHANGED <<presses>>

Frame == TimerFires \/ ReelStops \/ RunEnds \/ IntroFades \/ ResultAges \/ AutoNext

Next ==
  \/ Primary \/ BuyBonus \/ Tap \/ ToggleAutoplay \/ RefreshPlayer \/ MoneyMoves
  \/ \E c \in plays : ServePlay(c) \/ PlayComes(c) \/ PlayRefused(c) \/ PlayFails(c)
  \/ \E m \in mes : ServeMe(m) \/ MeComes(m) \/ MeFails(m)
  \/ Frame \/ FrameFails \/ Reload

(* The browser asks for frames as long as the page is there.               *)
Fairness == WF_vars(TimerFires) /\ WF_vars(ReelStops) /\ WF_vars(RunEnds)

Spec == Init /\ [][Next]_vars
FairSpec == Spec /\ Fairness

(***************************************************************************)
(* Properties.                                                             *)
(***************************************************************************)
(* Types of the presenter, the calls on their way and the server's rounds. *)
TypeOK ==
  /\ game \in [state : States, busy : BOOLEAN, autoplay : BOOLEAN, balance : Nat,
               round : Round \cup {NoRound}, spinIndex : Nat, reel : {"off", "miss", "hit"},
               timer : Callbacks, bonusIntro : BOOLEAN, run : Keys \cup {NoKey},
               resultT : Ages]
  /\ plays \subseteq [key : Keys, buy : BOOLEAN, try : 1..2,
                      stage : {"asked", "played", "refused"}, round : Round \cup {NoRound}]
  /\ mes \subseteq [id : 0..MaxDeeds, served : BOOLEAN, balance : Nat]
  /\ server.balance \in Nat /\ server.bonus \in BOOLEAN
  /\ DOMAIN server.rounds \subseteq Keys
  /\ \A k \in DOMAIN server.rounds : server.rounds[k] \in Round
  /\ presses \in 0..MaxPlays /\ deeds \in 0..MaxDeeds
  /\ odd \in BOOLEAN /\ trouble \in BOOLEAN

(* There is one slot for a waiting callback, and a second wait takes it    *)
(* from the first.  A game on its way still has something that will move   *)
(* it: the timer, the reel, or a run.                                      *)
RoundIsDriven ==
  game.state \in Playing =>
    \/ game.timer # "none" \/ game.reel # "off"
    \/ game.state = "RUNNING" /\ game.run # NoKey

(* The run on the screen is the run of the round whose payout it is        *)
(* compared with, however answers and animations overtake each other: the  *)
(* alarm of a sum that differs is never a false one.                       *)
RunIsOfTheRound == game.run # NoKey => game.run = game.round.key

(* Until then, too, the screen shows the balance without the stake as long *)
(* as a round is played, whatever the windows make it read meanwhile.      *)
ShownWhilePlaying ==
  ~odd /\ game.state \in Playing => game.balance = game.round.charged

(* A round that was begun comes to its result, or the game is given back   *)
(* to the player.                                                          *)
EveryRoundEnds == game.state \in Playing ~> game.state \notin Playing

(* What presenter.ts:193-195 says: while the intro of a bonus is on, the   *)
(* reel does not turn.                                                     *)
IntroHoldsTheReel == game.bonusIntro => game.state # "SPIN"

(* What GameClient.tsx:290 says: a won bonus is the next round, and costs  *)
(* nothing.  It fails: the button looks for the price of a bet first.      *)
NextRoundIsFree == [][Primary /\ server.bonus => presses' = presses + 1]_vars

=============================================================================
