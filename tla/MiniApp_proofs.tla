--------------------------- MODULE MiniApp_proofs ----------------------------
(***************************************************************************)
(* Theorems about the mini app: the game (MiniApp) and the windows over it *)
(* (RequestWindow).                                                        *)
(*                                                                         *)
(* The game, for any bet, payouts, number of spins and number of rounds.   *)
(* What a frame or an answer does to the fields of the presenter is a      *)
(* function of the record; the first part says what each of these          *)
(* functions keeps, the second goes through the actions.                   *)
(*                                                                         *)
(* The windows, for any number of requests, openings, calls and losses:    *)
(* what is not shown yet is told by a call on its way.  A call is made at  *)
(* the end of the list, is served where it stands, and leaves it; what     *)
(* each of the three does to the list comes first, the types next, and     *)
(* what the windows will hear last.                                        *)
(***************************************************************************)
EXTENDS MiniApp, RequestWindow, FiniteSetTheorems, SequenceTheorems, TLAPS

Games ==
  [state : States, busy : BOOLEAN, autoplay : BOOLEAN, balance : Nat,
   round : Round \cup {NoRound}, spinIndex : Nat, reel : {"off", "miss", "hit"},
   timer : Callbacks, bonusIntro : BOOLEAN, run : Keys \cup {NoKey}, resultT : Ages]

Calls == [key : Keys, buy : BOOLEAN, try : 1..2, stage : {"asked", "played", "refused"},
          round : Round \cup {NoRound}]

\* The run shown is the round's.
RunFits(p) == p.run # NoKey => p.run = p.round.key

\* A game on its way has something that moves it.
Driven(p) ==
  p.state \in Playing =>
    \/ p.timer # "none" \/ p.reel # "off"
    \/ p.state = "RUNNING" /\ p.run # NoKey

Good(p) == p \in Games /\ RunFits(p) /\ Driven(p)

\* The fields that hold numbers, whatever is written to them.
LEMMA NumbersFit ==
  ASSUME NEW p \in Games
  PROVE  /\ \A b \in Nat, s \in States, t \in Ages :
              [p EXCEPT !.balance = b, !.state = s, !.resultT = t] \in Games
         /\ \A s \in States, t \in Ages :
              [p EXCEPT !.round = NoRound, !.run = NoKey, !.state = s, !.resultT = t] \in Games
         /\ \A r \in Round, f \in BOOLEAN, b \in Nat, i \in Nat, t \in Ages :
              [p EXCEPT !.round = r, !.busy = f, !.balance = b, !.spinIndex = i,
                        !.resultT = t] \in Games
         /\ \A i \in Nat : [p EXCEPT !.spinIndex = i] \in Games
         /\ \A t \in Ages : [p EXCEPT !.resultT = t] \in Games
<1>1. ASSUME NEW b \in Nat, NEW s \in States, NEW t \in Ages
      PROVE  [p EXCEPT !.balance = b, !.state = s, !.resultT = t] \in Games
  BY DEF Games
<1>2. ASSUME NEW s \in States, NEW t \in Ages
      PROVE  [p EXCEPT !.round = NoRound, !.run = NoKey, !.state = s, !.resultT = t] \in Games
  BY DEF Games
<1>3. ASSUME NEW r \in Round, NEW f \in BOOLEAN, NEW b \in Nat, NEW i \in Nat, NEW t \in Ages
      PROVE  [p EXCEPT !.round = r, !.busy = f, !.balance = b, !.spinIndex = i,
                       !.resultT = t] \in Games
  BY DEF Games
<1>4. ASSUME NEW i \in Nat PROVE [p EXCEPT !.spinIndex = i] \in Games
  BY DEF Games
<1>5. ASSUME NEW t \in Ages PROVE [p EXCEPT !.resultT = t] \in Games
  BY DEF Games
<1> QED BY <1>1, <1>2, <1>3, <1>4, <1>5

(***************************************************************************)
(* What the steps of a round do to the presenter.                          *)
(***************************************************************************)
LEMMA KeysAreNumbers == Keys \subseteq Nat /\ NoKey \notin Keys
BY MiniAppAssumption DEF Keys, NoKey

LEMMA NoRoundIsNone == NoRound \notin Round
BY KeysAreNumbers DEF Round, NoRound

LEMMA LoadingIsGood == Good(Loading)
BY DEF Good, Games, RunFits, Driven, Loading, States, Playing, Callbacks, Ages, NoKey

\* A round that finishes shows its payout.
LEMMA FinishKeeps ==
  ASSUME NEW p \in Games, RunFits(p)
  PROVE  /\ Good(FinishRound(p))
         /\ FinishRound(p).state = "RESULT"
         /\ FinishRound(p).timer = p.timer /\ FinishRound(p).reel = p.reel
<1>1. p.round.after \in Nat
  BY DEF Games, Round, NoRound
<1> DEFINE q == FinishRound(p)
<1>2. /\ q.state = "RESULT" /\ q.timer = p.timer /\ q.reel = p.reel
      /\ q.run = p.run /\ q.round = p.round
  BY DEF Games, FinishRound
<1>3. q \in Games
  <2>1. "RESULT" \in States /\ 0 \in Ages
    BY DEF States, Ages
  <2> QED BY <1>1, <2>1, NumbersFit, Zenon DEF FinishRound
<1> QED BY <1>2, <1>3 DEF Good, RunFits, Driven, Playing

\* The rise waits for the timer.
LEMMA RiseKeeps ==
  ASSUME NEW p \in Games, RunFits(p)
  PROVE  /\ Good(Rise(p))
         /\ Rise(p).state = "RISE" /\ Rise(p).timer = "launch"
         /\ Rise(p).reel = p.reel /\ Rise(p).round = p.round /\ Rise(p).balance = p.balance
BY DEF Good, Games, RunFits, Driven, Rise, Wait, States, Playing, Callbacks

\* A launch ends the round, makes it rise, or starts its run.
LEMMA LaunchKeeps ==
  ASSUME NEW p \in Games, RunFits(p), p.round \in Round
  PROVE  /\ Good(Launch(p))
         /\ \/ Launch(p) = FinishRound(p)
            \/ Launch(p) = Rise(p)
            \/ /\ p.state = "RISE" /\ Launch(p).state = "RUNNING"
               /\ Launch(p).timer = p.timer /\ Launch(p).reel = p.reel
               /\ Launch(p).round = p.round /\ Launch(p).balance = p.balance
<1>1. CASE ~p.round.hit
  BY <1>1, FinishKeeps DEF Launch
<1>2. CASE p.round.hit /\ p.state # "RISE"
  BY <1>2, RiseKeeps DEF Launch
<1>3. CASE p.round.hit /\ p.state = "RISE"
  <2> DEFINE q == [p EXCEPT !.run = p.round.key, !.state = "RUNNING"]
  <2>1. Launch(p) = q
    BY <1>3 DEF Launch
  <2>2. p.round.key \in Keys
    BY DEF Round
  <2>3. /\ q.state = "RUNNING" /\ q.run = p.round.key /\ q.timer = p.timer /\ q.reel = p.reel
        /\ q.round = p.round /\ q.balance = p.balance
    BY DEF Games
  <2>4. q \in Games
    BY <2>2 DEF Games, States
  <2>5. RunFits(q) /\ Driven(q)
    BY <2>2, <2>3, KeysAreNumbers DEF RunFits, Driven
  <2> QED BY <1>3, <2>1, <2>3, <2>4, <2>5 DEF Good
<1> QED BY <1>1, <1>2, <1>3

\* Another spin turns the reel.
LEMMA ReelStarts ==
  ASSUME NEW p \in Games, RunFits(p)
  PROVE  /\ Good(StartReel(p))
         /\ StartReel(p).state = "SPIN" /\ StartReel(p).reel # "off"
         /\ StartReel(p).timer = p.timer
         /\ StartReel(p).round = p.round /\ StartReel(p).balance = p.balance
BY DEF Good, Games, RunFits, Driven, StartReel, States, Playing

LEMMA NextSpinKeeps ==
  ASSUME NEW p \in Games, RunFits(p), p.round \in Round
  PROVE  /\ Good(NextSpin(p))
         /\ NextSpin(p) \in {Launch(p), StartReel(p)}
BY LaunchKeeps, ReelStarts DEF NextSpin

LEMMA ReelDoneKeeps ==
  ASSUME NEW p \in Games, RunFits(p)
  PROVE  Good(ReelDone(p))
<1> DEFINE q == [p EXCEPT !.reel = "off"]
<1>1. q \in Games /\ RunFits(q)
  BY DEF Games, RunFits
<1>2. CASE p.reel = "hit"
  BY <1>1, <1>2, RiseKeeps DEF ReelDone
<1>3. CASE p.reel # "hit"
  <2>1. ReelDone(p) = [q EXCEPT !.timer = "next"]
    BY <1>3 DEF ReelDone, Wait
  <2> QED BY <1>1, <2>1 DEF Good, Games, RunFits, Driven, Callbacks
<1> QED BY <1>2, <1>3

LEMMA RunOverKeeps ==
  ASSUME NEW p \in Games, RunFits(p)
  PROVE  Good(RunOver(p))
BY DEF Good, Games, RunFits, Driven, RunOver, Wait, States, Callbacks

LEMMA CloseKeeps ==
  ASSUME NEW p \in Games
  PROVE  /\ Good(CloseResult(p)) /\ CloseResult(p).state = "IDLE"
         /\ CloseResult(p).timer = p.timer /\ CloseResult(p).reel = p.reel
         /\ CloseResult(p).busy = p.busy
<1> DEFINE q == CloseResult(p)
<1>1. /\ q.state = "IDLE" /\ q.timer = p.timer /\ q.reel = p.reel /\ q.busy = p.busy
      /\ q.run = NoKey
  BY DEF Games, CloseResult
<1>2. q \in Games
  <2>1. "IDLE" \in States /\ 0 \in Ages
    BY DEF States, Ages
  <2> QED BY <2>1, NumbersFit, Zenon DEF CloseResult
<1> QED BY <1>1, <1>2 DEF Good, RunFits, Driven, Playing

\* An answer lays its own mine before anything of it is shown.
LEMMA TakeKeeps ==
  ASSUME NEW p \in Games, NEW round \in Round
  PROVE  Good(Take(p, round))
<1> DEFINE a == [p EXCEPT !.round = round, !.busy = FALSE, !.balance = round.charged,
                          !.spinIndex = 0, !.resultT = 0]
           q == NewMine(a)
<1>1. round.charged \in Nat
  BY DEF Round
<1>2. a \in Games
  <2>1. 0 \in Ages /\ 0 \in Nat /\ FALSE \in BOOLEAN
    BY DEF Ages
  <2> QED BY <1>1, <2>1, NumbersFit, Zenon
<1>3. q \in Games /\ q.run = NoKey /\ q.round = round
  BY <1>2 DEF Games, NewMine
<1>4. RunFits(q)
  BY <1>3 DEF RunFits
<1>5. CASE round.free
  <2>1. Take(p, round) = [q EXCEPT !.bonusIntro = TRUE, !.timer = "intro"]
    BY <1>5, <1>3 DEF Take, Wait
  <2> QED BY <1>3, <2>1 DEF Good, Games, RunFits, Driven, Callbacks
<1>6. CASE ~round.free
  BY <1>3, <1>4, <1>6, NextSpinKeeps DEF Take
<1> QED BY <1>5, <1>6

LEMMA RecoverKeeps ==
  ASSUME NEW p \in Games, RunFits(p)
  PROVE  Good(Recover(p))
BY DEF Good, Games, RunFits, Driven, Recover, States, Playing

LEMMA GiveUpKeeps ==
  ASSUME NEW p, Good(p)
  PROVE  /\ Good(GiveUp(p))
         /\ GiveUp(p).state = p.state /\ GiveUp(p).timer = p.timer /\ GiveUp(p).reel = p.reel
         /\ GiveUp(p).round = p.round /\ GiveUp(p).balance = p.balance
<1> DEFINE q == GiveUp(p)
<1>1. /\ q.state = p.state /\ q.timer = p.timer /\ q.reel = p.reel
      /\ q.round = p.round /\ q.balance = p.balance /\ q.run = p.run
  BY DEF Good, Games, GiveUp
<1>2. q \in Games
  BY DEF Good, Games, GiveUp
<1> QED BY <1>1, <1>2 DEF Good, RunFits, Driven

\* The timer finds a round and goes on with it.
LEMMA FireKeeps ==
  ASSUME NEW p \in Games, RunFits(p), p.timer # "none", ~Throws(p)
  PROVE  Good(Fire(p))
<1> DEFINE q == [p EXCEPT !.timer = "none"]
           i == [q EXCEPT !.bonusIntro = FALSE]
           n == [q EXCEPT !.spinIndex = @ + 1]
<1>0. p.round \in Round
  BY DEF Throws, Games
<1>1. q \in Games /\ RunFits(q) /\ q.round \in Round
  BY <1>0 DEF Games, RunFits, Callbacks
<1>2. i \in Games /\ RunFits(i) /\ i.round \in Round
  BY <1>1 DEF Games, RunFits
<1>3. n \in Games /\ RunFits(n) /\ n.round \in Round
  <2>1. n \in Games
    <3>1. q.spinIndex + 1 \in Nat
      BY <1>1 DEF Games
    <3> QED BY <1>1, <3>1, NumbersFit, Zenon
  <2>2. n.run = q.run /\ n.round = q.round
    BY <1>1 DEF Games
  <2> QED BY <1>1, <2>1, <2>2 DEF RunFits
<1>4. CASE p.timer = "intro"
  BY <1>2, <1>4, NextSpinKeeps DEF Fire
<1>5. CASE p.timer = "next"
  BY <1>3, <1>5, NextSpinKeeps DEF Fire
<1>6. CASE p.timer = "launch"
  BY <1>1, <1>6, LaunchKeeps DEF Fire
<1>7. CASE p.timer = "finish"
  BY <1>1, <1>7, FinishKeeps DEF Fire
<1>8. p.timer \in {"intro", "next", "launch", "finish"}
  BY DEF Games, Callbacks
<1> QED BY <1>4, <1>5, <1>6, <1>7, <1>8

LEMMA ShowsKeeps ==
  ASSUME NEW p, Good(p), NEW m, m.balance \in Nat
  PROVE  Good(Shows(p, m))
BY DEF Good, Games, RunFits, Driven, Shows, States, Playing

(***************************************************************************)
(* While nothing odd has happened, each state of the presenter knows what  *)
(* moves it, and shows the balance without the stake.                      *)
(***************************************************************************)
Phase(p) ==
  /\ p.timer # "intro"
  /\ p.state \notin Playing => p.timer = "none" /\ p.reel = "off"
  /\ p.state = "SPIN" => \/ p.timer = "none" /\ p.reel # "off"
                         \/ p.timer = "next" /\ p.reel = "off"
  /\ p.state = "RISE" => p.timer = "launch" /\ p.reel = "off"
  /\ p.state = "RUNNING" => p.timer = "none" /\ p.reel = "off"
  /\ p.state = "DROPDONE" => p.timer = "finish" /\ p.reel = "off"
  /\ p.state \in Playing => p.round \in Round /\ p.balance = p.round.charged

\* Between two waits: a round is there and its stake is off.
Between(p) ==
  p.timer = "none" /\ p.reel = "off" /\ p.round \in Round /\ p.balance = p.round.charged

LEMMA LaunchPhase ==
  ASSUME NEW p \in Games, RunFits(p), Between(p)
  PROVE  Phase(Launch(p))
<1>1. Launch(p) \in Games
  BY LaunchKeeps DEF Between, Good
<1>2. CASE Launch(p) = FinishRound(p)
  BY <1>2, FinishKeeps DEF Phase, Between, Playing
<1>3. CASE Launch(p) = Rise(p)
  BY <1>3, RiseKeeps DEF Phase, Between, Playing
<1>4. CASE /\ p.state = "RISE" /\ Launch(p).state = "RUNNING"
           /\ Launch(p).timer = p.timer /\ Launch(p).reel = p.reel
           /\ Launch(p).round = p.round /\ Launch(p).balance = p.balance
  BY <1>4 DEF Phase, Between, Playing
<1> QED BY <1>2, <1>3, <1>4, LaunchKeeps DEF Between

LEMMA NextSpinPhase ==
  ASSUME NEW p \in Games, RunFits(p), Between(p)
  PROVE  Phase(NextSpin(p))
<1>1. CASE NextSpin(p) = Launch(p)
  BY <1>1, LaunchPhase
<1>2. CASE NextSpin(p) = StartReel(p)
  BY <1>2, ReelStarts DEF Phase, Between, Playing
<1> QED BY <1>1, <1>2 DEF NextSpin

LEMMA FirePhase ==
  ASSUME NEW p \in Games, RunFits(p), Phase(p), p.timer # "none"
  PROVE  Phase(Fire(p))
<1> DEFINE q == [p EXCEPT !.timer = "none"]
           n == [q EXCEPT !.spinIndex = @ + 1]
<1>1. p.state \in Playing /\ p.reel = "off" /\ p.timer \in {"next", "launch", "finish"}
  BY DEF Phase, Games, Callbacks, Playing
<1>2. q \in Games /\ RunFits(q) /\ Between(q)
  BY <1>1 DEF Games, RunFits, Phase, Between, Callbacks
<1>3. n \in Games /\ RunFits(n) /\ Between(n)
  <2>1. n \in Games
    <3>1. q.spinIndex + 1 \in Nat
      BY <1>2 DEF Games
    <3> QED BY <1>2, <3>1, NumbersFit, Zenon
  <2>2. /\ n.run = q.run /\ n.round = q.round /\ n.timer = q.timer /\ n.reel = q.reel
        /\ n.balance = q.balance
    BY <1>2 DEF Games
  <2> QED BY <1>2, <2>1, <2>2 DEF RunFits, Between
<1>4. CASE p.timer = "next"
  BY <1>3, <1>4, NextSpinPhase DEF Fire
<1>5. CASE p.timer = "launch"
  BY <1>2, <1>5, LaunchPhase DEF Fire
<1>6. CASE p.timer = "finish"
  <2>1. Fire(p) = FinishRound(q)
    BY <1>6 DEF Fire
  <2> QED BY <1>2, <2>1, FinishKeeps DEF Phase, Between, Playing
<1> QED BY <1>1, <1>4, <1>5, <1>6

LEMMA ReelPhase ==
  ASSUME NEW p \in Games, RunFits(p), Phase(p), p.reel # "off"
  PROVE  Phase(ReelDone(p))
<1> DEFINE q == [p EXCEPT !.reel = "off"]
<1>1. p.state = "SPIN" /\ p.timer = "none"
  BY DEF Phase, Games, States, Playing
<1>2. q \in Games /\ RunFits(q) /\ Between(q) /\ q.state = "SPIN"
  BY <1>1 DEF Games, RunFits, Phase, Between, Playing
<1>3. CASE p.reel = "hit"
  <2>1. ReelDone(p) = Rise(q)
    BY <1>3 DEF ReelDone
  <2> QED BY <1>2, <2>1, RiseKeeps DEF Phase, Between, Playing
<1>4. CASE p.reel # "hit"
  <2>1. ReelDone(p) = [q EXCEPT !.timer = "next"]
    BY <1>4 DEF ReelDone, Wait
  <2>2. /\ ReelDone(p).state = "SPIN" /\ ReelDone(p).timer = "next" /\ ReelDone(p).reel = "off"
        /\ ReelDone(p).round = q.round /\ ReelDone(p).balance = q.balance
    BY <1>2, <2>1 DEF Games
  <2> QED BY <1>2, <2>2 DEF Phase, Between, Playing
<1> QED BY <1>3, <1>4

LEMMA TakePhase ==
  ASSUME NEW p \in Games, NEW round \in Round, Phase(p), p.state \notin Playing, ~round.free
  PROVE  Phase(Take(p, round))
<1> DEFINE a == [p EXCEPT !.round = round, !.busy = FALSE, !.balance = round.charged,
                          !.spinIndex = 0, !.resultT = 0]
           q == NewMine(a)
<1>1. round.charged \in Nat
  BY DEF Round
<1>2. a \in Games
  <2>1. 0 \in Ages /\ 0 \in Nat /\ FALSE \in BOOLEAN
    BY DEF Ages
  <2> QED BY <1>1, <2>1, NumbersFit, Zenon
<1>3. /\ a.round = round /\ a.balance = round.charged
      /\ a.timer = "none" /\ a.reel = "off"
  BY DEF Games, Phase
<1>4. q \in Games /\ RunFits(q) /\ Between(q)
  BY <1>2, <1>3 DEF Games, NewMine, RunFits, Between
<1> QED BY <1>4, NextSpinPhase DEF Take

(***************************************************************************)
(* The invariant.                                                          *)
(***************************************************************************)
CallsFit ==
  /\ plays \subseteq Calls
  /\ \A c \in plays : c.stage = "played" => c.round \in Round

ReadingsFit == mes \subseteq [id : 0..MaxDeeds, served : BOOLEAN, balance : Nat]

ServerFits ==
  /\ server = [balance |-> server.balance, bonus |-> server.bonus, rounds |-> server.rounds]
  /\ server.balance \in Nat /\ server.bonus \in BOOLEAN
  /\ DOMAIN server.rounds \subseteq Keys
  /\ \A k \in DOMAIN server.rounds : server.rounds[k] \in Round

CountersFit ==
  presses \in 0..MaxPlays /\ deeds \in 0..MaxDeeds /\ odd \in BOOLEAN /\ trouble \in BOOLEAN

\* One call at a time, made in IDLE; the first look is waited for.
OneAtATime ==
  /\ plays # {} => game.state = "IDLE" /\ game.busy
  /\ \A c, d \in plays : c = d
  /\ \A m \in mes : m.id = 0 => game.state = "LOADING"
  /\ \A m, n \in mes : m.id = 0 /\ n.id = 0 => m = n

Calm == ~odd => Phase(game) /\ OneAtATime

Inv == Good(game) /\ CallsFit /\ ReadingsFit /\ ServerFits /\ CountersFit /\ Calm

LEMMA InvInit == Init => Inv
<1> SUFFICES ASSUME Init PROVE Inv
  OBVIOUS
<1>1. Good(game)
  BY LoadingIsGood DEF Init
<1>2. CallsFit
  BY DEF Init, CallsFit
<1>3. ReadingsFit
  BY MiniAppAssumption DEF Init, ReadingsFit, FirstLook, Me
<1>4. ServerFits
  BY MiniAppAssumption DEF Init, ServerFits
<1>5. CountersFit
  <2>1. MaxPlays \in Nat /\ MaxDeeds \in Nat
    BY MiniAppAssumption
  <2>2. presses \in 0..MaxPlays /\ deeds \in 0..MaxDeeds
    BY <2>1 DEF Init
  <2>3. odd \in BOOLEAN /\ trouble \in BOOLEAN
    BY DEF Init
  <2> QED BY <2>2, <2>3 DEF CountersFit
<1>6. Calm
  BY DEF Init, Calm, Phase, OneAtATime, Loading, FirstLook, Me, Playing
<1> QED BY <1>1, <1>2, <1>3, <1>4, <1>5, <1>6 DEF Inv

(* A press: a call goes out from a presenter that stands, or nothing does. *)
LEMMA StartKeeps ==
  ASSUME Inv, NEW p, NEW buy \in BOOLEAN, Good(p), StartRound(p, buy),
         ~odd => Phase(p) /\ p.state = "IDLE" /\ plays = {} /\ \A m \in mes : m.id # 0,
         UNCHANGED <<mes, server, deeds, odd>>, trouble' \in BOOLEAN
  PROVE  Inv'
<1> DEFINE c == [key |-> presses + 1, buy |-> buy, try |-> 1, stage |-> "asked",
                 round |-> NoRound]
<1>1. /\ game'.state = p.state /\ game'.timer = p.timer /\ game'.reel = p.reel
      /\ game'.round = p.round /\ game'.balance = p.balance /\ game'.run = p.run
      /\ game'.busy = TRUE /\ game' \in Games
  BY DEF StartRound, Good, Games
<1>2. Good(game')
  BY <1>1 DEF Good, RunFits, Driven
<1>3. presses \in Nat /\ presses + 1 \in Keys /\ presses' \in 0..MaxPlays
  BY MiniAppAssumption DEF Inv, CountersFit, StartRound, Keys
<1>4. CallsFit'
  <2>1. c \in Calls
    BY <1>3 DEF Calls
  <2> QED BY <2>1 DEF Inv, CallsFit, StartRound
<1>5. Calm'
  <2> SUFFICES ASSUME ~odd PROVE Phase(game') /\ OneAtATime'
    BY DEF Calm
  <2>1. Phase(game')
    BY <1>1 DEF Phase
  <2>2. plays' = {c}
    BY DEF StartRound
  <2> QED BY <1>1, <2>1, <2>2 DEF OneAtATime, Inv, Calm
<1>6. CountersFit'
  BY <1>3 DEF Inv, CountersFit
<1> QED BY <1>2, <1>4, <1>5, <1>6 DEF Inv, ReadingsFit, ServerFits

(* A step that leaves the calls and the readings alone, and a presenter    *)
(* that is in no game and asks for nothing, or goes on as it was.          *)
LEMMA GameKeeps ==
  ASSUME Inv, Good(game'), UNCHANGED <<plays, mes, server, presses>>,
         deeds' \in 0..MaxDeeds, odd' \in BOOLEAN, trouble' \in BOOLEAN,
         ~odd' => /\ ~odd /\ Phase(game')
                  /\ plays # {} => game'.state = "IDLE" /\ game'.busy
                  /\ \A m \in mes : m.id = 0 => game'.state = "LOADING"
  PROVE  Inv'
<1>1. CallsFit' /\ ReadingsFit' /\ ServerFits' /\ CountersFit'
  BY DEF Inv, CallsFit, ReadingsFit, ServerFits, CountersFit
<1>2. Calm'
  BY DEF Inv, Calm, OneAtATime
<1> QED BY <1>1, <1>2 DEF Inv

(* The player's hand. *)
LEMMA PressKeeps ==
  ASSUME Inv, NEW p, NEW buy \in BOOLEAN, Good(p), StartOrTell(p, buy),
         ~odd => Phase(p) /\ p.state = "IDLE" /\ plays = {} /\ \A m \in mes : m.id # 0,
         UNCHANGED <<mes, server, deeds, odd>>, trouble' \in BOOLEAN
  PROVE  Inv'
<1>1. CASE StartRound(p, buy)
  BY <1>1, StartKeeps
<1>2. CASE NotEnough(p)
  <2>1. presses' = presses /\ plays' = plays /\ game' = p
    BY <1>2 DEF NotEnough
  <2>2. deeds' \in 0..MaxDeeds /\ odd' \in BOOLEAN
    BY DEF Inv, CountersFit
  <2> QED BY <2>1, <2>2, GameKeeps
<1> QED BY <1>1, <1>2 DEF StartOrTell

\* The first look is over and nothing is asked for wherever a press goes through.
LEMMA Standing ==
  ASSUME Inv, ~odd, \/ game.state = "RESULT"
                    \/ game.state = "IDLE" /\ ~game.busy
  PROVE  plays = {} /\ \A m \in mes : m.id # 0
BY DEF Inv, Calm, OneAtATime

\* A closed result stands as an idle game does.
LEMMA Closed ==
  ASSUME Inv, game.state = "RESULT"
  PROVE  /\ Good(CloseResult(game)) /\ CloseResult(game).state = "IDLE"
         /\ ~odd => Phase(CloseResult(game))
<1>1. game \in Games
  BY DEF Inv, Good
<1> QED BY <1>1, CloseKeeps DEF Inv, Calm, Phase, Playing

LEMMA PrimaryKeeps == ASSUME Inv, Primary PROVE Inv'
<1>1. trouble' \in BOOLEAN /\ UNCHANGED <<mes, server, deeds, odd>> /\ FALSE \in BOOLEAN
  BY DEF Primary
<1>2. CASE game.state = "RESULT" /\ StartOrTell(CloseResult(game), FALSE)
  BY <1>1, <1>2, Closed, Standing, PressKeeps
<1>3. CASE Idle(game) /\ StartOrTell(game, FALSE)
  <2>1. game.state = "IDLE" /\ ~game.busy /\ Good(game) /\ (~odd => Phase(game))
    BY <1>3 DEF Idle, Inv, Calm
  <2> QED BY <1>1, <1>3, <2>1, Standing, PressKeeps
<1> QED BY <1>2, <1>3 DEF Primary

LEMMA BuyBonusKeeps == ASSUME Inv, BuyBonus PROVE Inv'
<1>1. trouble' \in BOOLEAN /\ UNCHANGED <<mes, server, deeds, odd>> /\ TRUE \in BOOLEAN
  BY DEF BuyBonus
<1>2. game.state \in {"IDLE", "RESULT"} /\ ~game.busy /\ Good(game) /\ (~odd => Phase(game))
  BY DEF BuyBonus, RoundInFlight, Inv, Calm
<1>3. CASE NotEnough(game)
  <2>1. presses' = presses /\ plays' = plays /\ game' = game
    BY <1>3 DEF NotEnough
  <2>2. deeds' \in 0..MaxDeeds /\ odd' \in BOOLEAN
    BY <1>1 DEF Inv, CountersFit
  <2>3. ~odd => plays = {} /\ \A m \in mes : m.id # 0
    BY <1>2, Standing
  <2> QED BY <1>1, <1>2, <2>1, <2>2, <2>3, GameKeeps
<1>4. CASE game.state = "RESULT" /\ StartRound(CloseResult(game), TRUE)
  BY <1>1, <1>4, Closed, Standing, StartKeeps
<1>5. CASE game.state = "IDLE" /\ StartRound(game, TRUE)
  BY <1>1, <1>2, <1>5, Standing, StartKeeps
<1> QED BY <1>2, <1>3, <1>4, <1>5 DEF BuyBonus

LEMMA TapKeeps == ASSUME Inv, Tap PROVE Inv'
<1>1. game.state = "RESULT" /\ game' = CloseResult(game)
  BY DEF Tap
<1>2. UNCHANGED <<plays, mes, server, presses, deeds, odd, trouble>>
  BY DEF Tap
<1>3. deeds \in 0..MaxDeeds /\ odd \in BOOLEAN /\ trouble \in BOOLEAN
  BY DEF Inv, CountersFit
<1>4. ~odd => plays = {} /\ \A m \in mes : m.id # 0
  BY <1>1, Standing
<1> QED BY <1>1, <1>2, <1>3, <1>4, Closed, GameKeeps

\* The autoplay flag moves nothing.
LEMMA FlagKeeps ==
  ASSUME NEW p, Good(p), NEW q, q = [p EXCEPT !.autoplay = ~@]
  PROVE  /\ Good(q) /\ (Phase(p) => Phase(q))
         /\ q.state = p.state /\ q.busy = p.busy
<1>1. /\ q.state = p.state /\ q.timer = p.timer /\ q.reel = p.reel /\ q.busy = p.busy
      /\ q.round = p.round /\ q.balance = p.balance /\ q.run = p.run
  BY DEF Good, Games
<1>2. q \in Games
  BY DEF Good, Games
<1> QED BY <1>1, <1>2 DEF Good, RunFits, Driven, Phase

LEMMA ToggleKeeps == ASSUME Inv, ToggleAutoplay PROVE Inv'
<1> DEFINE on == [game EXCEPT !.autoplay = ~@]
<1>1. UNCHANGED <<mes, server, deeds, odd>> /\ trouble' \in BOOLEAN /\ FALSE \in BOOLEAN
  BY DEF ToggleAutoplay
<1>2. Good(game)
  BY DEF Inv
<1>3. Good(on) /\ on.state = game.state /\ on.busy = game.busy /\ (Phase(game) => Phase(on))
  BY <1>2, FlagKeeps
<1>4. ~odd => Phase(game)
  BY DEF Inv, Calm
<1>5. deeds' \in 0..MaxDeeds /\ odd' \in BOOLEAN
  BY <1>1 DEF Inv, CountersFit
<1>6. CASE Idle(on) /\ StartRound(on, FALSE)
  BY <1>1, <1>3, <1>4, <1>6, Standing, StartKeeps DEF Idle
<1>7. CASE Idle(on) /\ NotEnough(game)
  <2>1. presses' = presses /\ plays' = plays /\ game' = game
    BY <1>7 DEF NotEnough
  <2>2. ~odd => plays = {} /\ \A m \in mes : m.id # 0
    BY <1>3, <1>7, Standing DEF Idle
  <2> QED BY <1>1, <1>2, <1>4, <1>5, <2>1, <2>2, GameKeeps
<1>8. CASE game' = on /\ UNCHANGED <<plays, presses>>
  <2>1. ~odd => /\ plays # {} => game.state = "IDLE" /\ game.busy
                /\ \A m \in mes : m.id = 0 => game.state = "LOADING"
    BY DEF Inv, Calm, OneAtATime
  <2> QED BY <1>1, <1>3, <1>4, <1>5, <1>8, <2>1, GameKeeps
<1>9. \/ Idle(on) /\ (StartRound(on, FALSE) \/ NotEnough(game))
      \/ game' = on /\ UNCHANGED <<plays, presses>>
  <2>1. Idle(game) => Idle(on)
    BY <1>3 DEF Idle
  <2> QED BY <2>1, Zenon DEF ToggleAutoplay
<1> QED BY <1>6, <1>7, <1>8, <1>9

(* The network and the server. *)
LEMMA RefreshKeeps == ASSUME Inv, RefreshPlayer PROVE Inv'
<1>1. deeds \in Nat /\ deeds + 1 \in 0..MaxDeeds /\ deeds + 1 # 0
  <2>1. MaxDeeds \in Nat /\ deeds \in 0..MaxDeeds /\ deeds < MaxDeeds
    BY MiniAppAssumption DEF Inv, CountersFit, RefreshPlayer
  <2> QED BY <2>1
<1>2. ReadingsFit'
  <2>1. ASSUME NEW n \in 0..MaxDeeds
        PROVE  Me(n) \in [id : 0..MaxDeeds, served : BOOLEAN, balance : Nat]
    BY DEF Me
  <2>2. Me(deeds + 1) \in [id : 0..MaxDeeds, served : BOOLEAN, balance : Nat]
    BY <1>1, <2>1
  <2> QED BY <2>2 DEF Inv, ReadingsFit, RefreshPlayer
<1>3. CountersFit'
  BY <1>1 DEF Inv, CountersFit, RefreshPlayer
<1>4. Calm'
  <2> SUFFICES ASSUME ~odd PROVE Phase(game') /\ OneAtATime'
    BY DEF Calm, RefreshPlayer
  <2>1. Phase(game) /\ OneAtATime
    BY DEF Inv, Calm
  <2>2. mes' = mes \cup {Me(deeds + 1)} /\ Me(deeds + 1).id # 0
    BY <1>1 DEF RefreshPlayer, Me
  <2> QED BY <2>1, <2>2 DEF OneAtATime, RefreshPlayer
<1> QED BY <1>2, <1>3, <1>4 DEF Inv, RefreshPlayer, CallsFit, ServerFits

LEMMA MoneyKeeps == ASSUME Inv, MoneyMoves PROVE Inv'
<1>1. server.balance + Deposit \in Nat
  BY MiniAppAssumption DEF Inv, ServerFits
<1>2. ServerFits'
  BY <1>1 DEF Inv, ServerFits, MoneyMoves
<1> QED BY <1>2 DEF Inv, MoneyMoves, CallsFit, ReadingsFit, CountersFit, Calm, OneAtATime

\* A call gets its answer: the others and the presenter stay as they are.
LEMMA AnswerKeeps ==
  ASSUME Inv, NEW c \in plays, NEW d \in Calls, plays' = (plays \ {c}) \cup {d},
         d.stage = "played" => d.round \in Round,
         ServerFits', UNCHANGED <<game, mes, presses, odd>>,
         deeds' \in 0..MaxDeeds, trouble' \in BOOLEAN
  PROVE  Inv'
<1>1. CallsFit'
  BY DEF Inv, CallsFit
<1>2. Calm'
  BY DEF Inv, Calm, OneAtATime
<1> QED BY <1>1, <1>2 DEF Inv, ReadingsFit, CountersFit

\* What is played is a round, paid for and remembered under its key.
LEMMA PlayNewFits ==
  ASSUME Inv, NEW c \in plays, PlayNew(c)
  PROVE  /\ ServerFits'
         /\ \E round \in Round : Answered(c, round)
<1> DEFINE free == ~c.buy /\ server.bonus
           cost == IF free THEN 0 ELSE Cost(c.buy)
           R(spins, hit, payout) ==
             [key |-> c.key, free |-> free, spins |-> spins, hit |-> hit,
              charged |-> server.balance - cost,
              after |-> server.balance - cost + payout]
<1>1. PICK spins \in 1..Spins, hit \in BOOLEAN, payout \in Payouts, won \in BOOLEAN :
        /\ server' = [balance |-> R(spins, hit, payout).after,
                      bonus |-> won \/ (server.bonus /\ ~free),
                      rounds |-> [k \in DOMAIN server.rounds \cup {c.key} |->
                                    IF k = c.key THEN R(spins, hit, payout)
                                    ELSE server.rounds[k]]]
        /\ Answered(c, R(spins, hit, payout))
  BY DEF PlayNew
<1> DEFINE round == R(spins, hit, payout)
<1>2. c.key \in Keys /\ c.buy \in BOOLEAN
  BY DEF Inv, CallsFit, Calls
<1>3. cost \in Nat /\ cost <= server.balance
  <2>1. cost <= server.balance
    BY Zenon DEF PlayNew
  <2>2. cost \in Nat
    BY MiniAppAssumption DEF Cost
  <2> QED BY <2>1, <2>2
<1>4. server.balance - cost \in Nat /\ server.balance - cost + payout \in Nat
  BY <1>3, MiniAppAssumption DEF Inv, ServerFits
<1>5. free \in BOOLEAN
  BY <1>2 DEF Inv, ServerFits
<1> HIDE DEF free, cost
<1>6. round \in Round /\ round.after = server.balance - cost + payout
  BY <1>2, <1>4, <1>5 DEF Round
<1>7. (won \/ (server.bonus /\ ~free)) \in BOOLEAN
  OBVIOUS
<1> HIDE DEF R
<1>8. ServerFits'
  BY <1>1, <1>2, <1>4, <1>6, <1>7 DEF Inv, ServerFits
<1> QED BY <1>1, <1>6, <1>8

LEMMA ServePlayKeeps == ASSUME Inv, NEW c \in plays, ServePlay(c) PROVE Inv'
<1>1. /\ UNCHANGED <<game, mes, presses, odd>>
      /\ deeds' \in 0..MaxDeeds /\ trouble' \in BOOLEAN
  BY DEF ServePlay, Inv, CountersFit
<1>2. c \in Calls
  BY DEF Inv, CallsFit
<1>3. ASSUME NEW round \in Round, Answered(c, round), ServerFits'
      PROVE  Inv'
  <2> DEFINE d == [c EXCEPT !.stage = "played", !.round = round]
  <2>1. d \in Calls /\ d.round = round
    BY <1>2 DEF Calls
  <2>2. plays' = (plays \ {c}) \cup {d}
    BY <1>3 DEF Answered
  <2> QED BY <1>1, <1>3, <2>1, <2>2, AnswerKeeps
<1>4. CASE PlayAgain(c)
  <2>1. server.rounds[c.key] \in Round /\ ServerFits'
    BY <1>4 DEF PlayAgain, Inv, ServerFits
  <2> QED BY <1>3, <1>4, <2>1 DEF PlayAgain
<1>5. CASE PlayNew(c)
  BY <1>3, <1>5, PlayNewFits
<1>6. CASE Refuse(c)
  <2> DEFINE d == [c EXCEPT !.stage = "refused"]
  <2>1. d \in Calls /\ d.stage = "refused"
    BY <1>2 DEF Calls
  <2>2. plays' = (plays \ {c}) \cup {d} /\ ServerFits'
    BY <1>6 DEF Refuse, Inv, ServerFits
  <2> QED BY <1>1, <2>1, <2>2, AnswerKeeps
<1> QED BY <1>4, <1>5, <1>6 DEF ServePlay

LEMMA ServeMeKeeps == ASSUME Inv, NEW m \in mes, ServeMe(m) PROVE Inv'
<1> DEFINE n == [m EXCEPT !.served = TRUE, !.balance = server.balance]
<1>1. n \in [id : 0..MaxDeeds, served : BOOLEAN, balance : Nat] /\ n.id = m.id
  BY DEF Inv, ReadingsFit, ServerFits
<1>2. mes' = (mes \ {m}) \cup {n}
  BY DEF ServeMe
<1>3. ReadingsFit'
  BY <1>1, <1>2 DEF Inv, ReadingsFit
<1>4. Calm'
  <2> SUFFICES ASSUME ~odd PROVE Phase(game') /\ OneAtATime'
    BY DEF Calm, ServeMe
  <2>1. Phase(game) /\ OneAtATime
    BY DEF Inv, Calm
  <2> HIDE DEF n
  <2> QED BY <1>1, <1>2, <2>1 DEF OneAtATime, ServeMe
<1> QED BY <1>3, <1>4 DEF Inv, ServeMe, CallsFit, ServerFits, CountersFit

\* What is forgotten leaves the other rounds as they are.
LEMMA SweepFits ==
  ASSUME Inv, NEW key, Sweep(key)
  PROVE  ServerFits'
BY DEF Inv, ServerFits, Sweep

\* A call is over.
LEMMA CallEnds ==
  ASSUME Inv, NEW c \in plays, plays' = plays \ {c}, Good(game'), ServerFits',
         UNCHANGED <<mes, presses>>,
         deeds' \in 0..MaxDeeds, odd' \in BOOLEAN, trouble' \in BOOLEAN,
         ~odd' => ~odd /\ Phase(game')
  PROVE  Inv'
<1>1. CallsFit' /\ ReadingsFit' /\ CountersFit'
  BY DEF Inv, CallsFit, ReadingsFit, CountersFit
<1>2. Calm'
  <2> SUFFICES ASSUME ~odd' PROVE OneAtATime'
    BY DEF Calm
  <2>1. OneAtATime /\ plays' = {}
    BY DEF Inv, Calm, OneAtATime
  <2>2. \A m \in mes : m.id # 0
    BY <2>1 DEF OneAtATime
  <2> QED BY <2>1, <2>2 DEF OneAtATime
<1> QED BY <1>1, <1>2 DEF Inv

LEMMA PlayComesKeeps == ASSUME Inv, NEW c \in plays, PlayComes(c) PROVE Inv'
<1>1. c.round \in Round /\ game \in Games
  BY DEF PlayComes, Inv, CallsFit, Good
<1>2. game' = Take(game, c.round) /\ plays' = plays \ {c} /\ odd' = (odd \/ c.round.free)
  BY DEF PlayComes
<1>3. Good(game')
  BY <1>1, <1>2, TakeKeeps
<1>4. ServerFits'
  BY SweepFits DEF PlayComes
<1>5. ASSUME ~odd' PROVE ~odd /\ Phase(game')
  <2>1. ~odd /\ ~c.round.free /\ Phase(game) /\ game.state \notin Playing
    BY <1>2, <1>5 DEF Inv, Calm, OneAtATime, Playing
  <2> QED BY <1>1, <1>2, <2>1, TakePhase
<1>6. odd' \in BOOLEAN /\ deeds' \in 0..MaxDeeds /\ trouble' \in BOOLEAN
  BY <1>2 DEF PlayComes, Inv, CountersFit
<1>7. UNCHANGED <<mes, presses>>
  BY DEF PlayComes
<1> QED BY <1>2, <1>3, <1>4, <1>5, <1>6, <1>7, CallEnds

\* Giving up changes nothing that is shown.
LEMMA GiveUpPhase == ASSUME Inv, ~odd PROVE Phase(GiveUp(game))
BY GiveUpKeeps DEF Inv, Calm, Phase

LEMMA PlayRefusedKeeps == ASSUME Inv, NEW c \in plays, PlayRefused(c) PROVE Inv'
<1>1. Good(game') /\ (~odd => Phase(game'))
  BY GiveUpKeeps, GiveUpPhase DEF PlayRefused, Inv
<1>2. ServerFits' /\ deeds' \in 0..MaxDeeds /\ odd' \in BOOLEAN /\ trouble' \in BOOLEAN
  BY DEF PlayRefused, Inv, ServerFits, CountersFit
<1>3. plays' = plays \ {c} /\ UNCHANGED <<mes, presses, odd>>
  BY DEF PlayRefused
<1> QED BY <1>1, <1>2, <1>3, CallEnds

LEMMA PlayFailsKeeps == ASSUME Inv, NEW c \in plays, PlayFails(c) PROVE Inv'
<1>1. deeds' \in 0..MaxDeeds
  BY MiniAppAssumption DEF PlayFails, Inv, CountersFit
<1>2. UNCHANGED <<mes, presses, odd>> /\ odd' \in BOOLEAN
  BY DEF PlayFails, Inv, CountersFit
<1>3. CASE /\ c.try = 1 /\ UNCHANGED <<game, server, trouble>>
           /\ plays' = (plays \ {c}) \cup
                       {[c EXCEPT !.try = 2, !.stage = "asked", !.round = NoRound]}
  <2> DEFINE d == [c EXCEPT !.try = 2, !.stage = "asked", !.round = NoRound]
  <2>1. c \in Calls
    BY DEF Inv, CallsFit
  <2>2. d \in Calls /\ d.stage = "asked"
    <3>1. ASSUME NEW t \in 1..2, NEW none \in Round \cup {NoRound}
          PROVE  [c EXCEPT !.try = t, !.stage = "asked", !.round = none] \in Calls
      BY <2>1 DEF Calls
    <3>2. d.stage = "asked"
      BY <2>1 DEF Calls
    <3>3. 2 \in 1..2 /\ NoRound \in Round \cup {NoRound}
      OBVIOUS
    <3> QED BY <3>1, <3>2, <3>3, Zenon
  <2>3. ServerFits' /\ trouble' \in BOOLEAN
    BY <1>3 DEF Inv, ServerFits, CountersFit
  <2> QED BY <1>1, <1>2, <1>3, <2>2, <2>3, AnswerKeeps
<1>4. CASE /\ plays' = plays \ {c} /\ game' = GiveUp(game)
           /\ Sweep(c.key) /\ trouble' = TRUE
  <2>1. Good(game') /\ (~odd => Phase(game'))
    BY <1>4, GiveUpKeeps, GiveUpPhase DEF Inv
  <2> QED BY <1>1, <1>2, <1>4, <2>1, SweepFits, CallEnds
<1> QED BY <1>3, <1>4 DEF PlayFails

\* A reading is over.
LEMMA ReadingEnds ==
  ASSUME Inv, NEW m \in mes, mes' = mes \ {m}, Good(game'),
         UNCHANGED <<plays, server, presses, odd>>,
         deeds' \in 0..MaxDeeds, trouble' \in BOOLEAN,
         ~odd => /\ Phase(game')
                 /\ plays # {} => game'.state = "IDLE" /\ game'.busy
                 /\ \A n \in mes \ {m} : n.id # 0
                 \/ game' = game
  PROVE  Inv'
<1>1. CallsFit' /\ ReadingsFit' /\ ServerFits' /\ CountersFit'
  BY DEF Inv, CallsFit, ReadingsFit, ServerFits, CountersFit
<1>2. Calm'
  BY DEF Inv, Calm, OneAtATime
<1> QED BY <1>1, <1>2 DEF Inv

\* A stroke of the state between rounds.
LEMMA StillKeeps ==
  ASSUME NEW p \in Games, RunFits(p), NEW q, NEW s \in {"IDLE", "ERROR"}, NEW b \in Nat,
         q = [p EXCEPT !.balance = b, !.state = s]
  PROVE  /\ Good(q) /\ q.state = s /\ q.busy = p.busy
         /\ p.timer = "none" /\ p.reel = "off" => Phase(q)
<1>1. /\ q.state = s /\ q.timer = p.timer /\ q.reel = p.reel /\ q.busy = p.busy
      /\ q.run = p.run /\ q.round = p.round
  BY DEF Games
<1>2. q \in Games
  BY DEF Games, States
<1> QED BY <1>1, <1>2 DEF Good, RunFits, Driven, Phase, Playing

LEMMA MeComesKeeps == ASSUME Inv, NEW m \in mes, MeComes(m) PROVE Inv'
<1>1. /\ mes' = mes \ {m} /\ UNCHANGED <<plays, server, presses, odd>>
      /\ deeds' \in 0..MaxDeeds /\ trouble' \in BOOLEAN
  BY DEF MeComes, Inv, CountersFit
<1>2. m.balance \in Nat /\ game \in Games /\ Good(game) /\ RunFits(game)
  BY DEF Inv, ReadingsFit, Good
<1>3. ~odd => OneAtATime /\ Phase(game)
  BY DEF Inv, Calm
<1>4. CASE m.id # 0
  <2>1. game' = Shows(game, m)
    BY <1>4 DEF MeComes, FirstLook, Me
  <2>2. CASE game.state \in {"IDLE", "RESULT", "ERROR"}
    <3>1. game' = [game EXCEPT !.balance = m.balance,
                               !.state = IF @ = "ERROR" THEN "IDLE" ELSE @]
      BY <2>1, <2>2 DEF Shows
    <3>2. /\ game'.state = (IF game.state = "ERROR" THEN "IDLE" ELSE game.state)
          /\ game'.timer = game.timer /\ game'.reel = game.reel /\ game'.busy = game.busy
      BY <1>2, <3>1 DEF Games
    <3>3. Good(game')
      BY <1>2, <2>1, ShowsKeeps
    <3>4. ASSUME ~odd
          PROVE  /\ Phase(game')
                 /\ plays # {} => game'.state = "IDLE" /\ game'.busy
                 /\ \A n \in mes \ {m} : n.id # 0
      BY <1>3, <2>2, <3>2, <3>4 DEF Phase, OneAtATime, Playing
    <3> QED BY <1>1, <3>3, <3>4, ReadingEnds
  <2>3. CASE game.state \notin {"IDLE", "RESULT", "ERROR"}
    <3>1. game' = game
      BY <2>1, <2>3 DEF Shows
    <3> QED BY <1>1, <1>2, <3>1, ReadingEnds
  <2> QED BY <2>2, <2>3
<1>5. CASE m.id = 0
  <2>1. CASE m.id # FirstLook.id
    BY <1>5, <2>1 DEF FirstLook, Me
  <2>2. CASE game' = [game EXCEPT !.balance = m.balance, !.state = "IDLE"]
    <3>1. /\ Good(game') /\ game'.state = "IDLE"
          /\ game.timer = "none" /\ game.reel = "off" => Phase(game')
      BY <1>2, <2>2, StillKeeps
    <3>2. ASSUME ~odd
          PROVE  /\ Phase(game')
                 /\ plays # {} => game'.state = "IDLE" /\ game'.busy
                 /\ \A n \in mes \ {m} : n.id # 0
      <4>1. game.state = "LOADING" /\ plays = {}
        BY <1>3, <1>5, <3>2 DEF OneAtATime
      <4>2. game.timer = "none" /\ game.reel = "off"
        BY <1>3, <3>2, <4>1 DEF Phase, Playing
      <4> QED BY <1>3, <1>5, <3>1, <3>2, <4>1, <4>2 DEF OneAtATime
    <3> QED BY <1>1, <3>1, <3>2, ReadingEnds
  <2> QED BY <2>1, <2>2 DEF MeComes
<1> QED BY <1>4, <1>5

LEMMA MeFailsKeeps == ASSUME Inv, NEW m \in mes, MeFails(m) PROVE Inv'
<1>1. deeds' \in 0..MaxDeeds
  <2>1. MaxDeeds \in Nat /\ deeds \in 0..MaxDeeds /\ deeds < MaxDeeds /\ deeds' = deeds + 1
    BY MiniAppAssumption DEF Inv, CountersFit, MeFails
  <2> QED BY <2>1
<1>2. mes' = mes \ {m} /\ UNCHANGED <<plays, server, presses, odd>> /\ trouble' \in BOOLEAN
  BY DEF MeFails, Inv, CountersFit
<1>3. game \in Games /\ Good(game) /\ RunFits(game) /\ game.balance \in Nat
  BY DEF Inv, Good, Games
<1>4. CASE m.id # 0
  <2>1. game' = game
    BY <1>4 DEF MeFails, FirstLook, Me
  <2> QED BY <1>1, <1>2, <1>3, <2>1, ReadingEnds
<1>5. CASE m.id = 0
  <2>1. game' = [game EXCEPT !.state = "ERROR"]
    BY <1>5 DEF MeFails, FirstLook, Me
  <2>2. game' = [game EXCEPT !.balance = game.balance, !.state = "ERROR"]
    BY <1>3, <2>1 DEF Games
  <2>3. Good(game') /\ (game.timer = "none" /\ game.reel = "off" => Phase(game'))
    BY <1>3, <2>2, StillKeeps
  <2>4. ASSUME ~odd
        PROVE  /\ Phase(game')
               /\ plays # {} => game'.state = "IDLE" /\ game'.busy
               /\ \A n \in mes \ {m} : n.id # 0
    <3>1. OneAtATime /\ Phase(game)
      BY <2>4 DEF Inv, Calm
    <3>2. game.state = "LOADING" /\ plays = {}
      BY <1>5, <3>1 DEF OneAtATime
    <3>3. game.timer = "none" /\ game.reel = "off"
      BY <3>1, <3>2 DEF Phase, Playing
    <3> QED BY <1>5, <2>3, <3>1, <3>2, <3>3 DEF OneAtATime
  <2> QED BY <1>1, <1>2, <2>3, <2>4, ReadingEnds
<1> QED BY <1>4, <1>5

(* The frames. *)
\* Nothing is asked for while a game is on its way or a result is shown.
LEMMA NoneAsked ==
  ASSUME Inv, ~odd, game.state \in Playing \cup {"RESULT"}
  PROVE  plays = {} /\ \A m \in mes : m.id # 0
BY DEF Inv, Calm, OneAtATime, Playing

\* A frame that moves a game of its own.
LEMMA FrameKeeps ==
  ASSUME Inv, Good(game'), UNCHANGED <<plays, mes, server, presses, deeds>>,
         odd' \in BOOLEAN, trouble' \in BOOLEAN,
         ~odd' => ~odd /\ Phase(game') /\ game.state \in Playing \cup {"RESULT"}
  PROVE  Inv'
<1>1. deeds' \in 0..MaxDeeds
  BY DEF Inv, CountersFit
<1>2. ~odd' => plays = {} /\ \A m \in mes : m.id # 0
  BY NoneAsked
<1> QED BY <1>1, <1>2, GameKeeps

LEMMA TimerKeeps == ASSUME Inv, TimerFires PROVE Inv'
<1>1. /\ game.timer # "none" /\ UNCHANGED <<plays, mes, server, presses, deeds>>
      /\ odd' = (odd \/ Throws(game)) /\ trouble' = (trouble \/ Throws(game))
      /\ game \in Games /\ RunFits(game)
  BY DEF TimerFires, Inv, Good
<1>2. odd' \in BOOLEAN /\ trouble' \in BOOLEAN
  BY <1>1, Zenon DEF Inv, CountersFit, Throws
<1>3. CASE Throws(game)
  <2> DEFINE q == [game EXCEPT !.timer = "none",
                                !.bonusIntro = @ /\ game.timer # "intro"]
  <2>1. q \in Games /\ RunFits(q)
    BY <1>1 DEF Games, RunFits, Callbacks
  <2>2. game' = Recover(q)
    BY <1>3 DEF TimerFires
  <2> HIDE DEF q
  <2> QED BY <1>1, <1>2, <1>3, <2>1, <2>2, RecoverKeeps, FrameKeeps
<1>4. CASE ~Throws(game)
  <2>1. game' = Fire(game)
    BY <1>4 DEF TimerFires
  <2>2. Good(game')
    BY <1>1, <1>4, <2>1, FireKeeps
  <2>3. ASSUME ~odd' PROVE ~odd /\ Phase(game') /\ game.state \in Playing
    <3>1. ~odd /\ Phase(game)
      BY <1>1, <2>3 DEF Inv, Calm
    <3>2. game.state \in Playing
      BY <1>1, <3>1 DEF Phase
    <3> QED BY <1>1, <2>1, <3>1, <3>2, FirePhase
  <2> QED BY <1>1, <1>2, <2>2, <2>3, FrameKeeps
<1> QED BY <1>3, <1>4

LEMMA ReelKeeps == ASSUME Inv, ReelStops PROVE Inv'
<1>1. /\ game.reel # "off" /\ game' = ReelDone(game)
      /\ UNCHANGED <<plays, mes, server, presses, deeds, odd, trouble>>
      /\ game \in Games /\ RunFits(game)
  BY DEF ReelStops, Inv, Good
<1>2. odd' \in BOOLEAN /\ trouble' \in BOOLEAN
  BY <1>1 DEF Inv, CountersFit
<1>3. Good(game')
  BY <1>1, ReelDoneKeeps
<1>4. ASSUME ~odd PROVE Phase(game') /\ game.state \in Playing
  <2>1. Phase(game)
    BY <1>4 DEF Inv, Calm
  <2> QED BY <1>1, <2>1, ReelPhase DEF Phase
<1> QED BY <1>1, <1>2, <1>3, <1>4, FrameKeeps

LEMMA RunEndKeeps == ASSUME Inv, RunEnds PROVE Inv'
<1>1. /\ game.state = "RUNNING" /\ game' = RunOver(game)
      /\ UNCHANGED <<plays, mes, server, presses, deeds, odd, trouble>>
      /\ game \in Games /\ RunFits(game)
  BY DEF RunEnds, Inv, Good
<1>2. odd' \in BOOLEAN /\ trouble' \in BOOLEAN
  BY <1>1 DEF Inv, CountersFit
<1>3. Good(game')
  BY <1>1, RunOverKeeps
<1>4. ASSUME ~odd PROVE Phase(game')
  <2>1. Phase(game)
    BY <1>4 DEF Inv, Calm
  <2>2. /\ game'.state = "DROPDONE" /\ game'.timer = "finish" /\ game'.reel = game.reel
        /\ game'.round = game.round /\ game'.balance = game.balance
    BY <1>1 DEF Games, RunOver, Wait
  <2> QED BY <1>1, <2>1, <2>2 DEF Phase, Playing
<1> QED BY <1>1, <1>2, <1>3, <1>4, FrameKeeps DEF Playing

LEMMA FadeKeeps == ASSUME Inv, IntroFades PROVE Inv'
<1>1. /\ game' = [game EXCEPT !.bonusIntro = FALSE] /\ game \in Games
      /\ UNCHANGED <<plays, mes, server, presses, deeds, odd, trouble>>
  BY DEF IntroFades, Inv, Good
<1>2. /\ game'.state = game.state /\ game'.timer = game.timer /\ game'.reel = game.reel
      /\ game'.round = game.round /\ game'.balance = game.balance /\ game'.run = game.run
      /\ game'.busy = game.busy /\ game' \in Games
  BY <1>1 DEF Games
<1>3. Good(game') /\ (Phase(game) => Phase(game'))
  BY <1>2 DEF Inv, Good, RunFits, Driven, Phase
<1>4. deeds' \in 0..MaxDeeds /\ odd' \in BOOLEAN /\ trouble' \in BOOLEAN
  BY <1>1 DEF Inv, CountersFit
<1> QED BY <1>1, <1>2, <1>3, <1>4, GameKeeps DEF Inv, Calm, OneAtATime

LEMMA AgeKeeps == ASSUME Inv, ResultAges PROVE Inv'
<1>1. /\ game.state = "RESULT" /\ game' = [game EXCEPT !.resultT = game.resultT + 1]
      /\ game.resultT + 1 \in Ages /\ game \in Games
      /\ UNCHANGED <<plays, mes, server, presses, deeds, odd, trouble>>
  BY DEF ResultAges, Inv, Good
<1>2. /\ game'.state = game.state /\ game'.timer = game.timer /\ game'.reel = game.reel
      /\ game'.round = game.round /\ game'.balance = game.balance /\ game'.run = game.run
      /\ game'.busy = game.busy
  BY <1>1 DEF Games
<1>3. game' \in Games
  BY <1>1, NumbersFit, Zenon
<1>4. Good(game') /\ (Phase(game) => Phase(game'))
  BY <1>2, <1>3 DEF Inv, Good, RunFits, Driven, Phase
<1>5. odd' \in BOOLEAN /\ trouble' \in BOOLEAN
  BY <1>1 DEF Inv, CountersFit
<1> QED BY <1>1, <1>4, <1>5, FrameKeeps DEF Inv, Calm

LEMMA AutoNextKeeps == ASSUME Inv, AutoNext PROVE Inv'
<1> DEFINE closed == CloseResult(game)
           p == [closed EXCEPT !.autoplay = FALSE]
<1>1. game.state = "RESULT" /\ UNCHANGED <<mes, server, deeds, odd, trouble>>
  BY DEF AutoNext
<1>2. /\ Good(closed) /\ closed.state = "IDLE" /\ (~odd => Phase(closed))
      /\ (~odd => plays = {} /\ \A m \in mes : m.id # 0)
  BY <1>1, Closed, Standing
<1>3. trouble' \in BOOLEAN /\ odd' \in BOOLEAN /\ deeds' \in 0..MaxDeeds /\ FALSE \in BOOLEAN
  BY <1>1 DEF Inv, CountersFit
<1>4. CASE StartRound(closed, FALSE)
  BY <1>1, <1>2, <1>3, <1>4, StartKeeps
<1>5. CASE NotEnough(p)
  <2>1. /\ p.state = closed.state /\ p.timer = closed.timer /\ p.reel = closed.reel
        /\ p.round = closed.round /\ p.balance = closed.balance /\ p.run = closed.run
        /\ p \in Games
    BY <1>2 DEF Good, Games
  <2>2. Good(p) /\ (Phase(closed) => Phase(p))
    BY <1>2, <2>1 DEF Good, RunFits, Driven, Phase
  <2>3. game' = p /\ plays' = plays /\ presses' = presses
    BY <1>5 DEF NotEnough
  <2> QED BY <1>1, <1>2, <1>3, <2>1, <2>2, <2>3, GameKeeps
<1> QED BY <1>4, <1>5 DEF AutoNext

LEMMA FailsKeeps == ASSUME Inv, FrameFails PROVE Inv'
<1>1. deeds' \in 0..MaxDeeds
  <2>1. MaxDeeds \in Nat /\ deeds \in 0..MaxDeeds /\ deeds < MaxDeeds /\ deeds' = deeds + 1
    BY MiniAppAssumption DEF Inv, CountersFit, FrameFails
  <2> QED BY <2>1
<1>2. Good(game')
  BY RecoverKeeps DEF FrameFails, Inv, Good
<1> QED BY <1>1, <1>2, GameKeeps DEF FrameFails

LEMMA ReloadKeeps == ASSUME Inv, Reload PROVE Inv'
<1>1. deeds' \in 0..MaxDeeds
  <2>1. MaxDeeds \in Nat /\ deeds \in 0..MaxDeeds /\ deeds < MaxDeeds /\ deeds' = deeds + 1
    BY MiniAppAssumption DEF Inv, CountersFit, Reload
  <2> QED BY <2>1
<1>2. Good(game') /\ game'.state = "LOADING" /\ Phase(game')
  BY LoadingIsGood DEF Reload, Loading, Phase, Playing
<1>3. CallsFit'
  BY DEF Reload, CallsFit
<1>4. ReadingsFit'
  BY MiniAppAssumption DEF Reload, ReadingsFit, FirstLook, Me
<1>5. ServerFits'
  BY DEF Reload, Inv, ServerFits
<1>6. CountersFit'
  BY <1>1 DEF Reload, Inv, CountersFit
<1>7. Calm'
  BY <1>2 DEF Reload, Calm, OneAtATime
<1> QED BY <1>2, <1>3, <1>4, <1>5, <1>6, <1>7 DEF Inv

LEMMA StutterKeeps == ASSUME Inv, UNCHANGED vars PROVE Inv'
BY DEF Inv, vars, CallsFit, ReadingsFit, ServerFits, CountersFit, Calm, OneAtATime

LEMMA InvNext == Inv /\ [Next]_vars => Inv'
<1> SUFFICES ASSUME Inv, [Next]_vars PROVE Inv'
  OBVIOUS
<1>1. CASE Primary \/ BuyBonus \/ Tap \/ ToggleAutoplay \/ RefreshPlayer \/ MoneyMoves
  BY <1>1, PrimaryKeeps, BuyBonusKeeps, TapKeeps, ToggleKeeps, RefreshKeeps, MoneyKeeps
<1>2. CASE \E c \in plays : ServePlay(c) \/ PlayComes(c) \/ PlayRefused(c) \/ PlayFails(c)
  BY <1>2, ServePlayKeeps, PlayComesKeeps, PlayRefusedKeeps, PlayFailsKeeps
<1>3. CASE \E m \in mes : ServeMe(m) \/ MeComes(m) \/ MeFails(m)
  BY <1>3, ServeMeKeeps, MeComesKeeps, MeFailsKeeps
<1>4. CASE Frame
  BY <1>4, TimerKeeps, ReelKeeps, RunEndKeeps, FadeKeeps, AgeKeeps, AutoNextKeeps DEF Frame
<1>5. CASE FrameFails \/ Reload
  BY <1>5, FailsKeeps, ReloadKeeps
<1>6. CASE UNCHANGED vars
  BY <1>6, StutterKeeps
<1> QED BY <1>1, <1>2, <1>3, <1>4, <1>5, <1>6 DEF Next

LEMMA InvAlways == Spec => []Inv
<1>1. Init => Inv
  BY InvInit
<1>2. Inv /\ [Next]_vars => Inv'
  BY InvNext
<1> QED BY <1>1, <1>2, PTL DEF Spec

(***************************************************************************)
(* What a reader should know.                                              *)
(***************************************************************************)
(* The presenter's fields, its calls and the account of the server are of  *)
(* their types (presenter.ts, all fields that a guard reads).              *)
THEOREM GameTyped == Spec => []TypeOK
<1>1. Inv => TypeOK
  BY DEF Inv, Good, Games, CallsFit, Calls, ReadingsFit, ServerFits, CountersFit, TypeOK
<1> QED BY <1>1, InvAlways, PTL

(* The one slot for a callback is enough: wherever a second wait() takes   *)
(* it from the first, the game still has something that moves it.          *)
THEOREM AlwaysDriven == Spec => []RoundIsDriven
<1>1. Inv => RoundIsDriven
  BY DEF Inv, Good, Driven, RoundIsDriven
<1> QED BY <1>1, InvAlways, PTL

(* The run on the screen belongs to the round it is compared with, in      *)
(* whatever order presses, answers and animations come.                    *)
THEOREM RunIsItsRounds == Spec => []RunIsOfTheRound
<1>1. Inv => RunIsOfTheRound
  BY DEF Inv, Good, RunFits, RunIsOfTheRound
<1> QED BY <1>1, InvAlways, PTL

(* While a round is played the screen shows the balance without its stake, *)
(* as long as no bonus was introduced and no frame failed.                 *)
THEOREM StakeIsOff == Spec => []ShownWhilePlaying
<1>1. Inv => ShownWhilePlaying
  BY DEF Inv, Calm, Phase, ShownWhilePlaying
<1> QED BY <1>1, InvAlways, PTL

-----------------------------------------------------------------------------
(* The windows.                                                            *)

(* Where the j-th of those that are left was before the i-th was removed.  *)
Skip(i, j) == IF j < i THEN j ELSE j + 1

(* Calls, and those that were just made.                                   *)
Words == {"load", "reload", "check", "create", "cancel", "me"}
Infos == [seen : BOOLEAN, active : Requests \cup {None}, paid : BOOLEAN]
Asked == [what : Words, id : Requests \cup {None}, of : Nat, served : BOOLEAN, ok : BOOLEAN,
          info : Infos, money : SUBSET Requests]
Fresh == {c \in Asked : ~c.served /\ ~c.ok /\ c.money = {}}
Reads == {c \in Fresh : c.what \in {"me", "check"} /\ c.of = 0}

CallsTyped ==
  /\ calls \in Seq(Asked)
  /\ \A i \in DOMAIN calls :
       calls[i].money \subseteq DOMAIN status /\ (calls[i].ok => calls[i].served)

(* There is an id left for each request that waits to be created.          *)
Unserved == {i \in DOMAIN calls : calls[i].what = "create" /\ ~calls[i].served}
Enough == Cardinality(DOMAIN status) + Cardinality(Unserved) <= Cardinality(Requests)

WindowTyped == WindowTypeOK /\ CallsTyped /\ Enough

LEMMA CallsAreListed ==
  ASSUME CallsTyped
  PROVE  /\ Len(calls) \in Nat /\ DOMAIN calls = 1..Len(calls)
         /\ \A i \in DOMAIN calls : calls[i] \in Asked
BY LenProperties, ElementOfSeq DEF CallsTyped

LEMMA NoneIsNoRequest == None \notin Requests
BY WindowAssumption DEF None

LEMMA CallIsFresh ==
  ASSUME NEW what \in Words, NEW id \in Requests \cup {None}, NEW n \in Nat
  PROVE  /\ Call(what, id, n) \in Fresh
         /\ Call(what, id, n).what = what /\ Call(what, id, n).of = n
BY DEF Call, Fresh, Asked, Infos, Blank

LEMMA OneCall ==
  ASSUME NEW S, NEW c \in S
  PROVE  /\ <<c>> \in Seq(S) /\ Len(<<c>>) = 1 /\ <<c>>[1] = c
         /\ \A k \in 1..1 : <<c>>[k] = c
         /\ \A s \in Seq(S) : Append(s, c) = s \o <<c>>
<1>1. <<c>> \in Seq(S) /\ Len(<<c>>) = 1 /\ <<c>>[1] = c OBVIOUS
<1>2. ASSUME NEW s \in Seq(S) PROVE Append(s, c) = s \o <<c>>
  <2>1. /\ s \o <<c>> \in Seq(S) /\ Len(s \o <<c>>) = Len(s) + 1
        /\ \A k \in 1..(Len(s) + 1) :
             (s \o <<c>>)[k] = IF k <= Len(s) THEN s[k] ELSE <<c>>[k - Len(s)]
    BY <1>1, ConcatProperties
  <2>2. Append(s, c) \in Seq(S) /\ Len(Append(s, c)) = Len(s) + 1 OBVIOUS
  <2>3. ASSUME NEW k \in 1..(Len(s) + 1) PROVE Append(s, c)[k] = (s \o <<c>>)[k]
    <3>1. Len(s) \in Nat BY LenProperties
    <3>2. CASE k <= Len(s) BY <2>1, <3>1, <3>2
    <3>3. CASE k = Len(s) + 1
      <4>1. <<c>>[k - Len(s)] = c BY <3>1, <3>3
      <4>2. Append(s, c)[k] = c BY <3>3
      <4>3. QED BY <2>1, <3>1, <3>3, <4>1, <4>2
    <3>4. QED BY <3>1, <3>2, <3>3
  <2>4. QED BY <2>1, <2>2, <2>3, SeqEqual
<1>3. QED BY <1>1, <1>2

LEMMA ReadsAreFresh ==
  /\ \A s \in Seq(Reads) : s \in Seq(Fresh)
  /\ \A s \in Seq(Fresh) : s \in Seq(Asked)
  /\ Fresh \subseteq Asked
<1>1. Reads \subseteq Fresh /\ Fresh \subseteq Asked BY DEF Reads, Fresh
<1>2. QED BY <1>1, SeqMonotonic

(* What the game asks for when it is told.                                 *)
LEMMA TellIsRead ==
  /\ CheckDeposit \in Seq(Reads) /\ Tell \in Seq(Reads)
  /\ 1 \in 1..Len(Tell) /\ Tell[1].what = "me"
  /\ kind = "deposit" => CheckDeposit = <<Call("check", None, 0)>>
<1> DEFINE me == Call("me", None, 0)
           check == Call("check", None, 0)
<1>1. me \in Reads /\ check \in Reads /\ me.what = "me"
  BY CallIsFresh DEF Reads, Words
<1> HIDE DEF me, check
<1>2. /\ <<me>> \in Seq(Reads) /\ Len(<<me>>) = 1 /\ <<me>>[1] = me
      /\ <<check>> \in Seq(Reads)
  BY <1>1, OneCall
<1>3. CheckDeposit \in Seq(Reads) BY <1>2, EmptySeq DEF CheckDeposit, check
<1>4. /\ Tell \in Seq(Reads) /\ Len(Tell) = 1 + Len(CheckDeposit)
      /\ Tell[1] = <<me>>[1]
  <2>1. Len(CheckDeposit) \in Nat BY <1>3, LenProperties
  <2>2. Tell = <<me>> \o CheckDeposit BY DEF Tell, me
  <2>3. QED BY <1>2, <1>3, <2>1, <2>2, ConcatProperties
<1>5. Len(CheckDeposit) \in Nat BY <1>3, LenProperties
<1>6. QED BY <1>1, <1>2, <1>3, <1>4, <1>5 DEF CheckDeposit, check

(* What the list is after calls were made.                                 *)
LEMMA AskFacts ==
  ASSUME CallsTyped, NEW more \in Seq(Fresh), calls' = calls \o more
  PROVE  /\ calls' \in Seq(Asked) /\ Len(more) \in Nat
         /\ Len(calls') = Len(calls) + Len(more)
         /\ DOMAIN calls' = 1..(Len(calls) + Len(more))
         /\ \A j \in DOMAIN calls : j \in DOMAIN calls' /\ calls'[j] = calls[j]
         /\ \A j \in DOMAIN calls' : j \notin DOMAIN calls =>
              /\ j > Len(calls) /\ calls'[j] \in Fresh
              /\ j - Len(calls) \in 1..Len(more) /\ calls'[j] = more[j - Len(calls)]
         /\ \A k \in 1..Len(more) :
              Len(calls) + k \in DOMAIN calls' /\ calls'[Len(calls) + k] = more[k]
<1> DEFINE n == Len(calls)
           m == Len(more)
<1>1. n \in Nat /\ DOMAIN calls = 1..n BY CallsAreListed
<1>2. m \in Nat /\ \A k \in 1..m : more[k] \in Fresh BY LenProperties, ElementOfSeq
<1>3. calls \in Seq(Asked) /\ more \in Seq(Asked) BY ReadsAreFresh DEF CallsTyped
<1>4. /\ calls' \in Seq(Asked) /\ Len(calls') = n + m
      /\ \A j \in 1..(n + m) : calls'[j] = IF j <= n THEN calls[j] ELSE more[j - n]
  BY <1>3, ConcatProperties
<1>5. DOMAIN calls' = 1..(n + m) BY <1>4, LenProperties
<1> HIDE DEF n, m
<1>6. ASSUME NEW j \in 1..n PROVE j \in 1..(n + m) /\ calls'[j] = calls[j]
  BY <1>1, <1>2, <1>4
<1>7. ASSUME NEW j \in 1..(n + m), j \notin 1..n
      PROVE  j > n /\ calls'[j] \in Fresh /\ j - n \in 1..m /\ calls'[j] = more[j - n]
  BY <1>1, <1>2, <1>4, <1>7
<1>8. ASSUME NEW k \in 1..m PROVE n + k \in 1..(n + m) /\ calls'[n + k] = more[k]
  <2> DEFINE j == n + k
  <2>1. j \in 1..(n + m) /\ ~(j <= n) /\ j - n = k BY <1>1, <1>2
  <2> HIDE DEF j
  <2>2. calls'[j] = more[k] BY <1>4, <2>1
  <2>3. QED BY <2>1, <2>2 DEF j
<1>9. QED BY <1>1, <1>2, <1>4, <1>5, <1>6, <1>7, <1>8 DEF n, m

(* What it is after a call was answered or lost.                           *)
LEMMA EndFacts ==
  ASSUME CallsTyped, NEW i \in DOMAIN calls, NEW more \in Seq(Fresh),
         calls' = RemoveAt(calls, i) \o more
  PROVE  LET n == Len(calls) IN
         /\ calls' \in Seq(Asked) /\ Len(more) \in Nat
         /\ Len(calls') = n - 1 + Len(more) /\ DOMAIN calls' = 1..(n - 1 + Len(more))
         /\ \A j \in 1..(n - 1) :
              /\ j \in DOMAIN calls' /\ Skip(i, j) \in DOMAIN calls \ {i}
              /\ calls'[j] = calls[Skip(i, j)]
         /\ \A j \in DOMAIN calls' : j \notin 1..(n - 1) =>
              /\ j > n - 1 /\ calls'[j] \in Fresh
              /\ j - (n - 1) \in 1..Len(more) /\ calls'[j] = more[j - (n - 1)]
         /\ \A k \in 1..Len(more) :
              n - 1 + k \in DOMAIN calls' /\ calls'[n - 1 + k] = more[k]
<1> DEFINE n == Len(calls)
           m == Len(more)
           left == SubSeq(calls, 1, i - 1)
           right == SubSeq(calls, i + 1, n)
           rest == left \o right
<1>1. /\ n \in Nat /\ DOMAIN calls = 1..n /\ i \in 1..n
      /\ \A j \in 1..n : calls[j] \in Asked
  BY CallsAreListed
<1>2. m \in Nat /\ \A k \in 1..m : more[k] \in Fresh BY LenProperties, ElementOfSeq
<1>3. calls \in Seq(Asked) /\ more \in Seq(Asked) BY ReadsAreFresh DEF CallsTyped
<1> HIDE DEF n
<1>4. /\ left \in Seq(Asked) /\ Len(left) = i - 1
      /\ \A j \in 1..(i - 1) : left[j] = calls[j]
  <2>1. \A j \in 1..(i - 1) : calls[j] \in Asked BY <1>1
  <2>2. /\ left \in Seq(Asked) /\ Len(left) = IF 1 <= i - 1 THEN (i - 1) - 1 + 1 ELSE 0
        /\ \A j \in 1..((i - 1) - 1 + 1) : left[j] = calls[1 + j - 1]
    BY <1>1, <2>1, SubSeqProperties
  <2>3. QED BY <1>1, <2>2
<1>5. /\ right \in Seq(Asked) /\ Len(right) = n - i
      /\ \A j \in 1..(n - i) : right[j] = calls[i + j]
  <2>1. \A j \in (i + 1)..n : calls[j] \in Asked BY <1>1
  <2>2. /\ right \in Seq(Asked) /\ Len(right) = IF i + 1 <= n THEN n - (i + 1) + 1 ELSE 0
        /\ \A j \in 1..(n - (i + 1) + 1) : right[j] = calls[(i + 1) + j - 1]
    BY <1>1, <2>1, SubSeqProperties
  <2>3. QED BY <1>1, <2>2
<1> HIDE DEF left, right, m
<1>6. /\ rest \in Seq(Asked) /\ Len(rest) = n - 1
      /\ \A j \in 1..(n - 1) : rest[j] = IF j <= i - 1 THEN left[j] ELSE right[j - (i - 1)]
  <2>1. /\ rest \in Seq(Asked) /\ Len(rest) = Len(left) + Len(right)
        /\ \A j \in 1..(Len(left) + Len(right)) :
             rest[j] = IF j <= Len(left) THEN left[j] ELSE right[j - Len(left)]
    BY <1>4, <1>5, ConcatProperties
  <2>2. Len(left) = i - 1 /\ Len(left) + Len(right) = n - 1 BY <1>1, <1>4, <1>5
  <2>3. QED BY <2>1, <2>2
<1>7. calls' = rest \o more BY DEF RemoveAt, left, right, n
<1> HIDE DEF rest
<1>8. /\ calls' \in Seq(Asked) /\ Len(calls') = n - 1 + m
      /\ \A j \in 1..(n - 1 + m) : calls'[j] = IF j <= n - 1 THEN rest[j] ELSE more[j - (n - 1)]
  <2> DEFINE t == rest \o more
  <2>1. /\ t \in Seq(Asked) /\ Len(t) = Len(rest) + Len(more)
        /\ \A j \in 1..(Len(rest) + Len(more)) :
             t[j] = IF j <= Len(rest) THEN rest[j] ELSE more[j - Len(rest)]
    BY <1>3, <1>6, ConcatProperties
  <2> HIDE DEF t
  <2>2. calls' = t BY <1>7 DEF t
  <2>3. QED BY <1>6, <2>1, <2>2 DEF m
<1>9. DOMAIN calls' = 1..(n - 1 + m) BY <1>8, LenProperties
<1>10. ASSUME NEW j \in 1..(n - 1)
       PROVE  /\ j \in 1..(n - 1 + m) /\ Skip(i, j) \in (1..n) \ {i}
              /\ calls'[j] = calls[Skip(i, j)]
  <2>1. calls'[j] = rest[j] /\ j \in 1..(n - 1 + m) BY <1>1, <1>2, <1>8
  <2>2. CASE j < i BY <1>1, <1>4, <1>6, <2>1, <2>2 DEF Skip
  <2>3. CASE ~ (j < i)
    <3>1. j - (i - 1) \in 1..(n - i) /\ i + (j - (i - 1)) = j + 1 /\ ~(j <= i - 1) BY <1>1, <2>3
    <3>2. calls'[j] = calls[j + 1] BY <1>5, <1>6, <2>1, <3>1
    <3>3. QED BY <1>1, <2>1, <2>3, <3>2 DEF Skip
  <2>4. QED BY <2>2, <2>3
<1>11. ASSUME NEW j \in 1..(n - 1 + m), j \notin 1..(n - 1)
       PROVE  /\ j > n - 1 /\ calls'[j] \in Fresh
              /\ j - (n - 1) \in 1..m /\ calls'[j] = more[j - (n - 1)]
  <2> DEFINE k == j - (n - 1)
  <2>1. j > n - 1 /\ k \in 1..m /\ ~(j <= n - 1) BY <1>1, <1>2, <1>11
  <2>2. calls'[j] = more[k] BY <1>8, <2>1
  <2> HIDE DEF k
  <2>3. QED BY <1>2, <2>1, <2>2 DEF k
<1>12. ASSUME NEW k \in 1..m PROVE n - 1 + k \in 1..(n - 1 + m) /\ calls'[n - 1 + k] = more[k]
  <2> DEFINE j == n - 1 + k
  <2>1. j \in 1..(n - 1 + m) /\ ~(j <= n - 1) /\ j - (n - 1) = k BY <1>1, <1>2
  <2> HIDE DEF j
  <2>2. calls'[j] = more[k] BY <1>8, <2>1
  <2>3. QED BY <2>1, <2>2 DEF j
<1>13. QED BY <1>1, <1>2, <1>8, <1>9, <1>10, <1>11, <1>12 DEF n, m

(* The types of the list, and the room for requests.                       *)
LEMMA AskTyped ==
  ASSUME CallsTyped, NEW more \in Seq(Fresh), calls' = calls \o more,
         status' = status
  PROVE  CallsTyped'
<1>1. ASSUME NEW j \in DOMAIN calls'
      PROVE  calls'[j].money \subseteq DOMAIN status /\ (calls'[j].ok => calls'[j].served)
  <2>1. CASE j \in DOMAIN calls
    <3>1. calls'[j] = calls[j] BY <2>1, AskFacts
    <3>2. QED BY <2>1, <3>1 DEF CallsTyped
  <2>2. CASE j \notin DOMAIN calls
    <3>1. calls'[j] \in Fresh BY <2>2, AskFacts
    <3>2. QED BY <3>1 DEF Fresh
  <2>3. QED BY <2>1, <2>2
<1>2. calls' \in Seq(Asked) BY AskFacts
<1>3. QED BY <1>1, <1>2 DEF CallsTyped

LEMMA EndTyped ==
  ASSUME CallsTyped, NEW i \in DOMAIN calls, NEW more \in Seq(Fresh),
         calls' = RemoveAt(calls, i) \o more, status' = status
  PROVE  CallsTyped'
<1>1. ASSUME NEW j \in DOMAIN calls'
      PROVE  calls'[j].money \subseteq DOMAIN status /\ (calls'[j].ok => calls'[j].served)
  <2>1. CASE j \in 1..(Len(calls) - 1)
    <3>1. Skip(i, j) \in DOMAIN calls /\ calls'[j] = calls[Skip(i, j)] BY <2>1, EndFacts
    <3>2. QED BY <3>1 DEF CallsTyped
  <2>2. CASE j \notin 1..(Len(calls) - 1)
    <3>1. calls'[j] \in Fresh BY <2>2, EndFacts
    <3>2. QED BY <3>1 DEF Fresh
  <2>3. QED BY <2>1, <2>2
<1>2. calls' \in Seq(Asked) BY EndFacts
<1>3. QED BY <1>1, <1>2 DEF CallsTyped

(* What the list is after a call was served.                               *)
LEMMA OneChanges ==
  ASSUME CallsTyped, NEW i \in DOMAIN calls, NEW new \in Asked, calls' = [calls EXCEPT ![i] = new]
  PROVE  /\ calls' \in Seq(Asked) /\ Len(calls') = Len(calls) /\ DOMAIN calls' = DOMAIN calls
         /\ calls'[i] = new
         /\ \A j \in DOMAIN calls : j # i => calls'[j] = calls[j]
<1>1. Len(calls) \in Nat /\ DOMAIN calls = 1..Len(calls) /\ calls \in Seq(Asked)
  BY CallsAreListed DEF CallsTyped
<1> DEFINE t == [calls EXCEPT ![i] = new]
<1>2. /\ t \in Seq(Asked) /\ Len(t) = Len(calls)
      /\ \A j \in 1..Len(calls) : t[j] = IF j = i THEN new ELSE calls[j]
  BY <1>1, ExceptSeq
<1>3. DOMAIN t = DOMAIN calls BY <1>1
<1> HIDE DEF t
<1>4. QED BY <1>1, <1>2, <1>3 DEF t

Verdicts == {"pending", "processing", "approved", "rejected", "expired", "canceled"}

LEMMA SweptFits ==
  ASSUME WindowTypeOK
  PROVE  /\ DOMAIN Swept = DOMAIN status /\ Swept \in [DOMAIN status -> Verdicts]
         /\ activeFor \subseteq DOMAIN status /\ DOMAIN status \subseteq Requests
         /\ Money \subseteq DOMAIN status /\ Picture \in Infos
<1>1. /\ DOMAIN Swept = DOMAIN status /\ Swept \in [DOMAIN status -> Verdicts]
      /\ DOMAIN status \subseteq Requests
  BY DEF WindowTypeOK, Swept, Verdicts
<1>2. activeFor \subseteq DOMAIN status /\ Money \subseteq DOMAIN status
  BY DEF activeFor, Money
<1>3. Picture \in Infos
  <2>1. CASE activeFor = {} BY <2>1 DEF Picture, Blank, Infos
  <2>2. CASE activeFor # {}
    <3> DEFINE r == CHOOSE x \in activeFor : TRUE
    <3>1. r \in activeFor BY <2>2
    <3>2. Picture = [seen |-> TRUE, active |-> r, paid |-> status[r] = "processing"]
      BY <2>2 DEF Picture
    <3> HIDE DEF r
    <3>3. QED BY <1>1, <1>2, <3>1, <3>2 DEF Infos
  <2>3. QED BY <2>1, <2>2
<1>4. QED BY <1>1, <1>2, <1>3

(* The call that was served, by what it was.                               *)
LEMMA LookServed ==
  ASSUME WindowTypeOK, CallsTyped, NEW i \in DOMAIN calls, ServeLook(i)
  PROVE  \E new \in Asked :
           /\ calls' = [calls EXCEPT ![i] = new]
           /\ new = [calls[i] EXCEPT !.served = TRUE, !.info = Picture]
<1>1. calls[i] \in Asked /\ Picture \in Infos BY CallsAreListed, SweptFits
<1> DEFINE new == [calls[i] EXCEPT !.served = TRUE, !.info = Picture]
<1>2. new \in Asked BY <1>1 DEF Asked
<1>3. calls' = [calls EXCEPT ![i] = new] BY DEF ServeLook
<1>4. QED BY <1>2, <1>3

LEMMA BalanceServed ==
  ASSUME WindowTypeOK, CallsTyped, NEW i \in DOMAIN calls, ServeBalance(i)
  PROVE  \E new \in Asked :
           /\ calls' = [calls EXCEPT ![i] = new]
           /\ new = [calls[i] EXCEPT !.served = TRUE, !.money = Money]
<1>1. calls[i] \in Asked /\ Money \subseteq Requests BY CallsAreListed, SweptFits
<1> DEFINE new == [calls[i] EXCEPT !.served = TRUE, !.money = Money]
<1>2. new \in Asked BY <1>1 DEF Asked
<1>3. calls' = [calls EXCEPT ![i] = new] BY DEF ServeBalance
<1>4. QED BY <1>2, <1>3

LEMMA CancelServed ==
  ASSUME WindowTypeOK, CallsTyped, NEW i \in DOMAIN calls, ServeCancel(i)
  PROVE  \E new \in Asked :
           /\ calls' = [calls EXCEPT ![i] = new]
           /\ new = [calls[i] EXCEPT !.served = TRUE, !.ok = Swept[calls[i].id] = "pending"]
<1>1. calls[i] \in Asked BY CallsAreListed
<1> DEFINE new == [calls[i] EXCEPT !.served = TRUE, !.ok = Swept[calls[i].id] = "pending"]
<1>2. new \in Asked BY <1>1 DEF Asked
<1>3. calls' = [calls EXCEPT ![i] = new] BY DEF ServeCancel
<1>4. QED BY <1>2, <1>3

Refused == activeFor # {} \/ (kind = "withdraw" /\ Cardinality(Money) >= Funds)
NewId == CHOOSE x \in Requests \ DOMAIN status : TRUE

LEMMA RefusalServed ==
  ASSUME WindowTypeOK, CallsTyped, NEW i \in DOMAIN calls, ServeCreate(i), Refused
  PROVE  \E new \in Asked :
           /\ calls' = [calls EXCEPT ![i] = new]
           /\ new = [calls[i] EXCEPT !.served = TRUE]
<1>1. calls[i] \in Asked BY CallsAreListed
<1> DEFINE new == [calls[i] EXCEPT !.served = TRUE]
<1>2. new \in Asked BY <1>1 DEF Asked
<1>3. calls' = [calls EXCEPT ![i] = new] BY DEF ServeCreate, Refused
<1>4. QED BY <1>2, <1>3

LEMMA CreateServed ==
  ASSUME WindowTypeOK, CallsTyped, NEW i \in DOMAIN calls, ServeCreate(i), ~Refused,
         NewId \in Requests
  PROVE  \E new \in Asked :
           /\ calls' = [calls EXCEPT ![i] = new]
           /\ new = [calls[i] EXCEPT !.served = TRUE, !.ok = TRUE, !.id = NewId]
<1>1. calls[i] \in Asked BY CallsAreListed
<1> DEFINE new == [calls[i] EXCEPT !.served = TRUE, !.ok = TRUE, !.id = NewId]
<1>2. new \in Asked BY <1>1 DEF Asked
<1>3. calls' = [calls EXCEPT ![i] = new] BY DEF ServeCreate, Refused, NewId
<1>4. QED BY <1>2, <1>3

(* What is left of the ids.                                                *)
LEMMA Counted ==
  ASSUME WindowTyped
  PROVE  /\ IsFiniteSet(Requests) /\ IsFiniteSet(DOMAIN status) /\ IsFiniteSet(Unserved)
         /\ Cardinality(Requests) \in Nat /\ Cardinality(DOMAIN status) \in Nat
         /\ Cardinality(Unserved) \in Nat
<1>1. IsFiniteSet(Requests) /\ DOMAIN status \subseteq Requests
  BY WindowAssumption DEF WindowTyped, WindowTypeOK
<1>2. IsFiniteSet(DOMAIN status) BY <1>1, FS_Subset
<1>3. Unserved \subseteq 1..Len(calls) /\ Len(calls) \in Nat
  BY CallsAreListed DEF Unserved, WindowTyped
<1>4. IsFiniteSet(1..Len(calls)) BY <1>3, FS_Interval
<1>5. IsFiniteSet(Unserved) BY <1>3, <1>4, FS_Subset
<1>6. QED BY <1>1, <1>2, <1>5, FS_CardinalityType

LEMMA AnIdIsLeft ==
  ASSUME WindowTyped, Unserved # {}
  PROVE  NewId \in Requests \ DOMAIN status
<1>1. Cardinality(Unserved) # 0 BY Counted, FS_EmptySet
<1>2. Cardinality(DOMAIN status) < Cardinality(Requests) BY <1>1, Counted DEF WindowTyped, Enough
<1>3. DOMAIN status # Requests BY <1>2, Counted
<1>4. DOMAIN status \subseteq Requests BY DEF WindowTyped, WindowTypeOK
<1>5. QED BY <1>3, <1>4 DEF NewId

(* No more wait than did.                                                  *)
LEMMA FewerWait ==
  ASSUME WindowTyped, DOMAIN status' = DOMAIN status, Unserved' \subseteq Unserved
  PROVE  Enough'
<1>1. Cardinality(Unserved') <= Cardinality(Unserved) /\ Cardinality(Unserved') \in Nat
  BY Counted, FS_Subset, FS_CardinalityType
<1>2. QED BY <1>1, Counted DEF WindowTyped, Enough

LEMMA AskLeavesEnough ==
  ASSUME WindowTyped, NEW more \in Seq(Fresh), calls' = calls \o more, status' = status,
         \A k \in 1..Len(more) : more[k].what # "create"
  PROVE  Enough'
<1>1. CallsTyped BY DEF WindowTyped
<1>2. ASSUME NEW j \in Unserved' PROVE j \in Unserved
  <2>1. j \in DOMAIN calls' /\ calls'[j].what = "create" /\ ~calls'[j].served BY DEF Unserved
  <2>2. j \in DOMAIN calls BY <1>1, <2>1, AskFacts
  <2>3. calls'[j] = calls[j] BY <1>1, <2>2, AskFacts
  <2>4. QED BY <2>1, <2>2, <2>3 DEF Unserved
<1>3. QED BY <1>2, FewerWait

LEMMA EndLeavesEnough ==
  ASSUME WindowTyped, NEW i \in DOMAIN calls, NEW more \in Seq(Fresh),
         calls' = RemoveAt(calls, i) \o more, status' = status,
         \A k \in 1..Len(more) : more[k].what # "create"
  PROVE  Enough'
<1>1. CallsTyped BY DEF WindowTyped
<1>2. Len(calls) \in Nat BY <1>1, CallsAreListed
<1>3. ASSUME NEW j \in Unserved'
      PROVE  j \in 1..(Len(calls) - 1) /\ Skip(i, j) \in Unserved
  <2>1. j \in DOMAIN calls' /\ calls'[j].what = "create" /\ ~calls'[j].served BY DEF Unserved
  <2>2. j \in 1..(Len(calls) - 1)
    <3>1. SUFFICES ASSUME j \notin 1..(Len(calls) - 1) PROVE FALSE OBVIOUS
    <3>2. PICK k \in 1..Len(more) : calls'[j] = more[k] BY <1>1, <2>1, <3>1, EndFacts
    <3>3. QED BY <2>1, <3>2
  <2>3. Skip(i, j) \in DOMAIN calls /\ calls'[j] = calls[Skip(i, j)] BY <1>1, <2>2, EndFacts
  <2>4. QED BY <2>1, <2>2, <2>3 DEF Unserved
<1> DEFINE f == [j \in Unserved' |-> Skip(i, j)]
<1>4. i \in 1..Len(calls) BY <1>1, CallsAreListed
<1>5. f \in [Unserved' -> Unserved] BY <1>3
<1>6. \A j, k \in Unserved' : f[j] = f[k] => j = k
  BY <1>2, <1>3, <1>4 DEF Skip
<1>7. f \in Injection(Unserved', Unserved)
  BY <1>5, <1>6 DEF Injection, IsInjective
<1> HIDE DEF f
<1>8. IsFiniteSet(Unserved') /\ Cardinality(Unserved') <= Cardinality(Unserved)
  BY <1>7, Counted, FS_Injection
<1>9. Cardinality(Unserved') \in Nat BY <1>8, FS_CardinalityType
<1>10. QED BY <1>8, <1>9, Counted DEF WindowTyped, Enough

(* What the end of a call makes of the window and of the game.             *)
LEMMA EndsShape ==
  ASSUME WindowTyped, NEW i \in DOMAIN calls, NEW arrived \in BOOLEAN, Ends(i, arrived)
  PROVE  /\ \E more \in Seq(Fresh) :
              /\ calls' = RemoveAt(calls, i) \o more
              /\ \A k \in 1..Len(more) :
                   /\ more[k].what \in {"me", "check", "reload"}
                   /\ more[k].of \in {0, calls[i].of}
         /\ win' \in Windows /\ win'.open = win.open /\ win'.n = win.n
         /\ ~win.open => win' = win
         /\ hud' \in [money : SUBSET DOMAIN status, dot : BOOLEAN]
<1> DEFINE c == calls[i]
           End(more) == /\ calls' = RemoveAt(calls, i) \o more
                        /\ \A k \in 1..Len(more) :
                             /\ more[k].what \in {"me", "check", "reload"}
                             /\ more[k].of \in {0, c.of}
<1>1. CallsTyped /\ c \in Asked /\ c.money \subseteq DOMAIN status
  BY CallsAreListed DEF WindowTyped, CallsTyped
<1>2. win \in Windows /\ hud \in [money : SUBSET DOMAIN status, dot : BOOLEAN]
  BY DEF WindowTyped, WindowTypeOK
<1>3. ASSUME NEW more \in Seq(Reads), Follow(i, more)
      PROVE  \E m \in Seq(Fresh) : End(m)
  <2>1. more \in Seq(Fresh) BY ReadsAreFresh
  <2>2. \A k \in 1..Len(more) : more[k] \in Reads BY ElementOfSeq
  <2>3. End(more) BY <1>3, <2>2 DEF Follow, Reads
  <2>4. QED BY <2>1, <2>3
<1>4. <<>> \in Seq(Reads) /\ Tell \in Seq(Reads) BY EmptySeq, TellIsRead
<1> HIDE DEF End
<1>5. CASE LoadEnds(i, arrived)
  <2> DEFINE painted == IF arrived THEN Paint(c, c.info) ELSE win
             again == c.what = "reload"
             gone == IF arrived THEN Gone(c) ELSE <<>>
             told == IF again THEN Tell ELSE <<>>
  <2>1. /\ win' = IF again THEN Free(painted, c) ELSE painted
        /\ Follow(i, gone \o told) /\ hud' = hud
    BY <1>5 DEF LoadEnds
  <2>2. gone \in Seq(Reads) /\ told \in Seq(Reads) BY <1>4 DEF Gone
  <2>3. gone \o told \in Seq(Reads) BY <2>2, ConcatProperties
  <2>4. \E m \in Seq(Fresh) : End(m) BY <1>3, <2>1, <2>3
  <2>5. c.info \in Infos BY <1>1 DEF Asked
  <2> HIDE DEF c, again
  <2>6. painted \in Windows /\ painted.open = win.open /\ painted.n = win.n
        /\ (~win.open => painted = win)
    BY <1>2, <2>5 DEF Paint, Mine, Windows, Infos
  <2> HIDE DEF painted
  <2>7. /\ win' \in Windows /\ win'.open = win.open /\ win'.n = win.n
        /\ ~win.open => win' = win
    BY <1>2, <2>1, <2>6 DEF Free, Mine, Windows
  <2>8. QED BY <1>2, <2>1, <2>4, <2>7 DEF End, c
<1>6. CASE CreateEnds(i, arrived)
  <2> DEFINE done == arrived /\ c.ok
             info == [win.info EXCEPT !.active = c.id, !.paid = FALSE]
             painted == IF done /\ win.info.seen THEN Paint(c, info) ELSE win
             more == IF done /\ kind = "withdraw" THEN Tell ELSE <<>>
  <2>1. win' = Free(painted, c) /\ Follow(i, more) /\ hud' = hud
    BY <1>6 DEF CreateEnds
  <2>2. \E m \in Seq(Fresh) : End(m) BY <1>3, <1>4, <2>1
  <2>3. info \in Infos BY <1>1, <1>2 DEF Asked, Windows, Infos
  <2> HIDE DEF c, done, info
  <2>4. painted \in Windows /\ painted.open = win.open /\ painted.n = win.n
        /\ (~win.open => painted = win)
    BY <1>2, <2>3 DEF Paint, Mine, Windows, Infos
  <2> HIDE DEF painted
  <2>5. /\ win' \in Windows /\ win'.open = win.open /\ win'.n = win.n
        /\ ~win.open => win' = win
    BY <1>2, <2>1, <2>4 DEF Free, Mine, Windows
  <2>6. QED BY <1>2, <2>1, <2>2, <2>5 DEF End, c
<1>7. CASE CancelEnds(i, arrived)
  <2> DEFINE done == arrived /\ c.ok
             reload == Call("reload", None, c.of)
  <2>1. /\ win' = IF done THEN win ELSE Free(win, c)
        /\ Follow(i, IF done THEN <<reload>> ELSE <<>>) /\ hud' = hud
    BY <1>7 DEF CancelEnds
  <2>2. reload \in Fresh /\ reload.what = "reload" /\ reload.of = c.of
    BY <1>1, CallIsFresh DEF Asked, Words
  <2> HIDE DEF reload, done
  <2>3. \E m \in Seq(Fresh) : End(m)
    <3>1. CASE ~done BY <1>3, <1>4, <2>1, <3>1
    <3>2. CASE done
      <4>1. Follow(i, <<reload>>) BY <2>1, <3>2
      <4>2. <<reload>> \in Seq(Fresh) /\ Len(<<reload>>) = 1 /\ <<reload>>[1] = reload
        BY <2>2, OneCall
      <4>3. End(<<reload>>) BY <2>2, <4>1, <4>2 DEF End, Follow
      <4>4. QED BY <4>2, <4>3
    <3>3. QED BY <3>1, <3>2
  <2> HIDE DEF c
  <2>4. /\ win' \in Windows /\ win'.open = win.open /\ win'.n = win.n
        /\ ~win.open => win' = win
    BY <1>2, <2>1 DEF Free, Mine, Windows
  <2>5. QED BY <1>2, <2>1, <2>3, <2>4 DEF End, c
<1>8. CASE GameEnds(i, arrived)
  <2>1. /\ hud' = IF ~arrived THEN hud
                  ELSE IF c.what = "me" THEN [hud EXCEPT !.money = c.money]
                  ELSE [hud EXCEPT !.dot = c.info.active # None]
        /\ win' = win /\ Follow(i, <<>>)
    BY <1>8 DEF GameEnds
  <2>2. \E m \in Seq(Fresh) : End(m) BY <1>3, <1>4, <2>1
  <2> HIDE DEF c
  <2>3. hud' \in [money : SUBSET DOMAIN status, dot : BOOLEAN]
    BY <1>1, <1>2, <2>1
  <2>4. QED BY <1>2, <2>1, <2>2, <2>3 DEF End, c
<1>9. QED BY <1>5, <1>6, <1>7, <1>8 DEF Ends

(* What the player, or the timer of the window, makes of the page.         *)
Shut(w) == w = [Mounted(w.n) EXCEPT !.open = FALSE]

Adds(more) ==
  /\ calls' = calls \o more
  /\ \A k \in 1..Len(more) :
       /\ more[k].of <= win'.n
       /\ more[k].what = "create" => more[k].of = win'.n /\ Submit
  /\ kind = "deposit" /\ ~win'.open => \E k \in 1..Len(more) : more[k].what = "check"

Opens == win' \in Windows /\ win'.open /\ win'.n = win.n + 1 /\ ~win'.info.seen
Stays ==
  /\ win' \in Windows /\ win'.n = win.n
  /\ \/ win'.open /\ win.open /\ win'.info = win.info
     \/ Shut(win') /\ ~win'.open /\ ~win'.info.seen

LEMMA AddOne ==
  ASSUME CallsTyped, NEW what \in Words, NEW id \in Requests \cup {None}, NEW n \in Nat,
         calls' = Append(calls, Call(what, id, n)), win'.n \in Nat, n <= win'.n, win'.open,
         what = "create" => n = win'.n /\ Submit
  PROVE  \E more \in Seq(Fresh) : Adds(more)
<1> DEFINE c == Call(what, id, n)
<1>1. c \in Fresh /\ c \in Asked /\ c.what = what /\ c.of = n
  BY CallIsFresh DEF Fresh
<1>2. calls' = Append(calls, c) OBVIOUS
<1> HIDE DEF c
<1>3. calls' = calls \o <<c>> BY <1>1, <1>2, OneCall DEF CallsTyped
<1>4. /\ <<c>> \in Seq(Fresh) /\ Len(<<c>>) = 1
      /\ \A k \in 1..1 : <<c>>[k] = c
  BY <1>1, OneCall
<1>5. Adds(<<c>>) BY <1>1, <1>3, <1>4 DEF Adds
<1>6. QED BY <1>4, <1>5

LEMMA AddNone ==
  ASSUME CallsTyped, calls' = calls, win'.open
  PROVE  \E more \in Seq(Fresh) : Adds(more)
<1>1. calls = calls \o <<>> BY ConcatEmptySeq DEF CallsTyped
<1>2. <<>> \in Seq(Fresh) /\ Len(<<>>) = 0 BY EmptySeq
<1>3. Adds(<<>>) BY <1>1, <1>2 DEF Adds
<1>4. QED BY <1>2, <1>3

LEMMA PlayerAsks ==
  ASSUME WindowTyped, Player \/ Poll
  PROVE  /\ \E more \in Seq(Fresh) : Adds(more)
         /\ UNCHANGED <<kind, status, due, hud, lost, moved>>
         /\ Opens \/ Stays
         /\ \/ overtaken' = overtaken
            \/ Opens /\ About("form", DOMAIN calls) = {} /\ overtaken' = overtaken \ {"form"}
<1>1. CallsTyped /\ win \in Windows /\ win.n \in Nat /\ Openings \in Nat
  BY WindowAssumption DEF WindowTyped, WindowTypeOK, Windows
<1>2. "load" \in Words /\ "create" \in Words /\ "cancel" \in Words /\ None \in Requests \cup {None}
  BY DEF Words
<1>3. CASE Open
  <2>1. /\ win' = Mounted(win.n + 1) /\ win.n < Openings
        /\ calls' = Append(calls, Call("load", None, win.n + 1))
        /\ UNCHANGED <<kind, status, due, hud, lost, moved>>
        /\ overtaken' \in {overtaken, overtaken \ {"form"}}
        /\ overtaken' = overtaken \/ About("form", DOMAIN calls) = {}
    BY <1>3 DEF Open
  <2>2. Opens BY <1>1, <2>1 DEF Opens, Mounted, Blank, Windows, None
  <2>3. win'.n = win.n + 1 /\ win'.open /\ win'.n \in Nat BY <1>1, <2>2 DEF Opens
  <2>4. win.n + 1 \in Nat /\ win.n + 1 <= win'.n BY <1>1, <2>3
  <2>5. \E more \in Seq(Fresh) : Adds(more)
    BY <1>1, <1>2, <2>1, <2>3, <2>4, AddOne
  <2>6. QED BY <2>1, <2>2, <2>5
<1>4. CASE Close
  <2>1. /\ win' = [Mounted(win.n) EXCEPT !.open = FALSE]
        /\ calls' = calls \o CheckDeposit
        /\ UNCHANGED <<kind, status, due, hud, lost, overtaken, moved>>
    BY <1>4 DEF Close
  <2>2. Stays /\ ~win'.open /\ win'.n = win.n
    BY <1>1, <2>1 DEF Stays, Shut, Mounted, Blank, Windows, None
  <2>3. CheckDeposit \in Seq(Fresh) /\ \A k \in 1..Len(CheckDeposit) : CheckDeposit[k] \in Reads
    BY TellIsRead, ReadsAreFresh, ElementOfSeq
  <2>4. kind = "deposit" => 1 \in 1..Len(CheckDeposit) /\ CheckDeposit[1].what = "check"
    <3> DEFINE c == Call("check", None, 0)
    <3>1. c.what = "check" /\ c \in Fresh BY CallIsFresh DEF Words
    <3>2. kind = "deposit" => CheckDeposit = <<c>> BY TellIsRead
    <3> HIDE DEF c
    <3>3. <<c>>[1] = c /\ Len(<<c>>) = 1 BY <3>1, OneCall
    <3>4. QED BY <3>1, <3>2, <3>3
  <2>5. Adds(CheckDeposit)
    <3>1. \A k \in 1..Len(CheckDeposit) :
            CheckDeposit[k].of <= win'.n /\ CheckDeposit[k].what # "create"
      BY <1>1, <2>2, <2>3 DEF Reads
    <3>2. QED BY <2>1, <2>4, <3>1 DEF Adds
  <2>6. QED BY <2>1, <2>2, <2>3, <2>5
<1>5. CASE Poll \/ Refresh
  <2>1. /\ win' = win /\ win.open
        /\ calls' = Append(calls, Call("load", None, win.n))
        /\ UNCHANGED <<kind, status, due, hud, lost, overtaken, moved>>
    BY <1>5 DEF Poll, Refresh, AtHand
  <2>2. Stays /\ win'.open /\ win'.n = win.n BY <1>1, <2>1 DEF Stays
  <2>3. \E more \in Seq(Fresh) : Adds(more)
    <3>1. win.n \in Nat /\ win'.n \in Nat /\ win.n <= win'.n BY <1>1, <2>2
    <3>2. QED BY <1>1, <1>2, <2>1, <2>2, <3>1, AddOne
  <2>4. QED BY <2>1, <2>2, <2>3
<1>6. CASE Submit
  <2>1. /\ win' = [win EXCEPT !.busy = TRUE] /\ win.open
        /\ calls' = Append(calls, Call("create", None, win.n))
        /\ UNCHANGED <<kind, status, due, hud, lost, overtaken, moved>>
    BY <1>6 DEF Submit, AtHand
  <2>2. Stays /\ win'.open /\ win'.n = win.n BY <1>1, <2>1 DEF Stays, Windows
  <2>3. \E more \in Seq(Fresh) : Adds(more)
    <3>1. win.n \in Nat /\ win'.n \in Nat /\ win.n <= win'.n /\ win.n = win'.n BY <1>1, <2>2
    <3>2. QED BY <1>1, <1>2, <1>6, <2>1, <2>2, <3>1, AddOne
  <2>4. QED BY <2>1, <2>2, <2>3
<1>7. CASE PressCancel
  <2>1. /\ win' = [win EXCEPT !.asks = Shown] /\ win.open /\ calls' = calls
        /\ UNCHANGED <<kind, status, due, hud, lost, overtaken, moved>>
    BY <1>7 DEF PressCancel, AtHand
  <2>2. Stays /\ win'.open BY <1>1, <2>1 DEF Stays, Windows, Shown
  <2>3. \E more \in Seq(Fresh) : Adds(more) BY <1>1, <2>1, <2>2, AddNone
  <2>4. QED BY <2>1, <2>2, <2>3
<1>8. ASSUME NEW yes \in BOOLEAN, Reply(yes)
      PROVE  /\ \E more \in Seq(Fresh) : Adds(more)
             /\ UNCHANGED <<kind, status, due, hud, lost, overtaken, moved>>
             /\ Opens \/ Stays
  <2>1. /\ win' = [win EXCEPT !.asks = None, !.busy = yes] /\ win.open
        /\ calls' = IF yes THEN Append(calls, Call("cancel", win.asks, win.n)) ELSE calls
        /\ UNCHANGED <<kind, status, due, hud, lost, overtaken, moved>>
    BY <1>8 DEF Reply
  <2>2. Stays /\ win'.open /\ win'.n = win.n BY <1>1, <2>1 DEF Stays, Windows
  <2>3. \E more \in Seq(Fresh) : Adds(more)
    <3>1. CASE yes
      <4>1. win.asks \in Requests \cup {None} BY <1>1 DEF Windows
      <4>2. calls' = Append(calls, Call("cancel", win.asks, win.n)) BY <2>1, <3>1
      <4>3. win.n \in Nat /\ win'.n \in Nat /\ win.n <= win'.n BY <1>1, <2>2
      <4>4. QED BY <1>1, <1>2, <2>2, <4>1, <4>2, <4>3, AddOne
    <3>2. CASE ~yes BY <1>1, <2>1, <2>2, <3>2, AddNone
    <3>3. QED BY <3>1, <3>2
  <2>4. QED BY <2>1, <2>2, <2>3
<1>9. QED BY <1>3, <1>4, <1>5, <1>6, <1>7, <1>8 DEF Player

(* The types, step by step.                                                *)
LEMMA TypedInit == WindowInit => WindowTyped
<1> SUFFICES ASSUME WindowInit PROVE WindowTyped OBVIOUS
<1>1. CheckDeposit \in Seq(Reads) /\ CheckDeposit \in Seq(Fresh) /\ CheckDeposit \in Seq(Asked)
      /\ \A k \in 1..Len(CheckDeposit) : CheckDeposit[k] \in Reads
  BY TellIsRead, ReadsAreFresh, ElementOfSeq
<1>2. calls = CheckDeposit /\ DOMAIN calls = 1..Len(calls)
  BY <1>1, LenProperties DEF WindowInit
<1>3. DOMAIN status = {} /\ due = {} /\ kind \in Kinds /\ moved = FALSE
      /\ hud = [money |-> {}, dot |-> FALSE]
  BY DEF WindowInit
<1>4. WindowTypeOK
  <2>1. win = [Mounted(0) EXCEPT !.open = FALSE] BY DEF WindowInit
  <2>2. win \in Windows /\ win = [Mounted(win.n) EXCEPT !.open = FALSE]
    <3>1. win = [open |-> FALSE, n |-> 0, info |-> Blank, prev |-> None, busy |-> FALSE,
                 asks |-> None]
      BY <2>1 DEF Mounted
    <3>2. 0 \in 0..Openings BY WindowAssumption
    <3>3. win \in Windows BY <3>1, <3>2 DEF Blank, Windows
    <3>4. win.n = 0 BY <3>1
    <3>5. QED BY <2>1, <3>3, <3>4
  <2>3. status \in [{} -> Verdicts] BY DEF WindowInit
  <2>4. QED BY <1>3, <2>2, <2>3 DEF WindowTypeOK, Verdicts
<1>5. CallsTyped BY <1>1, <1>2 DEF CallsTyped, Reads, Fresh
<1>6. Enough
  <2>1. Unserved = {} BY <1>1, <1>2 DEF Unserved, Reads
  <2>2. Cardinality({}) = 0 BY FS_EmptySet
  <2>3. Cardinality(Requests) \in Nat BY WindowAssumption, FS_CardinalityType
  <2>4. QED BY <1>3, <2>1, <2>2, <2>3 DEF Enough
<1>7. QED BY <1>4, <1>5, <1>6 DEF WindowTyped

LEMMA TypedServer == ASSUME WindowTyped, Server PROVE WindowTyped'
<1>1. /\ Swept \in [DOMAIN status -> Verdicts] /\ DOMAIN status \subseteq Requests
      /\ due \subseteq DOMAIN status /\ moved \in BOOLEAN
  BY SweptFits DEF WindowTyped, WindowTypeOK
<1>2. /\ status' \in [DOMAIN status -> Verdicts] /\ due' \subseteq DOMAIN status
      /\ moved' \in BOOLEAN /\ UNCHANGED <<kind, win, hud, calls>>
  <2>1. PICK r \in DOMAIN status :
          \/ Found(r)
          \/ \E verdict \in {"approved", "rejected"} : Decide(r, verdict)
          \/ DeadlinePasses(r)
    BY DEF Server
  <2>2. CASE Found(r) BY <1>1, <2>2 DEF Found, Verdicts
  <2>3. ASSUME NEW verdict \in {"approved", "rejected"}, Decide(r, verdict)
        PROVE  /\ status' \in [DOMAIN status -> Verdicts] /\ due' \subseteq DOMAIN status
               /\ moved' \in BOOLEAN /\ UNCHANGED <<kind, win, hud, calls>>
    <3>1. status' = [Swept EXCEPT ![r] = verdict] /\ UNCHANGED <<kind, due, win, hud, calls>>
          /\ moved' = (moved \/ Money' # Money)
      BY <2>3 DEF Decide
    <3>2. verdict \in Verdicts BY DEF Verdicts
    <3>3. QED BY <1>1, <3>1, <3>2
  <2>4. CASE DeadlinePasses(r)
    <3>1. status' = status /\ due' = due \cup {r} /\ UNCHANGED <<kind, win, hud, calls, moved>>
      BY <2>4 DEF DeadlinePasses
    <3>2. QED BY <1>1, <3>1 DEF WindowTyped, WindowTypeOK, Verdicts
  <2>5. QED BY <2>1, <2>2, <2>3, <2>4
<1>3. DOMAIN status' = DOMAIN status BY <1>2
<1>4. WindowTypeOK' BY <1>1, <1>2, <1>3 DEF WindowTyped, WindowTypeOK, Verdicts
<1>5. CallsTyped' BY <1>2, <1>3 DEF WindowTyped, CallsTyped
<1>6. Enough' BY <1>2, <1>3 DEF WindowTyped, Enough, Unserved
<1>7. QED BY <1>4, <1>5, <1>6 DEF WindowTyped

(* A request is only sent when there is an id left for it.                 *)
LEMMA SubmitLeavesEnough == ASSUME WindowTyped, Submit PROVE Enough'
<1>1. CallsTyped /\ win.n \in Nat BY DEF WindowTyped, WindowTypeOK, Windows
<1> DEFINE n == Len(calls)
           c == Call("create", None, win.n)
<1>2. n \in Nat /\ DOMAIN calls = 1..n BY <1>1, CallsAreListed
<1>3. /\ calls' = Append(calls, c) /\ status' = status
      /\ Cardinality(DOMAIN status) + Cardinality(Creating) < Cardinality(Requests)
  BY DEF Submit
<1>4. Cardinality(Unserved) <= Cardinality(Creating) /\ Cardinality(Creating) \in Nat
  <2>1. Unserved \subseteq Creating /\ Creating \subseteq 1..n BY <1>2 DEF Unserved, Creating
  <2>2. IsFiniteSet(1..n) BY <1>2, FS_Interval
  <2>3. IsFiniteSet(Creating) BY <2>1, <2>2, FS_Subset
  <2>4. QED BY <2>1, <2>3, FS_Subset, FS_CardinalityType
<1>5. Unserved' \subseteq Unserved \cup {n + 1}
  <2>1. c \in Asked BY <1>1, CallIsFresh DEF Fresh, Words
  <2> HIDE DEF c
  <2>2. /\ Append(calls, c) \in Seq(Asked) /\ Len(Append(calls, c)) = n + 1
        /\ \A j \in 1..n : Append(calls, c)[j] = calls[j]
    BY <1>1, <1>2, <2>1 DEF CallsTyped
  <2>3. DOMAIN calls' = 1..(n + 1) BY <1>3, <2>2, LenProperties
  <2> HIDE DEF n
  <2>4. QED BY <1>2, <1>3, <2>2, <2>3 DEF Unserved
<1> HIDE DEF n, c
<1>6. /\ IsFiniteSet(Unserved \cup {n + 1})
      /\ Cardinality(Unserved \cup {n + 1}) <= Cardinality(Unserved) + 1
      /\ Cardinality(Unserved \cup {n + 1}) \in Nat
  <2>1. IsFiniteSet(Unserved) /\ Cardinality(Unserved) \in Nat BY Counted
  <2> DEFINE x == n + 1
  <2> HIDE DEF x
  <2>2. /\ IsFiniteSet(Unserved \cup {x})
        /\ Cardinality(Unserved \cup {x}) =
             IF x \in Unserved THEN Cardinality(Unserved) ELSE Cardinality(Unserved) + 1
    BY <2>1, FS_AddElement
  <2>3. QED BY <2>1, <2>2 DEF x
<1>7. Cardinality(Unserved') <= Cardinality(Unserved \cup {n + 1}) /\ Cardinality(Unserved') \in Nat
  BY <1>5, <1>6, FS_Subset, FS_CardinalityType
<1>8. QED BY <1>3, <1>4, <1>6, <1>7, Counted DEF Enough

LEMMA TypedPlayer == ASSUME WindowTyped, Player \/ Poll PROVE WindowTyped'
<1>1. CallsTyped BY DEF WindowTyped
<1>2. PICK more \in Seq(Fresh) : Adds(more) BY PlayerAsks
<1>3. UNCHANGED <<kind, status, due, hud, moved>> /\ (Opens \/ Stays) BY PlayerAsks
<1>4. calls' = calls \o more BY <1>2 DEF Adds
<1>5. CallsTyped' BY <1>1, <1>3, <1>4, AskTyped
<1>6. Enough'
  <2>1. CASE Submit BY <2>1, SubmitLeavesEnough
  <2>2. CASE ~Submit
    <3>1. \A k \in 1..Len(more) : more[k].what # "create" BY <1>2, <2>2 DEF Adds
    <3>2. QED BY <1>3, <1>4, <3>1, AskLeavesEnough
  <2>3. QED BY <2>1, <2>2
<1>7. win' \in Windows /\ (win'.open \/ Shut(win')) BY <1>3 DEF Opens, Stays
<1>8. WindowTypeOK' BY <1>3, <1>7 DEF WindowTyped, WindowTypeOK, Shut
<1>9. QED BY <1>5, <1>6, <1>8 DEF WindowTyped

LEMMA TypedEnd ==
  ASSUME WindowTyped, NEW i \in DOMAIN calls, NEW arrived \in BOOLEAN, Ends(i, arrived),
         UNCHANGED <<kind, status, due, moved>>
  PROVE  WindowTyped'
<1>1. CallsTyped BY DEF WindowTyped
<1>2. PICK more \in Seq(Fresh) :
        /\ calls' = RemoveAt(calls, i) \o more
        /\ \A k \in 1..Len(more) : more[k].what \in {"me", "check", "reload"}
  BY EndsShape
<1>3. /\ win' \in Windows /\ win'.open = win.open /\ win'.n = win.n
      /\ ~win.open => win' = win
      /\ hud' \in [money : SUBSET DOMAIN status, dot : BOOLEAN]
  BY EndsShape
<1>4. CallsTyped' BY <1>1, <1>2, EndTyped
<1>5. \A k \in 1..Len(more) : more[k].what # "create" BY <1>2
<1>6. Enough' BY <1>2, <1>5, EndLeavesEnough
<1>7. WindowTypeOK' BY <1>3 DEF WindowTyped, WindowTypeOK
<1>8. QED BY <1>4, <1>6, <1>7 DEF WindowTyped

(* What is served, in one shape: a call becomes another, and the requests  *)
(* that were there stay there.                                             *)
LEMMA TypedOne ==
  ASSUME WindowTyped, NEW i \in DOMAIN calls, NEW new \in Asked,
         calls' = [calls EXCEPT ![i] = new], new.served, new.what = calls[i].what,
         new.money \subseteq DOMAIN status, UNCHANGED <<kind, due, win, hud>>,
         moved' \in BOOLEAN, DOMAIN status' \subseteq Requests,
         DOMAIN status \subseteq DOMAIN status',
         status' \in [DOMAIN status' -> Verdicts]
  PROVE  /\ WindowTypeOK' /\ CallsTyped'
         /\ Unserved' = Unserved \ {i}
<1>1. CallsTyped BY DEF WindowTyped
<1>2. /\ calls' \in Seq(Asked) /\ DOMAIN calls' = DOMAIN calls
      /\ calls'[i] = new /\ \A j \in DOMAIN calls : j # i => calls'[j] = calls[j]
  BY <1>1, OneChanges
<1>3. CallsTyped'
  <2>1. ASSUME NEW j \in DOMAIN calls'
        PROVE  calls'[j].money \subseteq DOMAIN status' /\ (calls'[j].ok => calls'[j].served)
    <3>1. CASE j = i BY <1>2, <3>1
    <3>2. CASE j # i BY <1>1, <1>2, <3>2 DEF CallsTyped
    <3>3. QED BY <3>1, <3>2
  <2>2. QED BY <1>2, <2>1 DEF CallsTyped
<1>4. Unserved' = Unserved \ {i} BY <1>2 DEF Unserved
<1>5. WindowTypeOK'
  <2>1. /\ due' \subseteq DOMAIN status' /\ win' \in Windows /\ (win'.open \/ Shut(win'))
        /\ hud' \in [money : SUBSET DOMAIN status', dot : BOOLEAN] /\ kind' \in Kinds
    BY DEF WindowTyped, WindowTypeOK, Shut
  <2>2. QED BY <2>1 DEF WindowTypeOK, Verdicts, Shut
<1>6. QED BY <1>3, <1>4, <1>5

LEMMA TypedServe == ASSUME WindowTyped, NEW i \in DOMAIN calls, Serve(i) PROVE WindowTyped'
<1>1. /\ WindowTypeOK /\ CallsTyped /\ calls[i] \in Asked /\ moved \in BOOLEAN
      /\ calls[i].money \subseteq DOMAIN status /\ ~calls[i].served
      /\ UNCHANGED <<kind, due, win, hud>>
  BY CallsAreListed DEF WindowTyped, WindowTypeOK, CallsTyped, Serve
<1>2. /\ Swept \in [DOMAIN status -> Verdicts] /\ DOMAIN Swept = DOMAIN status
      /\ DOMAIN status \subseteq Requests /\ Money \subseteq DOMAIN status
      /\ status \in [DOMAIN status -> Verdicts]
  BY <1>1, SweptFits DEF WindowTypeOK, Verdicts
<1>3. ASSUME NEW new \in Asked, calls' = [calls EXCEPT ![i] = new], new.served,
             new.what = calls[i].what, new.money \subseteq DOMAIN status, moved' \in BOOLEAN,
             status' \in [DOMAIN status -> Verdicts]
      PROVE  WindowTyped'
  <2>1. DOMAIN status' = DOMAIN status BY <1>3
  <2>2. WindowTypeOK' /\ CallsTyped' /\ Unserved' = Unserved \ {i}
    BY <1>1, <1>2, <1>3, <2>1, TypedOne
  <2>3. Enough' BY <2>1, <2>2, FewerWait
  <2>4. QED BY <2>2, <2>3 DEF WindowTyped
<1>4. CASE ServeLook(i)
  <2>1. PICK new \in Asked :
          /\ calls' = [calls EXCEPT ![i] = new]
          /\ new = [calls[i] EXCEPT !.served = TRUE, !.info = Picture]
    BY <1>1, <1>4, LookServed
  <2>2. new.served /\ new.what = calls[i].what /\ new.money = calls[i].money
    BY <1>1, <2>1 DEF Asked
  <2>3. status' = Swept /\ moved' = moved BY <1>4 DEF ServeLook
  <2>4. QED BY <1>1, <1>2, <1>3, <2>1, <2>2, <2>3
<1>5. CASE ServeBalance(i)
  <2>1. PICK new \in Asked :
          /\ calls' = [calls EXCEPT ![i] = new]
          /\ new = [calls[i] EXCEPT !.served = TRUE, !.money = Money]
    BY <1>1, <1>5, BalanceServed
  <2>2. new.served /\ new.what = calls[i].what /\ new.money = Money
    BY <1>1, <2>1 DEF Asked
  <2>3. status' = status /\ moved' = FALSE BY <1>5 DEF ServeBalance
  <2>4. QED BY <1>1, <1>2, <1>3, <2>1, <2>2, <2>3
<1>6. CASE ServeCancel(i)
  <2> DEFINE may == Swept[calls[i].id] = "pending"
  <2>1. PICK new \in Asked :
          /\ calls' = [calls EXCEPT ![i] = new]
          /\ new = [calls[i] EXCEPT !.served = TRUE, !.ok = may]
    BY <1>1, <1>6, CancelServed
  <2>2. new.served /\ new.what = calls[i].what /\ new.money = calls[i].money
    BY <1>1, <2>1 DEF Asked
  <2>3. /\ status' = IF may THEN [Swept EXCEPT ![calls[i].id] = "canceled"] ELSE Swept
        /\ moved' = moved
    BY <1>6 DEF ServeCancel
  <2>4. status' \in [DOMAIN status -> Verdicts] BY <1>2, <2>3 DEF Verdicts
  <2>5. QED BY <1>1, <1>3, <2>1, <2>2, <2>3, <2>4
<1>7. CASE ServeCreate(i) /\ Refused
  <2>1. PICK new \in Asked :
          /\ calls' = [calls EXCEPT ![i] = new]
          /\ new = [calls[i] EXCEPT !.served = TRUE]
    BY <1>1, <1>7, RefusalServed
  <2>2. new.served /\ new.what = calls[i].what /\ new.money = calls[i].money
    BY <1>1, <2>1 DEF Asked
  <2>3. status' = Swept /\ moved' = moved BY <1>7 DEF ServeCreate, Refused
  <2>4. QED BY <1>1, <1>2, <1>3, <2>1, <2>2, <2>3
<1>8. CASE ServeCreate(i) /\ ~Refused
  <2>1. i \in Unserved BY <1>1, <1>8 DEF Unserved, ServeCreate
  <2>2. NewId \in Requests \ DOMAIN status BY <2>1, AnIdIsLeft
  <2>3. PICK new \in Asked :
          /\ calls' = [calls EXCEPT ![i] = new]
          /\ new = [calls[i] EXCEPT !.served = TRUE, !.ok = TRUE, !.id = NewId]
    BY <1>1, <1>8, <2>2, CreateServed
  <2>4. new.served /\ new.what = calls[i].what /\ new.money = calls[i].money
    BY <1>1, <2>3 DEF Asked
  <2>5. /\ status' = [x \in DOMAIN status \cup {NewId} |->
                       IF x = NewId THEN "pending" ELSE Swept[x]]
        /\ moved' = moved
    BY <1>8 DEF ServeCreate, Refused, NewId
  <2> DEFINE r == NewId
  <2> HIDE DEF r
  <2>6. status' = [x \in DOMAIN status \cup {r} |-> IF x = r THEN "pending" ELSE Swept[x]]
        /\ r \in Requests \ DOMAIN status
    BY <2>2, <2>5 DEF r
  <2>7. /\ DOMAIN status' = DOMAIN status \cup {r}
        /\ status' \in [DOMAIN status' -> Verdicts]
    BY <1>2, <2>6 DEF Verdicts
  <2>8. WindowTypeOK' /\ CallsTyped' /\ Unserved' = Unserved \ {i}
    BY <1>1, <1>2, <2>3, <2>4, <2>5, <2>6, <2>7, TypedOne
  <2>9. Cardinality(DOMAIN status') = Cardinality(DOMAIN status) + 1
    BY <2>6, <2>7, Counted, FS_AddElement
  <2>10. Cardinality(Unserved') = Cardinality(Unserved) - 1
    BY <2>1, <2>8, Counted, FS_RemoveElement
  <2>11. Enough' BY <2>9, <2>10, Counted DEF WindowTyped, Enough
  <2>12. QED BY <2>8, <2>11 DEF WindowTyped
<1>9. QED BY <1>4, <1>5, <1>6, <1>7, <1>8 DEF Serve

LEMMA TypedNext == WindowTyped /\ [WindowNext]_windowVars => WindowTyped'
<1> SUFFICES ASSUME WindowTyped, [WindowNext]_windowVars PROVE WindowTyped' OBVIOUS
<1>1. ASSUME NEW i \in DOMAIN calls, Serve(i) \/ Answer(i) \/ Lose(i) PROVE WindowTyped'
  <2>1. CASE Serve(i) BY <2>1, TypedServe
  <2>2. CASE Answer(i)
    <3>1. Ends(i, TRUE) /\ UNCHANGED <<kind, status, due, moved>> BY <2>2 DEF Answer
    <3>2. QED BY <3>1, TypedEnd
  <2>3. CASE Lose(i)
    <3>1. Ends(i, FALSE) /\ UNCHANGED <<kind, status, due, moved>> BY <2>3 DEF Lose
    <3>2. QED BY <3>1, TypedEnd
  <2>4. QED BY <1>1, <2>1, <2>2, <2>3
<1>2. CASE UNCHANGED windowVars
  BY <1>2 DEF windowVars, WindowTyped, WindowTypeOK, CallsTyped, Enough, Unserved
<1>3. QED BY <1>1, <1>2, TypedServer, TypedPlayer DEF WindowNext, Network

LEMMA TypedAlways == WindowSpec => []WindowTyped
<1>1. QED BY TypedInit, TypedNext, PTL DEF WindowSpec

(* The window, the requests and the game keep their types, in whatever     *)
(* order the answers come: an id is left for every request that is sent.   *)
THEOREM WindowTypes == WindowSpec => []WindowTypeOK
<1>1. WindowTyped => WindowTypeOK BY DEF WindowTyped
<1>2. QED BY <1>1, TypedAlways, PTL

(***************************************************************************)
(* What the window, the dot and the balance will hear, as long as the      *)
(* calls they depend on take their turns.                                  *)
(***************************************************************************)

(* What a call that was served will tell a window of the open request.     *)
Makes(c) == c.what = "create" /\ c.served /\ c.ok
Tells(c) == Makes(c) \/ (c.what \in {"load", "reload"} /\ c.served)
Told(c) == IF c.what = "create" THEN c.id ELSE c.info.active

(* The window shows r if it shows anything, or is about to; and nothing    *)
(* that comes after says otherwise.                                        *)
Hears(r, p) ==
  /\ IF p = 0 THEN win.open /\ win.info.seen => win.info.active = r
     ELSE Makes(calls[p]) /\ calls[p].id = r
  /\ \A j \in DOMAIN calls : j > p /\ Tells(calls[j]) => Told(calls[j]) = r
WindowHears == \A r \in activeFor : \E p \in 0..Len(calls) : Hears(r, p)

(* A window opened after a request was sent has seen nothing yet while     *)
(* that request is on its way, and has asked after it.                     *)
NewcomersWait ==
  \A i \in DOMAIN calls : calls[i].what = "create" /\ calls[i].of # win.n =>
    /\ ~win.info.seen
    /\ \A j \in DOMAIN calls :
         j < i /\ calls[j].what \in {"load", "reload", "create"} => calls[j].of # win.n

(* A window that closes while a deposit is being created asks after it.    *)
ChecksFollow ==
  kind = "deposit" /\ ~win.open =>
    \A i \in DOMAIN calls : calls[i].what = "create" =>
      \E j \in DOMAIN calls : i < j /\ calls[j].what = "check"

(* The dot is there, or a look that will set it is on its way.             *)
Dots(r, p) ==
  /\ IF p = 0 THEN hud.dot
     ELSE calls[p].what = "check" /\ (calls[p].served => calls[p].info.active = r)
  /\ \A j \in DOMAIN calls :
       j > p /\ calls[j].what = "check" /\ calls[j].served => calls[j].info.active = r
DotHears ==
  kind = "deposit" /\ ~win.open => \A r \in activeFor : \E p \in 0..Len(calls) : Dots(r, p)

(* A call whose end makes the game read the balance.                       *)
WillRead(c) ==
  \/ c.what = "create" /\ c.served /\ c.ok /\ kind = "withdraw"
  \/ c.what = "cancel" /\ c.served /\ c.ok
  \/ c.what = "reload"

(* The game shows the balance, or a call that will read it is on its way.  *)
Counts(p) ==
  /\ IF p = 0 THEN hud.money = Money
     ELSE calls[p].what = "me" /\ (calls[p].served => calls[p].money = Money)
  /\ \A j \in DOMAIN calls :
       j > p /\ calls[j].what = "me" /\ calls[j].served => calls[j].money = Money
MoneyHears ==
  ~moved =>
    (\E i \in DOMAIN calls : WillRead(calls[i])) \/ (\E p \in 0..Len(calls) : Counts(p))

(* Of the calls that matter to one of the three, no later one was served   *)
(* before an earlier one.                                                  *)
InTurn(what) ==
  \A i, j \in DOMAIN calls :
    /\ i < j /\ calls[j].served
    /\ calls[i].what \in Matters[what] /\ calls[j].what \in Matters[what]
    => calls[i].served

FormHeard == InTurn("form") /\ WindowHears /\ NewcomersWait
DotHeard == InTurn("dot") /\ ChecksFollow /\ DotHears
MoneyHeard == InTurn("money") /\ MoneyHears

Heard ==
  /\ "form" \notin overtaken => FormHeard
  /\ "dot" \notin overtaken => DotHeard
  /\ "money" \notin overtaken => MoneyHeard

OneActive == \A r, s \in activeFor : r = s
Steady ==
  /\ OneActive /\ (kind = "withdraw" => due = {})
  /\ \A i \in DOMAIN calls : calls[i].of <= win.n

WindowInv == WindowTyped /\ Steady /\ (lost = {} => Heard)

LEMMA WhatMatters ==
  /\ Matters["form"] = {"load", "reload", "create"}
  /\ Matters["dot"] = {"check", "create"} /\ Matters["money"] = {"me"}
BY DEF Matters

(* The open requests, and the money that has moved, without the sweep.     *)
LEMMA ActiveIs ==
  /\ activeFor = {x \in DOMAIN status :
                    status[x] = "processing" \/ (status[x] = "pending" /\ x \notin due)}
  /\ activeFor' = {x \in DOMAIN status' :
                    status'[x] = "processing" \/ (status'[x] = "pending" /\ x \notin due')}
<1>1. \A x \in DOMAIN status :
        isOpen(Swept[x]) <=> status[x] = "processing" \/ (status[x] = "pending" /\ x \notin due)
  BY DEF Swept, isOpen
<1>2. \A x \in DOMAIN status' :
        isOpen(Swept'[x]) <=> status'[x] = "processing" \/ (status'[x] = "pending" /\ x \notin due')
  BY DEF Swept, isOpen
<1>3. activeFor' = {x \in DOMAIN status' : isOpen(Swept'[x])} BY DEF activeFor, isOpen
<1>4. QED BY <1>1, <1>2, <1>3 DEF activeFor

LEMMA NothingHeardInit == WindowInit => Steady /\ Heard
<1> SUFFICES ASSUME WindowInit PROVE Steady /\ Heard OBVIOUS
<1>1. /\ CheckDeposit \in Seq(Reads)
      /\ \A k \in 1..Len(CheckDeposit) : CheckDeposit[k] \in Reads
  BY TellIsRead, ElementOfSeq
<1>2. /\ calls = CheckDeposit /\ Len(calls) \in Nat /\ DOMAIN calls = 1..Len(calls)
      /\ \A k \in DOMAIN calls : ~calls[k].served /\ calls[k].of = 0 /\ calls[k].what # "create"
  BY <1>1, LenProperties DEF WindowInit, Reads, Fresh
<1>3. DOMAIN status = {} /\ due = {} /\ hud.money = {} /\ win.n = 0
  BY DEF WindowInit, Mounted
<1>4. activeFor = {} /\ Money = {} BY <1>3, ActiveIs DEF Money
<1>5. Steady BY <1>2, <1>3, <1>4 DEF Steady, OneActive
<1>6. Counts(0) BY <1>2, <1>3, <1>4 DEF Counts
<1>7. InTurn("form") /\ InTurn("dot") /\ InTurn("money") BY <1>2 DEF InTurn
<1>8. FormHeard BY <1>2, <1>4, <1>7 DEF FormHeard, WindowHears, NewcomersWait
<1>9. DotHeard BY <1>2, <1>4, <1>7 DEF DotHeard, ChecksFollow, DotHears
<1>10. MoneyHeard BY <1>2, <1>6, <1>7 DEF MoneyHeard, MoneyHears
<1>11. QED BY <1>5, <1>8, <1>9, <1>10 DEF Heard

(***************************************************************************)
(* What happens on the server.                                             *)
(***************************************************************************)
LEMMA ServerMoves ==
  ASSUME WindowInv, Server
  PROVE  /\ activeFor' \subseteq activeFor
         /\ (~moved' => ~moved /\ Money' = Money)
         /\ (kind = "withdraw" => due' = {})
         /\ UNCHANGED <<kind, win, hud, calls, lost, overtaken>>
<1>1. /\ Swept \in [DOMAIN status -> Verdicts] /\ DOMAIN Swept = DOMAIN status
      /\ \A x \in DOMAIN status :
           Swept[x] = IF status[x] = "pending" /\ x \in due THEN "expired" ELSE status[x]
      /\ kind = "withdraw" => due = {}
  BY SweptFits DEF WindowInv, WindowTyped, Steady, Swept
<1>2. PICK r \in DOMAIN status :
        \/ Found(r)
        \/ \E verdict \in {"approved", "rejected"} : Decide(r, verdict)
        \/ DeadlinePasses(r)
  BY DEF Server
<1>3. CASE Found(r)
  <2>1. /\ kind = "deposit" /\ Swept[r] = "pending" /\ status' = [Swept EXCEPT ![r] = "processing"]
        /\ UNCHANGED <<kind, due, win, hud, calls, lost, overtaken, moved>>
    BY <1>3 DEF Found
  <2>2. DOMAIN status' = DOMAIN status BY <1>1, <2>1
  <2>3. activeFor' \subseteq activeFor BY <1>1, <2>1, <2>2, ActiveIs
  <2>4. Money' = Money BY <1>1, <2>1, <2>2 DEF Money
  <2>5. QED BY <1>1, <2>1, <2>3, <2>4
<1>4. ASSUME NEW verdict \in {"approved", "rejected"}, Decide(r, verdict)
      PROVE  /\ activeFor' \subseteq activeFor
             /\ (~moved' => ~moved /\ Money' = Money)
             /\ (kind = "withdraw" => due' = {})
             /\ UNCHANGED <<kind, win, hud, calls, lost, overtaken>>
  <2>1. /\ status' = [Swept EXCEPT ![r] = verdict] /\ moved' = (moved \/ Money' # Money)
        /\ UNCHANGED <<kind, due, win, hud, calls, lost, overtaken>>
    BY <1>4 DEF Decide
  <2>2. DOMAIN status' = DOMAIN status BY <1>1, <2>1
  <2>3. activeFor' \subseteq activeFor BY <1>1, <2>1, <2>2, ActiveIs
  <2>4. QED BY <1>1, <2>1, <2>3
<1>5. CASE DeadlinePasses(r)
  <2>1. /\ kind = "deposit" /\ status' = status /\ due' = due \cup {r}
        /\ UNCHANGED <<kind, win, hud, calls, lost, overtaken, moved>>
    BY <1>5 DEF DeadlinePasses
  <2>2. activeFor' \subseteq activeFor BY <2>1, ActiveIs
  <2>3. Money' = Money BY <2>1 DEF Money
  <2>4. QED BY <2>1, <2>2, <2>3
<1>6. QED BY <1>2, <1>3, <1>4, <1>5

LEMMA ServerKeepsHeard == ASSUME WindowInv, Server PROVE Steady' /\ (lost' = {} => Heard')
<1>1. /\ activeFor' \subseteq activeFor
      /\ (~moved' => ~moved /\ Money' = Money)
      /\ (kind = "withdraw" => due' = {})
      /\ UNCHANGED <<kind, win, hud, calls, lost, overtaken>>
  BY ServerMoves
<1>2. Steady' BY <1>1 DEF WindowInv, Steady, OneActive
<1>3. \A what : InTurn(what)' = InTurn(what) BY <1>1 DEF InTurn, Matters
<1>4. FormHeard => FormHeard'
  <2>1. WindowHears => WindowHears' BY <1>1 DEF WindowHears, Hears, Makes, Tells, Told
  <2>2. NewcomersWait => NewcomersWait' BY <1>1 DEF NewcomersWait
  <2>3. QED BY <1>3, <2>1, <2>2 DEF FormHeard
<1>5. DotHeard => DotHeard'
  <2>1. ChecksFollow => ChecksFollow' BY <1>1 DEF ChecksFollow
  <2>2. DotHears => DotHears' BY <1>1 DEF DotHears, Dots
  <2>3. QED BY <1>3, <2>1, <2>2 DEF DotHeard
<1>6. ASSUME MoneyHeard PROVE MoneyHeard'
  <2>1. ASSUME ~moved'
        PROVE  \/ \E i \in DOMAIN calls' : WillRead(calls[i])'
               \/ \E p \in 0..Len(calls') : Counts(p)'
    <3>1. ~moved /\ Money' = Money BY <1>1, <2>1
    <3>2. CASE \E i \in DOMAIN calls : WillRead(calls[i]) BY <1>1, <3>2 DEF WillRead
    <3>3. CASE \E p \in 0..Len(calls) : Counts(p) BY <1>1, <3>1, <3>3 DEF Counts
    <3>4. QED BY <1>6, <3>1, <3>2, <3>3 DEF MoneyHeard, MoneyHears
  <2>2. MoneyHears' BY <2>1 DEF MoneyHears
  <2>3. QED BY <1>3, <1>6, <2>2 DEF MoneyHeard
<1>7. lost = {} => Heard' BY <1>1, <1>4, <1>5, <1>6 DEF WindowInv, Heard
<1>8. QED BY <1>1, <1>2, <1>7

(***************************************************************************)
(* What the player asks for goes to the end of the list, and is not served *)
(* yet.                                                                    *)
(***************************************************************************)
LEMMA PlayerKeepsHeard == ASSUME WindowInv, Player \/ Poll PROVE Steady' /\ (lost' = {} => Heard')
<1> DEFINE n == Len(calls)
<1>1. WindowTyped /\ CallsTyped /\ Steady /\ win.n \in Nat
  BY DEF WindowInv, WindowTyped, WindowTypeOK, Windows
<1>2. PICK more \in Seq(Fresh) : Adds(more) BY <1>1, PlayerAsks
<1>3. UNCHANGED <<kind, status, due, hud, lost, moved>> /\ (Opens \/ Stays) BY <1>1, PlayerAsks
<1>4. activeFor' = activeFor /\ Money' = Money BY <1>3, ActiveIs DEF Money
<1>5. /\ n \in Nat /\ Len(more) \in Nat /\ DOMAIN calls = 1..n
      /\ Len(calls') = n + Len(more) /\ DOMAIN calls' = 1..(n + Len(more))
  BY <1>1, <1>2, CallsAreListed, AskFacts DEF Adds
<1>6. /\ \A j \in 1..n : j \in DOMAIN calls' /\ calls'[j] = calls[j]
      /\ \A j \in DOMAIN calls' : j \notin 1..n =>
           /\ j > n /\ ~calls'[j].served /\ calls'[j].of \in Nat
           /\ \E k \in 1..Len(more) : calls'[j] = more[k]
      /\ \A k \in 1..Len(more) : n + k \in DOMAIN calls' /\ calls'[n + k] = more[k]
  BY <1>1, <1>2, <1>5, AskFacts DEF Adds, Fresh, Asked
<1>7. \A j \in 1..n : calls[j].of \in Nat /\ calls[j].of <= win.n
  BY <1>1, <1>5, CallsAreListed DEF Steady, Asked
<1> HIDE DEF n
<1>8. win'.n \in Nat /\ win.n <= win'.n BY <1>1, <1>3 DEF Opens, Stays
<1>9. Steady'
  <2>2. OneActive' /\ (kind' = "withdraw" => due' = {}) BY <1>1, <1>3, <1>4 DEF Steady, OneActive
  <2>3. ASSUME NEW j \in DOMAIN calls' PROVE calls'[j].of <= win'.n
    <3>1. CASE j \in 1..n BY <1>1, <1>6, <1>7, <1>8, <3>1
    <3>2. CASE j \notin 1..n BY <1>2, <1>6, <3>2 DEF Adds
    <3>3. QED BY <3>1, <3>2
  <2>4. QED BY <2>2, <2>3 DEF Steady
<1>12. ASSUME NEW what, InTurn(what) PROVE InTurn(what)'
  <2>1. \A j \in DOMAIN calls' : calls'[j].served => j \in 1..n BY <1>6
  <2>2. \A i \in DOMAIN calls', j \in 1..n : i < j => i \in 1..n BY <1>5
  <2>3. QED BY <1>5, <1>6, <1>12, <2>1, <2>2 DEF InTurn, Matters
<1>13. ASSUME FormHeard PROVE FormHeard'
  <2>1. WindowHears /\ NewcomersWait /\ InTurn("form")' BY <1>12, <1>13 DEF FormHeard
  <2>2. WindowHears'
    <3>1. ASSUME NEW r \in activeFor' PROVE \E p \in 0..Len(calls') : Hears(r, p)'
      <4>1. PICK p \in 0..n : Hears(r, p) BY <1>4, <2>1, <3>1 DEF WindowHears, n
      <4>2. p \in 0..Len(calls') BY <1>5, <4>1
      <4>3. IF p = 0 THEN win'.open /\ win'.info.seen => win'.info.active = r
            ELSE Makes(calls'[p]) /\ calls'[p].id = r
        <5>1. CASE p = 0 BY <1>3, <4>1, <5>1 DEF Hears, Opens, Stays
        <5>2. CASE p # 0
          <6>1. p \in 1..n BY <1>5, <5>2
          <6>2. QED BY <1>6, <4>1, <5>2, <6>1 DEF Hears
        <5>3. QED BY <5>1, <5>2
      <4>4. ASSUME NEW j \in DOMAIN calls', j > p, Tells(calls'[j]) PROVE Told(calls'[j]) = r
        <5>1. j \in 1..n BY <1>6, <4>4 DEF Tells, Makes
        <5>2. QED BY <1>5, <1>6, <4>1, <4>4, <5>1 DEF Hears
      <4>5. Hears(r, p)' BY <4>3, <4>4 DEF Hears, Makes, Tells, Told
      <4>6. QED BY <4>2, <4>5
    <3>2. QED BY <3>1 DEF WindowHears
  <2>3. NewcomersWait'
    <3>1. ASSUME NEW i \in DOMAIN calls', calls'[i].what = "create", calls'[i].of # win'.n
          PROVE  /\ i \in 1..n /\ ~win'.info.seen
                 /\ \A j \in DOMAIN calls' :
                      j < i /\ calls'[j].what \in {"load", "reload", "create"} =>
                        calls'[j].of # win'.n
      <4>1. i \in 1..n BY <1>2, <1>6, <3>1 DEF Adds
      <4>2. calls[i].what = "create" /\ calls'[i] = calls[i] BY <1>6, <3>1, <4>1
      <4>3. \A j \in DOMAIN calls' : j < i => j \in 1..n /\ calls'[j] = calls[j]
        BY <1>5, <1>6, <4>1
      <4>4. CASE Opens
        <5>1. \A j \in 1..n : calls[j].of # win'.n BY <1>1, <1>7, <4>4 DEF Opens
        <5>2. QED BY <4>1, <4>3, <4>4, <5>1 DEF Opens
      <4>5. CASE Stays
        <5>1. win'.n = win.n /\ (win'.info.seen => win.info.seen) BY <4>5 DEF Stays
        <5>2. QED BY <1>5, <2>1, <3>1, <4>1, <4>2, <4>3, <5>1 DEF NewcomersWait
      <4>6. QED BY <1>3, <4>4, <4>5
    <3>2. QED BY <3>1 DEF NewcomersWait
  <2>4. QED BY <2>1, <2>2, <2>3 DEF FormHeard
<1>14. ASSUME Opens, About("form", DOMAIN calls) = {} PROVE FormHeard'
  <2>1. \A j \in 1..n : calls[j].what \notin {"load", "reload", "create"}
    BY <1>5, <1>14, WhatMatters DEF About
  <2>2. \A j \in DOMAIN calls' : ~Tells(calls'[j]) BY <1>6, <2>1 DEF Tells, Makes
  <2>3. ASSUME NEW r \in activeFor' PROVE \E p \in 0..Len(calls') : Hears(r, p)'
    <3>1. Hears(r, 0)' BY <1>14, <2>2 DEF Hears, Opens, Makes, Tells, Told
    <3>2. 0 \in 0..Len(calls') BY <1>5
    <3>3. QED BY <3>1, <3>2
  <2>4. ASSUME NEW i \in DOMAIN calls', calls'[i].what = "create" PROVE calls'[i].of = win'.n
    <3>1. i \notin 1..n BY <1>6, <2>1, <2>4
    <3>2. PICK k \in 1..Len(more) : calls'[i] = more[k] BY <1>6, <2>4, <3>1
    <3>3. more[k].what = "create" => more[k].of = win'.n BY <1>2 DEF Adds
    <3>4. QED BY <2>4, <3>2, <3>3
  <2>5. InTurn("form")'
    <3>1. \A j \in DOMAIN calls' : calls'[j].what \in Matters["form"] => ~calls'[j].served
      BY <1>6, <2>1, WhatMatters
    <3>2. \A i, j \in DOMAIN calls' :
            /\ i < j /\ calls'[j].served
            /\ calls'[i].what \in Matters["form"] /\ calls'[j].what \in Matters["form"]
            => calls'[i].served
      BY <3>1
    <3>3. QED BY <3>2 DEF InTurn, Matters
  <2>6. WindowHears' /\ NewcomersWait' BY <2>3, <2>4 DEF WindowHears, NewcomersWait
  <2>7. QED BY <2>5, <2>6 DEF FormHeard
<1>15. ASSUME DotHeard PROVE DotHeard'
  <2>1. ChecksFollow /\ DotHears /\ InTurn("dot")' BY <1>12, <1>15 DEF DotHeard
  <2>4. ASSUME kind' = "deposit", ~win'.open
        PROVE  \E k \in DOMAIN calls' : k > n /\ calls'[k].what = "check" /\ ~calls'[k].served
    <3>1. PICK k \in 1..Len(more) : more[k].what = "check" BY <1>2, <1>3, <2>4 DEF Adds
    <3>2. n + k \in DOMAIN calls' /\ calls'[n + k] = more[k] /\ n + k > n /\ n + k \notin 1..n
      BY <1>5, <1>6
    <3>3. QED BY <1>6, <3>1, <3>2
  <2>5. ChecksFollow'
    <3>1. ASSUME kind' = "deposit", ~win'.open, NEW i \in DOMAIN calls', calls'[i].what = "create"
          PROVE  \E j \in DOMAIN calls' : i < j /\ calls'[j].what = "check"
      <4>1. i \in 1..n
        <5>1. ASSUME Submit PROVE FALSE BY <1>1, <3>1, <5>1 DEF Submit, AtHand, WindowTyped,
                                           WindowTypeOK, Windows
        <5>2. QED BY <1>2, <1>6, <3>1, <5>1 DEF Adds
      <4>2. PICK k \in DOMAIN calls' : k > n /\ calls'[k].what = "check" BY <2>4, <3>1
      <4>3. i < k BY <1>5, <4>1, <4>2
      <4>4. QED BY <4>2, <4>3
    <3>2. QED BY <3>1 DEF ChecksFollow
  <2>6. DotHears'
    <3>1. ASSUME kind' = "deposit", ~win'.open, NEW r \in activeFor'
          PROVE  \E p \in 0..Len(calls') : Dots(r, p)'
      <4>1. PICK p \in DOMAIN calls' : p > n /\ calls'[p].what = "check" /\ ~calls'[p].served
        BY <2>4, <3>1
      <4>2. p \in 0..Len(calls') /\ p # 0 BY <1>5, <4>1
      <4>3. \A j \in DOMAIN calls' : j > p => ~calls'[j].served BY <1>5, <1>6, <4>1
      <4>4. Dots(r, p)' BY <4>1, <4>2, <4>3 DEF Dots
      <4>5. QED BY <4>2, <4>4
    <3>2. QED BY <3>1 DEF DotHears
  <2>7. QED BY <2>1, <2>5, <2>6 DEF DotHeard
<1>16. ASSUME MoneyHeard PROVE MoneyHeard'
  <2>1. MoneyHears /\ InTurn("money")' BY <1>12, <1>16 DEF MoneyHeard
  <2>7. MoneyHears'
    <3>1. ASSUME ~moved'
          PROVE  \/ \E i \in DOMAIN calls' : WillRead(calls[i])'
                 \/ \E p \in 0..Len(calls') : Counts(p)'
      <4>1. CASE \E i \in DOMAIN calls : WillRead(calls[i])
        BY <1>3, <1>5, <1>6, <4>1 DEF WillRead
      <4>2. CASE \E p \in 0..n : Counts(p)
        <5>1. PICK p \in 0..n : Counts(p) BY <4>2
        <5>2. p \in 0..Len(calls') BY <1>5, <5>1
        <5>3. IF p = 0 THEN hud'.money = Money'
              ELSE calls'[p].what = "me" /\ (calls'[p].served => calls'[p].money = Money')
          <6>1. CASE p = 0 BY <1>3, <1>4, <5>1, <6>1 DEF Counts
          <6>2. CASE p # 0
            <7>1. p \in 1..n BY <1>5, <6>2
            <7>2. QED BY <1>4, <1>6, <5>1, <6>2, <7>1 DEF Counts
          <6>3. QED BY <6>1, <6>2
        <5>4. ASSUME NEW j \in DOMAIN calls', j > p, calls'[j].what = "me", calls'[j].served
              PROVE  calls'[j].money = Money'
          <6>1. j \in 1..n BY <1>6, <5>4
          <6>2. QED BY <1>4, <1>5, <1>6, <5>1, <5>4, <6>1 DEF Counts
        <5>5. Counts(p)' BY <5>3, <5>4 DEF Counts
        <5>6. QED BY <5>2, <5>5
      <4>3. QED BY <1>3, <2>1, <3>1, <4>1, <4>2 DEF MoneyHears, n
    <3>2. QED BY <3>1 DEF MoneyHears
  <2>8. QED BY <2>1, <2>7 DEF MoneyHeard
<1>17. ASSUME lost = {} PROVE Heard'
  <2>1. Heard BY <1>17 DEF WindowInv
  <2>2. CASE overtaken' = overtaken BY <1>13, <1>15, <1>16, <2>1, <2>2 DEF Heard
  <2>3. CASE /\ Opens /\ About("form", DOMAIN calls) = {}
             /\ overtaken' = overtaken \ {"form"}
    BY <1>14, <1>15, <1>16, <2>1, <2>3 DEF Heard
  <2>4. QED BY <2>2, <2>3, PlayerAsks, <1>1
<1>18. QED BY <1>3, <1>9, <1>17

(***************************************************************************)
(* A call that ends leaves the others in their order.                      *)
(***************************************************************************)
LEMMA EndKeepsSteady ==
  ASSUME WindowInv, NEW i \in DOMAIN calls, NEW arrived \in BOOLEAN, Ends(i, arrived),
         UNCHANGED <<kind, status, due>>
  PROVE  Steady' /\ \A what : InTurn(what) => InTurn(what)'
<1> DEFINE n == Len(calls)
<1>1. WindowTyped /\ CallsTyped /\ Steady /\ win.n \in Nat
  BY DEF WindowInv, WindowTyped, WindowTypeOK, Windows
<1>2. PICK more \in Seq(Fresh) :
        /\ calls' = RemoveAt(calls, i) \o more
        /\ \A k \in 1..Len(more) : more[k].of \in {0, calls[i].of}
  BY <1>1, EndsShape
<1>3. win'.n = win.n BY <1>1, EndsShape
<1>4. n \in Nat /\ DOMAIN calls = 1..n /\ i \in 1..n /\ Len(more) \in Nat
      /\ DOMAIN calls' = 1..(n - 1 + Len(more))
  BY <1>1, <1>2, CallsAreListed, EndFacts
<1>5. /\ \A j \in 1..(n - 1) : Skip(i, j) \in 1..n /\ calls'[j] = calls[Skip(i, j)]
      /\ \A j \in DOMAIN calls' : j \notin 1..(n - 1) =>
           /\ calls'[j] \in Fresh
           /\ \E k \in 1..Len(more) : calls'[j] = more[k]
  BY <1>1, <1>2, <1>4, EndFacts
<1> HIDE DEF n
<1>6. ASSUME NEW what, InTurn(what) PROVE InTurn(what)'
  <2>1. SUFFICES ASSUME NEW j \in DOMAIN calls', NEW l \in DOMAIN calls', j < l,
                        calls'[l].served,
                        calls'[j].what \in Matters[what], calls'[l].what \in Matters[what]
                 PROVE  calls'[j].served
    BY DEF InTurn, Matters
  <2>2. l \in 1..(n - 1) /\ j \in 1..(n - 1) BY <1>4, <1>5, <2>1 DEF Fresh
  <2>3. Skip(i, j) < Skip(i, l) BY <1>4, <2>1, <2>2 DEF Skip
  <2>4. calls'[j] = calls[Skip(i, j)] /\ calls'[l] = calls[Skip(i, l)] BY <1>5, <2>2
  <2>5. Skip(i, j) \in DOMAIN calls /\ Skip(i, l) \in DOMAIN calls BY <1>4, <1>5, <2>2
  <2>6. QED BY <1>6, <2>1, <2>3, <2>4, <2>5 DEF InTurn
<1>7. ASSUME NEW j \in DOMAIN calls' PROVE calls'[j].of <= win'.n
  <2>1. CASE j \in 1..(n - 1) BY <1>1, <1>3, <1>4, <1>5, <2>1 DEF Steady
  <2>2. CASE j \notin 1..(n - 1)
    <3>1. PICK k \in 1..Len(more) : calls'[j] = more[k] BY <1>5, <2>2
    <3>2. calls'[j].of = 0 \/ calls'[j].of = calls[i].of BY <1>2, <3>1
    <3>3. calls[i].of <= win.n BY <1>1 DEF Steady
    <3>4. QED BY <1>1, <1>3, <3>2, <3>3
  <2>3. QED BY <2>1, <2>2
<1>8. OneActive' /\ (kind' = "withdraw" => due' = {}) BY <1>1, ActiveIs DEF Steady, OneActive
<1>9. QED BY <1>6, <1>7, <1>8 DEF Steady

LEMMA LoseKeepsHeard ==
  ASSUME WindowInv, NEW i \in DOMAIN calls, Lose(i)
  PROVE  Steady' /\ (lost' = {} => Heard')
<1>1. Ends(i, FALSE) /\ UNCHANGED <<kind, status, due>> /\ lost' # {} BY DEF Lose
<1>2. Steady' BY <1>1, EndKeepsSteady
<1>3. QED BY <1>1, <1>2

(***************************************************************************)
(* An answer takes one call out of the list and adds some at its end.      *)
(***************************************************************************)
(* Where what was the j-th is when the i-th was removed.                   *)
Now(i, j) == IF j < i THEN j ELSE j - 1

LEMMA AnswerGoes ==
  ASSUME WindowInv, NEW i \in DOMAIN calls, Ends(i, TRUE)
  PROVE  LET n == Len(calls) IN
         /\ n \in Nat \ {0} /\ DOMAIN calls = 1..n /\ Len(calls') \in Nat
         /\ DOMAIN calls' = 1..Len(calls')
         /\ \A j \in DOMAIN calls \ {i} :
              Now(i, j) \in DOMAIN calls' /\ calls'[Now(i, j)] = calls[j]
         /\ \A j \in DOMAIN calls' :
              \/ j < n /\ Skip(i, j) \in DOMAIN calls \ {i} /\ calls'[j] = calls[Skip(i, j)]
              \/ j >= n /\ ~calls'[j].served /\ calls'[j].what \in {"me", "check", "reload"}
<1> DEFINE n == Len(calls)
<1>1. WindowTyped /\ CallsTyped BY DEF WindowInv, WindowTyped
<1>2. PICK more \in Seq(Fresh) :
        /\ calls' = RemoveAt(calls, i) \o more
        /\ \A k \in 1..Len(more) : more[k].what \in {"me", "check", "reload"}
  BY <1>1, EndsShape
<1>3. n \in Nat /\ DOMAIN calls = 1..n /\ i \in 1..n BY <1>1, CallsAreListed
<1>4. /\ Len(more) \in Nat /\ DOMAIN calls' = 1..(n - 1 + Len(more))
      /\ Len(calls') = n - 1 + Len(more)
  BY <1>1, <1>2, EndFacts
<1>5. /\ \A j \in 1..(n - 1) :
           j \in DOMAIN calls' /\ calls'[j] = calls[Skip(i, j)] /\ Skip(i, j) \in DOMAIN calls \ {i}
      /\ \A j \in DOMAIN calls' : j \notin 1..(n - 1) =>
           /\ j > n - 1 /\ calls'[j] \in Fresh
           /\ \E k \in 1..Len(more) : calls'[j] = more[k]
  BY <1>1, <1>2, EndFacts
<1> HIDE DEF n
<1>6. ASSUME NEW j \in DOMAIN calls \ {i}
      PROVE  Now(i, j) \in DOMAIN calls' /\ calls'[Now(i, j)] = calls[j]
  <2> DEFINE k == Now(i, j)
  <2>1. k \in 1..(n - 1) /\ Skip(i, k) = j BY <1>3 DEF Now, Skip
  <2> HIDE DEF k
  <2>2. k \in DOMAIN calls' /\ calls'[k] = calls[j] BY <1>5, <2>1
  <2>3. QED BY <2>2 DEF k
<1>7. ASSUME NEW j \in DOMAIN calls'
      PROVE  \/ j < n /\ Skip(i, j) \in DOMAIN calls \ {i} /\ calls'[j] = calls[Skip(i, j)]
             \/ j >= n /\ ~calls'[j].served /\ calls'[j].what \in {"me", "check", "reload"}
  <2>1. CASE j \in 1..(n - 1) BY <1>3, <1>5, <2>1
  <2>2. CASE j \notin 1..(n - 1) BY <1>2, <1>3, <1>4, <1>5, <2>2 DEF Fresh
  <2>3. QED BY <2>1, <2>2
<1>8. n \in Nat \ {0} /\ n - 1 + Len(more) \in Nat BY <1>3, <1>4
<1>9. QED BY <1>3, <1>4, <1>6, <1>7, <1>8 DEF n

(* What the window and the game show after the answer.                     *)
LEMMA AnswerShows ==
  ASSUME WindowTyped, NEW i \in DOMAIN calls, calls[i].served, Ends(i, TRUE)
  PROVE  LET c == calls[i] IN
         /\ Tells(c) /\ Mine(c) =>
              \/ c.what # "create" /\ win'.info.active = Told(c)
              \/ c.what = "create" /\ win.info.seen /\ win'.info.active = Told(c) /\ win'.info.seen
              \/ c.what = "create" /\ ~win.info.seen /\ ~win'.info.seen
         /\ ~(Tells(c) /\ Mine(c)) => win'.info = win.info
         /\ hud'.dot = IF c.what = "check" THEN c.info.active # None ELSE hud.dot
         /\ hud'.money = IF c.what = "me" THEN c.money ELSE hud.money
<1> DEFINE c == calls[i]
<1>1. c \in Asked /\ win \in Windows /\ hud \in [money : SUBSET DOMAIN status, dot : BOOLEAN]
  BY CallsAreListed DEF WindowTyped, WindowTypeOK
<1>2. CASE LoadEnds(i, TRUE)
  <2>1. /\ c.what \in {"load", "reload"} /\ hud' = hud
        /\ win' = IF c.what = "reload" THEN Free(Paint(c, c.info), c) ELSE Paint(c, c.info)
    BY <1>2 DEF LoadEnds
  <2> HIDE DEF c
  <2>2. win'.info = IF Mine(c) THEN c.info ELSE win.info
    BY <1>1, <2>1 DEF Free, Paint, Mine, Windows
  <2>3. Tells(c) /\ Told(c) = c.info.active BY <2>1 DEF Tells, Told, c
  <2>4. QED BY <2>1, <2>2, <2>3 DEF c
<1>3. CASE CreateEnds(i, TRUE)
  <2> DEFINE info == [win.info EXCEPT !.active = c.id, !.paid = FALSE]
             painted == IF c.ok /\ win.info.seen THEN Paint(c, info) ELSE win
  <2>1. c.what = "create" /\ hud' = hud /\ win' = Free(painted, c)
    BY <1>3 DEF CreateEnds
  <2> HIDE DEF c
  <2>2. info.active = c.id /\ info.seen = win.info.seen BY <1>1 DEF Windows
  <2> HIDE DEF info
  <2>3. painted.info = IF c.ok /\ win.info.seen /\ Mine(c) THEN info ELSE win.info
    BY <1>1 DEF Paint, Windows
  <2>4. win'.info = painted.info
    <3>1. DOMAIN painted = DOMAIN win BY <1>1 DEF Paint, Windows
    <3> HIDE DEF painted
    <3>2. QED BY <2>1, <3>1 DEF Free
  <2> HIDE DEF painted
  <2>5. (Tells(c) <=> c.ok) /\ Told(c) = c.id BY <2>1 DEF Tells, Told, Makes, c
  <2>6. c.ok \in BOOLEAN /\ win.info.seen \in BOOLEAN BY <1>1 DEF Asked, Windows
  <2>7. QED BY <2>1, <2>2, <2>3, <2>4, <2>5, <2>6 DEF c
<1>4. CASE CancelEnds(i, TRUE)
  <2>1. c.what = "cancel" /\ hud' = hud /\ win' = IF c.ok THEN win ELSE Free(win, c)
    BY <1>4 DEF CancelEnds
  <2> HIDE DEF c
  <2>2. win'.info = win.info BY <1>1, <2>1 DEF Free, Windows
  <2>3. ~Tells(c) BY <2>1 DEF Tells, Makes
  <2>4. QED BY <2>1, <2>2, <2>3 DEF c
<1>5. CASE GameEnds(i, TRUE)
  <2>1. /\ c.what \in {"me", "check"} /\ win' = win
        /\ hud' = IF c.what = "me" THEN [hud EXCEPT !.money = c.money]
                  ELSE [hud EXCEPT !.dot = c.info.active # None]
    BY <1>5 DEF GameEnds
  <2> HIDE DEF c
  <2>2. ~Tells(c) BY <2>1 DEF Tells, Makes
  <2>3. QED BY <1>1, <2>1, <2>2 DEF c
<1>6. QED BY <1>2, <1>3, <1>4, <1>5 DEF Ends

(* Whose money moved by what the player did, reads the balance next.       *)
LEMMA AnswerReads ==
  ASSUME WindowInv, NEW i \in DOMAIN calls, Ends(i, TRUE), WillRead(calls[i])
  PROVE  \E j \in DOMAIN calls' :
           j >= Len(calls) /\ ~calls'[j].served /\ calls'[j].what \in {"me", "reload"}
<1> DEFINE n == Len(calls)
           c == calls[i]
<1>1. CallsTyped /\ c \in Asked /\ n \in Nat
  BY CallsAreListed DEF WindowInv, WindowTyped
<1>2. ASSUME NEW more \in Seq(Fresh), Follow(i, more), NEW k \in 1..Len(more),
             more[k].what \in {"me", "reload"}
      PROVE  \E j \in DOMAIN calls' :
               j >= n /\ ~calls'[j].served /\ calls'[j].what \in {"me", "reload"}
  <2>1. calls' = RemoveAt(calls, i) \o more BY <1>2 DEF Follow
  <2>2. n - 1 + k \in DOMAIN calls' /\ calls'[n - 1 + k] = more[k] BY <1>1, <2>1, EndFacts
  <2>3. n - 1 + k >= n BY <1>1
  <2>4. more[k] \in Fresh BY ElementOfSeq
  <2>5. QED BY <1>2, <2>2, <2>3, <2>4 DEF Fresh
<1>3. /\ <<>> \in Seq(Fresh) /\ Tell \in Seq(Fresh) /\ 1 \in 1..Len(Tell)
      /\ Tell[1].what = "me"
  BY EmptySeq, TellIsRead, ReadsAreFresh
<1>4. CASE LoadEnds(i, TRUE)
  <2>1. c.what = "reload" BY <1>4 DEF LoadEnds, WillRead
  <2>2. Gone(c) \in Seq(Fresh) BY <1>3 DEF Gone
  <2>3. Follow(i, Gone(c) \o Tell) BY <1>4, <2>1 DEF LoadEnds
  <2> DEFINE more == Gone(c) \o Tell
             k == Len(Gone(c)) + 1
  <2>4. more \in Seq(Fresh) /\ Len(more) = Len(Gone(c)) + Len(Tell)
        /\ \A l \in 1..(Len(Gone(c)) + Len(Tell)) :
             more[l] = IF l <= Len(Gone(c)) THEN Gone(c)[l] ELSE Tell[l - Len(Gone(c))]
    BY <1>3, <2>2, ConcatProperties
  <2>5. Len(Gone(c)) \in Nat /\ Len(Tell) \in Nat BY <1>3, <2>2, LenProperties
  <2> HIDE DEF more
  <2>6. k \in 1..Len(more) /\ more[k] = Tell[1] BY <1>3, <2>4, <2>5
  <2>7. Follow(i, more) BY <2>3 DEF more
  <2> HIDE DEF k
  <2>8. QED BY <1>2, <1>3, <2>4, <2>6, <2>7
<1>5. CASE CreateEnds(i, TRUE)
  <2>1. c.ok /\ kind = "withdraw" BY <1>5 DEF CreateEnds, WillRead
  <2>2. Follow(i, Tell) BY <1>5, <2>1 DEF CreateEnds
  <2>3. QED BY <1>2, <1>3, <2>2
<1>6. CASE CancelEnds(i, TRUE)
  <2> DEFINE reload == Call("reload", None, c.of)
  <2>1. c.ok BY <1>6 DEF CancelEnds, WillRead
  <2>2. Follow(i, <<reload>>) BY <1>6, <2>1 DEF CancelEnds
  <2>3. reload \in Fresh /\ reload.what = "reload" BY <1>1, CallIsFresh DEF Asked, Words
  <2> HIDE DEF reload
  <2>4. <<reload>> \in Seq(Fresh) /\ Len(<<reload>>) = 1 /\ <<reload>>[1] = reload
    BY <2>3, OneCall
  <2>5. 1 \in 1..Len(<<reload>>) /\ <<reload>>[1].what = "reload" BY <2>3, <2>4
  <2>6. QED BY <1>2, <2>2, <2>4, <2>5
<1>7. CASE GameEnds(i, TRUE) BY <1>7 DEF GameEnds, WillRead
<1>8. QED BY <1>4, <1>5, <1>6, <1>7 DEF Ends

LEMMA AnswerKeepsHeard ==
  ASSUME WindowInv, NEW i \in DOMAIN calls, Answer(i)
  PROVE  Steady' /\ (lost' = {} => Heard')
<1> DEFINE n == Len(calls)
           c == calls[i]
<1>1. /\ c.served /\ Ends(i, TRUE) /\ UNCHANGED <<kind, status, due, lost, moved>>
      /\ overtaken' = overtaken \cup Overtakes(i, DOMAIN calls)
  BY DEF Answer
<1>2. WindowTyped /\ CallsTyped /\ Steady /\ c \in Asked
  BY CallsAreListed DEF WindowInv, WindowTyped
<1>3. activeFor' = activeFor /\ Money' = Money /\ activeFor \subseteq Requests
  BY <1>1, <1>2, ActiveIs, SweptFits DEF Money, WindowTyped
<1>4. /\ n \in Nat \ {0} /\ DOMAIN calls = 1..n /\ Len(calls') \in Nat
      /\ DOMAIN calls' = 1..Len(calls')
      /\ \A j \in DOMAIN calls \ {i} :
           Now(i, j) \in DOMAIN calls' /\ calls'[Now(i, j)] = calls[j]
      /\ \A j \in DOMAIN calls' :
           \/ j < n /\ Skip(i, j) \in DOMAIN calls \ {i} /\ calls'[j] = calls[Skip(i, j)]
           \/ j >= n /\ ~calls'[j].served /\ calls'[j].what \in {"me", "check", "reload"}
  BY <1>1, AnswerGoes
<1>5. /\ Tells(c) /\ Mine(c) =>
           \/ c.what # "create" /\ win'.info.active = Told(c)
           \/ c.what = "create" /\ win.info.seen /\ win'.info.active = Told(c) /\ win'.info.seen
           \/ c.what = "create" /\ ~win.info.seen /\ ~win'.info.seen
      /\ ~(Tells(c) /\ Mine(c)) => win'.info = win.info
      /\ hud'.dot = IF c.what = "check" THEN c.info.active # None ELSE hud.dot
      /\ hud'.money = IF c.what = "me" THEN c.money ELSE hud.money
  BY <1>1, <1>2, AnswerShows
<1>6. win'.open = win.open /\ win'.n = win.n BY <1>1, <1>2, EndsShape
<1>7. Steady' /\ \A what : InTurn(what) => InTurn(what)' BY <1>1, EndKeepsSteady
<1>8. ASSUME NEW what \in DOMAIN Matters, what \notin Overtakes(i, DOMAIN calls),
             c.what \in Matters[what], NEW j \in DOMAIN calls, calls[j].what \in Matters[what]
      PROVE  ~(j < i)
  BY <1>8 DEF Overtakes, About
<1>9. DOMAIN Matters = {"form", "dot", "money"} BY DEF Matters
<1>10. i \in 1..n /\ c.what = calls[i].what BY <1>4
<1> HIDE DEF n, c
<1>11. ASSUME NEW p \in DOMAIN calls \ {i}
       PROVE  /\ Now(i, p) \in 0..Len(calls') /\ Now(i, p) # 0
              /\ \A j \in DOMAIN calls' : j > Now(i, p) => Skip(i, j) > p
  <2>1. Now(i, p) \in 1..Len(calls') BY <1>4
  <2>2. p \in 1..n BY <1>4
  <2>3. \A j \in DOMAIN calls' : j > Now(i, p) => Skip(i, j) > p
    BY <1>4, <1>10, <2>1, <2>2 DEF Now, Skip
  <2>4. QED BY <1>4, <2>1, <2>3
<1>12. ASSUME NEW j \in DOMAIN calls', NEW l \in DOMAIN calls', j < l
       PROVE  Skip(i, j) < Skip(i, l)
  BY <1>4, <1>10, <1>12 DEF Skip
<1>13. \A j \in DOMAIN calls' : calls'[j].served =>
         Skip(i, j) \in DOMAIN calls \ {i} /\ Skip(i, j) > 0 /\ calls'[j] = calls[Skip(i, j)]
  BY <1>4
<1>14. \A j \in DOMAIN calls' : calls'[j].what = "create" =>
         j < n /\ Skip(i, j) \in DOMAIN calls \ {i} /\ calls'[j] = calls[Skip(i, j)]
  BY <1>4
<1>15. 0 \in 0..Len(calls') BY <1>4
<1>16. \A d : Tells(d) => d.served /\ d.what \in Matters["form"]
  BY WhatMatters DEF Tells, Makes
<1>17. ASSUME FormHeard, "form" \notin Overtakes(i, DOMAIN calls) PROVE FormHeard'
  <2>1. WindowHears /\ NewcomersWait /\ InTurn("form")' BY <1>7, <1>17 DEF FormHeard
  <2>2. \A j \in DOMAIN calls :
          c.what \in Matters["form"] /\ calls[j].what \in Matters["form"] => ~(j < i)
    BY <1>8, <1>9, <1>17
  <2>3. ASSUME NEW l \in DOMAIN calls', calls'[l].what = "create", calls'[l].of # win'.n
        PROVE  /\ ~win'.info.seen
               /\ \A j \in DOMAIN calls' :
                    j < l /\ calls'[j].what \in {"load", "reload", "create"} =>
                      calls'[j].of # win'.n
    <3> DEFINE k == Skip(i, l)
    <3>1. k \in DOMAIN calls \ {i} /\ calls'[l] = calls[k] /\ l < n BY <1>14, <2>3
    <3> HIDE DEF k
    <3>2. /\ ~win.info.seen
          /\ \A j \in DOMAIN calls :
               j < k /\ calls[j].what \in {"load", "reload", "create"} => calls[j].of # win.n
      BY <1>6, <2>1, <2>3, <3>1 DEF NewcomersWait
    <3>3. ASSUME Tells(c), Mine(c) PROVE FALSE
      <4>1. c.what \in {"load", "reload", "create"} BY <1>16, <3>3, WhatMatters
      <4>2. calls[k].what = "create" BY <2>3, <3>1
      <4>3. ~(k < i) BY <2>2, <3>1, <4>1, <4>2, WhatMatters
      <4>4. k \in 1..n /\ k # i BY <1>4, <3>1
      <4>5. i < k BY <1>10, <4>3, <4>4
      <4>6. c.of # win.n BY <3>2, <4>1, <4>5 DEF c
      <4>7. QED BY <3>3, <4>6 DEF Mine
    <3>4. ~win'.info.seen BY <1>5, <3>2, <3>3
    <3>5. ASSUME NEW j \in DOMAIN calls', j < l,
                 calls'[j].what \in {"load", "reload", "create"}
          PROVE  calls'[j].of # win'.n
      <4>1. j < n BY <1>4, <3>1, <3>5
      <4>2. Skip(i, j) \in DOMAIN calls /\ calls'[j] = calls[Skip(i, j)] BY <1>4, <4>1
      <4>3. Skip(i, j) < k BY <1>12, <3>5 DEF k
      <4>4. QED BY <1>6, <3>2, <3>5, <4>2, <4>3
    <3>6. QED BY <3>4, <3>5
  <2>4. ASSUME NEW r \in activeFor' PROVE \E p \in 0..Len(calls') : Hears(r, p)'
    <3>1. PICK p \in 0..n : Hears(r, p) BY <1>3, <2>1, <2>4 DEF WindowHears, n
    <3>2. CASE p # 0 /\ p # i
      <4> DEFINE q == Now(i, p)
      <4>1. p \in DOMAIN calls \ {i} BY <1>4, <3>2
      <4>2. /\ q \in 0..Len(calls') /\ q # 0 /\ calls'[q] = calls[p]
            /\ \A j \in DOMAIN calls' : j > q => Skip(i, j) > p
        BY <1>4, <1>11, <4>1
      <4> HIDE DEF q
      <4>3. Makes(calls'[q]) /\ calls'[q].id = r BY <3>1, <3>2, <4>2 DEF Hears
      <4>4. ASSUME NEW j \in DOMAIN calls', j > q, Tells(calls'[j]) PROVE Told(calls'[j]) = r
        BY <1>13, <1>16, <3>1, <4>2, <4>4 DEF Hears
      <4>5. Hears(r, q)' BY <4>2, <4>3, <4>4 DEF Hears, Makes, Tells, Told
      <4>6. QED BY <4>2, <4>5
    <3>3. CASE p = 0 \/ p = i
      <4>1. Tells(c) => Told(c) = r
        <5>1. CASE p = 0 BY <1>10, <3>1, <5>1 DEF Hears, c
        <5>2. CASE p = i BY <1>10, <3>1, <5>2 DEF Hears, Told, Makes, c
        <5>3. QED BY <3>3, <5>1, <5>2
      <4>2. win'.open /\ win'.info.seen => win'.info.active = r
        <5>1. CASE Tells(c) /\ Mine(c) BY <1>5, <4>1, <5>1
        <5>2. CASE ~(Tells(c) /\ Mine(c)) /\ p = 0 BY <1>5, <1>6, <3>1, <5>2 DEF Hears
        <5>3. CASE ~(Tells(c) /\ Mine(c)) /\ p = i
          <6>1. Makes(c) BY <1>10, <3>1, <5>3 DEF Hears, c
          <6>2. c.what = "create" /\ ~Mine(c) BY <5>3, <6>1 DEF Tells, Makes
          <6>3. win.open => c.of # win.n BY <6>2 DEF Mine
          <6>4. win.open => ~win.info.seen BY <2>1, <6>2, <6>3 DEF NewcomersWait, c
          <6>5. QED BY <1>5, <1>6, <5>3, <6>4
        <5>4. QED BY <3>3, <5>1, <5>2, <5>3
      <4>3. ASSUME NEW j \in DOMAIN calls', Tells(calls'[j]) PROVE Told(calls'[j]) = r
        <5> DEFINE k == Skip(i, j)
        <5>1. /\ k \in DOMAIN calls \ {i} /\ k > 0 /\ calls'[j] = calls[k]
              /\ calls[k].what \in Matters["form"]
          BY <1>13, <1>16, <4>3
        <5> HIDE DEF k
        <5>2. CASE p = 0 BY <3>1, <4>3, <5>1, <5>2 DEF Hears
        <5>3. CASE p = i
          <6>1. Makes(c) BY <1>10, <3>1, <5>3 DEF Hears, c
          <6>2. ~(k < i) BY <1>16, <2>2, <5>1, <6>1 DEF Tells
          <6>3. k > i BY <1>4, <1>10, <5>1, <6>2
          <6>4. QED BY <3>1, <4>3, <5>1, <5>3, <6>3 DEF Hears
        <5>4. QED BY <3>3, <5>2, <5>3
      <4>4. Hears(r, 0)' BY <4>2, <4>3 DEF Hears, Makes, Tells, Told
      <4>5. QED BY <1>15, <4>4
    <3>4. QED BY <3>2, <3>3
  <2>5. NewcomersWait' BY <2>3 DEF NewcomersWait
  <2>6. WindowHears' BY <2>4 DEF WindowHears
  <2>7. QED BY <2>1, <2>5, <2>6 DEF FormHeard
<1>18. ASSUME DotHeard, "dot" \notin Overtakes(i, DOMAIN calls) PROVE DotHeard'
  <2>1. ChecksFollow /\ DotHears /\ InTurn("dot")' BY <1>7, <1>18 DEF DotHeard
  <2>2. \A j \in DOMAIN calls :
          c.what \in Matters["dot"] /\ calls[j].what \in Matters["dot"] => ~(j < i)
    BY <1>8, <1>9, <1>18
  <2>3. ASSUME kind' = "deposit", ~win'.open, NEW l \in DOMAIN calls', calls'[l].what = "create"
        PROVE  \E j \in DOMAIN calls' : l < j /\ calls'[j].what = "check"
    <3> DEFINE k == Skip(i, l)
    <3>1. k \in DOMAIN calls \ {i} /\ calls'[l] = calls[k] BY <1>14, <2>3
    <3>2. kind = "deposit" /\ ~win.open BY <1>1, <1>6, <2>3
    <3> HIDE DEF k
    <3>3. PICK j \in DOMAIN calls : k < j /\ calls[j].what = "check"
      BY <2>1, <2>3, <3>1, <3>2 DEF ChecksFollow
    <3>4. j # i BY <2>2, <2>3, <3>1, <3>3, WhatMatters DEF c
    <3>5. Now(i, j) \in DOMAIN calls' /\ calls'[Now(i, j)] = calls[j] BY <1>4, <3>4
    <3>6. l < Now(i, j)
      <4>1. j \in 1..n /\ l \in 1..Len(calls') BY <1>4
      <4>2. QED BY <1>4, <1>10, <3>3, <3>4, <4>1 DEF k, Skip, Now
    <3>7. QED BY <3>3, <3>5, <3>6
  <2>4. ASSUME kind' = "deposit", ~win'.open, NEW r \in activeFor'
        PROVE  \E p \in 0..Len(calls') : Dots(r, p)'
    <3>1. PICK p \in 0..n : Dots(r, p)
      BY <1>1, <1>3, <1>6, <2>1, <2>4 DEF DotHears, n
    <3>2. CASE p # 0 /\ p # i
      <4> DEFINE q == Now(i, p)
      <4>1. p \in DOMAIN calls \ {i} BY <1>4, <3>2
      <4>2. /\ q \in 0..Len(calls') /\ q # 0 /\ calls'[q] = calls[p]
            /\ \A j \in DOMAIN calls' : j > q => Skip(i, j) > p
        BY <1>4, <1>11, <4>1
      <4> HIDE DEF q
      <4>3. calls'[q].what = "check" /\ (calls'[q].served => calls'[q].info.active = r)
        BY <3>1, <3>2, <4>2 DEF Dots
      <4>4. ASSUME NEW j \in DOMAIN calls', j > q, calls'[j].what = "check", calls'[j].served
            PROVE  calls'[j].info.active = r
        BY <1>13, <3>1, <4>2, <4>4 DEF Dots
      <4>5. Dots(r, q)' BY <4>2, <4>3, <4>4 DEF Dots
      <4>6. QED BY <4>2, <4>5
    <3>3. CASE p = 0 \/ p = i
      <4>1. r # None BY <1>3, <2>4, NoneIsNoRequest
      <4>2. c.what = "check" => c.info.active = r BY <1>1, <1>10, <3>1, <3>3 DEF Dots, c
      <4>3. c.what = "check" \/ hud.dot BY <1>10, <3>1, <3>3 DEF Dots, c
      <4>4. hud'.dot BY <1>5, <4>1, <4>2, <4>3
      <4>5. ASSUME NEW j \in DOMAIN calls', calls'[j].what = "check", calls'[j].served
            PROVE  calls'[j].info.active = r
        <5> DEFINE k == Skip(i, j)
        <5>1. k \in DOMAIN calls \ {i} /\ k > 0 /\ calls'[j] = calls[k] BY <1>13, <4>5
        <5> HIDE DEF k
        <5>2. CASE p = 0 BY <3>1, <4>5, <5>1, <5>2 DEF Dots
        <5>3. CASE p = i
          <6>1. c.what = "check" BY <1>10, <3>1, <5>3 DEF Dots, c
          <6>2. ~(k < i) BY <2>2, <4>5, <5>1, <6>1, WhatMatters
          <6>3. k > i BY <1>4, <1>10, <5>1, <6>2
          <6>4. QED BY <3>1, <4>5, <5>1, <5>3, <6>3 DEF Dots
        <5>4. QED BY <3>3, <5>2, <5>3
      <4>6. Dots(r, 0)' BY <4>4, <4>5 DEF Dots
      <4>7. QED BY <1>15, <4>6
    <3>4. QED BY <3>2, <3>3
  <2>5. ChecksFollow' BY <2>3 DEF ChecksFollow
  <2>6. DotHears' BY <2>4 DEF DotHears
  <2>7. QED BY <2>1, <2>5, <2>6 DEF DotHeard
<1>19. ASSUME MoneyHeard, "money" \notin Overtakes(i, DOMAIN calls) PROVE MoneyHeard'
  <2>1. MoneyHears /\ InTurn("money")' BY <1>7, <1>19 DEF MoneyHeard
  <2>2. \A j \in DOMAIN calls : c.what = "me" /\ calls[j].what = "me" => ~(j < i)
    BY <1>8, <1>9, <1>19, WhatMatters
  <2>3. ASSUME WillRead(c)
        PROVE  \/ \E l \in DOMAIN calls' : WillRead(calls[l])'
               \/ \E p \in 0..Len(calls') : Counts(p)'
    <3>1. PICK j \in DOMAIN calls' :
            j >= n /\ ~calls'[j].served /\ calls'[j].what \in {"me", "reload"}
      BY <1>1, <2>3, AnswerReads DEF n, c
    <3>2. CASE calls'[j].what = "reload" BY <3>2 DEF WillRead
    <3>3. CASE calls'[j].what = "me"
      <4>1. j \in 0..Len(calls') /\ j # 0 BY <1>4
      <4>2. \A k \in DOMAIN calls' : k > j => ~calls'[k].served BY <1>4, <3>1
      <4>3. Counts(j)' BY <3>1, <3>3, <4>1, <4>2 DEF Counts
      <4>4. QED BY <4>1, <4>3
    <3>4. QED BY <3>1, <3>2, <3>3
  <2>4. ASSUME NEW k \in DOMAIN calls, k # i, WillRead(calls[k])
        PROVE  \E l \in DOMAIN calls' : WillRead(calls[l])'
    <3> DEFINE l == Now(i, k)
    <3>1. l \in DOMAIN calls' /\ calls'[l] = calls[k] BY <1>4, <2>4
    <3> HIDE DEF l
    <3>2. WillRead(calls[l])' BY <1>1, <2>4, <3>1 DEF WillRead
    <3>3. QED BY <3>1, <3>2
  <2>5. ASSUME NEW p \in 0..n, Counts(p) PROVE \E q \in 0..Len(calls') : Counts(q)'
    <3>1. CASE p # 0 /\ p # i
      <4> DEFINE q == Now(i, p)
      <4>1. p \in DOMAIN calls \ {i} BY <1>4, <3>1
      <4>2. /\ q \in 0..Len(calls') /\ q # 0 /\ calls'[q] = calls[p]
            /\ \A j \in DOMAIN calls' : j > q => Skip(i, j) > p
        BY <1>4, <1>11, <4>1
      <4> HIDE DEF q
      <4>3. calls'[q].what = "me" /\ (calls'[q].served => calls'[q].money = Money')
        BY <1>3, <2>5, <3>1, <4>2 DEF Counts
      <4>4. ASSUME NEW j \in DOMAIN calls', j > q, calls'[j].what = "me", calls'[j].served
            PROVE  calls'[j].money = Money'
        BY <1>3, <1>13, <2>5, <4>2, <4>4 DEF Counts
      <4>5. Counts(q)' BY <4>2, <4>3, <4>4 DEF Counts
      <4>6. QED BY <4>2, <4>5
    <3>2. CASE p = 0 \/ p = i
      <4>1. c.what = "me" => c.money = Money BY <1>1, <1>10, <2>5, <3>2 DEF Counts, c
      <4>2. c.what = "me" \/ hud.money = Money BY <1>10, <2>5, <3>2 DEF Counts, c
      <4>3. hud'.money = Money' BY <1>3, <1>5, <4>1, <4>2
      <4>4. ASSUME NEW j \in DOMAIN calls', calls'[j].what = "me", calls'[j].served
            PROVE  calls'[j].money = Money'
        <5> DEFINE k == Skip(i, j)
        <5>1. k \in DOMAIN calls \ {i} /\ k > 0 /\ calls'[j] = calls[k] BY <1>13, <4>4
        <5> HIDE DEF k
        <5>2. CASE p = 0 BY <1>3, <2>5, <4>4, <5>1, <5>2 DEF Counts
        <5>3. CASE p = i
          <6>1. c.what = "me" BY <1>10, <2>5, <5>3 DEF Counts, c
          <6>2. ~(k < i) BY <2>2, <4>4, <5>1, <6>1
          <6>3. k > i BY <1>4, <1>10, <5>1, <6>2
          <6>4. QED BY <1>3, <2>5, <4>4, <5>1, <5>3, <6>3 DEF Counts
        <5>4. QED BY <3>2, <5>2, <5>3
      <4>5. Counts(0)' BY <4>3, <4>4 DEF Counts
      <4>6. QED BY <1>15, <4>5
    <3>3. QED BY <3>1, <3>2
  <2>6. MoneyHears'
    <3>1. ASSUME ~moved'
          PROVE  \/ \E l \in DOMAIN calls' : WillRead(calls[l])'
                 \/ \E p \in 0..Len(calls') : Counts(p)'
      <4>1. ~moved BY <1>1, <3>1
      <4>2. CASE \E k \in DOMAIN calls : WillRead(calls[k]) BY <2>3, <2>4, <4>2 DEF c
      <4>3. CASE \E p \in 0..n : Counts(p) BY <2>5, <4>3
      <4>4. QED BY <2>1, <4>1, <4>2, <4>3 DEF MoneyHears, n
    <3>2. QED BY <3>1 DEF MoneyHears
  <2>7. QED BY <2>1, <2>6 DEF MoneyHeard
<1>20. ASSUME lost = {} PROVE Heard'
  BY <1>1, <1>17, <1>18, <1>19, <1>20 DEF WindowInv, Heard
<1>21. QED BY <1>1, <1>7, <1>20

(***************************************************************************)
(* A call is served.                                                       *)
(***************************************************************************)
(* What a call that was served has become, and what was done for it.       *)
Looked(new) ==
  /\ new.what \in {"load", "reload", "check"} /\ activeFor' = activeFor /\ Money' = Money
  /\ moved' = moved /\ (activeFor # {} => new.info.active \in activeFor)
Turned(new) ==
  new.what = "create" /\ ~new.ok /\ activeFor' = activeFor /\ Money' = Money /\ moved' = moved
Created(new) ==
  /\ new.what = "create" /\ new.ok /\ moved' = moved
  /\ activeFor' \subseteq {new.id} /\ (kind = "deposit" => Money' = Money)
Canceled(new) ==
  /\ new.what = "cancel" /\ activeFor' \subseteq activeFor /\ moved' = moved
  /\ new.ok \/ Money' = Money
Reckoned(new) ==
  new.what = "me" /\ activeFor' = activeFor /\ Money' = Money /\ new.money = Money /\ moved' = FALSE

(* A sweep closes what is over, and moves no money.                        *)
LEMMA SweepMovesNothing ==
  ASSUME WindowTyped, kind = "withdraw" => due = {}, status' = Swept, UNCHANGED <<kind, due>>
  PROVE  activeFor' = activeFor /\ Money' = Money
<1>1. \A x \in DOMAIN status :
        Swept[x] = IF status[x] = "pending" /\ x \in due THEN "expired" ELSE status[x]
  BY DEF Swept
<1>2. DOMAIN status' = DOMAIN status BY SweptFits DEF WindowTyped
<1>3. kind \in {"deposit", "withdraw"} BY WindowAssumption DEF WindowTyped, WindowTypeOK
<1>4. activeFor' = activeFor BY <1>1, <1>2, ActiveIs
<1>5. Money' = Money BY <1>1, <1>2, <1>3 DEF Money
<1>6. QED BY <1>4, <1>5

LEMMA ServeShape ==
  ASSUME WindowInv, NEW i \in DOMAIN calls, Serve(i)
  PROVE  /\ UNCHANGED <<kind, due, win, hud, lost>> /\ ~calls[i].served
         /\ \E new \in Asked :
              /\ calls' = [calls EXCEPT ![i] = new]
              /\ new.served /\ new.what = calls[i].what /\ new.of = calls[i].of
              /\ Looked(new) \/ Turned(new) \/ Created(new) \/ Canceled(new) \/ Reckoned(new)
<1>1. /\ WindowTyped /\ WindowTypeOK /\ CallsTyped /\ calls[i] \in Asked
      /\ (kind = "withdraw" => due = {}) /\ UNCHANGED <<kind, due, win, hud, lost>>
      /\ ~calls[i].served /\ ~calls[i].ok
  BY CallsAreListed DEF WindowInv, WindowTyped, Steady, Serve, CallsTyped
<1>2. /\ DOMAIN Swept = DOMAIN status
      /\ \A x \in DOMAIN status :
           Swept[x] = IF status[x] = "pending" /\ x \in due THEN "expired" ELSE status[x]
      /\ kind \in {"deposit", "withdraw"}
  BY <1>1, SweptFits, WindowAssumption DEF Swept, WindowTypeOK
<1> DEFINE Goal == \E new \in Asked :
              /\ calls' = [calls EXCEPT ![i] = new]
              /\ new.served /\ new.what = calls[i].what /\ new.of = calls[i].of
              /\ Looked(new) \/ Turned(new) \/ Created(new) \/ Canceled(new) \/ Reckoned(new)
<1>3. ASSUME NEW new \in Asked, calls' = [calls EXCEPT ![i] = new],
             new.served, new.what = calls[i].what, new.of = calls[i].of,
             Looked(new) \/ Turned(new) \/ Created(new) \/ Canceled(new) \/ Reckoned(new)
      PROVE  Goal
  BY <1>3
<1> HIDE DEF Goal
<1>4. ASSUME ServeLook(i) PROVE Goal
  <2>1. PICK new \in Asked :
          /\ calls' = [calls EXCEPT ![i] = new]
          /\ new = [calls[i] EXCEPT !.served = TRUE, !.info = Picture]
    BY <1>1, <1>4, LookServed
  <2>2. new.served /\ new.what = calls[i].what /\ new.of = calls[i].of /\ new.info = Picture
    BY <1>1, <2>1 DEF Asked
  <2>3. status' = Swept /\ moved' = moved /\ calls[i].what \in {"load", "reload", "check"}
    BY <1>4 DEF ServeLook
  <2>4. activeFor' = activeFor /\ Money' = Money BY <1>1, <2>3, SweepMovesNothing
  <2>5. activeFor # {} => Picture.active \in activeFor BY DEF Picture
  <2>6. Looked(new) BY <2>2, <2>3, <2>4, <2>5 DEF Looked
  <2>7. QED BY <1>3, <2>1, <2>2, <2>6
<1>5. ASSUME ServeBalance(i) PROVE Goal
  <2>1. PICK new \in Asked :
          /\ calls' = [calls EXCEPT ![i] = new]
          /\ new = [calls[i] EXCEPT !.served = TRUE, !.money = Money]
    BY <1>1, <1>5, BalanceServed
  <2>2. new.served /\ new.what = calls[i].what /\ new.of = calls[i].of /\ new.money = Money
    BY <1>1, <2>1 DEF Asked
  <2>3. status' = status /\ moved' = FALSE /\ calls[i].what = "me" BY <1>5 DEF ServeBalance
  <2>4. activeFor' = activeFor /\ Money' = Money BY <1>1, <2>3, ActiveIs DEF Money
  <2>5. Reckoned(new) BY <2>2, <2>3, <2>4 DEF Reckoned
  <2>6. QED BY <1>3, <2>1, <2>2, <2>5
<1>6. ASSUME ServeCancel(i) PROVE Goal
  <2> DEFINE r == calls[i].id
             may == Swept[r] = "pending"
  <2>1. PICK new \in Asked :
          /\ calls' = [calls EXCEPT ![i] = new]
          /\ new = [calls[i] EXCEPT !.served = TRUE, !.ok = may]
    BY <1>1, <1>6, CancelServed
  <2> HIDE DEF r
  <2>2. new.served /\ new.what = calls[i].what /\ new.of = calls[i].of /\ new.ok = may
    BY <1>1, <2>1 DEF Asked
  <2>3. /\ status' = IF may THEN [Swept EXCEPT ![r] = "canceled"] ELSE Swept
        /\ moved' = moved /\ calls[i].what = "cancel"
    BY <1>6 DEF ServeCancel, r
  <2>4. DOMAIN status' = DOMAIN status BY <1>2, <2>3
  <2>5. activeFor' \subseteq activeFor BY <1>1, <1>2, <2>3, <2>4, ActiveIs
  <2>6. CASE may
    <3>1. Canceled(new) BY <2>2, <2>3, <2>5, <2>6 DEF Canceled
    <3>2. QED BY <1>3, <2>1, <2>2, <3>1
  <2>7. CASE ~may
    <3>1. Money' = Money BY <1>1, <2>3, <2>7, SweepMovesNothing
    <3>2. Canceled(new) BY <2>2, <2>3, <2>5, <3>1 DEF Canceled
    <3>3. QED BY <1>3, <2>1, <2>2, <3>2
  <2>8. QED BY <2>6, <2>7
<1>7. ASSUME ServeCreate(i), Refused PROVE Goal
  <2>1. PICK new \in Asked :
          /\ calls' = [calls EXCEPT ![i] = new]
          /\ new = [calls[i] EXCEPT !.served = TRUE]
    BY <1>1, <1>7, RefusalServed
  <2>2. new.served /\ new.what = calls[i].what /\ new.of = calls[i].of /\ new.ok = calls[i].ok
    BY <1>1, <2>1 DEF Asked
  <2>3. status' = Swept /\ moved' = moved /\ calls[i].what = "create"
    BY <1>7 DEF ServeCreate, Refused
  <2>4. activeFor' = activeFor /\ Money' = Money BY <1>1, <2>3, SweepMovesNothing
  <2>5. Turned(new) BY <1>1, <2>2, <2>3, <2>4 DEF Turned
  <2>6. QED BY <1>3, <2>1, <2>2, <2>5
<1>8. ASSUME ServeCreate(i), ~Refused PROVE Goal
  <2>1. i \in Unserved BY <1>1, <1>8 DEF Unserved, ServeCreate
  <2>2. NewId \in Requests \ DOMAIN status BY <1>1, <2>1, AnIdIsLeft
  <2>3. PICK new \in Asked :
          /\ calls' = [calls EXCEPT ![i] = new]
          /\ new = [calls[i] EXCEPT !.served = TRUE, !.ok = TRUE, !.id = NewId]
    BY <1>1, <1>8, <2>2, CreateServed
  <2>4. /\ new.served /\ new.what = calls[i].what /\ new.of = calls[i].of /\ new.ok
        /\ new.id = NewId
    BY <1>1, <2>3 DEF Asked
  <2>5. /\ status' = [x \in DOMAIN status \cup {NewId} |->
                       IF x = NewId THEN "pending" ELSE Swept[x]]
        /\ moved' = moved /\ calls[i].what = "create" /\ activeFor = {}
    BY <1>8 DEF ServeCreate, Refused, NewId
  <2> DEFINE r == NewId
  <2> HIDE DEF r
  <2>6. /\ r \notin DOMAIN status /\ DOMAIN status' = DOMAIN status \cup {r}
        /\ \A x \in DOMAIN status' : status'[x] = IF x = r THEN "pending" ELSE Swept[x]
    BY <2>2, <2>5 DEF r
  <2>7. activeFor' \subseteq {r}
    <3>1. \A x \in DOMAIN status : x \notin activeFor BY <2>5
    <3>2. \A x \in activeFor' : x = r BY <1>1, <1>2, <2>6, <3>1, ActiveIs
    <3>3. QED BY <3>2
  <2>8. kind = "deposit" => Money' = Money
    BY <1>1, <1>2, <2>6 DEF Money
  <2>9. Created(new) BY <2>4, <2>5, <2>7, <2>8 DEF Created, r
  <2>10. QED BY <1>3, <2>3, <2>4, <2>9
<1>9. Goal BY <1>4, <1>5, <1>6, <1>7, <1>8 DEF Serve
<1>10. QED BY <1>1, <1>9 DEF Goal

LEMMA ServeKeepsHeard ==
  ASSUME WindowInv, NEW i \in DOMAIN calls, Serve(i)
  PROVE  Steady' /\ (lost' = {} => Heard')
<1> DEFINE n == Len(calls)
           waiting == {j \in DOMAIN calls : ~calls[j].served}
<1>1. /\ WindowTyped /\ CallsTyped /\ Steady /\ ~calls[i].served
      /\ UNCHANGED <<kind, due, win, hud, lost>>
      /\ overtaken' = overtaken \cup Overtakes(i, waiting)
  BY ServeShape DEF WindowInv, WindowTyped, Serve
<1>2. PICK new \in Asked :
        /\ calls' = [calls EXCEPT ![i] = new]
        /\ new.served /\ new.what = calls[i].what /\ new.of = calls[i].of
        /\ Looked(new) \/ Turned(new) \/ Created(new) \/ Canceled(new) \/ Reckoned(new)
  BY ServeShape
<1>3. /\ n \in Nat /\ DOMAIN calls = 1..n /\ Len(calls') = n /\ DOMAIN calls' = 1..n
      /\ i \in 1..n /\ calls'[i] = new
      /\ \A j \in 1..n : j # i => calls'[j] = calls[j]
  BY <1>1, <1>2, CallsAreListed, OneChanges
<1>4. ASSUME NEW what \in DOMAIN Matters, what \notin Overtakes(i, waiting), InTurn(what),
             calls[i].what \in Matters[what], NEW j \in 1..n, calls[j].what \in Matters[what]
      PROVE  (j < i => calls[j].served) /\ (j > i => ~calls'[j].served)
  <2>1. j < i => calls[j].served BY <1>3, <1>4 DEF Overtakes, About
  <2>2. j > i => ~calls[j].served BY <1>1, <1>3, <1>4 DEF InTurn
  <2>3. QED BY <1>3, <2>1, <2>2
<1>5. DOMAIN Matters = {"form", "dot", "money"} BY DEF Matters
<1> HIDE DEF n, waiting
<1>6. \A j \in 1..n : calls'[j].what = calls[j].what /\ calls'[j].of = calls[j].of
  BY <1>2, <1>3
<1>7. kind \in {"deposit", "withdraw"} BY <1>1, WindowAssumption DEF WindowTyped, WindowTypeOK
<1>8. \/ activeFor' \subseteq activeFor /\ ~Created(new)
      \/ Created(new)
  BY <1>2 DEF Looked, Turned, Canceled, Reckoned
<1>9. Steady'
  <2>1. OneActive' BY <1>1, <1>8 DEF Steady, OneActive, Created
  <2>2. (kind' = "withdraw" => due' = {}) /\ \A j \in DOMAIN calls' : calls'[j].of <= win'.n
    BY <1>1, <1>3, <1>6 DEF Steady
  <2>3. QED BY <2>1, <2>2 DEF Steady
<1>10. ASSUME NEW what \in DOMAIN Matters, what \notin Overtakes(i, waiting), InTurn(what)
       PROVE  InTurn(what)'
  <2>1. SUFFICES ASSUME NEW j \in DOMAIN calls', NEW l \in DOMAIN calls', j < l,
                        calls'[l].served,
                        calls'[j].what \in Matters[what], calls'[l].what \in Matters[what]
                 PROVE  calls'[j].served
    BY DEF InTurn, Matters
  <2>2. j \in 1..n /\ l \in 1..n /\ calls[j].what \in Matters[what] /\ calls[l].what \in Matters[what]
    BY <1>3, <1>6, <2>1
  <2>3. CASE j = i BY <1>2, <1>3, <2>3
  <2>4. CASE l = i
    <3>1. calls[j].served /\ j # i BY <1>3, <1>4, <1>10, <2>1, <2>2, <2>4
    <3>2. QED BY <1>3, <2>2, <3>1
  <2>5. CASE j # i /\ l # i BY <1>3, <1>10, <2>1, <2>2, <2>5 DEF InTurn
  <2>6. QED BY <2>3, <2>4, <2>5
<1>11. ASSUME FormHeard, "form" \notin Overtakes(i, waiting) PROVE FormHeard'
  <2>1. WindowHears /\ NewcomersWait /\ InTurn("form") /\ InTurn("form")'
    BY <1>5, <1>10, <1>11 DEF FormHeard
  <2>2. NewcomersWait' BY <1>1, <1>3, <1>6, <2>1 DEF NewcomersWait
  <2>3. ASSUME NEW r \in activeFor' PROVE \E p \in 0..Len(calls') : Hears(r, p)'
    <3>1. CASE Created(new)
      <4>1. new.what = "create" /\ new.ok /\ new.id = r BY <2>3, <3>1 DEF Created
      <4>2. i \in 0..Len(calls') /\ i # 0 BY <1>3
      <4>3. Makes(calls'[i]) /\ calls'[i].id = r BY <1>2, <1>3, <4>1 DEF Makes
      <4>4. ASSUME NEW j \in DOMAIN calls', j > i PROVE ~Tells(calls'[j])
        <5>1. j \in 1..n BY <1>3
        <5>2. calls[i].what \in Matters["form"] BY <1>2, <4>1, WhatMatters
        <5>3. calls[j].what \in Matters["form"] => ~calls'[j].served
          BY <1>4, <1>5, <1>11, <2>1, <4>4, <5>1, <5>2
        <5>4. QED BY <1>6, <5>1, <5>3, WhatMatters DEF Tells, Makes
      <4>5. Hears(r, i)' BY <4>2, <4>3, <4>4 DEF Hears, Makes, Tells, Told
      <4>6. QED BY <4>2, <4>5
    <3>2. CASE ~Created(new)
      <4>1. r \in activeFor BY <1>8, <2>3, <3>2
      <4>2. PICK p \in 0..n : Hears(r, p) BY <2>1, <4>1 DEF WindowHears, n
      <4>3. p # 0 => p \in 1..n /\ p # i BY <1>1, <1>3, <4>2 DEF Hears, Makes
      <4>4. IF p = 0 THEN win'.open /\ win'.info.seen => win'.info.active = r
            ELSE Makes(calls'[p]) /\ calls'[p].id = r
        BY <1>1, <1>3, <4>2, <4>3 DEF Hears
      <4>5. ASSUME NEW j \in DOMAIN calls', j > p, Tells(calls'[j]) PROVE Told(calls'[j]) = r
        <5>1. CASE j # i BY <1>3, <4>2, <4>5, <5>1 DEF Hears
        <5>2. CASE j = i
          <6>1. Looked(new) /\ new.what # "create"
            BY <1>2, <1>3, <3>2, <4>5, <5>2
               DEF Tells, Makes, Looked, Turned, Canceled, Reckoned
          <6>2. new.info.active = r BY <1>1, <4>1, <6>1 DEF Looked, Steady, OneActive
          <6>3. QED BY <1>3, <5>2, <6>1, <6>2 DEF Told
        <5>3. QED BY <5>1, <5>2
      <4>6. Hears(r, p)' BY <4>4, <4>5 DEF Hears, Makes, Tells, Told
      <4>7. QED BY <1>3, <4>2, <4>6
    <3>3. QED BY <3>1, <3>2
  <2>4. WindowHears' BY <2>3 DEF WindowHears
  <2>5. QED BY <2>1, <2>2, <2>4 DEF FormHeard
<1>12. ASSUME DotHeard, "dot" \notin Overtakes(i, waiting) PROVE DotHeard'
  <2>1. ChecksFollow /\ DotHears /\ InTurn("dot") /\ InTurn("dot")'
    BY <1>5, <1>10, <1>12 DEF DotHeard
  <2>2. ChecksFollow' BY <1>1, <1>3, <1>6, <2>1 DEF ChecksFollow
  <2>3. ASSUME kind' = "deposit", ~win'.open, NEW r \in activeFor'
        PROVE  \E p \in 0..Len(calls') : Dots(r, p)'
    <3>1. kind = "deposit" /\ ~win.open BY <1>1, <2>3
    <3>2. CASE Created(new)
      <4>1. calls[i].what = "create" BY <1>2, <3>2 DEF Created
      <4>2. PICK p \in 1..n : i < p /\ calls[p].what = "check"
        BY <1>3, <2>1, <3>1, <4>1 DEF ChecksFollow
      <4>3. \A j \in 1..n : j > i /\ calls[j].what = "check" => ~calls'[j].served
        BY <1>4, <1>5, <1>12, <2>1, <4>1, WhatMatters
      <4>4. calls'[p].what = "check" /\ ~calls'[p].served /\ p # 0 BY <1>3, <1>6, <4>2, <4>3
      <4>5. \A j \in DOMAIN calls' : j > p /\ calls'[j].what = "check" => ~calls'[j].served
        BY <1>3, <1>6, <4>2, <4>3
      <4>6. Dots(r, p)' BY <4>4, <4>5 DEF Dots
      <4>7. QED BY <1>3, <4>6
    <3>3. CASE ~Created(new)
      <4>1. r \in activeFor BY <1>8, <2>3, <3>3
      <4>2. PICK p \in 0..n : Dots(r, p) BY <2>1, <3>1, <4>1 DEF DotHears, n
      <4>3. new.what = "check" => new.info.active = r
        <5>1. new.what = "check" => Looked(new)
          BY <1>2, <3>3 DEF Turned, Canceled, Reckoned
        <5>2. QED BY <1>1, <4>1, <5>1 DEF Looked, Steady, OneActive
      <4>4. IF p = 0 THEN hud'.dot
            ELSE calls'[p].what = "check" /\ (calls'[p].served => calls'[p].info.active = r)
        <5>1. CASE p = 0 BY <1>1, <4>2, <5>1 DEF Dots
        <5>2. CASE p # 0
          <6>1. p \in 1..n BY <1>3, <5>2
          <6>2. CASE p = i BY <1>2, <1>3, <4>2, <4>3, <5>2, <6>2 DEF Dots
          <6>3. CASE p # i BY <1>3, <4>2, <5>2, <6>1, <6>3 DEF Dots
          <6>4. QED BY <6>2, <6>3
        <5>3. QED BY <5>1, <5>2
      <4>5. ASSUME NEW j \in DOMAIN calls', j > p, calls'[j].what = "check", calls'[j].served
            PROVE  calls'[j].info.active = r
        <5>1. CASE j # i BY <1>3, <4>2, <4>5, <5>1 DEF Dots
        <5>2. CASE j = i BY <1>3, <4>3, <4>5, <5>2
        <5>3. QED BY <5>1, <5>2
      <4>6. Dots(r, p)' BY <4>4, <4>5 DEF Dots
      <4>7. QED BY <1>3, <4>2, <4>6
    <3>4. QED BY <3>2, <3>3
  <2>4. DotHears' BY <2>3 DEF DotHears
  <2>5. QED BY <2>1, <2>2, <2>4 DEF DotHeard
<1>13. ASSUME MoneyHeard, "money" \notin Overtakes(i, waiting) PROVE MoneyHeard'
  <2>1. MoneyHears /\ InTurn("money") /\ InTurn("money")'
    BY <1>5, <1>10, <1>13 DEF MoneyHeard
  <2>2. ASSUME ~moved'
        PROVE  \/ \E l \in DOMAIN calls' : WillRead(calls[l])'
               \/ \E p \in 0..Len(calls') : Counts(p)'
    <3>1. CASE Reckoned(new)
      <4>1. new.what = "me" /\ new.money = Money' BY <3>1 DEF Reckoned
      <4>2. i \in 0..Len(calls') /\ i # 0 BY <1>3
      <4>3. \A j \in 1..n : j > i /\ calls[j].what = "me" => ~calls'[j].served
        BY <1>2, <1>4, <1>5, <1>13, <2>1, <4>1, WhatMatters
      <4>4. Counts(i)' BY <1>3, <1>6, <4>1, <4>2, <4>3 DEF Counts
      <4>5. QED BY <4>2, <4>4
    <3>2. CASE ~Reckoned(new) /\ WillRead(new)
      <4>1. WillRead(calls[i])' BY <1>1, <1>3, <3>2 DEF WillRead
      <4>2. QED BY <1>3, <4>1
    <3>3. CASE ~Reckoned(new) /\ ~WillRead(new)
      <4>1. Money' = Money /\ moved' = moved /\ new.what # "me"
        BY <1>2, <1>7, <3>3 DEF Looked, Turned, Created, Canceled, WillRead
      <4>2. CASE \E l \in DOMAIN calls : WillRead(calls[l])
        <5>1. PICK l \in 1..n : WillRead(calls[l]) BY <1>3, <4>2
        <5>2. l # i BY <1>1, <1>2, <3>3, <5>1 DEF WillRead
        <5>3. WillRead(calls[l])' BY <1>1, <1>3, <5>1, <5>2 DEF WillRead
        <5>4. QED BY <1>3, <5>3
      <4>3. CASE \E p \in 0..n : Counts(p)
        <5>1. PICK p \in 0..n : Counts(p) BY <4>3
        <5>2. p # 0 => p \in 1..n /\ p # i BY <1>2, <1>3, <4>1, <5>1 DEF Counts
        <5>3. IF p = 0 THEN hud'.money = Money'
              ELSE calls'[p].what = "me" /\ (calls'[p].served => calls'[p].money = Money')
          BY <1>1, <1>3, <4>1, <5>1, <5>2 DEF Counts
        <5>4. ASSUME NEW j \in DOMAIN calls', j > p, calls'[j].what = "me", calls'[j].served
              PROVE  calls'[j].money = Money'
          <6>1. j # i BY <1>3, <4>1, <5>4
          <6>2. QED BY <1>3, <4>1, <5>1, <5>4, <6>1 DEF Counts
        <5>5. Counts(p)' BY <5>3, <5>4 DEF Counts
        <5>6. QED BY <1>3, <5>1, <5>5
      <4>4. QED BY <2>1, <2>2, <4>1, <4>2, <4>3 DEF MoneyHears, n
    <3>4. QED BY <3>1, <3>2, <3>3
  <2>3. MoneyHears' BY <2>2 DEF MoneyHears
  <2>4. QED BY <2>1, <2>3 DEF MoneyHeard
<1>14. ASSUME lost = {} PROVE Heard'
  BY <1>1, <1>11, <1>12, <1>13, <1>14 DEF WindowInv, Heard
<1>15. QED BY <1>1, <1>9, <1>14

LEMMA WindowInvNext == WindowInv /\ [WindowNext]_windowVars => WindowInv'
<1> SUFFICES ASSUME WindowInv, [WindowNext]_windowVars PROVE WindowInv' OBVIOUS
<1>1. WindowTyped' BY TypedNext DEF WindowInv
<1>2. Steady' /\ (lost' = {} => Heard')
  <2>1. ASSUME NEW i \in DOMAIN calls, Serve(i) \/ Answer(i) \/ Lose(i)
        PROVE  Steady' /\ (lost' = {} => Heard')
    BY <2>1, ServeKeepsHeard, AnswerKeepsHeard, LoseKeepsHeard
  <2>2. CASE UNCHANGED windowVars
    <3>1. /\ UNCHANGED <<kind, win, hud, calls, lost, overtaken, moved, due, status>>
          /\ Steady /\ (lost = {} => Heard)
      BY <2>2 DEF windowVars, WindowInv
    <3>2. activeFor' = activeFor /\ Money' = Money BY <3>1, ActiveIs DEF Money
    <3>3. Steady' BY <3>1, <3>2 DEF Steady, OneActive
    <3>4. \A what : InTurn(what) => InTurn(what)' BY <3>1 DEF InTurn, Matters
    <3>5. FormHeard => FormHeard'
      BY <3>1, <3>2, <3>4
         DEF FormHeard, WindowHears, Hears, Makes, Tells, Told, NewcomersWait
    <3>6. DotHeard => DotHeard'
      BY <3>1, <3>2, <3>4 DEF DotHeard, ChecksFollow, DotHears, Dots
    <3>7. MoneyHeard => MoneyHeard'
      BY <3>1, <3>2, <3>4 DEF MoneyHeard, MoneyHears, Counts, WillRead
    <3>8. QED BY <3>1, <3>3, <3>5, <3>6, <3>7 DEF Heard
  <2>3. QED BY <2>1, <2>2, ServerKeepsHeard, PlayerKeepsHeard DEF WindowNext, Network
<1>3. QED BY <1>1, <1>2 DEF WindowInv

LEMMA WindowInvAlways == WindowSpec => []WindowInv
<1>1. WindowInit => WindowInv BY TypedInit, NothingHeardInit DEF WindowInv
<1>2. WindowInv /\ [WindowNext]_windowVars => WindowInv' BY WindowInvNext
<1>3. QED BY <1>1, <1>2, PTL DEF WindowSpec

(* A player who has an open request is never shown an empty form, and once *)
(* the window of a deposit is closed the dot stands on its button, unless  *)
(* a look or a creation overtook another one: for any number of requests,  *)
(* openings and calls, in whatever order they are served and answered      *)
(* (DepositModal.tsx, WithdrawModal.tsx).                                  *)
THEOREM RequestStaysInView == WindowSpec => []RequestIsInView
<1>1. WindowInv => RequestIsInView
  <2> SUFFICES ASSUME WindowInv PROVE RequestIsInView OBVIOUS
  <2>1. WindowTyped /\ CallsTyped /\ Len(calls) \in Nat /\ DOMAIN calls = 1..Len(calls)
    BY CallsAreListed DEF WindowInv, WindowTyped
  <2>2. ASSUME "form" \notin overtaken PROVE FormIsHonest
    <3>1. SUFFICES ASSUME lost = {}, Creating = {}, activeFor # {}, win.open, win.info.seen
                   PROVE  Shown \in activeFor
      BY DEF FormIsHonest
    <3>2. PICK r \in activeFor : TRUE BY <3>1
    <3>3. PICK p \in 0..Len(calls) : Hears(r, p)
      BY <2>2, <3>1, <3>2 DEF WindowInv, Heard, FormHeard, WindowHears
    <3>4. p = 0
      <4>1. SUFFICES ASSUME p # 0 PROVE FALSE OBVIOUS
      <4>2. p \in DOMAIN calls /\ calls[p].what = "create"
        BY <2>1, <3>3, <4>1 DEF Hears, Makes
      <4>3. QED BY <3>1, <4>2 DEF Creating
    <3>5. win.info.active = r BY <3>1, <3>3, <3>4 DEF Hears
    <3>6. QED BY <3>2, <3>5 DEF Shown
  <2>3. ASSUME "dot" \notin overtaken, lost = {}, kind = "deposit", ~win.open, calls = <<>>,
               activeFor # {}
        PROVE  hud.dot
    <3>1. PICK r \in activeFor : TRUE BY <2>3
    <3>2. PICK p \in 0..Len(calls) : Dots(r, p)
      BY <2>3, <3>1 DEF WindowInv, Heard, DotHeard, DotHears
    <3>3. Len(calls) = 0 BY <2>3
    <3>4. p = 0 BY <3>2, <3>3
    <3>5. QED BY <3>2, <3>4 DEF Dots
  <2>4. QED BY <2>2, <2>3 DEF RequestIsInView
<1>2. QED BY <1>1, WindowInvAlways, PTL

(* The game shows the balance of the server once nothing is on its way,    *)
(* except for what the CRM moved since it was read: only a reading of the  *)
(* balance that overtook another one can spoil it, whatever other calls    *)
(* pass each other (WithdrawModal.tsx, GameClient.tsx).                    *)
THEOREM GameShowsTheMoney == WindowSpec => []HudIsFresh
<1>1. WindowInv => HudIsFresh
  <2> SUFFICES ASSUME WindowInv, lost = {}, "money" \notin overtaken, ~moved, calls = <<>>
               PROVE  hud.money = Money
    BY DEF HudIsFresh
  <2>1. Len(calls) = 0 /\ \A i \in DOMAIN calls : FALSE
    <3>1. Len(calls) = 0 OBVIOUS
    <3>2. DOMAIN calls = 1..Len(calls) BY CallsAreListed DEF WindowInv, WindowTyped
    <3>3. QED BY <3>1, <3>2
  <2>2. PICK p \in 0..Len(calls) : Counts(p) BY <2>1 DEF WindowInv, Heard, MoneyHeard, MoneyHears
  <2>3. p = 0 BY <2>1, <2>2
  <2>4. QED BY <2>2, <2>3 DEF Counts
<1>2. QED BY <1>1, WindowInvAlways, PTL

=============================================================================
