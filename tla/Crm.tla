--------------------------------- MODULE Crm ---------------------------------
(***************************************************************************)
(* The pages of the CRM (apps/web/app/admin): CryptoIntake.tsx with the    *)
(* switches of deposits, RequestsTab.tsx and UnmatchedTab.tsx with the     *)
(* rows that wait for a decision, PlayersTab.tsx with the balances, and    *)
(* the server behind them.                                                 *)
(*                                                                         *)
(* A page shows a picture taken some time ago and acts from it.  It takes  *)
(* a new one on a timer, on a button and after most of what is done on it; *)
(* its calls run side by side, and they are served and answered in any     *)
(* order.  What keeps them apart are the flags that disable its buttons.   *)
(*                                                                         *)
(* What the server knows is a function from names to numbers: a switch is  *)
(* 1 or 0, a row 1 while it waits and 0 once it is decided, a player has a *)
(* balance; "listens" is the answer of the watcher itself, which drives the *)
(* timer of its page.  Left out: names and labels, the list of coins (sent *)
(* like the list of networks), filters, a second administrator, and        *)
(* leaving a page, which forgets it.                                       *)
(*                                                                         *)
(* The bounds are MaxPresses, MaxCalls (how many calls may be on their way *)
(* when one more is made), MaxLosses and MaxMoney.                         *)
(***************************************************************************)
EXTENDS Naturals, SequencesExt

CONSTANTS
  Pages,       \* the pages of this instance
  Networks, Addresses, Rows, People,   \* names
  MaxPresses, MaxCalls, MaxLosses, MaxMoney

ASSUME PagesAssumption == Pages \subseteq {"intake", "requests", "unmatched", "players"}
\* Different things have different names.
ASSUME NamesAssumption ==
  /\ (Networks \cup Addresses \cup Rows \cup People) \subseteq STRING
  /\ (Networks \cup Addresses \cup Rows \cup People)
       \cap {"none", "enabled", "listens", "mode"} = {}
  /\ Networks \cap Addresses = {}
ASSUME CrmBoundsAssumption == {MaxPresses, MaxCalls, MaxLosses, MaxMoney} \subseteq Nat

VARIABLES
  page,       \* which of the pages this is
  truth,      \* what the server knows
  shown,      \* the picture the page shows
  busy,       \* the flags that disable its buttons
  question,   \* the call that waits for a confirmation (useAsk)
  target,     \* the player whose top-up window is open
  calls,      \* calls of the page that are not over
  want,       \* history: what each switch was last pressed to
  presses, losses   \* how many there were

vars == <<page, truth, shown, busy, question, target, calls, want, presses, losses>>

None == "none"
Nothing == [x \in {} |-> 0]

\* What an administrator may want of an address, besides 0 and 1.
Removed == 2
Unclear == 3

Without(f, k) == [x \in DOMAIN f \ {k} |-> f[x]]
Over(f, patch) == [x \in DOMAIN f \cup DOMAIN patch |-> IF x \in DOMAIN patch THEN patch[x] ELSE f[x]]
Only(k, v) == [x \in {k} |-> v]

Call(kind, key, lock, patch) ==
  [kind |-> kind, key |-> key, lock |-> lock, patch |-> patch,
   served |-> FALSE, ok |-> FALSE, picture |-> Nothing]

(* load(); the flag, if any, falls when it is over.                        *)
Load(lock) == Call("load", None, lock, Nothing)

NoQuestion == Load(None)

(* The list of players shows that it is being read (setLoading).           *)
Reading == IF page = "players" THEN "loading" ELSE None

Init ==
  /\ page \in Pages
  /\ \E open \in SUBSET (IF page = "intake" THEN Addresses ELSE Rows) :
       truth = CASE page = "intake" ->
                        [x \in {"enabled", "listens", "mode"} \cup Networks \cup open |-> 1]
                 [] page = "players" -> [x \in People |-> 1]
                 [] OTHER -> [x \in open |-> 1]
  /\ shown = Nothing
  /\ busy = {Reading} \ {None} /\ question = NoQuestion /\ target = None
  /\ calls = <<Load(Reading)>>
  /\ want = Nothing
  /\ presses = 0 /\ losses = 0

-----------------------------------------------------------------------------
(* The server.                                                             *)

(* Players, the bot and the watcher go on: a request comes or is closed, a *)
(* balance grows, a deleted player is back.                                *)
Others(k) ==
  /\ \/ page \in {"requests", "unmatched"} /\ k \in Rows
        /\ truth' = IF k \in DOMAIN truth THEN Over(truth, Only(k, 0)) ELSE Over(truth, Only(k, 1))
     \/ page = "players" /\ k \in People
        /\ truth' = IF k \notin DOMAIN truth THEN Over(truth, Only(k, 1))
                    ELSE IF truth[k] < MaxMoney THEN Over(truth, Only(k, truth[k] + 1)) ELSE truth
  /\ truth' # truth
  /\ UNCHANGED <<page, shown, busy, question, target, calls, want, presses, losses>>

(* What is gone cannot be changed, and what is decided not decided again.  *)
Refused(c) ==
  \/ c.kind # "add" /\ c.key \notin DOMAIN truth
  \/ c.kind = "act" /\ truth[c.key] = 0

Effect(c) ==
  CASE c.kind \in {"remove", "delete"} -> Without(truth, c.key)
    [] c.kind = "topup" -> Over(truth, Only(c.key, truth[c.key] + 1))
    [] OTHER -> Over(truth, c.patch)

Serve(i) ==
  /\ ~calls[i].served
  /\ LET c == calls[i] IN
       IF c.kind = "load"
       THEN /\ truth' = truth
            /\ calls' = [calls EXCEPT ![i].served = TRUE, ![i].picture = truth]
       ELSE /\ truth' = IF Refused(c) THEN truth ELSE Effect(c)
            /\ calls' = [calls EXCEPT ![i].served = TRUE, ![i].ok = ~Refused(c),
                                      ![i].picture = truth']
  /\ UNCHANGED <<page, shown, busy, question, target, want, presses, losses>>

-----------------------------------------------------------------------------
(* The administrator.                                                      *)

Room == Len(calls) < MaxCalls

(* No question lies over the page.                                         *)
AtHand == question = NoQuestion /\ Room /\ presses < MaxPresses

(* What an administrator who presses this button wants of the switch.      *)
Wish(c) ==
  IF c.kind \notin {"save", "switch", "add", "toggle", "remove"} THEN want
  ELSE IF c.key \in DOMAIN want /\ want[c.key] \in {Removed, Unclear} THEN want
  ELSE Over(want, Only(c.key, IF c.kind = "remove" THEN Removed ELSE c.patch[c.key]))

Send(c) ==
  /\ calls' = Append(calls, c)
  /\ busy' = busy \cup ({c.lock} \ {None})
  /\ want' = Wish(c)

(* A button that is not disabled, and that may ask first.                  *)
Press(c, asks) ==
  /\ AtHand /\ c.lock \notin busy
  /\ presses' = presses + 1
  /\ IF asks THEN question' = c /\ UNCHANGED <<calls, busy, want>>
     ELSE Send(c) /\ question' = question
  /\ UNCHANGED <<page, truth, target, losses>>

\* Mutant: all the settings of the page are sent.
Save_All(k) ==
  LET patch == [x \in {"mode"} \cup Networks |-> IF x = k THEN 1 - shown[x] ELSE shown[x]]
  IN  /\ page = "intake" /\ k \in DOMAIN shown \cap ({"mode"} \cup Networks)
      /\ shown' = Over(shown, patch)
      /\ Press(Call("save", k, "form", patch), FALSE)

(* save(), of the mode or of the networks: only what changed is sent, but  *)
(* the networks are one list.  The page shows it at once.                  *)
Save(k) ==
  LET nets == [n \in Networks |-> IF n = k THEN 1 - shown[n] ELSE shown[n]]
      patch == IF k = "mode" THEN Only(k, 1 - shown[k]) ELSE nets
  IN  /\ page = "intake" /\ k \in DOMAIN shown \cap ({"mode"} \cup Networks)
      /\ shown' = Over(shown, patch)
      /\ Press(Call("save", k, "form", patch), FALSE)

(* The page of the switches shows nothing before its first picture.        *)
FormShown == page = "intake" /\ "enabled" \in DOMAIN shown

(* toggleWatcher(): it asks before it switches off.                        *)
Switch ==
  /\ FormShown
  /\ shown' = shown
  /\ Press(Call("switch", "enabled", "watcher",
                [x \in {"enabled", "listens"} |-> 1 - shown["enabled"]]),
           shown["enabled"] = 1)

(* runWatcher().                                                           *)
Run ==
  /\ FormShown /\ shown["enabled"] = 1
  /\ shown' = shown
  /\ Press(Call("run", "enabled", "watcher", Nothing), FALSE)

(* addAddress(): a new address is a new name.                              *)
AddAddress(a) ==
  /\ FormShown
  /\ a \in Addresses \ (DOMAIN shown \cup DOMAIN truth \cup DOMAIN want)
  /\ shown' = shown
  /\ Press(Call("add", a, "form", Only(a, 1)), FALSE)

AddressShown(a) == page = "intake" /\ a \in DOMAIN shown \cap Addresses

(* toggleAddr(): one call for an address at a time.                        *)
ToggleAddr(a) ==
  /\ AddressShown(a)
  /\ shown' = shown
  /\ Press(Call("toggle", a, a, Only(a, 1 - shown[a])), FALSE)

RenameAddr(a) ==
  /\ AddressShown(a)
  /\ shown' = shown
  /\ Press(Call("rename", a, None, Nothing), TRUE)

RemoveAddr(a) ==
  /\ AddressShown(a)
  /\ shown' = shown
  /\ Press(Call("remove", a, None, Nothing), TRUE)

(* act(): any decision on a request that waits, some of which ask.         *)
Decide(r, asks) ==
  /\ page = "requests" /\ r \in DOMAIN shown \cap Rows /\ shown[r] = 1
  /\ shown' = shown
  /\ Press(Call("act", r, "row", Only(r, 0)), asks)

(* credit(), ignore(): they always ask.                                    *)
Match(r) ==
  /\ page = "unmatched" /\ r \in DOMAIN shown \cap Rows /\ shown[r] = 1
  /\ shown' = shown
  /\ Press(Call("act", r, "row", Only(r, 0)), TRUE)

(* zeroBalance(), removePlayer(): the row is disabled while they ask.      *)
OnRow(p, kind) ==
  /\ page = "players" /\ p \in DOMAIN shown \cap People /\ target = None
  /\ AtHand /\ p \notin busy
  /\ presses' = presses + 1
  /\ busy' = busy \cup {p}
  /\ question' = Call(kind, p, p, Only(p, 0))
  /\ UNCHANGED <<page, truth, shown, target, calls, want, losses>>

OpenTopUp(p) ==
  /\ page = "players" /\ p \in DOMAIN shown \cap People
  /\ target = None /\ question = NoQuestion /\ presses < MaxPresses
  /\ target' = p
  /\ presses' = presses + 1
  /\ UNCHANGED <<page, truth, shown, busy, question, calls, want, losses>>

(* "Отмена", or a press beside the window even while it saves.             *)
CloseTopUp ==
  /\ target # None
  /\ target' = None
  /\ UNCHANGED <<page, truth, shown, busy, question, calls, want, presses, losses>>

TopUp ==
  /\ target # None /\ shown' = shown
  /\ Press(Call("topup", target, "saving", Nothing), FALSE)

\* Mutant: a row whose question was answered "no" stays disabled.
Reply_Keeps(yes) ==
  /\ question # NoQuestion
  /\ question' = NoQuestion
  /\ IF yes THEN Send(question) ELSE UNCHANGED <<busy, calls, want>>
  /\ UNCHANGED <<page, truth, shown, target, presses, losses>>

(* The question is answered.                                               *)
Reply(yes) ==
  /\ question # NoQuestion
  /\ question' = NoQuestion
  /\ IF yes THEN Send(question)
     ELSE busy' = busy \ {question.lock} /\ UNCHANGED <<calls, want>>
  /\ UNCHANGED <<page, truth, shown, target, presses, losses>>

(* The timer: not while a top-up is open, and on the page of the switches  *)
(* only while it shows the watcher switched on.                            *)
WatcherShownOn == "listens" \in DOMAIN shown /\ shown["listens"] = 1
TopUpOpen == target # None

Polls ==
  CASE page = "players" -> ~TopUpOpen
    [] page = "intake" -> WatcherShownOn
    [] OTHER -> TRUE

(* "Обновить".                                                             *)
Refresh ==
  /\ page \in {"intake", "players"}
  /\ question = NoQuestion /\ target = None /\ Room /\ Reading \notin busy
  /\ Send(Load(Reading))
  /\ UNCHANGED <<page, truth, shown, question, target, presses, losses>>

\* Mutant: the timer stands while a question lies over the page.
Poll_Paused ==
  /\ Polls /\ Room /\ question = NoQuestion
  /\ calls' = Append(calls, Load(None))
  /\ UNCHANGED <<page, truth, shown, busy, question, target, want, presses, losses>>

Poll ==
  /\ Polls /\ Room
  /\ calls' = Append(calls, Load(None))
  /\ UNCHANGED <<page, truth, shown, busy, question, target, want, presses, losses>>

-----------------------------------------------------------------------------
(* The answers.                                                            *)

LoadEnds(i, arrived) ==
  /\ calls[i].kind = "load"
  /\ shown' = IF arrived THEN calls[i].picture ELSE shown
  /\ busy' = busy \ {calls[i].lock}
  /\ calls' = RemoveAt(calls, i)
  /\ UNCHANGED <<target, want>>

(* Does the page look again when the call is over?                         *)
Reloads(c, done) ==
  \/ c.kind \in {"save", "toggle"}
  \/ done /\ c.kind \in {"switch", "run", "add", "rename", "remove", "act"}

(* The row of a player and the watcher are painted from the answer.        *)
Painted(c) ==
  LET key == IF c.kind \in {"switch", "run"} THEN "listens" ELSE c.key
  IN  IF c.kind = "delete" THEN Without(shown, c.key)
      ELSE IF c.kind \in {"switch", "run", "zero", "topup"} /\ key \in DOMAIN shown
           THEN Over(shown, Only(key, c.picture[key]))
      ELSE shown

(* The flag of a save falls before the page looks again, the others after. *)
PostEnds(i, arrived) ==
  /\ calls[i].kind # "load"
  /\ LET c == calls[i]
         done == arrived /\ c.ok
         keeps == Reloads(c, done) /\ c.kind # "save"
     IN  /\ shown' = IF done THEN Painted(c) ELSE shown
         /\ target' = IF done /\ c.kind = "topup" THEN None ELSE target
         /\ busy' = IF keeps THEN busy ELSE busy \ {c.lock}
         /\ calls' = RemoveAt(calls, i) \o
              IF Reloads(c, done) THEN <<Load(IF keeps THEN c.lock ELSE None)>> ELSE <<>>
         /\ want' = IF done \/ c.key \notin DOMAIN want THEN want
                    ELSE Over(want, Only(c.key, Unclear))

Ends(i, arrived) == LoadEnds(i, arrived) \/ PostEnds(i, arrived)

Answer(i) ==
  /\ calls[i].served
  /\ Ends(i, TRUE)
  /\ UNCHANGED <<page, truth, question, presses, losses>>

(* The network fails, on the way there or back.                            *)
Lose(i) ==
  /\ losses < MaxLosses
  /\ losses' = losses + 1
  /\ Ends(i, FALSE)
  /\ UNCHANGED <<page, truth, question, presses>>

Administrator ==
  \/ \E k \in DOMAIN shown :
       \/ Save(k) \/ ToggleAddr(k) \/ RenameAddr(k) \/ RemoveAddr(k)
       \/ \E asks \in BOOLEAN : Decide(k, asks)
       \/ Match(k)
       \/ \E kind \in {"zero", "delete"} : OnRow(k, kind)
       \/ OpenTopUp(k)
  \/ \E a \in Addresses : AddAddress(a)
  \/ Switch \/ Run \/ TopUp \/ CloseTopUp \/ Refresh
  \/ \E yes \in BOOLEAN : Reply(yes)

Network == \E i \in DOMAIN calls : Serve(i) \/ Answer(i) \/ Lose(i)

Next == Administrator \/ Poll \/ Network \/ \E k \in Rows \cup People : Others(k)

Spec == Init /\ [][Next]_vars

(* The timer ticks; calls are served and answered, or fail.                *)
FairSpec ==
  /\ Spec
  /\ WF_vars(Poll)
  /\ WF_vars(\E i \in DOMAIN calls : Serve(i))
  /\ WF_vars(\E i \in DOMAIN calls : Answer(i))

-----------------------------------------------------------------------------
(* A flag that is up belongs to a question or to a call, whose end takes   *)
(* it down: no failure, refusal or overtaking leaves a button disabled.    *)
FlagsFall ==
  \A lock \in busy : lock = question.lock \/ \E i \in DOMAIN calls : calls[i].lock = lock

AtRest == \A i \in DOMAIN calls : calls[i].kind = "load"
Known(k) == IF k \in DOMAIN truth THEN truth[k] ELSE Removed

(* When nothing is being changed, the mode, the listener and every address *)
(* stand as the administrator pressed them last: a button is disabled      *)
(* while its own call runs, and a patch holds nothing else ("CRM шле лише  *)
(* те, що змінилось", settings.service.ts).                                *)
SwitchesAsPressed == AtRest => \A k \in DOMAIN want \ Networks : want[k] \in {Known(k), Unclear}

(* The same of the networks.                                               *)
NetworksAsPressed == AtRest => \A k \in DOMAIN want \cap Networks : want[k] \in {Known(k), Unclear}

(* A page that refreshes itself comes to show what the server knows,       *)
(* whatever answers overtook each other before.                            *)
ScreenCatchesUp == <>[](Polls => shown = truth)
=============================================================================
