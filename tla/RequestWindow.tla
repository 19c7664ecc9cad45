---------------------------- MODULE RequestWindow -----------------------------
(***************************************************************************)
(* The two windows of the mini app in which a player asks for money to be  *)
(* moved: DepositModal.tsx and WithdrawModal.tsx, with the shell and the   *)
(* question they share (Modal.tsx, ui/Ask.tsx), what the game shows around *)
(* them (GameClient.tsx: the balance, the dot on the button), and the      *)
(* requests of the server they look at.                                    *)
(*                                                                         *)
(* A window is a picture of the server taken some time ago.  It is taken   *)
(* when the window opens, every 8 seconds while a deposit is open, after a *)
(* cancel and when the player asks; a request that was just created is     *)
(* painted into it.  No answer says how old it is.                         *)
(*                                                                         *)
(* One amount stands for all, so that a balance is the set of the requests *)
(* whose money has moved.  Left out: which coin and network are chosen     *)
(* (Deposits refuses what is off), the texts, the 0.2 s a window takes to  *)
(* fade, and requests made in another window of the same player.           *)
(*                                                                         *)
(* The bounds are Requests, Openings (of the window), MaxCalls (how many   *)
(* calls of the page may be on their way when one more is asked for) and   *)
(* MaxLosses.                                                              *)
(***************************************************************************)
EXTENDS Naturals, FiniteSets, SequencesExt

CONSTANTS
  Kinds,       \* the windows of this instance
  Requests,    \* ids of requests
  Funds,       \* how many withdrawals the balance bears
  Openings, MaxCalls, MaxLosses

ASSUME WindowAssumption ==
  /\ Kinds \subseteq {"deposit", "withdraw"}
  /\ Requests \subseteq Nat \ {0} /\ IsFiniteSet(Requests)
  /\ {Funds, Openings, MaxCalls, MaxLosses} \subseteq Nat

VARIABLES
  kind,      \* which of the two windows this is
  status,    \* status[r] of the requests the server has
  due,       \* deposits whose half an hour is over
  win,       \* the window: its state and refs
  hud,       \* what the game shows: money that has moved, and the dot
  calls,     \* the calls of the page that wait for an answer, oldest first
  lost,      \* history: which calls were lost
  overtaken, \* history: what a call that overtook another may have spoilt
  moved      \* history: the CRM moved money since the balance was last read

windowVars == <<kind, status, due, win, hud, calls, lost, overtaken, moved>>

None == 0
Blank == [seen |-> FALSE, active |-> None, paid |-> FALSE]

(* What a window is when it is mounted: useState() and useRef().           *)
Mounted(n) ==
  [open |-> TRUE, n |-> n, info |-> Blank, prev |-> None, busy |-> FALSE, asks |-> None]

(* A call of lib/api.ts, made for the n-th window or for the game itself.  *)
Call(what, id, n) ==
  [what |-> what, id |-> id, of |-> n, served |-> FALSE, ok |-> FALSE, info |-> Blank, money |-> {}]

CheckDeposit == IF kind = "deposit" THEN <<Call("check", None, 0)>> ELSE <<>>

(* onResolved(), onBalance(): the game reads the balance again.            *)
Tell == <<Call("me", None, 0)>> \o CheckDeposit

WindowInit ==
  /\ kind \in Kinds
  /\ status = [r \in {} |-> "pending"] /\ due = {}
  /\ win = [Mounted(0) EXCEPT !.open = FALSE]
  /\ hud = [money |-> {}, dot |-> FALSE]
  /\ calls = CheckDeposit
  /\ lost = {} /\ overtaken = {} /\ moved = FALSE

-----------------------------------------------------------------------------
(* The requests of the server.                                             *)

isOpen(s) == s \in {"pending", "processing"}

(* sweep(): a deposit that is due and not paid.                            *)
Swept ==
  [r \in DOMAIN status |-> IF status[r] = "pending" /\ r \in due THEN "expired" ELSE status[r]]

activeFor == {r \in DOMAIN status : isOpen(Swept[r])}

(* The requests whose money has moved.                                     *)
Money ==
  {r \in DOMAIN status :
     status[r] \in IF kind = "deposit" THEN {"approved"} ELSE {"pending", "approved"}}

(* The active request, as the windows are told of it.                      *)
Picture ==
  IF activeFor = {} THEN [Blank EXCEPT !.seen = TRUE]
  ELSE LET r == CHOOSE x \in activeFor : TRUE
       IN  [seen |-> TRUE, active |-> r, paid |-> status[r] = "processing"]

(* The bot finds the transfer of a deposit.                                *)
Found(r) ==
  /\ kind = "deposit"
  /\ Swept[r] = "pending"
  /\ status' = [Swept EXCEPT ![r] = "processing"]
  /\ UNCHANGED <<kind, due, win, hud, calls, lost, overtaken, moved>>

(* An administrator or the bot decides; money moves with a credit or a     *)
(* refund.                                                                 *)
Decide(r, verdict) ==
  /\ isOpen(Swept[r])
  /\ UNCHANGED <<kind, due, win, hud, calls, lost, overtaken>>
  /\ status' = [Swept EXCEPT ![r] = verdict]
  /\ moved' = (moved \/ Money' # Money)

DeadlinePasses(r) ==
  /\ kind = "deposit"
  /\ r \notin due /\ status[r] = "pending"
  /\ due' = due \cup {r}
  /\ UNCHANGED <<kind, status, win, hud, calls, lost, overtaken, moved>>

(* GET /payments/me and /withdrawals/me.                                   *)
ServeLook(i) ==
  /\ calls[i].what \in {"load", "reload", "check"}
  /\ status' = Swept
  /\ calls' = [calls EXCEPT ![i].served = TRUE, ![i].info = Picture]
  /\ moved' = moved

(* create(): refused while a request is open, or for want of money.        *)
ServeCreate(i) ==
  /\ calls[i].what = "create"
  /\ IF activeFor # {} \/ (kind = "withdraw" /\ Cardinality(Money) >= Funds)
     THEN /\ status' = Swept
          /\ calls' = [calls EXCEPT ![i].served = TRUE]
     ELSE LET r == CHOOSE x \in Requests \ DOMAIN status : TRUE IN
          /\ status' = [x \in DOMAIN status \cup {r} |-> IF x = r THEN "pending" ELSE Swept[x]]
          /\ calls' = [calls EXCEPT ![i].served = TRUE, ![i].ok = TRUE, ![i].id = r]
  /\ moved' = moved

(* cancel(): a pending one only.                                           *)
ServeCancel(i) ==
  /\ calls[i].what = "cancel"
  /\ LET r == calls[i].id
         may == Swept[r] = "pending"
     IN  /\ status' = IF may THEN [Swept EXCEPT ![r] = "canceled"] ELSE Swept
         /\ calls' = [calls EXCEPT ![i].served = TRUE, ![i].ok = may]
  /\ moved' = moved

ServeBalance(i) ==
  /\ calls[i].what = "me"
  /\ calls' = [calls EXCEPT ![i].served = TRUE, ![i].money = Money]
  /\ status' = status
  /\ moved' = FALSE

(* The calls that the picture of the window, the dot and the balance       *)
(* depend on, and what a call may spoil that is served or answered before  *)
(* an earlier one.                                                         *)
Matters ==
  [form |-> {"load", "reload", "create"}, dot |-> {"check", "create"}, money |-> {"me"}]
About(what, some) == {i \in some : calls[i].what \in Matters[what]}
Overtakes(i, others) ==
  {what \in DOMAIN Matters : i \in About(what, {i}) /\ \E j \in About(what, others) : j < i}

(* Nothing orders the calls of a page: fetch() has no queue.               *)
Serve(i) ==
  /\ ~calls[i].served
  /\ overtaken' = overtaken \cup Overtakes(i, {j \in DOMAIN calls : ~calls[j].served})
  /\ ServeLook(i) \/ ServeCreate(i) \/ ServeCancel(i) \/ ServeBalance(i)
  /\ UNCHANGED <<kind, due, win, hud, lost>>

-----------------------------------------------------------------------------
(* The player.                                                             *)

Room == Len(calls) < MaxCalls

(* Requests on their way to be created, by this window or the one before.  *)
Creating == {i \in DOMAIN calls : calls[i].what = "create"}

(* The window lies open and no question lies over it.                      *)
AtHand == win.open /\ win.asks = None

Shown == win.info.active

(* The bar of a deposit shows that its time is over.                       *)
TimeIsUp == Shown \in due

Open ==
  /\ ~win.open /\ win.n < Openings /\ Room
  /\ win' = Mounted(win.n + 1)
  /\ calls' = Append(calls, Call("load", None, win.n + 1))
  /\ overtaken' = IF About("form", DOMAIN calls) = {} THEN overtaken \ {"form"} ELSE overtaken
  /\ UNCHANGED <<kind, status, due, hud, lost, moved>>

\* Mutant: the dot is not looked after when the window closes.
Close_NoCheck ==
  /\ AtHand
  /\ win' = [Mounted(win.n) EXCEPT !.open = FALSE]
  /\ UNCHANGED <<kind, status, due, hud, calls, lost, overtaken, moved>>

(* The cross, Esc, or a press beside the window.                           *)
Close ==
  /\ AtHand
  /\ win' = [Mounted(win.n) EXCEPT !.open = FALSE]
  /\ calls' = calls \o CheckDeposit
  /\ UNCHANGED <<kind, status, due, hud, lost, overtaken, moved>>

(* Every 8 seconds while a deposit is shown.                               *)
Poll ==
  /\ kind = "deposit" /\ win.open /\ Shown # None /\ Room
  /\ calls' = Append(calls, Call("load", None, win.n))
  /\ UNCHANGED <<kind, status, due, win, hud, lost, overtaken, moved>>

(* The button of a deposit that is paid, or whose time is over.            *)
Refresh ==
  /\ kind = "deposit" /\ AtHand /\ Shown # None /\ Room
  /\ win.info.paid \/ TimeIsUp
  /\ calls' = Append(calls, Call("load", None, win.n))
  /\ UNCHANGED <<kind, status, due, win, hud, lost, overtaken, moved>>

(* A deposit needs a network to choose, and they come with the answer; a   *)
(* withdrawal needs the money the game shows.                              *)
DepositReady == win.info.seen
WithdrawReady == Cardinality(hud.money) < Funds

(* The form is shown when no request is.                                   *)
Submit ==
  /\ AtHand /\ Shown = None /\ ~win.busy /\ Room
  /\ Cardinality(DOMAIN status) + Cardinality(Creating) < Cardinality(Requests)
  /\ IF kind = "deposit" THEN DepositReady ELSE WithdrawReady
  /\ win' = [win EXCEPT !.busy = TRUE]
  /\ calls' = Append(calls, Call("create", None, win.n))
  /\ UNCHANGED <<kind, status, due, hud, lost, overtaken, moved>>

(* The button is there: a withdrawal is canceled while it waits,           *)
(* a deposit until its transfer is found or its time is up.                *)
WithdrawalCancelable == kind = "withdraw"
DepositCancelable == kind = "deposit" /\ ~win.info.paid /\ ~TimeIsUp

PressCancel ==
  /\ AtHand /\ Shown # None /\ ~win.busy
  /\ WithdrawalCancelable \/ DepositCancelable
  /\ win' = [win EXCEPT !.asks = Shown]
  /\ UNCHANGED <<kind, status, due, hud, calls, lost, overtaken, moved>>

(* The question is answered; what is canceled was the request when it was  *)
(* asked.                                                                  *)
Reply(yes) ==
  /\ win.open /\ win.asks # None
  /\ win' = [win EXCEPT !.asks = None, !.busy = yes]
  /\ calls' = IF yes THEN Append(calls, Call("cancel", win.asks, win.n)) ELSE calls
  /\ UNCHANGED <<kind, status, due, hud, lost, overtaken, moved>>

-----------------------------------------------------------------------------
(* The answers.                                                            *)

Mine(c) == win.open /\ win.n = c.of
Paint(c, info) == IF Mine(c) THEN [win EXCEPT !.info = info, !.prev = info.active] ELSE win
Free(w, c) == IF Mine(c) THEN [w EXCEPT !.busy = FALSE] ELSE w

\* Mutant: nobody is told that what was shown is gone.
Gone_Never(c) == <<>>

(* The effect on activeId: what was shown is gone.                         *)
Gone(c) ==
  IF kind = "deposit" /\ Mine(c) /\ win.prev # None /\ c.info.active = None THEN Tell ELSE <<>>

(* The call is over, and more are made.                                    *)
Follow(i, more) == calls' = RemoveAt(calls, i) \o more

(* load(); a cancel goes on when it is over, with a picture or without.    *)
LoadEnds(i, arrived) ==
  /\ calls[i].what \in {"load", "reload"}
  /\ LET c == calls[i]
         painted == IF arrived THEN Paint(c, c.info) ELSE win
         again == c.what = "reload"
     IN  /\ win' = IF again THEN Free(painted, c) ELSE painted
         /\ Follow(i, (IF arrived THEN Gone(c) ELSE <<>>) \o (IF again THEN Tell ELSE <<>>))
  /\ hud' = hud

\* Mutant: a withdrawal is created and the game is not told.
CreateEnds_Silent(i, arrived) ==
  /\ calls[i].what = "create"
  /\ LET c == calls[i]
         done == arrived /\ c.ok
         info == [win.info EXCEPT !.active = c.id, !.paid = FALSE]
     IN  /\ win' = Free(IF done /\ win.info.seen THEN Paint(c, info) ELSE win, c)
         /\ Follow(i, <<>>)
  /\ hud' = hud

(* submit(): the request is painted into the picture, if there is one; a   *)
(* withdrawal has taken its money already.                                 *)
CreateEnds(i, arrived) ==
  /\ calls[i].what = "create"
  /\ LET c == calls[i]
         done == arrived /\ c.ok
         info == [win.info EXCEPT !.active = c.id, !.paid = FALSE]
     IN  /\ win' = Free(IF done /\ win.info.seen THEN Paint(c, info) ELSE win, c)
         /\ Follow(i, IF done /\ kind = "withdraw" THEN Tell ELSE <<>>)
  /\ hud' = hud

(* cancel(): then the window looks again; a refusal is only shown.         *)
CancelEnds(i, arrived) ==
  /\ calls[i].what = "cancel"
  /\ LET c == calls[i]
         done == arrived /\ c.ok
     IN  /\ win' = IF done THEN win ELSE Free(win, c)
         /\ Follow(i, IF done THEN <<Call("reload", None, c.of)>> ELSE <<>>)
  /\ hud' = hud

(* refreshPlayer() and checkDeposit(): without an answer, nothing.         *)
GameEnds(i, arrived) ==
  /\ calls[i].what \in {"me", "check"}
  /\ LET c == calls[i] IN
       hud' = IF ~arrived THEN hud
              ELSE IF c.what = "me" THEN [hud EXCEPT !.money = c.money]
              ELSE [hud EXCEPT !.dot = c.info.active # None]
  /\ win' = win
  /\ Follow(i, <<>>)

Ends(i, arrived) ==
  LoadEnds(i, arrived) \/ CreateEnds(i, arrived) \/ CancelEnds(i, arrived) \/ GameEnds(i, arrived)

Answer(i) ==
  /\ calls[i].served
  /\ overtaken' = overtaken \cup Overtakes(i, DOMAIN calls)
  /\ Ends(i, TRUE)
  /\ UNCHANGED <<kind, status, due, lost, moved>>

(* The network fails, on the way there or back.                            *)
Lose(i) ==
  /\ Cardinality(lost) < MaxLosses
  /\ calls[i].what \notin lost
  /\ lost' = lost \cup {calls[i].what}
  /\ Ends(i, FALSE)
  /\ UNCHANGED <<kind, status, due, overtaken, moved>>

Server ==
  \E r \in DOMAIN status :
    \/ Found(r)
    \/ \E verdict \in {"approved", "rejected"} : Decide(r, verdict)
    \/ DeadlinePasses(r)

Player == Open \/ Close \/ Refresh \/ Submit \/ PressCancel \/ \E yes \in BOOLEAN : Reply(yes)

Network == \E i \in DOMAIN calls : Serve(i) \/ Answer(i) \/ Lose(i)

WindowNext == Server \/ Player \/ Poll \/ Network

WindowSpec == WindowInit /\ [][WindowNext]_windowVars

(* The timer of the window ticks; every call is served and answered some   *)
(* day, or fails: the oldest one cannot be passed over for ever.           *)
ServeOldest == calls # <<>> /\ Serve(1)
AnswerOldest == calls # <<>> /\ Answer(1)

FairWindowSpec ==
  /\ WindowSpec
  /\ WF_windowVars(Poll) /\ WF_windowVars(ServeOldest) /\ WF_windowVars(AnswerOldest)

-----------------------------------------------------------------------------
Windows == [open : BOOLEAN, n : 0..Openings, prev : Requests \cup {None}, busy : BOOLEAN,
            asks : Requests \cup {None},
            info : [seen : BOOLEAN, active : Requests \cup {None}, paid : BOOLEAN]]

(* Types; a window that is closed keeps nothing.                           *)
WindowTypeOK ==
  /\ kind \in Kinds
  /\ DOMAIN status \subseteq Requests
  /\ status \in [DOMAIN status ->
        {"pending", "processing", "approved", "rejected", "expired", "canceled"}]
  /\ due \subseteq DOMAIN status
  /\ win \in Windows /\ (win.open \/ win = [Mounted(win.n) EXCEPT !.open = FALSE])
  /\ hud \in [money : SUBSET DOMAIN status, dot : BOOLEAN]
  /\ moved \in BOOLEAN

(* A player who has an open request is never shown an empty form.          *)
FormIsHonest ==
  (lost = {} /\ Creating = {} /\ activeFor # {} /\ win.open /\ win.info.seen) =>
    Shown \in activeFor

(* Least of all one whose transfer was found: "показати йому «заявок       *)
(* немає» означало б спонукати переказати вдруге" (payments.service.ts,    *)
(* activeFor).                                                             *)
PaidIsShown ==
  \A r \in DOMAIN status :
    (lost = {} /\ Creating = {} /\ status[r] = "processing" /\ win.open /\ win.info.seen) =>
      Shown = r

(* The window shows the request while it is open, and the dot stands on    *)
(* the button of a deposit once it is closed and nothing is on its way:    *)
(* nothing but a look that overtakes another one, or a creation, or is     *)
(* overtaken by it, can hide a request, and that until the window opens    *)
(* anew with no look under way.                                            *)
RequestIsInView ==
  /\ "form" \in overtaken \/ FormIsHonest
  /\ ("dot" \notin overtaken /\ lost = {} /\ kind = "deposit" /\ ~win.open /\ calls = <<>>
        /\ activeFor # {}) => hud.dot

(* The balance of the game is the balance of the server, except for what   *)
(* the CRM moved since it was read, or when two readings of it came in the *)
(* wrong order: what the player himself took out or took back is seen at   *)
(* once (WithdrawModal.tsx, onBalance), whatever other calls come between. *)
HudIsFresh ==
  (lost = {} /\ "money" \notin overtaken /\ ~moved /\ calls = <<>>) => hud.money = Money

(* A deposit that is credited while its window is open reaches the balance *)
(* of the game, which itself asks the server for nothing but rounds.       *)
CreditIsSeen ==
  \A r \in Requests :
    (win.open /\ Shown = r /\ r \in Money)
      ~> (~win.open \/ "me" \in lost \/ r \in hud.money \/ kind = "withdraw")
=============================================================================
