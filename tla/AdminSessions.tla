--------------------------- MODULE AdminSessions ----------------------------
(***************************************************************************)
(* The sessions of the CRM: AdminsService and its guard on the server      *)
(* (admins.service.ts, admin-auth.guard.ts), and what the tabs of a        *)
(* browser do with the tokens they share (app/admin/lib.ts, page.tsx,      *)
(* LoginForm.tsx).                                                         *)
(*                                                                         *)
(* A pair is an access and a refresh token issued together; pairs are      *)
(* numbered in the order they are issued, and a family is named by its     *)
(* first pair.  There is one administrator.  The clock is a step of its    *)
(* own: what lapses may lapse at any moment its terms allow, 10 seconds    *)
(* for the grace of a spent refresh, 15 minutes for an access, an hour at  *)
(* least for a refresh.  A token that has lapsed is as good as deleted,    *)
(* since session() and sweep() look at the clock before they answer.       *)
(*                                                                         *)
(* Requests and answers may be lost, and a request its sender gave up may  *)
(* still be served.  The limiters of login and refresh count what others   *)
(* ask for as well, so they may refuse at any moment.                      *)
(*                                                                         *)
(* The bounds are MaxFaults (messages lost, pages reloaded, processes      *)
(* restarted), MaxDeeds (those and the calls made by hand together) and    *)
(* MaxPairs, as many pairs as those may need.                              *)
(***************************************************************************)
EXTENDS Naturals, FiniteSets

CONSTANTS
  Tabs,           \* tabs of one browser, in the order they are opened
  Calls,          \* names for the calls in flight at a time
  MaxDeeds, MaxFaults, MaxPairs

ASSUME SessionsAssumption ==
  /\ {MaxDeeds, MaxFaults, MaxPairs} \subseteq Nat
  /\ Tabs \subseteq Nat /\ IsFiniteSet(Tabs)
  /\ MaxPairs >= MaxDeeds + Cardinality(Tabs) + MaxFaults

Pairs == 1..MaxPairs
NoPair == 0

VARIABLES
  family,     \* family[p]: the family of a pair, NoPair before it is issued
  live,       \* AdminsService.sessions: pairs whose access token is good
  refresh,    \* AdminsService.refreshes: what became of a refresh token
  reissued,   \* reissued[p]: the pair given for p
  stored,     \* the pair in the localStorage of the browser
  page,       \* page[t]: the state auth of AdminPage
  calls,      \* api(): the calls that have not ended
  refreshing, \* refreshing[t]: the exchange a tab waits for
  strays,     \* requests nobody waits for any more
  asks, faults,
  ended,      \* history: families ended by a logout
  alarms      \* history: families ended because a refresh was used twice

tokenVars == <<family, live, refresh, reissued>>
serverVars == <<tokenVars, ended, alarms>>
clientVars == <<stored, page, calls, refreshing>>
vars == <<serverVars, clientVars, strays, asks, faults>>

Put(map, key, value) ==
  [k \in DOMAIN map \cup {key} |-> IF k = key THEN value ELSE map[k]]

Without(map, keys) == [k \in DOMAIN map \ keys |-> map[k]]

Families == Pairs
Issued == {p \in Pairs : family[p] # NoPair}
Kin(f) == {p \in Issued : family[p] = f}
IsNextPair(p) == p \in Pairs \ Issued /\ \A q \in Pairs \ Issued : p <= q

Fault == faults < MaxFaults /\ asks + faults < MaxDeeds /\ faults' = faults + 1

(* Requests, and the answers to them.                                      *)
Request == [op: {"me", "data", "logout", "login", "refresh"},
            pair: Pairs \cup {NoPair}, right: BOOLEAN]
Done(p) == [code |-> "ok", pair |-> p]
Unauthorized == [code |-> "unauthorized", pair |-> NoPair]
Limited == [code |-> "limited", pair |-> NoPair]
Answers == {Unauthorized, Limited} \cup {Done(p) : p \in Pairs \cup {NoPair}}

Init ==
  /\ family = [p \in Pairs |-> NoPair] /\ live = {}
  /\ refresh = [p \in Pairs |-> "none"] /\ reissued = [p \in Pairs |-> NoPair]
  /\ stored = NoPair /\ page = [t \in Tabs |-> "closed"]
  /\ calls = [c \in {} |-> {}] /\ refreshing = [t \in {} |-> {}]
  /\ strays = {} /\ asks = 0 /\ faults = 0
  /\ ended = {} /\ alarms = {}

-----------------------------------------------------------------------------
(* The server.                                                             *)

(* issuePair(): a pair p of the family f.                                  *)
IssuePair(p, f) ==
  /\ IsNextPair(p)
  /\ family' = [family EXCEPT ![p] = f]

\* Mutant: the refresh tokens of the family are left.
DropFamily_AccessOnly(f) ==
  /\ live' = live \ Kin(f)
  /\ UNCHANGED <<family, refresh, reissued>>

DropFamily(f) ==
  /\ live' = live \ Kin(f)
  /\ refresh' = [p \in Pairs |-> IF p \in Kin(f) THEN "none" ELSE refresh[p]]
  /\ UNCHANGED <<family, reissued>>

(* AdminAuthGuard: the route behind it is reached with a live access only. *)
Guarded(r) == r.pair \in live

(* RateLimiter.take(): an attempt too many in its window of time.          *)
OverLimit(answer) == answer = Limited /\ UNCHANGED serverVars

(* GET /me and the routes of the tabs.                                     *)
Ask(r, answer) ==
  /\ answer = IF Guarded(r) THEN Done(NoPair) ELSE Unauthorized
  /\ UNCHANGED serverVars

(* POST /logout.                                                           *)
Logout(r, answer) ==
  \/ /\ Guarded(r)
     /\ answer = Done(NoPair)
     /\ DropFamily(family[r.pair])
     /\ ended' = ended \cup {family[r.pair]}
     /\ UNCHANGED alarms
  \/ /\ ~Guarded(r)
     /\ answer = Unauthorized
     /\ UNCHANGED serverVars

(* POST /login: the attempt is counted before the password is looked at.   *)
Login(r, answer) ==
  \/ OverLimit(answer)
  \/ ~r.right /\ answer = Unauthorized /\ UNCHANGED serverVars
  \/ /\ r.right
     /\ \E p \in Pairs :
          /\ IssuePair(p, p)
          /\ live' = live \cup {p}
          /\ refresh' = [refresh EXCEPT ![p] = "unspent"]
          /\ answer = Done(p)
     /\ UNCHANGED <<reissued, ended, alarms>>

(* The exchange proper: the access tokens of the family go, p is spent and *)
(* remembers the pair given for it.                                        *)
Exchange(p, answer) ==
  \E q \in Pairs :
    /\ IssuePair(q, family[p])
    /\ live' = (live \ Kin(family[p])) \cup {q}
    /\ refresh' = [refresh EXCEPT ![p] = "grace", ![q] = "unspent"]
    /\ reissued' = [reissued EXCEPT ![p] = q]
    /\ answer = Done(q)
    /\ UNCHANGED <<ended, alarms>>

(* Too late a repetition: the family ends.                                 *)
Alarm(p) ==
  /\ DropFamily(family[p])
  /\ alarms' = alarms \cup {family[p]}
  /\ UNCHANGED ended

\* Mutant: a repetition within the grace is given a pair of its own.
Repeat_Anew(p, answer) == Exchange(p, answer)

(* A repetition within the grace: the lost answer once more.               *)
Repeat(p, answer) ==
  /\ answer = Done(reissued[p])
  /\ UNCHANGED <<tokenVars, ended, alarms>>

(* POST /refresh.                                                          *)
Refresh(r, answer) ==
  \/ OverLimit(answer)
  \/ refresh[r.pair] = "none" /\ answer = Unauthorized /\ UNCHANGED serverVars
  \/ refresh[r.pair] = "spent" /\ answer = Unauthorized /\ Alarm(r.pair)
  \/ refresh[r.pair] = "grace" /\ Repeat(r.pair, answer)
  \/ refresh[r.pair] = "unspent" /\ Exchange(r.pair, answer)

Handle(r, answer) ==
  \/ r.op \in {"me", "data"} /\ Ask(r, answer)
  \/ r.op = "logout" /\ Logout(r, answer)
  \/ r.op = "login" /\ Login(r, answer)
  \/ r.op = "refresh" /\ Refresh(r, answer)

(* A restart of the process: the tokens were in memory only.               *)
Restart ==
  /\ Fault
  /\ live' = {} /\ refresh' = [p \in Pairs |-> "none"]
  /\ UNCHANGED <<family, reissued, ended, alarms, clientVars, strays, asks>>
-----------------------------------------------------------------------------
(* The clock.                                                              *)

Parents(p) == {q \in Issued : reissued[q] = p}

ClockStep == UNCHANGED <<ended, alarms, clientVars, strays, asks, faults>>

(* 15 minutes after the pair was issued, when the grace of the refresh it  *)
(* was given for is long over.                                             *)
AccessLapses(p) ==
  /\ p \in live /\ \A q \in Parents(p) : refresh[q] # "grace"
  /\ live' = live \ {p}
  /\ UNCHANGED <<family, refresh, reissued>> /\ ClockStep

GraceEnds(p) ==
  /\ refresh[p] = "grace"
  /\ refresh' = [refresh EXCEPT ![p] = "spent"]
  /\ UNCHANGED <<family, live, reissued>> /\ ClockStep

(* An hour or more after it was issued, and after those issued before it.  *)
RefreshLapses(p) ==
  /\ refresh[p] # "none" /\ p \notin live
  /\ \A q \in Issued : q < p => refresh[q] = "none"
  /\ refresh' = [refresh EXCEPT ![p] = "none"]
  /\ UNCHANGED <<family, live, reissued>> /\ ClockStep

-----------------------------------------------------------------------------
(* The client.  A call is in flight (at: "sent"), has its answer on the    *)
(* way ("answered") or waits for the exchange of its tab ("waiting").      *)

FreeOf(taken) == CHOOSE c \in Calls \ taken : TRUE
HasFree == Calls # DOMAIN calls
CallsOf(t) == {c \in DOMAIN calls : calls[c].tab = t}
WaitingOf(t) == {c \in CallsOf(t) : calls[c].at = "waiting"}
Refreshing(t) == t \in DOMAIN refreshing

Sent(t, op, right) ==
  [tab |-> t, op |-> op, right |-> right, again |-> TRUE, pair |-> stored,
   at |-> "sent", answer |-> Unauthorized]

RequestOf(call) == [op |-> call.op, pair |-> call.pair, right |-> call.right]

Exchanging(p) == [pair |-> p, at |-> "sent", answer |-> Unauthorized]
RefreshRequest(e) == [op |-> "refresh", pair |-> e.pair, right |-> TRUE]

Answered(x) == x.at = "answered"
InFlight(x) == x.at = "sent"

(* What calls and exchanges leave on the way to the server when their      *)
(* sender gives up; without an answer, a mere question is of no account.   *)
LeftBy(cs) ==
  {RequestOf(calls[c]) : c \in {c \in cs : InFlight(calls[c]) /\ calls[c].op \in {"login", "logout"}}}
LeftByExchange(t) ==
  IF Refreshing(t) /\ InFlight(refreshing[t]) THEN {RefreshRequest(refreshing[t])} ELSE {}

(* AdminPage is mounted: with a token of either kind it asks who is there. *)
Mount(t) ==
  IF stored = NoPair
  THEN /\ page' = [page EXCEPT ![t] = "out"]
       /\ calls' = Without(calls, CallsOf(t))
  ELSE /\ page' = [page EXCEPT ![t] = "checking"]
       /\ LET others == DOMAIN calls \ CallsOf(t) IN
            /\ others # Calls
            /\ calls' = Put(Without(calls, CallsOf(t)), FreeOf(others), Sent(t, "me", TRUE))

Open(t) ==
  /\ page[t] = "closed" /\ \A u \in Tabs : u < t => page[u] # "closed"
  /\ Mount(t)
  /\ UNCHANGED <<serverVars, stored, refreshing, strays, asks, faults>>

Reload(t) ==
  /\ page[t] # "closed" /\ Fault
  /\ Mount(t)
  /\ refreshing' = Without(refreshing, {t})
  /\ strays' = strays \cup LeftBy(CallsOf(t)) \cup LeftByExchange(t)
  /\ UNCHANGED <<serverVars, stored, asks>>

Call(t, op, right) ==
  /\ asks + faults < MaxDeeds /\ asks' = asks + 1
  /\ HasFree /\ calls' = Put(calls, FreeOf(DOMAIN calls), Sent(t, op, right))
  /\ UNCHANGED <<serverVars, stored, page, refreshing, strays, faults>>

(* pollPending() and the tabs of the CRM.                                  *)
AskData(t) == page[t] = "in" /\ Call(t, "data", TRUE)

(* The button "Выйти".                                                     *)
AskLogout(t) == page[t] = "in" /\ Call(t, "logout", TRUE)

(* LoginForm: one attempt at a time.                                       *)
AskLogin(t, right) ==
  /\ page[t] = "out" /\ \A c \in CallsOf(t) : calls[c].op # "login"
  /\ Call(t, "login", right)

-----------------------------------------------------------------------------
ServeCall(c) ==
  /\ InFlight(calls[c])
  /\ \E answer \in Answers :
       /\ Handle(RequestOf(calls[c]), answer)
       /\ calls' = [calls EXCEPT ![c].at = "answered", ![c].answer = answer]
  /\ UNCHANGED <<stored, page, refreshing, strays, asks, faults>>

ServeRefresh(t) ==
  /\ InFlight(refreshing[t])
  /\ \E answer \in Answers :
       /\ Handle(RefreshRequest(refreshing[t]), answer)
       /\ refreshing' = [refreshing EXCEPT ![t].at = "answered", ![t].answer = answer]
  /\ UNCHANGED <<stored, page, calls, strays, asks, faults>>

(* A request its sender gave up is served all the same, sooner or later or *)
(* never.                                                                  *)
ServeStray(r) ==
  /\ strays' = strays \ {r}
  /\ \E answer \in Answers : Handle(r, answer)
  /\ UNCHANGED <<clientVars, asks, faults>>

(* setTokens(): the pair in the storage all tabs share.                    *)
setTokens(p) == stored' = p

-----------------------------------------------------------------------------
(* api() returns.                                                          *)
Succeed(c) ==
  LET call == calls[c] IN
  /\ Answered(call) /\ call.answer.code = "ok"
  /\ calls' = Without(calls, {c})
  /\ setTokens(CASE call.op = "login" -> call.answer.pair
                  [] call.op = "logout" -> NoPair
                  [] OTHER -> stored)
  /\ page' = CASE call.op \in {"login", "me"} -> [page EXCEPT ![call.tab] = "in"]
               [] call.op = "logout" -> [page EXCEPT ![call.tab] = "out"]
               [] OTHER -> page
  /\ UNCHANGED <<serverVars, refreshing, strays, asks, faults>>

MayExchange(c) ==
  /\ Answered(calls[c]) /\ calls[c].answer.code = "unauthorized"
  /\ calls[c].again /\ stored # NoPair

\* Mutant: every call exchanges the token by itself.
WaitForPair_Alone(c) ==
  /\ MayExchange(c)
  /\ refreshing' = Put(refreshing, calls[c].tab, Exchanging(stored))
  /\ strays' = strays \cup LeftByExchange(calls[c].tab)
  /\ calls' = [calls EXCEPT ![c].at = "waiting"]
  /\ UNCHANGED <<serverVars, stored, page, asks, faults>>

(* A 401: refreshTokens(), one exchange for all the calls of a tab.        *)
WaitForPair(c) ==
  /\ MayExchange(c)
  /\ refreshing' = IF Refreshing(calls[c].tab) THEN refreshing
                   ELSE Put(refreshing, calls[c].tab, Exchanging(stored))
  /\ calls' = [calls EXCEPT ![c].at = "waiting"]
  /\ UNCHANGED <<serverVars, stored, page, strays, asks, faults>>

(* A 401 that cannot be mended: the tokens go, the page shows the form.    *)
Deny(c) ==
  /\ Answered(calls[c]) /\ calls[c].answer.code = "unauthorized"
  /\ ~(calls[c].again /\ stored # NoPair)
  /\ calls' = Without(calls, {c})
  /\ setTokens(NoPair)
  /\ page' = [page EXCEPT ![calls[c].tab] = "out"]
  /\ UNCHANGED <<serverVars, refreshing, strays, asks, faults>>

(* Any other failure: logout() goes out whatever happens, the first look   *)
(* at the session too.                                                     *)
Fail(c) ==
  /\ calls' = Without(calls, {c})
  /\ setTokens(IF calls[c].op = "logout" THEN NoPair ELSE stored)
  /\ page' = IF calls[c].op \in {"logout", "me"}
             THEN [page EXCEPT ![calls[c].tab] = "out"] ELSE page
  /\ UNCHANGED <<serverVars, refreshing, asks>>

Refused(c) ==
  /\ Answered(calls[c]) /\ calls[c].answer.code = "limited"
  /\ Fail(c)
  /\ UNCHANGED <<strays, faults>>

LoseCall(c) ==
  /\ calls[c].at # "waiting" /\ Fault
  /\ Fail(c)
  /\ strays' = strays \cup LeftBy({c})

-----------------------------------------------------------------------------
(* The exchange succeeds: every call that waited is repeated once.         *)
TakePair(t) ==
  /\ Answered(refreshing[t]) /\ refreshing[t].answer.code = "ok"
  /\ setTokens(refreshing[t].answer.pair)
  /\ refreshing' = Without(refreshing, {t})
  /\ calls' = [c \in DOMAIN calls |->
       IF c \in WaitingOf(t)
       THEN [calls[c] EXCEPT !.at = "sent", !.pair = stored', !.again = FALSE] ELSE calls[c]]
  /\ UNCHANGED <<serverVars, page, strays, asks, faults>>

\* Mutant: the calls that wait are not told of the failure.
NoPairComes_Untold(t) ==
  /\ setTokens(NoPair)
  /\ page' = [page EXCEPT ![t] = "out"]
  /\ refreshing' = Without(refreshing, {t})
  /\ UNCHANGED <<serverVars, asks, calls>>

(* It fails: every call that waited is denied.                             *)
NoPairComes(t) ==
  /\ calls' = Without(calls, WaitingOf(t))
  /\ setTokens(NoPair)
  /\ page' = [page EXCEPT ![t] = "out"]
  /\ refreshing' = Without(refreshing, {t})
  /\ UNCHANGED <<serverVars, asks>>

RefreshDenied(t) ==
  /\ Answered(refreshing[t]) /\ refreshing[t].answer.code # "ok"
  /\ NoPairComes(t)
  /\ UNCHANGED <<strays, faults>>

LoseRefresh(t) ==
  /\ Fault
  /\ NoPairComes(t)
  /\ strays' = strays \cup LeftByExchange(t)

-----------------------------------------------------------------------------
CallStep(c) ==
  ServeCall(c) \/ Succeed(c) \/ WaitForPair(c) \/ Deny(c) \/ Refused(c)

ExchangeStep(t) == ServeRefresh(t) \/ TakePair(t) \/ RefreshDenied(t)

UserStep ==
  \E t \in Tabs :
    \/ Open(t) \/ Reload(t) \/ AskData(t) \/ AskLogout(t)
    \/ \E right \in BOOLEAN : AskLogin(t, right)

TimeStep ==
  \E p \in Pairs : AccessLapses(p) \/ GraceEnds(p) \/ RefreshLapses(p)

FaultStep ==
  \/ Restart
  \/ \E c \in DOMAIN calls : LoseCall(c)
  \/ \E t \in DOMAIN refreshing : LoseRefresh(t)
  \/ \E r \in strays : ServeStray(r)

Next ==
  \/ UserStep
  \/ \E c \in DOMAIN calls : CallStep(c)
  \/ \E t \in DOMAIN refreshing : ExchangeStep(t)
  \/ TimeStep
  \/ FaultStep

Spec == Init /\ [][Next]_vars

(* The server answers what it is asked, and a page takes its answers.      *)
FairSpec ==
  /\ Spec
  /\ \A c \in Calls : WF_vars(c \in DOMAIN calls /\ CallStep(c))
  /\ \A t \in Tabs : WF_vars(t \in DOMAIN refreshing /\ ExchangeStep(t))

-----------------------------------------------------------------------------
CallRecord ==
  [tab: Tabs, op: {"me", "data", "logout", "login"}, right: BOOLEAN,
   again: BOOLEAN, pair: Pairs \cup {NoPair}, at: {"sent", "answered", "waiting"},
   answer: Answers]

TypeOK ==
  /\ family \in [Pairs -> Families \cup {NoPair}]
  /\ live \subseteq Issued
  /\ refresh \in [Pairs -> {"none", "unspent", "grace", "spent"}]
  /\ reissued \in [Pairs -> Pairs \cup {NoPair}]
  /\ stored \in Pairs \cup {NoPair}
  /\ page \in [Tabs -> {"closed", "checking", "in", "out"}]
  /\ DOMAIN calls \subseteq Calls /\ calls \in [DOMAIN calls -> CallRecord]
  /\ DOMAIN refreshing \subseteq Tabs
  /\ \A t \in DOMAIN refreshing :
       refreshing[t] \in [pair: Pairs, at: {"sent", "answered"}, answer: Answers]
  /\ strays \subseteq Request
  /\ asks \in 0..MaxDeeds /\ faults \in 0..MaxFaults
  /\ ended \subseteq Families /\ alarms \subseteq Families

(* However exchanges are repeated, a family has one refresh token left to  *)
(* spend and one good access token, and they were issued together          *)
(* ("повтор У КОРОТКЕ вікно ... повертає ТУ САМУ пару", admins.service.ts; *)
(* otherwise the two that hold copies of a session would go separate ways).*)
RotationIsSingle ==
  \A p, q \in Issued :
    /\ family[p] = family[q]
    /\ p \in live \/ refresh[p] = "unspent"
    /\ q \in live \/ refresh[q] = "unspent"
    => p = q

(* A family that was ended, by a logout or by the alarm, has no token left *)
(* and gets none, whatever requests were on the way ("вихід гасить сесію   *)
(* ЦІЛКОМ ... Інакше після «виходу» лишався б живий refresh",              *)
(* admins.service.ts).                                                     *)
EndedStaysEnded ==
  \A p \in Issued : family[p] \in ended \cup alarms => p \notin live /\ refresh[p] = "none"

(* While one tab is all there is and no message was lost, the defence      *)
(* against stolen tokens is never set off by the browser itself ("другий   *)
(* такий запит прийшов би вже з витраченим refresh, і сервер справедливо   *)
(* вирішив би, що токен украли", lib.ts).                                  *)
NoFalseAlarm ==
  faults = 0 /\ Cardinality({t \in Tabs : page[t] # "closed"}) <= 1 => alarms = {}

(* Every call of a page ends, and an exchange too: a call is repeated once *)
(* at most, and no call is left behind by the exchange it waited for.      *)
EveryCallEnds ==
  /\ \A c \in Calls : c \in DOMAIN calls ~> c \notin DOMAIN calls
  /\ \A t \in Tabs : Refreshing(t) ~> ~Refreshing(t)

(* The code says: a call is repeated once, and when that is answered 401   *)
(* again, "сесії справді немає" (lib.ts:102).  It need not be: the late    *)
(* 401 of another call of the same tab may have exchanged the token anew   *)
(* in between.                                                             *)
DeniedMeansGone ==
  [][\A c \in DOMAIN calls :
       stored # NoPair /\ Deny(c) => \A p \in Kin(family[stored]) : p \notin live]_vars
=============================================================================
