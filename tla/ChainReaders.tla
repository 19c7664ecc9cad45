---------------------------- MODULE ChainReaders ----------------------------
(***************************************************************************)
(* The scan() of the four chain readers (apps/api/src/watcher/chains): one *)
(* deposit address, the provider's listing of what reached it, and the     *)
(* cursor kept in the address record.  A scan asks for one page after      *)
(* another and waits for each; only when it is over are its transfers      *)
(* handed to ingest() and the cursor stored, both without waiting, so a    *)
(* scan that fails leaves no trace.                                        *)
(*                                                                         *)
(* EVM and TRON list from the oldest, TON and Solana from the newest.      *)
(* EVM, TRON and TON keep the time of the newest transfer seen and ask     *)
(* again from one unit before it; Solana keeps its signature and asks for  *)
(* what is newer.  A transfer may be hidden for a while: an EVM network    *)
(* reports it late, a TON event is still in progress.  How many transfers  *)
(* wait to be read and how long one is hidden is up to the chain.          *)
(*                                                                         *)
(* The bounds of the model are Events, MaxTime and MaxFailures.            *)
(***************************************************************************)
EXTENDS Integers, FiniteSetsExt

CONSTANTS
  Readers,      \* the readers of this instance
  Events,       \* transfers to the address, numbered in the order of time
  PageSize, MaxPages,
  MaxTime, MaxFailures,
  Late          \* the readers whose provider may hide a transfer for a while

Idle == [pages |-> 0]
Ascending == {"evm", "tron"}
ByTime == {"evm", "tron", "ton"}

ASSUME EventsAssumption ==
  Cardinality(Events) \in Nat /\ Events = 1..Cardinality(Events)
ASSUME ReadersAssumption ==
  Readers \subseteq {"evm", "tron", "ton", "solana"} /\ Late \subseteq Readers
ASSUME PagingAssumption == PageSize \in Nat \ {0} /\ MaxPages \in Nat \ {0}
ASSUME BoundsAssumption == MaxTime \in Nat /\ MaxFailures \in Nat

VARIABLES
  reader,     \* which of the readers this is
  clock,      \* the time of the chain
  time,       \* time[e]: when transfer e was made
  hidden,     \* transfers the provider does not report as final yet
  cursor,     \* DepositAddress.cursor: a time, or a transfer for Solana
  scan,       \* the scan under way
  reported,   \* transfers that were handed to ingest()
  missed,     \* history: transfers a scan that ended was not shown
  failures    \* how many scans have failed

vars == <<reader, clock, time, hidden, cursor, scan, reported, missed, failures>>

-----------------------------------------------------------------------------
(* The provider.                                                           *)

Appeared == DOMAIN time

(* TonAPI lists an event in progress, and marks it; the others do not list *)
(* what they have not indexed.                                             *)
Listed == IF reader = "ton" THEN Appeared ELSE Appeared \ hidden

\* Mutant: the border of the window is taken to be exclusive.
Window_Exclusive(cur) ==
  IF reader \in ByTime THEN {e \in Listed : time[e] > cur}
  ELSE {e \in Listed : e > cur}

(* What a query from this cursor covers; the times are one unit wider.     *)
Window(cur) ==
  IF reader \in ByTime THEN {e \in Listed : time[e] >= cur - 1}
  ELSE {e \in Listed : e > cur}

(* Does e come before f in the listing?                                    *)
Before(e, f) == IF reader \in Ascending THEN e < f ELSE e > f

(* What of the window comes after transfer last (0: all of it), and the    *)
(* first page of that.                                                     *)
Rest(cur, last) == {e \in Window(cur) : last = 0 \/ Before(last, e)}

Page(cur, last) ==
  {e \in Rest(cur, last) : Cardinality({f \in Rest(cur, last) : Before(f, e)}) < PageSize}

LastOf(page) == CHOOSE e \in page : \A f \in page : f = e \/ Before(f, e)

(* Rows a reader acts on: a TON event in progress is passed over.          *)
Final(page) == page \ hidden

\* Mutant: the cursor stays.
Newest_Stays(cur, page) == cur

(* The newest the cursor has to cover after a page.                        *)
Newest(cur, page) ==
  IF reader \in ByTime THEN Max({cur} \cup {time[e] : e \in Final(page)})
  ELSE Max({cur} \cup page)

(* What a scan is not shown: what is still hidden when something newer is  *)
(* read (for TON newer by more than the unit the reader steps back by),    *)
(* and what a listing from the newest holds beyond the last page.          *)
Overtaken(page) ==
  {e \in hidden :
     \E f \in Final(page) : e < f /\ (reader = "ton" => time[e] + 1 < time[f])}

CutOff(page) == IF reader \in Ascending THEN {} ELSE Rest(scan.from, scan.last) \ page

-----------------------------------------------------------------------------
Init ==
  /\ reader \in Readers
  /\ clock = 1
  /\ time = [e \in {} |-> 0]
  /\ hidden = {}
  /\ cursor = 0
  /\ scan = Idle
  /\ reported = {} /\ missed = {}
  /\ failures = 0

Tick ==
  /\ clock < MaxTime
  /\ clock' = clock + 1
  /\ UNCHANGED <<reader, time, hidden, cursor, scan, reported, missed, failures>>

(* A transfer is made.                                                     *)
Transfer(late) ==
  /\ late => reader \in Late
  /\ \E e \in Events \ Appeared :
       /\ \A f \in Events \ Appeared : e <= f
       /\ time' = [f \in Appeared \cup {e} |-> IF f = e THEN clock ELSE time[f]]
       /\ hidden' = IF late THEN hidden \cup {e} ELSE hidden
  /\ UNCHANGED <<reader, clock, cursor, scan, reported, missed, failures>>

(* It becomes final, or its network catches up.                            *)
Show(e) ==
  /\ e \in hidden
  /\ hidden' = hidden \ {e}
  /\ UNCHANGED <<reader, clock, time, cursor, scan, reported, missed, failures>>

-----------------------------------------------------------------------------
(* A scan starts from the cursor of the address; Solana takes the newest   *)
(* signature from the first page only.                                     *)
Begin ==
  /\ scan = Idle
  /\ scan' = [pages |-> 1, from |-> cursor, last |-> 0, newest |-> cursor,
              got |-> {}, missed |-> {}]
  /\ UNCHANGED <<reader, clock, time, hidden, cursor, reported, missed, failures>>

NextPage ==
  /\ scan # Idle
  /\ LET page == Page(scan.from, scan.last) IN
       /\ Cardinality(page) = PageSize /\ scan.pages < MaxPages
       /\ scan' = [scan EXCEPT !.pages = @ + 1, !.last = LastOf(page),
                               !.newest = Newest(@, page), !.got = @ \cup Final(page),
                               !.missed = @ \cup Overtaken(page)]
  /\ UNCHANGED <<reader, clock, time, hidden, cursor, reported, missed, failures>>

(* A short page, or the last one allowed: the transfers are ingested and   *)
(* noteScan() stores the cursor.                                           *)
LastPage ==
  /\ scan # Idle
  /\ LET page == Page(scan.from, scan.last) IN
       /\ Cardinality(page) < PageSize \/ scan.pages = MaxPages
       /\ reported' = reported \cup scan.got \cup Final(page)
       /\ cursor' = Newest(scan.newest, page)
       /\ missed' = missed \cup scan.missed \cup Overtaken(page) \cup CutOff(page)
  /\ scan' = Idle
  /\ UNCHANGED <<reader, clock, time, hidden, failures>>

(* A request to the provider fails; the scan throws.                       *)
Fail ==
  /\ scan # Idle
  /\ failures < MaxFailures
  /\ failures' = failures + 1
  /\ scan' = Idle
  /\ UNCHANGED <<reader, clock, time, hidden, cursor, reported, missed>>

Next ==
  \/ Tick
  \/ \E late \in BOOLEAN : Transfer(late)
  \/ \E e \in hidden : Show(e)
  \/ Begin
  \/ NextPage
  \/ LastPage
  \/ Fail

Spec == Init /\ [][Next]_vars

(* The timer of the watcher starts scans for ever and a provider answers;  *)
(* what is hidden is shown some day.                                       *)
Fairness ==
  /\ WF_vars(Begin) /\ WF_vars(NextPage) /\ WF_vars(LastPage)
  /\ WF_vars(\E e \in hidden : Show(e))

FairSpec == Spec /\ Fairness

-----------------------------------------------------------------------------
(* Types; a scan under way started from the stored cursor and will not     *)
(* store an older one.                                                     *)
TypeOK ==
  /\ reader \in Readers
  /\ clock \in 1..(MaxTime + 1)
  /\ Appeared \subseteq Events /\ time \in [Appeared -> 1..clock]
  /\ hidden \subseteq Appeared
  /\ reported \subseteq Appeared /\ missed \subseteq Appeared
  /\ cursor \in Nat
  /\ failures \in 0..MaxFailures
  /\ scan # Idle =>
       /\ scan.pages \in 1..MaxPages /\ scan.got \cup scan.missed \subseteq Appeared
       /\ scan.last \in Appeared \cup {0}
       /\ scan.from = cursor /\ scan.newest >= cursor

(* A query from the stored cursor covers e.                                *)
InReach(e) == IF reader \in ByTime THEN time[e] >= cursor - 1 ELSE e > cursor

(* The only transfers no query will list any more that were not reported   *)
(* are those a scan which ended was not shown: nothing is lost between two *)
(* pages, at the border of a window, by a scan that fails, or by one that  *)
(* overtakes an event by no more than the reader steps back.  A reader     *)
(* that lists from the oldest loses nothing at the page limit.             *)
SkipsOnlyTheMissed == \A e \in Appeared \ reported : InReach(e) \/ e \in missed

(* Nothing at all is lost: "обрив на ній нічого не втрачає" (ton.ts:45-48) *)
(* of the page limit, "курсор теж не рухаємо, інакше цю подію ми більше не *)
(* побачимо" (ton.ts:87-90) of an event in progress.                       *)
NothingSkipped == \A e \in Appeared \ reported : InReach(e)

(* A reader that lists from the oldest reads no further when its pages     *)
(* hold nothing but the two units of time it steps back over.              *)
Stuck ==
  /\ reader \in Ascending
  /\ Cardinality({e \in Appeared : time[e] \in {cursor - 1, cursor}}) >= MaxPages * PageSize

(* Every transfer is reported some day, whatever pages, failures and       *)
(* newer transfers come in between, unless a scan was not shown it or the  *)
(* reader is stuck.                                                        *)
EveryTransferReported ==
  \A e \in Events : (e \in Appeared) ~> (e \in reported \/ e \in missed \/ Stuck)

(* "The rest comes with the next cycle" (evm.ts:56-58), always.            *)
RestComesLater == \A e \in Events : (e \in Appeared) ~> (e \in reported)
=============================================================================
