---------------------------- MODULE Persistence ------------------------------
(***************************************************************************)
(* What the server keeps in MongoDB (player-store.ts, payment-store.ts,    *)
(* withdraw-store.ts, settings.service.ts, mongo.service.ts).              *)
(*                                                                         *)
(* The services work on maps in memory.  An operation changes the records  *)
(* and fires a replaceOne of each, or a deleteOne, which nobody waits for: *)
(* a failure is only logged.  The copy { ...rec } is shallow.  The scalars *)
(* of a record are those of the moment of the call, and what it holds by   *)
(* reference (history, dryStreaks, revealed) is read when the driver puts  *)
(* the command on a connection of its pool.  Commands of several           *)
(* connections land in any order.  After a stop onModuleInit reads the     *)
(* collections back, and what had not landed is lost.                      *)
(*                                                                         *)
(* Every document has the same fields here, and each kind uses its own.    *)
(* sum is the balance of a player, the cursor of an address, the mode of   *)
(* the settings; past counts what a player holds by reference; born tells  *)
(* the record of a deleted player from that of the one created after it.   *)
(* A request asks for one unit of money.                                   *)
(*                                                                         *)
(* The bounds are MaxDeeds operations and MaxFaults failed writes and      *)
(* stops of the server.                                                    *)
(***************************************************************************)
EXTENDS Naturals, FiniteSets

CONSTANTS
  Players, Deposits, Withdrawals, Addresses, Transfers, Settings,
  Owner,                     \* Owner[r]: the player who makes a request
  StartBalance, MaxDeeds, MaxFaults

Requests == Deposits \cup Withdrawals
Docs == Players \cup Requests \cup Addresses \cup Transfers \cup Settings

ASSUME DurableAssumption ==
  /\ {StartBalance, MaxDeeds, MaxFaults} \subseteq Nat
  /\ Owner \in [Requests -> Players]
  /\ IsFiniteSet(Docs)
  /\ Players \cap (Requests \cup Addresses \cup Transfers \cup Settings) = {}
  /\ Requests \cap (Addresses \cup Transfers \cup Settings) = {}
  /\ Deposits \cap Withdrawals = {}

VARIABLES
  mem,      \* the maps of the services
  db,       \* the collections
  writes,   \* the commands the driver has taken and not finished
  issued,   \* issued[d]: how many commands were given for d since the start
  landed,   \* landed[d]: the number of the one that landed last
  deeds, fails, crashes,
  held,     \* history: the scalars d has had between two operations
  closed,   \* history: how often a request was paid or given back
  unsaved   \* history: how many stops came before that was in the database

vars == <<mem, db, writes, issued, landed, deeds, fails, crashes, held, closed, unsaved>>

Image == [status : {"none", "here", "off", "pending", "processing", "confirmed",
                    "approved", "rejected", "canceled", "expired",
                    "new", "credited", "ignored"},
          born : Nat, sum : Nat, nonce : Nat, seeds : Nat, past : Nat]

Blank == [status |-> "none", born |-> 0, sum |-> 0, nonce |-> 0, seeds |-> 0, past |-> 0]
Is(d, statuses) == mem[d].status \in statuses
Here(p) == Is(p, {"here"})
With(d, status) == [mem[d] EXCEPT !.status = status]

Scalars(image) == [image EXCEPT !.past = 0]

(***************************************************************************)
(* save and delete.  A record still waiting for a connection shares what   *)
(* it holds by reference with the record in memory.                        *)
(***************************************************************************)
SharesWith(w, new) ==
  /\ ~w.sent /\ w.doc \in DOMAIN new
  /\ "none" \notin {w.image.status, new[w.doc].status}
  /\ w.image.born = new[w.doc].born

Waiting(new) ==
  {IF SharesWith(w, new) THEN [w EXCEPT !.image.past = new[w.doc].past] ELSE w : w \in writes}

Save(new) ==
  {[doc |-> d, no |-> issued[d] + 1, image |-> new[d], sent |-> FALSE] : d \in DOMAIN new}

(* An operation leaves the records as new says and saves each of them.     *)
Persist(new) ==
  /\ writes' = Waiting(new) \cup Save(new)
  /\ issued' = [d \in Docs |-> IF d \in DOMAIN new THEN issued[d] + 1 ELSE issued[d]]

Change(new) ==
  /\ deeds < MaxDeeds /\ deeds' = deeds + 1
  /\ mem' = [d \in Docs |-> IF d \in DOMAIN new THEN new[d] ELSE mem[d]]
  /\ held' = [d \in Docs |-> held[d] \cup {Scalars(mem'[d])}]
  /\ Persist(new)
  /\ UNCHANGED <<db, landed, fails, crashes>>

One(d, image) == [x \in {d} |-> image]
Both(d, image, e, other) == [x \in {d, e} |-> IF x = d THEN image ELSE other]

Keeping(action) == action /\ UNCHANGED <<closed, unsaved>>
Closing(r, action) ==
  action /\ closed' = [closed EXCEPT ![r] = @ + 1] /\ UNCHANGED unsaved

(***************************************************************************)
(* Players.                                                                *)
(***************************************************************************)
ToppedUp(p, n) == [mem[p] EXCEPT !.sum = @ + n]
Charged(p, n) == [mem[p] EXCEPT !.sum = @ - n]

FindOrCreate(p) ==
  /\ Is(p, {"none"})
  /\ Keeping(Change(One(p, [Blank EXCEPT !.status = "here", !.born = deeds + 1,
                                         !.sum = StartBalance])))

Played(p, cost, payout) ==
  [mem[p] EXCEPT !.sum = @ - cost + payout, !.nonce = @ + 1, !.past = @ + 1]

Play(p, cost, payout) ==
  /\ Here(p) /\ cost <= mem[p].sum
  /\ Keeping(Change(One(p, Played(p, cost, payout))))

\* Mutant: a new seed is not saved.
Rotate_Unsaved(p) ==
  /\ Here(p) /\ deeds < MaxDeeds /\ deeds' = deeds + 1
  /\ mem' = [mem EXCEPT ![p] = [@ EXCEPT !.nonce = 0, !.seeds = @ + 1, !.past = @ + 1]]
  /\ held' = [held EXCEPT ![p] = @ \cup {Scalars(mem'[p])}]
  /\ UNCHANGED <<db, writes, issued, landed, fails, crashes, closed, unsaved>>

Rotate(p) ==
  /\ Here(p)
  /\ Keeping(Change(One(p, [mem[p] EXCEPT !.nonce = 0, !.seeds = @ + 1, !.past = @ + 1])))

SetClientSeed(p) ==
  /\ Here(p)
  /\ Keeping(Change(One(p, [mem[p] EXCEPT !.seeds = @ + 1])))

TopUp(p) == Here(p) /\ Keeping(Change(One(p, ToppedUp(p, 1))))
ZeroBalance(p) == Here(p) /\ Keeping(Change(One(p, Charged(p, mem[p].sum))))
Remove(p) == Here(p) /\ Keeping(Change(One(p, Blank)))

(***************************************************************************)
(* Requests for a deposit, and transfers nobody asked for.  mustOpen and   *)
(* cancelByPlayer sweep before they look: one that finds its request       *)
(* lapsed is the step Sweep, and refuses.                                  *)
(***************************************************************************)
CreateDeposit(r) ==
  Is(r, {"none"}) /\ Keeping(Change(One(r, [Blank EXCEPT !.status = "pending"])))

Open == {"pending", "processing", "confirmed"}

Approve(r) ==
  /\ Is(r, Open) /\ Here(Owner[r])
  /\ Closing(r, Change(Both(Owner[r], ToppedUp(Owner[r], 1), r, With(r, "approved"))))

Reject(r) == Is(r, Open) /\ Keeping(Change(One(r, With(r, "rejected"))))
CancelByPlayer(r) == Is(r, {"pending"}) /\ Keeping(Change(One(r, With(r, "canceled"))))
Sweep(r) == Is(r, {"pending"}) /\ Keeping(Change(One(r, With(r, "expired"))))
Ingest(r) == Is(r, {"pending"}) /\ Keeping(Change(One(r, With(r, "processing"))))
Settle(r) == Is(r, {"processing"}) /\ Keeping(Change(One(r, With(r, "confirmed"))))

AddUnmatched(u) ==
  Is(u, {"none"}) /\ Keeping(Change(One(u, [Blank EXCEPT !.status = "new"])))

CreditUnmatched(u, p) ==
  /\ Is(u, {"new"}) /\ Here(p)
  /\ Keeping(Change(Both(p, ToppedUp(p, 1), u, With(u, "credited"))))

IgnoreUnmatched(u) == Is(u, {"new"}) /\ Keeping(Change(One(u, With(u, "ignored"))))

(***************************************************************************)
(* Requests for a payout, the addresses and the settings.                  *)
(***************************************************************************)
CreateWithdrawal(w) ==
  /\ Is(w, {"none"}) /\ Here(Owner[w]) /\ mem[Owner[w]].sum >= 1
  /\ Keeping(Change(Both(Owner[w], Charged(Owner[w], 1),
                         w, [Blank EXCEPT !.status = "pending"])))

ApproveWithdrawal(w) ==
  Is(w, {"pending"}) /\ Closing(w, Change(One(w, With(w, "approved"))))

\* Mutant: what was refunded may be refunded.
Refund_Again(w, status) ==
  /\ ~Is(w, {"none"}) /\ Here(Owner[w])
  /\ Closing(w, Change(Both(Owner[w], ToppedUp(Owner[w], 1), w, With(w, status))))

Refund(w, status) ==
  /\ Is(w, {"pending"}) /\ Here(Owner[w])
  /\ Closing(w, Change(Both(Owner[w], ToppedUp(Owner[w], 1), w, With(w, status))))

AddAddress(a) ==
  Is(a, {"none"}) /\ Keeping(Change(One(a, [Blank EXCEPT !.status = "here"])))

UpdateAddress(a) ==
  \/ Here(a) /\ Keeping(Change(One(a, With(a, "off"))))
  \/ Is(a, {"off"}) /\ Keeping(Change(One(a, With(a, "here"))))

NoteScan(a) ==
  ~Is(a, {"none"}) /\ Keeping(Change(One(a, [mem[a] EXCEPT !.sum = @ + 1])))

RemoveAddress(a) == ~Is(a, {"none"}) /\ Keeping(Change(One(a, Blank)))

SetDeposits(s) ==
  Keeping(Change(One(s, [mem[s] EXCEPT !.status = "here", !.sum = @ + 1])))

(***************************************************************************)
(* The driver and the database.                                            *)
(***************************************************************************)
Quiet == UNCHANGED <<mem, issued, deeds, held, closed, unsaved>>

Send(w) ==
  /\ ~w.sent
  /\ writes' = (writes \ {w}) \cup {[w EXCEPT !.sent = TRUE]}
  /\ Quiet /\ UNCHANGED <<db, landed, fails, crashes>>

Land(w) ==
  /\ w.sent
  /\ db' = [db EXCEPT ![w.doc] = w.image]
  /\ landed' = [landed EXCEPT ![w.doc] = w.no]
  /\ writes' = writes \ {w}
  /\ Quiet /\ UNCHANGED <<fails, crashes>>

Fail(w) ==
  /\ fails + crashes < MaxFaults /\ fails' = fails + 1
  /\ writes' = writes \ {w}
  /\ Quiet /\ UNCHANGED <<db, landed, crashes>>

(***************************************************************************)
(* A stop and the start after it.  Everything in flight is lost.  The      *)
(* start reads every collection, then expires the requests that lapsed in  *)
(* between, and saves those.                                               *)
(***************************************************************************)
\* Mutant: the defaults of a record are laid over what was read.
Loaded_DefaultsLast(d) == [db[d] EXCEPT !.past = 0]

Loaded(d) == db[d]

(* The money of the request has moved, and the database may not know.      *)
Settled(r) ==
  Is(r, IF r \in Deposits THEN {"approved"} ELSE {"approved", "rejected", "canceled"})
Unsaved(r) == Settled(r) /\ landed[r] # issued[r]

Lapsable == {r \in Deposits : Loaded(r).status = "pending"}

Restart(lapsed) ==
  /\ fails + crashes < MaxFaults /\ crashes' = crashes + 1
  /\ mem' = [d \in Docs |-> IF d \in lapsed THEN [Loaded(d) EXCEPT !.status = "expired"]
                                            ELSE Loaded(d)]
  /\ writes' = {[doc |-> r, no |-> 1, image |-> mem'[r], sent |-> FALSE] : r \in lapsed}
  /\ issued' = [d \in Docs |-> IF d \in lapsed THEN 1 ELSE 0]
  /\ landed' = [d \in Docs |-> 0]
  /\ held' = [d \in Docs |-> held[d] \cup {Scalars(mem'[d])}]
  /\ unsaved' = [r \in Requests |-> IF Unsaved(r) THEN unsaved[r] + 1 ELSE unsaved[r]]
  /\ UNCHANGED <<db, deeds, fails, closed>>

(* A server that starts on an empty database, or on one where every kind   *)
(* of document is there.                                                   *)
Fresh(d) ==
  CASE d \in Players -> [Blank EXCEPT !.status = "here", !.sum = StartBalance]
    [] d \in Requests -> [Blank EXCEPT !.status = "pending"]
    [] d \in Transfers -> [Blank EXCEPT !.status = "new"]
    [] OTHER -> [Blank EXCEPT !.status = "here"]

Init ==
  /\ db \in {[d \in Docs |-> Blank], [d \in Docs |-> Fresh(d)]}
  /\ mem = db
  /\ writes = {}
  /\ issued = [d \in Docs |-> 0] /\ landed = issued
  /\ deeds = 0 /\ fails = 0 /\ crashes = 0
  /\ held = [d \in Docs |-> {Scalars(db[d])}]
  /\ closed = [r \in Requests |-> 0] /\ unsaved = closed

Next ==
  \/ \E p \in Players :
       \/ FindOrCreate(p) \/ Rotate(p) \/ SetClientSeed(p) \/ TopUp(p)
       \/ ZeroBalance(p) \/ Remove(p)
       \/ \E cost \in {0, 1}, payout \in {0, 2} : Play(p, cost, payout)
  \/ \E r \in Deposits :
       \/ CreateDeposit(r) \/ Approve(r) \/ Reject(r) \/ CancelByPlayer(r)
       \/ Sweep(r) \/ Ingest(r) \/ Settle(r)
  \/ \E u \in Transfers :
       AddUnmatched(u) \/ IgnoreUnmatched(u) \/ \E p \in Players : CreditUnmatched(u, p)
  \/ \E w \in Withdrawals :
       \/ CreateWithdrawal(w) \/ ApproveWithdrawal(w)
       \/ \E status \in {"rejected", "canceled"} : Refund(w, status)
  \/ \E a \in Addresses : AddAddress(a) \/ UpdateAddress(a) \/ NoteScan(a) \/ RemoveAddress(a)
  \/ \E s \in Settings : SetDeposits(s)
  \/ \E w \in writes : Send(w) \/ Land(w) \/ Fail(w)
  \/ \E lapsed \in SUBSET Lapsable : Restart(lapsed)

Spec == Init /\ [][Next]_vars

-----------------------------------------------------------------------------
(* Every variable has its type, and the commands of a document are         *)
(* numbered apart.                                                         *)
TypeOK ==
  /\ {mem, db} \subseteq [Docs -> Image]
  /\ {issued, landed} \subseteq [Docs -> Nat]
  /\ writes \subseteq [doc : Docs, no : Nat, image : Image, sent : BOOLEAN]
  /\ {deeds, fails, crashes} \subseteq Nat
  /\ held \in [Docs -> SUBSET Image]
  /\ {closed, unsaved} \subseteq [Requests -> Nat]
  /\ \A v, w \in writes : v.doc = w.doc /\ v.no = w.no => v = w

(* What was saved last is what is there: when the last command given for a *)
(* document has landed and none landed after it, the database holds the    *)
(* record of the memory, what it shares by reference included.  No         *)
(* operation may change a record after it has saved it, or forget to.      *)
LastWriteIsTheRecord ==
  \A d \in Docs : issued[d] > 0 /\ landed[d] = issued[d] => db[d] = mem[d]

(* Whatever fails, overtakes or stops: the scalars of a document are those *)
(* its record had between two operations, never those of the middle of     *)
(* one, and so are the scalars a start brings back.                        *)
OnlyWholeRecords == \A d \in Docs : Scalars(db[d]) \in held[d]

(* The money of a request moves again only after a stop that came before   *)
(* the database knew that it had: approve() and refund() look at the       *)
(* status in memory and wait for no write (withdraw.service.ts:127, 156),  *)
(* and a write that failed, was overtaken or was still on its way brings   *)
(* the request back to life.  Every further time has such a stop of its    *)
(* own.                                                                    *)
SettledAgainOnlyIfUnsaved == \A r \in Requests : closed[r] <= 1 + unsaved[r]

(* A stop loses nothing that was saved: a document with no command under   *)
(* way, whose last one landed last, is after the start what it was before, *)
(* but for a request that has lapsed since.                                *)
Saved(d) ==
  /\ landed[d] = issued[d] /\ issued[d] > 0
  /\ \A w \in writes : w.doc # d

RestartKeepsWhatIsSaved ==
  [][crashes' # crashes =>
       \A d \in Docs : Saved(d) =>
          \/ mem'[d] = mem[d]
          \/ mem[d].status = "pending" /\ mem'[d] = With(d, "expired")]_vars

(* "A request leaves pending exactly once, so it cannot be given back      *)
(* twice" (withdraw.service.ts:141-143): when nothing was done but to      *)
(* decide one withdrawal, its player has the reserve back at most once.    *)
GivenBackOnce ==
  \A w \in Withdrawals : deeds = closed[w] => mem[Owner[w]].sum <= StartBalance + 1
=============================================================================
