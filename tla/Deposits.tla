------------------------------ MODULE Deposits ------------------------------
(***************************************************************************)
(* PaymentsService (apps/api/src/payments/payments.service.ts): deposit    *)
(* requests, the deposit addresses they are tied to, the transfers the     *)
(* watcher reports and the transfers nobody claimed.  Every method of the  *)
(* service is synchronous and the API is one Node process, so each method  *)
(* is one atomic action here; what interleaves is the order of the calls:  *)
(* players, administrators, the sweep timer and the watcher.               *)
(*                                                                         *)
(* A JavaScript Map is a function whose domain grows and shrinks.  Request *)
(* ids are handed out in increasing order, so the order of ids is the      *)
(* insertion order that Map iteration (and so Array.find) follows.         *)
(*                                                                         *)
(* Money is in MEMO_UNITs (0.0001 of a token).                             *)
(* The bounds of the model are Requests and AddressIds (how many requests  *)
(* and addresses are ever created) and Transfers (how many transfers ever  *)
(* reach the chain).                                                       *)
(***************************************************************************)
EXTENDS Integers, FiniteSets

CONSTANTS
  Players,          \* telegram ids
  Requests,         \* ids of deposit requests, in the order of creation
  AddressIds,       \* ids of deposit address records, in the order of creation
  Addresses,        \* address strings as an administrator may type them
  Canonical,        \* an address string with its letter case folded
  TonRaw,           \* tonRaw(): the 0:hex form of an address string
  Networks, Families, FamilyOf,
  MemoFamilies,     \* families that identify a payment by its comment (TON)
  Tokens, TokensOf, \* TokensOf[n]: the tokens network n carries
  AddressFamily,    \* the family whose format an address string has
  Transfers, Txids, TxidOf,
  MemoSteps,        \* MEMO_STEPS: how many distinct tails there are
  Quotes,           \* whole-cent prices a request may come to at some rate
  Slips,            \* the ways a transfer may differ from what was asked
  Configs           \* values the CRM may give to the deposit settings

Cent == 100   \* MEMO_UNITs in 0.01 of a token
NoTx == "no tx"
Nobody == "nobody"
Modes == {"off", "watch", "semi", "auto"}
Statuses == {"pending", "processing", "approved", "rejected", "expired", "canceled"}
Verdicts == {"ok", "gone", "unknown"}

(* What the code takes for granted about its constants.                    *)
ASSUME OrderAssumption == /\ Requests \subseteq Nat \ {0}
                          /\ AddressIds \subseteq Nat \ {0}
ASSUME CatalogueAssumption ==
  /\ FamilyOf \in [Networks -> Families]
  /\ MemoFamilies \subseteq Families
  /\ TokensOf \in [Networks -> SUBSET Tokens]
  /\ AddressFamily \in [Addresses -> Families]
  /\ Canonical \in [Addresses -> Addresses]
  /\ TonRaw \in [Addresses -> Addresses]
  /\ TxidOf \in [Transfers -> Txids]
  /\ NoTx \notin Txids
ASSUME MoneyAssumption ==
  /\ MemoSteps \in 1..(Cent - 1)
  /\ Quotes \subseteq Nat
  /\ Slips \subseteq [delta: Int, memo: BOOLEAN, suspect: BOOLEAN]
ASSUME ConfigsAssumption ==
  Configs \subseteq [enabled: BOOLEAN, mode: Modes,
                     networks: SUBSET Networks, tokens: SUBSET Tokens]

(* The two kinds of record a credit can come from.                         *)
Source == ({"request"} \X Requests) \cup ({"unmatched"} \X Transfers)

VARIABLES
  cfg,        \* SettingsService.deposits
  addrs,      \* PaymentsService.addrs
  items,      \* PaymentsService.items
  unmatched,  \* PaymentsService.unmatched, keyed by the transfer of the row
  chain,      \* transfers that are on some chain (environment)
  known,      \* players PlayersService has in memory
  credits     \* history: how many times each source made topUp() add money

vars == <<cfg, addrs, items, unmatched, chain, known, credits>>

Request ==
  [player: Players, network: Networks, token: Tokens, usdt: Nat,
   addressId: AddressIds, address: Addresses, status: Statuses,
   due: BOOLEAN,        \* now > expiresAt
   txid: Txids \cup {NoTx}, paid: Int,
   ripe: BOOLEAN,       \* confirmAt <= now
   confirmed: BOOLEAN,  \* confirmedAt is set
   resolvedBy: {"nobody", "admin", "bot"}]

(* An address deleted in the CRM leaves the map; here it stays, "removed", *)
(* so that its id is never handed out again (ids are random UUIDs).        *)
AddressRow == [address: Addresses, status: {"active", "inactive", "removed"}]

UnmatchedRow == [status: {"new", "credited", "ignored"}, creditedTo: Players \cup {Nobody}]

(* A transfer as the watcher reports it; payer is the request its sender   *)
(* meant to pay (0: none), which no code ever sees.                        *)
Transfer ==
  [network: Networks, token: Tokens, to: Addresses, amount: Int,
   memo: Requests \cup {0}, suspect: BOOLEAN, payer: Requests \cup {0}]

-----------------------------------------------------------------------------
(* Map.set().                                                              *)
Put(map, key, value) ==
  [k \in DOMAIN map \cup {key} |-> IF k = key THEN value ELSE map[k]]

(* id is the one the next record of a map gets.                            *)
IsNextId(id, ids, map) ==
  /\ id \in ids \ DOMAIN map
  /\ \A other \in ids \ DOMAIN map : id <= other

-----------------------------------------------------------------------------
(* Helpers of the service.                                                 *)

Memo(network) == FamilyOf[network] \in MemoFamilies

(* The catalogue has a contract of this token in this network.             *)
Carries(network, token) == token \in TokensOf[network]

AddressList == {i \in DOMAIN addrs : addrs[i].status # "removed"}

isOpen(p) == p.status \in {"pending", "processing"}

sameAddress(a, b) == Canonical[a] = Canonical[b]

\* Mutant: the sweep takes every live request whose deadline passed.
Swept_AnyOpen == [r \in DOMAIN items |->
                    IF isOpen(items[r]) /\ items[r].due
                    THEN [items[r] EXCEPT !.status = "expired"]
                    ELSE items[r]]

(* sweep(): only a pending request expires.                                *)
Swept == [r \in DOMAIN items |->
            IF items[r].status = "pending" /\ items[r].due
            THEN [items[r] EXCEPT !.status = "expired"]
            ELSE items[r]]

\* Mutant: a request the bot found the transfer of no longer counts as live.
activeFor_Pending(p) ==
  {r \in DOMAIN items : Swept[r].player = p /\ Swept[r].status = "pending"}

(* activeFor(): sweeps first.                                              *)
activeFor(p) == {r \in DOMAIN items : Swept[r].player = p /\ isOpen(Swept[r])}

\* Mutant: a paid request gives its tail back before it is decided.
OpenAt_PendingOnly(its, id) ==
  {r \in DOMAIN its : its[r].status = "pending" /\ its[r].addressId = id}

OpenAt(its, id) == {r \in DOMAIN its : isOpen(its[r]) /\ its[r].addressId = id}

(* pickAddress(): the least busy active address of the family, the oldest  *)
(* of equals.                                                              *)
PickAddress(family, its) ==
  LET active == {i \in DOMAIN addrs : /\ addrs[i].status = "active"
                                      /\ AddressFamily[addrs[i].address] = family}
      busy(i) == Cardinality(OpenAt(its, i))
  IN  {i \in active : \A j \in active :
         busy(i) < busy(j) \/ (busy(i) = busy(j) /\ i <= j)}

\* Mutant: the tail is random from the start.
FreeMemoUnit_Random(id, its) == 1..MemoSteps

(* freeMemoUnit(): the least tail no open request of the address carries,  *)
(* a random one when all are taken.                                        *)
FreeMemoUnit(id, its) ==
  LET free == (1..MemoSteps) \ {its[r].usdt % Cent : r \in OpenAt(its, id)}
  IN  IF free = {} THEN 1..MemoSteps
      ELSE {u \in free : \A v \in free : u <= v}

(* create() prices a request: a tail in the networks that identify a       *)
(* payment by its amount, none where the comment does.                     *)
Prices(network, id, cents, its) ==
  IF Memo(network) THEN {cents * Cent}
  ELSE {cents * Cent + u : u \in FreeMemoUnit(id, its)}

\* Mutant: only the requests are searched.
KnownTxid_RequestsOnly(txid) == \E r \in DOMAIN items : items[r].txid = txid

(* knownTxid(): a request or an unmatched row holds this txid already.     *)
KnownTxid(txid) ==
  \/ \E r \in DOMAIN items : items[r].txid = txid
  \/ \E t \in DOMAIN unmatched : TxidOf[t] = txid

\* Mutants: the token is not compared; the network is, not the family.
Candidates_AnyToken(tx) ==
  {r \in DOMAIN items : /\ items[r].status = "pending"
                        /\ FamilyOf[items[r].network] = FamilyOf[tx.network]
                        /\ sameAddress(items[r].address, tx.to)}
Candidates_SameNetwork(tx) ==
  {r \in DOMAIN items : /\ items[r].status = "pending"
                        /\ items[r].token = tx.token
                        /\ items[r].network = tx.network
                        /\ sameAddress(items[r].address, tx.to)}
(* findCandidate(): pending requests of the transfer's token, family and   *)
(* account; the comment or the amount names one of them, an underpaid one  *)
(* is refused.                                                             *)
Candidates(tx) ==
  {r \in DOMAIN items : /\ items[r].status = "pending"
                        /\ items[r].token = tx.token
                        /\ FamilyOf[items[r].network] = FamilyOf[tx.network]
                        /\ sameAddress(items[r].address, tx.to)}

FirstOf(ids) == {r \in ids : \A s \in ids : r <= s}

FindCandidate(tx) ==
  IF Memo(tx.network)
  THEN {r \in Candidates(tx) : tx.memo = r /\ tx.amount >= items[r].usdt}
  ELSE FirstOf({r \in Candidates(tx) : items[r].usdt = tx.amount})

-----------------------------------------------------------------------------
Init ==
  /\ cfg \in Configs
  /\ addrs = [i \in {} |-> {}]
  /\ items = [r \in {} |-> {}]
  /\ unmatched = [t \in {} |-> {}]
  /\ chain = [t \in {} |-> {}]
  /\ known = {}
  /\ credits = [s \in Source |-> 0]

(* topUp(): null, and no money, when the player is not in memory.          *)
TopUp(player, source) ==
  /\ player \in known
  /\ credits' = [credits EXCEPT ![source] = @ + 1]

-----------------------------------------------------------------------------
(* Players.                                                                *)

(* Any authenticated request registers the player.                         *)
FindOrCreate(p) ==
  /\ p \notin known
  /\ known' = known \cup {p}
  /\ UNCHANGED <<cfg, addrs, items, unmatched, chain, credits>>

(* The CRM deletes a player; requests and unmatched rows stay.             *)
RemovePlayer(p) ==
  /\ p \in known
  /\ known' = known \ {p}
  /\ UNCHANGED <<cfg, addrs, items, unmatched, chain, credits>>

(* POST /payments.                                                         *)
Create(p, network, token, cents) ==
  /\ network \in cfg.networks
  /\ token \in cfg.tokens /\ Carries(network, token)
  /\ activeFor(p) = {}
  /\ \E id \in PickAddress(FamilyOf[network], Swept) :
     \E usdt \in Prices(network, id, cents, Swept) :
     \E r \in Requests :
       /\ IsNextId(r, Requests, items)
       /\ items' = Put(Swept, r,
            [player |-> p, network |-> network, token |-> token, usdt |-> usdt,
             addressId |-> id, address |-> addrs[id].address,
             status |-> "pending", due |-> FALSE,
             txid |-> NoTx, paid |-> 0, ripe |-> FALSE, confirmed |-> FALSE,
             resolvedBy |-> "nobody"])
  /\ known' = known \cup {p}
  /\ UNCHANGED <<cfg, addrs, unmatched, chain, credits>>

(* POST /payments/:id/cancel.                                              *)
CancelByPlayer(r) ==
  /\ Swept[r].status = "pending"
  /\ items' = [Swept EXCEPT ![r].status = "canceled"]
  /\ UNCHANGED <<cfg, addrs, unmatched, chain, known, credits>>

-----------------------------------------------------------------------------
(* The sweep timer, and every method that sweeps and then reads or throws. *)
Sweep ==
  /\ items' = Swept
  /\ UNCHANGED <<cfg, addrs, unmatched, chain, known, credits>>

(* Time: the deadline of a pending request passes (the older one first),   *)
(* or the finality delay of a paid one does.                               *)
DeadlinePasses(r) ==
  /\ items[r].status = "pending" /\ ~items[r].due
  /\ \A s \in DOMAIN items : s < r /\ items[s].status = "pending" => items[s].due
  /\ items' = [items EXCEPT ![r].due = TRUE]
  /\ UNCHANGED <<cfg, addrs, unmatched, chain, known, credits>>

FinalityPasses(r) ==
  /\ items[r].status = "processing" /\ ~items[r].ripe
  /\ items' = [items EXCEPT ![r].ripe = TRUE]
  /\ UNCHANGED <<cfg, addrs, unmatched, chain, known, credits>>

-----------------------------------------------------------------------------
(* Administrators.                                                         *)

SetDeposits(c) ==
  /\ c # cfg
  /\ cfg' = c
  /\ UNCHANGED <<addrs, items, unmatched, chain, known, credits>>

(* addAddress() compares the strings exactly, letter case included.        *)
AddAddress(a) ==
  /\ ~ \E i \in AddressList : addrs[i].address = a
  /\ \E i \in AddressIds :
       /\ IsNextId(i, AddressIds, addrs)
       /\ addrs' = Put(addrs, i, [address |-> a, status |-> "active"])
  /\ UNCHANGED <<cfg, items, unmatched, chain, known, credits>>

UpdateAddress(i, active) ==
  /\ i \in AddressList
  /\ addrs' = [addrs EXCEPT ![i].status = IF active THEN "active" ELSE "inactive"]
  /\ UNCHANGED <<cfg, items, unmatched, chain, known, credits>>

RemoveAddress(i) ==
  /\ i \in AddressList
  /\ addrs' = [addrs EXCEPT ![i].status = "removed"]
  /\ UNCHANGED <<cfg, items, unmatched, chain, known, credits>>

\* Mutant: the status first, and nobody looks at what topUp() returned.
Approve_StatusFirst(r) ==
  /\ isOpen(Swept[r])
  /\ credits' = IF items[r].player \in known
                THEN [credits EXCEPT ![<<"request", r>>] = @ + 1] ELSE credits
  /\ items' = [Swept EXCEPT ![r].status = "approved", ![r].resolvedBy = "admin"]
  /\ UNCHANGED <<cfg, addrs, unmatched, chain, known>>

(* approve(): first the money, then the status.                            *)
Approve(r) ==
  /\ isOpen(Swept[r])
  /\ TopUp(items[r].player, <<"request", r>>)
  /\ items' = [Swept EXCEPT ![r].status = "approved", ![r].resolvedBy = "admin"]
  /\ UNCHANGED <<cfg, addrs, unmatched, chain, known>>

Reject(r) ==
  /\ isOpen(Swept[r])
  /\ items' = [Swept EXCEPT ![r].status = "rejected", ![r].resolvedBy = "admin"]
  /\ UNCHANGED <<cfg, addrs, unmatched, chain, known, credits>>

CreditUnmatched(t, p) ==
  /\ unmatched[t].status = "new"
  /\ TopUp(p, <<"unmatched", t>>)
  /\ unmatched' = [unmatched EXCEPT ![t] = [status |-> "credited", creditedTo |-> p]]
  /\ UNCHANGED <<cfg, addrs, items, chain, known>>

IgnoreUnmatched(t) ==
  /\ unmatched[t].status = "new"
  /\ unmatched' = [unmatched EXCEPT ![t].status = "ignored"]
  /\ UNCHANGED <<cfg, addrs, items, chain, known, credits>>

-----------------------------------------------------------------------------
(* The chain: somebody pays for request r, in some network of its family,  *)
(* with or without the comment, more or less than asked, at any time after *)
(* the request was made (its deadline, or its end, may be long past).  The *)
(* reader of TON reports the recipient in the raw form, the other readers  *)
(* as the address is known, up to letter case.                             *)
ReportedAs(network, address) == IF Memo(network) THEN TonRaw[address] ELSE address

(* toIncoming(): what a reader makes of it, under suspicion when the token *)
(* comes with other decimals than the catalogue knows.                     *)
toIncoming(r, network, slip) ==
  [network |-> network, token |-> items[r].token,
   to |-> ReportedAs(network, items[r].address),
   amount |-> items[r].usdt + slip.delta,
   memo |-> IF slip.memo THEN r ELSE 0,
   suspect |-> slip.suspect, payer |-> r]

Send(t, r, network, slip) ==
  /\ t \notin DOMAIN chain
  /\ FamilyOf[network] = FamilyOf[items[r].network]
  /\ Carries(network, items[r].token)
  /\ chain' = Put(chain, t, toIncoming(r, network, slip))
  /\ UNCHANGED <<cfg, addrs, items, unmatched, known, credits>>

-----------------------------------------------------------------------------
(* The watcher's two entry points.                                         *)

(* ingest(), by outcome.  In "off" a transfer is handled as in "semi" and  *)
(* "auto": the mode is compared with "watch" only.                         *)
IngestDuplicate(t) ==
  /\ KnownTxid(TxidOf[t])
  /\ UNCHANGED <<items, unmatched>>

IngestUnmatched(t) ==
  /\ ~KnownTxid(TxidOf[t])
  /\ chain[t].suspect \/ FindCandidate(chain[t]) = {}
  /\ unmatched' = Put(unmatched, t, [status |-> "new", creditedTo |-> Nobody])
  /\ UNCHANGED items

IngestWatched(t) ==
  /\ ~KnownTxid(TxidOf[t])
  /\ ~chain[t].suspect /\ FindCandidate(chain[t]) # {}
  /\ cfg.mode = "watch"
  /\ UNCHANGED <<items, unmatched>>

IngestMatched(t) ==
  /\ ~KnownTxid(TxidOf[t])
  /\ ~chain[t].suspect
  /\ cfg.mode # "watch"
  /\ \E r \in FindCandidate(chain[t]) :
       items' = [items EXCEPT ![r].status = "processing", ![r].txid = TxidOf[t],
                              ![r].paid = chain[t].amount, ![r].ripe = FALSE]
  /\ UNCHANGED unmatched

Ingest(t) ==
  /\ \/ IngestDuplicate(t)
     \/ IngestUnmatched(t)
     \/ IngestWatched(t)
     \/ IngestMatched(t)
  /\ UNCHANGED <<cfg, addrs, chain, known, credits>>

(* settleReady(): paid for, and the finality delay is over.                *)
SettleReady == {r \in DOMAIN items : /\ items[r].status = "processing"
                                     /\ items[r].txid # NoTx
                                     /\ ~items[r].confirmed /\ items[r].ripe}

(* The watcher takes that list, then waits for the network: a request on   *)
(* it may have been decided by the time it is settled.                     *)
OnSettleList == SettleReady \cup
  {r \in DOMAIN items : ~isOpen(items[r]) /\ items[r].ripe /\ ~items[r].confirmed}

(* settle(), by outcome.  reject() and approve() sweep on the way.         *)
SettleStale(r) ==
  /\ items[r].status # "processing"
  /\ UNCHANGED <<items, credits>>

SettleGone(r, verdict) ==
  /\ items[r].status = "processing"
  /\ verdict = "gone"
  /\ items' = [Swept EXCEPT ![r].status = "rejected", ![r].resolvedBy = "bot"]
  /\ UNCHANGED credits

SettleForAdmin(r, verdict) ==
  /\ items[r].status = "processing"
  /\ verdict # "gone"
  /\ cfg.mode # "auto"
  /\ items' = [items EXCEPT ![r].confirmed = TRUE]
  /\ UNCHANGED credits

SettleByBot(r, verdict) ==
  /\ items[r].status = "processing"
  /\ verdict # "gone"
  /\ cfg.mode = "auto"
  /\ TopUp(items[r].player, <<"request", r>>)
  /\ items' = [Swept EXCEPT ![r].confirmed = TRUE, ![r].status = "approved",
                            ![r].resolvedBy = "bot"]

SettleNoPlayer(r, verdict) ==
  /\ items[r].status = "processing"
  /\ verdict # "gone"
  /\ cfg.mode = "auto"
  /\ items[r].player \notin known
  /\ items' = [Swept EXCEPT ![r].confirmed = TRUE]
  /\ UNCHANGED credits

Settle(r, verdict) ==
  /\ \/ SettleStale(r)
     \/ SettleGone(r, verdict)
     \/ SettleForAdmin(r, verdict)
     \/ SettleByBot(r, verdict)
     \/ SettleNoPlayer(r, verdict)
  /\ UNCHANGED <<cfg, addrs, unmatched, chain, known>>

-----------------------------------------------------------------------------
PlayerStep ==
  \/ \E p \in Players : FindOrCreate(p)
  \/ \E p \in Players, network \in Networks, token \in Tokens, cents \in Quotes :
       Create(p, network, token, cents)
  \/ \E r \in DOMAIN items : CancelByPlayer(r)

AdminStep ==
  \/ \E p \in Players : RemovePlayer(p)
  \/ \E c \in Configs : SetDeposits(c)
  \/ \E a \in Addresses : AddAddress(a)
  \/ \E i \in DOMAIN addrs : \/ \E active \in BOOLEAN : UpdateAddress(i, active)
                            \/ RemoveAddress(i)
  \/ \E r \in DOMAIN items : Approve(r) \/ Reject(r)
  \/ \E t \in DOMAIN unmatched, p \in Players : CreditUnmatched(t, p)
  \/ \E t \in DOMAIN unmatched : IgnoreUnmatched(t)

EnvironmentStep ==
  \/ Sweep
  \/ \E r \in DOMAIN items : DeadlinePasses(r) \/ FinalityPasses(r)
  \/ \E t \in Transfers, r \in DOMAIN items, network \in Networks, slip \in Slips :
       Send(t, r, network, slip)

WatcherStep ==
  \/ \E t \in DOMAIN chain : Ingest(t)
  \/ \E r \in OnSettleList, verdict \in Verdicts : Settle(r, verdict)

Next == PlayerStep \/ AdminStep \/ EnvironmentStep \/ WatcherStep

Spec == Init /\ [][Next]_vars

-----------------------------------------------------------------------------
(* Types, and the shape of a price: where the amount identifies a request  *)
(* it carries a tail of 1 to MemoSteps units.                              *)
TypeOK ==
  /\ cfg \in Configs
  /\ DOMAIN addrs \subseteq AddressIds /\ addrs \in [DOMAIN addrs -> AddressRow]
  /\ DOMAIN items \subseteq Requests /\ items \in [DOMAIN items -> Request]
  /\ DOMAIN unmatched \subseteq Transfers /\ unmatched \in [DOMAIN unmatched -> UnmatchedRow]
  /\ DOMAIN chain \subseteq Transfers /\ chain \in [DOMAIN chain -> Transfer]
  /\ known \subseteq Players
  /\ credits \in [Source -> Nat]
  /\ \A r \in DOMAIN items :
       ~Memo(items[r].network) => items[r].usdt % Cent \in 1..MemoSteps

(* A player never has two live requests: create() refuses a second one     *)
(* while the first waits for its transfer or for the network.              *)
OneOpenPerPlayer ==
  \A r, s \in DOMAIN items :
    isOpen(items[r]) /\ isOpen(items[s]) /\ items[r].player = items[s].player => r = s

(* One transfer never serves two records: no txid is held by two requests, *)
(* by two unmatched rows, or by one of each ("один переказ не може закрити *)
(* дві заявки", payment.types.ts).                                         *)
TxidClaimedOnce ==
  /\ \A r, s \in DOMAIN items :
       items[r].txid = items[s].txid /\ items[r].txid # NoTx => r = s
  /\ \A r \in DOMAIN items, t \in DOMAIN unmatched : items[r].txid # TxidOf[t]
  /\ \A t, u \in DOMAIN unmatched : TxidOf[t] = TxidOf[u] => t = u

(* The books balance: a request has added money to a balance once when it  *)
(* is approved and never otherwise, and so has an unmatched row when it is *)
(* credited.                                                               *)
CreditedOnce ==
  /\ \A r \in Requests : credits[<<"request", r>>] =
       IF r \in DOMAIN items /\ items[r].status = "approved" THEN 1 ELSE 0
  /\ \A t \in Transfers : credits[<<"unmatched", t>>] =
       IF t \in DOMAIN unmatched /\ unmatched[t].status = "credited" THEN 1 ELSE 0

(* Whatever the bot takes for paid, money covers: some transfer of that    *)
(* txid reached the account, in the token and the family of the request,   *)
(* for at least the price asked, and its amount is not in doubt; and the   *)
(* bot approves nothing before the finality delay and the second look.     *)
BotWorkIsCovered ==
  \A r \in DOMAIN items :
    /\ items[r].status = "processing" \/ items[r].resolvedBy = "bot" =>
         \E t \in DOMAIN chain :
           /\ TxidOf[t] = items[r].txid /\ ~chain[t].suspect
           /\ chain[t].token = items[r].token
           /\ FamilyOf[chain[t].network] = FamilyOf[items[r].network]
           /\ sameAddress(chain[t].to, items[r].address)
           /\ items[r].paid = chain[t].amount /\ items[r].paid >= items[r].usdt
    /\ items[r].status = "approved" /\ items[r].resolvedBy = "bot" => items[r].confirmed

(* As long as there are tails enough for every player, two live requests   *)
(* on one address record never ask for the same amount.                    *)
DistinctTails ==
  Cardinality(Players) <= MemoSteps =>
    \A r, s \in DOMAIN items :
      /\ isOpen(items[r]) /\ isOpen(items[s]) /\ items[r].addressId = items[s].addressId
      /\ ~Memo(items[r].network) /\ ~Memo(items[s].network)
      /\ items[r].usdt = items[s].usdt
      => r = s

-----------------------------------------------------------------------------
(* A closed request stays closed, as it was: no late transfer, settlement, *)
(* sweep or click reopens it or changes who decided.                       *)
ClosedForever ==
  [][\A r \in DOMAIN items : ~isOpen(items[r]) => items'[r] = items[r]]_vars

(* Once a transfer is found for a request its txid and amount stay with    *)
(* it, and only a decision ends it: it neither expires nor is cancelled.   *)
PaidStaysPaid ==
  [][\A r \in DOMAIN items : items[r].txid # NoTx =>
       /\ items'[r].txid = items[r].txid /\ items'[r].paid = items[r].paid
       /\ items'[r].status \in {items[r].status, "approved", "rejected"}]_vars

(* A transfer that pays a live request as told (amount, and comment where  *)
(* there is one) is never booked to another request of that address.       *)
PaysItsOwn ==
  [][\A r \in DOMAIN items, t \in DOMAIN chain :
       /\ items[r].txid = NoTx /\ items'[r].txid = TxidOf[t]
       /\ LET s == chain[t].payer IN
            /\ items[s].status = "pending" /\ items[s].addressId = items[r].addressId
            /\ IF Memo(items[s].network) THEN chain[t].memo = s
               ELSE chain[t].amount = items[s].usdt
       => chain[t].payer = r]_vars

(* A transfer that pays a live request as told, and whose amount is not in *)
(* doubt, is never put among those nobody claimed: whatever network of the *)
(* family it came by, the request is found.                                *)
PaidAsToldIsFound ==
  [][\A t \in DOMAIN unmatched' \ DOMAIN unmatched :
       LET r == chain[t].payer IN
         ~ /\ items[r].status = "pending" /\ ~chain[t].suspect
           /\ chain[t].amount = items[r].usdt
           /\ Memo(items[r].network) => chain[t].memo = r]_vars

-----------------------------------------------------------------------------
(* A claim of the source that its code does not keep.                      *)

(* The comment of create(): address and amount point at exactly this       *)
(* request, so that a transfer is matched without guessing.  A transfer    *)
(* that pays what its sender was asked is booked to a request of that very *)
(* player or to none.                                                      *)
BookedToItsPayer ==
  [][\A r \in DOMAIN items, t \in DOMAIN chain :
       /\ items[r].txid = NoTx /\ items'[r].txid = TxidOf[t]
       /\ chain[t].amount = items[chain[t].payer].usdt
       => items[r].player = items[chain[t].payer].player]_vars

-----------------------------------------------------------------------------
(* DepositPromise, read off the records of the service.                    *)
Claims ==
  {<<items[r].txid, <<"request", r>>>> : r \in {q \in DOMAIN items : items[q].txid # NoTx}}
  \cup {<<TxidOf[t], <<"unmatched", t>>>> : t \in DOMAIN unmatched}

Closed ==
  {<<"request", r>> : r \in {q \in DOMAIN items : ~isOpen(items[q])}}
  \cup {<<"unmatched", t>> : t \in {u \in DOMAIN unmatched : unmatched[u].status # "new"}}

Promise == INSTANCE DepositPromise WITH claims <- Claims, closed <- Closed

(* Every step of the service, whoever calls it, is a step the promise      *)
(* allows: a transfer serves one record, a record is decided once, credits *)
(* come with decisions, and what has its transfer never just lapses.       *)
KeepsPromise == Promise!Spec
=============================================================================
