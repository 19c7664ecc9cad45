--------------------------- MODULE Deposits_proofs ---------------------------
(***************************************************************************)
(* Proofs about Deposits and about Watcher, which works on it, for any     *)
(* number of players, requests, addresses, networks, transfers and cycles. *)
(*                                                                         *)
(* The first part says what each action of Deposits does to the map of     *)
(* requests, field by field; every invariant is then proved from those     *)
(* facts, one step per kind of change.  The second part is about Watcher:  *)
(* its steps are steps of Deposits, whatever goes on while a cycle waits   *)
(* for the networks; and what its cursors have passed is in the books.     *)
(***************************************************************************)
EXTENDS Watcher, FiniteSetTheorems, WellFoundedInduction, TLAPS


-----------------------------------------------------------------------------
(* What the helpers return.                                                *)

(* Map.set() keeps a map of well-typed entries well typed.                 *)
LEMMA PutType ==
  ASSUME NEW map, NEW Keys, NEW Values, NEW key \in Keys, NEW value \in Values,
         DOMAIN map \subseteq Keys, map \in [DOMAIN map -> Values]
  PROVE  /\ DOMAIN Put(map, key, value) = DOMAIN map \cup {key}
         /\ DOMAIN Put(map, key, value) \subseteq Keys
         /\ Put(map, key, value) \in [DOMAIN Put(map, key, value) -> Values]
         /\ Put(map, key, value)[key] = value
         /\ \A k \in DOMAIN map : k # key => Put(map, key, value)[k] = map[k]
  BY DEF Put

(* The fields create() fixes for good; those ingest() fills.               *)
SameTerms(a, b) ==
  /\ a.player = b.player /\ a.network = b.network /\ a.token = b.token
  /\ a.usdt = b.usdt /\ a.addressId = b.addressId /\ a.address = b.address
SamePayment(a, b) == a.txid = b.txid /\ a.paid = b.paid

(* Nothing but the status differs, and only by a lapse.                    *)
Lapsed(a, b) == b.status = "pending" /\ a.status = "expired"
AtMostLapsed(a, b) ==
  /\ SameTerms(a, b) /\ SamePayment(a, b)
  /\ a.confirmed = b.confirmed /\ a.resolvedBy = b.resolvedBy
  /\ a.status = b.status \/ Lapsed(a, b)
  /\ b.status # "pending" => a = b

LEMMA StatusUpdate ==
  ASSUME NEW p \in Request, NEW status \in Statuses
  PROVE  /\ [p EXCEPT !.status = status] \in Request
         /\ SameTerms([p EXCEPT !.status = status], p)
         /\ SamePayment([p EXCEPT !.status = status], p)
         /\ [p EXCEPT !.status = status].confirmed = p.confirmed
         /\ [p EXCEPT !.status = status].resolvedBy = p.resolvedBy
         /\ [p EXCEPT !.status = status].status = status
  BY DEF Request, SameTerms, SamePayment

(* The sweep changes nothing but the status of overdue pending requests.   *)
LEMMA SweptFacts ==
  ASSUME TypeOK
  PROVE  /\ DOMAIN Swept = DOMAIN items
         /\ Swept \in [DOMAIN items -> Request]
         /\ \A r \in DOMAIN items : AtMostLapsed(Swept[r], items[r])
<1>1. DOMAIN Swept = DOMAIN items BY DEF Swept
<1>2. ASSUME NEW r \in DOMAIN items
      PROVE  Swept[r] \in Request /\ AtMostLapsed(Swept[r], items[r])
  <2>1. items[r] \in Request BY DEF TypeOK
  <2>2. CASE items[r].status = "pending" /\ items[r].due
    <3>1. Swept[r] = [items[r] EXCEPT !.status = "expired"] BY <2>2 DEF Swept
    <3>2. "expired" \in Statuses BY DEF Statuses
    <3>3. QED BY <2>1, <2>2, <3>1, <3>2, StatusUpdate DEF AtMostLapsed, Lapsed
  <2>3. CASE ~(items[r].status = "pending" /\ items[r].due)
    <3>1. Swept[r] = items[r] BY <2>3 DEF Swept
    <3>2. QED BY <2>1, <3>1 DEF AtMostLapsed, SameTerms, SamePayment
  <2>4. QED BY <2>2, <2>3
<1>3. Swept \in [DOMAIN items -> Request] BY <1>2 DEF Swept
<1>4. QED BY <1>1, <1>2, <1>3

(* A price with a tail shows that tail.                                    *)
LEMMA TailOfPrice ==
  ASSUME NEW cents \in Nat, NEW u \in 1..(Cent - 1)
  PROVE  /\ cents * Cent + u \in Nat
         /\ (cents * Cent + u) % Cent = u
  BY DEF Cent

LEMMA PricesType ==
  ASSUME NEW network, NEW id, NEW its, NEW cents \in Quotes,
         NEW usdt \in Prices(network, id, cents, its)
  PROVE  /\ usdt \in Nat
         /\ ~Memo(network) =>
              usdt % Cent \in 1..MemoSteps /\ usdt % Cent \in FreeMemoUnit(id, its)
<1>1. cents \in Nat BY MoneyAssumption
<1>2. CASE Memo(network)
  BY <1>1, <1>2 DEF Prices, Cent
<1>3. CASE ~Memo(network)
  <2>1. PICK u \in FreeMemoUnit(id, its) : usdt = cents * Cent + u
    BY <1>3 DEF Prices
  <2>2. u \in 1..MemoSteps BY <2>1 DEF FreeMemoUnit
  <2>3. u \in 1..(Cent - 1) BY <2>2, MoneyAssumption DEF Cent
  <2>4. QED BY <1>1, <1>3, <2>1, <2>2, <2>3, TailOfPrice
<1>4. QED BY <1>2, <1>3

(* What findCandidate() names is a pending request.                        *)
LEMMA CandidateFacts ==
  ASSUME NEW tx, NEW r \in FindCandidate(tx)
  PROVE  /\ r \in DOMAIN items
         /\ items[r].status = "pending"
         /\ items[r].token = tx.token
         /\ FamilyOf[items[r].network] = FamilyOf[tx.network]
         /\ sameAddress(items[r].address, tx.to)
         /\ IF Memo(tx.network) THEN tx.memo = r /\ tx.amount >= items[r].usdt
            ELSE items[r].usdt = tx.amount
<1>1. r \in Candidates(tx)
  BY DEF FindCandidate, FirstOf
<1>2. QED BY <1>1 DEF FindCandidate, FirstOf, Candidates

-----------------------------------------------------------------------------
(* How the map of requests can change.                                     *)

(* The requests other than r at most lapse, and r keeps its terms.         *)
Touches(r) ==
  /\ r \in DOMAIN items
  /\ DOMAIN items' = DOMAIN items /\ items' \in [DOMAIN items -> Request]
  /\ \A q \in DOMAIN items : q # r => AtMostLapsed(items'[q], items[q])
  /\ SameTerms(items'[r], items[r])

(* r is decided: approved, rejected or cancelled; the bot decides only     *)
(* what it has found the transfer of, and approves only what is confirmed. *)
Decides(r, status) ==
  /\ Touches(r)
  /\ isOpen(items[r]) /\ SamePayment(items'[r], items[r])
  /\ status \in {"approved", "rejected", "canceled"} /\ items'[r].status = status
  /\ status = "canceled" => items[r].status = "pending"
  /\ \/ items'[r].resolvedBy = "admin"
     \/ status = "canceled" /\ items'[r].resolvedBy = items[r].resolvedBy
     \/ /\ items[r].status = "processing"
        /\ status = "approved" => items'[r].confirmed

(* A flag of r changes and nothing else.                                   *)
Flags(r) ==
  /\ Touches(r)
  /\ isOpen(items[r]) /\ SamePayment(items'[r], items[r])
  /\ items'[r].status = items[r].status /\ items'[r].resolvedBy = items[r].resolvedBy

(* Transfer t is found for r.                                              *)
Books(r, t) ==
  /\ Touches(r)
  /\ t \in DOMAIN chain /\ r \in FindCandidate(chain[t])
  /\ ~KnownTxid(TxidOf[t]) /\ ~chain[t].suspect
  /\ items'[r].status = "processing" /\ items'[r].resolvedBy = items[r].resolvedBy
  /\ items'[r].txid = TxidOf[t] /\ items'[r].paid = chain[t].amount
  /\ \A q \in DOMAIN items : q # r => items'[q] = items[q]

(* Only the sweep happens.                                                 *)
Sweeps ==
  /\ DOMAIN items' = DOMAIN items /\ items' \in [DOMAIN items -> Request]
  /\ \A q \in DOMAIN items : AtMostLapsed(items'[q], items[q])

(* Player p makes request r.                                               *)
Opens(r, p) ==
  /\ r \in Requests /\ r \notin DOMAIN items
  /\ DOMAIN items' = DOMAIN items \cup {r} /\ items' \in [DOMAIN items' -> Request]
  /\ \A q \in DOMAIN items : items'[q] = Swept[q] /\ AtMostLapsed(items'[q], items[q])
  /\ ~ \E q \in DOMAIN items : Swept[q].player = p /\ isOpen(Swept[q])
  /\ items'[r].player = p /\ items'[r].status = "pending" /\ items'[r].txid = NoTx
  /\ items'[r].resolvedBy = "nobody"
  /\ ~Memo(items'[r].network) =>
       /\ items'[r].usdt % Cent \in 1..MemoSteps
       /\ items'[r].usdt % Cent \in FreeMemoUnit(items'[r].addressId, Swept)

LEMMA UpdateFacts ==
  ASSUME TypeOK, NEW its \in {items, Swept}, NEW r \in DOMAIN items,
         NEW entry \in Request, SameTerms(entry, items[r]),
         items' = [its EXCEPT ![r] = entry]
  PROVE  Touches(r) /\ items'[r] = entry
<1>1. DOMAIN its = DOMAIN items /\ its \in [DOMAIN items -> Request]
  BY SweptFacts DEF TypeOK
<1>2. ASSUME NEW q \in DOMAIN items PROVE AtMostLapsed(its[q], items[q])
  BY SweptFacts DEF AtMostLapsed, SameTerms, SamePayment
<1>3. QED BY <1>1, <1>2 DEF Touches

-----------------------------------------------------------------------------
(* Action by action: what becomes of the requests.                         *)

LEMMA SweptOpen ==
  ASSUME TypeOK, NEW r \in DOMAIN items, isOpen(Swept[r])
  PROVE  /\ Swept[r] = items[r] /\ isOpen(items[r])
         /\ Swept[r] \in Request
<1>1. AtMostLapsed(Swept[r], items[r]) /\ Swept[r] \in Request BY SweptFacts
<1>2. Swept[r].status = items[r].status /\ Swept[r].status # "expired"
  BY <1>1 DEF AtMostLapsed, Lapsed, isOpen
<1>3. ~(items[r].status = "pending" /\ items[r].due)
  <2>1. SUFFICES ASSUME items[r].status = "pending" /\ items[r].due PROVE FALSE
    OBVIOUS
  <2>2. Swept[r] = [items[r] EXCEPT !.status = "expired"] BY <2>1 DEF Swept
  <2>3. items[r] \in Request BY DEF TypeOK
  <2>4. Swept[r].status = "expired" BY <2>2, <2>3 DEF Request
  <2>5. QED BY <1>2, <2>4
<1>4. Swept[r] = items[r] BY <1>3 DEF Swept
<1>5. QED BY <1>1, <1>2, <1>4 DEF isOpen

LEMMA ApproveShape ==
  ASSUME TypeOK, NEW r \in DOMAIN items, Approve(r)
  PROVE  Decides(r, "approved")
<1> DEFINE entry == [Swept[r] EXCEPT !.status = "approved", !.resolvedBy = "admin"]
<1>1. Swept[r] = items[r] /\ isOpen(items[r]) /\ items[r] \in Request
  BY SweptOpen DEF Approve
<1>2. entry \in Request /\ SameTerms(entry, items[r]) /\ SamePayment(entry, items[r])
  BY <1>1 DEF Request, Statuses, SameTerms, SamePayment
<1>3. entry.status = "approved" /\ entry.resolvedBy = "admin" BY <1>1 DEF Request
<1>4. items' = [Swept EXCEPT ![r] = entry] BY DEF Approve
<1> HIDE DEF entry
<1>5. Touches(r) /\ items'[r] = entry BY <1>2, <1>4, UpdateFacts
<1>6. QED BY <1>1, <1>2, <1>3, <1>5 DEF Decides

LEMMA RejectShape ==
  ASSUME TypeOK, NEW r \in DOMAIN items, Reject(r)
  PROVE  Decides(r, "rejected")
<1> DEFINE entry == [Swept[r] EXCEPT !.status = "rejected", !.resolvedBy = "admin"]
<1>1. Swept[r] = items[r] /\ isOpen(items[r]) /\ items[r] \in Request
  BY SweptOpen DEF Reject
<1>2. entry \in Request /\ SameTerms(entry, items[r]) /\ SamePayment(entry, items[r])
  BY <1>1 DEF Request, Statuses, SameTerms, SamePayment
<1>3. entry.status = "rejected" /\ entry.resolvedBy = "admin" BY <1>1 DEF Request
<1>4. items' = [Swept EXCEPT ![r] = entry] BY DEF Reject
<1> HIDE DEF entry
<1>5. Touches(r) /\ items'[r] = entry BY <1>2, <1>4, UpdateFacts
<1>6. QED BY <1>1, <1>2, <1>3, <1>5 DEF Decides

LEMMA CancelShape ==
  ASSUME TypeOK, NEW r \in DOMAIN items, CancelByPlayer(r)
  PROVE  Decides(r, "canceled")
<1> DEFINE entry == [Swept[r] EXCEPT !.status = "canceled"]
<1>1. Swept[r] = items[r] /\ isOpen(items[r]) /\ items[r] \in Request
  BY SweptOpen DEF CancelByPlayer, isOpen
<1>2. entry \in Request /\ SameTerms(entry, items[r]) /\ SamePayment(entry, items[r])
  BY <1>1 DEF Request, Statuses, SameTerms, SamePayment
<1>3. entry.status = "canceled" /\ entry.resolvedBy = items[r].resolvedBy
  BY <1>1 DEF Request
<1>4. items' = [Swept EXCEPT ![r] = entry] BY DEF CancelByPlayer
<1> HIDE DEF entry
<1>5. Touches(r) /\ items'[r] = entry BY <1>2, <1>4, UpdateFacts
<1>6. QED BY <1>1, <1>2, <1>3, <1>5 DEF Decides, CancelByPlayer

LEMMA SettleGoneShape ==
  ASSUME TypeOK, NEW r \in DOMAIN items, NEW verdict, SettleGone(r, verdict)
  PROVE  Decides(r, "rejected")
<1> DEFINE entry == [Swept[r] EXCEPT !.status = "rejected", !.resolvedBy = "bot"]
<1>1. Swept[r] = items[r] /\ isOpen(items[r]) /\ items[r] \in Request
  BY SweptFacts DEF SettleGone, isOpen, AtMostLapsed, TypeOK
<1>2. entry \in Request /\ SameTerms(entry, items[r]) /\ SamePayment(entry, items[r])
  BY <1>1 DEF Request, Statuses, SameTerms, SamePayment
<1>3. entry.status = "rejected" BY <1>1 DEF Request
<1>4. items' = [Swept EXCEPT ![r] = entry] BY DEF SettleGone
<1> HIDE DEF entry
<1>5. Touches(r) /\ items'[r] = entry BY <1>2, <1>4, UpdateFacts
<1>6. QED BY <1>1, <1>2, <1>3, <1>5 DEF Decides, SettleGone

LEMMA SettleByBotShape ==
  ASSUME TypeOK, NEW r \in DOMAIN items, NEW verdict, SettleByBot(r, verdict)
  PROVE  Decides(r, "approved")
<1> DEFINE entry == [Swept[r] EXCEPT !.confirmed = TRUE, !.status = "approved",
                                     !.resolvedBy = "bot"]
<1>1. Swept[r] = items[r] /\ isOpen(items[r]) /\ items[r] \in Request
  BY SweptFacts DEF SettleByBot, isOpen, AtMostLapsed, TypeOK
<1>2. entry \in Request /\ SameTerms(entry, items[r]) /\ SamePayment(entry, items[r])
  BY <1>1 DEF Request, Statuses, SameTerms, SamePayment
<1>3. entry.status = "approved" /\ entry.confirmed BY <1>1 DEF Request
<1>4. items' = [Swept EXCEPT ![r] = entry] BY DEF SettleByBot
<1> HIDE DEF entry
<1>5. Touches(r) /\ items'[r] = entry BY <1>2, <1>4, UpdateFacts
<1>6. QED BY <1>1, <1>2, <1>3, <1>5 DEF Decides, SettleByBot

LEMMA SettleConfirmShape ==
  ASSUME TypeOK, NEW r \in DOMAIN items, NEW verdict,
         SettleForAdmin(r, verdict) \/ SettleNoPlayer(r, verdict)
  PROVE  Flags(r)
<1> DEFINE entry == [items[r] EXCEPT !.confirmed = TRUE]
<1>1. Swept[r] = items[r] /\ isOpen(items[r]) /\ items[r] \in Request
  BY SweptFacts DEF SettleForAdmin, SettleNoPlayer, isOpen, AtMostLapsed, TypeOK
<1>2. entry \in Request /\ SameTerms(entry, items[r]) /\ SamePayment(entry, items[r])
  BY <1>1 DEF Request, SameTerms, SamePayment
<1>3. entry.status = items[r].status /\ entry.resolvedBy = items[r].resolvedBy
  BY <1>1 DEF Request
<1>4. \E its \in {items, Swept} : items' = [its EXCEPT ![r] = entry]
  BY <1>1 DEF SettleForAdmin, SettleNoPlayer
<1> HIDE DEF entry
<1>5. Touches(r) /\ items'[r] = entry BY <1>2, <1>4, UpdateFacts
<1>6. QED BY <1>1, <1>2, <1>3, <1>5 DEF Flags

LEMMA ClockShape ==
  ASSUME TypeOK, NEW r \in DOMAIN items, DeadlinePasses(r) \/ FinalityPasses(r)
  PROVE  Flags(r)
<1>1. items[r] \in Request BY DEF TypeOK
<1>2. CASE DeadlinePasses(r)
  <2> DEFINE entry == [items[r] EXCEPT !.due = TRUE]
  <2>1. entry \in Request /\ SameTerms(entry, items[r]) /\ SamePayment(entry, items[r])
    BY <1>1 DEF Request, SameTerms, SamePayment
  <2>2. entry.status = items[r].status /\ entry.resolvedBy = items[r].resolvedBy
    BY <1>1 DEF Request
  <2>3. items' = [items EXCEPT ![r] = entry] BY <1>2 DEF DeadlinePasses
  <2> HIDE DEF entry
  <2>4. Touches(r) /\ items'[r] = entry BY <2>1, <2>3, UpdateFacts
  <2>5. QED BY <1>2, <2>1, <2>2, <2>4 DEF Flags, DeadlinePasses, isOpen
<1>3. CASE FinalityPasses(r)
  <2> DEFINE entry == [items[r] EXCEPT !.ripe = TRUE]
  <2>1. entry \in Request /\ SameTerms(entry, items[r]) /\ SamePayment(entry, items[r])
    BY <1>1 DEF Request, SameTerms, SamePayment
  <2>2. entry.status = items[r].status /\ entry.resolvedBy = items[r].resolvedBy
    BY <1>1 DEF Request
  <2>3. items' = [items EXCEPT ![r] = entry] BY <1>3 DEF FinalityPasses
  <2> HIDE DEF entry
  <2>4. Touches(r) /\ items'[r] = entry BY <2>1, <2>3, UpdateFacts
  <2>5. QED BY <1>3, <2>1, <2>2, <2>4 DEF Flags, FinalityPasses, isOpen
<1>4. QED BY <1>2, <1>3

LEMMA MatchShape ==
  ASSUME TypeOK, NEW t \in DOMAIN chain, IngestMatched(t)
  PROVE  \E r \in DOMAIN items : Books(r, t)
<1>1. PICK r \in FindCandidate(chain[t]) :
        items' = [items EXCEPT ![r].status = "processing", ![r].txid = TxidOf[t],
                               ![r].paid = chain[t].amount, ![r].ripe = FALSE]
  BY DEF IngestMatched
<1> DEFINE entry == [items[r] EXCEPT !.status = "processing", !.txid = TxidOf[t],
                                     !.paid = chain[t].amount, !.ripe = FALSE]
<1>2. r \in DOMAIN items BY CandidateFacts
<1>3. items[r] \in Request /\ TxidOf[t] \in Txids /\ chain[t].amount \in Int
  BY <1>2, CatalogueAssumption DEF TypeOK, Transfer
<1>4. entry \in Request /\ SameTerms(entry, items[r])
  BY <1>3 DEF Request, Statuses, SameTerms
<1>5. /\ entry.status = "processing" /\ entry.resolvedBy = items[r].resolvedBy
      /\ entry.txid = TxidOf[t] /\ entry.paid = chain[t].amount
  BY <1>3 DEF Request
<1>6. items' = [items EXCEPT ![r] = entry] BY <1>1
<1>7. DOMAIN items' = DOMAIN items /\ \A q \in DOMAIN items : q # r => items'[q] = items[q]
  BY <1>6
<1> HIDE DEF entry
<1>8. Touches(r) /\ items'[r] = entry BY <1>2, <1>4, <1>6, UpdateFacts
<1>9. Books(r, t) BY <1>2, <1>5, <1>7, <1>8, <1>1 DEF Books, IngestMatched
<1>10. QED BY <1>2, <1>9

LEMMA SweepShape ==
  ASSUME TypeOK, items' = Swept
  PROVE  Sweeps
  BY SweptFacts DEF Sweeps

LEMMA CreateShape ==
  ASSUME TypeOK, NEW p \in Players, NEW network \in Networks, NEW token \in Tokens,
         NEW cents \in Quotes, Create(p, network, token, cents)
  PROVE  \E r \in Requests : Opens(r, p)
<1> DEFINE Made(id, usdt, r) ==
      /\ IsNextId(r, Requests, items)
      /\ items' = Put(Swept, r,
           [player |-> p, network |-> network, token |-> token, usdt |-> usdt,
            addressId |-> id, address |-> addrs[id].address,
            status |-> "pending", due |-> FALSE,
            txid |-> NoTx, paid |-> 0, ripe |-> FALSE, confirmed |-> FALSE,
            resolvedBy |-> "nobody"])
<1>0. PICK id \in PickAddress(FamilyOf[network], Swept) :
        \E usdt \in Prices(network, id, cents, Swept), r \in Requests : Made(id, usdt, r)
  BY DEF Create
<1>1. PICK usdt \in Prices(network, id, cents, Swept), r \in Requests : Made(id, usdt, r)
  BY <1>0
<1> DEFINE entry == [player |-> p, network |-> network, token |-> token, usdt |-> usdt,
              addressId |-> id, address |-> addrs[id].address,
              status |-> "pending", due |-> FALSE,
              txid |-> NoTx, paid |-> 0, ripe |-> FALSE, confirmed |-> FALSE,
              resolvedBy |-> "nobody"]
<1>2. id \in AddressIds /\ addrs[id].address \in Addresses
  BY DEF PickAddress, TypeOK, AddressRow
<1>3. /\ usdt \in Nat
      /\ ~Memo(network) => usdt % Cent \in 1..MemoSteps
                          /\ usdt % Cent \in FreeMemoUnit(id, Swept)
  BY PricesType
<1>4. entry \in Request BY <1>2, <1>3 DEF Request, Statuses
<1>5. r \notin DOMAIN items BY <1>1 DEF IsNextId
<1>6. DOMAIN Swept = DOMAIN items /\ Swept \in [DOMAIN Swept -> Request]
  BY SweptFacts
<1>7. DOMAIN items \subseteq Requests BY DEF TypeOK
<1>8. /\ entry.player = p /\ entry.network = network /\ entry.usdt = usdt
      /\ entry.addressId = id /\ entry.status = "pending" /\ entry.txid = NoTx
      /\ entry.resolvedBy = "nobody"
  OBVIOUS
<1>9. items' = Put(Swept, r, entry) BY <1>1
<1> HIDE DEF entry, Made
<1>10. /\ DOMAIN items' = DOMAIN items \cup {r}
       /\ items' \in [DOMAIN items' -> Request]
       /\ items'[r] = entry
       /\ \A q \in DOMAIN items : items'[q] = Swept[q]
  <2> DEFINE map == Put(Swept, r, entry)
  <2>1. /\ DOMAIN map = DOMAIN Swept \cup {r}
        /\ map \in [DOMAIN map -> Request]
        /\ map[r] = entry
        /\ \A q \in DOMAIN Swept : q # r => map[q] = Swept[q]
    BY <1>4, <1>6, <1>7 DEF Put
  <2>2. items' = map BY <1>9
  <2> HIDE DEF map
  <2>3. QED BY <1>5, <1>6, <2>1, <2>2
<1>11. \A q \in DOMAIN items : AtMostLapsed(items'[q], items[q])
  BY <1>10, SweptFacts
<1>12. ~ \E q \in DOMAIN items : Swept[q].player = p /\ isOpen(Swept[q])
  BY DEF Create, activeFor
<1>13. Opens(r, p) BY <1>3, <1>5, <1>8, <1>10, <1>11, <1>12 DEF Opens
<1>14. QED BY <1>13

-----------------------------------------------------------------------------
(* How a step can change the records money depends on.                     *)

Adds(source) == credits' = [credits EXCEPT ![source] = @ + 1]

(* A row for transfer t appears; t is credited; t is put aside.            *)
Arrives(t) ==
  /\ ~KnownTxid(TxidOf[t]) /\ t \in DOMAIN chain
  /\ unmatched' = Put(unmatched, t, [status |-> "new", creditedTo |-> Nobody])
  /\ UNCHANGED credits

Redeems(t) ==
  /\ t \in DOMAIN unmatched /\ unmatched[t].status = "new"
  /\ \E p \in Players :
       unmatched' = [unmatched EXCEPT ![t] = [status |-> "credited", creditedTo |-> p]]
  /\ Adds(<<"unmatched", t>>)

Shelves(t) ==
  /\ t \in DOMAIN unmatched /\ unmatched[t].status = "new"
  /\ unmatched' = [unmatched EXCEPT ![t].status = "ignored"]
  /\ UNCHANGED credits

RequestChange ==
  \/ Sweeps
  \/ \E r \in DOMAIN items : Flags(r) \/ \E t \in DOMAIN chain : Books(r, t)
  \/ \E r \in Requests, p \in Players : Opens(r, p)

Decision(r) ==
  \/ Decides(r, "approved") /\ Adds(<<"request", r>>)
  \/ (Decides(r, "rejected") \/ Decides(r, "canceled")) /\ UNCHANGED credits

ChainGrows ==
  /\ DOMAIN chain \subseteq DOMAIN chain'
  /\ \A t \in DOMAIN chain : chain'[t] = chain[t]

Shape ==
  \/ ChainGrows /\ UNCHANGED <<items, unmatched, credits>>
  \/ RequestChange /\ UNCHANGED <<unmatched, chain, credits>>
  \/ (\E r \in DOMAIN items : Decision(r)) /\ UNCHANGED <<unmatched, chain>>
  \/ /\ \E t \in Transfers : Arrives(t) \/ Redeems(t) \/ Shelves(t)
     /\ UNCHANGED <<items, chain>>

(* Every step of the service has one of these shapes.                      *)
LEMMA StepShape ==
  ASSUME TypeOK, [Next]_vars
  PROVE  Shape
<1>1. CASE UNCHANGED vars
  BY <1>1 DEF Shape, ChainGrows, vars
<1>2. ASSUME NEW p \in Players, FindOrCreate(p) \/ RemovePlayer(p) PROVE Shape
  BY <1>2 DEF FindOrCreate, RemovePlayer, Shape, ChainGrows
<1>3. ASSUME NEW p \in Players, NEW network \in Networks, NEW token \in Tokens,
             NEW cents \in Quotes, Create(p, network, token, cents)
      PROVE  Shape
  <2>1. \E r \in Requests : Opens(r, p) BY <1>3, CreateShape
  <2>2. UNCHANGED <<unmatched, chain, credits>> BY <1>3 DEF Create
  <2>3. QED BY <2>1, <2>2 DEF Shape, RequestChange
<1>4. ASSUME NEW r \in DOMAIN items, CancelByPlayer(r) PROVE Shape
  <2>1. Decides(r, "canceled") BY <1>4, CancelShape
  <2>2. UNCHANGED <<unmatched, chain, credits>> BY <1>4 DEF CancelByPlayer
  <2>3. QED BY <2>1, <2>2 DEF Shape, Decision
<1>5. ASSUME NEW c \in Configs, SetDeposits(c) PROVE Shape
  BY <1>5 DEF SetDeposits, Shape, ChainGrows
<1>6. ASSUME NEW a \in Addresses, AddAddress(a) PROVE Shape
  BY <1>6 DEF AddAddress, Shape, ChainGrows
<1>7. ASSUME NEW i \in DOMAIN addrs,
             RemoveAddress(i) \/ \E active \in BOOLEAN : UpdateAddress(i, active)
      PROVE  Shape
  BY <1>7 DEF RemoveAddress, UpdateAddress, Shape, ChainGrows
<1>8. ASSUME NEW r \in DOMAIN items, Approve(r) PROVE Shape
  <2>1. Decides(r, "approved") BY <1>8, ApproveShape
  <2>2. UNCHANGED <<unmatched, chain>> /\ Adds(<<"request", r>>)
    BY <1>8 DEF Approve, TopUp, Adds
  <2>3. QED BY <2>1, <2>2 DEF Shape, Decision
<1>9. ASSUME NEW r \in DOMAIN items, Reject(r) PROVE Shape
  <2>1. Decides(r, "rejected") BY <1>9, RejectShape
  <2>2. UNCHANGED <<unmatched, chain, credits>> BY <1>9 DEF Reject
  <2>3. QED BY <2>1, <2>2 DEF Shape, Decision
<1>10. ASSUME NEW t \in DOMAIN unmatched, NEW p \in Players, CreditUnmatched(t, p)
       PROVE  Shape
  <2>1. Redeems(t) BY <1>10 DEF CreditUnmatched, Redeems, TopUp, Adds
  <2>2. t \in Transfers BY DEF TypeOK
  <2>3. UNCHANGED <<items, chain>> BY <1>10 DEF CreditUnmatched
  <2>4. QED BY <2>1, <2>2, <2>3 DEF Shape
<1>11. ASSUME NEW t \in DOMAIN unmatched, IgnoreUnmatched(t) PROVE Shape
  <2>1. Shelves(t) BY <1>11 DEF IgnoreUnmatched, Shelves
  <2>2. t \in Transfers BY DEF TypeOK
  <2>3. UNCHANGED <<items, chain>> BY <1>11 DEF IgnoreUnmatched
  <2>4. QED BY <2>1, <2>2, <2>3 DEF Shape
<1>12. CASE Sweep
  <2>1. Sweeps BY <1>12, SweepShape DEF Sweep
  <2>2. QED BY <1>12, <2>1 DEF Sweep, Shape, RequestChange
<1>13. ASSUME NEW r \in DOMAIN items, DeadlinePasses(r) \/ FinalityPasses(r) PROVE Shape
  <2>1. Flags(r) BY <1>13, ClockShape
  <2>2. UNCHANGED <<unmatched, chain, credits>> BY <1>13 DEF DeadlinePasses, FinalityPasses
  <2>3. QED BY <2>1, <2>2 DEF Shape, RequestChange
<1>14. ASSUME NEW t \in Transfers, NEW r \in DOMAIN items, NEW network \in Networks,
              NEW slip \in Slips, Send(t, r, network, slip)
       PROVE  Shape
  <2>1. ChainGrows BY <1>14 DEF Send, Put, ChainGrows, toIncoming
  <2>2. QED BY <1>14, <2>1 DEF Send, Shape, toIncoming
<1>15. ASSUME NEW t \in DOMAIN chain, Ingest(t) PROVE Shape
  <2>1. UNCHANGED <<chain, credits>> BY <1>15 DEF Ingest
  <2>2. t \in Transfers BY DEF TypeOK
  <2>3. CASE IngestDuplicate(t) \/ IngestWatched(t)
    BY <2>1, <2>3 DEF IngestDuplicate, IngestWatched, Shape, ChainGrows
  <2>4. CASE IngestUnmatched(t)
    <3>1. Arrives(t) BY <2>1, <2>4 DEF IngestUnmatched, Arrives
    <3>2. QED BY <2>1, <2>2, <2>4, <3>1 DEF IngestUnmatched, Shape
  <2>5. CASE IngestMatched(t)
    <3>1. \E r \in DOMAIN items : Books(r, t) BY <2>5, MatchShape
    <3>2. QED BY <2>1, <2>5, <3>1 DEF IngestMatched, Shape, RequestChange
  <2>6. QED BY <1>15, <2>3, <2>4, <2>5 DEF Ingest
<1>16. ASSUME NEW r \in OnSettleList, NEW verdict \in Verdicts, Settle(r, verdict)
       PROVE  Shape
  <2>1. r \in DOMAIN items BY DEF OnSettleList, SettleReady
  <2>2. UNCHANGED <<unmatched, chain>> BY <1>16 DEF Settle
  <2>3. CASE SettleStale(r)
    BY <2>2, <2>3 DEF SettleStale, Shape, ChainGrows
  <2>4. CASE SettleGone(r, verdict)
    <3>1. Decides(r, "rejected") BY <2>1, <2>4, SettleGoneShape
    <3>2. QED BY <2>1, <2>2, <2>4, <3>1 DEF SettleGone, Shape, Decision
  <2>5. CASE SettleForAdmin(r, verdict) \/ SettleNoPlayer(r, verdict)
    <3>1. Flags(r) BY <2>1, <2>5, SettleConfirmShape
    <3>2. UNCHANGED credits BY <2>5 DEF SettleForAdmin, SettleNoPlayer
    <3>3. QED BY <2>1, <2>2, <3>1, <3>2 DEF Shape, RequestChange
  <2>6. CASE SettleByBot(r, verdict)
    <3>1. Decides(r, "approved") BY <2>1, <2>6, SettleByBotShape
    <3>2. Adds(<<"request", r>>) BY <2>6 DEF SettleByBot, TopUp, Adds
    <3>3. QED BY <2>1, <2>2, <3>1, <3>2 DEF Shape, Decision
  <2>7. QED BY <1>16, <2>3, <2>4, <2>5, <2>6 DEF Settle
<1>17. CASE PlayerStep BY <1>17, <1>2, <1>3, <1>4 DEF PlayerStep
<1>18. CASE AdminStep
  BY <1>18, <1>2, <1>5, <1>6, <1>7, <1>8, <1>9, <1>10, <1>11 DEF AdminStep
<1>19. CASE EnvironmentStep BY <1>19, <1>12, <1>13, <1>14 DEF EnvironmentStep
<1>20. CASE WatcherStep BY <1>20, <1>15, <1>16 DEF WatcherStep
<1>21. QED BY <1>1, <1>17, <1>18, <1>19, <1>20 DEF Next

-----------------------------------------------------------------------------
(* Types.                                                                  *)

TailOK(p) == ~Memo(p.network) => p.usdt % Cent \in 1..MemoSteps

LEMMA ItemsType ==
  ASSUME TypeOK, Shape
  PROVE  /\ DOMAIN items' \subseteq Requests /\ items' \in [DOMAIN items' -> Request]
         /\ \A r \in DOMAIN items' : TailOK(items'[r])
<1>1. DOMAIN items \subseteq Requests /\ \A q \in DOMAIN items : TailOK(items[q])
  BY DEF TypeOK, TailOK
<1>2. \A p, q : SameTerms(p, q) /\ TailOK(q) => TailOK(p)
  BY DEF SameTerms, TailOK
<1>3. CASE UNCHANGED items
  BY <1>1, <1>3 DEF TypeOK
<1>4. CASE Sweeps
  BY <1>1, <1>2, <1>4 DEF Sweeps, AtMostLapsed
<1>5. ASSUME NEW r \in DOMAIN items, Touches(r)
      PROVE  /\ DOMAIN items' \subseteq Requests /\ items' \in [DOMAIN items' -> Request]
             /\ \A q \in DOMAIN items' : TailOK(items'[q])
  <2>1. ASSUME NEW q \in DOMAIN items PROVE SameTerms(items'[q], items[q])
    BY <1>5 DEF Touches, AtMostLapsed
  <2>2. QED BY <1>1, <1>2, <1>5, <2>1 DEF Touches
<1>6. ASSUME NEW r \in Requests, NEW p \in Players, Opens(r, p)
      PROVE  /\ DOMAIN items' \subseteq Requests /\ items' \in [DOMAIN items' -> Request]
             /\ \A q \in DOMAIN items' : TailOK(items'[q])
  <2>1. TailOK(items'[r]) BY <1>6 DEF Opens, TailOK
  <2>2. ASSUME NEW q \in DOMAIN items PROVE TailOK(items'[q])
    BY <1>1, <1>2, <1>6 DEF Opens, AtMostLapsed
  <2>3. QED BY <1>1, <1>6, <2>1, <2>2 DEF Opens
<1>7. QED
  BY <1>3, <1>4, <1>5, <1>6 DEF Shape, RequestChange, Decision, Decides, Flags, Books

LEMMA RecordsType ==
  ASSUME TypeOK, Shape
  PROVE  /\ DOMAIN unmatched' \subseteq Transfers
         /\ unmatched' \in [DOMAIN unmatched' -> UnmatchedRow]
         /\ credits' \in [Source -> Nat]
<1>1. /\ DOMAIN unmatched \subseteq Transfers
      /\ unmatched \in [DOMAIN unmatched -> UnmatchedRow]
      /\ credits \in [Source -> Nat]
  BY DEF TypeOK
<1>2. ASSUME NEW s \in Source, Adds(s) PROVE credits' \in [Source -> Nat]
  <2>1. credits[s] + 1 \in Nat BY <1>1
  <2>2. QED BY <1>1, <1>2, <2>1 DEF Adds
<1>3. ASSUME NEW r \in DOMAIN items, Decision(r) PROVE credits' \in [Source -> Nat]
  <2>1. <<"request", r>> \in Source BY DEF TypeOK, Source
  <2>2. QED BY <1>1, <1>2, <1>3, <2>1 DEF Decision
<1>4. ASSUME NEW t \in Transfers, Arrives(t) \/ Redeems(t) \/ Shelves(t)
      PROVE  /\ DOMAIN unmatched' \subseteq Transfers
             /\ unmatched' \in [DOMAIN unmatched' -> UnmatchedRow]
             /\ credits' \in [Source -> Nat]
  <2>1. CASE Arrives(t)
    <3>1. [status |-> "new", creditedTo |-> Nobody] \in UnmatchedRow BY DEF UnmatchedRow
    <3>2. QED BY <1>1, <2>1, <3>1 DEF Arrives, Put
  <2>2. CASE Redeems(t)
    <3>1. PICK p \in Players :
            unmatched' = [unmatched EXCEPT ![t] = [status |-> "credited", creditedTo |-> p]]
      BY <2>2 DEF Redeems
    <3>2. [status |-> "credited", creditedTo |-> p] \in UnmatchedRow BY DEF UnmatchedRow
    <3>3. <<"unmatched", t>> \in Source BY DEF Source
    <3>4. credits' \in [Source -> Nat] BY <1>2, <2>2, <3>3 DEF Redeems
    <3>5. QED BY <1>1, <3>1, <3>2, <3>4
  <2>3. CASE Shelves(t)
    <3>1. unmatched[t] \in UnmatchedRow BY <1>1, <2>3 DEF Shelves
    <3>2. [unmatched[t] EXCEPT !.status = "ignored"] \in UnmatchedRow
      BY <3>1 DEF UnmatchedRow
    <3>3. QED BY <1>1, <2>3, <3>2 DEF Shelves
  <2>4. QED BY <1>4, <2>1, <2>2, <2>3
<1>5. QED BY <1>1, <1>3, <1>4 DEF Shape

LEMMA ChainType ==
  ASSUME TypeOK, NEW t \in Transfers, NEW r \in DOMAIN items, NEW network \in Networks,
         NEW slip \in Slips, Send(t, r, network, slip)
  PROVE  DOMAIN chain' \subseteq Transfers /\ chain' \in [DOMAIN chain' -> Transfer]
<1> DEFINE tx == [network |-> network, token |-> items[r].token,
                  to |-> ReportedAs(network, items[r].address),
                  amount |-> items[r].usdt + slip.delta,
                  memo |-> IF slip.memo THEN r ELSE 0,
                  suspect |-> slip.suspect, payer |-> r]
<1>1. items[r] \in Request /\ r \in Requests BY DEF TypeOK
<1>2. slip.delta \in Int /\ slip.suspect \in BOOLEAN BY MoneyAssumption
<1>3. items[r].usdt + slip.delta \in Int BY <1>1, <1>2 DEF Request
<1>4. items[r].token \in Tokens /\ ReportedAs(network, items[r].address) \in Addresses
  BY <1>1, CatalogueAssumption DEF Request, ReportedAs
<1>5. tx \in Transfer BY <1>1, <1>2, <1>3, <1>4 DEF Transfer
<1>6. chain' = Put(chain, t, tx) BY DEF Send, toIncoming
<1> HIDE DEF tx
<1>7. DOMAIN chain \subseteq Transfers /\ chain \in [DOMAIN chain -> Transfer]
  BY DEF TypeOK
<1>8. QED BY <1>5, <1>6, <1>7 DEF Put

LEMMA AddressType ==
  ASSUME TypeOK, PlayerStep \/ AdminStep \/ EnvironmentStep \/ WatcherStep
  PROVE  DOMAIN addrs' \subseteq AddressIds /\ addrs' \in [DOMAIN addrs' -> AddressRow]
<1>1. DOMAIN addrs \subseteq AddressIds /\ addrs \in [DOMAIN addrs -> AddressRow]
  BY DEF TypeOK
<1>2. CASE UNCHANGED addrs BY <1>1, <1>2
<1>3. ASSUME NEW a \in Addresses, AddAddress(a)
      PROVE  DOMAIN addrs' \subseteq AddressIds /\ addrs' \in [DOMAIN addrs' -> AddressRow]
  <2>1. [address |-> a, status |-> "active"] \in AddressRow BY DEF AddressRow
  <2>2. QED BY <1>1, <1>3, <2>1 DEF AddAddress, Put
<1>4. ASSUME NEW i \in DOMAIN addrs,
             RemoveAddress(i) \/ \E active \in BOOLEAN : UpdateAddress(i, active)
      PROVE  DOMAIN addrs' \subseteq AddressIds /\ addrs' \in [DOMAIN addrs' -> AddressRow]
  <2>1. addrs[i] \in AddressRow BY <1>1
  <2>2. PICK status \in {"active", "inactive", "removed"} :
          addrs' = [addrs EXCEPT ![i].status = status]
    BY <1>4 DEF RemoveAddress, UpdateAddress
  <2>3. [addrs[i] EXCEPT !.status = status] \in AddressRow BY <2>1 DEF AddressRow
  <2>4. QED BY <1>1, <2>2, <2>3
<1>5. CASE PlayerStep
  BY <1>2, <1>5 DEF PlayerStep, FindOrCreate, Create, CancelByPlayer
<1>6. CASE AdminStep
  BY <1>2, <1>3, <1>4, <1>6 DEF AdminStep, RemovePlayer, SetDeposits, Approve, Reject,
     CreditUnmatched, IgnoreUnmatched
<1>7. CASE EnvironmentStep
  BY <1>2, <1>7 DEF EnvironmentStep, Sweep, DeadlinePasses, FinalityPasses, Send, toIncoming
<1>8. CASE WatcherStep
  BY <1>2, <1>8 DEF WatcherStep, Ingest, Settle
<1>9. QED BY <1>5, <1>6, <1>7, <1>8

(* The settings, the players in memory and the transfers on the chain.     *)
LEMMA RestType ==
  ASSUME TypeOK, PlayerStep \/ AdminStep \/ EnvironmentStep \/ WatcherStep
  PROVE  /\ cfg' \in Configs /\ known' \subseteq Players
         /\ DOMAIN chain' \subseteq Transfers /\ chain' \in [DOMAIN chain' -> Transfer]
<1>1. /\ cfg \in Configs /\ known \subseteq Players
      /\ DOMAIN chain \subseteq Transfers /\ chain \in [DOMAIN chain -> Transfer]
  BY DEF TypeOK
<1>2. CASE PlayerStep
  BY <1>1, <1>2 DEF PlayerStep, FindOrCreate, Create, CancelByPlayer
<1>3. CASE AdminStep
  BY <1>1, <1>3 DEF AdminStep, RemovePlayer, SetDeposits, AddAddress, UpdateAddress,
     RemoveAddress, Approve, Reject, CreditUnmatched, IgnoreUnmatched
<1>4. CASE EnvironmentStep
  <2>1. ASSUME NEW t \in Transfers, NEW r \in DOMAIN items, NEW network \in Networks,
               NEW slip \in Slips, Send(t, r, network, slip)
        PROVE  UNCHANGED <<cfg, known>> /\ DOMAIN chain' \subseteq Transfers
               /\ chain' \in [DOMAIN chain' -> Transfer]
    BY <2>1, ChainType DEF Send, toIncoming
  <2>2. QED BY <1>1, <1>4, <2>1 DEF EnvironmentStep, Sweep, DeadlinePasses, FinalityPasses
<1>5. CASE WatcherStep
  BY <1>1, <1>5 DEF WatcherStep, Ingest, Settle
<1>6. QED BY <1>2, <1>3, <1>4, <1>5

LEMMA TypeInit == ASSUME Init PROVE TypeOK
  BY DEF Init, TypeOK

LEMMA TypeStep == ASSUME TypeOK, [Next]_vars PROVE TypeOK'
<1>1. CASE UNCHANGED vars BY <1>1 DEF vars, TypeOK, Memo
<1>2. CASE Next
  <2>1. Shape BY StepShape
  <2>2. PlayerStep \/ AdminStep \/ EnvironmentStep \/ WatcherStep BY <1>2 DEF Next
  <2>3. \A r \in DOMAIN items' :
          ~Memo(items'[r].network) => items'[r].usdt % Cent \in 1..MemoSteps
    BY <2>1, ItemsType DEF TailOK
  <2>4. QED BY <2>1, <2>2, <2>3, ItemsType, RecordsType, AddressType, RestType DEF TypeOK
<1>3. QED BY <1>1, <1>2

(* Every record keeps its type, and every price that has to identify its   *)
(* request has a tail of 1 to MemoSteps units.                             *)
THEOREM TypeCorrect == Spec => []TypeOK
<1>1. Init => TypeOK BY TypeInit
<1>2. TypeOK /\ [Next]_vars => TypeOK' BY TypeStep
<1>3. QED BY <1>1, <1>2, PTL DEF Spec

-----------------------------------------------------------------------------
(* One live request per player.                                            *)

(* Nothing but create() makes a request live.                              *)
LEMMA StillOpen ==
  ASSUME TypeOK, Shape,
         ~ \E r \in Requests, p \in Players : Opens(r, p)
  PROVE  /\ DOMAIN items' = DOMAIN items
         /\ \A q \in DOMAIN items : SameTerms(items'[q], items[q])
         /\ \A q \in DOMAIN items : isOpen(items'[q]) => isOpen(items[q])
<1>1. CASE UNCHANGED items BY <1>1 DEF SameTerms
<1>2. CASE Sweeps BY <1>2 DEF Sweeps, AtMostLapsed, Lapsed, isOpen
<1>3. ASSUME NEW r \in DOMAIN items, Touches(r), isOpen(items[r])
      PROVE  /\ DOMAIN items' = DOMAIN items
             /\ \A q \in DOMAIN items : SameTerms(items'[q], items[q])
             /\ \A q \in DOMAIN items : isOpen(items'[q]) => isOpen(items[q])
  BY <1>3 DEF Touches, AtMostLapsed, Lapsed, isOpen
<1>4. ASSUME NEW r \in DOMAIN items, NEW t \in DOMAIN chain, Books(r, t)
      PROVE  Touches(r) /\ isOpen(items[r])
  BY <1>4, CandidateFacts DEF Books, isOpen
<1>5. QED
  BY <1>1, <1>2, <1>3, <1>4 DEF Shape, RequestChange, Decision, Decides, Flags

LEMMA OneOpenStep ==
  ASSUME TypeOK, OneOpenPerPlayer, Shape
  PROVE  OneOpenPerPlayer'
<1>1. CASE ~ \E r \in Requests, p \in Players : Opens(r, p)
  BY <1>1, StillOpen DEF OneOpenPerPlayer, SameTerms, isOpen
<1>2. ASSUME NEW r \in Requests, NEW p \in Players, Opens(r, p)
      PROVE  OneOpenPerPlayer'
  <2>1. ASSUME NEW q \in DOMAIN items, isOpen(items'[q])
        PROVE  items'[q].player # p /\ isOpen(items[q]) /\ items'[q].player = items[q].player
    BY <1>2, <2>1 DEF Opens, AtMostLapsed, SameTerms, Lapsed, isOpen
  <2>2. DOMAIN items' = DOMAIN items \cup {r} /\ items'[r].player = p
    BY <1>2 DEF Opens
  <2>3. QED BY <2>1, <2>2 DEF OneOpenPerPlayer, isOpen
<1>3. QED BY <1>1, <1>2

(* A player never has two live requests, however create(), the sweep, the  *)
(* watcher and the administrators interleave.                              *)
THEOREM OneOpen == Spec => []OneOpenPerPlayer
<1>1. Init => OneOpenPerPlayer BY DEF Init, OneOpenPerPlayer
<1>2. TypeOK /\ OneOpenPerPlayer /\ [Next]_vars => OneOpenPerPlayer'
  BY StepShape, OneOpenStep
<1>3. QED BY <1>1, <1>2, TypeCorrect, PTL DEF Spec

-----------------------------------------------------------------------------
(* One record per transfer.                                                *)

LEMMA ClaimedOnceStep ==
  ASSUME TypeOK, TxidClaimedOnce, Shape
  PROVE  TxidClaimedOnce'
<1>0. \A t \in DOMAIN unmatched : TxidOf[t] \in Txids /\ TxidOf[t] # NoTx
  BY CatalogueAssumption DEF TypeOK
<1>1. CASE UNCHANGED <<items, unmatched>>
  BY <1>1 DEF TxidClaimedOnce
<1>2. ASSUME UNCHANGED unmatched, DOMAIN items' = DOMAIN items,
             \A q \in DOMAIN items : items'[q].txid = items[q].txid
      PROVE  TxidClaimedOnce'
  BY <1>2 DEF TxidClaimedOnce
<1>3. CASE Sweeps /\ UNCHANGED unmatched
  BY <1>2, <1>3 DEF Sweeps, AtMostLapsed, SamePayment
<1>4. ASSUME NEW r \in DOMAIN items, Touches(r), SamePayment(items'[r], items[r]),
             UNCHANGED unmatched
      PROVE  TxidClaimedOnce'
  BY <1>2, <1>4 DEF Touches, AtMostLapsed, SamePayment
<1>5. ASSUME NEW r \in DOMAIN items, NEW t \in DOMAIN chain, Books(r, t), UNCHANGED unmatched
      PROVE  TxidClaimedOnce'
  <2>1. DOMAIN items' = DOMAIN items /\ \A q \in DOMAIN items : q # r => items'[q] = items[q]
    BY <1>5 DEF Books, Touches
  <2>2. items'[r].txid = TxidOf[t] /\ ~KnownTxid(TxidOf[t]) BY <1>5 DEF Books
  <2>3. QED BY <1>5, <2>1, <2>2 DEF TxidClaimedOnce, KnownTxid
<1>6. ASSUME NEW r \in Requests, NEW p \in Players, Opens(r, p), UNCHANGED unmatched
      PROVE  TxidClaimedOnce'
  <2>1. DOMAIN items' = DOMAIN items \cup {r} /\ items'[r].txid = NoTx
    BY <1>6 DEF Opens
  <2>2. \A q \in DOMAIN items : items'[q].txid = items[q].txid
    BY <1>6 DEF Opens, AtMostLapsed, SamePayment
  <2>3. QED BY <1>0, <1>6, <2>1, <2>2 DEF TxidClaimedOnce
<1>7. ASSUME NEW t \in Transfers, Arrives(t), UNCHANGED items
      PROVE  TxidClaimedOnce'
  <2>1. DOMAIN unmatched' = DOMAIN unmatched \cup {t} /\ ~KnownTxid(TxidOf[t])
    BY <1>7 DEF Arrives, Put
  <2>2. QED BY <1>7, <2>1 DEF TxidClaimedOnce, KnownTxid
<1>8. ASSUME NEW t \in Transfers, Redeems(t) \/ Shelves(t), UNCHANGED items
      PROVE  TxidClaimedOnce'
  <2>1. DOMAIN unmatched' = DOMAIN unmatched
    BY <1>8 DEF Redeems, Shelves, TypeOK
  <2>2. QED BY <1>8, <2>1 DEF TxidClaimedOnce
<1>9. QED
  BY <1>1, <1>3, <1>4, <1>5, <1>6, <1>7, <1>8
  DEF Shape, RequestChange, Decision, Decides, Flags

(* No transfer ever serves two records.                                    *)
THEOREM ClaimedOnce == Spec => []TxidClaimedOnce
<1>1. Init => TxidClaimedOnce BY DEF Init, TxidClaimedOnce
<1>2. TypeOK /\ TxidClaimedOnce /\ [Next]_vars => TxidClaimedOnce'
  BY StepShape, ClaimedOnceStep
<1>3. QED BY <1>1, <1>2, TypeCorrect, PTL DEF Spec

-----------------------------------------------------------------------------
(* The books balance.                                                      *)

Approved(r) == r \in DOMAIN items /\ items[r].status = "approved"
RequestBooks == \A r \in Requests :
  credits[<<"request", r>>] = IF Approved(r) THEN 1 ELSE 0
RowBooks == \A t \in Transfers : credits[<<"unmatched", t>>] =
  IF t \in DOMAIN unmatched /\ unmatched[t].status = "credited" THEN 1 ELSE 0

LEMMA SourceFacts ==
  /\ \A r \in Requests : <<"request", r>> \in Source
  /\ \A t \in Transfers : <<"unmatched", t>> \in Source
  /\ \A r, t : <<"request", r>> # <<"unmatched", t>>
  BY DEF Source

LEMMA RequestBooksStep ==
  ASSUME TypeOK, RequestBooks, Shape
  PROVE  RequestBooks'
<1>1. credits \in [Source -> Nat] /\ DOMAIN items \subseteq Requests BY DEF TypeOK
<1>2. ASSUME UNCHANGED credits, \A r \in Requests : Approved(r)' <=> Approved(r)
      PROVE  RequestBooks'
  BY <1>2 DEF RequestBooks
<1>3. CASE UNCHANGED <<items, credits>> BY <1>2, <1>3 DEF Approved
<1>4. CASE Sweeps /\ UNCHANGED credits
  BY <1>2, <1>4 DEF Sweeps, AtMostLapsed, Lapsed, Approved
<1>5. ASSUME NEW r \in DOMAIN items, Touches(r), UNCHANGED credits,
             items[r].status # "approved", items'[r].status # "approved"
      PROVE  RequestBooks'
  BY <1>2, <1>5 DEF Touches, AtMostLapsed, Lapsed, Approved
<1>6. ASSUME NEW r \in DOMAIN items, UNCHANGED credits,
             Flags(r) \/ (\E t \in DOMAIN chain : Books(r, t))
               \/ Decides(r, "rejected") \/ Decides(r, "canceled")
      PROVE  RequestBooks'
  <2>1. Touches(r) BY <1>6 DEF Flags, Books, Decides
  <2>2. items[r].status # "approved" /\ items'[r].status # "approved"
    BY <1>6, CandidateFacts DEF Flags, Books, Decides, isOpen
  <2>3. QED BY <1>5, <1>6, <2>1, <2>2
<1>7. ASSUME NEW r \in Requests, NEW p \in Players, Opens(r, p), UNCHANGED credits
      PROVE  RequestBooks'
  <2>1. \A q \in DOMAIN items : Approved(q)' <=> Approved(q)
    BY <1>7 DEF Opens, AtMostLapsed, Lapsed, Approved
  <2>2. ~Approved(r) /\ ~Approved(r)' BY <1>7 DEF Opens, Approved
  <2>3. QED BY <1>2, <1>7, <2>1, <2>2 DEF Opens, Approved
<1>8. ASSUME NEW r \in DOMAIN items, Decides(r, "approved"), Adds(<<"request", r>>)
      PROVE  RequestBooks'
  <2>1. ~Approved(r) /\ Approved(r)' BY <1>8 DEF Decides, Touches, Approved, isOpen
  <2>2. \A q \in Requests : q # r => (Approved(q)' <=> Approved(q))
    BY <1>8 DEF Decides, Touches, AtMostLapsed, Lapsed, Approved
  <2>3. \A q \in Requests : credits'[<<"request", q>>] =
          IF q = r THEN credits[<<"request", q>>] + 1 ELSE credits[<<"request", q>>]
    BY <1>1, <1>8, SourceFacts DEF Adds
  <2>4. credits'[<<"request", r>>] = 1 BY <1>1, <2>1, <2>3 DEF RequestBooks
  <2>5. ASSUME NEW q \in Requests, q # r
        PROVE  credits'[<<"request", q>>] = IF Approved(q)' THEN 1 ELSE 0
    BY <2>2, <2>3, <2>5 DEF RequestBooks
  <2>6. QED BY <2>1, <2>4, <2>5 DEF RequestBooks
<1>9. ASSUME NEW t \in Transfers, Adds(<<"unmatched", t>>), UNCHANGED items
      PROVE  RequestBooks'
  <2>1. \A q \in Requests : credits'[<<"request", q>>] = credits[<<"request", q>>]
    BY <1>1, <1>9, SourceFacts DEF Adds
  <2>2. QED BY <1>9, <2>1 DEF RequestBooks, Approved
<1>10. QED
  BY <1>3, <1>4, <1>6, <1>7, <1>8, <1>9
  DEF Shape, RequestChange, Decision, Arrives, Redeems, Shelves

LEMMA RowBooksStep ==
  ASSUME TypeOK, RowBooks, Shape
  PROVE  RowBooks'
<1>1. credits \in [Source -> Nat] /\ DOMAIN items \subseteq Requests
      /\ unmatched \in [DOMAIN unmatched -> UnmatchedRow]
  BY DEF TypeOK
<1>2. CASE UNCHANGED <<unmatched, credits>> BY <1>2 DEF RowBooks
<1>3. ASSUME NEW r \in DOMAIN items, Adds(<<"request", r>>), UNCHANGED unmatched
      PROVE  RowBooks'
  <2>1. \A t \in Transfers : credits'[<<"unmatched", t>>] = credits[<<"unmatched", t>>]
    BY <1>1, <1>3, SourceFacts DEF Adds
  <2>2. QED BY <1>3, <2>1 DEF RowBooks
<1>4. ASSUME NEW t \in Transfers, Arrives(t) PROVE RowBooks'
  <2>1. t \notin DOMAIN unmatched BY <1>4 DEF Arrives, KnownTxid
  <2>2. /\ DOMAIN unmatched' = DOMAIN unmatched \cup {t}
        /\ unmatched'[t].status = "new"
        /\ \A u \in DOMAIN unmatched : unmatched'[u] = unmatched[u]
    BY <1>4, <2>1 DEF Arrives, Put
  <2>3. QED BY <1>4, <2>1, <2>2 DEF RowBooks, Arrives
<1>5. ASSUME NEW t \in Transfers, Redeems(t) PROVE RowBooks'
  <2>1. /\ DOMAIN unmatched' = DOMAIN unmatched /\ t \in DOMAIN unmatched
        /\ unmatched[t].status # "credited" /\ unmatched'[t].status = "credited"
        /\ \A u \in DOMAIN unmatched : u # t => unmatched'[u] = unmatched[u]
    BY <1>1, <1>5 DEF Redeems
  <2>2. \A u \in Transfers : credits'[<<"unmatched", u>>] =
          IF u = t THEN credits[<<"unmatched", u>>] + 1 ELSE credits[<<"unmatched", u>>]
    BY <1>1, <1>5, SourceFacts DEF Redeems, Adds
  <2>3. credits'[<<"unmatched", t>>] = 1 BY <1>1, <2>1, <2>2 DEF RowBooks
  <2>4. ASSUME NEW u \in Transfers, u # t
        PROVE  credits'[<<"unmatched", u>>] = credits[<<"unmatched", u>>]
               /\ (u \in DOMAIN unmatched' <=> u \in DOMAIN unmatched)
               /\ (u \in DOMAIN unmatched => unmatched'[u] = unmatched[u])
    BY <2>1, <2>2, <2>4
  <2>5. QED BY <2>1, <2>3, <2>4 DEF RowBooks
<1>6. ASSUME NEW t \in Transfers, Shelves(t) PROVE RowBooks'
  <2>1. /\ DOMAIN unmatched' = DOMAIN unmatched
        /\ \A u \in DOMAIN unmatched :
             unmatched'[u].status = "credited" <=> unmatched[u].status = "credited"
    BY <1>1, <1>6 DEF Shelves, UnmatchedRow
  <2>2. QED BY <1>6, <2>1 DEF RowBooks, Shelves
<1>7. QED
  BY <1>2, <1>3, <1>4, <1>5, <1>6 DEF Shape, Decision

(* No balance is topped up twice for one record, and none is topped up     *)
(* without its record saying so.                                           *)
THEOREM CreditsBalance == Spec => []CreditedOnce
<1>1. CreditedOnce <=> RequestBooks /\ RowBooks
  BY DEF CreditedOnce, RequestBooks, RowBooks, Approved
<1>2. Init => CreditedOnce
  BY SourceFacts DEF Init, CreditedOnce
<1>3. TypeOK /\ CreditedOnce /\ [Next]_vars => CreditedOnce'
  <2>1. SUFFICES ASSUME TypeOK, CreditedOnce, [Next]_vars PROVE CreditedOnce'
    OBVIOUS
  <2>2. Shape BY <2>1, StepShape
  <2>3. RequestBooks' /\ RowBooks' BY <1>1, <2>1, <2>2, RequestBooksStep, RowBooksStep
  <2>4. QED BY <2>3 DEF CreditedOnce, RequestBooks, RowBooks, Approved
<1>4. QED BY <1>2, <1>3, TypeCorrect, PTL DEF Spec

-----------------------------------------------------------------------------
(* What the fields of a live request say of each other; the invariants     *)
(* below are inductive only together with this.                            *)

FieldsAgree ==
  \A r \in DOMAIN items :
    /\ items[r].status = "pending" => items[r].txid = NoTx
    /\ items[r].status = "processing" => items[r].txid # NoTx
    /\ isOpen(items[r]) => items[r].resolvedBy = "nobody"

LEMMA FieldsAgreeStep ==
  ASSUME TypeOK, FieldsAgree, Shape
  PROVE  FieldsAgree'
<1> DEFINE Agree(p) == /\ p.status = "pending" => p.txid = NoTx
                       /\ p.status = "processing" => p.txid # NoTx
                       /\ isOpen(p) => p.resolvedBy = "nobody"
<1>1. ASSUME NEW a, NEW b, AtMostLapsed(a, b), Agree(b) PROVE Agree(a)
  BY <1>1 DEF AtMostLapsed, Lapsed, SamePayment, isOpen
<1>2. \A q \in DOMAIN items : Agree(items[q]) BY DEF FieldsAgree
<1>3. SUFFICES \A q \in DOMAIN items' : Agree(items'[q]) BY DEF FieldsAgree, isOpen
<1> HIDE DEF Agree
<1>4. CASE UNCHANGED items BY <1>2, <1>4
<1>5. CASE Sweeps BY <1>1, <1>2, <1>5 DEF Sweeps
<1>6. ASSUME NEW r \in DOMAIN items, Touches(r), Agree(items'[r])
      PROVE  \A q \in DOMAIN items' : Agree(items'[q])
  BY <1>1, <1>2, <1>6 DEF Touches
<1>7. ASSUME NEW r \in DOMAIN items, Flags(r) PROVE Agree(items'[r])
  BY <1>2, <1>7 DEF Flags, SamePayment, isOpen, Agree
<1>8. ASSUME NEW r \in DOMAIN items, NEW t \in DOMAIN chain, Books(r, t)
      PROVE  Agree(items'[r])
  <2>1. TxidOf[t] # NoTx BY CatalogueAssumption DEF TypeOK
  <2>2. items[r].resolvedBy = "nobody"
    BY <1>2, <1>8, CandidateFacts DEF Books, isOpen, Agree
  <2>3. QED BY <1>8, <2>1, <2>2 DEF Books, Agree
<1>9. ASSUME NEW r \in DOMAIN items, NEW status, Decides(r, status) PROVE Agree(items'[r])
  BY <1>9 DEF Decides, isOpen, Agree
<1>10. ASSUME NEW r \in Requests, NEW p \in Players, Opens(r, p)
       PROVE  \A q \in DOMAIN items' : Agree(items'[q])
  <2>1. Agree(items'[r]) BY <1>10 DEF Opens, Agree
  <2>2. QED BY <1>1, <1>2, <1>10, <2>1 DEF Opens
<1>11. ASSUME NEW r \in DOMAIN items, Flags(r) \/ Decision(r) \/ \E t \in DOMAIN chain : Books(r, t)
       PROVE  \A q \in DOMAIN items' : Agree(items'[q])
  BY <1>6, <1>7, <1>8, <1>9, <1>11 DEF Decision, Flags, Books, Decides
<1>12. QED
  BY <1>4, <1>5, <1>10, <1>11 DEF Shape, RequestChange

LEMMA FieldsAlwaysAgree == Spec => [](TypeOK /\ FieldsAgree)
<1>1. Init => FieldsAgree BY DEF Init, FieldsAgree
<1>2. TypeOK /\ FieldsAgree /\ [Next]_vars => FieldsAgree'
  BY StepShape, FieldsAgreeStep
<1>3. QED BY <1>1, <1>2, TypeCorrect, PTL DEF Spec

-----------------------------------------------------------------------------
(* What the bot takes for paid is paid.                                    *)

PaidBy(p, t) ==
  /\ TxidOf[t] = p.txid /\ ~chain[t].suspect
  /\ chain[t].token = p.token
  /\ FamilyOf[chain[t].network] = FamilyOf[p.network]
  /\ sameAddress(chain[t].to, p.address)
  /\ p.paid = chain[t].amount /\ p.paid >= p.usdt

Covered(p) ==
  /\ p.status = "processing" \/ p.resolvedBy = "bot" => \E t \in DOMAIN chain : PaidBy(p, t)
  /\ p.status = "approved" /\ p.resolvedBy = "bot" => p.confirmed

LEMMA CoveredStep ==
  ASSUME TypeOK, FieldsAgree, BotWorkIsCovered, Shape
  PROVE  BotWorkIsCovered'
<1>1. \A q \in DOMAIN items : Covered(items[q]) BY DEF BotWorkIsCovered, Covered, PaidBy
<1>2. ChainGrows BY DEF Shape, ChainGrows
<1>4. SUFFICES \A q \in DOMAIN items' : Covered(items'[q])
  <2>1. \A q \in DOMAIN items' : Covered(items'[q]) => Covered(items[q])'
    BY <1>2 DEF Covered, PaidBy, ChainGrows, sameAddress
  <2>2. QED BY <2>1 DEF BotWorkIsCovered, Covered, PaidBy
<1>5. ASSUME NEW a, NEW b, AtMostLapsed(a, b), Covered(b) PROVE Covered(a)
  BY <1>5 DEF AtMostLapsed, Lapsed, SamePayment, SameTerms, Covered, PaidBy
<1>6. CASE UNCHANGED items BY <1>1, <1>6
<1>7. CASE Sweeps BY <1>1, <1>5, <1>7 DEF Sweeps
<1>8. ASSUME NEW r \in DOMAIN items, Touches(r), Covered(items'[r])
      PROVE  \A q \in DOMAIN items' : Covered(items'[q])
  BY <1>1, <1>5, <1>8 DEF Touches
<1>9. ASSUME NEW r \in DOMAIN items, Flags(r) PROVE Covered(items'[r])
  BY <1>1, <1>9 DEF Flags, Touches, SamePayment, SameTerms, isOpen, Covered, PaidBy
<1>10. ASSUME NEW r \in DOMAIN items, NEW t \in DOMAIN chain, Books(r, t)
       PROVE  Covered(items'[r])
  <2>1. /\ items[r].status = "pending" /\ items[r].token = chain[t].token
        /\ FamilyOf[items[r].network] = FamilyOf[chain[t].network]
        /\ sameAddress(items[r].address, chain[t].to)
        /\ chain[t].amount >= items[r].usdt \/ chain[t].amount = items[r].usdt
    BY <1>10, CandidateFacts DEF Books
  <2>2. items[r] \in Request /\ items[r].usdt \in Nat BY DEF TypeOK, Request
  <2>3. chain[t].amount >= items[r].usdt BY <2>1, <2>2
  <2>4. SameTerms(items'[r], items[r]) BY <1>10 DEF Books, Touches
  <2>5. PaidBy(items'[r], t)
    BY <1>10, <2>1, <2>3, <2>4 DEF Books, SameTerms, PaidBy, sameAddress
  <2>6. QED BY <1>10, <2>5 DEF Books, Covered
<1>11. ASSUME NEW r \in DOMAIN items, NEW status, Decides(r, status)
       PROVE  Covered(items'[r])
  <2>1. items[r].resolvedBy = "nobody" BY <1>11 DEF Decides, FieldsAgree
  <2>2. CASE items'[r].resolvedBy # "bot" BY <1>11, <2>2 DEF Decides, Covered
  <2>3. CASE items'[r].resolvedBy = "bot"
    <3>1. items[r].status = "processing" /\ (status = "approved" => items'[r].confirmed)
      BY <1>11, <2>1, <2>3 DEF Decides
    <3>2. \E t \in DOMAIN chain : PaidBy(items[r], t) BY <1>1, <3>1 DEF Covered
    <3>3. \E t \in DOMAIN chain : PaidBy(items'[r], t)
      BY <1>11, <3>2 DEF Decides, Touches, SamePayment, SameTerms, PaidBy
    <3>4. QED BY <1>11, <3>1, <3>3 DEF Decides, Covered
  <2>4. QED BY <2>2, <2>3
<1>12. ASSUME NEW r \in Requests, NEW p \in Players, Opens(r, p)
       PROVE  \A q \in DOMAIN items' : Covered(items'[q])
  <2>1. Covered(items'[r]) BY <1>12 DEF Opens, Covered
  <2>2. QED BY <1>1, <1>5, <1>12, <2>1 DEF Opens
<1>13. ASSUME NEW r \in DOMAIN items, Flags(r) \/ Decision(r) \/ \E t \in DOMAIN chain : Books(r, t)
       PROVE  \A q \in DOMAIN items' : Covered(items'[q])
  BY <1>8, <1>9, <1>10, <1>11, <1>13 DEF Decision, Flags, Books, Decides
<1>14. QED
  BY <1>6, <1>7, <1>12, <1>13 DEF Shape, RequestChange

(* Whatever the bot has found the transfer of, and whatever it decided, is *)
(* covered by a transfer of that account, token and family for at least    *)
(* the price; and the bot approves only what the network confirmed.        *)
THEOREM BotCovered == Spec => []BotWorkIsCovered
<1>1. Init => BotWorkIsCovered BY DEF Init, BotWorkIsCovered
<1>2. TypeOK /\ FieldsAgree /\ BotWorkIsCovered /\ [Next]_vars => BotWorkIsCovered'
  BY StepShape, CoveredStep
<1>3. QED BY <1>1, <1>2, FieldsAlwaysAgree, PTL DEF Spec

-----------------------------------------------------------------------------
(* What no step ever does.                                                 *)

LEMMA ClosedStep ==
  ASSUME TypeOK, Shape, NEW q \in DOMAIN items, ~isOpen(items[q])
  PROVE  items'[q] = items[q]
<1>1. items[q].status # "pending" BY DEF isOpen
<1>2. AtMostLapsed(items'[q], items[q]) => items'[q] = items[q]
  BY <1>1 DEF AtMostLapsed
<1>3. ASSUME NEW r \in DOMAIN items, Touches(r), isOpen(items[r])
      PROVE  items'[q] = items[q]
  BY <1>2, <1>3 DEF Touches
<1>4. ASSUME NEW r \in DOMAIN items, NEW t \in DOMAIN chain, Books(r, t)
      PROVE  Touches(r) /\ isOpen(items[r])
  BY <1>4, CandidateFacts DEF Books, isOpen
<1>5. CASE Sweeps BY <1>2, <1>5 DEF Sweeps
<1>6. ASSUME NEW r \in Requests, NEW p \in Players, Opens(r, p) PROVE items'[q] = items[q]
  BY <1>2, <1>6 DEF Opens
<1>7. QED
  BY <1>3, <1>4, <1>5, <1>6 DEF Shape, RequestChange, Decision, Decides, Flags

(* A request that was decided, that expired or was cancelled is never      *)
(* touched again.                                                          *)
THEOREM NothingReopens == Spec => ClosedForever
<1>1. TypeOK /\ [Next]_vars =>
        [\A r \in DOMAIN items : ~isOpen(items[r]) => items'[r] = items[r]]_vars
  BY StepShape, ClosedStep
<1>2. QED BY <1>1, TypeCorrect, PTL DEF Spec, ClosedForever

LEMMA PaidStep ==
  ASSUME TypeOK, FieldsAgree, Shape, NEW q \in DOMAIN items, items[q].txid # NoTx
  PROVE  /\ items'[q].txid = items[q].txid /\ items'[q].paid = items[q].paid
         /\ items'[q].status \in {items[q].status, "approved", "rejected"}
<1>1. items[q].status # "pending" BY DEF FieldsAgree
<1>2. CASE ~isOpen(items[q])
  <2>1. items'[q] = items[q] BY <1>2, ClosedStep
  <2>2. QED BY <2>1
<1>3. CASE isOpen(items[q])
  <2>1. items[q].status = "processing" BY <1>1, <1>3 DEF isOpen
  <2>2. CASE items'[q] = items[q] BY <2>2
  <2>3. AtMostLapsed(items'[q], items[q]) => items'[q] = items[q]
    BY <1>1 DEF AtMostLapsed
  <2>4. CASE Flags(q) BY <2>4 DEF Flags, SamePayment
  <2>5. ASSUME NEW status, Decides(q, status)
        PROVE  SamePayment(items'[q], items[q]) /\ items'[q].status \in {"approved", "rejected"}
    BY <1>1, <2>5 DEF Decides
  <2>6. ASSUME NEW r \in DOMAIN items, r # q, Touches(r) PROVE items'[q] = items[q]
    BY <2>3, <2>6 DEF Touches
  <2>7. ASSUME NEW t \in DOMAIN chain PROVE ~Books(q, t)
    BY <1>1, CandidateFacts DEF Books
  <2>8. ASSUME NEW r \in Requests, NEW p \in Players, Opens(r, p)
        PROVE  items'[q] = items[q]
    BY <2>3, <2>8 DEF Opens
  <2>9. CASE Sweeps BY <2>3, <2>9, <2>2 DEF Sweeps
  <2>10. ASSUME NEW r \in DOMAIN items,
                Flags(r) \/ Decision(r) \/ \E t \in DOMAIN chain : Books(r, t)
         PROVE  /\ items'[q].txid = items[q].txid /\ items'[q].paid = items[q].paid
                /\ items'[q].status \in {items[q].status, "approved", "rejected"}
    <3>1. CASE r # q
      <4>1. Touches(r) BY <2>10 DEF Flags, Decision, Decides, Books
      <4>2. QED BY <2>2, <2>6, <3>1, <4>1
    <3>2. CASE r = q
      BY <2>4, <2>5, <2>7, <2>10, <3>2 DEF Decision, SamePayment
    <3>3. QED BY <3>1, <3>2
  <2>11. QED BY <2>2, <2>8, <2>9, <2>10 DEF Shape, RequestChange
<1>4. QED BY <1>2, <1>3

(* A request whose transfer was found neither expires nor is cancelled, and *)
(* no second transfer takes the place of the first.                        *)
THEOREM PaidIsKept == Spec => PaidStaysPaid
<1>1. TypeOK /\ FieldsAgree /\ [Next]_vars =>
        [\A r \in DOMAIN items : items[r].txid # NoTx =>
           /\ items'[r].txid = items[r].txid /\ items'[r].paid = items[r].paid
           /\ items'[r].status \in {items[r].status, "approved", "rejected"}]_vars
  BY StepShape, PaidStep
<1>2. QED BY <1>1, FieldsAlwaysAgree, PTL DEF Spec, PaidStaysPaid

-----------------------------------------------------------------------------
(* The service keeps DepositPromise.                                       *)

RequestClaims ==
  {<<items[r].txid, <<"request", r>>>> : r \in {q \in DOMAIN items : items[q].txid # NoTx}}
RowClaims == {<<TxidOf[t], <<"unmatched", t>>>> : t \in DOMAIN unmatched}
RequestsClosed == {<<"request", r>> : r \in {q \in DOMAIN items : ~isOpen(items[q])}}
RowsClosed == {<<"unmatched", t>> : t \in {u \in DOMAIN unmatched : unmatched[u].status # "new"}}

LEMMA ClaimsSplit ==
  /\ Claims = RequestClaims \cup RowClaims
  /\ Closed = RequestsClosed \cup RowsClosed
  /\ Claims' = RequestClaims' \cup RowClaims'
  /\ Closed' = RequestsClosed' \cup RowsClosed'
  BY DEF Claims, Closed, RequestClaims, RowClaims, RequestsClosed, RowsClosed

(* The requests of Q that lapse in this step.                              *)
Lapsing(Q) == {<<"request", q>> : q \in {r \in Q : Lapsed(items'[r], items[r])}}

LEMMA LapsingFacts ==
  ASSUME TypeOK, FieldsAgree, NEW Q \in SUBSET DOMAIN items
  PROVE  Lapsing(Q) \in SUBSET Source /\ Promise!MayLapse(Lapsing(Q))
<1>1. Lapsing(Q) \subseteq Source BY DEF Lapsing, TypeOK, Source
<1>2. ASSUME NEW q \in Q, Lapsed(items'[q], items[q])
      PROVE  isOpen(items[q]) /\ items[q].txid = NoTx
  BY <1>2 DEF Lapsed, isOpen, FieldsAgree
<1>3. Lapsing(Q) \cap Closed = {} BY <1>2 DEF Lapsing, Closed
<1>4. \A c \in Claims : c[2] \notin Lapsing(Q) BY <1>2 DEF Lapsing, Claims
<1>5. QED BY <1>1, <1>3, <1>4 DEF Promise!MayLapse

(* A step in which requests lapse, one may appear, and that is all.        *)
LEMMA LapseStep ==
  ASSUME TypeOK, FieldsAgree, UNCHANGED <<unmatched, credits>>,
         DOMAIN items \subseteq DOMAIN items',
         \A q \in DOMAIN items :
           /\ SamePayment(items'[q], items[q])
           /\ isOpen(items'[q]) <=> isOpen(items[q]) /\ ~Lapsed(items'[q], items[q]),
         \A q \in DOMAIN items' \ DOMAIN items :
           isOpen(items'[q]) /\ items'[q].txid = NoTx
  PROVE  Promise!Next
<1> DEFINE S == Lapsing(DOMAIN items)
<1>1. S \in SUBSET Source /\ Promise!MayLapse(S) BY LapsingFacts
<1>2. RequestClaims' = RequestClaims BY DEF RequestClaims, SamePayment
<1>3. RowClaims' = RowClaims /\ RowsClosed' = RowsClosed BY DEF RowClaims, RowsClosed
<1>4. RequestsClosed' = RequestsClosed \cup S
  BY DEF RequestsClosed, Lapsing, Lapsed, isOpen
<1> HIDE DEF S
<1>5. Claims' = Claims /\ Closed' = Closed \cup S
  BY <1>2, <1>3, <1>4, ClaimsSplit
<1>6. Promise!Lapse(S) BY <1>1, <1>5 DEF Promise!Lapse
<1>7. QED BY <1>1, <1>6 DEF Promise!Next

LEMMA DecideStep ==
  ASSUME TypeOK, FieldsAgree, NEW r \in DOMAIN items, Decision(r), UNCHANGED unmatched
  PROVE  Promise!Next
<1> DEFINE S == Lapsing(DOMAIN items \ {r})
           s == <<"request", r>>
<1>1. S \in SUBSET Source /\ Promise!MayLapse(S) BY LapsingFacts
<1>2. s \in Source BY DEF TypeOK, Source
<1>3. PICK status : Decides(r, status) BY DEF Decision
<1>4. /\ DOMAIN items' = DOMAIN items
      /\ \A q \in DOMAIN items : SamePayment(items'[q], items[q])
      /\ isOpen(items[r]) /\ ~isOpen(items'[r])
      /\ \A q \in DOMAIN items \ {r} :
           isOpen(items'[q]) <=> isOpen(items[q]) /\ ~Lapsed(items'[q], items[q])
  BY <1>3 DEF Decides, Touches, AtMostLapsed, Lapsed, isOpen
<1>5. RequestClaims' = RequestClaims BY <1>4 DEF RequestClaims, SamePayment
<1>6. RowClaims' = RowClaims /\ RowsClosed' = RowsClosed BY DEF RowClaims, RowsClosed
<1>7. RequestsClosed' = RequestsClosed \cup {s} \cup S
  BY <1>4 DEF RequestsClosed, Lapsing, Lapsed, isOpen
<1>8. s \notin Closed
  BY <1>4 DEF Closed
<1>9. PICK favour \in BOOLEAN :
        credits' = IF favour THEN [credits EXCEPT ![s] = @ + 1] ELSE credits
  BY DEF Decision, Adds
<1> HIDE DEF S, s
<1>10. Claims' = Claims /\ Closed' = Closed \cup {s} \cup S
  BY <1>5, <1>6, <1>7, ClaimsSplit
<1>11. Promise!Decide(s, favour, S)
  BY <1>1, <1>8, <1>9, <1>10 DEF Promise!Decide
<1>12. QED BY <1>1, <1>2, <1>11 DEF Promise!Next

LEMMA BookStep ==
  ASSUME TypeOK, FieldsAgree, NEW r \in DOMAIN items, NEW t \in DOMAIN chain, Books(r, t),
         UNCHANGED <<unmatched, credits>>
  PROVE  Promise!Next
<1> DEFINE s == <<"request", r>>
<1>1. s \in Source /\ TxidOf[t] \in Txids /\ TxidOf[t] # NoTx
  BY CatalogueAssumption DEF TypeOK, Source
<1>2. items[r].status = "pending" /\ items[r].txid = NoTx
  BY CandidateFacts DEF Books, FieldsAgree
<1>3. /\ DOMAIN items' = DOMAIN items
      /\ items'[r].txid = TxidOf[t] /\ isOpen(items'[r]) /\ isOpen(items[r])
      /\ \A q \in DOMAIN items : q # r => items'[q] = items[q]
  BY <1>2 DEF Books, Touches, isOpen
<1>4. \A c \in Claims : c[1] # TxidOf[t] /\ c[2] # s
  BY <1>2 DEF Books, KnownTxid, Claims
<1>5. s \notin Closed BY <1>3 DEF Closed
<1>6. RequestClaims' = RequestClaims \cup {<<TxidOf[t], s>>}
  BY <1>1, <1>2, <1>3 DEF RequestClaims
<1>7. RequestsClosed' = RequestsClosed BY <1>3 DEF RequestsClosed, isOpen
<1>8. RowClaims' = RowClaims /\ RowsClosed' = RowsClosed BY DEF RowClaims, RowsClosed
<1> HIDE DEF s
<1>9. Claims' = Claims \cup {<<TxidOf[t], s>>} /\ Closed' = Closed
  BY <1>6, <1>7, <1>8, ClaimsSplit
<1>10. Promise!Claim(TxidOf[t], s) BY <1>4, <1>5, <1>9 DEF Promise!Claim
<1>11. QED BY <1>1, <1>10 DEF Promise!Next

LEMMA RowStep ==
  ASSUME TypeOK, NEW t \in Transfers, Arrives(t) \/ Redeems(t) \/ Shelves(t), UNCHANGED items
  PROVE  Promise!Next
<1> DEFINE s == <<"unmatched", t>>
<1>1. s \in Source /\ TxidOf[t] \in Txids BY CatalogueAssumption DEF Source
<1>2. RequestClaims' = RequestClaims /\ RequestsClosed' = RequestsClosed
  BY DEF RequestClaims, RequestsClosed, isOpen
<1>3. unmatched \in [DOMAIN unmatched -> UnmatchedRow] BY DEF TypeOK
<1>4. CASE Arrives(t)
  <2>1. t \notin DOMAIN unmatched BY <1>4 DEF Arrives, KnownTxid
  <2>2. /\ DOMAIN unmatched' = DOMAIN unmatched \cup {t}
        /\ unmatched'[t].status = "new"
        /\ \A u \in DOMAIN unmatched : unmatched'[u] = unmatched[u]
    BY <1>4, <2>1 DEF Arrives, Put
  <2>3. RowClaims' = RowClaims \cup {<<TxidOf[t], s>>} BY <2>2 DEF RowClaims
  <2>4. RowsClosed' = RowsClosed BY <2>2 DEF RowsClosed
  <2>5. \A c \in Claims : c[1] # TxidOf[t] /\ c[2] # s
    BY <1>4, <2>1 DEF Arrives, KnownTxid, Claims
  <2>6. s \notin Closed BY <2>1 DEF Closed
  <2> HIDE DEF s
  <2>7. Claims' = Claims \cup {<<TxidOf[t], s>>} /\ Closed' = Closed
    BY <1>2, <2>3, <2>4, ClaimsSplit
  <2>8. Promise!Claim(TxidOf[t], s) BY <1>4, <2>5, <2>6, <2>7 DEF Promise!Claim, Arrives
  <2>9. QED BY <1>1, <2>8 DEF Promise!Next
<1>5. CASE Redeems(t) \/ Shelves(t)
  <2>1. /\ DOMAIN unmatched' = DOMAIN unmatched /\ t \in DOMAIN unmatched
        /\ unmatched[t].status = "new" /\ unmatched'[t].status # "new"
        /\ \A u \in DOMAIN unmatched : u # t => unmatched'[u] = unmatched[u]
    <3>1. CASE Redeems(t) BY <1>3, <3>1 DEF Redeems
    <3>2. CASE Shelves(t) BY <1>3, <3>2 DEF Shelves, UnmatchedRow
    <3>3. QED BY <1>5, <3>1, <3>2
  <2>2. RowClaims' = RowClaims BY <2>1 DEF RowClaims
  <2>3. RowsClosed' = RowsClosed \cup {s} BY <2>1 DEF RowsClosed
  <2>4. s \notin Closed BY <2>1 DEF Closed
  <2>5. PICK favour \in BOOLEAN :
          credits' = IF favour THEN [credits EXCEPT ![s] = @ + 1] ELSE credits
    BY <1>5 DEF Redeems, Shelves, Adds
  <2> HIDE DEF s
  <2>6. Claims' = Claims /\ Closed' = Closed \cup {s} \cup {}
    BY <1>2, <2>2, <2>3, ClaimsSplit
  <2>7. Promise!Decide(s, favour, {})
    BY <2>4, <2>5, <2>6 DEF Promise!Decide, Promise!MayLapse
  <2>8. {} \in SUBSET Source OBVIOUS
  <2>9. QED BY <1>1, <2>7, <2>8 DEF Promise!Next
<1>6. QED BY <1>4, <1>5

LEMMA PromiseStep ==
  ASSUME TypeOK, FieldsAgree, Shape
  PROVE  Promise!Next \/ UNCHANGED <<Claims, Closed, credits>>
<1>1. CASE UNCHANGED <<items, unmatched, credits>>
  BY <1>1 DEF Claims, Closed, isOpen
<1>2. CASE Sweeps /\ UNCHANGED <<unmatched, credits>>
  <2>1. \A q \in DOMAIN items : isOpen(items'[q]) <=> isOpen(items[q]) /\ ~Lapsed(items'[q], items[q])
    BY <1>2 DEF Sweeps, AtMostLapsed, Lapsed, isOpen
  <2>2. QED BY <1>2, <2>1, LapseStep DEF Sweeps, AtMostLapsed
<1>3. ASSUME NEW r \in DOMAIN items, Flags(r), UNCHANGED <<unmatched, credits>>
      PROVE  Promise!Next
  <2>1. \A q \in DOMAIN items :
          /\ SamePayment(items'[q], items[q])
          /\ isOpen(items'[q]) <=> isOpen(items[q]) /\ ~Lapsed(items'[q], items[q])
    BY <1>3 DEF Flags, Touches, AtMostLapsed, Lapsed, isOpen
  <2>2. QED BY <1>3, <2>1, LapseStep DEF Flags, Touches
<1>4. ASSUME NEW r \in Requests, NEW p \in Players, Opens(r, p), UNCHANGED <<unmatched, credits>>
      PROVE  Promise!Next
  <2>1. \A q \in DOMAIN items :
          /\ SamePayment(items'[q], items[q])
          /\ isOpen(items'[q]) <=> isOpen(items[q]) /\ ~Lapsed(items'[q], items[q])
    BY <1>4 DEF Opens, AtMostLapsed, Lapsed, isOpen
  <2>2. \A q \in DOMAIN items' \ DOMAIN items : isOpen(items'[q]) /\ items'[q].txid = NoTx
    BY <1>4 DEF Opens, isOpen
  <2>3. QED BY <1>4, <2>1, <2>2, LapseStep DEF Opens
<1>5. QED
  BY <1>1, <1>2, <1>3, <1>4, BookStep, DecideStep, RowStep DEF Shape, RequestChange

(* The service implements DepositPromise: what it does with its requests,  *)
(* addresses, settings and players is, seen from the money, nothing but    *)
(* claims, lapses and decisions.                                           *)
THEOREM ServiceKeepsPromise == Spec => KeepsPromise
<1>1. Init => Promise!Init
  BY DEF Init, Promise!Init, Claims, Closed
<1>2. TypeOK /\ FieldsAgree /\ [Next]_vars => [Promise!Next]_(Promise!promiseVars)
  BY StepShape, PromiseStep DEF Promise!promiseVars
<1>3. QED BY <1>1, <1>2, FieldsAlwaysAgree, PTL DEF Spec, KeepsPromise, Promise!Spec

-----------------------------------------------------------------------------
(***************************************************************************)
(* Two live requests on one address record never ask for the same amount.  *)
(* It is a pigeonhole argument: a player has at most one live request      *)
(* (OneOpen), so the requests that hold a tail when a player without one   *)
(* asks for another are fewer than the tails.                              *)
(***************************************************************************)

(* The search of freeMemoUnit() finds a tail nobody carries as long as     *)
(* there are tails for all players.                                        *)
LEMMA FreeTail ==
  ASSUME IsFiniteSet(Players), Cardinality(Players) <= MemoSteps,
         NEW its, NEW id, NEW p \in Players, NEW unit \in FreeMemoUnit(id, its),
         \A r \in OpenAt(its, id) : its[r].player \in Players \ {p},
         \A r, s \in OpenAt(its, id) : its[r].player = its[s].player => r = s
  PROVE  \A r \in OpenAt(its, id) : its[r].usdt % Cent # unit
<1> DEFINE used == {its[r].usdt % Cent : r \in OpenAt(its, id)}
<1>1. MemoSteps \in Nat BY MoneyAssumption DEF Cent
<1>2. (1..MemoSteps) \ used # {}
  <2>1. SUFFICES ASSUME (1..MemoSteps) \subseteq used PROVE FALSE OBVIOUS
  <2> DEFINE holder == [u \in 1..MemoSteps |->
                          CHOOSE r \in OpenAt(its, id) : its[r].usdt % Cent = u]
             who == [u \in 1..MemoSteps |-> its[holder[u]].player]
  <2>2. ASSUME NEW u \in 1..MemoSteps
        PROVE  holder[u] \in OpenAt(its, id) /\ its[holder[u]].usdt % Cent = u
    BY <2>1
  <2>3. who \in [1..MemoSteps -> Players \ {p}] BY <2>2
  <2>4. ASSUME NEW u \in 1..MemoSteps, NEW v \in 1..MemoSteps, who[u] = who[v]
        PROVE  u = v
    <3>1. its[holder[u]].player = its[holder[v]].player BY <2>4
    <3>2. holder[u] = holder[v] BY <2>2, <3>1
    <3>3. QED BY <2>2, <3>2
  <2>5. IsFiniteSet(1..MemoSteps) /\ Cardinality(1..MemoSteps) = MemoSteps
    BY <1>1, MoneyAssumption, FS_Interval
  <2>6. /\ IsFiniteSet(Players \ {p}) /\ Cardinality(Players) \in Nat
        /\ Cardinality(Players \ {p}) = Cardinality(Players) - 1
    BY FS_RemoveElement, FS_CardinalityType
  <2>7. Cardinality(Players \ {p}) < Cardinality(1..MemoSteps)
    BY <1>1, <2>5, <2>6
  <2> DEFINE tails == 1..MemoSteps
             others == Players \ {p}
  <2>8. \E u, v \in tails : u # v /\ who[u] = who[v]
    <3>1. /\ IsFiniteSet(tails) /\ IsFiniteSet(others)
          /\ Cardinality(others) < Cardinality(tails) /\ who \in [tails -> others]
      BY <2>3, <2>5, <2>6, <2>7
    <3> HIDE DEF tails, others, who
    <3>2. QED BY <3>1, FS_PigeonHole
  <2>9. QED BY <2>4, <2>8
<1>3. unit \in (1..MemoSteps) \ used BY <1>2 DEF FreeMemoUnit
<1>4. QED BY <1>3

Alike(p, q) ==
  /\ isOpen(p) /\ isOpen(q) /\ p.addressId = q.addressId
  /\ ~Memo(p.network) /\ ~Memo(q.network) /\ p.usdt = q.usdt

LEMMA DistinctTailsStep ==
  ASSUME TypeOK, OneOpenPerPlayer, DistinctTails, Shape, IsFiniteSet(Players)
  PROVE  DistinctTails'
<1>1. SUFFICES ASSUME Cardinality(Players) <= MemoSteps
               PROVE  \A r, s \in DOMAIN items' : Alike(items'[r], items'[s]) => r = s
  BY DEF DistinctTails, Alike, isOpen, Memo
<1>2. \A r, s \in DOMAIN items : Alike(items[r], items[s]) => r = s
  BY <1>1 DEF DistinctTails, Alike
<1>3. CASE ~ \E r \in Requests, p \in Players : Opens(r, p)
  BY <1>2, <1>3, StillOpen DEF Alike, SameTerms
<1>4. ASSUME NEW r \in Requests, NEW p \in Players, Opens(r, p)
      PROVE  \A q, s \in DOMAIN items' : Alike(items'[q], items'[s]) => q = s
  <2>1. ASSUME NEW q \in DOMAIN items
        PROVE  /\ items'[q] = Swept[q] /\ SameTerms(Swept[q], items[q])
               /\ isOpen(Swept[q]) => isOpen(items[q]) /\ Swept[q].player # p
               /\ Swept[q].player \in Players
    BY <1>4, SweptFacts DEF Opens, AtMostLapsed, SameTerms, Lapsed, isOpen, Request
  <2>2. DOMAIN items' = DOMAIN items \cup {r} /\ DOMAIN Swept = DOMAIN items
    BY <1>4, SweptFacts DEF Opens
  <2>3. ASSUME NEW q \in DOMAIN items, NEW s \in DOMAIN items,
               Alike(items'[q], items'[s])
        PROVE  q = s
    BY <1>2, <2>1, <2>3 DEF Alike, SameTerms
  <2>4. ASSUME NEW q \in DOMAIN items, Alike(items'[q], items'[r]) \/ Alike(items'[r], items'[q])
        PROVE  FALSE
    <3> DEFINE id == items'[r].addressId
               unit == items'[r].usdt % Cent
    <3>1. unit \in FreeMemoUnit(id, Swept) BY <1>4, <2>4 DEF Opens, Alike
    <3>2. \A s \in OpenAt(Swept, id) : Swept[s].player \in Players \ {p}
      BY <2>1, <2>2 DEF OpenAt
    <3>3. \A s, u \in OpenAt(Swept, id) : Swept[s].player = Swept[u].player => s = u
      BY <2>1, <2>2 DEF OpenAt, OneOpenPerPlayer, SameTerms
    <3>4. q \in OpenAt(Swept, id) /\ Swept[q].usdt = items'[r].usdt
      BY <2>1, <2>2, <2>4 DEF OpenAt, Alike
    <3> HIDE DEF id
    <3>5. \A s \in OpenAt(Swept, id) : Swept[s].usdt % Cent # unit
      BY <1>1, <3>1, <3>2, <3>3, FreeTail
    <3>6. QED BY <3>4, <3>5
  <2>5. QED BY <2>2, <2>3, <2>4
<1>5. QED BY <1>3, <1>4

(* freeMemoUnit() does what the tail is for: as long as there are tails    *)
(* for all players, an address record and an amount name one live request. *)
THEOREM TailsAreDistinct ==
  ASSUME IsFiniteSet(Players)
  PROVE  Spec => []DistinctTails
<1>1. Init => DistinctTails BY DEF Init, DistinctTails
<1>2. TypeOK /\ OneOpenPerPlayer /\ DistinctTails /\ [Next]_vars => DistinctTails'
  BY StepShape, DistinctTailsStep
<1>3. QED BY <1>1, <1>2, TypeCorrect, OneOpen, PTL DEF Spec

-----------------------------------------------------------------------------
(* The watcher.  What has to be shown is that a request on the list        *)
(* settleAll() took is still one that settle() may be called for when its  *)
(* turn comes, and that the transfers of an answer are still on the chain  *)
(* when they are ingested.                                                 *)

(* The cycle as one state: only one caller is in it, only there are lists  *)
(* and answers, and both are still good.                                   *)
OneCycle ==
  /\ DOMAIN phase = Callers /\ DOMAIN toSettle = Callers
  /\ \A c \in Callers : phase[c] # "idle" => running
  /\ \A c, d \in Callers : phase[c] # "idle" /\ phase[d] # "idle" => c = d

ListIsGood ==
  \A c \in Callers : /\ toSettle[c] \subseteq OnSettleList
                     /\ toSettle[c] # {} => phase[c] = "settling"

(* An answer about transfers that are all in ts.                           *)
IsAnswer(answer, ts) ==
  \E i, upto, batch : /\ batch \subseteq ts
                      /\ answer = [of |-> i, batch |-> batch, upto |-> upto]

AnswersAreGood ==
  /\ DOMAIN scan = Callers
  /\ \A c \in Callers : DOMAIN scan[c] = Families
  /\ \A c \in Callers, f \in Families :
       scan[c][f] # NoScan => IsAnswer(scan[c][f], DOMAIN chain)

WInv == OneCycle /\ ListIsGood /\ AnswersAreGood

-----------------------------------------------------------------------------
(* A request stays on the list until it is settled.                        *)

Waits(p) ==
  /\ isOpen(p) => p.status = "processing" /\ p.txid # NoTx
  /\ p.ripe /\ ~p.confirmed

LEMMA Listed ==
  ASSUME NEW r
  PROVE  r \in OnSettleList <=> r \in DOMAIN items /\ Waits(items[r])
  BY DEF OnSettleList, SettleReady, Waits, isOpen

LEMMA WaitsSwept ==
  ASSUME NEW r \in DOMAIN items, Waits(items[r])
  PROVE  Swept[r] = items[r] /\ items[r].status # "pending"
  BY DEF Waits, isOpen, Swept

(* What the calls of the others do to it: nothing, or they decide it.      *)
LEMMA OthersKeepWaits ==
  ASSUME TypeOK, NEW r \in DOMAIN items, Waits(items[r]),
         \/ UNCHANGED items
         \/ items' = Swept
         \/ \E p \in Players, network \in Networks, token \in Tokens, cents \in Quotes :
              Create(p, network, token, cents)
         \/ \E q \in DOMAIN items :
              \/ CancelByPlayer(q) \/ Approve(q) \/ Reject(q)
              \/ DeadlinePasses(q) \/ FinalityPasses(q)
         \/ \E t : IngestMatched(t)
  PROVE  r \in DOMAIN items' /\ Waits(items'[r])
<1>1. Swept[r] = items[r] /\ items[r].status # "pending" BY WaitsSwept
<1>2. items[r] \in Request /\ DOMAIN Swept = DOMAIN items BY DEF TypeOK, Swept
<1>3. CASE UNCHANGED items \/ items' = Swept
  BY <1>1, <1>2, <1>3
<1>4. CASE \E p \in Players, network \in Networks, token \in Tokens, cents \in Quotes :
             Create(p, network, token, cents)
  <2>1. \E p \in Players, q \in Requests : Opens(q, p) BY <1>4, CreateShape
  <2>2. QED BY <1>1, <2>1 DEF Opens
<1>5. ASSUME NEW q \in DOMAIN items,
             \/ CancelByPlayer(q) \/ Approve(q) \/ Reject(q)
             \/ DeadlinePasses(q) \/ FinalityPasses(q)
      PROVE  r \in DOMAIN items' /\ Waits(items'[r])
  <2>1. CASE q # r
    BY <1>1, <1>2, <1>5, <2>1
    DEF CancelByPlayer, Approve, Reject, DeadlinePasses, FinalityPasses
  <2>2. CASE q = r
    <3>1. CASE CancelByPlayer(r) \/ DeadlinePasses(r)
      BY <1>1, <3>1 DEF CancelByPlayer, DeadlinePasses
    <3>2. CASE FinalityPasses(r) BY <3>2 DEF FinalityPasses, Waits
    <3>3. CASE Approve(r)
      <4>1. items' = [Swept EXCEPT ![r] =
                        [items[r] EXCEPT !.status = "approved", !.resolvedBy = "admin"]]
        BY <1>1, <3>3 DEF Approve
      <4>2. QED BY <1>2, <4>1 DEF Waits, isOpen, Request
    <3>4. CASE Reject(r)
      <4>1. items' = [Swept EXCEPT ![r] =
                        [items[r] EXCEPT !.status = "rejected", !.resolvedBy = "admin"]]
        BY <1>1, <3>4 DEF Reject
      <4>2. QED BY <1>2, <4>1 DEF Waits, isOpen, Request
    <3>5. QED BY <1>5, <2>2, <3>1, <3>2, <3>3, <3>4
  <2>3. QED BY <2>1, <2>2
<1>6. ASSUME NEW t, IngestMatched(t)
      PROVE  r \in DOMAIN items' /\ Waits(items'[r])
  <2>1. PICK q \in FindCandidate(chain[t]) :
          items' = [items EXCEPT ![q].status = "processing", ![q].txid = TxidOf[t],
                                 ![q].paid = chain[t].amount, ![q].ripe = FALSE]
    BY <1>6 DEF IngestMatched
  <2>2. q # r BY <1>1, CandidateFacts
  <2>3. QED BY <2>1, <2>2
<1>7. QED BY <1>3, <1>4, <1>5, <1>6

(* Settling another request leaves it alone.                               *)
LEMMA SettleKeepsWaits ==
  ASSUME NEW r \in DOMAIN items, Waits(items[r]),
         NEW q, NEW verdict, Settle(q, verdict), q # r
  PROVE  r \in DOMAIN items' /\ Waits(items'[r])
<1>1. Swept[r] = items[r] BY WaitsSwept
<1>2. DOMAIN Swept = DOMAIN items BY DEF Swept
<1>3. CASE UNCHANGED items BY <1>3
<1>4. CASE SettleGone(q, verdict) \/ SettleByBot(q, verdict) \/ SettleNoPlayer(q, verdict)
  BY <1>1, <1>2, <1>4 DEF SettleGone, SettleByBot, SettleNoPlayer
<1>5. CASE SettleForAdmin(q, verdict)
  BY <1>5 DEF SettleForAdmin
<1>6. QED BY <1>3, <1>4, <1>5 DEF Settle, SettleStale

-----------------------------------------------------------------------------
(* Every step is one of Deposits.                                          *)

LEMMA AnswerFacts ==
  ASSUME NEW answer, NEW ts, IsAnswer(answer, ts)
  PROVE  /\ answer.batch \subseteq ts
         /\ \A t : IsAnswer([answer EXCEPT !.batch = @ \ {t}], ts)
         /\ \A us : ts \subseteq us => IsAnswer(answer, us)
<1>1. PICK i, upto, batch : /\ batch \subseteq ts
                            /\ answer = [of |-> i, batch |-> batch, upto |-> upto]
  BY DEF IsAnswer
<1>2. ASSUME NEW t PROVE IsAnswer([answer EXCEPT !.batch = @ \ {t}], ts)
  <2>1. /\ [answer EXCEPT !.batch = @ \ {t}] = [of |-> i, batch |-> batch \ {t}, upto |-> upto]
        /\ batch \ {t} \subseteq ts
    BY <1>1
  <2>2. QED BY <2>1 DEF IsAnswer
<1>3. ASSUME NEW us, ts \subseteq us PROVE IsAnswer(answer, us)
  <2>1. batch \subseteq us BY <1>1, <1>3
  <2>2. QED BY <1>1, <2>1 DEF IsAnswer
<1>4. QED BY <1>1, <1>2, <1>3

LEMMA WatcherStepIsDepositStep ==
  ASSUME WInv, [WNext]_allVars
  PROVE  [Next]_vars
<1>1. CASE UNCHANGED vars BY <1>1
<1>2. CASE UNCHANGED allVars BY <1>2 DEF allVars
<1>3. CASE OthersStep
  <2>1. CASE PlayerStep \/ OtherAdminStep \/ Sweep
    BY <2>1 DEF Next, OtherAdminStep, AdminStep, EnvironmentStep
  <2>2. CASE \E r \in DOMAIN items : DeadlinePasses(r) \/ FinalityPasses(r)
    BY <2>2 DEF Next, EnvironmentStep
  <2>3. CASE \E a \in Addresses : AddAndWatch(a)
    BY <2>3 DEF AddAndWatch, Next, AdminStep
  <2>4. CASE \E t \in Transfers, r \in DOMAIN items, network \in Networks, slip \in Slips :
               Pay(t, r, network, slip)
    BY <2>4 DEF Pay, Next, EnvironmentStep
  <2>5. CASE \E t \in DOMAIN chain : Reorganise(t)
    BY <2>5 DEF Reorganise
  <2>6. QED BY <1>3, <2>1, <2>2, <2>3, <2>4, <2>5 DEF OthersStep
<1>4. ASSUME NEW c \in Callers, Begin(c) \/ EndScans(c) \/ EndCycle(c)
      PROVE  UNCHANGED vars
  BY <1>4 DEF Begin, EndScans, EndCycle, HasKey
<1>5. ASSUME NEW c \in Callers, NEW f \in Families,
             Scan(c, f) \/ NoteScan(c, f) \/ ScanFails(c, f)
      PROVE  UNCHANGED vars
  BY <1>5 DEF Scan, NoteScan, ScanFails
<1>6. ASSUME NEW c \in Callers, SettleNext(c) PROVE Next
  <2>1. PICK r \in FirstOf(toSettle[c]) : \E verdict \in Verdicts : Settle(r, verdict)
    BY <1>6 DEF SettleNext
  <2>2. r \in OnSettleList BY DEF FirstOf, WInv, ListIsGood
  <2>3. QED BY <2>1, <2>2 DEF Next, WatcherStep
<1>7. ASSUME NEW c \in Callers, NEW f \in Families, IngestNext(c, f) PROVE Next
  <2>1. PICK t \in scan[c][f].batch : Ingest(t) BY <1>7 DEF IngestNext
  <2>2. scan[c][f].batch \subseteq DOMAIN chain
    BY <1>7, AnswerFacts DEF IngestNext, WInv, AnswersAreGood
  <2>3. QED BY <2>1, <2>2 DEF Next, WatcherStep
<1>8. QED BY <1>1, <1>2, <1>3, <1>4, <1>5, <1>6, <1>7 DEF WNext, CycleStep

-----------------------------------------------------------------------------
(* The invariant holds.                                                    *)

LEMMA ChainOnlyGrows ==
  ASSUME [Next]_vars
  PROVE  DOMAIN chain \subseteq DOMAIN chain'
<1>1. CASE UNCHANGED chain BY <1>1
<1>2. ASSUME NEW t \in Transfers, NEW r \in DOMAIN items, NEW network \in Networks,
             NEW slip \in Slips, Send(t, r, network, slip)
      PROVE  DOMAIN chain \subseteq DOMAIN chain'
  BY <1>2 DEF Send, Put
<1>3. CASE PlayerStep
  BY <1>1, <1>3 DEF PlayerStep, FindOrCreate, Create, CancelByPlayer
<1>4. CASE AdminStep
  BY <1>1, <1>4 DEF AdminStep, RemovePlayer, SetDeposits, AddAddress, UpdateAddress,
     RemoveAddress, Approve, Reject, CreditUnmatched, IgnoreUnmatched
<1>5. CASE EnvironmentStep
  BY <1>1, <1>2, <1>5 DEF EnvironmentStep, Sweep, DeadlinePasses, FinalityPasses
<1>6. CASE WatcherStep
  BY <1>1, <1>6 DEF WatcherStep, Ingest, Settle
<1>7. QED BY <1>1, <1>3, <1>4, <1>5, <1>6 DEF Next, vars

LEMMA AnswersStep ==
  ASSUME WInv, [WNext]_allVars
  PROVE  AnswersAreGood'
<1>1. DOMAIN chain \subseteq DOMAIN chain'
  BY WatcherStepIsDepositStep, ChainOnlyGrows
<1>0. /\ DOMAIN scan = Callers
      /\ \A c \in Callers : DOMAIN scan[c] = Families
      /\ \A c \in Callers, f \in Families :
           scan[c][f] # NoScan => IsAnswer(scan[c][f], DOMAIN chain')
  BY <1>1, AnswerFacts DEF WInv, AnswersAreGood
<1>2. CASE UNCHANGED scan
  BY <1>0, <1>2 DEF AnswersAreGood
<1>3. ASSUME NEW c \in Callers, NEW f \in Families, NEW answer,
             scan' = [scan EXCEPT ![c][f] = answer],
             answer # NoScan => IsAnswer(answer, DOMAIN chain)
      PROVE  AnswersAreGood'
  <2>1. DOMAIN scan' = Callers /\ \A d \in Callers : DOMAIN scan'[d] = Families
    BY <1>0, <1>3
  <2>2. ASSUME NEW d \in Callers, NEW g \in Families
        PROVE  scan'[d][g] = IF d = c /\ g = f THEN answer ELSE scan[d][g]
    BY <1>0, <1>3
  <2>3. answer # NoScan => IsAnswer(answer, DOMAIN chain') BY <1>1, <1>3, AnswerFacts
  <2>4. QED BY <1>0, <2>1, <2>2, <2>3 DEF AnswersAreGood
<1>4. ASSUME NEW c \in Callers, NEW f \in Families, Scan(c, f)
      PROVE  AnswersAreGood'
  <2>1. PICK i : scan' = [scan EXCEPT ![c][f] = Answer(c, i)]
    BY <1>4 DEF Scan
  <2>2. Ours(c, i) \subseteq DOMAIN chain
    BY DEF Listing, Ours
  <2>3. IsAnswer(Answer(c, i), DOMAIN chain) BY <2>2 DEF Answer, IsAnswer, Ours
  <2>4. QED BY <1>3, <2>1, <2>3
<1>5. ASSUME NEW c \in Callers, NEW f \in Families, IngestNext(c, f)
      PROVE  AnswersAreGood'
  <2>1. PICK t : scan' = [scan EXCEPT ![c][f].batch = @ \ {t}] /\ scan[c][f] # NoScan
    BY <1>5 DEF IngestNext
  <2> DEFINE left == [scan[c][f] EXCEPT !.batch = @ \ {t}]
  <2>2. IsAnswer(left, DOMAIN chain)
    BY <2>1, AnswerFacts DEF WInv, AnswersAreGood
  <2>3. scan' = [scan EXCEPT ![c][f] = left] BY <2>1
  <2> HIDE DEF left
  <2>4. QED BY <1>3, <2>2, <2>3
<1>6. ASSUME NEW c \in Callers, NEW f \in Families, NoteScan(c, f)
      PROVE  AnswersAreGood'
  BY <1>3, <1>6 DEF NoteScan
<1>7. CASE OthersStep
  BY <1>2, <1>7 DEF OthersStep, watcherVars, AddAndWatch, Pay, Reorganise
<1>8. ASSUME NEW c \in Callers,
             \/ Begin(c) \/ EndScans(c) \/ SettleNext(c) \/ EndCycle(c)
             \/ \E f \in Families : ScanFails(c, f)
      PROVE  AnswersAreGood'
  BY <1>2, <1>8 DEF Begin, EndScans, SettleNext, EndCycle, ScanFails, HasKey
<1>9. CASE UNCHANGED allVars BY <1>2, <1>9 DEF allVars, watcherVars
<1>10. QED BY <1>4, <1>5, <1>6, <1>7, <1>8, <1>9 DEF WNext, CycleStep

LEMMA OneCycleStep ==
  ASSUME WInv, [WNext]_allVars
  PROVE  OneCycle'
<1>1. /\ DOMAIN phase = Callers /\ DOMAIN toSettle = Callers
      /\ \A c \in Callers : phase[c] # "idle" => running
      /\ \A c, d \in Callers : phase[c] # "idle" /\ phase[d] # "idle" => c = d
  BY DEF WInv, OneCycle
<1>2. CASE UNCHANGED <<phase, running>> /\ DOMAIN toSettle' = DOMAIN toSettle
  BY <1>1, <1>2 DEF OneCycle
<1>3. ASSUME NEW c \in Callers, Begin(c) PROVE OneCycle'
  BY <1>1, <1>3 DEF Begin, OneCycle, HasKey
<1>4. ASSUME NEW c \in Callers, EndScans(c) PROVE OneCycle'
  BY <1>1, <1>4 DEF EndScans, OneCycle
<1>5. ASSUME NEW c \in Callers, EndCycle(c) PROVE OneCycle'
  BY <1>1, <1>5 DEF EndCycle, OneCycle
<1>6. CASE OthersStep
  BY <1>2, <1>6 DEF OthersStep, watcherVars, AddAndWatch, Pay, Reorganise
<1>7. ASSUME NEW c \in Callers, SettleNext(c) PROVE OneCycle'
  BY <1>2, <1>7 DEF SettleNext
<1>8. ASSUME NEW c \in Callers, NEW f \in Families,
             Scan(c, f) \/ IngestNext(c, f) \/ NoteScan(c, f) \/ ScanFails(c, f)
      PROVE  OneCycle'
  BY <1>2, <1>8 DEF Scan, IngestNext, NoteScan, ScanFails
<1>9. CASE UNCHANGED allVars BY <1>2, <1>9 DEF allVars, watcherVars
<1>10. QED
  BY <1>3, <1>4, <1>5, <1>6, <1>7, <1>8, <1>9 DEF WNext, CycleStep

(* What the others do to the requests.                                     *)
LEMMA OthersItems ==
  ASSUME OthersStep
  PROVE  \/ UNCHANGED items
         \/ items' = Swept
         \/ \E p \in Players, network \in Networks, token \in Tokens, cents \in Quotes :
              Create(p, network, token, cents)
         \/ \E q \in DOMAIN items :
              \/ CancelByPlayer(q) \/ Approve(q) \/ Reject(q)
              \/ DeadlinePasses(q) \/ FinalityPasses(q)
<1>1. CASE PlayerStep BY <1>1 DEF PlayerStep, FindOrCreate
<1>2. CASE OtherAdminStep
  BY <1>2 DEF OtherAdminStep, RemovePlayer, SetDeposits, UpdateAddress, RemoveAddress,
         CreditUnmatched, IgnoreUnmatched
<1>3. CASE Sweep BY <1>3 DEF Sweep
<1>4. CASE \E a \in Addresses : AddAndWatch(a) BY <1>4 DEF AddAndWatch, AddAddress
<1>5. CASE \E t \in Transfers, r \in DOMAIN items, network \in Networks, slip \in Slips :
                 Pay(t, r, network, slip)
  BY <1>5 DEF Pay, Send
<1>6. CASE \E t \in DOMAIN chain : Reorganise(t) BY <1>6 DEF Reorganise, vars
<1>7. QED BY <1>1, <1>2, <1>3, <1>4, <1>5, <1>6 DEF OthersStep

LEMMA ListStep ==
  ASSUME TypeOK, WInv, [WNext]_allVars
  PROVE  ListIsGood'
<1>1. /\ DOMAIN toSettle = Callers /\ DOMAIN phase = Callers
      /\ \A c \in Callers : /\ toSettle[c] \subseteq OnSettleList
                            /\ toSettle[c] # {} => phase[c] = "settling"
      /\ \A c, d \in Callers : phase[c] # "idle" /\ phase[d] # "idle" => c = d
  BY DEF WInv, OneCycle, ListIsGood
<1>2. CASE /\ UNCHANGED toSettle
           /\ OnSettleList \subseteq OnSettleList'
           /\ \A c \in Callers : phase[c] = "settling" /\ toSettle[c] # {} => phase'[c] = phase[c]
  BY <1>1, <1>2 DEF ListIsGood
<1>3. ASSUME \A r \in DOMAIN items :
               Waits(items[r]) => r \in DOMAIN items' /\ Waits(items'[r])
      PROVE  OnSettleList \subseteq OnSettleList'
  <2>1. \A r : r \in OnSettleList' <=> r \in DOMAIN items' /\ Waits(items'[r])
    BY DEF OnSettleList, SettleReady, Waits, isOpen
  <2>2. QED BY <1>3, <2>1, Listed
<1>4. CASE OthersStep
  <2>1. \/ UNCHANGED items
        \/ items' = Swept
        \/ \E p \in Players, network \in Networks, token \in Tokens, cents \in Quotes :
             Create(p, network, token, cents)
        \/ \E q \in DOMAIN items :
             \/ CancelByPlayer(q) \/ Approve(q) \/ Reject(q)
             \/ DeadlinePasses(q) \/ FinalityPasses(q)
    BY <1>4, OthersItems
  <2>2. OnSettleList \subseteq OnSettleList' BY <1>3, <2>1, OthersKeepWaits
  <2>3. UNCHANGED <<toSettle, phase>>
    BY <1>4 DEF OthersStep, watcherVars, AddAndWatch, Pay, Reorganise
  <2>4. QED BY <1>2, <2>2, <2>3
<1>5. ASSUME NEW c \in Callers, NEW f \in Families, IngestNext(c, f) PROVE ListIsGood'
  <2>1. PICK t : Ingest(t) BY <1>5 DEF IngestNext
  <2>2. UNCHANGED items \/ IngestMatched(t)
    BY <2>1 DEF Ingest, IngestDuplicate, IngestUnmatched, IngestWatched
  <2>3. OnSettleList \subseteq OnSettleList' BY <1>3, <2>2, OthersKeepWaits
  <2>4. QED BY <1>2, <1>5, <2>3 DEF IngestNext
<1>6. ASSUME UNCHANGED items PROVE OnSettleList' = OnSettleList
  BY <1>6 DEF OnSettleList, SettleReady, isOpen
<1>7. ASSUME NEW c \in Callers, Begin(c) PROVE ListIsGood'
  BY <1>1, <1>2, <1>6, <1>7 DEF Begin, vars, HasKey
<1>8. ASSUME NEW c \in Callers, NEW f \in Families,
             Scan(c, f) \/ NoteScan(c, f) \/ ScanFails(c, f)
      PROVE  ListIsGood'
  BY <1>2, <1>6, <1>8 DEF Scan, NoteScan, ScanFails, vars
<1>9. ASSUME NEW c \in Callers, EndScans(c) PROVE ListIsGood'
  <2>1. SettleReady \subseteq OnSettleList BY DEF OnSettleList
  <2>2. OnSettleList' = OnSettleList BY <1>6, <1>9 DEF EndScans, vars
  <2>3. \A d \in Callers :
          /\ toSettle'[d] = IF d = c THEN SettleReady ELSE toSettle[d]
          /\ phase'[d] = IF d = c THEN "settling" ELSE phase[d]
    BY <1>1, <1>9 DEF EndScans
  <2>4. QED BY <1>1, <2>1, <2>2, <2>3 DEF ListIsGood
<1>10. ASSUME NEW c \in Callers, EndCycle(c) PROVE ListIsGood'
  <2>1. OnSettleList' = OnSettleList BY <1>6, <1>10 DEF EndCycle, vars
  <2>2. toSettle[c] = {} /\ UNCHANGED toSettle BY <1>10 DEF EndCycle
  <2>3. \A d \in Callers : d # c => phase'[d] = phase[d] BY <1>1, <1>10 DEF EndCycle
  <2>4. QED BY <1>2, <2>1, <2>2, <2>3
<1>11. ASSUME NEW c \in Callers, SettleNext(c) PROVE ListIsGood'
  <2>1. PICK r \in FirstOf(toSettle[c]) :
          /\ \E verdict \in Verdicts : Settle(r, verdict)
          /\ toSettle' = [toSettle EXCEPT ![c] = @ \ {r}]
    BY <1>11 DEF SettleNext
  <2>2. ASSUME NEW q \in OnSettleList, q # r PROVE q \in OnSettleList'
    <3>1. q \in DOMAIN items /\ Waits(items[q]) BY Listed
    <3>2. q \in DOMAIN items' /\ Waits(items'[q])
      BY <2>1, <2>2, <3>1, SettleKeepsWaits
    <3>3. QED BY <3>2 DEF OnSettleList, SettleReady, Waits, isOpen
  <2>3. \A d \in Callers : toSettle'[d] = IF d = c THEN toSettle[c] \ {r} ELSE toSettle[d]
    BY <1>1, <2>1
  <2>4. phase[c] = "settling" /\ UNCHANGED phase BY <1>11 DEF SettleNext
  <2>5. \A d \in Callers : d # c => toSettle[d] = {} BY <1>1, <2>4
  <2>6. QED BY <1>1, <2>2, <2>3, <2>4, <2>5 DEF ListIsGood
<1>12. CASE UNCHANGED allVars
  BY <1>2, <1>6, <1>12 DEF allVars, vars, watcherVars
<1>13. QED
  BY <1>4, <1>5, <1>7, <1>8, <1>9, <1>10, <1>11, <1>12 DEF WNext, CycleStep

LEMMA WInvInit == ASSUME WInit PROVE TypeOK /\ WInv
<1>1. TypeOK BY TypeInit DEF WInit
<1>2. OneCycle /\ ListIsGood BY DEF WInit, OneCycle, ListIsGood
<1>3. AnswersAreGood BY DEF WInit, AnswersAreGood
<1>4. QED BY <1>1, <1>2, <1>3 DEF WInv

LEMMA WInvStep ==
  ASSUME TypeOK, WInv, [WNext]_allVars
  PROVE  TypeOK' /\ WInv'
  BY WatcherStepIsDepositStep, TypeStep, OneCycleStep, ListStep, AnswersStep DEF WInv

(* Whatever interleaves with a cycle, the watcher does to the books only   *)
(* what Deposits allows: it ingests transfers that are on the chain and    *)
(* settles requests whose finality delay was over when it made its list.   *)
THEOREM WatcherImplementsDeposits == WSpec => ImplementsDeposits
<1>1. WInit => Init /\ TypeOK /\ WInv BY WInvInit DEF WInit
<1>2. TypeOK /\ WInv /\ [WNext]_allVars => TypeOK' /\ WInv' BY WInvStep
<1>3. WInv /\ [WNext]_allVars => [Next]_vars BY WatcherStepIsDepositStep
<1>4. QED BY <1>1, <1>2, <1>3, PTL DEF WSpec, ImplementsDeposits, Spec

(* So the service with its watcher keeps the promise to its players.       *)
THEOREM WatcherKeepsPromise == WSpec => KeepsPromise
  BY WatcherImplementsDeposits, ServiceKeepsPromise DEF ImplementsDeposits

-----------------------------------------------------------------------------
(* The bot and what it rejects.                                            *)

BotRejected(p) == p.status = "rejected" /\ p.resolvedBy = "bot"

(* Nobody but settle() rejects as the bot.                                 *)
LEMMA OthersDoNotReject ==
  ASSUME TypeOK, NEW r \in DOMAIN items', BotRejected(items'[r]),
         \/ UNCHANGED items
         \/ items' = Swept
         \/ \E p \in Players, network \in Networks, token \in Tokens, cents \in Quotes :
              Create(p, network, token, cents)
         \/ \E q \in DOMAIN items :
              \/ CancelByPlayer(q) \/ Approve(q) \/ Reject(q)
              \/ DeadlinePasses(q) \/ FinalityPasses(q)
         \/ \E t \in DOMAIN chain : IngestMatched(t)
  PROVE  r \in DOMAIN items /\ items'[r] = items[r]
<1>1. \A a, b : AtMostLapsed(a, b) /\ BotRejected(a) => a = b
  BY DEF AtMostLapsed, Lapsed, BotRejected
<1>2. CASE UNCHANGED items BY <1>2
<1>3. CASE items' = Swept BY <1>1, <1>3, SweepShape DEF Sweeps
<1>4. CASE \E p \in Players, network \in Networks, token \in Tokens, cents \in Quotes :
             Create(p, network, token, cents)
  <2>1. PICK q \in Requests, p \in Players : Opens(q, p) BY <1>4, CreateShape
  <2>2. r # q BY <2>1 DEF Opens, BotRejected
  <2>3. QED BY <1>1, <2>1, <2>2 DEF Opens
<1>5. ASSUME NEW q \in DOMAIN items, Touches(q), ~BotRejected(items'[q])
      PROVE  r \in DOMAIN items /\ items'[r] = items[r]
  BY <1>1, <1>5 DEF Touches
<1>6. ASSUME NEW q \in DOMAIN items, CancelByPlayer(q) \/ Approve(q)
      PROVE  r \in DOMAIN items /\ items'[r] = items[r]
  BY <1>5, <1>6, CancelShape, ApproveShape DEF Decides, BotRejected
<1>7. ASSUME NEW q \in DOMAIN items, Reject(q)
      PROVE  r \in DOMAIN items /\ items'[r] = items[r]
  <2>1. Swept[q] \in Request /\ DOMAIN Swept = DOMAIN items
    BY <1>7, SweptOpen DEF Reject, Swept
  <2>2. items'[q] = [Swept[q] EXCEPT !.status = "rejected", !.resolvedBy = "admin"]
    BY <1>7, <2>1 DEF Reject
  <2>3. items'[q].resolvedBy = "admin" BY <2>1, <2>2 DEF Request
  <2>4. QED BY <1>5, <1>7, <2>3, RejectShape DEF Decides, BotRejected
<1>8. ASSUME NEW q \in DOMAIN items, DeadlinePasses(q) \/ FinalityPasses(q)
      PROVE  r \in DOMAIN items /\ items'[r] = items[r]
  BY <1>5, <1>8, ClockShape DEF Flags, BotRejected, isOpen
<1>9. ASSUME NEW t \in DOMAIN chain, IngestMatched(t)
      PROVE  r \in DOMAIN items /\ items'[r] = items[r]
  BY <1>5, <1>9, MatchShape DEF Books, BotRejected
<1>10. QED BY <1>2, <1>3, <1>4, <1>6, <1>7, <1>8, <1>9

(* settle() rejects what the network denies and nothing else.              *)
LEMMA SettleRejects ==
  ASSUME TypeOK, NEW q \in DOMAIN items, NEW verdict \in Verdicts, Settle(q, verdict),
         NEW r \in DOMAIN items', BotRejected(items'[r])
  PROVE  /\ r \in DOMAIN items /\ SameTerms(items'[r], items[r])
         /\ items'[r].txid = items[r].txid
         /\ \/ items'[r] = items[r]
            \/ r = q /\ verdict = "gone" /\ items[r].status = "processing"
<1>1. \A a, b : AtMostLapsed(a, b) /\ BotRejected(a) => a = b
  BY DEF AtMostLapsed, Lapsed, BotRejected
<1>2. CASE UNCHANGED items BY <1>2 DEF SameTerms
<1>3. CASE SettleGone(q, verdict)
  <2>1. Decides(q, "rejected") BY <1>3, SettleGoneShape
  <2>2. QED BY <1>1, <1>3, <2>1 DEF SameTerms, AtMostLapsed, Decides, Touches, SamePayment, SettleGone
<1>4. CASE SettleByBot(q, verdict)
  <2>1. Decides(q, "approved") BY <1>4, SettleByBotShape
  <2>2. QED BY <1>1, <2>1 DEF SameTerms, AtMostLapsed, Decides, Touches, BotRejected
<1>5. CASE SettleForAdmin(q, verdict) \/ SettleNoPlayer(q, verdict)
  <2>1. Flags(q) BY <1>5, SettleConfirmShape
  <2>2. QED BY <1>1, <2>1 DEF SameTerms, AtMostLapsed, Flags, Touches, BotRejected, isOpen
<1>6. QED BY <1>2, <1>3, <1>4, <1>5 DEF Settle, SettleStale

LEMMA GoneStays == ASSUME [WNext]_allVars PROVE gone \subseteq gone'
<1>1. CASE UNCHANGED gone BY <1>1
<1>2. CASE OthersStep
  BY <1>1, <1>2 DEF OthersStep, watcherVars, AddAndWatch, Pay, Reorganise
<1>3. ASSUME NEW c \in Callers, Begin(c) \/ EndScans(c) \/ SettleNext(c) \/ EndCycle(c)
      PROVE  UNCHANGED gone
  BY <1>3 DEF Begin, EndScans, SettleNext, EndCycle, HasKey
<1>4. ASSUME NEW c \in Callers, NEW f \in Families,
             Scan(c, f) \/ IngestNext(c, f) \/ NoteScan(c, f) \/ ScanFails(c, f)
      PROVE  UNCHANGED gone
  BY <1>4 DEF Scan, IngestNext, NoteScan, ScanFails
<1>5. QED BY <1>1, <1>2, <1>3, <1>4 DEF WNext, CycleStep, allVars, watcherVars

(* What the bot finds no transfer of: one with its txid was taken back, or *)
(* made in another network than the player chose.                          *)
Missed(transfers, back, p) ==
  \E t \in DOMAIN transfers :
    /\ TxidOf[t] = p.txid
    /\ (t \in back \/ transfers[t].network # p.network)

LEMMA MissedStays ==
  ASSUME TypeOK, WInv, [WNext]_allVars, NEW p, Missed(chain, gone, p)
  PROVE  Missed(chain', gone', p)
<1>1. gone \subseteq gone' BY GoneStays
<1>2. Shape BY WatcherStepIsDepositStep, StepShape
<1>3. ChainGrows BY <1>2 DEF Shape, ChainGrows
<1>4. QED BY <1>1, <1>3 DEF Missed, ChainGrows

LEMMA BotRejectsStep ==
  ASSUME TypeOK, WInv, BotWorkIsCovered, BotRejectsOnlyWhatItMisses, [WNext]_allVars
  PROVE  BotRejectsOnlyWhatItMisses'
<1>1. \A p : Missed(chain, gone, p) => Missed(chain', gone', p) BY MissedStays
<1>2. \A r \in DOMAIN items : BotRejected(items[r]) => Missed(chain, gone, items[r])
  BY DEF BotRejectsOnlyWhatItMisses, BotRejected, Missed
<1>3. SUFFICES ASSUME NEW r \in DOMAIN items', BotRejected(items'[r])
               PROVE  Missed(chain', gone', items'[r])
  BY DEF BotRejectsOnlyWhatItMisses, BotRejected, Missed
<1>4. CASE r \in DOMAIN items /\ items'[r] = items[r]
  BY <1>1, <1>2, <1>3, <1>4
<1>5. CASE OthersStep
  <2>1. \/ UNCHANGED items
        \/ items' = Swept
        \/ \E p \in Players, network \in Networks, token \in Tokens, cents \in Quotes :
             Create(p, network, token, cents)
        \/ \E q \in DOMAIN items :
             \/ CancelByPlayer(q) \/ Approve(q) \/ Reject(q)
             \/ DeadlinePasses(q) \/ FinalityPasses(q)
    BY <1>5, OthersItems
  <2>2. QED BY <1>3, <1>4, <2>1, OthersDoNotReject
<1>6. ASSUME NEW c \in Callers, NEW f \in Families, IngestNext(c, f)
      PROVE  r \in DOMAIN items /\ items'[r] = items[r]
  <2>1. PICK t \in scan[c][f].batch : Ingest(t) BY <1>6 DEF IngestNext
  <2>2. t \in DOMAIN chain BY <1>6, AnswerFacts DEF IngestNext, WInv, AnswersAreGood
  <2>3. UNCHANGED items \/ IngestMatched(t)
    BY <2>1 DEF Ingest, IngestDuplicate, IngestUnmatched, IngestWatched
  <2>4. QED BY <1>3, <2>2, <2>3, OthersDoNotReject
<1>7. ASSUME NEW c \in Callers, SettleNext(c)
      PROVE  Missed(chain', gone', items'[r])
  <2>1. PICK q \in FirstOf(toSettle[c]), verdict \in Verdicts :
          MayAnswer(q, verdict) /\ Settle(q, verdict)
    BY <1>7 DEF SettleNext
  <2>2. q \in DOMAIN items BY <2>1, Listed DEF FirstOf, WInv, ListIsGood
  <2>3. /\ r \in DOMAIN items /\ SameTerms(items'[r], items[r])
        /\ items'[r].txid = items[r].txid
        /\ \/ items'[r] = items[r]
           \/ r = q /\ verdict = "gone" /\ items[r].status = "processing"
    BY <1>3, <2>1, <2>2, SettleRejects
  <2>4. CASE r = q /\ verdict = "gone" /\ items[r].status = "processing"
    <3>1. PICK t \in DOMAIN chain : TxidOf[t] = items[r].txid
      BY <2>3, <2>4 DEF BotWorkIsCovered
    <3>2. t \in gone \/ chain[t].network # items[r].network
      BY <2>1, <2>4, <3>1 DEF MayAnswer, Found
    <3>3. Missed(chain, gone, items[r]) BY <3>1, <3>2 DEF Missed
    <3>4. Missed(chain', gone', items[r]) BY <1>1, <3>3
    <3>5. QED BY <2>3, <3>4 DEF Missed, SameTerms
  <2>5. QED BY <1>4, <2>3, <2>4
<1>8. ASSUME NEW c \in Callers, Begin(c) \/ EndScans(c) \/ EndCycle(c)
      PROVE  UNCHANGED items
  BY <1>8 DEF Begin, EndScans, EndCycle, vars, HasKey
<1>9. ASSUME NEW c \in Callers, NEW f \in Families,
             Scan(c, f) \/ NoteScan(c, f) \/ ScanFails(c, f)
      PROVE  UNCHANGED items
  BY <1>9 DEF Scan, NoteScan, ScanFails, vars
<1>10. CASE UNCHANGED items BY <1>3, <1>4, <1>10
<1>11. CASE UNCHANGED allVars BY <1>10, <1>11 DEF allVars, vars
<1>12. QED
  BY <1>4, <1>5, <1>6, <1>7, <1>8, <1>9, <1>10, <1>11 DEF WNext, CycleStep

(* What the bot rejects was really taken back by a reorganisation, or was  *)
(* made in a network next to the chosen one, which it does not ask: a      *)
(* silent provider, a missing key or a decision meanwhile never costs a    *)
(* player the request, in however many networks of a family.               *)
THEOREM BotRejectsWhatItMisses == WSpec => []BotRejectsOnlyWhatItMisses
<1>1. WInit => TypeOK /\ WInv BY WInvInit
<1>2. TypeOK /\ WInv /\ [WNext]_allVars => TypeOK' /\ WInv' BY WInvStep
<1>3. WSpec => []BotWorkIsCovered
  BY WatcherImplementsDeposits, BotCovered DEF ImplementsDeposits
<1>4. WInit => BotRejectsOnlyWhatItMisses BY DEF WInit, Init, BotRejectsOnlyWhatItMisses
<1>5. TypeOK /\ WInv /\ BotWorkIsCovered /\ BotRejectsOnlyWhatItMisses /\ [WNext]_allVars
        => BotRejectsOnlyWhatItMisses'
  BY BotRejectsStep
<1>6. QED BY <1>1, <1>2, <1>3, <1>4, <1>5, PTL DEF WSpec

-----------------------------------------------------------------------------
(* What the cursor has passed is in the books.                             *)

(* The CRM switches the listener and its mode, and neither a network nor a *)
(* token nor the booking of matches off.                                   *)
SettingsAreWhole ==
  \A c \in Configs : c.networks = Networks /\ c.tokens = Tokens /\ c.mode # "watch"

(* Everything for address i up to place n is in the books or among ts.     *)
PaidTo(t) == items[chain[t].payer].addressId
Passed(i, n, ts) ==
  \A t \in DOMAIN chain \ gone :
    PaidTo(t) = i /\ stamp[t] <= n => KnownTxid(TxidOf[t]) \/ t \in ts

(* A request names an address record, a transfer names what it pays.       *)
RequestsFit ==
  \A r \in DOMAIN items :
    /\ items[r].addressId \in DOMAIN addrs
    /\ items[r].address = addrs[items[r].addressId].address
    /\ FamilyOf[items[r].network] = AddressFamily[items[r].address]

TransfersFit ==
  \A t \in DOMAIN chain :
    LET r == chain[t].payer IN
      /\ r \in DOMAIN items
      /\ chain[t].to = ReportedAs(chain[t].network, items[r].address)
      /\ FamilyOf[chain[t].network] = FamilyOf[items[r].network]
      /\ chain[t].token = items[r].token /\ Carries(chain[t].network, chain[t].token)

(* Places in the order of the chains.                                      *)
Places == 0..Cardinality(DOMAIN chain)

StampsFit ==
  /\ IsFiniteSet(DOMAIN chain)
  /\ DOMAIN stamp = DOMAIN chain /\ \A t \in DOMAIN chain : stamp[t] \in Places

(* Nothing is passed unbooked by the cursors, by those a cycle started     *)
(* from, and by those it is about to store.                                *)
CursorsFit ==
  /\ cursor \in [AddressIds -> Places]
  /\ \A i \in AddressIds : Passed(i, cursor[i], {})

SnapFits(c) ==
  todo[c] # {} =>
    /\ snap[c].cfg \in Configs /\ snap[c].cursor \in [AddressIds -> Places]
    /\ \A i \in todo[c] : i \in DOMAIN addrs /\ Passed(i, snap[c].cursor[i], {})

AnswerFits(answer) ==
  answer # NoScan => answer.upto \in Places /\ Passed(answer.of, answer.upto, answer.batch)

CycleFits ==
  /\ DOMAIN todo = Callers /\ DOMAIN snap = Callers
  /\ \A c \in Callers : SnapFits(c) /\ \A f \in Families : AnswerFits(scan[c][f])

BooksInv == RequestsFit /\ TransfersFit /\ StampsFit /\ CursorsFit /\ CycleFits

-----------------------------------------------------------------------------
(* What a step keeps of the records.                                       *)

LEMMA AddressesStay ==
  ASSUME TypeOK, [Next]_vars
  PROVE  \A i \in DOMAIN addrs : i \in DOMAIN addrs' /\ addrs'[i].address = addrs[i].address
<1>1. addrs \in [DOMAIN addrs -> AddressRow] BY DEF TypeOK
<1>2. CASE UNCHANGED addrs BY <1>2
<1>3. ASSUME NEW a \in Addresses, AddAddress(a)
      PROVE  \A i \in DOMAIN addrs : i \in DOMAIN addrs' /\ addrs'[i].address = addrs[i].address
  BY <1>3 DEF AddAddress, IsNextId, Put
<1>4. ASSUME NEW i \in DOMAIN addrs, NEW active \in BOOLEAN, UpdateAddress(i, active)
      PROVE  \A j \in DOMAIN addrs : j \in DOMAIN addrs' /\ addrs'[j].address = addrs[j].address
  <2> DEFINE state == IF active THEN "active" ELSE "inactive"
  <2>1. addrs' = [addrs EXCEPT ![i].status = state] BY <1>4 DEF UpdateAddress
  <2> HIDE DEF state
  <2>2. QED BY <1>1, <2>1 DEF AddressRow
<1>5. ASSUME NEW i \in DOMAIN addrs, RemoveAddress(i)
      PROVE  \A j \in DOMAIN addrs : j \in DOMAIN addrs' /\ addrs'[j].address = addrs[j].address
  BY <1>1, <1>5 DEF RemoveAddress, AddressRow
<1>6. CASE UNCHANGED vars BY <1>2, <1>6 DEF vars
<1>7. CASE PlayerStep BY <1>2, <1>7 DEF PlayerStep, FindOrCreate, Create, CancelByPlayer
<1>8. CASE AdminStep
  BY <1>2, <1>3, <1>4, <1>5, <1>8
  DEF AdminStep, RemovePlayer, SetDeposits, Approve, Reject, CreditUnmatched, IgnoreUnmatched
<1>9. CASE EnvironmentStep
  BY <1>2, <1>9 DEF EnvironmentStep, Sweep, DeadlinePasses, FinalityPasses, Send
<1>10. CASE WatcherStep BY <1>2, <1>10 DEF WatcherStep, Ingest, Settle
<1>11. QED BY <1>6, <1>7, <1>8, <1>9, <1>10 DEF Next

LEMMA TermsStay ==
  ASSUME TypeOK, [Next]_vars
  PROVE  \A q \in DOMAIN items : q \in DOMAIN items' /\ SameTerms(items'[q], items[q])
<1>1. Shape BY StepShape
<1>2. CASE UNCHANGED items BY <1>2 DEF SameTerms
<1>3. CASE RequestChange
  BY <1>3 DEF RequestChange, Sweeps, Flags, Books, Opens, Touches, AtMostLapsed
<1>4. ASSUME NEW r \in DOMAIN items, Decision(r)
      PROVE  \A q \in DOMAIN items : q \in DOMAIN items' /\ SameTerms(items'[q], items[q])
  BY <1>4 DEF Decision, Decides, Touches, AtMostLapsed
<1>5. QED BY <1>1, <1>2, <1>3, <1>4 DEF Shape

(* Only create() makes a request.                                          *)
LEMMA NewRequests ==
  ASSUME [Next]_vars
  PROVE  \/ DOMAIN items' = DOMAIN items
         \/ \E p \in Players, network \in Networks, token \in Tokens, cents \in Quotes :
              Create(p, network, token, cents)
<1>1. DOMAIN Swept = DOMAIN items BY DEF Swept
<1>2. CASE UNCHANGED vars BY <1>2 DEF vars
<1>3. CASE PlayerStep BY <1>1, <1>3 DEF PlayerStep, FindOrCreate, CancelByPlayer
<1>4. CASE AdminStep
  BY <1>1, <1>4 DEF AdminStep, RemovePlayer, SetDeposits, AddAddress, UpdateAddress,
     RemoveAddress, Approve, Reject, CreditUnmatched, IgnoreUnmatched
<1>5. CASE EnvironmentStep
  BY <1>1, <1>5 DEF EnvironmentStep, Sweep, DeadlinePasses, FinalityPasses, Send
<1>6. ASSUME NEW t \in DOMAIN chain, Ingest(t) PROVE DOMAIN items' = DOMAIN items
  BY <1>6 DEF Ingest, IngestDuplicate, IngestUnmatched, IngestWatched, IngestMatched
<1>7. ASSUME NEW r \in OnSettleList, NEW verdict \in Verdicts, Settle(r, verdict)
      PROVE  DOMAIN items' = DOMAIN items
  BY <1>1, <1>7 DEF Settle, SettleStale, SettleGone, SettleForAdmin, SettleByBot, SettleNoPlayer
<1>8. QED BY <1>2, <1>3, <1>4, <1>5, <1>6, <1>7 DEF Next, WatcherStep

LEMMA RequestsStep ==
  ASSUME TypeOK, RequestsFit, [Next]_vars
  PROVE  RequestsFit'
<1> DEFINE Fits(p) == /\ p.addressId \in DOMAIN addrs'
                      /\ p.address = addrs'[p.addressId].address
                      /\ FamilyOf[p.network] = AddressFamily[p.address]
<1>1. \A i \in DOMAIN addrs : i \in DOMAIN addrs' /\ addrs'[i].address = addrs[i].address
  BY AddressesStay
<1>2. ASSUME NEW r \in DOMAIN items PROVE r \in DOMAIN items' /\ Fits(items'[r])
  <2>1. r \in DOMAIN items' /\ SameTerms(items'[r], items[r]) BY TermsStay
  <2>2. QED BY <1>1, <2>1 DEF RequestsFit, SameTerms
<1>3. CASE DOMAIN items' = DOMAIN items BY <1>2, <1>3 DEF RequestsFit
<1>4. ASSUME NEW p \in Players, NEW network \in Networks, NEW token \in Tokens,
             NEW cents \in Quotes, Create(p, network, token, cents)
      PROVE  RequestsFit'
  <2> DEFINE Made(id, usdt) ==
        [player |-> p, network |-> network, token |-> token, usdt |-> usdt,
         addressId |-> id, address |-> addrs[id].address,
         status |-> "pending", due |-> FALSE,
         txid |-> NoTx, paid |-> 0, ripe |-> FALSE, confirmed |-> FALSE,
         resolvedBy |-> "nobody"]
  <2>0. PICK id \in PickAddress(FamilyOf[network], Swept) :
          \E usdt \in Prices(network, id, cents, Swept), r \in Requests :
            items' = Put(Swept, r, Made(id, usdt))
    BY <1>4, Zenon DEF Create
  <2>1. PICK usdt \in Prices(network, id, cents, Swept), r \in Requests :
          items' = Put(Swept, r, Made(id, usdt))
    BY <2>0
  <2>2. DOMAIN Swept = DOMAIN items BY DEF Swept
  <2>3. DOMAIN items' = DOMAIN items \cup {r} BY <2>1, <2>2 DEF Put
  <2>4. /\ items'[r].addressId = id /\ items'[r].address = addrs[id].address
        /\ items'[r].network = network
    BY <2>1 DEF Put
  <2>5. id \in DOMAIN addrs /\ AddressFamily[addrs[id].address] = FamilyOf[network]
    BY DEF PickAddress
  <2>6. Fits(items'[r]) BY <1>1, <2>4, <2>5
  <2>7. QED BY <1>2, <2>3, <2>6 DEF RequestsFit
<1>5. QED BY <1>3, <1>4, NewRequests

LEMMA TransfersStep ==
  ASSUME TypeOK, TransfersFit, [Next]_vars
  PROVE  TransfersFit'
<1> DEFINE Fits(tx) == /\ tx.payer \in DOMAIN items'
                       /\ tx.to = ReportedAs(tx.network, items'[tx.payer].address)
                       /\ FamilyOf[tx.network] = FamilyOf[items'[tx.payer].network]
                       /\ tx.token = items'[tx.payer].token /\ Carries(tx.network, tx.token)
<1>1. \A q \in DOMAIN items : q \in DOMAIN items' /\ SameTerms(items'[q], items[q])
  BY TermsStay
<1>2. ASSUME NEW t \in DOMAIN chain PROVE Fits(chain[t])
  BY <1>1 DEF TransfersFit, SameTerms
<1>3. SUFFICES \A t \in DOMAIN chain' : Fits(chain'[t])
  BY DEF TransfersFit, ReportedAs, Memo, Carries
<1>4. CASE UNCHANGED chain BY <1>2, <1>4
<1>5. ASSUME NEW t \in Transfers, NEW r \in DOMAIN items, NEW network \in Networks,
             NEW slip \in Slips, Send(t, r, network, slip)
      PROVE  \A u \in DOMAIN chain' : Fits(chain'[u])
  <2> DEFINE tx == toIncoming(r, network, slip)
  <2>1. chain' = Put(chain, t, tx) /\ UNCHANGED items BY <1>5 DEF Send
  <2>2. Fits(tx) BY <1>5, <2>1 DEF Send, toIncoming, ReportedAs, Memo
  <2> HIDE DEF tx, Fits
  <2>3. QED BY <1>2, <2>1, <2>2 DEF Put
<1>6. CASE UNCHANGED vars BY <1>4, <1>6 DEF vars
<1>7. CASE PlayerStep
  BY <1>4, <1>7 DEF PlayerStep, FindOrCreate, Create, CancelByPlayer
<1>8. CASE AdminStep
  BY <1>4, <1>8 DEF AdminStep, RemovePlayer, SetDeposits, AddAddress, UpdateAddress,
     RemoveAddress, Approve, Reject, CreditUnmatched, IgnoreUnmatched
<1>9. CASE EnvironmentStep
  BY <1>4, <1>5, <1>9 DEF EnvironmentStep, Sweep, DeadlinePasses, FinalityPasses
<1>10. CASE WatcherStep BY <1>4, <1>10 DEF WatcherStep, Ingest, Settle
<1>11. QED BY <1>6, <1>7, <1>8, <1>9, <1>10 DEF Next

(* What is in the books stays there.                                       *)
LEMMA KnownStays ==
  ASSUME TypeOK, FieldsAgree, [Next]_vars, NEW x \in Txids, KnownTxid(x)
  PROVE  KnownTxid(x)'
<1>1. Shape BY StepShape
<1>2. ASSUME NEW r \in DOMAIN items, items[r].txid = x PROVE KnownTxid(x)'
  <2>1. x # NoTx BY CatalogueAssumption
  <2>2. r \in DOMAIN items' /\ items'[r].txid = x
    BY <1>1, <1>2, <2>1, PaidStep, TermsStay
  <2>3. QED BY <2>2 DEF KnownTxid
<1>3. DOMAIN unmatched \subseteq DOMAIN unmatched'
  BY <1>1 DEF Shape, Arrives, Redeems, Shelves, Put
<1>4. QED BY <1>2, <1>3 DEF KnownTxid

-----------------------------------------------------------------------------
(* What a step keeps of the chains.                                        *)

(* Only a payment puts something on a chain, and gives it its place.       *)
LEMMA NewTransfers ==
  ASSUME [WNext]_allVars
  PROVE  \/ UNCHANGED <<chain, stamp>>
         \/ \E t \in Transfers, r \in DOMAIN items, network \in Networks, slip \in Slips :
              Pay(t, r, network, slip)
<1>1. CASE UNCHANGED allVars BY <1>1 DEF allVars, vars, watcherVars
<1>2. CASE OthersStep
  <2>1. CASE PlayerStep /\ UNCHANGED watcherVars
    BY <2>1 DEF PlayerStep, FindOrCreate, Create, CancelByPlayer, watcherVars
  <2>2. CASE OtherAdminStep /\ UNCHANGED watcherVars
    BY <2>2 DEF OtherAdminStep, RemovePlayer, SetDeposits, UpdateAddress, RemoveAddress,
       Approve, Reject, CreditUnmatched, IgnoreUnmatched, watcherVars
  <2>3. CASE Sweep /\ UNCHANGED watcherVars BY <2>3 DEF Sweep, watcherVars
  <2>4. CASE /\ \E r \in DOMAIN items : DeadlinePasses(r) \/ FinalityPasses(r)
             /\ UNCHANGED watcherVars
    BY <2>4 DEF DeadlinePasses, FinalityPasses, watcherVars
  <2>5. CASE \E a \in Addresses : AddAndWatch(a) BY <2>5 DEF AddAndWatch, AddAddress
  <2>6. CASE \E t \in DOMAIN chain : Reorganise(t) BY <2>6 DEF Reorganise, vars
  <2>7. QED BY <1>2, <2>1, <2>2, <2>3, <2>4, <2>5, <2>6 DEF OthersStep
<1>3. ASSUME NEW c \in Callers, Begin(c) \/ EndScans(c) \/ EndCycle(c)
      PROVE  UNCHANGED <<chain, stamp>>
  BY <1>3 DEF Begin, EndScans, EndCycle, vars, HasKey
<1>4. ASSUME NEW c \in Callers, SettleNext(c) PROVE UNCHANGED <<chain, stamp>>
  BY <1>4 DEF SettleNext, Settle
<1>5. ASSUME NEW c \in Callers, NEW f \in Families, IngestNext(c, f)
      PROVE  UNCHANGED <<chain, stamp>>
  BY <1>5 DEF IngestNext, Ingest
<1>6. ASSUME NEW c \in Callers, NEW f \in Families,
             Scan(c, f) \/ NoteScan(c, f) \/ ScanFails(c, f)
      PROVE  UNCHANGED <<chain, stamp>>
  BY <1>6 DEF Scan, NoteScan, ScanFails, vars
<1>7. QED BY <1>1, <1>2, <1>3, <1>4, <1>5, <1>6 DEF WNext, CycleStep

(* Its place is behind all others.                                         *)
LEMMA StampsStep ==
  ASSUME StampsFit, [WNext]_allVars
  PROVE  /\ StampsFit' /\ Places \subseteq Places'
         /\ \A t \in DOMAIN chain : t \in DOMAIN chain' /\ chain'[t] = chain[t]
                                    /\ stamp'[t] = stamp[t]
         /\ \A t \in DOMAIN chain' \ DOMAIN chain, n \in Places : ~ (stamp'[t] <= n)
<1>1. CASE UNCHANGED <<chain, stamp>> BY <1>1 DEF StampsFit, Places
<1>2. ASSUME NEW t \in Transfers, NEW r \in DOMAIN items, NEW network \in Networks,
             NEW slip \in Slips, Pay(t, r, network, slip)
      PROVE  /\ StampsFit' /\ Places \subseteq Places'
             /\ \A u \in DOMAIN chain : u \in DOMAIN chain' /\ chain'[u] = chain[u]
                                        /\ stamp'[u] = stamp[u]
             /\ \A u \in DOMAIN chain' \ DOMAIN chain, n \in Places : ~ (stamp'[u] <= n)
  <2> DEFINE size == Cardinality(DOMAIN chain)
             tx == toIncoming(r, network, slip)
  <2>1. t \notin DOMAIN chain /\ chain' = Put(chain, t, tx) /\ stamp' = Put(stamp, t, size + 1)
    BY <1>2 DEF Pay, Send
  <2>2. IsFiniteSet(DOMAIN chain) /\ DOMAIN stamp = DOMAIN chain
        /\ \A u \in DOMAIN chain : stamp[u] \in 0..size
    BY DEF StampsFit, Places
  <2> HIDE DEF tx
  <2>3. DOMAIN chain' = DOMAIN chain \cup {t} BY <2>1 DEF Put
  <2>4. size \in Nat BY <2>2, FS_CardinalityType
  <2>5. IsFiniteSet(DOMAIN chain') /\ Cardinality(DOMAIN chain') = size + 1
    BY <2>1, <2>2, <2>3, FS_AddElement
  <2> HIDE DEF size
  <2>6. DOMAIN stamp' = DOMAIN chain' BY <2>1, <2>2, <2>3 DEF Put
  <2>7. stamp'[t] = size + 1 BY <2>1, <2>6 DEF Put
  <2>8. \A u \in DOMAIN chain : u # t /\ chain'[u] = chain[u] /\ stamp'[u] = stamp[u]
    BY <2>1, <2>2 DEF Put
  <2>9. Places = 0..size /\ Places' = 0..(size + 1) BY <2>5 DEF Places, size
  <2>10. \A u \in DOMAIN chain' : stamp'[u] \in 0..(size + 1)
    BY <2>2, <2>3, <2>4, <2>7, <2>8
  <2>11. StampsFit' BY <2>5, <2>6, <2>9, <2>10 DEF StampsFit
  <2>12. \A n \in Places : ~ (stamp'[t] <= n) BY <2>4, <2>7, <2>9
  <2>13. Places \subseteq Places' BY <2>4, <2>9
  <2>14. QED BY <2>3, <2>8, <2>11, <2>12, <2>13
<1>3. QED BY <1>1, <1>2, NewTransfers

(* What has been passed and booked remains so.                             *)
LEMMA PassedStays ==
  ASSUME TypeOK, WInv, FieldsAgree, TransfersFit, StampsFit, [WNext]_allVars,
         NEW i, NEW n \in Places, NEW ts, Passed(i, n, ts)
  PROVE  n \in Places' /\ Passed(i, n, ts)'
<1>1. [Next]_vars BY WatcherStepIsDepositStep
<1>2. n \in Places' BY StampsStep
<1>3. SUFFICES ASSUME NEW t \in DOMAIN chain' \ gone', PaidTo(t)' = i, stamp'[t] <= n
               PROVE  KnownTxid(TxidOf[t])' \/ t \in ts
  BY <1>2 DEF Passed
<1>4. t \in DOMAIN chain BY <1>3, StampsStep
<1>5. t \notin gone /\ chain'[t] = chain[t] /\ stamp'[t] = stamp[t]
  BY <1>3, <1>4, GoneStays, StampsStep
<1>6. PaidTo(t)' = PaidTo(t)
  <2>1. chain[t].payer \in DOMAIN items BY <1>4 DEF TransfersFit
  <2>2. items'[chain[t].payer].addressId = items[chain[t].payer].addressId
    BY <1>1, <2>1, TermsStay DEF SameTerms
  <2>3. QED BY <1>5, <2>2 DEF PaidTo
<1>7. KnownTxid(TxidOf[t]) \/ t \in ts BY <1>3, <1>4, <1>5, <1>6 DEF Passed
<1>8. TxidOf[t] \in Txids BY <1>4, CatalogueAssumption DEF TypeOK
<1>9. QED BY <1>1, <1>7, <1>8, KnownStays

-----------------------------------------------------------------------------
(* The answer of a reader.                                                 *)

(* A set of numbers has a least one, and a set of places a last one.       *)
LEMMA LeastNumber ==
  ASSUME NEW T \in SUBSET Nat, T # {}
  PROVE  \E n \in T : \A m \in T : n <= m
<1>1. IsWellFoundedOn(OpToRel(<, Nat), Nat) BY NatLessThanWellFounded
<1>2. PICK n \in T : \A m \in T : ~ (<<m, n>> \in OpToRel(<, Nat)) BY <1>1, WFMin
<1>3. \A m \in T : m < n => <<m, n>> \in OpToRel(<, Nat) BY DEF OpToRel
<1>4. \A m \in T : ~ (m < n) BY <1>2, <1>3, Zenon
<1>5. \A m \in T : n <= m BY <1>4
<1>6. QED BY <1>5

LEMMA LastPlace ==
  ASSUME NEW n \in Nat, NEW S \in SUBSET (0..n), S # {}
  PROVE  Max(S) \in S
<1> DEFINE T == {n - x : x \in S}
<1>1. T \in SUBSET Nat /\ T # {} OBVIOUS
<1>2. PICK k \in T : \A m \in T : k <= m
  <2> HIDE DEF T
  <2>1. QED BY <1>1, LeastNumber
<1>3. PICK x \in S : k = n - x OBVIOUS
<1>4. ASSUME NEW y \in S PROVE x >= y
  <2>1. x \in 0..n /\ y \in 0..n OBVIOUS
  <2>2. k <= n - y BY <1>2
  <2>3. QED BY <1>3, <2>1, <2>2
<1>5. \E z \in S : \A y \in S : z >= y BY <1>4
<1>6. QED BY <1>5, Zenon DEF Max

(* It holds all that was paid to the address and is not yet in the books,  *)
(* up to where its cursor is.                                              *)
LEMMA AnswerIsWhole ==
  ASSUME SettingsAreWhole, TypeOK, RequestsFit, TransfersFit, StampsFit,
         NEW c \in Callers, NEW i \in todo[c], SnapFits(c)
  PROVE  AnswerFits(Answer(c, i))
<1> DEFINE from == snap[c].cursor[i]
           last == Max({from} \cup {stamp[t] : t \in Listing(c, i)})
           ans == Answer(c, i)
<1>1. /\ snap[c].cfg \in Configs /\ i \in DOMAIN addrs
      /\ snap[c].cursor \in [AddressIds -> Places] /\ Passed(i, from, {})
  BY DEF SnapFits
<1>2. from \in Places BY <1>1 DEF TypeOK
<1>3. ans.of = i /\ ans.batch = Ours(c, i) /\ ans.upto = last BY DEF Answer
<1>4. last \in Places
  <2> DEFINE S == {from} \cup {stamp[t] : t \in Listing(c, i)}
             size == Cardinality(DOMAIN chain)
  <2>1. size \in Nat BY FS_CardinalityType DEF StampsFit
  <2>2. S \in SUBSET (0..size) /\ S # {} BY <1>2 DEF StampsFit, Places, Listing
  <2> HIDE DEF S, size
  <2>3. Max(S) \in S BY <2>1, <2>2, LastPlace
  <2>4. QED BY <2>2, <2>3 DEF S, size, Places
<1>5. ASSUME NEW t \in DOMAIN chain \ gone, PaidTo(t) = i, ~ (stamp[t] <= from)
      PROVE  t \in Ours(c, i)
  <2> DEFINE r == chain[t].payer
             family == AddressFamily[addrs[i].address]
  <2>1. /\ r \in DOMAIN items
        /\ chain[t].to = ReportedAs(chain[t].network, items[r].address)
        /\ FamilyOf[chain[t].network] = FamilyOf[items[r].network]
        /\ Carries(chain[t].network, chain[t].token)
    BY DEF TransfersFit
  <2>2. items[r].address = addrs[i].address /\ FamilyOf[items[r].network] = family
    BY <1>5, <2>1 DEF RequestsFit, PaidTo
  <2>3. chain[t].network \in Networks /\ chain[t].token \in Tokens
    BY DEF TypeOK, Transfer
  <2>4. snap[c].cfg.networks = Networks /\ snap[c].cfg.tokens = Tokens
    BY <1>1 DEF SettingsAreWhole
  <2>5. chain[t].token \in Accepted(snap[c].cfg, chain[t].network)
    BY <2>1, <2>3, <2>4 DEF Accepted, Carries
  <2>6. chain[t].network \in Listened(snap[c].cfg, family)
    BY <2>1, <2>2, <2>3, <2>4, <2>5 DEF Listened
  <2>7. stamp[t] > from
    <3>1. from \in Int /\ stamp[t] \in Int BY <1>2 DEF StampsFit, Places
    <3>2. QED BY <1>5, <3>1
  <2>8. sameAddress(chain[t].to, ReportedAs(chain[t].network, addrs[i].address))
    BY <2>1, <2>2 DEF sameAddress
  <2>9. t \in Listing(c, i) BY <2>6, <2>7, <2>8 DEF Listing
  <2>10. QED BY <2>3, <2>4, <2>9 DEF Ours
<1>6. Passed(i, last, Ours(c, i))
  BY <1>1, <1>5 DEF Passed
<1> HIDE DEF ans, last
<1>7. QED BY <1>3, <1>4, <1>6 DEF AnswerFits, ans

(* A transfer that was ingested is in the books.                           *)
LEMMA IngestBooks ==
  ASSUME SettingsAreWhole, TypeOK, NEW t \in DOMAIN chain, Ingest(t)
  PROVE  KnownTxid(TxidOf[t])'
<1>1. CASE IngestDuplicate(t) BY <1>1 DEF IngestDuplicate, KnownTxid
<1>2. CASE IngestUnmatched(t) BY <1>2 DEF IngestUnmatched, KnownTxid, Put
<1>3. CASE IngestWatched(t) BY <1>3 DEF IngestWatched, SettingsAreWhole, TypeOK
<1>4. CASE IngestMatched(t)
  BY <1>4, MatchShape DEF Books, Touches, KnownTxid
<1>5. QED BY <1>1, <1>2, <1>3, <1>4 DEF Ingest

-----------------------------------------------------------------------------
(* Cursors and cycles.                                                     *)

LEMMA CursorsStep ==
  ASSUME TypeOK, WInv, FieldsAgree, BooksInv, [WNext]_allVars
  PROVE  CursorsFit'
<1>0. \A i, n, ts : n \in Places /\ Passed(i, n, ts) => n \in Places' /\ Passed(i, n, ts)'
  BY PassedStays DEF BooksInv
<1>1. /\ cursor \in [AddressIds -> Places']
      /\ \A i \in AddressIds : \A n : n = cursor[i] => Passed(i, n, {})'
  <2>1. cursor \in [AddressIds -> Places] BY DEF BooksInv, CursorsFit
  <2>2. \A i \in AddressIds : cursor[i] \in Places /\ Passed(i, cursor[i], {})
    BY DEF BooksInv, CursorsFit
  <2>3. Places \subseteq Places' BY StampsStep DEF BooksInv
  <2>4. QED BY <1>0, <2>1, <2>2, <2>3 DEF Passed
<1>2. CASE UNCHANGED cursor BY <1>1, <1>2 DEF CursorsFit, Passed
<1>3. ASSUME NEW a \in Addresses, AddAndWatch(a) PROVE CursorsFit'
  <2>1. UNCHANGED <<chain, items, gone, stamp>> BY <1>3 DEF AddAndWatch, AddAddress
  <2> DEFINE new == DOMAIN addrs' \ DOMAIN addrs
             size == Cardinality(DOMAIN chain)
  <2>2. \A i \in AddressIds : cursor'[i] = IF i \in new THEN size ELSE cursor[i]
    BY <1>3 DEF AddAndWatch
  <2>3. size \in Places /\ Places' = Places
    BY <2>1, FS_CardinalityType DEF Places, BooksInv, StampsFit
  <2>4. \A t \in DOMAIN chain : PaidTo(t) \in DOMAIN addrs
    BY DEF BooksInv, TransfersFit, RequestsFit, PaidTo
  <2>5. DOMAIN cursor' = AddressIds /\ cursor' \in [AddressIds -> Places']
    BY <1>1, <1>3, <2>2, <2>3 DEF AddAndWatch
  <2> HIDE DEF new, size
  <2>6. ASSUME NEW i \in AddressIds PROVE Passed(i, cursor[i], {})'
    <3>1. CASE i \in new BY <2>1, <2>4, <3>1 DEF Passed, PaidTo, new
    <3>2. CASE i \notin new
      <4>1. cursor'[i] = cursor[i] BY <2>2, <3>2
      <4>2. QED BY <1>1, <4>1 DEF Passed
    <3>3. QED BY <3>1, <3>2
  <2>7. QED BY <2>5, <2>6 DEF CursorsFit
<1>4. ASSUME NEW c \in Callers, NEW f \in Families, NoteScan(c, f) PROVE CursorsFit'
  <2> DEFINE ans == scan[c][f]
  <2>1. CASE ans.of \in AddressList
    <3>1. ans.of \in AddressIds BY <2>1 DEF AddressList, TypeOK
    <3>2. cursor' = [cursor EXCEPT ![ans.of] = ans.upto] BY <1>4, <2>1 DEF NoteScan
    <3>3. ans.upto \in Places /\ Passed(ans.of, ans.upto, {})
      BY <1>4 DEF NoteScan, BooksInv, CycleFits, AnswerFits
    <3> HIDE DEF ans
    <3>4. PICK i0, n0 : i0 = ans.of /\ n0 = ans.upto OBVIOUS
    <3>5. \A i \in AddressIds : cursor'[i] = IF i = i0 THEN n0 ELSE cursor[i]
      BY <1>1, <3>1, <3>2, <3>4
    <3>6. cursor' \in [AddressIds -> Places'] BY <1>0, <1>1, <3>2, <3>3
    <3>7. ASSUME NEW i \in AddressIds PROVE Passed(i, cursor[i], {})'
      <4>1. Passed(i0, n0, {})' BY <1>0, <3>3, <3>4
      <4>2. QED BY <1>1, <3>5, <4>1 DEF Passed
    <3>8. QED BY <3>6, <3>7 DEF CursorsFit
  <2>2. CASE ans.of \notin AddressList
    BY <1>2, <1>4, <2>2 DEF NoteScan
  <2>3. QED BY <2>1, <2>2
<1>5. CASE OthersStep
  BY <1>2, <1>3, <1>5 DEF OthersStep, watcherVars, Pay, Reorganise
<1>6. ASSUME NEW c \in Callers, Begin(c) \/ EndScans(c) \/ SettleNext(c) \/ EndCycle(c)
      PROVE  CursorsFit'
  BY <1>2, <1>6 DEF Begin, EndScans, SettleNext, EndCycle, HasKey
<1>7. ASSUME NEW c \in Callers, NEW f \in Families,
             Scan(c, f) \/ IngestNext(c, f) \/ ScanFails(c, f)
      PROVE  CursorsFit'
  BY <1>2, <1>7 DEF Scan, IngestNext, ScanFails
<1>8. CASE UNCHANGED allVars BY <1>2, <1>8 DEF allVars, watcherVars
<1>9. QED BY <1>4, <1>5, <1>6, <1>7, <1>8 DEF WNext, CycleStep

(* What a cycle started from, for a list that grows no longer.             *)
LEMMA SnapsStep ==
  ASSUME TypeOK, WInv, FieldsAgree, BooksInv, [WNext]_allVars
  PROVE  /\ DOMAIN todo' = Callers /\ DOMAIN snap' = Callers
         /\ \A c \in Callers : SnapFits(c)'
<1>0. \A i, n, ts : n \in Places /\ Passed(i, n, ts) => n \in Places' /\ Passed(i, n, ts)'
  BY PassedStays DEF BooksInv
<1> DEFINE FitsNow(list, start) ==
      list # {} =>
        /\ start.cfg \in Configs /\ start.cursor \in [AddressIds -> Places']
        /\ \A i \in list : i \in DOMAIN addrs'
        /\ \A i \in list : \A n : n = start.cursor[i] => Passed(i, n, {})'
<1>1. [Next]_vars BY WatcherStepIsDepositStep
<1>2. \A i \in DOMAIN addrs : i \in DOMAIN addrs' BY <1>1, AddressesStay
<1>3. Places \subseteq Places' BY StampsStep DEF BooksInv
<1>4. DOMAIN todo = Callers /\ DOMAIN snap = Callers BY DEF BooksInv, CycleFits
<1>5. DOMAIN addrs \subseteq AddressIds BY DEF TypeOK
<1>6. ASSUME NEW list, list \subseteq DOMAIN addrs, NEW start, start.cfg \in Configs,
             start.cursor \in [AddressIds -> Places],
             \A i \in list : Passed(i, start.cursor[i], {})
      PROVE  FitsNow(list, start)
  <2>1. \A i \in list : start.cursor[i] \in Places BY <1>5, <1>6
  <2>2. \A i \in list : \A n : n = start.cursor[i] => Passed(i, n, {})'
    BY <1>0, <1>6, <2>1
  <2>3. QED BY <1>2, <1>3, <1>6, <2>2
<1>7. ASSUME NEW c \in Callers, NEW list, list \subseteq todo[c]
      PROVE  FitsNow(list, snap[c])
  <2>1. CASE list = {} BY <2>1
  <2>2. CASE list # {}
    <3>1. SnapFits(c) BY DEF BooksInv, CycleFits
    <3>2. /\ snap[c].cfg \in Configs /\ snap[c].cursor \in [AddressIds -> Places]
          /\ \A i \in todo[c] : i \in DOMAIN addrs /\ Passed(i, snap[c].cursor[i], {})
      BY <1>7, <2>2, <3>1 DEF SnapFits
    <3> HIDE DEF FitsNow
    <3>3. QED BY <1>6, <1>7, <3>2
  <2>3. QED BY <2>1, <2>2
<1>8. SUFFICES /\ DOMAIN todo' = Callers /\ DOMAIN snap' = Callers
               /\ \A c \in Callers : FitsNow(todo'[c], snap'[c])
  BY DEF SnapFits, Passed
<1> HIDE DEF FitsNow
<1>9. CASE UNCHANGED <<todo, snap>> BY <1>4, <1>7, <1>9
<1>10. ASSUME NEW c \in Callers, Begin(c)
       PROVE  /\ DOMAIN todo' = Callers /\ DOMAIN snap' = Callers
              /\ \A d \in Callers : FitsNow(todo'[d], snap'[d])
  <2> DEFINE start == [cfg |-> cfg, cursor |-> cursor]
             list == {i \in WatchTargets : HasKey(AddressFamily[addrs[i].address])}
  <2>1. snap' = [snap EXCEPT ![c] = start] /\ todo' = [todo EXCEPT ![c] = list]
    BY <1>10 DEF Begin
  <2>2. list \subseteq DOMAIN addrs BY DEF WatchTargets, AddressList
  <2>3. /\ start.cfg \in Configs /\ start.cursor \in [AddressIds -> Places]
        /\ \A i \in list : Passed(i, start.cursor[i], {})
    BY <1>5, <2>2 DEF BooksInv, CursorsFit, TypeOK
  <2> HIDE DEF start, list
  <2>4. FitsNow(list, start) BY <1>6, <2>2, <2>3
  <2>5. QED BY <1>4, <1>7, <2>1, <2>4
<1>11. ASSUME NEW c \in Callers, EndScans(c)
       PROVE  /\ DOMAIN todo' = Callers /\ DOMAIN snap' = Callers
              /\ \A d \in Callers : FitsNow(todo'[d], snap'[d])
  <2>1. /\ snap' = [snap EXCEPT ![c] = NoSnap] /\ todo' = todo /\ todo[c] = {}
    BY <1>11 DEF EndScans
  <2>2. FitsNow({}, NoSnap) BY DEF FitsNow
  <2>3. QED BY <1>4, <1>7, <2>1, <2>2
<1>12. ASSUME NEW c \in Callers, NEW f \in Families, NoteScan(c, f) \/ ScanFails(c, f)
       PROVE  /\ DOMAIN todo' = Callers /\ DOMAIN snap' = Callers
              /\ \A d \in Callers : FitsNow(todo'[d], snap'[d])
  <2>1. /\ UNCHANGED snap
        /\ \E out : todo' = [todo EXCEPT ![c] = @ \ out]
    BY <1>12 DEF NoteScan, ScanFails
  <2>2. PICK out : todo' = [todo EXCEPT ![c] = @ \ out] BY <2>1
  <2>3. QED BY <1>4, <1>7, <2>1, <2>2
<1>13. CASE OthersStep
  BY <1>9, <1>13 DEF OthersStep, watcherVars, AddAndWatch, Pay, Reorganise
<1>14. ASSUME NEW c \in Callers, SettleNext(c) \/ EndCycle(c) PROVE UNCHANGED <<todo, snap>>
  BY <1>14 DEF SettleNext, EndCycle
<1>15. ASSUME NEW c \in Callers, NEW f \in Families, Scan(c, f) \/ IngestNext(c, f)
       PROVE  UNCHANGED <<todo, snap>>
  BY <1>15 DEF Scan, IngestNext
<1>16. CASE UNCHANGED allVars BY <1>9, <1>16 DEF allVars, watcherVars
<1>17. QED
  BY <1>9, <1>10, <1>11, <1>12, <1>13, <1>14, <1>15, <1>16 DEF WNext, CycleStep

(* What a cycle is about to store.                                         *)
LEMMA ScansStep ==
  ASSUME SettingsAreWhole, TypeOK, WInv, FieldsAgree, BooksInv, [WNext]_allVars
  PROVE  \A c \in Callers, f \in Families : AnswerFits(scan[c][f])'
<1>0. \A i, n, ts : n \in Places /\ Passed(i, n, ts) => n \in Places' /\ Passed(i, n, ts)'
  BY PassedStays DEF BooksInv
<1> DEFINE FitsNow(answer) ==
      answer # NoScan =>
        /\ answer.upto \in Places'
        /\ \A i, n, ts : i = answer.of /\ n = answer.upto /\ ts = answer.batch =>
             Passed(i, n, ts)'
<1>1. DOMAIN scan = Callers /\ \A c \in Callers : DOMAIN scan[c] = Families
  BY DEF WInv, AnswersAreGood
<1>2. ASSUME NEW answer, AnswerFits(answer) PROVE FitsNow(answer)
  <2>1. CASE answer = NoScan BY <2>1
  <2>2. CASE answer # NoScan
    <3>1. answer.upto \in Places /\ Passed(answer.of, answer.upto, answer.batch)
      BY <1>2, <2>2 DEF AnswerFits
    <3>2. QED BY <1>0, <3>1
  <2>3. QED BY <2>1, <2>2
<1>3. SUFFICES \A c \in Callers, f \in Families : FitsNow(scan'[c][f])
  BY DEF AnswerFits, Passed
<1>4. \A c \in Callers, f \in Families : FitsNow(scan[c][f])
  <2> HIDE DEF FitsNow
  <2>1. QED BY <1>2 DEF BooksInv, CycleFits
<1> HIDE DEF FitsNow
<1>5. CASE UNCHANGED scan BY <1>4, <1>5
<1>6. ASSUME NEW c \in Callers, NEW f \in Families, NEW answer, FitsNow(answer),
             scan' = [scan EXCEPT ![c][f] = answer]
      PROVE  \A d \in Callers, g \in Families : FitsNow(scan'[d][g])
  <2>1. \A d \in Callers, g \in Families :
          scan'[d][g] = IF d = c /\ g = f THEN answer ELSE scan[d][g]
    BY <1>1, <1>6
  <2>2. QED BY <1>4, <1>6, <2>1
<1>7. ASSUME NEW c \in Callers, NEW f \in Families, Scan(c, f)
      PROVE  \A d \in Callers, g \in Families : FitsNow(scan'[d][g])
  <2>1. PICK i \in FirstOf(TargetsOf(c, f)) : scan' = [scan EXCEPT ![c][f] = Answer(c, i)]
    BY <1>7 DEF Scan
  <2>2. i \in todo[c] BY DEF FirstOf, TargetsOf
  <2>3. AnswerFits(Answer(c, i)) BY <2>2, AnswerIsWhole DEF BooksInv, CycleFits
  <2>4. FitsNow(Answer(c, i)) BY <1>2, <2>3
  <2>5. QED BY <1>6, <2>1, <2>4
<1>8. ASSUME NEW c \in Callers, NEW f \in Families, NoteScan(c, f)
      PROVE  \A d \in Callers, g \in Families : FitsNow(scan'[d][g])
  <2>1. FitsNow(NoScan) BY DEF FitsNow
  <2>2. QED BY <1>6, <1>8, <2>1 DEF NoteScan
<1>9. ASSUME NEW c \in Callers, NEW f \in Families, IngestNext(c, f)
      PROVE  \A d \in Callers, g \in Families : FitsNow(scan'[d][g])
  <2>1. PICK t \in scan[c][f].batch :
          Ingest(t) /\ scan' = [scan EXCEPT ![c][f].batch = @ \ {t}]
    BY <1>9 DEF IngestNext
  <2> DEFINE ans == scan[c][f]
             left == [ans EXCEPT !.batch = @ \ {t}]
  <2>2. ans # NoScan BY <1>9 DEF IngestNext
  <2>3. PICK i, n, ts : ts \subseteq DOMAIN chain /\ ans = [of |-> i, batch |-> ts, upto |-> n]
    BY <2>2 DEF WInv, AnswersAreGood, IsAnswer
  <2>4. ans.of = i /\ ans.upto = n /\ ans.batch = ts BY <2>3
  <2>5. left = [of |-> i, batch |-> ts \ {t}, upto |-> n] BY <2>3
  <2>6. left.of = i /\ left.upto = n /\ left.batch = ts \ {t} BY <2>5
  <2>7. scan' = [scan EXCEPT ![c][f] = left] BY <2>1
  <2> HIDE DEF left
  <2>8. n \in Places' /\ Passed(i, n, ts)'
    BY <1>4, <2>2, <2>4 DEF FitsNow
  <2>9. KnownTxid(TxidOf[t])'
    BY <2>1, <2>3, <2>4, IngestBooks
  <2>10. Passed(i, n, ts \ {t})'
    BY <2>8, <2>9 DEF Passed
  <2>11. FitsNow(left) BY <2>6, <2>8, <2>10 DEF FitsNow
  <2>12. QED BY <1>6, <2>7, <2>11
<1>10. CASE OthersStep
  BY <1>5, <1>10 DEF OthersStep, watcherVars, AddAndWatch, Pay, Reorganise
<1>11. ASSUME NEW c \in Callers, Begin(c) \/ EndScans(c) \/ SettleNext(c) \/ EndCycle(c)
       PROVE  UNCHANGED scan
  BY <1>11 DEF Begin, EndScans, SettleNext, EndCycle, HasKey
<1>12. ASSUME NEW c \in Callers, NEW f \in Families, ScanFails(c, f) PROVE UNCHANGED scan
  BY <1>12 DEF ScanFails
<1>13. CASE UNCHANGED allVars BY <1>5, <1>13 DEF allVars, watcherVars
<1>14. QED
  BY <1>5, <1>7, <1>8, <1>9, <1>10, <1>11, <1>12, <1>13 DEF WNext, CycleStep

LEMMA BooksInit == ASSUME WInit PROVE BooksInv
<1>1. RequestsFit /\ TransfersFit BY DEF WInit, Init, RequestsFit, TransfersFit
<1>2. DOMAIN chain = {} /\ DOMAIN stamp = {} BY DEF WInit, Init
<1>3. StampsFit BY <1>2, FS_EmptySet DEF StampsFit
<1>4. 0 \in Places BY <1>2, FS_EmptySet DEF Places
<1>5. CursorsFit BY <1>2, <1>4 DEF WInit, CursorsFit, Passed
<1>6. CycleFits BY DEF WInit, CycleFits, SnapFits, AnswerFits
<1>7. QED BY <1>1, <1>3, <1>5, <1>6 DEF BooksInv

LEMMA BooksStep ==
  ASSUME SettingsAreWhole, TypeOK, WInv, FieldsAgree, BooksInv, [WNext]_allVars
  PROVE  BooksInv'
<1>1. [Next]_vars BY WatcherStepIsDepositStep
<1>2. RequestsFit' /\ TransfersFit' BY <1>1, RequestsStep, TransfersStep DEF BooksInv
<1>3. StampsFit' BY StampsStep DEF BooksInv
<1>4. CursorsFit' BY CursorsStep
<1>5. CycleFits' BY SnapsStep, ScansStep DEF CycleFits
<1>6. QED BY <1>2, <1>3, <1>4, <1>5 DEF BooksInv

(* As long as the CRM switches neither a network nor a token nor the       *)
(* booking of matches off, no cursor ever passes a transfer that is not in *)
(* the books: whatever arrives, is taken back, deleted or switched while a *)
(* cycle waits for its answers, and whichever scans fail.                  *)
THEOREM CursorPassesOnlyBooked ==
  ASSUME SettingsAreWhole
  PROVE  WSpec => []PassedIsBooked
<1>1. WInit => TypeOK /\ WInv /\ BooksInv BY WInvInit, BooksInit
<1>2. TypeOK /\ WInv /\ [WNext]_allVars => TypeOK' /\ WInv' BY WInvStep
<1>3. WSpec => [](TypeOK /\ FieldsAgree)
  BY WatcherImplementsDeposits, FieldsAlwaysAgree DEF ImplementsDeposits
<1>4. TypeOK /\ WInv /\ FieldsAgree /\ BooksInv /\ [WNext]_allVars => BooksInv'
  BY BooksStep
<1>5. TypeOK /\ BooksInv => PassedIsBooked
  <2>1. SUFFICES ASSUME TypeOK, BooksInv, NEW t \in DOMAIN chain \ gone,
                        stamp[t] <= cursor[PaidTo(t)]
                 PROVE  KnownTxid(TxidOf[t])
    BY DEF PassedIsBooked, PaidTo
  <2>2. PaidTo(t) \in DOMAIN addrs
    BY <2>1 DEF BooksInv, TransfersFit, RequestsFit, PaidTo
  <2>3. PaidTo(t) \in AddressIds BY <2>1, <2>2 DEF TypeOK
  <2>4. QED BY <2>1, <2>3 DEF BooksInv, CursorsFit, Passed
<1>6. QED BY <1>1, <1>2, <1>3, <1>4, <1>5, PTL DEF WSpec
-----------------------------------------------------------------------------
(* A transfer and the request it pays.                                     *)

(* What a request asks for and what a transfer pays stay as they were made.*)
LEMMA RecordsAlwaysFit == Spec => [](TypeOK /\ RequestsFit /\ TransfersFit)
<1>1. Init => TypeOK /\ RequestsFit /\ TransfersFit
  BY TypeInit DEF Init, RequestsFit, TransfersFit
<1>2. TypeOK /\ RequestsFit /\ TransfersFit /\ [Next]_vars
        => TypeOK' /\ RequestsFit' /\ TransfersFit'
  BY TypeStep, RequestsStep, TransfersStep
<1>3. QED BY <1>1, <1>2, PTL DEF Spec

(* Every transaction carries one transfer to our addresses.                *)
OwnTxids == \A t, u \in Transfers : TxidOf[t] = TxidOf[u] => t = u

LEMMA OwnRequestStep ==
  ASSUME TypeOK, RequestsFit, TransfersFit, DistinctTails, OwnTxids,
         Cardinality(Players) <= MemoSteps, [Next]_vars,
         NEW r \in DOMAIN items, NEW t \in DOMAIN chain,
         items[r].txid = NoTx, items'[r].txid = TxidOf[t],
         items[chain[t].payer].status = "pending",
         items[chain[t].payer].addressId = items[r].addressId,
         IF Memo(items[chain[t].payer].network) THEN chain[t].memo = chain[t].payer
         ELSE chain[t].amount = items[chain[t].payer].usdt
  PROVE  chain[t].payer = r
<1> DEFINE s == chain[t].payer
<1>1. t \in Transfers /\ TxidOf[t] # NoTx BY CatalogueAssumption DEF TypeOK
<1>2. PICK u \in DOMAIN chain : r \in FindCandidate(chain[u]) /\ TxidOf[u] = TxidOf[t]
  <2>1. Shape BY StepShape
  <2>2. ~ UNCHANGED items BY <1>1
  <2>3. \A q, v : Books(q, v) /\ q = r => v \in DOMAIN chain /\ r \in FindCandidate(chain[v])
                                         /\ TxidOf[v] = items'[r].txid
    BY DEF Books
  <2>4. \A q, v : Books(q, v) /\ q # r => items'[r] = items[r] BY DEF Books
  <2>5. CASE RequestChange
    BY <1>1, <2>2, <2>3, <2>4, <2>5 DEF RequestChange, Sweeps, Flags, Opens, Touches,
       AtMostLapsed, Lapsed, SamePayment, SameTerms
  <2>6. CASE \E q \in DOMAIN items : Decision(q)
    BY <1>1, <2>6 DEF Decision, Decides, Touches, AtMostLapsed, Lapsed, SamePayment
  <2>7. QED BY <2>1, <2>2, <2>5, <2>6 DEF Shape
<1>3. u = t BY <1>1, <1>2 DEF OwnTxids, TypeOK
<1>4. /\ items[r].status = "pending" /\ FamilyOf[items[r].network] = FamilyOf[chain[t].network]
      /\ IF Memo(chain[t].network) THEN chain[t].memo = r ELSE items[r].usdt = chain[t].amount
  BY <1>2, <1>3, CandidateFacts
<1>5. s \in DOMAIN items /\ FamilyOf[chain[t].network] = FamilyOf[items[s].network]
  BY DEF TransfersFit
<1>6. FamilyOf[items[s].network] = FamilyOf[items[r].network] BY <1>4, <1>5
<1>7. CASE Memo(chain[t].network) BY <1>4, <1>5, <1>7 DEF Memo
<1>8. CASE ~Memo(chain[t].network)
  <2>1. ~Memo(items[s].network) /\ ~Memo(items[r].network) BY <1>4, <1>5, <1>8 DEF Memo
  <2>2. items[s].usdt = items[r].usdt BY <1>4, <1>8, <2>1
  <2>3. isOpen(items[s]) /\ isOpen(items[r]) BY <1>4 DEF isOpen
  <2>4. QED BY <1>5, <2>1, <2>2, <2>3 DEF DistinctTails
<1>9. QED BY <1>7, <1>8

(* A transfer that pays a live request as it was told to is booked to no   *)
(* other request of that address, whatever the order of requests and       *)
(* transfers: the tail, or the comment, keeps them apart.  It takes a tail *)
(* for every player, and one transfer to a transaction: findCandidate()    *)
(* is not even called for the second one (payments.service.ts).            *)
THEOREM PaidToItsOwn ==
  ASSUME IsFiniteSet(Players), Cardinality(Players) <= MemoSteps, OwnTxids
  PROVE  Spec => PaysItsOwn
<1>1. TypeOK /\ RequestsFit /\ TransfersFit /\ DistinctTails /\ [Next]_vars =>
        [\A r \in DOMAIN items, t \in DOMAIN chain :
           /\ items[r].txid = NoTx /\ items'[r].txid = TxidOf[t]
           /\ LET s == chain[t].payer IN
                /\ items[s].status = "pending" /\ items[s].addressId = items[r].addressId
                /\ IF Memo(items[s].network) THEN chain[t].memo = s
                   ELSE chain[t].amount = items[s].usdt
           => chain[t].payer = r]_vars
  BY OwnRequestStep
<1>2. QED BY <1>1, RecordsAlwaysFit, TailsAreDistinct, PTL DEF Spec, PaysItsOwn

(* An address is entered the way the readers report it, up to the letter   *)
(* case; the wallets of TON have other forms as well.                      *)
EnteredAsReported == \A a \in Addresses : Canonical[TonRaw[a]] = Canonical[a]

(* Only what findCandidate() finds no request for goes to the unclaimed.   *)
LEMMA NewRows ==
  ASSUME [Next]_vars, NEW t \in DOMAIN unmatched', t \notin DOMAIN unmatched
  PROVE  t \in DOMAIN chain /\ IngestUnmatched(t)
<1>1. CASE UNCHANGED unmatched BY <1>1
<1>2. CASE UNCHANGED vars BY <1>1, <1>2 DEF vars
<1>3. CASE PlayerStep BY <1>1, <1>3 DEF PlayerStep, FindOrCreate, Create, CancelByPlayer
<1>4. CASE AdminStep
  <2>1. ASSUME NEW u \in DOMAIN unmatched, NEW p \in Players, CreditUnmatched(u, p)
        PROVE  DOMAIN unmatched' = DOMAIN unmatched
    BY <2>1 DEF CreditUnmatched
  <2>2. ASSUME NEW u \in DOMAIN unmatched, IgnoreUnmatched(u)
        PROVE  DOMAIN unmatched' = DOMAIN unmatched
    BY <2>2 DEF IgnoreUnmatched
  <2>3. ASSUME NEW r \in DOMAIN items, Approve(r) \/ Reject(r) PROVE UNCHANGED unmatched
    BY <2>3 DEF Approve, Reject
  <2>4. ASSUME NEW i \in DOMAIN addrs,
               RemoveAddress(i) \/ \E active \in BOOLEAN : UpdateAddress(i, active)
        PROVE  UNCHANGED unmatched
    BY <2>4 DEF RemoveAddress, UpdateAddress
  <2>5. CASE \/ \E p \in Players : RemovePlayer(p)
             \/ \E c \in Configs : SetDeposits(c)
             \/ \E a \in Addresses : AddAddress(a)
    BY <1>1, <2>5 DEF RemovePlayer, SetDeposits, AddAddress
  <2>6. QED BY <1>1, <1>4, <2>1, <2>2, <2>3, <2>4, <2>5 DEF AdminStep
<1>5. CASE EnvironmentStep
  BY <1>1, <1>5 DEF EnvironmentStep, Sweep, DeadlinePasses, FinalityPasses, Send
<1>6. ASSUME NEW u \in DOMAIN chain, Ingest(u) PROVE t \in DOMAIN chain /\ IngestUnmatched(t)
  <2>1. CASE UNCHANGED unmatched BY <1>1, <2>1
  <2>2. CASE IngestUnmatched(u)
    <3> DEFINE row == [status |-> "new", creditedTo |-> Nobody]
    <3>1. unmatched' = Put(unmatched, u, row) BY <2>2 DEF IngestUnmatched
    <3> HIDE DEF row
    <3>2. DOMAIN unmatched' = DOMAIN unmatched \cup {u} BY <3>1 DEF Put
    <3>3. QED BY <2>2, <3>2
  <2>3. QED BY <1>6, <2>1, <2>2 DEF Ingest, IngestDuplicate, IngestWatched, IngestMatched
<1>7. ASSUME NEW r \in OnSettleList, NEW verdict \in Verdicts, Settle(r, verdict)
      PROVE  UNCHANGED unmatched
  BY <1>7 DEF Settle
<1>8. QED BY <1>1, <1>2, <1>3, <1>4, <1>5, <1>6, <1>7 DEF Next, WatcherStep

LEMMA FoundStep ==
  ASSUME TypeOK, RequestsFit, TransfersFit, EnteredAsReported, [Next]_vars,
         NEW t \in DOMAIN unmatched' \ DOMAIN unmatched,
         items[chain[t].payer].status = "pending", ~chain[t].suspect,
         chain[t].amount = items[chain[t].payer].usdt,
         Memo(items[chain[t].payer].network) => chain[t].memo = chain[t].payer
  PROVE  FALSE
<1> DEFINE r == chain[t].payer
           tx == chain[t]
<1>1. t \in DOMAIN chain /\ IngestUnmatched(t) BY NewRows
<1>2. FindCandidate(tx) = {} BY <1>1 DEF IngestUnmatched
<1>3. /\ r \in DOMAIN items /\ tx.token = items[r].token
      /\ FamilyOf[tx.network] = FamilyOf[items[r].network]
      /\ tx.to = ReportedAs(tx.network, items[r].address)
  BY <1>1 DEF TransfersFit
<1>4. items[r] \in Request /\ tx \in Transfer /\ r \in Nat
  BY <1>1, <1>3, OrderAssumption DEF TypeOK
<1>5. items[r].address \in Addresses /\ items[r].usdt \in Int BY <1>4 DEF Request
<1>6. sameAddress(items[r].address, tx.to)
  BY <1>3, <1>5 DEF sameAddress, ReportedAs, EnteredAsReported
<1>7. r \in Candidates(tx) BY <1>3, <1>6 DEF Candidates
<1>8. CASE Memo(tx.network)
  <2>1. tx.memo = r BY <1>3, <1>8 DEF Memo
  <2>2. tx.amount >= items[r].usdt BY <1>5
  <2>3. QED BY <1>2, <1>7, <1>8, <2>1, <2>2 DEF FindCandidate
<1>9. CASE ~Memo(tx.network)
  <2> DEFINE fits == {q \in Candidates(tx) : items[q].usdt = tx.amount}
  <2>1. r \in fits BY <1>7
  <2>2. fits \in SUBSET Nat BY OrderAssumption DEF Candidates, TypeOK
  <2>3. FirstOf(fits) = {} BY <1>2, <1>9 DEF FindCandidate
  <2> HIDE DEF fits
  <2>4. \E n \in fits : \A m \in fits : n <= m BY <2>1, <2>2, LeastNumber
  <2>5. QED BY <2>3, <2>4 DEF FirstOf
<1>10. QED BY <1>8, <1>9

(* A transfer that pays a live request as it was told to is found by       *)
(* findCandidate() and never put among those nobody claimed, in whichever  *)
(* network of the family it came, as long as addresses are entered the way *)
(* the readers report them.                                                *)
THEOREM PaidIsFound ==
  ASSUME EnteredAsReported
  PROVE  Spec => PaidAsToldIsFound
<1>1. TypeOK /\ RequestsFit /\ TransfersFit /\ [Next]_vars =>
        [\A t \in DOMAIN unmatched' \ DOMAIN unmatched :
           LET r == chain[t].payer IN
             ~ /\ items[r].status = "pending" /\ ~chain[t].suspect
               /\ chain[t].amount = items[r].usdt
               /\ Memo(items[r].network) => chain[t].memo = r]_vars
  <2>1. TypeOK /\ RequestsFit /\ TransfersFit /\ [Next]_vars =>
          \A t \in DOMAIN unmatched' \ DOMAIN unmatched :
            LET r == chain[t].payer IN
              ~ /\ items[r].status = "pending" /\ ~chain[t].suspect
                /\ chain[t].amount = items[r].usdt
                /\ Memo(items[r].network) => chain[t].memo = r
    BY FoundStep
  <2>2. QED BY <2>1
<1>2. QED BY <1>1, RecordsAlwaysFit, PTL DEF Spec, PaidAsToldIsFound
=============================================================================
