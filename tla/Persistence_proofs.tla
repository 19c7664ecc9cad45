------------------------- MODULE Persistence_proofs --------------------------
(***************************************************************************)
(* Every operation is a Change of at most two records, so what Change      *)
(* keeps is shown once (ChangeKeeps), and each operation only has to show  *)
(* that the images it leaves are well typed (NextCases).                   *)
(***************************************************************************)
EXTENDS Persistence, TLAPS

Write == [doc : Docs, no : Nat, image : Image, sent : BOOLEAN]

(* The variables have their types.                                         *)
Typed ==
  /\ mem \in [Docs -> Image] /\ db \in [Docs -> Image]
  /\ issued \in [Docs -> Nat] /\ landed \in [Docs -> Nat]
  /\ writes \subseteq Write
  /\ deeds \in Nat /\ fails \in Nat /\ crashes \in Nat
  /\ held \in [Docs -> SUBSET Image]
  /\ closed \in [Requests -> Nat] /\ unsaved \in [Requests -> Nat]

(* Commands of a document are numbered apart, up to the last one given,    *)
(* and the last one given holds the record as it is.                       *)
Numbered ==
  /\ \A v, w \in writes : v.doc = w.doc /\ v.no = w.no => v = w
  /\ \A w \in writes : w.no \in 1..issued[w.doc]
  /\ \A d \in Docs : landed[d] \in 0..issued[d]
  /\ \A w \in writes : w.no = issued[w.doc] => w.image = mem[w.doc]

(* What is on its way was whole when it was saved.                         *)
WholeOnTheWay == \A w \in writes : Scalars(w.image) \in held[w.doc]

IInv == Typed /\ Numbered /\ LastWriteIsTheRecord /\ WholeOnTheWay /\ OnlyWholeRecords

(* new names documents and gives each an image.                            *)
IsChange(new) == \E D \in SUBSET Docs : new \in [D -> Image]

-----------------------------------------------------------------------------
LEMMA ImageFields ==
  ASSUME NEW i \in Image
  PROVE  /\ i.sum \in Nat /\ i.nonce \in Nat /\ i.seeds \in Nat
         /\ i.past \in Nat /\ i.born \in Nat
         /\ Scalars(i) \in Image
         /\ \A n \in Nat : /\ [i EXCEPT !.past = n] \in Image
                           /\ [i EXCEPT !.sum = n] \in Image
                           /\ Scalars([i EXCEPT !.past = n]) = Scalars(i)
BY DEF Image, Scalars

LEMMA ImageOfFields ==
  ASSUME NEW i \in Image, NEW a \in Nat, NEW b \in Nat, NEW c \in Nat
  PROVE  /\ [i EXCEPT !.sum = a, !.nonce = b, !.past = c] \in Image
         /\ [i EXCEPT !.nonce = a, !.seeds = b, !.past = c] \in Image
         /\ [i EXCEPT !.status = "here", !.born = a, !.sum = b] \in Image
         /\ [i EXCEPT !.status = "here", !.sum = a] \in Image
BY DEF Image

LEMMA OneIsChange ==
  ASSUME NEW d \in Docs, NEW i \in Image
  PROVE  IsChange(One(d, i))
<1>1. One(d, i) \in [{d} -> Image]
  BY DEF One
<1> QED
  BY <1>1 DEF IsChange

LEMMA BothIsChange ==
  ASSUME NEW d \in Docs, NEW i \in Image, NEW e \in Docs, NEW j \in Image
  PROVE  IsChange(Both(d, i, e, j))
<1>1. Both(d, i, e, j) \in [{d, e} -> Image]
  BY DEF Both
<1> QED
  BY <1>1 DEF IsChange

(* What a change makes of a command: only what it shares may be newer.     *)
Renewed(w, new) ==
  IF SharesWith(w, new) THEN [w EXCEPT !.image.past = new[w.doc].past] ELSE w

LEMMA RenewedKeeps ==
  ASSUME NEW w \in Write, NEW new, IsChange(new)
  PROVE  /\ Renewed(w, new) \in Write
         /\ Renewed(w, new).doc = w.doc /\ Renewed(w, new).no = w.no
         /\ Renewed(w, new).sent = w.sent
         /\ Scalars(Renewed(w, new).image) = Scalars(w.image)
         /\ w.doc \notin DOMAIN new => Renewed(w, new) = w
<1>1. CASE ~SharesWith(w, new)
  BY <1>1 DEF Renewed
<1>2. CASE SharesWith(w, new)
  <2>1. w.doc \in DOMAIN new /\ new[w.doc] \in Image
    BY <1>2 DEF SharesWith, IsChange
  <2>2. new[w.doc].past \in Nat /\ w.image \in Image
    BY <2>1, ImageFields DEF Write
  <2>3. Renewed(w, new) = [w EXCEPT !.image = [w.image EXCEPT !.past = new[w.doc].past]]
    BY <1>2 DEF Renewed, Write
  <2>4. [w.image EXCEPT !.past = new[w.doc].past] \in Image
    BY <2>2, ImageFields
  <2>5. Scalars([w.image EXCEPT !.past = new[w.doc].past]) = Scalars(w.image)
    BY <2>2, ImageFields
  <2> QED
    BY <2>1, <2>3, <2>4, <2>5 DEF Write
<1> QED
  BY <1>1, <1>2

(* What all of the operations keep.                                        *)
LEMMA ChangeKeeps ==
  ASSUME IInv, NEW new, IsChange(new), Change(new), closed' \in [Requests -> Nat],
         unsaved' = unsaved
  PROVE  IInv'
<1> USE DEF IInv
<1>1. PICK D \in SUBSET Docs : new \in [D -> Image]
  BY DEF IsChange
<1>2. /\ mem' \in [Docs -> Image]
      /\ \A d \in D : mem'[d] = new[d]
      /\ \A d \in Docs \ D : mem'[d] = mem[d]
  BY <1>1 DEF Change, Typed
<1>3. /\ issued' \in [Docs -> Nat]
      /\ \A d \in D : issued'[d] = issued[d] + 1
      /\ \A d \in Docs \ D : issued'[d] = issued[d]
  BY <1>1 DEF Change, Persist, Typed
<1>4. /\ held' \in [Docs -> SUBSET Image]
      /\ \A d \in Docs : held'[d] = held[d] \cup {Scalars(mem'[d])}
  BY <1>2, ImageFields DEF Change, Typed
<1>5. \A w \in writes' :
        \/ \E v \in writes : w = Renewed(v, new)
        \/ \E d \in D : w = [doc |-> d, no |-> issued[d] + 1, image |-> new[d], sent |-> FALSE]
  BY <1>1 DEF Change, Persist, Waiting, Save, Renewed
<1>6. \A v \in writes : v \in Write
  BY DEF Typed
<1>7. /\ landed' = landed /\ db' = db /\ fails' = fails /\ crashes' = crashes
      /\ deeds' \in Nat
  BY DEF Change, Typed
<1>8. writes' \subseteq Write
  <2> SUFFICES ASSUME NEW w \in writes' PROVE w \in Write
    OBVIOUS
  <2>1. ASSUME NEW v \in writes, w = Renewed(v, new) PROVE w \in Write
    BY <2>1, <1>6, RenewedKeeps
  <2>2. ASSUME NEW d \in D,
               w = [doc |-> d, no |-> issued[d] + 1, image |-> new[d], sent |-> FALSE]
        PROVE  w \in Write
    <3>1. issued[d] + 1 \in Nat /\ new[d] \in Image /\ d \in Docs
      BY <1>1 DEF Typed
    <3> QED
      BY <2>2, <3>1 DEF Write
  <2> QED
    BY <1>5, <2>1, <2>2
<1>9. Typed'
  BY <1>2, <1>3, <1>4, <1>7, <1>8 DEF Typed
<1>10. \A w \in writes' :
        \/ \E v \in writes : /\ w = Renewed(v, new) /\ w.doc = v.doc /\ w.no = v.no
                             /\ w.no \in 1..issued[w.doc]
        \/ /\ w.doc \in D /\ w.no = issued[w.doc] + 1 /\ w.image = new[w.doc]
           /\ w.sent = FALSE
  <2> SUFFICES ASSUME NEW w \in writes', NEW v \in writes, w = Renewed(v, new)
               PROVE  w.doc = v.doc /\ w.no = v.no /\ w.no \in 1..issued[w.doc]
    BY <1>5
  <2> QED
    BY <1>6, RenewedKeeps DEF Numbered
<1>11. Numbered'
  <2>1. ASSUME NEW v \in writes', NEW w \in writes', v.doc = w.doc, v.no = w.no
        PROVE  v = w
    <3>1. v.doc \in Docs /\ issued[v.doc] \in Nat
      BY <1>8 DEF Write, Typed
    <3>2. CASE v.no <= issued[v.doc]
      <4>1. PICK x \in writes : v = Renewed(x, new) /\ v.doc = x.doc /\ v.no = x.no
        BY <1>10, <3>1, <3>2
      <4>2. PICK y \in writes : w = Renewed(y, new) /\ w.doc = y.doc /\ w.no = y.no
        BY <1>10, <2>1, <3>1, <3>2
      <4> QED
        BY <2>1, <4>1, <4>2 DEF Numbered
    <3>3. CASE ~(v.no <= issued[v.doc])
      <4>1. /\ v.doc \in D /\ v.no = issued[v.doc] + 1 /\ v.image = new[v.doc] /\ v.sent = FALSE
        BY <1>10, <3>1, <3>3
      <4>2. /\ w.doc \in D /\ w.no = issued[w.doc] + 1 /\ w.image = new[w.doc] /\ w.sent = FALSE
        BY <1>10, <2>1, <3>1, <3>3
      <4>3. v \in Write /\ w \in Write
        BY <1>8
      <4> QED
        BY <2>1, <4>1, <4>2, <4>3 DEF Write
    <3> QED
      BY <3>2, <3>3
  <2>2. ASSUME NEW w \in writes' PROVE w.no \in 1..issued'[w.doc]
    <3>1. w.doc \in Docs /\ issued[w.doc] \in Nat
      BY <1>8 DEF Write, Typed
    <3>2. issued'[w.doc] \in {issued[w.doc], issued[w.doc] + 1}
      BY <1>3, <3>1
    <3>3. w.doc \in D => issued'[w.doc] = issued[w.doc] + 1
      BY <1>3
    <3> QED
      BY <1>10, <3>1, <3>2, <3>3
  <2>3. ASSUME NEW d \in Docs PROVE landed'[d] \in 0..issued'[d]
    <3>1. landed[d] \in 0..issued[d] /\ issued[d] \in Nat
      BY DEF Numbered, Typed
    <3>2. issued'[d] \in {issued[d], issued[d] + 1}
      BY <1>3
    <3> QED
      BY <1>7, <3>1, <3>2
  <2>4. ASSUME NEW w \in writes', w.no = issued'[w.doc] PROVE w.image = mem'[w.doc]
    <3>1. w.doc \in Docs /\ issued[w.doc] \in Nat
      BY <1>8 DEF Write, Typed
    <3>2. CASE w.doc \in D
      <4>1. w.no = issued[w.doc] + 1
        BY <2>4, <1>3, <3>2
      <4>2. w.image = new[w.doc]
        BY <4>1, <1>10, <3>1
      <4> QED
        BY <4>2, <1>2, <3>2
    <3>3. CASE w.doc \notin D
      <4>1. w.no = issued[w.doc]
        BY <2>4, <1>3, <3>1, <3>3
      <4>2. PICK v \in writes : w = Renewed(v, new) /\ w.doc = v.doc /\ w.no = v.no
        BY <1>10, <3>3
      <4>3. w = v
        BY <4>2, <1>1, <1>6, <3>3, RenewedKeeps
      <4>4. v.image = mem[v.doc]
        BY <4>1, <4>2, <4>3 DEF Numbered
      <4> QED
        BY <4>3, <4>4, <1>2, <3>1, <3>3
    <3> QED
      BY <3>2, <3>3
  <2> QED
    BY <2>1, <2>2, <2>3, <2>4 DEF Numbered
<1>12. LastWriteIsTheRecord'
  <2> SUFFICES ASSUME NEW d \in Docs, issued'[d] > 0, landed'[d] = issued'[d]
               PROVE  db'[d] = mem'[d]
    BY DEF LastWriteIsTheRecord
  <2>1. issued[d] \in Nat /\ landed[d] \in 0..issued[d]
    BY DEF Typed, Numbered
  <2>2. d \notin D
    BY <2>1, <1>3, <1>7
  <2> QED
    BY <2>1, <2>2, <1>2, <1>3, <1>7 DEF LastWriteIsTheRecord
<1>13. WholeOnTheWay'
  <2> SUFFICES ASSUME NEW w \in writes' PROVE Scalars(w.image) \in held'[w.doc]
    BY DEF WholeOnTheWay
  <2>1. w.doc \in Docs
    BY <1>8 DEF Write
  <2>2. CASE w.doc \in D /\ w.image = new[w.doc]
    BY <2>1, <2>2, <1>2, <1>4
  <2>3. ASSUME NEW v \in writes, w = Renewed(v, new) PROVE Scalars(w.image) \in held'[w.doc]
    BY <2>1, <2>3, <1>4, <1>6, RenewedKeeps DEF WholeOnTheWay
  <2> QED
    BY <2>2, <2>3, <1>10
<1>14. OnlyWholeRecords'
  BY <1>4, <1>7 DEF OnlyWholeRecords
<1> QED
  BY <1>9, <1>11, <1>12, <1>13, <1>14

-----------------------------------------------------------------------------
(* The operations, one after another: each is a change of records, and the *)
(* status of a request changes only while it may.                          *)
Unsettled == Open \cup {"none"}

SettledAs(r, i) ==
  i.status \in IF r \in Deposits THEN {"approved"} ELSE {"approved", "rejected", "canceled"}

Operation ==
  \E new :
    /\ IsChange(new) /\ Change(new) /\ closed' \in [Requests -> Nat] /\ unsaved' = unsaved
    /\ \A r \in Requests :
         \/ /\ closed'[r] = closed[r]
            /\ mem'[r].status = mem[r].status \/ mem[r].status \in Unsettled
         \/ /\ closed'[r] = closed[r] + 1
            /\ mem[r].status \in Unsettled /\ SettledAs(r, mem'[r])

LEMMA ChangeOne ==
  ASSUME Typed, NEW d \in Docs, NEW i \in Image, Change(One(d, i))
  PROVE  mem'[d] = i /\ \A e \in Docs \ {d} : mem'[e] = mem[e]
BY DEF Change, One, Typed

LEMMA ChangeBoth ==
  ASSUME Typed, NEW d \in Docs, NEW i \in Image, NEW e \in Docs, NEW j \in Image, d # e,
         Change(Both(d, i, e, j))
  PROVE  mem'[d] = i /\ mem'[e] = j /\ \A x \in Docs \ {d, e} : mem'[x] = mem[x]
BY DEF Change, Both, Typed

LEMMA KeepingOne ==
  ASSUME Typed, NEW d \in Docs, NEW i \in Image, Keeping(Change(One(d, i))),
         d \in Requests => mem[d].status \in Unsettled
  PROVE  Operation
<1>1. Requests \subseteq Docs
  BY DEF Docs
<1>2. IsChange(One(d, i)) /\ Change(One(d, i)) /\ closed' = closed /\ unsaved' = unsaved
  BY OneIsChange DEF Keeping
<1>3. \A r \in Requests : mem'[r].status = mem[r].status \/ mem[r].status \in Unsettled
  BY <1>1, <1>2, ChangeOne
<1> QED
  BY <1>2, <1>3 DEF Operation, Typed

LEMMA KeepingBoth ==
  ASSUME Typed, NEW p \in Players, NEW i \in Image, NEW e \in Docs, NEW j \in Image, p # e,
         Keeping(Change(Both(p, i, e, j))), e \in Requests => mem[e].status \in Unsettled
  PROVE  Operation
<1>1. Requests \subseteq Docs /\ p \in Docs /\ p \notin Requests
  BY DurableAssumption DEF Docs
<1>2. IsChange(Both(p, i, e, j)) /\ Change(Both(p, i, e, j)) /\ closed' = closed
      /\ unsaved' = unsaved
  BY <1>1, BothIsChange DEF Keeping
<1>3. \A r \in Requests : mem'[r].status = mem[r].status \/ mem[r].status \in Unsettled
  BY <1>1, <1>2, ChangeBoth
<1> QED
  BY <1>2, <1>3 DEF Operation, Typed

LEMMA ClosingOne ==
  ASSUME Typed, NEW r \in Requests, NEW i \in Image, Closing(r, Change(One(r, i))),
         mem[r].status \in Unsettled, SettledAs(r, i)
  PROVE  Operation
<1>1. Requests \subseteq Docs
  BY DEF Docs
<1>2. IsChange(One(r, i)) /\ Change(One(r, i))
  BY <1>1, OneIsChange DEF Closing
<1>3. mem'[r] = i /\ \A e \in Docs \ {r} : mem'[e] = mem[e]
  BY <1>1, <1>2, ChangeOne
<1>4. /\ closed' \in [Requests -> Nat] /\ closed'[r] = closed[r] + 1 /\ unsaved' = unsaved
      /\ \A q \in Requests \ {r} : closed'[q] = closed[q]
  BY DEF Closing, Typed
<1>5. \A q \in Requests :
        \/ closed'[q] = closed[q] /\ mem'[q].status = mem[q].status
        \/ /\ closed'[q] = closed[q] + 1
           /\ mem[q].status \in Unsettled /\ SettledAs(q, mem'[q])
  BY <1>1, <1>3, <1>4
<1> QED
  BY <1>2, <1>4, <1>5 DEF Operation

LEMMA ClosingBoth ==
  ASSUME Typed, NEW p \in Players, NEW i \in Image, NEW r \in Requests, NEW j \in Image,
         Closing(r, Change(Both(p, i, r, j))),
         mem[r].status \in Unsettled, SettledAs(r, j)
  PROVE  Operation
<1>1. Requests \subseteq Docs /\ p \in Docs /\ p \notin Requests
  BY DurableAssumption DEF Docs
<1>2. IsChange(Both(p, i, r, j)) /\ Change(Both(p, i, r, j))
  BY <1>1, BothIsChange DEF Closing
<1>3. mem'[r] = j /\ \A e \in Docs \ {p, r} : mem'[e] = mem[e]
  BY <1>1, <1>2, ChangeBoth
<1>4. /\ closed' \in [Requests -> Nat] /\ closed'[r] = closed[r] + 1 /\ unsaved' = unsaved
      /\ \A q \in Requests \ {r} : closed'[q] = closed[q]
  BY DEF Closing, Typed
<1>5. \A q \in Requests :
        \/ closed'[q] = closed[q] /\ mem'[q].status = mem[q].status
        \/ /\ closed'[q] = closed[q] + 1
           /\ mem[q].status \in Unsettled /\ SettledAs(q, mem'[q])
  BY <1>1, <1>3, <1>4
<1> QED
  BY <1>2, <1>4, <1>5 DEF Operation

LEMMA PlayersOperate ==
  ASSUME Typed, NEW p \in Players,
         \/ FindOrCreate(p) \/ Rotate(p) \/ SetClientSeed(p) \/ TopUp(p)
         \/ ZeroBalance(p) \/ Remove(p)
         \/ \E cost \in {0, 1}, payout \in {0, 2} : Play(p, cost, payout)
  PROVE  Operation
<1>1. p \in Docs /\ p \notin Requests /\ mem[p] \in Image
  BY DurableAssumption DEF Docs, Typed
<1>2. ASSUME NEW i \in Image, Keeping(Change(One(p, i))) PROVE Operation
  BY <1>1, <1>2, KeepingOne
<1>3. Blank \in Image
  BY DEF Blank, Image
<1>4. CASE FindOrCreate(p)
  <2>0. deeds + 1 \in Nat /\ StartBalance \in Nat
    BY DurableAssumption DEF Typed
  <2>1. [Blank EXCEPT !.status = "here", !.born = deeds + 1, !.sum = StartBalance] \in Image
    BY <1>3, <2>0, ImageOfFields, Zenon
  <2> QED
    BY <1>2, <1>4, <2>1 DEF FindOrCreate
<1>5. CASE Rotate(p)
  <2>0. 0 \in Nat /\ mem[p].seeds + 1 \in Nat /\ mem[p].past + 1 \in Nat
    BY <1>1, ImageFields
  <2>1. [mem[p] EXCEPT !.nonce = 0, !.seeds = @ + 1, !.past = @ + 1] \in Image
    BY <1>1, <2>0, ImageOfFields, Zenon
  <2> QED
    BY <1>2, <1>5, <2>1 DEF Rotate
<1>6. CASE SetClientSeed(p)
  <2>1. [mem[p] EXCEPT !.seeds = @ + 1] \in Image
    BY <1>1 DEF Image
  <2> QED
    BY <1>2, <1>6, <2>1 DEF SetClientSeed
<1>7. CASE TopUp(p)
  <2>1. ToppedUp(p, 1) \in Image
    BY <1>1 DEF Image, ToppedUp
  <2> QED
    BY <1>2, <1>7, <2>1 DEF TopUp
<1>8. CASE ZeroBalance(p)
  <2>1. Charged(p, mem[p].sum) \in Image
    BY <1>1 DEF Image, Charged
  <2> QED
    BY <1>2, <1>8, <2>1 DEF ZeroBalance
<1>9. CASE Remove(p)
  BY <1>2, <1>3, <1>9 DEF Remove
<1>10. ASSUME NEW cost \in {0, 1}, NEW payout \in {0, 2}, Play(p, cost, payout) PROVE Operation
  <2>0. /\ mem[p].sum \in Nat /\ mem[p].nonce \in Nat /\ mem[p].past \in Nat
        /\ cost \in Nat /\ payout \in Nat /\ cost <= mem[p].sum
    BY <1>1, <1>10, ImageFields DEF Play
  <2>1. /\ mem[p].sum - cost + payout \in Nat
        /\ mem[p].nonce + 1 \in Nat /\ mem[p].past + 1 \in Nat
    BY <2>0
  <2>2. Played(p, cost, payout) \in Image
    BY <1>1, <2>1, ImageOfFields, Zenon DEF Played
  <2> QED
    BY <1>2, <1>10, <2>2 DEF Play
<1> QED
  BY <1>4, <1>5, <1>6, <1>7, <1>8, <1>9, <1>10

LEMMA ImageWith ==
  ASSUME Typed, NEW d \in Docs,
         NEW status \in {"here", "off", "processing", "confirmed", "approved", "rejected",
                         "canceled", "expired", "credited", "ignored"}
  PROVE  With(d, status) \in Image /\ With(d, status).status = status
BY DEF Typed, Image, With

LEMMA ImageNew ==
  ASSUME NEW status \in {"here", "pending", "new"}
  PROVE  [Blank EXCEPT !.status = status] \in Image /\ Blank \in Image
BY DEF Blank, Image

LEMMA ImageGiven ==
  ASSUME Typed, NEW p \in Players
  PROVE  ToppedUp(p, 1) \in Image
<1>1. mem[p] \in Image
  BY DEF Typed, Docs
<1>2. mem[p].sum + 1 \in Nat
  BY <1>1, ImageFields
<1> QED
  BY <1>1, <1>2, ImageFields, Zenon DEF ToppedUp

LEMMA ImageMoney ==
  ASSUME Typed, NEW p \in Players, mem[p].sum >= 1
  PROVE  Charged(p, 1) \in Image
<1>1. mem[p] \in Image
  BY DEF Typed, Docs
<1>2. mem[p].sum - 1 \in Nat
  BY <1>1, ImageFields
<1> QED
  BY <1>1, <1>2, ImageFields, Zenon DEF Charged

LEMMA DepositsOperate ==
  ASSUME Typed, NEW r \in Deposits,
         \/ CreateDeposit(r) \/ Approve(r) \/ Reject(r) \/ CancelByPlayer(r)
         \/ Sweep(r) \/ Ingest(r) \/ Settle(r)
  PROVE  Operation
<1>1. r \in Docs /\ r \in Requests /\ Owner[r] \in Players
  BY DurableAssumption DEF Docs, Requests
<1>2. ASSUME NEW i \in Image, Keeping(Change(One(r, i))), mem[r].status \in Unsettled
      PROVE  Operation
  BY <1>1, <1>2, KeepingOne
<1>3. CASE CreateDeposit(r)
  BY <1>2, <1>3, ImageNew DEF CreateDeposit, Is, Unsettled
<1>4. CASE Approve(r)
  <2>1. With(r, "approved") \in Image /\ With(r, "approved").status = "approved"
    BY <1>1, ImageWith
  <2>2. ToppedUp(Owner[r], 1) \in Image
    BY <1>1, ImageGiven
  <2>3. mem[r].status \in Unsettled /\ SettledAs(r, With(r, "approved"))
    BY <1>4, <2>1 DEF Approve, Is, Unsettled, Open, SettledAs
  <2>4. Closing(r, Change(Both(Owner[r], ToppedUp(Owner[r], 1), r, With(r, "approved"))))
    BY <1>4 DEF Approve
  <2> QED
    BY <1>1, <2>1, <2>2, <2>3, <2>4, ClosingBoth
<1>5. CASE Reject(r)
  BY <1>1, <1>2, <1>5, ImageWith DEF Reject, Is, Unsettled
<1>6. CASE CancelByPlayer(r)
  BY <1>1, <1>2, <1>6, ImageWith DEF CancelByPlayer, Is, Unsettled, Open
<1>7. CASE Sweep(r)
  BY <1>1, <1>2, <1>7, ImageWith DEF Sweep, Is, Unsettled, Open
<1>8. CASE Ingest(r)
  BY <1>1, <1>2, <1>8, ImageWith DEF Ingest, Is, Unsettled, Open
<1>9. CASE Settle(r)
  BY <1>1, <1>2, <1>9, ImageWith DEF Settle, Is, Unsettled, Open
<1> QED
  BY <1>3, <1>4, <1>5, <1>6, <1>7, <1>8, <1>9

LEMMA TransfersOperate ==
  ASSUME Typed, NEW u \in Transfers,
         AddUnmatched(u) \/ IgnoreUnmatched(u) \/ \E p \in Players : CreditUnmatched(u, p)
  PROVE  Operation
<1>1. u \in Docs /\ u \notin Requests /\ u \notin Players
  BY DurableAssumption DEF Docs
<1>2. ASSUME NEW i \in Image, Keeping(Change(One(u, i))) PROVE Operation
  BY <1>1, <1>2, KeepingOne
<1>3. CASE AddUnmatched(u)
  BY <1>2, <1>3, ImageNew DEF AddUnmatched
<1>4. CASE IgnoreUnmatched(u)
  BY <1>1, <1>2, <1>4, ImageWith DEF IgnoreUnmatched
<1>5. ASSUME NEW p \in Players, CreditUnmatched(u, p) PROVE Operation
  <2>1. With(u, "credited") \in Image /\ ToppedUp(p, 1) \in Image
    BY <1>1, ImageWith, ImageGiven
  <2>2. Keeping(Change(Both(p, ToppedUp(p, 1), u, With(u, "credited"))))
    BY <1>5 DEF CreditUnmatched
  <2> QED
    BY <1>1, <2>1, <2>2, KeepingBoth
<1> QED
  BY <1>3, <1>4, <1>5

LEMMA WithdrawalsOperate ==
  ASSUME Typed, NEW w \in Withdrawals,
         \/ CreateWithdrawal(w) \/ ApproveWithdrawal(w)
         \/ \E status \in {"rejected", "canceled"} : Refund(w, status)
  PROVE  Operation
<1>1. w \in Docs /\ w \in Requests /\ Owner[w] \in Players /\ w \notin Players
  BY DurableAssumption DEF Docs, Requests
<1>2. \A status \in {"approved", "rejected", "canceled"} :
        /\ SettledAs(w, With(w, status))
        /\ With(w, status) \in Image /\ With(w, status).status = status
  BY <1>1, ImageWith, DurableAssumption DEF SettledAs
<1>3. CASE CreateWithdrawal(w)
  <2>1. mem[w].status \in Unsettled
    BY <1>3 DEF CreateWithdrawal, Is, Unsettled
  <2>2. Charged(Owner[w], 1) \in Image /\ [Blank EXCEPT !.status = "pending"] \in Image
    BY <1>1, <1>3, ImageMoney, ImageNew DEF CreateWithdrawal
  <2>3. Keeping(Change(Both(Owner[w], Charged(Owner[w], 1), w, [Blank EXCEPT !.status = "pending"])))
    BY <1>3 DEF CreateWithdrawal
  <2> QED
    BY <1>1, <2>1, <2>2, <2>3, KeepingBoth
<1>4. CASE ApproveWithdrawal(w)
  <2>1. mem[w].status \in Unsettled /\ Closing(w, Change(One(w, With(w, "approved"))))
    BY <1>4 DEF ApproveWithdrawal, Is, Unsettled, Open
  <2> QED
    BY <1>1, <1>2, <2>1, ClosingOne
<1>5. ASSUME NEW status \in {"rejected", "canceled"}, Refund(w, status) PROVE Operation
  <2>1. mem[w].status \in Unsettled
    BY <1>5 DEF Refund, Is, Unsettled, Open
  <2>2. Closing(w, Change(Both(Owner[w], ToppedUp(Owner[w], 1), w, With(w, status))))
    BY <1>5 DEF Refund
  <2>3. ToppedUp(Owner[w], 1) \in Image
    BY <1>1, ImageGiven
  <2> QED
    BY <1>1, <1>2, <2>1, <2>2, <2>3, ClosingBoth
<1> QED
  BY <1>3, <1>4, <1>5

LEMMA OthersOperate ==
  ASSUME Typed,
         \/ \E a \in Addresses :
              AddAddress(a) \/ UpdateAddress(a) \/ NoteScan(a) \/ RemoveAddress(a)
         \/ \E s \in Settings : SetDeposits(s)
  PROVE  Operation
<1>1. ASSUME NEW d \in Addresses \cup Settings, NEW i \in Image, Keeping(Change(One(d, i)))
      PROVE  Operation
  <2>1. d \in Docs /\ d \notin Requests
    BY DurableAssumption DEF Docs
  <2> QED
    BY <1>1, <2>1, KeepingOne
<1>2. \A d \in Addresses \cup Settings :
        /\ d \in Docs
        /\ [mem[d] EXCEPT !.sum = @ + 1] \in Image
        /\ [mem[d] EXCEPT !.status = "here", !.sum = @ + 1] \in Image
  <2> SUFFICES ASSUME NEW d \in Addresses \cup Settings
               PROVE  /\ d \in Docs
                      /\ [mem[d] EXCEPT !.sum = @ + 1] \in Image
                      /\ [mem[d] EXCEPT !.status = "here", !.sum = @ + 1] \in Image
    OBVIOUS
  <2>1. d \in Docs /\ mem[d] \in Image
    BY DEF Docs, Typed
  <2>2. mem[d].sum + 1 \in Nat
    BY <2>1, ImageFields
  <2>3. [mem[d] EXCEPT !.sum = @ + 1] \in Image
    BY <2>1, <2>2, ImageFields, Zenon
  <2>4. [mem[d] EXCEPT !.status = "here", !.sum = @ + 1] \in Image
    BY <2>1, <2>2, ImageOfFields, Zenon
  <2> QED
    BY <2>1, <2>3, <2>4
<1>3. ASSUME NEW a \in Addresses,
             AddAddress(a) \/ UpdateAddress(a) \/ NoteScan(a) \/ RemoveAddress(a)
      PROVE  Operation
  <2>1. CASE AddAddress(a)
    BY <1>1, <2>1, ImageNew DEF AddAddress
  <2>2. CASE UpdateAddress(a)
    BY <1>1, <1>2, <2>2, ImageWith DEF UpdateAddress
  <2>3. CASE NoteScan(a)
    BY <1>1, <1>2, <2>3 DEF NoteScan
  <2>4. CASE RemoveAddress(a)
    BY <1>1, <2>4, ImageNew DEF RemoveAddress
  <2> QED
    BY <1>3, <2>1, <2>2, <2>3, <2>4
<1>4. ASSUME NEW s \in Settings, SetDeposits(s) PROVE Operation
  BY <1>1, <1>2, <1>4 DEF SetDeposits
<1> QED
  BY <1>3, <1>4

-----------------------------------------------------------------------------
(* The driver, the database, and a stop.                                   *)
DriverStep == \E w \in writes : Send(w) \/ Land(w) \/ Fail(w)
Stop == \E lapsed \in SUBSET Lapsable : Restart(lapsed)

LEMMA NextCases == ASSUME Typed, Next PROVE Operation \/ DriverStep \/ Stop
BY PlayersOperate, DepositsOperate, TransfersOperate, WithdrawalsOperate, OthersOperate
   DEF Next, DriverStep, Stop

LEMMA InitInv == Init => IInv
<1> SUFFICES ASSUME Init PROVE IInv
  OBVIOUS
<1>1. db \in [Docs -> Image] /\ mem = db
  <2>1. Blank \in Image /\ \A d \in Docs : Fresh(d) \in Image
    BY DurableAssumption DEF Blank, Fresh, Image
  <2> QED
    BY <2>1 DEF Init
<1>2. held \in [Docs -> SUBSET Image] /\ \A d \in Docs : held[d] = {Scalars(db[d])}
  BY <1>1, ImageFields DEF Init
<1>3. Typed
  BY <1>1, <1>2 DEF Init, Typed
<1> QED
  BY <1>1, <1>2, <1>3 DEF Init, IInv, Numbered, LastWriteIsTheRecord, WholeOnTheWay,
    OnlyWholeRecords

LEMMA SendKeeps == ASSUME IInv, NEW w \in writes, Send(w) PROVE IInv'
<1> DEFINE sent == [w EXCEPT !.sent = TRUE]
<1>1. /\ w \in Write /\ sent \in Write
      /\ sent.doc = w.doc /\ sent.no = w.no /\ sent.image = w.image
  BY DEF IInv, Typed, Write
<1>2. writes' = (writes \ {w}) \cup {sent}
  BY DEF Send
<1>3. UNCHANGED <<mem, db, issued, landed, deeds, fails, crashes, held, closed, unsaved>>
  BY DEF Send, Quiet
<1> HIDE DEF sent
<1>4. Typed'
  BY <1>1, <1>2, <1>3 DEF IInv, Typed
<1>5. Numbered'
  <2>1. \A x \in writes' : \E v \in writes :
          /\ x.doc = v.doc /\ x.no = v.no /\ x.image = v.image
          /\ x = v \/ (x = sent /\ v = w)
    BY <1>1, <1>2
  <2>2. \A x, y \in writes' : x.doc = y.doc /\ x.no = y.no => x = y
    <3> SUFFICES ASSUME NEW x \in writes', NEW y \in writes', x.doc = y.doc, x.no = y.no
                 PROVE  x = y
      OBVIOUS
    <3>1. x \in writes \ {w} /\ y \in writes \ {w} => x = y
      BY DEF IInv, Numbered
    <3>2. ASSUME NEW z \in writes \ {w} PROVE ~(z.doc = w.doc /\ z.no = w.no)
      BY <3>2 DEF IInv, Numbered
    <3> QED
      BY <1>1, <1>2, <3>1, <3>2
  <2> QED
    BY <1>3, <2>1, <2>2 DEF IInv, Numbered
<1>6. WholeOnTheWay'
  BY <1>1, <1>2, <1>3 DEF IInv, WholeOnTheWay
<1> QED
  BY <1>3, <1>4, <1>5, <1>6 DEF IInv, LastWriteIsTheRecord, OnlyWholeRecords

LEMMA LandKeeps == ASSUME IInv, NEW w \in writes, Land(w) PROVE IInv'
<1>1. w.doc \in Docs /\ w.no \in Nat /\ w.image \in Image
  BY DEF IInv, Typed, Write
<1>2. /\ db' \in [Docs -> Image] /\ db'[w.doc] = w.image
      /\ \A d \in Docs \ {w.doc} : db'[d] = db[d]
  BY <1>1 DEF Land, IInv, Typed
<1>3. /\ landed' \in [Docs -> Nat] /\ landed'[w.doc] = w.no
      /\ \A d \in Docs \ {w.doc} : landed'[d] = landed[d]
  BY <1>1 DEF Land, IInv, Typed
<1>4. writes' = writes \ {w}
      /\ UNCHANGED <<mem, issued, deeds, fails, crashes, held, closed, unsaved>>
  BY DEF Land, Quiet
<1>5. Typed'
  BY <1>2, <1>3, <1>4 DEF IInv, Typed
<1>6. Numbered'
  <2>1. \A d \in Docs : landed'[d] \in 0..issued'[d]
    <3>1. w.no \in 1..issued[w.doc] /\ issued[w.doc] \in Nat
      BY <1>1 DEF IInv, Numbered, Typed
    <3> QED
      BY <3>1, <1>3, <1>4 DEF IInv, Numbered
  <2> QED
    BY <1>4, <2>1 DEF IInv, Numbered
<1>7. LastWriteIsTheRecord'
  <2>1. landed'[w.doc] = issued[w.doc] => w.image = mem[w.doc]
    BY <1>3 DEF IInv, Numbered
  <2> QED
    BY <1>2, <1>3, <1>4, <2>1 DEF IInv, LastWriteIsTheRecord
<1>8. WholeOnTheWay' /\ OnlyWholeRecords'
  BY <1>2, <1>4 DEF IInv, WholeOnTheWay, OnlyWholeRecords
<1> QED
  BY <1>5, <1>6, <1>7, <1>8 DEF IInv

LEMMA FailKeeps == ASSUME IInv, NEW w \in writes, Fail(w) PROVE IInv'
BY DEF Fail, Quiet, IInv, Typed, Numbered, LastWriteIsTheRecord, WholeOnTheWay, OnlyWholeRecords

LEMMA StopMemory ==
  ASSUME Typed, NEW lapsed \in SUBSET Lapsable, Restart(lapsed)
  PROVE  /\ mem' \in [Docs -> Image] /\ lapsed \subseteq Docs
         /\ \A d \in Docs \ lapsed : mem'[d] = db[d]
         /\ \A d \in lapsed : mem'[d] = [db[d] EXCEPT !.status = "expired"]
<1>1. lapsed \subseteq Docs
  BY DEF Lapsable, Docs, Requests
<1>2. \A d \in Docs : db[d] \in Image /\ [db[d] EXCEPT !.status = "expired"] \in Image
  BY DEF Typed, Image
<1>3. mem' = [d \in Docs |-> IF d \in lapsed THEN [db[d] EXCEPT !.status = "expired"] ELSE db[d]]
  BY DEF Restart, Loaded
<1> QED
  BY <1>1, <1>2, <1>3

LEMMA StopKeeps ==
  ASSUME IInv, NEW lapsed \in SUBSET Lapsable, Restart(lapsed) PROVE IInv'
<1>1. /\ mem' \in [Docs -> Image] /\ lapsed \subseteq Docs
  BY StopMemory DEF IInv
<1>2. \A w \in writes' :
        \E r \in lapsed : w = [doc |-> r, no |-> 1, image |-> mem'[r], sent |-> FALSE]
  BY DEF Restart
<1>3. /\ issued' \in [Docs -> Nat] /\ landed' \in [Docs -> Nat]
      /\ \A d \in Docs : landed'[d] = 0 /\ issued'[d] = IF d \in lapsed THEN 1 ELSE 0
  BY DEF Restart
<1>4. /\ held' \in [Docs -> SUBSET Image]
      /\ \A d \in Docs : held'[d] = held[d] \cup {Scalars(mem'[d])}
  BY <1>1, ImageFields DEF Restart, IInv, Typed
<1>5. db' = db /\ UNCHANGED <<deeds, fails, closed>> /\ crashes' \in Nat
      /\ unsaved' \in [Requests -> Nat]
  BY DEF Restart, IInv, Typed
<1>6. Typed'
  <2>1. ASSUME NEW r \in lapsed
        PROVE  [doc |-> r, no |-> 1, image |-> mem'[r], sent |-> FALSE] \in Write
    <3>1. r \in Docs /\ mem'[r] \in Image
      BY <1>1
    <3> QED
      BY <3>1 DEF Write
  <2>2. writes' \subseteq Write
    BY <1>2, <2>1
  <2> QED
    BY <1>1, <1>3, <1>4, <1>5, <2>2 DEF IInv, Typed
<1>7. Numbered'
  <2>1. \A w \in writes' :
          w.doc \in lapsed /\ w.no = 1 /\ w.image = mem'[w.doc] /\ w.sent = FALSE
    BY <1>2
  <2>2. ASSUME NEW v \in writes', NEW w \in writes', v.doc = w.doc PROVE v = w
    <3>1. PICK r \in lapsed : v = [doc |-> r, no |-> 1, image |-> mem'[r], sent |-> FALSE]
      BY <1>2
    <3>2. PICK q \in lapsed : w = [doc |-> q, no |-> 1, image |-> mem'[q], sent |-> FALSE]
      BY <1>2
    <3>3. r = q
      BY <2>2, <3>1, <3>2
    <3> QED
      BY <3>1, <3>2, <3>3
  <2>3. \A w \in writes' : w.no \in 1..issued'[w.doc]
    BY <1>1, <1>3, <2>1
  <2>4. \A d \in Docs : landed'[d] \in 0..issued'[d]
    BY <1>3
  <2> QED
    BY <2>1, <2>2, <2>3, <2>4 DEF Numbered
<1>8. LastWriteIsTheRecord'
  BY <1>3 DEF LastWriteIsTheRecord
<1>9. WholeOnTheWay'
  BY <1>1, <1>2, <1>4 DEF WholeOnTheWay
<1>10. OnlyWholeRecords'
  BY <1>4, <1>5 DEF IInv, OnlyWholeRecords
<1> QED
  BY <1>6, <1>7, <1>8, <1>9, <1>10 DEF IInv

LEMMA StepKeeps == IInv /\ [Next]_vars => IInv'
<1> SUFFICES ASSUME IInv, [Next]_vars PROVE IInv'
  OBVIOUS
<1>1. CASE UNCHANGED vars
  BY <1>1 DEF vars, IInv, Typed, Numbered, LastWriteIsTheRecord, WholeOnTheWay, OnlyWholeRecords
<1>2. CASE Next
  <2>1. Typed
    BY DEF IInv
  <2>2. CASE Operation
    BY <2>2, ChangeKeeps DEF Operation
  <2>3. CASE DriverStep
    BY <2>3, SendKeeps, LandKeeps, FailKeeps DEF DriverStep
  <2>4. CASE Stop
    BY <2>4, StopKeeps DEF Stop
  <2> QED
    BY <1>2, <2>1, <2>2, <2>3, <2>4, NextCases
<1> QED
  BY <1>1, <1>2

(* The invariant of the argument: commands numbered apart, each of them    *)
(* whole when it was given, and the last one the record of the memory.     *)
THEOREM DurableInv == Spec => []IInv
BY InitInv, StepKeeps, PTL DEF Spec

(* Every variable keeps its type, and the commands of a document stay      *)
(* numbered apart, for any number of documents, operations and faults.     *)
THEOREM DurableTyped == Spec => []TypeOK
<1>1. IInv => TypeOK
  BY DEF IInv, Typed, Numbered, TypeOK, Write
<1> QED
  BY <1>1, DurableInv, PTL

(* However commands overtake each other, fail or are lost at a stop, the   *)
(* one that was given last and landed last is the record of the memory.    *)
THEOREM LastWriteLasts == Spec => []LastWriteIsTheRecord
<1>1. IInv => LastWriteIsTheRecord
  BY DEF IInv
<1> QED
  BY <1>1, DurableInv, PTL

(* No document ever holds the scalars of half an operation.                *)
THEOREM WholeAlways == Spec => []OnlyWholeRecords
<1>1. IInv => OnlyWholeRecords
  BY DEF IInv
<1> QED
  BY <1>1, DurableInv, PTL

-----------------------------------------------------------------------------
(* A record with no command since the start is what the start read; and    *)
(* for every time that the money of a request moved there is a stop that   *)
(* came too early, but for the last one while its status is in memory.     *)
ReadInv == \A d \in Docs : issued[d] = 0 => db[d] = mem[d]

ClosedInv ==
  \A r \in Requests : closed[r] <= unsaved[r] \/ (closed[r] = unsaved[r] + 1 /\ Settled(r))

LEMMA ReadKeeps == IInv /\ IInv' /\ ReadInv /\ [Next]_vars => ReadInv'
<1> SUFFICES ASSUME IInv, IInv', ReadInv, [Next]_vars, NEW d \in Docs, issued'[d] = 0
             PROVE  db'[d] = mem'[d]
  BY DEF ReadInv
<1>1. CASE UNCHANGED vars
  BY <1>1 DEF vars, ReadInv
<1>2. CASE Operation
  <2>1. PICK new : IsChange(new) /\ Change(new)
    BY <1>2 DEF Operation
  <2>2. d \notin DOMAIN new /\ issued[d] = 0
    BY <2>1 DEF Change, Persist, IInv, Typed
  <2> QED
    BY <2>1, <2>2 DEF Change, ReadInv
<1>3. ASSUME NEW w \in writes, Land(w) PROVE db'[d] = mem'[d]
  <2>1. w.doc # d
    BY <1>3 DEF Land, Quiet, IInv, Numbered
  <2>2. db'[d] = db[d] /\ mem' = mem /\ issued' = issued
    BY <1>3, <2>1 DEF Land, Quiet, IInv, Typed
  <2> QED
    BY <2>2 DEF ReadInv
<1>4. ASSUME NEW w \in writes, Send(w) \/ Fail(w) PROVE db'[d] = mem'[d]
  BY <1>4 DEF Send, Fail, Quiet, ReadInv
<1>5. ASSUME NEW lapsed \in SUBSET Lapsable, Restart(lapsed) PROVE db'[d] = mem'[d]
  <2>1. d \notin lapsed /\ db' = db
    BY <1>5 DEF Restart
  <2> QED
    BY <1>5, <2>1, StopMemory DEF IInv
<1> QED
  BY <1>1, <1>2, <1>3, <1>4, <1>5, NextCases DEF DriverStep, Stop, IInv

LEMMA ClosedKeeps == IInv /\ IInv' /\ ReadInv /\ ClosedInv /\ [Next]_vars => ClosedInv'
<1> SUFFICES ASSUME IInv, IInv', ReadInv, ClosedInv, [Next]_vars, NEW r \in Requests
             PROVE  \/ closed'[r] <= unsaved'[r]
                    \/ closed'[r] = unsaved'[r] + 1 /\ Settled(r)'
  BY DEF ClosedInv
<1>1. /\ closed[r] \in Nat /\ unsaved[r] \in Nat /\ r \in Docs
      /\ closed[r] <= unsaved[r] \/ (closed[r] = unsaved[r] + 1 /\ Settled(r))
  BY DEF IInv, Typed, ClosedInv, Docs
<1>2. CASE UNCHANGED vars
  BY <1>1, <1>2 DEF vars, Settled, Is
<1>3. CASE Operation
  <2>1. unsaved' = unsaved
    BY <1>3 DEF Operation
  <2>2. Settled(r) => mem[r].status \notin Unsettled
    BY DEF Settled, Is, Unsettled, Open
  <2>3. \/ closed'[r] = closed[r] /\ mem'[r].status = mem[r].status
        \/ closed'[r] = closed[r] /\ mem[r].status \in Unsettled
        \/ /\ closed'[r] = closed[r] + 1
           /\ mem[r].status \in Unsettled /\ SettledAs(r, mem'[r])
    BY <1>3 DEF Operation
  <2>4. SettledAs(r, mem'[r]) => Settled(r)'
    BY DEF SettledAs, Settled, Is
  <2>5. mem'[r].status = mem[r].status /\ Settled(r) => Settled(r)'
    BY DEF Settled, Is
  <2> QED
    BY <1>1, <2>1, <2>2, <2>3, <2>4, <2>5
<1>4. CASE DriverStep
  BY <1>1, <1>4 DEF DriverStep, Send, Land, Fail, Quiet, Settled, Is
<1>5. ASSUME NEW lapsed \in SUBSET Lapsable, Restart(lapsed)
      PROVE  \/ closed'[r] <= unsaved'[r]
             \/ closed'[r] = unsaved'[r] + 1 /\ Settled(r)'
  <2>1. closed' = closed
        /\ unsaved'[r] = IF Unsaved(r) THEN unsaved[r] + 1 ELSE unsaved[r]
    BY <1>5 DEF Restart
  <2>2. CASE Settled(r) /\ landed[r] = issued[r]
    <3>1. db[r] = mem[r]
      <4>1. issued[r] \in Nat
        BY <1>1 DEF IInv, Typed
      <4> QED
        BY <1>1, <2>2, <4>1 DEF IInv, LastWriteIsTheRecord, ReadInv
    <3>2. r \notin lapsed
      BY <2>2, <3>1 DEF Lapsable, Loaded, Settled, Is
    <3>3. mem'[r] = mem[r]
      BY <1>1, <1>5, <3>1, <3>2, StopMemory DEF IInv
    <3>4. Settled(r)' /\ ~Unsaved(r)
      BY <2>2, <3>3 DEF Settled, Is, Unsaved
    <3> QED
      BY <1>1, <2>1, <3>4
  <2>3. CASE Settled(r) /\ landed[r] # issued[r]
    BY <1>1, <2>1, <2>3 DEF Unsaved
  <2>4. CASE ~Settled(r)
    BY <1>1, <2>1, <2>4 DEF Unsaved
  <2> QED
    BY <2>2, <2>3, <2>4
<1> QED
  BY <1>2, <1>3, <1>4, <1>5, NextCases DEF Stop, IInv

(* The money of a request moves again only after a stop that came before   *)
(* the database knew that it had moved, each time after one of its own:    *)
(* for any number of documents, operations, lost writes and stops.         *)
THEOREM SettledOnce == Spec => []SettledAgainOnlyIfUnsaved
<1>1. Init => ReadInv /\ ClosedInv
  BY DEF Init, ReadInv, ClosedInv
<1>2. ClosedInv /\ Typed => SettledAgainOnlyIfUnsaved
  BY DEF ClosedInv, Typed, SettledAgainOnlyIfUnsaved
<1>3. IInv => Typed
  BY DEF IInv
<1> QED
  BY <1>1, <1>2, <1>3, ReadKeeps, ClosedKeeps, DurableInv, PTL DEF Spec

(* A stop loses nothing that was saved.                                    *)
THEOREM StopLosesNothingSaved == Spec => RestartKeepsWhatIsSaved
<1> DEFINE Kept == crashes' # crashes =>
      \A d \in Docs : Saved(d) =>
          \/ mem'[d] = mem[d]
          \/ mem[d].status = "pending" /\ mem'[d] = With(d, "expired")
<1>1. IInv /\ [Next]_vars => [Kept]_vars
  <2> SUFFICES ASSUME IInv, Next PROVE Kept
    BY DEF vars
  <2>1. Typed
    BY DEF IInv
  <2>2. CASE Operation \/ DriverStep
    BY <2>2 DEF Operation, Change, DriverStep, Send, Land, Fail
  <2>3. ASSUME NEW lapsed \in SUBSET Lapsable, Restart(lapsed), NEW d \in Docs, Saved(d)
        PROVE  \/ mem'[d] = mem[d]
               \/ mem[d].status = "pending" /\ mem'[d] = With(d, "expired")
    <3>1. db[d] = mem[d]
      BY <2>3 DEF IInv, LastWriteIsTheRecord, Saved, Typed
    <3>2. CASE d \notin lapsed
      BY <2>1, <2>3, <3>1, <3>2, StopMemory
    <3>3. CASE d \in lapsed
      <4>1. mem'[d] = [db[d] EXCEPT !.status = "expired"]
        BY <2>1, <2>3, <3>3, StopMemory
      <4>2. db[d].status = "pending"
        BY <3>3 DEF Lapsable, Loaded
      <4> QED
        BY <3>1, <4>1, <4>2 DEF With
    <3> QED
      BY <3>2, <3>3
  <2> QED
    BY <2>1, <2>2, <2>3, NextCases DEF Stop
<1> QED
  BY <1>1, DurableInv, PTL DEF Spec, RestartKeepsWhatIsSaved
=============================================================================
