------------------------------ MODULE Watcher -------------------------------
(***************************************************************************)
(* WatcherService (apps/api/src/watcher/watcher.service.ts) at work on     *)
(* PaymentsService.  A cycle takes the list of addresses to listen to,     *)
(* scans the families side by side and the addresses of a family one by    *)
(* one, then asks the networks again about the requests whose finality     *)
(* delay is over.  While it waits for a network everybody else goes on;    *)
(* when an answer is there, its transfers are ingested and the cursor is   *)
(* stored without a pause (busy).                                          *)
(*                                                                         *)
(* The timer and the button of the CRM both call cycle(); Callers names    *)
(* them, so that what keeps two cycles apart is the flag the code keeps.   *)
(*                                                                         *)
(* A reader answers with every transfer to the address after the cursor    *)
(* (ChainReaders is about when that is so), in the networks and tokens it  *)
(* was asked for; the cursor counts transfers.  The bounds are those of    *)
(* Deposits and MaxFailures.                                               *)
(***************************************************************************)
EXTENDS Deposits, FiniteSetsExt

CONSTANTS
  Callers,
  KeyFamilies,   \* families a provider key is configured for
  MaxFailures    \* how many scans may fail

ASSUME KeysAssumption == KeyFamilies \subseteq Families
ASSUME FailuresAssumption == MaxFailures \in Nat

NoScan == [of |-> 0]
NoSnap == [cursor |-> << >>]
NoOne == << >>

VARIABLES
  cursor,     \* DepositAddress.cursor, and before the first scan watchFrom
  stamp,      \* stamp[t]: the place of transfer t in the order of the chains
  gone,       \* transfers that a reorganisation took back
  running,    \* WatcherService.running
  phase,      \* phase[c]: where the cycle of caller c is
  snap,       \* snap[c]: the settings and cursors its targets were made from
  todo,       \* todo[c]: addresses it has still to scan
  scan,       \* scan[c][f]: the answer of family f's provider, if it is there
  toSettle,   \* toSettle[c]: requests it has still to settle
  busy,       \* who is ingesting an answer
  failures    \* how many scans have failed

watcherVars == <<cursor, stamp, gone, running, phase, snap, todo, scan, toSettle, busy, failures>>
allVars == <<vars, watcherVars>>

-----------------------------------------------------------------------------
Accepted(c, network) == c.tokens \cap TokensOf[network]

(* The networks of a family a target is scanned in.                        *)
Listened(c, family) ==
  {n \in c.networks : FamilyOf[n] = family /\ Accepted(c, n) # {}}

(* watchTargets(): active addresses whose family has a network to listen   *)
(* to; nothing at all when the listener is switched off.                   *)
WatchTargets ==
  IF ~cfg.enabled \/ cfg.mode = "off" THEN {}
  ELSE {i \in AddressList :
          /\ addrs[i].status = "active"
          /\ Listened(cfg, AddressFamily[addrs[i].address]) # {}}

TargetsOf(c, family) ==
  {i \in todo[c] : AddressFamily[addrs[i].address] = family}

(* What the provider lists for address i.                                  *)
Listing(c, i) ==
  {t \in DOMAIN chain \ gone :
     /\ stamp[t] > snap[c].cursor[i]
     /\ sameAddress(chain[t].to, ReportedAs(chain[t].network, addrs[i].address))
     /\ chain[t].network \in Listened(snap[c].cfg, AddressFamily[addrs[i].address])}

(* Of those, the transfers of the tokens it was asked for.                 *)
Ours(c, i) == {t \in Listing(c, i) : chain[t].token \in snap[c].cfg.tokens}

\* Mutant: the cursor is the present.
Answer_UpToNow(c, i) ==
  [of |-> i,
   batch |-> Ours(c, i),
   upto |-> Cardinality(Transfers)]

(* The answer of a reader: its cursor is past everything that was listed.  *)
Answer(c, i) ==
  [of |-> i,
   batch |-> Ours(c, i),
   upto |-> Max({snap[c].cursor[i]} \cup {stamp[t] : t \in Listing(c, i)})]

HasKey(family) == family \in KeyFamilies

(* The provider knows the transfer of request r, in the network the player *)
(* chose.                                                                  *)
Found(r) ==
  \E t \in DOMAIN chain \ gone :
    TxidOf[t] = items[r].txid /\ chain[t].network = items[r].network

\* Mutant: a provider that does not answer is taken for one that denies.
MayAnswer_SilenceIsGone(r, verdict) == verdict = "gone"

(* confirm(): a transfer that is not there is gone; no key, or no answer,  *)
(* is unknown.                                                             *)
MayAnswer(r, verdict) ==
  \/ verdict = "unknown"
  \/ /\ HasKey(FamilyOf[items[r].network])
     /\ verdict = IF Found(r) THEN "ok" ELSE "gone"

-----------------------------------------------------------------------------
WInit ==
  /\ Init
  /\ cursor = [i \in AddressIds |-> 0]
  /\ stamp = [t \in {} |-> 0]
  /\ gone = {}
  /\ running = FALSE
  /\ phase = [c \in Callers |-> "idle"]
  /\ snap = [c \in Callers |-> NoSnap]
  /\ todo = [c \in Callers |-> {}]
  /\ scan = [c \in Callers |-> [f \in Families |-> NoScan]]
  /\ toSettle = [c \in Callers |-> {}]
  /\ busy = NoOne
  /\ failures = 0

-----------------------------------------------------------------------------
(* Everybody else.                                                         *)

(* addAddress() sets watchFrom to the present, so that the past of the     *)
(* wallet is not read.                                                     *)
AddAndWatch(a) ==
  /\ AddAddress(a)
  /\ cursor' = [i \in AddressIds |->
                  IF i \in DOMAIN addrs' \ DOMAIN addrs THEN Cardinality(DOMAIN chain)
                  ELSE cursor[i]]
  /\ UNCHANGED <<stamp, gone, running, phase, snap, todo, scan, toSettle, busy, failures>>

Pay(t, r, network, slip) ==
  /\ Send(t, r, network, slip)
  /\ stamp' = Put(stamp, t, Cardinality(DOMAIN chain) + 1)
  /\ UNCHANGED <<cursor, gone, running, phase, snap, todo, scan, toSettle, busy, failures>>

(* A reorganisation takes a transfer back.                                 *)
Reorganise(t) ==
  /\ t \notin gone
  /\ gone' = gone \cup {t}
  /\ UNCHANGED <<vars, cursor, stamp, running, phase, snap, todo, scan, toSettle, busy, failures>>

OtherAdminStep ==
  \/ \E p \in Players : RemovePlayer(p)
  \/ \E c \in Configs : SetDeposits(c)
  \/ \E i \in DOMAIN addrs : \/ \E active \in BOOLEAN : UpdateAddress(i, active)
                            \/ RemoveAddress(i)
  \/ \E r \in DOMAIN items : Approve(r) \/ Reject(r)
  \/ \E t \in DOMAIN unmatched, p \in Players : CreditUnmatched(t, p)
  \/ \E t \in DOMAIN unmatched : IgnoreUnmatched(t)

OthersStep ==
  /\ busy = NoOne
  /\ \/ (PlayerStep \/ OtherAdminStep \/ Sweep) /\ UNCHANGED watcherVars
     \/ \E r \in DOMAIN items :
          (DeadlinePasses(r) \/ FinalityPasses(r)) /\ UNCHANGED watcherVars
     \/ \E a \in Addresses : AddAndWatch(a)
     \/ \E t \in Transfers, r \in DOMAIN items, network \in Networks, slip \in Slips :
          Pay(t, r, network, slip)
     \/ \E t \in DOMAIN chain : Reorganise(t)

-----------------------------------------------------------------------------
(* The cycle of one caller.                                                *)

\* Mutant: nothing is settled when there is nothing to listen to.
Begin_OnlyToListen(c) ==
  /\ phase[c] = "idle" /\ busy = NoOne
  /\ ~running /\ WatchTargets # {}
  /\ running' = TRUE
  /\ snap' = [snap EXCEPT ![c] = [cfg |-> cfg, cursor |-> cursor]]
  /\ todo' = [todo EXCEPT ![c] =
                {i \in WatchTargets : HasKey(AddressFamily[addrs[i].address])}]
  /\ phase' = [phase EXCEPT ![c] = "scanning"]
  /\ UNCHANGED <<vars, cursor, stamp, gone, scan, toSettle, busy, failures>>

(* cycle(): returns at once while another one runs.  Families without a    *)
(* key are passed over.                                                    *)
Begin(c) ==
  /\ phase[c] = "idle" /\ busy = NoOne
  /\ ~running
  /\ running' = TRUE
  /\ snap' = [snap EXCEPT ![c] = [cfg |-> cfg, cursor |-> cursor]]
  /\ todo' = [todo EXCEPT ![c] =
                {i \in WatchTargets : HasKey(AddressFamily[addrs[i].address])}]
  /\ phase' = [phase EXCEPT ![c] = "scanning"]
  /\ UNCHANGED <<vars, cursor, stamp, gone, scan, toSettle, busy, failures>>

(* The provider of family f answers about the next address of its list.    *)
Scan(c, f) ==
  /\ phase[c] = "scanning" /\ busy = NoOne
  /\ scan[c][f] = NoScan /\ TargetsOf(c, f) # {}
  /\ \E i \in FirstOf(TargetsOf(c, f)) : scan' = [scan EXCEPT ![c][f] = Answer(c, i)]
  /\ UNCHANGED <<vars, cursor, stamp, gone, running, phase, snap, todo, toSettle, busy, failures>>

\* Mutant: the error leaves the cycle and the flag stays up.
ScanFails_FlagStays(c, f) ==
  /\ phase[c] = "scanning" /\ busy = NoOne
  /\ scan[c][f] = NoScan /\ TargetsOf(c, f) # {}
  /\ failures < MaxFailures
  /\ failures' = failures + 1
  /\ todo' = [todo EXCEPT ![c] = {}]
  /\ phase' = [phase EXCEPT ![c] = "idle"]
  /\ UNCHANGED <<vars, cursor, stamp, gone, running, snap, scan, toSettle, busy>>

(* It fails instead: the next address, or the next cycle, goes on.         *)
ScanFails(c, f) ==
  /\ phase[c] = "scanning" /\ busy = NoOne
  /\ scan[c][f] = NoScan /\ TargetsOf(c, f) # {}
  /\ failures < MaxFailures
  /\ failures' = failures + 1
  /\ todo' = [todo EXCEPT ![c] = @ \ FirstOf(TargetsOf(c, f))]
  /\ UNCHANGED <<vars, cursor, stamp, gone, running, phase, snap, scan, toSettle, busy>>

(* The transfers of the answer, in the order of the chain, ...             *)
IngestNext(c, f) ==
  /\ scan[c][f] # NoScan /\ busy \in {NoOne, <<c, f>>}
  /\ \E t \in scan[c][f].batch :
       /\ \A u \in scan[c][f].batch : stamp[t] <= stamp[u]
       /\ Ingest(t)
       /\ scan' = [scan EXCEPT ![c][f].batch = @ \ {t}]
  /\ busy' = <<c, f>>
  /\ UNCHANGED <<cursor, stamp, gone, running, phase, snap, todo, toSettle, failures>>

(* ... then noteScan(), unless the address was deleted meanwhile.          *)
NoteScan(c, f) ==
  /\ scan[c][f] # NoScan /\ busy \in {NoOne, <<c, f>>}
  /\ scan[c][f].batch = {}
  /\ LET i == scan[c][f].of IN
       /\ cursor' = IF i \in AddressList THEN [cursor EXCEPT ![i] = scan[c][f].upto]
                    ELSE cursor
       /\ todo' = [todo EXCEPT ![c] = @ \ {i}]
  /\ scan' = [scan EXCEPT ![c][f] = NoScan]
  /\ busy' = NoOne
  /\ UNCHANGED <<vars, stamp, gone, running, phase, snap, toSettle, failures>>

\* Mutant: the list is of every paid request, finality delay or not.
EndScans_AnyPaid(c) ==
  /\ phase[c] = "scanning" /\ busy = NoOne /\ todo[c] = {}
  /\ phase' = [phase EXCEPT ![c] = "settling"]
  /\ toSettle' = [toSettle EXCEPT ![c] =
                    {r \in DOMAIN items : items[r].status = "processing"}]
  /\ snap' = [snap EXCEPT ![c] = NoSnap]
  /\ UNCHANGED <<vars, cursor, stamp, gone, running, todo, scan, busy, failures>>

(* settleAll() takes its list once every family is through, and what the   *)
(* targets were made from is forgotten.                                    *)
EndScans(c) ==
  /\ phase[c] = "scanning" /\ busy = NoOne /\ todo[c] = {}
  /\ phase' = [phase EXCEPT ![c] = "settling"]
  /\ toSettle' = [toSettle EXCEPT ![c] = SettleReady]
  /\ snap' = [snap EXCEPT ![c] = NoSnap]
  /\ UNCHANGED <<vars, cursor, stamp, gone, running, todo, scan, busy, failures>>

SettleNext(c) ==
  /\ phase[c] = "settling" /\ busy = NoOne
  /\ \E r \in FirstOf(toSettle[c]) :
       /\ \E verdict \in Verdicts : MayAnswer(r, verdict) /\ Settle(r, verdict)
       /\ toSettle' = [toSettle EXCEPT ![c] = @ \ {r}]
  /\ UNCHANGED <<cursor, stamp, gone, running, phase, snap, todo, scan, busy, failures>>

EndCycle(c) ==
  /\ phase[c] = "settling" /\ busy = NoOne /\ toSettle[c] = {}
  /\ phase' = [phase EXCEPT ![c] = "idle"]
  /\ running' = FALSE
  /\ UNCHANGED <<vars, cursor, stamp, gone, snap, todo, scan, toSettle, busy, failures>>

CycleStep ==
  \E c \in Callers :
    \/ Begin(c) \/ EndScans(c) \/ SettleNext(c) \/ EndCycle(c)
    \/ \E f \in Families : Scan(c, f) \/ IngestNext(c, f) \/ NoteScan(c, f)

WNext ==
  \/ OthersStep
  \/ CycleStep
  \/ \E c \in Callers, f \in Families : ScanFails(c, f)

WSpec == WInit /\ [][WNext]_allVars

(* The timer fires for ever, a provider answers or the request times out,  *)
(* and nothing of a cycle waits for anybody else.                          *)
FairWSpec == WSpec /\ WF_allVars(CycleStep)

-----------------------------------------------------------------------------
(* Types; there is at most one cycle, the flag is up exactly while it      *)
(* runs, and only it has lists and answers.                                *)
WTypeOK ==
  /\ cursor \in [AddressIds -> Nat]
  /\ DOMAIN stamp = DOMAIN chain /\ gone \subseteq DOMAIN chain
  /\ \A c \in Callers :
       /\ phase[c] \in {"idle", "scanning", "settling"}
       /\ phase[c] # "idle" => running /\ \A d \in Callers \ {c} : phase[d] = "idle"
       /\ todo[c] \subseteq DOMAIN addrs /\ (todo[c] # {} => phase[c] = "scanning")
       /\ toSettle[c] \subseteq DOMAIN items /\ (toSettle[c] # {} => phase[c] = "settling")
       /\ \A f \in Families : scan[c][f] # NoScan =>
            phase[c] = "scanning" /\ scan[c][f].of \in todo[c] /\ scan[c][f].batch \subseteq DOMAIN chain
  /\ running => \E c \in Callers : phase[c] # "idle"
  /\ failures \in 0..MaxFailures

(* What the cursor of an address has passed is in the books: a transfer    *)
(* for a request on that address is a request's or an unmatched row's.     *)
PassedIsBooked ==
  \A t \in DOMAIN chain \ gone :
    stamp[t] <= cursor[items[chain[t].payer].addressId] => KnownTxid(TxidOf[t])

(* The bot rejects a paid request only if its transfer was really taken    *)
(* back, or was made in another network than the one it asks (confirm()    *)
(* is called with the network the player chose, watcher.service.ts:292):   *)
(* never because of a provider that fails ("відхиляти заявку через власні  *)
(* проблеми зі зв'язком не можна", chain.types.ts).                        *)
BotRejectsOnlyWhatItMisses ==
  \A r \in DOMAIN items :
    items[r].status = "rejected" /\ items[r].resolvedBy = "bot" =>
      \E t \in DOMAIN chain :
        /\ TxidOf[t] = items[r].txid
        /\ (t \in gone \/ chain[t].network # items[r].network)

(* "A player who takes Polygon for Base does not lose the money"           *)
(* (evm.ts:6-8): the bot rejects a paid request only if its transfer was   *)
(* taken back, whatever network it was made in.                            *)
BotRejectsOnlyWhatIsGone ==
  \A r \in DOMAIN items :
    items[r].status = "rejected" /\ items[r].resolvedBy = "bot" =>
      \E t \in gone : TxidOf[t] = items[r].txid

(* The watcher does to the books nothing that Deposits does not allow, so  *)
(* all that is shown of Deposits holds of the service and its watcher.     *)
ImplementsDeposits == Spec

ListenedFor(t) ==
  t \in DOMAIN chain /\ items[chain[t].payer].addressId \in WatchTargets

(* While the CRM listens to the address, every transfer to it is booked    *)
(* some day, failing scans and other cycles notwithstanding.               *)
EveryTransferBooked ==
  \A t \in Transfers :
    t \in DOMAIN chain \ gone ~>
      KnownTxid(TxidOf[t]) \/ t \in gone \/ ~ListenedFor(t)

(* A request whose finality delay is over is settled or decided some day,  *)
(* even when the listener is switched off ("Фіналізацію робимо ЗАВЖДИ").   *)
EveryPaidSettled ==
  \A r \in Requests :
    r \in SettleReady ~> r \notin SettleReady
=============================================================================
