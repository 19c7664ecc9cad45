---------------------------- MODULE DepositPromise ----------------------------
(***************************************************************************)
(* What the deposit side of the system promises about money, and nothing   *)
(* about how.  A source is a record that may bring a player money: a       *)
(* deposit request or an unmatched transfer.  A transfer serves one source *)
(* for good; a source is decided once; a source decided in the player's    *)
(* favour adds money once; a source that has its transfer never lapses, it *)
(* is always decided.                                                      *)
(***************************************************************************)
EXTENDS Integers

CONSTANTS Source, Txids

VARIABLES
  claims,   \* pairs <<txid, source>>
  closed,   \* sources that are decided or have lapsed
  credits   \* how many times each source added money to a balance

promiseVars == <<claims, closed, credits>>

Init ==
  /\ claims = {}
  /\ closed = {}
  /\ credits = [s \in Source |-> 0]

(* A transfer nobody has is found for a source that has none.              *)
Claim(x, s) ==
  /\ s \notin closed
  /\ \A c \in claims : c[1] # x /\ c[2] # s
  /\ claims' = claims \cup {<<x, s>>}
  /\ UNCHANGED <<closed, credits>>

MayLapse(S) == /\ S \cap closed = {}
               /\ \A c \in claims : c[2] \notin S

(* Sources without a transfer lapse, alone or on the way of a decision.    *)
Lapse(S) ==
  /\ MayLapse(S)
  /\ closed' = closed \cup S
  /\ UNCHANGED <<claims, credits>>

Decide(s, favour, S) ==
  /\ s \notin closed
  /\ MayLapse(S)
  /\ closed' = closed \cup {s} \cup S
  /\ credits' = IF favour THEN [credits EXCEPT ![s] = @ + 1] ELSE credits
  /\ UNCHANGED claims

Next ==
  \/ \E x \in Txids, s \in Source : Claim(x, s)
  \/ \E S \in SUBSET Source : Lapse(S)
  \/ \E s \in Source, favour \in BOOLEAN, S \in SUBSET Source : Decide(s, favour, S)

Spec == Init /\ [][Next]_promiseVars
=============================================================================
