----------------------------- MODULE MCDeposits -----------------------------
(***************************************************************************)
(* Small instances of Deposits.  One EVM family with two networks, and one *)
(* family that identifies payments by their comment.                       *)
(***************************************************************************)
EXTENDS Deposits, TLC

CONSTANTS p1, p2, t1, t2

MCFamilyOf == [n \in Networks |-> IF n = "ton" THEN "ton" ELSE "evm"]
MCTokensOf == [n \in Networks |-> IF n = "base" THEN {"usdc"} ELSE IF n = "ton" THEN {"usdt"} ELSE Tokens]
MCAddressFamily == [a \in Addresses |-> IF a \in {"UQ", "0:ab"} THEN "ton" ELSE "evm"]
MCCanonical == [a \in Addresses |-> IF a = "0xAB" THEN "0xab" ELSE a]
MCTonRaw == [a \in Addresses |-> IF a = "UQ" THEN "0:ab" ELSE a]

(* Every transfer has a txid of its own.                                   *)
OwnTxid == [t \in Transfers |-> t]

Setting(mode) == [enabled |-> TRUE, mode |-> mode, networks |-> Networks, tokens |-> Tokens]
WatchAndAuto == {Setting("watch"), Setting("auto")}

(* A transfer as it was asked for; one whose amount the indexer garbled;   *)
(* one unit too little; one without the comment.                           *)
Exact == [delta |-> 0, memo |-> TRUE, suspect |-> FALSE]
Garbled == [Exact EXCEPT !.suspect = TRUE]
Short == [Exact EXCEPT !.delta = -1]
Bare == [Exact EXCEPT !.memo = FALSE]
EverySlip == {Exact, Garbled, Short, Bare}
ExactOnly == {Exact}

Symmetry == Permutations(Players) \cup Permutations(Transfers)
=============================================================================
