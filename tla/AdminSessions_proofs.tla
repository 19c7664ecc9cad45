----------------------- MODULE AdminSessions_proofs -------------------------
(***************************************************************************)
(* What AdminsService keeps of a family, for any number of tabs, calls,    *)
(* faults and pairs.  For that only the server's own variables matter:     *)
(* whatever requests come, in whatever order, Handle, Restart and the      *)
(* clock are all that touches the tokens.  The last part is about the      *)
(* browser: one tab that loses nothing never sets off the alarm.           *)
(***************************************************************************)
EXTENDS AdminSessions, FiniteSetTheorems, TLAPS

(* A pair of which one token at least is still good for something.         *)
Good(p) == p \in live \/ refresh[p] = "unspent"

Types ==
  /\ family \in [Pairs -> Pairs \cup {NoPair}]
  /\ live \subseteq Pairs
  /\ refresh \in [Pairs -> {"none", "unspent", "grace", "spent"}]
  /\ reissued \in [Pairs -> Pairs \cup {NoPair}]
  /\ ended \subseteq Pairs /\ alarms \subseteq Pairs

(* Tokens belong to issued pairs, and families are named by issued pairs.  *)
Rooted ==
  /\ live \subseteq Issued
  /\ \A p \in Pairs : refresh[p] # "none" => p \in Issued
  /\ \A p \in Issued : family[p] \in Issued
  /\ ended \cup alarms \subseteq Issued

(* The access token of a pair does not outlive its refresh token.          *)
Paired == \A p \in live : refresh[p] = "unspent"

ServerInv == Types /\ Rooted /\ Paired /\ RotationIsSingle /\ EndedStaysEnded

(* What a step may do to the tokens, whoever takes it.                     *)
TokenStep ==
  \/ UNCHANGED serverVars
  \/ \E f \in Pairs : /\ f \in Issued /\ DropFamily(f)
                      /\ \/ ended' = ended \cup {f} /\ UNCHANGED alarms
                         \/ alarms' = alarms \cup {f} /\ UNCHANGED ended
  \/ \E p \in Pairs :
       /\ IssuePair(p, p)
       /\ live' = live \cup {p}
       /\ refresh' = [refresh EXCEPT ![p] = "unspent"]
       /\ UNCHANGED <<reissued, ended, alarms>>
  \/ \E p \in Pairs, answer \in Answers : refresh[p] = "unspent" /\ Exchange(p, answer)
  \/ /\ live' = {} /\ refresh' = [p \in Pairs |-> "none"]
     /\ UNCHANGED <<family, reissued, ended, alarms>>
  \/ \E p \in Pairs : live' = live \ {p} /\ UNCHANGED <<family, refresh, reissued, ended, alarms>>
  \/ \E p \in Pairs : /\ refresh[p] = "grace"
                      /\ refresh' = [refresh EXCEPT ![p] = "spent"]
                      /\ UNCHANGED <<family, live, reissued, ended, alarms>>
  \/ \E p \in Pairs : /\ p \notin live
                      /\ refresh' = [refresh EXCEPT ![p] = "none"]
                      /\ UNCHANGED <<family, live, reissued, ended, alarms>>

-----------------------------------------------------------------------------
LEMMA PairsAreNumbers == Pairs \subseteq Nat \ {0} /\ NoPair \notin Pairs
  BY SessionsAssumption DEF Pairs, NoPair

LEMMA StartsWell == Init => ServerInv
  BY PairsAreNumbers DEF Init, ServerInv, Types, Rooted, Paired, RotationIsSingle,
     EndedStaysEnded, Issued

(* A family that ends has no token left, and the others are as they were.  *)
LEMMA DropKeeps ==
  ASSUME ServerInv, NEW f \in Pairs, f \in Issued, DropFamily(f),
         ended' \cup alarms' = ended \cup alarms \cup {f}
  PROVE  ServerInv'
<1>1. Types'
  <2>1. refresh' \in [Pairs -> {"none", "unspent", "grace", "spent"}]
    BY DEF ServerInv, Types, DropFamily
  <2>2. live' \subseteq Pairs /\ family' \in [Pairs -> Pairs \cup {NoPair}]
    BY DEF ServerInv, Types, DropFamily
  <2>3. ended' \subseteq Pairs /\ alarms' \subseteq Pairs /\ reissued' = reissued
    BY DEF ServerInv, Types, DropFamily
  <2> QED  BY <2>1, <2>2, <2>3 DEF ServerInv, Types
<1>2. Issued' = Issued /\ \A p \in Pairs : family'[p] = family[p]
  BY DEF DropFamily, Issued
<1>3. \A p \in Pairs : p \in Kin(f) => p \notin live' /\ refresh'[p] = "none"
  BY DEF DropFamily
<1>4. \A p \in Pairs : p \notin Kin(f) => (p \in live' <=> p \in live) /\ refresh'[p] = refresh[p]
  BY DEF DropFamily
<1>5. Rooted'
  BY <1>1, <1>2, <1>3, <1>4 DEF ServerInv, Rooted, Types
<1>6. Paired'
  BY <1>1, <1>3, <1>4 DEF ServerInv, Paired, Types
<1>7. RotationIsSingle'
  <2> SUFFICES ASSUME NEW p \in Issued, NEW q \in Issued, family[p] = family[q],
                      p \in live' \/ refresh'[p] = "unspent",
                      q \in live' \/ refresh'[q] = "unspent"
               PROVE  p = q
    BY <1>2 DEF RotationIsSingle, Issued
  <2>1. p \notin Kin(f) /\ q \notin Kin(f) /\ p \in Pairs /\ q \in Pairs
    BY <1>3 DEF Issued
  <2> QED  BY <1>4, <2>1 DEF ServerInv, RotationIsSingle
<1>8. EndedStaysEnded'
  <2> SUFFICES ASSUME NEW p \in Issued, family[p] \in ended \cup alarms \cup {f}
               PROVE  p \notin live' /\ refresh'[p] = "none"
    BY <1>2 DEF EndedStaysEnded, Issued
  <2>1. CASE family[p] = f
    BY <2>1, <1>3 DEF Kin, Issued
  <2>2. CASE family[p] # f
    BY <2>2, <1>4 DEF Kin, Issued, ServerInv, EndedStaysEnded
  <2> QED  BY <2>1, <2>2
<1> QED  BY <1>1, <1>5, <1>6, <1>7, <1>8 DEF ServerInv

(* A sign-in starts a family of its own.                                   *)
LEMMA LoginKeeps ==
  ASSUME ServerInv, NEW p \in Pairs, IssuePair(p, p), live' = live \cup {p},
         refresh' = [refresh EXCEPT ![p] = "unspent"], UNCHANGED <<reissued, ended, alarms>>
  PROVE  ServerInv'
<1>1. p \notin Issued /\ p # NoPair
  BY PairsAreNumbers DEF IssuePair, IsNextPair
<1>2. \A q \in Pairs : family'[q] = IF q = p THEN p ELSE family[q]
  BY DEF IssuePair, ServerInv, Types
<1>3. Issued' = Issued \cup {p}
  BY <1>1, <1>2 DEF Issued
<1>4. \A q \in Pairs : refresh'[q] = IF q = p THEN "unspent" ELSE refresh[q]
  BY DEF ServerInv, Types
<1>5. Types'
  BY DEF ServerInv, Types, IssuePair
<1>6. Rooted' /\ Paired'
  BY <1>1, <1>2, <1>3, <1>4 DEF ServerInv, Rooted, Paired, Types, Issued
<1>7. \A q \in Issued : q \in Pairs /\ q # p /\ family[q] # p /\ family'[q] = family[q]
  BY <1>1, <1>2 DEF ServerInv, Rooted, Issued
<1>8. RotationIsSingle'
  <2> SUFFICES ASSUME NEW q \in Issued \cup {p}, NEW r \in Issued \cup {p},
                      family'[q] = family'[r],
                      q \in live' \/ refresh'[q] = "unspent",
                      r \in live' \/ refresh'[r] = "unspent"
               PROVE  q = r
    BY <1>3 DEF RotationIsSingle
  <2>1. CASE q = p \/ r = p
    BY <2>1, <1>2, <1>7
  <2>2. CASE q # p /\ r # p
    BY <2>2, <1>4, <1>7 DEF ServerInv, RotationIsSingle
  <2> QED  BY <2>1, <2>2
<1>9. EndedStaysEnded'
  <2> SUFFICES ASSUME NEW q \in Issued \cup {p}, family'[q] \in ended \cup alarms
               PROVE  q \notin live' /\ refresh'[q] = "none"
    BY <1>3 DEF EndedStaysEnded
  <2>1. q # p
    BY <1>1, <1>2 DEF ServerInv, Rooted
  <2> QED  BY <2>1, <1>4, <1>7 DEF ServerInv, EndedStaysEnded
<1> QED  BY <1>5, <1>6, <1>8, <1>9 DEF ServerInv

(* An exchange: the good pair of the family steps back for a new one.      *)
LEMMA ExchangeKeeps ==
  ASSUME ServerInv, NEW p \in Pairs, NEW answer, refresh[p] = "unspent", Exchange(p, answer)
  PROVE  ServerInv'
<1>1. PICK n \in Pairs : /\ IssuePair(n, family[p])
                         /\ live' = (live \ Kin(family[p])) \cup {n}
                         /\ refresh' = [refresh EXCEPT ![p] = "grace", ![n] = "unspent"]
                         /\ reissued' = [reissued EXCEPT ![p] = n]
                         /\ UNCHANGED <<ended, alarms>>
  BY DEF Exchange
<1>2. n \notin Issued /\ p \in Issued /\ family[p] \in Issued /\ family[p] # NoPair
  BY <1>1 DEF IssuePair, IsNextPair, ServerInv, Rooted, Issued
<1>3. \A q \in Pairs : family'[q] = IF q = n THEN family[p] ELSE family[q]
  BY <1>1 DEF IssuePair, ServerInv, Types
<1>4. Issued' = Issued \cup {n}
  BY <1>2, <1>3 DEF Issued
<1>5. \A q \in Pairs : refresh'[q] = IF q = n THEN "unspent" ELSE IF q = p THEN "grace" ELSE refresh[q]
  BY <1>1, <1>2 DEF ServerInv, Types
<1>6. Types'
  BY <1>1 DEF ServerInv, Types, IssuePair
<1>7. \A q \in Issued : q \in Pairs /\ q # n /\ family'[q] = family[q]
  BY <1>2, <1>3 DEF Issued
<1>8. \A q \in Issued : family[q] = family[p] => q \notin live' /\ refresh'[q] # "unspent"
  <2> SUFFICES ASSUME NEW q \in Issued, family[q] = family[p]
               PROVE  q \notin live' /\ refresh'[q] # "unspent"
    OBVIOUS
  <2>1. q \in Kin(family[p]) /\ q # n
    BY <1>7 DEF Kin
  <2>2. q # p => refresh[q] # "unspent"
    BY <1>2 DEF ServerInv, RotationIsSingle
  <2>3. q \notin live'
    BY <1>1, <2>1
  <2>4. q \in Pairs /\ q # n
    BY <1>7
  <2>5. refresh'[q] = IF q = p THEN "grace" ELSE refresh[q]
    BY <1>5, <2>4
  <2> QED  BY <2>2, <2>3, <2>5
<1>9. \A q \in Issued : family[q] # family[p] =>
        (q \in live' <=> q \in live) /\ refresh'[q] = refresh[q]
  BY <1>1, <1>2, <1>5, <1>7 DEF Kin
<1>10. Rooted'
  BY <1>1, <1>2, <1>3, <1>4, <1>5 DEF ServerInv, Rooted, Types, Issued
<1>11. Paired'
  BY <1>1, <1>2, <1>5, <1>7, <1>8, <1>9 DEF ServerInv, Rooted, Paired, Types
<1>12. RotationIsSingle'
  <2> SUFFICES ASSUME NEW q \in Issued \cup {n}, NEW r \in Issued \cup {n},
                      family'[q] = family'[r],
                      q \in live' \/ refresh'[q] = "unspent",
                      r \in live' \/ refresh'[r] = "unspent"
               PROVE  q = r
    BY <1>4 DEF RotationIsSingle
  <2>1. CASE q = n \/ r = n
    BY <2>1, <1>3, <1>7, <1>8
  <2>2. CASE q # n /\ r # n
    <3>1. q \in Issued /\ r \in Issued /\ family[q] = family[r]
      BY <2>2, <1>7
    <3>2. family[q] # family[p]
      BY <3>1, <1>8
    <3> QED  BY <3>1, <3>2, <1>9 DEF ServerInv, RotationIsSingle
  <2> QED  BY <2>1, <2>2
<1>13. EndedStaysEnded'
  <2> SUFFICES ASSUME NEW q \in Issued \cup {n}, family'[q] \in ended \cup alarms
               PROVE  q \notin live' /\ refresh'[q] = "none"
    BY <1>1, <1>4 DEF EndedStaysEnded
  <2>1. family[p] \notin ended \cup alarms
    BY <1>2 DEF ServerInv, EndedStaysEnded
  <2>2. q # n
    BY <2>1, <1>3
  <2> QED  BY <2>1, <2>2, <1>7, <1>9 DEF ServerInv, EndedStaysEnded
<1> QED  BY <1>6, <1>10, <1>11, <1>12, <1>13 DEF ServerInv

(* A token that is deleted or written off leaves the rest as it was.       *)
LEMMA LapseKeeps ==
  ASSUME ServerInv, UNCHANGED <<family, reissued, ended, alarms>>, live' \subseteq live,
         refresh' \in [Pairs -> {"none", "unspent", "grace", "spent"}],
         \A p \in Pairs : refresh'[p] = "unspent" => refresh[p] = "unspent",
         \A p \in Pairs : refresh[p] = "none" => refresh'[p] = "none",
         \A p \in live' : refresh'[p] = refresh[p]
  PROVE  ServerInv'
<1>1. Issued' = Issued
  BY DEF Issued
<1>2. Types' /\ Rooted' /\ Paired'
  BY <1>1 DEF ServerInv, Types, Rooted, Paired
<1>3. RotationIsSingle'
  BY <1>1 DEF ServerInv, RotationIsSingle, Issued
<1>4. EndedStaysEnded'
  BY <1>1 DEF ServerInv, EndedStaysEnded, Issued
<1> QED  BY <1>2, <1>3, <1>4 DEF ServerInv

LEMMA TokenStepKeeps == ServerInv /\ TokenStep => ServerInv'
<1> SUFFICES ASSUME ServerInv, TokenStep PROVE ServerInv'
  OBVIOUS
<1>1. CASE UNCHANGED serverVars
  BY <1>1 DEF serverVars, tokenVars, ServerInv, Types, Rooted, Paired, RotationIsSingle,
     EndedStaysEnded, Issued
<1>2. ASSUME NEW f \in Pairs, f \in Issued, DropFamily(f),
             \/ ended' = ended \cup {f} /\ UNCHANGED alarms
             \/ alarms' = alarms \cup {f} /\ UNCHANGED ended
      PROVE  ServerInv'
  BY <1>2, DropKeeps
<1>3. ASSUME NEW p \in Pairs, IssuePair(p, p), live' = live \cup {p},
             refresh' = [refresh EXCEPT ![p] = "unspent"], UNCHANGED <<reissued, ended, alarms>>
      PROVE  ServerInv'
  BY <1>3, LoginKeeps
<1>4. ASSUME NEW p \in Pairs, NEW answer \in Answers, refresh[p] = "unspent", Exchange(p, answer)
      PROVE  ServerInv'
  BY <1>4, ExchangeKeeps
<1>5. CASE /\ live' = {} /\ refresh' = [p \in Pairs |-> "none"]
           /\ UNCHANGED <<family, reissued, ended, alarms>>
  BY <1>5, LapseKeeps
<1>6. ASSUME NEW p \in Pairs, live' = live \ {p}, UNCHANGED <<family, refresh, reissued, ended, alarms>>
      PROVE  ServerInv'
  <2>1. refresh \in [Pairs -> {"none", "unspent", "grace", "spent"}]
    BY DEF ServerInv, Types
  <2> QED  BY <1>6, <2>1, LapseKeeps
<1>7. ASSUME NEW p \in Pairs, refresh[p] = "grace",
             refresh' = [refresh EXCEPT ![p] = "spent"],
             UNCHANGED <<family, live, reissued, ended, alarms>>
      PROVE  ServerInv'
  <2>1. \A q \in Pairs : refresh'[q] = IF q = p THEN "spent" ELSE refresh[q]
    BY <1>7 DEF ServerInv, Types
  <2>2. p \notin live
    BY <1>7 DEF ServerInv, Paired
  <2>3. refresh' \in [Pairs -> {"none", "unspent", "grace", "spent"}]
    BY <1>7 DEF ServerInv, Types
  <2>4. \A q \in live : q \in Pairs
    BY DEF ServerInv, Types
  <2> QED  BY <1>7, <2>1, <2>2, <2>3, <2>4, LapseKeeps
<1>8. ASSUME NEW p \in Pairs, p \notin live,
             refresh' = [refresh EXCEPT ![p] = "none"],
             UNCHANGED <<family, live, reissued, ended, alarms>>
      PROVE  ServerInv'
  <2>1. \A q \in Pairs : refresh'[q] = IF q = p THEN "none" ELSE refresh[q]
    BY <1>8 DEF ServerInv, Types
  <2>2. refresh' \in [Pairs -> {"none", "unspent", "grace", "spent"}]
    BY <1>8 DEF ServerInv, Types
  <2>3. \A q \in live : q \in Pairs
    BY DEF ServerInv, Types
  <2> QED  BY <1>8, <2>1, <2>2, <2>3, LapseKeeps
<1> QED  BY <1>1, <1>2, <1>3, <1>4, <1>5, <1>6, <1>7, <1>8 DEF TokenStep

-----------------------------------------------------------------------------
(* Whatever is asked and whatever is answered, a handler takes a TokenStep.*)
LEMMA HandlerStep ==
  ASSUME ServerInv, NEW r, NEW answer \in Answers, Handle(r, answer),
         r.op = "refresh" => r.pair \in Pairs
  PROVE  TokenStep
<1>1. CASE r.op \in {"me", "data"} /\ Ask(r, answer)
  BY <1>1 DEF Ask, TokenStep
<1>2. CASE r.op = "logout" /\ Logout(r, answer)
  <2>1. CASE Guarded(r) /\ DropFamily(family[r.pair]) /\ ended' = ended \cup {family[r.pair]}
             /\ UNCHANGED alarms
    <3>1. family[r.pair] \in Issued /\ family[r.pair] \in Pairs
      BY <2>1 DEF Guarded, ServerInv, Rooted, Issued
    <3> QED  BY <2>1, <3>1 DEF TokenStep
  <2>2. CASE UNCHANGED serverVars
    BY <2>2 DEF TokenStep
  <2> QED  BY <1>2, <2>1, <2>2 DEF Logout
<1>3. CASE r.op = "login" /\ Login(r, answer)
  <2>1. CASE UNCHANGED serverVars
    BY <2>1 DEF TokenStep
  <2>2. ASSUME NEW p \in Pairs, IssuePair(p, p), live' = live \cup {p},
               refresh' = [refresh EXCEPT ![p] = "unspent"], UNCHANGED <<reissued, ended, alarms>>
        PROVE  TokenStep
    BY <2>2 DEF TokenStep
  <2> QED  BY <1>3, <2>1, <2>2 DEF Login, OverLimit
<1>4. CASE r.op = "refresh" /\ Refresh(r, answer)
  <2>1. r.pair \in Pairs
    BY <1>4
  <2>2. CASE UNCHANGED serverVars
    BY <2>2 DEF TokenStep
  <2>3. CASE refresh[r.pair] = "spent" /\ Alarm(r.pair)
    <3>1. family[r.pair] \in Issued /\ family[r.pair] \in Pairs
      BY <2>1, <2>3 DEF ServerInv, Rooted, Issued
    <3> QED  BY <2>3, <3>1 DEF Alarm, TokenStep
  <2>4. CASE Repeat(r.pair, answer)
    BY <2>4 DEF Repeat, TokenStep, serverVars
  <2>5. CASE refresh[r.pair] = "unspent" /\ Exchange(r.pair, answer)
    BY <2>1, <2>5 DEF TokenStep
  <2> QED  BY <1>4, <2>2, <2>3, <2>4, <2>5 DEF Refresh, OverLimit
<1> QED  BY <1>1, <1>2, <1>3, <1>4 DEF Handle

(* The types of what the client keeps and of what is on the way; a refresh *)
(* is asked for with a pair only.                                          *)
ExchangeRecord == [pair: Pairs, at: {"sent", "answered"}, answer: Answers]

Asked ==
  /\ stored \in Pairs \cup {NoPair}
  /\ page \in [Tabs -> {"closed", "checking", "in", "out"}]
  /\ DOMAIN calls \subseteq Calls /\ calls \in [DOMAIN calls -> CallRecord]
  /\ DOMAIN refreshing \subseteq Tabs /\ refreshing \in [DOMAIN refreshing -> ExchangeRecord]
  /\ strays \subseteq Request
  /\ \A r \in strays : r.op = "refresh" => r.pair \in Pairs
  /\ asks \in 0..MaxDeeds /\ faults \in 0..MaxFaults

LEMMA AskedAtFirst == Init => Asked
  BY SessionsAssumption DEF Init, Asked

LEMMA AnswersAreTyped ==
  Unauthorized \in Answers /\ \A answer \in Answers : answer.pair \in Pairs \cup {NoPair}
  BY DEF Answers, Unauthorized, Limited, Done

LEMMA WithoutKeeps ==
  ASSUME NEW map, NEW S, NEW R, NEW keys, DOMAIN map \subseteq S, map \in [DOMAIN map -> R]
  PROVE  /\ DOMAIN Without(map, keys) \subseteq S
         /\ Without(map, keys) \in [DOMAIN Without(map, keys) -> R]
  BY DEF Without

LEMMA PutKeeps ==
  ASSUME NEW map, NEW S, NEW R, NEW k \in S, NEW v \in R,
         DOMAIN map \subseteq S, map \in [DOMAIN map -> R]
  PROVE  /\ DOMAIN Put(map, k, v) \subseteq S
         /\ Put(map, k, v) \in [DOMAIN Put(map, k, v) -> R]
  BY DEF Put

LEMMA SentIsTyped ==
  ASSUME Asked, NEW t \in Tabs, NEW op \in {"me", "data", "logout", "login"}, NEW right \in BOOLEAN
  PROVE  Sent(t, op, right) \in CallRecord
  BY AnswersAreTyped DEF Asked, Sent, CallRecord

LEMMA LeftAreRequests ==
  ASSUME Asked
  PROVE  /\ \A t : LeftByExchange(t) \subseteq Request /\ \A r \in LeftByExchange(t) : r.pair \in Pairs
         /\ \A cs : cs \subseteq DOMAIN calls =>
              LeftBy(cs) \subseteq Request /\ \A r \in LeftBy(cs) : r.op # "refresh"
<1>1. ASSUME NEW t PROVE
        LeftByExchange(t) \subseteq Request /\ \A r \in LeftByExchange(t) : r.pair \in Pairs
  <2>1. CASE Refreshing(t)
    <3>1. refreshing[t].pair \in Pairs
      BY <2>1 DEF Refreshing, Asked, ExchangeRecord
    <3>2. RefreshRequest(refreshing[t]) \in Request
      BY <3>1 DEF RefreshRequest, Request
    <3>3. RefreshRequest(refreshing[t]).pair \in Pairs
      BY <3>1 DEF RefreshRequest
    <3> QED  BY <3>2, <3>3 DEF LeftByExchange
  <2>2. CASE ~Refreshing(t)
    BY <2>2 DEF LeftByExchange
  <2> QED  BY <2>1, <2>2
<1>2. ASSUME NEW cs, cs \subseteq DOMAIN calls PROVE
        LeftBy(cs) \subseteq Request /\ \A r \in LeftBy(cs) : r.op # "refresh"
  <2>1. \A c \in cs : RequestOf(calls[c]) \in Request /\ RequestOf(calls[c]).op = calls[c].op
    BY <1>2 DEF RequestOf, Request, Asked, CallRecord
  <2> QED  BY <2>1 DEF LeftBy
<1> QED  BY <1>1, <1>2

LEMMA MountKeeps ==
  ASSUME Asked, NEW t \in Tabs, Mount(t)
  PROVE  /\ page' \in [Tabs -> {"closed", "checking", "in", "out"}]
         /\ DOMAIN calls' \subseteq Calls /\ calls' \in [DOMAIN calls' -> CallRecord]
<1>1. page' \in [Tabs -> {"closed", "checking", "in", "out"}]
  BY DEF Mount, Asked
<1>2. /\ DOMAIN Without(calls, CallsOf(t)) \subseteq Calls
      /\ Without(calls, CallsOf(t)) \in [DOMAIN Without(calls, CallsOf(t)) -> CallRecord]
  BY WithoutKeeps DEF Asked
<1>3. CASE stored = NoPair
  BY <1>1, <1>2, <1>3 DEF Mount
<1>4. CASE stored # NoPair
  <2> DEFINE others == DOMAIN calls \ CallsOf(t)
  <2>1. /\ others # Calls
        /\ calls' = Put(Without(calls, CallsOf(t)), FreeOf(others), Sent(t, "me", TRUE))
    BY <1>4 DEF Mount
  <2>2. FreeOf(others) \in Calls
    BY <2>1 DEF FreeOf, Asked
  <2>3. Sent(t, "me", TRUE) \in CallRecord
    BY SentIsTyped
  <2> HIDE DEF others
  <2> QED  BY <1>1, <1>2, <2>1, <2>2, <2>3, PutKeeps
<1> QED  BY <1>3, <1>4

LEMMA FaultKeeps == Asked /\ Fault => faults' \in 0..MaxFaults
  BY SessionsAssumption DEF Asked, Fault

LEMMA CallKeeps ==
  ASSUME Asked, NEW t \in Tabs, NEW op \in {"data", "logout", "login"}, NEW right \in BOOLEAN,
         Call(t, op, right)
  PROVE  Asked'
<1>1. FreeOf(DOMAIN calls) \in Calls /\ Sent(t, op, right) \in CallRecord
  BY SentIsTyped DEF Call, HasFree, FreeOf, Asked
<1>2. DOMAIN calls' \subseteq Calls /\ calls' \in [DOMAIN calls' -> CallRecord]
  BY <1>1, PutKeeps DEF Call, Asked
<1>3. asks' \in 0..MaxDeeds
  BY SessionsAssumption DEF Call, Asked
<1> QED  BY <1>2, <1>3 DEF Call, Asked

LEMMA CallStepKeeps ==
  ASSUME Asked, NEW c \in DOMAIN calls, CallStep(c)
  PROVE  Asked'
<1>1. calls[c] \in CallRecord /\ calls[c].tab \in Tabs
  BY DEF Asked, CallRecord
<1>2. /\ DOMAIN Without(calls, {c}) \subseteq Calls
      /\ Without(calls, {c}) \in [DOMAIN Without(calls, {c}) -> CallRecord]
  BY WithoutKeeps DEF Asked
<1>3. CASE ServeCall(c)
  <2>1. PICK answer \in Answers :
          calls' = [calls EXCEPT ![c].at = "answered", ![c].answer = answer]
    BY <1>3 DEF ServeCall
  <2>2. [calls[c] EXCEPT !.at = "answered", !.answer = answer] \in CallRecord
    BY <1>1 DEF CallRecord
  <2>3. calls' = [calls EXCEPT ![c] = [calls[c] EXCEPT !.at = "answered", !.answer = answer]]
    BY <2>1
  <2>4. DOMAIN calls' \subseteq Calls /\ calls' \in [DOMAIN calls' -> CallRecord]
    BY <2>2, <2>3 DEF Asked
  <2> QED  BY <1>3, <2>4 DEF ServeCall, Asked
<1>4. CASE Succeed(c)
  <2>1. calls[c].answer.pair \in Pairs \cup {NoPair}
    BY <1>1, AnswersAreTyped DEF CallRecord
  <2>2. stored' \in Pairs \cup {NoPair}
    BY <1>4, <2>1 DEF Succeed, Asked, setTokens
  <2>3. page' \in [Tabs -> {"closed", "checking", "in", "out"}]
    BY <1>1, <1>4 DEF Succeed, Asked, setTokens
  <2> QED  BY <1>2, <1>4, <2>2, <2>3 DEF Succeed, Asked, setTokens
<1>5. CASE WaitForPair(c)
  <2>1. [calls[c] EXCEPT !.at = "waiting"] \in CallRecord
    BY <1>1 DEF CallRecord
  <2>2. DOMAIN calls' \subseteq Calls /\ calls' \in [DOMAIN calls' -> CallRecord]
    BY <1>5, <2>1 DEF WaitForPair, Asked
  <2>3. Exchanging(stored) \in ExchangeRecord
    BY <1>5, AnswersAreTyped DEF WaitForPair, MayExchange, Asked, Exchanging, ExchangeRecord
  <2>4. DOMAIN refreshing' \subseteq Tabs /\ refreshing' \in [DOMAIN refreshing' -> ExchangeRecord]
    BY <1>1, <1>5, <2>3, PutKeeps DEF WaitForPair, Asked
  <2> QED  BY <1>5, <2>2, <2>4 DEF WaitForPair, Asked
<1>6. CASE Deny(c)
  BY <1>1, <1>2, <1>6 DEF Deny, Asked, setTokens
<1>7. CASE Refused(c)
  BY <1>1, <1>2, <1>7 DEF Refused, Fail, Asked, setTokens
<1> QED  BY <1>3, <1>4, <1>5, <1>6, <1>7 DEF CallStep

LEMMA ExchangeStepKeeps ==
  ASSUME Asked, NEW t \in DOMAIN refreshing, ExchangeStep(t)
  PROVE  Asked'
<1>1. refreshing[t] \in ExchangeRecord /\ t \in Tabs
  BY DEF Asked
<1>2. /\ DOMAIN Without(refreshing, {t}) \subseteq Tabs
      /\ Without(refreshing, {t}) \in [DOMAIN Without(refreshing, {t}) -> ExchangeRecord]
  BY WithoutKeeps DEF Asked
<1>3. CASE ServeRefresh(t)
  <2>1. PICK answer \in Answers :
          refreshing' = [refreshing EXCEPT ![t].at = "answered", ![t].answer = answer]
    BY <1>3 DEF ServeRefresh
  <2>2. [refreshing[t] EXCEPT !.at = "answered", !.answer = answer] \in ExchangeRecord
    BY <1>1 DEF ExchangeRecord
  <2>3. refreshing' = [refreshing EXCEPT
                        ![t] = [refreshing[t] EXCEPT !.at = "answered", !.answer = answer]]
    BY <2>1
  <2>4. DOMAIN refreshing' \subseteq Tabs /\ refreshing' \in [DOMAIN refreshing' -> ExchangeRecord]
    BY <2>2, <2>3 DEF Asked
  <2> QED  BY <1>3, <2>4 DEF ServeRefresh, Asked
<1>4. CASE TakePair(t)
  <2>1. stored' \in Pairs \cup {NoPair}
    BY <1>1, <1>4, AnswersAreTyped DEF TakePair, ExchangeRecord, setTokens
  <2>2. \A c \in DOMAIN calls :
          /\ calls[c] \in CallRecord
          /\ [calls[c] EXCEPT !.at = "sent", !.pair = stored', !.again = FALSE] \in CallRecord
    BY <2>1 DEF Asked, CallRecord
  <2>3. DOMAIN calls' \subseteq Calls /\ calls' \in [DOMAIN calls' -> CallRecord]
    BY <1>4, <2>2 DEF TakePair, Asked, setTokens
  <2> QED  BY <1>2, <1>4, <2>1, <2>3 DEF TakePair, Asked, setTokens
<1>5. CASE RefreshDenied(t)
  <2>1. /\ DOMAIN Without(calls, WaitingOf(t)) \subseteq Calls
        /\ Without(calls, WaitingOf(t)) \in [DOMAIN Without(calls, WaitingOf(t)) -> CallRecord]
    BY WithoutKeeps DEF Asked
  <2> QED  BY <1>1, <1>2, <1>5, <2>1 DEF RefreshDenied, NoPairComes, Asked, setTokens
<1> QED  BY <1>3, <1>4, <1>5 DEF ExchangeStep

LEMMA FaultStepKeeps ==
  ASSUME Asked, FaultStep
  PROVE  Asked'
<1>1. CASE Restart
  BY <1>1, FaultKeeps DEF Restart, clientVars, Asked
<1>2. ASSUME NEW c \in DOMAIN calls, LoseCall(c) PROVE Asked'
  <2>1. /\ DOMAIN Without(calls, {c}) \subseteq Calls
        /\ Without(calls, {c}) \in [DOMAIN Without(calls, {c}) -> CallRecord]
    BY WithoutKeeps DEF Asked
  <2>2. page' \in [Tabs -> {"closed", "checking", "in", "out"}]
    BY <1>2 DEF LoseCall, Fail, Asked, setTokens
  <2>3. strays' \subseteq Request /\ \A r \in strays' : r.op = "refresh" => r.pair \in Pairs
    BY <1>2, LeftAreRequests DEF LoseCall, Asked
  <2> QED  BY <1>2, <2>1, <2>2, <2>3, FaultKeeps DEF LoseCall, Fail, Asked, setTokens
<1>3. ASSUME NEW t \in DOMAIN refreshing, LoseRefresh(t) PROVE Asked'
  <2>1. /\ DOMAIN Without(calls, WaitingOf(t)) \subseteq Calls
        /\ Without(calls, WaitingOf(t)) \in [DOMAIN Without(calls, WaitingOf(t)) -> CallRecord]
        /\ DOMAIN Without(refreshing, {t}) \subseteq Tabs
        /\ Without(refreshing, {t}) \in [DOMAIN Without(refreshing, {t}) -> ExchangeRecord]
    BY WithoutKeeps DEF Asked
  <2>2. page' \in [Tabs -> {"closed", "checking", "in", "out"}]
    BY <1>3 DEF LoseRefresh, NoPairComes, Asked, setTokens
  <2>3. strays' \subseteq Request /\ \A r \in strays' : r.op = "refresh" => r.pair \in Pairs
    BY <1>3, LeftAreRequests DEF LoseRefresh, Asked
  <2> QED  BY <1>3, <2>1, <2>2, <2>3, FaultKeeps DEF LoseRefresh, NoPairComes, Asked, setTokens
<1>4. ASSUME NEW r \in strays, ServeStray(r) PROVE Asked'
  BY <1>4 DEF ServeStray, clientVars, Asked
<1> QED  BY <1>1, <1>2, <1>3, <1>4 DEF FaultStep

LEMMA AskedKept == Asked /\ [Next]_vars => Asked'
<1> SUFFICES ASSUME Asked, [Next]_vars PROVE Asked'
  OBVIOUS
<1>1. CASE UNCHANGED vars
  BY <1>1 DEF vars, clientVars, Asked
<1>2. CASE UserStep
  <2>1. ASSUME NEW t \in Tabs, Open(t) PROVE Asked'
    BY <2>1, MountKeeps DEF Open, Asked
  <2>2. ASSUME NEW t \in Tabs, Reload(t) PROVE Asked'
    <3>1. /\ DOMAIN Without(refreshing, {t}) \subseteq Tabs
          /\ Without(refreshing, {t}) \in [DOMAIN Without(refreshing, {t}) -> ExchangeRecord]
      BY WithoutKeeps DEF Asked
    <3>2. strays' \subseteq Request /\ \A r \in strays' : r.op = "refresh" => r.pair \in Pairs
      BY <2>2, LeftAreRequests DEF Reload, CallsOf, Asked
    <3> QED  BY <2>2, <3>1, <3>2, MountKeeps, FaultKeeps DEF Reload, Asked
  <2>3. ASSUME NEW t \in Tabs, AskData(t) \/ AskLogout(t) \/ \E right \in BOOLEAN : AskLogin(t, right)
        PROVE  Asked'
    BY <2>3, CallKeeps DEF AskData, AskLogout, AskLogin
  <2> QED  BY <1>2, <2>1, <2>2, <2>3 DEF UserStep
<1>3. CASE TimeStep
  BY <1>3 DEF TimeStep, AccessLapses, GraceEnds, RefreshLapses, ClockStep, clientVars, Asked
<1> QED  BY <1>1, <1>2, <1>3, CallStepKeeps, ExchangeStepKeeps, FaultStepKeeps DEF Next

LEMMA NextIsTokenStep == ServerInv /\ Asked /\ [Next]_vars => TokenStep
<1> SUFFICES ASSUME ServerInv, Asked, [Next]_vars PROVE TokenStep
  OBVIOUS
<1>1. CASE UNCHANGED vars
  BY <1>1 DEF vars, TokenStep
<1>2. CASE UserStep
  <2>1. UNCHANGED serverVars
    BY <1>2 DEF UserStep, Open, Reload, AskData, AskLogout, AskLogin, Call
  <2> QED  BY <2>1 DEF TokenStep
<1>3. ASSUME NEW c \in DOMAIN calls, CallStep(c) PROVE TokenStep
  <2>1. CASE ServeCall(c)
    <3>1. PICK answer \in Answers : Handle(RequestOf(calls[c]), answer)
      BY <2>1 DEF ServeCall
    <3>2. RequestOf(calls[c]).op # "refresh"
      BY DEF RequestOf, Asked, CallRecord
    <3> QED  BY <3>1, <3>2, HandlerStep
  <2>2. CASE UNCHANGED serverVars
    BY <2>2 DEF TokenStep
  <2> QED  BY <1>3, <2>1, <2>2 DEF CallStep, Succeed, WaitForPair, Deny, Refused, Fail, setTokens
<1>4. ASSUME NEW t \in DOMAIN refreshing, ExchangeStep(t) PROVE TokenStep
  <2>1. CASE ServeRefresh(t)
    <3>1. PICK answer \in Answers : Handle(RefreshRequest(refreshing[t]), answer)
      BY <2>1 DEF ServeRefresh
    <3>2. RefreshRequest(refreshing[t]).pair \in Pairs
      BY DEF RefreshRequest, Asked, ExchangeRecord
    <3> QED  BY <3>1, <3>2, HandlerStep
  <2>2. CASE UNCHANGED serverVars
    BY <2>2 DEF TokenStep
  <2> QED  BY <1>4, <2>1, <2>2 DEF ExchangeStep, TakePair, RefreshDenied, NoPairComes, setTokens
<1>5. CASE TimeStep
  <2>1. ASSUME NEW p \in Pairs, AccessLapses(p) PROVE TokenStep
    BY <2>1 DEF AccessLapses, ClockStep, TokenStep
  <2>2. ASSUME NEW p \in Pairs, GraceEnds(p) PROVE TokenStep
    BY <2>2 DEF GraceEnds, ClockStep, TokenStep
  <2>3. ASSUME NEW p \in Pairs, RefreshLapses(p) PROVE TokenStep
    BY <2>3 DEF RefreshLapses, ClockStep, TokenStep
  <2> QED  BY <1>5, <2>1, <2>2, <2>3 DEF TimeStep
<1>6. CASE FaultStep
  <2>1. CASE Restart
    BY <2>1 DEF Restart, TokenStep
  <2>2. ASSUME NEW r \in strays, ServeStray(r) PROVE TokenStep
    <3>1. PICK answer \in Answers : Handle(r, answer)
      BY <2>2 DEF ServeStray
    <3>2. r.op = "refresh" => r.pair \in Pairs
      BY DEF Asked
    <3> QED  BY <3>1, <3>2, HandlerStep
  <2>3. CASE UNCHANGED serverVars
    BY <2>3 DEF TokenStep
  <2> QED  BY <1>6, <2>1, <2>2, <2>3 DEF FaultStep, LoseCall, Fail, LoseRefresh, NoPairComes, setTokens
<1> QED  BY <1>1, <1>2, <1>3, <1>4, <1>5, <1>6 DEF Next

LEMMA ServerInvariant == Spec => [](ServerInv /\ Asked)
<1>1. Init => ServerInv /\ Asked
  BY StartsWell, AskedAtFirst
<1>2. ServerInv /\ Asked /\ [Next]_vars => (ServerInv /\ Asked)'
  BY AskedKept, NextIsTokenStep, TokenStepKeeps
<1> QED  BY <1>1, <1>2, PTL DEF Spec

-----------------------------------------------------------------------------
(* The types of the whole state, for any number of tabs, calls and faults. *)
THEOREM SessionsTyped == Spec => []TypeOK
<1>1. ServerInv /\ Asked => TypeOK
  BY DEF ServerInv, Types, Rooted, Asked, TypeOK, Families, ExchangeRecord
<1> QED  BY <1>1, ServerInvariant, PTL

(* However requests and answers are repeated, lost or late, a family has   *)
(* one refresh token to spend and one access token (refresh(), the grace   *)
(* of admins.service.ts:218).                                              *)
THEOREM Single == Spec => []RotationIsSingle
<1>1. ServerInv /\ Asked => RotationIsSingle
  BY DEF ServerInv
<1> QED  BY <1>1, ServerInvariant, PTL

(* A family that was logged out, or whose token was used twice, never has  *)
(* a token again (dropFamily(), admins.service.ts:282).                    *)
THEOREM EndedForGood == Spec => []EndedStaysEnded
<1>1. ServerInv /\ Asked => EndedStaysEnded
  BY DEF ServerInv
<1> QED  BY <1>1, ServerInvariant, PTL

-----------------------------------------------------------------------------
(* One tab that loses nothing.  A refresh token that was used is none that *)
(* the tab will use: not the one it asks with, nor any on its way to the   *)
(* storage, and the stored one only until the answer to its exchange is    *)
(* taken.                                                                  *)

Used == {p \in Pairs : refresh[p] \in {"grace", "spent"}}
Granted(c) == calls[c].op = "login" /\ Answered(calls[c]) /\ calls[c].answer.code = "ok"
Renewed(t) == Answered(refreshing[t]) /\ refreshing[t].answer.code = "ok"
Given(c) == calls[c].answer.pair
Renewal(t) == refreshing[t].answer.pair

OnlyTab == \A t, u \in Tabs : page[t] # "closed" /\ page[u] # "closed" => t = u
Alone == faults = 0 /\ OnlyTab

NothingStray ==
  /\ strays = {} /\ alarms = {} /\ stored \in Issued \cup {NoPair}
  /\ \A c \in DOMAIN calls : page[calls[c].tab] # "closed"
  /\ \A t \in DOMAIN refreshing : page[t] # "closed" /\ refreshing[t].pair \in Issued

GrantsUnused ==
  \A c \in DOMAIN calls : Granted(c) =>
    /\ Given(c) \in Issued \ Used /\ Given(c) # stored
    /\ \A t \in DOMAIN refreshing : Given(c) # refreshing[t].pair
    /\ \A d \in DOMAIN calls : Granted(d) /\ Given(d) = Given(c) => d = c

RenewalUnused ==
  \A t \in DOMAIN refreshing : Renewed(t) =>
    /\ Renewal(t) \in Issued \ Used /\ Renewal(t) # stored
    /\ Renewal(t) # refreshing[t].pair
    /\ \A c \in DOMAIN calls : Granted(c) => Given(c) # Renewal(t)

AskedUnused ==
  \A t \in DOMAIN refreshing : ~Answered(refreshing[t]) => refreshing[t].pair \notin Used

StoredUnused == stored \in Used => \E t \in DOMAIN refreshing : Answered(refreshing[t])

Unused == GrantsUnused /\ RenewalUnused /\ AskedUnused /\ StoredUnused
Kept == NothingStray /\ Unused
AloneInv == Alone => Kept

(* What the server does to the used ones.                                  *)
Calm == Used' \subseteq Used /\ Issued \subseteq Issued' /\ alarms' = alarms

LEMMA IssuedGrow ==
  ASSUME ServerInv, NEW p \in Pairs, NEW f \in Pairs, IssuePair(p, f)
  PROVE  Issued' = Issued \cup {p} /\ p \notin Issued
<1>1. p \notin Issued BY DEF IssuePair, IsNextPair
<1>2. \A q \in Pairs : family'[q] = IF q = p THEN f ELSE family[q]
  BY DEF IssuePair, ServerInv, Types
<1>3. f # NoPair BY PairsAreNumbers
<1>4. QED BY <1>1, <1>2, <1>3 DEF Issued

LEMMA OthersAreCalm ==
  ASSUME ServerInv, NEW r, r.op # "refresh", NEW answer, Handle(r, answer)
  PROVE  /\ Calm
         /\ r.op = "login" /\ answer.code = "ok" =>
              answer.pair \in Issued' \ Used' /\ answer.pair \notin Issued
<1>1. CASE UNCHANGED serverVars /\ ~(r.op = "login" /\ answer.code = "ok")
  BY <1>1 DEF serverVars, tokenVars, Calm, Used, Issued
<1>2. CASE r.op = "logout" /\ DropFamily(family[r.pair]) /\ UNCHANGED alarms
  <2>1. \A p \in Pairs : refresh'[p] = refresh[p] \/ refresh'[p] = "none"
    BY <1>2 DEF DropFamily
  <2>2. QED BY <1>2, <2>1 DEF DropFamily, Calm, Used, Issued
<1>3. ASSUME NEW p \in Pairs, IssuePair(p, p), refresh' = [refresh EXCEPT ![p] = "unspent"],
             answer = Done(p), UNCHANGED alarms
      PROVE  Calm /\ answer.pair \in Issued' \ Used' /\ answer.pair \notin Issued
  <2>1. Issued' = Issued \cup {p} /\ p \notin Issued BY <1>3, IssuedGrow
  <2>2. \A q \in Pairs : refresh'[q] = IF q = p THEN "unspent" ELSE refresh[q]
    BY <1>3 DEF ServerInv, Types
  <2>3. Used' \subseteq Used /\ p \notin Used' BY <2>2 DEF Used
  <2>4. QED BY <1>3, <2>1, <2>3 DEF Calm, Done
<1>4. CASE r.op = "login" /\ Login(r, answer)
  BY <1>1, <1>3, <1>4 DEF Login, OverLimit, Limited, Unauthorized
<1>5. QED BY <1>1, <1>2, <1>4 DEF Handle, Ask, Logout

LEMMA ExchangeIsClean ==
  ASSUME ServerInv, NEW r, r.op = "refresh", r.pair \in Issued \ Used, NEW answer,
         Handle(r, answer)
  PROVE  /\ Issued \subseteq Issued' /\ alarms' = alarms /\ Used' \subseteq Used \cup {r.pair}
         /\ answer.code = "ok" => answer.pair \in Issued' \ Used' /\ answer.pair \notin Issued
<1>1. CASE UNCHANGED serverVars /\ answer.code # "ok"
  BY <1>1 DEF serverVars, tokenVars, Used, Issued
<1>2. ASSUME NEW q \in Pairs, IssuePair(q, family[r.pair]), answer = Done(q), UNCHANGED alarms,
             refresh' = [refresh EXCEPT ![r.pair] = "grace", ![q] = "unspent"]
      PROVE  /\ Issued \subseteq Issued' /\ alarms' = alarms /\ Used' \subseteq Used \cup {r.pair}
             /\ answer.pair \in Issued' \ Used' /\ answer.pair \notin Issued
  <2>1. family[r.pair] \in Pairs BY DEF ServerInv, Rooted, Issued
  <2>2. Issued' = Issued \cup {q} /\ q \notin Issued BY <1>2, <2>1, IssuedGrow
  <2>3. \A p \in Pairs : refresh'[p] = IF p = q THEN "unspent"
                                        ELSE IF p = r.pair THEN "grace" ELSE refresh[p]
    BY <1>2 DEF ServerInv, Types
  <2>4. Used' \subseteq Used \cup {r.pair} /\ q \notin Used' BY <2>3 DEF Used
  <2>5. QED BY <1>2, <2>2, <2>4 DEF Done
<1>3. refresh[r.pair] \notin {"grace", "spent"} BY DEF Used, Issued
<1>4. Refresh(r, answer) BY DEF Handle
<1>5. QED
  BY <1>1, <1>2, <1>3, <1>4 DEF Refresh, OverLimit, Exchange, Limited, Unauthorized

-----------------------------------------------------------------------------
LEMMA CalmKeeps ==
  ASSUME Kept, Calm, UNCHANGED <<stored, page, calls, refreshing, strays>>
  PROVE  Kept'
<1>1. NothingStray' BY DEF Kept, NothingStray, Calm
<1>2. GrantsUnused' BY DEF Kept, Unused, GrantsUnused, Granted, Given, Calm
<1>3. RenewalUnused'
  BY DEF Kept, Unused, RenewalUnused, Renewed, Renewal, Granted, Given, Calm
<1>4. AskedUnused' /\ StoredUnused' BY DEF Kept, Unused, AskedUnused, StoredUnused, Calm
<1>5. QED BY <1>1, <1>2, <1>3, <1>4 DEF Kept, Unused

(* Calls are made, repeated, refused or dropped; none is granted anew.     *)
LEMMA FewerGrantsKeep ==
  ASSUME Kept, UNCHANGED <<serverVars, refreshing, strays>>,
         \A t \in Tabs : page[t] # "closed" => page'[t] # "closed",
         Asked, stored' = stored \/ stored' = NoPair,
         \A c \in DOMAIN calls' : page'[calls'[c].tab] # "closed",
         \A c \in DOMAIN calls' : Granted(c)' => c \in DOMAIN calls /\ Granted(c) /\ Given(c)' = Given(c)
  PROVE  Kept'
<1>1. Issued' = Issued /\ Used' = Used /\ NoPair \notin Issued /\ NoPair \notin Used
  BY PairsAreNumbers DEF Issued, Used, serverVars, tokenVars
<1>2. NothingStray' BY <1>1 DEF Kept, NothingStray, serverVars, Asked
<1>3. GrantsUnused' BY <1>1 DEF Kept, Unused, GrantsUnused
<1>4. RenewalUnused' BY <1>1 DEF Kept, Unused, RenewalUnused, Renewed, Renewal
<1>5. AskedUnused' /\ StoredUnused' BY <1>1 DEF Kept, Unused, AskedUnused, StoredUnused
<1>6. QED BY <1>2, <1>3, <1>4, <1>5 DEF Kept, Unused

LEMMA ServeCallKeeps ==
  ASSUME ServerInv, Asked, Kept, NEW c \in DOMAIN calls, ServeCall(c)
  PROVE  Kept'
<1>1. PICK answer \in Answers :
        /\ Handle(RequestOf(calls[c]), answer)
        /\ calls' = [calls EXCEPT ![c].at = "answered", ![c].answer = answer]
  BY DEF ServeCall
<1> DEFINE r == RequestOf(calls[c])
<1>2. calls[c] \in CallRecord /\ r.op = calls[c].op /\ r.op # "refresh"
  BY DEF Asked, CallRecord, RequestOf
<1>3. /\ Calm
      /\ r.op = "login" /\ answer.code = "ok" =>
           answer.pair \in Issued' \ Used' /\ answer.pair \notin Issued
  BY <1>1, <1>2, OthersAreCalm
<1>4. /\ DOMAIN calls' = DOMAIN calls
      /\ calls'[c].op = calls[c].op /\ calls'[c].tab = calls[c].tab
      /\ calls'[c].answer = answer
      /\ \A d \in DOMAIN calls : d # c => calls'[d] = calls[d]
  BY <1>1, <1>2 DEF CallRecord
<1>5. /\ Granted(c)' => r.op = "login" /\ answer.code = "ok" /\ Given(c)' = answer.pair
      /\ \A d \in DOMAIN calls : d # c => Granted(d)' = Granted(d) /\ Given(d)' = Given(d)
  BY <1>2, <1>4 DEF Granted, Given
<1>6. UNCHANGED <<stored, page, refreshing, strays>> BY DEF ServeCall
<1> HIDE DEF r
<1>7. NothingStray' BY <1>3, <1>4, <1>6 DEF Kept, NothingStray, Calm
<1>8. \A d \in DOMAIN calls : Granted(d) => Given(d) \in Issued BY DEF Kept, Unused, GrantsUnused
<1>9. stored \in Issued \cup {NoPair} /\ NoPair \notin Issued'
      /\ \A t \in DOMAIN refreshing : refreshing[t].pair \in Issued
  BY PairsAreNumbers DEF Kept, NothingStray, Issued
<1>10. GrantsUnused'
  <2>1. ASSUME NEW d \in DOMAIN calls, d # c, Granted(d)'
        PROVE  /\ Given(d)' \in (Issued \ Used)' /\ Given(d)' # stored
               /\ \A t \in DOMAIN refreshing : Given(d)' # refreshing[t].pair
               /\ \A e \in DOMAIN calls : Granted(e)' /\ Given(e)' = Given(d)' => e = d
    BY <1>3, <1>5, <1>8, <2>1 DEF Kept, Unused, GrantsUnused, Calm
  <2>2. ASSUME Granted(c)'
        PROVE  /\ Given(c)' \in (Issued \ Used)' /\ Given(c)' # stored
               /\ \A t \in DOMAIN refreshing : Given(c)' # refreshing[t].pair
               /\ \A e \in DOMAIN calls : Granted(e)' /\ Given(e)' = Given(c)' => e = c
    BY <1>3, <1>5, <1>8, <1>9, <2>2
  <2>3. QED BY <1>4, <1>6, <2>1, <2>2 DEF GrantsUnused
<1>11. RenewalUnused'
  <2>1. \A t \in DOMAIN refreshing : Renewed(t) => Renewal(t) \in Issued
    BY DEF Kept, Unused, RenewalUnused
  <2>2. ASSUME NEW t \in DOMAIN refreshing, Renewed(t), NEW d \in DOMAIN calls, Granted(d)'
        PROVE  Given(d)' # Renewal(t)
    <3>1. CASE d = c BY <1>3, <1>5, <2>1, <2>2, <3>1
    <3>2. CASE d # c BY <1>5, <2>2, <3>2 DEF Kept, Unused, RenewalUnused
    <3>3. QED BY <3>1, <3>2
  <2>3. \A t \in DOMAIN refreshing : Renewed(t)' = Renewed(t) /\ Renewal(t)' = Renewal(t)
    BY <1>6 DEF Renewed, Renewal
  <2>4. QED BY <1>3, <1>4, <1>6, <2>2, <2>3 DEF Kept, Unused, RenewalUnused, Calm
<1>12. AskedUnused' /\ StoredUnused'
  BY <1>3, <1>6 DEF Kept, Unused, AskedUnused, StoredUnused, Calm
<1>13. QED BY <1>7, <1>10, <1>11, <1>12 DEF Kept, Unused

LEMMA SucceedKeeps ==
  ASSUME ServerInv, Asked, Kept, NEW c \in DOMAIN calls, Succeed(c)
  PROVE  Kept'
<1>1. calls[c] \in CallRecord /\ UNCHANGED <<serverVars, refreshing, strays>>
  BY DEF Asked, CallRecord, Succeed
<1>2. /\ DOMAIN calls' = DOMAIN calls \ {c}
      /\ \A d \in DOMAIN calls' : calls'[d] = calls[d]
  BY DEF Succeed, Without
<1>3. \A t \in Tabs : page[t] # "closed" => page'[t] # "closed"
  BY <1>1 DEF Succeed, Asked
<1>4. \A d \in DOMAIN calls' : page'[calls'[d].tab] # "closed"
  BY <1>2, <1>3 DEF Kept, NothingStray, Asked, CallRecord
<1>5. \A d \in DOMAIN calls' : Granted(d)' = Granted(d) /\ Given(d)' = Given(d)
  BY <1>2 DEF Granted, Given
<1>6. CASE calls[c].op # "login"
  <2>1. stored' = stored \/ stored' = NoPair BY <1>6 DEF Succeed, setTokens
  <2>2. QED BY <1>1, <1>2, <1>3, <1>4, <1>5, <2>1, FewerGrantsKeep
<1>7. CASE calls[c].op = "login"
  <2>1. Granted(c) /\ stored' = Given(c) BY <1>7 DEF Succeed, setTokens, Granted, Given
  <2>2. Issued' = Issued /\ Used' = Used /\ alarms' = alarms
    BY <1>1 DEF serverVars, tokenVars, Issued, Used
  <2>3. stored' \in Issued \ Used /\ \A d \in DOMAIN calls' : Granted(d) => Given(d) # stored'
    BY <1>2, <2>1 DEF Kept, Unused, GrantsUnused
  <2>4. NothingStray'
    BY <1>1, <1>3, <1>4, <2>2, <2>3 DEF Kept, NothingStray, Asked
  <2>5. GrantsUnused' BY <1>1, <1>2, <1>5, <2>2, <2>3 DEF Kept, Unused, GrantsUnused
  <2>6. \A t \in DOMAIN refreshing : Renewed(t)' = Renewed(t) /\ Renewal(t)' = Renewal(t)
    BY <1>1 DEF Renewed, Renewal
  <2>7. RenewalUnused'
    BY <1>1, <1>2, <1>5, <2>1, <2>2, <2>6 DEF Kept, Unused, RenewalUnused
  <2>8. AskedUnused' /\ StoredUnused'
    BY <1>1, <2>2, <2>3 DEF Kept, Unused, AskedUnused, StoredUnused
  <2>9. QED BY <2>4, <2>5, <2>7, <2>8 DEF Kept, Unused
<1>8. QED BY <1>6, <1>7

(* The tab asks for an exchange when none is on the way, so with a token   *)
(* that was not used.                                                      *)
LEMMA WaitKeeps ==
  ASSUME ServerInv, Asked, Kept, OnlyTab, NEW c \in DOMAIN calls, WaitForPair(c)
  PROVE  Kept'
<1> DEFINE t == calls[c].tab
<1>1. calls[c] \in CallRecord /\ t \in Tabs /\ UNCHANGED <<serverVars, stored, page, strays>>
  BY DEF Asked, CallRecord, WaitForPair
<1>2. /\ DOMAIN calls' = DOMAIN calls /\ ~Granted(c)' /\ calls'[c].tab = t
      /\ \A d \in DOMAIN calls : d # c => calls'[d] = calls[d]
  <2>1. calls' = [calls EXCEPT ![c].at = "waiting"] BY DEF WaitForPair
  <2>2. QED BY <1>1, <2>1 DEF CallRecord, Granted, Answered
<1>3. \A d \in DOMAIN calls : Granted(d)' => Granted(d) /\ Given(d)' = Given(d)
  BY <1>2 DEF Granted, Given
<1>4. \A d \in DOMAIN calls' : page'[calls'[d].tab] # "closed"
  BY <1>1, <1>2 DEF Kept, NothingStray
<1>5. CASE Refreshing(t)
  <2>1. refreshing' = refreshing BY <1>5 DEF WaitForPair
  <2>2. QED BY <1>1, <1>2, <1>3, <1>4, <2>1, FewerGrantsKeep
<1>6. CASE ~Refreshing(t)
  <2>1. DOMAIN refreshing = {}
    <3>1. page[t] # "closed" /\ \A u \in DOMAIN refreshing : u \in Tabs /\ page[u] # "closed"
      BY DEF Kept, NothingStray, Asked
    <3>2. QED BY <1>1, <1>6, <3>1 DEF OnlyTab, Refreshing
  <2>2. stored # NoPair /\ stored \in Issued \ Used
    BY <2>1 DEF WaitForPair, MayExchange, Kept, NothingStray, Unused, StoredUnused
  <2>3. /\ DOMAIN refreshing' = {t} /\ refreshing'[t] = Exchanging(stored)
    BY <1>6, <2>1 DEF WaitForPair, Put
  <2>4. refreshing'[t].pair = stored /\ ~Answered(refreshing'[t])
    BY <2>3 DEF Exchanging, Answered
  <2>5. Issued' = Issued /\ Used' = Used /\ alarms' = alarms
    BY <1>1 DEF serverVars, tokenVars, Issued, Used
  <2>6. NothingStray'
    BY <1>1, <1>4, <2>2, <2>3, <2>4, <2>5 DEF Kept, NothingStray
  <2>7. GrantsUnused'
    BY <1>1, <1>2, <1>3, <2>3, <2>4, <2>5 DEF Kept, Unused, GrantsUnused
  <2>8. RenewalUnused' /\ AskedUnused' /\ StoredUnused'
    BY <1>1, <2>2, <2>3, <2>4, <2>5 DEF RenewalUnused, Renewed, AskedUnused, StoredUnused
  <2>9. QED BY <2>6, <2>7, <2>8 DEF Kept, Unused
<1>7. QED BY <1>5, <1>6

(* A call ends without a pair.                                             *)
LEMMA EndsKeep ==
  ASSUME Asked, Kept, NEW c \in DOMAIN calls, UNCHANGED <<serverVars, refreshing, strays>>,
         calls' = Without(calls, {c}), stored' = stored \/ stored' = NoPair,
         page' = page \/ page' = [page EXCEPT ![calls[c].tab] = "out"]
  PROVE  Kept'
<1>1. \A t \in Tabs : page[t] # "closed" => page'[t] # "closed" BY DEF Asked
<1>2. DOMAIN calls' = DOMAIN calls \ {c} /\ \A d \in DOMAIN calls' : calls'[d] = calls[d]
  BY DEF Without
<1>3. \A d \in DOMAIN calls' : page'[calls'[d].tab] # "closed"
  <2>1. \A d \in DOMAIN calls : calls[d].tab \in Tabs /\ page[calls[d].tab] # "closed"
    BY DEF Kept, NothingStray, Asked, CallRecord
  <2>2. QED BY <1>1, <1>2, <2>1
<1>4. \A d \in DOMAIN calls' : Granted(d)' => d \in DOMAIN calls /\ Granted(d) /\ Given(d)' = Given(d)
  BY <1>2 DEF Granted, Given
<1>5. QED BY <1>1, <1>3, <1>4, FewerGrantsKeep

LEMMA ServeRefreshKeeps ==
  ASSUME ServerInv, Asked, Kept, OnlyTab, NEW t \in DOMAIN refreshing, ServeRefresh(t)
  PROVE  Kept'
<1> DEFINE r == RefreshRequest(refreshing[t])
<1>1. PICK answer \in Answers :
        /\ Handle(r, answer)
        /\ refreshing' = [refreshing EXCEPT ![t].at = "answered", ![t].answer = answer]
  BY DEF ServeRefresh
<1>2. /\ refreshing[t] \in ExchangeRecord /\ ~Answered(refreshing[t])
      /\ UNCHANGED <<stored, page, calls, strays>>
  BY DEF Asked, ServeRefresh, InFlight, Answered
<1>3. r.op = "refresh" /\ r.pair = refreshing[t].pair /\ r.pair \in Issued \ Used
  BY <1>2 DEF RefreshRequest, Kept, NothingStray, Unused, AskedUnused
<1>4. /\ Issued \subseteq Issued' /\ alarms' = alarms /\ Used' \subseteq Used \cup {r.pair}
      /\ answer.code = "ok" => answer.pair \in Issued' \ Used' /\ answer.pair \notin Issued
  BY <1>1, <1>3, ExchangeIsClean
<1>5. /\ DOMAIN refreshing' = {t} /\ DOMAIN refreshing = {t}
      /\ refreshing'[t].pair = r.pair /\ Answered(refreshing'[t])
      /\ refreshing'[t].answer = answer
  <2>1. DOMAIN refreshing = {t}
    <3>1. \A u \in DOMAIN refreshing : u \in Tabs /\ page[u] # "closed"
      BY DEF Kept, NothingStray, Asked
    <3>2. QED BY <3>1 DEF OnlyTab
  <2>2. QED BY <1>1, <1>2, <1>3, <2>1 DEF ExchangeRecord, Answered
<1> HIDE DEF r
<1>6. NothingStray' BY <1>2, <1>3, <1>4, <1>5 DEF Kept, NothingStray
<1>7. \A c \in DOMAIN calls : Granted(c)' = Granted(c) /\ Given(c)' = Given(c)
  BY <1>2 DEF Granted, Given
<1>8. GrantsUnused'
  BY <1>2, <1>3, <1>4, <1>5, <1>7 DEF Kept, Unused, GrantsUnused
<1>9. RenewalUnused'
  <2>1. SUFFICES ASSUME answer.code = "ok"
                 PROVE  /\ answer.pair \in (Issued \ Used)' /\ answer.pair # stored
                        /\ answer.pair # r.pair
                        /\ \A c \in DOMAIN calls : Granted(c) => Given(c) # answer.pair
    BY <1>2, <1>5, <1>7 DEF RenewalUnused, Renewed, Renewal
  <2>2. NoPair \notin Issued' BY PairsAreNumbers DEF Issued
  <2>3. QED
    BY <1>3, <1>4, <2>1, <2>2 DEF Kept, NothingStray, Unused, GrantsUnused
<1>10. AskedUnused' /\ StoredUnused' BY <1>5 DEF AskedUnused, StoredUnused
<1>11. QED BY <1>6, <1>8, <1>9, <1>10 DEF Kept, Unused

(* The exchange is over: the new pair is stored, or none.                  *)
LEMMA ExchangeOverKeeps ==
  ASSUME ServerInv, Asked, Kept, OnlyTab, NEW t \in DOMAIN refreshing,
         TakePair(t) \/ RefreshDenied(t)
  PROVE  Kept'
<1>1. UNCHANGED <<serverVars, strays>> /\ refreshing' = Without(refreshing, {t})
  BY DEF TakePair, RefreshDenied, NoPairComes
<1>2. DOMAIN refreshing' = {}
  BY <1>1 DEF Without, Kept, NothingStray, OnlyTab, Asked
<1>3. \A u \in Tabs : page[u] # "closed" => page'[u] # "closed"
  BY DEF Asked, TakePair, RefreshDenied, NoPairComes
<1>4. /\ DOMAIN calls' \subseteq DOMAIN calls
      /\ \A c \in DOMAIN calls' : calls'[c].tab = calls[c].tab
      /\ \A c \in DOMAIN calls' : Granted(c)' => Granted(c) /\ Given(c)' = Given(c)
  <2>1. CASE RefreshDenied(t)
    BY <2>1 DEF RefreshDenied, NoPairComes, Without, Granted, Given
  <2>2. CASE TakePair(t)
    <3>1. ASSUME NEW c \in DOMAIN calls
          PROVE  /\ calls'[c].tab = calls[c].tab
                 /\ calls'[c] = calls[c] \/ ~Answered(calls'[c])
      <4>1. calls[c] \in CallRecord BY DEF Asked
      <4>2. calls'[c] = IF c \in WaitingOf(t)
                        THEN [calls[c] EXCEPT !.at = "sent", !.pair = stored', !.again = FALSE]
                        ELSE calls[c]
        BY <2>2 DEF TakePair
      <4>3. QED BY <4>1, <4>2 DEF CallRecord, Answered
    <3>2. DOMAIN calls' = DOMAIN calls BY <2>2 DEF TakePair
    <3>3. QED BY <3>1, <3>2 DEF Granted, Given
  <2>3. QED BY <2>1, <2>2
<1>5. Issued' = Issued /\ Used' = Used /\ alarms' = alarms
  BY <1>1 DEF serverVars, tokenVars, Issued, Used
<1>6. /\ stored' \in (Issued \ Used) \cup {NoPair}
      /\ \A c \in DOMAIN calls : Granted(c) => Given(c) # stored'
  <2>1. CASE RefreshDenied(t)
    BY <2>1, PairsAreNumbers
    DEF RefreshDenied, NoPairComes, setTokens, Kept, Unused, GrantsUnused, Issued
  <2>2. CASE TakePair(t)
    BY <2>2 DEF TakePair, setTokens, Kept, Unused, RenewalUnused, Renewed, Renewal
  <2>3. QED BY <2>1, <2>2
<1>7. NothingStray'
  BY <1>1, <1>2, <1>3, <1>4, <1>5, <1>6 DEF Kept, NothingStray, Asked, CallRecord
<1>8. GrantsUnused'
  BY <1>2, <1>4, <1>5, <1>6 DEF Kept, Unused, GrantsUnused
<1>9. NoPair \notin Used BY PairsAreNumbers DEF Used
<1>10. RenewalUnused' /\ AskedUnused' /\ StoredUnused'
  BY <1>2, <1>5, <1>6, <1>9 DEF RenewalUnused, AskedUnused, StoredUnused
<1>11. QED BY <1>7, <1>8, <1>10 DEF Kept, Unused

(* The first tab is opened, and finds nothing going on.                    *)
LEMMA OpenKeeps ==
  ASSUME Asked, Kept, NEW t \in Tabs, Open(t), OnlyTab'
  PROVE  Kept'
<1>1. page[t] = "closed" /\ UNCHANGED <<serverVars, stored, refreshing, strays>> BY DEF Open
<1>2. /\ page'[t] # "closed" /\ \A u \in Tabs : u # t => page'[u] = page[u]
  BY DEF Open, Mount, Asked
<1>3. \A u \in Tabs : page[u] = "closed" BY <1>1, <1>2 DEF OnlyTab
<1>4. DOMAIN calls = {} /\ DOMAIN refreshing = {}
  BY <1>3 DEF Kept, NothingStray, Asked, CallRecord
<1>5. \A c \in DOMAIN calls' : calls'[c] = Sent(t, "me", TRUE)
  BY <1>4 DEF Open, Mount, Without, Put
<1>6. \A c \in DOMAIN calls' : page'[calls'[c].tab] # "closed" /\ ~Granted(c)'
  BY <1>2, <1>5 DEF Sent, Granted
<1>7. QED BY <1>1, <1>3, <1>6, FewerGrantsKeep

LEMMA CallMadeKeeps ==
  ASSUME Asked, Kept, NEW t \in Tabs, page[t] # "closed", NEW op, NEW right, Call(t, op, right)
  PROVE  Kept'
<1>1. UNCHANGED <<serverVars, stored, page, refreshing, strays>> BY DEF Call
<1>2. \A c \in DOMAIN calls' :
        \/ calls'[c] = Sent(t, op, right)
        \/ c \in DOMAIN calls /\ calls'[c] = calls[c]
  BY DEF Call, Put
<1>3. Sent(t, op, right).tab = t /\ ~Answered(Sent(t, op, right)) BY DEF Sent, Answered
<1>4. \A c \in DOMAIN calls' :
        /\ page'[calls'[c].tab] # "closed"
        /\ Granted(c)' => c \in DOMAIN calls /\ Granted(c) /\ Given(c)' = Given(c)
  BY <1>1, <1>2, <1>3 DEF Granted, Given, Kept, NothingStray
<1>5. QED BY <1>1, <1>4, FewerGrantsKeep

-----------------------------------------------------------------------------
LEMMA NoFaultYet == Asked /\ Fault => faults' # 0
  BY SessionsAssumption DEF Asked, Fault

(* Pages are never closed again, and faults are never undone.              *)
LEMMA AloneBefore == Asked /\ [Next]_vars /\ Alone' => Alone
<1> SUFFICES ASSUME Asked, [Next]_vars, Alone' PROVE Alone
  OBVIOUS
<1>1. faults \in Nat BY DEF Asked
<1>2. ~Fault BY NoFaultYet DEF Alone
<1>3. ASSUME faults' = faults, \A t \in Tabs : page[t] # "closed" => page'[t] # "closed"
      PROVE  Alone
  BY <1>3 DEF Alone, OnlyTab
<1>4. CASE UNCHANGED vars BY <1>3, <1>4 DEF vars, clientVars
<1>5. CASE UserStep
  <2>1. ASSUME NEW t \in Tabs, Open(t) PROVE Alone
    BY <1>3, <2>1 DEF Open, Mount, Asked
  <2>2. ASSUME NEW t \in Tabs, NEW op, NEW right, Call(t, op, right) PROVE Alone
    BY <1>3, <2>2 DEF Call
  <2>3. QED BY <1>2, <1>5, <2>1, <2>2 DEF UserStep, Reload, AskData, AskLogout, AskLogin
<1>6. ASSUME NEW c \in DOMAIN calls, CallStep(c) PROVE Alone
  <2>1. faults' = faults
    BY <1>6 DEF CallStep, ServeCall, Succeed, WaitForPair, Deny, Refused
  <2>2. \A t \in Tabs : page[t] # "closed" => page'[t] # "closed"
    BY <1>6 DEF CallStep, ServeCall, Succeed, WaitForPair, Deny, Refused, Fail, Asked, setTokens
  <2>3. QED BY <1>3, <2>1, <2>2
<1>7. ASSUME NEW t \in DOMAIN refreshing, ExchangeStep(t) PROVE Alone
  BY <1>3, <1>7
  DEF ExchangeStep, ServeRefresh, TakePair, RefreshDenied, NoPairComes, Asked, setTokens
<1>8. CASE TimeStep
  BY <1>3, <1>8 DEF TimeStep, AccessLapses, GraceEnds, RefreshLapses, ClockStep, clientVars
<1>9. ASSUME NEW r \in strays, ServeStray(r) PROVE Alone
  BY <1>3, <1>9 DEF ServeStray, clientVars
<1>10. QED
  BY <1>2, <1>4, <1>5, <1>6, <1>7, <1>8, <1>9 DEF Next, FaultStep, Restart, LoseCall, LoseRefresh

LEMMA AloneStep ==
  ASSUME ServerInv, Asked, AloneInv, [Next]_vars
  PROVE  AloneInv'
<1>1. SUFFICES ASSUME Alone' PROVE Kept' BY DEF AloneInv
<1>2. Alone /\ Kept /\ OnlyTab /\ OnlyTab' BY <1>1, AloneBefore DEF AloneInv, Alone
<1>3. ~Fault BY <1>1, NoFaultYet DEF Alone
<1>4. CASE UNCHANGED vars
  BY <1>2, <1>4, CalmKeeps DEF vars, serverVars, tokenVars, clientVars, Calm, Used, Issued
<1>5. CASE UserStep
  BY <1>2, <1>3, <1>5, OpenKeeps, CallMadeKeeps DEF UserStep, Reload, AskData, AskLogout, AskLogin
<1>6. ASSUME NEW c \in DOMAIN calls, CallStep(c) PROVE Kept'
  <2>1. CASE Deny(c) BY <1>2, <2>1, EndsKeep DEF Deny, setTokens
  <2>2. CASE Refused(c) BY <1>2, <2>2, EndsKeep DEF Refused, Fail, setTokens
  <2>3. QED
    BY <1>2, <1>6, <2>1, <2>2, ServeCallKeeps, SucceedKeeps, WaitKeeps DEF CallStep
<1>7. ASSUME NEW t \in DOMAIN refreshing, ExchangeStep(t) PROVE Kept'
  BY <1>2, <1>7, ServeRefreshKeeps, ExchangeOverKeeps DEF ExchangeStep
<1>8. CASE TimeStep
  <2>1. ASSUME NEW p \in Pairs, AccessLapses(p) PROVE Calm
    BY <2>1 DEF AccessLapses, ClockStep, Calm, Used, Issued
  <2>2. ASSUME NEW p \in Pairs, GraceEnds(p) PROVE Calm
    <3>1. \A q \in Pairs : refresh'[q] = IF q = p THEN "spent" ELSE refresh[q]
      BY <2>2 DEF GraceEnds, ServerInv, Types
    <3>2. QED BY <2>2, <3>1 DEF GraceEnds, ClockStep, Calm, Used, Issued
  <2>3. ASSUME NEW p \in Pairs, RefreshLapses(p) PROVE Calm
    <3>1. \A q \in Pairs : refresh'[q] = IF q = p THEN "none" ELSE refresh[q]
      BY <2>3 DEF RefreshLapses, ServerInv, Types
    <3>2. QED BY <2>3, <3>1 DEF RefreshLapses, ClockStep, Calm, Used, Issued
  <2>4. UNCHANGED <<stored, page, calls, refreshing, strays>>
    BY <1>8 DEF TimeStep, AccessLapses, GraceEnds, RefreshLapses, ClockStep, clientVars
  <2>5. QED BY <1>2, <1>8, <2>1, <2>2, <2>3, <2>4, CalmKeeps DEF TimeStep
<1>9. CASE FaultStep
  BY <1>2, <1>3, <1>9
  DEF FaultStep, Restart, LoseCall, LoseRefresh, Kept, NothingStray
<1>10. QED BY <1>4, <1>5, <1>6, <1>7, <1>8, <1>9 DEF Next

(* Few open tabs are one at most.                                          *)
LEMMA FewAreOne ==
  ASSUME Cardinality({t \in Tabs : page[t] # "closed"}) <= 1
  PROVE  OnlyTab
<1> DEFINE open == {t \in Tabs : page[t] # "closed"}
<1>1. IsFiniteSet(open) BY SessionsAssumption, FS_Subset
<1>2. Cardinality(open) \in Nat BY <1>1, FS_CardinalityType
<1>3. open = {} \/ \E t : open = {t}
  <2>1. Cardinality(open) = 0 \/ Cardinality(open) = 1 BY <1>2
  <2> HIDE DEF open
  <2>2. QED BY <1>1, <2>1, FS_EmptySet, FS_Singleton
<1>4. QED BY <1>3 DEF OnlyTab

(* A browser with one tab that loses no message never sets off the alarm   *)
(* of a stolen token, whatever calls, exchanges, sign-ins and sign-outs    *)
(* overlap (refreshTokens(), lib.ts; refresh(), admins.service.ts).        *)
THEOREM BrowserSetsNoAlarm == Spec => []NoFalseAlarm
<1>1. Init => ServerInv /\ Asked /\ AloneInv
  <2>1. Init => Kept
    BY PairsAreNumbers
    DEF Init, Kept, NothingStray, Unused, GrantsUnused, RenewalUnused, AskedUnused,
        StoredUnused, Issued, Used
  <2>2. QED BY <2>1, StartsWell, AskedAtFirst DEF AloneInv
<1>2. ServerInv /\ Asked /\ AloneInv /\ [Next]_vars => (ServerInv /\ Asked /\ AloneInv)'
  BY AskedKept, NextIsTokenStep, TokenStepKeeps, AloneStep
<1>3. AloneInv => NoFalseAlarm
  BY FewAreOne DEF AloneInv, Alone, Kept, NothingStray, NoFalseAlarm
<1>4. QED BY <1>1, <1>2, <1>3, PTL DEF Spec
=============================================================================
