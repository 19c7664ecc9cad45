------------------------------ MODULE Crm_proofs ------------------------------
(***************************************************************************)
(* Proofs about Crm, for any number of names, presses, calls and failures. *)
(* A flag has one holder, a question or a call, and falls with it; and a   *)
(* switch that does not stand as it was pressed has a call on its way that *)
(* makes it so, or one that failed and will say so.                        *)
(***************************************************************************)
EXTENDS Crm, Integers, SequenceTheorems, TLAPS

-----------------------------------------------------------------------------
(* Lists of calls.                                                         *)

(* A list of calls is a sequence of whatever is in it.                     *)
Entries(s) == {s[i] : i \in DOMAIN s}
IsList(s) == s \in Seq(Entries(s))

(* Where the j-th of those that are left was before the i-th was removed,  *)
(* and where the k-th has gone.                                            *)
Skip(i, j) == IF j < i THEN j ELSE j + 1
Back(i, k) == IF k < i THEN k ELSE k - 1

LEMMA ListOf ==
  ASSUME NEW S, NEW s \in Seq(S)
  PROVE  IsList(s)
<1>1. Len(s) \in Nat /\ DOMAIN s = 1..Len(s) /\ s \in [1..Len(s) -> S] BY LenProperties
<1>2. s = [j \in 1..Len(s) |-> s[j]] BY <1>1
<1>3. QED BY <1>1, <1>2 DEF IsList, Entries

LEMMA ListFacts ==
  ASSUME NEW s, IsList(s)
  PROVE  Len(s) \in Nat /\ DOMAIN s = 1..Len(s)
BY LenProperties DEF IsList

LEMMA AppendFacts ==
  ASSUME NEW s, IsList(s), NEW c
  PROVE  /\ IsList(Append(s, c)) /\ DOMAIN Append(s, c) = DOMAIN s \cup {Len(s) + 1}
         /\ Len(s) + 1 \notin DOMAIN s /\ Append(s, c)[Len(s) + 1] = c
         /\ \A j \in DOMAIN s : Append(s, c)[j] = s[j]
<1> DEFINE S == Entries(s) \cup {c}
<1>1. s \in Seq(S)
  <2>1. s \in Seq(Entries(s)) /\ Entries(s) \subseteq S BY DEF IsList
  <2> HIDE DEF S
  <2>2. QED BY <2>1, SeqMonotonic
<1>2. c \in S OBVIOUS
<1> HIDE DEF S
<1>3. Len(s) \in Nat /\ DOMAIN s = 1..Len(s) BY ListFacts
<1>4. Append(s, c) \in Seq(S) /\ Len(Append(s, c)) = Len(s) + 1 BY <1>1, <1>2
<1>5. IsList(Append(s, c)) BY <1>4, ListOf
<1>6. DOMAIN Append(s, c) = 1..(Len(s) + 1) BY <1>4, <1>5, ListFacts
<1>7. Append(s, c)[Len(s) + 1] = c /\ \A j \in 1..Len(s) : Append(s, c)[j] = s[j]
  BY <1>1, <1>2, <1>3
<1>8. QED BY <1>3, <1>5, <1>6, <1>7

LEMMA RemoveFacts ==
  ASSUME NEW s, IsList(s), NEW i \in DOMAIN s
  PROVE  LET t == RemoveAt(s, i) IN
         /\ IsList(t) /\ t \in Seq(Entries(s)) /\ DOMAIN t = 1..(Len(s) - 1) /\ Len(t) = Len(s) - 1
         /\ \A j \in DOMAIN t : Skip(i, j) \in DOMAIN s \ {i} /\ t[j] = s[Skip(i, j)]
         /\ \A k \in DOMAIN s : k # i => Back(i, k) \in DOMAIN t /\ t[Back(i, k)] = s[k]
<1> DEFINE S == Entries(s)
           n == Len(s)
           left == SubSeq(s, 1, i - 1)
           right == SubSeq(s, i + 1, n)
           t == RemoveAt(s, i)
<1>1. s \in Seq(S) BY DEF IsList
<1>2. n \in Nat /\ i \in 1..n /\ \A j \in 1..n : s[j] \in S
  BY <1>1, LenProperties, ElementOfSeq
<1> HIDE DEF S, n
<1>3. /\ left \in Seq(S) /\ Len(left) = i - 1
      /\ \A j \in 1..(i - 1) : left[j] = s[j]
  <2>1. \A j \in 1..(i - 1) : s[j] \in S BY <1>2
  <2>2. /\ left \in Seq(S) /\ Len(left) = IF 1 <= i - 1 THEN (i - 1) - 1 + 1 ELSE 0
        /\ \A j \in 1..((i - 1) - 1 + 1) : left[j] = s[1 + j - 1]
    BY <1>2, <2>1, SubSeqProperties
  <2>3. QED BY <1>2, <2>2
<1>4. /\ right \in Seq(S) /\ Len(right) = n - i
      /\ \A j \in 1..(n - i) : right[j] = s[i + j]
  <2>1. \A j \in (i + 1)..n : s[j] \in S BY <1>2
  <2>2. /\ right \in Seq(S) /\ Len(right) = IF i + 1 <= n THEN n - (i + 1) + 1 ELSE 0
        /\ \A j \in 1..(n - (i + 1) + 1) : right[j] = s[(i + 1) + j - 1]
    BY <1>2, <2>1, SubSeqProperties
  <2>3. QED BY <1>2, <2>2
<1>5. t = left \o right BY DEF RemoveAt, n
<1> HIDE DEF left, right, t
<1>6. /\ t \in Seq(S) /\ Len(t) = n - 1
      /\ \A j \in 1..(n - 1) : t[j] = IF j <= i - 1 THEN left[j] ELSE right[j - (i - 1)]
  <2>1. /\ t \in Seq(S) /\ Len(t) = Len(left) + Len(right)
        /\ \A j \in 1..(Len(left) + Len(right)) :
             t[j] = IF j <= Len(left) THEN left[j] ELSE right[j - Len(left)]
    BY <1>3, <1>4, <1>5, ConcatProperties
  <2>2. Len(left) = i - 1 /\ Len(left) + Len(right) = n - 1 BY <1>2, <1>3, <1>4
  <2>3. QED BY <2>1, <2>2
<1>7. IsList(t) /\ DOMAIN t = 1..(n - 1) BY <1>6, ListOf, LenProperties
<1>8. ASSUME NEW j \in 1..(n - 1)
      PROVE  Skip(i, j) \in (1..n) \ {i} /\ t[j] = s[Skip(i, j)]
  <2>1. CASE j < i BY <1>2, <1>3, <1>6, <2>1 DEF Skip
  <2>2. CASE ~ (j < i)
    <3>1. j - (i - 1) \in 1..(n - i) /\ i + (j - (i - 1)) = j + 1 /\ ~(j <= i - 1) BY <1>2, <2>2
    <3>2. t[j] = s[j + 1] BY <1>4, <1>6, <3>1
    <3>3. QED BY <1>2, <2>2, <3>2 DEF Skip
  <2>3. QED BY <2>1, <2>2
<1>9. ASSUME NEW k \in 1..n, k # i
      PROVE  Back(i, k) \in 1..(n - 1) /\ t[Back(i, k)] = s[k]
  <2>1. Back(i, k) \in 1..(n - 1) /\ Skip(i, Back(i, k)) = k BY <1>2, <1>9 DEF Back, Skip
  <2>2. QED BY <1>8, <2>1
<1>10. DOMAIN s = 1..n BY ListFacts DEF n
<1>11. QED BY <1>6, <1>7, <1>8, <1>9, <1>10 DEF t, S, n

-----------------------------------------------------------------------------
(* Calls, and what a step does with them.                                  *)

IsCall(c) == DOMAIN c = {"kind", "key", "lock", "patch", "served", "ok", "picture"}

(* A call that may change a switch, and what it makes of it.               *)
Bears(c) == c.kind \in {"save", "switch", "add", "toggle", "remove"}
Brings(c) == IF c.kind = "remove" THEN Removed ELSE c.patch[c.key]

(* The calls of the page of the switches, with flag, key and patch.        *)
IsBits(f) == \A x \in DOMAIN f \ (Networks \cup {"listens"}) : f[x] \in {0, 1}
IsLoad(c) == c.kind = "load" /\ c.key = None /\ c.patch = Nothing
IsSave(c) ==
  c.kind = "save" /\ c.lock = "form" /\ c.key \in DOMAIN c.patch
    /\ (DOMAIN c.patch = {"mode"} \/ DOMAIN c.patch = Networks)
IsSwitch(c) ==
  c.kind = "switch" /\ c.lock = "watcher" /\ c.key = "enabled"
    /\ DOMAIN c.patch = {"enabled", "listens"}
IsRun(c) == c.kind = "run" /\ c.key = "enabled" /\ c.patch = Nothing
IsAdd(c) ==
  c.kind = "add" /\ c.key \in Addresses /\ DOMAIN c.patch = {c.key} /\ c.patch[c.key] = 1
IsToggle(c) ==
  c.kind = "toggle" /\ c.lock = c.key /\ c.key \in Addresses /\ DOMAIN c.patch = {c.key}
IsRest(c) == c.kind \in {"rename", "remove"} /\ c.key \in Addresses /\ c.patch = Nothing

IntakeCall(c) ==
  /\ IsBits(c.patch) /\ IsBits(c.picture)
  /\ IsLoad(c) \/ IsSave(c) \/ IsSwitch(c) \/ IsRun(c) \/ IsAdd(c) \/ IsToggle(c) \/ IsRest(c)

(* What a button makes: a call whose flag is down, on a page without a     *)
(* question, for something the page shows or for a new address.            *)
Fits(c) ==
  IF page # "intake" THEN ~Bears(c)
  ELSE /\ IntakeCall(c) /\ c.picture = Nothing
       /\ IF c.kind = "add" THEN c.key \notin DOMAIN shown \cup DOMAIN truth \cup DOMAIN want
          ELSE c.key \in DOMAIN shown
Made(c) ==
  /\ IsCall(c) /\ c.kind # "load" /\ ~c.served /\ Fits(c)
  /\ question = NoQuestion /\ c.lock \notin busy

Asks(c) ==
  /\ Made(c) /\ question' = c
  /\ busy' = busy \/ (c.lock # None /\ busy' = busy \cup {c.lock})
  /\ page = "intake" => c.kind # "add"
  /\ UNCHANGED <<page, truth, shown, calls, want>>
Presses(c) ==
  /\ Made(c) /\ Send(c)
  /\ shown' = shown \/ (c.kind = "save" /\ shown' = Over(shown, c.patch))
  /\ UNCHANGED <<page, truth, question>>
Looks(lock) ==
  /\ lock \notin busy /\ (lock # None => question = NoQuestion)
  /\ Send(Load(lock))
  /\ UNCHANGED <<page, truth, shown, question>>
IsOver(i, arrived) ==
  /\ arrived => calls[i].served
  /\ Ends(i, arrived)
  /\ UNCHANGED <<page, truth, question>>

Shape ==
  \/ UNCHANGED <<page, truth, shown, busy, question, calls, want>>
  \/ page # "intake" /\ UNCHANGED <<page, shown, busy, question, calls, want>>
  \/ \E c : Asks(c) \/ Presses(c)
  \/ \E lock : Looks(lock)
  \/ \E yes \in BOOLEAN : Reply(yes)
  \/ \E i \in DOMAIN calls : Serve(i) \/ \E arrived \in BOOLEAN : IsOver(i, arrived)

LEMMA CallFields ==
  ASSUME NEW kind, NEW key, NEW lock, NEW patch
  PROVE  LET c == Call(kind, key, lock, patch) IN
           /\ IsCall(c) /\ c.kind = kind /\ c.key = key /\ c.lock = lock /\ c.patch = patch
           /\ ~c.served /\ c.picture = Nothing
BY DEF Call, IsCall

(* What a button of the page of the switches makes.                        *)
LEMMA PressShape ==
  ASSUME page = "intake" => IsBits(shown),
         NEW kind, NEW key, NEW lock, NEW patch, NEW asks \in BOOLEAN,
         kind # "load", page = "intake" => ~asks \/ kind # "add",
         LET c == Call(kind, key, lock, patch) IN
           /\ Press(c, asks) /\ None \notin busy /\ Fits(c)
           /\ shown' = shown \/ (~asks /\ c.kind = "save" /\ shown' = Over(shown, c.patch))
  PROVE  Shape
<1> DEFINE c == Call(kind, key, lock, patch)
<1>1. IsCall(c) /\ c.kind = kind /\ c.lock = lock /\ ~c.served BY CallFields
<1>2. Press(c, asks) /\ Fits(c)
      /\ (shown' = shown \/ (~asks /\ c.kind = "save" /\ shown' = Over(shown, c.patch)))
  OBVIOUS
<1> HIDE DEF c
<1>3. Made(c) BY <1>1, <1>2 DEF Press, AtHand, Made
<1>4. CASE asks
  <2>1. Asks(c) BY <1>1, <1>2, <1>3, <1>4 DEF Asks, Press
  <2>2. QED BY <2>1 DEF Shape
<1>5. CASE ~asks
  <2>1. Presses(c) BY <1>2, <1>3, <1>5 DEF Presses, Press
  <2>2. QED BY <2>1 DEF Shape
<1>6. QED BY <1>4, <1>5

LEMMA NamesApart ==
  /\ None \notin Networks \cup Addresses \cup Rows \cup People
  /\ "mode" \notin Networks \cup Addresses /\ "enabled" \notin Networks \cup Addresses
  /\ "listens" \notin Networks \cup Addresses /\ Networks \cap Addresses = {}
BY NamesAssumption DEF None

LEMMA SaveShape ==
  ASSUME IsBits(shown), None \notin busy, NEW k, Save(k)
  PROVE  Shape
<1> DEFINE nets == [n \in Networks |-> IF n = k THEN 1 - shown[n] ELSE shown[n]]
           patch == IF k = "mode" THEN Only(k, 1 - shown[k]) ELSE nets
           c == Call("save", k, "form", patch)
<1>1. /\ page = "intake" /\ k \in DOMAIN shown \cap ({"mode"} \cup Networks)
      /\ shown' = Over(shown, patch) /\ Press(c, FALSE)
  BY DEF Save
<1>2. /\ c.kind = "save" /\ c.key = k /\ c.lock = "form" /\ c.patch = patch
      /\ c.picture = Nothing
  BY CallFields
<1>3. k \in DOMAIN patch /\ (DOMAIN patch = {"mode"} \/ DOMAIN patch = Networks)
  BY <1>1 DEF Only
<1>4. IsBits(patch)
  <2>1. CASE k = "mode"
    <3>1. shown[k] \in {0, 1} BY <1>1, <2>1, NamesApart DEF IsBits
    <3>2. 1 - shown[k] \in {0, 1} BY <3>1
    <3>3. QED BY <2>1, <3>2 DEF Only, IsBits
  <2>2. CASE k # "mode" BY <2>2 DEF IsBits
  <2>3. QED BY <2>1, <2>2
<1>5. IsBits(Nothing) BY DEF IsBits, Nothing
<1> HIDE DEF patch
<1>6. Fits(c)
  <2>1. IsSave(c) BY <1>2, <1>3 DEF IsSave
  <2>2. QED BY <1>1, <1>2, <1>4, <1>5, <2>1 DEF Fits, IntakeCall
<1>7. QED BY <1>1, <1>2, <1>6, PressShape

LEMMA SwitchShape ==
  ASSUME IsBits(shown), None \notin busy, Switch
  PROVE  Shape
<1> DEFINE patch == [x \in {"enabled", "listens"} |-> 1 - shown["enabled"]]
           asks == shown["enabled"] = 1
           c == Call("switch", "enabled", "watcher", patch)
<1>1. /\ page = "intake" /\ "enabled" \in DOMAIN shown /\ shown' = shown /\ Press(c, asks)
  BY DEF Switch, FormShown
<1>2. /\ c.kind = "switch" /\ c.key = "enabled" /\ c.lock = "watcher" /\ c.patch = patch
      /\ c.picture = Nothing
  BY CallFields
<1>3. IsBits(patch)
  <2>1. shown["enabled"] \in {0, 1} BY <1>1, NamesApart DEF IsBits
  <2>2. 1 - shown["enabled"] \in {0, 1} BY <2>1
  <2>3. QED BY <2>2 DEF IsBits
<1>4. DOMAIN patch = {"enabled", "listens"} OBVIOUS
<1>5. IsBits(Nothing) BY DEF IsBits, Nothing
<1> HIDE DEF patch
<1>6. Fits(c)
  <2>1. IsSwitch(c) BY <1>2, <1>4 DEF IsSwitch
  <2>2. QED BY <1>1, <1>2, <1>3, <1>5, <2>1 DEF Fits, IntakeCall
<1>7. asks \in BOOLEAN OBVIOUS
<1> HIDE DEF asks
<1>8. QED BY <1>1, <1>2, <1>6, <1>7, PressShape

LEMMA RunShape ==
  ASSUME IsBits(shown), None \notin busy, Run
  PROVE  Shape
<1> DEFINE c == Call("run", "enabled", "watcher", Nothing)
<1>1. /\ page = "intake" /\ "enabled" \in DOMAIN shown /\ shown' = shown /\ Press(c, FALSE)
  BY DEF Run, FormShown
<1>2. /\ c.kind = "run" /\ c.key = "enabled" /\ c.patch = Nothing /\ c.picture = Nothing
  BY CallFields
<1>3. IsBits(Nothing) BY DEF IsBits, Nothing
<1>4. Fits(c) BY <1>1, <1>2, <1>3 DEF Fits, IntakeCall, IsRun
<1>5. QED BY <1>1, <1>2, <1>4, PressShape

LEMMA AddShape ==
  ASSUME IsBits(shown), None \notin busy, NEW a \in Addresses, AddAddress(a)
  PROVE  Shape
<1> DEFINE patch == Only(a, 1)
           c == Call("add", a, "form", patch)
<1>1. /\ page = "intake" /\ a \notin DOMAIN shown \cup DOMAIN truth \cup DOMAIN want
      /\ shown' = shown /\ Press(c, FALSE)
  BY DEF AddAddress, FormShown
<1>2. /\ c.kind = "add" /\ c.key = a /\ c.patch = patch /\ c.picture = Nothing
  BY CallFields
<1>3. IsBits(Nothing) BY DEF IsBits, Nothing
<1>4. DOMAIN patch = {a} /\ patch[a] = 1 /\ IsBits(patch) BY DEF Only, IsBits
<1> HIDE DEF patch
<1>5. IsAdd(c) BY <1>2, <1>4 DEF IsAdd
<1>6. Fits(c) BY <1>1, <1>2, <1>3, <1>4, <1>5 DEF Fits, IntakeCall
<1>7. QED BY <1>1, <1>2, <1>6, PressShape

LEMMA AddressShape ==
  ASSUME IsBits(shown), None \notin busy, NEW a,
         ToggleAddr(a) \/ RenameAddr(a) \/ RemoveAddr(a)
  PROVE  Shape
<1>1. /\ page = "intake" /\ a \in DOMAIN shown \cap Addresses /\ shown' = shown
  BY DEF ToggleAddr, RenameAddr, RemoveAddr, AddressShown
<1>2. IsBits(Nothing) BY DEF IsBits, Nothing
<1>3. CASE ToggleAddr(a)
  <2> DEFINE patch == Only(a, 1 - shown[a])
             c == Call("toggle", a, a, patch)
  <2>1. Press(c, FALSE) BY <1>3 DEF ToggleAddr
  <2>2. /\ c.kind = "toggle" /\ c.key = a /\ c.lock = a /\ c.patch = patch
        /\ c.picture = Nothing
    BY CallFields
  <2>3. shown[a] \in {0, 1} BY <1>1, NamesApart DEF IsBits
  <2>4. 1 - shown[a] \in {0, 1} BY <2>3
  <2>5. DOMAIN patch = {a} /\ IsBits(patch) BY <2>4 DEF Only, IsBits
  <2> HIDE DEF patch
  <2>6. IsToggle(c) BY <1>1, <2>2, <2>5 DEF IsToggle
  <2>7. Fits(c) BY <1>1, <1>2, <2>2, <2>5, <2>6 DEF Fits, IntakeCall
  <2>8. QED BY <1>1, <2>1, <2>2, <2>7, PressShape
<1>4. ASSUME NEW kind \in {"rename", "remove"}, Press(Call(kind, a, None, Nothing), TRUE)
      PROVE  Shape
  <2> DEFINE c == Call(kind, a, None, Nothing)
  <2>1. Press(c, TRUE) BY <1>4
  <2>2. /\ c.kind = kind /\ c.key = a /\ c.patch = Nothing /\ c.picture = Nothing
    BY CallFields
  <2>3. IsRest(c) BY <1>1, <2>2 DEF IsRest
  <2>4. Fits(c) BY <1>1, <1>2, <2>2, <2>3 DEF Fits, IntakeCall
  <2>5. QED BY <1>1, <2>1, <2>2, <2>4, PressShape
<1>5. QED BY <1>3, <1>4 DEF RenameAddr, RemoveAddr

LEMMA OtherPageShape ==
  ASSUME None \notin busy, page # "intake",
         NEW kind \in {"act", "topup"}, NEW key, NEW lock, NEW patch, NEW asks \in BOOLEAN,
         shown' = shown, Press(Call(kind, key, lock, patch), asks)
  PROVE  Shape
<1> DEFINE c == Call(kind, key, lock, patch)
<1>1. c.kind = kind BY CallFields
<1>2. Fits(c) BY <1>1 DEF Fits, Bears
<1>3. QED BY <1>2, PressShape

LEMMA RowShape ==
  ASSUME None \notin busy, NEW p, NEW kind \in {"zero", "delete"}, OnRow(p, kind)
  PROVE  Shape
<1> DEFINE c == Call(kind, p, p, Only(p, 0))
<1>1. IsCall(c) /\ c.kind = kind /\ c.lock = p /\ ~c.served BY CallFields
<1>2. /\ page = "players" /\ p \in People /\ p \notin busy /\ question = NoQuestion
      /\ busy' = busy \cup {p} /\ question' = c
      /\ UNCHANGED <<page, truth, shown, calls, want>>
  BY DEF OnRow, AtHand
<1> HIDE DEF c
<1>3. p # None BY <1>2, NamesApart
<1>4. Asks(c) BY <1>1, <1>2, <1>3 DEF Asks, Made, Fits, Bears
<1>5. QED BY <1>4 DEF Shape

(* Every step has one of these shapes.                                     *)
Ready ==
  /\ None \notin busy
  /\ page = "intake" => IsBits(shown)
  /\ target # None => page # "intake"

LEMMA StepShape ==
  ASSUME Ready, [Next]_vars
  PROVE  Shape
<1>0. None \notin busy /\ (page = "intake" => IsBits(shown)) /\ (target # None => page # "intake")
  BY DEF Ready
<1>1. CASE UNCHANGED vars BY <1>1 DEF vars, Shape
<1>2. ASSUME NEW k, Save(k) PROVE Shape BY <1>0, <1>2, SaveShape DEF Save
<1>3. ASSUME NEW k, ToggleAddr(k) \/ RenameAddr(k) \/ RemoveAddr(k) PROVE Shape
  <2>1. page = "intake" BY <1>3 DEF ToggleAddr, RenameAddr, RemoveAddr, AddressShown
  <2>2. QED BY <1>0, <1>3, <2>1, AddressShape
<1>4. ASSUME NEW r, NEW asks \in BOOLEAN, Decide(r, asks) \/ Match(r) PROVE Shape
  <2>1. CASE Decide(r, asks)
    <3>1. page # "intake" /\ shown' = shown /\ Press(Call("act", r, "row", Only(r, 0)), asks)
      BY <2>1 DEF Decide
    <3>2. QED BY <1>0, <3>1, OtherPageShape
  <2>2. CASE Match(r)
    <3>1. page # "intake" /\ shown' = shown /\ Press(Call("act", r, "row", Only(r, 0)), TRUE)
      BY <2>2 DEF Match
    <3>2. QED BY <1>0, <3>1, OtherPageShape
  <2>3. QED BY <1>4, <2>1, <2>2
<1>5. ASSUME NEW p, NEW kind \in {"zero", "delete"}, OnRow(p, kind) PROVE Shape
  BY <1>0, <1>5, RowShape
<1>6. CASE TopUp
  <2>1. page # "intake" /\ shown' = shown /\ Press(Call("topup", target, "saving", Nothing), FALSE)
    BY <1>0, <1>6 DEF TopUp
  <2>2. QED BY <1>0, <2>1, OtherPageShape
<1>7. ASSUME NEW p, OpenTopUp(p) PROVE Shape BY <1>7 DEF OpenTopUp, Shape
<1>8. CASE CloseTopUp BY <1>8 DEF CloseTopUp, Shape
<1>9. ASSUME NEW a \in Addresses, AddAddress(a) PROVE Shape
  BY <1>0, <1>9, AddShape DEF AddAddress, FormShown
<1>10. CASE Switch BY <1>0, <1>10, SwitchShape DEF Switch, FormShown
<1>11. CASE Run BY <1>0, <1>11, RunShape DEF Run, FormShown
<1>12. CASE Refresh
  <2>1. Looks(Reading) BY <1>12 DEF Refresh, Looks
  <2>2. QED BY <2>1 DEF Shape
<1>13. CASE Poll
  <2>1. Load(None).kind = "load" /\ Load(None).lock = None BY CallFields DEF Load
  <2>2. Send(Load(None))
    <3>1. calls' = Append(calls, Load(None)) /\ busy' = busy /\ want' = want
      BY <1>13 DEF Poll
    <3>2. Wish(Load(None)) = want BY <2>1 DEF Wish
    <3>3. QED BY <2>1, <3>1, <3>2 DEF Send
  <2>3. Looks(None) BY <1>0, <1>13, <2>2 DEF Poll, Looks
  <2>4. QED BY <2>3 DEF Shape
<1>14. ASSUME NEW yes \in BOOLEAN, Reply(yes) PROVE Shape BY <1>14 DEF Shape
<1>15. ASSUME NEW i \in DOMAIN calls, Serve(i) \/ Answer(i) \/ Lose(i) PROVE Shape
  <2>1. CASE Serve(i) BY <2>1 DEF Shape
  <2>2. CASE Answer(i)
    <3>1. IsOver(i, TRUE) BY <2>2 DEF Answer, IsOver
    <3>2. QED BY <3>1 DEF Shape
  <2>3. CASE Lose(i)
    <3>1. IsOver(i, FALSE) BY <2>3 DEF Lose, IsOver
    <3>2. QED BY <3>1 DEF Shape
  <2>4. QED BY <1>15, <2>1, <2>2, <2>3
<1>16. ASSUME NEW k, Others(k) PROVE Shape BY <1>16 DEF Others, Shape
<1>17. CASE Administrator
  BY <1>2, <1>3, <1>4, <1>5, <1>6, <1>7, <1>8, <1>9, <1>10, <1>11, <1>12, <1>14, <1>17
  DEF Administrator
<1>18. QED BY <1>1, <1>13, <1>15, <1>16, <1>17 DEF Next, Network

LEMMA TargetStep ==
  ASSUME target # None => page # "intake", [Next]_vars
  PROVE  target' # None => page' # "intake"
<1>1. page' = page
  BY DEF Next, Administrator, Network, vars, Save, ToggleAddr, RenameAddr, RemoveAddr, Decide,
     Match, OnRow, OpenTopUp, AddAddress, Switch, Run, TopUp, CloseTopUp, Refresh, Reply, Press,
     Poll, Serve, Answer, Lose, Others
<1>2. target' = target \/ target' = None \/ page = "players"
  <2>1. CASE Administrator
    BY <2>1 DEF Administrator, Save, ToggleAddr, RenameAddr, RemoveAddr, Decide,
       Match, OnRow, OpenTopUp, AddAddress, Switch, Run, TopUp, CloseTopUp, Refresh, Reply, Press
  <2>2. CASE Network BY <2>2 DEF Network, Serve, Answer, Lose, Ends, LoadEnds, PostEnds
  <2>3. QED BY <2>1, <2>2 DEF Next, vars, Poll, Others
<1>3. QED BY <1>1, <1>2

-----------------------------------------------------------------------------
(***************************************************************************)
(* Flags.  A flag has one holder at a time, a question or a call.          *)
(***************************************************************************)
CallsKept ==
  IsList(calls) /\ IsCall(question) /\ \A i \in DOMAIN calls : IsCall(calls[i])

FlagsApart ==
  /\ None \notin busy
  /\ \A i, j \in DOMAIN calls :
       calls[i].lock = calls[j].lock /\ calls[i].lock # None => i = j
  /\ \A i \in DOMAIN calls : calls[i].lock # None =>
       calls[i].lock \in busy /\ calls[i].lock # question.lock

FlagInv == CallsKept /\ FlagsApart /\ FlagsFall

LEMMA NoQuestionFacts ==
  IsCall(NoQuestion) /\ NoQuestion.lock = None /\ NoQuestion.kind = "load" /\ NoQuestion.key = None
    /\ NoQuestion.patch = Nothing /\ NoQuestion.picture = Nothing /\ ~NoQuestion.served
BY CallFields DEF NoQuestion, Load

(* A call is sent: by a button, by the answer to its question, by the      *)
(* timer.                                                                  *)
LEMMA FlagsSend ==
  ASSUME FlagInv, NEW c, IsCall(c), calls' = Append(calls, c),
         busy' = busy \cup ({c.lock} \ {None}), IsCall(question'),
         \/ c.lock \notin busy /\ question' = question /\ (c.lock # None => question = NoQuestion)
         \/ c = question /\ question' = NoQuestion
  PROVE  FlagInv'
<1> DEFINE n == Len(calls) + 1
<1>1. /\ IsList(calls') /\ DOMAIN calls' = DOMAIN calls \cup {n} /\ n \notin DOMAIN calls
      /\ calls'[n] = c /\ \A j \in DOMAIN calls : calls'[j] = calls[j]
  BY AppendFacts DEF FlagInv, CallsKept
<1> HIDE DEF n
<1>2. CallsKept' BY <1>1 DEF FlagInv, CallsKept, IsCall
<1>3. \A j \in DOMAIN calls : calls[j].lock # None => calls[j].lock # c.lock
  BY DEF FlagInv, FlagsApart
<1>4. \A j \in DOMAIN calls' : calls'[j].lock # None =>
         calls'[j].lock \in busy' /\ calls'[j].lock # question'.lock
  <2>1. ASSUME NEW j \in DOMAIN calls, calls[j].lock # None
        PROVE  calls[j].lock \in busy' /\ calls[j].lock # question'.lock
    BY <2>1, NoQuestionFacts DEF FlagInv, FlagsApart
  <2>2. c.lock # None => c.lock \in busy' /\ c.lock # question'.lock
    BY NoQuestionFacts
  <2>3. QED BY <1>1, <2>1, <2>2
<1>5. \A j, k \in DOMAIN calls' : calls'[j].lock = calls'[k].lock /\ calls'[j].lock # None => j = k
  BY <1>1, <1>3 DEF FlagInv, FlagsApart
<1>6. None \notin busy' BY DEF FlagInv, FlagsApart
<1>7. FlagsApart' BY <1>4, <1>5, <1>6 DEF FlagsApart
<1>8. ASSUME NEW lock \in busy'
      PROVE  lock = question'.lock \/ \E j \in DOMAIN calls' : calls'[j].lock = lock
  BY <1>1 DEF FlagInv, FlagsFall
<1>9. FlagsFall' BY <1>8 DEF FlagsFall
<1>10. QED BY <1>2, <1>7, <1>9 DEF FlagInv

(* A button asks first.                                                    *)
LEMMA FlagsAsk ==
  ASSUME FlagInv, NEW c, Asks(c)
  PROVE  FlagInv'
<1>1. /\ IsCall(c) /\ c.lock \notin busy /\ question = NoQuestion /\ question' = c
      /\ calls' = calls
      /\ busy' = busy \/ (c.lock # None /\ busy' = busy \cup {c.lock})
  BY DEF Asks, Made
<1>2. CallsKept' BY <1>1 DEF FlagInv, CallsKept, IsCall, IsList, Entries
<1>3. FlagsApart' BY <1>1 DEF FlagInv, FlagsApart
<1>4. FlagsFall' BY <1>1, NoQuestionFacts DEF FlagInv, FlagsFall, FlagsApart
<1>5. QED BY <1>2, <1>3, <1>4 DEF FlagInv

(* A question is answered with no.                                         *)
LEMMA FlagsDrop ==
  ASSUME FlagInv, question' = NoQuestion, busy' = busy \ {question.lock}, UNCHANGED calls
  PROVE  FlagInv'
<1>1. CallsKept' BY NoQuestionFacts DEF FlagInv, CallsKept, IsCall, IsList, Entries
<1>2. FlagsApart' BY NoQuestionFacts DEF FlagInv, FlagsApart
<1>3. FlagsFall' BY DEF FlagInv, FlagsFall
<1>4. QED BY <1>1, <1>2, <1>3 DEF FlagInv

(* A call is served: its flag, its key and its patch stay.                 *)
LEMMA ServedFacts ==
  ASSUME CallsKept, NEW i \in DOMAIN calls, Serve(i)
  PROVE  /\ IsList(calls') /\ DOMAIN calls' = DOMAIN calls
         /\ \A j \in DOMAIN calls :
              /\ IsCall(calls'[j]) /\ (j # i => calls'[j] = calls[j])
              /\ calls'[j].kind = calls[j].kind /\ calls'[j].key = calls[j].key
              /\ calls'[j].lock = calls[j].lock /\ calls'[j].patch = calls[j].patch
         /\ calls'[i].served
         /\ calls'[i].picture = truth'
         /\ calls[i].kind = "load" => truth' = truth
         /\ calls[i].kind # "load" =>
              /\ calls'[i].ok = ~Refused(calls[i])
              /\ truth' = IF Refused(calls[i]) THEN truth ELSE Effect(calls[i])
<1>1. IsList(calls) /\ IsCall(calls[i]) /\ \A j \in DOMAIN calls : IsCall(calls[j])
  BY DEF CallsKept
<1>2. PICK new :
        /\ calls' = [calls EXCEPT ![i] = new]
        /\ IsCall(new) /\ new.kind = calls[i].kind /\ new.key = calls[i].key
        /\ new.lock = calls[i].lock /\ new.patch = calls[i].patch /\ new.served
        /\ new.picture = truth'
        /\ calls[i].kind = "load" => truth' = truth
        /\ calls[i].kind # "load" =>
             /\ new.ok = ~Refused(calls[i])
             /\ truth' = IF Refused(calls[i]) THEN truth ELSE Effect(calls[i])
  <2> DEFINE c == calls[i]
             pic == truth'
             good == ~Refused(c)
  <2>1. CASE c.kind = "load"
    <3>1. calls' = [calls EXCEPT ![i] = [c EXCEPT !.served = TRUE, !.picture = pic]] /\ pic = truth
      BY <2>1 DEF Serve
    <3> HIDE DEF c, pic
    <3>2. PICK new : new = [c EXCEPT !.served = TRUE, !.picture = pic] OBVIOUS
    <3>3. calls' = [calls EXCEPT ![i] = new] BY <3>1, <3>2
    <3>4. IsCall(c) BY <1>1 DEF c
    <3>5. /\ IsCall(new) /\ new.kind = c.kind /\ new.key = c.key /\ new.lock = c.lock
          /\ new.patch = c.patch /\ new.served = TRUE /\ new.picture = pic
      BY <3>2, <3>4 DEF IsCall
    <3>6. QED BY <2>1, <3>1, <3>3, <3>5 DEF c, pic
  <2>2. CASE c.kind # "load"
    <3>1. /\ calls' = [calls EXCEPT ![i] = [c EXCEPT !.served = TRUE, !.ok = good, !.picture = pic]]
          /\ pic = IF Refused(c) THEN truth ELSE Effect(c)
      BY <2>2 DEF Serve
    <3> HIDE DEF c, pic, good
    <3>2. PICK new : new = [c EXCEPT !.served = TRUE, !.ok = good, !.picture = pic] OBVIOUS
    <3>3. calls' = [calls EXCEPT ![i] = new] BY <3>1, <3>2
    <3>4. IsCall(c) BY <1>1 DEF c
    <3>5. /\ IsCall(new) /\ new.kind = c.kind /\ new.key = c.key /\ new.lock = c.lock
          /\ new.patch = c.patch /\ new.served = TRUE /\ new.ok = good /\ new.picture = pic
      BY <3>2, <3>4 DEF IsCall
    <3>6. QED BY <2>2, <3>1, <3>3, <3>5 DEF c, pic, good
  <2>3. QED BY <2>1, <2>2
<1>3. DOMAIN calls' = DOMAIN calls /\ calls'[i] = new
      /\ \A j \in DOMAIN calls : j # i => calls'[j] = calls[j]
  BY <1>2
<1>4. IsList(calls')
  <2> DEFINE S == Entries(calls) \cup {new}
  <2>1. calls \in Seq(Entries(calls)) /\ Entries(calls) \subseteq S BY <1>1 DEF IsList
  <2>2. new \in S OBVIOUS
  <2> HIDE DEF S
  <2>3. calls \in Seq(S) /\ i \in 1..Len(calls) BY <1>1, <2>1, SeqMonotonic, ListFacts
  <2>4. calls' \in Seq(S) BY <1>2, <2>2, <2>3, ExceptSeq
  <2>5. QED BY <2>4, ListOf
<1>5. QED BY <1>1, <1>2, <1>3, <1>4

LEMMA FlagsServe ==
  ASSUME FlagInv, NEW i \in DOMAIN calls, Serve(i)
  PROVE  FlagInv'
<1>1. /\ IsList(calls') /\ DOMAIN calls' = DOMAIN calls
      /\ \A j \in DOMAIN calls : IsCall(calls'[j]) /\ calls'[j].lock = calls[j].lock
  BY ServedFacts DEF FlagInv
<1>2. UNCHANGED <<busy, question>> BY DEF Serve
<1>3. CallsKept' BY <1>1, <1>2 DEF FlagInv, CallsKept, IsCall
<1>4. FlagsApart' BY <1>1, <1>2 DEF FlagInv, FlagsApart
<1>5. FlagsFall' BY <1>1, <1>2 DEF FlagInv, FlagsFall
<1>6. QED BY <1>3, <1>4, <1>5 DEF FlagInv

(* A call is over: it leaves the list, and a new look may come to its end, *)
(* without a flag or with the flag of the call.                            *)
EndCalls(i, last) ==
  /\ \/ calls' = RemoveAt(calls, i) /\ busy' = busy \ {calls[i].lock}
     \/ calls' = Append(RemoveAt(calls, i), last)
  /\ \E lock : last = Load(lock)
  /\ \/ last.lock = None /\ busy' = busy \ {calls[i].lock}
     \/ last.lock = calls[i].lock /\ busy' = busy

LEMMA LoadFields ==
  ASSUME NEW c, NEW lock, c = Load(lock)
  PROVE  IsCall(c) /\ c.kind = "load" /\ c.key = None /\ c.lock = lock /\ c.patch = Nothing
           /\ ~c.served /\ c.picture = Nothing
BY CallFields DEF Load

LEMMA EndShape ==
  ASSUME CallsKept, None \notin busy, NEW i \in DOMAIN calls, NEW arrived \in BOOLEAN, Ends(i, arrived)
  PROVE  \E last : EndCalls(i, last)
<1>1. IsList(calls) BY DEF CallsKept
<1> DEFINE t == RemoveAt(calls, i)
           S == Entries(t)
<1>2. IsList(t) BY <1>1, RemoveFacts
<1>3. t \o <<>> = t
  <2> HIDE DEF t
  <2>1. t \in Seq(S) BY <1>2 DEF IsList
  <2>2. QED BY <2>1, ConcatEmptySeq
<1>4. ASSUME NEW c PROVE t \o <<c>> = Append(t, c)
  <2> HIDE DEF t
  <2>1. t \in Seq(S) /\ S \subseteq S \cup {c} BY <1>2 DEF IsList
  <2> HIDE DEF S
  <2>2. t \in Seq(S \cup {c}) BY <2>1, SeqMonotonic
  <2>3. QED BY <2>2, AppendIsConcat
<1> DEFINE none == Load(None)
           same == Load(calls[i].lock)
<1>5. none.lock = None /\ same.lock = calls[i].lock BY LoadFields
<1>6. (\E lock : none = Load(lock)) /\ (\E lock : same = Load(lock)) OBVIOUS
<1>7. CASE LoadEnds(i, arrived)
  <2>1. calls' = t /\ busy' = busy \ {calls[i].lock} BY <1>7 DEF LoadEnds
  <2> HIDE DEF t, none, same
  <2>2. EndCalls(i, none) BY <1>5, <1>6, <2>1 DEF EndCalls, t
  <2>3. QED BY <2>2
<1>8. CASE PostEnds(i, arrived)
  <2> DEFINE c == calls[i]
             done == arrived /\ c.ok
             keeps == Reloads(c, done) /\ c.kind # "save"
  <2>1. /\ busy' = IF keeps THEN busy ELSE busy \ {c.lock}
        /\ calls' = t \o (IF Reloads(c, done) THEN <<Load(IF keeps THEN c.lock ELSE None)>> ELSE <<>>)
    BY <1>8 DEF PostEnds
  <2>2. CASE ~Reloads(c, done)
    <3>1. calls' = t /\ busy' = busy \ {c.lock} BY <1>3, <2>1, <2>2
    <3>2. EndCalls(i, none)
      <4> HIDE DEF none, same
      <4>1. QED BY <1>5, <1>6, <3>1 DEF EndCalls
    <3>3. QED BY <3>2
  <2>3. CASE Reloads(c, done) /\ ~keeps
    <3>1. calls' = Append(t, none) /\ busy' = busy \ {c.lock} BY <1>4, <2>1, <2>3
    <3>2. EndCalls(i, none)
      <4> HIDE DEF none, same
      <4>1. QED BY <1>5, <1>6, <3>1 DEF EndCalls
    <3>3. QED BY <3>2
  <2>4. CASE keeps
    <3>1. calls' = Append(t, same) /\ busy' = busy BY <1>4, <2>1, <2>4
    <3>2. EndCalls(i, same)
      <4> HIDE DEF none, same
      <4>1. QED BY <1>5, <1>6, <3>1 DEF EndCalls
    <3>3. QED BY <3>2
  <2>5. QED BY <2>2, <2>3, <2>4
<1>9. QED BY <1>7, <1>8 DEF Ends

(* What is left of the list, and where it was.                             *)
LEMMA EndFacts ==
  ASSUME CallsKept, NEW i \in DOMAIN calls, NEW last, EndCalls(i, last)
  PROVE  /\ IsList(calls')
         /\ \A k \in DOMAIN calls : k # i =>
              Back(i, k) \in DOMAIN calls' /\ calls'[Back(i, k)] = calls[k]
         /\ \A j \in DOMAIN calls' :
              \/ j < Len(calls) /\ Skip(i, j) \in DOMAIN calls \ {i} /\ calls'[j] = calls[Skip(i, j)]
              \/ j = Len(calls) /\ calls'[j] = last /\ calls' = Append(RemoveAt(calls, i), last)
<1> DEFINE t == RemoveAt(calls, i)
<1>1. IsList(calls) BY DEF CallsKept
<1>2. /\ IsList(t) /\ DOMAIN t = 1..(Len(calls) - 1) /\ Len(t) = Len(calls) - 1
      /\ \A j \in DOMAIN t : Skip(i, j) \in DOMAIN calls \ {i} /\ t[j] = calls[Skip(i, j)]
      /\ \A k \in DOMAIN calls : k # i => Back(i, k) \in DOMAIN t /\ t[Back(i, k)] = calls[k]
  BY <1>1, RemoveFacts
<1>3. Len(calls) \in Nat BY <1>1, ListFacts
<1> HIDE DEF t
<1>4. CASE calls' = t BY <1>2, <1>3, <1>4
<1>5. CASE calls' = Append(t, last)
  <2>1. /\ IsList(calls') /\ DOMAIN calls' = DOMAIN t \cup {Len(t) + 1}
        /\ calls'[Len(t) + 1] = last /\ \A j \in DOMAIN t : calls'[j] = t[j]
    BY <1>2, <1>5, AppendFacts
  <2>2. Len(t) + 1 = Len(calls) BY <1>2, <1>3
  <2>3. QED BY <1>2, <1>3, <1>5, <2>1, <2>2 DEF t
<1>6. QED BY <1>4, <1>5 DEF EndCalls, t

LEMMA FlagsEnd ==
  ASSUME FlagInv, NEW i \in DOMAIN calls, NEW last, EndCalls(i, last), UNCHANGED question
  PROVE  FlagInv'
<1> DEFINE n == Len(calls)
           lock == calls[i].lock
<1>1. n \in Nat /\ DOMAIN calls = 1..n BY ListFacts DEF FlagInv, CallsKept
<1>2. /\ IsList(calls')
      /\ \A k \in DOMAIN calls : k # i =>
           Back(i, k) \in DOMAIN calls' /\ calls'[Back(i, k)] = calls[k]
      /\ \A j \in DOMAIN calls' :
           \/ j < n /\ Skip(i, j) \in DOMAIN calls \ {i} /\ calls'[j] = calls[Skip(i, j)]
           \/ j = n /\ calls'[j] = last /\ calls' = Append(RemoveAt(calls, i), last)
  BY EndFacts DEF FlagInv
<1>3. IsCall(last) BY LoadFields DEF EndCalls
<1>4. CallsKept'
  <2>1. \A j \in DOMAIN calls' : IsCall(calls'[j]) BY <1>2, <1>3 DEF FlagInv, CallsKept
  <2>2. QED BY <1>2, <2>1 DEF FlagInv, CallsKept, IsCall
<1> HIDE DEF n
<1>5. \A j, k \in 1..n : j < n /\ k < n /\ Skip(i, j) = Skip(i, k) => j = k
  BY <1>1 DEF Skip
<1>6. DOMAIN calls' \subseteq 1..n
  <2>1. DOMAIN calls' = 1..Len(calls') /\ Len(calls') \in Nat BY <1>2, ListFacts
  <2>2. ASSUME NEW j \in DOMAIN calls' PROVE j \in 1..n
    <3>1. j < n \/ j = n BY <1>2
    <3>2. j \in 1..Len(calls') BY <2>1
    <3>3. QED BY <1>1, <2>1, <3>1, <3>2
  <2>3. QED BY <2>2
<1>7. calls' = Append(RemoveAt(calls, i), last) \/ busy' = busy \ {lock}
  BY DEF EndCalls
<1>8. \/ last.lock = None /\ busy' = busy \ {lock}
      \/ last.lock = lock /\ busy' = busy
  BY DEF EndCalls
<1> HIDE DEF lock
<1>9. \A j, k \in DOMAIN calls' : calls'[j].lock = calls'[k].lock /\ calls'[j].lock # None => j = k
  <2> SUFFICES ASSUME NEW j \in DOMAIN calls', NEW k \in DOMAIN calls',
                      calls'[j].lock = calls'[k].lock, calls'[j].lock # None
               PROVE  j = k
    OBVIOUS
  <2>1. CASE j < n /\ k < n
    <3>1. /\ Skip(i, j) \in DOMAIN calls \ {i} /\ calls'[j] = calls[Skip(i, j)]
          /\ Skip(i, k) \in DOMAIN calls \ {i} /\ calls'[k] = calls[Skip(i, k)]
      BY <1>1, <1>2, <1>6, <2>1
    <3>2. Skip(i, j) = Skip(i, k) BY <3>1 DEF FlagInv, FlagsApart
    <3>3. QED BY <1>5, <1>6, <2>1, <3>2
  <2>2. ASSUME NEW x \in DOMAIN calls', NEW y \in DOMAIN calls', x < n, y = n,
               calls'[x].lock = calls'[y].lock, calls'[x].lock # None
        PROVE  FALSE
    <3>1. Skip(i, x) \in DOMAIN calls \ {i} /\ calls'[x] = calls[Skip(i, x)]
      BY <1>1, <1>2, <1>6, <2>2
    <3>2. calls'[y] = last BY <1>1, <1>2, <1>6, <2>2
    <3>3. last.lock = lock BY <1>8, <2>2, <3>2
    <3>4. QED BY <2>2, <3>1, <3>2, <3>3 DEF FlagInv, FlagsApart, lock
  <2>3. j \in 1..n /\ k \in 1..n BY <1>6
  <2>4. CASE j < n /\ k = n BY <2>2, <2>4
  <2>5. CASE k < n /\ j = n BY <2>2, <2>5
  <2>6. QED BY <1>1, <2>1, <2>3, <2>4, <2>5
<1>10. \A j \in DOMAIN calls' : calls'[j].lock # None =>
         calls'[j].lock \in busy' /\ calls'[j].lock # question'.lock
  <2> SUFFICES ASSUME NEW j \in DOMAIN calls', calls'[j].lock # None
               PROVE  calls'[j].lock \in busy' /\ calls'[j].lock # question'.lock
    OBVIOUS
  <2>1. CASE Skip(i, j) \in DOMAIN calls \ {i} /\ calls'[j] = calls[Skip(i, j)]
    <3>1. calls'[j].lock \in busy /\ calls'[j].lock # question.lock /\ calls'[j].lock # lock
      BY <2>1 DEF FlagInv, FlagsApart, lock
    <3>2. QED BY <1>8, <3>1
  <2>2. CASE calls'[j] = last
    <3>1. last.lock = lock /\ busy' = busy BY <1>8, <2>2
    <3>2. QED BY <2>2, <3>1 DEF FlagInv, FlagsApart, lock
  <2>3. QED BY <1>2, <2>1, <2>2
<1>11. None \notin busy' BY <1>8 DEF FlagInv, FlagsApart
<1>12. FlagsApart' BY <1>9, <1>10, <1>11 DEF FlagsApart
<1>13. ASSUME NEW flag \in busy'
       PROVE  flag = question'.lock \/ \E j \in DOMAIN calls' : calls'[j].lock = flag
  <2>1. flag \in busy BY <1>8
  <2>2. flag = question.lock \/ \E k \in DOMAIN calls : calls[k].lock = flag
    BY <2>1 DEF FlagInv, FlagsFall
  <2>3. CASE flag = lock /\ busy' = busy \ {lock} BY <2>3
  <2>4. CASE flag = lock /\ ~(busy' = busy \ {lock})
    <3>1. calls' = Append(RemoveAt(calls, i), last) /\ last.lock = lock BY <1>7, <1>8, <2>4
    <3>2. n \in DOMAIN calls' /\ calls'[n] = last
      <4>1. /\ IsList(RemoveAt(calls, i)) /\ Len(RemoveAt(calls, i)) = n - 1
        BY RemoveFacts DEF FlagInv, CallsKept, n
      <4>2. (n - 1) + 1 = n BY <1>1
      <4>3. QED BY <3>1, <4>1, <4>2, AppendFacts
    <3>3. QED BY <2>4, <3>1, <3>2
  <2>5. CASE flag # lock BY <1>2, <2>2, <2>5 DEF lock
  <2>6. QED BY <2>3, <2>4, <2>5
<1>14. FlagsFall' BY <1>13 DEF FlagsFall
<1>15. QED BY <1>4, <1>12, <1>14 DEF FlagInv

LEMMA SendFlag ==
  ASSUME NEW c, Send(c)
  PROVE  calls' = Append(calls, c) /\ busy' = busy \cup ({c.lock} \ {None})
BY DEF Send

LEMMA FlagsKept ==
  ASSUME FlagInv, UNCHANGED <<calls, busy, question>>
  PROVE  FlagInv'
BY DEF FlagInv, CallsKept, IsCall, IsList, Entries, FlagsApart, FlagsFall

LEMMA FlagsStep ==
  ASSUME FlagInv, Shape
  PROVE  FlagInv'
<1>1. CASE UNCHANGED <<calls, busy, question>> BY <1>1, FlagsKept
<1>2. ASSUME NEW c, Asks(c) PROVE FlagInv' BY <1>2, FlagsAsk
<1>3. ASSUME NEW c, Presses(c) PROVE FlagInv'
  <2>1. IsCall(c) /\ c.lock \notin busy /\ question = NoQuestion /\ question' = question /\ Send(c)
    BY <1>3 DEF Presses, Made
  <2>2. IsCall(question') BY <2>1, NoQuestionFacts DEF IsCall
  <2>3. QED BY <2>1, <2>2, SendFlag, FlagsSend
<1>4. ASSUME NEW lock, Looks(lock) PROVE FlagInv'
  <2> DEFINE c == Load(lock)
  <2>1. IsCall(c) /\ c.lock = lock BY LoadFields
  <2>2. /\ lock \notin busy /\ (lock # None => question = NoQuestion) /\ Send(c)
        /\ question' = question
    BY <1>4 DEF Looks
  <2> HIDE DEF c
  <2>3. IsCall(question') BY <2>2 DEF FlagInv, CallsKept, IsCall
  <2>4. QED BY <2>1, <2>2, <2>3, SendFlag, FlagsSend
<1>5. ASSUME NEW yes \in BOOLEAN, Reply(yes) PROVE FlagInv'
  <2>1. question' = NoQuestion /\ IsCall(question') BY <1>5, NoQuestionFacts DEF Reply
  <2>2. CASE yes
    <3>1. Send(question) BY <1>5, <2>2 DEF Reply
    <3>2. IsCall(question) BY DEF FlagInv, CallsKept
    <3>3. calls' = Append(calls, question) /\ busy' = busy \cup ({question.lock} \ {None})
      BY <3>1, SendFlag
    <3>4. QED BY <2>1, <3>2, <3>3, FlagsSend
  <2>3. CASE ~yes BY <1>5, <2>1, <2>3, FlagsDrop DEF Reply
  <2>4. QED BY <2>2, <2>3
<1>6. ASSUME NEW i \in DOMAIN calls, NEW arrived \in BOOLEAN, IsOver(i, arrived) PROVE FlagInv'
  <2>1. Ends(i, arrived) /\ UNCHANGED question BY <1>6 DEF IsOver
  <2>2. PICK last : EndCalls(i, last) BY <2>1, EndShape DEF FlagInv, FlagsApart
  <2>3. QED BY <2>1, <2>2, FlagsEnd
<1>7. QED BY <1>1, <1>2, <1>3, <1>4, <1>5, <1>6, FlagsServe DEF Shape

LEMMA FlagsInit ==
  ASSUME Init
  PROVE  FlagInv
<1> DEFINE c == Load(Reading)
<1>1. IsCall(c) /\ c.lock = Reading BY LoadFields
<1>2. calls = <<c>> /\ busy = {Reading} \ {None} /\ question = NoQuestion BY DEF Init
<1> HIDE DEF c
<1>3. IsList(calls) /\ DOMAIN calls = {1} /\ calls[1] = c
  <2>1. calls \in Seq({c}) /\ Len(calls) = 1 /\ calls[1] = c BY <1>2
  <2>2. QED BY <2>1, ListOf, ListFacts
<1>4. CallsKept BY <1>1, <1>2, <1>3, NoQuestionFacts DEF CallsKept
<1>5. FlagsApart BY <1>1, <1>2, <1>3, NoQuestionFacts DEF FlagsApart
<1>6. FlagsFall BY <1>1, <1>2, <1>3, NoQuestionFacts DEF FlagsFall
<1>7. QED BY <1>4, <1>5, <1>6 DEF FlagInv

(* On the page of the switches the calls are of seven forms, and what the  *)
(* server knows and the page shows of a switch is 0 or 1.                  *)
PageInv ==
  page = "intake" =>
    /\ IsBits(truth) /\ IsBits(shown) /\ target = None
    /\ IntakeCall(question) /\ \A i \in DOMAIN calls : IntakeCall(calls[i])

LEMMA OverFacts ==
  ASSUME NEW f, NEW patch, NEW g, g = Over(f, patch)
  PROVE  /\ DOMAIN g = DOMAIN f \cup DOMAIN patch
         /\ \A x \in DOMAIN patch : g[x] = patch[x]
         /\ \A x \in DOMAIN f \ DOMAIN patch : g[x] = f[x]
BY DEF Over

LEMMA NothingFacts ==
  DOMAIN Nothing = {} /\ IsBits(Nothing)
BY DEF Nothing, IsBits

(* What the server makes of a call it does not refuse: one switch, but for *)
(* the networks and the listener.                                          *)
LEMMA EffectFacts ==
  ASSUME NEW c, IntakeCall(c), ~Refused(c), c.kind # "load", NEW after, after = Effect(c)
  PROVE  /\ IsBits(truth) => IsBits(after)
         /\ \A k : k \notin Networks \cup {"listens"} /\ (c.key # k \/ ~Bears(c)) =>
              (k \in DOMAIN after <=> k \in DOMAIN truth)
                /\ (k \in DOMAIN truth => after[k] = truth[k])
         /\ c.kind = "remove" => c.key \notin DOMAIN after
         /\ Bears(c) /\ c.kind # "remove" => c.key \in DOMAIN after /\ after[c.key] = Brings(c)
         /\ Bears(c) => c.key # None
<1>1. c.kind # "add" => c.key \in DOMAIN truth BY DEF Refused
<1>2. CASE c.kind = "remove"
  <2>1. after = Without(truth, c.key) BY <1>2 DEF Effect
  <2>2. DOMAIN after = DOMAIN truth \ {c.key} /\ \A x \in DOMAIN after : after[x] = truth[x]
    BY <2>1 DEF Without
  <2>3. c.key \in Addresses BY <1>2 DEF IntakeCall, IsLoad, IsSave, IsSwitch, IsRun, IsAdd, IsToggle, IsRest
  <2>4. QED BY <1>2, <2>2, <2>3, NamesApart DEF IsBits, Bears
<1>3. CASE c.kind # "remove"
  <2>1. after = Over(truth, c.patch)
    BY <1>3 DEF Effect, IntakeCall, IsLoad, IsSave, IsSwitch, IsRun, IsAdd, IsToggle, IsRest
  <2>2. /\ DOMAIN after = DOMAIN truth \cup DOMAIN c.patch
        /\ \A x \in DOMAIN c.patch : after[x] = c.patch[x]
        /\ \A x \in DOMAIN truth \ DOMAIN c.patch : after[x] = truth[x]
    BY <2>1 DEF Over
  <2>3. IsBits(truth) => IsBits(after) BY <2>2 DEF IntakeCall, IsBits
  <2>4. \A k : k \notin Networks \cup {"listens"} /\ (c.key # k \/ ~Bears(c)) => k \notin DOMAIN c.patch
    BY <1>3, NothingFacts
       DEF IntakeCall, IsLoad, IsSave, IsSwitch, IsRun, IsAdd, IsToggle, IsRest, Bears
  <2>5. Bears(c) => c.key \in DOMAIN c.patch /\ c.key # None
    BY <1>3, NamesApart DEF IntakeCall, IsLoad, IsSave, IsSwitch, IsRun, IsAdd, IsToggle, IsRest, Bears, None
  <2>6. QED BY <1>3, <2>2, <2>3, <2>4, <2>5 DEF Brings
<1>4. QED BY <1>2, <1>3

(* The frame of a button's press, of an answered question and of the timer. *)
LEMMA PageSend ==
  ASSUME PageInv, IsList(calls), NEW c, page = "intake" => IntakeCall(c), calls' = Append(calls, c),
         UNCHANGED <<page, truth>>, page = "intake" => IsBits(shown') /\ IntakeCall(question'),
         target' # None => page' # "intake"
  PROVE  PageInv'
<1>1. /\ DOMAIN calls' = DOMAIN calls \cup {Len(calls) + 1} /\ calls'[Len(calls) + 1] = c
      /\ \A j \in DOMAIN calls : calls'[j] = calls[j]
  BY AppendFacts
<1>2. QED BY <1>1 DEF PageInv, IsBits, IntakeCall, IsLoad, IsSave, IsSwitch, IsRun, IsAdd, IsToggle, IsRest

LEMMA PageServe ==
  ASSUME PageInv, CallsKept, NEW i \in DOMAIN calls, Serve(i), target' # None => page' # "intake"
  PROVE  PageInv'
<1> SUFFICES ASSUME page' = "intake"
             PROVE  PageInv'
  BY DEF PageInv
<1>1. page = "intake" /\ UNCHANGED <<page, shown, question>> BY DEF Serve
<1>2. /\ DOMAIN calls' = DOMAIN calls
      /\ \A j \in DOMAIN calls :
           /\ j # i => calls'[j] = calls[j]
           /\ calls'[j].kind = calls[j].kind /\ calls'[j].key = calls[j].key
           /\ calls'[j].lock = calls[j].lock /\ calls'[j].patch = calls[j].patch
      /\ calls'[i].picture = truth'
      /\ calls[i].kind = "load" => truth' = truth
      /\ calls[i].kind # "load" =>
           truth' = IF Refused(calls[i]) THEN truth ELSE Effect(calls[i])
  BY ServedFacts
<1>3. IsBits(truth) /\ IsBits(shown) /\ IntakeCall(question) /\ \A j \in DOMAIN calls : IntakeCall(calls[j])
  BY <1>1 DEF PageInv
<1>4. IsBits(truth')
  <2>1. CASE truth' = truth BY <1>3, <2>1 DEF IsBits
  <2>2. CASE calls[i].kind # "load" /\ ~Refused(calls[i])
    <3> DEFINE c == calls[i]
               after == truth'
    <3>1. IntakeCall(c) /\ ~Refused(c) /\ c.kind # "load" /\ after = Effect(c) BY <1>2, <1>3, <2>2
    <3> HIDE DEF c, after
    <3>2. IsBits(after) BY <1>3, <3>1, EffectFacts
    <3>3. QED BY <3>2 DEF after
  <2>3. QED BY <1>2, <2>1, <2>2
<1>5. \A j \in DOMAIN calls : IntakeCall(calls'[j])
  BY <1>2, <1>3, <1>4
     DEF IntakeCall, IsLoad, IsSave, IsSwitch, IsRun, IsAdd, IsToggle, IsRest, IsBits
<1>6. target' = None BY <1>1
<1>7. IsBits(shown') /\ IntakeCall(question')
  BY <1>1, <1>3
     DEF IntakeCall, IsLoad, IsSave, IsSwitch, IsRun, IsAdd, IsToggle, IsRest, IsBits
<1>8. IntakeCall(question)' /\ \A j \in DOMAIN calls' : IntakeCall(calls'[j])
  BY <1>2, <1>5, <1>7
     DEF IntakeCall, IsLoad, IsSave, IsSwitch, IsRun, IsAdd, IsToggle, IsRest, IsBits
<1>9. QED BY <1>4, <1>6, <1>7, <1>8 DEF PageInv, IsBits

(* What the page of the switches shows when a call is over.                *)
LEMMA EndScreen ==
  ASSUME PageInv, page = "intake", NEW i \in DOMAIN calls, NEW arrived \in BOOLEAN, Ends(i, arrived)
  PROVE  IsBits(shown') /\ DOMAIN shown' \subseteq DOMAIN shown \cup DOMAIN calls[i].picture
<1> DEFINE c == calls[i]
<1>1. IsBits(shown) /\ IntakeCall(c) BY DEF PageInv
<1>2. shown' = shown \/ shown' = c.picture \/ shown' = Painted(c)
  BY DEF Ends, LoadEnds, PostEnds
<1> HIDE DEF c
<1>3. IsBits(c.picture) BY <1>1 DEF IntakeCall
<1>4. IsBits(Painted(c)) /\ DOMAIN Painted(c) = DOMAIN shown
  <2> DEFINE p == Painted(c)
             v == c.picture["listens"]
             only == Only("listens", v)
  <2>1. p = shown \/ ("listens" \in DOMAIN shown /\ p = Over(shown, only))
    BY <1>1 DEF Painted, IntakeCall, IsLoad, IsSave, IsSwitch, IsRun, IsAdd, IsToggle, IsRest
  <2>2. DOMAIN only = {"listens"} BY DEF Only
  <2> HIDE DEF p, only
  <2>3. p = Over(shown, only) => DOMAIN p = DOMAIN shown \cup {"listens"}
             /\ \A x \in DOMAIN shown \ {"listens"} : p[x] = shown[x]
    BY <2>2 DEF Over
  <2>4. IsBits(p) /\ DOMAIN p = DOMAIN shown BY <1>1, <2>1, <2>3 DEF IsBits
  <2>5. QED BY <2>4 DEF p
<1>5. QED BY <1>1, <1>2, <1>3, <1>4 DEF c, IsBits

LEMMA PageEnd ==
  ASSUME PageInv, CallsKept, NEW i \in DOMAIN calls, NEW arrived \in BOOLEAN, Ends(i, arrived),
         NEW last, EndCalls(i, last), UNCHANGED <<page, truth, question>>,
         target' # None => page' # "intake"
  PROVE  PageInv'
<1> SUFFICES ASSUME page' = "intake"
             PROVE  PageInv'
  BY DEF PageInv
<1>1. page = "intake" /\ target' = None OBVIOUS
<1>2. IsBits(truth) /\ IntakeCall(question) /\ \A j \in DOMAIN calls : IntakeCall(calls[j])
  BY <1>1 DEF PageInv
<1>3. IsBits(shown') BY <1>1, EndScreen
<1>4. \A j \in DOMAIN calls' : (\E k \in DOMAIN calls : calls'[j] = calls[k]) \/ calls'[j] = last
  BY EndFacts
<1>5. IntakeCall(last) BY LoadFields, NothingFacts DEF EndCalls, IntakeCall, IsLoad
<1>6. \A j \in DOMAIN calls' : IntakeCall(calls'[j]) BY <1>2, <1>4, <1>5
<1>7. QED BY <1>1, <1>2, <1>3, <1>6
  DEF PageInv, IsBits, IntakeCall, IsLoad, IsSave, IsSwitch, IsRun, IsAdd, IsToggle, IsRest

LEMMA PageStep ==
  ASSUME PageInv, FlagInv, Shape, target' # None => page' # "intake"
  PROVE  PageInv'
<1> USE DEF FlagInv, CallsKept
<1>1. CASE UNCHANGED <<page, truth, shown, question, calls>>
  BY <1>1 DEF PageInv, IsBits, IntakeCall, IsLoad, IsSave, IsSwitch, IsRun, IsAdd, IsToggle, IsRest
<1>2. CASE page # "intake" /\ page' = page BY <1>2 DEF PageInv
<1>3. ASSUME NEW c, Asks(c) PROVE PageInv'
  <2>1. /\ page = "intake" => IntakeCall(c)
        /\ question' = c /\ UNCHANGED <<page, truth, shown, calls>>
    BY <1>3 DEF Asks, Made, Fits
  <2>2. QED BY <2>1
    DEF PageInv, IsBits, IntakeCall, IsLoad, IsSave, IsSwitch, IsRun, IsAdd, IsToggle, IsRest
<1>4. ASSUME NEW c, Presses(c) PROVE PageInv'
  <2>1. /\ page = "intake" => IntakeCall(c)
        /\ calls' = Append(calls, c) /\ UNCHANGED <<page, truth, question>>
        /\ shown' = shown \/ shown' = Over(shown, c.patch)
    BY <1>4 DEF Presses, Made, Fits, Send
  <2>2. ASSUME page = "intake" PROVE IsBits(shown') /\ IntakeCall(question')
    <3>1. IsBits(shown) /\ IsBits(c.patch) /\ IntakeCall(question)
      BY <2>1, <2>2 DEF PageInv, IntakeCall
    <3>2. IsBits(shown') BY <2>1, <3>1 DEF Over, IsBits
    <3>3. QED BY <2>1, <3>1, <3>2
      DEF IsBits, IntakeCall, IsLoad, IsSave, IsSwitch, IsRun, IsAdd, IsToggle, IsRest
  <2>3. QED BY <2>1, <2>2, PageSend
<1>5. ASSUME NEW lock, Looks(lock) PROVE PageInv'
  <2> DEFINE c == Load(lock)
  <2>1. IntakeCall(c) BY LoadFields, NothingFacts DEF IntakeCall, IsLoad
  <2>2. calls' = Append(calls, c) /\ UNCHANGED <<page, truth, shown, question>>
    BY <1>5 DEF Looks, Send
  <2> HIDE DEF c
  <2>3. page = "intake" => IsBits(shown') /\ IntakeCall(question')
    BY <2>2
    DEF PageInv, IsBits, IntakeCall, IsLoad, IsSave, IsSwitch, IsRun, IsAdd, IsToggle, IsRest
  <2>4. QED BY <2>1, <2>2, <2>3, PageSend
<1>6. ASSUME NEW yes \in BOOLEAN, Reply(yes) PROVE PageInv'
  <2>1. /\ question' = NoQuestion /\ UNCHANGED <<page, truth, shown>>
        /\ calls' = calls \/ calls' = Append(calls, question)
    BY <1>6 DEF Reply, Send
  <2>2. IntakeCall(NoQuestion) BY NoQuestionFacts, NothingFacts DEF IntakeCall, IsLoad
  <2>3. page = "intake" => IsBits(shown') /\ IntakeCall(question')
    BY <2>1, <2>2
    DEF PageInv, IsBits, IntakeCall, IsLoad, IsSave, IsSwitch, IsRun, IsAdd, IsToggle, IsRest
  <2>4. CASE calls' = calls BY <2>1, <2>3, <2>4
    DEF PageInv, IsBits, IntakeCall, IsLoad, IsSave, IsSwitch, IsRun, IsAdd, IsToggle, IsRest
  <2>5. page = "intake" => IntakeCall(question) BY DEF PageInv
  <2>6. CASE calls' = Append(calls, question) BY <2>1, <2>3, <2>5, <2>6, PageSend
  <2>7. QED BY <2>1, <2>4, <2>6
<1>7. ASSUME NEW i \in DOMAIN calls, NEW arrived \in BOOLEAN, IsOver(i, arrived) PROVE PageInv'
  <2>1. Ends(i, arrived) /\ UNCHANGED <<page, truth, question>> BY <1>7 DEF IsOver
  <2>2. PICK last : EndCalls(i, last) BY <2>1, EndShape DEF FlagsApart
  <2>3. QED BY <2>1, <2>2, PageEnd
<1>8. QED BY <1>1, <1>2, <1>3, <1>4, <1>5, <1>6, <1>7, PageServe DEF Shape

LEMMA PageInit ==
  ASSUME Init
  PROVE  PageInv
<1> DEFINE c == Load(Reading)
<1>1. IntakeCall(c) BY LoadFields, NothingFacts DEF IntakeCall, IsLoad
<1>2. calls = <<c>> /\ question = NoQuestion /\ shown = Nothing /\ target = None BY DEF Init
<1>3. page = "intake" => IsBits(truth) BY DEF Init, IsBits
<1> HIDE DEF c
<1>4. DOMAIN calls = {1} /\ calls[1] = c BY <1>2
<1>5. IntakeCall(NoQuestion) BY NoQuestionFacts, NothingFacts DEF IntakeCall, IsLoad
<1>6. QED BY <1>1, <1>2, <1>3, <1>4, <1>5, NothingFacts DEF PageInv

LEMMA InvStep ==
  ASSUME FlagInv, PageInv, [Next]_vars
  PROVE  Shape /\ FlagInv' /\ PageInv'
<1>1. Ready BY DEF FlagInv, FlagsApart, PageInv, Ready
<1>2. Shape BY <1>1, StepShape
<1>3. target' # None => page' # "intake" BY TargetStep DEF PageInv
<1>4. QED BY <1>2, <1>3, FlagsStep, PageStep

(* A flag that is up on a page belongs to its question or to one of its    *)
(* calls, whose end takes it down: however calls fail, are refused or      *)
(* overtake each other, no button stays disabled for good.                 *)
THEOREM FlagsAreHeld == Spec => []FlagsFall
<1>1. Init => FlagInv /\ PageInv BY FlagsInit, PageInit
<1>2. FlagInv /\ PageInv /\ [Next]_vars => (FlagInv /\ PageInv)' BY InvStep
<1>3. FlagInv /\ PageInv => FlagsFall BY DEF FlagInv
<1>4. QED BY <1>1, <1>2, <1>3, PTL DEF Spec

-----------------------------------------------------------------------------
(***************************************************************************)
(* Switches.                                                               *)
(***************************************************************************)
(* Every address the page or a call has heard of is there, or was wanted   *)
(* once.                                                                   *)
HeardNames ==
  DOMAIN shown \cup {question.key}
    \cup UNION {{calls[i].key} \cup DOMAIN calls[i].picture : i \in DOMAIN calls}
Heard == HeardNames \cap Addresses \subseteq DOMAIN truth \cup DOMAIN want

(* An address that is still to be added is nowhere yet.                    *)
Unheard(a, me) ==
  /\ a \notin DOMAIN truth \cup DOMAIN shown /\ question.key # a
  /\ \A j \in DOMAIN calls : a \notin DOMAIN calls[j].picture /\ (calls[j].key = a => j = me)
  /\ a \in DOMAIN want /\ want[a] = 1

NewIsNew ==
  \A i \in DOMAIN calls : calls[i].kind = "add" /\ ~calls[i].served => Unheard(calls[i].key, i)

(* What is being removed is not wanted any more.                           *)
RemovedIsUnwanted ==
  \A i \in DOMAIN calls : calls[i].kind = "remove" =>
    calls[i].key \in DOMAIN want /\ want[calls[i].key] \in {Removed, Unclear}

(* A switch stands as it was pressed, or a call is on its way to make it   *)
(* so, or one has failed and will say so.                                  *)
Failed(k) ==
  \E i \in DOMAIN calls :
    calls[i].key = k /\ calls[i].kind # "load" /\ calls[i].served /\ ~calls[i].ok
Coming(k) ==
  \E i \in DOMAIN calls :
    calls[i].key = k /\ Bears(calls[i]) /\ ~calls[i].served /\ Brings(calls[i]) = want[k]
Settled(k) ==
  /\ want[k] = Known(k)
  /\ want[k] # Removed =>
       \A i \in DOMAIN calls : calls[i].key = k /\ Bears(calls[i]) => calls[i].served

WantsAreMet ==
  \A k \in DOMAIN want \ Networks : want[k] = Unclear \/ Failed(k) \/ Coming(k) \/ Settled(k)

SwitchesInv ==
  IF page # "intake"
  THEN DOMAIN want = {} /\ ~Bears(question) /\ \A i \in DOMAIN calls : ~Bears(calls[i])
  ELSE /\ question.kind # "add" /\ ~question.served /\ question.picture = Nothing
       /\ DOMAIN want \subseteq {"mode", "enabled"} \cup Networks \cup Addresses
       /\ Heard /\ NewIsNew /\ RemovedIsUnwanted /\ WantsAreMet

LEMMA WishFacts ==
  ASSUME NEW c, NEW wish, wish = Wish(c)
  PROVE  /\ DOMAIN want \subseteq DOMAIN wish /\ DOMAIN wish \subseteq DOMAIN want \cup {c.key}
         /\ ~Bears(c) => wish = want
         /\ \A k \in DOMAIN want :
              \/ wish[k] = want[k]
              \/ k = c.key /\ want[k] \notin {Removed, Unclear}
         /\ Bears(c) =>
              /\ c.key \in DOMAIN wish
              /\ \/ wish[c.key] = Brings(c)
                 \/ /\ c.key \in DOMAIN want /\ want[c.key] \in {Removed, Unclear}
                    /\ wish[c.key] = want[c.key]
<1>1. CASE wish = want /\ ~Bears(c) BY <1>1
<1>2. CASE wish = want /\ c.key \in DOMAIN want /\ want[c.key] \in {Removed, Unclear} BY <1>2
<1>3. CASE /\ wish = Over(want, Only(c.key, Brings(c))) /\ Bears(c)
           /\ ~(c.key \in DOMAIN want /\ want[c.key] \in {Removed, Unclear})
  <2>1. /\ DOMAIN wish = DOMAIN want \cup {c.key} /\ wish[c.key] = Brings(c)
        /\ \A k \in DOMAIN want : k # c.key => wish[k] = want[k]
    BY <1>3 DEF Over, Only
  <2>2. QED BY <1>3, <2>1
<1>4. QED BY <1>1, <1>2, <1>3 DEF Wish, Bears, Brings

(* What the forms of a call say of its key.                                *)
LEMMA KeyFacts ==
  ASSUME NEW c, IntakeCall(c)
  PROVE  /\ Bears(c) => c.key \in {"mode", "enabled"} \cup Networks \cup Addresses
         /\ c.kind \in {"add", "remove"} => c.key \in Addresses
         /\ c.kind = "save" => DOMAIN c.patch \cap Addresses = {}
         /\ c.kind = "add" => Brings(c) = 1
BY NamesApart DEF IntakeCall, IsLoad, IsSave, IsSwitch, IsRun, IsAdd, IsToggle, IsRest, Bears, Brings

LEMMA SwitchSend ==
  ASSUME SwitchesInv, IsList(calls), page = "intake", UNCHANGED <<page, truth>>,
         NEW c, IntakeCall(c), ~c.served, c.picture = Nothing,
         calls' = Append(calls, c), want' = Wish(c),
         shown' = shown \/ (c.kind = "save" /\ shown' = Over(shown, c.patch)),
         question' = question \/ question' = NoQuestion,
         c.kind = "add" => question = NoQuestion
                           /\ c.key \notin DOMAIN shown \cup DOMAIN truth \cup DOMAIN want,
         c.kind # "add" => c.key \in DOMAIN shown \cup {question.key, None},
         \A j \in DOMAIN calls : IntakeCall(calls[j])
  PROVE  SwitchesInv'
<1> DEFINE n == Len(calls) + 1
<1>1. /\ DOMAIN calls' = DOMAIN calls \cup {n} /\ n \notin DOMAIN calls
      /\ calls'[n] = c /\ \A j \in DOMAIN calls : calls'[j] = calls[j]
  BY AppendFacts
<1> HIDE DEF n
<1>2. /\ DOMAIN want \subseteq DOMAIN want' /\ DOMAIN want' \subseteq DOMAIN want \cup {c.key}
      /\ ~Bears(c) => want' = want
      /\ \A k \in DOMAIN want :
           want'[k] = want[k] \/ (k = c.key /\ want[k] \notin {Removed, Unclear})
      /\ Bears(c) =>
           /\ c.key \in DOMAIN want'
           /\ \/ want'[c.key] = Brings(c)
              \/ /\ c.key \in DOMAIN want /\ want[c.key] \in {Removed, Unclear}
                 /\ want'[c.key] = want[c.key]
  BY WishFacts
<1>3. /\ Bears(c) => c.key \in {"mode", "enabled"} \cup Networks \cup Addresses
      /\ c.kind \in {"add", "remove"} => c.key \in Addresses
      /\ c.kind = "add" => Brings(c) = 1
  BY KeyFacts
<1>4. DOMAIN shown' \cap Addresses = DOMAIN shown \cap Addresses
  <2>1. CASE shown' = shown BY <2>1
  <2>2. CASE c.kind = "save" /\ shown' = Over(shown, c.patch) BY <2>2, KeyFacts DEF Over
  <2>3. QED BY <2>1, <2>2
<1>5. DOMAIN c.picture = {} /\ NoQuestion.key = None /\ None \notin Addresses
  BY NothingFacts, NoQuestionFacts, NamesApart
<1>6. Heard /\ NewIsNew /\ RemovedIsUnwanted /\ WantsAreMet
      /\ DOMAIN want \subseteq {"mode", "enabled"} \cup Networks \cup Addresses
  BY DEF SwitchesInv
<1>7. Heard'
  <2>1. HeardNames' \subseteq HeardNames \cup DOMAIN shown' \cup {None, c.key}
    BY <1>1, <1>5 DEF HeardNames
  <2>2. c.key \in Addresses => c.key \in HeardNames \cup DOMAIN want'
    BY <1>2, <1>5 DEF HeardNames, Bears
  <2>3. DOMAIN shown \subseteq HeardNames BY DEF HeardNames
  <2>4. QED BY <1>2, <1>4, <1>5, <1>6, <2>1, <2>2, <2>3 DEF Heard
<1>8. NewIsNew'
  <2> SUFFICES ASSUME NEW i \in DOMAIN calls', calls'[i].kind = "add", ~calls'[i].served
               PROVE  Unheard(calls[i].key, i)'
    BY DEF NewIsNew
  <2>1. CASE i \in DOMAIN calls
    <3> DEFINE a == calls[i].key
    <3>1. Unheard(a, i) /\ calls'[i] = calls[i] BY <1>1, <1>6, <2>1 DEF NewIsNew
    <3>2. a \in Addresses BY <2>1, <3>1, KeyFacts
    <3>3. c.key # a BY <1>5, <3>1, <3>2 DEF Unheard
    <3> HIDE DEF a
    <3>4. QED BY <1>1, <1>2, <1>4, <1>5, <3>1, <3>2, <3>3 DEF Unheard, a
  <2>2. CASE i = n
    <3> DEFINE a == c.key
    <3>1. c.kind = "add" /\ calls'[i] = c BY <1>1, <2>2
    <3>2. a \in Addresses /\ shown' = shown /\ question.key = None /\ Bears(c)
      BY <1>3, <3>1, NoQuestionFacts DEF Bears
    <3>3. a \notin HeardNames BY <1>6, <3>1, <3>2 DEF Heard
    <3>4. \A j \in DOMAIN calls : a \notin DOMAIN calls[j].picture /\ calls[j].key # a
      BY <3>3 DEF HeardNames
    <3>5. want'[a] = 1 /\ a \in DOMAIN want' BY <1>2, <1>3, <3>1, <3>2
    <3>6. Unheard(a, i)' BY <1>1, <1>5, <2>2, <3>1, <3>2, <3>4, <3>5 DEF Unheard
    <3>7. QED BY <3>1, <3>6
  <2>3. QED BY <1>1, <2>1, <2>2
<1>9. RemovedIsUnwanted'
  <2> SUFFICES ASSUME NEW i \in DOMAIN calls', calls'[i].kind = "remove"
               PROVE  calls'[i].key \in DOMAIN want' /\ want'[calls'[i].key] \in {Removed, Unclear}
    BY DEF RemovedIsUnwanted
  <2>1. CASE i \in DOMAIN calls BY <1>1, <1>2, <1>6, <2>1 DEF RemovedIsUnwanted
  <2>2. CASE i = n BY <1>1, <1>2, <2>2 DEF Bears, Brings
  <2>3. QED BY <1>1, <2>1, <2>2
<1>10. WantsAreMet'
  <2> SUFFICES ASSUME NEW k \in DOMAIN want' \ Networks
               PROVE  want'[k] = Unclear \/ Failed(k)' \/ Coming(k)' \/ Settled(k)'
    BY DEF WantsAreMet
  <2>1. CASE Bears(c) /\ c.key = k /\ want'[k] = Brings(c)
    <3>1. Coming(k)' BY <1>1, <2>1 DEF Coming
    <3>2. QED BY <3>1
  <2>2. CASE /\ k \in DOMAIN want /\ want'[k] = want[k]
             /\ c.key = k /\ Bears(c) => want[k] \in {Removed, Unclear}
    <3>1. want[k] = Unclear \/ Failed(k) \/ Coming(k) \/ Settled(k) BY <1>6, <2>2 DEF WantsAreMet
    <3>2. Failed(k) => Failed(k)' BY <1>1 DEF Failed
    <3>3. Coming(k) => Coming(k)' BY <1>1, <2>2 DEF Coming
    <3>4. want[k] # Unclear /\ Settled(k) => Settled(k)' BY <1>1, <2>2 DEF Settled, Known
    <3>5. QED BY <2>2, <3>1, <3>2, <3>3, <3>4
  <2>3. QED BY <1>2, <2>1, <2>2
<1>11. /\ question'.kind # "add" /\ ~question'.served /\ question'.picture = Nothing
       /\ DOMAIN want' \subseteq {"mode", "enabled"} \cup Networks \cup Addresses
  BY <1>2, <1>3, <1>6, NoQuestionFacts DEF SwitchesInv
<1>12. QED BY <1>7, <1>8, <1>9, <1>10, <1>11 DEF SwitchesInv

(* A call is served: what it brings is there, and nothing else has         *)
(* changed.                                                                *)
LEMMA SwitchServe ==
  ASSUME SwitchesInv, PageInv, FlagInv, page = "intake", NEW i \in DOMAIN calls, Serve(i)
  PROVE  SwitchesInv'
<1> DEFINE c == calls[i]
           after == truth'
<1>1. UNCHANGED <<page, shown, question, want>> /\ ~c.served BY DEF Serve
<1>2. /\ DOMAIN calls' = DOMAIN calls
      /\ \A j \in DOMAIN calls :
           /\ j # i => calls'[j] = calls[j]
           /\ calls'[j].kind = calls[j].kind /\ calls'[j].key = calls[j].key
           /\ calls'[j].lock = calls[j].lock /\ calls'[j].patch = calls[j].patch
      /\ calls'[i].served
      /\ calls'[i].picture = truth'
      /\ c.kind = "load" => truth' = truth
      /\ c.kind # "load" =>
           /\ calls'[i].ok = ~Refused(c)
           /\ truth' = IF Refused(c) THEN truth ELSE Effect(c)
  BY ServedFacts DEF FlagInv
<1>3. /\ Heard /\ NewIsNew /\ RemovedIsUnwanted /\ WantsAreMet
      /\ DOMAIN want \subseteq {"mode", "enabled"} \cup Networks \cup Addresses
      /\ question.kind # "add" /\ ~question.served /\ question.picture = Nothing
  BY DEF SwitchesInv
<1>4. IsBits(truth) /\ \A j \in DOMAIN calls : IntakeCall(calls[j]) BY DEF PageInv
<1>5. IntakeCall(c) BY <1>4
<1>6. \A j \in DOMAIN calls : Bears(calls'[j]) <=> Bears(calls[j]) BY <1>2 DEF Bears
<1>7. \A j \in DOMAIN calls : Brings(calls'[j]) = Brings(calls[j]) BY <1>2 DEF Brings
\* What the call does to the switches.
<1>8. \A k : k \notin Networks \cup {"listens"} /\ (c.key # k \/ ~Bears(c)) =>
         /\ k \in DOMAIN after <=> k \in DOMAIN truth
         /\ k \in DOMAIN truth => after[k] = truth[k]
  <2>1. CASE after = truth BY <2>1
  <2>2. CASE c.kind # "load" /\ ~Refused(c)
    <3>1. after = Effect(c) BY <1>2, <2>2
    <3> HIDE DEF after, c
    <3>2. QED BY <1>5, <2>2, <3>1, EffectFacts
  <2>3. QED BY <1>2, <2>1, <2>2
<1>9. c.kind # "load" /\ ~Refused(c) =>
         /\ c.kind = "remove" => c.key \notin DOMAIN after
         /\ Bears(c) /\ c.kind # "remove" => c.key \in DOMAIN after /\ after[c.key] = Brings(c)
  <2>1. SUFFICES ASSUME c.kind # "load", ~Refused(c)
                 PROVE  /\ c.kind = "remove" => c.key \notin DOMAIN after
                        /\ Bears(c) /\ c.kind # "remove" =>
                             c.key \in DOMAIN after /\ after[c.key] = Brings(c)
    OBVIOUS
  <2>2. after = Effect(c) BY <1>2, <2>1
  <2> HIDE DEF after, c
  <2>3. QED BY <1>5, <2>1, <2>2, EffectFacts
<1>10. Refused(c) \/ c.kind = "load" => after = truth BY <1>2
<1> HIDE DEF after
<1>11. \A k \in Networks \cup Addresses : k # "listens" /\ k # None BY NamesApart
<1>12. Heard'
  <2>1. HeardNames' \subseteq HeardNames \cup DOMAIN after BY <1>1, <1>2 DEF HeardNames, after
  <2>2. ASSUME NEW k \in Addresses \cap DOMAIN truth PROVE k \in DOMAIN after \cup DOMAIN want
    <3>1. k \notin Networks BY NamesApart
    <3>2. CASE c.key # k \/ ~Bears(c) BY <1>8, <1>11, <3>1, <3>2
    <3>3. CASE c.key = k /\ Bears(c)
      BY <1>3, <1>9, <1>10, <3>3 DEF RemovedIsUnwanted
    <3>4. QED BY <3>2, <3>3
  <2>3. QED BY <1>1, <1>3, <2>1, <2>2 DEF Heard, after
<1>13. NewIsNew'
  <2>1. ASSUME NEW j \in DOMAIN calls', calls'[j].kind = "add", ~calls'[j].served
        PROVE  Unheard(calls[j].key, j)'
    <3> DEFINE a == calls[j].key
    <3>1. j \in DOMAIN calls /\ j # i /\ calls'[j] = calls[j] BY <1>2, <2>1
    <3>2. Unheard(a, j) BY <1>3, <2>1, <3>1 DEF NewIsNew
    <3>3. a \in Addresses BY <1>4, <2>1, <3>1, KeyFacts
    <3>4. c.key # a BY <3>1, <3>2 DEF Unheard
    <3>5. a \notin Networks \cup {"listens"} BY <3>3, <1>11, NamesApart
    <3>6. a \notin DOMAIN after BY <1>8, <3>2, <3>4, <3>5 DEF Unheard
    <3> HIDE DEF a
    <3>7. Unheard(a, j)' BY <1>1, <1>2, <3>1, <3>2, <3>6 DEF Unheard, after, a
    <3>8. QED BY <3>7 DEF a
  <2>2. QED BY <2>1 DEF NewIsNew
<1>14. RemovedIsUnwanted' BY <1>1, <1>2, <1>3 DEF RemovedIsUnwanted
<1>15. WantsAreMet'
  <2> SUFFICES ASSUME NEW k \in DOMAIN want \ Networks, want[k] # Unclear
               PROVE  Failed(k)' \/ Coming(k)' \/ Settled(k)'
    BY <1>1 DEF WantsAreMet
  <2>1. k \notin Networks \cup {"listens"} /\ k \in {"mode", "enabled"} \cup Addresses
    BY <1>3, <1>11
  <2>2. ASSUME NEW j \in DOMAIN calls, j # i
        PROVE  calls'[j] = calls[j]
    BY <1>2, <2>2
  <2>3. CASE Failed(k)
    <3>1. Failed(k)' BY <1>1, <1>2, <2>2, <2>3 DEF Failed
    <3>2. QED BY <3>1
  <2>4. ASSUME NEW j \in DOMAIN calls, j # i,
               calls[j].key = k, Bears(calls[j]), ~calls[j].served, Brings(calls[j]) = want[k]
        PROVE  Coming(k)'
    BY <1>1, <1>2, <2>4 DEF Coming
  <2>5. CASE c.key = k /\ Bears(c) /\ Refused(c)
    <3>1. c.kind # "load" BY <2>5 DEF Bears
    <3>2. Failed(k)' BY <1>2, <2>5, <3>1 DEF Failed
    <3>3. QED BY <3>2
  <2>6. CASE c.key = k /\ Bears(c) /\ Brings(c) = want[k] /\ ~Refused(c)
    <3>1. c.kind # "load" BY <2>6 DEF Bears
    <3>2. want[k] = Known(k)' BY <1>1, <1>9, <2>6, <3>1 DEF Known, Brings, after
    <3>3. ASSUME c.kind # "remove", NEW j \in DOMAIN calls, calls[j].key = k, Bears(calls[j]),
                 ~calls[j].served
          PROVE  j = i
      <4>1. CASE c.kind = "add" BY <1>1, <1>3, <2>6, <3>3, <4>1 DEF NewIsNew, Unheard
      <4>2. CASE calls[j].kind = "add" BY <1>3, <2>6, <3>3, <4>2 DEF NewIsNew, Unheard
      <4>3. CASE c.kind # "add" /\ calls[j].kind # "add"
        <5>1. IntakeCall(calls[j]) /\ IntakeCall(c) BY <1>4
        <5>2. calls[j].kind # "remove"
          <6>1. k \in Addresses /\ k \notin Networks => want[k] \in {0, 1} \/ c.kind # "toggle"
            BY <2>1, <2>6, <5>1
            DEF IntakeCall, IsBits, IsLoad, IsSave, IsSwitch, IsRun, IsAdd, IsToggle, IsRest, Brings
          <6>2. calls[j].kind = "remove" => k \in Addresses /\ want[k] = Removed
            BY <1>3, <3>3, <5>1, KeyFacts DEF RemovedIsUnwanted
          <6>3. k \in Addresses => c.kind = "toggle"
            BY <2>6, <3>3, <4>3, <5>1, NamesApart
            DEF IntakeCall, IsLoad, IsSave, IsSwitch, IsRun, IsAdd, IsToggle, IsRest, Bears
          <6>4. QED BY <2>1, <6>1, <6>2, <6>3 DEF Removed
        <5>3. c.lock = calls[j].lock /\ c.lock # None
          BY <1>11, <2>1, <2>6, <3>3, <4>3, <5>1, <5>2, NamesApart
          DEF IntakeCall, IsLoad, IsSave, IsSwitch, IsRun, IsAdd, IsToggle, IsRest, Bears, None
        <5>4. QED BY <5>3 DEF FlagInv, FlagsApart
      <4>4. QED BY <4>1, <4>2, <4>3
    <3>4. c.kind = "remove" => want[k] = Removed BY <2>6 DEF Brings
    <3>5. Settled(k)' BY <1>1, <1>2, <1>6, <3>2, <3>3, <3>4 DEF Settled
    <3>6. QED BY <3>5
  <2>7. CASE Settled(k) /\ ~(c.key = k /\ Bears(c))
    <3>1. Known(k)' = Known(k) BY <1>8, <2>1, <2>7 DEF Known, after
    <3>2. Settled(k)' BY <1>1, <1>2, <1>6, <2>7, <3>1 DEF Settled
    <3>3. QED BY <3>2
  <2>8. CASE Settled(k) /\ c.key = k /\ Bears(c) /\ ~Refused(c)
    <3>1. want[k] = Removed BY <1>1, <2>8 DEF Settled
    <3>2. k \notin DOMAIN truth
      BY <1>4, <2>1, <2>8, <3>1 DEF Settled, Known, IsBits, Removed
    <3>3. c.kind = "add" BY <2>8, <3>2 DEF Refused
    <3>4. want[k] = 1 BY <1>1, <1>3, <2>8, <3>3 DEF NewIsNew, Unheard
    <3>5. QED BY <3>1, <3>4 DEF Removed
  <2>9. Failed(k) \/ Coming(k) \/ Settled(k) BY <1>3 DEF WantsAreMet
  <2>10. CASE Coming(k) BY <2>4, <2>5, <2>6, <2>10 DEF Coming
  <2>11. QED BY <2>3, <2>5, <2>7, <2>8, <2>9, <2>10
<1>16. QED BY <1>1, <1>3, <1>12, <1>13, <1>14, <1>15 DEF SwitchesInv

(* What was wanted, when a call is over: the same, or it is unclear.       *)
LEMMA EndWish ==
  ASSUME NEW i \in DOMAIN calls, NEW arrived \in BOOLEAN, Ends(i, arrived)
  PROVE  LET c == calls[i]
             fails == c.kind # "load" /\ ~(arrived /\ c.ok) IN
         /\ DOMAIN want' = DOMAIN want
         /\ \A k \in DOMAIN want : want'[k] = IF fails /\ c.key = k THEN Unclear ELSE want[k]
<1> DEFINE c == calls[i]
           fails == c.kind # "load" /\ ~(arrived /\ c.ok)
<1>1. CASE want' = want /\ (~fails \/ c.key \notin DOMAIN want) BY <1>1
<1>2. CASE fails /\ c.key \in DOMAIN want /\ want' = Over(want, Only(c.key, Unclear))
  BY <1>2 DEF Over, Only
<1>3. QED BY <1>1, <1>2 DEF Ends, LoadEnds, PostEnds

(* A call is over: what it says agrees with what is there.                 *)
LEMMA SwitchEnd ==
  ASSUME SwitchesInv, PageInv, FlagInv, page = "intake", UNCHANGED <<page, truth, question>>,
         NEW i \in DOMAIN calls, NEW arrived \in BOOLEAN, Ends(i, arrived),
         arrived => calls[i].served, NEW last, EndCalls(i, last)
  PROVE  SwitchesInv'
<1> DEFINE c == calls[i]
           fails == c.kind # "load" /\ ~(arrived /\ c.ok)
<1>1. /\ DOMAIN want' = DOMAIN want
      /\ \A k \in DOMAIN want : want'[k] = IF fails /\ c.key = k THEN Unclear ELSE want[k]
  BY EndWish
<1>2. DOMAIN shown' \subseteq DOMAIN shown \cup DOMAIN c.picture BY EndScreen
<1>3. /\ \A k \in DOMAIN calls : k # i => \E j \in DOMAIN calls' : calls'[j] = calls[k]
      /\ \A j \in DOMAIN calls' :
           \/ j < Len(calls) /\ Skip(i, j) \in DOMAIN calls \ {i} /\ calls'[j] = calls[Skip(i, j)]
           \/ j = Len(calls) /\ calls'[j] = last
      /\ IsList(calls')
  BY EndFacts DEF FlagInv
<1>4. /\ last.kind = "load" /\ last.key = None /\ DOMAIN last.picture = {}
  BY LoadFields, NothingFacts DEF EndCalls
<1>5. /\ Heard /\ NewIsNew /\ RemovedIsUnwanted /\ WantsAreMet
      /\ DOMAIN want \subseteq {"mode", "enabled"} \cup Networks \cup Addresses
      /\ question.kind # "add" /\ ~question.served /\ question.picture = Nothing
  BY DEF SwitchesInv
<1>6. None \notin Addresses BY NamesApart
<1>7. \A j \in DOMAIN calls' : calls'[j] = last \/ \E k \in DOMAIN calls \ {i} : calls'[j] = calls[k]
  BY <1>3
<1>8. Heard'
  <2>1. HeardNames' \subseteq HeardNames \cup {None} BY <1>2, <1>4, <1>7 DEF HeardNames
  <2>2. QED BY <1>1, <1>5, <1>6, <2>1 DEF Heard
<1>9. NewIsNew'
  <2>1. ASSUME NEW j \in DOMAIN calls', calls'[j].kind = "add", ~calls'[j].served
        PROVE  Unheard(calls[j].key, j)'
    <3> DEFINE k == Skip(i, j)
               a == calls[k].key
    <3>1. /\ j < Len(calls) /\ k \in DOMAIN calls \ {i} /\ calls'[j] = calls[k]
      BY <1>3, <1>4, <2>1
    <3> HIDE DEF k
    <3>2. Unheard(a, k) BY <1>5, <2>1, <3>1 DEF NewIsNew
    <3>3. a \in Addresses BY <2>1, <3>1, KeyFacts DEF PageInv
    <3>4. a \notin DOMAIN truth \cup DOMAIN shown' BY <1>2, <3>2 DEF Unheard
    <3>5. a \in DOMAIN want' /\ want'[a] = 1 BY <1>1, <3>1, <3>2 DEF Unheard
    <3>6. ASSUME NEW x \in DOMAIN calls'
          PROVE  a \notin DOMAIN calls'[x].picture /\ (calls'[x].key = a => x = j)
      <4>1. CASE calls'[x] = last BY <1>4, <1>6, <3>3, <4>1
      <4>2. CASE /\ x < Len(calls) /\ Skip(i, x) \in DOMAIN calls \ {i}
                 /\ calls'[x] = calls[Skip(i, x)]
        <5>1. Skip(i, x) = Skip(i, j) => x = j
          <6>1. DOMAIN calls' = 1..Len(calls') /\ Len(calls') \in Nat /\ DOMAIN calls = 1..Len(calls)
            BY <1>3, ListFacts DEF FlagInv, CallsKept
          <6>2. x \in Int /\ j \in Int /\ i \in Int BY <6>1
          <6>3. QED BY <6>2 DEF Skip
        <5>2. QED BY <3>2, <4>2, <5>1 DEF Unheard, k
      <4>3. QED BY <1>3, <4>1, <4>2
    <3>7. question'.key # a BY <3>2 DEF Unheard
    <3>8. calls'[j].key = a BY <3>1
    <3> HIDE DEF a
    <3>9. QED BY <3>4, <3>5, <3>6, <3>7, <3>8 DEF Unheard
  <2>2. QED BY <2>1 DEF NewIsNew
<1>10. RemovedIsUnwanted' BY <1>1, <1>4, <1>5, <1>7 DEF RemovedIsUnwanted
<1>11. WantsAreMet'
  <2> SUFFICES ASSUME NEW k \in DOMAIN want \ Networks, ~(fails /\ c.key = k)
               PROVE  want'[k] = Unclear \/ Failed(k)' \/ Coming(k)' \/ Settled(k)'
    BY <1>1 DEF WantsAreMet
  <2>1. want'[k] = want[k] BY <1>1
  <2>2. CASE want[k] = Unclear BY <2>1, <2>2
  <2>3. CASE Failed(k)
    <3>1. PICK j \in DOMAIN calls :
            calls[j].key = k /\ calls[j].kind # "load" /\ calls[j].served /\ ~calls[j].ok
      BY <2>3 DEF Failed
    <3>2. j # i BY <3>1
    <3>3. Failed(k)' BY <1>3, <3>1, <3>2 DEF Failed
    <3>4. QED BY <3>3
  <2>4. CASE Coming(k)
    <3>1. PICK j \in DOMAIN calls :
            calls[j].key = k /\ Bears(calls[j]) /\ ~calls[j].served /\ Brings(calls[j]) = want[k]
      BY <2>4 DEF Coming
    <3>2. j # i BY <3>1 DEF Bears
    <3>3. Coming(k)' BY <1>3, <2>1, <3>1, <3>2 DEF Coming
    <3>4. QED BY <3>3
  <2>5. CASE Settled(k)
    <3>1. ~Bears(last) BY <1>4 DEF Bears
    <3>2. Settled(k)' BY <1>7, <2>1, <2>5, <3>1 DEF Settled, Known
    <3>3. QED BY <3>2
  <2>6. QED BY <1>5, <2>2, <2>3, <2>4, <2>5 DEF WantsAreMet
<1>12. QED BY <1>1, <1>5, <1>8, <1>9, <1>10, <1>11 DEF SwitchesInv

(* On the other pages nothing is a switch.                                 *)
LEMMA OtherPages ==
  ASSUME SwitchesInv, FlagInv, Shape, page # "intake"
  PROVE  SwitchesInv'
<1> DEFINE Quiet == page # "intake" /\ DOMAIN want = {} /\ ~Bears(question)
                    /\ \A i \in DOMAIN calls : ~Bears(calls[i])
<1>1. Quiet BY DEF SwitchesInv
<1>2. CASE UNCHANGED <<page, question, calls, want>> BY <1>1, <1>2 DEF SwitchesInv, Bears
<1>3. ASSUME NEW c, Asks(c) PROVE SwitchesInv'
  <2>1. ~Bears(c) /\ question' = c /\ UNCHANGED <<page, calls, want>>
    BY <1>3 DEF Asks, Made, Fits
  <2>2. QED BY <1>1, <2>1 DEF SwitchesInv, Bears
<1>4. ASSUME NEW c, ~Bears(c), Send(c), ~Bears(question'), UNCHANGED page PROVE SwitchesInv'
  <2>1. calls' = Append(calls, c) /\ want' = want BY <1>4, WishFacts DEF Send
  <2>2. /\ DOMAIN calls' = DOMAIN calls \cup {Len(calls) + 1} /\ calls'[Len(calls) + 1] = c
        /\ \A j \in DOMAIN calls : calls'[j] = calls[j]
    BY <2>1, AppendFacts DEF FlagInv, CallsKept
  <2>3. QED BY <1>1, <1>4, <2>1, <2>2 DEF SwitchesInv, Bears
<1>5. ASSUME NEW c, Presses(c) PROVE SwitchesInv'
  <2>1. ~Bears(c) /\ Send(c) /\ UNCHANGED <<page, question>> BY <1>5 DEF Presses, Made, Fits
  <2>2. QED BY <1>1, <1>4, <2>1 DEF Bears
<1>6. ASSUME NEW lock, Looks(lock) PROVE SwitchesInv'
  <2> DEFINE c == Load(lock)
  <2>1. c.kind = "load" BY LoadFields
  <2>2. Send(c) /\ UNCHANGED <<page, question>> BY <1>6 DEF Looks
  <2> HIDE DEF c
  <2>3. QED BY <1>1, <1>4, <2>1, <2>2 DEF Bears
<1>7. ASSUME NEW yes \in BOOLEAN, Reply(yes) PROVE SwitchesInv'
  <2>1. question' = NoQuestion /\ UNCHANGED page /\ ~Bears(NoQuestion)
    BY <1>7, NoQuestionFacts DEF Reply, Bears
  <2>2. CASE yes BY <1>1, <1>4, <1>7, <2>1, <2>2 DEF Reply
  <2>3. CASE ~yes BY <1>1, <1>7, <2>1, <2>3 DEF Reply, SwitchesInv, Bears
  <2>4. QED BY <2>2, <2>3
<1>8. ASSUME NEW i \in DOMAIN calls, Serve(i) PROVE SwitchesInv'
  <2>1. DOMAIN calls' = DOMAIN calls /\ \A j \in DOMAIN calls : calls'[j].kind = calls[j].kind
    BY <1>8, ServedFacts DEF FlagInv
  <2>2. UNCHANGED <<page, question, want>> BY <1>8 DEF Serve
  <2>3. QED BY <1>1, <2>1, <2>2 DEF SwitchesInv, Bears
<1>9. ASSUME NEW i \in DOMAIN calls, NEW arrived \in BOOLEAN, IsOver(i, arrived) PROVE SwitchesInv'
  <2>1. Ends(i, arrived) /\ UNCHANGED <<page, question>> BY <1>9 DEF IsOver
  <2>2. PICK last : EndCalls(i, last) BY <2>1, EndShape DEF FlagInv, FlagsApart
  <2>3. \A j \in DOMAIN calls' : (\E k \in DOMAIN calls : calls'[j] = calls[k]) \/ calls'[j] = last
    BY <2>2, EndFacts DEF FlagInv
  <2>4. ~Bears(last) BY <2>2, LoadFields DEF EndCalls, Bears
  <2>5. DOMAIN want' = {} BY <1>1, <2>1, EndWish
  <2>6. QED BY <1>1, <2>1, <2>3, <2>4, <2>5 DEF SwitchesInv, Bears
<1>10. QED BY <1>2, <1>3, <1>5, <1>6, <1>7, <1>8, <1>9 DEF Shape

(* A button asks first, or its question is answered with no.               *)
LEMMA SwitchAsk ==
  ASSUME SwitchesInv, page = "intake", UNCHANGED <<page, truth, shown, calls, want>>,
         question'.kind # "add", ~question'.served, question'.picture = Nothing,
         question'.key \in DOMAIN shown \cup {question.key, None},
         \A i \in DOMAIN calls : IntakeCall(calls[i])
  PROVE  SwitchesInv'
<1>1. /\ Heard /\ NewIsNew /\ RemovedIsUnwanted /\ WantsAreMet
      /\ DOMAIN want \subseteq {"mode", "enabled"} \cup Networks \cup Addresses
  BY DEF SwitchesInv
<1>2. None \notin Addresses BY NamesApart
<1>3. Heard'
  <2>1. HeardNames' \subseteq HeardNames \cup {None} BY DEF HeardNames
  <2>2. QED BY <1>1, <1>2, <2>1 DEF Heard
<1>4. NewIsNew'
  <2>1. ASSUME NEW i \in DOMAIN calls, calls[i].kind = "add", ~calls[i].served
        PROVE  Unheard(calls[i].key, i)'
    <3>1. Unheard(calls[i].key, i) /\ calls[i].key # None
      BY <1>1, <1>2, <2>1, KeyFacts DEF NewIsNew
    <3>2. QED BY <3>1 DEF Unheard
  <2>2. QED BY <2>1 DEF NewIsNew
<1>5. RemovedIsUnwanted' /\ WantsAreMet'
  BY <1>1 DEF RemovedIsUnwanted, WantsAreMet, Failed, Coming, Settled, Known, Bears, Brings
<1>6. QED BY <1>1, <1>3, <1>4, <1>5 DEF SwitchesInv

LEMMA SwitchesStep ==
  ASSUME SwitchesInv, PageInv, FlagInv, Shape, page = "intake"
  PROVE  SwitchesInv'
<1>1. /\ IsList(calls) /\ IntakeCall(question) /\ \A j \in DOMAIN calls : IntakeCall(calls[j])
      /\ question.kind # "add" /\ ~question.served /\ question.picture = Nothing
  BY DEF PageInv, FlagInv, CallsKept, SwitchesInv
<1>2. CASE UNCHANGED <<page, truth, shown, question, calls, want>> BY <1>1, <1>2, SwitchAsk
<1>3. ASSUME NEW c, Asks(c) PROVE SwitchesInv'
  <2>1. /\ question' = c /\ c.kind # "add" /\ ~c.served /\ c.picture = Nothing
        /\ c.key \in DOMAIN shown /\ UNCHANGED <<page, truth, shown, calls, want>>
    BY <1>3 DEF Asks, Made, Fits
  <2>2. QED BY <1>1, <2>1, SwitchAsk
<1>4. ASSUME NEW c, Presses(c) PROVE SwitchesInv'
  <2>1. /\ IntakeCall(c) /\ ~c.served /\ c.picture = Nothing /\ question = NoQuestion
        /\ IF c.kind = "add" THEN c.key \notin DOMAIN shown \cup DOMAIN truth \cup DOMAIN want
           ELSE c.key \in DOMAIN shown
        /\ calls' = Append(calls, c) /\ want' = Wish(c)
        /\ shown' = shown \/ (c.kind = "save" /\ shown' = Over(shown, c.patch))
        /\ UNCHANGED <<page, truth, question>>
    BY <1>4 DEF Presses, Made, Fits, Send
  <2>2. QED BY <1>1, <2>1, SwitchSend
<1>5. ASSUME NEW lock, Looks(lock) PROVE SwitchesInv'
  <2> DEFINE c == Load(lock)
  <2>1. c.kind = "load" /\ c.key = None /\ ~c.served /\ c.picture = Nothing /\ IntakeCall(c)
    BY LoadFields, NothingFacts DEF IntakeCall, IsLoad
  <2>2. calls' = Append(calls, c) /\ want' = Wish(c) /\ UNCHANGED <<page, truth, shown, question>>
    BY <1>5 DEF Looks, Send
  <2> HIDE DEF c
  <2>3. QED BY <1>1, <2>1, <2>2, SwitchSend
<1>6. ASSUME NEW yes \in BOOLEAN, Reply(yes) PROVE SwitchesInv'
  <2>1. question' = NoQuestion /\ UNCHANGED <<page, truth, shown>> BY <1>6 DEF Reply
  <2>2. CASE yes
    <3>1. calls' = Append(calls, question) /\ want' = Wish(question)
      BY <1>6, <2>2 DEF Reply, Send
    <3>2. QED BY <1>1, <2>1, <3>1, SwitchSend
  <2>3. CASE ~yes
    <3>1. UNCHANGED <<calls, want>> BY <1>6, <2>3 DEF Reply
    <3>2. QED BY <1>1, <2>1, <3>1, NoQuestionFacts, SwitchAsk
  <2>4. QED BY <2>2, <2>3
<1>7. ASSUME NEW i \in DOMAIN calls, NEW arrived \in BOOLEAN, IsOver(i, arrived) PROVE SwitchesInv'
  <2>1. Ends(i, arrived) /\ (arrived => calls[i].served) /\ UNCHANGED <<page, truth, question>>
    BY <1>7 DEF IsOver
  <2>2. PICK last : EndCalls(i, last) BY <2>1, EndShape DEF FlagInv, FlagsApart
  <2>3. QED BY <2>1, <2>2, SwitchEnd
<1>8. QED BY <1>2, <1>3, <1>4, <1>5, <1>6, <1>7, SwitchServe DEF Shape

LEMMA SwitchesInit ==
  ASSUME Init
  PROVE  SwitchesInv
<1> DEFINE c == Load(Reading)
<1>1. c.kind = "load" /\ c.key = None /\ DOMAIN c.picture = {} BY LoadFields, NothingFacts
<1>2. calls = <<c>> /\ question = NoQuestion /\ shown = Nothing /\ want = Nothing BY DEF Init
<1> HIDE DEF c
<1>3. DOMAIN calls = {1} /\ calls[1] = c BY <1>2
<1>4. DOMAIN want = {} /\ DOMAIN shown = {} BY <1>2, NothingFacts
<1>5. ~Bears(question) /\ \A i \in DOMAIN calls : ~Bears(calls[i])
  BY <1>1, <1>2, <1>3, NoQuestionFacts DEF Bears
<1>6. Heard
  <2>1. HeardNames \subseteq {None}
    BY <1>1, <1>2, <1>3, <1>4, NoQuestionFacts DEF HeardNames
  <2>2. QED BY <2>1, NamesApart DEF Heard
<1>7. NewIsNew /\ RemovedIsUnwanted /\ WantsAreMet
  BY <1>1, <1>3, <1>4 DEF NewIsNew, RemovedIsUnwanted, WantsAreMet
<1>8. QED BY <1>2, <1>4, <1>5, <1>6, <1>7, NoQuestionFacts DEF SwitchesInv

(* When no call but a look is on its way, the mode, the listener and every *)
(* address stand as the administrator pressed them last, unless a call has *)
(* failed and said so: no call undoes another, whatever their order.       *)
THEOREM SwitchesStand == Spec => []SwitchesAsPressed
<1> DEFINE IInv == FlagInv /\ PageInv /\ SwitchesInv
<1>1. Init => IInv BY FlagsInit, PageInit, SwitchesInit
<1>2. IInv /\ [Next]_vars => IInv'
  <2> SUFFICES ASSUME IInv, [Next]_vars
               PROVE  IInv'
    OBVIOUS
  <2>1. Shape /\ FlagInv' /\ PageInv' BY InvStep
  <2>2. SwitchesInv' BY <2>1, SwitchesStep, OtherPages
  <2>3. QED BY <2>1, <2>2
<1>3. IInv => SwitchesAsPressed
  <2> SUFFICES ASSUME IInv, AtRest, NEW k \in DOMAIN want \ Networks
               PROVE  want[k] \in {Known(k), Unclear}
    BY DEF SwitchesAsPressed
  <2>1. page = "intake" /\ WantsAreMet BY DEF SwitchesInv
  <2>2. ~Failed(k) /\ ~Coming(k) BY DEF AtRest, Failed, Coming, Bears
  <2>3. QED BY <2>1, <2>2 DEF WantsAreMet, Settled
<1>4. QED BY <1>1, <1>2, <1>3, PTL DEF Spec
=============================================================================
