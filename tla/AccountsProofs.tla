--------------------------- MODULE AccountsProofs ---------------------------
(* The safety of the accounts, for any number of accounts, PINs, requests and *)
(* faults.                                                                    *)
EXTENDS AccountPages, TLAPS

(* Types. *)

Ops == {"login", "logout", "me", "pin", "setup", "enable", "disable"}
Places == {"panel", "desk", "phone", "slot"}
Status == {"none", "ok", "banned", "wrong", "challenge", "refused", "error"}
Codes == [kind : {"none", "totp", "recovery"}, of : Nat]

Stage == {"load", "auth", "unset", "answer", "consume", "mint", "verify", "compare", "write",
          "revoke", "make", "commit", "check", "clear", "wipe", "tell"}

\* What the handler of an operation comes to wait for.
Fits(op, stage) ==
  \/ stage = "answer"
  \/ op = "login"   /\ stage \in {"load", "consume", "mint"}
  \/ op = "logout"  /\ stage = "unset"
  \/ op = "me"      /\ stage \in {"auth", "tell"}
  \/ op = "pin"     /\ stage \in {"auth", "verify", "consume", "compare", "write", "revoke"}
  \/ op = "setup"   /\ stage \in {"auth", "make"}
  \/ op = "enable"  /\ stage \in {"auth", "commit"}
  \/ op = "disable" /\ stage \in {"auth", "check", "consume", "clear", "wipe"}

Requests ==
  [op : Ops, page : Places, by : Int, pin : Pin \cup {NoPin}, new : Pin \cup {NoPin},
   code : Codes, secret : Nat, stage : Stage,
   who : Account \cup {NoAccount}, changes : Nat, late : BOOLEAN, deaf : BOOLEAN,
   status : Status]

\* A handler knows its account once it is past the first statement, a change of
\* PIN its new PIN, and only the panel sets up, enables and disables a second
\* factor.
Sound(r) ==
  /\ r \in Requests
  /\ Fits(r.op, r.stage)
  /\ r.stage \notin {"load", "auth", "unset", "answer"} => r.who \in Account
  /\ r.op = "pin" /\ r.stage # "answer" => r.new \in Pin
  /\ r.op \in {"setup", "enable", "disable"} => r.page = "panel"

RequestsOK ==
  /\ requests \in [Ids -> Requests \cup {NoRequest}]
  /\ \A i \in Ids : requests[i] = NoRequest \/ Sound(requests[i])
  /\ \A i \in Ids : i > sent => requests[i] = NoRequest
  /\ sent \in 0..MaxSent /\ made \in Nat /\ faults \in Nat

RowsOK ==
  /\ users \in [Account -> [pin : Pin, changes : Nat, secret : Nat]]
  /\ codes \subseteq [owner : Account, batch : Ids, used : BOOLEAN]
  /\ tokens \subseteq [id : Ids, owner : Account, changes : Nat, late : BOOLEAN]
  /\ redeemed \in [Ids -> Nat]
  /\ ended \in [Account -> Nat]
  /\ enrolled \in [Account -> Ids]
  /\ unheard \in BOOLEAN

PagesOK ==
  /\ pages \subseteq Page
  /\ cookie \in [Device -> Int]
  /\ seen \in [secrets : SUBSET Nat, batches : SUBSET Nat]
  /\ panel \in [view : {"on", "off", "starting", "confirm", "codes"}, me : BOOLEAN,
                secret : Nat, batch : Int]
  /\ form \in [Device -> [asks : BOOLEAN, busy : BOOLEAN, open : BOOLEAN]]
  /\ slot \in [view : {"form", "chip"}, open : BOOLEAN, totpRequired : BOOLEAN, busy : BOOLEAN]

TypeOK == RequestsOK /\ RowsOK /\ PagesOK

(* Requests. *)

LEMMA NewRequest ==
  ASSUME NEW op \in Ops, NEW p \in Places, NEW by \in Int,
         op \in {"setup", "enable", "disable"} => p = "panel"
  PROVE  /\ op # "pin" => Sound(Request(op, p, by))
         /\ Request(op, p, by) \in Requests
         /\ Request(op, p, by).op = op
         /\ Request(op, p, by).page = p
         /\ Request(op, p, by).stage \in {"load", "auth", "unset"}
BY DEF Sound, Requests, Request, Codes, Code, NoCode, NoSecret, Status, Ops, Fits, Stage

LEMMA AnAnswer ==
  ASSUME NEW r, Sound(r), NEW status \in Status,
         Answered(r, status) # NoRequest
  PROVE  /\ Sound(Answered(r, status))
         /\ Answered(r, status).op = r.op
         /\ Answered(r, status).page = r.page
         /\ Answered(r, status).stage = "answer"
<1> DEFINE q == Request(r.op, r.page, NoSession)
<1>1. /\ r.op \in Ops /\ r.page \in Places /\ r.secret \in Nat
      /\ r.op \in {"setup", "enable", "disable"} => r.page = "panel"
  BY DEF Sound, Requests
<1>2. q \in Requests /\ q.op = r.op /\ q.page = r.page
  BY <1>1, NewRequest DEF NoSession
<1>3. Answered(r, status) = [q EXCEPT !.stage = "answer", !.status = status, !.secret = r.secret]
  BY DEF Answered
<1> HIDE DEF q
<1> QED BY <1>1, <1>2, <1>3 DEF Sound, Requests, Fits, Stage

LEMMA AMove ==
  ASSUME NEW r, Sound(r), r.stage # "answer", NEW s \in Stage, Fits(r.op, s),
         s \notin {"load", "auth", "unset", "answer"} => r.who \in Account
  PROVE  /\ Sound([r EXCEPT !.stage = s])
         /\ [r EXCEPT !.stage = s].op = r.op
         /\ [r EXCEPT !.stage = s].page = r.page
         /\ [r EXCEPT !.stage = s].by = r.by
         /\ [r EXCEPT !.stage = s].who = r.who
         /\ [r EXCEPT !.stage = s].changes = r.changes
         /\ [r EXCEPT !.stage = s].late = r.late
         /\ [r EXCEPT !.stage = s].stage = s
BY DEF Sound, Requests, Fits, Stage, Ops

\* A request is answered, or goes on with what follows.
LEMMA RequestGoes ==
  ASSUME RequestsOK, NEW i \in Ids, NEW r, Goes(i, r), r = NoRequest \/ Sound(r),
         sent' \in 0..MaxSent, sent' >= sent, i <= sent', made' \in Nat, faults' \in Nat
  PROVE  RequestsOK'
BY DEF RequestsOK, Goes, Sound, Ids

LEMMA Here ==
  ASSUME RequestsOK, NEW i \in Ids, requests[i] # NoRequest
  PROVE  Sound(requests[i]) /\ i <= sent
BY AccountConstants DEF RequestsOK, Ids

LEMMA RequestAnswered ==
  ASSUME RequestsOK, NEW i \in Ids, requests[i] # NoRequest, NEW status \in Status,
         Answer(i, status), UNCHANGED sent, made' \in Nat, faults' \in Nat
  PROVE  RequestsOK'
BY Here, RequestGoes, AnAnswer DEF Answer, RequestsOK

LEMMA RequestMoves ==
  ASSUME RequestsOK, NEW i \in Ids, requests[i] # NoRequest, NEW s \in Stage,
         requests[i].stage # "answer", Fits(requests[i].op, s),
         s \notin {"load", "auth", "unset", "answer"} => requests[i].who \in Account,
         Moves(i, s), UNCHANGED <<sent, made, faults>>
  PROVE  RequestsOK'
BY Here, RequestGoes, AMove DEF Moves, RequestsOK

LEMMA LaterOfTwo ==
  ASSUME NEW m \in Nat, NEW n \in Nat
  PROVE  Max({m, n}) \in Nat /\ Max({m, n}) >= m /\ Max({m, n}) >= n
         /\ (Max({m, n}) = m \/ Max({m, n}) = n)
<1>1. \E x \in {m, n} : \A y \in {m, n} : x >= y
  OBVIOUS
<1> QED
  BY <1>1 DEF Max

(* What the handlers do keeps the types. *)

LEMMA ServeTypes ==
  ASSUME RequestsOK, RowsOK, NEW i \in Ids, Serve(i)
  PROVE  RequestsOK' /\ RowsOK'
<1> DEFINE r == requests[i]
<1> USE DEF At
<1>0. requests[i] # NoRequest => Sound(r) /\ i <= sent
  BY Here
<1>1. CASE LoadUsers(i)
  <2> DEFINE found == {a \in Account : users[a].pin = r.pin}
             known(a) == [r EXCEPT !.who = a, !.changes = users[a].changes]
  <2>1. /\ requests[i] # NoRequest /\ r.stage = "load" /\ r.op = "login"
        /\ UNCHANGED <<Rows, sent, made, faults>>
    BY <1>1, <1>0 DEF LoadUsers, Sound, Fits
  <2>2. ASSUME NEW a \in found
        PROVE  /\ Sound([known(a) EXCEPT !.stage = "mint"])
               /\ Sound([known(a) EXCEPT !.stage = "consume"])
    BY <1>0, <2>1 DEF Sound, Requests, Fits, Stage, RowsOK
  <2>3. CASE \E status \in Status : Answer(i, status)
    BY <2>1, <2>3, RequestAnswered DEF Rows, RowsOK, RequestsOK
  <2>4. CASE \E a \in found, s \in {"mint", "consume"} : Goes(i, [known(a) EXCEPT !.stage = s])
    <3>1. PICK a \in found, s \in {"mint", "consume"} : Goes(i, [known(a) EXCEPT !.stage = s])
      BY <2>4
    <3>2. Sound([known(a) EXCEPT !.stage = s])
      BY <2>2, <3>1
    <3> HIDE DEF known
    <3> QED
      BY <1>0, <2>1, <3>1, <3>2, RequestGoes DEF Rows, RowsOK, RequestsOK
  <2> QED
    BY <1>1, <2>3, <2>4 DEF LoadUsers, Answer, Status
<1>2. CASE Authenticate(i)
  <2>1. /\ requests[i] # NoRequest /\ r.stage = "auth"
        /\ UNCHANGED <<Rows, sent, made, faults>>
    BY <1>2 DEF Authenticate
  <2>2. CASE \E status \in Status : Answer(i, status)
    BY <2>1, <2>2, RequestAnswered DEF Rows, RowsOK, RequestsOK
  <2>3. CASE \E t \in tokens : Goes(i, [r EXCEPT !.who = t.owner, !.stage = Authenticated[r.op]])
    <3>1. PICK t \in tokens : Goes(i, [r EXCEPT !.who = t.owner, !.stage = Authenticated[r.op]])
      BY <2>3
    <3>2. Fits(r.op, Authenticated[r.op]) /\ Authenticated[r.op] \in Stage
      BY <1>0, <2>1 DEF Sound, Fits, Authenticated, Stage
    <3>3. Sound([r EXCEPT !.who = t.owner, !.stage = Authenticated[r.op]])
      BY <1>0, <2>1, <3>2 DEF Sound, Requests, RowsOK
    <3> QED
      BY <1>0, <2>1, <3>1, <3>3, RequestGoes DEF Rows, RowsOK, RequestsOK
  <2> QED
    BY <1>2, <2>2, <2>3 DEF Authenticate, Status
<1>3. CASE Tell(i)
  BY <1>3, RequestAnswered DEF Tell, Rows, RowsOK, RequestsOK, Status
<1>4. CASE Consume(i)
  <2> DEFINE found == Redeemable(r.who, r.code.of)
  <2>1. /\ requests[i] # NoRequest /\ r.stage = "consume" /\ r.who \in Account
        /\ UNCHANGED <<users, tokens, ended, enrolled, unheard, sent, made, faults>>
    BY <1>4, <1>0 DEF Consume, Sound
  <2>2. CASE found = {}
    <3>1. Answer(i, IF r.op = "login" THEN "challenge" ELSE "wrong") /\ UNCHANGED <<codes, redeemed>>
      BY <1>4, <2>2 DEF Consume
    <3> QED
      BY <2>1, <3>1, RequestAnswered DEF Rows, RowsOK, RequestsOK, Status
  <2>3. CASE found # {}
    <3>1. /\ codes' = (codes \ found) \cup {[c EXCEPT !.used = TRUE] : c \in found}
          /\ redeemed' = [redeemed EXCEPT ![r.code.of] = @ + 1]
          /\ Moves(i, Accepted[r.op])
      BY <1>4, <2>3 DEF Consume
    <3>2. Fits(r.op, Accepted[r.op]) /\ Accepted[r.op] \in Stage
      BY <1>0, <2>1 DEF Sound, Fits, Accepted, Stage
    <3>3. RequestsOK'
      BY <2>1, <3>1, <3>2, RequestMoves
    <3>4. \A c \in found : [c EXCEPT !.used = TRUE] \in [owner : Account, batch : Ids, used : BOOLEAN]
      BY DEF RowsOK, Redeemable
    <3>5. codes' \subseteq [owner : Account, batch : Ids, used : BOOLEAN]
      BY <3>1, <3>4 DEF RowsOK
    <3>6. redeemed' \in [Ids -> Nat]
      <4> DEFINE b == r.code.of
      <4>1. /\ redeemed' = [redeemed EXCEPT ![b] = redeemed[b] + 1]
            /\ redeemed \in [Ids -> Nat] /\ b \in Ids
        BY <2>3, <3>1 DEF RowsOK, Redeemable
      <4> HIDE DEF b
      <4> QED
        BY <4>1
    <3> QED
      BY <2>1, <3>3, <3>5, <3>6 DEF RowsOK
  <2> QED
    BY <2>2, <2>3
<1>5. CASE Mint(i)
  <2>1. r.stage = "mint" /\ requests[i] # NoRequest
    BY <1>5 DEF Mint
  <2>2. [id |-> i, owner |-> r.who, changes |-> r.changes, late |-> r.late]
          \in [id : Ids, owner : Account, changes : Nat, late : BOOLEAN]
    BY <1>0, <2>1 DEF Sound, Requests
  <2> QED
    BY <1>5, <2>1, <2>2, RequestAnswered DEF Mint, RowsOK, RequestsOK, Status
<1>6. CASE VerifyPin(i)
  <2>1. /\ requests[i] # NoRequest /\ r.stage = "verify" /\ r.op = "pin" /\ r.who \in Account
        /\ UNCHANGED <<Rows, sent, made, faults>>
    BY <1>6, <1>0 DEF VerifyPin, Sound, Fits
  <2>2. CASE Answer(i, "wrong")
    BY <2>1, <2>2, RequestAnswered DEF Rows, RowsOK, RequestsOK, Status
  <2>3. CASE \E s \in {"compare", "consume"} : Moves(i, s)
    BY <2>1, <2>3, RequestMoves DEF Rows, RowsOK, RequestsOK, Fits, Stage
  <2> QED
    BY <1>6, <2>2, <2>3 DEF VerifyPin
<1>7. CASE ComparePins(i)
  <2>1. /\ requests[i] # NoRequest /\ r.stage = "compare" /\ r.op = "pin" /\ r.who \in Account
        /\ UNCHANGED <<Rows, sent, made, faults>>
    BY <1>7, <1>0 DEF ComparePins, Sound, Fits
  <2>2. CASE Answer(i, "refused")
    BY <2>1, <2>2, RequestAnswered DEF Rows, RowsOK, RequestsOK, Status
  <2>3. CASE Moves(i, "write")
    BY <2>1, <2>3, RequestMoves DEF Rows, RowsOK, RequestsOK, Fits, Stage
  <2> QED
    BY <1>7, <2>2, <2>3 DEF ComparePins
<1>8. CASE WritePin(i)
  <2> DEFINE n == users[r.who].changes + 1
             q == [r EXCEPT !.stage = "revoke", !.changes = n]
  <2>1. /\ requests[i] # NoRequest /\ r.stage = "write" /\ r.who \in Account /\ Goes(i, q)
        /\ r.op = "pin" /\ r.new \in Pin
        /\ users' = [users EXCEPT ![r.who] = [@ EXCEPT !.pin = r.new, !.changes = n]]
        /\ UNCHANGED <<codes, tokens, redeemed, ended, enrolled, unheard, sent, made, faults>>
    BY <1>8, <1>0 DEF WritePin, Sound, Fits
  <2>2. n \in Nat
    BY <2>1 DEF RowsOK
  <2>3. Sound(q)
    BY <1>0, <2>1, <2>2 DEF Sound, Requests, Fits, Stage
  <2>4. RequestsOK'
    BY <1>0, <2>1, <2>3, RequestGoes DEF RequestsOK
  <2>5. users' \in [Account -> [pin : Pin, changes : Nat, secret : Nat]]
    BY <1>0, <2>1, <2>2 DEF RowsOK, Sound, Requests
  <2> QED
    BY <2>1, <2>4, <2>5 DEF RowsOK
<1>9. CASE RevokeOthers(i)
  <2> DEFINE n == Max({ended[r.who], r.changes})
  <2>1. /\ requests[i] # NoRequest /\ r.stage = "revoke" /\ r.who \in Account /\ r.changes \in Nat
        /\ UNCHANGED <<users, codes, redeemed, enrolled, unheard, sent, made, faults>>
        /\ ended' = [ended EXCEPT ![r.who] = n]
    BY <1>9, <1>0 DEF RevokeOthers, Sound, Requests
  <2>2. n \in Nat
    BY <2>1, LaterOfTwo DEF RowsOK
  <2>3. \A j \in Ids : requests[j] # NoRequest => Sound([requests[j] EXCEPT !.late = TRUE])
    BY Here DEF Sound, Requests
  <2>4. Answered(r, "ok") = NoRequest \/ Sound(Answered(r, "ok"))
    BY <1>0, <2>1, AnAnswer DEF Status
  <2>5. /\ requests' \in [Ids -> Requests \cup {NoRequest}]
        /\ \A j \in Ids : requests'[j] = NoRequest \/ Sound(requests'[j])
        /\ \A j \in Ids : j > sent => requests'[j] = NoRequest
    <3> DEFINE next(j) == IF j = i THEN Answered(r, "ok")
          ELSE IF requests[j] # NoRequest /\ requests[j].op = "login" /\ requests[j].who = r.who
               THEN [requests[j] EXCEPT !.late = TRUE] ELSE requests[j]
    <3>1. requests' = [j \in Ids |-> next(j)]
      BY <1>9 DEF RevokeOthers
    <3>2. \A j \in Ids : next(j) = NoRequest \/ Sound(next(j))
      BY <2>3, <2>4 DEF RequestsOK
    <3>3. \A j \in Ids : j > sent => next(j) = NoRequest
      BY <1>0, <2>1 DEF RequestsOK, Ids
    <3> HIDE DEF next
    <3> QED
      BY <3>1, <3>2, <3>3 DEF Sound
  <2>6. RequestsOK'
    BY <2>1, <2>5 DEF RequestsOK
  <2>7. tokens' \subseteq [id : Ids, owner : Account, changes : Nat, late : BOOLEAN]
    <3>1. tokens' = {IF t.id = r.by THEN [t EXCEPT !.changes = n] ELSE t :
                       t \in {t \in tokens : Survives(t, r)}}
      BY <1>9 DEF RevokeOthers
    <3>2. \A t \in tokens : [t EXCEPT !.changes = n] \in [id : Ids, owner : Account, changes : Nat, late : BOOLEAN]
      BY <2>2 DEF RowsOK
    <3> HIDE DEF n
    <3> QED
      BY <3>1, <3>2 DEF RowsOK
  <2> QED
    BY <2>1, <2>2, <2>6, <2>7 DEF RowsOK
<1>10. CASE MakeSecret(i)
  <2> DEFINE q == [r EXCEPT !.secret = made + 1]
  <2>1. /\ requests[i] # NoRequest /\ Sound(q) /\ Goes(i, Answered(q, "ok"))
        /\ UNCHANGED <<Rows, sent, faults>> /\ made' = made + 1
    BY <1>10, <1>0 DEF MakeSecret, Sound, Requests, RequestsOK
  <2>2. Answered(q, "ok") = NoRequest \/ Sound(Answered(q, "ok"))
    BY <2>1, AnAnswer DEF Status
  <2> QED
    BY <1>0, <2>1, <2>2, RequestGoes DEF Rows, RowsOK, RequestsOK
<1>11. CASE Enable(i)
  <2>1. /\ requests[i] # NoRequest /\ r.stage = "commit" /\ r.who \in Account /\ r.secret \in Nat
        /\ UNCHANGED <<sent, made, faults>>
    BY <1>11, <1>0 DEF Enable, Sound, Requests
  <2>2. CASE ~Current(r, r.secret)
    BY <1>11, <2>1, <2>2, RequestAnswered DEF Enable, Rows, RowsOK, RequestsOK, Status
  <2>3. CASE Current(r, r.secret)
    <3>1. /\ users' = [users EXCEPT ![r.who].secret = r.secret]
          /\ codes' = Replaced(r.who, i)
          /\ enrolled' = [enrolled EXCEPT ![r.who] = i]
          /\ Answer(i, "ok") /\ UNCHANGED <<tokens, redeemed, ended>>
      BY <1>11, <2>3 DEF Enable
    <3>2. RequestsOK'
      BY <2>1, <3>1, RequestAnswered DEF RequestsOK, Status
    <3>3. users' \in [Account -> [pin : Pin, changes : Nat, secret : Nat]]
      BY <2>1, <3>1 DEF RowsOK
    <3>4. codes' \subseteq [owner : Account, batch : Ids, used : BOOLEAN]
      <4>1. [owner |-> r.who, batch |-> i, used |-> FALSE]
              \in [owner : Account, batch : Ids, used : BOOLEAN]
        BY <2>1
      <4> QED
        BY <3>1, <4>1 DEF RowsOK, Replaced
    <3>5. unheard' \in BOOLEAN
      BY <1>0, <1>11, <2>1, <2>3 DEF Enable, Sound, Requests
    <3> QED
      BY <2>1, <3>1, <3>2, <3>3, <3>4, <3>5 DEF RowsOK
  <2> QED
    BY <2>2, <2>3
<1>12. CASE CheckFactor(i)
  <2>1. /\ requests[i] # NoRequest /\ r.stage = "check" /\ r.op = "disable" /\ r.who \in Account
        /\ UNCHANGED <<Rows, sent, made, faults>>
    BY <1>12, <1>0 DEF CheckFactor, Sound, Fits
  <2>2. CASE Answer(i, "wrong") \/ Answer(i, "refused")
    BY <2>1, <2>2, RequestAnswered DEF Rows, RowsOK, RequestsOK, Status
  <2>3. CASE \E s \in {"clear", "consume"} : Moves(i, s)
    BY <2>1, <2>3, RequestMoves DEF Rows, RowsOK, RequestsOK, Fits, Stage
  <2> QED
    BY <1>12, <2>2, <2>3 DEF CheckFactor
<1>13. CASE ClearSecret(i)
  <2>1. /\ requests[i] # NoRequest /\ r.stage = "clear" /\ r.op = "disable" /\ r.who \in Account
        /\ Moves(i, "wipe") /\ users' = [users EXCEPT ![r.who].secret = NoSecret]
        /\ UNCHANGED <<codes, tokens, redeemed, ended, enrolled, sent, made, faults>>
        /\ unheard' \in BOOLEAN
    BY <1>13, <1>0 DEF ClearSecret, Sound, Fits
  <2>2. users' \in [Account -> [pin : Pin, changes : Nat, secret : Nat]]
    BY <2>1 DEF RowsOK, NoSecret
  <2>3. RequestsOK'
    BY <2>1, RequestMoves DEF Fits, Stage
  <2> QED
    BY <2>1, <2>2, <2>3 DEF RowsOK
<1>14. CASE WipeCodes(i)
  <2>1. unheard' \in BOOLEAN
    BY <1>14, Zenon DEF WipeCodes
  <2> QED
    BY <1>14, <2>1, RequestAnswered DEF WipeCodes, RowsOK, RequestsOK, Status
<1>15. CASE Unset(i)
  BY <1>15, RequestAnswered DEF Unset, RowsOK, RequestsOK, Status
<1>16. CASE StatementFails(i)
  <2>1. /\ requests[i] # NoRequest /\ UNCHANGED <<Rows, sent, made>> /\ faults' = faults + 1
        /\ \E status \in Status : Answer(i, status)
    BY <1>16 DEF StatementFails, Fault, Status
  <2> QED
    BY <2>1, RequestAnswered DEF Rows, RowsOK, RequestsOK
<1>17. CASE Dropped(i)
  BY <1>0, <1>17, RequestGoes DEF Dropped, Rows, RowsOK, RequestsOK
<1> QED
  BY <1>1, <1>2, <1>3, <1>4, <1>5, <1>6, <1>7, <1>8, <1>9, <1>10, <1>11, <1>12,
     <1>13, <1>14, <1>15, <1>16, <1>17 DEF Serve
(* What the pages do keeps them too. *)

LEMMA WhatIsTyped ==
  ASSUME PagesOK
  PROVE  /\ \A code \in Typed : code \in Codes
         /\ NoCode \in Codes /\ Code("totp", panel.secret) \in Codes
BY DEF PagesOK, Typed, Codes, Code, NoCode

LEMMA RequestSent ==
  ASSUME RequestsOK, NEW r, Sound(r), Send(r), UNCHANGED <<made, faults>>
  PROVE  RequestsOK'
<1>1. sent + 1 \in Ids /\ sent' = sent + 1 /\ Goes(sent + 1, r) /\ sent' \in 0..MaxSent
  BY AccountConstants DEF Send, RequestsOK, Ids
<1> QED
  BY <1>1, RequestGoes DEF RequestsOK

LEMMA PanelTypes ==
  ASSUME TypeOK,
         \/ StartTotpSetup \/ LeavesPanel \/ ReopensPanel
         \/ \E code \in {NoCode, Code("totp", panel.secret)} : EnableTotp(code)
         \/ \E code \in Typed : DisableTotp(code)
  PROVE  TypeOK'
<1>1. CASE StartTotpSetup
  <2>1. Sound(Request("setup", "panel", cookie["desk"]))
    BY NewRequest DEF Ops, Places, TypeOK, PagesOK, Device
  <2>2. RequestsOK'
    BY <1>1, <2>1, RequestSent DEF StartTotpSetup, TypeOK
  <2> QED
    BY <1>1, <2>2 DEF StartTotpSetup, TypeOK, RowsOK, Rows, PagesOK
<1>2. CASE LeavesPanel
  BY <1>2 DEF LeavesPanel, RenderTotpPanel, serverVars, TypeOK, RequestsOK, RowsOK, PagesOK
<1>3. CASE \E code \in {NoCode, Code("totp", panel.secret)} : EnableTotp(code)
  <2> DEFINE q == Request("enable", "panel", cookie["desk"])
  <2>1. PICK code \in Codes : EnableTotp(code)
    BY <1>3, WhatIsTyped DEF TypeOK
  <2>2. Sound(q) /\ q.op = "enable" /\ panel.secret \in Nat
    BY NewRequest DEF Ops, Places, TypeOK, PagesOK, Device
  <2> HIDE DEF q
  <2>3. Sound([q EXCEPT !.secret = panel.secret, !.code = code])
    BY <2>2 DEF Sound, Requests
  <2>4. RequestsOK'
    BY <2>1, <2>3, RequestSent DEF EnableTotp, TypeOK, q
  <2> QED
    BY <2>1, <2>4 DEF EnableTotp, TypeOK, RowsOK, Rows, PagesOK, pageVars
<1>4. CASE \E code \in Typed : DisableTotp(code)
  <2> DEFINE q == Request("disable", "panel", cookie["desk"])
  <2>1. PICK code \in Codes : DisableTotp(code)
    BY <1>4, WhatIsTyped DEF TypeOK
  <2>2. Sound(q) /\ q.op = "disable"
    BY NewRequest DEF Ops, Places, TypeOK, PagesOK, Device
  <2> HIDE DEF q
  <2>3. Sound([q EXCEPT !.code = code])
    BY <2>2 DEF Sound, Requests
  <2>4. RequestsOK'
    BY <2>1, <2>3, RequestSent DEF DisableTotp, TypeOK, q
  <2> QED
    BY <2>1, <2>4 DEF DisableTotp, TypeOK, RowsOK, Rows, PagesOK, pageVars
<1>5. CASE ReopensPanel
  <2>1. /\ UNCHANGED <<Rows, sent, made, pages, cookie, seen, form, slot>>
        /\ faults' \in Nat
    BY <1>5 DEF ReopensPanel, Fault, TypeOK, RequestsOK
  <2>2. \E on \in BOOLEAN : panel' = RenderTotpPanel([panel EXCEPT !.me = on])
    BY <1>5 DEF ReopensPanel
  <2>3. panel' \in [view : {"on", "off", "starting", "confirm", "codes"}, me : BOOLEAN,
                    secret : Nat, batch : Int]
    BY <2>2 DEF RenderTotpPanel, TypeOK, PagesOK
  <2>4. \A i \in Ids : requests[i] # NoRequest => Sound([requests[i] EXCEPT !.deaf = TRUE])
    BY Here DEF TypeOK, Sound, Requests
  <2>5. /\ requests' \in [Ids -> Requests \cup {NoRequest}]
        /\ \A i \in Ids : requests'[i] = NoRequest \/ Sound(requests'[i])
        /\ \A i \in Ids : i > sent => requests'[i] = NoRequest
    <3> DEFINE next(i) == IF i \notin InFlight("panel") THEN requests[i]
                          ELSE IF At(i, "answer") THEN NoRequest
                          ELSE [requests[i] EXCEPT !.deaf = TRUE]
    <3>1. requests' = [i \in Ids |-> next(i)]
      BY <1>5 DEF ReopensPanel
    <3>2. \A i \in Ids : next(i) = NoRequest \/ Sound(next(i))
      BY <2>4 DEF TypeOK, RequestsOK, InFlight
    <3>3. \A i \in Ids : i > sent => next(i) = NoRequest
      BY DEF TypeOK, RequestsOK, InFlight
    <3> HIDE DEF next
    <3> QED
      BY <3>1, <3>2, <3>3 DEF Sound
  <2> QED
    BY <2>1, <2>3, <2>5 DEF TypeOK, RequestsOK, RowsOK, Rows, PagesOK
<1> QED
  BY <1>1, <1>2, <1>3, <1>4, <1>5

LEMMA FormTypes ==
  ASSUME TypeOK,
         \/ TogglesDropdown \/ LogOut
         \/ \E d \in Device : OpensAccount(d)
         \/ \E d \in Device, current, new \in Pin, code \in Typed : ChangePin(d, current, new, code)
         \/ \E pin \in Pin, code \in Typed : SignIn(pin, code)
  PROVE  TypeOK'
<1>1. CASE TogglesDropdown
  BY <1>1 DEF TogglesDropdown, serverVars, TypeOK, RequestsOK, RowsOK, PagesOK
<1>2. CASE LogOut
  <2>1. Sound(Request("logout", "slot", cookie["phone"]))
    BY NewRequest DEF Ops, Places, TypeOK, PagesOK, Device
  <2>2. RequestsOK'
    BY <1>2, <2>1, RequestSent DEF LogOut, TypeOK
  <2> QED
    BY <1>2, <2>2 DEF LogOut, TypeOK, RowsOK, Rows, PagesOK, pageVars
<1>3. CASE \E d \in Device : OpensAccount(d)
  BY <1>3 DEF OpensAccount, serverVars, TypeOK, RequestsOK, RowsOK, PagesOK
<1>4. CASE \E d \in Device, current, new \in Pin, code \in Typed : ChangePin(d, current, new, code)
  <2>1. PICK d \in Device, current \in Pin, new \in Pin, code \in Codes : ChangePin(d, current, new, code)
    BY <1>4, WhatIsTyped DEF TypeOK
  <2> DEFINE q == Request("pin", d, cookie[d])
  <2>2. q \in Requests /\ q.op = "pin" /\ q.stage = "auth"
    BY NewRequest DEF Ops, Places, TypeOK, PagesOK, Device, Request
  <2> HIDE DEF q
  <2>3. Sound([q EXCEPT !.pin = current, !.new = new, !.code = code])
    BY <2>2 DEF Sound, Requests, Fits
  <2>4. RequestsOK'
    BY <2>1, <2>3, RequestSent DEF ChangePin, TypeOK, q
  <2>5. form' \in [Device -> [asks : BOOLEAN, busy : BOOLEAN, open : BOOLEAN]]
    BY <2>1 DEF ChangePin, TypeOK, PagesOK
  <2> QED
    BY <2>1, <2>4, <2>5 DEF ChangePin, TypeOK, RowsOK, Rows, PagesOK
<1>5. CASE \E pin \in Pin, code \in Typed : SignIn(pin, code)
  <2>1. PICK pin \in Pin, code \in Codes : SignIn(pin, code)
    BY <1>5, WhatIsTyped DEF TypeOK
  <2> DEFINE q == Request("login", "slot", NoSession)
  <2>2. Sound(q) /\ q.op = "login"
    BY NewRequest DEF Ops, Places, NoSession
  <2> HIDE DEF q
  <2>3. Sound([q EXCEPT !.pin = pin, !.code = code])
    BY <2>2 DEF Sound, Requests
  <2>4. RequestsOK'
    BY <2>1, <2>3, RequestSent DEF SignIn, TypeOK, q
  <2> QED
    BY <2>1, <2>4 DEF SignIn, TypeOK, RowsOK, Rows, PagesOK
<1> QED
  BY <1>1, <1>2, <1>3, <1>4, <1>5

LEMMA HearingTypes ==
  ASSUME TypeOK, NEW i \in Ids, requests[i] # NoRequest, NEW status, Hears(i, status), UNCHANGED pages
  PROVE  PagesOK'
<1> DEFINE r == requests[i]
<1>1. Sound(r) /\ i \in Int
  BY Here DEF TypeOK, Ids
<1>2. CASE PanelHears(i, r, status)
  <2>1. panel' \in [view : {"on", "off", "starting", "confirm", "codes"}, me : BOOLEAN,
                    secret : Nat, batch : Int]
    BY <1>1, <1>2 DEF PanelHears, PanelAfter, RenderTotpPanel, TypeOK, PagesOK, Sound, Requests
  <2>2. seen' \in [secrets : SUBSET Nat, batches : SUBSET Nat]
    <3>1. PICK new \in SUBSET Nat, given \in SUBSET Nat :
            seen' = [seen EXCEPT !.secrets = @ \cup new, !.batches = @ \cup given]
      <4> DEFINE new == IF r.op = "setup" /\ status = "ok" THEN {r.secret} ELSE {}
                 given == IF r.op = "enable" /\ status = "ok" THEN {i} ELSE {}
      <4>1. new \in SUBSET Nat /\ given \in SUBSET Nat
        BY <1>1 DEF Sound, Requests, Ids
      <4>2. seen' = [seen EXCEPT !.secrets = @ \cup new, !.batches = @ \cup given]
        BY <1>2 DEF PanelHears, TypeOK, PagesOK
      <4> QED
        BY <4>1, <4>2
    <3> QED
      BY <3>1 DEF TypeOK, PagesOK
  <2> QED
    BY <1>2, <2>1, <2>2 DEF PanelHears, TypeOK, PagesOK
<1>3. CASE r.page \in Device /\ FormHears(r.page)
  BY <1>3 DEF FormHears, TypeOK, PagesOK
<1>4. CASE SlotHears(i, r, status)
  <2>1. slot' \in [view : {"form", "chip"}, open : BOOLEAN, totpRequired : BOOLEAN, busy : BOOLEAN]
    BY <1>4 DEF SlotHears, SlotAfter, RenderForm, TypeOK, PagesOK
  <2>2. cookie' \in [Device -> Int]
    <3>1. cookie' = cookie \/ \E by \in Int : cookie' = [cookie EXCEPT !["phone"] = by]
      BY <1>1, <1>4 DEF SlotHears, NoSession
    <3> QED
      BY <3>1 DEF TypeOK, PagesOK
  <2> QED
    BY <1>4, <2>1, <2>2 DEF SlotHears, TypeOK, PagesOK
<1> QED
  BY <1>2, <1>3, <1>4 DEF Hears

LEMMA AnswerTypes ==
  ASSUME TypeOK, NEW i \in Ids, Delivered(i) \/ Breaks(i)
  PROVE  TypeOK'
<1> DEFINE r == requests[i]
<1> USE DEF At
<1>1. requests[i] # NoRequest /\ UNCHANGED <<Rows, sent, made, pages>>
  BY DEF Delivered, Breaks
<1>2. Sound(r) /\ i <= sent
  BY <1>1, Here DEF TypeOK
<1>3. PagesOK'
  BY <1>1, HearingTypes DEF Delivered, Breaks
<1>4. CASE Delivered(i)
  <2>1. Sound(Request("me", "slot", i)) /\ MeId \in Ids /\ MeId <= sent
    BY NewRequest, AccountConstants DEF Ops, Places, Ids, MeId, TypeOK, RequestsOK
  <2>2. RequestsOK'
    BY <1>1, <1>2, <1>4, <2>1 DEF Delivered, Asks, TypeOK, RequestsOK, Sound, Ids
  <2> QED
    BY <1>1, <1>3, <2>2 DEF TypeOK, RowsOK, Rows
<1>5. CASE Breaks(i)
  <2>1. Sound([r EXCEPT !.deaf = TRUE])
    BY <1>2 DEF Sound, Requests
  <2>2. RequestsOK'
    BY <1>1, <1>2, <1>5, <2>1, RequestGoes DEF Breaks, Fault, TypeOK, RequestsOK
  <2> QED
    BY <1>1, <1>3, <2>2 DEF TypeOK, RowsOK, Rows
<1> QED
  BY <1>4, <1>5

\* The types hold at first, and every step keeps them.
LEMMA TypesAtFirst == Init => TypeOK
<1> SUFFICES ASSUME Init PROVE TypeOK
  OBVIOUS
<1>1. PICK pins \in [Account -> Pin], s \in {NoSecret, 1} :
        users = [a \in Account |-> [pin |-> pins[a], changes |-> 0,
                                   secret |-> IF a = Admin THEN s ELSE NoSecret]]
  BY DEF Init, ServerInit
<1>2. users \in [Account -> [pin : Pin, changes : Nat, secret : Nat]]
  BY <1>1 DEF NoSecret
<1>3. RowsOK
  <2>1. codes \subseteq [owner : Account, batch : Ids, used : BOOLEAN]
    <3>1. 0 \in Ids
      BY AccountConstants DEF Ids
    <3>2. \A c \in codes : \E a \in Account : c = [owner |-> a, batch |-> 0, used |-> FALSE]
      BY DEF Init, ServerInit
    <3>3. \A a \in Account : [owner |-> a, batch |-> 0, used |-> FALSE]
                               \in [owner : Account, batch : Ids, used : BOOLEAN]
      BY <3>1
    <3> QED
      BY <3>2, <3>3
  <2>2. tokens \subseteq [id : Ids, owner : Account, changes : Nat, late : BOOLEAN]
    BY AccountConstants DEF Init, ServerInit, Ids, FirstSession
  <2>3. /\ redeemed \in [Ids -> Nat] /\ ended \in [Account -> Nat] /\ enrolled \in [Account -> Ids]
    BY AccountConstants DEF Init, ServerInit, Ids
  <2>4. unheard \in BOOLEAN
    BY DEF Init, ServerInit
  <2> QED
    BY <1>2, <2>1, <2>2, <2>3, <2>4 DEF RowsOK
<1>4. RequestsOK
  BY AccountConstants DEF Init, ServerInit, RequestsOK, Ids
<1>5. PagesOK
  BY PageConstants DEF Init, PagesOK, Device, Closed, RenderForm, FirstSession, NoSession, NoSecret
<1> QED
  BY <1>3, <1>4, <1>5 DEF TypeOK

LEMMA TypesStay == TypeOK /\ [Next]_vars => TypeOK'
<1> SUFFICES ASSUME TypeOK, [Next]_vars PROVE TypeOK'
  OBVIOUS
<1>1. CASE UNCHANGED vars
  BY <1>1 DEF vars, serverVars, pageVars, TypeOK, RequestsOK, RowsOK, PagesOK
<1>2. CASE \E i \in Ids : Serves(i)
  <2>1. RequestsOK' /\ RowsOK'
    BY <1>2, ServeTypes DEF Serves, TypeOK
  <2> QED
    BY <1>2, <2>1 DEF Serves, pageVars, TypeOK, PagesOK
<1>3. CASE \E i \in Ids : Delivered(i) \/ Breaks(i)
  BY <1>3, AnswerTypes
<1> QED
  BY <1>1, <1>2, <1>3, PanelTypes, FormTypes DEF Next

\* Every variable of the accounts and their pages keeps its type; a handler
\* past its first statement knows its account.
THEOREM TypeCorrect == Spec => []TypeOK
<1> QED
  BY TypesAtFirst, TypesStay, PTL DEF Spec
(* What a step does to a request. *)

\* Request j waits where it waited.
Stays(j) ==
  /\ requests[j] # NoRequest
  /\ requests'[j].op = requests[j].op /\ requests'[j].page = requests[j].page
  /\ requests'[j].stage = requests[j].stage /\ requests'[j].by = requests[j].by
  /\ requests'[j].who = requests[j].who /\ requests'[j].changes = requests[j].changes
  /\ requests[j].late => requests'[j].late
  /\ requests[j].deaf => requests'[j].deaf

\* Request j is answered, or its handler goes on to the next statement with what
\* the last one gave it.
Advances(j) ==
  /\ requests[j] # NoRequest
  /\ requests'[j].op = requests[j].op /\ requests'[j].page = requests[j].page
  /\ requests[j].stage # "answer"
  /\ requests[j].deaf => requests'[j].deaf
  /\ requests'[j].stage # "answer" =>
       /\ requests'[j].by = requests[j].by
       /\ requests[j].stage \notin {"load", "auth"} => requests'[j].who = requests[j].who
       /\ requests'[j].late = requests[j].late
       /\ requests[j].stage \notin {"load", "write"} => requests'[j].changes = requests[j].changes
       /\ requests[j].stage = "load" => requests'[j].changes = users[requests'[j].who].changes
       /\ requests[j].stage = "auth" =>
            \E t \in tokens : t.id = requests[j].by /\ t.owner = requests'[j].who
       /\ requests[j].stage = "write" =>
            /\ requests'[j].stage = "revoke"
            /\ requests'[j].changes = users'[requests'[j].who].changes
       /\ requests'[j].stage = "revoke" => requests[j].stage = "write"
       /\ requests'[j].stage = "wipe" => users'[requests'[j].who].secret = NoSecret

\* Request j is sent in this step, by the panel only when patience allows it.
Begins(j) ==
  /\ j = sent + 1 /\ sent' = j
  /\ requests'[j].stage \in {"load", "auth", "unset"}
  /\ requests'[j].page = "panel" => Patient("panel")

AsksMe(j) ==
  requests'[j].op = "me" /\ requests'[j].page = "slot" /\ requests'[j].stage = "auth"

RequestSteps ==
  /\ sent' >= sent
  /\ \A j \in Ids : requests'[j] # NoRequest => Stays(j) \/ Advances(j) \/ Begins(j) \/ AsksMe(j)

LEMMA OneGoes ==
  ASSUME TypeOK, NEW i \in Ids, NEW r, Goes(i, r),
         UNCHANGED sent, r = NoRequest \/ (requests'[i] = r => Stays(i) \/ Advances(i))
  PROVE  RequestSteps
BY DEF RequestSteps, Stays, Goes, TypeOK, RequestsOK

LEMMA OneAnswered ==
  ASSUME TypeOK, NEW i \in Ids, requests[i] # NoRequest, requests[i].stage # "answer",
         NEW status \in Status, Answer(i, status), UNCHANGED sent
  PROVE  RequestSteps
<1> DEFINE r == Answered(requests[i], status)
<1>1. r # NoRequest => r.op = requests[i].op /\ r.page = requests[i].page /\ r.stage = "answer"
  BY Here, AnAnswer DEF TypeOK
<1>2. Goes(i, r)
  BY DEF Answer
<1>3. r # NoRequest => ~requests[i].deaf
  BY DEF Answered
<1> HIDE DEF r
<1> QED
  BY <1>1, <1>2, <1>3, OneGoes DEF Advances

LEMMA OneMoves ==
  ASSUME TypeOK, NEW i \in Ids, requests[i] # NoRequest,
         requests[i].stage \notin {"answer", "load", "auth", "write"},
         NEW s \in Stage, Moves(i, s), UNCHANGED sent, s # "revoke",
         s = "wipe" => users'[requests[i].who].secret = NoSecret
  PROVE  RequestSteps
<1> DEFINE r == requests[i]
           q == [r EXCEPT !.stage = s]
<1>1. Sound(r)
  BY Here DEF TypeOK
<1>2. /\ q.op = r.op /\ q.page = r.page /\ q.by = r.by /\ q.who = r.who
      /\ q.changes = r.changes /\ q.late = r.late /\ q.deaf = r.deaf /\ q.stage = s
  BY <1>1 DEF Sound, Requests
<1>3. Goes(i, q)
  BY DEF Moves
<1> HIDE DEF q
<1> QED
  BY <1>2, <1>3, OneGoes DEF Advances

LEMMA ServeSteps ==
  ASSUME TypeOK, NEW i \in Ids, Serve(i)
  PROVE  RequestSteps
<1> DEFINE r == requests[i]
<1> USE DEF At
<1>0. requests[i] # NoRequest => Sound(r) /\ i <= sent
  BY Here DEF TypeOK
<1>1. CASE LoadUsers(i)
  <2> DEFINE found == {a \in Account : users[a].pin = r.pin}
             known(a) == [r EXCEPT !.who = a, !.changes = users[a].changes]
  <2>1. requests[i] # NoRequest /\ r.stage = "load" /\ UNCHANGED sent
    BY <1>1 DEF LoadUsers
  <2>2. CASE \E status \in Status : Answer(i, status)
    BY <2>1, <2>2, OneAnswered
  <2>3. CASE \E a \in found, s \in {"mint", "consume"} : Goes(i, [known(a) EXCEPT !.stage = s])
    <3>1. PICK a \in found, s \in {"mint", "consume"} : Goes(i, [known(a) EXCEPT !.stage = s])
      BY <2>3
    <3> DEFINE q == [known(a) EXCEPT !.stage = s]
    <3>2. /\ q.op = r.op /\ q.page = r.page /\ q.by = r.by /\ q.who = a
          /\ q.changes = users[a].changes /\ q.late = r.late /\ q.deaf = r.deaf /\ q.stage = s
      BY <1>0, <2>1 DEF Sound, Requests
    <3> HIDE DEF q
    <3> QED
      BY <2>1, <3>1, <3>2, OneGoes DEF Advances, q
  <2> QED
    BY <1>1, <2>2, <2>3 DEF LoadUsers, Answer, Status
<1>2. CASE Authenticate(i)
  <2>1. requests[i] # NoRequest /\ r.stage = "auth" /\ UNCHANGED sent
    BY <1>2 DEF Authenticate
  <2>2. CASE \E status \in Status : Answer(i, status)
    BY <2>1, <2>2, OneAnswered
  <2>3. CASE \E t \in tokens : /\ t.id = r.by
                             /\ Goes(i, [r EXCEPT !.who = t.owner, !.stage = Authenticated[r.op]])
    <3>1. PICK t \in tokens : /\ t.id = r.by
                             /\ Goes(i, [r EXCEPT !.who = t.owner, !.stage = Authenticated[r.op]])
      BY <2>3
    <3> DEFINE q == [r EXCEPT !.who = t.owner, !.stage = Authenticated[r.op]]
    <3>2. /\ q.op = r.op /\ q.page = r.page /\ q.by = r.by /\ q.who = t.owner
          /\ q.changes = r.changes /\ q.late = r.late /\ q.deaf = r.deaf
          /\ q.stage = Authenticated[r.op]
      BY <1>0, <2>1 DEF Sound, Requests
    <3>3. Authenticated[r.op] \notin {"revoke", "wipe"}
      BY <1>0, <2>1 DEF Sound, Fits, Authenticated
    <3>4. Goes(i, q)
      BY <3>1
    <3> HIDE DEF q
    <3> QED
      BY <2>1, <3>1, <3>2, <3>3, <3>4, OneGoes DEF Advances
  <2> QED
    BY <1>2, <2>2, <2>3 DEF Authenticate, Status
<1>3. CASE Tell(i)
  BY <1>3, OneAnswered DEF Tell, Status
<1>4. CASE Consume(i)
  <2>1. requests[i] # NoRequest /\ r.stage = "consume" /\ UNCHANGED sent
    BY <1>4 DEF Consume
  <2>2. CASE \E status \in Status : Answer(i, status)
    BY <2>1, <2>2, OneAnswered
  <2>3. CASE Moves(i, Accepted[r.op])
    <3>1. Accepted[r.op] \in {"mint", "compare", "clear"}
      BY <1>0, <2>1 DEF Sound, Fits, Accepted
    <3> QED
      BY <2>1, <2>3, <3>1, OneMoves DEF Stage
  <2> QED
    BY <1>4, <2>2, <2>3 DEF Consume, Status
<1>5. CASE Mint(i)
  BY <1>5, OneAnswered DEF Mint, Status
<1>6. CASE VerifyPin(i)
  BY <1>6, OneAnswered, OneMoves DEF VerifyPin, Status, Stage
<1>7. CASE ComparePins(i)
  BY <1>7, OneAnswered, OneMoves DEF ComparePins, Status, Stage
<1>8. CASE WritePin(i)
  <2> DEFINE n == users[r.who].changes + 1
             q == [r EXCEPT !.stage = "revoke", !.changes = n]
  <2>1. /\ requests[i] # NoRequest /\ r.stage = "write" /\ UNCHANGED sent /\ Goes(i, q)
        /\ users' = [users EXCEPT ![r.who] = [@ EXCEPT !.pin = r.new, !.changes = n]]
    BY <1>8 DEF WritePin
  <2>2. /\ q.op = r.op /\ q.page = r.page /\ q.by = r.by /\ q.who = r.who
        /\ q.changes = n /\ q.late = r.late /\ q.deaf = r.deaf /\ q.stage = "revoke"
    BY <1>0, <2>1 DEF Sound, Requests
  <2>3. users'[r.who].changes = n
    BY <1>0, <2>1 DEF Sound, TypeOK, RowsOK
  <2> HIDE DEF q, n
  <2> QED
    BY <2>1, <2>2, <2>3, OneGoes DEF Advances
<1>9. CASE RevokeOthers(i)
  <2> DEFINE q == Answered(r, "ok")
             next(j) == IF j = i THEN q
          ELSE IF requests[j] # NoRequest /\ requests[j].op = "login" /\ requests[j].who = r.who
               THEN [requests[j] EXCEPT !.late = TRUE] ELSE requests[j]
  <2>1. /\ requests[i] # NoRequest /\ r.stage = "revoke" /\ UNCHANGED sent
        /\ requests' = [j \in Ids |-> next(j)]
    BY <1>9 DEF RevokeOthers
  <2>2. q # NoRequest => q.op = r.op /\ q.page = r.page /\ q.stage = "answer"
    BY <1>0, <2>1, AnAnswer DEF Status
  <2>3. requests'[i] # NoRequest => Advances(i)
    <3>1. q # NoRequest => ~r.deaf
      BY DEF Answered
    <3> QED
      BY <2>1, <2>2, <3>1 DEF Advances
  <2>4. ASSUME NEW j \in Ids, j # i, requests'[j] # NoRequest PROVE Stays(j)
    <3>1. requests'[j] = next(j)
      BY <2>1
    <3>2. CASE requests'[j] = requests[j]
      BY <2>4, <3>2 DEF Stays
    <3>3. CASE requests[j] # NoRequest /\ requests'[j] = [requests[j] EXCEPT !.late = TRUE]
      BY <2>4, <3>3, Here DEF Stays, Sound, Requests, TypeOK
    <3> QED
      BY <2>4, <3>1, <3>2, <3>3
  <2> QED
    BY <2>1, <2>3, <2>4 DEF RequestSteps, TypeOK, RequestsOK
<1>10. CASE MakeSecret(i)
  <2> DEFINE p == [r EXCEPT !.secret = made + 1]
             q == Answered(p, "ok")
  <2>1. /\ requests[i] # NoRequest /\ r.stage = "make" /\ UNCHANGED sent /\ Goes(i, q)
        /\ Sound(p) /\ p.op = r.op /\ p.page = r.page /\ p.deaf = r.deaf
    BY <1>0, <1>10 DEF MakeSecret, Sound, Requests, TypeOK, RequestsOK
  <2>2. q # NoRequest => q.op = p.op /\ q.page = p.page /\ q.stage = "answer"
    BY <2>1, AnAnswer DEF Status
  <2>3. q # NoRequest => ~p.deaf
    BY DEF Answered
  <2> HIDE DEF q, p
  <2> QED
    BY <2>1, <2>2, <2>3, OneGoes DEF Advances
<1>11. CASE Enable(i)
  BY <1>11, OneAnswered DEF Enable, Status
<1>12. CASE CheckFactor(i)
  BY <1>12, OneAnswered, OneMoves DEF CheckFactor, Status, Stage
<1>13. CASE ClearSecret(i)
  <2>1. /\ requests[i] # NoRequest /\ r.stage = "clear" /\ UNCHANGED sent /\ Moves(i, "wipe")
        /\ users' = [users EXCEPT ![r.who].secret = NoSecret]
    BY <1>13 DEF ClearSecret
  <2>2. users'[r.who].secret = NoSecret
    BY <1>0, <2>1 DEF Sound, TypeOK, RowsOK
  <2> QED
    BY <2>1, <2>2, OneMoves DEF Stage
<1>14. CASE WipeCodes(i)
  BY <1>14, OneAnswered DEF WipeCodes, Status
<1>15. CASE Unset(i)
  BY <1>15, OneAnswered DEF Unset, Status
<1>16. CASE StatementFails(i)
  <2>1. /\ requests[i] # NoRequest /\ r.stage # "answer" /\ UNCHANGED sent
        /\ \E status \in Status : Answer(i, status)
    BY <1>16 DEF StatementFails, Status
  <2> QED
    BY <2>1, OneAnswered
<1>17. CASE Dropped(i)
  BY <1>17, OneGoes DEF Dropped
<1> QED
  BY <1>1, <1>2, <1>3, <1>4, <1>5, <1>6, <1>7, <1>8, <1>9, <1>10, <1>11, <1>12,
     <1>13, <1>14, <1>15, <1>16, <1>17 DEF Serve
LEMMA OneBegins ==
  ASSUME TypeOK, NEW r, Sound(r), Send(r), r.stage \in {"load", "auth", "unset"},
         r.page = "panel" => Patient("panel")
  PROVE  RequestSteps
<1>1. sent + 1 \in Ids /\ sent' = sent + 1 /\ requests' = [requests EXCEPT ![sent + 1] = r]
  BY AccountConstants DEF Send, Goes, TypeOK, RequestsOK, Ids
<1>2. requests'[sent + 1] = r
  BY <1>1 DEF TypeOK, RequestsOK
<1>3. Begins(sent + 1)
  BY <1>1, <1>2 DEF Begins
<1>4. \A j \in Ids : j # sent + 1 => requests'[j] = requests[j]
  BY <1>1 DEF TypeOK, RequestsOK
<1>5. sent' >= sent
  BY <1>1 DEF TypeOK, RequestsOK
<1> QED
  BY <1>3, <1>4, <1>5 DEF RequestSteps, Stays

\* Nobody hears the panel's requests once it is opened again; otherwise they are
\* what they were.
LEMMA PanelIsLeft ==
  ASSUME TypeOK, ReopensPanel, NEW j \in Ids, requests'[j] # NoRequest
  PROVE  /\ requests[j] # NoRequest
         /\ requests'[j].op = requests[j].op /\ requests'[j].page = requests[j].page
         /\ requests'[j].stage = requests[j].stage /\ requests'[j].by = requests[j].by
         /\ requests'[j].who = requests[j].who /\ requests'[j].changes = requests[j].changes
         /\ requests'[j].late = requests[j].late /\ requests'[j].secret = requests[j].secret
         /\ requests'[j].status = requests[j].status
         /\ requests[j].deaf => requests'[j].deaf
         /\ requests[j].page = "panel" => requests'[j].deaf /\ requests[j].stage # "answer"
<1>1. requests'[j] = IF j \notin InFlight("panel") THEN requests[j]
                     ELSE IF At(j, "answer") THEN NoRequest
                     ELSE [requests[j] EXCEPT !.deaf = TRUE]
  BY DEF ReopensPanel
<1>2. CASE j \notin InFlight("panel")
  BY <1>1, <1>2 DEF InFlight
<1>3. CASE j \in InFlight("panel")
  <2>1. /\ requests[j] # NoRequest /\ ~At(j, "answer")
        /\ requests'[j] = [requests[j] EXCEPT !.deaf = TRUE]
    BY <1>1, <1>3 DEF InFlight
  <2>2. requests[j] \in Requests
    BY <2>1, Here DEF TypeOK, Sound
  <2> QED
    BY <2>1, <2>2 DEF Requests, At
<1> QED
  BY <1>2, <1>3

LEMMA PageSteps ==
  ASSUME TypeOK,
         \/ StartTotpSetup \/ LeavesPanel \/ ReopensPanel \/ TogglesDropdown \/ LogOut
         \/ \E code \in {NoCode, Code("totp", panel.secret)} : EnableTotp(code)
         \/ \E code \in Typed : DisableTotp(code)
         \/ \E d \in Device : OpensAccount(d)
         \/ \E d \in Device, current, new \in Pin, code \in Typed : ChangePin(d, current, new, code)
         \/ \E pin \in Pin, code \in Typed : SignIn(pin, code)
  PROVE  RequestSteps /\ UNCHANGED Rows
<1>1. CASE StartTotpSetup
  <2> DEFINE q == Request("setup", "panel", cookie["desk"])
  <2>1. Sound(q) /\ q.stage \in {"load", "auth", "unset"}
    BY NewRequest DEF Ops, Places, TypeOK, PagesOK, Device
  <2> QED
    BY <1>1, <2>1, OneBegins DEF StartTotpSetup
<1>2. CASE \E code \in {NoCode, Code("totp", panel.secret)} : EnableTotp(code)
  <2> DEFINE q == Request("enable", "panel", cookie["desk"])
  <2>1. PICK code \in Codes : EnableTotp(code)
    BY <1>2, WhatIsTyped DEF TypeOK
  <2>2. Sound(q) /\ q.op = "enable" /\ q.stage \in {"load", "auth", "unset"} /\ panel.secret \in Nat
    BY NewRequest DEF Ops, Places, TypeOK, PagesOK, Device
  <2> DEFINE r == [q EXCEPT !.secret = panel.secret, !.code = code]
  <2>3. Send(r) /\ Patient("panel") /\ UNCHANGED Rows
    BY <2>1 DEF EnableTotp
  <2> HIDE DEF q
  <2>4. Sound(r) /\ r.stage \in {"load", "auth", "unset"}
    BY <2>2 DEF Sound, Requests
  <2> HIDE DEF r
  <2> QED
    BY <2>3, <2>4, OneBegins
<1>3. CASE \E code \in Typed : DisableTotp(code)
  <2> DEFINE q == Request("disable", "panel", cookie["desk"])
  <2>1. PICK code \in Codes : DisableTotp(code)
    BY <1>3, WhatIsTyped DEF TypeOK
  <2>2. Sound(q) /\ q.op = "disable" /\ q.stage \in {"load", "auth", "unset"}
    BY NewRequest DEF Ops, Places, TypeOK, PagesOK, Device
  <2> DEFINE r == [q EXCEPT !.code = code]
  <2>3. Send(r) /\ Patient("panel") /\ UNCHANGED Rows
    BY <2>1 DEF DisableTotp
  <2> HIDE DEF q
  <2>4. Sound(r) /\ r.stage \in {"load", "auth", "unset"}
    BY <2>2 DEF Sound, Requests
  <2> HIDE DEF r
  <2> QED
    BY <2>3, <2>4, OneBegins
<1>4. CASE LogOut
  <2> DEFINE q == Request("logout", "slot", cookie["phone"])
  <2>1. Sound(q) /\ q.stage \in {"load", "auth", "unset"} /\ q.page = "slot"
    BY NewRequest DEF Ops, Places, TypeOK, PagesOK, Device
  <2> QED
    BY <1>4, <2>1, OneBegins DEF LogOut
<1>5. CASE \E d \in Device, current, new \in Pin, code \in Typed : ChangePin(d, current, new, code)
  <2>1. PICK d \in Device, current \in Pin, new \in Pin, code \in Codes : ChangePin(d, current, new, code)
    BY <1>5, WhatIsTyped DEF TypeOK
  <2> DEFINE q == Request("pin", d, cookie[d])
  <2>2. q \in Requests /\ q.op = "pin" /\ q.stage = "auth" /\ q.page # "panel"
    BY NewRequest DEF Ops, Places, TypeOK, PagesOK, Device, Request
  <2> DEFINE r == [q EXCEPT !.pin = current, !.new = new, !.code = code]
  <2>3. Send(r) /\ UNCHANGED Rows
    BY <2>1 DEF ChangePin
  <2> HIDE DEF q
  <2>4. Sound(r) /\ r.stage \in {"load", "auth", "unset"} /\ r.page # "panel"
    BY <2>2 DEF Sound, Requests, Fits
  <2> HIDE DEF r
  <2> QED
    BY <2>3, <2>4, OneBegins
<1>6. CASE \E pin \in Pin, code \in Typed : SignIn(pin, code)
  <2>1. PICK pin \in Pin, code \in Codes : SignIn(pin, code)
    BY <1>6, WhatIsTyped DEF TypeOK
  <2> DEFINE q == Request("login", "slot", NoSession)
  <2>2. Sound(q) /\ q.op = "login" /\ q.stage \in {"load", "auth", "unset"} /\ q.page = "slot"
    BY NewRequest DEF Ops, Places, NoSession
  <2> DEFINE r == [q EXCEPT !.pin = pin, !.code = code]
  <2>3. Send(r) /\ UNCHANGED Rows
    BY <2>1 DEF SignIn
  <2> HIDE DEF q
  <2>4. Sound(r) /\ r.stage \in {"load", "auth", "unset"} /\ r.page = "slot"
    BY <2>2 DEF Sound, Requests
  <2> HIDE DEF r
  <2> QED
    BY <2>3, <2>4, OneBegins
<1>7. CASE LeavesPanel \/ TogglesDropdown \/ \E d \in Device : OpensAccount(d)
  <2>1. UNCHANGED serverVars
    BY <1>7 DEF LeavesPanel, TogglesDropdown, OpensAccount
  <2> QED
    BY <2>1 DEF serverVars, Rows, RequestSteps, Stays, TypeOK, RequestsOK
<1>8. CASE ReopensPanel
  <2>1. UNCHANGED <<Rows, sent>>
    BY <1>8 DEF ReopensPanel
  <2>2. ASSUME NEW j \in Ids, requests'[j] # NoRequest PROVE Stays(j)
    BY <1>8, <2>2, PanelIsLeft DEF Stays
  <2> QED
    BY <2>1, <2>2 DEF RequestSteps, TypeOK, RequestsOK
<1> QED
  BY <1>1, <1>2, <1>3, <1>4, <1>5, <1>6, <1>7, <1>8

LEMMA AnswerSteps ==
  ASSUME TypeOK, NEW i \in Ids, Delivered(i) \/ Breaks(i)
  PROVE  RequestSteps /\ UNCHANGED Rows
<1> DEFINE r == requests[i]
<1> USE DEF At
<1>1. requests[i] # NoRequest /\ UNCHANGED <<Rows, sent>> /\ Sound(r)
  BY Here DEF Delivered, Breaks, TypeOK
<1>2. CASE Delivered(i)
  <2> DEFINE me == Request("me", "slot", i)
  <2>1. me.op = "me" /\ me.page = "slot" /\ me.stage = "auth"
    BY DEF Request
  <2>2. ASSUME NEW j \in Ids, requests'[j] # NoRequest PROVE Stays(j) \/ AsksMe(j)
    <3>1. requests'[j] = requests[j] \/ requests'[j] = me
      BY <1>2, <2>2 DEF Delivered, Asks, TypeOK, RequestsOK
    <3> HIDE DEF me
    <3> QED
      BY <2>1, <2>2, <3>1 DEF Stays, AsksMe
  <2> QED
    BY <1>1, <2>2 DEF RequestSteps, TypeOK, RequestsOK
<1>3. CASE Breaks(i)
  <2> DEFINE q == [r EXCEPT !.deaf = TRUE]
  <2>1. /\ q.op = r.op /\ q.page = r.page /\ q.by = r.by /\ q.who = r.who
        /\ q.changes = r.changes /\ q.late = r.late /\ q.stage = r.stage /\ q.deaf
    BY <1>1 DEF Sound, Requests
  <2>2. Goes(i, NoRequest) \/ Goes(i, q)
    BY <1>3 DEF Breaks
  <2> HIDE DEF q
  <2> QED
    BY <1>1, <2>1, <2>2, OneGoes DEF Stays
<1> QED
  BY <1>1, <1>2, <1>3

\* The rows change by eight of the handlers' statements only.
RowsChange ==
  \/ UNCHANGED Rows
  \/ \E i \in Ids : \/ Consume(i) \/ Mint(i) \/ WritePin(i) \/ RevokeOthers(i)
                   \/ Enable(i) \/ ClearSecret(i) \/ WipeCodes(i) \/ Unset(i)

LEMMA Steps ==
  ASSUME TypeOK, [Next]_vars
  PROVE  RequestSteps /\ RowsChange
<1>1. CASE UNCHANGED vars
  BY <1>1 DEF vars, serverVars, Rows, RowsChange, RequestSteps, Stays, TypeOK, RequestsOK
<1>2. CASE \E i \in Ids : Serves(i)
  <2>1. PICK i \in Ids : Serve(i)
    BY <1>2 DEF Serves
  <2>2. RowsChange
    BY <2>1 DEF Serve, RowsChange, LoadUsers, Authenticate, Tell, VerifyPin, ComparePins,
      MakeSecret, CheckFactor, StatementFails, Dropped
  <2> QED
    BY <2>1, <2>2, ServeSteps
<1>3. CASE \E i \in Ids : Delivered(i) \/ Breaks(i)
  BY <1>3, AnswerSteps DEF RowsChange
<1> QED
  BY <1>1, <1>2, <1>3, PageSteps DEF Next, RowsChange
(* Recovery codes work once. *)

\* No batch of codes has the number of request i.
Fresh(i) == redeemed[i] = 0 /\ \A c \in codes : c.batch # i

Enabling(i) ==
  requests[i] # NoRequest /\ requests[i].op = "enable" /\ requests[i].stage # "answer"

\* Codes that are not used have let nobody in, the codes of a batch belong to
\* one account, and a request that is going to give out codes has a number no
\* batch has.
CodesInv ==
  /\ CodesWorkOnce
  /\ \A c \in codes : ~c.used => redeemed[c.batch] = 0
  /\ \A c, d \in codes : c.batch = d.batch => c.owner = d.owner
  /\ \A i \in Ids : i > sent \/ Enabling(i) => Fresh(i)

\* Enabling requests were enabling before, or have just been sent.
LEMMA EnablingBefore ==
  ASSUME TypeOK, TypeOK', RequestSteps, NEW j \in Ids, j > sent' \/ Enabling(j)'
  PROVE  j > sent \/ Enabling(j)
<1>1. sent \in Int /\ sent' \in Int /\ j \in Int /\ sent' >= sent
  BY AccountConstants DEF RequestSteps, TypeOK, RequestsOK, Ids
<1>2. CASE j > sent'
  BY <1>1, <1>2
<1>3. CASE Enabling(j)'
  <2>1. /\ requests'[j] # NoRequest /\ requests'[j].op = "enable"
        /\ requests'[j].stage # "answer"
    BY <1>3 DEF Enabling
  <2>2. CASE Stays(j)
    BY <2>1, <2>2 DEF Stays, Enabling
  <2>3. CASE Advances(j)
    BY <2>1, <2>3 DEF Advances, Enabling
  <2>4. CASE Begins(j)
    BY <1>1, <2>4 DEF Begins
  <2> QED
    BY <2>1, <2>2, <2>3, <2>4 DEF RequestSteps, AsksMe
<1> QED
  BY <1>2, <1>3

LEMMA CodesStay ==
  ASSUME TypeOK, CodesInv, [Next]_vars
  PROVE  CodesInv'
<1>1. RequestSteps /\ RowsChange
  BY Steps
<1>2. \A j \in Ids : j > sent' \/ Enabling(j)' => (j > sent \/ Enabling(j)) /\ Fresh(j)
  BY <1>1, TypesStay, EnablingBefore DEF CodesInv
<1>3. CASE UNCHANGED <<codes, redeemed>>
  BY <1>2, <1>3 DEF CodesInv, CodesWorkOnce, Fresh
<1>4. ASSUME NEW i \in Ids, Consume(i) PROVE CodesInv'
  <2> DEFINE r == requests[i]
             b == r.code.of
             found == Redeemable(r.who, b)
  <2>1. CASE found = {}
    BY <1>3, <1>4, <2>1 DEF Consume
  <2>2. CASE found # {}
    <3>1. /\ codes' = (codes \ found) \cup {[c EXCEPT !.used = TRUE] : c \in found}
          /\ redeemed' = [redeemed EXCEPT ![b] = @ + 1]
      BY <1>4, <2>2 DEF Consume
    <3>2. PICK e \in codes : e.owner = r.who /\ e.batch = b /\ ~e.used
      BY <2>2 DEF Redeemable
    <3>3. b \in Ids /\ redeemed[b] = 0
      BY <3>2 DEF CodesInv, TypeOK, RowsOK
    <3>4. \A k \in Ids : redeemed'[k] = IF k = b THEN 1 ELSE redeemed[k]
      BY <3>1, <3>3 DEF TypeOK, RowsOK
    <3>5. ASSUME NEW c \in codes'
          PROVE  /\ \E d \in codes : c.owner = d.owner /\ c.batch = d.batch
                 /\ ~c.used => c.batch # b /\ c \in codes
      <4>1. CASE c \in codes \ found
        <5>1. c.batch = b => c.owner = r.who
          BY <4>1, <3>2 DEF CodesInv
        <5> QED
          BY <4>1, <5>1 DEF Redeemable
      <4>2. CASE \E d \in found : c = [d EXCEPT !.used = TRUE]
        <5>1. PICK d \in codes : c = [d EXCEPT !.used = TRUE]
          BY <4>2 DEF Redeemable
        <5>2. c.owner = d.owner /\ c.batch = d.batch /\ c.used
          BY <5>1 DEF TypeOK, RowsOK
        <5> QED
          BY <5>2
      <4> QED
        BY <3>1, <3>5, <4>1, <4>2
    <3>6. CodesWorkOnce'
      BY <3>4 DEF CodesInv, CodesWorkOnce, Ids
    <3>7. \A c \in codes' : ~c.used => redeemed'[c.batch] = 0
      BY <3>4, <3>5 DEF CodesInv, TypeOK, RowsOK
    <3>8. \A c, d \in codes' : c.batch = d.batch => c.owner = d.owner
      <4> SUFFICES ASSUME NEW c \in codes', NEW d \in codes', c.batch = d.batch PROVE c.owner = d.owner
        OBVIOUS
      <4>1. PICK c0 \in codes : c.owner = c0.owner /\ c.batch = c0.batch
        BY <3>5
      <4>2. PICK d0 \in codes : d.owner = d0.owner /\ d.batch = d0.batch
        BY <3>5
      <4> QED
        BY <4>1, <4>2 DEF CodesInv
    <3>9. ASSUME NEW j \in Ids, j > sent' \/ Enabling(j)' PROVE Fresh(j)'
      <4>1. redeemed[j] = 0 /\ \A c \in codes : c.batch # j
        BY <1>2, <3>9 DEF Fresh
      <4>2. j # b
        BY <3>2, <4>1
      <4>3. \A c \in codes' : c.batch # j
        BY <3>5, <4>1
      <4> QED
        BY <3>4, <4>1, <4>2, <4>3 DEF Fresh
    <3> QED
      BY <3>6, <3>7, <3>8, <3>9 DEF CodesInv
  <2> QED
    BY <2>1, <2>2
<1>5. ASSUME NEW i \in Ids, Enable(i) PROVE CodesInv'
  <2> DEFINE r == requests[i]
             new == [owner |-> r.who, batch |-> i, used |-> FALSE]
  <2>1. requests[i] # NoRequest /\ r.stage = "commit"
    BY <1>5 DEF Enable, At
  <2>2. r.op = "enable"
    BY <2>1, Here DEF TypeOK, Sound, Fits
  <2>3. CASE UNCHANGED Rows
    BY <1>3, <2>3 DEF Rows
  <2>4. CASE codes' = Replaced(r.who, i) /\ Answer(i, "ok") /\ UNCHANGED redeemed
    <3>1. Fresh(i)
      BY <2>1, <2>2 DEF CodesInv, Enabling
    <3>2. ~(i > sent') /\ ~Enabling(i)'
      <4>1. ~(i > sent')
        BY <1>5, <2>1 DEF Enable, TypeOK, RequestsOK
      <4>2. requests'[i] = Answered(r, "ok")
        BY <2>4 DEF Answer, Goes, TypeOK, RequestsOK
      <4>3. Answered(r, "ok") # NoRequest => Answered(r, "ok").stage = "answer"
        BY <2>1, AnAnswer, Here DEF TypeOK, Status
      <4> QED
        BY <4>1, <4>2, <4>3 DEF Enabling
    <3>3. \A c \in codes' : c = new \/ c \in codes
      BY <2>4 DEF Replaced
    <3>4. new.owner = r.who /\ new.batch = i
      OBVIOUS
    <3> HIDE DEF new
    <3>5. \A c \in codes' : ~c.used => redeemed'[c.batch] = 0
      BY <2>4, <3>1, <3>3, <3>4 DEF CodesInv, Fresh
    <3>6. \A c, d \in codes' : c.batch = d.batch => c.owner = d.owner
      BY <3>1, <3>3, <3>4 DEF CodesInv, Fresh
    <3>7. ASSUME NEW j \in Ids, j > sent' \/ Enabling(j)' PROVE Fresh(j)'
      BY <1>2, <2>4, <3>2, <3>3, <3>4, <3>7 DEF Fresh
    <3> QED
      BY <2>4, <3>5, <3>6, <3>7 DEF CodesInv, CodesWorkOnce
  <2> QED
    BY <1>5, <2>3, <2>4 DEF Enable
<1>6. ASSUME NEW i \in Ids, WipeCodes(i) PROVE CodesInv'
  <2>1. codes' \subseteq codes /\ UNCHANGED redeemed
    BY <1>6 DEF WipeCodes
  <2> QED
    BY <1>2, <2>1 DEF CodesInv, CodesWorkOnce, Fresh
<1> QED
  BY <1>1, <1>3, <1>4, <1>5, <1>6
    DEF RowsChange, Rows, Mint, WritePin, RevokeOthers, ClearSecret, Unset

LEMMA CodesAtFirst == Init => CodesInv
<1> SUFFICES ASSUME Init PROVE CodesInv
  OBVIOUS
<1>1. 0 \in Ids /\ \A b \in Ids : redeemed[b] = 0
  BY AccountConstants DEF Init, ServerInit, Ids
<1>2. PICK pins \in [Account -> Pin], s \in {NoSecret, 1} :
        users = [a \in Account |-> [pin |-> pins[a], changes |-> 0,
                                   secret |-> IF a = Admin THEN s ELSE NoSecret]]
  BY DEF Init, ServerInit
<1>3. \A c \in codes : c = [owner |-> Admin, batch |-> 0, used |-> FALSE]
  BY <1>2 DEF Init, ServerInit, NoSecret
<1>4. \A c \in codes : c.owner = Admin /\ c.batch = 0
  BY <1>3
<1>5. \A i \in Ids : i > sent => i # 0
  BY AccountConstants DEF Init, ServerInit, Ids
<1>6. \A i \in Ids : ~Enabling(i)
  BY DEF Init, ServerInit, Enabling
<1> QED
  BY <1>1, <1>4, <1>5, <1>6 DEF CodesInv, CodesWorkOnce, Fresh, Ids

\* A recovery code lets somebody in once, whatever requests present it at the
\* same moment (consume_recovery_code), and whatever batches come after it.
THEOREM CodesWorkOneTime == Spec => []CodesWorkOnce
<1>1. Init => TypeOK /\ CodesInv
  BY TypesAtFirst, CodesAtFirst
<1>2. TypeOK /\ CodesInv /\ [Next]_vars => (TypeOK /\ CodesInv)'
  BY TypesStay, CodesStay
<1>3. TypeOK /\ CodesInv => CodesWorkOnce
  BY DEF CodesInv
<1> QED
  BY <1>1, <1>2, <1>3, PTL DEF Spec

(* A second factor has the codes that came with it. *)

\* Only the administrator has a factor, the panel awaits one answer at most, and
\* a factor is off when a request that is awaited is about to wipe its codes.
FactorInv ==
  /\ \A a \in Account \ {Admin} : users[a].secret = NoSecret
  /\ \A a \in Account : users[a].secret # NoSecret =>
       /\ unheard \/ \E c \in codes : c.owner = a /\ c.batch = enrolled[a]
       /\ \A c \in codes : c.owner = a => c.batch = enrolled[a]
  /\ \A i, j \in Awaited("panel") : i = j
  /\ unheard \/ \A i \in Ids : At(i, "wipe") /\ ~requests[i].deaf =>
                                 users[requests[i].who].secret = NoSecret

LEMMA FactorMeans == FactorInv => FactorHasItsCodes
BY DEF FactorInv, FactorHasItsCodes

LEMMA OneOfThePanel ==
  ASSUME ~Impatient, TypeOK, RequestSteps, \A i, j \in Awaited("panel") : i = j,
         NEW i \in Awaited("panel")', NEW j \in Awaited("panel")'
  PROVE  i = j
<1> DEFINE Was(k) == k \in Awaited("panel")
           New(k) == k = sent + 1 /\ Awaited("panel") = {}
<1>1. ASSUME NEW k \in Awaited("panel")' PROVE Was(k) \/ New(k)
  <2>1. /\ k \in Ids /\ requests'[k] # NoRequest /\ requests'[k].page = "panel"
        /\ ~requests'[k].deaf
    BY <1>1 DEF Awaited, InFlight
  <2>2. CASE Stays(k) \/ Advances(k)
    BY <2>1, <2>2 DEF Stays, Advances, Awaited, InFlight
  <2>3. CASE Begins(k)
    BY <2>1, <2>3 DEF Begins, Patient
  <2> QED
    BY <2>1, <2>2, <2>3 DEF RequestSteps, AsksMe
<1> QED
  BY <1>1

LEMMA FactorStays ==
  ASSUME ~Impatient, TypeOK, FactorInv, [Next]_vars,
         \A i \in Ids : At(i, "commit") => requests[i].who = Admin
  PROVE  FactorInv'
<1> DEFINE Has(a) == users[a].secret # NoSecret =>
             /\ unheard \/ \E c \in codes : c.owner = a /\ c.batch = enrolled[a]
             /\ \A c \in codes : c.owner = a => c.batch = enrolled[a]
<1>1. RequestSteps /\ RowsChange /\ TypeOK'
  BY Steps, TypesStay
<1>2. \A i, j \in Awaited("panel")' : i = j
  BY <1>1, OneOfThePanel DEF FactorInv
<1>3. ASSUME NEW i \in Ids, At(i, "wipe")', ~requests'[i].deaf
      PROVE  \/ /\ At(i, "wipe") /\ ~requests[i].deaf
                /\ requests'[i].who = requests[i].who
             \/ users'[requests'[i].who].secret = NoSecret
  <2>1. requests'[i] # NoRequest /\ requests'[i].stage = "wipe"
    BY <1>3 DEF At
  <2>2. CASE Stays(i)
    BY <1>3, <2>1, <2>2 DEF Stays, At
  <2>3. CASE Advances(i)
    BY <2>1, <2>3 DEF Advances
  <2> QED
    BY <1>1, <2>1, <2>2, <2>3 DEF RequestSteps, Begins, AsksMe
<1>4. ASSUME \A a \in Account : users'[a].secret \in {users[a].secret, NoSecret},
             \A a \in Account : Has(a)', ~unheard' => ~unheard
      PROVE  FactorInv'
  <2>1. ASSUME NEW i \in Ids, At(i, "wipe")', ~requests'[i].deaf, ~unheard'
        PROVE  users'[requests'[i].who].secret = NoSecret
    <3>1. CASE /\ At(i, "wipe") /\ ~requests[i].deaf
               /\ requests'[i].who = requests[i].who
      <4>1. requests[i].who \in Account
        BY <3>1, Here DEF At, TypeOK, Sound
      <4> QED
        BY <1>4, <2>1, <3>1, <4>1 DEF FactorInv
    <3> QED
      BY <1>3, <2>1, <3>1
  <2> QED
    BY <1>2, <1>4, <2>1 DEF FactorInv
<1>5. CASE UNCHANGED <<users, codes, enrolled, unheard>>
  BY <1>4, <1>5 DEF FactorInv
<1>6. ASSUME NEW i \in Ids, Consume(i) PROVE FactorInv'
  <2> DEFINE found == Redeemable(requests[i].who, requests[i].code.of)
  <2>1. CASE UNCHANGED codes
    BY <1>5, <1>6, <2>1 DEF Consume
  <2>2. CASE codes' = (codes \ found) \cup {[c EXCEPT !.used = TRUE] : c \in found}
    <3>1. found \subseteq codes
      BY DEF Redeemable
    <3>2. ASSUME NEW c \in found
          PROVE  /\ [c EXCEPT !.used = TRUE].owner = c.owner
                 /\ [c EXCEPT !.used = TRUE].batch = c.batch
      BY <3>1 DEF TypeOK, RowsOK
    <3> HIDE DEF found
    <3>3. ASSUME NEW c \in codes'
          PROVE  \E d \in codes : c.owner = d.owner /\ c.batch = d.batch
      <4>1. CASE c \in codes
        BY <4>1
      <4>2. CASE c \notin codes
        <5>1. PICK d \in found : c = [d EXCEPT !.used = TRUE]
          BY <2>2, <3>3, <4>2
        <5>2. c.owner = d.owner /\ c.batch = d.batch
          BY <3>2, <5>1
        <5> QED
          BY <3>1, <5>2
      <4> QED
        BY <4>1, <4>2
    <3>4. \A d \in codes : \E c \in codes' : c.owner = d.owner /\ c.batch = d.batch
      BY <2>2, <3>1, <3>2
    <3>5. UNCHANGED <<users, enrolled, unheard>>
      BY <1>6 DEF Consume
    <3>6. \A a \in Account : Has(a)'
      BY <3>3, <3>4, <3>5 DEF FactorInv
    <3> QED
      BY <1>4, <3>5, <3>6
  <2> QED
    BY <1>6, <2>1, <2>2 DEF Consume
<1>7. ASSUME NEW i \in Ids, WritePin(i) PROVE FactorInv'
  <2>1. /\ UNCHANGED <<codes, enrolled, unheard>>
        /\ \A a \in Account : users'[a].secret = users[a].secret
    BY <1>7 DEF WritePin, TypeOK, RowsOK
  <2>2. \A a \in Account : Has(a)'
    BY <2>1 DEF FactorInv
  <2> QED
    BY <1>4, <2>1, <2>2
<1>8. ASSUME NEW i \in Ids, Enable(i) PROVE FactorInv'
  <2> DEFINE r == requests[i]
             new == [owner |-> r.who, batch |-> i, used |-> FALSE]
  <2>1. requests[i] # NoRequest /\ r.stage = "commit"
    BY <1>8 DEF Enable, At
  <2>2. r.op = "enable" /\ r.page = "panel" /\ r.who \in Account /\ r.who = Admin
    BY <2>1, Here DEF TypeOK, Sound, Fits, At
  <2>3. CASE UNCHANGED Rows
    BY <1>5, <2>3 DEF Rows
  <2>4. CASE /\ users' = [users EXCEPT ![r.who].secret = r.secret]
             /\ codes' = Replaced(r.who, i)
             /\ enrolled' = [enrolled EXCEPT ![r.who] = i]
             /\ unheard' = r.deaf
    <3>1. new.owner = r.who /\ new.batch = i /\ new \in codes'
      BY <2>4 DEF Replaced
    <3>2. \A c \in codes' : c = new \/ (c \in codes /\ c.owner # r.who)
      BY <2>4 DEF Replaced
    <3>3. \A c \in codes : c.owner # r.who => c \in codes'
      BY <2>4 DEF Replaced
    <3> HIDE DEF new
    <3>4. enrolled'[r.who] = i /\ \A a \in Account \ {r.who} :
            users'[a] = users[a] /\ enrolled'[a] = enrolled[a]
      BY <2>2, <2>4 DEF TypeOK, RowsOK
    <3>5. ASSUME NEW a \in Account PROVE Has(a)'
      <4>1. CASE a = r.who
        BY <3>1, <3>2, <3>4, <4>1
      <4>2. CASE a # r.who
        BY <2>2, <3>4, <4>2 DEF FactorInv
      <4> QED
        BY <4>1, <4>2
    <3>6. ASSUME NEW j \in Ids, At(j, "wipe")', ~requests'[j].deaf, ~unheard'
          PROVE  users'[requests'[j].who].secret = NoSecret
      <4>1. ASSUME At(j, "wipe"), ~requests[j].deaf PROVE FALSE
        <5>1. requests[j].op = "disable" /\ requests[j].page = "panel"
          BY <4>1, Here DEF At, TypeOK, Sound, Fits
        <5>2. i \in Awaited("panel") /\ j \in Awaited("panel")
          BY <2>1, <2>2, <2>4, <3>6, <4>1, <5>1 DEF Awaited, InFlight, At
        <5> QED
          BY <2>1, <4>1, <5>2 DEF At, FactorInv
      <4> QED
        BY <1>3, <3>6, <4>1
    <3>7. \A a \in Account \ {Admin} : users'[a].secret = NoSecret
      BY <2>2, <3>4 DEF FactorInv
    <3> QED
      BY <1>2, <3>5, <3>6, <3>7 DEF FactorInv
  <2> QED
    BY <1>8, <2>3, <2>4 DEF Enable
<1>9. ASSUME NEW i \in Ids, ClearSecret(i) PROVE FactorInv'
  <2>1. UNCHANGED <<codes, enrolled>>
    BY <1>9 DEF ClearSecret
  <2>2. \A a \in Account : users'[a].secret \in {users[a].secret, NoSecret}
    BY <1>9 DEF ClearSecret, TypeOK, RowsOK
  <2>3. ~unheard' => ~unheard
    BY <1>9 DEF ClearSecret
  <2>4. \A a \in Account : Has(a)'
    BY <2>1, <2>2, <2>3 DEF FactorInv
  <2> QED
    BY <1>4, <2>2, <2>3, <2>4
<1>10. ASSUME NEW i \in Ids, WipeCodes(i) PROVE FactorInv'
  <2>1. /\ UNCHANGED <<users, enrolled>>
        /\ codes' = {c \in codes : c.owner # requests[i].who}
    BY <1>10 DEF WipeCodes
  <2>2. ~unheard' => ~unheard /\ users[requests[i].who].secret = NoSecret
    BY <1>10 DEF WipeCodes, FactorInv
  <2>3. \A a \in Account : Has(a)'
    BY <2>1, <2>2 DEF FactorInv
  <2> QED
    BY <1>4, <2>1, <2>2, <2>3
<1> QED
  BY <1>1, <1>5, <1>6, <1>7, <1>8, <1>9, <1>10
    DEF RowsChange, Rows, Mint, RevokeOthers, Unset

LEMMA FactorAtFirst == Init => FactorInv
<1> SUFFICES ASSUME Init PROVE FactorInv
  OBVIOUS
<1>1. PICK pins \in [Account -> Pin], s \in {NoSecret, 1} :
        users = [a \in Account |-> [pin |-> pins[a], changes |-> 0,
                                   secret |-> IF a = Admin THEN s ELSE NoSecret]]
  BY DEF Init, ServerInit
<1>2. /\ codes = {[owner |-> a, batch |-> 0, used |-> FALSE] :
                    a \in {a \in Account : users[a].secret # NoSecret}}
      /\ \A a \in Account : enrolled[a] = 0
      /\ \A i \in Ids : requests[i] = NoRequest
  BY DEF Init, ServerInit
<1>4. \A a \in Account \ {Admin} : users[a].secret = NoSecret
  BY <1>1
<1>3. ASSUME NEW a \in Account, users[a].secret # NoSecret
      PROVE  /\ \E c \in codes : c.owner = a /\ c.batch = enrolled[a]
             /\ \A c \in codes : c.owner = a => c.batch = enrolled[a]
  <2>1. [owner |-> a, batch |-> 0, used |-> FALSE] \in codes
    BY <1>2, <1>3
  <2>2. \A c \in codes : c.batch = 0
    BY <1>2
  <2> QED
    BY <1>2, <2>1, <2>2
<1> QED
  BY <1>2, <1>3, <1>4 DEF FactorInv, Awaited, InFlight, At

(* A change of PIN ends the other sessions. *)

\* Session k was opened by a request that has been answered.
Spent(k) ==
  /\ k \in 0..sent
  /\ ~ /\ requests[k] # NoRequest
       /\ requests[k].op = "login" /\ requests[k].stage # "answer"

SigningIn(j) == requests[j] # NoRequest /\ requests[j].op = "login"
                  /\ requests[j].stage \in {"consume", "mint"}

\* A handler that knows its caller by the session of the request.
KnowsCaller(j) == requests[j] # NoRequest /\ requests[j].op # "login"
                    /\ requests[j].stage \notin {"load", "auth", "unset", "answer"}

\* No session is ended with a PIN the account does not have yet, a login that
\* has read its account has not missed an end without being late, and a session
\* has one owner.
SessionsInv ==
  /\ OldSessionsEnd
  /\ \A a \in Account : users[a].changes >= ended[a]
  /\ \A j \in Ids : SigningIn(j) =>
       requests[j].late \/ requests[j].changes >= ended[requests[j].who]
  /\ \A j \in Ids : At(j, "revoke") => requests[j].changes <= users[requests[j].who].changes
  /\ \A t, s \in tokens : t.id = s.id => t.owner = s.owner
  /\ \A t \in tokens : Spent(t.id)
  /\ \A j \in Ids : KnowsCaller(j) =>
       /\ Spent(requests[j].by)
       /\ \A t \in tokens : t.id = requests[j].by => t.owner = requests[j].who

LEMMA SpentStays ==
  ASSUME TypeOK, TypeOK', RequestSteps, NEW k \in 0..sent, Spent(k)
  PROVE  Spent(k)'
<1>1. sent \in Int /\ sent' \in Int /\ sent' >= sent /\ k \in Ids
  BY AccountConstants DEF RequestSteps, TypeOK, RequestsOK, Ids
<1>2. k \in 0..sent'
  BY <1>1
<1>3. ASSUME requests'[k] # NoRequest, requests'[k].op = "login", requests'[k].stage # "answer"
      PROVE  FALSE
  <2>1. CASE Stays(k)
    BY <1>3, <2>1 DEF Stays, Spent
  <2>2. CASE Advances(k)
    BY <1>3, <2>2 DEF Advances, Spent
  <2>3. CASE Begins(k)
    BY <1>1, <2>3 DEF Begins
  <2> QED
    BY <1>1, <1>3, <2>1, <2>2, <2>3 DEF RequestSteps, AsksMe
<1> QED
  BY <1>2, <1>3 DEF Spent

\* The sessions there are after a step: those before it, or one of a login.
Opened(t) ==
  /\ t.id \in Ids /\ SigningIn(t.id) /\ requests[t.id].stage = "mint"
  /\ t.owner = requests[t.id].who
  /\ t.changes = requests[t.id].changes /\ t.late = requests[t.id].late
  /\ t.id \in 0..sent' /\ (requests'[t.id] = NoRequest \/ requests'[t.id].stage = "answer")

LEMMA WhereSessionsComeFrom ==
  ASSUME TypeOK, TypeOK', [Next]_vars, NEW t \in tokens'
  PROVE  Opened(t) \/ \E s \in tokens : s.id = t.id /\ s.owner = t.owner
<1>1. RowsChange
  BY Steps
<1>2. CASE t \in tokens
  BY <1>2
<1>3. ASSUME NEW i \in Ids, Mint(i), t \notin tokens PROVE Opened(t)
  <2> DEFINE r == requests[i]
  <2>1. r # NoRequest /\ r.stage = "mint"
    BY <1>3 DEF Mint, At
  <2>2. r.op = "login" /\ i <= sent /\ Sound(r)
    BY <2>1, Here DEF TypeOK, Sound, Fits
  <2>3. t = [id |-> i, owner |-> r.who, changes |-> r.changes, late |-> r.late]
    BY <1>3 DEF Mint
  <2>4. requests'[i] = Answered(r, "ok")
    BY <1>3 DEF Mint, Answer, Goes, TypeOK, RequestsOK
  <2>5. Answered(r, "ok") = NoRequest \/ Answered(r, "ok").stage = "answer"
    BY <2>2, AnAnswer DEF Status
  <2>6. i \in 0..sent'
    BY <1>3, <2>2, AccountConstants DEF Mint, TypeOK, RequestsOK, Ids
  <2> QED
    BY <2>1, <2>2, <2>3, <2>4, <2>5, <2>6 DEF Opened, SigningIn
<1>4. ASSUME NEW i \in Ids, RevokeOthers(i) PROVE \E s \in tokens : s.id = t.id /\ s.owner = t.owner
  <2> DEFINE n == Max({ended[requests[i].who], requests[i].changes})
  <2>1. PICK s \in tokens : t = IF s.id = requests[i].by THEN [s EXCEPT !.changes = n] ELSE s
    BY <1>4 DEF RevokeOthers
  <2>2. t.id = s.id /\ t.owner = s.owner
    BY <2>1 DEF TypeOK, RowsOK
  <2> QED
    BY <2>2
<1>5. ASSUME NEW i \in Ids, Unset(i) PROVE t \in tokens
  BY <1>5 DEF Unset
<1> QED
  BY <1>1, <1>2, <1>3, <1>4, <1>5
    DEF RowsChange, Rows, Consume, WritePin, Enable, ClearSecret, WipeCodes

LEMMA SessionsBelong ==
  ASSUME TypeOK, SessionsInv, [Next]_vars
  PROVE  /\ \A t, s \in tokens' : t.id = s.id => t.owner = s.owner
         /\ \A t \in tokens' : Spent(t.id)'
         /\ \A j \in Ids : KnowsCaller(j)' =>
              /\ Spent(requests[j].by)'
              /\ \A t \in tokens' : t.id = requests'[j].by => t.owner = requests'[j].who
<1>1. RequestSteps /\ TypeOK'
  BY Steps, TypesStay
<1>2. ASSUME NEW k, Spent(k) PROVE k \in 0..sent /\ Spent(k)'
  BY <1>1, <1>2, SpentStays DEF Spent
<1>3. ASSUME NEW t \in tokens', Opened(t) PROVE ~Spent(t.id) /\ Spent(t.id)'
  BY <1>3 DEF Opened, Spent, SigningIn
<1>4. ASSUME NEW t \in tokens', NEW s \in tokens', t.id = s.id PROVE t.owner = s.owner
  <2>1. CASE Opened(t) /\ Opened(s)
    BY <1>4, <2>1 DEF Opened
  <2>2. CASE ~Opened(t) /\ ~Opened(s)
    <3>1. PICK t0 \in tokens : t0.id = t.id /\ t0.owner = t.owner
      BY <1>1, <2>2, WhereSessionsComeFrom
    <3>2. PICK s0 \in tokens : s0.id = s.id /\ s0.owner = s.owner
      BY <1>1, <2>2, WhereSessionsComeFrom
    <3> QED
      BY <1>4, <3>1, <3>2 DEF SessionsInv
  <2>3. ASSUME NEW q \in tokens', ~Opened(q) PROVE Spent(q.id)
    <3>1. PICK q0 \in tokens : q0.id = q.id
      BY <1>1, <2>3, WhereSessionsComeFrom
    <3> QED
      BY <3>1 DEF SessionsInv
  <2> QED
    BY <1>3, <1>4, <2>1, <2>2, <2>3
<1>5. ASSUME NEW t \in tokens' PROVE Spent(t.id)'
  <2>1. CASE Opened(t)
    BY <1>3, <2>1
  <2>2. CASE ~Opened(t)
    <3>1. PICK t0 \in tokens : t0.id = t.id
      BY <1>1, <2>2, WhereSessionsComeFrom
    <3> QED
      BY <1>2, <3>1 DEF SessionsInv
  <2> QED
    BY <2>1, <2>2
<1>6. ASSUME NEW j \in Ids, KnowsCaller(j)'
      PROVE  /\ Spent(requests'[j].by)
             /\ \A t \in tokens : t.id = requests'[j].by => t.owner = requests'[j].who
  <2>1. /\ requests'[j] # NoRequest /\ requests'[j].op # "login"
        /\ requests'[j].stage \notin {"load", "auth", "unset", "answer"}
    BY <1>6 DEF KnowsCaller
  <2>2. CASE Stays(j)
    BY <2>1, <2>2 DEF Stays, KnowsCaller, SessionsInv
  <2>3. CASE Advances(j)
    <3>1. requests[j] # NoRequest /\ requests[j].stage \notin {"answer", "load", "unset"}
      <4>1. requests[j] # NoRequest /\ requests[j].stage # "answer" /\ requests'[j].op = requests[j].op
        BY <2>3 DEF Advances
      <4>2. Fits(requests[j].op, requests[j].stage) /\ Fits(requests'[j].op, requests'[j].stage)
        BY <1>1, <2>1, <4>1 DEF TypeOK, RequestsOK, Sound
      <4> QED
        BY <2>1, <4>1, <4>2 DEF Fits
    <3>2. CASE requests[j].stage = "auth"
      <4>1. PICK t \in tokens : t.id = requests[j].by /\ t.owner = requests'[j].who
        BY <2>1, <2>3, <3>2 DEF Advances
      <4>2. requests'[j].by = requests[j].by
        BY <2>1, <2>3 DEF Advances
      <4> QED
        BY <4>1, <4>2 DEF SessionsInv
    <3>3. CASE requests[j].stage # "auth"
      BY <2>1, <2>3, <3>1, <3>3 DEF Advances, KnowsCaller, SessionsInv
    <3> QED
      BY <3>2, <3>3
  <2> QED
    BY <1>1, <2>1, <2>2, <2>3 DEF RequestSteps, Begins, AsksMe
<1>7. ASSUME NEW j \in Ids, KnowsCaller(j)', NEW t \in tokens', t.id = requests'[j].by
      PROVE  t.owner = requests'[j].who
  <2>1. ~Opened(t)
    BY <1>3, <1>6, <1>7
  <2>2. PICK t0 \in tokens : t0.id = t.id /\ t0.owner = t.owner
    BY <1>1, <2>1, WhereSessionsComeFrom
  <2> QED
    BY <1>6, <1>7, <2>2
<1> QED
  BY <1>2, <1>4, <1>5, <1>6, <1>7

LEMMA SessionsStay ==
  ASSUME TypeOK, SessionsInv, [Next]_vars
  PROVE  SessionsInv'
<1>1. RequestSteps /\ RowsChange /\ TypeOK'
  BY Steps, TypesStay
<1>2. ASSUME NEW a \in Account PROVE users'[a].changes >= users[a].changes
  <2>1. users[a].changes \in Nat
    BY DEF TypeOK, RowsOK
  <2>2. CASE UNCHANGED users
    BY <2>1, <2>2
  <2>3. ASSUME NEW i \in Ids, WritePin(i) PROVE users'[a].changes >= users[a].changes
    BY <2>1, <2>3 DEF WritePin, TypeOK, RowsOK
  <2>4. ASSUME NEW i \in Ids, Enable(i) PROVE users'[a].changes = users[a].changes
    <3>1. \/ UNCHANGED users
          \/ users' = [users EXCEPT ![requests[i].who].secret = requests[i].secret]
      BY <2>4 DEF Enable, Rows
    <3> QED
      BY <3>1 DEF TypeOK, RowsOK
  <2>5. ASSUME NEW i \in Ids, ClearSecret(i) PROVE users'[a].changes = users[a].changes
    BY <2>5 DEF ClearSecret, TypeOK, RowsOK
  <2>6. \/ UNCHANGED users
        \/ \E i \in Ids : WritePin(i) \/ Enable(i) \/ ClearSecret(i)
    BY <1>1 DEF RowsChange, Rows, Consume, Mint, RevokeOthers, WipeCodes, Unset
  <2>7. users'[a].changes = users[a].changes \/ users'[a].changes >= users[a].changes
    BY <2>2, <2>3, <2>4, <2>5, <2>6
  <2> QED
    BY <2>1, <2>7
<1>3. ASSUME NEW j \in Ids, At(j, "revoke")'
      PROVE  requests'[j].changes <= users'[requests'[j].who].changes
  <2>1. requests'[j] # NoRequest /\ requests'[j].stage = "revoke"
    BY <1>3 DEF At
  <2>2. requests'[j].who \in Account /\ users'[requests'[j].who].changes \in Nat
        /\ requests'[j].changes \in Nat
    BY <1>1, <2>1 DEF TypeOK, RequestsOK, Sound, RowsOK, Requests
  <2>3. CASE Stays(j)
    <3>1. At(j, "revoke") /\ requests'[j].who = requests[j].who
          /\ requests'[j].changes = requests[j].changes
      BY <2>1, <2>3 DEF Stays, At
    <3>2. requests[j].changes <= users[requests'[j].who].changes
      BY <3>1 DEF SessionsInv
    <3>3. users[requests'[j].who].changes \in Nat
      BY <2>2 DEF TypeOK, RowsOK
    <3> QED
      BY <1>2, <2>2, <3>1, <3>2, <3>3
  <2>4. CASE Advances(j)
    <3>1. requests'[j].changes = users'[requests'[j].who].changes
      BY <2>1, <2>4 DEF Advances
    <3> QED
      BY <2>2, <3>1
  <2> QED
    BY <1>1, <2>1, <2>3, <2>4 DEF RequestSteps, Begins, AsksMe
<1>4. CASE UNCHANGED ended
  <2>1. ASSUME NEW a \in Account PROVE users'[a].changes >= ended'[a]
    <3>1. users[a].changes \in Nat /\ users'[a].changes \in Nat /\ ended[a] \in Nat
      BY <1>1 DEF TypeOK, RowsOK
    <3>2. users[a].changes >= ended[a]
      BY DEF SessionsInv
    <3> QED
      BY <1>2, <1>4, <3>1, <3>2
  <2>2. ASSUME NEW j \in Ids, SigningIn(j)'
        PROVE  requests'[j].late \/ requests'[j].changes >= ended'[requests'[j].who]
    <3>1. /\ requests'[j] # NoRequest /\ requests'[j].op = "login"
          /\ requests'[j].stage \in {"consume", "mint"}
      BY <2>2 DEF SigningIn
    <3>2. CASE Stays(j)
      BY <1>4, <3>1, <3>2 DEF Stays, SigningIn, SessionsInv
    <3>3. CASE Advances(j)
      <4>1. requests[j] # NoRequest /\ requests[j].stage # "answer" /\ requests[j].op = "login"
        BY <3>1, <3>3 DEF Advances
      <4>2. Fits("login", requests[j].stage)
        BY <4>1, Here DEF TypeOK, Sound
      <4>3. CASE requests[j].stage = "load"
        <5>1. requests'[j].changes = users[requests'[j].who].changes
          BY <3>1, <3>3, <4>3 DEF Advances
        <5>2. requests'[j].who \in Account
          BY <1>1, <3>1 DEF TypeOK, RequestsOK, Sound
        <5> QED
          BY <1>4, <5>1, <5>2 DEF SessionsInv
      <4>4. CASE requests[j].stage \in {"consume", "mint"}
        <5>1. SigningIn(j)
          BY <4>1, <4>4 DEF SigningIn
        <5>2. /\ requests'[j].late = requests[j].late
              /\ requests'[j].changes = requests[j].changes
              /\ requests'[j].who = requests[j].who
          BY <3>1, <3>3, <4>4 DEF Advances
        <5> QED
          BY <1>4, <5>1, <5>2 DEF SessionsInv
      <4> QED
        BY <4>1, <4>2, <4>3, <4>4 DEF Fits
    <3> QED
      BY <1>1, <3>1, <3>2, <3>3 DEF RequestSteps, Begins, AsksMe
  <2>3. ASSUME NEW t \in tokens' PROVE t.late \/ t.changes >= ended'[t.owner]
    <3>1. CASE t \in tokens
      BY <1>4, <3>1 DEF SessionsInv, OldSessionsEnd
    <3>2. CASE Opened(t)
      BY <1>4, <3>2 DEF Opened, SessionsInv
    <3>3. ASSUME NEW i \in Ids, Mint(i), t \notin tokens PROVE Opened(t)
      <4>1. t.id = i
        BY <3>3 DEF Mint
      <4>2. requests[i].stage = "mint" /\ requests[i] # NoRequest
        BY <3>3 DEF Mint, At
      <4>3. ~Spent(i)
        BY <4>2, Here DEF Spent, TypeOK, Sound, Fits
      <4>4. ~ \E s \in tokens : s.id = t.id
        BY <4>1, <4>3 DEF SessionsInv
      <4> QED
        BY <1>1, <4>4, WhereSessionsComeFrom
    <3>4. ASSUME NEW i \in Ids, RevokeOthers(i), t \notin tokens PROVE t.changes >= ended'[t.owner]
      <4> DEFINE r == requests[i]
                 n == Max({ended[r.who], r.changes})
      <4>1. PICK s \in tokens : t = IF s.id = r.by THEN [s EXCEPT !.changes = n] ELSE s
        BY <3>4 DEF RevokeOthers
      <4>2. s.id = r.by /\ t = [s EXCEPT !.changes = n]
        BY <3>4, <4>1
      <4>3. r # NoRequest /\ r.stage = "revoke"
        BY <3>4 DEF RevokeOthers, At
      <4>4. r.op = "pin" /\ r.who \in Account /\ r.changes \in Nat
        BY <4>3, Here DEF TypeOK, Sound, Fits, Requests
      <4>5. s.owner = r.who
        BY <4>2, <4>3, <4>4 DEF KnowsCaller, SessionsInv
      <4>6. ended'[r.who] = n
        BY <3>4, <4>4 DEF RevokeOthers, TypeOK, RowsOK
      <4>7. n \in Nat
        BY <4>4, LaterOfTwo DEF TypeOK, RowsOK
      <4> HIDE DEF n
      <4>8. t.owner = s.owner /\ t.changes = n
        BY <4>2 DEF TypeOK, RowsOK
      <4> QED
        BY <4>5, <4>6, <4>7, <4>8
    <3>5. ASSUME NEW i \in Ids, Unset(i) PROVE t \in tokens
      BY <3>5 DEF Unset
    <3> QED
      BY <1>1, <3>1, <3>2, <3>3, <3>4, <3>5
        DEF RowsChange, Rows, Consume, WritePin, Enable, ClearSecret, WipeCodes
  <2> QED
    BY <1>3, <2>1, <2>2, <2>3, SessionsBelong DEF SessionsInv, OldSessionsEnd
<1>5. ASSUME NEW i \in Ids, RevokeOthers(i) PROVE SessionsInv'
  <2> DEFINE r == requests[i]
             n == Max({ended[r.who], r.changes})
  <2>1. r # NoRequest /\ r.stage = "revoke"
    BY <1>5 DEF RevokeOthers, At
  <2>2. r.op = "pin" /\ r.who \in Account /\ r.changes \in Nat /\ Sound(r)
    BY <2>1, Here DEF TypeOK, Sound, Fits, Requests
  <2>3. /\ ended'[r.who] = n
        /\ \A a \in Account \ {r.who} : ended'[a] = ended[a]
        /\ UNCHANGED users
    BY <1>5, <2>2 DEF RevokeOthers, TypeOK, RowsOK
  <2>4. ended[r.who] \in Nat /\ n \in Nat /\ (n = ended[r.who] \/ n = r.changes)
    BY <2>2, LaterOfTwo DEF TypeOK, RowsOK
  <2>5. \A t \in tokens' : \E s \in tokens : Survives(s, r) /\
          t = IF s.id = r.by THEN [s EXCEPT !.changes = n] ELSE s
    BY <1>5 DEF RevokeOthers
  <2>6. \A j \in Ids : requests'[j] =
          IF j = i THEN Answered(r, "ok")
          ELSE IF requests[j] # NoRequest /\ requests[j].op = "login" /\ requests[j].who = r.who
               THEN [requests[j] EXCEPT !.late = TRUE] ELSE requests[j]
    BY <1>5 DEF RevokeOthers
  <2> HIDE DEF n
  <2>7. ASSUME NEW a \in Account PROVE users'[a].changes >= ended'[a]
    <3>1. users[a].changes \in Nat /\ ended[a] \in Nat /\ users[a].changes >= ended[a]
      BY DEF TypeOK, RowsOK, SessionsInv
    <3>2. r.changes <= users[r.who].changes
      BY <2>1 DEF At, SessionsInv
    <3> QED
      BY <2>2, <2>3, <2>4, <3>1, <3>2
  <2>8. ASSUME NEW j \in Ids, SigningIn(j)'
        PROVE  requests'[j].late \/ requests'[j].changes >= ended'[requests'[j].who]
    <3>1. requests'[j] # NoRequest /\ requests'[j].stage \in {"consume", "mint"}
      BY <2>8 DEF SigningIn
    <3>2. j # i
      BY <2>2, <2>6, <3>1, AnAnswer DEF Status
    <3>3. requests[j] # NoRequest /\ Sound(requests[j])
      BY <2>6, <3>1, <3>2, Here DEF TypeOK
    <3>4. CASE requests[j].op = "login" /\ requests[j].who = r.who
      <4>1. requests'[j] = [requests[j] EXCEPT !.late = TRUE]
        BY <2>6, <3>2, <3>3, <3>4
      <4>2. requests'[j].late
        BY <3>3, <4>1 DEF Sound, Requests
      <4> QED
        BY <4>2
    <3>5. CASE ~(requests[j].op = "login" /\ requests[j].who = r.who)
      <4>1. requests'[j] = requests[j]
        BY <2>6, <3>2, <3>5
      <4>2. SigningIn(j) /\ requests[j].who # r.who
        BY <2>8, <3>5, <4>1 DEF SigningIn
      <4>3. requests[j].who \in Account
        BY <3>1, <3>3, <4>1 DEF Sound
      <4> QED
        BY <2>3, <4>1, <4>2, <4>3 DEF SessionsInv
    <3> QED
      BY <3>4, <3>5
  <2>9. ASSUME NEW t \in tokens' PROVE t.late \/ t.changes >= ended'[t.owner]
    <3>1. PICK s \in tokens : Survives(s, r) /\
            t = IF s.id = r.by THEN [s EXCEPT !.changes = n] ELSE s
      BY <2>5
    <3>2. CASE s.id = r.by
      <4>1. s.owner = r.who
        BY <2>1, <2>2, <3>2 DEF KnowsCaller, SessionsInv
      <4>2. t.owner = s.owner /\ t.changes = n
        BY <3>1, <3>2 DEF TypeOK, RowsOK
      <4> QED
        BY <2>3, <2>4, <4>1, <4>2
    <3>3. CASE s.id # r.by
      <4>1. t = s /\ s.owner # r.who
        BY <3>1, <3>3 DEF Survives
      <4>2. s.owner \in Account
        BY DEF TypeOK, RowsOK
      <4> QED
        BY <2>3, <4>1, <4>2 DEF SessionsInv, OldSessionsEnd
    <3> QED
      BY <3>2, <3>3
  <2> QED
    BY <1>3, <2>7, <2>8, <2>9, SessionsBelong DEF SessionsInv, OldSessionsEnd
<1> QED
  BY <1>1, <1>4, <1>5
    DEF RowsChange, Rows, Consume, Mint, WritePin, Enable, ClearSecret, WipeCodes, Unset

LEMMA SessionsAtFirst == Init => SessionsInv
<1> SUFFICES ASSUME Init PROVE SessionsInv
  OBVIOUS
<1>1. /\ \A a \in Account : users[a].changes = 0 /\ ended[a] = 0
      /\ sent = 0 /\ \A j \in Ids : requests[j] = NoRequest
  BY DEF Init, ServerInit
<1>2. \A t \in tokens : t.id = 0 /\ t.owner = Admin /\ t.changes = 0
  BY DEF Init, ServerInit, FirstSession
<1>3. 0 \in Ids /\ Admin \in Account
  BY AccountConstants DEF Ids
<1> QED
  BY <1>1, <1>2, <1>3 DEF SessionsInv, OldSessionsEnd, Spent, SigningIn, KnowsCaller, At

\* Once a change of PIN has ended the other sessions of an account, those that
\* are left were opened with the new PIN or by a login that had read the account
\* before (change_pin, login).
THEOREM OldSessionsAreOver == Spec => []OldSessionsEnd
<1>1. Init => TypeOK /\ SessionsInv
  BY TypesAtFirst, SessionsAtFirst
<1>2. TypeOK /\ SessionsInv /\ [Next]_vars => (TypeOK /\ SessionsInv)'
  BY TypesStay, SessionsStay
<1>3. TypeOK /\ SessionsInv => OldSessionsEnd
  BY DEF SessionsInv
<1> QED
  BY <1>1, <1>2, <1>3, PTL DEF Spec

-----------------------------------------------------------------------------
(* The codes the panel shows are those of the factor in force. *)

Works(s, b) ==
  /\ s = users[Admin].secret
  /\ \E c \in codes : c.owner = Admin /\ c.batch = b

\* They work, or a request that nobody heard of has been at the factor.
Stands(s, b) == unheard \/ Works(s, b)

\* A request of the panel comes with the desk's session, and is answered only if
\* somebody hears it; one that enables a factor brings the secret the panel still
\* has, if it was not left, and an answer that it is on is true.
Asked(j) ==
  LET r == requests[j] IN
  /\ r.stage # "answer" => r.by = FirstSession
  /\ r.stage = "answer" => ~r.deaf
  /\ r.op = "enable" =>
       /\ r.deaf \/ r.secret = panel.secret
       /\ r.stage = "commit" => r.who = Admin
       /\ r.stage = "answer" /\ r.status = "ok" => Stands(r.secret, j)

\* The desk is the administrator's, and the panel asks for nothing while it shows
\* codes.
PanelInv ==
  /\ cookie["desk"] = FirstSession
  /\ \A t \in tokens : t.id = FirstSession => t.owner = Admin
  /\ requests[MeId] # NoRequest => requests[MeId].op = "me"
  /\ \A j \in InFlight("panel") : Asked(j)
  /\ panel.view = "codes" => Awaited("panel") = {} /\ Stands(panel.secret, panel.batch)

\* Only the panel's handlers touch the administrator's factor, and those of a page
\* that was left are noted.
LEMMA FactorIsLeft ==
  ASSUME TypeOK, [Next]_vars, \A i \in Awaited("panel") : requests[i].stage = "answer",
         NEW s, NEW b, Stands(s, b)
  PROVE  \/ unheard'
         \/ /\ s = users'[Admin].secret
            /\ \E c \in codes' : c.owner = Admin /\ c.batch = b
<1>1. RowsChange
  BY Steps
<1>2. CASE UNCHANGED <<users, codes, unheard>>
  BY <1>2 DEF Stands, Works
<1>3. ASSUME NEW i \in Ids, Consume(i)
      PROVE  /\ UNCHANGED <<users, unheard>>
             /\ \A d \in codes : \E c \in codes' : c.owner = d.owner /\ c.batch = d.batch
  <2> DEFINE found == Redeemable(requests[i].who, requests[i].code.of)
  <2>1. CASE UNCHANGED codes
    BY <1>3, <2>1 DEF Consume
  <2>2. CASE codes' = (codes \ found) \cup {[c EXCEPT !.used = TRUE] : c \in found}
    <3>1. ASSUME NEW c \in found
          PROVE  /\ [c EXCEPT !.used = TRUE].owner = c.owner
                 /\ [c EXCEPT !.used = TRUE].batch = c.batch
      BY DEF TypeOK, RowsOK, Redeemable
    <3> HIDE DEF found
    <3> QED
      BY <1>3, <2>2, <3>1 DEF Consume
  <2> QED
    BY <1>3, <2>1, <2>2 DEF Consume
<1>4. ASSUME NEW i \in Ids, WritePin(i)
      PROVE  UNCHANGED <<codes, unheard>> /\ users'[Admin].secret = users[Admin].secret
  BY <1>4, AccountConstants DEF WritePin, TypeOK, RowsOK
<1>5. ASSUME NEW i \in Ids, Enable(i) \/ ClearSecret(i) \/ WipeCodes(i)
      PROVE  unheard' \/ UNCHANGED <<users, codes, unheard>>
  <2>1. requests[i] # NoRequest /\ requests[i].stage \in {"commit", "clear", "wipe"}
    BY <1>5 DEF Enable, ClearSecret, WipeCodes, At
  <2>2. requests[i].page = "panel"
    BY <2>1, Here DEF TypeOK, Sound, Fits
  <2>3. requests[i].deaf
    BY <2>1, <2>2 DEF Awaited, InFlight
  <2> QED
    BY <1>5, <2>3 DEF Enable, ClearSecret, WipeCodes, Rows
<1> QED
  BY <1>1, <1>2, <1>3, <1>4, <1>5 DEF RowsChange, Rows, Mint, RevokeOthers, Unset, Stands, Works

\* Request j is as it was, but for what nobody asks of the panel's.
Same(j) ==
  /\ requests[j] # NoRequest
  /\ requests'[j].op = requests[j].op /\ requests'[j].page = requests[j].page
  /\ requests'[j].stage = requests[j].stage /\ requests'[j].by = requests[j].by
  /\ requests'[j].who = requests[j].who /\ requests'[j].secret = requests[j].secret
  /\ requests'[j].status = requests[j].status /\ requests'[j].deaf = requests[j].deaf

LEMMA OthersAreSame ==
  ASSUME TypeOK, NEW i \in Ids, Serve(i),
         NEW j \in Ids, j # i, requests'[j] # NoRequest
  PROVE  Same(j)
<1>1. CASE \E r : Goes(i, r)
  <2>1. requests'[j] = requests[j]
    BY <1>1 DEF Goes, TypeOK, RequestsOK
  <2> QED
    BY <2>1 DEF Same
<1>2. CASE RevokeOthers(i)
  <2>1. \/ requests'[j] = requests[j]
        \/ requests[j] # NoRequest /\ requests'[j] = [requests[j] EXCEPT !.late = TRUE]
    BY <1>2 DEF RevokeOthers
  <2>2. requests[j] # NoRequest => Sound(requests[j])
    BY Here DEF TypeOK
  <2> QED
    BY <2>1, <2>2 DEF Same, Sound, Requests
<1> QED
  BY <1>1, <1>2 DEF Serve, LoadUsers, Authenticate, Tell, Consume, Mint, VerifyPin, ComparePins,
    WritePin, MakeSecret, Enable, CheckFactor, ClearSecret, WipeCodes, Unset, StatementFails,
    Dropped, Answer, Moves

\* An answer brings back the secret of its request.
LEMMA AskedAnswered ==
  ASSUME TypeOK, NEW i \in Ids, requests[i] # NoRequest, Asked(i), UNCHANGED panel,
         NEW status \in Status, Answer(i, status), requests'[i] # NoRequest,
         requests[i].op = "enable" /\ status = "ok" => Stands(requests[i].secret, i)'
  PROVE  Asked(i)'
<1> DEFINE r == requests[i]
           q == [Request(r.op, r.page, NoSession) EXCEPT !.stage = "answer", !.status = status,
                                                         !.secret = r.secret]
<1>1. requests'[i] = q /\ ~r.deaf
  BY DEF Answer, Answered, Goes, TypeOK, RequestsOK
<1>2. q.op = r.op /\ q.stage = "answer" /\ q.status = status /\ q.secret = r.secret /\ ~q.deaf
  BY DEF Request
<1> HIDE DEF q
<1> QED
  BY <1>1, <1>2 DEF Asked, Stands, Works

LEMMA AskedMoves ==
  ASSUME TypeOK, NEW i \in Ids, requests[i] # NoRequest, Asked(i), UNCHANGED panel,
         requests[i].stage # "answer", NEW s \in Stage \ {"answer", "commit"}, Moves(i, s)
  PROVE  Asked(i)'
<1>1. requests'[i] = [requests[i] EXCEPT !.stage = s]
  BY DEF Moves, Goes, TypeOK, RequestsOK
<1>2. Sound(requests[i])
  BY Here DEF TypeOK
<1>3. /\ requests'[i].op = requests[i].op /\ requests'[i].by = requests[i].by
      /\ requests'[i].secret = requests[i].secret /\ requests'[i].stage = s
      /\ requests'[i].deaf = requests[i].deaf
  BY <1>1, <1>2 DEF Sound, Requests
<1> QED
  BY <1>3 DEF Asked

LEMMA AnswersAreHeard ==
  ASSUME NEW r, NEW status, Answered(r, status) # NoRequest
  PROVE  ~r.deaf /\ ~Answered(r, status).deaf
BY DEF Answered, Request

\* The handlers keep what the panel asked, and answer it truly.
LEMMA AskedServed ==
  ASSUME TypeOK, PanelInv, NEW i \in Ids, Serve(i), UNCHANGED panel, i \in InFlight("panel")'
  PROVE  Asked(i)'
<1> DEFINE r == requests[i]
<1> USE DEF At
<1>0. requests'[i] # NoRequest /\ requests'[i].page = "panel"
  BY DEF InFlight
<1>1. r # NoRequest /\ r.page = "panel" /\ requests'[i].op = r.op
  <2>1. UNCHANGED sent
    BY DEF Serve, LoadUsers, Authenticate, Tell, Consume, Mint, VerifyPin, ComparePins,
      WritePin, RevokeOthers, MakeSecret, Enable, CheckFactor, ClearSecret, WipeCodes, Unset,
      StatementFails, Dropped
  <2>2. Stays(i) \/ Advances(i)
    BY <1>0, <2>1, ServeSteps DEF RequestSteps, Begins, AsksMe, TypeOK, RequestsOK
  <2> QED
    BY <1>0, <2>2 DEF Stays, Advances
<1>2. Sound(r) /\ Asked(i)
  BY <1>1, Here DEF TypeOK, PanelInv, InFlight
<1>3. ASSUME NEW status \in Status, Answer(i, status), r.op = "enable" => status # "ok"
      PROVE  Asked(i)'
  BY <1>0, <1>1, <1>2, <1>3, AskedAnswered
<1>4. ASSUME NEW s \in Stage \ {"answer", "commit"}, Moves(i, s), r.stage # "answer"
      PROVE  Asked(i)'
  BY <1>1, <1>2, <1>4, AskedMoves
<1>5. ASSUME requests'[i].stage # "answer" => requests'[i].by = FirstSession, r.op # "enable",
             requests'[i].stage = "answer" => ~requests'[i].deaf
      PROVE  Asked(i)'
  BY <1>1, <1>5 DEF Asked
<1>6. CASE LoadUsers(i)
  <2>1. r.stage = "load" /\ r.op = "login"
    BY <1>2, <1>6 DEF LoadUsers, Sound, Fits
  <2>2. CASE \E status \in Status : Answer(i, status)
    BY <1>3, <2>1, <2>2
  <2>3. CASE \E a \in Account, s \in {"mint", "consume"} :
               Goes(i, [[r EXCEPT !.who = a, !.changes = users[a].changes] EXCEPT !.stage = s])
    <3>1. PICK a \in Account, s \in {"mint", "consume"} :
            Goes(i, [[r EXCEPT !.who = a, !.changes = users[a].changes] EXCEPT !.stage = s])
      BY <2>3
    <3>2. requests'[i].by = r.by /\ requests'[i].stage # "answer"
      BY <1>2, <3>1 DEF Goes, TypeOK, RequestsOK, Sound, Requests
    <3> QED
      BY <1>2, <1>5, <2>1, <3>2 DEF Asked
  <2> QED
    BY <1>6, <2>2, <2>3 DEF LoadUsers, Answer, Status
<1>7. CASE Authenticate(i)
  <2>1. CASE \E status \in Status \ {"ok"} : Answer(i, status)
    BY <1>3, <2>1
  <2>2. CASE \E t \in tokens : /\ t.id = r.by
                             /\ Goes(i, [r EXCEPT !.who = t.owner, !.stage = Authenticated[r.op]])
    <3>1. PICK t \in tokens : /\ t.id = r.by
                              /\ Goes(i, [r EXCEPT !.who = t.owner, !.stage = Authenticated[r.op]])
      BY <2>2
    <3>2. r.stage = "auth" /\ r.by = FirstSession
      BY <1>2, <1>7 DEF Authenticate, Asked
    <3>3. t.owner = Admin
      BY <3>1, <3>2 DEF PanelInv
    <3>4. /\ requests'[i].by = r.by /\ requests'[i].who = Admin
          /\ requests'[i].secret = r.secret /\ requests'[i].stage = Authenticated[r.op]
          /\ requests'[i].deaf = r.deaf
      BY <1>2, <3>1, <3>3 DEF Goes, TypeOK, RequestsOK, Sound, Requests
    <3>5. Authenticated[r.op] # "answer"
      BY <1>2, <3>2 DEF Authenticated, Sound, Fits
    <3> QED
      BY <1>1, <1>2, <3>2, <3>4, <3>5 DEF Asked
  <2> QED
    BY <1>7, <2>1, <2>2 DEF Authenticate, Status
<1>8. CASE Tell(i) \/ Mint(i) \/ RevokeOthers(i) \/ WipeCodes(i) \/ Unset(i)
  <2>1. r.op # "enable"
    BY <1>2, <1>8 DEF Tell, Mint, RevokeOthers, WipeCodes, Unset, Sound, Fits
  <2>2. requests'[i] = Answered(r, "ok")
    BY <1>8 DEF Tell, Mint, RevokeOthers, WipeCodes, Unset, Answer, Goes, TypeOK, RequestsOK
  <2>3. requests'[i].stage = "answer" /\ ~requests'[i].deaf
    BY <1>0, <1>2, <2>2, AnAnswer, AnswersAreHeard DEF Status
  <2> QED
    BY <1>5, <2>1, <2>3
<1>9. CASE Consume(i)
  <2>1. CASE \E status \in Status \ {"ok"} : Answer(i, status)
    BY <1>3, <2>1
  <2>2. CASE Moves(i, Accepted[r.op])
    <3>1. r.stage = "consume" /\ Accepted[r.op] \in Stage \ {"answer", "commit"}
      BY <1>2, <1>9 DEF Consume, Accepted, Sound, Fits, Stage
    <3> QED
      BY <1>4, <2>2, <3>1
  <2> QED
    BY <1>9, <2>1, <2>2 DEF Consume, Status
<1>10. CASE VerifyPin(i) \/ ComparePins(i) \/ CheckFactor(i) \/ ClearSecret(i)
  <2>1. r.stage # "answer"
    BY <1>10 DEF VerifyPin, ComparePins, CheckFactor, ClearSecret
  <2>2. CASE \E status \in Status \ {"ok"} : Answer(i, status)
    BY <1>3, <2>2
  <2>3. CASE \E s \in Stage \ {"answer", "commit"} : Moves(i, s)
    BY <1>4, <2>1, <2>3
  <2> QED
    BY <1>10, <2>2, <2>3 DEF VerifyPin, ComparePins, CheckFactor, ClearSecret, Status, Stage
<1>11. CASE WritePin(i)
  <2>1. r.stage = "write" /\ r.op = "pin"
    BY <1>2, <1>11 DEF WritePin, Sound, Fits
  <2>2. requests'[i].by = r.by /\ requests'[i].stage = "revoke"
    BY <1>2, <1>11 DEF WritePin, Goes, TypeOK, RequestsOK, Sound, Requests
  <2> QED
    BY <1>2, <1>5, <2>1, <2>2 DEF Asked
<1>12. CASE MakeSecret(i)
  <2>1. r.stage = "make" /\ r.op = "setup"
    BY <1>2, <1>12 DEF MakeSecret, Sound, Fits
  <2>2. requests'[i] = Answered([r EXCEPT !.secret = made + 1], "ok")
    BY <1>12 DEF MakeSecret, Goes, TypeOK, RequestsOK
  <2>3. Sound([r EXCEPT !.secret = made + 1])
    BY <1>2 DEF Sound, Requests, TypeOK, RequestsOK
  <2>4. requests'[i].stage = "answer" /\ ~requests'[i].deaf
    BY <1>0, <2>2, <2>3, AnAnswer, AnswersAreHeard DEF Status
  <2> QED
    BY <1>5, <2>1, <2>4
<1>13. CASE Enable(i)
  <2>1. CASE Answer(i, "refused")
    BY <1>3, <2>1 DEF Status
  <2>2. CASE /\ users' = [users EXCEPT ![r.who].secret = r.secret]
             /\ codes' = Replaced(r.who, i)
             /\ Answer(i, "ok")
    <3>1. r.stage = "commit" /\ r.op = "enable"
      BY <1>2, <1>13 DEF Enable, Sound, Fits
    <3>2. r.who = Admin
      BY <1>2, <3>1 DEF Asked
    <3>3. users'[Admin].secret = r.secret
      BY <2>2, <3>2, AccountConstants DEF TypeOK, RowsOK
    <3>4. requests'[i].secret = r.secret /\ ~r.deaf
      BY <1>0, <2>2 DEF Answer, Answered, Goes, TypeOK, RequestsOK, Request
    <3>5. [owner |-> Admin, batch |-> i, used |-> FALSE] \in codes'
      BY <2>2, <3>2 DEF Replaced
    <3>6. \E c \in codes' : c.owner = Admin /\ c.batch = i
      BY <3>5
    <3>7. requests'[i].stage = "answer" /\ ~requests'[i].deaf
      BY <1>0, <1>2, <2>2, AnAnswer, AnswersAreHeard DEF Answer, Goes, TypeOK, RequestsOK, Status
    <3> QED
      BY <1>1, <1>2, <3>1, <3>3, <3>4, <3>6, <3>7 DEF Asked, Stands, Works
  <2> QED
    BY <1>13, <2>1, <2>2 DEF Enable
<1>14. CASE StatementFails(i)
  <2>1. r.stage # "answer"
    BY <1>14 DEF StatementFails
  <2>2. r.op = "enable" => \E status \in Status \ {"ok"} : Answer(i, status)
    BY <1>2, <1>14 DEF StatementFails, Sound, Fits, Status
  <2>3. \E status \in Status : Answer(i, status)
    BY <1>14 DEF StatementFails, Status
  <2> QED
    BY <1>3, <2>2, <2>3
<1>15. ~Dropped(i)
  BY <1>0 DEF Dropped, Goes, TypeOK, RequestsOK
<1> QED
  BY <1>6, <1>7, <1>8, <1>9, <1>10, <1>11, <1>12, <1>13, <1>14, <1>15 DEF Serve

LEMMA AskedStays ==
  ASSUME NEW j \in Ids, Asked(j), Same(j), panel'.secret = panel.secret,
         requests[j].stage = "answer" /\ Stands(requests[j].secret, j) =>
           Stands(requests[j].secret, j)'
  PROVE  Asked(j)'
BY DEF Asked, Same, Stands, Works

\* The same once nobody hears it, whatever the panel shows.
LEMMA AskedUnheard ==
  ASSUME NEW j \in Ids, Asked(j), requests'[j].deaf, requests[j].stage # "answer",
         requests'[j].op = requests[j].op, requests'[j].stage = requests[j].stage,
         requests'[j].by = requests[j].by, requests'[j].who = requests[j].who
  PROVE  Asked(j)'
BY DEF Asked

\* What the panel asks next, and what others ask.
LEMMA AskedBegins ==
  ASSUME TypeOK, PanelInv, NEW r, Send(r), UNCHANGED <<users, codes, unheard>>,
         panel'.secret = panel.secret,
         r.page = "panel" =>
           r.by = FirstSession /\ r.stage = "auth" /\ (r.op = "enable" => r.secret = panel.secret)
  PROVE  /\ \A j \in InFlight("panel")' : Asked(j)'
         /\ r.page # "panel" /\ Awaited("panel") = {} => Awaited("panel")' = {}
<1>1. requests'[sent + 1] = r /\ \A j \in Ids \ {sent + 1} : requests'[j] = requests[j]
  BY AccountConstants DEF Send, Goes, TypeOK, RequestsOK, Ids
<1>2. ASSUME NEW j \in InFlight("panel")', j # sent + 1 PROVE j \in InFlight("panel") /\ Same(j)
  BY <1>1, <1>2 DEF InFlight, Same
<1>3. ASSUME NEW j \in InFlight("panel")' PROVE Asked(j)'
  <2>1. CASE j = sent + 1
    BY <1>1, <1>3, <2>1 DEF InFlight, Asked
  <2>2. CASE j # sent + 1
    <3>1. Stands(requests[j].secret, j) => Stands(requests[j].secret, j)'
      BY <1>2, <2>2 DEF Stands, Works, Same
    <3> QED
      BY <1>2, <2>2, <3>1, AskedStays DEF PanelInv, InFlight
  <2> QED
    BY <2>1, <2>2
<1> QED
  BY <1>1, <1>2, <1>3 DEF Awaited, InFlight, Same

PanelPart ==
  /\ \A j \in InFlight("panel") : Asked(j)
  /\ panel.view = "codes" => Awaited("panel") = {} /\ Stands(panel.secret, panel.batch)

LEMMA PanelServed ==
  ASSUME TypeOK, FactorInv, PanelInv, NEW i \in Ids, Serves(i)
  PROVE  PanelPart'
<1>1. Serve(i) /\ UNCHANGED panel
  BY DEF Serves, pageVars
<1>2. [Next]_vars
  BY DEF Next
<1>3. UNCHANGED sent
  BY <1>1 DEF Serve, LoadUsers, Authenticate, Tell, Consume, Mint, VerifyPin, ComparePins,
    WritePin, RevokeOthers, MakeSecret, Enable, CheckFactor, ClearSecret, WipeCodes, Unset,
    StatementFails, Dropped
<1>4. ASSUME NEW j \in InFlight("panel")' PROVE j \in InFlight("panel")
  <2>1. j \in Ids /\ requests'[j] # NoRequest /\ requests'[j].page = "panel"
    BY <1>4 DEF InFlight
  <2>2. Stays(j) \/ Advances(j)
    BY <1>1, <1>3, <2>1, ServeSteps DEF RequestSteps, Begins, AsksMe, TypeOK, RequestsOK
  <2> QED
    BY <2>1, <2>2 DEF Stays, Advances, InFlight
<1>7. ASSUME NEW j \in Awaited("panel")' PROVE j \in Awaited("panel")
  <2>1. j \in InFlight("panel")' /\ ~requests'[j].deaf
    BY <1>7 DEF Awaited
  <2>2. /\ j \in InFlight("panel") /\ requests'[j] # NoRequest /\ j \in Ids
        /\ requests'[j].page = "panel"
    BY <1>4, <2>1 DEF InFlight
  <2>3. Stays(j) \/ Advances(j)
    BY <1>1, <1>3, <2>2, ServeSteps DEF RequestSteps, Begins, AsksMe, TypeOK, RequestsOK
  <2> QED
    BY <2>1, <2>2, <2>3 DEF Stays, Advances, Awaited
<1>5. ASSUME NEW j \in InFlight("panel")' PROVE Asked(j)'
  <2>1. CASE j = i
    BY <1>1, <1>5, <2>1, AskedServed
  <2>2. CASE j # i
    <3>1. j \in Ids /\ requests'[j] # NoRequest /\ j \in InFlight("panel") /\ Asked(j)
      BY <1>4, <1>5 DEF InFlight, PanelInv
    <3>2. Same(j)
      BY <1>1, <2>2, <3>1, OthersAreSame
    <3>3. ASSUME requests[j].stage = "answer", Stands(requests[j].secret, j)
          PROVE  Stands(requests[j].secret, j)'
      <4>1. j \in Awaited("panel")
        BY <3>1, <3>3 DEF Awaited, Asked
      <4>2. \A k \in Awaited("panel") : requests[k].stage = "answer"
        BY <3>3, <4>1 DEF FactorInv
      <4>3. \/ unheard'
            \/ /\ requests[j].secret = users'[Admin].secret
               /\ \E c \in codes' : c.owner = Admin /\ c.batch = j
        BY <1>2, <3>3, <4>2, FactorIsLeft
      <4> QED
        BY <3>2, <4>3 DEF Stands, Works, Same
    <3> QED
      BY <1>1, <3>1, <3>2, <3>3, AskedStays
  <2> QED
    BY <2>1, <2>2
<1>6. ASSUME panel'.view = "codes"
      PROVE  Awaited("panel")' = {} /\ Stands(panel.secret, panel.batch)'
  <2>1. Awaited("panel") = {} /\ Stands(panel.secret, panel.batch)
    BY <1>1, <1>6 DEF PanelInv
  <2>2. \/ unheard'
        \/ /\ panel.secret = users'[Admin].secret
           /\ \E c \in codes' : c.owner = Admin /\ c.batch = panel.batch
    BY <1>2, <2>1, FactorIsLeft
  <2> QED
    BY <1>1, <1>7, <2>1, <2>2 DEF Stands, Works
<1> QED
  BY <1>5, <1>6 DEF PanelPart

\* An answer reaches the panel when nothing else of it is on its way.
LEMMA PanelHasHeard ==
  ASSUME TypeOK, FactorInv, PanelInv, NEW i \in Ids, Delivered(i)
  PROVE  PanelPart'
<1> DEFINE r == requests[i]
<1>1. /\ r # NoRequest /\ r.stage = "answer"
      /\ Hears(i, r.status) /\ Asks(i, r) /\ UNCHANGED <<users, codes, unheard>>
  BY DEF Delivered, At, Rows
<1>2. ASSUME NEW j \in InFlight("panel")'
      PROVE  j \in InFlight("panel") /\ j # i /\ Same(j)
  <2>1. j \in Ids /\ requests'[j] # NoRequest /\ requests'[j].page = "panel"
    BY <1>2 DEF InFlight
  <2>2. requests'[j] # Request("me", "slot", i)
    BY <2>1 DEF Request
  <2>3. requests'[j] = requests[j] /\ j # i
    BY <1>1, <2>1, <2>2 DEF Asks, TypeOK, RequestsOK
  <2> QED
    BY <2>1, <2>3 DEF InFlight, Same
<1>3. CASE r.page # "panel"
  <2>1. UNCHANGED panel
    BY <1>1, <1>3 DEF Hears, FormHears, SlotHears
  <2>2. ASSUME NEW j \in InFlight("panel")' PROVE Asked(j)'
    <3>1. Stands(requests[j].secret, j) => Stands(requests[j].secret, j)'
      BY <1>1, <1>2, <2>2 DEF Stands, Works, Same
    <3> QED
      BY <1>2, <2>1, <2>2, <3>1, AskedStays DEF PanelInv, InFlight
  <2>3. panel.view = "codes" => Awaited("panel")' = {}
    BY <1>2 DEF PanelInv, Awaited, Same
  <2>4. Stands(panel.secret, panel.batch) => Stands(panel.secret, panel.batch)'
    BY <1>1, <2>1 DEF Stands, Works
  <2> QED
    BY <2>1, <2>2, <2>3, <2>4 DEF PanelInv, PanelPart
<1>4. CASE r.page = "panel"
  <2>1. i \in InFlight("panel") /\ Asked(i)
    BY <1>1, <1>4 DEF InFlight, PanelInv
  <2>0. i \in Awaited("panel")
    BY <1>1, <2>1 DEF Awaited, Asked
  <2>2. \A j \in InFlight("panel")' : requests[j].deaf /\ requests'[j].deaf
    BY <1>2, <2>0 DEF FactorInv, Awaited, Same
  <2>7. ASSUME NEW j \in InFlight("panel")' PROVE Asked(j)'
    <3>1. Asked(j) /\ Same(j) /\ requests[j].stage # "answer" /\ j \in Ids
      BY <1>2, <2>2, <2>7 DEF PanelInv, Asked, InFlight
    <3> QED
      BY <2>2, <2>7, <3>1, AskedUnheard DEF Same
  <2>3. panel' = PanelAfter(i, r, r.status, panel)
    BY <1>1, <1>4 DEF Hears, PanelHears, Device
  <2>4. panel.view # "codes"
    BY <2>0 DEF PanelInv
  <2>5. ASSUME panel'.view = "codes"
        PROVE  /\ r.op = "enable" /\ r.status = "ok"
               /\ panel'.secret = panel.secret /\ panel'.batch = i
    BY <2>3, <2>4, <2>5 DEF PanelAfter, RenderTotpPanel, TypeOK, PagesOK
  <2>6. panel'.view = "codes" => Stands(panel.secret, panel.batch)'
    BY <1>1, <2>0, <2>1, <2>5 DEF Asked, Awaited, Stands, Works
  <2> QED
    BY <2>2, <2>6, <2>7 DEF PanelPart, Awaited
<1> QED
  BY <1>3, <1>4

LEMMA PanelBreaks ==
  ASSUME TypeOK, PanelInv, NEW i \in Ids, Breaks(i)
  PROVE  PanelPart'
<1> DEFINE r == requests[i]
           q == [r EXCEPT !.deaf = TRUE]
<1>1. /\ r # NoRequest /\ Hears(i, "network") /\ UNCHANGED <<users, codes, unheard>>
      /\ Goes(i, NoRequest) \/ (r.stage # "answer" /\ Goes(i, q))
  BY DEF Breaks, Rows, At
<1>2. /\ q.op = r.op /\ q.page = r.page /\ q.by = r.by /\ q.who = r.who
      /\ q.secret = r.secret /\ q.stage = r.stage /\ q.status = r.status /\ q.deaf
  BY <1>1, Here DEF Sound, Requests, TypeOK
<1> HIDE DEF q
<1>3. ASSUME NEW j \in InFlight("panel")'
      PROVE  /\ j \in InFlight("panel")
             /\ Same(j) \/ (j = i /\ requests'[j] = q /\ r.stage # "answer")
  <2>1. j \in Ids /\ requests'[j] # NoRequest /\ requests'[j].page = "panel"
    BY <1>3 DEF InFlight
  <2>2. requests'[j] = requests[j] \/ (j = i /\ requests'[j] = q /\ r.stage # "answer")
    BY <1>1, <2>1 DEF Goes, TypeOK, RequestsOK
  <2> QED
    BY <1>1, <1>2, <2>1, <2>2 DEF InFlight, Same
<1>4. /\ panel'.secret = panel.secret
      /\ panel'.view = "codes" => panel' = panel
  <2>1. CASE r.page # "panel"
    BY <1>1, <2>1 DEF Hears, FormHears, SlotHears
  <2>2. CASE r.page = "panel"
    <3>1. panel' = PanelAfter(i, r, "network", panel)
      BY <1>1, <2>2 DEF Hears, PanelHears, Device
    <3> QED
      BY <3>1 DEF PanelAfter, RenderTotpPanel, TypeOK, PagesOK
  <2> QED
    BY <2>1, <2>2
<1>5. ASSUME NEW j \in InFlight("panel")' PROVE Asked(j)'
  <2>1. j \in Ids /\ Asked(j)
    BY <1>3, <1>5 DEF PanelInv, InFlight
  <2>2. CASE Same(j)
    <3>1. Stands(requests[j].secret, j) => Stands(requests[j].secret, j)'
      BY <1>1, <2>2 DEF Stands, Works, Same
    <3> QED
      BY <1>4, <2>1, <2>2, <3>1, AskedStays
  <2>3. CASE j = i /\ requests'[j] = q /\ r.stage # "answer"
    BY <1>2, <2>1, <2>3, AskedUnheard
  <2> QED
    BY <1>3, <1>5, <2>2, <2>3
<1>6. ASSUME panel'.view = "codes"
      PROVE  Awaited("panel")' = {} /\ Stands(panel.secret, panel.batch)'
  <2>1. Awaited("panel") = {} /\ Stands(panel.secret, panel.batch)
    BY <1>4, <1>6 DEF PanelInv
  <2>2. \A j \in Awaited("panel")' : j \in Awaited("panel")
    BY <1>2, <1>3 DEF Awaited, Same
  <2> QED
    BY <1>1, <1>4, <1>6, <2>1, <2>2 DEF Stands, Works
<1> QED
  BY <1>5, <1>6 DEF PanelPart

LEMMA PanelStays ==
  ASSUME TypeOK, FactorInv, PanelInv, [Next]_vars
  PROVE  PanelInv'
<1>1. RequestSteps /\ TypeOK'
  BY Steps, TypesStay
<1>2. cookie'["desk"] = cookie["desk"]
  <2>1. UNCHANGED cookie \/ \E i \in Ids, status \in Status \cup {"network"} : SlotHears(i, requests[i], status)
    <3>1. CASE \E i \in Ids : Delivered(i) \/ Breaks(i)
      <4>1. PICK i \in Ids : Delivered(i) \/ Breaks(i)
        BY <3>1
      <4>2. requests[i] # NoRequest /\ requests[i].status \in Status
        BY <4>1, Here DEF Delivered, Breaks, At, TypeOK, Sound, Requests
      <4>3. \E status \in Status \cup {"network"} : Hears(i, status)
        BY <4>1, <4>2 DEF Delivered, Breaks
      <4> QED
        BY <4>3 DEF Hears, PanelHears, FormHears
    <3>2. CASE ~ \E i \in Ids : Delivered(i) \/ Breaks(i)
      BY <3>2 DEF Next, vars, pageVars, Serves, StartTotpSetup, LeavesPanel, ReopensPanel,
        TogglesDropdown, LogOut, EnableTotp, DisableTotp, OpensAccount, ChangePin, SignIn
    <3> QED
      BY <3>1, <3>2
  <2>2. ASSUME NEW i \in Ids, NEW status, SlotHears(i, requests[i], status)
        PROVE  cookie'["desk"] = cookie["desk"]
    BY <2>2 DEF SlotHears, TypeOK, PagesOK, Device
  <2> QED
    BY <2>1, <2>2
<1>3. ASSUME NEW t \in tokens', t.id = FirstSession PROVE t.owner = Admin
  <2>1. ~Opened(t)
    BY <1>3 DEF Opened, SigningIn, PanelInv, FirstSession, MeId
  <2>2. PICK s \in tokens : s.id = t.id /\ s.owner = t.owner
    BY <1>1, <2>1, WhereSessionsComeFrom
  <2> QED
    BY <1>3, <2>2 DEF PanelInv
<1>4. ASSUME requests'[MeId] # NoRequest PROVE requests'[MeId].op = "me"
  <2>1. MeId \in Ids /\ ~Begins(MeId)
    BY AccountConstants DEF MeId, Ids, Begins, TypeOK, RequestsOK
  <2> QED
    BY <1>1, <1>4, <2>1 DEF RequestSteps, Stays, Advances, AsksMe, PanelInv
<1>5. PanelPart'
  <2> DEFINE Sends(r) == /\ Send(r) /\ UNCHANGED <<users, codes, unheard>>
  <2>1. CASE UNCHANGED vars
    <3>1. /\ InFlight("panel")' = InFlight("panel") /\ Awaited("panel")' = Awaited("panel")
          /\ UNCHANGED panel
      BY <2>1 DEF vars, serverVars, pageVars, Awaited, InFlight
    <3>2. \A j \in InFlight("panel") : Asked(j) => Asked(j)'
      BY <2>1 DEF vars, serverVars, pageVars, Asked, Stands, Works
    <3>3. Stands(panel.secret, panel.batch) => Stands(panel.secret, panel.batch)'
      BY <2>1 DEF vars, serverVars, pageVars, Stands, Works
    <3> QED
      BY <3>1, <3>2, <3>3 DEF PanelInv, PanelPart
  <2>2. ASSUME NEW i \in Ids, Serves(i) \/ Delivered(i) \/ Breaks(i) PROVE PanelPart'
    BY <2>2, PanelServed, PanelHasHeard, PanelBreaks
  <2>3. CASE LeavesPanel \/ TogglesDropdown \/ \E d \in Device : OpensAccount(d)
    <3>1. UNCHANGED <<users, codes, unheard, requests>>
      BY <2>3 DEF LeavesPanel, TogglesDropdown, OpensAccount, serverVars
    <3>2. panel'.secret = panel.secret /\ (panel'.view = "codes" => panel' = panel)
      BY <2>3 DEF LeavesPanel, TogglesDropdown, OpensAccount, RenderTotpPanel, TypeOK, PagesOK
    <3>3. InFlight("panel")' = InFlight("panel") /\ Awaited("panel")' = Awaited("panel")
      BY <3>1 DEF Awaited, InFlight
    <3>4. \A j \in InFlight("panel") : Asked(j) => Asked(j)'
      BY <3>1, <3>2 DEF Asked, Stands, Works
    <3>5. panel'.view = "codes" /\ Stands(panel.secret, panel.batch) => Stands(panel.secret, panel.batch)'
      BY <3>1, <3>2 DEF Stands, Works
    <3> QED
      BY <3>2, <3>3, <3>4, <3>5 DEF PanelInv, PanelPart
  <2>4. ASSUME NEW r, Sends(r), r.page = "panel", r.by = FirstSession, r.stage = "auth",
               r.op = "enable" => r.secret = panel.secret,
               panel'.secret = panel.secret, panel'.view # "codes"
        PROVE  PanelPart'
    BY <2>4, AskedBegins DEF PanelPart
  <2>5. ASSUME NEW r, Sends(r), r.page # "panel", UNCHANGED panel PROVE PanelPart'
    <3>1. Stands(panel.secret, panel.batch) => Stands(panel.secret, panel.batch)'
      BY <2>5 DEF Stands, Works
    <3> QED
      BY <2>5, <3>1, AskedBegins DEF PanelInv, PanelPart
  <2>6. cookie["desk"] = FirstSession
    BY DEF PanelInv
  <2>7. CASE StartTotpSetup
    <3> DEFINE r == Request("setup", "panel", cookie["desk"])
    <3>1. r.page = "panel" /\ r.by = FirstSession /\ r.stage = "auth" /\ r.op = "setup"
      BY <2>6 DEF Request
    <3>2. panel'.secret = panel.secret /\ panel'.view = "starting" /\ Sends(r)
      BY <2>7 DEF StartTotpSetup, TypeOK, PagesOK, Rows
    <3> HIDE DEF r
    <3> QED
      BY <2>4, <3>1, <3>2
  <2>8. CASE \E code \in {NoCode, Code("totp", panel.secret)} : EnableTotp(code)
    <3>1. PICK code : EnableTotp(code)
      BY <2>8
    <3> DEFINE r == [Request("enable", "panel", cookie["desk"])
                       EXCEPT !.secret = panel.secret, !.code = code]
    <3>2. r.page = "panel" /\ r.by = FirstSession /\ r.stage = "auth" /\ r.secret = panel.secret
      BY <2>6 DEF Request
    <3>3. panel' = panel /\ panel.view = "confirm" /\ Sends(r)
      BY <3>1 DEF EnableTotp, Rows, pageVars
    <3> HIDE DEF r
    <3> QED
      BY <2>4, <3>2, <3>3
  <2>9. CASE \E code \in Typed : DisableTotp(code)
    <3>1. PICK code : DisableTotp(code)
      BY <2>9
    <3> DEFINE r == [Request("disable", "panel", cookie["desk"]) EXCEPT !.code = code]
    <3>2. r.page = "panel" /\ r.by = FirstSession /\ r.stage = "auth" /\ r.op = "disable"
      BY <2>6 DEF Request
    <3>3. panel' = panel /\ panel.view = "on" /\ Sends(r)
      BY <3>1 DEF DisableTotp, Rows, pageVars
    <3> HIDE DEF r
    <3> QED
      BY <2>4, <3>2, <3>3
  <2>10. CASE LogOut
    <3> DEFINE r == Request("logout", "slot", cookie["phone"])
    <3>1. r.page = "slot"
      BY DEF Request
    <3>2. UNCHANGED panel /\ Sends(r)
      BY <2>10 DEF LogOut, Rows, pageVars
    <3> HIDE DEF r
    <3> QED
      BY <2>5, <3>1, <3>2
  <2>11. CASE \E d \in Device, current, new \in Pin, code \in Typed : ChangePin(d, current, new, code)
    <3>1. PICK d \in Device, current \in Pin, new \in Pin, code \in Typed : ChangePin(d, current, new, code)
      BY <2>11
    <3> DEFINE r == [Request("pin", d, cookie[d]) EXCEPT !.pin = current, !.new = new, !.code = code]
    <3>2. r.page = d /\ d # "panel"
      BY DEF Request, Device
    <3>3. UNCHANGED panel /\ Sends(r)
      BY <3>1 DEF ChangePin, Rows
    <3> HIDE DEF r
    <3> QED
      BY <2>5, <3>2, <3>3
  <2>12. CASE \E pin \in Pin, code \in Typed : SignIn(pin, code)
    <3>1. PICK pin, code : SignIn(pin, code)
      BY <2>12
    <3> DEFINE r == [Request("login", "slot", NoSession) EXCEPT !.pin = pin, !.code = code]
    <3>2. r.page = "slot"
      BY DEF Request
    <3>3. UNCHANGED panel /\ Sends(r)
      BY <3>1 DEF SignIn, Rows
    <3> HIDE DEF r
    <3> QED
      BY <2>5, <3>2, <3>3
  <2>13. CASE ReopensPanel
    <3>1. ASSUME NEW j \in InFlight("panel")' PROVE requests'[j].deaf /\ Asked(j)'
      <4>1. j \in Ids /\ requests'[j] # NoRequest /\ requests'[j].page = "panel"
        BY <3>1 DEF InFlight
      <4>2. /\ requests[j] # NoRequest /\ requests[j].page = "panel"
            /\ requests'[j].deaf /\ requests[j].stage # "answer"
            /\ requests'[j].op = requests[j].op /\ requests'[j].stage = requests[j].stage
            /\ requests'[j].by = requests[j].by /\ requests'[j].who = requests[j].who
        BY <2>13, <4>1, PanelIsLeft
      <4>3. Asked(j)
        BY <4>1, <4>2 DEF PanelInv, InFlight
      <4> QED
        BY <4>1, <4>2, <4>3, AskedUnheard
    <3>2. panel'.view # "codes"
      BY <2>13 DEF ReopensPanel, RenderTotpPanel, TypeOK, PagesOK
    <3> QED
      BY <3>1, <3>2 DEF PanelPart
  <2> HIDE DEF Sends
  <2> QED
    BY <2>1, <2>2, <2>3, <2>13, <2>7, <2>8, <2>9, <2>10, <2>11, <2>12 DEF Next
<1> QED
  BY <1>2, <1>3, <1>4, <1>5 DEF PanelInv, PanelPart

LEMMA PanelAtFirst == Init => PanelInv
<1> SUFFICES ASSUME Init PROVE PanelInv
  OBVIOUS
<1>1. /\ cookie["desk"] = FirstSession
      /\ \A t \in tokens : t.owner = Admin
      /\ \A i \in Ids : requests[i] = NoRequest
  BY DEF Init, ServerInit, Device
<1>2. panel.view # "codes" /\ MeId \in Ids
  BY AccountConstants DEF Init, MeId, Ids
<1> QED
  BY <1>1, <1>2 DEF PanelInv, Awaited, InFlight

\* All of it together.
AccountsInv == TypeOK /\ FactorInv /\ PanelInv

LEMMA AccountsAtFirst == Init => AccountsInv
BY TypesAtFirst, FactorAtFirst, PanelAtFirst DEF AccountsInv

LEMMA AccountsStay == ASSUME ~Impatient, AccountsInv, [Next]_vars PROVE AccountsInv'
<1>1. ASSUME NEW i \in Ids, At(i, "commit") PROVE requests[i].who = Admin
  <2>1. requests[i] # NoRequest /\ requests[i].op = "enable" /\ requests[i].page = "panel"
        /\ requests[i].stage = "commit"
    BY <1>1, Here DEF At, AccountsInv, TypeOK, Sound, Fits
  <2> QED
    BY <2>1 DEF AccountsInv, PanelInv, Asked, InFlight
<1> QED
  BY <1>1, TypesStay, FactorStays, PanelStays DEF AccountsInv

\* An account with a second factor has the codes that came with it and none of an
\* earlier one (totp_enable, totp_disable), through failures between the two
\* statements that turn it off and through pages that are left and opened again,
\* as long as people who stay do not submit again what is still being answered.
\* It has lost them, if at all, to a request whose page had been left.
THEOREM FactorKeepsItsCodes == ~Impatient /\ Spec => []FactorHasItsCodes
<1>1. AccountsInv => FactorHasItsCodes
  BY FactorMeans DEF AccountsInv
<1>2. CASE Impatient
  BY <1>2, PTL
<1>3. CASE ~Impatient
  <2>1. AccountsInv /\ [Next]_vars => AccountsInv'
    BY <1>3, AccountsStay
  <2> QED
    BY <1>1, <2>1, AccountsAtFirst, PTL DEF Spec
<1> QED
  BY <1>2, <1>3

\* The codes the panel asks its administrator to save let somebody in: they are
\* those of the factor in force (totp_enable, totp_disable), as long as people who
\* stay do not submit again what is still being answered, and no request of a
\* page that was left has been at the factor since.
THEOREM CodesAreWorthSaving == ~Impatient /\ Spec => []ShownCodesWork
<1>1. AccountsInv => ShownCodesWork
  BY DEF AccountsInv, PanelInv, Stands, Works, ShownCodesWork, SavedCodesWork
<1>2. CASE Impatient
  BY <1>2, PTL
<1>3. CASE ~Impatient
  <2>1. AccountsInv /\ [Next]_vars => AccountsInv'
    BY <1>3, AccountsStay
  <2> QED
    BY <1>1, <2>1, AccountsAtFirst, PTL DEF Spec
<1> QED
  BY <1>2, <1>3
=============================================================================
