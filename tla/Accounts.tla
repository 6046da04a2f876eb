------------------------------ MODULE Accounts ------------------------------
(* The accounts of the backend (backend/src/auth.rs): their PINs, sessions,   *)
(* second factors and recovery codes, and the handlers that read and write    *)
(* them.  A handler gives up control at every statement it sends to the       *)
(* database, so every statement is a step.  Hashes are what they are hashes   *)
(* of; one recovery code stands for the ten of a batch.  Accounts are neither *)
(* created nor deleted here.                                                  *)
EXTENDS Integers, FiniteSets, FiniteSetsExt

CONSTANTS Account, Pin,
          Admin,        \* the administrator: only the admin page sets up a second factor
          Page,         \* the pages that send requests
          NoAccount, NoPin, NoRequest,
          MaxSent,      \* requests sent (a bound)
          MaxFaults     \* statements that fail, connections that break (a bound)

ASSUME AccountConstants == /\ MaxSent \in Nat /\ MaxFaults \in Nat
                           /\ Cardinality(Account) <= Cardinality(Pin)
                           /\ Admin \in Account /\ NoAccount \notin Account

VARIABLES users,        \* each account's PIN and second factor
          codes,        \* the rows of user_recovery_codes
          tokens,       \* the rows of user_tokens
          requests,     \* the handlers at work and the answers on their way
          sent,         \* requests sent
          made,         \* secrets generated
          faults,       \* faults so far
          redeemed,     \* history: how often each batch's code was accepted
          ended,        \* history: the PIN whose change last ended an account's sessions
          enrolled,     \* history: the batch an account was last given
          unheard       \* history: whether a request whose page had gone has written
                        \* a second factor since one whose page was there enabled it

serverVars == <<users, codes, tokens, requests, sent, made, faults, redeemed, ended, enrolled,
                unheard>>

\* A request has the number of its sending; the one for /auth/me that follows a
\* sign-in has a number of its own.
Ids == 0..MaxSent
MeId == 0
NoSecret == 0
NoSession == -1
FirstSession == 0

\* What is typed for a second factor: a current code of a secret, a recovery
\* code of a batch, or something that is neither.
Code(kind, of) == [kind |-> kind, of |-> of]
NoCode == Code("none", 0)

\* A request as it is sent; `by` is the session its cookie names.  `who`,
\* `changes` and `late` come with the answers of the database.
Request(op, page, by) ==
  [op |-> op, page |-> page, by |-> by, pin |-> NoPin, new |-> NoPin, code |-> NoCode,
   secret |-> NoSecret, stage |-> IF op = "login" THEN "load"
                                  ELSE IF op = "logout" THEN "unset" ELSE "auth",
   who |-> NoAccount, changes |-> 0, late |-> FALSE, deaf |-> FALSE, status |-> "none"]

At(i, stage) == requests[i] # NoRequest /\ requests[i].stage = stage
InFlight(p) == {i \in Ids : requests[i] # NoRequest /\ requests[i].page = p}
Goes(i, r) == requests' = [requests EXCEPT ![i] = r]
Moves(i, stage) == Goes(i, [requests[i] EXCEPT !.stage = stage])

\* The answer to request i; nobody is there to take a deaf one's.
Answered(r, status) ==
  IF r.deaf THEN NoRequest
  ELSE [Request(r.op, r.page, NoSession) EXCEPT !.stage = "answer", !.status = status,
                                                !.secret = r.secret]
Answer(i, status) == Goes(i, Answered(requests[i], status))

Send(r) == sent < MaxSent /\ sent' = sent + 1 /\ Goes(sent + 1, r)

Current(r, s) == r.code.kind = "totp" /\ s # NoSecret /\ r.code.of = s

Rows == <<users, codes, tokens, redeemed, ended, enrolled, unheard>>

\* login: the ban, then the account whose hash the PIN verifies against (two
\* may share it), then its second factor.
LoadUsers(i) ==
  /\ At(i, "load")
  /\ LET r == requests[i]
         found == {a \in Account : users[a].pin = r.pin} IN
     \/ Answer(i, "banned")
     \/ found = {} /\ Answer(i, "wrong")
     \/ \E a \in found :
          LET known == [r EXCEPT !.who = a, !.changes = users[a].changes] IN
          \/ /\ users[a].secret = NoSecret \/ Current(r, users[a].secret)
             /\ Goes(i, [known EXCEPT !.stage = "mint"])
          \/ /\ users[a].secret # NoSecret /\ ~Current(r, users[a].secret)
             /\ Goes(i, IF r.code.kind = "recovery" THEN [known EXCEPT !.stage = "consume"]
                        ELSE Answered(r, "challenge"))
  /\ UNCHANGED <<Rows, sent, made, faults>>

Authenticated ==
  [me |-> "tell", pin |-> "verify", setup |-> "make", enable |-> "commit", disable |-> "check"]

\* authenticate: the session of the cookie, if it is still there.  A change of
\* PIN asks for the ban next.
Authenticate(i) ==
  /\ At(i, "auth")
  /\ LET r == requests[i]
         mine == {t \in tokens : t.id = r.by} IN
     \/ mine = {} /\ Answer(i, "wrong")
     \/ \E t \in mine :
          Goes(i, [r EXCEPT !.who = t.owner, !.stage = Authenticated[r.op]])
     \/ r.op = "pin" /\ mine # {} /\ Answer(i, "banned")
  /\ UNCHANGED <<Rows, sent, made, faults>>

\* me
Tell(i) ==
  /\ At(i, "tell")
  /\ Answer(i, "ok")
  /\ UNCHANGED <<Rows, sent, made, faults>>

\* Mutant of Redeemable: a code is taken whether it has been used or not.
RedeemableAgain(owner, batch) == {c \in codes : c.owner = owner /\ c.batch = batch}

Redeemable(owner, batch) ==
  {c \in codes : c.owner = owner /\ c.batch = batch /\ ~c.used}

Accepted == [login |-> "mint", pin |-> "compare", disable |-> "clear"]

\* consume_recovery_code, in a login, a change of PIN or a disabling.
Consume(i) ==
  /\ At(i, "consume")
  /\ LET r == requests[i]
         found == Redeemable(r.who, r.code.of) IN
     IF found = {}
     THEN /\ Answer(i, IF r.op = "login" THEN "challenge" ELSE "wrong")
          /\ UNCHANGED <<codes, redeemed>>
     ELSE /\ codes' = (codes \ found) \cup {[c EXCEPT !.used = TRUE] : c \in found}
          /\ redeemed' = [redeemed EXCEPT ![r.code.of] = @ + 1]
          /\ Moves(i, Accepted[r.op])
  /\ UNCHANGED <<users, tokens, ended, enrolled, unheard, sent, made, faults>>

Mint(i) ==
  /\ At(i, "mint")
  /\ tokens' = tokens \cup {[id |-> i, owner |-> requests[i].who,
                             changes |-> requests[i].changes, late |-> requests[i].late]}
  /\ Answer(i, "ok")
  /\ UNCHANGED <<users, codes, redeemed, ended, enrolled, unheard, sent, made, faults>>

\* change_pin: the PIN and the second factor again.
VerifyPin(i) ==
  /\ At(i, "verify")
  /\ LET r == requests[i] u == users[r.who] IN
     \/ u.pin # r.pin /\ Answer(i, "wrong")
     \/ /\ u.pin = r.pin
        /\ u.secret = NoSecret \/ Current(r, u.secret)
        /\ Moves(i, "compare")
     \/ /\ u.pin = r.pin /\ u.secret # NoSecret /\ ~Current(r, u.secret)
        /\ IF r.code.kind = "recovery" THEN Moves(i, "consume") ELSE Answer(i, "wrong")
  /\ UNCHANGED <<Rows, sent, made, faults>>

\* The new PIN is compared with the others'.
ComparePins(i) ==
  /\ At(i, "compare")
  /\ LET r == requests[i] IN
     IF r.new = r.pin \/ \E a \in Account \ {r.who} : users[a].pin = r.new
     THEN Answer(i, "refused") ELSE Moves(i, "write")
  /\ UNCHANGED <<Rows, sent, made, faults>>

WritePin(i) ==
  /\ At(i, "write")
  /\ LET r == requests[i] n == users[r.who].changes + 1 IN
     /\ users' = [users EXCEPT ![r.who] = [@ EXCEPT !.pin = r.new, !.changes = n]]
     /\ Goes(i, [r EXCEPT !.stage = "revoke", !.changes = n])
  /\ UNCHANGED <<codes, tokens, redeemed, ended, enrolled, unheard, sent, made, faults>>

\* Mutant of Survives: the sessions of the account with a second factor stay.
SurvivesWithFactor(t, r) == t.owner # r.who \/ t.id = r.by \/ users[r.who].secret # NoSecret

Survives(t, r) == t.owner # r.who \/ t.id = r.by

\* Every session of the account but the caller's ends.  For the history, the
\* caller's counts as one of the new PIN, and a login that has read its row
\* before this and opens its session after it as late.
RevokeOthers(i) ==
  /\ At(i, "revoke")
  /\ LET r == requests[i]
         n == Max({ended[r.who], r.changes}) IN
     /\ ended' = [ended EXCEPT ![r.who] = n]
     /\ tokens' = {IF t.id = r.by THEN [t EXCEPT !.changes = n] ELSE t :
                     t \in {t \in tokens : Survives(t, r)}}
     /\ requests' = [j \in Ids |->
          IF j = i THEN Answered(r, "ok")
          ELSE IF requests[j] # NoRequest /\ requests[j].op = "login" /\ requests[j].who = r.who
               THEN [requests[j] EXCEPT !.late = TRUE] ELSE requests[j]]
  /\ UNCHANGED <<users, codes, redeemed, enrolled, unheard, sent, made, faults>>

\* totp_setup: a fresh secret, stored nowhere.
MakeSecret(i) ==
  /\ At(i, "make")
  /\ made' = made + 1
  /\ Goes(i, Answered([requests[i] EXCEPT !.secret = made + 1], "ok"))
  /\ UNCHANGED <<Rows, sent, faults>>

\* Mutant of Replaced: the codes of earlier batches stay.
ReplacedKeeping(owner, batch) ==
  codes \cup {[owner |-> owner, batch |-> batch, used |-> FALSE]}

Replaced(owner, batch) ==
  {c \in codes : c.owner # owner} \cup {[owner |-> owner, batch |-> batch, used |-> FALSE]}

\* totp_enable: one transaction for the secret and its codes.  The code is
\* compared with the secret that comes with it.
Enable(i) ==
  /\ At(i, "commit")
  /\ LET r == requests[i] IN
     IF ~Current(r, r.secret) THEN Answer(i, "refused") /\ UNCHANGED Rows
     ELSE /\ users' = [users EXCEPT ![r.who].secret = r.secret]
          /\ codes' = Replaced(r.who, i)
          /\ enrolled' = [enrolled EXCEPT ![r.who] = i]
          /\ unheard' = r.deaf
          /\ Answer(i, "ok") /\ UNCHANGED <<tokens, redeemed, ended>>
  /\ UNCHANGED <<sent, made, faults>>

\* totp_disable: a code, then two statements.
CheckFactor(i) ==
  /\ At(i, "check")
  /\ LET r == requests[i] s == users[r.who].secret IN
     \/ s = NoSecret /\ Answer(i, "refused")
     \/ Current(r, s) /\ Moves(i, "clear")
     \/ /\ s # NoSecret /\ ~Current(r, s)
        /\ IF r.code.kind = "recovery" THEN Moves(i, "consume") ELSE Answer(i, "wrong")
  /\ UNCHANGED <<Rows, sent, made, faults>>

ClearSecret(i) ==
  /\ At(i, "clear") /\ Moves(i, "wipe")
  /\ users' = [users EXCEPT ![requests[i].who].secret = NoSecret]
  /\ unheard' = (unheard \/ requests[i].deaf)
  /\ UNCHANGED <<codes, tokens, redeemed, ended, enrolled, sent, made, faults>>

WipeCodes(i) ==
  /\ At(i, "wipe") /\ Answer(i, "ok")
  /\ codes' = {c \in codes : c.owner # requests[i].who}
  /\ unheard' = (unheard \/ requests[i].deaf)
  /\ UNCHANGED <<users, tokens, redeemed, ended, enrolled, sent, made, faults>>

\* logout: answers the same whatever becomes of the statement.
Unset(i) ==
  /\ At(i, "unset") /\ Answer(i, "ok")
  /\ tokens' = {t \in tokens : t.id # requests[i].by}
  /\ UNCHANGED <<users, codes, redeemed, ended, enrolled, unheard, sent, made, faults>>

Fault == faults < MaxFaults /\ faults' = faults + 1

\* A statement fails: the handler answers 500, except that a code that could
\* not be redeemed counts as wrong, a session that could not be deleted as gone
\* and a second factor that could not be read as off.  What it has written stays
\* written.
StatementFails(i) ==
  /\ Fault /\ requests[i] # NoRequest /\ requests[i].stage # "answer"
  /\ LET r == requests[i] IN
     Answer(i, IF r.stage \in {"unset", "tell"} THEN "ok"
               ELSE IF r.stage # "consume" THEN "error"
               ELSE IF r.op = "login" THEN "challenge" ELSE "wrong")
  /\ UNCHANGED <<Rows, sent, made>>

\* hyper drops the handler of a connection that has gone, wherever it waits.
Dropped(i) ==
  /\ requests[i] # NoRequest /\ requests[i].deaf
  /\ Goes(i, NoRequest) /\ UNCHANGED <<Rows, sent, made, faults>>

ServerInit ==
  /\ \E pins \in [Account -> Pin], s \in {NoSecret, 1} :
       /\ \A a, b \in Account : a # b => pins[a] # pins[b]
       /\ users = [a \in Account |-> [pin |-> pins[a], changes |-> 0,
                                     secret |-> IF a = Admin THEN s ELSE NoSecret]]
  /\ codes = {[owner |-> a, batch |-> 0, used |-> FALSE] :
                a \in {a \in Account : users[a].secret # NoSecret}}
  /\ tokens = {[id |-> FirstSession, owner |-> Admin, changes |-> 0, late |-> FALSE]}
  /\ requests = [i \in Ids |-> NoRequest]
  /\ sent = 0 /\ made = 1 /\ faults = 0
  /\ redeemed = [b \in 0..MaxSent |-> 0]
  /\ ended = [a \in Account |-> 0]
  /\ enrolled = [a \in Account |-> 0]
  /\ unheard = FALSE

Serve(i) ==
  \/ LoadUsers(i) \/ Authenticate(i) \/ Tell(i) \/ Consume(i) \/ Mint(i)
  \/ VerifyPin(i) \/ ComparePins(i) \/ WritePin(i) \/ RevokeOthers(i)
  \/ MakeSecret(i) \/ Enable(i) \/ CheckFactor(i) \/ ClearSecret(i) \/ WipeCodes(i)
  \/ Unset(i) \/ StatementFails(i) \/ Dropped(i)
=============================================================================
