---------------------------- MODULE AccountPages ----------------------------
(* The pages that accounts are used through, over the handlers of Accounts:   *)
(* the second factor's panel of the admin page (frontend/src/secret_admin.ts) *)
(* and the account page (secret_account.ts) at a desk that is signed in, and  *)
(* the sign-in form (secret_login.ts) and the account page on a phone.        *)
EXTENDS Accounts

CONSTANTS InUse,        \* the sets of pages somebody may be at
          Impatient     \* whether people submit again what is still being answered

ASSUME PageConstants == InUse \subseteq SUBSET Page /\ Impatient \in BOOLEAN

VARIABLES pages,        \* the pages somebody is at
          cookie,       \* the session of each device
          seen,         \* secrets and batches of codes shown to the administrator
          panel,        \* the second factor's panel
          form,         \* the account page of each device
          slot          \* the sign-in form

pageVars == <<pages, cookie, seen, panel, form, slot>>
vars == <<serverVars, pageVars>>

Device == {"desk", "phone"}
Closed == [asks |-> FALSE, busy |-> FALSE, open |-> FALSE]

Typed == {NoCode} \cup {Code("totp", s) : s \in seen.secrets}
                  \cup {Code("recovery", b) : b \in seen.batches}

\* What a page is still to be answered; a page that has been left hears nothing.
Awaited(p) == {i \in InFlight(p) : ~requests[i].deaf}

Patient(p) == Impatient \/ Awaited(p) = {}

(* The panel. *)

RenderTotpPanel(p) == [p EXCEPT !.view = IF p.me THEN "on" ELSE "off"]

\* The button that starts is disabled by it.
StartTotpSetup ==
  /\ "panel" \in pages /\ panel.view = "off" /\ Patient("panel")
  /\ Send(Request("setup", "panel", cookie["desk"]))
  /\ panel' = [panel EXCEPT !.view = "starting"]
  /\ UNCHANGED <<Rows, made, faults, pages, cookie, seen, form, slot>>

\* Enter sends the code whether or not the button is disabled.
EnableTotp(code) ==
  /\ panel.view = "confirm" /\ Patient("panel")
  /\ Send([Request("enable", "panel", cookie["desk"])
             EXCEPT !.secret = panel.secret, !.code = code])
  /\ UNCHANGED <<Rows, made, faults, pageVars>>

DisableTotp(code) ==
  /\ "panel" \in pages /\ panel.view = "on" /\ Patient("panel")
  /\ Send([Request("disable", "panel", cookie["desk"]) EXCEPT !.code = code])
  /\ UNCHANGED <<Rows, made, faults, pageVars>>

\* "cancel" and "Done".
LeavesPanel ==
  /\ panel.view \in {"confirm", "codes"}
  /\ panel' = RenderTotpPanel(panel)
  /\ UNCHANGED <<serverVars, pages, cookie, seen, form, slot>>

\* The admin page is left, or loaded again, and opened: the router's gate hands
\* over the account as it is then, a second factor that could not be read as off,
\* and the handlers of the earlier visit go on, with nobody there for their answers.
ReopensPanel ==
  /\ "panel" \in pages
  /\ \E t \in tokens, on \in BOOLEAN :
       /\ t.id = cookie["desk"]
       /\ \/ on = (users[t.owner].secret # NoSecret) /\ UNCHANGED faults
          \/ ~on /\ Fault
       /\ panel' = RenderTotpPanel([panel EXCEPT !.me = on])
  /\ requests' = [i \in Ids |->
       IF i \notin InFlight("panel") THEN requests[i]
       ELSE IF At(i, "answer") THEN NoRequest
       ELSE [requests[i] EXCEPT !.deaf = TRUE]]
  /\ UNCHANGED <<Rows, sent, made, pages, cookie, seen, form, slot>>

\* Mutant of PanelAfter: an answer that refuses is taken for one that enables.
PanelAfterUnchecked(i, r, status, p) ==
  IF r.op = "setup"
  THEN IF status = "ok" THEN [p EXCEPT !.view = "confirm", !.secret = r.secret]
       ELSE RenderTotpPanel(p)
  ELSE IF r.op = "enable" THEN [p EXCEPT !.view = "codes", !.me = TRUE, !.batch = i]
  ELSE IF status # "ok" THEN p
  ELSE RenderTotpPanel([p EXCEPT !.me = FALSE])

\* What the panel makes of an answer.
PanelAfter(i, r, status, p) ==
  IF r.op = "setup"
  THEN IF status = "ok" THEN [p EXCEPT !.view = "confirm", !.secret = r.secret]
       ELSE RenderTotpPanel(p)
  ELSE IF status # "ok" THEN p
  ELSE IF r.op = "enable" THEN [p EXCEPT !.view = "codes", !.me = TRUE, !.batch = i]
  ELSE RenderTotpPanel([p EXCEPT !.me = FALSE])

PanelHears(i, r, status) ==
  /\ panel' = PanelAfter(i, r, status, panel)
  /\ seen' = [seen EXCEPT
       !.secrets = IF r.op = "setup" /\ status = "ok" THEN @ \cup {r.secret} ELSE @,
       !.batches = IF r.op = "enable" /\ status = "ok" THEN @ \cup {i} ELSE @]
  /\ UNCHANGED <<cookie, form, slot>>

(* The account page. *)

\* The router's gate hands over the account as it is then.
OpensAccount(d) ==
  /\ d \in pages /\ ~form[d].open
  /\ \E t \in tokens :
       /\ t.id = cookie[d]
       /\ form' = [form EXCEPT ![d] = [open |-> TRUE, busy |-> FALSE,
                                       asks |-> users[t.owner].secret # NoSecret]]
  /\ UNCHANGED <<serverVars, pages, cookie, seen, panel, slot>>

ChangePin(d, current, new, code) ==
  /\ form[d].open /\ ~form[d].busy
  /\ new # current
  /\ ~form[d].asks => code = NoCode
  /\ Send([Request("pin", d, cookie[d]) EXCEPT !.pin = current, !.new = new, !.code = code])
  /\ form' = [form EXCEPT ![d].busy = TRUE]
  /\ UNCHANGED <<Rows, made, faults, pages, cookie, seen, panel, slot>>

FormHears(d) ==
  /\ form' = [form EXCEPT ![d].busy = FALSE]
  /\ UNCHANGED <<cookie, seen, panel, slot>>

(* The sign-in form, a dropdown. *)

RenderForm == [view |-> "form", open |-> FALSE, totpRequired |-> FALSE, busy |-> FALSE]

\* The button, Escape or a click elsewhere.
TogglesDropdown ==
  /\ "slot" \in pages /\ slot.view = "form"
  /\ slot' = [slot EXCEPT !.open = ~@]
  /\ UNCHANGED <<serverVars, pages, cookie, seen, panel, form>>

SignIn(pin, code) ==
  /\ slot.view = "form" /\ slot.open /\ ~slot.busy
  /\ ~slot.totpRequired => code = NoCode
  /\ Send([Request("login", "slot", NoSession) EXCEPT !.pin = pin, !.code = code])
  /\ slot' = [slot EXCEPT !.busy = TRUE]
  /\ UNCHANGED <<Rows, made, faults, pages, cookie, seen, panel, form>>

LogOut ==
  /\ slot.view = "chip" /\ Patient("slot")
  /\ Send(Request("logout", "slot", cookie["phone"]))
  /\ UNCHANGED <<Rows, made, faults, pageVars>>

SlotAfter(r, status, s) ==
  IF r.op = "login"
  THEN IF status = "ok" THEN [s EXCEPT !.open = FALSE]
       ELSE [s EXCEPT !.busy = FALSE, !.totpRequired = @ \/ status = "challenge"]
  ELSE IF r.op = "me" /\ status = "ok" THEN [RenderForm EXCEPT !.view = "chip"]
  ELSE RenderForm

SlotHears(i, r, status) ==
  /\ slot' = SlotAfter(r, status, slot)
  /\ cookie' = IF status # "ok" \/ r.op = "me" THEN cookie
               ELSE [cookie EXCEPT !["phone"] = IF r.op = "login" THEN i ELSE NoSession]
  /\ UNCHANGED <<seen, panel, form>>

(* Answers. *)

Hears(i, status) ==
  LET r == requests[i] IN
  \/ r.page = "panel" /\ PanelHears(i, r, status)
  \/ r.page \in Device /\ FormHears(r.page)
  \/ r.page = "slot" /\ SlotHears(i, r, status)

\* A signed-in slot asks who that is.
Asks(i, r) ==
  requests' = IF r.op = "login" /\ r.status = "ok"
              THEN [requests EXCEPT ![i] = NoRequest, ![MeId] = Request("me", "slot", i)]
              ELSE [requests EXCEPT ![i] = NoRequest]

Delivered(i) ==
  /\ At(i, "answer") /\ Hears(i, requests[i].status) /\ Asks(i, requests[i])
  /\ UNCHANGED <<Rows, sent, made, faults, pages>>

\* The connection breaks: the page hears of no answer; a handler still at work
\* goes on until it is done or dropped.
Breaks(i) ==
  /\ requests[i] # NoRequest /\ ~requests[i].deaf /\ Fault
  /\ Hears(i, "network")
  /\ Goes(i, IF At(i, "answer") THEN NoRequest ELSE [requests[i] EXCEPT !.deaf = TRUE])
  /\ UNCHANGED <<Rows, sent, made, pages>>

Init ==
  /\ ServerInit
  /\ pages \in InUse
  /\ cookie = [d \in Device |-> IF d = "desk" THEN FirstSession ELSE NoSession]
  /\ LET on == users[Admin].secret # NoSecret IN
     /\ seen = [secrets |-> IF on THEN {1} ELSE {}, batches |-> IF on THEN {0} ELSE {}]
     /\ panel = [view |-> IF on THEN "on" ELSE "off", me |-> on, secret |-> NoSecret,
                 batch |-> NoSession]
  /\ form = [d \in Device |-> Closed]
  /\ slot = RenderForm

Serves(i) == Serve(i) /\ UNCHANGED pageVars

Next ==
  \/ \E i \in Ids : Serves(i) \/ Delivered(i) \/ Breaks(i)
  \/ StartTotpSetup \/ LeavesPanel \/ ReopensPanel \/ TogglesDropdown \/ LogOut
  \/ \E code \in {NoCode, Code("totp", panel.secret)} : EnableTotp(code)
  \/ \E code \in Typed : DisableTotp(code)
  \/ \E d \in Device : OpensAccount(d)
  \/ \E d \in Device, current, new \in Pin, code \in Typed : ChangePin(d, current, new, code)
  \/ \E pin \in Pin, code \in Typed : SignIn(pin, code)

Spec == Init /\ [][Next]_vars

(* What should hold of it. *)

\* A recovery code lets somebody in once, whichever requests present it at the
\* same moment and whichever of them break off (auth.rs: "so each code works
\* exactly once").
CodesWorkOnce == \A b \in 0..MaxSent : redeemed[b] <= 1

\* Once a change of PIN has ended the other sessions of an account, there is
\* none left that was opened with an earlier PIN, except by a login that had
\* read the account before that (auth.rs: "it must sign the other sessions out").
OldSessionsEnd == \A t \in tokens : t.late \/ t.changes >= ended[t.owner]

\* An account with a second factor has the codes that came with it, and no codes
\* of an earlier one, through a failure between the two statements that turn it
\* off, the panel opened anew and the factor set up again (auth.rs: "replace any
\* prior recovery codes").  It may have lost them only to a request whose page was
\* left before its answer.
FactorHasItsCodes ==
  \A a \in Account :
    users[a].secret # NoSecret =>
      LET batches == {c.batch : c \in {c \in codes : c.owner = a}} IN
      /\ batches \subseteq {enrolled[a]}
      /\ unheard \/ enrolled[a] \in batches

\* Once it awaits no answer, the codes the panel tells its administrator to save
\* are those of the factor in force (secret_admin.ts: "Save these recovery codes
\* now — they won't be shown again").
SavedCodesWork ==
  panel.view = "codes" /\ Awaited("panel") = {} =>
    /\ panel.secret = users[Admin].secret
    /\ \E c \in codes : c.owner = Admin /\ c.batch = panel.batch

\* They are, as long as no request of an earlier visit to the page has written the
\* factor since it was enabled: a disabling whose page was left deletes the codes
\* also after the factor has been set up again (auth.rs:1075).
ShownCodesWork == ~unheard => SavedCodesWork
=============================================================================
