---------------------------- MODULE BarcodePage ----------------------------
(* The page of QR codes and barcodes (frontend/src/secret_barcode.ts).  A   *)
(* run builds its text at once, waits for a library that is fetched from a  *)
(* CDN and kept, and draws with the settings of that moment.  What a text   *)
(* is made of (address, Wi-Fi) is left out; the icon is part of the look.   *)
EXTENDS Integers, FiniteSets

CONSTANTS Texts,        \* what is typed
          NoText,       \* nothing typed
          Refused,      \* texts no barcode of the chosen format has
          Looks,        \* colours, error correction, format
          NoCode,       \* no preview
          MaxRuns       \* bound on the runs started

ASSUME BarcodeConstants ==
  /\ Refused \subseteq Texts /\ NoText \notin Texts /\ MaxRuns \in Nat
  /\ NoCode \notin [kind : {"qr", "barcode"}, text : Texts, look : Looks]

VARIABLES kind, text, look, libs, runs, requestId, codeAsked, codeShown, generate,
          downloads, status

codeVars == <<kind, text, look, libs, runs, requestId, codeAsked, codeShown, generate,
              downloads, status>>

Kinds == {"qr", "barcode"}

BarcodeInit ==
  /\ kind = "qr" /\ text = NoText /\ look \in Looks
  /\ libs = [k \in Kinds |-> "fetched"]                 \* warmUp
  /\ runs = {} /\ requestId = 0 /\ codeAsked = NoCode /\ codeShown = NoCode
  /\ generate = TRUE /\ downloads = FALSE /\ status = ""

\* The controls.  A run that waits has its text and kind, not yet its look.
Type(t) == text' = t /\ UNCHANGED <<kind, look>>
ChooseKind(k) == kind' = k /\ UNCHANGED <<text, look>>
ChooseLook(l) == look' = l /\ UNCHANGED <<kind, text>>
Control ==
  /\ \/ \E t \in Texts \cup {NoText} : Type(t)
     \/ \E k \in Kinds : ChooseKind(k)
     \/ \E l \in Looks : ChooseLook(l)
  /\ UNCHANGED <<libs, runs, requestId, codeAsked, codeShown, generate, downloads, status>>

\* run: by the button while it is enabled, by Ctrl+Enter at any time.
Run(byKey) ==
  /\ byKey \/ generate
  /\ IF text = NoText
     THEN status' = "nothing" /\ UNCHANGED <<runs, requestId, codeAsked, generate, downloads>>
     ELSE /\ requestId < MaxRuns /\ requestId' = requestId + 1
          /\ codeAsked' = [kind |-> kind, text |-> text]
          /\ runs' = runs \cup {[id |-> requestId', kind |-> kind, text |-> text]}
          /\ generate' = FALSE /\ downloads' = FALSE /\ status' = "generating"
  /\ UNCHANGED <<kind, text, look, libs, codeShown>>

\* A library's import ends, once and for all: a failed one is kept, too.
Imported(k, end) ==
  /\ libs[k] = "fetched" /\ libs' = [libs EXCEPT ![k] = end]
  /\ UNCHANGED <<kind, text, look, runs, requestId, codeAsked, codeShown, generate,
                 downloads, status>>

Drawn(r) == libs[r.kind] = "there" /\ ~(r.kind = "barcode" /\ r.text \in Refused)

\* Mutant of RunEnds: a run does not ask whether it is still the latest.
RunEndsUnasked(r) ==
  /\ runs' = runs \ {r}
  /\ IF Drawn(r)
     THEN /\ codeShown' = [kind |-> r.kind, text |-> r.text, look |-> look]
          /\ downloads' = TRUE /\ status' = ""
     ELSE codeShown' = NoCode /\ status' = "error" /\ UNCHANGED downloads
  /\ generate' = TRUE
  /\ UNCHANGED <<kind, text, look, libs, requestId, codeAsked>>

\* The library is there and has drawn, or has refused; only the latest counts.
RunEnds(r) ==
  /\ libs[r.kind] # "fetched" /\ runs' = runs \ {r}
  /\ IF r.id # requestId THEN UNCHANGED <<codeShown, downloads, status, generate>>
     ELSE /\ generate' = TRUE
          /\ IF Drawn(r)
             THEN /\ codeShown' = [kind |-> r.kind, text |-> r.text, look |-> look]
                  /\ downloads' = TRUE /\ status' = ""
             ELSE codeShown' = NoCode /\ status' = "error" /\ UNCHANGED downloads
  /\ UNCHANGED <<kind, text, look, libs, requestId, codeAsked>>

BarcodeNext ==
  \/ Control \/ \E byKey \in BOOLEAN : Run(byKey)
  \/ \E k \in Kinds, end \in {"there", "failed"} : Imported(k, end)
  \/ \E r \in runs : RunEnds(r)

\* What can be downloaded is the code that was asked for last, and the button
\* comes back exactly when that run has ended (secret_barcode.ts: "a stale
\* result could overwrite a newer one that already resolved").
LatestCodeIsShown ==
  /\ downloads => /\ codeShown # NoCode
                  /\ codeShown.kind = codeAsked.kind /\ codeShown.text = codeAsked.text
  /\ generate <=> \A r \in runs : r.id # requestId
=============================================================================
