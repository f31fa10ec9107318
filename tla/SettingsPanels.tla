--------------------------- MODULE SettingsPanels ---------------------------
(***************************************************************************)
(* The settings pages that edit what the server stores: the site's general *)
(* settings, and the integrations (image host, NAS backup, mail relay)     *)
(* with their secrets, which the server never sends back.  A page loads    *)
(* its values, the owner edits a draft, and a save sends the whole draft.  *)
(* The handler of a form with a secret reads the stored secret first and   *)
(* stores it again later, without a transaction around the two.            *)
(***************************************************************************)
EXTENDS Naturals

CONSTANTS
  Values,     \* of the fields of a form, and of a secret
  Default,    \* what a draft holds when nothing was loaded
  Malformed,  \* what is typed as days or a port and is not, or is only in part
  NoSecret,
  MaxEdits    \* bound: what the owner, another window and the network do

VARIABLES
  stored,     \* the server's fields and secret of each form
  page,       \* "closed", "general" or "integrations"
  phase,      \* its values: "loading", "loaded" or "failed"
  reply,      \* whether the values are on their way to the page
  draft,      \* fields, typed secret and the box that clears the secret
  requests,   \* the saves that the server has, or whose answer is on its way
  testing,    \* the forms whose draft is being probed
  edits, meant  \* history: what was shown or typed, and what is wanted of the secret

panelVars == <<stored, page, phase, reply, draft, requests, testing, edits, meant>>

Forms    == {"general", "image", "nas", "smtp"}
Secretive == {"image", "smtp"}
PageOf(f) == IF f = "general" THEN "general" ELSE "integrations"
Secrets  == Values \cup {NoSecret}
Fields   == Values \cup {Default}

Draft(value) == [fields |-> value, secret |-> NoSecret, clear |-> FALSE]
Keeps    == [shown |-> {}, secret |-> "keep"]

PanelInit ==
  /\ \E v \in Fields : stored = [f \in Forms |-> [fields |-> v, secret |-> NoSecret]]
  /\ page = "closed" /\ phase = "loading" /\ reply = "none" /\ testing = {}
  /\ draft = [f \in Forms |-> Draft(Default)] /\ requests = {}
  /\ edits = 0 /\ meant = [f \in Forms |-> Keeps]

Edit == edits < MaxEdits /\ edits' = edits + 1
Here(f) == page = PageOf(f)

\* setSaving: the page waits for one answer at a time, and for none it was left with
Saving == \E r \in requests : r.open
Step(r, s) == requests' = (requests \ {r}) \cup {s}

-----------------------------------------------------------------------------
\* a page opens with a form that nothing was loaded into, and asks for its
\* values; the answers to a page that was left are ignored
Opens ==
  /\ Edit /\ page' \in {"general", "integrations"}
  /\ phase' = "loading" /\ reply' = "asked" /\ testing' = {}
  /\ draft' = [f \in Forms |-> Draft(Default)] /\ meant' = [f \in Forms |-> Keeps]
  /\ requests' = {[r EXCEPT !.open = FALSE] : r \in requests}
  /\ UNCHANGED stored

\* all three integrations are asked for at once; one failure fails them all
Loads ==
  /\ reply = "asked" /\ reply' = "none"
  /\ \/ /\ phase' = "loaded" /\ UNCHANGED edits
        /\ draft' = [f \in Forms |-> IF Here(f) THEN Draft(stored[f].fields) ELSE draft[f]]
        /\ meant' = [f \in Forms |-> [Keeps EXCEPT !.shown = {stored[f].fields}]]
     \/ /\ Edit /\ phase' = "failed" /\ UNCHANGED <<draft, meant>>
  /\ UNCHANGED <<stored, page, requests, testing>>

\* the form is shown when the values have come, or will not come
Ready == phase # "loading"

Typed(f) == IF f = "smtp" THEN Values \cup {Malformed} ELSE Values

Types(f) ==
  /\ Here(f) /\ Ready /\ Edit
  /\ \/ \E v \in Typed(f) : /\ draft' = [draft EXCEPT ![f].fields = v]
                            /\ meant' = [meant EXCEPT ![f].shown = @ \cup {v}]
     \/ /\ f \in Secretive
        /\ \E v \in Values : /\ draft' = [draft EXCEPT ![f].secret = v, ![f].clear = FALSE]
                             /\ meant' = [meant EXCEPT ![f].secret = v]
     \/ /\ f \in Secretive
        /\ \E b \in BOOLEAN : /\ draft' = [draft EXCEPT ![f].clear = b, ![f].secret = NoSecret]
                              /\ meant' = [meant EXCEPT ![f].secret = IF b THEN NoSecret ELSE "keep"]
  /\ UNCHANGED <<stored, page, phase, reply, requests, testing>>

-----------------------------------------------------------------------------
(* save, saveImage, saveNAS and saveSMTP *)

\* clear wins over a typed secret, and neither means keep
Asks(d) == IF d.clear THEN NoSecret ELSE IF d.secret # NoSecret THEN d.secret ELSE "keep"

\* days that are none are left out, all of them or a port that is none replaced
\* by built-in values
Mended(f) == IF f = "smtp" /\ draft[f].fields = Malformed THEN Fields ELSE {draft[f].fields}

\* what is sent; shown, wanted and excused are history
Saves(f) ==
  /\ Here(f) /\ Ready /\ ~Saving /\ f \notin testing /\ Edit
  /\ \E v \in Mended(f) :
       requests' = requests \cup
         {[id |-> edits, form |-> f, fields |-> v, secret |-> Asks(draft[f]), previous |-> NoSecret,
           at |-> "sent", open |-> TRUE, shown |-> meant[f].shown, wanted |-> meant[f].secret,
           excused |-> phase = "failed" \/ v # draft[f].fields]}
  /\ UNCHANGED <<stored, page, phase, reply, draft, testing, meant>>

\* updateExternalImageHost and updateSMTPRelay read the secret that is stored; an
\* error of that read is not looked at
ReadsSecret(r) ==
  /\ r.at = "sent" /\ r.form \in Secretive
  /\ \/ Step(r, [r EXCEPT !.at = "read", !.previous = stored[r.form].secret]) /\ UNCHANGED edits
     \/ Edit /\ Step(r, [r EXCEPT !.at = "read"])
  /\ UNCHANGED <<stored, page, phase, reply, draft, testing, meant>>

SecretOf(r) == IF r.secret = "keep" THEN r.previous ELSE r.secret

\* the general settings are changed field by field: what was never loaded is not sent
Applied(r) ==
  [fields |-> IF r.form = "general" /\ r.fields = Default THEN stored[r.form].fields ELSE r.fields,
   secret |-> IF r.form \in Secretive THEN SecretOf(r) ELSE stored[r.form].secret]

Stores(r) ==
  /\ r.at = IF r.form \in Secretive THEN "read" ELSE "sent"
  /\ stored' = [stored EXCEPT ![r.form] = Applied(r)]
  /\ Step(r, [r EXCEPT !.at = "stored"])
  /\ UNCHANGED <<page, phase, reply, draft, testing, edits, meant>>

\* a save is refused or fails before it stores anything
SaveFails(r) ==
  /\ r.at \in {"sent", "read"} /\ Edit /\ requests' = requests \ {r}
  /\ UNCHANGED <<stored, page, phase, reply, draft, testing, meant>>

\* the page gives up; the server may not
AnswerLost(r) ==
  /\ r.open /\ Edit /\ Step(r, [r EXCEPT !.open = FALSE])
  /\ UNCHANGED <<stored, page, phase, reply, draft, testing, meant>>

\* the answer is read from the table again; when that fails, or the answer cannot be
\* parsed, it says nothing
ReadsBack(r) ==
  /\ r.at = "stored"
  /\ \/ Step(r, [r EXCEPT !.at = "answered", !.fields = stored[r.form].fields]) /\ UNCHANGED edits
     \/ Edit /\ Step(r, [r EXCEPT !.at = "answered", !.fields = Default])
  /\ UNCHANGED <<stored, page, phase, reply, draft, testing, meant>>

\* mutant: the draft is left as it is
DraftStays(d, r) == d[r.form]
\* the answer replaces the draft, and what was typed since with it; the general
\* settings keep theirs
AfterSave(d, r) == IF r.form = "general" THEN d[r.form] ELSE Draft(r.fields)

SaveAnswered(r) ==
  /\ r.at = "answered" /\ requests' = requests \ {r}
  /\ IF r.open
     THEN /\ draft' = [draft EXCEPT ![r.form] = AfterSave(draft, r)]
          /\ meant' = [meant EXCEPT ![r.form].secret = "keep", ![r.form].shown = @ \cup {r.fields}]
     ELSE UNCHANGED <<draft, meant>>
  /\ UNCHANGED <<stored, page, phase, reply, testing, edits>>

-----------------------------------------------------------------------------
\* runEndpointProbe and probeSMTP test the draft and store nothing
Probes(f) ==
  /\ f \in Secretive \ testing /\ page = "integrations" /\ Ready /\ ~Saving
  /\ Edit /\ testing' = testing \cup {f}
  /\ UNCHANGED <<stored, page, phase, reply, draft, requests, meant>>

Probed(f) ==
  /\ f \in testing /\ testing' = testing \ {f}
  /\ UNCHANGED <<stored, page, phase, reply, draft, requests, edits, meant>>

\* another window saves its own draft
Elsewhere ==
  /\ Edit
  /\ \E f \in Forms :
       \/ \E v \in Values : stored' = [stored EXCEPT ![f].fields = v]
       \/ f \in Secretive /\ \E v \in Secrets : stored' = [stored EXCEPT ![f].secret = v]
  /\ UNCHANGED <<page, phase, reply, draft, requests, testing, meant>>

-----------------------------------------------------------------------------
Serves(r) ==
  \/ ReadsSecret(r) \/ Stores(r) \/ SaveFails(r) \/ AnswerLost(r) \/ ReadsBack(r) \/ SaveAnswered(r)

PanelNext ==
  \/ Opens \/ Loads \/ Elsewhere
  \/ \E f \in Forms : Types(f) \/ Saves(f) \/ Probes(f) \/ Probed(f)
  \/ \E r \in requests : Serves(r)
PanelSpec == PanelInit /\ [][PanelNext]_panelVars

-----------------------------------------------------------------------------
\* the save r is carried out
Carried(r) == r.at # "stored" /\ \E s \in requests' : s.id = r.id /\ s.at = "stored"

(* A save stores the secret that the owner asked for when saving, once:    *)
(* what was typed or cleared and saved is not sent again with the next     *)
(* save of the form, over what another window has stored since.  A save    *)
(* that keeps the secret stores the one that it read before: one that      *)
(* another window stores in between is lost, and when the read fails the   *)
(* secret is (integration_settings.go:281-321).                            *)
SecretsAreMeant ==
  \A r \in requests : Carried(r) /\ r.form \in Secretive =>
    stored'[r.form].secret = IF r.wanted = "keep" THEN r.previous ELSE r.wanted

(* A save stores only what the owner has seen or typed in that form.  When *)
(* the values could not be loaded the integrations' forms still open, with *)
(* built-in values that are saved over the stored ones                     *)
(* (IntegrationsSettingsPanel.tsx:64), and days or a port of the mail      *)
(* relay that are none are replaced (:96-107): only then it does not hold. *)
SavesWhatWasShown ==
  \A r \in requests : Carried(r) /\ stored'[r.form].fields # stored[r.form].fields =>
    stored'[r.form].fields \in r.shown \/ r.excused
=============================================================================
