--------------------------- MODULE DigitalAssets ---------------------------
(***************************************************************************)
(* The owner's digital assets under the calendar: the page that loads and  *)
(* edits them (app/calendar/DigitalAssetGantt.tsx) and the chart it draws  *)
(* (lib/digital-assets.ts).  Dates are day numbers, pixels are counted in  *)
(* hundredths, as the code rounds them.  An asset is its period; the name, *)
(* the price and the address are left out, they are checked one by one.    *)
(***************************************************************************)
EXTENDS Integers, FiniteSets, FiniteSetsExt

CONSTANTS
  Assets,
  Periods,     \* <<start, end>>, some of them not valid
  Today,
  Gone,        \* no asset, nothing edited
  MaxTurns     \* bound: what the owner, another window and the network do

VARIABLES
  stored,    \* the server's assets
  listed,    \* the page's assets
  loading,   \* getDigitalAssets: "asked", "answered", "done" or "failed"
  loaded,    \* the answer on its way
  form,      \* editingId and the fields
  doing,     \* the request under way: submitting or deletingId
  turns, unsure  \* history: what may differ from the server

assetVars == <<stored, listed, loading, loaded, form, doing, turns, unsure>>

Nowhere   == [a \in Assets |-> Gone]
NewForm   == [editing |-> Gone, period |-> Gone]
NotDoing  == [what |-> "none", asset |-> Gone, period |-> Gone, answer |-> "none"]

AssetInit ==
  /\ stored \in [Assets -> {Gone} \cup {p \in Periods : p[1] <= p[2]}]
  /\ listed = Nowhere /\ loading = "asked" /\ loaded = Nowhere
  /\ form = NewForm /\ doing = NotDoing /\ turns = 0 /\ unsure = {}

Turn == turns < MaxTurns /\ turns' = turns + 1
Busy == doing # NotDoing

\* an asset that is not there is not found
Finds == doing.what = "create" \/ stored[doing.asset] # Gone

-----------------------------------------------------------------------------
\* the list is asked for when the page appears and when a failure is retried
LoadServed ==
  /\ loading = "asked" /\ loading' = "answered" /\ loaded' = stored
  /\ UNCHANGED <<stored, listed, form, doing, turns, unsure>>

LoadArrives ==
  /\ loading = "answered" /\ loading' = "done" /\ listed' = loaded
  /\ UNCHANGED <<stored, loaded, form, doing, turns, unsure>>

LoadFails ==
  /\ loading \in {"asked", "answered"} /\ Turn /\ loading' = "failed"
  /\ UNCHANGED <<stored, listed, loaded, form, doing, unsure>>

RetriesLoad ==
  /\ loading = "failed" /\ loading' = "asked" /\ unsure' = unsure \cap {doing.asset}
  /\ UNCHANGED <<stored, listed, loaded, form, doing, turns>>

\* a new session token is a new page
Remounts ==
  /\ Turn /\ listed' = Nowhere /\ loading' = "asked" /\ loaded' = Nowhere
  /\ form' = NewForm /\ doing' = NotDoing
  \* what was sent is carried out, or not, or later
  /\ unsure' = IF Busy THEN {doing.asset} ELSE {}
  /\ \/ UNCHANGED stored
     \/ /\ Busy /\ doing.answer = "none" /\ Finds
        /\ stored' = [stored EXCEPT ![doing.asset] = doing.period]

-----------------------------------------------------------------------------
(* updateField, resetForm, editAsset *)

Types ==
  /\ Turn /\ \E p \in Periods : p # form.period /\ form' = [form EXCEPT !.period = p]
  /\ UNCHANGED <<stored, listed, loading, loaded, doing, unsure>>

\* the new-asset button waits for a request, the cancel button only for a save
Resets ==
  /\ form # NewForm /\ (~Busy \/ (form.editing # Gone /\ doing.what = "delete"))
  /\ form' = NewForm
  /\ UNCHANGED <<stored, listed, loading, loaded, doing, turns, unsure>>

EditsAsset(a) ==
  /\ loading = "done" /\ ~Busy /\ listed[a] # Gone /\ Turn
  /\ form' = [editing |-> a, period |-> listed[a]]
  /\ UNCHANGED <<stored, listed, loading, loaded, doing, unsure>>

\* validateDigitalAssetForm
Valid(p) == p # Gone /\ p[1] <= p[2]

\* a save made while the list is on its way is overtaken by the list
Overtaken(a) == IF loading \in {"asked", "answered"} THEN {a} ELSE {}

Submits ==
  /\ ~Busy /\ Valid(form.period) /\ Turn
  /\ \E a \in Assets :
       /\ IF form.editing # Gone THEN a = form.editing ELSE stored[a] = Gone /\ listed[a] = Gone
       /\ doing' = [what |-> IF form.editing # Gone THEN "update" ELSE "create",
                    asset |-> a, period |-> form.period, answer |-> "none"]
       /\ unsure' = unsure \cup Overtaken(a)
  /\ UNCHANGED <<stored, listed, loading, loaded, form>>

RemovesAsset(a) ==
  /\ loading = "done" /\ ~Busy /\ listed[a] # Gone /\ Turn
  /\ doing' = [what |-> "delete", asset |-> a, period |-> Gone, answer |-> "none"]
  /\ UNCHANGED <<stored, listed, loading, loaded, form, unsure>>

RequestServed ==
  /\ Busy /\ doing.answer = "none" /\ Finds
  /\ stored' = [stored EXCEPT ![doing.asset] = doing.period]
  /\ doing' = [doing EXCEPT !.answer = "ok"]
  /\ UNCHANGED <<listed, loading, loaded, form, turns, unsure>>

\* refused, or its answer is lost
RequestFails ==
  /\ Busy /\ doing.answer # "failed" /\ Turn
  /\ doing' = [doing EXCEPT !.answer = "failed"]
  /\ unsure' = IF doing.answer = "ok" \/ ~Finds THEN unsure \cup {doing.asset} ELSE unsure
  /\ UNCHANGED <<stored, listed, loading, loaded, form>>

\* mutant: the form goes on with the asset that was deleted
FormStays(a) == form
\* the form that edits the deleted asset is emptied
FormAfterDelete(a) == IF form.editing = a THEN NewForm ELSE form

RequestAnswered ==
  /\ doing.answer # "none" /\ doing' = NotDoing
  /\ IF doing.answer = "failed" THEN UNCHANGED <<listed, form>>
     ELSE /\ listed' = IF doing.what = "update" /\ listed[doing.asset] = Gone THEN listed
                       ELSE [listed EXCEPT ![doing.asset] = doing.period]
          /\ form' = IF doing.what = "delete" THEN FormAfterDelete(doing.asset) ELSE NewForm
  /\ unsure' = unsure \cup Overtaken(doing.asset)
  /\ UNCHANGED <<stored, loading, loaded, turns>>

Elsewhere ==
  /\ Turn
  /\ \E a \in Assets, p \in {Gone} \cup {q \in Periods : q[1] <= q[2]} :
       /\ p # stored[a] /\ stored' = [stored EXCEPT ![a] = p]
       /\ unsure' = IF loading = "asked" /\ doing.asset # a THEN unsure ELSE unsure \cup {a}
  /\ UNCHANGED <<listed, loading, loaded, form, doing>>

-----------------------------------------------------------------------------
AssetNext ==
  \/ LoadServed \/ LoadArrives \/ LoadFails \/ RetriesLoad \/ Remounts \/ Types \/ Resets
  \/ Submits \/ RequestServed \/ RequestFails \/ RequestAnswered \/ Elsewhere
  \/ \E a \in Assets : EditsAsset(a) \/ RemovesAsset(a)
AssetSpec == AssetInit /\ [][AssetNext]_assetVars

-----------------------------------------------------------------------------
(* The chart.  Lengths are fractions of pixels with the denominator 2 * days *)

Shown      == {listed[a] : a \in Assets} \ {Gone}
Start      == Min({Today} \cup {p[1] : p \in Shown})
End        == Max({Today} \cup {p[2] : p \in Shown})
Days       == End - Start + 1

\* 2.4 pixels a day, between 640 and 12000
Width      == Max({640, Min({12000, (12 * Days + 4) \div 5})})
Unit       == 2 * Days
Rounded(x) == 100 * (x \div Unit) + (100 * (x % Unit) + Days) \div Unit

Status(p) ==
  IF p[2] < Today THEN "expired"
  ELSE IF p[1] > Today THEN "upcoming"
  ELSE IF p[2] - Today <= 30 THEN "expiring" ELSE "active"

RawLeft(p)  == 2 * (p[1] - Start) * Width
RawWidth(p) == 2 * (p[2] - p[1] + 1) * Width
BarWidth(p) == Min({Width * Unit, Max({RawWidth(p), 8 * Unit})})
Centered(p) == RawLeft(p) - (BarWidth(p) - RawWidth(p)) \div 2

BarLeft(p)  == Min({Max({Centered(p), 0}), Width * Unit - BarWidth(p)})

TodayLeft   == (2 * (Today - Start) + 1) * Width

Bar(p) == [left |-> Rounded(BarLeft(p)), width |-> Rounded(BarWidth(p))]

-----------------------------------------------------------------------------
(* Whatever was saved, deleted, retried or answered late, the page lists   *)
(* what the server has stored, and the form never edits an asset that was  *)
(* deleted.  Excused are changes made elsewhere, requests whose answer was *)
(* lost, and what is saved while the list is on its way: the form can be   *)
(* used then, and the older list replaces what the save has put into it.   *)
ListIsStored ==
  /\ loading = "done" /\ ~Busy => \A a \in Assets \ unsure : listed[a] = stored[a]
  /\ form.editing # Gone /\ loading = "done" => listed[form.editing] # Gone

(* The chart tells the truth about every asset: its bar stays on the track *)
(* and covers its days, and the line of today lies on the bar exactly when *)
(* the asset is current, within the eight pixels a short bar is widened    *)
(* to; a bar is rounded by less than two hundredths of a pixel.  (The line *)
(* needs that allowance only in a chart of more than 3280 years.)          *)
ChartIsTrue ==
  \A p \in Shown :
    LET b == Bar(p)  today == Rounded(TodayLeft)  right == b.left + b.width
    IN  /\ b.left >= 0 /\ right <= 100 * Width + 1 /\ b.width >= 800
        /\ b.left <= Rounded(RawLeft(p)) + 1
        /\ right >= Rounded(RawLeft(p) + RawWidth(p)) - 1
        /\ Status(p) \in {"active", "expiring"} => b.left <= today /\ today <= right + 1
        /\ Status(p) = "expired"  => today >= right - 801
        /\ Status(p) = "upcoming" => today <= b.left + 800
=============================================================================
