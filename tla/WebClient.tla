------------------------------ MODULE WebClient ------------------------------
(***************************************************************************)
(* The parts of the web client that have a model of their own, each on an  *)
(* instance of its own: a behaviour chooses one part and stays in it.  The *)
(* parts share nothing but the browser, so nothing is lost by that; they   *)
(* are checked in one run and use the variables v1 to v13 in turn.  The    *)
(* resumable upload, which has assumptions of its own, keeps its own.      *)
(***************************************************************************)
EXTENDS Integers, ResumableUpload

CONSTANTS
  None, Off,                                      \* nothing; not the part that is chosen
  Uploads, Items, MaxMoves, MaxRefs, Failures,    \* attachments
  Tokens, Passwords, MaxCode, MaxActs,            \* recovery
  MaxAsked, SignTurns,                            \* session and login
  Entries, Filters, All, MaxAsks, MaxClicks,      \* content desk
  Values, Default, MaxEdits,                      \* settings
  Assets, Periods, Today, AssetTurns,             \* digital assets
  Months, ThisDay, Recorded, MonthMoves,          \* calendar
  PublicEntries, EntryDays, MaxChanges,           \* public lists
  MaxVersion, CacheTurns,                         \* offline cache
  Tags, Suggestions,                              \* tags
  Documents, DocumentEdits,                       \* protected Markdown
  Bases, MaxEvents                                \* the editor's text

\* nothing is not an entry, a value, a tag, a date or a place in a list
ASSUME NoneAssumption ==
  /\ None \notin Entries /\ None \notin Values /\ None \notin Tags
  /\ None \notin Int \X Int /\ None \notin PublicEntries \X Nat

\* uploads and items have names of their own
ASSUME UploadsAssumption == None \notin Uploads \cup Items /\ Uploads \cap Items = {}

\* a token is neither nothing nor the key the owner starts with
ASSUME TokensAssumption == None # Off /\ None \notin Tokens /\ Off \notin Tokens

\* the periods of assets are days, and there is a first one and a last one
ASSUME PeriodsAssumption ==
  /\ None \notin Assets /\ Today \in Int /\ Periods \subseteq Int \X Int
  /\ \E first \in Periods : \A p \in Periods : first[1] <= p[1]
  /\ \E last \in Periods : \A p \in Periods : p[2] <= last[2]

\* dates are a month and a day; the days of a list are numbered, and there is a last one
ASSUME DateAssumption == Months \subseteq Int /\ ThisDay \in Int \X Int
ASSUME DaysAssumption ==
  EntryDays \subseteq Nat /\ \E last \in EntryDays : \A d \in EntryDays : d <= last

VARIABLES part, v1, v2, v3, v4, v5, v6, v7, v8, v9, v10, v11, v12, v13

web == <<part, uploadVars, v1, v2, v3, v4, v5, v6, v7, v8, v9, v10, v11, v12, v13>>

Media == INSTANCE MediaUploads WITH
  Media <- Items,
  texts <- v1, shown <- v2, list <- v3, job <- v4, cancelled <- v5, chain <- v6, queue <- v7,
  rec <- v8, page <- v9, media <- v10, deletes <- v11, user <- v12, excused <- v13

Recovery == INSTANCE RecoveryPages WITH
  Original <- None, Nobody <- Off,
  account <- v1, screen <- v2, form <- v3, attempts <- v4, result <- v5, rotation <- v6,
  call <- v7, strays <- v8, owner <- v9

Sign == INSTANCE SignIn WITH
  MaxTurns <- SignTurns,
  session <- v1, known <- v2, probes <- v3, signOut <- v4, entry <- v5, at <- v6,
  turns <- v7, excuse <- v8

Desk == INSTANCE ContentDesk WITH
  Nothing <- None,
  desk <- v1, shown <- v2, library <- v3, heat <- v4, jobs <- v5, asks <- v6, store <- v7,
  click <- v8

Panels == INSTANCE SettingsPanels WITH
  NoSecret <- None, Malformed <- Off,
  stored <- v1, page <- v2, phase <- v3, reply <- v4, draft <- v5, requests <- v6, testing <- v7,
  edits <- v8, meant <- v9

Chart == INSTANCE DigitalAssets WITH
  Gone <- None, MaxTurns <- AssetTurns,
  stored <- v1, listed <- v2, loading <- v3, loaded <- v4, form <- v5, doing <- v6,
  turns <- v7, unsure <- v8

Calendar == INSTANCE CalendarPage WITH
  Today <- ThisDay, Nothing <- None, MaxMoves <- MonthMoves,
  month <- v1, selected <- v2, counts <- v3, entries <- v4, reading <- v5, askedMonth <- v6,
  askedDay <- v7, moves <- v8, excuse <- v9

Lists == INSTANCE PublicLists WITH
  Entries <- PublicEntries, Days <- EntryDays, NoCursor <- None,
  list <- v1, day <- v2, items <- v3, cursor <- v4, loading <- v5, refresh <- v6,
  changes <- v7, touched <- v8, gap <- v9, private <- v10

Cache == INSTANCE PageCache WITH
  Missing <- None, MaxTurns <- CacheTurns,
  content <- v1, worker <- v2, cache <- v3, fetches <- v4, messages <- v5, shown <- v6,
  turns <- v7, floor <- v8, late <- v9

Tagging == INSTANCE TagInput WITH
  Blank <- None,
  values <- v1, draft <- v2, editing <- v3, open <- v4, active <- v5, focus <- v6,
  composing <- v7, closing <- v8, target <- v9

Protected == INSTANCE ProtectedText WITH
  MaxEdits <- DocumentEdits, doc <- v1, ranges <- v2, shown <- v3, wanted <- v4, edits <- v5

\* a document is a sequence of lines of the kinds the scanner tells apart
ASSUME DocumentsAssumption == Documents \subseteq Seq(Protected!Kinds)

Editor == INSTANCE EditorText WITH
  text <- v1, rendered <- v2, due <- v3, mode <- v4, ready <- v5, first <- v6, content <- v7,
  source <- v8, dirty <- v9, events <- v10, typed <- v11, rich <- v12, late <- v13

-----------------------------------------------------------------------------
Off13 == v13 = Off
Off12 == v12 = Off /\ Off13
Off11 == v11 = Off /\ Off12
Off10 == v10 = Off /\ Off11
Off9  == v9 = Off /\ Off10
Off6  == v6 = Off /\ v7 = Off /\ v8 = Off /\ Off9
Off1  == v1 = Off /\ v2 = Off /\ v3 = Off /\ v4 = Off /\ v5 = Off /\ Off6

WebInit ==
  /\ UploadInit
  /\ \/ part = "upload" /\ Off1
     \/ part = "media" /\ Media!Init
     \/ part = "recovery" /\ Recovery!RecoveryInit /\ Off10
     \/ part = "session" /\ Sign!SignInit /\ Off9
     \/ part = "desk" /\ Desk!DeskInit /\ Off9
     \/ part = "settings" /\ Panels!PanelInit /\ Off10
     \/ part = "assets" /\ Chart!AssetInit /\ Off9
     \/ part = "calendar" /\ Calendar!CalendarInit /\ Off10
     \/ part = "lists" /\ Lists!ListInit /\ Off11
     \/ part = "cache" /\ Cache!CacheInit /\ Off10
     \/ part = "tags" /\ Tagging!TagInit /\ Off10
     \/ part = "protected" /\ Protected!TextInit /\ Off6
     \/ part = "editor" /\ Editor!TextInit

Rest13 == UNCHANGED <<part, uploadVars>>
Rest10 == UNCHANGED <<part, uploadVars, v10, v11, v12, v13>>
Rest11 == UNCHANGED <<part, uploadVars, v11, v12, v13>>
Rest9  == UNCHANGED <<part, uploadVars, v9, v10, v11, v12, v13>>
Rest6  == UNCHANGED <<part, uploadVars, v6, v7, v8, v9, v10, v11, v12, v13>>

WebNext ==
  \/ part = "upload" /\ UploadNext
       /\ UNCHANGED <<part, v1, v2, v3, v4, v5, v6, v7, v8, v9, v10, v11, v12, v13>>
  \/ part = "media" /\ Media!Next /\ Rest13
  \/ part = "recovery" /\ Recovery!RecoveryNext /\ Rest10
  \/ part = "session" /\ Sign!SignNext /\ Rest9
  \/ part = "desk" /\ Desk!DeskNext /\ Rest9
  \/ part = "settings" /\ Panels!PanelNext /\ Rest10
  \/ part = "assets" /\ Chart!AssetNext /\ Rest9
  \/ part = "calendar" /\ Calendar!CalendarNext /\ Rest10
  \/ part = "lists" /\ Lists!ListNext /\ Rest11
  \/ part = "cache" /\ Cache!CacheNext /\ Rest10
  \/ part = "tags" /\ Tagging!TagNext /\ Rest10
  \/ part = "protected" /\ Protected!TextNext /\ Rest6
  \/ part = "editor" /\ Editor!TextNext /\ Rest13

WebSpec == WebInit /\ [][WebNext]_web

-----------------------------------------------------------------------------
(* The promises of the parts; each module says what is behind its names.   *)

\* A placeholder has an upload behind it, a reference keeps its item, and what
\* the user took away does not come back (useMediaUploads.ts, media-utils.js).
PendingMediaIsSafe ==
  part = "media" =>
    Media!PlaceholderIsBacked /\ Media!ReferencesUsable /\ Media!TakenAwayStaysGone

\* The owner can have the recovery key the server accepts, and what the recovery
\* pages say when they are done is true (RecoveryForm.tsx, recovery-client.ts).
RecoveryIsReal == part = "recovery" => Recovery!CurrentKeyIsKept /\ Recovery!PageTellsTruth

\* A login and a logout are not undone by the answer to an older question
\* (SessionContext.tsx).
SessionIsBelieved == part = "session" => Sign!LogoutLasts /\ Sign!LoginLasts

\* What is restored is what is shown, and the numbers of the calendar are those
\* of the year above them (entries/page.tsx).
DeskActsOnWhatItShows == part = "desk" => Desk!RestoresWhatIsShown /\ Desk!CalendarIsOfItsYear

\* A save of the settings stores only what was shown or typed, and changes a
\* secret only as it was meant (SettingsPanel, IntegrationsSettingsPanel).
SettingsAreMeant ==
  [][part = "settings" => Panels!SecretsAreMeant /\ Panels!SavesWhatWasShown]_web

\* The list of digital assets is the stored one, and each bar of the chart
\* covers its days (DigitalAssetGantt.tsx, lib/digital-assets.ts).
AssetsAreShownTruly == part = "assets" => Chart!ListIsStored /\ Chart!ChartIsTrue

\* What readers see of dates and lists: the calendar speaks of the month and day
\* above it, and a list that is loaded page by page leaves nothing out
\* (CalendarView.tsx, timeline.js).
ReadersMissNothing ==
  /\ part = "calendar" => Calendar!CalendarTellsTruth
  /\ part = "lists" => Lists!ListIsWhole

\* What was evicted from the offline cache is neither kept nor shown (sw.js).
EvictionHolds == part = "cache" => Cache!EvictedStaysAway

\* Tags are changed as it was meant, through every order of edits and removals
\* (TagInput.tsx).
TagsAreMeant == part = "tags" => Tagging!TagsAreWhatWasMeant

\* The rich editor loses nothing of the Markdown it cannot show
\* (markdown-compat.ts).
MarkdownIsKept == part = "protected" => Protected!EditingIsLossless

\* The editor and the page hold one text (NovelMarkdownEditorClient.tsx).
OneText == part = "editor" => Editor!EditorAndPageAgree
=============================================================================
