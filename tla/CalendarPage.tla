---------------------------- MODULE CalendarPage ----------------------------
(***************************************************************************)
(* The public calendar (app/calendar/CalendarView.tsx): a month with the   *)
(* number of records of each day, and a preview of the selected day.  Both *)
(* are asked for by effects that give up the question asked before.        *)
(* A date is <<month, day>>; the grid of a month also shows the last day   *)
(* of the month before and the first day of the month after.               *)
(***************************************************************************)
EXTENDS Integers

CONSTANTS
  Months,     \* an interval; a year is 0
  Today,
  Recorded,   \* the dates with public records
  Nothing,    \* no list, no question
  MaxMoves    \* bound: clicks and failures

VARIABLES
  month, selected,
  counts,     \* the dates with records the page knows, and of which month
  entries,    \* the date whose records are previewed
  reading,    \* previewLoading, and the timer that will set it
  askedMonth, askedDay,   \* questions: what, number, answer
  moves, excuse           \* history

calendarVars == <<month, selected, counts, entries, reading, askedMonth, askedDay, moves, excuse>>

Grid(m) == {<<m, 1>>, <<m, 2>>, <<m - 1, 2>>, <<m + 1, 1>>}
DefaultSelectedDate(m) == IF Today[1] = m THEN Today ELSE <<m, 1>>
Days(m) == {d \in Recorded : d[1] = m}

NoCounts == [of |-> 0, dates |-> {}]
Unread   == [on |-> FALSE, timer |-> FALSE]
Idle     == [latest |-> 0, calls |-> {}]
Asking(q, about) == [latest |-> q.latest + 1,
                     calls |-> q.calls \cup {[about |-> about, number |-> q.latest + 1]}]

StillAsked(q, r) == r.number = q.latest

CalendarInit ==
  /\ month \in Months /\ selected = DefaultSelectedDate(month)
  /\ counts = NoCounts /\ entries = Nothing /\ reading = Unread
  /\ askedMonth = Asking(Idle, month) /\ askedDay = Idle
  /\ moves = 0 /\ excuse = [day |-> FALSE, month |-> FALSE, stuck |-> FALSE]

Move == moves < MaxMoves /\ moves' = moves + 1

\* a question whose answer would be taken
MonthAsked == \E r \in askedMonth.calls : StillAsked(askedMonth, r)
DayAsked == \E r \in askedDay.calls : StillAsked(askedDay, r)

\* the effect on [counts, selectedDate]: the question before is given up
Previews ==
  IF selected' \in counts'.dates
  THEN askedDay' = Asking(askedDay, selected') /\ reading' = [reading EXCEPT !.timer = TRUE]
  ELSE askedDay' = [askedDay EXCEPT !.latest = @ + 1] /\ reading' = [reading EXCEPT !.timer = FALSE]

ChangesMonth ==
  /\ Move /\ month' \in {month - 1, month + 1} \cap Months
  /\ selected' = DefaultSelectedDate(month')
  /\ entries' = Nothing /\ askedMonth' = Asking(askedMonth, month')
  /\ IF selected' = selected
     THEN reading' = [reading EXCEPT !.on = FALSE] /\ UNCHANGED askedDay
     ELSE /\ askedDay' = IF selected' \in counts.dates THEN Asking(askedDay, selected')
                         ELSE [askedDay EXCEPT !.latest = @ + 1]
          /\ reading' = [on |-> FALSE, timer |-> selected' \in counts.dates]
  /\ excuse' = [day |-> FALSE, month |-> FALSE, stuck |-> FALSE]
  /\ UNCHANGED counts

\* the day that is selected already is not asked for again
SelectsDate ==
  /\ Move /\ selected' \in Grid(month) /\ entries' = Nothing
  /\ LET some == selected' \in counts.dates
     IN  IF selected' = selected
         THEN /\ reading' = [reading EXCEPT !.on = some] /\ UNCHANGED askedDay
              /\ excuse' = [excuse EXCEPT !.stuck = some /\ ~DayAsked]
         ELSE /\ reading' = [on |-> some, timer |-> some]
              /\ askedDay' = IF some THEN Asking(askedDay, selected')
                             ELSE [askedDay EXCEPT !.latest = @ + 1]
              /\ excuse' = [excuse EXCEPT !.stuck = FALSE, !.day = FALSE]
  /\ UNCHANGED <<month, counts, askedMonth>>

TimerFires ==
  /\ reading.timer /\ reading' = [on |-> TRUE, timer |-> FALSE]
  /\ UNCHANGED <<month, selected, counts, entries, askedMonth, askedDay, moves, excuse>>

CountsArrive ==
  /\ \E r \in askedMonth.calls, good \in BOOLEAN :
       /\ ~good => moves < MaxMoves
       /\ moves' = moves + IF good THEN 0 ELSE 1
       /\ askedMonth' = [askedMonth EXCEPT !.calls = @ \ {r}]
       /\ IF StillAsked(askedMonth, r)
          THEN /\ counts' = IF good THEN [of |-> r.about, dates |-> Days(r.about)] ELSE NoCounts
               /\ UNCHANGED selected /\ Previews
               /\ excuse' = [day |-> FALSE, month |-> ~good,
                             stuck |-> reading.on /\ selected \notin counts'.dates]
          ELSE UNCHANGED <<counts, selected, askedDay, reading, excuse>>
  /\ UNCHANGED <<month, entries>>

\* a failure looks like a day without records
DayArrives ==
  /\ \E r \in askedDay.calls, good \in BOOLEAN :
       /\ ~reading.timer /\ (~good => moves < MaxMoves)
       /\ moves' = moves + IF good THEN 0 ELSE 1
       /\ askedDay' = [askedDay EXCEPT !.calls = @ \ {r}]
       /\ IF StillAsked(askedDay, r)
          THEN /\ entries' = IF good THEN r.about ELSE Nothing
               /\ reading' = [reading EXCEPT !.on = FALSE]
               /\ excuse' = [excuse EXCEPT !.day = ~good]
          ELSE UNCHANGED <<entries, reading, excuse>>
  /\ UNCHANGED <<month, selected, counts, askedMonth>>

CalendarNext == ChangesMonth \/ SelectsDate \/ TimerFires \/ CountsArrive \/ DayArrives
CalendarSpec == CalendarInit /\ [][CalendarNext]_calendarVars

-----------------------------------------------------------------------------
(* What the page says is true, in whatever order the answers come: once    *)
(* nothing is asked the numbers are those of the month above them, the     *)
(* preview is of the selected day, and "no records" is said of a day that  *)
(* has none, unless it is asked for or its question failed.  "Reading" is  *)
(* said while the day is being asked for; it stays for ever after a second *)
(* click on the selected day, and when newer numbers do not have the day.  *)
CalendarTellsTruth ==
  /\ MonthAsked \/ counts.of = month \/ excuse.month
  /\ entries # Nothing => entries = selected
  /\ entries = Nothing /\ ~reading.on /\ ~reading.timer =>
       selected \notin counts.dates \/ excuse.day \/ DayAsked \/ MonthAsked
  /\ reading.on => DayAsked \/ excuse.stuck
=============================================================================
