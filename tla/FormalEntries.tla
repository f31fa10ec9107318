---------------------------- MODULE FormalEntries ----------------------------
(***************************************************************************)
(* What the working-copy protocol promises its editors, without tables,    *)
(* revisions or draft ids: an entry is a register with a status and a      *)
(* text, an open edit is a ticket that remembers the text it was opened    *)
(* on, and a checked ticket can be redeemed only while that is still the   *)
(* text of the entry.  WorkingCopies implements it.                        *)
(***************************************************************************)
CONSTANTS
  Entries,
  Tickets,
  Texts,
  Statuses,
  None      \* no entry, no ticket

Register == [status : Statuses, text : Texts]
Ticket   == [entry : Entries, seen : Texts, checked : BOOLEAN]

VARIABLES
  formal,     \* the entries
  tickets,    \* the open edits
  revocable   \* entries whose creation may still be undone

vars == <<formal, tickets, revocable>>

Exists(e)  == formal[e] # None
OpenOn(e)  == {k \in Tickets : tickets[k] # None /\ tickets[k].entry = e}

Init ==
  /\ formal = [e \in Entries |-> None]
  /\ tickets = [k \in Tickets |-> None]
  /\ revocable = {}

\* a new entry, whose creation may be undone for a while
Create(e, r) ==
  /\ ~Exists(e)
  /\ formal' = [formal EXCEPT ![e] = r]
  /\ revocable' \in {revocable, revocable \cup {e}}
  /\ UNCHANGED tickets

\* trash, restore, undo: the text stays
Show(e, s) ==
  /\ Exists(e)
  /\ formal' = [formal EXCEPT ![e].status = s]
  /\ UNCHANGED <<tickets, revocable>>

\* an explicit replacement that nobody edited: a version is restored
Replace(e, text) ==
  /\ Exists(e)
  /\ formal' = [formal EXCEPT ![e].text = text]
  /\ UNCHANGED <<tickets, revocable>>

\* undo puts the old status back and hands the draft out again, unchecked
Reopen(e, s, k) ==
  /\ Exists(e) /\ tickets[k] = None
  /\ formal' = [formal EXCEPT ![e].status = s]
  /\ tickets' = [tickets EXCEPT ![k] = [entry |-> e, seen |-> formal[e].text,
                                        checked |-> FALSE]]
  /\ UNCHANGED revocable

\* an edit starts on the current text; discarding drops the ones before it
Open(e, k) ==
  /\ Exists(e) /\ tickets[k] = None
  /\ \E ks \in {{}, OpenOn(e)} :
       tickets' = [j \in Tickets |->
         IF j = k THEN [entry |-> e, seen |-> formal[e].text, checked |-> TRUE]
         ELSE IF j \in ks THEN None ELSE tickets[j]]
  /\ UNCHANGED <<formal, revocable>>

\* the editor asks for the check, or for none
Check(k, b) ==
  /\ tickets[k] # None
  /\ tickets' = [tickets EXCEPT ![k].checked = b]
  /\ UNCHANGED <<formal, revocable>>

Drop(k) ==
  /\ tickets[k] # None
  /\ tickets' = [tickets EXCEPT ![k] = None]
  /\ UNCHANGED <<formal, revocable>>

\* redeem a ticket
Save(k, r) ==
  /\ tickets[k] # None
  /\ LET e == tickets[k].entry IN
       /\ tickets[k].checked => formal[e].text = tickets[k].seen
       /\ formal' = [formal EXCEPT ![e] = r]
  /\ tickets' = [tickets EXCEPT ![k] = None]
  /\ UNCHANGED revocable

\* an entry vanishes out of the trash or with the undo of its creation, and
\* never under an open edit
Vanish(e) ==
  /\ Exists(e) /\ OpenOn(e) = {}
  /\ formal[e].status = "trashed" \/ e \in revocable
  /\ formal' = [formal EXCEPT ![e] = None]
  /\ revocable' = revocable \ {e}
  /\ UNCHANGED tickets

\* the creation of an entry can no longer be undone
Settle(e) ==
  /\ revocable' = revocable \ {e}
  /\ UNCHANGED <<formal, tickets>>

Next ==
  \/ \E e \in Entries, r \in Register : Create(e, r)
  \/ \E e \in Entries, s \in Statuses : Show(e, s)
  \/ \E e \in Entries, text \in Texts : Replace(e, text)
  \/ \E e \in Entries, s \in Statuses, k \in Tickets : Reopen(e, s, k)
  \/ \E e \in Entries, k \in Tickets : Open(e, k)
  \/ \E k \in Tickets, b \in BOOLEAN : Check(k, b)
  \/ \E k \in Tickets : Drop(k)
  \/ \E k \in Tickets, r \in Register : Save(k, r)
  \/ \E e \in Entries : Vanish(e)
  \/ \E e \in Entries : Settle(e)

Spec == Init /\ [][Next]_vars
=============================================================================
