------------------------------- MODULE SignIn -------------------------------
(***************************************************************************)
(* What one window believes about its session: SessionContext asks the     *)
(* server, the navigation signs out, the login page signs in with password *)
(* and one-time code, and the writing button of the home page asks again   *)
(* before it opens the editor.  Answers arrive in any order.               *)
(***************************************************************************)
EXTENDS Naturals

CONSTANTS
  MaxAsked,    \* bound: questions to the server in one window
  MaxTurns     \* bound: what the user, the other devices and the network do

VARIABLES
  session,   \* the server has a session for this browser's cookie
  known,     \* SessionContext: state, refreshSequenceRef, logout under way
  probes,    \* refreshSession, asked and not yet applied
  signOut,   \* the logout request: "off", "sent", "ok", "gone" or "failed"
  entry,     \* the login page: its step and its request
  at,        \* the page shown
  turns, excuse  \* history

signVars == <<session, known, probes, signOut, entry, at, turns, excuse>>

NoEntry == [step |-> 1, request |-> "off"]
NoExcuse == [out |-> FALSE, in |-> FALSE]

Turn == turns < MaxTurns /\ turns' = turns + 1

\* during: a logout was under way when it was asked
Asks(by) ==
  /\ known.sequence < MaxAsked
  /\ known' = [known EXCEPT !.sequence = @ + 1]
  /\ probes' = probes \cup {[sequence |-> known.sequence + 1, by |-> by, answer |-> "none",
                             during |-> signOut # "off"]}

\* a page is loaded: the provider mounts and asks
Mounted(s, p) ==
  /\ s = [state |-> "loading", sequence |-> 1]
  /\ p = {[sequence |-> 1, by |-> "mount", answer |-> "none", during |-> FALSE]}

SignInit ==
  /\ session \in BOOLEAN /\ Mounted(known, probes) /\ signOut = "off" /\ entry = NoEntry
  /\ at \in {"home", "login"} /\ turns = 0 /\ excuse = NoExcuse

Reloads ==
  /\ Turn /\ Mounted(known', probes') /\ signOut' = "off" /\ entry' = NoEntry
  /\ excuse' = NoExcuse
  \* a logout or a login that was sent may still be served
  /\ \/ UNCHANGED session
     \/ signOut = "sent" /\ session' = FALSE
     \/ entry.request = "sent" /\ session' = TRUE
  /\ at' = IF at = "writing" THEN "home" ELSE at

\* the session ends, or begins, in another window or on another device
Elsewhere ==
  /\ Turn /\ session' = ~session
  /\ excuse' = [out |-> ~session', in |-> session']
  /\ UNCHANGED <<known, probes, signOut, entry, at>>

-----------------------------------------------------------------------------
(* refreshSession *)

ServerAnswers ==
  /\ \E p \in probes :
       /\ p.answer = "none"
       /\ \E a \in {IF session THEN "yes" ELSE "no", "error"} :
            /\ a = "error" => turns < MaxTurns
            /\ turns' = turns + IF a = "error" THEN 1 ELSE 0
            /\ probes' = (probes \ {p}) \cup {[p EXCEPT !.answer = a]}
  /\ UNCHANGED <<session, known, signOut, entry, at, excuse>>

\* only the latest question, and none from before a logout
Latest(p) == p.sequence = known.sequence

StateOf(answer) ==
  CASE answer = "yes" -> "authenticated" [] answer = "no" -> "anonymous"
    [] answer = "error" -> "error"

\* what the one who asked does with the answer: the login page goes to the
\* administration or starts again, the writing button opens the editor or the
\* login, which it does from any page the user has gone to
Continued(p) ==
  CASE p.by = "login" ->
         entry' = NoEntry /\ at' = IF p.answer = "yes" THEN "admin" ELSE "login"
    [] p.by \in {"fab", "left"} /\ p.answer # "yes" ->
         at' = "login" /\ entry' = IF at = "login" THEN entry ELSE NoEntry
    [] p.by = "fab" /\ p.answer = "yes" -> at' = "writing" /\ UNCHANGED entry
    [] OTHER -> UNCHANGED <<entry, at>>

\* the page that asked is gone
Abandoned(asked) ==
  {[p EXCEPT !.by = IF @ = "login" THEN "mount" ELSE IF @ = "fab" THEN "left" ELSE @] :
   p \in asked}

AnswerArrives ==
  /\ \E p \in probes :
       /\ p.answer # "none" /\ Continued(p)
       /\ probes' = IF at' = at THEN probes \ {p} ELSE Abandoned(probes \ {p})
       /\ IF Latest(p)
          THEN /\ known' = [known EXCEPT !.state = StateOf(p.answer)]
               /\ excuse' = [out |-> p.answer = "yes" /\ ~session /\ (p.during \/ excuse.out),
                             in  |-> p.answer = "no" /\ session /\ excuse.in]
          ELSE UNCHANGED <<known, excuse>>
  /\ UNCHANGED <<session, signOut, turns>>

-----------------------------------------------------------------------------
(* logout *)

\* mutant: answers that are under way still count
KeepsSequence == known

ForgetsAnswers == [known EXCEPT !.sequence = @ + 1]

SignsOut ==
  /\ known.state = "authenticated" /\ signOut = "off" /\ Turn
  /\ known.sequence < MaxAsked
  /\ known' = ForgetsAnswers /\ signOut' = "sent"
  /\ UNCHANGED <<session, probes, entry, at, excuse>>

SignOutServed ==
  /\ signOut = "sent"
  /\ signOut' = IF session THEN "ok" ELSE "gone"
  /\ session' = FALSE
  /\ UNCHANGED <<known, probes, entry, at, turns, excuse>>

\* refused, or its answer is lost: the session may be over and nobody says so
SignOutFails ==
  /\ signOut # "off" /\ Turn /\ signOut' = "failed"
  /\ excuse' = [excuse EXCEPT !.out = TRUE]
  /\ UNCHANGED <<session, known, probes, entry, at>>

SignedOut ==
  /\ signOut \in {"ok", "gone", "failed"} /\ signOut' = "off"
  /\ IF signOut = "failed" THEN UNCHANGED <<known, at, excuse, entry>>
          /\ UNCHANGED probes
     ELSE /\ known' = [known EXCEPT !.state = "anonymous"] /\ at' = "home"
          /\ entry' = NoEntry /\ probes' = Abandoned(probes)
          /\ excuse' = [out |-> FALSE, in |-> session]
  /\ UNCHANGED <<session, turns>>

-----------------------------------------------------------------------------
(* The login page and the writing button *)

Opens ==
  /\ Turn /\ at' \in {"home", "login"} /\ at' # at /\ entry' = NoEntry
  \* the request of the page that is left is aborted, served or not
  /\ session' \in {session} \cup IF entry.request = "sent" THEN {TRUE} ELSE {}
  /\ excuse' = [excuse EXCEPT !.in = @ \/ entry.request \in {"sent", "ok"}]
  /\ probes' = Abandoned(probes)
  /\ UNCHANGED <<known, signOut>>

Submit ==
  /\ at = "login" /\ entry.request = "off" /\ Turn
  /\ entry' = [entry EXCEPT !.request = "sent"]
  /\ UNCHANGED <<session, known, probes, signOut, at, excuse>>

\* a challenge, or a session; the browser may refuse its cookie
LoginServed ==
  /\ entry.request = "sent"
  /\ \/ entry.step = 1 /\ entry' = [entry EXCEPT !.request = "challenge"] /\ UNCHANGED session
     \/ entry' = [entry EXCEPT !.request = "ok"] /\ session' \in {session, TRUE}
     \/ entry' = [entry EXCEPT !.request = "refused"] /\ UNCHANGED session
  /\ UNCHANGED <<known, probes, signOut, at, turns, excuse>>

\* a code that is refused takes the page back to the password, or leaves it at
\* the code when the answer was 429 or 5xx
LoginAnswered ==
  /\ \/ entry.request = "challenge" /\ entry' = [step |-> 2, request |-> "off"]
        /\ UNCHANGED <<known, probes>>
     \/ entry.request = "refused" /\ entry' \in {NoEntry, [entry EXCEPT !.request = "off"]}
        /\ UNCHANGED <<known, probes>>
     \/ entry.request = "ok" /\ Asks("login") /\ entry' = [entry EXCEPT !.request = "confirming"]
  /\ UNCHANGED <<session, signOut, at, turns, excuse>>

\* sessionChecking: one question of the button at a time
OpensWriting ==
  /\ at = "home" /\ known.state # "loading" /\ Turn
  /\ ~\E p \in probes : p.by = "fab"
  /\ Asks("fab")
  /\ UNCHANGED <<session, signOut, entry, at, excuse>>

-----------------------------------------------------------------------------
SignNext ==
  \/ Reloads \/ Elsewhere \/ ServerAnswers \/ AnswerArrives \/ SignsOut \/ SignOutServed
  \/ SignOutFails \/ SignedOut \/ Opens \/ Submit \/ LoginServed \/ LoginAnswered
  \/ OpensWriting
SignSpec == SignInit /\ [][SignNext]_signVars

-----------------------------------------------------------------------------
(* After a logout that was answered, the window does not go back to        *)
(* signed-in on an answer from before it.  Only a question asked while the *)
(* logout was under way can do that (the sequence number is raised when    *)
(* the logout starts, not when it ends); a session that ends elsewhere, or *)
(* by a logout whose answer is lost, is noticed at the next question.      *)
LogoutLasts ==
  known.state = "authenticated" /\ ~session => signOut # "off" \/ excuse.out

(* After a login the window does not fall back to signed-out on the answer *)
(* to an older question; it may lag only while the question that the login *)
(* asked is under way, or when the session came from another window.       *)
LoginLasts ==
  known.state = "anonymous" /\ session =>
    \/ entry.request = "ok" \/ excuse.in
    \/ \E p \in probes : p.sequence = known.sequence
=============================================================================
