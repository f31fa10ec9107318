--------------------------- MODULE RecoveryPages ---------------------------
(***************************************************************************)
(* The pages that replace the owner's credentials, in one window: the      *)
(* recovery form (app/recovery/RecoveryForm.tsx) and the panel for the     *)
(* password and the recovery key (settings/SecuritySettingsPanel.tsx).     *)
(*                                                                         *)
(* A new recovery key and a new TOTP secret are made here and sent to the  *)
(* server, which keeps neither in the clear: if the window drops them when *)
(* the server has taken them, nobody has them.  A token stands for the     *)
(* operation token, the key and the secret made with it.                   *)
(*                                                                         *)
(* AccountRecovery has the server's handlers step by step; here each       *)
(* request is served at once, or refused, or lost with or without effect,  *)
(* or served after the window has given up waiting.                        *)
(***************************************************************************)
EXTENDS Naturals, FiniteSets

CONSTANTS
  Tokens, Passwords,
  Original,    \* the key and the secret the owner starts with
  Nobody,      \* no token, no password
  MaxCode,     \* bound: one-time codes, in the order of their time steps
  MaxActs      \* bound: what the owner does

VARIABLES
  account,   \* the server's side
  screen,    \* "key", "totp", "result", "reset", "login" or "settings"
  form,      \* what is typed, and the challenge that was fetched
  attempts,  \* pendingAttempt and pendingTOTPAttempt
  result,    \* the token whose key and secret are shown
  rotation,  \* the panel's key and whether it is marked as saved
  call,      \* the request waited for: busy, passwordBusy or keyBusy
  strays,    \* requests nobody waits for that may still reach the server
  owner      \* history: what the owner kept, gave up and submitted, and the last code read

recoveryVars == <<account, screen, form, attempts, result, rotation, call, strays, owner>>

Blank    == [kind |-> "none", token |-> Nobody, key |-> Nobody, challenge |-> 0,
             code |-> 0, password |-> Nobody]
NoCall   == [q |-> Blank, try |-> 0, answer |-> "none"]
NoForm   == [key |-> Nobody, password |-> Nobody, code |-> 0, challenge |-> 0]
NoTries  == [key |-> Blank, totp |-> Blank]
NoRotation == [token |-> Nobody, saved |-> FALSE]

RecoveryInit ==
  /\ account = [key |-> Original, secret |-> Original, password |-> Nobody, code |-> 0,
                session |-> FALSE, issued |-> 0, closed |-> {}, done |-> {}]
  /\ screen \in {"key", "login"} /\ form = NoForm /\ attempts = NoTries
  /\ result = Nobody /\ rotation = NoRotation /\ call = NoCall /\ strays = {}
  /\ owner = [kept |-> {Original}, secret |-> Original, gaveUp |-> {}, used |-> {},
              submitted |-> Nobody, code |-> 1, acts |-> 0]

Waiting   == call # NoCall
Fresh     == Tokens \ owner.used
Acts(o)   == owner.acts < MaxActs /\ owner' = [o EXCEPT !.acts = @ + 1]
Sends(q)  == ~Waiting /\ call' = [q |-> q, try |-> 1, answer |-> "none"]

-----------------------------------------------------------------------------
(* The server *)

Logged(q)   == q \in account.done
TokenUsed(q) == \E o \in account.done : o.token = q.token
\* the same request again: it is done, and the key it made is still the current one
Repeats(q)   == Logged(q) /\ (q.kind # "reset" => account.key = q.token)

CodeCounts(q) == q.key = account.secret /\ q.code > account.code

Grants(q) ==
  \/ q.kind = "start"
  \/ q.kind = "recover" /\ q.key = account.key
  \/ q.kind = "reset" /\ q.challenge \notin account.closed /\ CodeCounts(q)
  \/ q.kind \in {"rotate", "change"} /\ account.session /\ CodeCounts(q)

After(q) ==
  CASE q.kind = "start"   -> [account EXCEPT !.issued = @ + 1]
    [] q.kind = "recover" -> [account EXCEPT !.key = q.token, !.secret = q.token, !.code = 0,
                                !.password = q.password, !.session = FALSE,
                                !.done = @ \cup {q}]
    [] q.kind = "reset"   -> [account EXCEPT !.password = q.password, !.code = q.code,
                                !.closed = @ \cup {q.challenge}, !.session = FALSE,
                                !.done = @ \cup {q}]
    [] q.kind = "rotate"  -> [account EXCEPT !.key = q.token, !.code = q.code,
                                !.done = @ \cup {q}]
    [] q.kind = "change"  -> [account EXCEPT !.password = q.password, !.code = q.code,
                                !.session = FALSE]

\* "refused" stands for 400, 401, 403 and 429, "broken" for 5xx and no answer
Serves(q, answer) ==
  \/ answer \in {"refused", "broken"} /\ UNCHANGED account
  \/ Repeats(q) /\ answer = "ok" /\ UNCHANGED account
  \/ TokenUsed(q) /\ ~Repeats(q) /\ answer = "conflict" /\ UNCHANGED account
  \/ ~TokenUsed(q) /\ Grants(q) /\ answer \in {"ok", "broken"} /\ account' = After(q)

Answers == {"ok", "conflict", "refused", "broken"}

Served ==
  /\ Waiting /\ call.answer = "none"
  /\ \E a \in Answers : Serves(call.q, a) /\ call' = [call EXCEPT !.answer = a]
  /\ UNCHANGED <<screen, form, attempts, result, rotation, strays, owner>>

StrayServed ==
  /\ \E q \in strays : (\E a \in Answers : Serves(q, a)) /\ strays' = strays \ {q}
  /\ UNCHANGED <<screen, form, attempts, result, rotation, call, owner>>

\* what was sent and not yet served is lost, or arrives later
Strays == strays' \in IF Waiting /\ call.answer = "none"
                      THEN {strays, strays \cup {call.q}} ELSE {strays}

ConnectionFails ==
  /\ Waiting /\ call.answer # "broken"
  /\ call' = [call EXCEPT !.answer = "broken"] /\ Strays
  /\ UNCHANGED <<account, screen, form, attempts, result, rotation, owner>>

-----------------------------------------------------------------------------
(* Answers.  The two recoveries are sent once more when the first is broken *)

SentTwice(q) == q.kind \in {"recover", "reset"}
AnotherTry   == call.answer = "broken" /\ SentTwice(call.q) /\ call.try = 1

Resends ==
  /\ Waiting /\ AnotherTry
  /\ call' = [call EXCEPT !.try = 2, !.answer = "none"]
  /\ UNCHANGED <<account, screen, form, attempts, result, rotation, strays, owner>>

Answered(kind) == call.q.kind = kind /\ call.answer # "none" /\ ~AnotherTry /\ call' = NoCall

RecoverAnswered ==
  /\ Answered("recover")
  /\ IF call.answer = "ok" THEN result' = call.q.token /\ screen' = "result"
                           ELSE UNCHANGED <<result, screen>>
  /\ attempts' = IF call.answer = "conflict" THEN [attempts EXCEPT !.key = Blank] ELSE attempts
  /\ UNCHANGED <<account, form, rotation, strays, owner>>

StartAnswered ==
  /\ Answered("start")
  /\ form' = IF call.answer = "ok" THEN [form EXCEPT !.challenge = account.issued, !.code = 0]
                                   ELSE form
  /\ UNCHANGED <<account, screen, attempts, result, rotation, strays, owner>>

ResetAnswered ==
  /\ Answered("reset")
  /\ screen' = IF call.answer = "ok" THEN "reset" ELSE screen
  /\ attempts' = IF call.answer = "conflict" THEN [attempts EXCEPT !.totp = Blank] ELSE attempts
  /\ UNCHANGED <<account, form, result, rotation, strays, owner>>

\* the key and its token stay in the panel, whatever the answer
RotateAnswered ==
  /\ Answered("rotate")
  /\ UNCHANGED <<account, screen, form, attempts, result, rotation, strays, owner>>

ChangeAnswered ==
  /\ Answered("change")
  /\ IF call.answer = "ok" THEN screen' = "login" /\ rotation' = NoRotation
                           ELSE UNCHANGED <<screen, rotation>>
  /\ UNCHANGED <<account, form, attempts, result, strays, owner>>

-----------------------------------------------------------------------------
(* The recovery form *)

\* the app that shows the codes never goes back in time
Codes    == owner.code..MaxCode
Reads(c) == Acts([owner EXCEPT !.code = c])

\* the fields can be edited while a request is under way
Fills ==
  /\ \/ /\ screen = "key" /\ Acts(owner)
        /\ \E p \in Passwords, k \in owner.kept :
             form' = [form EXCEPT !.key = k, !.password = p]
     \/ /\ screen = "totp"
        /\ \E p \in Passwords, c \in Codes :
             Reads(c) /\ form' = [form EXCEPT !.code = c, !.password = p]
  /\ form' # form
  /\ UNCHANGED <<account, screen, attempts, result, rotation, call, strays>>

\* what the owner no longer asks for: the key of an attempt that was not answered
Forgets(o) == [o EXCEPT !.gaveUp = @ \cup {attempts.key.token, result}]

ChooseMode ==
  /\ screen \in {"key", "totp"} /\ ~Waiting /\ Acts(Forgets(owner))
  /\ screen' \in {"key", "totp"} /\ form' = NoForm /\ attempts' = NoTries
  /\ UNCHANGED <<account, result, rotation, call, strays>>

\* pendingAttempt is sent again when nothing was changed
ReusesKey(a) == a.key = form.key /\ a.password = form.password

Submits ==
  /\ screen = "key" /\ form.key # Nobody /\ form.password # Nobody
  /\ LET previous == attempts.key
         other == previous.key # form.key \/ previous.password # form.password
     IN \E t \in IF ReusesKey(previous) THEN {previous.token} ELSE Fresh :
          LET a == IF ReusesKey(previous) THEN previous
                   ELSE [Blank EXCEPT !.kind = "recover", !.token = t, !.key = form.key,
                                      !.password = form.password]
          IN  /\ attempts' = [attempts EXCEPT !.key = a] /\ Sends(a)
              /\ Acts([IF other THEN Forgets(owner) ELSE owner EXCEPT
                         !.used = @ \cup {t}, !.submitted = form.password])
  /\ UNCHANGED <<account, screen, form, result, rotation, strays>>

BeginsTOTP ==
  /\ screen = "totp" /\ form.challenge = 0 /\ Acts(owner)
  /\ Sends([Blank EXCEPT !.kind = "start"])
  /\ UNCHANGED <<account, screen, form, attempts, result, rotation, strays>>

\* mutant: the new password is not compared
SameChallengeOnly(a) == a.challenge = form.challenge /\ a.code = form.code

ReusesTOTP(a) ==
  a.challenge = form.challenge /\ a.code = form.code /\ a.password = form.password

CompletesTOTP ==
  /\ screen = "totp" /\ form.challenge # 0 /\ form.code # 0 /\ form.password # Nobody
  /\ LET previous == attempts.totp
     IN \E t \in IF ReusesTOTP(previous) THEN {previous.token} ELSE Fresh :
          LET a == IF ReusesTOTP(previous) THEN previous
                   ELSE [Blank EXCEPT !.kind = "reset", !.token = t, !.key = owner.secret,
                             !.challenge = form.challenge, !.code = form.code,
                             !.password = form.password]
          IN  /\ attempts' = [attempts EXCEPT !.totp = a] /\ Sends(a)
              /\ Acts([owner EXCEPT !.used = @ \cup {t}, !.submitted = form.password])
  /\ UNCHANGED <<account, screen, form, result, rotation, strays>>

AsksNewChallenge ==
  /\ screen = "totp" /\ form.challenge # 0 /\ ~Waiting /\ Acts(owner)
  /\ form' = [form EXCEPT !.challenge = 0, !.code = 0]
  /\ attempts' = [attempts EXCEPT !.totp = Blank]
  /\ UNCHANGED <<account, screen, result, rotation, call, strays>>

\* the owner copies what is shown and goes on to the login
Continues ==
  /\ screen \in {"result", "reset"} /\ screen' = "login"
  /\ owner' = IF screen = "result"
              THEN [owner EXCEPT !.kept = @ \cup {result}, !.secret = result] ELSE owner
  /\ form' = NoForm /\ attempts' = NoTries /\ result' = Nobody
  /\ UNCHANGED <<account, rotation, call, strays>>

\* any page is left or reloaded at any time: what it waited for is not waited for
Leaves ==
  /\ Acts(Forgets(owner)) /\ screen' \in {"key", "login"} /\ screen' # screen
  /\ form' = NoForm /\ attempts' = NoTries /\ result' = Nobody /\ rotation' = NoRotation
  /\ call' = NoCall /\ Strays
  /\ UNCHANGED account

-----------------------------------------------------------------------------
(* The login, and the security panel *)

SignsIn ==
  /\ screen = "login" /\ owner.secret = account.secret
  /\ \E c \in Codes :
       c > account.code /\ Reads(c) /\ account' = [account EXCEPT !.code = c, !.session = TRUE]
  /\ screen' = "settings"
  /\ UNCHANGED <<form, attempts, result, rotation, call, strays>>

PreparesKey ==
  /\ screen = "settings" /\ rotation.token = Nobody
  /\ \E t \in Fresh : /\ rotation' = [token |-> t, saved |-> FALSE]
                      /\ Acts([owner EXCEPT !.used = @ \cup {t}])
  /\ UNCHANGED <<account, screen, form, attempts, result, call, strays>>

\* the box may be ticked only when it is true, and unticked at any time
MarksSaved ==
  /\ screen = "settings" /\ rotation.token # Nobody
  /\ rotation' = [rotation EXCEPT !.saved = ~@]
  /\ Acts([owner EXCEPT !.kept = @ \cup {rotation.token}])
  /\ UNCHANGED <<account, screen, form, attempts, result, call, strays>>

Rotates ==
  /\ screen = "settings" /\ rotation.token # Nobody /\ rotation.saved
  /\ \E c \in Codes : Reads(c) /\
       Sends([Blank EXCEPT !.kind = "rotate", !.token = rotation.token,
                           !.key = owner.secret, !.code = c])
  /\ UNCHANGED <<account, screen, form, attempts, result, rotation, strays>>

ChangesPassword ==
  /\ screen = "settings"
  /\ \E c \in Codes, p \in Passwords : Reads(c) /\
       Sends([Blank EXCEPT !.kind = "change", !.key = owner.secret, !.code = c, !.password = p])
  /\ UNCHANGED <<account, screen, form, attempts, result, rotation, strays>>

-----------------------------------------------------------------------------
Requests == Served \/ StrayServed \/ ConnectionFails \/ Resends
Replies  == RecoverAnswered \/ StartAnswered \/ ResetAnswered \/ RotateAnswered \/ ChangeAnswered
Owner    == \/ Fills \/ ChooseMode \/ Submits \/ BeginsTOTP \/ CompletesTOTP \/ AsksNewChallenge
            \/ Continues \/ Leaves \/ SignsIn \/ PreparesKey \/ MarksSaved \/ Rotates
            \/ ChangesPassword

RecoveryNext == Requests \/ Replies \/ Owner
RecoverySpec == RecoveryInit /\ [][RecoveryNext]_recoveryVars

-----------------------------------------------------------------------------
(* The recovery key the server accepts can always be had: the owner keeps  *)
(* it, or the window still has it to show it, unless the owner changed the *)
(* inputs or left before there was an answer.  It comes from attempts that *)
(* are sent again unchanged, from 409 being the only answer that drops one *)
(* (the server has then another request for it) and from the box that must *)
(* be ticked before a rotation.                                            *)
CurrentKeyIsKept ==
  account.key \in owner.kept \cup owner.gaveUp \cup {attempts.key.token, result}

(* What a page says when a recovery is over is true, whatever older        *)
(* requests arrive late: the password that was submitted last signs in,    *)
(* and the key and the secret shown are the current ones.  One request can *)
(* overtake a reset with a code: a recovery with the key that was given up *)
(* before it, because neither closes the other.                            *)
PageTellsTruth ==
  /\ screen = "result" =>
       account.password = owner.submitted /\ account.key = result /\ account.secret = result
  /\ screen = "reset" => account.password = owner.submitted \/ account.key \in owner.gaveUp
=============================================================================
