-------------------------- MODULE AccountRecovery --------------------------
(***************************************************************************)
(* The owner's credentials and everything that replaces them: login with   *)
(* its challenge and one-time code, password change, password reset with a *)
(* code, full recovery with a recovery key, and the rotation of that key   *)
(* in the browser and on the command line.                                 *)
(*                                                                         *)
(* Each handler runs one transaction at READ COMMITTED.  A step of the     *)
(* model ends where the handler waits for a lock or for the database's     *)
(* answer to COMMIT: other transactions act in between, and what was read  *)
(* before the wait may be stale after it.  A write is seen by others at    *)
(* its commit.  A commit may be lost on the way: the handler then does not *)
(* know whether it happened, and reads the record of its operation again.  *)
(*                                                                         *)
(* An operation token, the recovery key and the TOTP secret that come with *)
(* it are random and made together by the browser, so the token stands for *)
(* all three.                                                              *)
(***************************************************************************)
EXTENDS Integers, Sequences, FiniteSets

CONSTANTS
  Recoveries,  \* operation tokens of full recoveries
  Rotations,   \* operation tokens of rotations in the browser
  Resets,      \* operation tokens of resets with a one-time code
  Runs,        \* runs of the command line
  Challenges,  \* challenges for a login or a reset, issued once
  Sessions,    \* sessions, opened once
  Passwords,
  Requests,    \* bound: requests that are handled at the same time
  MaxStep,     \* bound: 30-second steps of the clock
  Failures,    \* what may fail: see FailureKinds
  First,       \* the recovery key and the TOTP secret of the installation
  None

\* "abort": a statement fails or the client is gone; "commit": the answer to
\* COMMIT is lost; "late": and it is carried out after that; "read": so is the
\* answer to the query that should find out.
FailureKinds == {"abort", "commit", "late", "read"}

Keys    == {First} \cup Recoveries \cup Rotations \cup Runs
Secrets == {First} \cup Recoveries
Codes   == [secret : Secrets, step : 0..MaxStep]
Owner   == [password : Passwords, secret : Secrets]

\* What a login stands on: the password it was begun with, whether that was
\* replaced before the code came, and the owner's row the code was checked with.
Begun   == [typed : Passwords, outdated : BOOLEAN]
Proof   == [factors : Owner, begun : Begun]

\* Tokens are random: none is drawn twice, nor does one equal the key of the
\* installation.  The lock of a challenge is none of those that have a name.
ASSUME RecoveryAssumption ==
  /\ MaxStep \in Nat
  /\ Failures \subseteq FailureKinds
  /\ First \notin Recoveries \cup Rotations \cup Resets \cup Runs
  /\ Recoveries \cap Rotations = {} /\ Recoveries \cap Runs = {} /\ Rotations \cap Runs = {}
  /\ None \notin Passwords \cup Sessions \cup Challenges
  /\ None \notin Begun \cup Proof
  /\ Challenges \cap {"operation", "keys", "owner", "commit", "verify", "remove", "landing"} = {}

VARIABLES
  owner,       \* the row of users
  guard,       \* totp_replay_guards.last_used_step
  keys,        \* account_recovery_keys: "none", "unused", "expired", "used"
  sessions,    \* table sessions, with what the login of each stood on
  challenges,  \* mfa_challenges: "none", their purpose, "gone"
  issued,      \* history: the login that a challenge was issued for
  operations,  \* account_recovery_operations and auth_operation_idempotency
  files,       \* runs of the command line whose output file exists
  blind,       \* history: runs that found their key inactive before a late COMMIT
  now,         \* the current step of the clock
  tx,          \* what each request in progress is doing
  answer,      \* what a request was told in this step, if it claims something
  spent        \* history: how often each one-time code was accepted

factorVars == <<owner, guard, keys, sessions, challenges, issued, operations>>
fileVars == <<files, blind>>
vars == <<factorVars, fileVars, now, tx, answer, spent>>

-----------------------------------------------------------------------------
\* A request is what its body and its cookie say.
Recover == [kind : {"recover"}, token : Recoveries, key : Keys, new : Passwords]
Rotate  == [kind : {"rotate"}, token : Rotations, password : Passwords,
            code : Codes, session : Sessions \cup {None}]
Reset   == [kind : {"reset"}, token : Resets, challenge : Challenges,
            code : Codes, new : Passwords]
Change  == [kind : {"change"}, password : Passwords, code : Codes, new : Passwords]
Login   == [kind : {"login"}, challenge : Challenges, code : Codes]
Run     == [kind : {"run"}, token : Runs]
Body    == Recover \cup Rotate \cup Reset \cup Change \cup Login \cup Run

\* What the MAC of an operation covers: the body without the cookie.
Payload(q) == IF q.kind = "rotate" THEN [q EXCEPT !.session = None] ELSE q

\* mutant: the owner is locked before the keys
OwnerBeforeKeys == [recover |-> <<"keys", "owner", "commit", "verify">>,
                    rotate  |-> <<"owner", "keys", "commit", "verify">>,
                    reset   |-> <<"operation", "challenge", "owner", "commit", "verify">>,
                    change  |-> <<"owner", "commit">>,
                    login   |-> <<"challenge", "owner", "commit">>,
                    run     |-> <<"keys", "commit", "verify", "remove", "landing">>]

\* The waits of each handler, in their order.
Stages == [recover |-> <<"keys", "owner", "commit", "verify">>,
           rotate  |-> <<"keys", "owner", "commit", "verify">>,
           reset   |-> <<"operation", "challenge", "owner", "commit", "verify">>,
           change  |-> <<"owner", "commit">>,
           login   |-> <<"challenge", "owner", "commit">>,
           run     |-> <<"keys", "commit", "verify", "remove", "landing">>]

\* seen: what a login stands on; old: the keys it replaces; late: the server
\* is still busy with its COMMIT.
Idle == [q |-> None, at |-> 0, seen |-> None, old |-> {}, late |-> FALSE]

Stage(x) == IF tx[x] = Idle THEN "idle" ELSE Stages[tx[x].q.kind][tx[x].at]

\* mutant: the login reads the owner's row without FOR UPDATE
LoginLocksNoOwner(q, i) ==
  LET stage == Stages[q.kind][i]
  IN  IF stage = "challenge" THEN q.challenge
      ELSE IF stage = "owner" /\ q.kind = "login" THEN None ELSE stage

\* The lock a stage waits for: the table of recovery keys, the row of the
\* challenge, or the owner's row and with it the replay guard.
LockAt(q, i) ==
  LET stage == Stages[q.kind][i]
  IN  IF stage = "challenge" THEN q.challenge ELSE stage

Over(x) == Stage(x) \in {"verify", "remove", "landing"} /\ ~tx[x].late

Holds(x, lock) ==
  /\ tx[x] # Idle /\ ~Over(x)
  /\ \E i \in 1..(tx[x].at - 1) : LockAt(tx[x].q, i) = lock

Waits(x, y) ==
  /\ x # y /\ Stage(x) \in {"keys", "challenge", "owner"}
  /\ Holds(y, LockAt(tx[x].q, tx[x].at))

Free(x) == \A y \in Requests : ~Waits(x, y)

\* recorded at all, and recorded with this payload
Taken(q) == \E o \in operations : o.kind = q.kind /\ o.token = q.token
\* mutant: the MAC of the payload is not compared
RecordedAtAll(q) == Taken(q)
Recorded(q) == Payload(q) \in operations

\* Recoveries and rotations also ask for the key they brought to be active.
Replayed(q) == Recorded(q) /\ (q.kind # "reset" => keys[q.token] = "unused")

Active == {k \in Keys : keys[k] = "unused"}
Unused == {k \in Keys : keys[k] \in {"unused", "expired"}}

\* validateTOTPWithStep accepts the neighbours of the current step.
Valid(code) == code.secret = owner.secret /\ code.step \in (now - 1)..(now + 1)

\* ... and the step must be newer than the last one used.
Accepted(code) == Valid(code) /\ code.step > guard
\* mutant: the step of the clock is stored
ClockStep(code) == now
UsedStep(code) == code.step

\* A conflict or a failure says nothing of what has happened.
Claims == {"ok", "invalid", "unproven"}

Silent == answer' = None
Goes(x) ==
  /\ tx' = [tx EXCEPT ![x].at = @ + 1]
  /\ Silent /\ UNCHANGED <<factorVars, fileVars, now, spent>>
Answers(x, says) ==
  /\ tx' = [tx EXCEPT ![x] = Idle]
  /\ answer' = IF says \in Claims THEN [to |-> tx[x].q, says |-> says] ELSE None
Refuses(x, says) ==
  /\ Answers(x, says)
  /\ UNCHANGED <<factorVars, fileVars, now, spent>>

-----------------------------------------------------------------------------
(***************************************************************************)
(* Requests come in.  The owner types a code of the authenticator in use,  *)
(* one step early or late at most; browsers send an operation again with   *)
(* the same or with other contents.                                        *)
(***************************************************************************)
LoggedIn(s) == s \in Sessions /\ sessions[s].state = "live"

\* bound: every login under way has a session to open
LoggingIn == {x \in Requests : tx[x] # Idle /\ tx[x].q.kind = "login"}
RoomForLogin ==
  Cardinality(LoggingIn) < Cardinality({s \in Sessions : sessions[s].state = "none"})

\* The owner's password and a code of the authenticator in use.
Typed(q) == q.password = owner.password /\ Valid(q.code)

Incoming ==
       {q \in Recover : keys[q.key] # "none" /\ q.key # q.token}
  \cup {q \in Rotate : LoggedIn(q.session) /\ (Typed(q) \/ Recorded(q))}
  \cup {q \in Reset : challenges[q.challenge] # "none" /\ (Valid(q.code) \/ Recorded(q))}
  \cup {q \in Change : (\E s \in Sessions : LoggedIn(s)) /\ Typed(q) /\ q.new # q.password}
  \cup {q \in Login : challenges[q.challenge] # "none" /\ Valid(q.code) /\ RoomForLogin}
  \cup {q \in Run : keys[q.token] = "none" /\ \A y \in Requests : tx[y].q # q}

Arrives(x) ==
  /\ tx[x] = Idle
  /\ \E q \in Incoming : tx' = [tx EXCEPT ![x] = [Idle EXCEPT !.q = q, !.at = 1]]
  /\ Silent
  /\ UNCHANGED <<factorVars, fileVars, now, spent>>

\* loginPassword compares the password first; no lock is held when it then
\* stores the challenge, nor while the challenge waits for its code.
ProvesPassword(h) ==
  /\ challenges[h] = "none" /\ issued[h] = None
  /\ issued' = [issued EXCEPT ![h] = [typed |-> owner.password, outdated |-> FALSE]]
  /\ Silent
  /\ UNCHANGED <<owner, guard, keys, sessions, challenges, operations, fileVars, now, tx, spent>>

\* loginPassword, startTOTPPasswordRecovery
Issue(h, purpose) ==
  /\ challenges[h] = "none"
  /\ purpose = "login" <=> issued[h] # None
  /\ challenges' = [challenges EXCEPT ![h] = purpose]
  /\ Silent
  /\ UNCHANGED <<owner, guard, keys, sessions, issued, operations, fileVars, now, tx, spent>>

\* logout, the session list, or its expiry
SessionEnds(s) ==
  /\ LoggedIn(s)
  /\ sessions' = [sessions EXCEPT ![s].state = "revoked"]
  /\ Silent
  /\ UNCHANGED <<owner, guard, keys, challenges, issued, operations, fileVars, now, tx, spent>>

-----------------------------------------------------------------------------
\* LOCK TABLE account_recovery_keys, then the record of the operation, then
\* for a recovery the key that was sent.
Recovers(x) ==
  LET q == tx[x].q
  IN  /\ Stage(x) = "keys" /\ q.kind = "recover" /\ Free(x)
      /\ \/ Replayed(q) /\ Refuses(x, "ok")
         \/ Taken(q) /\ ~Replayed(q) /\ Refuses(x, "conflict")
         \/ ~Taken(q) /\ q.key \notin Active /\ Refuses(x, "invalid")
         \/ /\ ~Taken(q) /\ q.key \in Active
            /\ tx' = [tx EXCEPT ![x].at = @ + 1, ![x].old = {q.key}]
            /\ Silent /\ UNCHANGED <<factorVars, fileVars, now, spent>>

Rotates(x) ==
  LET q == tx[x].q
  IN  /\ Stage(x) = "keys" /\ q.kind = "rotate" /\ Free(x)
      /\ \/ Replayed(q) /\ Refuses(x, "ok")
         \/ Taken(q) /\ ~Replayed(q) /\ Refuses(x, "conflict")
         \/ ~Taken(q) /\ Goes(x)

\* The reset looks at the records before it waits for its challenge ...
ResetStarts(x) ==
  LET q == tx[x].q
  IN  /\ Stage(x) = "operation"
      /\ \/ Recorded(q) /\ Refuses(x, "ok")
         \/ Taken(q) /\ ~Recorded(q) /\ Refuses(x, "conflict")
         \/ ~Taken(q) /\ Goes(x)

\* mutant: a missing challenge is the end of it
ResolvesNothing(x) == Refuses(x, "invalid")

\* ... and once more when the challenge is gone.
Resolves(x) ==
  LET q == tx[x].q
  IN  \/ q.kind = "reset" /\ Recorded(q) /\ Refuses(x, "ok")
      \/ q.kind = "reset" /\ Taken(q) /\ ~Recorded(q) /\ Refuses(x, "conflict")
      \/ (q.kind = "reset" => ~Taken(q)) /\ Refuses(x, "invalid")

TakesChallenge(x) ==
  /\ Stage(x) = "challenge" /\ Free(x)
  /\ \/ challenges[tx[x].q.challenge] # tx[x].q.kind /\ Resolves(x)
     \/ challenges[tx[x].q.challenge] = tx[x].q.kind /\ Goes(x)

\* The factors are checked under the lock of the owner's row.  The login asks
\* for its challenge once more, the rotation for a key to replace.
Proven(q) ==
  /\ q.kind # "recover" => Accepted(q.code)
  /\ q.kind \in {"change", "rotate"} => q.password = owner.password
  /\ q.kind = "login" => challenges[q.challenge] = "login"
  /\ q.kind = "rotate" => Active # {}

\* Two resets with one token and two challenges meet in the primary key.
Collides(q) == q.kind = "reset" /\ Taken(q)

TakesOwner(x) ==
  LET q == tx[x].q
  IN  /\ Stage(x) = "owner" /\ Free(x)
      /\ \/ /\ ~Proven(q) \/ Collides(q)
            /\ Refuses(x, IF Proven(q) THEN "failed" ELSE "unproven")
         \/ /\ Proven(q) /\ ~Collides(q)
            /\ tx' = [tx EXCEPT ![x].at = @ + 1,
                                ![x].seen = IF q.kind = "login"
                                            THEN [factors |-> owner, begun |-> issued[q.challenge]]
                                            ELSE @,
                                ![x].old = IF q.kind = "rotate" THEN Active ELSE @]
            /\ Silent /\ UNCHANGED <<factorVars, fileVars, now, spent>>

\* mutant: an expired key is left as it is
OnlyActive == Active

\* The command line does not wait for the table.  It writes its key to a file
\* of its own and replaces every key that is not used, the expired one too.
Invalidated == Unused

RunStarts(x) ==
  LET q == tx[x].q
  IN  /\ Stage(x) = "keys" /\ q.kind = "run"
      /\ \/ ~Free(x) /\ Refuses(x, "failed")
         \/ /\ Free(x)
            /\ files' = files \cup {q.token}
            /\ tx' = [tx EXCEPT ![x].at = @ + 1, ![x].old = Invalidated]
            /\ Silent /\ UNCHANGED <<factorVars, blind, now, spent>>

-----------------------------------------------------------------------------
\* UPDATE sessions SET revoked_at=now() WHERE revoked_at IS NULL
Revoked(kept) ==
  [s \in Sessions |-> IF LoggedIn(s) /\ s \notin kept
                      THEN [sessions[s] EXCEPT !.state = "revoked"] ELSE sessions[s]]

BringsKey == {"recover", "rotate", "run"}

\* The logins that were begun with the password that is now replaced.
Outdated ==
  [h \in Challenges |-> IF issued[h] = None THEN None ELSE [issued[h] EXCEPT !.outdated = TRUE]]

\* What the transaction has written, as the others see it from now on.
Lands(x) ==
  LET q == tx[x].q
  IN  /\ owner' = CASE q.kind = "recover" -> [password |-> q.new, secret |-> q.token]
                    [] q.kind \in {"reset", "change"} -> [owner EXCEPT !.password = q.new]
                    [] OTHER -> owner
      /\ guard' = CASE q.kind = "recover" -> -1
                    [] q.kind = "run" -> guard
                    [] OTHER -> UsedStep(q.code)
      /\ keys' = [k \in Keys |-> CASE k \in tx[x].old -> "used"
                                   [] q.kind \in BringsKey /\ k = q.token -> "unused"
                                   [] OTHER -> keys[k]]
      /\ CASE q.kind = "login" ->
                \E s \in Sessions :
                  /\ sessions[s].state = "none"
                  /\ sessions' = [sessions EXCEPT ![s] = [state |-> "live", by |-> tx[x].seen]]
           [] q.kind = "rotate" -> sessions' = Revoked({q.session})
           [] q.kind = "run" -> sessions' = sessions
           [] OTHER -> sessions' = Revoked({})
      /\ challenges' = IF q.kind \in {"reset", "login"}
                       THEN [challenges EXCEPT ![q.challenge] = "gone"] ELSE challenges
      /\ issued' = CASE q.kind = "login" -> [issued EXCEPT ![q.challenge] = None]
                     [] q.kind \in {"recover", "reset", "change"} -> Outdated
                     [] OTHER -> issued
      /\ operations' = operations \cup
                       (IF q.kind \in {"recover", "rotate", "reset"} THEN {Payload(q)} ELSE {})
      /\ spent' = IF q.kind \in {"recover", "run"} THEN spent
                   ELSE [spent EXCEPT ![q.code] = @ + 1]
      /\ UNCHANGED <<fileVars, now>>

Unlanded == UNCHANGED <<factorVars, fileVars, now, spent>>

Resolving(x) == tx[x].q.kind \notin {"change", "login"}

Commits(x) ==
  /\ Stage(x) = "commit"
  /\ Lands(x) /\ Answers(x, "ok")

\* The answer to COMMIT is lost.  A change of the password and a login give up;
\* the others try to find out.
LosesCommit(x) ==
  /\ Stage(x) = "commit" /\ "commit" \in Failures
  /\ Lands(x) \/ Unlanded
  /\ IF Resolving(x) THEN tx' = [tx EXCEPT ![x].at = @ + 1] /\ Silent
                     ELSE Answers(x, "failed")

\* The server has the COMMIT and carries it out later.  (For a browser this
\* is a lost answer whose record cannot be read.)
CommitIsLate(x) ==
  /\ Stage(x) = "commit" /\ "late" \in Failures /\ tx[x].q.kind = "run"
  /\ tx' = [tx EXCEPT ![x].at = @ + 1, ![x].late = TRUE]
  /\ Silent /\ Unlanded

LateCommitLands(x) ==
  /\ tx[x].late
  /\ Lands(x)
  /\ tx' = [tx EXCEPT ![x] = IF Stage(x) = "landing" THEN Idle ELSE [@ EXCEPT !.late = FALSE]]
  /\ Silent

\* The record and the key it is bound to tell whether the commit happened.
Verifies(x) ==
  LET q == tx[x].q
  IN  /\ Stage(x) = "verify" /\ q.kind # "run"
      /\ \/ Replayed(q) /\ Refuses(x, "ok")
         \/ (~Replayed(q) \/ "read" \in Failures) /\ Refuses(x, "failed")

\* mutant: an error of COMMIT removes the file
NeverKept(q) == FALSE

\* The command line keeps its file unless it reads that the key is inactive.
KeepsFile(q) == q.token \in Active

\* A run whose COMMIT the server still has is not over for the tables.
Ends(x, says) ==
  IF tx[x].late THEN tx' = [tx EXCEPT ![x].at = Len(Stages.run)] /\ Silent ELSE Answers(x, says)

RunVerifies(x) ==
  LET q == tx[x].q
  IN  /\ Stage(x) = "verify" /\ q.kind = "run"
      /\ \/ KeepsFile(q) /\ Ends(x, "ok") /\ UNCHANGED blind
         \/ /\ ~KeepsFile(q)
            /\ tx' = [tx EXCEPT ![x].at = @ + 1] /\ Silent
            /\ blind' = IF tx[x].late THEN blind \cup {q.token} ELSE blind
         \/ "read" \in Failures /\ Ends(x, "failed") /\ UNCHANGED blind
      /\ UNCHANGED <<factorVars, files, now, spent>>

\* The deferred output.Remove() comes after that, whatever happened since.
Removes(x) ==
  /\ Stage(x) = "remove"
  /\ files' = files \ {tx[x].q.token}
  /\ Ends(x, "failed")
  /\ UNCHANGED <<factorVars, blind, now, spent>>

\* Any statement before the commit may fail, or the client go away.
Aborts(x) ==
  /\ Stage(x) \in {"operation", "keys", "challenge", "owner", "commit"}
  /\ "abort" \in Failures
  /\ Answers(x, "failed")
  /\ files' = IF tx[x].q.kind = "run" THEN files \ {tx[x].q.token} ELSE files
  /\ UNCHANGED <<factorVars, blind, now, spent>>

-----------------------------------------------------------------------------
\* Time: the next step of the clock; keys last 90 days, challenges 5 minutes.
\* Records last 24 hours, a token only as long as the page that made it, so
\* their expiry is left out.
Tick ==
  /\ now < MaxStep
  /\ now' = now + 1
  /\ Silent
  /\ UNCHANGED <<factorVars, fileVars, tx, spent>>

KeyExpires(k) ==
  /\ keys[k] = "unused"
  /\ keys' = [keys EXCEPT ![k] = "expired"]
  /\ Silent
  /\ UNCHANGED <<owner, guard, sessions, challenges, issued, operations, fileVars, now, tx, spent>>

ChallengeExpires(h) ==
  /\ challenges[h] \in {"login", "reset"}
  /\ challenges' = [challenges EXCEPT ![h] = "gone"]
  /\ issued' = [issued EXCEPT ![h] = None]
  /\ Silent
  /\ UNCHANGED <<owner, guard, keys, sessions, operations, fileVars, now, tx, spent>>

-----------------------------------------------------------------------------
Closed == [state |-> "none", by |-> None]

Init ==
  /\ owner \in [password : Passwords, secret : {First}]
  /\ guard = -1 /\ now = 0
  /\ keys = [k \in Keys |-> IF k = First THEN "unused" ELSE "none"]
  /\ sessions = [s \in Sessions |-> Closed]
  /\ challenges = [h \in Challenges |-> "none"] /\ issued = [h \in Challenges |-> None]
  /\ operations = {} /\ files = {} /\ blind = {}
  /\ spent = [c \in Codes |-> 0]
  /\ tx = [x \in Requests |-> Idle] /\ answer = None

Handles(x) ==
  \/ Arrives(x)
  \/ Recovers(x) \/ Rotates(x) \/ ResetStarts(x) \/ RunStarts(x)
  \/ TakesChallenge(x) \/ TakesOwner(x)
  \/ Commits(x) \/ LosesCommit(x) \/ CommitIsLate(x) \/ LateCommitLands(x)
  \/ Verifies(x) \/ RunVerifies(x) \/ Removes(x)
  \/ Aborts(x)

Next ==
  \/ \E x \in Requests : Handles(x)
  \/ \E h \in Challenges : ProvesPassword(h)
  \/ \E h \in Challenges, purpose \in {"login", "reset"} : Issue(h, purpose)
  \/ \E s \in Sessions : SessionEnds(s)
  \/ Tick
  \/ \E k \in Keys : KeyExpires(k)
  \/ \E h \in Challenges : ChallengeExpires(h)

Spec == Init /\ [][Next]_vars

-----------------------------------------------------------------------------
(***************************************************************************)
(* Properties                                                              *)
(***************************************************************************)
\* Every variable has its type, and a session is known with what its login
\* stood on exactly from its opening on.
TypeOK ==
  /\ owner \in Owner /\ guard \in -1..MaxStep /\ now \in 0..MaxStep
  /\ keys \in [Keys -> {"none", "unused", "expired", "used"}]
  /\ sessions \in [Sessions -> [state : {"none", "live", "revoked"}, by : Proof \cup {None}]]
  /\ \A s \in Sessions : sessions[s].state = "none" <=> sessions[s].by = None
  /\ challenges \in [Challenges -> {"none", "login", "reset", "gone"}]
  /\ issued \in [Challenges -> Begun \cup {None}]
  /\ operations \subseteq Recover \cup Rotate \cup Reset
  /\ \A o, p \in operations : o.kind = p.kind /\ o.token = p.token => o = p
  /\ files \subseteq Runs /\ blind \subseteq Runs /\ spent \in [Codes -> Nat]
  /\ \A x \in Requests :
       tx[x] # Idle => /\ tx[x].q \in Body
                       /\ tx[x].at \in DOMAIN Stages[tx[x].q.kind]
                       /\ tx[x].seen \in Proof \cup {None}
                       /\ tx[x].old \subseteq Keys
  /\ answer # None => answer.to \in Body

\* The types hold, and there is always exactly one key that is not used: two
\* transactions never meet in account_recovery_keys_active_uq, an expired key
\* does not stand in the way of the next one, and no rotation leaves the owner
\* without a key.
OneUnusedKey == TypeOK /\ Cardinality(Unused) = 1

\* Whoever is told that it worked is told the truth: exactly what this request
\* asks for has been carried out, by it or by an earlier one with the same
\* token (docs/operations/account-recovery.md: a token with other contents is
\* a conflict).
OkIsTrue ==
  answer # None /\ answer.says = "ok" =>
    /\ answer.to.kind \in {"recover", "rotate", "reset"} => Payload(answer.to) \in operations
    /\ answer.to.kind = "run" => keys[answer.to.token] # "none"

\* A request that was carried out, and whose record is kept, is not refused
\* for its factors when it is sent again, not even when both were under way
\* together ("can be retried safely").
RetryIsRecognized ==
  answer # None /\ answer.says \in {"invalid", "unproven"} => ~Recorded(answer.to)

\* A one-time code is accepted once, whichever handler it is sent to, at once
\* or one after the other, early or late.
CodeSpentOnce == \A c \in Codes : spent[c] <= 1

\* The code of every session that is not revoked was accepted under the password
\* and the secret in force: no login whose code was accepted before they were
\* replaced survives that.  The password typed for it is the one in force too,
\* unless that was replaced before the code came: a challenge does not remember
\* its password, so such a login ends in a session (auth_handlers.go:246-262).
Current(proof) ==
  /\ proof.factors = owner
  /\ proof.begun.typed = owner.password \/ proof.begun.outdated

SessionsAreCurrent == \A s \in Sessions : LoggedIn(s) => Current(sessions[s].by)

\* A key that works is in its file, the only plaintext copy, unless the run
\* found it inactive while the server still had its COMMIT: no lost answer, no
\* failed read and no other transaction takes the file of a key that works.
FileOutlivesKey == \A r \in Runs : keys[r] = "unused" => r \in files \/ r \in blind

\* ... and so a key that works is in its file (recovery_cli.go:203-205).
KeyIsInItsFile == \A r \in Runs : keys[r] = "unused" => r \in files

\* No two transactions wait for each other: keys before challenge before owner
\* is a convention of five handlers.
NoMutualWait == \A x, y \in Requests : ~(Waits(x, y) /\ Waits(y, x))

=============================================================================
