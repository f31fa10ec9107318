------------------------ MODULE AccountRecovery_proofs ------------------------
(***************************************************************************)
(* Proofs about AccountRecovery, for any number of requests at a time, of  *)
(* tokens, challenges and sessions, and whatever fails: the properties     *)
(* that the runs check.                                                    *)
(***************************************************************************)
EXTENDS AccountRecovery, FiniteSetTheorems, TLAPS

-----------------------------------------------------------------------------
(* Requests and their stages *)

\* What a body of each kind has.
LEMMA Kinds ==
  ASSUME NEW q \in Body
  PROVE  /\ q.kind \in {"recover", "rotate", "reset", "change", "login", "run"}
         /\ q.kind = "recover" => q \in Recover
         /\ q.kind = "rotate" => q \in Rotate
         /\ q.kind = "reset" => q \in Reset
         /\ q.kind = "change" => q \in Change
         /\ q.kind = "login" => q \in Login
         /\ q.kind = "run" => q \in Run
  BY DEF Body, Recover, Rotate, Reset, Change, Login, Run

LEMMA Fields ==
  /\ \A q \in Recover : q.token \in Recoveries /\ q.key \in Keys /\ q.new \in Passwords
  /\ \A q \in Rotate : q.token \in Rotations /\ q.code \in Codes
  /\ \A q \in Reset : q.token \in Resets /\ q.challenge \in Challenges /\ q.code \in Codes
                      /\ q.new \in Passwords
  /\ \A q \in Change : q.code \in Codes /\ q.new \in Passwords
  /\ \A q \in Login : q.challenge \in Challenges /\ q.code \in Codes
  /\ \A q \in Run : q.token \in Runs
  BY DEF Recover, Rotate, Reset, Change, Login, Run

\* The kinds by the locks they take.
Keyed   == {"recover", "rotate"}
Guarded == {"recover", "rotate", "reset", "change", "login"}

Last(kind) == IF kind \in {"reset", "run"} THEN 5 ELSE IF kind \in {"recover", "rotate"} THEN 4
              ELSE IF kind = "login" THEN 3 ELSE 2

LEMMA Waits_ ==
  /\ \A kind \in Guarded \cup {"run"} : DOMAIN Stages[kind] = 1..Last(kind)
  /\ \A kind \in Keyed : /\ Stages[kind][1] = "keys" /\ Stages[kind][2] = "owner"
                         /\ Stages[kind][3] = "commit" /\ Stages[kind][4] = "verify"
  /\ Stages["reset"][1] = "operation" /\ Stages["reset"][2] = "challenge"
  /\ Stages["reset"][3] = "owner" /\ Stages["reset"][4] = "commit" /\ Stages["reset"][5] = "verify"
  /\ Stages["change"][1] = "owner" /\ Stages["change"][2] = "commit"
  /\ Stages["login"][1] = "challenge" /\ Stages["login"][2] = "owner" /\ Stages["login"][3] = "commit"
  /\ Stages["run"][1] = "keys" /\ Stages["run"][2] = "commit"
  /\ Stages["run"][3] = "verify" /\ Stages["run"][4] = "remove" /\ Stages["run"][5] = "landing"
  BY DEF Stages, Last, Keyed, Guarded

LEMMA RunLast == Len(Stages.run) = 5
  BY DEF Stages

Kind(x) == tx[x].q.kind

TxRow == [q : Body \cup {None}, at : 0..5, seen : Proof \cup {None}, old : SUBSET Keys, late : BOOLEAN]

\* Every request is idle, or at a stage of its kind.
TxOK ==
  /\ tx \in [Requests -> TxRow]
  /\ \A x \in Requests : tx[x] # Idle => tx[x].q \in Body /\ tx[x].at \in 1..Last(Kind(x))

\* Where a request is, by its kind and the number of the stage.
AtKeys(x)      == Kind(x) \in Keyed \cup {"run"} /\ tx[x].at = 1
AtChallenge(x) ==
  \/ Kind(x) = "reset" /\ tx[x].at = 2
  \/ Kind(x) = "login" /\ tx[x].at = 1
AtOwner(x) ==
  \/ Kind(x) \in Keyed \cup {"login"} /\ tx[x].at = 2
  \/ Kind(x) = "reset" /\ tx[x].at = 3
  \/ Kind(x) = "change" /\ tx[x].at = 1
AtCommit(x) ==
  \/ Kind(x) \in Keyed \cup {"login"} /\ tx[x].at = 3
  \/ Kind(x) = "reset" /\ tx[x].at = 4
  \/ Kind(x) \in {"change", "run"} /\ tx[x].at = 2
AtVerify(x) ==
  \/ Kind(x) \in Keyed /\ tx[x].at = 4
  \/ Kind(x) = "reset" /\ tx[x].at = 5
  \/ Kind(x) = "run" /\ tx[x].at = 3
AtRemove(x)  == Kind(x) = "run" /\ tx[x].at = 4
AtLanding(x) == Kind(x) = "run" /\ tx[x].at = 5

LEMMA StageOf ==
  ASSUME TxOK, NEW x \in Requests
  PROVE  /\ Stage(x) = "keys" <=> AtKeys(x)
         /\ Stage(x) = "operation" <=> Kind(x) = "reset" /\ tx[x].at = 1
         /\ Stage(x) = "challenge" <=> AtChallenge(x)
         /\ Stage(x) = "owner" <=> AtOwner(x)
         /\ Stage(x) = "commit" <=> AtCommit(x)
         /\ Stage(x) = "verify" <=> AtVerify(x)
         /\ Stage(x) = "remove" <=> AtRemove(x)
         /\ Stage(x) = "landing" <=> AtLanding(x)
         /\ tx[x] = Idle => tx[x].at = 0
  <1>1. CASE tx[x] = Idle
    BY <1>1 DEF Stage, Idle, AtKeys, AtChallenge, AtOwner, AtCommit, AtVerify, AtRemove, AtLanding
  <1>2. CASE tx[x] # Idle
    <2>1. Kind(x) \in Guarded \cup {"run"} /\ tx[x].at \in 1..Last(Kind(x))
      BY <1>2, Kinds DEF TxOK, Guarded, Kind
    <2>2. Stage(x) = Stages[Kind(x)][tx[x].at]
      BY <1>2 DEF Stage, Kind
    <2> USE <2>1, <2>2, Waits_ DEF Last, Keyed, AtKeys, AtChallenge, AtOwner, AtCommit, AtVerify, AtRemove, AtLanding
    <2>3. CASE Kind(x) \in Keyed
      BY <1>2, <2>3, SMTT(30)
    <2>4. CASE Kind(x) = "reset"
      BY <1>2, <2>4
    <2>5. CASE Kind(x) = "change"
      BY <1>2, <2>5
    <2>6. CASE Kind(x) = "login"
      BY <1>2, <2>6
    <2>7. CASE Kind(x) = "run"
      BY <1>2, <2>7
    <2> QED
      BY <2>3, <2>4, <2>5, <2>6, <2>7 DEF Guarded
  <1> QED
    BY <1>1, <1>2

-----------------------------------------------------------------------------
(* The locks that a request holds *)

HasKeys(x) ==
  \/ Kind(x) \in Keyed /\ tx[x].at \in {2, 3}
  \/ Kind(x) = "run" /\ (tx[x].at = 2 \/ tx[x].late)
HasOwner(x) == AtCommit(x) /\ Kind(x) # "run"
HasChallenge(x) ==
  \/ Kind(x) = "reset" /\ tx[x].at \in {3, 4}
  \/ Kind(x) = "login" /\ tx[x].at \in {2, 3}

\* Only the command line has a COMMIT that is carried out later.
Lateness(x) ==
  /\ tx[x].late => Kind(x) = "run" /\ tx[x].at \in {3, 4, 5}
  /\ AtLanding(x) => tx[x].late

\* What a request has, nobody waits for in vain: it is excluded from its lock.
LEMMA Excludes ==
  ASSUME TxOK, NEW x \in Requests, NEW y \in Requests, x # y, Free(x), Lateness(y)
  PROVE  /\ AtKeys(x) => ~HasKeys(y)
         /\ AtOwner(x) => ~HasOwner(y)
         /\ AtChallenge(x) /\ HasChallenge(y) => tx[y].q.challenge # tx[x].q.challenge
  <1> USE DEF Kind
  <1>1. /\ tx[x].at # 0 => tx[x] # Idle /\ tx[x].q \in Body
        /\ tx[y].at # 0 => tx[y] # Idle /\ tx[y].q \in Body
        /\ tx[x].at \in Nat /\ tx[y].at \in Nat
    BY DEF TxOK, TxRow, Idle
  <1>2. ASSUME HasKeys(y) \/ HasOwner(y) \/ HasChallenge(y)
        PROVE  tx[y] # Idle /\ ~Over(y)
    <2>1. tx[y].at # 0
      BY <1>2 DEF HasKeys, HasOwner, HasChallenge, AtCommit, Lateness
    <2>2. Stage(y) \in {"verify", "remove", "landing"} => tx[y].late
      BY <1>1, <1>2, <2>1, StageOf DEF HasKeys, HasOwner, HasChallenge, AtCommit, Lateness, AtVerify, AtRemove, AtLanding, Keyed
    <2> QED
      BY <1>1, <2>1, <2>2 DEF Over
  <1>3. ASSUME AtKeys(x), HasKeys(y) PROVE FALSE
    <2>1. Stage(x) = "keys" /\ LockAt(tx[x].q, tx[x].at) = "keys"
      BY <1>3, StageOf, Waits_ DEF AtKeys, LockAt
    <2>2. 1 \in 1..(tx[y].at - 1) /\ LockAt(tx[y].q, 1) = "keys"
      BY <1>1, <1>3, Waits_ DEF HasKeys, LockAt, Lateness
    <2> QED
      BY <1>2, <1>3, <2>1, <2>2 DEF Free, Waits, Holds
  <1>4. ASSUME AtOwner(x), HasOwner(y) PROVE FALSE
    <2>1. Stage(x) = "owner" /\ LockAt(tx[x].q, tx[x].at) = "owner"
      BY <1>4, StageOf, Waits_ DEF AtOwner, LockAt, Keyed
    <2>2. tx[y].at - 1 \in 1..(tx[y].at - 1) /\ LockAt(tx[y].q, tx[y].at - 1) = "owner"
      <3>1. CASE Kind(y) \in Keyed \cup {"login"} /\ tx[y].at = 3
        BY <1>1, <3>1, Waits_ DEF LockAt, Keyed
      <3>2. CASE Kind(y) = "reset" /\ tx[y].at = 4
        BY <1>1, <3>2, Waits_ DEF LockAt
      <3>3. CASE Kind(y) = "change" /\ tx[y].at = 2
        BY <1>1, <3>3, Waits_ DEF LockAt
      <3> QED
        BY <1>4, <3>1, <3>2, <3>3 DEF HasOwner, AtCommit
    <2> QED
      BY <1>2, <1>4, <2>1, <2>2 DEF Free, Waits, Holds
  <1>5. ASSUME AtChallenge(x), HasChallenge(y), tx[y].q.challenge = tx[x].q.challenge PROVE FALSE
    <2>1. Stage(x) = "challenge" /\ LockAt(tx[x].q, tx[x].at) = tx[x].q.challenge
      BY <1>5, StageOf, Waits_ DEF AtChallenge, LockAt
    <2>2. \E i \in 1..(tx[y].at - 1) : LockAt(tx[y].q, i) = tx[y].q.challenge
      <3>1. CASE Kind(y) = "reset"
        <4>1. 2 \in 1..(tx[y].at - 1) /\ LockAt(tx[y].q, 2) = tx[y].q.challenge
          BY <1>1, <1>5, <3>1, Waits_ DEF HasChallenge, LockAt
        <4> QED
          BY <4>1
      <3>2. CASE Kind(y) = "login"
        <4>1. 1 \in 1..(tx[y].at - 1) /\ LockAt(tx[y].q, 1) = tx[y].q.challenge
          BY <1>1, <1>5, <3>2, Waits_ DEF HasChallenge, LockAt
        <4> QED
          BY <4>1
      <3> QED
        BY <1>5, <3>1, <3>2 DEF HasChallenge
    <2> QED
      BY <1>2, <1>5, <2>1, <2>2 DEF Free, Waits, Holds
  <1> QED
    BY <1>3, <1>4, <1>5

-----------------------------------------------------------------------------
(* The invariant *)

Purposes == {"none", "login", "reset", "gone"}

\* The types of what the requests share, and of what each step may change.
FactorsOK ==
  /\ owner \in Owner /\ guard \in -1..MaxStep
  /\ keys \in [Keys -> {"none", "unused", "expired", "used"}]
  /\ sessions \in [Sessions -> [state : {"none", "live", "revoked"}, by : Proof \cup {None}]]
  /\ \A s \in Sessions : sessions[s].state = "none" <=> sessions[s].by = None
  /\ challenges \in [Challenges -> Purposes] /\ issued \in [Challenges -> Begun \cup {None}]
  /\ operations \subseteq Recover \cup Rotate \cup Reset
  /\ \A o, p \in operations : o.kind = p.kind /\ o.token = p.token => o = p
  /\ spent \in [Codes -> Nat]
OutsideOK ==
  /\ now \in 0..MaxStep /\ files \subseteq Runs /\ blind \subseteq Runs
  /\ answer # None => answer.to \in Body

\* A request of this kind with this token was carried out.
Done(kind, token) == \E o \in operations : o.kind = kind /\ o.token = token

\* There is one key to replace; the keys that were made are recorded.
KeysOK ==
  /\ \E k \in Keys : Unused = {k}
  /\ \A k \in Recoveries : keys[k] # "none" => Done("recover", k)
  /\ \A k \in Rotations : keys[k] # "none" => Done("rotate", k)

\* A reset that was carried out has used up its challenge.
ResetsOK == \A o \in operations : o.kind = "reset" => challenges[o.challenge] = "gone"

\* The guard is past the codes spent; secrets that were never in force have none.
SpentOK ==
  /\ owner.secret \in Recoveries => Done("recover", owner.secret)
  /\ \A c \in Codes : spent[c] # 0 =>
       /\ spent[c] = 1
       /\ c.secret = owner.secret => c.step <= guard
       /\ c.secret \in Recoveries => Done("recover", c.secret)

\* A challenge for a login knows the password it was issued for.
IssuedOK ==
  \A h \in Challenges :
    /\ challenges[h] = "login" => issued[h] # None
    /\ issued[h] # None => issued[h].typed = owner.password \/ issued[h].outdated

\* The key that x brings is new, and it replaces what is not used.
Brings(x) ==
  /\ HasKeys(x) /\ Kind(x) \in Keyed => keys[tx[x].q.token] = "none" /\ ~Taken(tx[x].q)
  /\ HasKeys(x) /\ (Kind(x) = "rotate" => tx[x].at = 3) => tx[x].old = Unused
  /\ Kind(x) \notin Keyed \cup {"run"} /\ tx[x].at # 0 => tx[x].old = {}
  /\ Kind(x) = "run" /\ (tx[x].at \in {1, 2} \/ tx[x].late) => keys[tx[x].q.token] = "none"

\* The factors that x was admitted with are still those in force.
Proved(x) ==
  HasOwner(x) /\ Kind(x) # "recover" =>
    /\ tx[x].q.code.secret = owner.secret /\ tx[x].q.code.step > guard
    /\ Kind(x) = "login" => tx[x].seen # None /\ Current(tx[x].seen)

\* A reset that has its challenge was not carried out before.
Resetting(x) ==
  Kind(x) = "reset" =>
    /\ tx[x].at \in {3, 4} => ~Recorded(tx[x].q)
    /\ tx[x].at = 4 => ~Taken(tx[x].q)

Good(x) == Lateness(x) /\ Brings(x) /\ Proved(x) /\ Resetting(x)

\* No two requests have the same lock, and no run goes twice at a time.
Apart(x, y) ==
  /\ ~(HasKeys(x) /\ HasKeys(y))
  /\ ~(HasOwner(x) /\ HasOwner(y))
  /\ ~(HasChallenge(x) /\ HasChallenge(y) /\ tx[x].q.challenge = tx[y].q.challenge)
  /\ ~(tx[x].at # 0 /\ tx[y].at # 0 /\ Kind(x) = "run" /\ tx[x].q = tx[y].q)

TablesOK == KeysOK /\ ResetsOK /\ SpentOK /\ IssuedOK /\ SessionsAreCurrent
RowsOK   == /\ \A x \in Requests : Good(x)
            /\ \A x, y \in Requests : x # y => Apart(x, y)

\* The inductive invariant.
RInv == FactorsOK /\ OutsideOK /\ TxOK /\ TablesOK /\ RowsOK

LEMMA TypesHold ==
  RInv => TypeOK
  <1> SUFFICES ASSUME RInv PROVE TypeOK
    OBVIOUS
  <1> USE DEF RInv
  <1>1. ASSUME NEW x \in Requests, tx[x] # Idle
        PROVE  /\ tx[x].q \in Body
               /\ tx[x].at \in DOMAIN Stages[tx[x].q.kind]
               /\ tx[x].seen \in Proof \cup {None}
               /\ tx[x].old \subseteq Keys
    BY <1>1, Kinds, Waits_ DEF TxOK, TxRow, Kind, Guarded
  <1> QED
    BY <1>1 DEF TypeOK, FactorsOK, OutsideOK, Purposes

-----------------------------------------------------------------------------
(* Steps that leave what the requests share as it is *)

\* Only x goes on.
Only(x) == tx' \in [Requests -> TxRow] /\ \A y \in Requests \ {x} : tx'[y] = tx[y]

\* What others know is not touched by a step of x that only changes x.
LEMMA OthersStay ==
  ASSUME RInv, NEW x \in Requests, Only(x), UNCHANGED <<factorVars, spent>>
  PROVE  /\ FactorsOK' /\ TablesOK'
         /\ \A y \in Requests \ {x} : Good(y)'
         /\ \A y, z \in Requests \ {x} : y # z => Apart(y, z)'
  <1> USE DEF RInv, factorVars
  <1>1. \A y \in Requests \ {x} : tx'[y] = tx[y]
    BY DEF Only
  <1>2. FactorsOK'
    BY DEF FactorsOK
  <1>3. TablesOK'
    BY DEF TablesOK, KeysOK, ResetsOK, SpentOK, IssuedOK, SessionsAreCurrent, Current, LoggedIn, Done, Unused
  <1>4. ASSUME NEW y \in Requests \ {x} PROVE Good(y)'
    <2>1. Good(y)
      BY DEF RowsOK
    <2>2. Lateness(y)'
      BY <1>1, <2>1 DEF Good, Lateness, Kind, AtLanding
    <2>3. Brings(y)'
      BY <1>1, <2>1 DEF Good, Brings, HasKeys, Kind, Taken, Unused
    <2>4. Proved(y)'
      BY <1>1, <2>1 DEF Good, Proved, Current, HasOwner, AtCommit, Kind
    <2>5. Resetting(y)'
      BY <1>1, <2>1 DEF Good, Resetting, Kind, Taken, Recorded
    <2> QED
      BY <2>2, <2>3, <2>4, <2>5 DEF Good
  <1>5. ASSUME NEW y \in Requests \ {x}, NEW z \in Requests \ {x}, y # z PROVE Apart(y, z)'
    <2>1. Apart(y, z)
      BY <1>5 DEF RowsOK
    <2> QED
      BY <1>1, <2>1 DEF Apart, HasKeys, HasOwner, HasChallenge, AtCommit, Kind
  <1> QED
    BY <1>1, <1>2, <1>3, <1>4, <1>5

\* It remains to look at x, and at the others' locks.
LEMMA QuietStep ==
  ASSUME RInv, OutsideOK', NEW x \in Requests, Only(x), UNCHANGED <<factorVars, spent>>,
         tx'[x] # Idle => tx'[x].q \in Body /\ tx'[x].at \in 1..Last(tx'[x].q.kind),
         Good(x)',
         \A y \in Requests \ {x} : Apart(x, y)'
  PROVE  RInv'
  <1>1. TxOK'
    BY DEF RInv, TxOK, Kind, Only
  <1>2. \A y \in Requests : Good(y)'
    BY OthersStay
  <1>3. \A y, z \in Requests : y # z => Apart(y, z)'
    <2> TAKE y, z \in Requests
    <2> HAVE y # z
    <2>1. CASE y = x
      BY <2>1
    <2>2. CASE z = x
      <3>1. Apart(x, y)'
        BY <2>2
      <3> QED
        BY <2>2, <3>1 DEF Apart, Kind
    <2>3. CASE y # x /\ z # x
      BY <2>3, OthersStay
    <2> QED
      BY <2>1, <2>2, <2>3
  <1> QED
    BY <1>1, <1>2, <1>3, OthersStay DEF RInv, RowsOK

\* A request that has been answered has nothing.
LEMMA EndingStep ==
  ASSUME RInv, OutsideOK', NEW x \in Requests, tx' = [tx EXCEPT ![x] = Idle],
         UNCHANGED <<factorVars, spent>>
  PROVE  RInv'
  <1>1. Idle \in TxRow
    BY DEF Idle, TxRow
  <1>2. tx'[x] = Idle /\ Only(x)
    BY <1>1 DEF RInv, TxOK, Only
  <1>3. Good(x)' /\ \A y \in Requests \ {x} : Apart(x, y)'
    BY <1>2 DEF Idle, Good, Apart, Lateness, Brings, Proved, Resetting, HasKeys, HasOwner, HasChallenge,
                AtCommit, AtLanding, Kind
  <1> QED
    BY <1>2, <1>3, QuietStep

LEMMA RefusalKeeps ==
  ASSUME RInv, OutsideOK', NEW x \in Requests, NEW says, Refuses(x, says)
  PROVE  RInv'
  BY EndingStep DEF Refuses, Answers, factorVars

LEMMA Replace ==
  ASSUME TxOK, NEW x \in Requests, NEW row \in TxRow, tx' = [tx EXCEPT ![x] = row]
  PROVE  Only(x) /\ tx'[x] = row
  BY DEF TxOK, Only

\* A request that is not at its last stage has a next one.
LEMMA NextStage ==
  ASSUME TxOK, NEW x \in Requests, tx[x].at # 0, tx[x].at # Last(Kind(x))
  PROVE  /\ tx[x] \in TxRow /\ tx[x].q \in Body /\ Last(Kind(x)) \in 2..5
         /\ tx[x].at + 1 \in 0..5 /\ tx[x].at + 1 \in 1..Last(tx[x].q.kind)
  <1>1. tx[x] # Idle
    BY DEF Idle
  <1>2. tx[x] \in TxRow /\ tx[x].q \in Body /\ tx[x].at \in 1..Last(tx[x].q.kind)
    BY <1>1 DEF TxOK, Kind
  <1> QED
    BY <1>2 DEF Last, Kind

LEMMA ArrivesKeeps ==
  ASSUME RInv, OutsideOK', NEW x \in Requests, Arrives(x)
  PROVE  RInv'
  <1>1. PICK q \in Incoming : tx' = [tx EXCEPT ![x] = [Idle EXCEPT !.q = q, !.at = 1]]
    BY DEF Arrives
  <1>2. q \in Body
    BY DEF Incoming, Body
  <1>3. q.kind = "run" => keys[q.token] = "none" /\ \A y \in Requests : tx[y].q # q
    BY DEF Incoming, Recover, Rotate, Reset, Change, Login, Run
  <1>4. UNCHANGED <<factorVars, spent>>
    BY DEF Arrives, factorVars
  <1>5. /\ Only(x) /\ tx'[x].q = q /\ tx'[x].at = 1
        /\ tx'[x].old = {} /\ ~tx'[x].late
    <2> DEFINE idle == Idle
               row == [idle EXCEPT !.q = q, !.at = 1]
    <2>1. idle \in TxRow /\ idle.old = {} /\ ~idle.late
      BY DEF TxRow, Idle
    <2>2. tx' = [tx EXCEPT ![x] = row]
      BY <1>1
    <2> HIDE DEF idle
    <2>3. row.q = q /\ row.at = 1 /\ row.old = {} /\ ~row.late
      BY <2>1 DEF TxRow
    <2>4. 1 \in 0..5 /\ q \in Body \cup {None}
      BY <1>2
    <2>5. row \in TxRow
      BY <2>1, <2>4 DEF TxRow
    <2> HIDE DEF row
    <2> QED
      BY <2>2, <2>3, <2>5, Replace DEF RInv
  <1> USE DEF Kind
  <1>6. Good(x)'
    BY <1>3, <1>4, <1>5 DEF Good, Lateness, Brings, Proved, Resetting, HasKeys, HasOwner, AtCommit,
                            AtLanding, Keyed, factorVars
  <1>7. ASSUME NEW y \in Requests \ {x} PROVE Apart(x, y)'
    BY <1>3, <1>5 DEF Only, Apart, HasKeys, HasOwner, HasChallenge, AtCommit, Keyed
  <1>8. 1 \in 1..Last(q.kind)
    BY DEF Last
  <1> QED
    BY <1>2, <1>4, <1>5, <1>6, <1>7, <1>8, QuietStep

LEMMA RecoversKeeps ==
  ASSUME RInv, OutsideOK', NEW x \in Requests, Recovers(x)
  PROVE  RInv'
  <1> DEFINE q == tx[x].q
  <1> USE DEF RInv
  <1>1. AtKeys(x) /\ Kind(x) = "recover" /\ tx[x].at = 1
    BY StageOf DEF Recovers, AtKeys, Kind
  <1>2. tx[x] \in TxRow /\ q \in Recover /\ q.token \in Recoveries /\ q.key \in Keys
    BY <1>1, Kinds, Fields DEF TxOK, Kind, Idle
  <1>3. ~tx[x].late
    BY <1>1 DEF RowsOK, Good, Lateness
  <1>4. SUFFICES ASSUME ~Taken(q), q.key \in Active, UNCHANGED <<factorVars, spent>>,
                        tx' = [tx EXCEPT ![x].at = @ + 1, ![x].old = {q.key}]
                 PROVE  RInv'
    BY RefusalKeeps DEF Recovers, factorVars
  <1>5. /\ Only(x) /\ tx'[x].q = q /\ tx'[x].at = 2 /\ tx'[x].old = {q.key} /\ ~tx'[x].late
        /\ tx'[x].q \in Body /\ tx'[x].at \in 1..Last(tx'[x].q.kind)
    <2>1. tx[x].at + 1 \in 0..5 /\ tx[x].q \in Body /\ tx[x].at + 1 \in 1..Last(tx[x].q.kind)
      BY <1>1, NextStage DEF Last
    <2>2. {q.key} \in SUBSET Keys
      BY <1>2
    <2> HIDE DEF q
    <2>3. Only(x)
      BY <1>2, <1>4, <2>1, <2>2 DEF TxOK, TxRow, Only
    <2>4. tx'[x].q = tx[x].q /\ tx'[x].at = tx[x].at + 1 /\ tx'[x].old = {q.key} /\ (tx'[x].late <=> tx[x].late)
      BY <1>2, <1>4 DEF TxOK, TxRow
    <2> QED
      BY <1>1, <1>3, <2>1, <2>3, <2>4 DEF q
  <1>7. keys[q.token] = "none"
    BY <1>1, <1>2, <1>4 DEF TablesOK, KeysOK, Done, Taken, Kind
  <1>8. {q.key} = Unused
    BY <1>4 DEF TablesOK, KeysOK, Unused, Active
  <1> USE DEF Kind
  <1>9. Good(x)'
    <2>1. Lateness(x)' /\ Proved(x)' /\ Resetting(x)'
      BY <1>1, <1>5 DEF Lateness, Proved, Resetting, HasOwner, AtCommit, AtLanding, Keyed
    <2>2. Brings(x)'
      <3>1. keys' = keys /\ operations' = operations
        BY <1>4 DEF factorVars
      <3>2. keys'[tx'[x].q.token] = "none" /\ ~Taken(tx[x].q)'
        BY <1>4, <1>5, <1>7, <3>1 DEF Taken
      <3>3. tx'[x].old = Unused'
        BY <1>5, <1>8, <3>1 DEF Unused
      <3>4. tx'[x].q.kind = "recover" /\ tx'[x].at = 2
        BY <1>1, <1>5
      <3> QED
        BY <3>2, <3>3, <3>4 DEF Brings, HasKeys, Keyed
    <2> QED
      BY <2>1, <2>2 DEF Good
  <1>10. ASSUME NEW y \in Requests \ {x} PROVE Apart(x, y)'
    <2>1. ~HasKeys(y)
      BY <1>1, Excludes DEF Recovers, RowsOK, Good
    <2> QED
      BY <1>1, <1>5, <2>1 DEF Only, Apart, HasKeys, HasOwner, HasChallenge, AtCommit, Keyed
  <1> QED
    BY <1>4, <1>5, <1>9, <1>10, QuietStep

\* A request that goes on to its next stage.
LEMMA Going ==
  ASSUME TxOK, NEW x \in Requests, Goes(x), tx[x].at # 0, tx[x].at # Last(Kind(x))
  PROVE  /\ Only(x) /\ UNCHANGED <<factorVars, spent>>
         /\ tx'[x].q = tx[x].q /\ tx'[x].at = tx[x].at + 1
         /\ tx'[x].old = tx[x].old /\ (tx'[x].late <=> tx[x].late)
         /\ tx'[x].q \in Body /\ tx'[x].at \in 1..Last(tx'[x].q.kind)
  <1>1. /\ tx[x] \in TxRow /\ tx[x].q \in Body
        /\ tx[x].at + 1 \in 0..5 /\ tx[x].at + 1 \in 1..Last(tx[x].q.kind)
    BY NextStage
  <1>2. tx' = [tx EXCEPT ![x].at = @ + 1] /\ UNCHANGED <<factorVars, spent>>
    BY DEF Goes
  <1>3. Only(x)
    BY <1>1, <1>2 DEF TxOK, TxRow, Only
  <1>4. /\ tx'[x].q = tx[x].q /\ tx'[x].at = tx[x].at + 1
        /\ tx'[x].old = tx[x].old /\ (tx'[x].late <=> tx[x].late)
    BY <1>1, <1>2 DEF TxOK, TxRow
  <1> QED
    BY <1>1, <1>2, <1>3, <1>4

LEMMA RotatesKeeps ==
  ASSUME RInv, OutsideOK', NEW x \in Requests, Rotates(x)
  PROVE  RInv'
  <1> DEFINE q == tx[x].q
  <1> USE DEF RInv
  <1>1. AtKeys(x) /\ Kind(x) = "rotate" /\ tx[x].at = 1
    BY StageOf DEF Rotates, AtKeys, Kind
  <1>2. q \in Rotate /\ q.token \in Rotations
    BY <1>1, Kinds, Fields DEF TxOK, Kind, Idle
  <1>3. SUFFICES ASSUME ~Taken(q), Goes(x) PROVE RInv'
    BY RefusalKeeps DEF Rotates
  <1>4. ~tx[x].late
    BY <1>1 DEF RowsOK, Good, Lateness
  <1>5. /\ Only(x) /\ UNCHANGED <<factorVars, spent>>
        /\ tx'[x].q = q /\ tx'[x].at = 2 /\ ~tx'[x].late
        /\ tx'[x].q \in Body /\ tx'[x].at \in 1..Last(tx'[x].q.kind)
    BY <1>1, <1>3, <1>4, Going DEF Last
  <1>6. keys[q.token] = "none"
    BY <1>1, <1>2, <1>3 DEF TablesOK, KeysOK, Done, Taken, Kind
  <1> USE DEF Kind
  <1>7. Good(x)'
    BY <1>1, <1>3, <1>5, <1>6
    DEF Good, Lateness, Brings, Proved, Resetting, HasKeys, HasOwner, AtCommit, AtLanding, Keyed,
        factorVars, Taken
  <1>8. ASSUME NEW y \in Requests \ {x} PROVE Apart(x, y)'
    <2>1. ~HasKeys(y)
      BY <1>1, Excludes DEF Rotates, RowsOK, Good
    <2> QED
      BY <1>1, <1>5, <2>1 DEF Only, Apart, HasKeys, HasOwner, HasChallenge, AtCommit, Keyed
  <1> QED
    BY <1>5, <1>7, <1>8, QuietStep

LEMMA ResetStartsKeeps ==
  ASSUME RInv, OutsideOK', NEW x \in Requests, ResetStarts(x)
  PROVE  RInv'
  <1> USE DEF RInv
  <1>1. Kind(x) = "reset" /\ tx[x].at = 1
    BY StageOf DEF ResetStarts
  <1>2. SUFFICES ASSUME Goes(x) PROVE RInv'
    BY RefusalKeeps DEF ResetStarts
  <1>3. ~tx[x].late /\ tx[x].old = {}
    BY <1>1 DEF RowsOK, Good, Lateness, Brings, Keyed
  <1>4. /\ Only(x) /\ UNCHANGED <<factorVars, spent>>
        /\ tx'[x].q = tx[x].q /\ tx'[x].at = 2 /\ tx'[x].old = {} /\ ~tx'[x].late
        /\ tx'[x].q \in Body /\ tx'[x].at \in 1..Last(tx'[x].q.kind)
    BY <1>1, <1>2, <1>3, Going DEF Last
  <1> USE DEF Kind
  <1>5. Good(x)'
    BY <1>1, <1>4
    DEF Good, Lateness, Brings, Proved, Resetting, HasKeys, HasOwner, AtCommit, AtLanding, Keyed
  <1>6. ASSUME NEW y \in Requests \ {x} PROVE Apart(x, y)'
    BY <1>1, <1>4 DEF Only, Apart, HasKeys, HasOwner, HasChallenge, AtCommit, Keyed
  <1> QED
    BY <1>4, <1>5, <1>6, QuietStep

LEMMA RunStartsKeeps ==
  ASSUME RInv, OutsideOK', NEW x \in Requests, RunStarts(x)
  PROVE  RInv'
  <1> USE DEF RInv
  <1>1. AtKeys(x) /\ Kind(x) = "run" /\ tx[x].at = 1
    BY StageOf DEF RunStarts, AtKeys, Kind
  <1>2. SUFFICES ASSUME Free(x), tx' = [tx EXCEPT ![x].at = @ + 1, ![x].old = Unused],
                        UNCHANGED <<factorVars, spent>>
                 PROVE  RInv'
    BY RefusalKeeps DEF RunStarts, Invalidated
  <1>3. ~tx[x].late /\ keys[tx[x].q.token] = "none"
    BY <1>1 DEF RowsOK, Good, Lateness, Brings
  <1>4. /\ Only(x) /\ tx'[x].q = tx[x].q /\ tx'[x].at = 2 /\ tx'[x].old = Unused /\ ~tx'[x].late
        /\ tx'[x].q \in Body /\ tx'[x].at \in 1..Last(tx'[x].q.kind)
    <2>1. /\ tx[x] \in TxRow /\ tx[x].q \in Body
          /\ tx[x].at + 1 \in 0..5 /\ tx[x].at + 1 \in 1..Last(tx[x].q.kind)
      BY <1>1, NextStage DEF Last
    <2>2. Unused \in SUBSET Keys
      BY DEF Unused
    <2>3. Only(x)
      BY <1>2, <2>1, <2>2 DEF TxOK, TxRow, Only
    <2>4. tx'[x].q = tx[x].q /\ tx'[x].at = tx[x].at + 1 /\ tx'[x].old = Unused /\ (tx'[x].late <=> tx[x].late)
      BY <1>2, <2>1 DEF TxOK, TxRow
    <2> QED
      BY <1>1, <1>3, <2>1, <2>3, <2>4
  <1> USE DEF Kind
  <1>5. Good(x)'
    <2>1. keys' = keys /\ Unused' = Unused
      BY <1>2 DEF factorVars, Unused
    <2> QED
      BY <1>1, <1>3, <1>4, <2>1
      DEF Good, Lateness, Brings, Proved, Resetting, HasKeys, HasOwner, AtCommit, AtLanding, Keyed
  <1>6. ASSUME NEW y \in Requests \ {x} PROVE Apart(x, y)'
    <2>1. ~HasKeys(y) /\ Apart(x, y)
      BY <1>1, <1>2, Excludes DEF RowsOK, Good
    <2> QED
      BY <1>1, <1>4, <2>1 DEF Only, Apart, HasKeys, HasOwner, HasChallenge, AtCommit, Keyed
  <1> QED
    BY <1>2, <1>4, <1>5, <1>6, QuietStep

LEMMA TakesChallengeKeeps ==
  ASSUME RInv, OutsideOK', NEW x \in Requests, TakesChallenge(x)
  PROVE  RInv'
  <1> DEFINE q == tx[x].q
  <1> USE DEF RInv
  <1>1. AtChallenge(x)
    BY StageOf DEF TakesChallenge
  <1>2. SUFFICES ASSUME challenges[q.challenge] = Kind(x), Goes(x) PROVE RInv'
    BY RefusalKeeps DEF TakesChallenge, Resolves, Kind
  <1>3. ~tx[x].late /\ tx[x].old = {}
    BY <1>1 DEF AtChallenge, RowsOK, Good, Lateness, Brings, Keyed
  <1>4. /\ Only(x) /\ UNCHANGED <<factorVars, spent>>
        /\ tx'[x].q = q /\ tx'[x].at = tx[x].at + 1 /\ tx'[x].old = {} /\ ~tx'[x].late
        /\ tx'[x].q \in Body /\ tx'[x].at \in 1..Last(tx'[x].q.kind)
    BY <1>1, <1>2, <1>3, Going DEF Last, AtChallenge
  <1>5. Kind(x) = "reset" => ~Recorded(q)
    BY <1>2 DEF TablesOK, ResetsOK, Recorded, Payload, Kind
  <1> USE DEF Kind
  <1>6. Good(x)'
    <2>1. ~Recorded(q)' \/ Kind(x) = "login"
      BY <1>1, <1>4, <1>5 DEF AtChallenge, Recorded, factorVars
    <2>2. Resetting(x)'
      BY <1>1, <1>4, <2>1 DEF Resetting, AtChallenge
    <2>3. Lateness(x)' /\ Brings(x)' /\ Proved(x)'
      BY <1>1, <1>4
      DEF Lateness, Brings, Proved, HasKeys, HasOwner, AtCommit, AtLanding, Keyed, AtChallenge
    <2> QED
      BY <2>2, <2>3 DEF Good
  <1>7. ASSUME NEW y \in Requests \ {x} PROVE Apart(x, y)'
    <2>1. HasChallenge(y) => tx[y].q.challenge # q.challenge
      BY <1>1, Excludes DEF TakesChallenge, RowsOK, Good
    <2> QED
      BY <1>1, <1>4, <2>1 DEF Only, Apart, HasKeys, HasOwner, HasChallenge, AtCommit, Keyed, AtChallenge
  <1> QED
    BY <1>4, <1>6, <1>7, QuietStep

LEMMA TakesOwnerKeeps ==
  ASSUME RInv, OutsideOK', NEW x \in Requests, TakesOwner(x)
  PROVE  RInv'
  <1> DEFINE q == tx[x].q
             proof == [factors |-> owner, begun |-> issued[q.challenge]]
             seen == IF q.kind = "login" THEN proof ELSE tx[x].seen
             old == IF q.kind = "rotate" THEN Active ELSE tx[x].old
  <1> USE DEF RInv
  <1>1. AtOwner(x)
    BY StageOf DEF TakesOwner
  <1>2. SUFFICES ASSUME Proven(q), ~Collides(q), UNCHANGED <<factorVars, spent>>,
                        tx' = [tx EXCEPT ![x].at = @ + 1, ![x].seen = seen, ![x].old = old]
                 PROVE  RInv'
    BY RefusalKeeps DEF TakesOwner
  <1>3. Good(x) /\ ~tx[x].late
    BY <1>1 DEF AtOwner, RowsOK, Good, Lateness, Keyed
  <1>9. Kind(x) = "login" => proof \in Proof /\ proof # None /\ Current(proof)
    <2>1. CASE Kind(x) = "login"
      <3>1. q.challenge \in Challenges
        BY <1>1, <2>1, Kinds, Fields DEF TxOK, AtOwner, Idle, Kind
      <3>2. challenges[q.challenge] = "login"
        BY <1>2, <2>1 DEF Proven, Kind
      <3>3. /\ issued[q.challenge] \in Begun /\ owner \in Owner
            /\ issued[q.challenge].typed = owner.password \/ issued[q.challenge].outdated
        BY <3>1, <3>2 DEF FactorsOK, TablesOK, IssuedOK
      <3>4. proof \in Proof
        BY <3>3 DEF Proof
      <3> QED
        BY <3>3, <3>4, RecoveryAssumption DEF Current
    <2> QED
      BY <2>1
  <1>4. /\ Only(x) /\ tx'[x].q = q /\ tx'[x].at = tx[x].at + 1
        /\ tx'[x].seen = seen /\ tx'[x].old = old /\ ~tx'[x].late
        /\ tx'[x].q \in Body /\ tx'[x].at \in 1..Last(tx'[x].q.kind)
    <2>1. /\ tx[x] \in TxRow /\ tx[x].q \in Body
          /\ tx[x].at + 1 \in 0..5 /\ tx[x].at + 1 \in 1..Last(tx[x].q.kind)
      BY <1>1, NextStage DEF Last, AtOwner, Keyed
    <2>2. seen \in Proof \cup {None} /\ old \in SUBSET Keys
      BY <1>9, <2>1 DEF TxRow, Active, Kind
    <2> HIDE DEF seen, old
    <2>3. Only(x)
      BY <1>2, <2>1, <2>2 DEF TxOK, TxRow, Only
    <2>4. /\ tx'[x].q = tx[x].q /\ tx'[x].at = tx[x].at + 1
          /\ tx'[x].seen = seen /\ tx'[x].old = old /\ (tx'[x].late <=> tx[x].late)
      BY <1>2, <2>1 DEF TxOK, TxRow
    <2> QED
      BY <1>3, <2>1, <2>3, <2>4
  <1>5. Kind(x) = "rotate" => Active = Unused
    BY <1>2 DEF Proven, Active, Unused, TablesOK, KeysOK, Kind
  <1>6. UNCHANGED <<owner, guard, keys, operations>> /\ Unused' = Unused
    BY <1>2 DEF factorVars, Unused
  <1> USE DEF Kind
  <1>7. Good(x)'
    <2>1. Lateness(x)'
      BY <1>1, <1>4 DEF Lateness, AtLanding, AtOwner, Keyed
    <2>2. (Taken(q)' <=> Taken(q)) /\ (Recorded(q)' <=> Recorded(q))
      BY <1>4, <1>6 DEF Taken, Recorded
    <2>3. Brings(x)'
      BY <1>1, <1>3, <1>4, <1>5, <1>6, <2>2 DEF Good, Brings, HasKeys, AtOwner, Keyed
    <2>4. Proved(x)'
      <3>1. Kind(x) = "login" => tx'[x].seen # None /\ Current(tx[x].seen)'
        <4> HIDE DEF proof
        <4> QED
          BY <1>4, <1>6, <1>9 DEF Current
      <3> QED
        BY <1>1, <1>2, <1>4, <1>6, <3>1 DEF Proved, HasOwner, Proven, Accepted, Valid
    <2>5. Resetting(x)'
      BY <1>1, <1>2, <1>3, <1>4, <2>2 DEF Good, Resetting, AtOwner, Collides, Keyed
    <2> QED
      BY <2>1, <2>3, <2>4, <2>5 DEF Good
  <1>8. ASSUME NEW y \in Requests \ {x} PROVE Apart(x, y)'
    <2>1. ~HasOwner(y) /\ Apart(x, y)
      BY <1>1, Excludes DEF TakesOwner, RowsOK, Good
    <2> QED
      BY <1>1, <1>4, <2>1 DEF Only, Apart, HasKeys, HasOwner, HasChallenge, AtCommit, Keyed, AtOwner
  <1> QED
    BY <1>2, <1>4, <1>7, <1>8, QuietStep

\* After its COMMIT, unless that is late, a request has no locks and no claims.
Past(x) ==
  /\ (AtVerify(x) \/ AtRemove(x)) /\ ~tx[x].late
  /\ Kind(x) = "reset" => tx[x].old = {}

LEMMA PastCommit ==
  ASSUME RInv, NEW x \in Requests, tx[x].at # 0, Only(x),
         tx'[x] = Idle \/ (Past(x)' /\ tx'[x].q = tx[x].q)
  PROVE  Good(x)' /\ \A y \in Requests \ {x} : Apart(x, y)'
  <1> USE DEF Kind
  <1>1. Good(x)'
    BY DEF Past, Idle, Good, Lateness, Brings, Proved, Resetting, HasKeys, HasOwner, AtCommit, AtLanding,
           AtVerify, AtRemove, Keyed
  <1>2. ~HasKeys(x)' /\ ~HasOwner(x)' /\ ~HasChallenge(x)'
    BY DEF Past, Idle, HasKeys, HasOwner, HasChallenge, AtCommit, AtVerify, AtRemove, Keyed
  <1>3. ASSUME NEW y \in Requests \ {x} PROVE Apart(x, y)'
    <2>1. Apart(x, y) /\ tx'[y] = tx[y]
      BY DEF RInv, RowsOK, Only
    <2>2. tx'[x].at # 0 => tx'[x].q = tx[x].q
      BY DEF Idle
    <2> QED
      BY <1>2, <2>1, <2>2 DEF Apart
  <1> QED
    BY <1>1, <1>3

LEMMA LosesUnlandedKeeps ==
  ASSUME RInv, OutsideOK', NEW x \in Requests, LosesCommit(x), Unlanded
  PROVE  RInv'
  <1> USE DEF RInv
  <1>1. AtCommit(x)
    BY StageOf DEF LosesCommit
  <1>2. UNCHANGED <<factorVars, spent>>
    BY DEF Unlanded
  <1>3. CASE ~Resolving(x)
    BY <1>2, <1>3, EndingStep DEF LosesCommit, Answers, factorVars
  <1>4. CASE Resolving(x)
    <2>1. Goes(x)
      BY <1>2, <1>4 DEF LosesCommit, Goes, Unlanded
    <2>2. Kind(x) \in Keyed \cup {"reset", "run"}
      BY <1>1, <1>4 DEF AtCommit, Resolving, Kind, Keyed
    <2>3. /\ Only(x)
          /\ tx'[x].q = tx[x].q /\ tx'[x].at = tx[x].at + 1
          /\ tx'[x].old = tx[x].old /\ (tx'[x].late <=> tx[x].late)
          /\ tx'[x].q \in Body /\ tx'[x].at \in 1..Last(tx'[x].q.kind)
      BY <1>1, <2>1, <2>2, Going DEF AtCommit, Last, Keyed
    <2>4. ~tx[x].late /\ (Kind(x) = "reset" => tx[x].old = {})
      BY <1>1 DEF AtCommit, RowsOK, Good, Lateness, Brings, Keyed
    <2>5. Past(x)' /\ tx[x].at # 0
      BY <1>1, <2>2, <2>3, <2>4 DEF Past, AtVerify, AtCommit, Kind, Keyed
    <2> QED
      BY <1>2, <2>3, <2>5, PastCommit, QuietStep
  <1> QED
    BY <1>3, <1>4

LEMMA CommitIsLateKeeps ==
  ASSUME RInv, OutsideOK', NEW x \in Requests, CommitIsLate(x)
  PROVE  RInv'
  <1> USE DEF RInv
  <1>1. Kind(x) = "run" /\ tx[x].at = 2
    BY StageOf DEF CommitIsLate, AtCommit, Kind, Keyed
  <1>2. UNCHANGED <<factorVars, spent>> /\ tx' = [tx EXCEPT ![x].at = @ + 1, ![x].late = TRUE]
    BY DEF CommitIsLate, Unlanded
  <1>3. /\ Only(x) /\ tx'[x].q = tx[x].q /\ tx'[x].at = 3 /\ tx'[x].old = tx[x].old /\ tx'[x].late
        /\ tx'[x].q \in Body /\ tx'[x].at \in 1..Last(tx'[x].q.kind)
    <2>1. /\ tx[x] \in TxRow /\ tx[x].q \in Body
          /\ tx[x].at + 1 \in 0..5 /\ tx[x].at + 1 \in 1..Last(tx[x].q.kind)
      BY <1>1, NextStage DEF Last
    <2>2. Only(x)
      BY <1>2, <2>1 DEF TxOK, TxRow, Only
    <2>3. tx'[x].q = tx[x].q /\ tx'[x].at = tx[x].at + 1 /\ tx'[x].old = tx[x].old /\ tx'[x].late
      BY <1>2, <2>1 DEF TxOK, TxRow
    <2> QED
      BY <1>1, <2>1, <2>2, <2>3
  <1>4. keys' = keys /\ Unused' = Unused
    BY <1>2 DEF factorVars, Unused
  <1>5. Good(x)
    BY DEF RowsOK
  <1> USE DEF Kind
  <1>6. Good(x)'
    BY <1>1, <1>3, <1>4, <1>5
    DEF Good, Lateness, Brings, Proved, Resetting, HasKeys, HasOwner, AtCommit, AtLanding, Keyed
  <1>7. ASSUME NEW y \in Requests \ {x} PROVE Apart(x, y)'
    <2>1. Apart(x, y)
      BY DEF RowsOK
    <2> QED
      BY <1>1, <1>3, <2>1 DEF Only, Apart, HasKeys, HasOwner, HasChallenge, AtCommit, Keyed
  <1> QED
    BY <1>2, <1>3, <1>6, <1>7, QuietStep

\* A run goes on to the removal of its file, or to wait for its late COMMIT.
LEMMA RunMoves ==
  ASSUME RInv, OutsideOK', NEW x \in Requests, Kind(x) = "run", NEW n \in {4, 5},
         tx[x].at \in {3, 4}, tx[x].at # n, n = 5 => tx[x].late,
         tx' = [tx EXCEPT ![x].at = n], UNCHANGED <<factorVars, spent>>
  PROVE  RInv'
  <1> USE DEF RInv
  <1>1. /\ Only(x) /\ tx'[x].q = tx[x].q /\ tx'[x].at = n /\ tx'[x].old = tx[x].old
        /\ (tx'[x].late <=> tx[x].late)
        /\ tx'[x].q \in Body /\ tx'[x].at \in 1..Last(tx'[x].q.kind)
    <2>1. tx[x] \in TxRow /\ tx[x].q \in Body /\ n \in 0..5
      BY DEF TxOK, Idle
    <2>2. Only(x)
      BY <2>1 DEF TxOK, TxRow, Only
    <2>3. tx'[x].q = tx[x].q /\ tx'[x].at = n /\ tx'[x].old = tx[x].old /\ (tx'[x].late <=> tx[x].late)
      BY <2>1 DEF TxOK, TxRow
    <2> QED
      BY <2>1, <2>2, <2>3 DEF Last, Kind
  <1>2. keys' = keys /\ Unused' = Unused
    BY DEF factorVars, Unused
  <1>3. Good(x)
    BY DEF RowsOK
  <1> USE DEF Kind
  <1>4. Good(x)'
    BY <1>1, <1>2, <1>3
    DEF Good, Lateness, Brings, Proved, Resetting, HasKeys, HasOwner, AtCommit, AtLanding, Keyed
  <1>5. ASSUME NEW y \in Requests \ {x} PROVE Apart(x, y)'
    <2>1. Apart(x, y)
      BY DEF RowsOK
    <2> QED
      BY <1>1, <2>1 DEF Only, Apart, HasKeys, HasOwner, HasChallenge, AtCommit, Keyed
  <1> QED
    BY <1>1, <1>4, <1>5, QuietStep

\* Where a run is that has asked for its key.
LEMMA EndsKeeps ==
  ASSUME RInv, OutsideOK', NEW x \in Requests, NEW says, Kind(x) = "run", tx[x].at \in {3, 4},
         Ends(x, says), UNCHANGED <<factorVars, spent>>
  PROVE  RInv'
  <1>1. CASE ~tx[x].late
    BY <1>1, EndingStep DEF Ends, Answers
  <1>2. CASE tx[x].late
    <2>1. tx' = [tx EXCEPT ![x].at = 5]
      BY <1>2, RunLast DEF Ends
    <2>2. 5 \in {4, 5} /\ tx[x].at # 5
      OBVIOUS
    <2> QED
      BY <1>2, <2>1, <2>2, RunMoves, Zenon
  <1> QED
    BY <1>1, <1>2

LEMMA RunVerifiesKeeps ==
  ASSUME RInv, OutsideOK', NEW x \in Requests, RunVerifies(x)
  PROVE  RInv'
  <1>1. Kind(x) = "run" /\ tx[x].at = 3
    BY StageOf DEF RInv, RunVerifies, AtVerify, Kind, Keyed
  <1>2. UNCHANGED <<factorVars, spent>>
    BY DEF RunVerifies, factorVars
  <1>3. ASSUME tx' = [tx EXCEPT ![x].at = @ + 1] PROVE RInv'
    <2>1. tx[x].at + 1 = 4
      BY <1>1
    <2>2. tx' = [tx EXCEPT ![x].at = 4]
      BY <1>3, <2>1, Zenon
    <2>3. 4 \in {4, 5} /\ tx[x].at # 4 /\ 4 # 5 /\ tx[x].at \in {3, 4}
      BY <1>1
    <2> QED
      BY <1>1, <1>2, <2>2, <2>3, RunMoves, Zenon
  <1> QED
    BY <1>1, <1>2, <1>3, EndsKeeps DEF RunVerifies

LEMMA RemovesKeeps ==
  ASSUME RInv, OutsideOK', NEW x \in Requests, Removes(x)
  PROVE  RInv'
  <1>1. Kind(x) = "run" /\ tx[x].at = 4
    BY StageOf DEF RInv, Removes, AtRemove
  <1>2. UNCHANGED <<factorVars, spent>>
    BY DEF Removes, factorVars
  <1> QED
    BY <1>1, <1>2, EndsKeeps DEF Removes

\* Every step of a request that does not write to the tables.
LEMMA QuietKeeps ==
  ASSUME RInv, OutsideOK', NEW x \in Requests,
         \/ Arrives(x) \/ Recovers(x) \/ Rotates(x) \/ ResetStarts(x) \/ RunStarts(x)
         \/ TakesChallenge(x) \/ TakesOwner(x) \/ (LosesCommit(x) /\ Unlanded)
         \/ CommitIsLate(x) \/ Verifies(x) \/ RunVerifies(x) \/ Removes(x) \/ Aborts(x)
  PROVE  RInv'
  <1>1. ASSUME Verifies(x) PROVE RInv'
    BY <1>1, RefusalKeeps DEF Verifies
  <1>2. ASSUME Aborts(x) PROVE RInv'
    BY <1>2, EndingStep DEF Aborts, Answers, factorVars
  <1> QED
    BY <1>1, <1>2, ArrivesKeeps, RecoversKeeps, RotatesKeeps, ResetStartsKeeps, RunStartsKeeps,
       TakesChallengeKeeps, TakesOwnerKeeps, LosesUnlandedKeeps, CommitIsLateKeeps, RunVerifiesKeeps,
       RemovesKeeps

-----------------------------------------------------------------------------
(* Steps that carry a request out *)

Landing(x) ==
  /\ AtCommit(x) \/ tx[x].late
  /\ Lands(x) /\ Only(x)
  /\ tx'[x] = Idle \/ (Past(x)' /\ tx'[x].q = tx[x].q)
  /\ AtRemove(x)' => AtRemove(x)
  /\ AtVerify(x)' /\ Kind(x) = "run" => tx[x].at \in {2, 3}

\* What is known of a request that is about to be carried out.
LEMMA Ready ==
  ASSUME RInv, NEW x \in Requests, AtCommit(x) \/ tx[x].late
  PROVE  /\ tx[x].at # 0 /\ tx[x] \in TxRow /\ tx[x].q \in Body
         /\ Kind(x) \in Keyed \cup {"run"} =>
              HasKeys(x) /\ tx[x].old = Unused /\ tx[x].q.token \in Keys /\ keys[tx[x].q.token] = "none"
         /\ Kind(x) \in Keyed \cup {"reset"} => ~Taken(tx[x].q)
         /\ Kind(x) \notin Keyed \cup {"run"} => tx[x].old = {}
         /\ Kind(x) # "run" => HasOwner(x)
         /\ Kind(x) \notin {"run", "recover"} =>
              /\ tx[x].q.code \in Codes
              /\ tx[x].q.code.secret = owner.secret /\ tx[x].q.code.step > guard
         /\ Kind(x) = "login" => tx[x].seen # None /\ Current(tx[x].seen)
         /\ Kind(x) \in {"reset", "login"} => HasChallenge(x)
  <1> DEFINE q == tx[x].q
  <1> USE DEF RInv
  <1>1. Good(x)
    BY DEF RowsOK
  <1>2. tx[x].at # 0 /\ tx[x] \in TxRow /\ q \in Body
    BY <1>1 DEF AtCommit, Good, Lateness, TxOK, Idle
  <1>3. Kind(x) # "run" => AtCommit(x) /\ HasOwner(x)
    BY <1>1 DEF Good, Lateness, HasOwner
  <1>4. Kind(x) \in Keyed \cup {"run"} => HasKeys(x) /\ (Kind(x) = "rotate" => tx[x].at = 3)
    BY <1>3 DEF AtCommit, HasKeys, Keyed
  <1>5. Kind(x) \in Keyed \cup {"run"} => q.token \in Keys
    BY <1>2, Kinds, Fields DEF Kind, Keyed, Keys
  <1>6. Kind(x) = "run" => tx[x].at = 2 \/ tx[x].late
    BY DEF AtCommit, Keyed
  <1>7. Kind(x) \in Keyed \cup {"run"} => tx[x].old = Unused /\ keys[q.token] = "none"
    BY <1>1, <1>4, <1>6 DEF Good, Brings
  <1>8. Kind(x) \in Keyed \cup {"reset"} => ~Taken(q)
    BY <1>1, <1>3, <1>4 DEF Good, Brings, Resetting, AtCommit, Keyed
  <1>9. Kind(x) \notin Keyed \cup {"run"} => tx[x].old = {}
    BY <1>1, <1>2 DEF Good, Brings
  <1>10. Kind(x) \notin {"run", "recover"} => q.code \in Codes
    BY <1>2, Kinds, Fields DEF Kind
  <1>11. Kind(x) \notin {"run", "recover"} => q.code.secret = owner.secret /\ q.code.step > guard
    BY <1>1, <1>3 DEF Good, Proved
  <1>12. Kind(x) = "login" => tx[x].seen # None /\ Current(tx[x].seen)
    BY <1>1, <1>3 DEF Good, Proved
  <1>13. Kind(x) \in {"reset", "login"} => HasChallenge(x)
    BY <1>3 DEF AtCommit, HasChallenge, Keyed
  <1> QED
    BY <1>2, <1>3, <1>4, <1>5, <1>7, <1>8, <1>9, <1>10, <1>11, <1>12, <1>13

\* The key that is brought takes the place of the one that is not used.
LEMMA LandsKeys ==
  ASSUME RInv, NEW x \in Requests, Landing(x)
  PROVE  /\ keys' \in [Keys -> {"none", "unused", "expired", "used"}]
         /\ \E k \in Keys : Unused' = {k}
         /\ Kind(x) \notin Keyed \cup {"run"} => keys' = keys
         /\ \A k \in Keys : keys'[k] = "none" <=>
              keys[k] = "none" /\ ~(Kind(x) \in Keyed \cup {"run"} /\ k = tx[x].q.token)
  <1> DEFINE q == tx[x].q
  <1> USE DEF RInv
  <1>1. keys' = [k \in Keys |-> CASE k \in tx[x].old -> "used"
                                  [] q.kind \in BringsKey /\ k = q.token -> "unused"
                                  [] OTHER -> keys[k]]
    BY DEF Landing, Lands
  <1>2. CASE Kind(x) \in Keyed \cup {"run"}
    <2>1. tx[x].old = Unused /\ q.token \in Keys /\ keys[q.token] = "none"
      BY <1>2, Ready DEF Landing
    <2>2. q.kind \in BringsKey
      BY <1>2 DEF BringsKey, Kind, Keyed
    <2>3. \A k \in Keys : keys'[k] = IF k \in Unused THEN "used" ELSE IF k = q.token THEN "unused" ELSE keys[k]
      <3>1. q.token \notin Unused
        BY <2>1 DEF Unused
      <3> QED
        BY <1>1, <2>1, <2>2, <3>1
    <2>4. \A k \in Keys : keys[k] \in {"none", "unused", "expired", "used"}
      BY DEF FactorsOK
    <2>5. keys' \in [Keys -> {"none", "unused", "expired", "used"}]
      <3>1. \A k \in Keys : keys'[k] \in {"none", "unused", "expired", "used"}
        BY <2>3, <2>4
      <3> QED
        BY <1>1, <3>1
    <2>6. Unused' = {q.token}
      BY <2>1, <2>3, <2>4 DEF Unused
    <2>7. \A k \in Keys : keys'[k] = "none" <=> keys[k] = "none" /\ k # q.token
      BY <2>1, <2>3 DEF Unused
    <2> QED
      BY <1>2, <2>1, <2>5, <2>6, <2>7
  <1>3. CASE Kind(x) \notin Keyed \cup {"run"}
    <2>1. tx[x].old = {} /\ q.kind \notin BringsKey
      BY <1>3, Ready DEF Landing, BringsKey, Kind, Keyed
    <2>2. keys' = [k \in Keys |-> keys[k]]
      BY <1>1, <2>1
    <2>3. keys' = keys
      BY <2>2 DEF FactorsOK
    <2> QED
      BY <1>3, <2>3 DEF FactorsOK, TablesOK, KeysOK, Unused
  <1> QED
    BY <1>2, <1>3

\* What else is written.
LEMMA LandsRecord ==
  ASSUME RInv, NEW x \in Requests, Landing(x)
  PROVE  /\ Kind(x) \in Keyed \cup {"reset"} => operations' = operations \cup {Payload(tx[x].q)}
         /\ Kind(x) \notin Keyed \cup {"reset"} => operations' = operations
         /\ Payload(tx[x].q).kind = Kind(x) /\ Payload(tx[x].q).token = tx[x].q.token
         /\ Kind(x) # "rotate" => Payload(tx[x].q) = tx[x].q
         /\ Kind(x) \in Keyed \cup {"reset"} => Payload(tx[x].q) \in Recover \cup Rotate \cup Reset
  <1> DEFINE q == tx[x].q
  <1>1. q \in Body
    BY Ready DEF Landing
  <1>2. operations' = operations \cup
                      (IF q.kind \in {"recover", "rotate", "reset"} THEN {Payload(q)} ELSE {})
    BY DEF Landing, Lands
  <1>3. Kind(x) # "rotate" => Payload(q) = q
    BY DEF Payload, Kind
  <1>4. ASSUME Kind(x) = "rotate"
        PROVE  Payload(q) \in Rotate /\ Payload(q).kind = q.kind /\ Payload(q).token = q.token
    <2>1. q \in Rotate /\ Payload(q) = [q EXCEPT !.session = None]
      BY <1>1, <1>4, Kinds DEF Kind, Payload
    <2> QED
      BY <2>1 DEF Rotate
  <1>5. q.kind = "recover" => q \in Recover
    BY <1>1, Kinds
  <1>6. q.kind = "reset" => q \in Reset
    BY <1>1, Kinds
  <1> QED
    BY <1>2, <1>3, <1>4, <1>5, <1>6 DEF Kind, Keyed

LEMMA LandsFields ==
  ASSUME RInv, NEW x \in Requests, Landing(x)
  PROVE  /\ Kind(x) = "recover" => owner' = [password |-> tx[x].q.new, secret |-> tx[x].q.token] /\ guard' = -1
         /\ Kind(x) \in {"reset", "change"} => owner' = [owner EXCEPT !.password = tx[x].q.new]
         /\ Kind(x) \notin {"recover", "reset", "change"} => owner' = owner
         /\ Kind(x) = "run" => guard' = guard
         /\ Kind(x) \in {"recover", "run"} => spent' = spent
         /\ Kind(x) \notin {"recover", "run"} =>
              guard' = tx[x].q.code.step /\ spent' = [spent EXCEPT ![tx[x].q.code] = @ + 1]
         /\ Kind(x) \in {"reset", "login"} => challenges' = [challenges EXCEPT ![tx[x].q.challenge] = "gone"]
         /\ Kind(x) \notin {"reset", "login"} => challenges' = challenges
         /\ Kind(x) = "login" => issued' = [issued EXCEPT ![tx[x].q.challenge] = None]
         /\ Kind(x) \in {"recover", "reset", "change"} => issued' = Outdated
         /\ Kind(x) \in {"rotate", "run"} => issued' = issued
  <1> DEFINE q == tx[x].q
  <1>1. q.kind \in {"recover", "rotate", "reset", "change", "login", "run"}
    BY Ready, Kinds DEF Landing
  <1>2. owner' = CASE q.kind = "recover" -> [password |-> q.new, secret |-> q.token]
                   [] q.kind \in {"reset", "change"} -> [owner EXCEPT !.password = q.new]
                   [] OTHER -> owner
    BY DEF Landing, Lands
  <1>3. guard' = CASE q.kind = "recover" -> -1 [] q.kind = "run" -> guard [] OTHER -> q.code.step
    BY DEF Landing, Lands, UsedStep
  <1>4. /\ challenges' = IF q.kind \in {"reset", "login"}
                         THEN [challenges EXCEPT ![q.challenge] = "gone"] ELSE challenges
        /\ spent' = IF q.kind \in {"recover", "run"} THEN spent ELSE [spent EXCEPT ![q.code] = @ + 1]
    BY DEF Landing, Lands
  <1>5. /\ q.kind = "recover" => owner' = [password |-> q.new, secret |-> q.token]
        /\ q.kind \in {"reset", "change"} => owner' = [owner EXCEPT !.password = q.new]
        /\ q.kind \notin {"recover", "reset", "change"} => owner' = owner
    BY <1>2
  <1>6. /\ q.kind = "recover" => guard' = -1
        /\ q.kind = "run" => guard' = guard
        /\ q.kind \notin {"recover", "run"} => guard' = q.code.step
    BY <1>3
  <1>7. issued' = CASE q.kind = "login" -> [issued EXCEPT ![q.challenge] = None]
                    [] q.kind \in {"recover", "reset", "change"} -> Outdated
                    [] OTHER -> issued
    BY DEF Landing, Lands
  <1>8. /\ q.kind = "login" => issued' = [issued EXCEPT ![q.challenge] = None]
        /\ q.kind \in {"recover", "reset", "change"} => issued' = Outdated
        /\ q.kind \in {"rotate", "run"} => issued' = issued
    BY <1>7
  <1> QED
    BY <1>4, <1>5, <1>6, <1>8 DEF Kind

LEMMA LandsOwner ==
  ASSUME RInv, NEW x \in Requests, Landing(x)
  PROVE  /\ owner' \in Owner /\ guard' \in -1..MaxStep
         /\ challenges' \in [Challenges -> Purposes]
         /\ \A h \in Challenges : challenges[h] = "gone" => challenges'[h] = "gone"
         /\ spent' \in [Codes -> Nat]
         /\ Kind(x) = "recover" => owner'.secret = tx[x].q.token
         /\ Kind(x) # "recover" => owner'.secret = owner.secret
  <1> DEFINE q == tx[x].q
  <1>1. q \in Body /\ FactorsOK
    BY Ready DEF Landing, RInv
  <1>2. /\ owner' \in Owner
        /\ Kind(x) = "recover" => owner'.secret = tx[x].q.token
        /\ Kind(x) # "recover" => owner'.secret = owner.secret
    <2>1. CASE Kind(x) = "recover"
      <3>1. q.new \in Passwords /\ q.token \in Secrets
        BY <1>1, <2>1, Kinds, Fields DEF Kind, Secrets
      <3> QED
        BY <2>1, <3>1, LandsFields DEF Owner
    <2>2. CASE Kind(x) \in {"reset", "change"}
      <3>1. q.new \in Passwords /\ owner' = [owner EXCEPT !.password = q.new] /\ owner \in Owner
        BY <1>1, <2>2, Kinds, Fields, LandsFields DEF Kind, FactorsOK
      <3>2. owner' \in Owner /\ owner'.secret = owner.secret
        BY <3>1 DEF Owner
      <3> QED
        BY <2>2, <3>2
    <2>3. CASE Kind(x) \notin {"recover", "reset", "change"}
      BY <1>1, <2>3, LandsFields DEF FactorsOK
    <2> QED
      BY <2>1, <2>2, <2>3
  <1>3. Kind(x) \notin {"recover", "run"} => q.code \in Codes /\ q.code.step \in 0..MaxStep
    BY Ready DEF Landing, Codes
  <1>4. guard' \in -1..MaxStep
    <2>1. guard \in -1..MaxStep /\ -1 \in -1..MaxStep
      BY <1>1, RecoveryAssumption DEF FactorsOK
    <2>2. \A n \in 0..MaxStep : n \in -1..MaxStep
      BY RecoveryAssumption
    <2> QED
      BY <1>3, <2>1, <2>2, LandsFields
  <1>5. /\ challenges' \in [Challenges -> Purposes]
        /\ \A h \in Challenges : challenges[h] = "gone" => challenges'[h] = "gone"
    <2>1. "gone" \in Purposes
      BY DEF Purposes
    <2>2. challenges' = challenges \/ challenges' = [challenges EXCEPT ![q.challenge] = "gone"]
      BY LandsFields
    <2> QED
      BY <1>1, <2>1, <2>2 DEF FactorsOK
  <1>6. spent' \in [Codes -> Nat]
    <2>1. spent \in [Codes -> Nat]
      BY <1>1 DEF FactorsOK
    <2>2. CASE Kind(x) \in {"recover", "run"}
      BY <2>1, <2>2, LandsFields
    <2>3. CASE Kind(x) \notin {"recover", "run"}
      <3>1. q.code \in Codes /\ spent' = [spent EXCEPT ![q.code] = @ + 1]
        BY <1>3, <2>3, LandsFields
      <3> QED
        BY <2>1, <3>1
    <2> QED
      BY <2>2, <2>3
  <1> QED
    BY <1>2, <1>4, <1>5, <1>6

\* A replacement of the password outdates every login that was begun.
LEMMA LandsIssued ==
  ASSUME RInv, NEW x \in Requests, Landing(x)
  PROVE  issued' \in [Challenges -> Begun \cup {None}] /\ IssuedOK'
  <1> DEFINE q == tx[x].q
  <1>1. FactorsOK /\ IssuedOK
    BY DEF RInv, TablesOK
  <1>2. Kind(x) \in {"recover", "rotate", "reset", "change", "login", "run"}
    BY Ready, Kinds DEF Landing, Kind
  <1>3. \A h \in Challenges : challenges'[h] = "login" => challenges[h] = "login"
    BY <1>1, LandsFields DEF FactorsOK
  <1>4. CASE Kind(x) \in {"recover", "reset", "change"}
    <2>1. \A h \in Challenges :
            issued'[h] = IF issued[h] = None THEN None ELSE [issued[h] EXCEPT !.outdated = TRUE]
      BY <1>4, LandsFields DEF Outdated
    <2>2. ASSUME NEW h \in Challenges, issued[h] # None
          PROVE  issued'[h] \in Begun /\ issued'[h].outdated
      <3>1. issued[h] \in Begun
        BY <1>1, <2>2 DEF FactorsOK
      <3> QED
        BY <2>1, <2>2, <3>1 DEF Begun
    <2>3. issued' \in [Challenges -> Begun \cup {None}]
      <3>1. issued' = [h \in Challenges |-> issued'[h]]
        BY <1>4, LandsFields DEF Outdated
      <3> QED
        BY <2>1, <2>2, <3>1
    <2>4. \A h \in Challenges : issued[h] # None => issued'[h] # None
      BY <2>2, RecoveryAssumption
    <2> QED
      BY <1>1, <1>3, <2>1, <2>2, <2>3, <2>4 DEF IssuedOK
  <1>5. CASE Kind(x) = "login"
    <2>1. /\ issued' = [issued EXCEPT ![q.challenge] = None] /\ owner' = owner
          /\ challenges' = [challenges EXCEPT ![q.challenge] = "gone"]
      BY <1>5, LandsFields
    <2> QED
      BY <1>1, <2>1 DEF FactorsOK, IssuedOK
  <1>6. CASE Kind(x) \in {"rotate", "run"}
    <2>1. issued' = issued /\ owner' = owner /\ challenges' = challenges
      BY <1>6, LandsFields
    <2> QED
      BY <1>1, <2>1 DEF FactorsOK, IssuedOK
  <1> QED
    BY <1>2, <1>4, <1>5, <1>6

\* No session outlives the factors its code was accepted under.
LEMMA LandsSessions ==
  ASSUME RInv, NEW x \in Requests, Landing(x)
  PROVE  /\ sessions' \in [Sessions -> [state : {"none", "live", "revoked"}, by : Proof \cup {None}]]
         /\ \A s \in Sessions : sessions'[s].state = "none" <=> sessions'[s].by = None
         /\ SessionsAreCurrent'
  <1> DEFINE q == tx[x].q
             Row == [state : {"none", "live", "revoked"}, by : Proof \cup {None}]
             Same(s) == sessions'[s].by = sessions[s].by
                        /\ (sessions'[s].state = "none" <=> sessions[s].state = "none")
  <1>1. /\ sessions \in [Sessions -> Row]
        /\ \A s \in Sessions : sessions[s].state = "none" <=> sessions[s].by = None
        /\ \A s \in Sessions : sessions[s].state = "live" => Current(sessions[s].by)
    BY DEF RInv, FactorsOK, TablesOK, SessionsAreCurrent, LoggedIn
  <1>2. Kind(x) \in {"recover", "rotate", "reset", "change", "login", "run"}
    BY Ready, Kinds DEF Landing, Kind
  <1>3. ASSUME NEW kept, sessions' = Revoked(kept)
        PROVE  /\ sessions' \in [Sessions -> Row]
               /\ \A s \in Sessions : Same(s)
               /\ \A s \in Sessions : sessions'[s].state = "live" => s \in kept /\ sessions[s].state = "live"
    <2>1. \A s \in Sessions : sessions'[s] = IF sessions[s].state = "live" /\ s \notin kept
                                THEN [sessions[s] EXCEPT !.state = "revoked"] ELSE sessions[s]
      BY <1>3 DEF Revoked, LoggedIn
    <2>2. ASSUME NEW s \in Sessions
          PROVE  /\ sessions'[s] \in Row /\ Same(s)
                 /\ sessions'[s].state = "live" => s \in kept /\ sessions[s].state = "live"
      <3>1. sessions[s] \in Row
        BY <1>1
      <3>2. CASE sessions[s].state = "live" /\ s \notin kept
        BY <2>1, <3>1, <3>2
      <3>3. CASE ~(sessions[s].state = "live" /\ s \notin kept)
        BY <2>1, <3>1, <3>3
      <3> QED
        BY <3>2, <3>3
    <2>3. sessions' = [s \in Sessions |-> sessions'[s]]
      BY <1>3 DEF Revoked
    <2> QED
      BY <2>2, <2>3
  <1>4. CASE Kind(x) \in {"recover", "reset", "change"}
    <2>1. sessions' = Revoked({})
      BY <1>4 DEF Landing, Lands, Kind
    <2> QED
      BY <1>1, <1>3, <2>1 DEF SessionsAreCurrent, Current, LoggedIn
  <1>5. CASE Kind(x) = "rotate"
    <2>1. sessions' = Revoked({q.session}) /\ owner' = owner
      BY <1>5, LandsFields DEF Landing, Lands, Kind
    <2> QED
      BY <1>1, <1>3, <2>1 DEF SessionsAreCurrent, Current, LoggedIn
  <1>6. CASE Kind(x) = "run"
    <2>1. sessions' = sessions /\ owner' = owner
      BY <1>6, LandsFields DEF Landing, Lands, Kind
    <2> QED
      BY <1>1, <2>1 DEF SessionsAreCurrent, Current, LoggedIn
  <1>7. CASE Kind(x) = "login"
    <2>1. PICK s \in Sessions : sessions' = [sessions EXCEPT ![s] = [state |-> "live", by |-> tx[x].seen]]
      BY <1>7 DEF Landing, Lands, Kind
    <2>2. owner' = owner /\ tx[x].seen # None /\ Current(tx[x].seen)
      BY <1>7, LandsFields, Ready DEF Landing
    <2>3. tx[x].seen \in Proof
      BY <2>2, Ready DEF Landing, TxRow
    <2>4. [state |-> "live", by |-> tx[x].seen] \in Row
      BY <2>3
    <2> QED
      BY <1>1, <2>1, <2>2, <2>4 DEF SessionsAreCurrent, Current, LoggedIn
  <1> QED
    BY <1>2, <1>4, <1>5, <1>6, <1>7

\* The tables still agree with each other.
LEMMA LandsTables ==
  ASSUME RInv, NEW x \in Requests, Landing(x)
  PROVE  FactorsOK' /\ TablesOK'
  <1> DEFINE q == tx[x].q
             p == Payload(q)
             Records == Kind(x) \in Keyed \cup {"reset"}
             DoneNow(kind, token) == \E o \in operations' : o.kind = kind /\ o.token = token
  <1>1. /\ Records => operations' = operations \cup {p}
        /\ ~Records => operations' = operations
        /\ p.kind = Kind(x) /\ p.token = q.token
        /\ Kind(x) # "rotate" => p = q
        /\ Records => p \in Recover \cup Rotate \cup Reset
    BY LandsRecord
  <1>2. FactorsOK /\ KeysOK /\ ResetsOK /\ SpentOK
    BY DEF RInv, TablesOK
  <1>3. q \in Body /\ (Records => ~Taken(q))
    BY Ready DEF Landing
  <1> HIDE DEF p
  <1>4. FactorsOK'
    <2>1. operations' \subseteq Recover \cup Rotate \cup Reset
      BY <1>1, <1>2 DEF FactorsOK
    <2>2. ASSUME NEW o \in operations', NEW r \in operations', o.kind = r.kind, o.token = r.token
          PROVE  o = r
      <3>1. Records => ~\E s \in operations : s.kind = p.kind /\ s.token = p.token
        BY <1>1, <1>3 DEF Taken, Kind
      <3> QED
        BY <1>1, <1>2, <2>2, <3>1 DEF FactorsOK
    <2> QED
      BY <2>1, <2>2, LandsKeys, LandsOwner, LandsIssued, LandsSessions DEF FactorsOK
  <1>5. \A kind, token : Done(kind, token) => DoneNow(kind, token)
    BY <1>1 DEF Done
  <1>6. Records => DoneNow(Kind(x), q.token)
    BY <1>1
  <1> HIDE DEF DoneNow
  <1>7. KeysOK'
    <2>1. ASSUME NEW k \in Recoveries, keys'[k] # "none" PROVE DoneNow("recover", k)
      <3>1. CASE keys[k] # "none"
        BY <1>2, <1>5, <3>1 DEF KeysOK
      <3>2. CASE keys[k] = "none"
        <4>1. Kind(x) \in Keyed \cup {"run"} /\ k = q.token
          BY <2>1, <3>2, LandsKeys DEF Keys
        <4>2. Kind(x) = "recover"
          BY <1>3, <4>1, Kinds, Fields, RecoveryAssumption DEF Kind, Keyed
        <4> QED
          BY <1>6, <4>1, <4>2 DEF Keyed
      <3> QED
        BY <3>1, <3>2
    <2>2. ASSUME NEW k \in Rotations, keys'[k] # "none" PROVE DoneNow("rotate", k)
      <3>1. CASE keys[k] # "none"
        BY <1>2, <1>5, <3>1 DEF KeysOK
      <3>2. CASE keys[k] = "none"
        <4>1. Kind(x) \in Keyed \cup {"run"} /\ k = q.token
          BY <2>2, <3>2, LandsKeys DEF Keys
        <4>2. Kind(x) = "rotate"
          BY <1>3, <4>1, Kinds, Fields, RecoveryAssumption DEF Kind, Keyed
        <4> QED
          BY <1>6, <4>1, <4>2 DEF Keyed
      <3> QED
        BY <3>1, <3>2
    <2> QED
      BY <2>1, <2>2, LandsKeys DEF KeysOK, Done, DoneNow
  <1>8. ResetsOK'
    <2>1. ASSUME NEW o \in operations', o.kind = "reset" PROVE challenges'[o.challenge] = "gone"
      <3>1. CASE o \in operations
        <4>1. o \in Reset /\ o.challenge \in Challenges
          BY <1>2, <2>1, <3>1, Fields DEF FactorsOK, Recover, Rotate, Reset
        <4> QED
          BY <1>2, <2>1, <3>1, <4>1, LandsOwner DEF ResetsOK
      <3>2. CASE o \notin operations
        <4>1. Records /\ o = p /\ Kind(x) = "reset" /\ o = q
          BY <1>1, <2>1, <3>2
        <4>2. q.challenge \in Challenges
          BY <1>3, <4>1, Kinds, Fields DEF Kind
        <4> QED
          BY <1>2, <4>1, <4>2, LandsFields DEF FactorsOK
      <3> QED
        BY <3>1, <3>2
    <2> QED
      BY <2>1 DEF ResetsOK
  <1>9. SpentOK'
    <2>1. owner'.secret \in Recoveries => DoneNow("recover", owner'.secret)
      <3>1. CASE Kind(x) = "recover"
        BY <1>6, <3>1, LandsOwner DEF Keyed
      <3>2. CASE Kind(x) # "recover"
        BY <1>2, <1>5, <3>2, LandsOwner DEF SpentOK
      <3> QED
        BY <3>1, <3>2
    <2>2. ASSUME NEW c \in Codes, spent'[c] # 0
          PROVE  /\ spent'[c] = 1
                 /\ c.secret = owner'.secret => c.step <= guard'
                 /\ c.secret \in Recoveries => DoneNow("recover", c.secret)
      <3>1. c.step \in Int /\ guard \in Int
        BY <1>2, RecoveryAssumption DEF Codes, FactorsOK
      <3>2. CASE Kind(x) = "recover"
        <4>1. spent' = spent /\ owner'.secret = q.token
          BY <3>2, LandsFields, LandsOwner
        <4>2. spent[c] = 1 /\ (c.secret \in Recoveries => Done("recover", c.secret))
          BY <1>2, <2>2, <4>1 DEF SpentOK
        <4>3. q.token \in Recoveries /\ ~Done("recover", q.token)
          BY <1>3, <3>2, Kinds, Fields DEF Kind, Keyed, Taken, Done
        <4>4. c.secret # q.token
          BY <4>2, <4>3
        <4> QED
          BY <1>5, <4>1, <4>2, <4>4
      <3>3. CASE Kind(x) = "run"
        <4>1. spent' = spent /\ owner' = owner /\ guard' = guard
          BY <3>3, LandsFields
        <4> QED
          BY <1>2, <1>5, <2>2, <4>1 DEF SpentOK
      <3>4. CASE Kind(x) \notin {"recover", "run"}
        <4>1. /\ q.code \in Codes /\ q.code.secret = owner.secret /\ q.code.step > guard
              /\ guard' = q.code.step /\ spent' = [spent EXCEPT ![q.code] = @ + 1]
              /\ owner'.secret = owner.secret
          BY <3>4, Ready, LandsFields, LandsOwner DEF Landing
        <4>2. q.code.step \in Int /\ spent \in [Codes -> Nat]
          BY <1>2, <4>1, RecoveryAssumption DEF Codes, FactorsOK
        <4>3. spent[q.code] = 0
          BY <1>2, <3>1, <4>1, <4>2 DEF SpentOK
        <4>4. CASE c = q.code
          BY <1>2, <1>5, <4>1, <4>2, <4>3, <4>4 DEF SpentOK
        <4>5. CASE c # q.code
          <5>1. spent'[c] = spent[c]
            BY <4>1, <4>2, <4>5
          <5>2. /\ spent[c] = 1
                /\ c.secret = owner.secret => c.step <= guard
                /\ c.secret \in Recoveries => Done("recover", c.secret)
            BY <1>2, <2>2, <5>1 DEF SpentOK
          <5> QED
            BY <1>5, <3>1, <4>1, <4>2, <5>1, <5>2
        <4> QED
          BY <4>4, <4>5
      <3> QED
        BY <3>2, <3>3, <3>4
    <2> QED
      BY <2>1, <2>2 DEF SpentOK, Done, DoneNow
  <1> QED
    BY <1>4, <1>7, <1>8, <1>9, LandsIssued, LandsSessions DEF TablesOK

\* And what the others were promised still holds.
LEMMA LandsOthers ==
  ASSUME RInv, NEW x \in Requests, Landing(x), NEW y \in Requests \ {x}
  PROVE  Good(y)'
  <1> DEFINE q == tx[x].q
             r == tx[y].q
  <1>1. tx'[y] = tx[y] /\ Good(y) /\ Apart(x, y)
    BY DEF Landing, Only, RInv, RowsOK
  <1> USE DEF Kind
  <1>2. Lateness(y)'
    BY <1>1 DEF Good, Lateness, AtLanding
  <1>3. tx[y].at # 0 => r \in Body
    BY DEF RInv, TxOK, Idle
  <1>4. Brings(y)'
    <2>1. HasKeys(y) => Kind(x) \notin Keyed \cup {"run"}
      BY <1>1, Ready DEF Landing, Apart
    <2>2. HasKeys(y) => keys' = keys /\ Unused' = Unused
      BY <2>1, LandsKeys DEF Unused
    <2>3. ASSUME HasKeys(y), Kind(y) \in Keyed, NEW o \in operations', o.kind = r.kind, o.token = r.token
          PROVE  Taken(r)
      <3>1. o \in operations \/ o.kind = "reset"
        BY <2>1, <2>3, LandsRecord DEF Keyed
      <3> QED
        BY <2>3, <3>1 DEF Taken, Keyed
    <2>4. HasKeys(y)' <=> HasKeys(y)
      BY <1>1 DEF HasKeys
    <2>5. ASSUME Kind(y) = "run", tx[y].at \in {1, 2} \/ tx[y].late PROVE keys'[r.token] = "none"
      <3>1. keys[r.token] = "none"
        BY <1>1, <2>5 DEF Good, Brings
      <3>2. tx[y].at # 0
        BY <1>1, <2>5 DEF Good, Lateness
      <3>3. r \in Run /\ r.token \in Keys /\ r.token \in Runs
        BY <1>3, <2>5, <3>2, Kinds, Fields DEF Keys
      <3>4. Kind(x) \in Keyed \cup {"run"} => r.token # q.token
        <4>1. q \in Body /\ tx[x].at # 0
          BY Ready DEF Landing
        <4>2. CASE Kind(x) = "run"
          <5>1. q \in Run /\ q # r
            BY <1>1, <3>2, <4>1, <4>2, Kinds DEF Apart
          <5> QED
            BY <3>3, <5>1 DEF Run
        <4>3. CASE Kind(x) \in Keyed
          BY <3>3, <4>1, <4>3, Kinds, Fields, RecoveryAssumption DEF Keyed
        <4> QED
          BY <4>2, <4>3
      <3> QED
        BY <3>1, <3>3, <3>4, LandsKeys
    <2> QED
      BY <1>1, <2>2, <2>3, <2>4, <2>5 DEF Good, Brings, Taken
  <1>5. Proved(y)'
    <2>1. HasOwner(y)' <=> HasOwner(y)
      BY <1>1 DEF HasOwner, AtCommit
    <2>2. HasOwner(y) => owner' = owner /\ guard' = guard
      BY <1>1, Ready, LandsFields DEF Landing, Apart
    <2> QED
      BY <1>1, <2>1, <2>2 DEF Good, Proved, Current
  <1>6. Resetting(y)'
    <2>1. ASSUME Kind(y) = "reset", tx[y].at \in {3, 4} PROVE Payload(r) \notin operations'
      <3>1. ~Recorded(r) /\ Payload(r) = r /\ HasChallenge(y)
        BY <1>1, <2>1 DEF Good, Resetting, Payload, HasChallenge
      <3>2. Kind(x) = "reset" => q # r /\ Payload(q) = q
        BY <1>1, <3>1, Ready, LandsRecord DEF Landing, Apart
      <3> QED
        <4>1. Payload(q).kind = Kind(x) /\ operations' \subseteq operations \cup {Payload(q)}
          BY LandsRecord
        <4> QED
          BY <2>1, <3>1, <3>2, <4>1 DEF Recorded
    <2>2. ASSUME Kind(y) = "reset", tx[y].at = 4, NEW o \in operations', o.kind = r.kind, o.token = r.token
          PROVE  FALSE
      <3>1. ~Taken(r) /\ HasOwner(y)
        BY <1>1, <2>2 DEF Good, Resetting, HasOwner, AtCommit
      <3>2. Kind(x) # "reset"
        BY <1>1, <3>1, Ready DEF Landing, Apart
      <3> QED
        <4>1. Payload(q).kind = Kind(x) /\ operations' \subseteq operations \cup {Payload(q)}
          BY LandsRecord
        <4> QED
          BY <2>2, <3>1, <3>2, <4>1 DEF Taken
    <2> QED
      BY <1>1, <2>1, <2>2 DEF Resetting, Recorded, Taken
  <1> QED
    BY <1>2, <1>4, <1>5, <1>6 DEF Good

LEMMA LandsKeeps ==
  ASSUME RInv, OutsideOK', NEW x \in Requests, Landing(x)
  PROVE  RInv'
  <1>1. FactorsOK' /\ TablesOK'
    BY LandsTables
  <1>2. TxOK'
    <2>1. ASSUME NEW y \in Requests, tx'[y] # Idle
          PROVE  tx'[y].q \in Body /\ tx'[y].at \in 1..Last(Kind(y)')
      <3>1. CASE y = x
        <4>1. tx'[x].q = tx[x].q /\ Past(x)' /\ tx[x].q \in Body
          BY <2>1, <3>1, Ready DEF Landing
        <4> QED
          BY <3>1, <4>1 DEF Past, AtVerify, AtRemove, Last, Kind, Keyed
      <3>2. CASE y # x
        BY <2>1, <3>2 DEF Landing, Only, RInv, TxOK, Kind
      <3> QED
        BY <3>1, <3>2
    <2> QED
      BY <2>1 DEF TxOK, Landing, Only, Kind
  <1>3. Good(x)' /\ \A y \in Requests \ {x} : Apart(x, y)'
    BY Ready, PastCommit DEF Landing
  <1>4. \A y \in Requests \ {x} : Good(y)'
    BY LandsOthers
  <1>5. ASSUME NEW y \in Requests, NEW z \in Requests, y # z PROVE Apart(y, z)'
    <2>1. CASE y = x
      BY <1>3, <1>5, <2>1
    <2>2. CASE z = x
      <3>1. Apart(x, y)'
        BY <1>3, <1>5, <2>2
      <3> QED
        BY <2>2, <3>1 DEF Apart, Kind
    <2>3. CASE y # x /\ z # x
      <3>1. Apart(y, z) /\ tx'[y] = tx[y] /\ tx'[z] = tx[z]
        BY <1>5, <2>3 DEF RInv, RowsOK, Landing, Only
      <3> QED
        BY <3>1 DEF Apart, HasKeys, HasOwner, HasChallenge, AtCommit, Kind
    <2> QED
      BY <2>1, <2>2, <2>3
  <1> QED
    BY <1>1, <1>2, <1>3, <1>4, <1>5 DEF RInv, RowsOK

\* The three ways in which a request is carried out.
LEMMA CarriedOut ==
  ASSUME RInv, NEW x \in Requests,
         Commits(x) \/ (LosesCommit(x) /\ Lands(x)) \/ LateCommitLands(x)
  PROVE  Landing(x)
  <1> USE DEF RInv
  <1>1. Idle \in TxRow
    BY DEF Idle, TxRow
  <1>2. Good(x)
    BY DEF RowsOK
  <1>3. CASE Commits(x)
    <2>1. AtCommit(x) /\ tx' = [tx EXCEPT ![x] = Idle]
      BY <1>3, StageOf DEF Commits, Answers
    <2>2. Only(x) /\ tx'[x] = Idle
      BY <1>1, <2>1 DEF TxOK, Only
    <2> QED
      BY <1>3, <2>1, <2>2 DEF Landing, Commits, AtRemove, AtVerify, Idle, Keyed
  <1>4. CASE LosesCommit(x) /\ Lands(x)
    <2>1. AtCommit(x)
      BY <1>4, StageOf DEF LosesCommit
    <2>2. CASE ~Resolving(x)
      <3>1. tx' = [tx EXCEPT ![x] = Idle]
        BY <1>4, <2>2 DEF LosesCommit, Answers
      <3>2. Only(x) /\ tx'[x] = Idle
        BY <1>1, <3>1 DEF TxOK, Only
      <3> QED
        BY <1>4, <2>1, <3>2 DEF Landing, AtRemove, AtVerify, Idle, Keyed
    <2>3. CASE Resolving(x)
      <3>1. tx' = [tx EXCEPT ![x].at = @ + 1]
        BY <1>4, <2>3 DEF LosesCommit
      <3>2. Kind(x) \in Keyed \cup {"reset", "run"}
        BY <2>1, <2>3 DEF AtCommit, Resolving, Kind, Keyed
      <3>3. tx[x] \in TxRow /\ tx[x].at + 1 \in 0..5
        BY <2>1, <3>2, NextStage DEF AtCommit, Last, Keyed
      <3>4. Only(x)
        BY <3>1, <3>3 DEF TxOK, TxRow, Only
      <3>5. /\ tx'[x].q = tx[x].q /\ tx'[x].at = tx[x].at + 1
            /\ tx'[x].old = tx[x].old /\ (tx'[x].late <=> tx[x].late)
        BY <3>1, <3>3 DEF TxOK, TxRow
      <3>6. ~tx[x].late /\ (Kind(x) = "reset" => tx[x].old = {})
        BY <1>2, <2>1 DEF AtCommit, Good, Lateness, Brings, Keyed
      <3>7. Past(x)'
        BY <2>1, <3>2, <3>5, <3>6 DEF Past, AtVerify, AtCommit, Kind, Keyed
      <3> QED
        BY <1>4, <2>1, <3>2, <3>4, <3>5, <3>7 DEF Landing, AtCommit, AtVerify, AtRemove, Kind, Keyed
    <2> QED
      BY <2>2, <2>3
  <1>5. CASE LateCommitLands(x)
    <2>1. Kind(x) = "run" /\ tx[x].at \in {3, 4, 5} /\ tx[x].late
      BY <1>2, <1>5 DEF LateCommitLands, Good, Lateness
    <2>2. CASE Stage(x) = "landing"
      <3>1. tx' = [tx EXCEPT ![x] = Idle]
        BY <1>5, <2>2 DEF LateCommitLands
      <3>2. Only(x) /\ tx'[x] = Idle
        BY <1>1, <3>1 DEF TxOK, Only
      <3> QED
        BY <1>5, <2>1, <3>2 DEF Landing, LateCommitLands, AtRemove, AtVerify, Idle, Keyed
    <2>3. CASE Stage(x) # "landing"
      <3>1. tx[x].at \in {3, 4}
        BY <2>1, <2>3, StageOf DEF AtLanding
      <3>2. tx' = [tx EXCEPT ![x].late = FALSE]
        BY <1>5, <2>3 DEF LateCommitLands
      <3>3. tx[x] \in TxRow
        BY DEF TxOK
      <3>4. Only(x)
        BY <3>2, <3>3 DEF TxOK, TxRow, Only
      <3>5. tx'[x].q = tx[x].q /\ tx'[x].at = tx[x].at /\ ~tx'[x].late
        BY <3>2, <3>3 DEF TxOK, TxRow
      <3>6. Past(x)'
        BY <2>1, <3>1, <3>5 DEF Past, AtVerify, AtRemove, Kind
      <3>7. /\ AtRemove(x)' => AtRemove(x)
            /\ AtVerify(x)' /\ Kind(x) = "run" => tx[x].at \in {2, 3}
        BY <2>1, <3>1, <3>5 DEF AtRemove, AtVerify, Kind, Keyed
      <3> QED
        BY <1>5, <2>1, <3>4, <3>5, <3>6, <3>7 DEF Landing, LateCommitLands
    <2> QED
      BY <2>2, <2>3
  <1> QED
    BY <1>3, <1>4, <1>5

-----------------------------------------------------------------------------
(* The other steps, and the induction *)

Around ==
  \/ \E h \in Challenges : ProvesPassword(h)
  \/ \E h \in Challenges, purpose \in {"login", "reset"} : Issue(h, purpose)
  \/ \E s \in Sessions : SessionEnds(s)
  \/ Tick
  \/ \E k \in Keys : KeyExpires(k)
  \/ \E h \in Challenges : ChallengeExpires(h)

\* Time, logouts and new challenges touch nothing that a request relies on.
LEMMA AroundKeeps ==
  ASSUME RInv, OutsideOK', Around
  PROVE  RInv'
  <1> USE DEF RInv
  <1>1. UNCHANGED <<owner, guard, operations, spent, tx>>
    BY DEF Around, ProvesPassword, Issue, SessionEnds, Tick, KeyExpires, ChallengeExpires, factorVars
  <1>2. /\ keys' \in [Keys -> {"none", "unused", "expired", "used"}] /\ Unused' = Unused
        /\ \A k \in Keys : keys'[k] = "none" <=> keys[k] = "none"
    <2>1. CASE UNCHANGED keys
      BY <2>1 DEF FactorsOK, Unused
    <2>2. CASE \E k \in Keys : KeyExpires(k)
      BY <2>2 DEF KeyExpires, FactorsOK, Unused
    <2> QED
      BY <2>1, <2>2 DEF Around, ProvesPassword, Issue, SessionEnds, Tick, ChallengeExpires, factorVars
  <1>3. /\ challenges' \in [Challenges -> Purposes]
        /\ \A h \in Challenges : challenges[h] = "gone" => challenges'[h] = "gone"
    <2>1. CASE UNCHANGED challenges
      BY <2>1 DEF FactorsOK
    <2>2. CASE \E h \in Challenges, purpose \in {"login", "reset"} : Issue(h, purpose)
      BY <2>2 DEF Issue, FactorsOK, Purposes
    <2>3. CASE \E h \in Challenges : ChallengeExpires(h)
      BY <2>3 DEF ChallengeExpires, FactorsOK, Purposes
    <2> QED
      BY <2>1, <2>2, <2>3 DEF Around, ProvesPassword, SessionEnds, Tick, KeyExpires, factorVars
  <1>4. /\ sessions' \in [Sessions -> [state : {"none", "live", "revoked"}, by : Proof \cup {None}]]
        /\ \A s \in Sessions : sessions'[s].state = "none" <=> sessions'[s].by = None
        /\ \A s \in Sessions : sessions'[s].state = "live" => Current(sessions[s].by)'
    <2>1. /\ \A s \in Sessions : sessions[s].state = "live" => Current(sessions[s].by)
          /\ sessions \in [Sessions -> [state : {"none", "live", "revoked"}, by : Proof \cup {None}]]
          /\ \A s \in Sessions : sessions[s].state = "none" <=> sessions[s].by = None
      BY DEF TablesOK, SessionsAreCurrent, LoggedIn, FactorsOK
    <2>2. CASE UNCHANGED sessions
      BY <1>1, <2>1, <2>2 DEF Current
    <2>3. CASE \E s \in Sessions : SessionEnds(s)
      BY <1>1, <2>1, <2>3 DEF SessionEnds, LoggedIn, Current
    <2> QED
      BY <2>2, <2>3 DEF Around, ProvesPassword, Issue, Tick, KeyExpires, ChallengeExpires, factorVars
  <1>9. issued' \in [Challenges -> Begun \cup {None}] /\ IssuedOK'
    <2>1. FactorsOK /\ IssuedOK
      BY DEF TablesOK
    <2>2. CASE UNCHANGED <<challenges, issued>>
      BY <1>1, <2>1, <2>2 DEF FactorsOK, IssuedOK
    <2>3. ASSUME NEW h \in Challenges, ProvesPassword(h)
          PROVE  issued' \in [Challenges -> Begun \cup {None}] /\ IssuedOK'
      <3> DEFINE begun == [typed |-> owner.password, outdated |-> FALSE]
      <3>1. begun \in Begun /\ begun.typed = owner.password
        BY <2>1 DEF FactorsOK, Owner, Begun
      <3>4. begun # None
        BY <3>1, RecoveryAssumption, Zenon
      <3>2. issued' = [issued EXCEPT ![h] = begun] /\ challenges' = challenges
        BY <2>3 DEF ProvesPassword
      <3> HIDE DEF begun
      <3> QED
        BY <1>1, <2>1, <3>1, <3>2, <3>4 DEF FactorsOK, IssuedOK
    <2>4. ASSUME NEW h \in Challenges, NEW purpose \in {"login", "reset"}, Issue(h, purpose)
          PROVE  issued' \in [Challenges -> Begun \cup {None}] /\ IssuedOK'
      BY <1>1, <2>1, <2>4 DEF Issue, FactorsOK, IssuedOK
    <2>5. ASSUME NEW h \in Challenges, ChallengeExpires(h)
          PROVE  issued' \in [Challenges -> Begun \cup {None}] /\ IssuedOK'
      BY <1>1, <2>1, <2>5 DEF ChallengeExpires, FactorsOK, IssuedOK
    <2> QED
      BY <2>2, <2>3, <2>4, <2>5 DEF Around, SessionEnds, Tick, KeyExpires, factorVars
  <1>5. FactorsOK'
    BY <1>1, <1>2, <1>3, <1>4, <1>9 DEF FactorsOK
  <1>6. TablesOK'
    <2>1. KeysOK'
      <3>1. Recoveries \subseteq Keys /\ Rotations \subseteq Keys
        BY DEF Keys
      <3> QED
        BY <1>1, <1>2, <3>1 DEF TablesOK, KeysOK, Done
    <2>2. ResetsOK'
      <3>1. \A o \in operations : o.kind = "reset" => o.challenge \in Challenges
        BY Fields DEF FactorsOK, Recover, Rotate, Reset
      <3> QED
        BY <1>1, <1>3, <3>1 DEF TablesOK, ResetsOK
    <2>3. SpentOK'
      BY <1>1 DEF TablesOK, SpentOK, Done
    <2> QED
      BY <1>1, <1>4, <1>9, <2>1, <2>2, <2>3 DEF TablesOK, SessionsAreCurrent, Current, LoggedIn
  <1>7. ASSUME NEW x \in Requests PROVE Good(x)'
    <2>1. Good(x)
      BY DEF RowsOK
    <2>2. Lateness(x)'
      BY <1>1, <2>1 DEF Good, Lateness, AtLanding, Kind
    <2>3. Proved(x)'
      BY <1>1, <2>1 DEF Good, Proved, Current, HasOwner, AtCommit, Kind
    <2>4. Resetting(x)'
      BY <1>1, <2>1 DEF Good, Resetting, Recorded, Taken, Kind
    <2>5. Brings(x)'
      <3>1. Kind(x) \in Keyed \cup {"run"} /\ tx[x].at # 0 => tx[x].q.token \in Keys
        BY Kinds, Fields DEF TxOK, Idle, Kind, Keyed, Keys
      <3>2. HasKeys(x) => tx[x].at # 0
        BY <2>1 DEF HasKeys, Good, Lateness
      <3>3. tx[x].late => tx[x].at # 0
        BY <2>1 DEF Good, Lateness
      <3> QED
        BY <1>1, <1>2, <2>1, <3>1, <3>2, <3>3 DEF Good, Brings, HasKeys, Taken, Kind, Keyed
    <2> QED
      BY <2>2, <2>3, <2>4, <2>5 DEF Good
  <1>8. ASSUME NEW x \in Requests, NEW y \in Requests, x # y PROVE Apart(x, y)'
    BY <1>1, <1>8 DEF RowsOK, Apart, HasKeys, HasOwner, HasChallenge, AtCommit, Kind
  <1> QED
    BY <1>1, <1>5, <1>6, <1>7, <1>8 DEF TxOK, RowsOK, Kind

LEMMA OutsideStep ==
  ASSUME RInv, Next
  PROVE  OutsideOK'
  <1> USE DEF RInv
  <1>1. ASSUME NEW x \in Requests, Stage(x) # "idle" PROVE tx[x].q \in Body
    BY <1>1 DEF Stage, TxOK
  <1>2. ASSUME NEW x \in Requests, Handles(x)
        PROVE  /\ now' = now /\ (RunStarts(x) \/ files' \subseteq files)
               /\ RunVerifies(x) \/ blind' = blind
    <2>1. CASE Arrives(x) \/ Recovers(x) \/ Rotates(x) \/ ResetStarts(x)
      BY <2>1 DEF Arrives, Recovers, Rotates, ResetStarts, Goes, Refuses, fileVars
    <2>2. CASE TakesChallenge(x) \/ TakesOwner(x)
      BY <2>2 DEF TakesChallenge, Resolves, TakesOwner, Goes, Refuses, fileVars
    <2>3. CASE Commits(x) \/ LosesCommit(x) \/ CommitIsLate(x) \/ LateCommitLands(x)
      <3>1. Lands(x) \/ Unlanded
        BY <2>3 DEF Commits, LosesCommit, CommitIsLate, LateCommitLands
      <3>2. Lands(x) => UNCHANGED <<files, blind, now>>
        BY DEF Lands, fileVars
      <3> QED
        BY <3>1, <3>2 DEF Unlanded, fileVars
    <2>4. CASE Verifies(x)
      BY <2>4 DEF Verifies, Refuses, fileVars
    <2>5. CASE RunStarts(x)
      BY <2>5 DEF RunStarts, Refuses, fileVars
    <2>6. CASE RunVerifies(x)
      BY <2>6 DEF RunVerifies
    <2>7. CASE Aborts(x) \/ Removes(x)
      BY <2>7 DEF Aborts, Removes
    <2> QED
      BY <1>2, <2>1, <2>2, <2>3, <2>4, <2>5, <2>6, <2>7 DEF Handles
  <1>3. now' \in 0..MaxStep /\ files' \subseteq Runs /\ blind' \subseteq Runs
    <2>1. CASE Around
      BY <2>1, RecoveryAssumption DEF Around, ProvesPassword, Issue, SessionEnds, Tick, KeyExpires, ChallengeExpires, OutsideOK, fileVars
    <2>2. ASSUME NEW x \in Requests, RunStarts(x) PROVE files' \subseteq Runs
      <3>1. tx[x].q \in Body /\ tx[x].q.kind = "run" => tx[x].q.token \in Runs
        BY Kinds, Fields
      <3>2. tx[x].q \in Body
        BY <1>1, <2>2 DEF RunStarts
      <3> QED
        BY <2>2, <3>1, <3>2 DEF RunStarts, Refuses, OutsideOK, fileVars
    <2>3. ASSUME NEW x \in Requests, RunVerifies(x) PROVE blind' \subseteq Runs
      <3>1. tx[x].q \in Body /\ tx[x].q.kind = "run" => tx[x].q.token \in Runs
        BY Kinds, Fields
      <3>2. tx[x].q \in Body
        BY <1>1, <2>3 DEF RunVerifies
      <3> QED
        BY <2>3, <3>1, <3>2 DEF RunVerifies, OutsideOK
    <2> QED
      BY <1>2, <2>1, <2>2, <2>3 DEF Next, Around, OutsideOK
  <1>4. answer' # None => answer'.to \in Body
    <2>1. ASSUME NEW x \in Requests, NEW says, Answers(x, says), Stage(x) # "idle"
          PROVE  answer' # None => answer'.to \in Body
      BY <1>1, <2>1 DEF Answers
    <2>2. CASE answer' = None
      BY <2>2
    <2>3. CASE \E x \in Requests : Handles(x)
      <3>1. PICK x \in Requests : Handles(x)
        BY <2>3
      <3>2. answer' = None \/ (Stage(x) # "idle" /\ \E says : Answers(x, says))
        BY <3>1 DEF Handles, Arrives, Recovers, Rotates, ResetStarts, RunStarts, TakesChallenge, Resolves,
           TakesOwner, Commits, LosesCommit, CommitIsLate, LateCommitLands, Verifies, RunVerifies, Removes, Ends,
           Aborts, Goes, Refuses, Silent
      <3> QED
        BY <2>1, <3>2
    <2> QED
      BY <2>2, <2>3 DEF Next, ProvesPassword, Issue, SessionEnds, Tick, KeyExpires, ChallengeExpires, Silent
  <1> QED
    BY <1>3, <1>4 DEF OutsideOK

LEMMA RecoveryInit ==
  Init => RInv
  <1> SUFFICES ASSUME Init PROVE RInv
    OBVIOUS
  <1> USE DEF Init
  <1>1. FactorsOK
    <2>1. owner \in Owner
      BY DEF Owner, Secrets
    <2>2. guard \in -1..MaxStep
      BY RecoveryAssumption
    <2> QED
      BY <2>1, <2>2 DEF FactorsOK, Closed, Purposes
  <1>2. OutsideOK
    BY RecoveryAssumption DEF OutsideOK
  <1>3. TxOK
    <2>1. Idle \in TxRow
      BY DEF Idle, TxRow
    <2> QED
      BY <2>1 DEF TxOK
  <1>4. TablesOK
    <2>1. KeysOK
      <3>1. First \in Keys /\ Unused = {First}
        BY DEF Unused, Keys
      <3> QED
        BY <3>1, RecoveryAssumption DEF KeysOK, Keys
    <2>2. ResetsOK
      BY DEF ResetsOK
    <2>3. SpentOK
      BY RecoveryAssumption DEF SpentOK
    <2>4. IssuedOK /\ SessionsAreCurrent
      BY DEF IssuedOK, SessionsAreCurrent, LoggedIn, Closed
    <2> QED
      BY <2>1, <2>2, <2>3, <2>4 DEF TablesOK
  <1>5. RowsOK
    BY DEF RowsOK, Idle, Good, Apart, Lateness, Brings, Proved, Resetting, HasKeys, HasOwner, HasChallenge,
           AtCommit, AtLanding, Kind
  <1> QED
    BY <1>1, <1>2, <1>3, <1>4, <1>5 DEF RInv

LEMMA RecoveryStep ==
  RInv /\ [Next]_vars => RInv'
  <1> SUFFICES ASSUME RInv, [Next]_vars PROVE RInv'
    OBVIOUS
  <1>1. CASE UNCHANGED vars
    <2>1. FactorsOK' /\ OutsideOK' /\ TxOK'
      BY <1>1 DEF vars, factorVars, fileVars, RInv, FactorsOK, OutsideOK, TxOK, Kind
    <2>2. TablesOK'
      BY <1>1 DEF vars, factorVars, RInv, TablesOK, KeysOK, ResetsOK, SpentOK, IssuedOK, SessionsAreCurrent, Current, LoggedIn,
                  Done, Unused
    <2>3. RowsOK'
      <3>1. UNCHANGED <<owner, guard, keys, operations, tx>>
        BY <1>1 DEF vars, factorVars
      <3>2. ASSUME NEW x \in Requests PROVE Good(x)'
        <4>1. Good(x)
          BY DEF RInv, RowsOK
        <4> QED
          BY <3>1, <4>1 DEF Good, Lateness, Brings, Proved, Current, Resetting, HasKeys, HasOwner, AtCommit, AtLanding,
                            Kind, Taken, Recorded, Unused
      <3>3. ASSUME NEW x \in Requests, NEW y \in Requests, x # y PROVE Apart(x, y)'
        <4>1. Apart(x, y)
          BY <3>3 DEF RInv, RowsOK
        <4> QED
          BY <3>1, <4>1 DEF Apart, HasKeys, HasOwner, HasChallenge, AtCommit, Kind
      <3> QED
        BY <3>2, <3>3 DEF RowsOK
    <2> QED
      BY <2>1, <2>2, <2>3 DEF RInv
  <1>2. CASE Next
    <2>1. OutsideOK'
      BY <1>2, OutsideStep
    <2>2. CASE Around
      BY <2>1, <2>2, AroundKeeps
    <2>3. ASSUME NEW x \in Requests, Handles(x) PROVE RInv'
      <3>1. CASE Commits(x) \/ (LosesCommit(x) /\ Lands(x)) \/ LateCommitLands(x)
        BY <2>1, <3>1, CarriedOut, LandsKeeps
      <3>2. LosesCommit(x) => Lands(x) \/ Unlanded
        BY DEF LosesCommit
      <3> QED
        BY <2>1, <2>3, <3>1, <3>2, QuietKeeps DEF Handles
    <2> QED
      BY <1>2, <2>2, <2>3 DEF Next, Around
  <1> QED
    BY <1>1, <1>2

-----------------------------------------------------------------------------
(* Theorems *)

\* No two requests have the same lock, what a request was admitted with stays
\* in force until it is carried out, and the tables agree with each other.
THEOREM RecoveryInductive == Spec => []RInv
  BY RecoveryInit, RecoveryStep, PTL DEF Spec

\* There is always exactly one key to replace, however recoveries, rotations
\* and runs of the command line meet, and whatever is lost on the way.
THEOREM OneKeyIsUnused == Spec => []OneUnusedKey
  <1>1. RInv => OneUnusedKey
    <2> SUFFICES ASSUME RInv PROVE OneUnusedKey
      OBVIOUS
    <2>1. PICK k \in Keys : Unused = {k}
      BY DEF RInv, TablesOK, KeysOK
    <2>2. Cardinality({k}) = 1
      BY FS_Singleton
    <2> QED
      BY <2>1, <2>2, TypesHold DEF OneUnusedKey
  <1> QED
    BY <1>1, RecoveryInductive, PTL

\* No one-time code is accepted twice, by whichever handlers.
THEOREM CodesAreSpentOnce == Spec => []CodeSpentOnce
  <1>1. RInv => CodeSpentOnce
    <2> SUFFICES ASSUME RInv, NEW c \in Codes PROVE spent[c] <= 1
      BY DEF CodeSpentOnce
    <2>1. spent[c] \in Nat /\ (spent[c] # 0 => spent[c] = 1)
      BY DEF RInv, FactorsOK, TablesOK, SpentOK
    <2> QED
      BY <2>1
  <1> QED
    BY <1>1, RecoveryInductive, PTL

\* The code of a session that is not revoked was accepted under the factors in
\* force, and its password is the one in force unless that was replaced between
\* the two steps of its login.
THEOREM SessionsKeepUp == Spec => []SessionsAreCurrent
  <1>1. RInv => SessionsAreCurrent
    BY DEF RInv, TablesOK
  <1> QED
    BY <1>1, RecoveryInductive, PTL

\* A request that waits has only locks that come before the one it waits for.
LEMMA LocksInOrder ==
  ASSUME TxOK, NEW x \in Requests, NEW y \in Requests, Waits(x, y), Stage(y) \in {"keys", "challenge", "owner"}
  PROVE  AtOwner(y) /\ ~AtOwner(x)
  <1> USE DEF Kind
  <1>1. AtKeys(y) \/ AtChallenge(y) \/ AtOwner(y)
    BY StageOf
  <1>2. AtKeys(x) \/ AtChallenge(x) \/ AtOwner(x)
    BY StageOf DEF Waits
  <1>3. /\ tx[x].at # 0 => tx[x].q \in Body
        /\ tx[y].at # 0 => tx[y].q \in Body
    BY DEF TxOK, Idle
  <1>4. PICK i \in 1..(tx[y].at - 1) : LockAt(tx[y].q, i) = LockAt(tx[x].q, tx[x].at)
    BY DEF Waits, Holds
  <1>5. /\ AtKeys(x) => LockAt(tx[x].q, tx[x].at) = "keys"
        /\ AtChallenge(x) => LockAt(tx[x].q, tx[x].at) \in Challenges
        /\ AtOwner(x) => LockAt(tx[x].q, tx[x].at) = "owner"
    <2>1. AtKeys(x) => LockAt(tx[x].q, tx[x].at) = "keys"
      BY Waits_ DEF AtKeys, LockAt
    <2>2. AtChallenge(x) => LockAt(tx[x].q, tx[x].at) = tx[x].q.challenge /\ tx[x].q.challenge \in Challenges
      BY <1>3, Waits_, Kinds, Fields DEF AtChallenge, LockAt
    <2>3. AtOwner(x) => LockAt(tx[x].q, tx[x].at) = "owner"
      BY Waits_ DEF AtOwner, LockAt, Keyed
    <2> QED
      BY <2>1, <2>2, <2>3
  <1>6. ~AtKeys(y)
    BY <1>4 DEF AtKeys
  <1>7. AtChallenge(y) => LockAt(tx[y].q, i) = "operation"
    BY <1>4, Waits_ DEF AtChallenge, LockAt
  <1>8. AtOwner(y) => LockAt(tx[y].q, i) \in {"keys", "operation"} \cup Challenges
    <2>1. CASE Kind(y) \in Keyed
      BY <1>4, <2>1, Waits_ DEF AtOwner, LockAt, Keyed
    <2>2. CASE Kind(y) = "reset"
      <3>1. AtOwner(y) => i \in {1, 2} /\ tx[y].q.challenge \in Challenges
        BY <1>3, <1>4, <2>2, Kinds, Fields DEF AtOwner, Keyed
      <3> QED
        BY <2>2, <3>1, Waits_ DEF LockAt
    <2>3. CASE Kind(y) = "login"
      <3>1. AtOwner(y) => i = 1 /\ tx[y].q.challenge \in Challenges
        BY <1>3, <1>4, <2>3, Kinds, Fields DEF AtOwner, Keyed
      <3> QED
        BY <2>3, <3>1, Waits_ DEF LockAt
    <2>4. CASE Kind(y) = "change"
      BY <1>4, <2>4 DEF AtOwner, Keyed
    <2> QED
      BY <2>1, <2>2, <2>3, <2>4 DEF AtOwner
  <1> QED
    BY <1>1, <1>2, <1>4, <1>5, <1>6, <1>7, <1>8, RecoveryAssumption

\* Keys before challenge before owner: no two transactions wait for each other.
THEOREM NoTwoWaitForEachOther == Spec => []NoMutualWait
  <1>1. RInv => NoMutualWait
    <2> SUFFICES ASSUME RInv, NEW x \in Requests, NEW y \in Requests, Waits(x, y), Waits(y, x) PROVE FALSE
      BY DEF NoMutualWait
    <2>1. Stage(x) \in {"keys", "challenge", "owner"} /\ Stage(y) \in {"keys", "challenge", "owner"}
      BY DEF Waits
    <2> QED
      BY <2>1, LocksInOrder DEF RInv
  <1> QED
    BY <1>1, RecoveryInductive, PTL

LEMMA Refused ==
  ASSUME NEW x \in Requests, NEW says, Refuses(x, says), answer' # None
  PROVE  /\ answer'.to = tx[x].q /\ answer'.says = says
         /\ UNCHANGED <<operations, keys>>
  BY DEF Refuses, Answers, factorVars

\* What is recorded is a recovery, a rotation or a reset, and is taken.
LEMMA RecordedIsTaken ==
  ASSUME FactorsOK, NEW q \in Body, Recorded(q)
  PROVE  q.kind \in {"recover", "rotate", "reset"} /\ Taken(q)
  <1>1. Payload(q).kind = q.kind /\ Payload(q).token = q.token
    <2>1. CASE q.kind = "rotate"
      <3>1. q \in Rotate /\ Payload(q) = [q EXCEPT !.session = None]
        BY <2>1, Kinds DEF Payload
      <3> QED
        BY <3>1 DEF Rotate
    <2>2. CASE q.kind # "rotate"
      BY <2>2 DEF Payload
    <2> QED
      BY <2>1, <2>2
  <1>2. Payload(q) \in operations /\ operations \subseteq Recover \cup Rotate \cup Reset
    BY DEF Recorded, FactorsOK
  <1> QED
    BY <1>1, <1>2 DEF Taken, Recover, Rotate, Reset

\* When a request is told something.
LEMMA Told ==
  ASSUME RInv, NEW x \in Requests, Handles(x), answer' # None
  PROVE  /\ answer'.to = tx[x].q
         /\ answer'.says = "ok" =>
              \/ Commits(x)
              \/ RunVerifies(x) /\ Kind(x) = "run" /\ KeepsFile(tx[x].q) /\ keys' = keys
              \/ Kind(x) # "run" /\ Recorded(tx[x].q) /\ operations' = operations
         /\ answer'.says \in {"invalid", "unproven"} =>
              ~Recorded(tx[x].q) /\ operations' = operations
  <1> DEFINE q == tx[x].q
             Truth == /\ answer'.to = q
                      /\ answer'.says = "ok" =>
                           \/ Commits(x)
                           \/ RunVerifies(x) /\ q.kind = "run" /\ KeepsFile(q) /\ keys' = keys
                           \/ q.kind # "run" /\ Recorded(q) /\ operations' = operations
                      /\ answer'.says \in {"invalid", "unproven"} => ~Recorded(q) /\ operations' = operations
  <1>1. SUFFICES Truth
    BY DEF Kind
  <1>2. FactorsOK /\ TxOK /\ Good(x)
    BY DEF RInv, RowsOK
  <1>3. Stage(x) # "idle" => q \in Body
    BY <1>2 DEF Stage, TxOK
  <1>4. Stage(x) # "idle" /\ Recorded(q) => q.kind \in {"recover", "rotate", "reset"} /\ Taken(q)
    BY <1>2, <1>3, RecordedIsTaken
  <1> HIDE DEF q
  <1>5. CASE Recovers(x) \/ Rotates(x) \/ ResetStarts(x)
    <2>1. Stage(x) # "idle" /\ q.kind # "run"
      <3>1. Stage(x) = "operation" => Kind(x) = "reset"
        BY <1>2, StageOf
      <3> QED
        BY <1>5, <3>1 DEF Recovers, Rotates, ResetStarts, Kind, q
    <2>2. \/ Refuses(x, "ok") /\ Recorded(q)
          \/ Refuses(x, "conflict")
          \/ Refuses(x, "invalid") /\ ~Taken(q)
      BY <1>5 DEF Recovers, Rotates, ResetStarts, Replayed, Goes, Silent, q
    <2> QED
      BY <1>4, <2>1, <2>2, Refused DEF q
  <1>6. CASE TakesChallenge(x)
    <2>1. Stage(x) # "idle"
      BY <1>6 DEF TakesChallenge
    <2>2. \/ Refuses(x, "ok") /\ Recorded(q) /\ q.kind = "reset"
          \/ Refuses(x, "conflict")
          \/ Refuses(x, "invalid") /\ (q.kind = "reset" => ~Taken(q))
      BY <1>6 DEF TakesChallenge, Resolves, Goes, Silent, q
    <2>3. q.kind \in {"reset", "login"}
      BY <1>2, <1>6, StageOf DEF TakesChallenge, AtChallenge, Kind, q
    <2> QED
      BY <1>4, <2>1, <2>2, <2>3, Refused DEF q
  <1>7. CASE TakesOwner(x)
    <2>1. Stage(x) # "idle" /\ AtOwner(x)
      BY <1>2, <1>7, StageOf DEF TakesOwner
    <2>2. \/ Refuses(x, "failed")
          \/ Refuses(x, "unproven") /\ ~Proven(q)
      BY <1>7 DEF TakesOwner, Silent, q
    <2>3. q.kind = "rotate" => ~Taken(q)
      BY <1>2, <2>1 DEF Good, Brings, HasKeys, AtOwner, Keyed, Kind, q
    <2>4. q.kind = "reset" => ~Recorded(q)
      BY <1>2, <2>1 DEF Good, Resetting, AtOwner, Keyed, Kind, q
    <2>5. q.kind = "recover" => Proven(q)
      BY DEF Proven
    <2> QED
      BY <1>4, <2>1, <2>2, <2>3, <2>4, <2>5, Refused DEF q
  <1>8. CASE Verifies(x)
    <2>1. q.kind # "run" /\ ((Refuses(x, "ok") /\ Recorded(q)) \/ Refuses(x, "failed"))
      BY <1>8 DEF Verifies, Replayed, q
    <2> QED
      BY <2>1, Refused DEF q
  <1>9. CASE RunVerifies(x)
    <2>1. q.kind = "run" /\ answer'.to = q /\ keys' = keys /\ answer'.says = "ok" /\ KeepsFile(q)
      BY <1>9 DEF RunVerifies, Ends, Answers, Silent, Claims, factorVars, q
    <2> QED
      BY <1>9, <2>1
  <1>10. CASE Commits(x)
    BY <1>10 DEF Commits, Answers, q
  <1>11. CASE \/ Arrives(x) \/ LosesCommit(x) \/ CommitIsLate(x) \/ LateCommitLands(x)
              \/ Removes(x) \/ Aborts(x)
    BY <1>11 DEF Arrives, LosesCommit, CommitIsLate, LateCommitLands, Removes, Ends, Aborts, Answers, Silent, Claims
  <1>12. CASE RunStarts(x)
    BY <1>12 DEF RunStarts, Refuses, Answers, Silent, Claims
  <1> QED
    BY <1>5, <1>6, <1>7, <1>8, <1>9, <1>10, <1>11, <1>12 DEF Handles

\* Whoever is told that it worked is told the truth.
THEOREM OkTellsTheTruth == Spec => []OkIsTrue
  <1>1. Init => OkIsTrue
    BY DEF Init, OkIsTrue
  <1>2. RInv /\ OkIsTrue /\ [Next]_vars => OkIsTrue'
    <2> SUFFICES ASSUME RInv, OkIsTrue, [Next]_vars PROVE OkIsTrue'
      OBVIOUS
    <2>1. CASE UNCHANGED vars
      BY <2>1 DEF OkIsTrue, vars, factorVars
    <2>2. CASE answer' = None
      BY <2>2 DEF OkIsTrue
    <2>3. ASSUME NEW x \in Requests, Handles(x), answer' # None, answer'.says = "ok" PROVE OkIsTrue'
      <3> DEFINE q == tx[x].q
      <3>1. answer'.to = q
        BY <2>3, Told
      <3>2. CASE Commits(x)
        <4>1. Landing(x)
          BY <3>2, CarriedOut
        <4>2. q \in Body
          BY <4>1, Ready DEF Landing
        <4>3. q.kind = "run" => keys'[q.token] # "none"
          <5>1. q.kind = "run" => q.token \in Keys
            BY <4>2, Kinds, Fields DEF Keys
          <5> QED
            BY <4>1, <5>1, LandsKeys DEF Kind
        <4>4. q.kind \in {"recover", "rotate", "reset"} => Payload(q) \in operations'
          BY <4>1, LandsRecord DEF Kind, Keyed
        <4> QED
          BY <3>1, <4>3, <4>4 DEF OkIsTrue
      <3>3. CASE q.kind = "run" /\ KeepsFile(q) /\ keys' = keys
        BY <3>1, <3>3 DEF OkIsTrue, KeepsFile, Active
      <3>4. CASE q.kind # "run" /\ Recorded(q) /\ operations' = operations
        BY <3>1, <3>4 DEF OkIsTrue, Recorded
      <3> QED
        BY <2>3, <3>2, <3>3, <3>4, Told DEF Kind
    <2>4. CASE answer'.says # "ok"
      BY <2>4 DEF OkIsTrue
    <2> QED
      BY <2>1, <2>2, <2>3, <2>4 DEF Next, ProvesPassword, Issue, SessionEnds, Tick, KeyExpires, ChallengeExpires, Silent
  <1> QED
    BY <1>1, <1>2, RecoveryInductive, PTL DEF Spec

\* A request that was carried out is not refused for its factors when it comes
\* again, not even when both are under way together.
THEOREM RetriesAreRecognized == Spec => []RetryIsRecognized
  <1>1. Init => RetryIsRecognized
    BY DEF Init, RetryIsRecognized
  <1>2. RInv /\ RetryIsRecognized /\ [Next]_vars => RetryIsRecognized'
    <2> SUFFICES ASSUME RInv, RetryIsRecognized, [Next]_vars PROVE RetryIsRecognized'
      OBVIOUS
    <2>1. CASE UNCHANGED vars
      BY <2>1 DEF RetryIsRecognized, Recorded, vars, factorVars
    <2>2. CASE answer' = None
      BY <2>2 DEF RetryIsRecognized
    <2>3. ASSUME NEW x \in Requests, Handles(x), answer' # None PROVE RetryIsRecognized'
      BY <2>3, Told DEF RetryIsRecognized, Recorded
    <2> QED
      BY <2>1, <2>2, <2>3 DEF Next, ProvesPassword, Issue, SessionEnds, Tick, KeyExpires, ChallengeExpires, Silent
  <1> QED
    BY <1>1, <1>2, RecoveryInductive, PTL DEF Spec

-----------------------------------------------------------------------------
(* The files of the command line *)

\* A run has its file until it finds its key inactive; when it is to remove the
\* file, its key does not work, or the server still had its COMMIT at the read.
HasFile(x) ==
  Kind(x) = "run" =>
    /\ tx[x].at \in {2, 3} => tx[x].q.token \in files
    /\ tx[x].at = 4 => tx[x].q.token \in blind \/ (~tx[x].late /\ keys[tx[x].q.token] # "unused")
    /\ tx[x].at = 5 => tx[x].q.token \in files \/ tx[x].q.token \in blind

FilesOK == FileOutlivesKey /\ \A x \in Requests : HasFile(x)

\* The token of a run under way is that of no other run.
LEMMA OwnToken ==
  ASSUME RInv, NEW x \in Requests, NEW y \in Requests, x # y, tx[x].at # 0, tx[y].at # 0,
         Kind(x) = "run", Kind(y) = "run"
  PROVE  tx[x].q.token # tx[y].q.token
  <1>1. tx[x].q \in Run /\ tx[y].q \in Run
    BY Kinds DEF RInv, TxOK, Idle, Kind
  <1>2. tx[x].q # tx[y].q
    BY DEF RInv, RowsOK, Apart
  <1> QED
    BY <1>1, <1>2 DEF Run

\* A step of one request that takes no file of another, nor any key.
LEMMA FilesStay ==
  ASSUME RInv, FilesOK, NEW x \in Requests, keys' = keys,
         \A y \in Requests \ {x} : tx'[y] = tx[y],
         files' = files \/ (Kind(x) = "run" /\ tx[x].at # 0),
         files \ {tx[x].q.token} \subseteq files',
         blind \subseteq blind',
         tx[x].q.token \in files \ files' => keys[tx[x].q.token] # "unused" \/ tx[x].q.token \in blind',
         HasFile(x)'
  PROVE  FilesOK'
  <1>1. ASSUME NEW y \in Requests \ {x} PROVE HasFile(y)'
    <2>1. tx'[y] = tx[y] /\ HasFile(y)
      BY DEF FilesOK
    <2>2. Kind(y) = "run" /\ tx[y].at # 0 /\ files' # files => tx[y].q.token # tx[x].q.token
      BY OwnToken
    <2>3. tx[y].at = 0 => HasFile(y)'
      BY <2>1 DEF HasFile
    <2> QED
      BY <2>1, <2>2, <2>3 DEF HasFile, Kind
  <1>2. FileOutlivesKey'
    BY DEF FilesOK, FileOutlivesKey
  <1> QED
    BY <1>1, <1>2 DEF FilesOK

\* What is carried out makes a key active only with its file.
LEMMA FilesLand ==
  ASSUME RInv, FilesOK, NEW x \in Requests, Landing(x), UNCHANGED <<files, blind>>
  PROVE  FilesOK'
  <1> USE DEF Kind
  <1>1. tx[x].at # 0 /\ tx[x].q \in Body /\ HasFile(x) /\ Lateness(x)
    BY Ready DEF Landing, FilesOK, RInv, RowsOK, Good
  <1>2. ASSUME NEW r \in Runs, keys'[r] = "unused", ~(Kind(x) = "run" /\ r = tx[x].q.token)
        PROVE  keys[r] = "unused"
    <2>1. keys' = [k \in Keys |-> CASE k \in tx[x].old -> "used"
                                    [] tx[x].q.kind \in BringsKey /\ k = tx[x].q.token -> "unused"
                                    [] OTHER -> keys[k]]
      BY DEF Landing, Lands
    <2>2. r \in Keys
      BY DEF Keys
    <2>3. ~(tx[x].q.kind \in BringsKey /\ r = tx[x].q.token)
      BY <1>1, <1>2, Kinds, Fields, RecoveryAssumption DEF BringsKey
    <2> QED
      BY <1>2, <2>1, <2>2, <2>3
  <1>3. Kind(x) = "run" =>
          /\ tx[x].q.token \in files \/ tx[x].q.token \in blind
          /\ tx[x].at \in {2, 3} => tx[x].q.token \in files
          /\ tx[x].at = 4 => tx[x].q.token \in blind
    <2>1. CASE AtCommit(x)
      BY <1>1, <2>1 DEF AtCommit, HasFile, Keyed
    <2>2. CASE tx[x].late
      BY <1>1, <2>2 DEF Lateness, HasFile
    <2> QED
      BY <2>1, <2>2 DEF Landing
  <1>4. FileOutlivesKey'
    BY <1>2, <1>3 DEF FileOutlivesKey, FilesOK
  <1>5. HasFile(x)'
    <2>1. CASE tx'[x] = Idle
      BY <2>1 DEF HasFile, Idle
    <2>2. CASE tx'[x].q = tx[x].q /\ Past(x)'
      <3>1. tx'[x].at = 4 /\ Kind(x) = "run" => tx[x].at = 4 /\ tx[x].late
        BY <1>1, <2>2 DEF Landing, AtRemove, AtCommit, Keyed
      <3>2. Kind(x) = "run" => tx'[x].at \in {3, 4}
        BY <2>2 DEF Past, AtVerify, AtRemove, Keyed
      <3>3. tx'[x].at = 3 /\ Kind(x) = "run" => tx[x].at \in {2, 3}
        BY <2>2 DEF Landing, AtVerify
      <3> QED
        BY <1>3, <2>2, <3>1, <3>2, <3>3 DEF HasFile
    <2> QED
      BY <2>1, <2>2 DEF Landing
  <1>6. ASSUME NEW y \in Requests \ {x} PROVE HasFile(y)'
    <2>1. tx'[y] = tx[y] /\ HasFile(y)
      BY DEF Landing, Only, FilesOK
    <2>2. CASE Kind(y) = "run" /\ tx[y].at = 4
      <3>1. tx[y].q.token \in Runs
        BY <2>2, Kinds, Fields DEF RInv, TxOK, Idle
      <3>2. ~(Kind(x) = "run" /\ tx[y].q.token = tx[x].q.token)
        BY <1>1, <2>2, OwnToken
      <3> QED
        BY <1>2, <2>1, <2>2, <3>1, <3>2 DEF HasFile
    <2> QED
      BY <2>1, <2>2 DEF HasFile
  <1> QED
    BY <1>4, <1>5, <1>6 DEF FilesOK

\* Every other step of a request.
LEMMA FilesQuiet ==
  ASSUME RInv, FilesOK, NEW x \in Requests,
         \/ Arrives(x) \/ Recovers(x) \/ Rotates(x) \/ ResetStarts(x) \/ RunStarts(x)
         \/ TakesChallenge(x) \/ TakesOwner(x) \/ (LosesCommit(x) /\ Unlanded)
         \/ CommitIsLate(x) \/ Verifies(x) \/ RunVerifies(x) \/ Removes(x) \/ Aborts(x)
  PROVE  FilesOK'
  <1> DEFINE q == tx[x].q
             Others == \A y \in Requests \ {x} : tx'[y] = tx[y]
  <1> USE DEF Kind
  <1>1. /\ TxOK /\ HasFile(x) /\ Good(x)
        /\ tx \in [Requests -> TxRow] /\ (tx[x].at # 0 => q \in Body)
    BY DEF RInv, FilesOK, RowsOK, TxOK, Idle
  <1>2. ASSUME NEW row, tx' = [tx EXCEPT ![x] = row] PROVE Others /\ tx'[x] = row
    BY <1>1, <1>2
  <1>3. ASSUME NEW n, tx' = [tx EXCEPT ![x].at = n]
        PROVE  Others /\ tx'[x].at = n /\ tx'[x].q = q /\ (tx'[x].late <=> tx[x].late)
    BY <1>1, <1>3 DEF TxRow
  <1>4. ASSUME UNCHANGED <<keys, files, blind>>, Others, HasFile(x)' PROVE FilesOK'
    BY <1>4, FilesStay
  <1>5. ASSUME tx' = [tx EXCEPT ![x] = Idle] PROVE Others /\ HasFile(x)'
    <2>1. Others /\ tx'[x] = Idle
      BY <1>2, <1>5
    <2>2. tx'[x].at = 0
      BY <2>1 DEF Idle
    <2> QED
      BY <2>1, <2>2 DEF HasFile
  <1>6. ASSUME NEW says, Refuses(x, says) PROVE FilesOK'
    BY <1>4, <1>5, <1>6 DEF Refuses, Answers, factorVars, fileVars
  <1>7. ASSUME Kind(x) # "run", Others, tx'[x].q = q, UNCHANGED <<keys, files, blind>> PROVE FilesOK'
    BY <1>4, <1>7 DEF HasFile
  <1>8. ASSUME Goes(x), Kind(x) # "run" PROVE FilesOK'
    BY <1>1, <1>3, <1>7, <1>8 DEF Goes, factorVars, fileVars
  <1>9. CASE Arrives(x)
    <2>1. PICK b \in Incoming : tx' = [tx EXCEPT ![x] = [Idle EXCEPT !.q = b, !.at = 1]]
      BY <1>9 DEF Arrives
    <2>2. Others /\ tx'[x].at = 1
      BY <1>2, <2>1 DEF Idle
    <2>3. HasFile(x)'
      BY <2>2 DEF HasFile
    <2> QED
      BY <1>4, <1>9, <2>2, <2>3 DEF Arrives, factorVars, fileVars
  <1>10. CASE Recovers(x)
    <2>1. ASSUME tx' = [tx EXCEPT ![x].at = @ + 1, ![x].old = {q.key}]
          PROVE  Others /\ tx'[x].q = q
      BY <1>1, <2>1 DEF TxRow
    <2> QED
      BY <1>6, <1>7, <1>10, <2>1 DEF Recovers, factorVars, fileVars
  <1>11. CASE Rotates(x)
    BY <1>6, <1>8, <1>11 DEF Rotates
  <1>12. CASE ResetStarts(x)
    <2>1. Kind(x) # "run"
      BY <1>1, <1>12, StageOf DEF ResetStarts
    <2> QED
      BY <1>6, <1>8, <1>12, <2>1 DEF ResetStarts
  <1>13. CASE RunStarts(x)
    <2>1. ASSUME files' = files \cup {q.token}, tx' = [tx EXCEPT ![x].at = @ + 1, ![x].old = Invalidated]
          PROVE  Others /\ tx'[x].q = q /\ tx'[x].at = 2
      <3>1. tx[x].at = 1
        BY <1>1, <1>13, StageOf DEF RunStarts, AtKeys
      <3> QED
        BY <1>1, <2>1, <3>1 DEF TxRow
    <2>2. tx[x].at # 0 /\ Kind(x) = "run"
      BY <1>1, <1>13, StageOf DEF RunStarts, AtKeys
    <2>3. ASSUME files' = files \cup {q.token}, UNCHANGED <<keys, blind>>,
                 tx' = [tx EXCEPT ![x].at = @ + 1, ![x].old = Invalidated]
          PROVE  FilesOK'
      <3>1. HasFile(x)'
        BY <2>1, <2>3 DEF HasFile
      <3> QED
        BY <2>1, <2>2, <2>3, <3>1, FilesStay
    <2> QED
      BY <1>6, <1>13, <2>3 DEF RunStarts, factorVars
  <1>14. CASE TakesChallenge(x)
    <2>1. Kind(x) # "run"
      BY <1>1, <1>14, StageOf DEF TakesChallenge, AtChallenge
    <2> QED
      BY <1>6, <1>8, <1>14, <2>1 DEF TakesChallenge, Resolves
  <1>15. CASE TakesOwner(x)
    <2>1. Kind(x) # "run"
      BY <1>1, <1>15, StageOf DEF TakesOwner, AtOwner, Keyed
    <2>2. ASSUME NEW seen, NEW old,
                 tx' = [tx EXCEPT ![x].at = @ + 1, ![x].seen = seen, ![x].old = old]
          PROVE  Others /\ tx'[x].q = q
      BY <1>1, <2>2 DEF TxRow
    <2> QED
      BY <1>6, <1>7, <1>15, <2>1, <2>2 DEF TakesOwner, factorVars, fileVars
  <1>16. CASE LosesCommit(x) /\ Unlanded
    <2>1. AtCommit(x)
      BY <1>1, <1>16, StageOf DEF LosesCommit
    <2>2. UNCHANGED <<keys, files, blind>>
      BY <1>16 DEF Unlanded, factorVars, fileVars
    <2>3. CASE ~Resolving(x)
      BY <1>4, <1>5, <1>16, <2>2, <2>3 DEF LosesCommit, Answers
    <2>4. CASE Resolving(x)
      <3>1. Others /\ tx'[x].at = tx[x].at + 1 /\ tx'[x].q = q
        BY <1>3, <1>16, <2>4, <1>1 DEF LosesCommit
      <3>2. HasFile(x)'
        BY <1>1, <2>1, <2>2, <3>1 DEF HasFile, AtCommit, Keyed
      <3> QED
        BY <1>4, <2>2, <3>1, <3>2
    <2> QED
      BY <2>3, <2>4
  <1>17. CASE CommitIsLate(x)
    <2>1. Kind(x) = "run" /\ tx[x].at = 2
      BY <1>1, <1>17, StageOf DEF CommitIsLate, AtCommit, Keyed
    <2>2. Others /\ tx'[x].at = 3 /\ tx'[x].q = q
      BY <1>1, <1>17, <2>1 DEF CommitIsLate, TxRow
    <2>3. UNCHANGED <<keys, files, blind>>
      BY <1>17 DEF CommitIsLate, Unlanded, factorVars, fileVars
    <2> QED
      BY <1>1, <1>4, <2>1, <2>2, <2>3 DEF HasFile
  <1>18. CASE Verifies(x)
    BY <1>6, <1>18 DEF Verifies
  <1>19. ASSUME Kind(x) = "run", tx[x].at \in {3, 4}, NEW says, Ends(x, says)
         PROVE  Others /\ (tx'[x].at = 0 \/ (tx[x].late /\ tx'[x].at = 5 /\ tx'[x].q = q))
    <2>1. CASE tx[x].late
      BY <1>3, <1>19, <2>1, RunLast DEF Ends
    <2>2. CASE ~tx[x].late
      <3>1. Others /\ tx'[x] = Idle
        BY <1>2, <1>19, <2>2 DEF Ends, Answers
      <3> QED
        BY <3>1 DEF Idle
    <2> QED
      BY <2>1, <2>2
  <1>20. CASE RunVerifies(x)
    <2>1. Kind(x) = "run" /\ tx[x].at = 3 /\ q.token \in files /\ q.token \in Keys
      <3>1. Kind(x) = "run" /\ tx[x].at = 3
        BY <1>1, <1>20, StageOf DEF RunVerifies, AtVerify, Keyed
      <3> QED
        BY <1>1, <3>1, Kinds, Fields DEF HasFile, Keys
    <2>2. keys' = keys /\ files' = files /\ blind \subseteq blind'
      BY <1>20 DEF RunVerifies, factorVars
    <2>3. Others /\ HasFile(x)'
      <3>1. CASE \E says : Ends(x, says)
        BY <1>19, <2>1, <2>2, <3>1 DEF HasFile
      <3>2. CASE /\ ~KeepsFile(q) /\ tx' = [tx EXCEPT ![x].at = @ + 1]
                 /\ blind' = IF tx[x].late THEN blind \cup {q.token} ELSE blind
        <4>1. Others /\ tx'[x].at = 4 /\ tx'[x].q = q /\ (tx'[x].late <=> tx[x].late)
          BY <1>1, <1>3, <2>1, <3>2
        <4>2. keys[q.token] # "unused"
          BY <2>1, <3>2 DEF KeepsFile, Active
        <4> QED
          BY <2>2, <3>2, <4>1, <4>2 DEF HasFile
      <3> QED
        BY <1>20, <3>1, <3>2 DEF RunVerifies
    <2> QED
      BY <2>2, <2>3, FilesStay
  <1>21. CASE Removes(x)
    <2>1. Kind(x) = "run" /\ tx[x].at = 4
      BY <1>1, <1>21, StageOf DEF Removes, AtRemove
    <2>2. keys' = keys /\ files' = files \ {q.token} /\ blind' = blind
      BY <1>21 DEF Removes, factorVars
    <2>3. Others /\ HasFile(x)'
      BY <1>1, <1>19, <1>21, <2>1, <2>2 DEF Removes, HasFile
    <2>4. keys[q.token] # "unused" \/ q.token \in blind'
      BY <1>1, <2>1, <2>2 DEF HasFile
    <2> QED
      BY <2>1, <2>2, <2>3, <2>4, FilesStay
  <1>22. CASE Aborts(x)
    <2>1. keys' = keys /\ blind' = blind
      BY <1>22 DEF Aborts, factorVars
    <2>2. Others /\ HasFile(x)' /\ tx[x].at # 0
      <3>1. tx' = [tx EXCEPT ![x] = Idle]
        BY <1>22 DEF Aborts, Answers
      <3>2. Stage(x) # "idle" => tx[x].at # 0
        BY <1>1 DEF Stage, TxOK
      <3> QED
        BY <1>5, <1>22, <3>1, <3>2 DEF Aborts
    <2>3. CASE Kind(x) # "run"
      BY <1>4, <1>22, <2>1, <2>2, <2>3 DEF Aborts
    <2>4. CASE Kind(x) = "run"
      <3>1. tx[x].at \in {1, 2}
        <4>1. Stage(x) \in {"operation", "keys", "challenge", "owner", "commit"}
          BY <1>22 DEF Aborts
        <4> QED
          BY <1>1, <2>4, <4>1, StageOf DEF AtKeys, AtChallenge, AtOwner, AtCommit, Keyed
      <3>2. keys[q.token] = "none"
        BY <1>1, <2>4, <3>1 DEF Good, Brings
      <3>3. files' = files \ {q.token}
        BY <1>22, <2>4 DEF Aborts
      <3> QED
        BY <2>1, <2>2, <2>4, <3>2, <3>3, FilesStay
    <2> QED
      BY <2>3, <2>4
  <1> QED
    BY <1>9, <1>10, <1>11, <1>12, <1>13, <1>14, <1>15, <1>16, <1>17, <1>18, <1>20, <1>21, <1>22

\* A key that works is in its file, whatever the command line reads and
\* whenever its COMMIT is carried out, but for the run that found it inactive
\* while the server still had its COMMIT.
THEOREM FilesOutliveKeys == Spec => []FileOutlivesKey
  <1>1. Init => FilesOK
    <2> SUFFICES ASSUME Init PROVE FilesOK
      OBVIOUS
    <2>1. \A r \in Runs : keys[r] # "unused"
      BY RecoveryAssumption DEF Init, Keys
    <2> QED
      BY <2>1 DEF Init, FilesOK, FileOutlivesKey, HasFile, Kind, Idle
  <1>2. RInv /\ FilesOK /\ [Next]_vars => FilesOK'
    <2> SUFFICES ASSUME RInv, FilesOK, [Next]_vars PROVE FilesOK'
      OBVIOUS
    <2>1. CASE UNCHANGED <<tx, files, blind>> /\ \A k \in Keys : keys'[k] = keys[k] \/ keys'[k] = "expired"
      <3>1. FileOutlivesKey'
        BY <2>1 DEF FilesOK, FileOutlivesKey, Keys
      <3>2. ASSUME NEW x \in Requests PROVE HasFile(x)'
        <4>1. HasFile(x) /\ (Kind(x) = "run" /\ tx[x].at = 4 => tx[x].q.token \in Keys)
          BY Kinds, Fields DEF FilesOK, RInv, TxOK, Idle, Kind, Keys
        <4> QED
          BY <2>1, <4>1 DEF HasFile, Kind
      <3> QED
        BY <3>1, <3>2 DEF FilesOK
    <2>2. CASE UNCHANGED vars \/ Around
      <3>1. UNCHANGED <<tx, files, blind>>
        BY <2>2 DEF vars, fileVars, Around, ProvesPassword, Issue, SessionEnds, Tick, KeyExpires, ChallengeExpires
      <3>2. UNCHANGED keys \/ \E k \in Keys : KeyExpires(k)
        BY <2>2 DEF vars, factorVars, Around, ProvesPassword, Issue, SessionEnds, Tick, ChallengeExpires
      <3>3. \A k \in Keys : keys'[k] = keys[k] \/ keys'[k] = "expired"
        BY <3>2 DEF KeyExpires, RInv, FactorsOK
      <3> QED
        BY <2>1, <3>1, <3>3
    <2>3. ASSUME NEW x \in Requests, Handles(x) PROVE FilesOK'
      <3>1. CASE Commits(x) \/ (LosesCommit(x) /\ Lands(x)) \/ LateCommitLands(x)
        <4>1. UNCHANGED <<files, blind>>
          BY <3>1 DEF Commits, LateCommitLands, Lands, fileVars
        <4> QED
          BY <3>1, <4>1, CarriedOut, FilesLand
      <3>2. LosesCommit(x) => Lands(x) \/ Unlanded
        BY DEF LosesCommit
      <3> QED
        BY <2>3, <3>1, <3>2, FilesQuiet DEF Handles
    <2> QED
      BY <2>2, <2>3 DEF Next, Around
  <1>3. FilesOK => FileOutlivesKey
    BY DEF FilesOK
  <1> QED
    BY <1>1, <1>2, <1>3, RecoveryInductive, PTL DEF Spec
=============================================================================
