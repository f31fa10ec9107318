------------------------- MODULE WebAccount_proofs -------------------------
(***************************************************************************)
(* Theorems about the parts of the web client that the owner manages the   *)
(* site with: the session, the recovery pages, the settings, the content   *)
(* desk and the digital assets. Each part has its inductive invariant and  *)
(* a lemma for each of its actions; the other parts leave its variables    *)
(* alone.                                                                  *)
(***************************************************************************)
EXTENDS WebClient, WellFoundedInduction, TLAPS

-----------------------------------------------------------------------------
(* The session (SignIn) *)

\* What the variables hold: the session the server has, what the page knows, the
\* questions and the requests under way.
SignTypes ==
  LET session == v1  known == v2  probes == v3  signOut == v4  entry == v5  at == v6
      excuse == v8
  IN  /\ session \in BOOLEAN
      /\ known \in [state : {"loading", "authenticated", "anonymous", "error"}, sequence : Nat]
      /\ probes \subseteq [sequence : Nat, by : {"mount", "login", "fab", "left"},
                           answer : {"none", "yes", "no", "error"}, during : BOOLEAN]
      /\ signOut \in {"off", "sent", "ok", "gone", "failed"}
      /\ entry \in [step : {1, 2}, request : {"off", "sent", "challenge", "ok", "refused",
                                              "confirming"}]
      /\ at \in {"home", "login", "writing", "admin"}
      /\ excuse \in [out : BOOLEAN, in : BOOLEAN]

\* The page numbers its questions, and no two have the same number.
SignNumbers ==
  LET known == v2  probes == v3
  IN  /\ \A p \in probes : p.sequence <= known.sequence
      /\ \A p, q \in probes : p.sequence = q.sequence => p = q

\* Only the login page asks after a login, only the home page before writing.
SignPlaces ==
  LET probes == v3  entry == v5  at == v6
  IN  /\ entry.request # "off" => at = "login"
      /\ \A p \in probes : p.by = "login" => entry.request = "confirming"
      /\ \A p, q \in probes : p.by = "login" /\ q.by = "login" => p = q
      /\ \A p \in probes : p.by = "fab" => at = "home"

\* The answers that would sign the user in again after a logout: they are not the
\* latest, were asked during the logout, or the user knows of it.
SignLogout ==
  LET session == v1  known == v2  probes == v3  signOut == v4  excuse == v8
  IN  /\ \A p \in probes : Sign!Latest(p) /\ p.answer = "yes" /\ ~session =>
                             signOut # "off" \/ p.during \/ excuse.out
      /\ \A p \in probes : Sign!Latest(p) /\ signOut # "off" => p.during
      /\ signOut = "failed" /\ ~session /\ known.state = "authenticated" => excuse.out

\* The answers that would sign the user out after a login are not the latest.
SignLogin ==
  LET session == v1  probes == v3  entry == v5  excuse == v8
  IN  \A p \in probes : Sign!Latest(p) /\ p.answer = "no" /\ session =>
                          excuse.in \/ entry.request = "ok"

\* The inductive invariant of the session.
SignInv == SignTypes /\ SignNumbers /\ SignPlaces /\ SignLogout /\ SignLogin
           /\ Sign!LogoutLasts /\ Sign!LoginLasts

\* Probes whose request is aborted are fewer, with the numbers they had.
LEMMA AbandonedProbes ==
  ASSUME SignTypes, SignNumbers, NEW asked, asked \subseteq v3
  PROVE  /\ \A q \in Sign!Abandoned(asked) :
              /\ q \in [sequence : Nat, by : {"mount", "left"},
                        answer : {"none", "yes", "no", "error"}, during : BOOLEAN]
              /\ \E p \in asked : q.sequence = p.sequence /\ q.answer = p.answer
                                  /\ q.during = p.during
         /\ \A p \in asked : \E q \in Sign!Abandoned(asked) : q.sequence = p.sequence
         /\ \A p, q \in Sign!Abandoned(asked) : p.sequence = q.sequence => p = q
  <1> DEFINE Left(p) == [p EXCEPT !.by = IF @ = "login" THEN "mount"
                                         ELSE IF @ = "fab" THEN "left" ELSE @]
  <1>1. Sign!Abandoned(asked) = {Left(p) : p \in asked}
    BY DEF Sign!Abandoned
  <1>2. ASSUME NEW p \in asked
        PROVE  /\ Left(p) \in [sequence : Nat, by : {"mount", "left"},
                               answer : {"none", "yes", "no", "error"}, during : BOOLEAN]
               /\ Left(p).sequence = p.sequence /\ Left(p).answer = p.answer
               /\ Left(p).during = p.during
    BY DEF SignTypes
  <1>3. \A p, q \in asked : Left(p).sequence = Left(q).sequence => p = q
    BY <1>2 DEF SignNumbers
  <1> HIDE DEF Left
  <1> QED
    BY <1>1, <1>2, <1>3

\* Each action of SignIn keeps the invariant.
LEMMA SignAfterReloads == SignInv /\ Sign!Reloads => SignInv'
  <1> SUFFICES ASSUME SignInv, Sign!Reloads PROVE SignInv'
    OBVIOUS
  <1>1. /\ v2' = [state |-> "loading", sequence |-> 1]
        /\ v3' = {[sequence |-> 1, by |-> "mount", answer |-> "none", during |-> FALSE]}
        /\ v4' = "off" /\ v5' = [step |-> 1, request |-> "off"] /\ v8' = [out |-> FALSE, in |-> FALSE]
        /\ v1' \in BOOLEAN /\ v6' \in {"home", "login", "writing", "admin"}
    BY DEF Sign!Reloads, Sign!Mounted, Sign!NoEntry, Sign!NoExcuse, SignInv, SignTypes
  <1> QED
    BY <1>1
       DEF SignInv, SignTypes, SignNumbers, SignPlaces, SignLogout, SignLogin,
           Sign!LogoutLasts, Sign!LoginLasts, Sign!Latest

LEMMA SignAfterElsewhere == SignInv /\ Sign!Elsewhere => SignInv'
  BY DEF Sign!Elsewhere, SignInv, SignTypes, SignNumbers, SignPlaces, SignLogout, SignLogin,
         Sign!LogoutLasts, Sign!LoginLasts, Sign!Latest

LEMMA SignAfterServerAnswers == SignInv /\ Sign!ServerAnswers => SignInv'
  <1> SUFFICES ASSUME SignInv, Sign!ServerAnswers PROVE SignInv'
    OBVIOUS
  <1>1. PICK p \in v3, a \in {IF v1 THEN "yes" ELSE "no", "error"} :
          p.answer = "none" /\ v3' = (v3 \ {p}) \cup {[p EXCEPT !.answer = a]}
    BY DEF Sign!ServerAnswers
  <1> DEFINE q == [p EXCEPT !.answer = a]
  <1>2. /\ q \in [sequence : Nat, by : {"mount", "login", "fab", "left"},
                  answer : {"none", "yes", "no", "error"}, during : BOOLEAN]
        /\ q.sequence = p.sequence /\ q.by = p.by /\ q.during = p.during /\ q.answer = a
    BY DEF SignInv, SignTypes
  <1>3. /\ v3' = (v3 \ {p}) \cup {q} /\ UNCHANGED <<v1, v2, v4, v5, v6, v8>>
        /\ a = "yes" => v1 
        /\ a = "no" => ~v1
    BY <1>1 DEF Sign!ServerAnswers, SignInv, SignTypes
  <1> HIDE DEF q
  <1>4. SignTypes'
    BY <1>2, <1>3 DEF SignInv, SignTypes
  <1>5. SignNumbers'
    BY <1>2, <1>3 DEF SignInv, SignNumbers
  <1>6. SignPlaces'
    BY <1>2, <1>3 DEF SignInv, SignPlaces
  <1>7. SignLogout' /\ SignLogin'
    BY <1>2, <1>3 DEF SignInv, SignTypes, SignLogout, SignLogin, Sign!Latest
  <1>8. Sign!LogoutLasts' /\ Sign!LoginLasts'
    BY <1>2, <1>3 DEF SignInv, Sign!LogoutLasts, Sign!LoginLasts
  <1> QED
    BY <1>4, <1>5, <1>6, <1>7, <1>8 DEF SignInv

LEMMA SignAfterSignOutFails == SignInv /\ Sign!SignOutFails => SignInv'
  <1> SUFFICES ASSUME SignInv, Sign!SignOutFails PROVE SignInv'
    OBVIOUS
  <1>1. /\ UNCHANGED <<v1, v2, v3, v5, v6>> /\ v4' = "failed" /\ v8' = [v8 EXCEPT !.out = TRUE]
        /\ v4 # "off"
    BY DEF Sign!SignOutFails
  <1>2. v8' \in [out : BOOLEAN, in : BOOLEAN] /\ v8'.out /\ v8'.in = v8.in
    BY <1>1 DEF SignInv, SignTypes
  <1> QED
    BY <1>1, <1>2 DEF SignInv, SignTypes, SignNumbers, SignPlaces, SignLogout, SignLogin,
                      Sign!LogoutLasts, Sign!LoginLasts, Sign!Latest

LEMMA SignAfterAnswerArrives == SignInv /\ Sign!AnswerArrives => SignInv'
  <1> SUFFICES ASSUME SignInv, Sign!AnswerArrives PROVE SignInv'
    OBVIOUS
  <1> USE DEF SignInv
  <1>1. PICK p \in v3 :
          /\ p.answer # "none" /\ Sign!Continued(p)
          /\ v3' = IF v6' = v6 THEN v3 \ {p} ELSE Sign!Abandoned(v3 \ {p})
          /\ IF Sign!Latest(p)
             THEN /\ v2' = [v2 EXCEPT !.state = Sign!StateOf(p.answer)]
                  /\ v8' = [out |-> p.answer = "yes" /\ ~v1 /\ (p.during \/ v8.out),
                            in  |-> p.answer = "no" /\ v1 /\ v8.in]
             ELSE UNCHANGED <<v2, v8>>
    BY DEF Sign!AnswerArrives
  <1>2. UNCHANGED <<v1, v4>>
    BY DEF Sign!AnswerArrives
  <1>3. /\ \A q \in v3' :
             /\ q \in [sequence : Nat, by : {"mount", "login", "fab", "left"},
                       answer : {"none", "yes", "no", "error"}, during : BOOLEAN]
             /\ \E r \in v3 \ {p} : q.sequence = r.sequence /\ q.answer = r.answer
                                    /\ q.during = r.during
                                    /\ (q.by \in {"login", "fab"} => v6' = v6 /\ q.by = r.by)
        /\ \A r \in v3 \ {p} : \E q \in v3' : q.sequence = r.sequence
        /\ \A q, r \in v3' : q.sequence = r.sequence => q = r
    <2>1. CASE v6' = v6
      BY <2>1, <1>1 DEF SignTypes, SignNumbers
    <2>2. CASE v6' # v6
      <3> DEFINE rest == v3 \ {p}
      <3>1. rest \subseteq v3 /\ v3' = Sign!Abandoned(rest)
        BY <2>2, <1>1
      <3> HIDE DEF rest
      <3>2. /\ \A q \in v3' :
                 /\ q \in [sequence : Nat, by : {"mount", "left"},
                           answer : {"none", "yes", "no", "error"}, during : BOOLEAN]
                 /\ \E r \in rest : q.sequence = r.sequence /\ q.answer = r.answer
                                    /\ q.during = r.during
            /\ \A r \in rest : \E q \in v3' : q.sequence = r.sequence
            /\ \A q, r \in v3' : q.sequence = r.sequence => q = r
        BY <3>1, AbandonedProbes
      <3> QED
        BY <3>2 DEF rest
    <2> QED
      BY <2>1, <2>2
  <1>4. \A q \in v3' : q.sequence = v2.sequence => ~Sign!Latest(p)
    BY <1>3 DEF SignNumbers, Sign!Latest
  <1>5. /\ v2' \in [state : {"loading", "authenticated", "anonymous", "error"}, sequence : Nat]
        /\ v2'.sequence = v2.sequence
        /\ Sign!Latest(p) =>
             /\ p.answer = "yes" <=> v2'.state = "authenticated"
             /\ p.answer = "no" <=> v2'.state = "anonymous"
        /\ ~Sign!Latest(p) => v2' = v2 /\ v8' = v8
        /\ v8' \in [out : BOOLEAN, in : BOOLEAN]
    <2>1. v2 \in [state : {"loading", "authenticated", "anonymous", "error"}, sequence : Nat]
          /\ v1 \in BOOLEAN /\ v8 \in [out : BOOLEAN, in : BOOLEAN]
          /\ p.during \in BOOLEAN /\ p.answer \in {"yes", "no", "error"}
      BY <1>1 DEF SignTypes
    <2>2. /\ Sign!StateOf(p.answer) \in {"authenticated", "anonymous", "error"}
          /\ p.answer = "yes" <=> Sign!StateOf(p.answer) = "authenticated"
          /\ p.answer = "no" <=> Sign!StateOf(p.answer) = "anonymous"
      BY <2>1 DEF Sign!StateOf
    <2>3. CASE Sign!Latest(p)
      <3> DEFINE out == p.answer = "yes" /\ ~v1 /\ (p.during \/ v8.out)
                 in  == p.answer = "no" /\ v1 /\ v8.in
      <3>1. v8' = [out |-> out, in |-> in] /\ v2' = [v2 EXCEPT !.state = Sign!StateOf(p.answer)]
        BY <2>3, <1>1
      <3>2. out \in BOOLEAN /\ in \in BOOLEAN
        OBVIOUS
      <3> HIDE DEF out, in
      <3>3. v8' \in [out : BOOLEAN, in : BOOLEAN]
        BY <3>1, <3>2
      <3> QED
        BY <2>1, <2>2, <2>3, <3>1, <3>3
    <2>4. CASE ~Sign!Latest(p)
      BY <2>1, <2>4, <1>1
    <2> QED
      BY <2>3, <2>4
  <1>6. /\ v5' \in {v5, [step |-> 1, request |-> "off"]}
        /\ v5' # v5 => v5.request # "ok"
        /\ v6' \in {"home", "login", "writing", "admin"}
        /\ v5'.request # "off" => v6' = "login" /\ v5' = v5 /\ p.by # "login" /\ v6' = v6
    BY <1>1 DEF Sign!Continued, Sign!NoEntry, SignTypes, SignPlaces
  <1>7. SignTypes'
    BY <1>2, <1>3, <1>5, <1>6 DEF SignTypes
  <1>8. SignNumbers'
    BY <1>3, <1>5 DEF SignNumbers
  <1>9. SignPlaces'
    <2>1. ASSUME NEW q \in v3', q.by = "login" PROVE v5'.request = "confirming"
      <3>1. PICK r \in v3 \ {p} : r.by = "login" /\ v6' = v6 
        BY <1>3, <2>1
      <3>2. v5.request = "confirming" /\ v6 = "login" /\ p.by # "fab" /\ p.by # "login"
        BY <3>1 DEF SignPlaces
      <3> QED
        BY <3>1, <3>2, <1>1 DEF Sign!Continued
    <2>2. ASSUME NEW q \in v3', NEW r \in v3', q.by = "login", r.by = "login" PROVE q = r
      <3>1. PICK a \in v3, b \in v3 : /\ a.by = "login" /\ b.by = "login"
                                      /\ q.sequence = a.sequence /\ r.sequence = b.sequence
        BY <1>3, <2>2
      <3> QED
        BY <3>1, <1>3 DEF SignPlaces
    <2>3. ASSUME NEW q \in v3', q.by = "fab" PROVE v6' = "home"
      BY <1>3, <2>3 DEF SignPlaces
    <2> QED
      BY <2>1, <2>2, <2>3, <1>6 DEF SignPlaces
  <1>10. SignLogout'
    <2>1. CASE Sign!Latest(p)
      <3>1. ~\E q \in v3' : q.sequence = v2'.sequence
        BY <2>1, <1>4, <1>5
      <3>2. v4 = "failed" /\ ~v1 /\ v2'.state = "authenticated" => v8'.out
        BY <2>1, <1>1, <1>5 DEF SignLogout
      <3> QED
        BY <3>1, <3>2, <1>2 DEF SignLogout, Sign!Latest
    <2>2. CASE ~Sign!Latest(p)
      BY <2>2, <1>2, <1>3, <1>5 DEF SignLogout, Sign!Latest
    <2> QED
      BY <2>1, <2>2
  <1>11. SignLogin'
    BY <1>2, <1>3, <1>4, <1>5, <1>6 DEF SignLogin, Sign!Latest
  <1>12. Sign!LogoutLasts'
    BY <1>1, <1>2, <1>5 DEF SignLogout, Sign!LogoutLasts, Sign!Latest
  <1>13. Sign!LoginLasts'
    <2>1. CASE Sign!Latest(p)
      BY <2>1, <1>1, <1>2, <1>5, <1>6 DEF SignLogin, Sign!LoginLasts
    <2>2. CASE ~Sign!Latest(p)
      BY <2>2, <1>2, <1>3, <1>5, <1>6 DEF Sign!LoginLasts, Sign!Latest
    <2> QED
      BY <2>1, <2>2
  <1> QED
    BY <1>7, <1>8, <1>9, <1>10, <1>11, <1>12, <1>13

\* A new question has the number after all others, and is the latest.
LEMMA AskedProbes ==
  ASSUME SignInv, NEW by \in {"mount", "login", "fab", "left"}, Sign!Asks(by)
  PROVE  /\ v2' \in [state : {"loading", "authenticated", "anonymous", "error"}, sequence : Nat]
         /\ v2'.state = v2.state /\ v2'.sequence = v2.sequence + 1
         /\ \E q \in [sequence : Nat, by : {"mount", "login", "fab", "left"},
                      answer : {"none", "yes", "no", "error"}, during : BOOLEAN] :
              /\ v3' = v3 \cup {q}
              /\ q.sequence = v2.sequence + 1 /\ q.by = by /\ q.answer = "none"
              /\ q.during = (v4 # "off")
  <1> DEFINE during == v4 # "off"
             q == [sequence |-> v2.sequence + 1, by |-> by, answer |-> "none", during |-> during]
  <1>1. v2' = [v2 EXCEPT !.sequence = @ + 1] /\ v3' = v3 \cup {q}
    BY DEF Sign!Asks
  <1>2. v2 \in [state : {"loading", "authenticated", "anonymous", "error"}, sequence : Nat]
    BY DEF SignInv, SignTypes
  <1>3. during \in BOOLEAN /\ during = (v4 # "off")
    OBVIOUS
  <1> HIDE DEF during
  <1>4. /\ q \in [sequence : Nat, by : {"mount", "login", "fab", "left"},
                  answer : {"none", "yes", "no", "error"}, during : BOOLEAN]
        /\ q.sequence = v2.sequence + 1 /\ q.by = by /\ q.answer = "none" /\ q.during = during
    BY <1>2, <1>3
  <1> HIDE DEF q
  <1> QED
    BY <1>1, <1>2, <1>3, <1>4

LEMMA SignAfterSignsOut == SignInv /\ Sign!SignsOut => SignInv'
  <1> SUFFICES ASSUME SignInv, Sign!SignsOut PROVE SignInv'
    OBVIOUS
  <1>1. /\ v2' = [v2 EXCEPT !.sequence = @ + 1] /\ v4' = "sent" /\ v2.state = "authenticated"
        /\ UNCHANGED <<v1, v3, v5, v6, v8>>
    BY DEF Sign!SignsOut, Sign!ForgetsAnswers
  <1>2. /\ v2' \in [state : {"loading", "authenticated", "anonymous", "error"}, sequence : Nat]
        /\ v2'.state = v2.state /\ v2'.sequence = v2.sequence + 1
        /\ \A p \in v3 : p.sequence < v2'.sequence
    BY <1>1 DEF SignInv, SignTypes, SignNumbers
  <1> QED
    BY <1>1, <1>2 DEF SignInv, SignTypes, SignNumbers, SignPlaces, SignLogout, SignLogin,
                      Sign!LogoutLasts, Sign!LoginLasts, Sign!Latest

LEMMA SignAfterSignOutServed == SignInv /\ Sign!SignOutServed => SignInv'
  BY DEF Sign!SignOutServed, SignInv, SignTypes, SignNumbers, SignPlaces, SignLogout,
         SignLogin, Sign!LogoutLasts, Sign!LoginLasts, Sign!Latest

LEMMA SignAfterSignedOut == SignInv /\ Sign!SignedOut => SignInv'
  <1> SUFFICES ASSUME SignInv, Sign!SignedOut PROVE SignInv'
    OBVIOUS
  <1> USE DEF SignInv
  <1>1. CASE v4 = "failed"
    <2>1. UNCHANGED <<v1, v2, v3, v5, v6, v8>> /\ v4' = "off"
      BY <1>1 DEF Sign!SignedOut
    <2> QED
      BY <1>1, <2>1 DEF SignTypes, SignNumbers, SignPlaces, SignLogout, SignLogin,
                        Sign!LogoutLasts, Sign!LoginLasts, Sign!Latest
  <1>2. CASE v4 # "failed"
    <2>1. /\ v2' = [v2 EXCEPT !.state = "anonymous"] /\ v6' = "home"
          /\ v5' = [step |-> 1, request |-> "off"] /\ v3' = Sign!Abandoned(v3)
          /\ v8' = [out |-> FALSE, in |-> v1] /\ v1' = v1 /\ v4' = "off" /\ v4 # "off"
      BY <1>2 DEF Sign!SignedOut, Sign!NoEntry
    <2>2. /\ v2' \in [state : {"loading", "authenticated", "anonymous", "error"}, sequence : Nat]
          /\ v2'.state = "anonymous" /\ v2'.sequence = v2.sequence
      BY <2>1 DEF SignTypes
    <2>3. /\ SignTypes' /\ SignNumbers' /\ SignPlaces'
      BY <2>1, <2>2, AbandonedProbes DEF SignTypes, SignNumbers, SignPlaces
    <2>4. SignLogout' /\ SignLogin'
      BY <2>1, <2>2, AbandonedProbes DEF SignTypes, SignLogout, SignLogin, Sign!Latest
    <2>5. Sign!LogoutLasts' /\ Sign!LoginLasts'
      BY <2>1, <2>2 DEF Sign!LogoutLasts, Sign!LoginLasts
    <2> QED
      BY <2>3, <2>4, <2>5
  <1> QED
    BY <1>1, <1>2

LEMMA SignAfterOpens == SignInv /\ Sign!Opens => SignInv'
  <1> SUFFICES ASSUME SignInv, Sign!Opens PROVE SignInv'
    OBVIOUS
  <1> USE DEF SignInv
  <1>1. /\ v6' \in {"home", "login"} /\ v5' = [step |-> 1, request |-> "off"]
        /\ v1' = v1 \/ (v5.request = "sent" /\ v1' = TRUE)
        /\ v8' = [v8 EXCEPT !.in = @ \/ v5.request \in {"sent", "ok"}]
        /\ v3' = Sign!Abandoned(v3) /\ UNCHANGED <<v2, v4>>
    BY DEF Sign!Opens, Sign!NoEntry
  <1>2. /\ v8' \in [out : BOOLEAN, in : BOOLEAN] /\ v8'.out = v8.out
        /\ v8'.in <=> v8.in \/ v5.request \in {"sent", "ok"}
    BY <1>1 DEF SignTypes
  <1>3. SignTypes'
    <2>1. v3' \subseteq [sequence : Nat, by : {"mount", "login", "fab", "left"},
                         answer : {"none", "yes", "no", "error"}, during : BOOLEAN]
      BY <1>1, AbandonedProbes
    <2> QED
      BY <1>1, <1>2, <2>1 DEF SignTypes
  <1>6. SignNumbers' /\ SignPlaces'
    BY <1>1, AbandonedProbes DEF SignNumbers, SignPlaces
  <1>4. SignLogout' /\ SignLogin'
    BY <1>1, <1>2, AbandonedProbes DEF SignTypes, SignLogout, SignLogin, Sign!Latest
  <1>5. Sign!LogoutLasts' /\ Sign!LoginLasts'
    BY <1>1, <1>2, AbandonedProbes DEF SignTypes, Sign!LogoutLasts, Sign!LoginLasts
  <1> QED
    BY <1>3, <1>6, <1>4, <1>5

LEMMA SignAfterSubmit == SignInv /\ Sign!Submit => SignInv'
  BY DEF Sign!Submit, SignInv, SignTypes, SignNumbers, SignPlaces, SignLogout, SignLogin,
         Sign!LogoutLasts, Sign!LoginLasts, Sign!Latest

LEMMA SignAfterLoginServed == SignInv /\ Sign!LoginServed => SignInv'
  <1> SUFFICES ASSUME SignInv, Sign!LoginServed PROVE SignInv'
    OBVIOUS
  <1> USE DEF SignInv
  <1>1. /\ v5.request = "sent" /\ UNCHANGED <<v2, v3, v4, v6, v8>>
        /\ \/ v5' = [v5 EXCEPT !.request = "challenge"] /\ v1' = v1
           \/ v5' = [v5 EXCEPT !.request = "ok"] /\ v1' \in {v1, TRUE}
           \/ v5' = [v5 EXCEPT !.request = "refused"] /\ v1' = v1
    BY DEF Sign!LoginServed
  <1>2. /\ v5' \in [step : {1, 2}, request : {"challenge", "ok", "refused"}]
        /\ v1' = v1 \/ (v5'.request = "ok" /\ v1' = TRUE)
    BY <1>1 DEF SignTypes
  <1> QED
    <2>1. SignTypes' /\ SignNumbers' /\ SignPlaces'
      BY <1>1, <1>2 DEF SignTypes, SignNumbers, SignPlaces
    <2>2. SignLogout' /\ SignLogin'
      BY <1>1, <1>2 DEF SignTypes, SignLogout, SignLogin, Sign!Latest
    <2>3. Sign!LogoutLasts' /\ Sign!LoginLasts'
      BY <1>1, <1>2 DEF Sign!LogoutLasts, Sign!LoginLasts
    <2> QED
      BY <2>1, <2>2, <2>3

LEMMA SignAfterLoginAnswered == SignInv /\ Sign!LoginAnswered => SignInv'
  <1> SUFFICES ASSUME SignInv, Sign!LoginAnswered PROVE SignInv'
    OBVIOUS
  <1> USE DEF SignInv
  <1>1. UNCHANGED <<v1, v4, v6, v8>>
    BY DEF Sign!LoginAnswered
  <1>2. CASE v5.request \in {"challenge", "refused"} /\ UNCHANGED <<v2, v3>>
             /\ v5' \in {[step |-> 2, request |-> "off"], [step |-> 1, request |-> "off"],
                         [v5 EXCEPT !.request = "off"]}
    <2>1. v5' \in [step : {1, 2}, request : {"off"}]
      BY <1>2 DEF SignTypes
    <2> QED
      BY <1>1, <1>2, <2>1 DEF SignTypes, SignNumbers, SignPlaces, SignLogout, SignLogin,
                              Sign!LogoutLasts, Sign!LoginLasts, Sign!Latest
  <1>3. CASE /\ v5.request = "ok" /\ Sign!Asks("login")
             /\ v5' = [v5 EXCEPT !.request = "confirming"]
    <2>1. v5' \in [step : {1, 2}, request : {"confirming"}]
      BY <1>3 DEF SignTypes
    <2> QED
      BY <1>1, <1>3, <2>1, AskedProbes
         DEF SignTypes, SignNumbers, SignPlaces, SignLogout, SignLogin,
             Sign!LogoutLasts, Sign!LoginLasts, Sign!Latest
  <1> QED
    BY <1>2, <1>3 DEF Sign!LoginAnswered, Sign!NoEntry

LEMMA SignAfterOpensWriting == SignInv /\ Sign!OpensWriting => SignInv'
  <1> SUFFICES ASSUME SignInv, Sign!OpensWriting PROVE SignInv'
    OBVIOUS
  <1>1. v6 = "home" /\ Sign!Asks("fab") /\ UNCHANGED <<v1, v4, v5, v6, v8>>
    BY DEF Sign!OpensWriting
  <1> QED
    BY <1>1, AskedProbes
       DEF SignInv, SignTypes, SignNumbers, SignPlaces, SignLogout, SignLogin,
           Sign!LogoutLasts, Sign!LoginLasts, Sign!Latest

SignPart == part = "session" => SignInv

\* The session begins so, and every step of the web client keeps it so.
LEMMA SignInitial == WebInit => SignPart
  <1> SUFFICES ASSUME WebInit, part = "session" PROVE SignInv
    BY DEF SignPart
  <1>1. Sign!SignInit
    BY DEF WebInit
  <1> QED
    <2>1. /\ v2 = [state |-> "loading", sequence |-> 1]
          /\ v3 = {[sequence |-> 1, by |-> "mount", answer |-> "none", during |-> FALSE]}
          /\ v4 = "off" /\ v5 = [step |-> 1, request |-> "off"] /\ v8 = [out |-> FALSE, in |-> FALSE]
          /\ v1 \in BOOLEAN /\ v6 \in {"home", "login"}
      BY <1>1 DEF Sign!SignInit, Sign!Mounted, Sign!NoEntry, Sign!NoExcuse
    <2>2. SignTypes
      BY <2>1 DEF SignTypes
    <2>3. \A p \in v3 : p.sequence = v2.sequence /\ p.by = "mount" /\ p.answer = "none"
      BY <2>1
    <2>4. SignNumbers
      BY <2>1 DEF SignNumbers
    <2>5. SignPlaces /\ SignLogout /\ SignLogin /\ Sign!LogoutLasts /\ Sign!LoginLasts
      BY <2>1, <2>3 DEF SignPlaces, SignLogout, SignLogin, Sign!LogoutLasts, Sign!LoginLasts
    <2> QED
      BY <2>2, <2>4, <2>5 DEF SignInv

LEMMA SignStep == SignPart /\ [WebNext]_web => SignPart'
  <1> SUFFICES ASSUME SignPart, [WebNext]_web, part' = "session" PROVE SignInv'
    BY DEF SignPart
  <1>1. CASE UNCHANGED web
    <2>1. SignInv /\ UNCHANGED <<v1, v2, v3, v4, v5, v6, v8>>
      BY <1>1 DEF web, SignPart
    <2>2. SignTypes' /\ SignNumbers'
      BY <2>1 DEF SignInv, SignTypes, SignNumbers
    <2>5. SignPlaces'
      BY <2>1 DEF SignInv, SignPlaces
    <2>3. SignLogout' /\ SignLogin'
      BY <2>1 DEF SignInv, SignLogout, SignLogin, Sign!Latest
    <2>4. Sign!LogoutLasts' /\ Sign!LoginLasts'
      BY <2>1 DEF SignInv, Sign!LogoutLasts, Sign!LoginLasts
    <2> QED
      BY <2>2, <2>3, <2>4, <2>5 DEF SignInv
  <1>2. CASE WebNext
    <2>1. part = "session" /\ Sign!SignNext
      BY <1>2 DEF WebNext, Rest13, Rest11, Rest10, Rest9, Rest6
    <2>2. SignInv
      BY <2>1 DEF SignPart
    <2> QED
      BY <2>1, <2>2, SignAfterReloads, SignAfterElsewhere, SignAfterServerAnswers,
         SignAfterAnswerArrives, SignAfterSignsOut, SignAfterSignOutServed,
         SignAfterSignOutFails, SignAfterSignedOut, SignAfterOpens, SignAfterSubmit,
         SignAfterLoginServed, SignAfterLoginAnswered, SignAfterOpensWriting
         DEF Sign!SignNext
  <1> QED
    BY <1>1, <1>2

\* Neither a login nor a logout is undone by the answer to an older question, however
\* many questions are under way, in whichever order their answers arrive.
THEOREM SignPromise == WebSpec => []SessionIsBelieved
  <1>1. SignPart => SessionIsBelieved
    BY DEF SignPart, SessionIsBelieved, SignInv
  <1> QED
    BY <1>1, SignInitial, SignStep, PTL DEF WebSpec

-----------------------------------------------------------------------------
(* The recovery pages (RecoveryPages) *)

\* The values of the recovery pages: keys, passwords, requests, the account, the owner.
KeysOf == Tokens \cup {None}

AnyPassword == Passwords \cup {Off}

AnyRequest == [kind : {"none", "start", "recover", "reset", "rotate", "change"},
            token : Tokens \cup {Off}, key : KeysOf \cup {Off}, challenge : Nat, code : Nat,
            password : AnyPassword]

AnyAccount == [key : KeysOf, secret : KeysOf, password : AnyPassword, code : Nat, session : BOOLEAN,
            issued : Nat, closed : SUBSET Nat, done : SUBSET AnyRequest]

AnyOwner == [kept : SUBSET KeysOf, secret : KeysOf, gaveUp : SUBSET (Tokens \cup {Off}),
          used : SUBSET Tokens, submitted : AnyPassword, code : Nat, acts : Nat]

\* What the variables hold.
RecoveryTypes ==
  LET account == v1  screen == v2  form == v3  attempts == v4  shown == v5  rotation == v6
      call == v7  strays == v8  owner == v9
  IN  /\ account \in AnyAccount
      /\ screen \in {"key", "totp", "result", "reset", "login", "settings"}
      /\ form \in [key : KeysOf \cup {Off}, password : AnyPassword, code : Nat, challenge : Nat]
      /\ attempts \in [key : AnyRequest, totp : AnyRequest]
      /\ shown \in Tokens \cup {Off}
      /\ rotation \in [token : Tokens \cup {Off}, saved : BOOLEAN]
      /\ call \in [q : AnyRequest, try : Nat, answer : Recovery!Answers \cup {"none"}]
      /\ strays \in SUBSET AnyRequest
      /\ owner \in AnyOwner

\* every request there is or was
Sent == v8 \cup {v7.q, v4.key, v4.totp} \cup v1.done

\* each page has its own requests and attempts
PagesHold ==
  LET account == v1  screen == v2  form == v3  attempts == v4  shown == v5  call == v7
      owner == v9
  IN  /\ call.q.kind = "recover" => /\ screen = "key" /\ attempts.key = call.q
                                    /\ call.answer # "conflict"
      /\ call.q.kind = "reset" => screen = "totp" /\ attempts.totp = call.q
      /\ call.q.kind = "start" => screen = "totp"
      /\ call.q.kind \in {"rotate", "change"} => screen = "settings"
      /\ call.q.kind \in {"recover", "reset"} /\ call.answer = "ok" => call.q \in account.done
      /\ \/ attempts.key = Recovery!Blank
         \/ /\ attempts.key.kind = "recover" /\ screen \in {"key", "result"}
            /\ attempts.key.token \notin owner.kept \cup owner.gaveUp
            /\ owner.submitted = attempts.key.password
      /\ \/ attempts.totp = Recovery!Blank
         \/ /\ attempts.totp.kind = "reset" /\ screen \in {"totp", "reset"}
            /\ owner.submitted = attempts.totp.password
      /\ IF screen = "result"
         THEN /\ attempts.key # Recovery!Blank /\ attempts.key \in account.done
              /\ shown = attempts.key.token
         ELSE shown = Off
      /\ screen = "reset" => attempts.totp # Recovery!Blank /\ attempts.totp \in account.done
      /\ screen \in {"login", "settings"} => form.code = 0

\* the panel's key is nobody's recovery
PanelHolds ==
  LET screen == v2  rotation == v6  owner == v9
  IN  \/ rotation = Recovery!NoRotation
      \/ /\ screen = "settings" /\ rotation.token \in owner.used \ owner.gaveUp
         /\ rotation.saved => rotation.token \in owner.kept
         /\ \A q \in Sent : q.kind = "recover" => q.token # rotation.token

\* a token is of one recovery, which was served before its key was kept
TokensHold ==
  LET account == v1  form == v3  attempts == v4  owner == v9
  IN  /\ \A q \in Sent : q.token \in owner.used \cup {Off}
      /\ \A q \in Sent : q.kind = "recover" =>
           /\ q.token # Off /\ q.key \in owner.kept
           /\ q.token \in owner.kept \cup owner.gaveUp \cup {attempts.key.token}
           /\ q.token \in owner.kept => q \in account.done
           /\ \A o \in Sent : o.token = q.token => o = q
      /\ \A q \in Sent : q.kind = "reset" => q.token # Off /\ q.key \in owner.kept
      /\ \A q \in Sent : q.kind = "rotate" => q.token \in owner.kept
      /\ owner.kept \subseteq owner.used \cup {None} /\ owner.gaveUp \subseteq owner.used \cup {Off}
      /\ owner.kept \cap owner.gaveUp = {} /\ owner.secret \in owner.kept
      /\ form.key \in owner.kept \cup {Off}

\* codes are read in the order of their time steps
CodesHold ==
  LET form == v3  attempts == v4  owner == v9
  IN  /\ form.code \in {0, owner.code}
      /\ \A q \in Sent : q.kind = "reset" =>
           /\ q.code <= owner.code
           /\ attempts.totp.kind = "reset" => q.code <= attempts.totp.code

\* after a recovery the account cannot change until its key is kept
KeysHold(account) ==
  LET attempts == v4  owner == v9
  IN  /\ account.key \in owner.kept \cup owner.gaveUp \cup {attempts.key.token}
      /\ \A q \in account.done : q.kind = "recover" /\ q.token \notin owner.kept =>
           /\ account.key = q.token /\ account.secret = q.token /\ account.password = q.password
           /\ account.session = FALSE

\* After a reset the account stays as the page says, until its code is read again.
ResetHolds(account) ==
  LET attempts == v4  owner == v9
  IN  attempts.totp.kind = "reset" /\ attempts.totp \in account.done =>
        /\ account.session = FALSE
        /\ \/ account.key \in owner.gaveUp
           \/ account.password = attempts.totp.password /\ account.code >= attempts.totp.code

\* The inductive invariant of the recovery pages.
RecoveryInv ==
  /\ RecoveryTypes /\ PagesHold /\ PanelHolds /\ TokensHold /\ CodesHold
  /\ KeysHold(v1) /\ ResetHolds(v1)

RecoveryPart == part = "recovery" => RecoveryInv

\* The blank request and the empty pages, as the lemmas below use them.
LEMMA BlankIs ==
  /\ Recovery!Blank \in AnyRequest /\ Recovery!Blank.kind = "none" /\ Recovery!Blank.token = Off
  /\ Recovery!NoCall.q = Recovery!Blank /\ Recovery!NoCall.try = 0 /\ Recovery!NoCall.answer = "none"
  /\ Recovery!NoTries.key = Recovery!Blank /\ Recovery!NoTries.totp = Recovery!Blank
  /\ Recovery!NoForm.key = Off /\ Recovery!NoForm.code = 0
  BY DEF Recovery!Blank, Recovery!NoCall, Recovery!NoTries, Recovery!NoForm, AnyRequest,
         AnyPassword

LEMMA EmptyIsTyped ==
  /\ Recovery!NoCall \in [q : AnyRequest, try : Nat, answer : Recovery!Answers \cup {"none"}]
  /\ Recovery!NoTries \in [key : AnyRequest, totp : AnyRequest]
  /\ Recovery!NoForm \in [key : KeysOf \cup {Off}, password : AnyPassword, code : Nat, challenge : Nat]
  /\ Recovery!NoRotation \in [token : Tokens \cup {Off}, saved : BOOLEAN]
  /\ Recovery!NoRotation.token = Off
  BY BlankIs
     DEF Recovery!NoCall, Recovery!NoTries, Recovery!NoForm, Recovery!NoRotation, AnyPassword

\* What the server changes when it serves a request.
LEMMA ServingChanges ==
  ASSUME RecoveryInv, NEW q \in v8 \cup {v7.q}, NEW a, Recovery!Serves(q, a)
  PROVE  /\ v1' \in AnyAccount
         /\ v1'.done = v1.done \/ v1'.done = v1.done \cup {q}
         /\ q = v7.q /\ q.kind = "recover" => a # "conflict"
         /\ q.kind \in {"recover", "reset"} /\ a = "ok" => q \in v1'.done
         /\ KeysHold(v1') /\ ResetHolds(v1')
  <1> USE DEF RecoveryInv
  <1>1. q \in Sent /\ q \in AnyRequest /\ v1.done \subseteq Sent
    BY DEF Sent, RecoveryTypes
  <1>2. UNCHANGED v1 => KeysHold(v1') /\ ResetHolds(v1') /\ v1' \in AnyAccount
    BY DEF KeysHold, ResetHolds, RecoveryTypes
  <1>3. CASE a \in {"refused", "broken"} /\ UNCHANGED v1
    BY <1>2, <1>3
  <1>4. CASE Recovery!Repeats(q) /\ a = "ok" /\ UNCHANGED v1
    BY <1>2, <1>4 DEF Recovery!Repeats, Recovery!Logged
  <1>5. CASE Recovery!TokenUsed(q) /\ ~Recovery!Repeats(q) /\ a = "conflict" /\ UNCHANGED v1
    <2>1. ASSUME q = v7.q, q.kind = "recover" PROVE FALSE
      <3>1. q \in v1.done
        BY <1>1, <1>5, <2>1 DEF Recovery!TokenUsed, TokensHold
      <3>2. v4.key = q /\ q.token \notin v9.kept
        BY <2>1, BlankIs DEF PagesHold
      <3>3. v1.key = q.token
        BY <2>1, <3>1, <3>2 DEF KeysHold
      <3> QED
        BY <1>5, <3>1, <3>3 DEF Recovery!Repeats, Recovery!Logged
    <2> QED
      BY <1>2, <1>5, <2>1
  <1>6. CASE ~Recovery!TokenUsed(q) /\ Recovery!Grants(q) /\ a \in {"ok", "broken"}
             /\ v1' = Recovery!After(q)
    <2>1. q \notin v1.done
      BY <1>6 DEF Recovery!TokenUsed
    <2>2. q.kind # "none" /\ q.kind \in {"start", "recover", "reset", "rotate", "change"}
      BY <1>1, <1>6 DEF Recovery!Grants, AnyRequest
    <2>3. v1 \in AnyAccount /\ v9 \in AnyOwner /\ v4 \in [key : AnyRequest, totp : AnyRequest]
      BY DEF RecoveryTypes
    <2>4. CASE q.kind = "start"
      <3>1. v1' = [v1 EXCEPT !.issued = @ + 1]
        BY <1>6, <2>4 DEF Recovery!After
      <3>2. v1' \in AnyAccount
        BY <2>3, <3>1 DEF AnyAccount
      <3> QED
        BY <2>3, <2>4, <3>1, <3>2 DEF KeysHold, ResetHolds, AnyAccount
    <2>5. CASE q.kind = "recover"
      <3>1. v1' = [v1 EXCEPT !.key = q.token, !.secret = q.token, !.code = 0,
                             !.password = q.password, !.session = FALSE, !.done = @ \cup {q}]
        BY <1>6, <2>5 DEF Recovery!After
      <3>2. v1.key = q.key /\ q.key \in v9.kept
        BY <1>1, <1>6, <2>5 DEF Recovery!Grants, TokensHold
      <3>3. q.token \in Tokens /\ q.token \notin v9.kept
            /\ q.token \in v9.gaveUp \cup {v4.key.token}
        BY <1>1, <2>1, <2>5 DEF TokensHold, AnyRequest
      <3>4. v1' \in AnyAccount
        BY <1>1, <2>3, <3>1, <3>3 DEF AnyAccount, AnyRequest, KeysOf
      <3>5. v1'.key = q.token /\ v1'.secret = q.token /\ v1'.password = q.password
            /\ v1'.session = FALSE /\ v1'.done = v1.done \cup {q}
        BY <2>3, <3>1 DEF AnyAccount
      <3>6. \A o \in v1.done : o.kind = "recover" => o.token \in v9.kept
        BY <3>2 DEF KeysHold
      <3>7. KeysHold(v1')
        BY <3>3, <3>5, <3>6 DEF KeysHold
      <3>8. ResetHolds(v1')
        <4> SUFFICES ASSUME v4.totp.kind = "reset" PROVE q.token \in v9.gaveUp
          BY <3>5 DEF ResetHolds
        <4>1. v4.key = Recovery!Blank
          BY BlankIs DEF PagesHold
        <4> QED
          BY <3>3, <4>1, BlankIs, TokensAssumption
      <3> HIDE DEF RecoveryInv
      <3> QED
        BY <1>6, <2>5, <3>4, <3>5, <3>7, <3>8
    <2>6. CASE q.kind = "reset"
      <3>1. v1' = [v1 EXCEPT !.password = q.password, !.code = q.code,
                             !.closed = @ \cup {q.challenge}, !.session = FALSE, !.done = @ \cup {q}]
        BY <1>6, <2>6 DEF Recovery!After
      <3>2. v1.secret = q.key /\ q.key \in v9.kept /\ q.code > v1.code
        BY <1>1, <1>6, <2>6 DEF Recovery!Grants, Recovery!CodeCounts, TokensHold
      <3>3. v1' \in AnyAccount
        BY <1>1, <2>3, <3>1 DEF AnyAccount, AnyRequest
      <3>4. v1'.key = v1.key /\ v1'.password = q.password /\ v1'.code = q.code
            /\ v1'.session = FALSE /\ v1'.done = v1.done \cup {q}
        BY <2>3, <3>1 DEF AnyAccount
      <3>5. \A o \in v1.done : o.kind = "recover" => o.token \in v9.kept
        BY <3>2 DEF KeysHold
      <3>6. KeysHold(v1')
        BY <2>6, <3>4, <3>5 DEF KeysHold
      <3>7. ResetHolds(v1')
        <4> SUFFICES ASSUME v4.totp.kind = "reset", v4.totp \in v1.done \cup {q}
                     PROVE  \/ v1.key \in v9.gaveUp
                            \/ q.password = v4.totp.password /\ q.code >= v4.totp.code
          BY <3>4 DEF ResetHolds
        <4>1. q.code \in Nat /\ v1.code \in Nat /\ v4.totp.code \in Nat
          BY <1>1, <2>3 DEF AnyAccount, AnyRequest
        <4>2. CASE v4.totp = q
          BY <4>1, <4>2
        <4>3. CASE v4.totp \in v1.done
          <5>1. q.code <= v4.totp.code
            BY <1>1, <2>6 DEF CodesHold
          <5> QED
            BY <3>2, <4>1, <4>3, <5>1 DEF ResetHolds
        <4> QED
          BY <4>2, <4>3
      <3> HIDE DEF RecoveryInv
      <3> QED
        BY <1>6, <2>6, <3>3, <3>4, <3>6, <3>7
    <2>7. CASE q.kind \in {"rotate", "change"}
      <3>1. v1.session /\ v1.session \in BOOLEAN
        BY <1>6, <2>3, <2>7 DEF Recovery!Grants, AnyAccount
      <3>2. \A o \in v1.done : o.kind = "recover" => o.token \in v9.kept
        BY <3>1 DEF KeysHold
      <3>3. ~(v4.totp.kind = "reset" /\ v4.totp \in v1.done)
        BY <3>1 DEF ResetHolds
      <3>4. CASE q.kind = "rotate"
        <4>1. v1' = [v1 EXCEPT !.key = q.token, !.code = q.code, !.done = @ \cup {q}]
          BY <1>6, <3>4 DEF Recovery!After
        <4>2. q.token \in v9.kept
          BY <1>1, <3>4 DEF TokensHold
        <4>3. v1' \in AnyAccount
          BY <1>1, <2>3, <4>1, <4>2 DEF AnyAccount, AnyOwner, AnyRequest
        <4>4. v1'.key = q.token /\ v1'.done = v1.done \cup {q}
          BY <2>3, <4>1 DEF AnyAccount
        <4>5. KeysHold(v1')
          BY <3>2, <3>4, <4>2, <4>4 DEF KeysHold
        <4>6. ResetHolds(v1')
          BY <3>3, <3>4, <4>4 DEF ResetHolds
        <4> HIDE DEF RecoveryInv
        <4> QED
          BY <1>6, <3>4, <4>3, <4>4, <4>5, <4>6
      <3>5. CASE q.kind = "change"
        <4>1. v1' = [v1 EXCEPT !.password = q.password, !.code = q.code, !.session = FALSE]
          BY <1>6, <3>5 DEF Recovery!After
        <4>3. v1' \in AnyAccount
          BY <1>1, <2>3, <4>1 DEF AnyAccount, AnyRequest
        <4>4. v1'.key = v1.key /\ v1'.done = v1.done
          BY <2>3, <4>1 DEF AnyAccount
        <4>5. KeysHold(v1')
          BY <3>2, <4>4 DEF KeysHold
        <4>6. ResetHolds(v1')
          BY <3>3, <4>4 DEF ResetHolds
        <4> HIDE DEF RecoveryInv
        <4> QED
          BY <1>6, <3>5, <4>3, <4>4, <4>5, <4>6
      <3> QED
        BY <2>7, <3>4, <3>5
    <2> QED
      BY <2>2, <2>4, <2>5, <2>6, <2>7
  <1> QED
    BY <1>3, <1>4, <1>5, <1>6 DEF Recovery!Serves

\* A request that is served, for the page or for nobody, keeps the invariant.
LEMMA ServingKeeps ==
  ASSUME RecoveryInv, NEW q \in v8 \cup {v7.q}, NEW a \in Recovery!Answers, Recovery!Serves(q, a),
         UNCHANGED <<v2, v3, v4, v5, v6, v9>>, v8' \subseteq v8,
         v7' = v7 \/ (q = v7.q /\ v7' = [v7 EXCEPT !.answer = a])
  PROVE  RecoveryInv'
  <1> USE DEF RecoveryInv
  <1>1. /\ v1' \in AnyAccount
        /\ v1'.done = v1.done \/ v1'.done = v1.done \cup {q}
        /\ q = v7.q /\ q.kind = "recover" => a # "conflict"
        /\ q.kind \in {"recover", "reset"} /\ a = "ok" => q \in v1'.done
        /\ KeysHold(v1') /\ ResetHolds(v1')
    BY ServingChanges
  <1>2. v7'.q = v7.q /\ (v7'.answer = v7.answer \/ (q = v7.q /\ v7'.answer = a))
        /\ v7' \in [q : AnyRequest, try : Nat, answer : Recovery!Answers \cup {"none"}]
    BY DEF RecoveryTypes
  <1>3. Sent' \subseteq Sent /\ v1.done \subseteq v1'.done
    BY <1>1, <1>2 DEF Sent
  <1>4. RecoveryTypes'
    BY <1>1, <1>2 DEF RecoveryTypes
  <1>5. PagesHold'
    BY <1>1, <1>2, <1>3 DEF PagesHold
  <1>6. PanelHolds'
    BY <1>3 DEF PanelHolds
  <1>7. TokensHold'
    BY <1>3 DEF TokensHold
  <1>8. CodesHold'
    BY <1>3 DEF CodesHold
  <1>9. KeysHold(v1)' /\ ResetHolds(v1)'
    BY <1>1 DEF KeysHold, ResetHolds
  <1> QED
    BY <1>4, <1>5, <1>6, <1>7, <1>8, <1>9

\* Each action of RecoveryPages keeps the invariant.
LEMMA RecoveryAfterServed == ASSUME RecoveryInv, Recovery!Served PROVE RecoveryInv'
  BY ServingKeeps DEF Recovery!Served

LEMMA RecoveryAfterStrayServed == ASSUME RecoveryInv, Recovery!StrayServed PROVE RecoveryInv'
  BY ServingKeeps DEF Recovery!StrayServed

\* what is done with the call
LEMMA CallKeeps ==
  ASSUME RecoveryInv, UNCHANGED <<v1, v2, v3, v4, v5, v6, v9>>, v8' \subseteq v8 \cup {v7.q},
         v7'.q \in {v7.q, Recovery!Blank}, v7'.answer \in {"none", "broken"},
         v7' \in [q : AnyRequest, try : Nat, answer : Recovery!Answers \cup {"none"}]
  PROVE  RecoveryInv'
  <1> USE DEF RecoveryInv
  <1>1. Sent' \subseteq Sent \cup {Recovery!Blank}
    BY DEF Sent
  <1>2. RecoveryTypes'
    BY DEF RecoveryTypes
  <1>3. PagesHold'
    BY BlankIs DEF PagesHold
  <1>4. PanelHolds'
    BY <1>1, BlankIs DEF PanelHolds
  <1>5. TokensHold'
    BY <1>1, BlankIs DEF TokensHold
  <1>6. CodesHold'
    BY <1>1, BlankIs DEF CodesHold
  <1>7. KeysHold(v1)' /\ ResetHolds(v1)'
    BY DEF KeysHold, ResetHolds
  <1> QED
    BY <1>2, <1>3, <1>4, <1>5, <1>6, <1>7

LEMMA RecoveryAfterConnectionFails == ASSUME RecoveryInv, Recovery!ConnectionFails PROVE RecoveryInv'
  <1>1. v7' = [v7 EXCEPT !.answer = "broken"] /\ v8' \subseteq v8 \cup {v7.q}
    BY DEF Recovery!ConnectionFails, Recovery!Strays
  <1>2. v7'.q = v7.q /\ v7'.answer = "broken"
        /\ v7' \in [q : AnyRequest, try : Nat, answer : Recovery!Answers \cup {"none"}]
    BY <1>1 DEF RecoveryInv, RecoveryTypes, Recovery!Answers
  <1> QED
    BY <1>1, <1>2, CallKeeps DEF Recovery!ConnectionFails

LEMMA RecoveryAfterResends == ASSUME RecoveryInv, Recovery!Resends PROVE RecoveryInv'
  <1>1. v7' = [v7 EXCEPT !.try = 2, !.answer = "none"] /\ v8' = v8
    BY DEF Recovery!Resends
  <1>2. v7'.q = v7.q /\ v7'.answer = "none"
        /\ v7' \in [q : AnyRequest, try : Nat, answer : Recovery!Answers \cup {"none"}]
    BY <1>1 DEF RecoveryInv, RecoveryTypes
  <1> QED
    BY <1>1, <1>2, CallKeeps DEF Recovery!Resends

LEMMA RecoveryAfterRotateAnswered == ASSUME RecoveryInv, Recovery!RotateAnswered PROVE RecoveryInv'
  BY CallKeeps, BlankIs, EmptyIsTyped DEF Recovery!RotateAnswered, Recovery!Answered

\* With fewer requests and emptier forms what was said of them stays true.
LEMMA SentShrinks ==
  ASSUME TokensHold, CodesHold, PanelHolds, Sent' \subseteq Sent \cup {Recovery!Blank}, v9' = v9,
         v3'.key \in {v3.key, Off}, v3'.code \in {v3.code, 0}, v1' = v1,
         v4'.key.token = v4.key.token, v4'.totp \in {v4.totp, Recovery!Blank}
  PROVE  TokensHold' /\ CodesHold' /\ (UNCHANGED v6 /\ (v2 = "settings" => v2' = "settings") => PanelHolds')
  <1>1. TokensHold'
    BY BlankIs DEF TokensHold
  <1>2. CodesHold'
    BY BlankIs DEF CodesHold
  <1>3. ASSUME UNCHANGED v6, v2 = "settings" => v2' = "settings" PROVE PanelHolds'
    BY <1>3, BlankIs DEF PanelHolds
  <1> QED
    BY <1>1, <1>2, <1>3

LEMMA RecoveryAfterRecoverAnswered == ASSUME RecoveryInv, Recovery!RecoverAnswered PROVE RecoveryInv'
  <1> USE DEF RecoveryInv
  <1>1. /\ v7.q.kind = "recover" /\ v7' = Recovery!NoCall
        /\ IF v7.answer = "ok" THEN v5' = v7.q.token /\ v2' = "result" ELSE UNCHANGED <<v5, v2>>
        /\ v4' = IF v7.answer = "conflict" THEN [v4 EXCEPT !.key = Recovery!Blank] ELSE v4
        /\ UNCHANGED <<v1, v3, v6, v8, v9>>
    BY DEF Recovery!RecoverAnswered, Recovery!Answered
  <1>2. v2 = "key" /\ v4.key = v7.q /\ v7.answer # "conflict" /\ v4.key # Recovery!Blank
    BY <1>1, BlankIs DEF PagesHold
  <1>3. CASE v7.answer # "ok"
    BY <1>1, <1>2, <1>3, CallKeeps, BlankIs, EmptyIsTyped
  <1>4. CASE v7.answer = "ok"
    <2>1. v5' = v4.key.token /\ v2' = "result" /\ v4' = v4 /\ v4.key \in v1.done
      BY <1>1, <1>2, <1>4 DEF PagesHold
    <2>2. Sent' \subseteq Sent \cup {Recovery!Blank}
      BY <1>1, <2>1, BlankIs DEF Sent
    <2>3. RecoveryTypes'
      <3>1. v4.key.token \in Tokens \cup {Off}
        BY DEF RecoveryTypes, AnyRequest
      <3> QED
        BY <1>1, <2>1, <3>1, EmptyIsTyped DEF RecoveryTypes
    <2>4. PagesHold'
      BY <1>1, <1>2, <2>1, BlankIs DEF PagesHold
    <2>5. TokensHold' /\ CodesHold' /\ PanelHolds'
      BY <1>1, <1>2, <2>1, <2>2, SentShrinks
    <2>8. KeysHold(v1)' /\ ResetHolds(v1)'
      BY <1>1, <2>1 DEF KeysHold, ResetHolds
    <2> QED
      BY <2>3, <2>4, <2>5, <2>8
  <1> QED
    BY <1>3, <1>4

LEMMA RecoveryAfterStartAnswered == ASSUME RecoveryInv, Recovery!StartAnswered PROVE RecoveryInv'
  <1> USE DEF RecoveryInv
  <1>1. /\ v7.q.kind = "start" /\ v7' = Recovery!NoCall
        /\ v3' = IF v7.answer = "ok" THEN [v3 EXCEPT !.challenge = v1.issued, !.code = 0] ELSE v3
        /\ UNCHANGED <<v1, v2, v4, v5, v6, v8, v9>>
    BY DEF Recovery!StartAnswered, Recovery!Answered
  <1>2. Sent' \subseteq Sent \cup {Recovery!Blank}
    BY <1>1, BlankIs DEF Sent
  <1>3. v3'.key = v3.key /\ v3'.code \in {0, v3.code}
        /\ v3' \in [key : KeysOf \cup {Off}, password : AnyPassword, code : Nat, challenge : Nat]
    BY <1>1 DEF RecoveryTypes, AnyAccount
  <1>4. RecoveryTypes'
    BY <1>1, <1>3, EmptyIsTyped DEF RecoveryTypes
  <1>5. PagesHold'
    BY <1>1, BlankIs DEF PagesHold
  <1>6. PanelHolds'
    BY <1>1, <1>2, BlankIs DEF PanelHolds
  <1>7. TokensHold'
    BY <1>1, <1>2, <1>3, BlankIs DEF TokensHold
  <1>8. CodesHold'
    BY <1>1, <1>2, <1>3, BlankIs DEF CodesHold
  <1>9. KeysHold(v1)' /\ ResetHolds(v1)'
    BY <1>1 DEF KeysHold, ResetHolds
  <1> QED
    BY <1>4, <1>5, <1>6, <1>7, <1>8, <1>9

LEMMA RecoveryAfterResetAnswered == ASSUME RecoveryInv, Recovery!ResetAnswered PROVE RecoveryInv'
  <1> USE DEF RecoveryInv
  <1>1. /\ v7.q.kind = "reset" /\ v7' = Recovery!NoCall
        /\ v2' = IF v7.answer = "ok" THEN "reset" ELSE v2
        /\ v4' = IF v7.answer = "conflict" THEN [v4 EXCEPT !.totp = Recovery!Blank] ELSE v4
        /\ UNCHANGED <<v1, v3, v5, v6, v8, v9>>
    BY DEF Recovery!ResetAnswered, Recovery!Answered
  <1>2. /\ v2 = "totp" /\ v4.totp = v7.q /\ v4.totp # Recovery!Blank /\ v4.key = Recovery!Blank
        /\ v7.answer = "ok" => v4.totp \in v1.done
    BY <1>1, BlankIs DEF PagesHold
  <1>3. /\ v4' \in [key : AnyRequest, totp : AnyRequest] /\ v4'.key = v4.key
        /\ v4'.totp = IF v7.answer = "conflict" THEN Recovery!Blank ELSE v4.totp
    BY <1>1, BlankIs DEF RecoveryTypes
  <1>4. Sent' \subseteq Sent \cup {Recovery!Blank}
    BY <1>1, <1>3, BlankIs DEF Sent
  <1>5. RecoveryTypes'
    BY <1>1, <1>3, EmptyIsTyped DEF RecoveryTypes
  <1>6. PagesHold'
    BY <1>1, <1>2, <1>3, BlankIs DEF PagesHold
  <1>7. TokensHold' /\ CodesHold' /\ PanelHolds'
    BY <1>1, <1>2, <1>3, <1>4, SentShrinks
  <1>8. KeysHold(v1)' /\ ResetHolds(v1)'
    BY <1>1, <1>3, BlankIs DEF KeysHold, ResetHolds
  <1> QED
    BY <1>5, <1>6, <1>7, <1>8

LEMMA RecoveryAfterChangeAnswered == ASSUME RecoveryInv, Recovery!ChangeAnswered PROVE RecoveryInv'
  <1> USE DEF RecoveryInv
  <1>1. /\ v7.q.kind = "change" /\ v7' = Recovery!NoCall
        /\ IF v7.answer = "ok" THEN v2' = "login" /\ v6' = Recovery!NoRotation
                               ELSE UNCHANGED <<v2, v6>>
        /\ UNCHANGED <<v1, v3, v4, v5, v8, v9>>
    BY DEF Recovery!ChangeAnswered, Recovery!Answered
  <1>2. v2 = "settings"
    BY <1>1 DEF PagesHold
  <1>4. Sent' \subseteq Sent \cup {Recovery!Blank}
    BY <1>1, BlankIs DEF Sent
  <1>5. RecoveryTypes'
    BY <1>1, EmptyIsTyped DEF RecoveryTypes
  <1>6. PagesHold'
    BY <1>1, <1>2, BlankIs DEF PagesHold
  <1>7. TokensHold' /\ CodesHold'
    BY <1>1, <1>2, <1>4, SentShrinks
  <1>8. PanelHolds'
    BY <1>1, <1>4, SentShrinks DEF PanelHolds
  <1>9. KeysHold(v1)' /\ ResetHolds(v1)'
    BY <1>1 DEF KeysHold, ResetHolds
  <1> QED
    BY <1>5, <1>6, <1>7, <1>8, <1>9

\* What the owner does is counted, and nothing else of the owner changes.
LEMMA ActsKeep ==
  ASSUME NEW o \in AnyOwner, v9' = [o EXCEPT !.acts = @ + 1]
  PROVE  /\ v9' \in AnyOwner /\ v9'.kept = o.kept /\ v9'.gaveUp = o.gaveUp /\ v9'.used = o.used
         /\ v9'.secret = o.secret /\ v9'.submitted = o.submitted /\ v9'.code = o.code
  BY DEF AnyOwner

LEMMA ReadsKeep ==
  ASSUME v9 \in AnyOwner, NEW c \in Nat
  PROVE  LET o == [v9 EXCEPT !.code = c]
         IN  /\ o \in AnyOwner /\ o.kept = v9.kept /\ o.gaveUp = v9.gaveUp /\ o.used = v9.used
             /\ o.secret = v9.secret /\ o.submitted = v9.submitted /\ o.code = c
  BY DEF AnyOwner

\* What the owner is known to be.
LEMMA OwnerIs == ASSUME RecoveryInv PROVE v9 \in AnyOwner /\ v9.code \in Nat /\ v9.acts \in Nat
  BY DEF RecoveryInv, RecoveryTypes, AnyOwner

LEMMA RecoveryAfterFills == ASSUME RecoveryInv, Recovery!Fills PROVE RecoveryInv'
  <1> USE DEF RecoveryInv
  <1>1. UNCHANGED <<v1, v2, v4, v5, v6, v7, v8>> /\ v2 \in {"key", "totp"}
    BY DEF Recovery!Fills
  <1>2. \/ /\ v2 = "key" /\ v9' = [v9 EXCEPT !.acts = @ + 1]
           /\ \E p \in Passwords, k \in v9.kept : v3' = [v3 EXCEPT !.key = k, !.password = p]
        \/ /\ v2 = "totp"
           /\ \E p \in Passwords, c \in v9.code..MaxCode :
                /\ v9' = [[v9 EXCEPT !.code = c] EXCEPT !.acts = @ + 1]
                /\ v3' = [v3 EXCEPT !.code = c, !.password = p]
    BY DEF Recovery!Fills, Recovery!Acts, Recovery!Reads, Recovery!Codes
  <1>3. /\ v9' \in AnyOwner /\ v9'.kept = v9.kept /\ v9'.gaveUp = v9.gaveUp /\ v9'.used = v9.used
        /\ v9'.secret = v9.secret /\ v9'.submitted = v9.submitted
        /\ v9'.code >= v9.code /\ v3'.code \in {0, v9'.code}
        /\ v3'.key \in v9.kept \cup {Off}
        /\ v3' \in [key : KeysOf \cup {Off}, password : AnyPassword, code : Nat, challenge : Nat]
    <2>1. /\ v9 \in AnyOwner /\ v9.code \in Nat /\ v9.acts \in Nat /\ v9.kept \subseteq KeysOf
          /\ v3 \in [key : KeysOf \cup {Off}, password : AnyPassword, code : Nat, challenge : Nat]
          /\ v3.key \in v9.kept \cup {Off} /\ v3.code \in {0, v9.code}
      BY OwnerIs DEF RecoveryTypes, TokensHold, CodesHold, AnyOwner
    <2> DEFINE Kept == /\ v9'.kept = v9.kept /\ v9'.gaveUp = v9.gaveUp /\ v9'.used = v9.used
                       /\ v9'.secret = v9.secret /\ v9'.submitted = v9.submitted
               Form == [key : KeysOf \cup {Off}, password : AnyPassword, code : Nat, challenge : Nat]
    <2>2. ASSUME v9' = [v9 EXCEPT !.acts = @ + 1],
                 NEW p \in Passwords, NEW k \in v9.kept, v3' = [v3 EXCEPT !.key = k, !.password = p]
          PROVE  /\ v9' \in AnyOwner /\ Kept /\ v9'.code = v9.code
                 /\ v3' \in Form /\ v3'.key = k /\ v3'.code = v3.code
      <3>1. v9' \in AnyOwner /\ Kept /\ v9'.code = v9.code
        BY <2>1, <2>2, ActsKeep
      <3>2. v3' \in Form /\ v3'.key = k /\ v3'.code = v3.code
        BY <2>1, <2>2 DEF AnyPassword
      <3> QED
        BY <3>1, <3>2
    <2>3. ASSUME NEW p \in Passwords, NEW c \in v9.code..MaxCode,
                 v9' = [[v9 EXCEPT !.code = c] EXCEPT !.acts = @ + 1],
                 v3' = [v3 EXCEPT !.code = c, !.password = p]
          PROVE  /\ v9' \in AnyOwner /\ Kept /\ v9'.code = c /\ c >= v9.code
                 /\ v3' \in Form /\ v3'.key = v3.key /\ v3'.code = c
      <3>1. c \in Nat /\ c >= v9.code
        BY <2>1
      <3> DEFINE o == [v9 EXCEPT !.code = c]
      <3>4. /\ o \in AnyOwner /\ o.kept = v9.kept /\ o.gaveUp = v9.gaveUp /\ o.used = v9.used
            /\ o.secret = v9.secret /\ o.submitted = v9.submitted /\ o.code = c
        BY <2>1, <3>1, ReadsKeep
      <3>5. v9' = [o EXCEPT !.acts = @ + 1]
        BY <2>3
      <3> HIDE DEF o
      <3>2. v9' \in AnyOwner /\ Kept /\ v9'.code = c
        BY <3>4, <3>5, ActsKeep
      <3>3. v3' \in Form /\ v3'.key = v3.key /\ v3'.code = c
        BY <2>1, <2>3, <3>1 DEF AnyPassword
      <3> QED
        BY <3>1, <3>2, <3>3
    <2>4. CASE \E p \in Passwords, k \in v9.kept :
                 v9' = [v9 EXCEPT !.acts = @ + 1] /\ v3' = [v3 EXCEPT !.key = k, !.password = p]
      <3>1. PICK p \in Passwords, k \in v9.kept :
                 v9' = [v9 EXCEPT !.acts = @ + 1] /\ v3' = [v3 EXCEPT !.key = k, !.password = p]
        BY <2>4
      <3>2. /\ v9' \in AnyOwner /\ Kept /\ v9'.code = v9.code
            /\ v3' \in Form /\ v3'.key = k /\ v3'.code = v3.code
        BY <2>2, <3>1
      <3> QED
        BY <2>1, <3>2
    <2>5. CASE \E p \in Passwords, c \in v9.code..MaxCode :
                 /\ v9' = [[v9 EXCEPT !.code = c] EXCEPT !.acts = @ + 1]
                 /\ v3' = [v3 EXCEPT !.code = c, !.password = p]
      BY <2>1, <2>3, <2>5
    <2> QED
      BY <1>2, <2>4, <2>5
  <1>4. Sent' = Sent
    BY <1>1 DEF Sent
  <1>5. RecoveryTypes'
    BY <1>1, <1>3 DEF RecoveryTypes
  <1>6. PagesHold'
    BY <1>1, <1>3 DEF PagesHold
  <1>7. PanelHolds'
    BY <1>1, <1>3, <1>4 DEF PanelHolds
  <1>8. TokensHold'
    BY <1>1, <1>3, <1>4 DEF TokensHold
  <1>9. CodesHold'
    <2>1. \A q \in Sent : q.code \in Nat
      BY DEF Sent, RecoveryTypes, AnyRequest, AnyAccount
    <2> QED
      BY <1>1, <1>3, <1>4, <2>1, OwnerIs DEF CodesHold, AnyOwner
  <1>10. KeysHold(v1)' /\ ResetHolds(v1)'
    BY <1>1, <1>3 DEF KeysHold, ResetHolds
  <1> QED
    BY <1>5, <1>6, <1>7, <1>8, <1>9, <1>10

\* A key that was on the page when the owner left it is given up.
LEMMA ForgetsKeep ==
  ASSUME RecoveryInv
  PROVE  LET o == Recovery!Forgets(v9)
         IN  /\ o \in AnyOwner /\ o.kept = v9.kept /\ o.gaveUp = v9.gaveUp \cup {v4.key.token, v5}
             /\ o.used = v9.used /\ o.secret = v9.secret /\ o.submitted = v9.submitted
             /\ o.code = v9.code
  <1>1. v9 \in AnyOwner /\ v4.key.token \in Tokens \cup {Off} /\ v5 \in Tokens \cup {Off}
    BY DEF RecoveryInv, RecoveryTypes, AnyRequest
  <1> QED
    BY <1>1 DEF Recovery!Forgets, AnyOwner

\* what was given up was not kept
LEMMA ForgettingLosesNoKey ==
  ASSUME RecoveryInv
  PROVE  /\ v4.key.token \in v9.used \cup {Off} /\ v5 \in v9.used \cup {Off}
         /\ v9.kept \cap {v4.key.token, v5} = {}
         /\ v5 \in {v4.key.token, Off}
  <1>1. Off \notin v9.kept
    BY TokensAssumption DEF RecoveryInv, RecoveryTypes, AnyOwner, KeysOf
  <1>2. v4.key \in Sent /\ v4.key.token \in v9.used \cup {Off}
    BY DEF Sent, RecoveryInv, TokensHold
  <1>3. v5 \in {v4.key.token, Off}
    BY DEF RecoveryInv, PagesHold
  <1>4. v4.key.token \notin v9.kept
    BY <1>1, BlankIs DEF RecoveryInv, PagesHold
  <1> QED
    BY <1>1, <1>2, <1>3, <1>4

\* The owner goes to another page, and what was on this one is forgotten.
LEMMA LeavingKeeps ==
  ASSUME RecoveryInv, UNCHANGED v1, v2' \in {"key", "totp", "login"}, v3' = Recovery!NoForm,
         v4' = Recovery!NoTries, v5' = Off, v6' = Recovery!NoRotation, v7' = Recovery!NoCall,
         v8' \subseteq v8 \cup {v7.q}, v9' = [Recovery!Forgets(v9) EXCEPT !.acts = @ + 1]
  PROVE  RecoveryInv'
  <1> USE DEF RecoveryInv
  <1>1. /\ v9' \in AnyOwner /\ v9'.kept = v9.kept /\ v9'.gaveUp = v9.gaveUp \cup {v4.key.token, v5}
        /\ v9'.used = v9.used /\ v9'.secret = v9.secret /\ v9'.submitted = v9.submitted
        /\ v9'.code = v9.code
    BY ForgetsKeep, ActsKeep
  <1>2. Sent' \subseteq Sent \cup {Recovery!Blank}
    BY BlankIs DEF Sent
  <1>3. RecoveryTypes'
    BY <1>1, EmptyIsTyped DEF RecoveryTypes
  <1>4. PagesHold'
    BY BlankIs DEF PagesHold
  <1>5. PanelHolds'
    BY DEF PanelHolds
  <1>6. TokensHold'
    BY <1>1, <1>2, BlankIs, ForgettingLosesNoKey DEF TokensHold
  <1>7. CodesHold'
    BY <1>1, <1>2, BlankIs DEF CodesHold
  <1>8. KeysHold(v1)' /\ ResetHolds(v1)'
    BY <1>1, BlankIs DEF KeysHold, ResetHolds
  <1> QED
    BY <1>3, <1>4, <1>5, <1>6, <1>7, <1>8

LEMMA RecoveryAfterChooseMode == ASSUME RecoveryInv, Recovery!ChooseMode PROVE RecoveryInv'
  <1>1. /\ v2 \in {"key", "totp"} /\ v7 = Recovery!NoCall /\ v2' \in {"key", "totp"}
        /\ v3' = Recovery!NoForm /\ v4' = Recovery!NoTries /\ UNCHANGED <<v1, v5, v6, v7, v8>>
        /\ v9' = [Recovery!Forgets(v9) EXCEPT !.acts = @ + 1]
    BY DEF Recovery!ChooseMode, Recovery!Acts, Recovery!Waiting
  <1>2. v5 = Off /\ v6 = Recovery!NoRotation
    BY <1>1 DEF RecoveryInv, PagesHold, PanelHolds
  <1> QED
    BY <1>1, <1>2, LeavingKeeps

LEMMA RecoveryAfterLeaves == ASSUME RecoveryInv, Recovery!Leaves PROVE RecoveryInv'
  <1>1. /\ v2' \in {"key", "login"} /\ v3' = Recovery!NoForm /\ v4' = Recovery!NoTries
        /\ v5' = Off /\ v6' = Recovery!NoRotation /\ v7' = Recovery!NoCall /\ UNCHANGED v1
        /\ v8' \subseteq v8 \cup {v7.q}
        /\ v9' = [Recovery!Forgets(v9) EXCEPT !.acts = @ + 1]
    BY DEF Recovery!Leaves, Recovery!Acts, Recovery!Strays
  <1> QED
    BY <1>1, LeavingKeeps

LEMMA RecoveryAfterContinues == ASSUME RecoveryInv, Recovery!Continues PROVE RecoveryInv'
  <1> USE DEF RecoveryInv
  <1>1. /\ v2 \in {"result", "reset"} /\ v2' = "login" /\ v3' = Recovery!NoForm
        /\ v4' = Recovery!NoTries /\ v5' = Off /\ UNCHANGED <<v1, v6, v7, v8>>
        /\ v9' = IF v2 = "result" THEN [v9 EXCEPT !.kept = @ \cup {v5}, !.secret = v5] ELSE v9
    BY DEF Recovery!Continues
  <1>2. Sent' \subseteq Sent \cup {Recovery!Blank}
    BY <1>1, BlankIs DEF Sent
  <1>3. v6 = Recovery!NoRotation
    BY <1>1 DEF PanelHolds
  <1>4. CASE v2 = "reset"
    <2>1. v4.key = Recovery!Blank /\ v9' = v9
      BY <1>1, <1>4 DEF PagesHold
    <2>2. RecoveryTypes'
      BY <1>1, <2>1, EmptyIsTyped DEF RecoveryTypes
    <2>3. PagesHold'
      BY <1>1, <1>4, BlankIs DEF PagesHold
    <2>4. PanelHolds'
      BY <1>1, <1>3 DEF PanelHolds
    <2>5. TokensHold' /\ CodesHold'
      BY <1>1, <1>2, <2>1, BlankIs, SentShrinks
    <2>7. KeysHold(v1)' /\ ResetHolds(v1)'
      BY <1>1, <2>1, BlankIs DEF KeysHold, ResetHolds
    <2> QED
      BY <2>2, <2>3, <2>4, <2>5, <2>7
  <1>5. CASE v2 = "result"
    <2>1. /\ v4.key # Recovery!Blank /\ v4.key.kind = "recover" /\ v5 = v4.key.token
          /\ v4.key \in v1.done /\ v4.key \in Sent /\ v5 \notin v9.kept \cup v9.gaveUp
      BY <1>5 DEF PagesHold, Sent
    <2>2. v5 \in v9.used /\ v5 \in Tokens /\ v9 \in AnyOwner
      BY <2>1, TokensAssumption DEF TokensHold, RecoveryTypes, AnyOwner
    <2>3. /\ v9' \in AnyOwner /\ v9'.kept = v9.kept \cup {v5} /\ v9'.secret = v5
          /\ v9'.gaveUp = v9.gaveUp /\ v9'.used = v9.used /\ v9'.submitted = v9.submitted
          /\ v9'.code = v9.code
      BY <1>1, <1>5, <2>2 DEF AnyOwner, KeysOf
    <2>4. RecoveryTypes'
      BY <1>1, <2>3, EmptyIsTyped DEF RecoveryTypes
    <2>5. PagesHold'
      BY <1>1, <1>5, BlankIs DEF PagesHold
    <2>6. PanelHolds'
      BY <1>1, <1>3 DEF PanelHolds
    <2>7. TokensHold'
      <3>1. \A q \in Sent : q.token = v5 => q = v4.key
        BY <2>1 DEF TokensHold
      <3>2. ASSUME NEW q \in Sent, q.kind = "recover"
            PROVE  /\ q.token # Off /\ q.key \in v9'.kept
                   /\ q.token \in v9'.kept \cup v9'.gaveUp
                   /\ q.token \in v9'.kept => q \in v1.done
                   /\ \A o \in Sent : o.token = q.token => o = q
        BY <2>1, <2>3, <3>1, <3>2 DEF TokensHold
      <3>3. v9'.kept \subseteq v9'.used \cup {None} /\ v9'.kept \cap v9'.gaveUp = {}
            /\ v9'.secret \in v9'.kept
        BY <2>1, <2>2, <2>3 DEF TokensHold
      <3> QED
        BY <1>1, <1>2, <2>3, <3>2, <3>3, BlankIs DEF TokensHold
    <2>8. CodesHold'
      BY <1>1, <1>2, <2>3, BlankIs DEF CodesHold
    <2>9. KeysHold(v1)' /\ ResetHolds(v1)'
      BY <1>1, <2>1, <2>3, BlankIs DEF KeysHold, ResetHolds
    <2> QED
      BY <2>4, <2>5, <2>6, <2>7, <2>8, <2>9
  <1> QED
    BY <1>1, <1>4, <1>5

\* A request that is neither a recovery nor a reset is sent.
LEMMA SendingKeeps ==
  ASSUME RecoveryInv, NEW q \in AnyRequest, q.kind \in {"start", "rotate", "change"},
         Recovery!Sends(q), UNCHANGED <<v1, v2, v3, v4, v5, v6, v8>>,
         IF q.kind = "start" THEN v2 = "totp" /\ v9'.code = v9.code ELSE v2 = "settings",
         IF q.kind = "rotate" THEN v6 # Recovery!NoRotation /\ q.token = v6.token /\ v6.saved
                              ELSE q.token = Off,
         v9' \in AnyOwner, v9'.kept = v9.kept, v9'.gaveUp = v9.gaveUp, v9'.used = v9.used,
         v9'.secret = v9.secret, v9'.submitted = v9.submitted, v9'.code >= v9.code
  PROVE  RecoveryInv'
  <1> USE DEF RecoveryInv
  <1>1. v7 = Recovery!NoCall /\ v7' = [q |-> q, try |-> 1, answer |-> "none"]
    BY DEF Recovery!Sends, Recovery!Waiting
  <1>2. Sent' \subseteq Sent \cup {q}
    BY <1>1 DEF Sent
  <1>3. RecoveryTypes'
    BY <1>1 DEF RecoveryTypes
  <1>4. PagesHold'
    BY <1>1 DEF PagesHold
  <1>5. PanelHolds'
    BY <1>2 DEF PanelHolds
  <1>6. q.kind = "rotate" => q.token \in v9.kept \cap v9.used /\
                             \A o \in Sent : o.kind = "recover" => o.token # q.token
    BY DEF PanelHolds
  <1>7. TokensHold'
    BY <1>2, <1>6 DEF TokensHold
  <1>8. CodesHold'
    <2>1. \A o \in Sent : o.code \in Nat
      BY DEF Sent, RecoveryTypes, AnyRequest, AnyAccount
    <2>2. v9.code \in Nat /\ v9'.code \in Nat
      BY OwnerIs DEF AnyOwner
    <2>3. v3.code \in {0, v9'.code}
      BY DEF CodesHold, PagesHold
    <2> QED
      BY <1>2, <2>1, <2>2, <2>3 DEF CodesHold
  <1>9. KeysHold(v1)' /\ ResetHolds(v1)'
    BY DEF KeysHold, ResetHolds
  <1> QED
    BY <1>3, <1>4, <1>5, <1>7, <1>8, <1>9

LEMMA RecoveryAfterBeginsTOTP == ASSUME RecoveryInv, Recovery!BeginsTOTP PROVE RecoveryInv'
  <1> DEFINE q == [Recovery!Blank EXCEPT !.kind = "start"]
  <1>1. q \in AnyRequest /\ q.kind = "start" /\ q.token = Off
    BY BlankIs DEF AnyRequest
  <1>2. Recovery!Sends(q) /\ v2 = "totp" /\ v9' = [v9 EXCEPT !.acts = @ + 1]
        /\ UNCHANGED <<v1, v2, v3, v4, v5, v6, v8>>
    BY DEF Recovery!BeginsTOTP, Recovery!Acts
  <1> HIDE DEF q
  <1>3. /\ v9' \in AnyOwner /\ v9'.kept = v9.kept /\ v9'.gaveUp = v9.gaveUp /\ v9'.used = v9.used
        /\ v9'.secret = v9.secret /\ v9'.submitted = v9.submitted /\ v9'.code = v9.code
    BY <1>2, OwnerIs, ActsKeep
  <1> QED
    BY <1>1, <1>2, <1>3, OwnerIs, SendingKeeps

\* a code is read, and nothing else is done by the owner
LEMMA ReadingKeeps ==
  ASSUME RecoveryInv, NEW c \in Recovery!Codes, Recovery!Reads(c)
  PROVE  /\ v9' \in AnyOwner /\ v9'.kept = v9.kept /\ v9'.gaveUp = v9.gaveUp /\ v9'.used = v9.used
         /\ v9'.secret = v9.secret /\ v9'.submitted = v9.submitted /\ v9'.code = c
         /\ c \in Nat /\ c >= v9.code
  <1>1. c \in Nat /\ c >= v9.code
    BY OwnerIs DEF Recovery!Codes
  <1> DEFINE o == [v9 EXCEPT !.code = c]
  <1>2. /\ o \in AnyOwner /\ o.kept = v9.kept /\ o.gaveUp = v9.gaveUp /\ o.used = v9.used
        /\ o.secret = v9.secret /\ o.submitted = v9.submitted /\ o.code = c
    BY <1>1, OwnerIs, ReadsKeep
  <1>3. v9' = [o EXCEPT !.acts = @ + 1]
    BY DEF Recovery!Reads, Recovery!Acts
  <1> HIDE DEF o
  <1> QED
    BY <1>1, <1>2, <1>3, ActsKeep

LEMMA RecoveryAfterRotates == ASSUME RecoveryInv, Recovery!Rotates PROVE RecoveryInv'
  <1>1. PICK c \in Recovery!Codes :
          /\ Recovery!Reads(c)
          /\ Recovery!Sends([Recovery!Blank EXCEPT !.kind = "rotate", !.token = v6.token,
                                                   !.key = v9.secret, !.code = c])
    BY DEF Recovery!Rotates
  <1> DEFINE q == [Recovery!Blank EXCEPT !.kind = "rotate", !.token = v6.token,
                                         !.key = v9.secret, !.code = c]
  <1>2. v2 = "settings" /\ v6.token # Off /\ v6.saved /\ UNCHANGED <<v1, v2, v3, v4, v5, v6, v8>>
    BY DEF Recovery!Rotates
  <1>3. v6.token \in Tokens \cup {Off} /\ v9.secret \in KeysOf /\ c \in Nat
    BY <1>1, ReadingKeeps DEF RecoveryInv, RecoveryTypes, AnyOwner
  <1>4. q \in AnyRequest /\ q.kind = "rotate" /\ q.token = v6.token
    BY <1>3, BlankIs DEF AnyRequest
  <1>5. Recovery!Sends(q)
    BY <1>1
  <1> HIDE DEF q
  <1> QED
    BY <1>1, <1>2, <1>4, <1>5, ReadingKeeps, EmptyIsTyped, SendingKeeps

LEMMA RecoveryAfterChangesPassword == ASSUME RecoveryInv, Recovery!ChangesPassword PROVE RecoveryInv'
  <1>1. PICK c \in Recovery!Codes, p \in Passwords :
          /\ Recovery!Reads(c)
          /\ Recovery!Sends([Recovery!Blank EXCEPT !.kind = "change", !.key = v9.secret,
                                                   !.code = c, !.password = p])
    BY DEF Recovery!ChangesPassword
  <1> DEFINE q == [Recovery!Blank EXCEPT !.kind = "change", !.key = v9.secret,
                                         !.code = c, !.password = p]
  <1>2. v2 = "settings" /\ UNCHANGED <<v1, v2, v3, v4, v5, v6, v8>>
    BY DEF Recovery!ChangesPassword
  <1>3. v9.secret \in KeysOf /\ c \in Nat
    BY <1>1, ReadingKeeps DEF RecoveryInv, RecoveryTypes, AnyOwner
  <1>4. q \in AnyRequest /\ q.kind = "change" /\ q.token = Off
    BY <1>3, BlankIs DEF AnyRequest, AnyPassword
  <1>5. Recovery!Sends(q)
    BY <1>1
  <1> HIDE DEF q
  <1> QED
    BY <1>1, <1>2, <1>4, <1>5, ReadingKeeps, SendingKeeps

LEMMA RecoveryAfterAsksNewChallenge == ASSUME RecoveryInv, Recovery!AsksNewChallenge PROVE RecoveryInv'
  <1> USE DEF RecoveryInv
  <1>1. /\ v2 = "totp" /\ v7 = Recovery!NoCall /\ v9' = [v9 EXCEPT !.acts = @ + 1]
        /\ v3' = [v3 EXCEPT !.challenge = 0, !.code = 0]
        /\ v4' = [v4 EXCEPT !.totp = Recovery!Blank] /\ UNCHANGED <<v1, v2, v5, v6, v7, v8>>
    BY DEF Recovery!AsksNewChallenge, Recovery!Acts, Recovery!Waiting
  <1>2. /\ v9' \in AnyOwner /\ v9'.kept = v9.kept /\ v9'.gaveUp = v9.gaveUp /\ v9'.used = v9.used
        /\ v9'.secret = v9.secret /\ v9'.submitted = v9.submitted /\ v9'.code = v9.code
    BY <1>1, OwnerIs, ActsKeep
  <1>3. /\ v4' \in [key : AnyRequest, totp : AnyRequest] /\ v4'.key = v4.key
        /\ v4'.totp = Recovery!Blank
    BY <1>1, BlankIs DEF RecoveryTypes
  <1>4. v3' \in [key : KeysOf \cup {Off}, password : AnyPassword, code : Nat, challenge : Nat]
        /\ v3'.key = v3.key /\ v3'.code = 0
    BY <1>1 DEF RecoveryTypes
  <1>5. Sent' \subseteq Sent \cup {Recovery!Blank}
    BY <1>1, <1>3 DEF Sent
  <1>6. RecoveryTypes'
    BY <1>1, <1>2, <1>3, <1>4 DEF RecoveryTypes
  <1>7. PagesHold'
    BY <1>1, <1>2, <1>3, <1>4, BlankIs DEF PagesHold
  <1>8. PanelHolds'
    BY <1>1, <1>2, <1>5, BlankIs DEF PanelHolds
  <1>9. TokensHold'
    BY <1>1, <1>2, <1>3, <1>4, <1>5, BlankIs DEF TokensHold
  <1>10. CodesHold'
    BY <1>1, <1>2, <1>3, <1>4, <1>5, BlankIs DEF CodesHold
  <1>11. KeysHold(v1)' /\ ResetHolds(v1)'
    BY <1>1, <1>2, <1>3, BlankIs DEF KeysHold, ResetHolds
  <1> QED
    BY <1>6, <1>7, <1>8, <1>9, <1>10, <1>11

LEMMA RecoveryAfterSignsIn == ASSUME RecoveryInv, Recovery!SignsIn PROVE RecoveryInv'
  <1> USE DEF RecoveryInv
  <1>1. PICK c \in Recovery!Codes :
          Recovery!Reads(c) /\ v1' = [v1 EXCEPT !.code = c, !.session = TRUE]
    BY DEF Recovery!SignsIn
  <1>2. v2 = "login" /\ v9.secret = v1.secret /\ v2' = "settings" /\ UNCHANGED <<v3, v4, v5, v6, v7, v8>>
    BY DEF Recovery!SignsIn
  <1>3. /\ v9' \in AnyOwner /\ v9'.kept = v9.kept /\ v9'.gaveUp = v9.gaveUp /\ v9'.used = v9.used
        /\ v9'.secret = v9.secret /\ v9'.submitted = v9.submitted /\ v9'.code = c
        /\ c \in Nat /\ c >= v9.code
    BY <1>1, ReadingKeeps
  <1>4. v1' \in AnyAccount /\ v1'.done = v1.done /\ v1'.key = v1.key /\ v1'.secret = v1.secret
    BY <1>1, <1>3 DEF RecoveryTypes, AnyAccount
  <1>5. Sent' = Sent
    BY <1>2, <1>4 DEF Sent
  <1>6. RecoveryTypes'
    BY <1>2, <1>3, <1>4 DEF RecoveryTypes
  <1>7. PagesHold'
    BY <1>2, <1>3, <1>4 DEF PagesHold
  <1>8. PanelHolds'
    BY <1>2, <1>3, <1>5 DEF PanelHolds
  <1>9. TokensHold'
    BY <1>2, <1>3, <1>4, <1>5 DEF TokensHold
  <1>10. CodesHold'
    <2>1. \A o \in Sent : o.code \in Nat
      BY DEF Sent, RecoveryTypes, AnyRequest, AnyAccount
    <2>2. v9.code \in Nat /\ v3.code = 0
      BY <1>2, OwnerIs DEF PagesHold
    <2> QED
      BY <1>2, <1>3, <1>5, <2>1, <2>2 DEF CodesHold
  <1>11. KeysHold(v1)'
    <2>1. v1.secret \in v9.kept
      BY <1>2 DEF TokensHold
    <2> QED
      BY <1>2, <1>3, <1>4, <2>1 DEF KeysHold
  <1>12. ResetHolds(v1)'
    BY <1>2, <1>4, BlankIs DEF ResetHolds, PagesHold
  <1> QED
    BY <1>6, <1>7, <1>8, <1>9, <1>10, <1>11, <1>12

LEMMA UsesKeep ==
  ASSUME NEW o \in AnyOwner, NEW t \in Tokens
  PROVE  LET u == [o EXCEPT !.used = @ \cup {t}]
         IN  /\ u \in AnyOwner /\ u.kept = o.kept /\ u.gaveUp = o.gaveUp /\ u.used = o.used \cup {t}
             /\ u.secret = o.secret /\ u.submitted = o.submitted /\ u.code = o.code
  BY DEF AnyOwner

LEMMA RecoveryAfterPreparesKey == ASSUME RecoveryInv, Recovery!PreparesKey PROVE RecoveryInv'
  <1> USE DEF RecoveryInv
  <1>1. PICK t \in Recovery!Fresh :
          /\ v6' = [token |-> t, saved |-> FALSE]
          /\ v9' = [[v9 EXCEPT !.used = @ \cup {t}] EXCEPT !.acts = @ + 1]
    BY DEF Recovery!PreparesKey, Recovery!Acts
  <1>2. v2 = "settings" /\ UNCHANGED <<v1, v2, v3, v4, v5, v7, v8>>
    BY DEF Recovery!PreparesKey
  <1>3. t \in Tokens /\ t \notin v9.used
    BY DEF Recovery!Fresh
  <1>4. /\ v9' \in AnyOwner /\ v9'.kept = v9.kept /\ v9'.gaveUp = v9.gaveUp
        /\ v9'.used = v9.used \cup {t}
        /\ v9'.secret = v9.secret /\ v9'.submitted = v9.submitted /\ v9'.code = v9.code
    <2> DEFINE u == [v9 EXCEPT !.used = @ \cup {t}]
    <2>1. /\ u \in AnyOwner /\ u.kept = v9.kept /\ u.gaveUp = v9.gaveUp /\ u.used = v9.used \cup {t}
          /\ u.secret = v9.secret /\ u.submitted = v9.submitted /\ u.code = v9.code
      BY <1>3, OwnerIs, UsesKeep
    <2>2. v9' = [u EXCEPT !.acts = @ + 1]
      BY <1>1
    <2> HIDE DEF u
    <2> QED
      BY <2>1, <2>2, ActsKeep
  <1>5. Sent' = Sent
    BY <1>2 DEF Sent
  <1>6. RecoveryTypes'
    BY <1>1, <1>2, <1>3, <1>4 DEF RecoveryTypes
  <1>7. PagesHold'
    BY <1>2, <1>4 DEF PagesHold
  <1>8. PanelHolds'
    <2>1. t \notin v9.gaveUp /\ \A q \in Sent : q.kind = "recover" => q.token # t
      BY <1>3, TokensAssumption DEF TokensHold
    <2> QED
      BY <1>1, <1>2, <1>4, <1>5, <2>1 DEF PanelHolds
  <1>9. TokensHold'
    BY <1>2, <1>4, <1>5 DEF TokensHold
  <1>10. CodesHold'
    BY <1>2, <1>4, <1>5 DEF CodesHold
  <1>11. KeysHold(v1)' /\ ResetHolds(v1)'
    BY <1>2, <1>4 DEF KeysHold, ResetHolds
  <1> QED
    BY <1>6, <1>7, <1>8, <1>9, <1>10, <1>11

LEMMA RecoveryAfterMarksSaved == ASSUME RecoveryInv, Recovery!MarksSaved PROVE RecoveryInv'
  <1> USE DEF RecoveryInv
  <1>1. /\ v2 = "settings" /\ v6.token # Off /\ v6' = [v6 EXCEPT !.saved = ~@]
        /\ v9' = [[v9 EXCEPT !.kept = @ \cup {v6.token}] EXCEPT !.acts = @ + 1]
        /\ UNCHANGED <<v1, v2, v3, v4, v5, v7, v8>>
    BY DEF Recovery!MarksSaved, Recovery!Acts
  <1>2. /\ v6.token \in v9.used \ v9.gaveUp /\ v6.token \in Tokens
        /\ \A q \in Sent : q.kind = "recover" => q.token # v6.token
    BY <1>1, EmptyIsTyped DEF PanelHolds, RecoveryTypes
  <1>3. /\ v9' \in AnyOwner /\ v9'.kept = v9.kept \cup {v6.token} /\ v9'.gaveUp = v9.gaveUp
        /\ v9'.used = v9.used
        /\ v9'.secret = v9.secret /\ v9'.submitted = v9.submitted /\ v9'.code = v9.code
    <2> DEFINE u == [v9 EXCEPT !.kept = @ \cup {v6.token}]
    <2>1. /\ u \in AnyOwner /\ u.kept = v9.kept \cup {v6.token} /\ u.gaveUp = v9.gaveUp
          /\ u.used = v9.used
          /\ u.secret = v9.secret /\ u.submitted = v9.submitted /\ u.code = v9.code
      BY <1>2, OwnerIs DEF AnyOwner, KeysOf
    <2>2. v9' = [u EXCEPT !.acts = @ + 1]
      BY <1>1
    <2> HIDE DEF u
    <2> QED
      BY <2>1, <2>2, ActsKeep
  <1>4. v6' \in [token : Tokens \cup {Off}, saved : BOOLEAN] /\ v6'.token = v6.token
    BY <1>1 DEF RecoveryTypes
  <1>5. Sent' = Sent
    BY <1>1 DEF Sent
  <1>6. RecoveryTypes'
    BY <1>1, <1>3, <1>4 DEF RecoveryTypes
  <1>7. PagesHold'
    BY <1>1, <1>3, BlankIs DEF PagesHold
  <1>8. PanelHolds'
    BY <1>1, <1>2, <1>3, <1>4, <1>5 DEF PanelHolds
  <1>9. TokensHold'
    BY <1>1, <1>2, <1>3, <1>5 DEF TokensHold
  <1>10. CodesHold'
    BY <1>1, <1>3, <1>5 DEF CodesHold
  <1>11. KeysHold(v1)' /\ ResetHolds(v1)'
    BY <1>1, <1>3 DEF KeysHold, ResetHolds
  <1> QED
    BY <1>6, <1>7, <1>8, <1>9, <1>10, <1>11

\* a recovery that is sent, for the first time or once more
LEMMA RecoveryAfterSubmits == ASSUME RecoveryInv, Recovery!Submits PROVE RecoveryInv'
  <1> USE DEF RecoveryInv
  <1>1. v2 = "key" /\ v3.key # Off /\ v3.password # Off /\ UNCHANGED <<v1, v2, v3, v5, v6, v8>>
    BY DEF Recovery!Submits
  <1> DEFINE Other == v4.key.key # v3.key \/ v4.key.password # v3.password
             A(t) == IF Recovery!ReusesKey(v4.key) THEN v4.key
                     ELSE [Recovery!Blank EXCEPT !.kind = "recover", !.token = t, !.key = v3.key,
                                                 !.password = v3.password]
  <1>2. PICK t \in IF Recovery!ReusesKey(v4.key) THEN {v4.key.token} ELSE Recovery!Fresh :
          /\ v4' = [v4 EXCEPT !.key = A(t)] /\ Recovery!Sends(A(t))
          /\ v9' = [[IF Other THEN Recovery!Forgets(v9) ELSE v9 EXCEPT
                       !.used = @ \cup {t}, !.submitted = v3.password] EXCEPT !.acts = @ + 1]
    BY DEF Recovery!Submits, Recovery!Acts
  <1> DEFINE a == A(t)
  <1>3. v3.key \in v9.kept /\ v3.key \in KeysOf /\ v3.password \in AnyPassword
    BY <1>1, OwnerIs DEF TokensHold, AnyOwner, RecoveryTypes
  <1>4. v5 = Off /\ v6 = Recovery!NoRotation /\ v4.totp = Recovery!Blank
    BY <1>1 DEF PagesHold, PanelHolds
  <1>5. CASE Recovery!ReusesKey(v4.key)
    <2>1. v4.key # Recovery!Blank /\ v4.key.kind = "recover" /\ a = v4.key /\ t = v4.key.token
          /\ v4.key.password = v3.password /\ v4.key.key = v3.key /\ ~Other
      BY <1>1, <1>2, <1>5, BlankIs DEF PagesHold, Recovery!ReusesKey, Recovery!Blank
    <2>2. v4.key \in Sent /\ t \in v9.used /\ t \in Tokens /\ v4 \in [key : AnyRequest, totp : AnyRequest]
      BY <2>1, OwnerIs DEF Sent, TokensHold, RecoveryTypes, AnyOwner
    <2>3. v4' = v4
      BY <1>2, <2>1, <2>2
    <2> DEFINE u == [v9 EXCEPT !.used = @ \cup {t}, !.submitted = v3.password]
    <2>4. /\ u \in AnyOwner /\ u.kept = v9.kept /\ u.gaveUp = v9.gaveUp /\ u.used = v9.used
          /\ u.secret = v9.secret /\ u.submitted = v3.password /\ u.code = v9.code
      BY <1>3, <2>2, OwnerIs DEF AnyOwner
    <2>5. v9' = [u EXCEPT !.acts = @ + 1]
      BY <1>2, <2>1
    <2> HIDE DEF u
    <2>6. /\ v9' \in AnyOwner /\ v9'.kept = v9.kept /\ v9'.gaveUp = v9.gaveUp /\ v9'.used = v9.used
          /\ v9'.secret = v9.secret /\ v9'.submitted = v3.password /\ v9'.code = v9.code
      BY <2>4, <2>5, ActsKeep
    <2>7. v7 = Recovery!NoCall /\ v7' = [q |-> v4.key, try |-> 1, answer |-> "none"]
      BY <1>2, <2>1 DEF Recovery!Sends, Recovery!Waiting
    <2>8. Sent' \subseteq Sent
      BY <1>1, <2>3, <2>7 DEF Sent
    <2>9. RecoveryTypes'
      BY <1>1, <2>2, <2>3, <2>6, <2>7 DEF RecoveryTypes
    <2>10. PagesHold'
      BY <1>1, <1>4, <2>1, <2>3, <2>6, <2>7 DEF PagesHold
    <2>11. PanelHolds'
      BY <1>1, <1>4 DEF PanelHolds
    <2>12. TokensHold'
      BY <1>1, <2>3, <2>6, <2>8 DEF TokensHold
    <2>13. CodesHold'
      BY <1>1, <2>3, <2>6, <2>8 DEF CodesHold
    <2>14. KeysHold(v1)' /\ ResetHolds(v1)'
      BY <1>1, <2>3, <2>6 DEF KeysHold, ResetHolds
    <2> QED
      BY <2>9, <2>10, <2>11, <2>12, <2>13, <2>14
  <1>6. CASE ~Recovery!ReusesKey(v4.key)
    <2>1. a = [Recovery!Blank EXCEPT !.kind = "recover", !.token = t, !.key = v3.key,
                                     !.password = v3.password] /\ Other
      BY <1>6 DEF Recovery!ReusesKey
    <2>2. t \in Tokens /\ t \notin v9.used
      BY <1>2, <1>6 DEF Recovery!Fresh
    <2>3. a \in AnyRequest /\ a.kind = "recover" /\ a.token = t /\ a.key = v3.key
          /\ a.password = v3.password
      BY <1>3, <2>1, <2>2, BlankIs DEF AnyRequest
    <2> DEFINE o == Recovery!Forgets(v9)
               u == [o EXCEPT !.used = @ \cup {t}, !.submitted = v3.password]
    <2>4. v9' = [u EXCEPT !.acts = @ + 1] /\ v4' = [v4 EXCEPT !.key = a]
          /\ v7 = Recovery!NoCall /\ v7' = [q |-> a, try |-> 1, answer |-> "none"]
      BY <1>2, <2>1 DEF Recovery!Sends, Recovery!Waiting
    <2>5. /\ o \in AnyOwner /\ o.kept = v9.kept /\ o.gaveUp = v9.gaveUp \cup {v4.key.token, v5}
          /\ o.used = v9.used /\ o.secret = v9.secret /\ o.code = v9.code
      BY ForgetsKeep
    <2> HIDE DEF o
    <2>6. /\ u \in AnyOwner /\ u.kept = v9.kept /\ u.gaveUp = v9.gaveUp \cup {v4.key.token, v5}
          /\ u.used = v9.used \cup {t} /\ u.secret = v9.secret /\ u.submitted = v3.password
          /\ u.code = v9.code
      BY <1>3, <2>2, <2>5 DEF AnyOwner
    <2> HIDE DEF u
    <2>7. /\ v9' \in AnyOwner /\ v9'.kept = v9.kept /\ v9'.gaveUp = v9.gaveUp \cup {v4.key.token, Off}
          /\ v9'.used = v9.used \cup {t} /\ v9'.secret = v9.secret
          /\ v9'.submitted = v3.password /\ v9'.code = v9.code
      BY <1>4, <2>4, <2>6, ActsKeep
    <2> HIDE DEF a
    <2>8. v4' \in [key : AnyRequest, totp : AnyRequest] /\ v4'.key = a /\ v4'.totp = v4.totp
      BY <2>3, <2>4 DEF RecoveryTypes
    <2>9. Sent' \subseteq Sent \cup {a} /\ \A q \in Sent : q.token # t
      BY <1>1, <2>2, <2>4, <2>8, TokensAssumption DEF Sent, TokensHold
    <2>10. /\ t \notin v9.kept /\ t \notin v9.gaveUp /\ t # v4.key.token /\ t # Off
           /\ v9.kept \cap {v4.key.token, Off} = {} /\ v4.key.token \in v9.used \cup {Off}
           /\ a \notin v1.done
      BY <1>4, <2>2, <2>3, <2>9, TokensAssumption, ForgettingLosesNoKey DEF TokensHold, Sent
    <2>11. RecoveryTypes'
      BY <1>1, <2>3, <2>4, <2>7, <2>8 DEF RecoveryTypes
    <2>12. PagesHold'
      BY <1>1, <1>4, <2>3, <2>4, <2>7, <2>8, <2>10 DEF PagesHold
    <2>13. PanelHolds'
      BY <1>1, <1>4 DEF PanelHolds
    <2>14. TokensHold'
      <3>1. ASSUME NEW q \in Sent, q.kind = "recover"
            PROVE  /\ q.token # Off /\ q.key \in v9'.kept
                   /\ q.token \in v9'.kept \cup v9'.gaveUp \cup {t}
                   /\ q.token \in v9'.kept => q \in v1.done
                   /\ \A p \in Sent \cup {a} : p.token = q.token => p = q
        BY <2>3, <2>7, <2>9, <3>1 DEF TokensHold
      <3>2. \A p \in Sent \cup {a} : p.token = a.token => p = a
        BY <2>3, <2>9
      <3>3. \A q \in Sent' : q.kind = "recover" =>
              /\ q.token # Off /\ q.key \in v9'.kept
              /\ q.token \in v9'.kept \cup v9'.gaveUp \cup {t}
              /\ q.token \in v9'.kept => q \in v1.done
              /\ \A p \in Sent' : p.token = q.token => p = q
        BY <1>3, <2>3, <2>7, <2>9, <2>10, <3>1, <3>2
      <3>4. \A q \in Sent' : /\ q.token \in v9'.used \cup {Off}
                             /\ q.kind = "reset" => q.token # Off /\ q.key \in v9'.kept
                             /\ q.kind = "rotate" => q.token \in v9'.kept
        BY <2>3, <2>7, <2>9 DEF TokensHold
      <3>5. /\ v9'.kept \subseteq v9'.used \cup {None} /\ v9'.gaveUp \subseteq v9'.used \cup {Off}
            /\ v9'.kept \cap v9'.gaveUp = {} /\ v9'.secret \in v9'.kept
            /\ v3'.key \in v9'.kept \cup {Off}
        BY <1>1, <1>3, <2>7, <2>10 DEF TokensHold
      <3> QED
        BY <1>1, <2>3, <2>8, <3>3, <3>4, <3>5 DEF TokensHold
    <2>15. CodesHold'
      BY <1>1, <1>4, <2>3, <2>7, <2>8, <2>9, BlankIs DEF CodesHold
    <2>16. KeysHold(v1)' /\ ResetHolds(v1)'
      BY <1>1, <1>4, <2>7, <2>8, BlankIs DEF KeysHold, ResetHolds
    <2> QED
      BY <2>11, <2>12, <2>13, <2>14, <2>15, <2>16
  <1> QED
    BY <1>5, <1>6

\* a reset that is sent, for the first time or once more
LEMMA RecoveryAfterCompletesTOTP == ASSUME RecoveryInv, Recovery!CompletesTOTP PROVE RecoveryInv'
  <1> USE DEF RecoveryInv
  <1>1. /\ v2 = "totp" /\ v3.challenge # 0 /\ v3.code # 0 /\ v3.password # Off
        /\ UNCHANGED <<v1, v2, v3, v5, v6, v8>>
    BY DEF Recovery!CompletesTOTP
  <1> DEFINE A(t) == IF Recovery!ReusesTOTP(v4.totp) THEN v4.totp
                     ELSE [Recovery!Blank EXCEPT !.kind = "reset", !.token = t, !.key = v9.secret,
                               !.challenge = v3.challenge, !.code = v3.code,
                               !.password = v3.password]
  <1>2. PICK t \in IF Recovery!ReusesTOTP(v4.totp) THEN {v4.totp.token} ELSE Recovery!Fresh :
          /\ v4' = [v4 EXCEPT !.totp = A(t)] /\ Recovery!Sends(A(t))
          /\ v9' = [[v9 EXCEPT !.used = @ \cup {t}, !.submitted = v3.password]
                      EXCEPT !.acts = @ + 1]
    BY DEF Recovery!CompletesTOTP, Recovery!Acts
  <1> DEFINE a == A(t)
  <1>3. /\ v3.code = v9.code /\ v3.code \in Nat /\ v3.challenge \in Nat
        /\ v3.password \in AnyPassword /\ v9.secret \in v9.kept /\ v9.secret \in KeysOf
    BY <1>1, OwnerIs DEF TokensHold, CodesHold, AnyOwner, RecoveryTypes
  <1>4. v5 = Off /\ v6 = Recovery!NoRotation /\ v4.key = Recovery!Blank
        /\ (v4.totp = Recovery!Blank \/ v4.totp.kind = "reset")
    BY <1>1 DEF PagesHold, PanelHolds
  <1>5. v4 \in [key : AnyRequest, totp : AnyRequest] /\ v4.totp \in Sent
    BY DEF RecoveryTypes, Sent
  <1>6. /\ a \in AnyRequest /\ a.kind = "reset" /\ a.token = t /\ t \in Tokens
        /\ a.key \in v9.kept /\ a.password = v3.password
        /\ a = v4.totp \/ (a.code = v9.code /\ t \notin v9.used)
    <2>1. CASE Recovery!ReusesTOTP(v4.totp)
      <3>1. v4.totp # Recovery!Blank /\ a = v4.totp /\ t = v4.totp.token
            /\ v4.totp.password = v3.password
        BY <1>1, <1>2, <2>1 DEF Recovery!ReusesTOTP, Recovery!Blank
      <3>2. v4.totp.kind = "reset" /\ v4.totp \in AnyRequest /\ v4.totp.key \in v9.kept
            /\ v4.totp.token \in Tokens
        BY <1>4, <1>5, <3>1 DEF TokensHold, AnyRequest
      <3> QED
        BY <3>1, <3>2
    <2>2. CASE ~Recovery!ReusesTOTP(v4.totp)
      <3>1. t \in Tokens /\ t \notin v9.used
        BY <1>2, <2>2 DEF Recovery!Fresh
      <3>2. a = [Recovery!Blank EXCEPT !.kind = "reset", !.token = t, !.key = v9.secret,
                     !.challenge = v3.challenge, !.code = v3.code, !.password = v3.password]
        BY <2>2
      <3>3. a \in AnyRequest /\ a.kind = "reset" /\ a.token = t /\ a.key = v9.secret
            /\ a.password = v3.password /\ a.code = v3.code
        BY <1>3, <3>1, <3>2, BlankIs DEF AnyRequest
      <3> QED
        BY <1>3, <3>1, <3>3
    <2> QED
      BY <2>1, <2>2
  <1>7. v7 = Recovery!NoCall /\ v7' = [q |-> a, try |-> 1, answer |-> "none"]
        /\ v4' = [v4 EXCEPT !.totp = a]
    BY <1>2 DEF Recovery!Sends, Recovery!Waiting
  <1> DEFINE u == [v9 EXCEPT !.used = @ \cup {t}, !.submitted = v3.password]
  <1>8. /\ u \in AnyOwner /\ u.kept = v9.kept /\ u.gaveUp = v9.gaveUp /\ u.used = v9.used \cup {t}
        /\ u.secret = v9.secret /\ u.submitted = v3.password /\ u.code = v9.code
    BY <1>3, <1>6, OwnerIs DEF AnyOwner
  <1>9. v9' = [u EXCEPT !.acts = @ + 1]
    BY <1>2
  <1> HIDE DEF u, a
  <1>10. /\ v9' \in AnyOwner /\ v9'.kept = v9.kept /\ v9'.gaveUp = v9.gaveUp
         /\ v9'.used = v9.used \cup {t} /\ v9'.secret = v9.secret
         /\ v9'.submitted = v3.password /\ v9'.code = v9.code
    BY <1>8, <1>9, ActsKeep
  <1>11. v4' \in [key : AnyRequest, totp : AnyRequest] /\ v4'.key = v4.key /\ v4'.totp = a
    BY <1>5, <1>6, <1>7
  <1>12. Sent' \subseteq Sent \cup {a}
    BY <1>1, <1>7, <1>11 DEF Sent
  <1>13. a \in Sent \/ \A q \in Sent : q.token # t
    BY <1>5, <1>6, TokensAssumption DEF TokensHold
  <1>14. RecoveryTypes'
    BY <1>1, <1>6, <1>7, <1>10, <1>11 DEF RecoveryTypes
  <1>15. PagesHold'
    BY <1>1, <1>4, <1>6, <1>7, <1>10, <1>11, BlankIs DEF PagesHold
  <1>16. PanelHolds'
    BY <1>1, <1>4 DEF PanelHolds
  <1>17. TokensHold'
    <2>1. ASSUME NEW q \in Sent', q.kind = "recover"
          PROVE  /\ q.token # Off /\ q.key \in v9'.kept
                 /\ q.token \in v9'.kept \cup v9'.gaveUp \cup {v4'.key.token}
                 /\ q.token \in v9'.kept => q \in v1.done
                 /\ \A p \in Sent' : p.token = q.token => p = q
      <3>1. q \in Sent
        BY <1>6, <1>12, <2>1
      <3> QED
        BY <1>6, <1>10, <1>11, <1>12, <1>13, <2>1, <3>1 DEF TokensHold
    <2>2. \A q \in Sent' : /\ q.token \in v9'.used \cup {Off}
                           /\ q.kind = "reset" => q.token # Off /\ q.key \in v9'.kept
                           /\ q.kind = "rotate" => q.token \in v9'.kept
      BY <1>6, <1>10, <1>12, TokensAssumption DEF TokensHold
    <2>3. /\ v9'.kept \subseteq v9'.used \cup {None} /\ v9'.gaveUp \subseteq v9'.used \cup {Off}
          /\ v9'.kept \cap v9'.gaveUp = {} /\ v9'.secret \in v9'.kept
          /\ v3'.key \in v9'.kept \cup {Off}
      BY <1>1, <1>10 DEF TokensHold
    <2> QED
      BY <1>1, <2>1, <2>2, <2>3 DEF TokensHold
  <1>18. CodesHold'
    <2>1. \A q \in Sent : q.kind = "reset" => q.code <= a.code
      BY <1>5, <1>6 DEF CodesHold
    <2>2. a.code <= v9.code /\ a.code \in Nat
      BY <1>5, <1>6, OwnerIs DEF CodesHold, AnyRequest
    <2> QED
      BY <1>1, <1>10, <1>11, <1>12, <2>1, <2>2 DEF CodesHold
  <1>19. KeysHold(v1)'
    BY <1>1, <1>10, <1>11 DEF KeysHold
  <1>20. ResetHolds(v1)'
    <2>1. v1.done \subseteq Sent
      BY DEF Sent
    <2>2. a \in v1.done => a = v4.totp
      BY <1>6, <2>1, TokensAssumption DEF TokensHold
    <2> QED
      BY <1>1, <1>6, <1>10, <1>11, <2>2 DEF ResetHolds
  <1> QED
    BY <1>14, <1>15, <1>16, <1>17, <1>18, <1>19, <1>20

\* The recovery pages begin so, and every step of the web client keeps it so.
LEMMA RecoveryInitial == WebInit => RecoveryPart
  <1> SUFFICES ASSUME WebInit, part = "recovery" PROVE RecoveryInv
    BY DEF RecoveryPart
  <1>1. Recovery!RecoveryInit
    BY DEF WebInit
  <1>2. /\ v1 = [key |-> None, secret |-> None, password |-> Off, code |-> 0, session |-> FALSE,
                 issued |-> 0, closed |-> {}, done |-> {}]
        /\ v2 \in {"key", "login"} /\ v3 = Recovery!NoForm /\ v4 = Recovery!NoTries
        /\ v5 = Off /\ v6 = Recovery!NoRotation /\ v7 = Recovery!NoCall /\ v8 = {}
        /\ v9 = [kept |-> {None}, secret |-> None, gaveUp |-> {}, used |-> {},
                 submitted |-> Off, code |-> 1, acts |-> 0]
    BY <1>1 DEF Recovery!RecoveryInit
  <1>3. Sent = {Recovery!Blank}
    BY <1>2, BlankIs DEF Sent
  <1>4. RecoveryTypes
    BY <1>2, EmptyIsTyped DEF RecoveryTypes, AnyAccount, AnyOwner, KeysOf, AnyPassword
  <1>5. PagesHold
    BY <1>2, BlankIs DEF PagesHold
  <1>6. PanelHolds
    BY <1>2 DEF PanelHolds
  <1>7. TokensHold
    BY <1>2, <1>3, BlankIs DEF TokensHold
  <1>8. CodesHold
    BY <1>2, <1>3, BlankIs DEF CodesHold
  <1>9. KeysHold(v1) /\ ResetHolds(v1)
    BY <1>2, BlankIs DEF KeysHold, ResetHolds
  <1> QED
    BY <1>4, <1>5, <1>6, <1>7, <1>8, <1>9 DEF RecoveryInv

LEMMA RecoveryStep == RecoveryPart /\ [WebNext]_web => RecoveryPart'
  <1> SUFFICES ASSUME RecoveryPart, [WebNext]_web, part' = "recovery" PROVE RecoveryInv'
    BY DEF RecoveryPart
  <1>1. CASE UNCHANGED web
    <2>1. RecoveryInv /\ UNCHANGED <<v1, v2, v3, v4, v5, v6, v7, v8, v9>>
      BY <1>1 DEF web, RecoveryPart
    <2>2. RecoveryTypes' /\ PagesHold' /\ Sent' = Sent
      BY <2>1 DEF RecoveryInv, RecoveryTypes, PagesHold, Sent
    <2>3. PanelHolds' /\ TokensHold' /\ CodesHold'
      BY <2>1, <2>2, SentShrinks DEF RecoveryInv
    <2>4. KeysHold(v1)' /\ ResetHolds(v1)'
      BY <2>1 DEF RecoveryInv, KeysHold, ResetHolds
    <2> QED
      BY <2>2, <2>3, <2>4 DEF RecoveryInv
  <1>2. CASE WebNext
    <2>1. part = "recovery" /\ Recovery!RecoveryNext
      BY <1>2 DEF WebNext, Rest13, Rest11, Rest10, Rest9, Rest6
    <2>2. RecoveryInv
      BY <2>1 DEF RecoveryPart
    <2>3. CASE Recovery!Requests
      BY <2>2, <2>3, RecoveryAfterServed, RecoveryAfterStrayServed,
         RecoveryAfterConnectionFails, RecoveryAfterResends
         DEF Recovery!Requests
    <2>4. CASE Recovery!Replies
      BY <2>2, <2>4, RecoveryAfterRecoverAnswered, RecoveryAfterStartAnswered,
         RecoveryAfterResetAnswered, RecoveryAfterRotateAnswered, RecoveryAfterChangeAnswered
         DEF Recovery!Replies
    <2>5. CASE Recovery!Owner
      BY <2>2, <2>5, RecoveryAfterFills, RecoveryAfterChooseMode, RecoveryAfterSubmits,
         RecoveryAfterBeginsTOTP, RecoveryAfterCompletesTOTP, RecoveryAfterAsksNewChallenge,
         RecoveryAfterContinues, RecoveryAfterLeaves, RecoveryAfterSignsIn,
         RecoveryAfterPreparesKey, RecoveryAfterMarksSaved, RecoveryAfterRotates,
         RecoveryAfterChangesPassword
         DEF Recovery!Owner
    <2> QED
      BY <2>1, <2>3, <2>4, <2>5 DEF Recovery!RecoveryNext
  <1> QED
    BY <1>1, <1>2

\* The invariant is what the pages promise.
LEMMA RecoveryMeans == ASSUME RecoveryInv
                       PROVE  Recovery!CurrentKeyIsKept /\ Recovery!PageTellsTruth
  <1> USE DEF RecoveryInv
  <1>1. Recovery!CurrentKeyIsKept
    BY DEF KeysHold, Recovery!CurrentKeyIsKept
  <1>2. ASSUME v2 = "result"
        PROVE  v1.password = v9.submitted /\ v1.key = v5 /\ v1.secret = v5
    <2>1. /\ v4.key \in v1.done /\ v4.key.kind = "recover" /\ v5 = v4.key.token
          /\ v4.key.token \notin v9.kept /\ v9.submitted = v4.key.password
      BY <1>2 DEF PagesHold
    <2> QED
      BY <2>1 DEF KeysHold
  <1>3. ASSUME v2 = "reset" PROVE v1.password = v9.submitted \/ v1.key \in v9.gaveUp
    <2>1. /\ v4.totp \in v1.done /\ v4.totp.kind = "reset" /\ v9.submitted = v4.totp.password
      BY <1>3 DEF PagesHold
    <2> QED
      BY <2>1 DEF ResetHolds
  <1> QED
    BY <1>1, <1>2, <1>3 DEF Recovery!PageTellsTruth

\* The key the server accepts is always one the owner has or is about to be shown, and
\* a page that reports a recovery or a reset is right: whatever is retried, answered
\* late, given up or served after the page was left.
THEOREM RecoveryPromise == WebSpec => []RecoveryIsReal
  <1>1. RecoveryPart => RecoveryIsReal
    BY RecoveryMeans DEF RecoveryPart, RecoveryIsReal
  <1> QED
    BY <1>1, RecoveryInitial, RecoveryStep, PTL DEF WebSpec

-----------------------------------------------------------------------------
(* The settings (SettingsPanels) *)

\* The values of the settings' forms: the draft, what is meant by it, what is stored and
\* a save under way.
DraftType == [fields : Panels!Fields \cup {Off}, secret : Panels!Secrets, clear : BOOLEAN]

MeantType == [shown : SUBSET (Panels!Fields \cup {Off}), secret : Panels!Secrets \cup {"keep"}]

StoredType == [fields : Panels!Fields, secret : Panels!Secrets]

SaveType ==
  [id : Nat, form : Panels!Forms, fields : Panels!Fields,
   secret : Panels!Secrets \cup {"keep"}, previous : Panels!Secrets,
   at : {"sent", "read", "stored", "answered"}, open : BOOLEAN,
   shown : SUBSET (Panels!Fields \cup {Off}), wanted : Panels!Secrets \cup {"keep"},
   excused : BOOLEAN]

\* What the variables hold.
PanelTypes ==
  LET held == v1  phase == v3  draft == v5  requests == v6  edits == v8  meant == v9
  IN  /\ held \in [Panels!Forms -> StoredType]
      /\ draft \in [Panels!Forms -> DraftType] /\ meant \in [Panels!Forms -> MeantType]
      /\ requests \subseteq SaveType /\ edits \in Nat /\ phase \in {"loading", "loaded", "failed"}

\* A draft asks for what is meant, and for nothing when its form is not on the page; a form
\* that was loaded holds something that was shown.
FormMeant(f) ==
  LET phase == v3  draft == v5  meant == v9
  IN  /\ f # "smtp" => draft[f].fields \in Panels!Fields
      /\ f \in Panels!Secretive =>
           /\ Panels!Asks(draft[f]) = meant[f].secret
           /\ ~Panels!Here(f) => Panels!Asks(draft[f]) = "keep"
      /\ Panels!Here(f) /\ phase = "loaded" => draft[f].fields \in meant[f].shown

\* a save asks for what was meant, and has what was shown until it is carried out
SaveMeant(r) ==
  LET edits == v8
  IN  /\ r.id < edits
      /\ r.form \in Panels!Secretive => r.secret = r.wanted
      /\ r.at \in {"sent", "read"} => r.fields \in r.shown \/ r.excused

PanelForms == \A f \in Panels!Forms : FormMeant(f)

\* each save has a number of its own
PanelSaves ==
  LET requests == v6
  IN  /\ \A r \in requests : SaveMeant(r)
      /\ \A r, s \in requests : r.id = s.id => r = s

\* The inductive invariant of the settings.
PanelInv == PanelTypes /\ PanelForms /\ PanelSaves

\* The drafts and the empty values.
LEMMA FormsAreFields ==
  /\ \A v \in Panels!Fields \cup {Off} :
        Panels!Draft(v) \in DraftType /\ Panels!Asks(Panels!Draft(v)) = "keep" /\ Panels!Draft(v).fields = v
  /\ Panels!Keeps \in MeantType /\ Panels!Keeps.secret = "keep"
  /\ \A d \in DraftType : Panels!Asks(d) \in Panels!Secrets \cup {"keep"}
  BY DEF Panels!Draft, Panels!Keeps, Panels!Asks, DraftType, MeantType, Panels!Secrets

\* The number of a save that is new is not in use.
LEMMA PanelEdit == ASSUME PanelInv, Panels!Edit PROVE v8' \in Nat /\ v8' = v8 + 1
  BY DEF PanelInv, PanelTypes, Panels!Edit

\* A save keeps its meaning while what it was sent with does not change.
LEMMA PanelSavesStay ==
  ASSUME PanelInv, v6' \subseteq v6, v8' \in Nat, v8' >= v8
  PROVE  v6' \subseteq SaveType /\ PanelSaves'
  <1>1. \A r \in v6 : r \in SaveType /\ SaveMeant(r)
    BY DEF PanelInv, PanelTypes, PanelSaves
  <1>2. \A r \in v6 : SaveMeant(r)'
    BY <1>1 DEF SaveMeant, SaveType, PanelInv, PanelTypes
  <1> QED
    BY <1>1, <1>2 DEF PanelInv, PanelSaves

\* One step of a save under way.
LEMMA PanelSaveSteps ==
  ASSUME PanelInv, NEW r \in v6, NEW s \in SaveType, Panels!Step(r, s), v8' \in Nat, v8' >= v8,
         s.id = r.id, s.form = r.form, s.secret = r.secret, s.wanted = r.wanted,
         s.at \in {"stored", "answered"} \/
           (r.at \in {"sent", "read"} /\ s.fields = r.fields /\ s.shown = r.shown
              /\ (s.excused <=> r.excused))
  PROVE  v6' \subseteq SaveType /\ PanelSaves'
  <1>1. \A q \in v6 : q \in SaveType /\ SaveMeant(q)
    BY DEF PanelInv, PanelTypes, PanelSaves
  <1>2. \A q \in v6 : SaveMeant(q)'
    BY <1>1 DEF SaveMeant, SaveType, PanelInv, PanelTypes
  <1>3. SaveMeant(s)'
    BY <1>2 DEF SaveMeant
  <1>4. v6' = (v6 \ {r}) \cup {s}
    BY DEF Panels!Step
  <1>5. \A p, q \in v6' : p.id = q.id => p = q
    BY <1>4 DEF PanelInv, PanelSaves
  <1> QED
    BY <1>1, <1>2, <1>3, <1>4, <1>5 DEF PanelSaves

\* The forms keep their meaning while the page leaves them alone.
LEMMA PanelFormsStay ==
  ASSUME PanelInv, UNCHANGED <<v2, v3, v5, v9>>, v1' \in [Panels!Forms -> StoredType],
         v8' \in Nat, v6' \subseteq SaveType, PanelSaves'
  PROVE  PanelInv'
  BY DEF PanelInv, PanelTypes, PanelForms, FormMeant, Panels!Here

\* Each action of SettingsPanels keeps the invariant.
LEMMA PanelAfterOpens == ASSUME PanelInv, Panels!Opens PROVE PanelInv'
  <1>1. /\ v1' = v1 /\ v3' = "loading" /\ v8' \in Nat /\ v8' >= v8
        /\ v5' = [f \in Panels!Forms |-> Panels!Draft(Default)]
        /\ v9' = [f \in Panels!Forms |-> Panels!Keeps]
        /\ v6' = {[r EXCEPT !.open = FALSE] : r \in v6}
    BY PanelEdit DEF Panels!Opens, PanelInv, PanelTypes
  <1>2. \A r \in v6 : /\ r \in SaveType /\ SaveMeant(r)
                      /\ [r EXCEPT !.open = FALSE] \in SaveType
                      /\ [r EXCEPT !.open = FALSE].id = r.id
    BY DEF PanelInv, PanelTypes, PanelSaves, SaveType
  <1>3. \A r \in v6 : SaveMeant([r EXCEPT !.open = FALSE])'
    <2> TAKE r \in v6
    <2> DEFINE s == [r EXCEPT !.open = FALSE]
    <2>1. /\ s.id = r.id /\ s.form = r.form /\ s.secret = r.secret /\ s.wanted = r.wanted
          /\ s.at = r.at /\ s.fields = r.fields /\ s.shown = r.shown /\ (s.excused <=> r.excused)
      BY <1>2 DEF SaveType
    <2>2. r.id \in Nat /\ SaveMeant(r)
      BY <1>2 DEF SaveType
    <2> HIDE DEF s
    <2> QED
      BY <1>1, <2>1, <2>2 DEF SaveMeant, PanelInv, PanelTypes
  <1>4. PanelSaves'
    <2>1. ASSUME NEW p \in v6', NEW q \in v6', p.id = q.id PROVE p = q
      <3>1. PICK r \in v6 : p = [r EXCEPT !.open = FALSE]
        BY <1>1
      <3>2. PICK s \in v6 : q = [s EXCEPT !.open = FALSE]
        BY <1>1
      <3>3. p.id = r.id /\ q.id = s.id
        BY <1>2, <3>1, <3>2
      <3>4. r = s
        BY <2>1, <3>3 DEF PanelInv, PanelSaves
      <3> QED
        BY <3>1, <3>2, <3>4
    <2> QED
      BY <1>1, <1>3, <2>1 DEF PanelSaves
  <1>5. PanelTypes'
    BY <1>1, <1>2, FormsAreFields DEF PanelInv, PanelTypes, Panels!Fields
  <1>6. PanelForms'
    <2>1. \A f \in Panels!Forms : Panels!Asks(v5'[f]) = "keep" /\ v9'[f].secret = "keep" /\ v5'[f].fields \in Panels!Fields
      BY <1>1, FormsAreFields DEF Panels!Fields
    <2> QED
      BY <1>1, <2>1 DEF PanelForms, FormMeant
  <1> QED
    BY <1>4, <1>5, <1>6 DEF PanelInv

LEMMA PanelAfterLoads == ASSUME PanelInv, Panels!Loads PROVE PanelInv'
  <1>0. v6' = v6 /\ v1' = v1 /\ v2' = v2 /\ v8' \in Nat /\ v8' >= v8
    BY PanelEdit DEF Panels!Loads, PanelInv, PanelTypes
  <1>1. v6' \subseteq SaveType /\ PanelSaves'
    BY <1>0, PanelSavesStay
  <1>2. CASE v3' = "failed" /\ v5' = v5 /\ v9' = v9
    BY <1>0, <1>1, <1>2 DEF PanelInv, PanelTypes, PanelForms, FormMeant, Panels!Here
  <1>3. CASE /\ v3' = "loaded"
             /\ v5' = [f \in Panels!Forms |-> IF Panels!Here(f) THEN Panels!Draft(v1[f].fields) ELSE v5[f]]
             /\ v9' = [f \in Panels!Forms |-> [Panels!Keeps EXCEPT !.shown = {v1[f].fields}]]
    <2> DEFINE m(f) == [Panels!Keeps EXCEPT !.shown = {v1[f].fields}]
               d(f) == IF Panels!Here(f) THEN Panels!Draft(v1[f].fields) ELSE v5[f]
    <2>1. \A f \in Panels!Forms : v1[f].fields \in Panels!Fields /\ v5[f] \in DraftType
      BY DEF PanelInv, PanelTypes, StoredType
    <2>2. \A f \in Panels!Forms : m(f) \in MeantType /\ m(f).shown = {v1[f].fields} /\ m(f).secret = "keep"
      BY <2>1 DEF Panels!Keeps, MeantType
    <2>3. \A f \in Panels!Forms : /\ d(f) \in DraftType
                                  /\ f # "smtp" => d(f).fields \in Panels!Fields
                                  /\ f \in Panels!Secretive => Panels!Asks(d(f)) = "keep"
                                  /\ Panels!Here(f) => d(f).fields = v1[f].fields
      BY <2>1, FormsAreFields DEF PanelInv, PanelForms, FormMeant
    <2>4. v5' = [f \in Panels!Forms |-> d(f)] /\ v9' = [f \in Panels!Forms |-> m(f)]
      BY <1>3
    <2> HIDE DEF m, d
    <2>7. v3' \in {"loading", "loaded", "failed"}
      BY <1>3
    <2>8. /\ v5' \in [Panels!Forms -> DraftType]
          /\ v9' \in [Panels!Forms -> MeantType]
      BY <2>2, <2>3, <2>4
    <2>5. PanelTypes'
      BY <1>0, <1>1, <2>7, <2>8 DEF PanelInv, PanelTypes
    <2>6. PanelForms'
      BY <1>0, <2>2, <2>3, <2>4 DEF PanelForms, FormMeant, Panels!Here
    <2> QED
      BY <1>1, <2>5, <2>6 DEF PanelInv
  <1> QED
    BY <1>2, <1>3 DEF Panels!Loads

LEMMA PanelAfterTypes == ASSUME PanelInv, NEW f \in Panels!Forms, Panels!Types(f) PROVE PanelInv'
  <1>0. /\ UNCHANGED <<v1, v2, v3, v4, v6, v7>> /\ Panels!Here(f)
        /\ v5[f] \in DraftType /\ v9[f] \in MeantType /\ FormMeant(f)
        /\ v8' \in Nat /\ v8' >= v8
    BY PanelEdit DEF Panels!Types, PanelInv, PanelTypes, PanelForms
  <1>1. PICK d \in DraftType, m \in MeantType :
          /\ v5' = [v5 EXCEPT ![f] = d] /\ v9' = [v9 EXCEPT ![f] = m]
          /\ f \in Panels!Secretive => Panels!Asks(d) = m.secret
          /\ v9[f].shown \subseteq m.shown
          /\ d.fields = v5[f].fields \/ d.fields \in m.shown
          /\ f # "smtp" => d.fields \in Panels!Fields
    <2>1. CASE \E v \in Panels!Typed(f) : /\ v5' = [v5 EXCEPT ![f].fields = v]
                                          /\ v9' = [v9 EXCEPT ![f].shown = @ \cup {v}]
      <3> PICK v \in Panels!Typed(f) : /\ v5' = [v5 EXCEPT ![f].fields = v]
                                       /\ v9' = [v9 EXCEPT ![f].shown = @ \cup {v}]
        BY <2>1
      <3> DEFINE d == [v5[f] EXCEPT !.fields = v]
                 m == [v9[f] EXCEPT !.shown = @ \cup {v}]
      <3>0. v \in Panels!Fields \cup {Off} /\ (f # "smtp" => v \in Panels!Fields)
        BY DEF Panels!Typed, Panels!Fields
      <3>1. /\ d \in DraftType /\ m \in MeantType /\ m.secret = v9[f].secret
            /\ (d.clear <=> v5[f].clear) /\ d.secret = v5[f].secret
            /\ v9[f].shown \subseteq m.shown /\ d.fields \in m.shown /\ d.fields = v
        BY <1>0, <3>0 DEF DraftType, MeantType
      <3>2. v5' = [v5 EXCEPT ![f] = d] /\ v9' = [v9 EXCEPT ![f] = m]
        OBVIOUS
      <3>3. Panels!Asks(d) = Panels!Asks(v5[f])
        BY <3>1 DEF Panels!Asks
      <3> HIDE DEF d, m
      <3> QED
        BY <1>0, <3>0, <3>1, <3>2, <3>3 DEF FormMeant
    <2>2. CASE f \in Panels!Secretive /\ \E v \in Values :
                 /\ v5' = [v5 EXCEPT ![f].secret = v, ![f].clear = FALSE]
                 /\ v9' = [v9 EXCEPT ![f].secret = v]
      <3> PICK v \in Values : /\ v5' = [v5 EXCEPT ![f].secret = v, ![f].clear = FALSE]
                              /\ v9' = [v9 EXCEPT ![f].secret = v]
        BY <2>2
      <3> DEFINE d == [v5[f] EXCEPT !.secret = v, !.clear = FALSE]
                 m == [v9[f] EXCEPT !.secret = v]
      <3>1. /\ d \in DraftType /\ m \in MeantType /\ m.secret = v
            /\ ~d.clear /\ d.secret = v /\ d.fields = v5[f].fields
            /\ v9[f].shown \subseteq m.shown
        BY <1>0 DEF DraftType, MeantType, Panels!Secrets
      <3>2. v5' = [v5 EXCEPT ![f] = d] /\ v9' = [v9 EXCEPT ![f] = m]
        BY <1>0 DEF PanelInv, PanelTypes, DraftType, MeantType
      <3> HIDE DEF d, m
      <3>3. Panels!Asks(d) = v
        BY <3>1, NoneAssumption DEF Panels!Asks
      <3> QED
        BY <1>0, <3>1, <3>2, <3>3 DEF FormMeant
    <2>3. CASE f \in Panels!Secretive /\ \E b \in BOOLEAN :
                 /\ v5' = [v5 EXCEPT ![f].clear = b, ![f].secret = None]
                 /\ v9' = [v9 EXCEPT ![f].secret = IF b THEN None ELSE "keep"]
      <3> PICK b \in BOOLEAN : /\ v5' = [v5 EXCEPT ![f].clear = b, ![f].secret = None]
                               /\ v9' = [v9 EXCEPT ![f].secret = IF b THEN None ELSE "keep"]
        BY <2>3
      <3> DEFINE w == IF b THEN None ELSE "keep"
                 d == [v5[f] EXCEPT !.clear = b, !.secret = None]
                 m == [v9[f] EXCEPT !.secret = w]
      <3>0. w \in Panels!Secrets \cup {"keep"}
        BY DEF Panels!Secrets
      <3>2. v5' = [v5 EXCEPT ![f] = d] /\ v9' = [v9 EXCEPT ![f] = m]
        BY <1>0 DEF PanelInv, PanelTypes, DraftType, MeantType
      <3>3. Panels!Asks(d) = w
        BY <1>0 DEF Panels!Asks, DraftType
      <3> HIDE DEF w
      <3>1. /\ d \in DraftType /\ m \in MeantType /\ m.secret = w /\ d.fields = v5[f].fields
            /\ v9[f].shown \subseteq m.shown
        BY <1>0, <3>0 DEF DraftType, MeantType, Panels!Secrets
      <3> HIDE DEF d, m
      <3> QED
        BY <1>0, <3>1, <3>2, <3>3 DEF FormMeant
    <2> QED
      BY <2>1, <2>2, <2>3 DEF Panels!Types
  <1>2. v6' \subseteq SaveType /\ PanelSaves'
    BY <1>0, PanelSavesStay
  <1>3. PanelTypes'
    BY <1>0, <1>1, <1>2 DEF PanelInv, PanelTypes
  <1>4. PanelForms'
    <2>1. \A g \in Panels!Forms \ {f} : v5'[g] = v5[g] /\ v9'[g] = v9[g]
      BY <1>1 DEF PanelInv, PanelTypes
    <2>2. v5'[f] = d /\ v9'[f] = m
      BY <1>1 DEF PanelInv, PanelTypes
    <2>3. \A g \in Panels!Forms \ {f} : FormMeant(g)'
      BY <1>0, <2>1 DEF PanelInv, PanelForms, FormMeant, Panels!Here
    <2>4. FormMeant(f)'
      BY <1>0, <1>1, <2>2 DEF FormMeant, Panels!Here
    <2> QED
      BY <2>3, <2>4 DEF PanelForms
  <1> QED
    BY <1>2, <1>3, <1>4 DEF PanelInv

LEMMA PanelAfterSaves == ASSUME PanelInv, NEW f \in Panels!Forms, Panels!Saves(f) PROVE PanelInv'
  <1>0. /\ UNCHANGED <<v1, v2, v3, v4, v5, v7, v9>> /\ v8' = v8 + 1 /\ v8 \in Nat
        /\ Panels!Here(f) /\ v3 # "loading" /\ v5[f] \in DraftType /\ v9[f] \in MeantType
        /\ FormMeant(f)
    BY PanelEdit DEF Panels!Saves, Panels!Ready, PanelInv, PanelTypes, PanelForms
  <1>1. PICK v \in Panels!Mended(f) :
          v6' = v6 \cup
            {[id |-> v8, form |-> f, fields |-> v, secret |-> Panels!Asks(v5[f]), previous |-> None,
              at |-> "sent", open |-> TRUE, shown |-> v9[f].shown, wanted |-> v9[f].secret,
              excused |-> v3 = "failed" \/ v # v5[f].fields]}
    BY DEF Panels!Saves
  <1>2. v \in Panels!Fields
    BY <1>0 DEF Panels!Mended, DraftType, FormMeant
  <1>5. PICK s \in SaveType :
          /\ s.id = v8 /\ s.form = f /\ s.fields = v /\ s.secret = Panels!Asks(v5[f])
          /\ s.wanted = v9[f].secret /\ s.shown = v9[f].shown
          /\ s.excused <=> (v3 = "failed" \/ v # v5[f].fields)
          /\ v6' = v6 \cup {s}
    <2> DEFINE s == [id |-> v8, form |-> f, fields |-> v, secret |-> Panels!Asks(v5[f]), previous |-> None,
                     at |-> "sent", open |-> TRUE, shown |-> v9[f].shown, wanted |-> v9[f].secret,
                     excused |-> v3 = "failed" \/ v # v5[f].fields]
    <2>1. Panels!Asks(v5[f]) \in Panels!Secrets \cup {"keep"} /\ None \in Panels!Secrets
      BY <1>0, FormsAreFields DEF Panels!Secrets
    <2>2. v9[f].shown \in SUBSET (Panels!Fields \cup {Off}) /\ v9[f].secret \in Panels!Secrets \cup {"keep"}
      BY <1>0 DEF MeantType
    <2>3. (v3 = "failed" \/ v # v5[f].fields) \in BOOLEAN
      OBVIOUS
    <2>4. s \in SaveType
      BY <1>0, <1>2, <2>1, <2>2, <2>3 DEF SaveType
    <2>5. /\ s.id = v8 /\ s.form = f /\ s.fields = v /\ s.secret = Panels!Asks(v5[f])
          /\ s.wanted = v9[f].secret /\ s.shown = v9[f].shown
          /\ s.excused <=> (v3 = "failed" \/ v # v5[f].fields)
      OBVIOUS
    <2>6. v6' = v6 \cup {s}
      BY <1>1
    <2> HIDE DEF s
    <2> QED
      BY <2>4, <2>5, <2>6
  <1>6. \A q \in v6 : q \in SaveType /\ SaveMeant(q) /\ q.id < v8
    BY DEF PanelInv, PanelTypes, PanelSaves, SaveMeant
  <1>7. \A q \in v6 : SaveMeant(q)' /\ q.id # s.id
    BY <1>0, <1>5, <1>6 DEF SaveMeant, SaveType
  <1>8. SaveMeant(s)'
    <2>1. s.id < v8'
      BY <1>0, <1>5
    <2>2. s.form \in Panels!Secretive => s.secret = s.wanted
      BY <1>0, <1>5 DEF FormMeant
    <2>3. s.fields \in s.shown \/ s.excused
      <3>1. CASE v3 = "loaded" /\ v = v5[f].fields
        BY <1>0, <1>5, <3>1 DEF FormMeant
      <3>2. CASE v3 # "loaded" \/ v # v5[f].fields
        BY <1>0, <1>5, <3>2 DEF PanelInv, PanelTypes
      <3> QED
        BY <3>1, <3>2
    <2> QED
      BY <2>1, <2>2, <2>3 DEF SaveMeant
  <1>9. v6' \subseteq SaveType /\ PanelSaves'
    BY <1>5, <1>6, <1>7, <1>8 DEF PanelSaves, PanelInv
  <1> QED
    BY <1>0, <1>9, PanelFormsStay DEF PanelInv, PanelTypes

LEMMA PanelAfterServes == ASSUME PanelInv, NEW r \in v6, Panels!Serves(r) PROVE PanelInv'
  <1>0. /\ r \in SaveType /\ SaveMeant(r) /\ r.form \in Panels!Forms /\ v8 \in Nat
        /\ v1 \in [Panels!Forms -> StoredType] /\ v1[r.form] \in StoredType
    BY DEF PanelInv, PanelTypes, PanelSaves, SaveType
  <1>1. v8' \in Nat /\ v8' >= v8
    BY <1>0, PanelEdit
       DEF Panels!Serves, Panels!ReadsSecret, Panels!Stores, Panels!SaveFails, Panels!AnswerLost,
           Panels!ReadsBack, Panels!SaveAnswered
  <1>2. CASE Panels!ReadsSecret(r)
    <2> DEFINE kept == [r EXCEPT !.at = "read", !.previous = v1[r.form].secret]
               blank == [r EXCEPT !.at = "read"]
    <2>1. /\ kept \in SaveType /\ kept.at = "read" /\ blank \in SaveType /\ blank.at = "read"
          /\ \A s \in {kept, blank} :
               /\ s.id = r.id /\ s.form = r.form /\ s.secret = r.secret /\ s.wanted = r.wanted
               /\ s.fields = r.fields /\ s.shown = r.shown /\ (s.excused <=> r.excused)
      BY <1>0 DEF SaveType, StoredType
    <2>2. Panels!Step(r, kept) \/ Panels!Step(r, blank)
      BY <1>2 DEF Panels!ReadsSecret
    <2>3. r.at = "sent" /\ UNCHANGED <<v1, v2, v3, v5, v9>>
      BY <1>2 DEF Panels!ReadsSecret
    <2> HIDE DEF kept, blank
    <2>4. v6' \subseteq SaveType /\ PanelSaves'
      BY <1>1, <2>1, <2>2, <2>3, PanelSaveSteps
    <2> QED
      BY <1>0, <1>1, <2>3, <2>4, PanelFormsStay
  <1>3. CASE Panels!Stores(r)
    <2> DEFINE s == [r EXCEPT !.at = "stored"]
    <2>1. s \in SaveType /\ s.at = "stored" /\ s.id = r.id /\ s.form = r.form /\ s.secret = r.secret
          /\ s.wanted = r.wanted
      BY <1>0 DEF SaveType
    <2>2. /\ Panels!Step(r, s) /\ UNCHANGED <<v2, v3, v5, v9>> /\ r.at \in {"sent", "read"}
          /\ v1' = [v1 EXCEPT ![r.form] = Panels!Applied(r)]
      BY <1>3 DEF Panels!Stores
    <2> HIDE DEF s
    <2>3. v6' \subseteq SaveType /\ PanelSaves'
      BY <1>1, <2>1, <2>2, PanelSaveSteps
    <2>4. Panels!Applied(r) \in StoredType
      <3>1. r.fields \in Panels!Fields
        BY <1>0 DEF SaveType
      <3>2. r.form \in Panels!Secretive => Panels!SecretOf(r) \in Panels!Secrets
        BY <1>0, NoneAssumption DEF Panels!SecretOf, SaveType
      <3> QED
        BY <1>0, <3>1, <3>2 DEF Panels!Applied, StoredType
    <2> QED
      BY <1>0, <1>1, <2>2, <2>3, <2>4, PanelFormsStay
  <1>4. CASE Panels!SaveFails(r)
    <2>1. v6' \subseteq v6 /\ UNCHANGED <<v1, v2, v3, v5, v9>>
      BY <1>4 DEF Panels!SaveFails
    <2> QED
      BY <1>0, <1>1, <2>1, PanelSavesStay, PanelFormsStay
  <1>5. CASE Panels!AnswerLost(r)
    <2> DEFINE s == [r EXCEPT !.open = FALSE]
    <2>1. /\ s \in SaveType /\ s.id = r.id /\ s.form = r.form /\ s.secret = r.secret
          /\ s.wanted = r.wanted /\ s.at = r.at /\ s.fields = r.fields /\ s.shown = r.shown
          /\ (s.excused <=> r.excused) /\ r.at \in {"sent", "read", "stored", "answered"}
      BY <1>0 DEF SaveType
    <2>2. Panels!Step(r, s) /\ UNCHANGED <<v1, v2, v3, v5, v9>>
      BY <1>5 DEF Panels!AnswerLost
    <2> HIDE DEF s
    <2>3. v6' \subseteq SaveType /\ PanelSaves'
      BY <1>1, <2>1, <2>2, PanelSaveSteps
    <2> QED
      BY <1>0, <1>1, <2>2, <2>3, PanelFormsStay
  <1>6. CASE Panels!ReadsBack(r)
    <2> DEFINE found == [r EXCEPT !.at = "answered", !.fields = v1[r.form].fields]
               blank == [r EXCEPT !.at = "answered", !.fields = Default]
    <2>1. /\ found \in SaveType /\ found.at = "answered" /\ blank \in SaveType /\ blank.at = "answered"
          /\ \A s \in {found, blank} :
               s.id = r.id /\ s.form = r.form /\ s.secret = r.secret /\ s.wanted = r.wanted
      BY <1>0 DEF SaveType, StoredType, Panels!Fields
    <2>2. (Panels!Step(r, found) \/ Panels!Step(r, blank)) /\ UNCHANGED <<v1, v2, v3, v5, v9>>
      BY <1>6 DEF Panels!ReadsBack
    <2> HIDE DEF found, blank
    <2>3. v6' \subseteq SaveType /\ PanelSaves'
      BY <1>1, <2>1, <2>2, PanelSaveSteps
    <2> QED
      BY <1>0, <1>1, <2>2, <2>3, PanelFormsStay
  <1>7. CASE Panels!SaveAnswered(r)
    <2> DEFINE f == r.form
               d == Panels!AfterSave(v5, r)
               m == [v9[f] EXCEPT !.secret = "keep", !.shown = @ \cup {r.fields}]
    <2>0. v6' \subseteq v6 /\ UNCHANGED <<v1, v2, v3>>
      BY <1>7 DEF Panels!SaveAnswered
    <2>1. v6' \subseteq SaveType /\ PanelSaves'
      BY <1>1, <2>0, PanelSavesStay
    <2>2. CASE v5' = v5 /\ v9' = v9
      BY <1>0, <1>1, <2>0, <2>1, <2>2, PanelFormsStay
    <2>3. CASE /\ v5' = [v5 EXCEPT ![f] = d]
               /\ v9' = [v9 EXCEPT ![f].secret = "keep", ![f].shown = @ \cup {r.fields}]
      <3>0. v9' = [v9 EXCEPT ![f] = m]
        BY <1>0, <2>3 DEF PanelInv, PanelTypes, MeantType
      <3>1. /\ v9[f] \in MeantType /\ v5[f] \in DraftType /\ r.fields \in Panels!Fields
            /\ v9 \in [Panels!Forms -> MeantType] /\ v5 \in [Panels!Forms -> DraftType]
            /\ FormMeant(f) /\ f \in Panels!Forms
        BY <1>0 DEF PanelInv, PanelTypes, PanelForms, SaveType
      <3>2. /\ m \in MeantType /\ v9[f].shown \subseteq m.shown /\ r.fields \in m.shown
            /\ m.secret = "keep"
        BY <3>1 DEF MeantType
      <3>3. /\ d \in DraftType /\ (d.fields = v5[f].fields \/ d.fields = r.fields)
            /\ f \in Panels!Secretive => Panels!Asks(d) = "keep"
        BY <3>1, FormsAreFields DEF Panels!AfterSave, Panels!Secretive
      <3>4. \A g \in Panels!Forms \ {f} : v5'[g] = v5[g] /\ v9'[g] = v9[g]
        BY <2>3, <3>0, <3>1
      <3>5. v5'[f] = d /\ v9'[f] = m
        BY <2>3, <3>0, <3>1
      <3> HIDE DEF d, m, f
      <3>6. PanelTypes'
        BY <1>1, <2>0, <2>1, <2>3, <3>0, <3>1, <3>2, <3>3 DEF PanelInv, PanelTypes
      <3>7. \A g \in Panels!Forms \ {f} : FormMeant(g)'
        BY <2>0, <3>4 DEF PanelInv, PanelForms, FormMeant, Panels!Here
      <3>8. FormMeant(f)'
        BY <2>0, <3>1, <3>2, <3>3, <3>5 DEF FormMeant, Panels!Here
      <3> QED
        BY <2>1, <3>6, <3>7, <3>8 DEF PanelInv, PanelForms
    <2> QED
      BY <1>7, <2>2, <2>3 DEF Panels!SaveAnswered
  <1> QED
    BY <1>2, <1>3, <1>4, <1>5, <1>6, <1>7 DEF Panels!Serves

LEMMA PanelAfterProbes ==
  ASSUME PanelInv, NEW f \in Panels!Forms, Panels!Probes(f) \/ Panels!Probed(f) PROVE PanelInv'
  <1>1. UNCHANGED <<v1, v2, v3, v5, v6, v9>> /\ v8' \in Nat /\ v8' >= v8
    BY PanelEdit DEF Panels!Probes, Panels!Probed, PanelInv, PanelTypes
  <1> QED
    BY <1>1, PanelSavesStay, PanelFormsStay DEF PanelInv, PanelTypes

LEMMA PanelAfterElsewhere == ASSUME PanelInv, Panels!Elsewhere PROVE PanelInv'
  <1>1. /\ v1' \in [Panels!Forms -> StoredType] /\ UNCHANGED <<v2, v3, v5, v6, v9>>
        /\ v8' \in Nat /\ v8' >= v8
    BY PanelEdit DEF Panels!Elsewhere, PanelInv, PanelTypes, StoredType, Panels!Secrets, Panels!Fields
  <1> QED
    BY <1>1, PanelSavesStay, PanelFormsStay

PanelPart == part = "settings" => PanelInv

\* The settings begin so, and every step of the web client keeps it so.
LEMMA PanelInitial == WebInit => PanelPart
  <1> SUFFICES ASSUME WebInit, part = "settings" PROVE PanelInv
    BY DEF PanelPart
  <1>1. Panels!PanelInit
    BY DEF WebInit
  <1>2. PICK v \in Panels!Fields :
          /\ v1 = [f \in Panels!Forms |-> [fields |-> v, secret |-> None]] /\ v3 = "loading" /\ v8 = 0
          /\ v5 = [f \in Panels!Forms |-> Panels!Draft(Default)] /\ v6 = {}
          /\ v9 = [f \in Panels!Forms |-> Panels!Keeps]
    BY <1>1 DEF Panels!PanelInit
  <1>3. PanelTypes /\ PanelSaves
    BY <1>2, FormsAreFields DEF PanelTypes, PanelSaves, StoredType, Panels!Secrets, Panels!Fields
  <1>4. PanelForms
    BY <1>2, FormsAreFields DEF PanelForms, FormMeant, Panels!Fields
  <1> QED
    BY <1>3, <1>4 DEF PanelInv

LEMMA PanelStep == PanelPart /\ [WebNext]_web => PanelPart'
  <1> SUFFICES ASSUME PanelPart, [WebNext]_web, part' = "settings" PROVE PanelInv'
    BY DEF PanelPart
  <1>1. CASE UNCHANGED web
    BY <1>1
       DEF web, PanelPart, PanelInv, PanelTypes, PanelForms, FormMeant, PanelSaves, SaveMeant,
           Panels!Here
  <1>2. CASE WebNext
    <2>1. part = "settings" /\ Panels!PanelNext
      BY <1>2 DEF WebNext, Rest13, Rest11, Rest10, Rest9, Rest6
    <2>2. PanelInv
      BY <2>1 DEF PanelPart
    <2> QED
      BY <2>1, <2>2, PanelAfterOpens, PanelAfterLoads, PanelAfterTypes, PanelAfterSaves,
         PanelAfterServes, PanelAfterProbes, PanelAfterElsewhere
         DEF Panels!PanelNext
  <1> QED
    BY <1>1, <1>2

\* Only Stores carries a save out.
LEMMA OnlyStoresCarries ==
  ASSUME PanelInv, Panels!PanelNext, NEW r \in v6, Panels!Carried(r) PROVE Panels!Stores(r)
  <1>0. r.at # "stored" /\ \A q \in v6 : (q.id = r.id => q = r) /\ q \in SaveType
    BY DEF Panels!Carried, PanelInv, PanelTypes, PanelSaves
  <1>1. PICK s \in v6' : s.id = r.id /\ s.at = "stored"
    BY DEF Panels!Carried
  <1>2. s \notin v6
    BY <1>0, <1>1
  <1>3. CASE Panels!Opens
    <2>1. PICK q \in v6 : s = [q EXCEPT !.open = FALSE]
      BY <1>3 DEF Panels!Opens
    <2>2. s.id = q.id /\ s.at = q.at
      BY <1>0, <2>1 DEF SaveType
    <2> QED
      BY <1>0, <1>1, <2>2
  <1>4. CASE \E f \in Panels!Forms : Panels!Saves(f)
    BY <1>1, <1>2, <1>4 DEF Panels!Saves
  <1>5. CASE \E q \in v6 : Panels!Serves(q)
    <2>1. PICK q \in v6 : Panels!Serves(q)
      BY <1>5
    <2>2. q \in SaveType
      BY <1>0
    <2>3. CASE Panels!Stores(q)
      <3>1. s = [q EXCEPT !.at = "stored"]
        BY <1>2, <2>3 DEF Panels!Stores, Panels!Step
      <3>2. q.id = r.id
        BY <1>1, <2>2, <3>1 DEF SaveType
      <3> QED
        BY <1>0, <2>3, <3>2
    <2>4. CASE Panels!AnswerLost(q)
      <3>1. s = [q EXCEPT !.open = FALSE]
        BY <1>2, <2>4 DEF Panels!AnswerLost, Panels!Step
      <3>2. s.id = q.id /\ s.at = q.at
        BY <2>2, <3>1 DEF SaveType
      <3> QED
        BY <1>0, <1>1, <3>2
    <2>5. CASE Panels!ReadsSecret(q)
      <3>1. s = [q EXCEPT !.at = "read", !.previous = v1[q.form].secret] \/ s = [q EXCEPT !.at = "read"]
        BY <1>2, <2>5 DEF Panels!ReadsSecret, Panels!Step
      <3> QED
        BY <1>1, <2>2, <3>1 DEF SaveType
    <2>6. CASE Panels!ReadsBack(q)
      <3>1. \/ s = [q EXCEPT !.at = "answered", !.fields = v1[q.form].fields]
            \/ s = [q EXCEPT !.at = "answered", !.fields = Default]
        BY <1>2, <2>6 DEF Panels!ReadsBack, Panels!Step
      <3> QED
        BY <1>1, <2>2, <3>1 DEF SaveType
    <2>7. CASE Panels!SaveFails(q) \/ Panels!SaveAnswered(q)
      BY <1>2, <2>7 DEF Panels!SaveFails, Panels!SaveAnswered
    <2> QED
      BY <2>1, <2>3, <2>4, <2>5, <2>6, <2>7 DEF Panels!Serves
  <1>6. CASE v6' = v6
    BY <1>2, <1>6
  <1> QED
    BY <1>3, <1>4, <1>5, <1>6
       DEF Panels!PanelNext, Panels!Loads, Panels!Elsewhere, Panels!Types, Panels!Probes, Panels!Probed

\* A save that is carried out stores what was meant and what was shown.
LEMMA SaveMeans ==
  ASSUME PanelInv, Panels!PanelNext PROVE Panels!SecretsAreMeant /\ Panels!SavesWhatWasShown
  <1> SUFFICES ASSUME NEW r \in v6, Panels!Carried(r)
               PROVE  /\ r.form \in Panels!Secretive =>
                           v1'[r.form].secret = IF r.wanted = "keep" THEN r.previous ELSE r.wanted
                      /\ v1'[r.form].fields # v1[r.form].fields =>
                           v1'[r.form].fields \in r.shown \/ r.excused
    BY DEF Panels!SecretsAreMeant, Panels!SavesWhatWasShown
  <1>1. Panels!Stores(r)
    BY OnlyStoresCarries
  <1>2. r \in SaveType /\ SaveMeant(r) /\ r.at \in {"sent", "read"}
    BY <1>1 DEF Panels!Stores, PanelInv, PanelTypes, PanelSaves
  <1>3. v1'[r.form] = Panels!Applied(r)
    BY <1>1, <1>2 DEF Panels!Stores, PanelInv, PanelTypes, SaveType
  <1>4. /\ r.form \in Panels!Secretive => v1'[r.form].secret = Panels!SecretOf(r)
        /\ v1'[r.form].fields = v1[r.form].fields \/ v1'[r.form].fields = r.fields
    BY <1>3 DEF Panels!Applied
  <1> QED
    BY <1>2, <1>4 DEF SaveMeant, Panels!SecretOf

\* No save stores fields that the owner was not shown and did not type, except the values
\* that stand for days or a port that are none, or that a failed load left in the form; and a
\* save replaces or clears a secret exactly as it was meant, or stores the one it has read.
THEOREM PanelPromise == WebSpec => SettingsAreMeant
  <1>1. PanelPart /\ [WebNext]_web =>
          [part = "settings" => Panels!SecretsAreMeant /\ Panels!SavesWhatWasShown]_web
    <2> SUFFICES ASSUME PanelPart, WebNext, part = "settings"
                 PROVE  Panels!SecretsAreMeant /\ Panels!SavesWhatWasShown
      OBVIOUS
    <2>1. Panels!PanelNext
      BY DEF WebNext
    <2> QED
      BY <2>1, SaveMeans DEF PanelPart
  <1> QED
    BY <1>1, PanelInitial, PanelStep, PTL DEF WebSpec, SettingsAreMeant

-----------------------------------------------------------------------------
(* The content desk (ContentDesk) *)

\* The values of the desk: its calendar panel, its sections and the page itself.
HeatType == [on : BOOLEAN, chosen : Desk!Choice, counted : Desk!Choice, loading : BOOLEAN, run : Nat,
             asked : BOOLEAN]

DeskSections == {"entries", "trash", "versions", "media", "exports", "calendar"}

DeskType == [section : DeskSections, filter : Filters \cup {All}, selected : Entries \cup {None},
             busy : BOOLEAN, due : BOOLEAN]

\* A click has its number, and the shown lists are a record.
IsClick(c) ==
  /\ c = [n |-> c.n, restored |-> c.restored, mixed |-> c.mixed, excused |-> c.excused]
  /\ c.n \in Nat /\ c.mixed \in BOOLEAN /\ c.excused \in BOOLEAN

IsShown(s) == s = [entries |-> s.entries, versions |-> s.versions]

\* What the variables hold.
DeskTypes ==
  LET desk == v1  shown == v2  heat == v4  click == v8
  IN  /\ desk \in DeskType /\ heat \in HeatType /\ IsClick(click)
      /\ IsShown(shown)
      /\ shown.versions \in Entries \cup {None}

\* a request for versions names an entry, and one of the panel's effect the choice of its run
DeskRequest(r) ==
  LET heat == v4
  IN  /\ r = [kind |-> r.kind, about |-> r.about, answer |-> r.answer]
      /\ r.kind = "versions" => r.about \in Entries
      /\ r.kind = "calendar" => /\ r.about[1] \in Desk!Choice /\ r.about[2] \in Nat
                                /\ r.about[2] <= heat.run
                                /\ heat.on /\ r.about[2] = heat.run => r.about[1] = heat.chosen

\* All requests under way are such.
DeskRequests == LET asks == v6 IN \A r \in asks : DeskRequest(r)

\* a list of versions that is not mixed is on the screen, and of the selected entry
DeskVersions ==
  LET desk == v1  shown == v2  click == v8
  IN  ~click.mixed /\ shown.versions # None
        => desk.section = "versions" /\ shown.versions = desk.selected

\* What was restored is what was shown, unless the list was mixed; and the numbers
\* of the calendar panel are those of its choice.
DeskRestores == LET click == v8 IN click.restored[1] = click.restored[2] \/ click.excused
DeskCounts   == LET heat == v4 IN heat.on /\ ~heat.loading => heat.counted = heat.chosen

\* The inductive invariant of the desk.
DeskInv == DeskTypes /\ DeskRequests /\ DeskVersions /\ DeskRestores /\ DeskCounts

\* what a step may do to the calendar panel: it goes, runs its effect again, or keeps its choice
HeatGoesOn ==
  /\ v4' \in HeatType /\ DeskCounts'
  /\ \/ ~v4'.on /\ v4'.run = v4.run
     \/ v4'.run = v4.run + 1
     \/ v4'.on = v4.on /\ v4'.run = v4.run /\ v4'.chosen = v4.chosen

\* A panel that is left alone, and one that follows the page.
LEMMA HeatStays == ASSUME DeskInv, v4' = v4 PROVE HeatGoesOn
  BY DEF DeskInv, DeskTypes, DeskCounts, HeatGoesOn

LEMMA HeatIsNew == ASSUME DeskInv, NEW d, v4' = Desk!NewHeat(d) PROVE HeatGoesOn
  <1>1. /\ v4 \in HeatType /\ v4.run \in Nat /\ Desk!Year1 \in Desk!Choice
    BY DEF DeskInv, DeskTypes, HeatType, Desk!Year1, Desk!Choice
  <1>2. CASE v4' = v4
    BY <1>2, HeatStays
  <1>3. CASE v4' = Desk!HeatOff(v4.run)
    BY <1>1, <1>3 DEF HeatGoesOn, DeskCounts, Desk!HeatOff, HeatType
  <1>4. CASE v4' = [Desk!HeatOff(v4.run + 1) EXCEPT !.on = TRUE]
    <2>0. v4' = [on |-> TRUE, chosen |-> Desk!Year1, counted |-> Desk!Year1, loading |-> TRUE,
                 run |-> v4.run + 1, asked |-> FALSE]
      BY <1>4 DEF Desk!HeatOff
    <2>1. v4' \in HeatType /\ v4'.loading = TRUE /\ v4'.run = v4.run + 1
      BY <1>1, <2>0 DEF HeatType
    <2> QED
      BY <2>1 DEF HeatGoesOn, DeskCounts
  <1> QED
    BY <1>2, <1>3, <1>4 DEF Desk!NewHeat

\* Requests stay true with the panel they were made for.
LEMMA RequestsGoOn ==
  ASSUME DeskInv, HeatGoesOn, \A r \in v6' : r \in v6 \/ DeskRequest(r)'
  PROVE  DeskRequests'
  <1> SUFFICES ASSUME NEW r \in v6 PROVE DeskRequest(r)'
    BY DEF DeskRequests
  <1>1. DeskRequest(r) /\ v4 \in HeatType /\ v4' \in HeatType
    BY DEF DeskInv, DeskRequests, DeskTypes, HeatGoesOn
  <1> QED
    BY <1>1 DEF DeskRequest, HeatGoesOn, HeatType

\* a request that is neither for versions nor for the calendar is as it must be
LEMMA RequestIsPlain ==
  ASSUME NEW k, NEW a, k \notin {"versions", "calendar"} PROVE DeskRequest(Desk!Asked(k, a))'
  BY DEF DeskRequest, Desk!Asked

\* what most steps leave alone
PageStays ==
  /\ v1' \in DeskType /\ v1'.section = v1.section /\ v1'.selected = v1.selected
  /\ v2'.versions = v2.versions /\ IsClick(v8') /\ v8'.mixed = v8.mixed
  /\ v8'.restored = v8.restored /\ v8'.excused = v8.excused
  /\ IsShown(v2')

\* A step that leaves the lists' owner alone keeps the invariant.
LEMMA DeskGoesOn ==
  ASSUME DeskInv, HeatGoesOn, PageStays, \A r \in v6' : r \in v6 \/ DeskRequest(r)'
  PROVE  DeskInv'
  <1>1. DeskRequests'
    BY RequestsGoOn
  <1> QED
    BY <1>1 DEF DeskInv, DeskTypes, DeskVersions, DeskRestores, HeatGoesOn, PageStays

\* A click is counted.
LEMMA ClickCounts ==
  ASSUME DeskInv, Desk!Clicks
  PROVE  IsClick(v8') /\ v8'.mixed = v8.mixed /\ v8'.restored = v8.restored /\ v8'.excused = v8.excused
  BY DEF DeskInv, DeskTypes, Desk!Clicks, IsClick

\* the page may change its filter and whether it is busy
LEMMA PageIsThere ==
  ASSUME DeskInv,
         \/ v1' = v1
         \/ \E b \in BOOLEAN : v1' = [v1 EXCEPT !.busy = b]
         \/ \E b, c \in BOOLEAN, g \in Filters \cup {All} :
              v1' = [v1 EXCEPT !.filter = g, !.busy = b, !.due = c],
         v2' = v2 \/ \E e : v2' = [v2 EXCEPT !.entries = e],
         v8' = v8 \/ Desk!Clicks
  PROVE  PageStays
  <1>1. v1' \in DeskType /\ v1'.section = v1.section /\ v1'.selected = v1.selected
    BY DEF DeskInv, DeskTypes, DeskType, DeskSections
  <1>2. v2'.versions = v2.versions /\ IsShown(v2')
    BY DEF DeskInv, DeskTypes, IsShown
  <1>3. IsClick(v8') /\ v8'.mixed = v8.mixed /\ v8'.restored = v8.restored /\ v8'.excused = v8.excused
    BY ClickCounts DEF DeskInv, DeskTypes, IsShown
  <1> QED
    BY <1>1, <1>2, <1>3 DEF PageStays

\* Each action of ContentDesk keeps the invariant.
LEMMA DeskAfterAnswers == ASSUME DeskInv, Desk!Answers PROVE DeskInv'
  <1>1. PICK r \in v6 : \E a : v6' = (v6 \ {r}) \cup {[r EXCEPT !.answer = a]}
    BY DEF Desk!Answers
  <1> PICK a : v6' = (v6 \ {r}) \cup {[r EXCEPT !.answer = a]}
    BY <1>1
  <1>2. UNCHANGED <<v1, v2, v4>> /\ (v8' = v8 \/ Desk!Clicks)
    BY DEF Desk!Answers
  <1>3. HeatGoesOn /\ PageStays
    BY <1>2, HeatStays, PageIsThere
  <1>4. DeskRequest([r EXCEPT !.answer = a])'
    <2> DEFINE q == [r EXCEPT !.answer = a]
    <2>1. DeskRequest(r)
      BY DEF DeskInv, DeskRequests
    <2>2. q = [kind |-> r.kind, about |-> r.about, answer |-> a]
      BY <2>1 DEF DeskRequest
    <2> HIDE DEF q
    <2> QED
      BY <1>2, <2>1, <2>2 DEF DeskRequest
  <1> QED
    BY <1>3, <1>4, DeskGoesOn

\* the steps that change neither the panel nor the choice of the page, and ask nothing special
LEMMA DeskAfterWaiting ==
  ASSUME DeskInv,
         \/ Desk!PublishFails \/ Desk!MediaArrives \/ Desk!LoadsMoreMedia \/ Desk!MoreMediaArrives
         \/ Desk!RetriesPublish \/ Desk!PublishRetried \/ Desk!ExportsArrive
  PROVE  DeskInv'
  <1>1. UNCHANGED <<v1, v2, v4>> /\ (v8' = v8 \/ Desk!Clicks)
    BY DEF Desk!PublishFails, Desk!MediaArrives, Desk!LoadsMoreMedia, Desk!MoreMediaArrives,
           Desk!RetriesPublish, Desk!PublishRetried, Desk!ExportsArrive
  <1>2. \/ v6' \subseteq v6
        \/ \E a : v6' = v6 \cup {Desk!Asked("more", a)} \/ v6' = v6 \cup {Desk!Asked("retry", a)}
    BY DEF Desk!PublishFails, Desk!MediaArrives, Desk!LoadsMoreMedia, Desk!MoreMediaArrives,
           Desk!RetriesPublish, Desk!PublishRetried, Desk!ExportsArrive, Desk!Ask, Desk!Takes
  <1>3. HeatGoesOn /\ PageStays
    BY <1>1, HeatStays, PageIsThere
  <1>4. \A r \in v6' : r \in v6 \/ DeskRequest(r)'
    BY <1>2, RequestIsPlain
  <1> QED
    BY <1>3, <1>4, DeskGoesOn

\* the steps that change the filter, whether the page is busy, or the entries shown
PageWorks ==
  /\ \/ \E b \in BOOLEAN : v1' = [v1 EXCEPT !.busy = b]
     \/ \E b, c \in BOOLEAN, g \in Filters \cup {All} :
          v1' = [v1 EXCEPT !.filter = g, !.busy = b, !.due = c]
  /\ v2' = v2 \/ \E e : v2' = [v2 EXCEPT !.entries = e]
  /\ \E d : v4' = Desk!NewHeat(d)
  /\ v8' = v8 \/ Desk!Clicks
  /\ \/ v6' \subseteq v6
     \/ \E k \in {"entries", "again", "mutate", "create"} : \E a : v6' \subseteq v6 \cup {Desk!Asked(k, a)}

\* A step that shows or works on entries keeps the invariant.
LEMMA DeskAfterWork == ASSUME DeskInv, PageWorks PROVE DeskInv'
  <1>1. HeatGoesOn /\ PageStays
    BY HeatIsNew, PageIsThere DEF PageWorks
  <1>2. \A r \in v6' : r \in v6 \/ DeskRequest(r)'
    <2>1. CASE v6' \subseteq v6
      BY <2>1
    <2>2. CASE \E k \in {"entries", "again", "mutate", "create"} : \E a : v6' \subseteq v6 \cup {Desk!Asked(k, a)}
      <3> PICK k \in {"entries", "again", "mutate", "create"} : \E a : v6' \subseteq v6 \cup {Desk!Asked(k, a)}
        BY <2>2
      <3> PICK a : v6' \subseteq v6 \cup {Desk!Asked(k, a)}
        OBVIOUS
      <3>1. DeskRequest(Desk!Asked(k, a))'
        BY RequestIsPlain
      <3> QED
        BY <3>1
    <2> QED
      BY <2>1, <2>2 DEF PageWorks
  <1> QED
    BY <1>1, <1>2, DeskGoesOn

LEMMA DeskAfterChangesFilter == ASSUME DeskInv, Desk!ChangesFilter PROVE DeskInv'
  BY DeskAfterWork DEF PageWorks, Desk!ChangesFilter, Desk!LoadsEntries, Desk!Shows, Desk!Ask

LEMMA DeskAfterLoadsAgain == ASSUME DeskInv, Desk!LoadsAgain PROVE DeskInv'
  <1>1. v1.filter \in Filters \cup {All}
    BY DEF DeskInv, DeskTypes, DeskType
  <1> QED
    BY <1>1, DeskAfterWork DEF PageWorks, Desk!LoadsAgain, Desk!LoadsEntries, Desk!Shows, Desk!Ask

LEMMA DeskAfterEntriesArrive == ASSUME DeskInv, Desk!EntriesArrive PROVE DeskInv'
  <1>1. \/ v2' = v2 \/ \E e : v2' = [v2 EXCEPT !.entries = e]
    BY DEF Desk!EntriesArrive
  <1>2. v6' \subseteq v6
    BY DEF Desk!EntriesArrive, Desk!Takes
  <1>3. v1' = [v1 EXCEPT !.busy = FALSE] /\ v4' = Desk!NewHeat([v1 EXCEPT !.busy = FALSE]) /\ v8' = v8
    BY DEF Desk!EntriesArrive, Desk!Shows
  <1> QED
    BY <1>1, <1>2, <1>3, DeskAfterWork DEF PageWorks

LEMMA DeskAfterMutates == ASSUME DeskInv, Desk!Mutates PROVE DeskInv'
  BY DeskAfterWork DEF PageWorks, Desk!Mutates, Desk!Shows, Desk!Ask

LEMMA DeskAfterMutated == ASSUME DeskInv, Desk!Mutated PROVE DeskInv'
  <1>1. PICK r \in v6 : /\ v6' = (v6 \ {r}) \cup IF Desk!Good(r) THEN {Desk!Asked("entries", r.about)} ELSE {}
                        /\ Desk!Shows([v1 EXCEPT !.busy = Desk!Good(r)], v3)
    BY DEF Desk!Mutated, Desk!Received
  <1> DEFINE b == Desk!Good(r)
  <1>2. b \in BOOLEAN
    BY DEF Desk!Good
  <1>3. v1' = [v1 EXCEPT !.busy = b] /\ v4' = Desk!NewHeat([v1 EXCEPT !.busy = b]) /\ v8' = v8 /\ v2' = v2
    BY <1>1 DEF Desk!Mutated, Desk!Shows
  <1>4. \/ v6' \subseteq v6
        \/ v6' \subseteq v6 \cup {Desk!Asked("entries", r.about)}
    BY <1>1
  <1> HIDE DEF b
  <1> QED
    BY <1>2, <1>3, <1>4, DeskAfterWork DEF PageWorks

LEMMA DeskAfterRestored == ASSUME DeskInv, Desk!Restored PROVE DeskInv'
  <1>1. v6' \subseteq v6
    BY DEF Desk!Restored, Desk!Takes
  <1> QED
    BY <1>1, DeskAfterWork DEF PageWorks, Desk!Restored, Desk!Shows

LEMMA DeskAfterCreatesExport == ASSUME DeskInv, Desk!CreatesExport PROVE DeskInv'
  BY DeskAfterWork DEF PageWorks, Desk!CreatesExport, Desk!Shows, Desk!Ask

LEMMA DeskAfterExportCreated == ASSUME DeskInv, Desk!ExportCreated PROVE DeskInv'
  <1>1. v6' \subseteq v6
    BY DEF Desk!ExportCreated, Desk!Takes
  <1> QED
    BY <1>1, DeskAfterWork DEF PageWorks, Desk!ExportCreated, Desk!Shows

LEMMA DeskAfterLoadsVersions == ASSUME DeskInv, Desk!LoadsVersions PROVE DeskInv'
  <1>1. PICK e \in Entries : /\ v6' = v6 \cup {Desk!Asked("versions", e)}
                             /\ v1' = [v1 EXCEPT !.selected = e, !.section = "versions"]
                             /\ v4' = Desk!NewHeat([v1 EXCEPT !.selected = e, !.section = "versions"])
    BY DEF Desk!LoadsVersions, Desk!Ask, Desk!Shows
  <1>2. v1.section # "versions" /\ v2' = v2 /\ Desk!Clicks
    BY DEF Desk!LoadsVersions
  <1>3. HeatGoesOn
    BY <1>1, HeatIsNew
  <1>4. DeskRequest(Desk!Asked("versions", e))'
    BY DEF DeskRequest, Desk!Asked
  <1>5. DeskRequests'
    BY <1>1, <1>3, <1>4, RequestsGoOn
  <1>6. v1' \in DeskType /\ v1'.section = "versions" /\ v1'.selected = e
    BY <1>1 DEF DeskInv, DeskTypes, DeskType, DeskSections
  <1>7. IsClick(v8') /\ v8'.mixed = v8.mixed /\ v8'.restored = v8.restored /\ v8'.excused = v8.excused
    BY <1>2, ClickCounts
  <1> QED
    BY <1>2, <1>3, <1>5, <1>6, <1>7
       DEF DeskInv, DeskTypes, DeskVersions, DeskRestores, HeatGoesOn

LEMMA DeskAfterVersionsArrive == ASSUME DeskInv, Desk!VersionsArrive PROVE DeskInv'
  <1> PICK r \in Desk!Received("versions") :
         /\ v6' = v6 \ {r} /\ v2' = [v2 EXCEPT !.versions = IF Desk!Good(r) THEN r.about ELSE @]
         /\ v8' = [v8 EXCEPT !.mixed = IF ~Desk!Good(r) THEN @
                                       ELSE r.about # v1.selected \/ v1.section # "versions"]
    BY DEF Desk!VersionsArrive, Desk!Takes
  <1>1. UNCHANGED <<v1, v4>> /\ HeatGoesOn
    BY HeatStays DEF Desk!VersionsArrive
  <1>2. r.about \in Entries
    BY DEF Desk!Received, DeskInv, DeskRequests, DeskRequest
  <1>3. DeskRequests'
    BY <1>1, RequestsGoOn
  <1>4. CASE ~Desk!Good(r)
    <2>1. v2'.versions = v2.versions /\ IsShown(v2')
      BY <1>4 DEF DeskInv, DeskTypes, IsShown
    <2>2. v8' = [v8 EXCEPT !.mixed = v8.mixed]
      BY <1>4
    <2>3. IsClick(v8') /\ v8'.mixed = v8.mixed /\ v8'.restored = v8.restored /\ v8'.excused = v8.excused
      BY <2>2 DEF DeskInv, DeskTypes, IsClick
    <2> QED
      BY <1>1, <1>3, <2>1, <2>3
         DEF DeskInv, DeskTypes, DeskVersions, DeskRestores, HeatGoesOn
  <1>5. CASE Desk!Good(r)
    <2> DEFINE b == r.about # v1.selected \/ v1.section # "versions"
    <2>1. b \in BOOLEAN /\ v8' = [v8 EXCEPT !.mixed = b]
      BY <1>5
    <2>2. v2'.versions = r.about /\ IsShown(v2')
      BY <1>5 DEF DeskInv, DeskTypes, IsShown
    <2>3. ~b => r.about = v1.selected /\ v1.section = "versions"
      OBVIOUS
    <2> HIDE DEF b
    <2>4. IsClick(v8') /\ v8'.restored = v8.restored /\ v8'.excused = v8.excused /\ v8'.mixed = b
      BY <2>1 DEF DeskInv, DeskTypes, IsClick
    <2>5. DeskTypes'
      BY <1>1, <1>2, <2>2, <2>4 DEF DeskInv, DeskTypes, HeatGoesOn
    <2>6. DeskVersions' /\ DeskRestores'
      BY <1>1, <2>2, <2>3, <2>4 DEF DeskInv, DeskVersions, DeskRestores
    <2> QED
      BY <1>1, <1>3, <2>5, <2>6 DEF DeskInv, HeatGoesOn
  <1> QED
    BY <1>4, <1>5

LEMMA DeskAfterReturnsToEntries == ASSUME DeskInv, Desk!ReturnsToEntries PROVE DeskInv'
  <1>1. /\ v1' = [v1 EXCEPT !.section = "entries", !.selected = None]
        /\ v4' = Desk!NewHeat([v1 EXCEPT !.section = "entries", !.selected = None])
        /\ v6' = v6 /\ v2' = [v2 EXCEPT !.versions = None]
        /\ v8' = [v8 EXCEPT !.n = @ + 1, !.mixed = FALSE]
    BY DEF Desk!ReturnsToEntries, Desk!Shows, Desk!ClearsVersions
  <1>2. HeatGoesOn /\ DeskRequests'
    BY <1>1, HeatIsNew, RequestsGoOn
  <1>3. v1' \in DeskType /\ v1'.section = "entries" /\ v1'.selected = None
    BY <1>1 DEF DeskInv, DeskTypes, DeskType, DeskSections
  <1>4. IsClick(v8') /\ v8'.restored = v8.restored /\ v8'.excused = v8.excused
    <2>1. v8' = [n |-> v8.n + 1, restored |-> v8.restored, mixed |-> FALSE, excused |-> v8.excused]
      BY <1>1 DEF DeskInv, DeskTypes, IsClick
    <2>2. /\ v8'.n = v8.n + 1 /\ v8'.mixed = FALSE /\ v8'.restored = v8.restored
          /\ v8'.excused = v8.excused
      BY <2>1
    <2>3. v8'.n \in Nat /\ v8'.excused \in BOOLEAN
      BY <2>2 DEF DeskInv, DeskTypes, IsClick
    <2> QED
      BY <2>1, <2>2, <2>3 DEF IsClick
  <1>5. v2'.versions = None /\ IsShown(v2')
    BY <1>1 DEF DeskInv, DeskTypes, IsShown
  <1> QED
    BY <1>2, <1>3, <1>4, <1>5 DEF DeskInv, DeskTypes, DeskVersions, DeskRestores, HeatGoesOn

LEMMA DeskAfterRestoresVersion == ASSUME DeskInv, Desk!RestoresVersion PROVE DeskInv'
  <1>1. /\ v1' = [v1 EXCEPT !.busy = TRUE] /\ v4' = Desk!NewHeat([v1 EXCEPT !.busy = TRUE])
        /\ v6' = v6 \cup {Desk!Asked("restore", v1.selected)} /\ v2' = v2
        /\ v8' = [v8 EXCEPT !.n = @ + 1, !.restored = <<v1.selected, v2.versions>>,
                            !.excused = v8.mixed]
        /\ v1.section = "versions" /\ v2.versions # None
    BY DEF Desk!RestoresVersion, Desk!Shows, Desk!Ask
  <1>2. HeatGoesOn
    BY <1>1, HeatIsNew
  <1>3. DeskRequests'
    BY <1>1, <1>2, RequestIsPlain, RequestsGoOn
  <1>4. v1' \in DeskType /\ v1'.section = v1.section /\ v1'.selected = v1.selected
    BY <1>1 DEF DeskInv, DeskTypes, DeskType, DeskSections
  <1>6. v8' = [n |-> v8.n + 1, restored |-> <<v1.selected, v2.versions>>, mixed |-> v8.mixed,
               excused |-> v8.mixed]
    BY <1>1 DEF DeskInv, DeskTypes, IsClick
  <1>7. /\ IsClick(v8') /\ v8'.mixed = v8.mixed /\ v8'.excused = v8.mixed
        /\ v8'.restored[1] = v1.selected /\ v8'.restored[2] = v2.versions
    BY <1>6 DEF DeskInv, DeskTypes, IsClick
  <1> QED
    BY <1>1, <1>2, <1>3, <1>4, <1>7
       DEF DeskInv, DeskTypes, DeskVersions, DeskRestores, HeatGoesOn

LEMMA DeskAfterOpensSection == ASSUME DeskInv, Desk!OpensSection PROVE DeskInv'
  <1> DEFINE b == v8.mixed \/ v2.versions # None
  <1>1. PICK s \in {"entries", "trash", "media", "exports", "calendar"} :
          /\ v1' = [v1 EXCEPT !.section = s] /\ v4' = Desk!NewHeat([v1 EXCEPT !.section = s])
          /\ \/ v6' = v6
             \/ s \in {"media", "exports"} /\ v6' = v6 \cup {Desk!Asked(s, None)}
    BY DEF Desk!OpensSection, Desk!Shows, Desk!Ask
  <1>2. b \in BOOLEAN /\ v8' = [v8 EXCEPT !.n = @ + 1, !.mixed = b] /\ v2' = v2
    BY DEF Desk!OpensSection
  <1>3. HeatGoesOn
    BY <1>1, HeatIsNew
  <1>4. DeskRequests'
    BY <1>1, <1>3, RequestIsPlain, RequestsGoOn
  <1>5. v1' \in DeskType /\ v1'.section # "versions" /\ v1'.selected = v1.selected
    BY <1>1 DEF DeskInv, DeskTypes, DeskType, DeskSections
  <1>6. ~b => v2.versions = None
    OBVIOUS
  <1> HIDE DEF b
  <1>7. IsClick(v8') /\ v8'.mixed = b /\ v8'.restored = v8.restored /\ v8'.excused = v8.excused
    <2>1. v8' = [n |-> v8.n + 1, restored |-> v8.restored, mixed |-> b, excused |-> v8.excused]
      BY <1>2 DEF DeskInv, DeskTypes, IsClick
    <2>2. v8'.n = v8.n + 1 /\ v8'.mixed = b /\ v8'.restored = v8.restored /\ v8'.excused = v8.excused
      BY <2>1
    <2>3. v8'.n \in Nat /\ v8'.excused \in BOOLEAN
      BY <2>2 DEF DeskInv, DeskTypes, IsClick
    <2> QED
      BY <1>2, <2>1, <2>2, <2>3 DEF IsClick
  <1>8. DeskTypes' /\ DeskCounts'
    BY <1>2, <1>3, <1>5, <1>7 DEF DeskInv, DeskTypes, HeatGoesOn
  <1>9. DeskVersions'
    BY <1>2, <1>5, <1>6, <1>7 DEF DeskInv, DeskVersions
  <1>10. DeskRestores'
    BY <1>7 DEF DeskInv, DeskRestores
  <1> QED
    BY <1>4, <1>8, <1>9, <1>10 DEF DeskInv

LEMMA DeskAfterHeatAsks == ASSUME DeskInv, Desk!HeatAsks PROVE DeskInv'
  <1>1. /\ v6' = v6 \cup {Desk!Asked("calendar", <<v4.chosen, v4.run>>)}
        /\ v4' = [v4 EXCEPT !.asked = TRUE] /\ UNCHANGED <<v1, v2, v8>>
    BY DEF Desk!HeatAsks, Desk!Ask
  <1>2. /\ v4' \in HeatType /\ v4 \in HeatType /\ v4'.on = v4.on /\ v4'.run = v4.run
        /\ v4'.chosen = v4.chosen /\ v4'.counted = v4.counted /\ v4'.loading = v4.loading
    BY <1>1 DEF DeskInv, DeskTypes, HeatType
  <1>3. HeatGoesOn
    BY <1>2 DEF HeatGoesOn, DeskInv, DeskCounts
  <1>4. DeskRequest(Desk!Asked("calendar", <<v4.chosen, v4.run>>))'
    BY <1>2 DEF DeskRequest, Desk!Asked, HeatType
  <1>5. PageStays
    BY <1>1, PageIsThere
  <1>6. \A r \in v6' : r \in v6 \/ DeskRequest(r)'
    BY <1>1, <1>4
  <1> QED
    BY <1>3, <1>5, <1>6, DeskGoesOn

LEMMA DeskAfterChooses == ASSUME DeskInv, Desk!Chooses PROVE DeskInv'
  <1>1. PICK c \in Desk!Choice :
          v4' = [v4 EXCEPT !.chosen = c, !.loading = TRUE, !.run = @ + 1, !.asked = FALSE]
    BY DEF Desk!Chooses
  <1>2. UNCHANGED <<v1, v2, v6>> /\ Desk!Clicks
    BY DEF Desk!Chooses
  <1> DEFINE n == v4.run + 1
  <1>6. /\ v4 \in HeatType /\ n \in Nat
        /\ v4' = [v4 EXCEPT !.chosen = c, !.loading = TRUE, !.run = n, !.asked = FALSE]
    BY <1>1 DEF DeskInv, DeskTypes, HeatType
  <1>7. v4'.run = v4.run + 1
    BY <1>6 DEF HeatType
  <1> HIDE DEF n
  <1>8. v4' \in HeatType /\ v4'.loading = TRUE
    BY <1>6 DEF HeatType
  <1>3. v4' \in HeatType /\ v4'.run = v4.run + 1 /\ v4'.loading = TRUE
    BY <1>7, <1>8
  <1>4. HeatGoesOn
    BY <1>3 DEF HeatGoesOn, DeskCounts
  <1>5. PageStays
    BY <1>2, PageIsThere
  <1> QED
    BY <1>2, <1>4, <1>5, DeskGoesOn

LEMMA DeskAfterHeatArrives == ASSUME DeskInv, Desk!HeatArrives PROVE DeskInv'
  <1>1. PICK r \in Desk!Received("calendar") :
          /\ v6' = v6 \ {r}
          /\ v4' = IF Desk!NotCancelled(r)
                   THEN [v4 EXCEPT !.counted = IF Desk!Good(r) THEN r.about[1] ELSE v4.chosen,
                                   !.loading = FALSE]
                   ELSE v4
    BY DEF Desk!HeatArrives, Desk!Takes
  <1>2. UNCHANGED <<v1, v2, v8>>
    BY DEF Desk!HeatArrives
  <1>3. HeatGoesOn
    <2>1. CASE v4' = v4
      BY <2>1, HeatStays
    <2>2. CASE /\ Desk!NotCancelled(r)
               /\ v4' = [v4 EXCEPT !.counted = IF Desk!Good(r) THEN r.about[1] ELSE v4.chosen,
                                   !.loading = FALSE]
      <3>1. r.about[1] = v4.chosen
        BY <2>2 DEF Desk!NotCancelled, Desk!Received, DeskInv, DeskRequests, DeskRequest
      <3>2. v4' = [v4 EXCEPT !.counted = v4.chosen, !.loading = FALSE]
        BY <2>2, <3>1
      <3>3. /\ v4' \in HeatType /\ v4'.on = v4.on /\ v4'.run = v4.run
            /\ v4'.chosen = v4.chosen /\ v4'.counted = v4'.chosen
        BY <3>2 DEF DeskInv, DeskTypes, HeatType
      <3> QED
        BY <3>3 DEF HeatGoesOn, DeskCounts
    <2> QED
      BY <1>1, <2>1, <2>2
  <1>4. PageStays
    BY <1>2, PageIsThere
  <1> QED
    BY <1>1, <1>3, <1>4, DeskGoesOn

DeskPart == part = "desk" => DeskInv

\* The desk begins so, and every step of the web client keeps it so.
LEMMA DeskInitial == WebInit => DeskPart
  <1> SUFFICES ASSUME WebInit, part = "desk" PROVE DeskInv
    BY DEF DeskPart
  <1>1. Desk!DeskInit
    BY DEF WebInit
  <1>2. /\ v1 = [section |-> "entries", filter |-> All, selected |-> None, busy |-> TRUE,
                 due |-> FALSE]
        /\ v2 = [entries |-> None, versions |-> None] /\ v4 = Desk!HeatOff(0)
        /\ v6 = {Desk!Asked("entries", All)}
        /\ v8 = [n |-> 0, restored |-> <<None, None>>, mixed |-> FALSE, excused |-> FALSE]
    BY <1>1 DEF Desk!DeskInit
  <1>3. v1 \in DeskType
    BY <1>2 DEF DeskType, DeskSections
  <1>4. v4 \in HeatType /\ ~v4.on
    BY <1>2 DEF HeatType, Desk!HeatOff, Desk!Year1, Desk!Choice
  <1>5. IsClick(v8) /\ v8.restored[1] = v8.restored[2]
    BY <1>2 DEF IsClick
  <1>6. DeskRequests
    BY <1>2 DEF DeskRequests, DeskRequest, Desk!Asked
  <1>7. v2.versions = None /\ IsShown(v2)
    BY <1>2 DEF IsShown
  <1>8. v1.selected = None
    BY <1>2
  <1> QED
    BY <1>3, <1>4, <1>5, <1>6, <1>7, <1>8
       DEF DeskInv, DeskTypes, DeskVersions, DeskRestores, DeskCounts

LEMMA DeskStep == DeskPart /\ [WebNext]_web => DeskPart'
  <1> SUFFICES ASSUME DeskPart, [WebNext]_web, part' = "desk" PROVE DeskInv'
    BY DEF DeskPart
  <1>1. CASE UNCHANGED web
    <2>1. DeskInv /\ UNCHANGED <<v1, v2, v4, v6, v8>>
      BY <1>1 DEF web, DeskPart
    <2> QED
      BY <2>1, HeatStays, PageIsThere, DeskGoesOn
  <1>2. CASE WebNext
    <2>1. part = "desk" /\ Desk!DeskNext
      BY <1>2 DEF WebNext, Rest13, Rest11, Rest10, Rest9, Rest6
    <2>2. DeskInv
      BY <2>1 DEF DeskPart
    <2> QED
      BY <2>1, <2>2, DeskAfterAnswers, DeskAfterWaiting, DeskAfterChangesFilter, DeskAfterLoadsAgain,
         DeskAfterEntriesArrive, DeskAfterMutates, DeskAfterMutated, DeskAfterRestored,
         DeskAfterCreatesExport, DeskAfterExportCreated, DeskAfterLoadsVersions,
         DeskAfterVersionsArrive, DeskAfterReturnsToEntries, DeskAfterRestoresVersion,
         DeskAfterOpensSection, DeskAfterHeatAsks, DeskAfterChooses, DeskAfterHeatArrives
         DEF Desk!DeskNext
  <1> QED
    BY <1>1, <1>2

\* A version is restored to the entry whose versions are shown, unless a late answer or a
\* tab had mixed the list with another entry at that click; and the calendar's numbers
\* are those of the year and filter above them, in whichever order its answers arrive.
THEOREM DeskPromise == WebSpec => []DeskActsOnWhatItShows
  <1>1. DeskPart => DeskActsOnWhatItShows
    BY DEF DeskPart, DeskActsOnWhatItShows, DeskInv, DeskRestores, DeskCounts,
           Desk!RestoresWhatIsShown, Desk!CalendarIsOfItsYear
  <1> QED
    BY <1>1, DeskInitial, DeskStep, PTL DEF WebSpec

-----------------------------------------------------------------------------
(* The digital assets (DigitalAssets) *)

\* The values of the assets: stored periods, the form and the request under way.
KeptPeriods == {p \in Periods : p[1] <= p[2]} \cup {None}

AnyAssetForm == [editing : Assets \cup {None}, period : Periods \cup {None}]

AnyDoing == [what : {"none", "create", "update", "delete"}, asset : Assets \cup {None},
          period : KeptPeriods, answer : {"none", "ok", "failed"}]

\* What the variables hold.
AssetTypes ==
  LET kept == v1  listed == v2  loading == v3  loaded == v4  form == v5  doing == v6
      unsure == v8
  IN  /\ kept \in [Assets -> KeptPeriods] /\ listed \in [Assets -> KeptPeriods]
      /\ loaded \in [Assets -> KeptPeriods]
      /\ loading \in {"asked", "answered", "done", "failed"}
      /\ form \in AnyAssetForm /\ doing \in AnyDoing

\* a request has its asset, and a period if it saves one
RequestIsWhole ==
  LET doing == v6
  IN  \/ doing = Chart!NotDoing
      \/ /\ doing.what # "none" /\ doing.asset # None
         /\ doing.what \in {"create", "update"} => doing.period # None

\* the list there is, or is about to be, is the stored one, but for the asset
\* of a request that was carried out
ListFollows(list) ==
  LET kept == v1  doing == v6  unsure == v8
  IN  \A a \in Assets \ unsure :
        IF a = doing.asset /\ doing.answer = "ok" THEN doing.what = "update" => list[a] # None
        ELSE list[a] = kept[a]

\* The inductive invariant of the assets' page.
AssetInv ==
  LET kept == v1  listed == v2  loading == v3  loaded == v4  form == v5  doing == v6
      unsure == v8
  IN  /\ AssetTypes /\ RequestIsWhole
      /\ loading = "done" => ListFollows(listed)
      /\ loading = "answered" => ListFollows(loaded)
      /\ doing.answer = "ok" /\ doing.asset \notin unsure => kept[doing.asset] = doing.period
      /\ form.editing # None => loading = "done" /\ listed[form.editing] # None

AssetPart == part = "assets" => AssetInv

\* The empty values, and nothing is not a period.
LEMMA EmptyAssets ==
  /\ Chart!Nowhere \in [Assets -> KeptPeriods]
  /\ Chart!NewForm \in AnyAssetForm /\ Chart!NotDoing \in AnyDoing
  /\ Chart!NewForm.editing = None /\ Chart!NotDoing.asset = None /\ Chart!NotDoing.answer = "none"
  BY DEF Chart!Nowhere, Chart!NewForm, Chart!NotDoing, KeptPeriods, AnyAssetForm, AnyDoing

LEMMA NoneIsNoPeriod == None \notin Periods /\ None \notin Assets
  BY NoneAssumption, PeriodsAssumption

\* A step that leaves the page alone.
LEMMA AssetStays ==
  ASSUME AssetInv, UNCHANGED <<v1, v2, v3, v4, v5, v6, v8>>
  PROVE  AssetInv'
  <1>1. AssetTypes' /\ RequestIsWhole' /\ \A s : ListFollows(s) => ListFollows(s)'
    BY DEF AssetInv, AssetTypes, RequestIsWhole, ListFollows
  <1>2. (v3' = "done" => ListFollows(v2)') /\ (v3' = "answered" => ListFollows(v4)')
    BY DEF AssetInv, ListFollows
  <1> QED
    BY <1>1, <1>2 DEF AssetInv

\* Each action of DigitalAssets keeps the invariant.
LEMMA AssetAfterLoadServed == ASSUME AssetInv, Chart!LoadServed PROVE AssetInv'
  <1> USE DEF AssetInv
  <1>1. v3 = "asked" /\ v3' = "answered" /\ v4' = v1 /\ UNCHANGED <<v1, v2, v5, v6, v8>>
    BY DEF Chart!LoadServed
  <1>2. AssetTypes'
    BY <1>1 DEF AssetTypes
  <1>3. RequestIsWhole'
    BY <1>1 DEF RequestIsWhole
  <1>4. ListFollows(v4)'
    <2>1. v6.what = "update" => v6.period # None
      BY EmptyAssets DEF RequestIsWhole, Chart!NotDoing
    <2>2. v6.answer = "ok" /\ v6.asset \notin v8 => v1[v6.asset] = v6.period
      OBVIOUS
    <2> QED
      BY <1>1, <2>1, <2>2 DEF ListFollows
  <1> QED
    BY <1>1, <1>2, <1>3, <1>4

LEMMA AssetAfterLoadArrives == ASSUME AssetInv, Chart!LoadArrives PROVE AssetInv'
  <1> USE DEF AssetInv
  <1>1. v3 = "answered" /\ v3' = "done" /\ v2' = v4 /\ UNCHANGED <<v1, v4, v5, v6, v8>>
    BY DEF Chart!LoadArrives
  <1>2. AssetTypes' /\ RequestIsWhole'
    BY <1>1 DEF AssetTypes, RequestIsWhole
  <1>3. ListFollows(v2)'
    BY <1>1 DEF ListFollows
  <1> QED
    BY <1>1, <1>2, <1>3

LEMMA AssetAfterLoadFails == ASSUME AssetInv, Chart!LoadFails PROVE AssetInv'
  <1> USE DEF AssetInv
  <1>1. v3 \in {"asked", "answered"} /\ v3' = "failed" /\ UNCHANGED <<v1, v2, v4, v5, v6, v8>>
    BY DEF Chart!LoadFails
  <1>2. AssetTypes' /\ RequestIsWhole'
    BY <1>1 DEF AssetTypes, RequestIsWhole
  <1> QED
    BY <1>1, <1>2

LEMMA AssetAfterRetriesLoad == ASSUME AssetInv, Chart!RetriesLoad PROVE AssetInv'
  <1> USE DEF AssetInv
  <1>1. v3 = "failed" /\ v3' = "asked" /\ v8' = v8 \cap {v6.asset}
        /\ UNCHANGED <<v1, v2, v4, v5, v6>>
    BY DEF Chart!RetriesLoad
  <1>2. AssetTypes' /\ RequestIsWhole'
    BY <1>1 DEF AssetTypes, RequestIsWhole
  <1> QED
    BY <1>1, <1>2

LEMMA AssetAfterRemounts == ASSUME AssetInv, Chart!Remounts PROVE AssetInv'
  <1> USE DEF AssetInv
  <1>1. /\ v2' = Chart!Nowhere /\ v3' = "asked" /\ v4' = Chart!Nowhere
        /\ v5' = Chart!NewForm /\ v6' = Chart!NotDoing
        /\ v1' \in {v1, [v1 EXCEPT ![v6.asset] = v6.period]}
    BY DEF Chart!Remounts
  <1>2. v1' \in [Assets -> KeptPeriods]
    BY <1>1 DEF AssetTypes, AnyDoing
  <1>3. AssetTypes' /\ RequestIsWhole'
    BY <1>1, <1>2, EmptyAssets DEF AssetTypes, RequestIsWhole
  <1> QED
    BY <1>1, <1>3, EmptyAssets

LEMMA AssetAfterTypes == ASSUME AssetInv, Chart!Types PROVE AssetInv'
  <1> USE DEF AssetInv
  <1>1. /\ \E p \in Periods : v5' = [v5 EXCEPT !.period = p]
        /\ UNCHANGED <<v1, v2, v3, v4, v6, v8>>
    BY DEF Chart!Types
  <1>2. v5' \in AnyAssetForm /\ v5'.editing = v5.editing
    BY <1>1 DEF AssetTypes, AnyAssetForm
  <1>3. AssetTypes' /\ RequestIsWhole'
    BY <1>1, <1>2 DEF AssetTypes, RequestIsWhole
  <1>4. (v3' = "done" => ListFollows(v2)') /\ (v3' = "answered" => ListFollows(v4)')
    BY <1>1 DEF ListFollows
  <1> QED
    BY <1>1, <1>2, <1>3, <1>4

LEMMA AssetAfterResets == ASSUME AssetInv, Chart!Resets PROVE AssetInv'
  <1> USE DEF AssetInv
  <1>1. v5' = Chart!NewForm /\ UNCHANGED <<v1, v2, v3, v4, v6, v8>>
    BY DEF Chart!Resets
  <1>2. AssetTypes' /\ RequestIsWhole'
    BY <1>1, EmptyAssets DEF AssetTypes, RequestIsWhole
  <1>3. (v3' = "done" => ListFollows(v2)') /\ (v3' = "answered" => ListFollows(v4)')
    BY <1>1 DEF ListFollows
  <1> QED
    BY <1>1, <1>2, <1>3, EmptyAssets

LEMMA AssetAfterEditsAsset == ASSUME AssetInv, NEW a \in Assets, Chart!EditsAsset(a) PROVE AssetInv'
  <1> USE DEF AssetInv
  <1>1. /\ v3 = "done" /\ v2[a] # None /\ v5' = [editing |-> a, period |-> v2[a]]
        /\ UNCHANGED <<v1, v2, v3, v4, v6, v8>>
    BY DEF Chart!EditsAsset
  <1>2. v2[a] \in Periods
    BY <1>1 DEF AssetTypes, KeptPeriods
  <1>3. AssetTypes' /\ RequestIsWhole'
    BY <1>1, <1>2 DEF AssetTypes, RequestIsWhole, AnyAssetForm
  <1>4. ListFollows(v2)'
    BY <1>1 DEF ListFollows
  <1> QED
    BY <1>1, <1>3, <1>4

\* a request begins: nothing is served yet
LEMMA SavingBegins ==
  ASSUME AssetInv, v6 = Chart!NotDoing, NEW d \in AnyDoing, v6' = d, d.what # "none", d.asset # None,
         d.what \in {"create", "update"} => d.period # None, d.answer = "none",
         v8 \subseteq v8', UNCHANGED <<v1, v2, v3, v4, v5>>
  PROVE  AssetInv'
  <1> USE DEF AssetInv
  <1>1. AssetTypes' /\ RequestIsWhole'
    BY DEF AssetTypes, RequestIsWhole
  <1>2. (v3' = "done" => ListFollows(v2)') /\ (v3' = "answered" => ListFollows(v4)')
    BY EmptyAssets DEF ListFollows
  <1> QED
    BY <1>1, <1>2

LEMMA AssetAfterSubmits == ASSUME AssetInv, Chart!Submits PROVE AssetInv'
  <1>1. PICK a \in Assets :
          /\ v6' = [what |-> IF v5.editing # None THEN "update" ELSE "create",
                    asset |-> a, period |-> v5.period, answer |-> "none"]
          /\ v8' = v8 \cup Chart!Overtaken(a)
    BY DEF Chart!Submits
  <1>2. v6 = Chart!NotDoing /\ Chart!Valid(v5.period) /\ UNCHANGED <<v1, v2, v3, v4, v5>>
    BY DEF Chart!Submits, Chart!Busy
  <1>3. v5.period \in KeptPeriods /\ v5.period # None /\ a # None
    BY <1>2, NoneIsNoPeriod DEF AssetInv, AssetTypes, AnyAssetForm, KeptPeriods, Chart!Valid
  <1>4. v6' \in AnyDoing /\ v6'.what \in {"create", "update"} /\ v6'.asset = a
        /\ v6'.period = v5.period /\ v6'.answer = "none"
    BY <1>1, <1>3 DEF AnyDoing
  <1> QED
    BY <1>1, <1>2, <1>3, <1>4, SavingBegins

LEMMA AssetAfterRemovesAsset == ASSUME AssetInv, NEW a \in Assets, Chart!RemovesAsset(a) PROVE AssetInv'
  <1>1. /\ v6 = Chart!NotDoing /\ UNCHANGED <<v1, v2, v3, v4, v5, v8>>
        /\ v6' = [what |-> "delete", asset |-> a, period |-> None, answer |-> "none"]
    BY DEF Chart!RemovesAsset, Chart!Busy
  <1>2. v6' \in AnyDoing /\ v6'.what = "delete" /\ v6'.asset = a /\ v6'.answer = "none" /\ a # None
    BY <1>1, NoneIsNoPeriod DEF AnyDoing, KeptPeriods
  <1> QED
    BY <1>1, <1>2, SavingBegins

LEMMA AssetAfterRequestServed == ASSUME AssetInv, Chart!RequestServed PROVE AssetInv'
  <1> USE DEF AssetInv
  <1>1. /\ v6 # Chart!NotDoing /\ v6.answer = "none" /\ Chart!Finds
        /\ v1' = [v1 EXCEPT ![v6.asset] = v6.period] /\ v6' = [v6 EXCEPT !.answer = "ok"]
        /\ UNCHANGED <<v2, v3, v4, v5, v8>>
    BY DEF Chart!RequestServed, Chart!Busy
  <1>2. v6.asset \in Assets /\ v6.period \in KeptPeriods /\ v6.what # "none"
        /\ (v6.what \in {"create", "update"} => v6.period # None)
    BY <1>1 DEF RequestIsWhole, AssetTypes, AnyDoing
  <1>3. v6' \in AnyDoing /\ v6'.what = v6.what /\ v6'.asset = v6.asset /\ v6'.period = v6.period
        /\ v6'.answer = "ok"
    BY <1>1 DEF AssetTypes, AnyDoing
  <1>4. v1' \in [Assets -> KeptPeriods] /\ v1'[v6.asset] = v6.period
        /\ \A a \in Assets : a # v6.asset => v1'[a] = v1[a]
    BY <1>1, <1>2 DEF AssetTypes
  <1>5. AssetTypes' /\ RequestIsWhole'
    BY <1>1, <1>2, <1>3, <1>4, NoneIsNoPeriod DEF AssetTypes, RequestIsWhole
  <1>6. ASSUME NEW s, ListFollows(s)
        PROVE  \A a \in Assets \ v8 :
                 IF a = v6.asset THEN v6.what = "update" => s[a] # None ELSE s[a] = v1'[a]
    BY <1>1, <1>4, <1>6 DEF ListFollows, Chart!Finds
  <1>7. (v3' = "done" => ListFollows(v2)') /\ (v3' = "answered" => ListFollows(v4)')
    <2>1. v3 = "done" => ListFollows(v2)'
      BY <1>1, <1>3, <1>6 DEF ListFollows
    <2>2. v3 = "answered" => ListFollows(v4)'
      BY <1>1, <1>3, <1>6 DEF ListFollows
    <2> QED
      BY <1>1, <2>1, <2>2
  <1> QED
    BY <1>1, <1>3, <1>4, <1>5, <1>7

LEMMA AssetAfterRequestFails == ASSUME AssetInv, Chart!RequestFails PROVE AssetInv'
  <1> USE DEF AssetInv
  <1>1. /\ v6 # Chart!NotDoing /\ v6' = [v6 EXCEPT !.answer = "failed"]
        /\ v8' = IF v6.answer = "ok" \/ ~Chart!Finds THEN v8 \cup {v6.asset} ELSE v8
        /\ UNCHANGED <<v1, v2, v3, v4, v5>>
    BY DEF Chart!RequestFails, Chart!Busy
  <1>2. v6' \in AnyDoing /\ v6'.what = v6.what /\ v6'.asset = v6.asset /\ v6'.period = v6.period
        /\ v6'.answer = "failed"
    BY <1>1 DEF AssetTypes, AnyDoing
  <1>3. AssetTypes' /\ RequestIsWhole'
    BY <1>1, <1>2 DEF AssetTypes, RequestIsWhole
  <1>4. v3 = "done" => ListFollows(v2)'
    BY <1>1, <1>2 DEF ListFollows
  <1>5. v3 = "answered" => ListFollows(v4)'
    BY <1>1, <1>2 DEF ListFollows
  <1> QED
    BY <1>1, <1>2, <1>3, <1>4, <1>5

LEMMA AssetAfterRequestAnswered == ASSUME AssetInv, Chart!RequestAnswered PROVE AssetInv'
  <1> USE DEF AssetInv
  <1>1. /\ v6.answer # "none" /\ v6' = Chart!NotDoing
        /\ IF v6.answer = "failed" THEN UNCHANGED <<v2, v5>>
           ELSE /\ v2' = IF v6.what = "update" /\ v2[v6.asset] = None THEN v2
                         ELSE [v2 EXCEPT ![v6.asset] = v6.period]
                /\ v5' = IF v6.what = "delete" THEN Chart!FormAfterDelete(v6.asset) ELSE Chart!NewForm
        /\ v8' = v8 \cup Chart!Overtaken(v6.asset) /\ UNCHANGED <<v1, v3, v4>>
    BY DEF Chart!RequestAnswered
  <1>2. v6.asset \in Assets /\ v6.period \in KeptPeriods /\ v6.answer \in {"ok", "failed"}
        /\ v6.what \in {"create", "update", "delete"}
        /\ (v6.what \in {"create", "update"} => v6.period # None)
    BY <1>1, EmptyAssets DEF RequestIsWhole, AssetTypes, AnyDoing
  <1>3. v2' \in [Assets -> KeptPeriods] /\ v5' \in AnyAssetForm /\ v5'.editing \in {v5.editing, None}
    BY <1>1, <1>2, EmptyAssets DEF AssetTypes, Chart!FormAfterDelete
  <1>4. AssetTypes' /\ RequestIsWhole'
    BY <1>1, <1>3, EmptyAssets DEF AssetTypes, RequestIsWhole
  <1>5. v3 = "answered" => ListFollows(v4)'
    BY <1>1, <1>2, EmptyAssets DEF ListFollows, Chart!Overtaken
  <1>6. v3 = "done" => ListFollows(v2)'
    <2> SUFFICES ASSUME v3 = "done", NEW a \in Assets \ v8 PROVE v2'[a] = v1[a]
      BY <1>1, EmptyAssets DEF ListFollows
    <2>1. CASE a = v6.asset /\ v6.answer = "ok"
      BY <1>1, <1>2, <2>1 DEF ListFollows, AssetTypes
    <2>2. CASE a # v6.asset \/ v6.answer # "ok"
      BY <1>1, <1>2, <2>2 DEF ListFollows, AssetTypes
    <2> QED
      BY <2>1, <2>2
  <1>7. v5'.editing # None => v3 = "done" /\ v2'[v5'.editing] # None
    <2> SUFFICES ASSUME v5'.editing # None PROVE v3 = "done" /\ v2'[v5'.editing] # None
      OBVIOUS
    <2>1. v5'.editing = v5.editing /\ v3 = "done" /\ v2[v5.editing] # None
          /\ v5.editing \in Assets
      BY <1>3 DEF AssetTypes, AnyAssetForm
    <2>2. CASE v6.answer = "failed"
      BY <1>1, <2>1, <2>2
    <2>3. CASE v6.answer = "ok" /\ v6.what = "delete"
      BY <1>1, <1>2, <2>1, <2>3, EmptyAssets DEF Chart!FormAfterDelete, AssetTypes
    <2>4. CASE v6.answer = "ok" /\ v6.what # "delete"
      BY <1>1, <1>2, <2>1, <2>4, EmptyAssets DEF AssetTypes
    <2> QED
      BY <1>2, <2>2, <2>3, <2>4
  <1> QED
    BY <1>1, <1>4, <1>5, <1>6, <1>7, EmptyAssets

LEMMA AssetAfterElsewhere == ASSUME AssetInv, Chart!Elsewhere PROVE AssetInv'
  <1> USE DEF AssetInv
  <1>1. PICK a \in Assets, p \in KeptPeriods :
          /\ v1' = [v1 EXCEPT ![a] = p]
          /\ v8' = IF v3 = "asked" /\ v6.asset # a THEN v8 ELSE v8 \cup {a}
    BY DEF Chart!Elsewhere, KeptPeriods
  <1>2. UNCHANGED <<v2, v3, v4, v5, v6>>
    BY DEF Chart!Elsewhere
  <1>3. v1' \in [Assets -> KeptPeriods] /\ \A b \in Assets : b # a => v1'[b] = v1[b]
    BY <1>1 DEF AssetTypes
  <1>4. AssetTypes' /\ RequestIsWhole'
    BY <1>2, <1>3 DEF AssetTypes, RequestIsWhole
  <1>5. v3 = "answered" => ListFollows(v4)'
    BY <1>1, <1>2, <1>3 DEF ListFollows
  <1>6. v3 = "done" => ListFollows(v2)'
    BY <1>1, <1>2, <1>3 DEF ListFollows
  <1>7. v6.answer = "ok" => v6.asset \in Assets
    BY EmptyAssets DEF RequestIsWhole, AssetTypes, AnyDoing
  <1> QED
    BY <1>1, <1>2, <1>3, <1>4, <1>5, <1>6, <1>7

(* The chart *)

\* Arithmetic: what is needed of products, quotients and the larger and the smaller.
LEMMA Times == ASSUME NEW a \in Int, NEW b \in Int, NEW c \in Nat, a <= b PROVE a * c <= b * c
  OBVIOUS

LEMMA DivisionIs ==
  ASSUME NEW x \in Int, NEW u \in Nat \ {0}
  PROVE  /\ x \div u \in Int /\ x % u \in Nat /\ x % u < u
         /\ x = (x \div u) * u + (x % u)
  OBVIOUS

LEMMA LargerOf == ASSUME NEW a \in Int, NEW b \in Int
                  PROVE  Chart!Max({a, b}) = IF a >= b THEN a ELSE b
  BY DEF Chart!Max

LEMMA SmallerOf == ASSUME NEW a \in Int, NEW b \in Int
                   PROVE  Chart!Min({a, b}) = IF a <= b THEN a ELSE b
  BY DEF Chart!Min

\* A pixel is counted in units of two days' worth.
LEMMA UnitIs == ASSUME Chart!Days \in Nat \ {0}
                PROVE  Chart!Unit \in Nat \ {0} /\ Chart!Unit = 2 * Chart!Days
  BY DEF Chart!Unit

\* it is the number that is rounded to
LEMMA RoundedIs ==
  ASSUME Chart!Days \in Nat \ {0}, NEW x \in Int
  PROVE  /\ Chart!Rounded(x) \in Int
         /\ Chart!Rounded(x) * Chart!Unit <= 100 * x + Chart!Days
         /\ 100 * x + Chart!Days < Chart!Rounded(x) * Chart!Unit + Chart!Unit
  <1> DEFINE d == Chart!Days
             u == Chart!Unit
             q == x \div u
             r == x % u
             s == (100 * r + d) \div u
             t == (100 * r + d) % u
  <1>1. u \in Nat \ {0} /\ d \in Nat
    BY UnitIs
  <1>2. q \in Int /\ r \in Nat /\ x = q * u + r
    BY <1>1, DivisionIs
  <1>3. 100 * r + d \in Int
    BY <1>1, <1>2
  <1>4. s \in Int /\ t \in Nat /\ t < u /\ 100 * r + d = s * u + t
    BY <1>1, <1>3, DivisionIs
  <1>5. Chart!Rounded(x) = 100 * q + s
    BY DEF Chart!Rounded
  <1> HIDE DEF d, u, q, r, s, t
  <1>6. (100 * q + s) * u = 100 * (q * u) + s * u
    BY <1>1, <1>2, <1>4
  <1>7. q * u \in Int /\ s * u \in Int /\ 100 * x + d = 100 * (q * u) + s * u + t
    BY <1>1, <1>2, <1>4
  <1>8. /\ 100 * q + s \in Int
        /\ (100 * q + s) * u <= 100 * x + d /\ 100 * x + d < (100 * q + s) * u + u
    BY <1>1, <1>2, <1>4, <1>6, <1>7
  <1> QED
    BY <1>5, <1>8 DEF d, u

\* Rounding keeps the order.
LEMMA RoundingOrders ==
  ASSUME Chart!Days \in Nat \ {0}, NEW x \in Int, NEW y \in Int, x <= y
  PROVE  Chart!Rounded(x) <= Chart!Rounded(y)
  <1> DEFINE u == Chart!Unit
             a == Chart!Rounded(x)
             b == Chart!Rounded(y)
  <1>1. u \in Nat \ {0} /\ Chart!Days \in Nat
    BY UnitIs
  <1>2. a \in Int /\ b \in Int /\ a * u <= 100 * x + Chart!Days /\ 100 * y + Chart!Days < b * u + u
    BY RoundedIs
  <1> HIDE DEF u, a, b
  <1>3. SUFFICES ASSUME b + 1 <= a PROVE FALSE
    BY <1>2 DEF a, b
  <1>4. (b + 1) * u <= a * u
    BY <1>1, <1>2, <1>3, Times
  <1>5. (b + 1) * u = b * u + u /\ b * u \in Int /\ a * u \in Int
    BY <1>1, <1>2
  <1> QED
    BY <1>1, <1>2, <1>4, <1>5

\* Two lengths rounded differ from the rounded sum by one hundredth at most.
LEMMA RoundingAdds ==
  ASSUME Chart!Days \in Nat \ {0}, NEW x \in Int, NEW y \in Int
  PROVE  /\ Chart!Rounded(x) + Chart!Rounded(y) <= Chart!Rounded(x + y) + 1
         /\ Chart!Rounded(x + y) <= Chart!Rounded(x) + Chart!Rounded(y) + 1
  <1> DEFINE u == Chart!Unit
             d == Chart!Days
             a == Chart!Rounded(x)
             b == Chart!Rounded(y)
             c == Chart!Rounded(x + y)
  <1>1. u \in Nat \ {0} /\ d \in Nat /\ u = 2 * d
    BY UnitIs
  <1>2. /\ a \in Int /\ a * u <= 100 * x + d /\ 100 * x + d < a * u + u
        /\ b \in Int /\ b * u <= 100 * y + d /\ 100 * y + d < b * u + u
        /\ c \in Int /\ c * u <= 100 * (x + y) + d /\ 100 * (x + y) + d < c * u + u
    BY RoundedIs
  <1> HIDE DEF u, d, a, b, c
  <1>3. a * u \in Int /\ b * u \in Int /\ c * u \in Int
    BY <1>1, <1>2
  <1>4. a * u + b * u < c * u + 2 * u /\ c * u < a * u + b * u + 2 * u
    BY <1>1, <1>2, <1>3
  <1>5. a + b <= c + 1
    <2> SUFFICES ASSUME c + 2 <= a + b PROVE FALSE
      BY <1>2
    <2>1. (c + 2) * u <= (a + b) * u
      BY <1>1, <1>2, Times
    <2>2. (c + 2) * u = c * u + 2 * u /\ (a + b) * u = a * u + b * u
      BY <1>1, <1>2
    <2> QED
      BY <1>1, <1>3, <1>4, <2>1, <2>2
  <1>6. c <= a + b + 1
    <2> SUFFICES ASSUME a + b + 2 <= c PROVE FALSE
      BY <1>2
    <2>1. (a + b + 2) * u <= c * u
      BY <1>1, <1>2, Times
    <2>2. (a + b + 2) * u = a * u + b * u + 2 * u
      BY <1>1, <1>2
    <2> QED
      BY <1>1, <1>3, <1>4, <2>1, <2>2
  <1> QED
    BY <1>5, <1>6 DEF a, b, c

\* whole pixels stay whole
LEMMA RoundingShifts ==
  ASSUME Chart!Days \in Nat \ {0}, NEW x \in Int, NEW k \in Int
  PROVE  Chart!Rounded(x + k * Chart!Unit) = Chart!Rounded(x) + 100 * k
  <1> DEFINE u == Chart!Unit
             d == Chart!Days
             a == Chart!Rounded(x)
             c == Chart!Rounded(x + k * u)
  <1>1. u \in Nat \ {0} /\ d \in Nat /\ u = 2 * d
    BY UnitIs
  <1>2. x + k * u \in Int /\ k * u \in Int
    BY <1>1
  <1>3. /\ a \in Int /\ a * u <= 100 * x + d /\ 100 * x + d < a * u + u
        /\ c \in Int /\ c * u <= 100 * (x + k * u) + d /\ 100 * (x + k * u) + d < c * u + u
    BY <1>2, RoundedIs
  <1> HIDE DEF u, d, a, c
  <1>4. a * u \in Int /\ c * u \in Int /\ (a + 100 * k) * u = a * u + 100 * (k * u)
    BY <1>1, <1>3
  <1>5. c * u < (a + 100 * k) * u + u /\ (a + 100 * k) * u < c * u + u
    BY <1>1, <1>2, <1>3, <1>4
  <1>6. ~(a + 100 * k + 1 <= c)
    <2> SUFFICES ASSUME a + 100 * k + 1 <= c PROVE FALSE
      OBVIOUS
    <2>1. (a + 100 * k + 1) * u <= c * u
      BY <1>1, <1>3, Times
    <2>2. (a + 100 * k + 1) * u = (a + 100 * k) * u + u
      BY <1>1, <1>3
    <2> QED
      BY <1>1, <1>4, <1>5, <2>1, <2>2
  <1>7. ~(c + 1 <= a + 100 * k)
    <2> SUFFICES ASSUME c + 1 <= a + 100 * k PROVE FALSE
      OBVIOUS
    <2>1. (c + 1) * u <= (a + 100 * k) * u
      BY <1>1, <1>3, Times
    <2>2. (c + 1) * u = c * u + u
      BY <1>1, <1>3
    <2> QED
      BY <1>1, <1>4, <1>5, <2>1, <2>2
  <1>8. c = a + 100 * k
    BY <1>3, <1>6, <1>7
  <1> QED
    BY <1>8 DEF a, c, u

\* A set of natural numbers has a least one.
LEMMA LeastNatural == ASSUME NEW T \in SUBSET Nat, T # {} PROVE \E m \in T : \A n \in T : m <= n
  <1> DEFINE R == {ss \in Nat \X Nat : ss[1] < ss[2]}
  <1>1. IsWellFoundedOn(R, Nat)
    BY NatLessThanWellFounded, Zenon DEF OpToRel
  <1> HIDE DEF R
  <1>2. PICK m \in T : \A n \in T : ~(<<n, m>> \in R)
    BY <1>1, WFMin, Zenon
  <1>3. \A n \in T : ~(n < m)
    BY <1>2 DEF R
  <1> QED
    BY <1>3

\* A set of integers that is bounded has a least and a greatest one.
LEMMA LeastIs ==
  ASSUME NEW S \in SUBSET Int, S # {}, NEW low \in Int, \A s \in S : low <= s
  PROVE  Chart!Min(S) \in S /\ \A s \in S : Chart!Min(S) <= s
  <1> DEFINE T == {s - low : s \in S}
  <1>1. \A s \in S : s \in Int /\ s - low \in Nat /\ s - low \in T
    OBVIOUS
  <1>2. T \in SUBSET Nat
    BY <1>1
  <1>3. T # {}
    BY <1>1
  <1>4. PICK m \in T : \A n \in T : m <= n
    BY <1>2, <1>3, LeastNatural
  <1>5. PICK s \in S : m = s - low
    BY <1>4
  <1>6. \A n \in T : m <= n
    BY <1>4
  <1> HIDE DEF T
  <1>7. \A o \in S : s <= o
    <2> TAKE o \in S
    <2>1. m <= o - low /\ o \in Int /\ s \in Int
      BY <1>1, <1>6, <1>5
    <2> QED
      BY <2>1, <1>5
  <1> QED
    BY <1>5, <1>7 DEF Chart!Min

LEMMA GreatestIs ==
  ASSUME NEW S \in SUBSET Int, S # {}, NEW high \in Int, \A s \in S : s <= high
  PROVE  Chart!Max(S) \in S /\ \A s \in S : s <= Chart!Max(S)
  <1> DEFINE T == {high - s : s \in S}
  <1>1. \A s \in S : s \in Int /\ high - s \in Nat /\ high - s \in T
    OBVIOUS
  <1>2. T \in SUBSET Nat
    BY <1>1
  <1>3. T # {}
    BY <1>1
  <1>4. PICK m \in T : \A n \in T : m <= n
    BY <1>2, <1>3, LeastNatural
  <1>5. PICK s \in S : m = high - s
    BY <1>4
  <1>6. \A n \in T : m <= n
    BY <1>4
  <1> HIDE DEF T
  <1>7. \A o \in S : o <= s
    <2> TAKE o \in S
    <2>1. m <= high - o /\ o \in Int /\ s \in Int
      BY <1>1, <1>6, <1>5
    <2> QED
      BY <2>1, <1>5
  <1> QED
    BY <1>5, <1>7 DEF Chart!Max

\* the chart covers today and everything it shows
LEMMA ChartSpans ==
  ASSUME AssetInv
  PROVE  /\ Chart!Start \in Int /\ Chart!End \in Int /\ Chart!Days \in Nat \ {0}
         /\ Chart!Start <= Today /\ Today <= Chart!End
         /\ \A p \in Chart!Shown : /\ p \in Int \X Int /\ p[1] <= p[2]
                                   /\ Chart!Start <= p[1] /\ p[2] <= Chart!End
  <1>1. \A p \in Chart!Shown : p \in Periods /\ p \in Int \X Int /\ p[1] <= p[2]
    BY PeriodsAssumption DEF Chart!Shown, AssetInv, AssetTypes, KeptPeriods
  <1>2. PICK first \in Periods : \A p \in Periods : first[1] <= p[1]
    BY PeriodsAssumption
  <1>3. PICK last \in Periods : \A p \in Periods : p[2] <= last[2]
    BY PeriodsAssumption
  <1>4. first[1] \in Int /\ last[2] \in Int /\ Today \in Int
    BY PeriodsAssumption
  <1> DEFINE S == {Today} \cup {p[1] : p \in Chart!Shown}
             E == {Today} \cup {p[2] : p \in Chart!Shown}
  <1>5. S \in SUBSET Int /\ E \in SUBSET Int /\ Today \in S /\ Today \in E
    BY <1>1, <1>4
  <1>6. PICK low \in Int : \A s \in S : low <= s
    <2> DEFINE l == IF Today <= first[1] THEN Today ELSE first[1]
    <2>1. l \in Int /\ l <= Today /\ l <= first[1]
      BY <1>4
    <2>2. \A s \in S : l <= s
      BY <1>1, <1>2, <1>4, <2>1
    <2> QED
      BY <2>1, <2>2
  <1>7. PICK high \in Int : \A s \in E : s <= high
    <2> DEFINE h == IF Today >= last[2] THEN Today ELSE last[2]
    <2>1. h \in Int /\ h >= Today /\ h >= last[2]
      BY <1>4
    <2>2. \A s \in E : s <= h
      BY <1>1, <1>3, <1>4, <2>1
    <2> QED
      BY <2>1, <2>2
  <1>8. Chart!Start \in Int /\ \A s \in S : Chart!Start <= s
    BY <1>5, <1>6, LeastIs DEF Chart!Start
  <1>9. Chart!End \in Int /\ \A s \in E : s <= Chart!End
    BY <1>5, <1>7, GreatestIs DEF Chart!End
  <1>10. Chart!Days \in Nat \ {0}
    BY <1>4, <1>5, <1>8, <1>9 DEF Chart!Days
  <1> QED
    BY <1>1, <1>5, <1>8, <1>9, <1>10

\* The chart is between 640 and 12000 pixels wide.
LEMMA WidthIs == ASSUME Chart!Days \in Nat \ {0}
                 PROVE  Chart!Width \in Nat /\ 640 <= Chart!Width /\ Chart!Width <= 12000
  <1> DEFINE w == (12 * Chart!Days + 4) \div 5
  <1>1. w \in Int
    OBVIOUS
  <1> HIDE DEF w
  <1>2. Chart!Min({12000, w}) \in Int /\ Chart!Min({12000, w}) <= 12000
    BY <1>1, SmallerOf
  <1>3. Chart!Width = Chart!Max({640, Chart!Min({12000, w})})
    BY DEF Chart!Width, w
  <1> QED
    BY <1>2, <1>3, LargerOf

\* a bar, before it is rounded
LEMMA BarIs ==
  ASSUME Chart!Days \in Nat \ {0}, Chart!Start \in Int, Chart!End \in Int,
         NEW p \in Int \X Int, p[1] <= p[2], Chart!Start <= p[1], p[2] <= Chart!End
  PROVE  LET l == Chart!BarLeft(p)  b == Chart!BarWidth(p)
             rl == Chart!RawLeft(p)  rw == Chart!RawWidth(p)
             whole == Chart!Width * Chart!Unit
         IN  /\ l \in Int /\ b \in Int /\ rl \in Int /\ rw \in Int
             /\ 0 <= l /\ l + b <= whole /\ 8 * Chart!Unit <= b
             /\ l <= rl /\ rl + rw <= l + b
             /\ rl <= l + 8 * Chart!Unit /\ l + b <= rl + rw + 8 * Chart!Unit
  <1> DEFINE w == Chart!Width
             u == Chart!Unit
             s == Chart!Start
             whole == w * u
             rl == 2 * (p[1] - s) * w
             rw == 2 * (p[2] - p[1] + 1) * w
  <1>1. w \in Nat /\ 640 <= w /\ u \in Nat \ {0} /\ u = 2 * (Chart!End - s + 1)
    BY WidthIs, UnitIs DEF Chart!Days
  <1>2. p[1] \in Int /\ p[2] \in Int /\ s \in Int
    OBVIOUS
  <1> HIDE DEF w, u, s
  <1>3. rl \in Int /\ rw \in Int /\ whole \in Int
    BY <1>1, <1>2
  <1>4. 0 <= rl
    <2>1. 0 * w <= 2 * (p[1] - s) * w
      BY <1>1, <1>2, Times DEF s
    <2> QED
      BY <2>1, <1>1
  <1>5. 0 <= rw
    <2>1. 0 * w <= 2 * (p[2] - p[1] + 1) * w
      BY <1>1, <1>2, Times
    <2> QED
      BY <2>1, <1>1
  <1>6. rl + rw <= whole
    <2>1. rl + rw = (2 * (p[2] - s + 1)) * w
      BY <1>1, <1>2
    <2>2. 2 * (p[2] - s + 1) <= u
      BY <1>1, <1>2
    <2>3. (2 * (p[2] - s + 1)) * w <= u * w
      BY <1>1, <1>2, <2>2, Times
    <2>4. u * w = whole
      BY <1>1
    <2> QED
      BY <2>1, <2>3, <2>4
  <1>7. 8 * u <= whole
    BY <1>1, Times
  <1> HIDE DEF rl, rw, whole
  <1> DEFINE b == IF rw >= 8 * u THEN rw ELSE 8 * u
  <1>8. Chart!RawLeft(p) = rl /\ Chart!RawWidth(p) = rw
    BY DEF Chart!RawLeft, Chart!RawWidth, rl, rw, w, s
  <1>9. Chart!Max({rw, 8 * u}) = b /\ b \in Int /\ b <= whole /\ 8 * u <= b /\ rw <= b
        /\ b <= rw + 8 * u
    BY <1>1, <1>3, <1>4, <1>5, <1>6, <1>7, LargerOf
  <1>10. Chart!BarWidth(p) = b
    <2>1. Chart!BarWidth(p) = Chart!Min({whole, b})
      BY <1>8, <1>9 DEF Chart!BarWidth, whole, w, u
    <2> QED
      BY <1>3, <1>9, <2>1, SmallerOf
  <1> HIDE DEF b
  <1> DEFINE half == (b - rw) \div 2
             c == rl - half
             l == IF (IF c >= 0 THEN c ELSE 0) <= whole - b THEN (IF c >= 0 THEN c ELSE 0) ELSE whole - b
  <1>11. half \in Int /\ 0 <= half /\ half <= b - rw
    BY <1>3, <1>9
  <1> HIDE DEF half
  <1>12. Chart!BarLeft(p) = l /\ l \in Int
    <2>1. Chart!Centered(p) = c /\ c \in Int
      BY <1>3, <1>8, <1>10, <1>11 DEF Chart!Centered, half
    <2>2. Chart!Max({c, 0}) = IF c >= 0 THEN c ELSE 0
      BY <2>1, LargerOf
    <2>3. Chart!BarLeft(p) = Chart!Min({Chart!Max({c, 0}), whole - b})
      BY <1>10, <2>1 DEF Chart!BarLeft, whole, w, u
    <2>4. whole - b \in Int /\ (IF c >= 0 THEN c ELSE 0) \in Int
      BY <1>3, <1>9, <2>1
    <2> QED
      BY <2>2, <2>3, <2>4, SmallerOf
  <1>13. /\ 0 <= l /\ l + b <= whole /\ l <= rl /\ rl + rw <= l + b
         /\ rl <= l + 8 * u /\ l + b <= rl + rw + 8 * u
    BY <1>1, <1>3, <1>4, <1>5, <1>6, <1>7, <1>9, <1>11
  <1> HIDE DEF l
  <1> QED
    BY <1>3, <1>8, <1>9, <1>10, <1>12, <1>13 DEF whole, w, u

\* Nothing is rounded to nothing.
LEMMA RoundedZero == ASSUME Chart!Days \in Nat \ {0} PROVE Chart!Rounded(0) = 0
  <1> DEFINE u == Chart!Unit
             a == Chart!Rounded(0)
  <1>1. u \in Nat \ {0} /\ u = 2 * Chart!Days
    BY UnitIs
  <1>2. a \in Int /\ a * u <= 100 * 0 + Chart!Days /\ 100 * 0 + Chart!Days < a * u + u
    BY RoundedIs
  <1> HIDE DEF u, a
  <1>3. a * u \in Int
    BY <1>1, <1>2
  <1>4. ~(1 <= a)
    <2> SUFFICES ASSUME 1 <= a PROVE FALSE
      OBVIOUS
    <2>1. 1 * u <= a * u
      BY <1>1, <1>2, Times
    <2> QED
      BY <1>1, <1>2, <1>3, <2>1
  <1>5. ~(a <= -1)
    <2> SUFFICES ASSUME a <= -1 PROVE FALSE
      OBVIOUS
    <2>1. a * u <= (-1) * u
      BY <1>1, <1>2, Times
    <2> QED
      BY <1>1, <1>2, <1>3, <2>1
  <1> QED
    BY <1>2, <1>4, <1>5 DEF a

\* The page begins so, and every step of the web client keeps it so.
LEMMA AssetInitial == WebInit => AssetPart
  <1> SUFFICES ASSUME WebInit, part = "assets" PROVE AssetInv
    BY DEF AssetPart
  <1>1. Chart!AssetInit
    BY DEF WebInit
  <1>2. /\ v1 \in [Assets -> {None} \cup {p \in Periods : p[1] <= p[2]}]
        /\ v2 = Chart!Nowhere /\ v3 = "asked" /\ v4 = Chart!Nowhere
        /\ v5 = Chart!NewForm /\ v6 = Chart!NotDoing
    BY <1>1 DEF Chart!AssetInit
  <1>3. v1 \in [Assets -> KeptPeriods]
    BY <1>2 DEF KeptPeriods
  <1>4. AssetTypes /\ RequestIsWhole
    BY <1>2, <1>3, EmptyAssets DEF AssetTypes, RequestIsWhole
  <1> QED
    BY <1>2, <1>4, EmptyAssets DEF AssetInv

LEMMA AssetStep == AssetPart /\ [WebNext]_web => AssetPart'
  <1> SUFFICES ASSUME AssetPart, [WebNext]_web, part' = "assets" PROVE AssetInv'
    BY DEF AssetPart
  <1>1. CASE UNCHANGED web
    BY <1>1, AssetStays DEF web, AssetPart
  <1>2. CASE WebNext
    <2>1. part = "assets" /\ Chart!AssetNext
      BY <1>2 DEF WebNext, Rest13, Rest11, Rest10, Rest9, Rest6
    <2>2. AssetInv
      BY <2>1 DEF AssetPart
    <2>3. CASE \E a \in Assets : Chart!EditsAsset(a) \/ Chart!RemovesAsset(a)
      BY <2>2, <2>3, AssetAfterEditsAsset, AssetAfterRemovesAsset
    <2>4. CASE \/ Chart!LoadServed \/ Chart!LoadArrives \/ Chart!LoadFails
               \/ Chart!RetriesLoad \/ Chart!Remounts \/ Chart!Types \/ Chart!Resets
      BY <2>2, <2>4, AssetAfterLoadServed, AssetAfterLoadArrives, AssetAfterLoadFails,
         AssetAfterRetriesLoad, AssetAfterRemounts, AssetAfterTypes, AssetAfterResets
    <2>5. CASE \/ Chart!Submits \/ Chart!RequestServed \/ Chart!RequestFails
               \/ Chart!RequestAnswered \/ Chart!Elsewhere
      BY <2>2, <2>5, AssetAfterSubmits, AssetAfterRequestServed, AssetAfterRequestFails,
         AssetAfterRequestAnswered, AssetAfterElsewhere
    <2> QED
      BY <2>1, <2>3, <2>4, <2>5 DEF Chart!AssetNext
  <1> QED
    BY <1>1, <1>2

\* The list is the stored one.
LEMMA AssetListMatches == ASSUME AssetInv PROVE Chart!ListIsStored
  <1>1. ASSUME v3 = "done", v6 = Chart!NotDoing, NEW a \in Assets \ v8 PROVE v2[a] = v1[a]
    BY <1>1, EmptyAssets DEF AssetInv, ListFollows
  <1>2. v5.editing # None /\ v3 = "done" => v2[v5.editing] # None
    BY DEF AssetInv
  <1> QED
    BY <1>1, <1>2 DEF Chart!ListIsStored, Chart!Busy

\* where the line of today lies beside a bar
LEMMA TodayIs ==
  ASSUME Chart!Days \in Nat \ {0}, Chart!Start \in Int, Chart!Start <= Today, Today \in Int,
         NEW p \in Int \X Int, p[1] <= p[2]
  PROVE  LET today == Chart!TodayLeft  rl == Chart!RawLeft(p)  rw == Chart!RawWidth(p)
         IN  /\ today \in Int
             /\ p[1] <= Today => rl <= today
             /\ Today <= p[2] => today <= rl + rw
             /\ p[2] < Today => rl + rw <= today
             /\ Today < p[1] => today <= rl
  <1> DEFINE w == Chart!Width
             s == Chart!Start
             a == 2 * (p[1] - s)
             b == 2 * (p[2] - s + 1)
             t == 2 * (Today - s) + 1
  <1>1. w \in Nat /\ s \in Int /\ p[1] \in Int /\ p[2] \in Int /\ a \in Int /\ b \in Int /\ t \in Int
    BY WidthIs
  <1>2. Chart!TodayLeft = t * w /\ Chart!RawLeft(p) = a * w
    BY DEF Chart!TodayLeft, Chart!RawLeft
  <1>3. Chart!RawLeft(p) + Chart!RawWidth(p) = b * w
    <2> HIDE DEF w, s
    <2>1. 2 * (p[1] - s) * w + 2 * (p[2] - p[1] + 1) * w = (2 * (p[2] - s + 1)) * w
      BY <1>1
    <2> QED
      BY <2>1 DEF w, s, Chart!RawLeft, Chart!RawWidth
  <1>4. /\ p[1] <= Today => a <= t
        /\ Today <= p[2] => t <= b
        /\ p[2] < Today => b <= t
        /\ Today < p[1] => t <= a
    <2> HIDE DEF s
    <2> QED
      BY <1>1
  <1> HIDE DEF w, a, b, t
  <1>5. t * w \in Int /\ a * w \in Int /\ b * w \in Int
    BY <1>1
  <1>6. (a <= t => a * w <= t * w) /\ (t <= b => t * w <= b * w)
    BY <1>1, Times
  <1>7. (b <= t => b * w <= t * w) /\ (t <= a => t * w <= a * w)
    BY <1>1, Times
  <1> QED
    BY <1>2, <1>3, <1>4, <1>5, <1>6, <1>7

\* The chart tells the truth: by the bounds of a bar before it is rounded and by what
\* rounding does to sums.
LEMMA ChartHolds == ASSUME AssetInv PROVE Chart!ChartIsTrue
  <1> SUFFICES ASSUME NEW p \in Chart!Shown
               PROVE  LET b == Chart!Bar(p)  today == Chart!Rounded(Chart!TodayLeft)
                          right == b.left + b.width
                      IN  /\ b.left >= 0 /\ right <= 100 * Chart!Width + 1 /\ b.width >= 800
                          /\ b.left <= Chart!Rounded(Chart!RawLeft(p)) + 1
                          /\ right >= Chart!Rounded(Chart!RawLeft(p) + Chart!RawWidth(p)) - 1
                          /\ Chart!Status(p) \in {"active", "expiring"}
                               => b.left <= today /\ today <= right + 1
                          /\ Chart!Status(p) = "expired"  => today >= right - 801
                          /\ Chart!Status(p) = "upcoming" => today <= b.left + 800
    BY DEF Chart!ChartIsTrue
  <1> DEFINE u == Chart!Unit
             w == Chart!Width
             l == Chart!BarLeft(p)
             b == Chart!BarWidth(p)
             rl == Chart!RawLeft(p)
             rw == Chart!RawWidth(p)
             t == Chart!TodayLeft
             R(x) == Chart!Rounded(x)
  <1>1. /\ Chart!Start \in Int /\ Chart!End \in Int /\ Chart!Days \in Nat \ {0}
        /\ Chart!Start <= Today /\ p \in Int \X Int /\ p[1] <= p[2]
        /\ Chart!Start <= p[1] /\ p[2] <= Chart!End /\ Today \in Int
    BY ChartSpans, PeriodsAssumption
  <1>2. u \in Nat \ {0} /\ w \in Nat /\ w * u \in Int /\ 8 * u \in Int
    BY <1>1, UnitIs, WidthIs
  <1>3. /\ l \in Int /\ b \in Int /\ rl \in Int /\ rw \in Int
        /\ 0 <= l /\ l + b <= w * u /\ 8 * u <= b /\ l <= rl /\ rl + rw <= l + b
        /\ rl <= l + 8 * u /\ l + b <= rl + rw + 8 * u
    BY <1>1, BarIs
  <1>4. /\ t \in Int
        /\ p[1] <= Today => rl <= t
        /\ Today <= p[2] => t <= rl + rw
        /\ p[2] < Today => rl + rw <= t
        /\ Today < p[1] => t <= rl
    BY <1>1, TodayIs
  <1>5. /\ Chart!Status(p) \in {"active", "expiring"} => p[1] <= Today /\ Today <= p[2]
        /\ Chart!Status(p) = "expired" => p[2] < Today
        /\ Chart!Status(p) = "upcoming" => Today < p[1]
    <2>1. p[1] \in Int /\ p[2] \in Int
      BY <1>1
    <2>2. CASE p[2] < Today
      <3>1. Chart!Status(p) = "expired"
        BY <2>2 DEF Chart!Status
      <3> QED
        BY <2>2, <3>1
    <2>3. CASE ~(p[2] < Today) /\ p[1] > Today
      <3>1. Chart!Status(p) = "upcoming"
        BY <2>3 DEF Chart!Status
      <3> QED
        BY <1>1, <2>1, <2>3, <3>1
    <2>4. CASE ~(p[2] < Today) /\ ~(p[1] > Today)
      <3>1. Chart!Status(p) \in {"active", "expiring"}
        BY <2>4 DEF Chart!Status
      <3> QED
        BY <1>1, <2>1, <2>4, <3>1
    <2> QED
      BY <2>2, <2>3, <2>4
  <1>6. Chart!Bar(p).left = R(l) /\ Chart!Bar(p).width = R(b)
    BY DEF Chart!Bar
  <1>7. \A x \in Int : R(x) \in Int
    BY <1>1, RoundedIs
  <1>8. \A x, y \in Int : x <= y => R(x) <= R(y)
    BY <1>1, RoundingOrders
  <1>9. \A x, y \in Int : R(x) + R(y) <= R(x + y) + 1 /\ R(x + y) <= R(x) + R(y) + 1
    BY <1>1, RoundingAdds
  <1>10. \A x, k \in Int : R(x + k * u) = R(x) + 100 * k
    BY <1>1, RoundingShifts
  <1>11. R(0) = 0
    BY <1>1, RoundedZero
  <1> HIDE DEF u, w, l, b, rl, rw, t, R
  <1>12. R(w * u) = 100 * w /\ R(8 * u) = 800
    <2>1. 0 + w * u = w * u /\ 0 + 8 * u = 8 * u /\ w \in Int
      BY <1>2
    <2> QED
      BY <1>2, <1>10, <1>11, <2>1
  <1>13. R(l) \in Int /\ R(b) \in Int /\ R(t) \in Int /\ R(rl) \in Int /\ R(l + b) \in Int
         /\ R(rl + rw) \in Int
    BY <1>3, <1>4, <1>7
  <1>14. R(l) + R(b) <= R(l + b) + 1 /\ R(l + b) <= R(l) + R(b) + 1
    BY <1>3, <1>9
  <1>15. 0 <= R(l)
    BY <1>3, <1>8, <1>11
  <1>16. R(l + b) <= 100 * w
    BY <1>2, <1>3, <1>8, <1>12
  <1>17. 800 <= R(b)
    BY <1>2, <1>3, <1>8, <1>12
  <1>18. R(l) <= R(rl) /\ R(rl + rw) <= R(l + b)
    BY <1>3, <1>8
  <1>19. ASSUME Chart!Status(p) \in {"active", "expiring"} PROVE R(l) <= R(t) /\ R(t) <= R(l + b)
    <2>1. l <= t /\ t <= l + b
      BY <1>3, <1>4, <1>5, <1>19
    <2> QED
      BY <1>3, <1>4, <1>8, <2>1
  <1>20. ASSUME Chart!Status(p) = "expired" PROVE R(l + b) <= R(t) + 800
    <2>1. l + b <= t + 8 * u
      BY <1>2, <1>3, <1>4, <1>5, <1>20
    <2>2. R(l + b) <= R(t + 8 * u)
      BY <1>2, <1>3, <1>4, <1>8, <2>1
    <2>3. R(t + 8 * u) = R(t) + 100 * 8
      BY <1>4, <1>10
    <2> QED
      BY <1>13, <2>2, <2>3
  <1>21. ASSUME Chart!Status(p) = "upcoming" PROVE R(t) <= R(l) + 800
    <2>1. t <= l + 8 * u
      BY <1>2, <1>3, <1>4, <1>5, <1>21
    <2>2. R(t) <= R(l + 8 * u)
      BY <1>2, <1>3, <1>4, <1>8, <2>1
    <2>3. R(l + 8 * u) = R(l) + 100 * 8
      BY <1>3, <1>10
    <2> QED
      BY <1>13, <2>2, <2>3
  <1>22. /\ 0 <= R(l) /\ R(l) + R(b) <= 100 * w + 1 /\ 800 <= R(b)
         /\ R(l) <= R(rl) + 1 /\ R(rl + rw) - 1 <= R(l) + R(b)
    BY <1>2, <1>13, <1>14, <1>15, <1>16, <1>17, <1>18
  <1>23. /\ Chart!Status(p) \in {"active", "expiring"} => R(l) <= R(t) /\ R(t) <= R(l) + R(b) + 1
         /\ Chart!Status(p) = "expired" => R(l) + R(b) - 801 <= R(t)
         /\ Chart!Status(p) = "upcoming" => R(t) <= R(l) + 800
    BY <1>13, <1>14, <1>19, <1>20, <1>21
  <1> QED
    BY <1>2, <1>6, <1>13, <1>22, <1>23 DEF w, t, rl, rw, R

\* The page lists the assets that are stored, and each bar covers its days on the right
\* side of the line of today, for every set of periods however long and however many
\* saves, deletions and retries.
THEOREM AssetPromise == WebSpec => []AssetsAreShownTruly
  <1>1. AssetPart => AssetsAreShownTruly
    BY AssetListMatches, ChartHolds DEF AssetPart, AssetsAreShownTruly
  <1> QED
    BY <1>1, AssetInitial, AssetStep, PTL DEF WebSpec
=============================================================================
