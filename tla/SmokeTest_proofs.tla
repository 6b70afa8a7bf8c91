----------------------------- MODULE SmokeTest_proofs -----------------------------
(***************************************************************************)
(* The smoke tests never pass, however often the workflow runs them.       *)
(*                                                                         *)
(* The registration insists on a refresh token in the body, and the API    *)
(* puts it into the cookie: the fourth step fails whether or not it is     *)
(* answered, and a failed step starts the list again or ends the workflow. *)
(***************************************************************************)
EXTENDS SmokeTest, TLAPS

\* What a step on the controller of authentication asks for, and what it reads.
LEMMA AuthStep ==
  ASSUME NEW h, NEW expects, NEW reads
  PROVE  /\ Auth(h, expects, reads).on = <<"auth", h>>
         /\ Auth(h, expects, reads).reads = reads
<1>1. Auth(h, expects, reads).on = <<"auth", h>>
  BY DEF Auth, Plain
<1>2. Auth(h, expects, reads).reads = reads
  BY DEF Auth, Plain
<1> QED BY <1>1, <1>2

\* No answer of that controller has a refresh token in its body.
LEMMA AuthFields ==
  ASSUME NEW s, s.on[1] = "auth"
  PROVE  Fields(s) = {"access_token", "user.id"}
BY DEF Fields

\* The list goes on after the registration, which reads what no answer has.
LEMMA RegistrationFails ==
  /\ Len(Steps) = 17
  /\ ~ Steps[4].reads \subseteq Fields(Steps[4])
<1>1. Len(Steps) = 17
  BY DEF Steps
<1>2. Steps[4] = Auth("register", 201, {"access_token", "refresh_token"})
  BY DEF Steps
<1>3. /\ Steps[4].on = <<"auth", "register">>
      /\ Steps[4].reads = {"access_token", "refresh_token"}
  <2>1. /\ Auth("register", 201, {"access_token", "refresh_token"}).on = <<"auth", "register">>
        /\ Auth("register", 201, {"access_token", "refresh_token"}).reads
             = {"access_token", "refresh_token"}
    BY AuthStep
  <2> QED BY <1>2, <2>1, Zenon
<1>4. Steps[4].on[1] = "auth"
  BY <1>3
<1>5. Fields(Steps[4]) = {"access_token", "user.id"}
  BY <1>4, AuthFields
<1> QED BY <1>1, <1>3, <1>5

\* A deployment cannot pass, although its API may answer every request: for any
\* number of attempts, each ends at the registration or before.
THEOREM SmokeTestsFail == SmokeSpec => []NoAttemptPasses
<1>1. SmokeInit => NoAttemptPasses
  BY DEF SmokeInit, NoAttemptPasses
<1>2. NoAttemptPasses /\ [Answered \/ Unanswered]_smokeVars => NoAttemptPasses'
  <2> SUFFICES ASSUME NoAttemptPasses, [Answered \/ Unanswered]_smokeVars
               PROVE  NoAttemptPasses'
    OBVIOUS
  <2>1. ASSUME NEW lost, Fail(lost)
        PROVE  NoAttemptPasses'
    BY <2>1 DEF NoAttemptPasses, Fail
  <2>2. ASSUME NEW s, Pass(s), step # 4
        PROVE  NoAttemptPasses'
    BY <2>2, RegistrationFails DEF NoAttemptPasses, Pass
  <2>3. CASE Answered
    <3>1. \/ Fail(FALSE)
          \/ Steps[step].reads \subseteq Fields(Steps[step]) /\ Pass(Steps[step])
      BY <2>3 DEF Answered
    <3> QED BY <2>1, <2>2, <3>1, RegistrationFails
  <2>4. CASE UNCHANGED smokeVars
    BY <2>4 DEF smokeVars, NoAttemptPasses
  <2> QED BY <2>1, <2>3, <2>4 DEF Unanswered
<1> QED BY <1>1, <1>2, PTL DEF SmokeSpec

=============================================================================
