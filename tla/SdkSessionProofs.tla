-------------------------- MODULE SdkSessionProofs --------------------------
(***************************************************************************)
(* Proofs about SdkSession, with the client and the profiler it is composed *)
(* of, for any number of samplers, samples, faults and expiries.  The       *)
(* inductive invariant has a part for each of the three: what the client    *)
(* knows of the call under way, what the profiler knows of the run, and     *)
(* what the session may tell of both in each of its phases.                 *)
(***************************************************************************)
EXTENDS SdkSession, TLAPS

(* A call has no answer and no effect until it is answered; an answer that *)
(* is ok, from a server that does not redirect, has had its effect.        *)
Settled ==
  /\ call.pc # "answered" => call.answer = "none" /\ call.effects = 0
  /\ call.effects <= 1
  /\ call.answer = "ok" /\ ~ moved => call.effects = 1

(* Who has nothing to log in with sends nothing; and what is sent again    *)
(* after a renewal bears a live token, or something went wrong since.      *)
Renewed ==
  /\ cred = "none" => access = "none" /\ call.pc \in {"idle", "answered"}
  /\ call.pc \in {"login", "relogin"} => Api!CanLogIn
  /\ call.pc \in {"refresh", "resend"} => ~ Api!Keyed
  /\ call.pc = "resend" /\ cred = "password" /\ ~ call.troubled => access = "live"

Client == Settled /\ Renewed /\ Api!DeniedForCause

(* From the first reading of the counter to the second it has moved by     *)
(* what was used, or stands at no more than that since it was reset.       *)
Measuring == phase \in {"body", "stopping", "joining"}
CounterMoved ==
  Measuring /\ atStart # Prof!None =>
    IF reset THEN counter <= used ELSE counter = atStart + used

(* Unless a join timed out, no sampler but the one of the run is alive,    *)
(* and the samples are its own; after a stop that returned it has ended.   *)
OnlySampler ==
  /\ \A t \in Sampler \ {current} : thread[t] # "off" => t \in strays
  /\ ~ strayed =>
       /\ strays = {}
       /\ \A i \in DOMAIN samples : samples[i] = current
       /\ phase = "reporting" /\ measured =>
            /\ \A t \in Sampler : thread[t] = "off"
            /\ Len(samples) = telemetry.count

Meter == CounterMoved /\ OnlySampler /\ Prof!CounterHonest

(* What has been said and what may be, by the phase of the session         *)
Ended == phase \in {"stopping", "joining", "reporting", "pushing", "tracing"}
Told ==
  /\ phase # "idle" => outcome = "none" /\ trace.times = 0
  /\ phase \in {"starting", "body", "stopping", "joining", "reporting", "pushing"} => row = "none"
  /\ phase = "starting" => fate = "none"
  /\ phase \in {"starting", "body", "stopping", "joining"} => ~ measured
  /\ Ended => fate # "none" /\ (exit = "success" <=> fate = "ok")
  /\ phase = "tracing" => row # "none" /\ trace.count > 0
  /\ phase \in {"pushing", "tracing"} /\ trace.count > 0 /\ ~ strayed =>
       trace.own /\ trace.count = telemetry.count

IInv == TypeOK /\ Client /\ Meter /\ Told /\ ReportIsTheRuns

-----------------------------------------------------------------------------
(* The client: a call, field by field                                      *)
CallState == [pc : Api!Requests \cup {"idle", "answered"},
              path : Api!Endpoints \cup {"none"},
              answer : Api!Answers \cup {"none"}, effects : 0 .. 2, troubled : BOOLEAN]
CallIs(k, p, a, e, b) ==
  call' = [pc |-> k, path |-> p, answer |-> a, effects |-> e, troubled |-> b]

LEMMA CallGoes ==
  ASSUME NEW c \in CallState, NEW k
  PROVE  [c EXCEPT !.pc = k]
           = [pc |-> k, path |-> c.path, answer |-> c.answer, effects |-> c.effects,
              troubled |-> c.troubled]
<1>1. ASSUME NEW o, o = [c EXCEPT !.pc = k]
      PROVE  o = [pc |-> k, path |-> c.path, answer |-> c.answer, effects |-> c.effects,
                  troubled |-> c.troubled]
  BY <1>1 DEF CallState
<1> QED BY <1>1

LEMMA CallAnswered ==
  ASSUME NEW c \in CallState, NEW k, NEW a
  PROVE  [c EXCEPT !.pc = k, !.answer = a]
           = [pc |-> k, path |-> c.path, answer |-> a, effects |-> c.effects,
              troubled |-> c.troubled]
<1>1. ASSUME NEW o, o = [c EXCEPT !.pc = k, !.answer = a]
      PROVE  o = [pc |-> k, path |-> c.path, answer |-> a, effects |-> c.effects,
                  troubled |-> c.troubled]
  BY <1>1 DEF CallState
<1> QED BY <1>1

LEMMA CallDone ==
  ASSUME NEW c \in CallState, NEW k, NEW a, NEW e
  PROVE  [c EXCEPT !.pc = k, !.answer = a, !.effects = e]
           = [pc |-> k, path |-> c.path, answer |-> a, effects |-> e, troubled |-> c.troubled]
<1>1. ASSUME NEW o, o = [c EXCEPT !.pc = k, !.answer = a, !.effects = e]
      PROVE  o = [pc |-> k, path |-> c.path, answer |-> a, effects |-> e,
                  troubled |-> c.troubled]
  BY <1>1 DEF CallState
<1> QED BY <1>1

LEMMA CallFailed ==
  ASSUME NEW c \in CallState, NEW k, NEW a, NEW e, NEW b
  PROVE  [c EXCEPT !.pc = k, !.answer = a, !.effects = e, !.troubled = b]
           = [pc |-> k, path |-> c.path, answer |-> a, effects |-> e, troubled |-> b]
<1>1. ASSUME NEW o, o = [c EXCEPT !.pc = k, !.answer = a, !.effects = e, !.troubled = b]
      PROVE  o = [pc |-> k, path |-> c.path, answer |-> a, effects |-> e, troubled |-> b]
  BY <1>1 DEF CallState
<1> QED BY <1>1

LEMMA CallTroubled ==
  ASSUME NEW c \in CallState, NEW b
  PROVE  [c EXCEPT !.troubled = b]
           = [pc |-> c.pc, path |-> c.path, answer |-> c.answer, effects |-> c.effects,
              troubled |-> b]
<1>1. ASSUME NEW o, o = [c EXCEPT !.troubled = b]
      PROVE  o = [pc |-> c.pc, path |-> c.path, answer |-> c.answer, effects |-> c.effects,
                  troubled |-> b]
  BY <1>1 DEF CallState
<1> QED BY <1>1

LEMMA CallGoesTroubled ==
  ASSUME NEW c \in CallState, NEW k, NEW b
  PROVE  [c EXCEPT !.pc = k, !.troubled = b]
           = [pc |-> k, path |-> c.path, answer |-> c.answer, effects |-> c.effects,
              troubled |-> b]
<1>1. ASSUME NEW o, o = [c EXCEPT !.pc = k, !.troubled = b]
      PROVE  o = [pc |-> k, path |-> c.path, answer |-> c.answer, effects |-> c.effects,
                  troubled |-> b]
  BY <1>1 DEF CallState
<1> QED BY <1>1

LEMMA CallAnsweredTroubled ==
  ASSUME NEW c \in CallState, NEW k, NEW a, NEW b
  PROVE  [c EXCEPT !.pc = k, !.troubled = b, !.answer = a]
           = [pc |-> k, path |-> c.path, answer |-> a, effects |-> c.effects, troubled |-> b]
<1>1. ASSUME NEW o, o = [c EXCEPT !.pc = k, !.troubled = b, !.answer = a]
      PROVE  o = [pc |-> k, path |-> c.path, answer |-> a, effects |-> c.effects,
                  troubled |-> b]
  BY <1>1 DEF CallState
<1> QED BY <1>1

LEMMA CallTyped ==
  TypeOK => /\ call \in CallState /\ access \in Api!Token /\ refresh \in Api!Token
            /\ cred \in Credentials /\ moved \in BOOLEAN
            /\ cred \in {"key", "wrong key", "password", "wrong password", "none"}
  BY ApiAssumption DEF TypeOK, Api!TypeOK, CallState, Api!Assumptions

(* What becomes of the call, step by step; nothing but an answer ends it.  *)
LEMMA CallBegins ==
  ASSUME NEW path, Api!Call(path)
  PROVE  \/ CallIs("send", path, "none", 0, FALSE) /\ (Api!Keyed \/ access # "none")
         \/ CallIs("login", path, "none", 0, FALSE) /\ Api!CanLogIn
         \/ CallIs("answered", path, "failed", 0, FALSE)
<1>1. ASSUME NEW k, NEW a, NEW o, o = [Api!Idle EXCEPT !.path = path, !.pc = k, !.answer = a]
      PROVE  o = [pc |-> k, path |-> path, answer |-> a, effects |-> 0, troubled |-> FALSE]
  BY <1>1 DEF Api!Idle
<1>2. \A k, a : [Api!Idle EXCEPT !.path = path, !.pc = k, !.answer = a]
        = [pc |-> k, path |-> path, answer |-> a, effects |-> 0, troubled |-> FALSE]
  BY <1>1
<1> QED BY <1>2 DEF Api!Call, CallIs

LEMMA SentEffect ==
  ASSUME TypeOK
  PROVE  /\ Api!Succeeds => CallIs("answered", call.path, "ok",
                                   IF moved THEN call.effects ELSE call.effects + 1,
                                   call.troubled)
         /\ Api!Fails => \E effect \in {0, 1} :
                           CallIs("answered", call.path, "failed", call.effects + effect, TRUE)
<1>t. call \in CallState
  BY CallTyped
<1>1. ASSUME Api!Succeeds
      PROVE  CallIs("answered", call.path, "ok",
                    IF moved THEN call.effects ELSE call.effects + 1, call.troubled)
  BY <1>t, <1>1, CallDone DEF Api!Succeeds, CallIs
<1>2. ASSUME Api!Fails
      PROVE  \E effect \in {0, 1} :
               CallIs("answered", call.path, "failed", call.effects + effect, TRUE)
  <2>1. PICK effect \in 0 .. (IF Api!Authorised /\ ~ moved THEN 1 ELSE 0) :
          call' = [call EXCEPT !.pc = "answered", !.answer = "failed",
                               !.effects = @ + effect, !.troubled = TRUE]
    BY <1>2 DEF Api!Fails
  <2>2. effect \in {0, 1}
    OBVIOUS
  <2> QED BY <1>t, <2>1, <2>2, CallFailed DEF CallIs
<1> QED BY <1>1, <1>2

LEMMA DeniedEffect ==
  ASSUME TypeOK, Api!Denied
  PROVE  \/ /\ CallIs("answered", call.path, "401", call.effects, call.troubled)
            /\ call.pc = "resend" \/ Api!Keyed \/ ~ Api!CanLogIn
         \/ /\ CallIs("refresh", call.path, call.answer, call.effects, call.troubled)
            /\ ~ Api!Keyed
         \/ /\ CallIs("relogin", call.path, call.answer, call.effects, call.troubled)
            /\ Api!CanLogIn
<1>t. call \in CallState
  BY CallTyped
<1>1. Api!Answer("401") => CallIs("answered", call.path, "401", call.effects, call.troubled)
  BY <1>t, CallAnswered DEF Api!Answer, CallIs
<1>2. \A k : Api!Goto(k) => CallIs(k, call.path, call.answer, call.effects, call.troubled)
  BY <1>t, CallGoes DEF Api!Goto, CallIs
<1> QED BY <1>1, <1>2 DEF Api!Denied

LEMMA RenewalEffect ==
  ASSUME TypeOK
  PROVE  /\ Api!Renews =>
              /\ CallIs(IF call.pc = "login" THEN "send" ELSE "resend", call.path, call.answer,
                        call.effects, call.troubled)
              /\ access' = "live" /\ refresh' = "live"
         /\ Api!RenewsBare =>
              CallIs(IF call.pc = "login" THEN "send" ELSE "resend", call.path, call.answer,
                     call.effects, TRUE)
         /\ Api!RenewalRefused =>
              \/ /\ call.pc = "refresh" /\ Api!CanLogIn
                 /\ CallIs("relogin", call.path, call.answer, call.effects, call.troubled)
              \/ /\ call.pc # "refresh" \/ ~ Api!CanLogIn
                 /\ CallIs("answered", call.path, "401", call.effects, call.troubled)
         /\ Api!RenewalFails =>
              \/ /\ call.pc = "refresh" /\ Api!CanLogIn
                 /\ CallIs("relogin", call.path, call.answer, call.effects, TRUE)
              \/ \E a \in {"failed", "401"} :
                   CallIs("answered", call.path, a, call.effects, TRUE)
         /\ Api!Expires =>
              CallIs(call.pc, call.path, call.answer, call.effects, call.pc # "idle")
<1>t. call \in CallState
  BY CallTyped
<1>1. Api!Answer("401") => CallIs("answered", call.path, "401", call.effects, call.troubled)
  BY <1>t, CallAnswered DEF Api!Answer, CallIs
<1>2. \A k : Api!Goto(k) => CallIs(k, call.path, call.answer, call.effects, call.troubled)
  BY <1>t, CallGoes DEF Api!Goto, CallIs
<1>3. Api!Renews =>
        /\ CallIs(IF call.pc = "login" THEN "send" ELSE "resend", call.path, call.answer,
                  call.effects, call.troubled)
        /\ access' = "live" /\ refresh' = "live"
  BY <1>2 DEF Api!Renews, Api!StoreTokens
<1>4. Api!RenewsBare =>
        CallIs(IF call.pc = "login" THEN "send" ELSE "resend", call.path, call.answer,
               call.effects, TRUE)
  BY <1>t, CallGoesTroubled DEF Api!RenewsBare, CallIs
<1>5. Api!RenewalRefused =>
        \/ /\ call.pc = "refresh" /\ Api!CanLogIn
           /\ CallIs("relogin", call.path, call.answer, call.effects, call.troubled)
        \/ /\ call.pc # "refresh" \/ ~ Api!CanLogIn
           /\ CallIs("answered", call.path, "401", call.effects, call.troubled)
  BY <1>1, <1>2 DEF Api!RenewalRefused, Api!Refused
<1>6. Api!RenewalFails =>
        \/ /\ call.pc = "refresh" /\ Api!CanLogIn
           /\ CallIs("relogin", call.path, call.answer, call.effects, TRUE)
        \/ \E a \in {"failed", "401"} :
             CallIs("answered", call.path, a, call.effects, TRUE)
  <2>1. CASE call.pc = "refresh" /\ Api!CanLogIn
    BY <1>t, <2>1, CallGoesTroubled DEF Api!RenewalFails, CallIs
  <2>2. CASE ~ (call.pc = "refresh" /\ Api!CanLogIn)
    <3>1. ASSUME NEW a
          PROVE  [call EXCEPT !.pc = "answered", !.troubled = TRUE, !.answer = a]
                   = [pc |-> "answered", path |-> call.path, answer |-> a,
                      effects |-> call.effects, troubled |-> TRUE]
      BY <1>t, CallAnsweredTroubled
    <3>2. (IF call.pc = "login" THEN "failed" ELSE "401") \in {"failed", "401"}
      OBVIOUS
    <3>3. Api!RenewalFails =>
            call' = [call EXCEPT !.pc = "answered", !.troubled = TRUE,
                                 !.answer = IF call.pc = "login" THEN "failed" ELSE "401"]
      BY <2>2 DEF Api!RenewalFails
    <3> QED BY <3>1, <3>2, <3>3 DEF CallIs
  <2> QED BY <2>1, <2>2
<1>7. Api!Expires =>
        CallIs(call.pc, call.path, call.answer, call.effects, call.pc # "idle")
  BY <1>t, CallTroubled DEF Api!Expires, CallIs
<1> QED BY <1>3, <1>4, <1>5, <1>6, <1>7

-----------------------------------------------------------------------------
LEMMA NextCases ==
  ASSUME [Next]_vars
  PROVE  \/ Ask \/ NextWindow \/ Wait \/ Measure \/ StartSignals \/ Start \/ StartRaises
         \/ BodyEnds \/ StopSignals \/ StopReturns \/ StopRaises \/ StopInterrupted
         \/ Report \/ ReportNothing \/ PushRun \/ PushSamples \/ PushedTrace
         \/ Wire \/ Background \/ UNCHANGED vars
  BY DEF Next, Program

(* Whatever the session does, it uses the client as a client may be used.  *)
LEMMA ClientSteps ==
  ASSUME [Next]_vars
  PROVE  [Api!Next]_apiVars
<1>1. CASE Ask \/ Report \/ PushSamples
  BY <1>1 DEF Ask, Report, PushSamples, Api!Next, Api!Endpoints, Api!Reads, Api!Idempotent,
              Api!Appends
<1>2. CASE NextWindow \/ PushRun \/ PushedTrace
  BY <1>2 DEF NextWindow, PushRun, PushedTrace, Api!Next
<1>3. CASE Wire
  BY <1>3 DEF Wire, Api!Next
<1>4. CASE Wait \/ Measure \/ StartSignals \/ Start \/ StartRaises \/ BodyEnds \/ StopSignals
           \/ StopReturns \/ StopRaises \/ StopInterrupted \/ ReportNothing \/ Background
           \/ UNCHANGED vars
  BY <1>4 DEF Wait, Measure, StartSignals, Start, StartRaises, BodyEnds, StopSignals,
              StopReturns, StopRaises, StopInterrupted, ReportNothing, Background, vars
<1> QED BY <1>1, <1>2, <1>3, <1>4, NextCases

(* The call after a step, and the tokens                                   *)
LEMMA CallStep ==
  ASSUME TypeOK, Client, Api!Next
  PROVE  call' \in CallState /\ Settled'
<1>t. /\ call.pc \in Api!Requests \cup {"idle", "answered"}
      /\ call.path \in Api!Endpoints \cup {"none"} /\ call.answer \in Api!Answers \cup {"none"}
      /\ call.effects \in 0 .. 2 /\ call.troubled \in BOOLEAN
  BY CallTyped DEF CallState
<1>s. /\ call.pc # "answered" => call.answer = "none" /\ call.effects = 0
      /\ call.effects <= 1
      /\ call.answer = "ok" /\ ~ moved => call.effects = 1
  BY DEF Client, Settled
<1>1. ASSUME Api!Expires \/ Api!Renews \/ Api!RenewsBare
      PROVE  /\ \E k \in Api!Requests \cup {"idle", "answered"}, b \in BOOLEAN :
                   CallIs(k, call.path, call.answer, call.effects, b)
             /\ call'.pc # "answered" => call.pc # "answered"
             /\ moved' = moved
  <2>1. CASE Api!Expires
    BY <1>t, <2>1, RenewalEffect DEF CallIs, Api!Expires
  <2>2. CASE Api!Renews
    BY <1>t, <2>2, RenewalEffect DEF CallIs, Api!Renews, Api!Renewing, Api!Requests
  <2>3. CASE Api!RenewsBare
    BY <2>3, RenewalEffect DEF CallIs, Api!RenewsBare, Api!Renewing, Api!Requests
  <2> QED BY <1>1, <2>1, <2>2, <2>3
<1>2. CASE Api!Expires \/ Api!Renews \/ Api!RenewsBare
  <2>1. PICK k \in Api!Requests \cup {"idle", "answered"}, b \in BOOLEAN :
          CallIs(k, call.path, call.answer, call.effects, b)
    BY <1>1, <1>2
  <2>2. (call'.pc # "answered" => call.pc # "answered") /\ moved' = moved
    BY <1>1, <1>2
  <2> QED BY <1>t, <1>s, <2>1, <2>2 DEF CallIs, CallState, Settled
<1>3. CASE Api!RenewalRefused \/ Api!RenewalFails
  <2>1. call.pc # "answered" /\ moved' = moved
    BY <1>3 DEF Api!RenewalRefused, Api!RenewalFails, Api!Renewing
  <2>2. \/ \E b \in BOOLEAN : CallIs("relogin", call.path, call.answer, call.effects, b)
        \/ \E a \in {"failed", "401"}, b \in BOOLEAN :
             CallIs("answered", call.path, a, call.effects, b)
    BY <1>t, <1>3, RenewalEffect
  <2> QED BY <1>t, <1>s, <2>1, <2>2
          DEF CallIs, CallState, Settled, Api!Requests, Api!Answers
<1>4. CASE Api!Succeeds
  <2>1. call.effects = 0 /\ moved' = moved
    BY <1>s, <1>4 DEF Api!Succeeds, Api!Sending
  <2>2. CallIs("answered", call.path, "ok", IF moved THEN 0 ELSE 1, call.troubled)
    BY <1>4, <2>1, SentEffect
  <2> QED BY <1>t, <2>1, <2>2 DEF CallIs, CallState, Settled, Api!Answers
<1>5. CASE Api!Fails
  <2>1. call.effects = 0 /\ moved' = moved
    BY <1>s, <1>5 DEF Api!Fails, Api!Sending
  <2>2. \E e \in {0, 1} : CallIs("answered", call.path, "failed", e, TRUE)
    <3>1. PICK effect \in {0, 1} :
            CallIs("answered", call.path, "failed", call.effects + effect, TRUE)
      BY <1>5, SentEffect
    <3>2. call.effects + effect = effect
      BY <2>1
    <3> QED BY <3>1, <3>2
  <2> QED BY <1>t, <2>1, <2>2 DEF CallIs, CallState, Settled, Api!Answers
<1>6. CASE Api!Denied
  <2>1. call.pc # "answered" /\ moved' = moved
    BY <1>6 DEF Api!Denied, Api!Sending
  <2>2. \/ \E k \in {"refresh", "relogin"} :
             CallIs(k, call.path, call.answer, call.effects, call.troubled)
        \/ CallIs("answered", call.path, "401", call.effects, call.troubled)
    BY <1>6, DeniedEffect
  <2> QED BY <1>t, <1>s, <2>1, <2>2
          DEF CallIs, CallState, Settled, Api!Requests, Api!Answers
<1>7. CASE Api!Taken
  BY <1>7 DEF Api!Taken, Api!Idle, CallState, Settled
<1>8. ASSUME NEW path \in Api!Endpoints, Api!Call(path)
      PROVE  call' \in CallState /\ Settled'
  <2>1. \/ \E k \in {"send", "login"} : CallIs(k, path, "none", 0, FALSE)
        \/ CallIs("answered", path, "failed", 0, FALSE)
    BY <1>8, CallBegins
  <2>2. CASE \E k \in {"send", "login"} : CallIs(k, path, "none", 0, FALSE)
    BY <2>2 DEF CallIs, CallState, Settled, Api!Requests, Api!Answers
  <2>3. CASE CallIs("answered", path, "failed", 0, FALSE)
    BY <2>3 DEF CallIs, CallState, Settled, Api!Requests, Api!Answers
  <2> QED BY <2>1, <2>2, <2>3
<1> QED BY <1>2, <1>3, <1>4, <1>5, <1>6, <1>7, <1>8 DEF Api!Next, Api!Request

LEMMA RenewedStep ==
  ASSUME TypeOK, Client, Api!Next
  PROVE  Renewed' /\ (Api!DeniedForCause)'
<1>t. /\ cred \in {"key", "wrong key", "password", "wrong password", "none"}
      /\ access \in Api!Token /\ cred' = cred
  BY CallTyped DEF Api!Next, Api!Request, Api!Succeeds, Api!Denied, Api!Fails, Api!Renews,
       Api!RenewsBare, Api!RenewalRefused, Api!RenewalFails, Api!Expires, Api!Taken, Api!Call
<1>s. /\ call.pc # "answered" => call.answer = "none"
      /\ cred = "none" => access = "none" /\ call.pc \in {"idle", "answered"}
      /\ call.pc \in {"login", "relogin"} => Api!CanLogIn
      /\ call.pc \in {"refresh", "resend"} => ~ Api!Keyed
      /\ call.pc = "resend" /\ cred = "password" /\ ~ call.troubled => access = "live"
      /\ call.answer = "401" => cred \in {"wrong key", "wrong password"} \/ call.troubled
  BY DEF Client, Settled, Renewed, Api!DeniedForCause
<1>k. /\ Api!Keyed <=> cred \in {"key", "wrong key"}
      /\ Api!CanLogIn <=> cred \in {"password", "wrong password"}
      /\ (Api!Keyed)' <=> Api!Keyed
      /\ (Api!CanLogIn)' <=> Api!CanLogIn
  BY <1>t DEF Api!Keyed, Api!CanLogIn
<1> DEFINE Goal ==
      /\ cred = "none" => access' = "none" /\ call'.pc \in {"idle", "answered"}
      /\ call'.pc \in {"login", "relogin"} => Api!CanLogIn
      /\ call'.pc \in {"refresh", "resend"} => ~ Api!Keyed
      /\ call'.pc = "resend" /\ cred = "password" /\ ~ call'.troubled => access' = "live"
      /\ call'.answer = "401" => cred \in {"wrong key", "wrong password"} \/ call'.troubled
<1>1. CASE Api!Succeeds \/ Api!Fails
  <2>1. access' = access
    BY <1>1 DEF Api!Succeeds, Api!Fails
  <2>2. call'.pc = "answered" /\ call'.answer \in {"ok", "failed"}
    BY <1>1, SentEffect DEF CallIs
  <2>3. Goal
    BY <1>s, <2>1, <2>2
  <2> QED BY <1>t, <1>k, <2>3 DEF Renewed, Api!DeniedForCause
<1>2. CASE Api!Denied
  <2>1. access' = access /\ ~ Api!Authorised /\ call.pc \in {"send", "resend"}
    BY <1>2 DEF Api!Denied, Api!Sending
  <2>2. cred # "key" /\ (Api!Keyed \/ access # "live") /\ call.answer = "none"
    BY <1>s, <2>1 DEF Api!Authorised
  <2>3. CASE /\ CallIs("answered", call.path, "401", call.effects, call.troubled)
             /\ call.pc = "resend" \/ Api!Keyed \/ ~ Api!CanLogIn
    <3>1. Goal
      BY <1>t, <1>s, <1>k, <2>1, <2>2, <2>3 DEF CallIs
    <3> QED BY <1>t, <1>k, <3>1 DEF Renewed, Api!DeniedForCause
  <2>4. CASE /\ CallIs("refresh", call.path, call.answer, call.effects, call.troubled)
             /\ ~ Api!Keyed
    <3>1. Goal
      BY <1>t, <1>s, <1>k, <2>1, <2>2, <2>4 DEF CallIs
    <3> QED BY <1>t, <1>k, <3>1 DEF Renewed, Api!DeniedForCause
  <2>5. CASE /\ CallIs("relogin", call.path, call.answer, call.effects, call.troubled)
             /\ Api!CanLogIn
    <3>1. Goal
      BY <1>t, <1>s, <1>k, <2>1, <2>2, <2>5 DEF CallIs
    <3> QED BY <1>t, <1>k, <3>1 DEF Renewed, Api!DeniedForCause
  <2> QED BY <1>2, <2>3, <2>4, <2>5, DeniedEffect
<1>3. CASE Api!Renews \/ Api!RenewsBare
  <2>1. call.pc \in {"login", "relogin", "refresh"} /\ call.answer = "none" /\ cred # "none"
    BY <1>3, <1>s DEF Api!Renews, Api!RenewsBare, Api!Renewing
  <2>2. ~ Api!Keyed
    BY <1>s, <1>k, <2>1
  <2>3. /\ call'.pc \in {"send", "resend"} /\ call'.answer = "none"
        /\ access' = "live" \/ call'.troubled
    BY <1>3, <2>1, RenewalEffect DEF CallIs
  <2>4. Goal
    BY <2>1, <2>2, <2>3
  <2> QED BY <1>t, <1>k, <2>4 DEF Renewed, Api!DeniedForCause
<1>4. CASE Api!RenewalRefused
  <2>1. /\ access' = access /\ ~ Api!Accepted
        /\ call.pc \in {"login", "relogin", "refresh"} /\ call.answer = "none"
    BY <1>4, <1>s DEF Api!RenewalRefused, Api!Renewing
  <2>2. CASE /\ call.pc = "refresh" /\ Api!CanLogIn
             /\ CallIs("relogin", call.path, call.answer, call.effects, call.troubled)
    <3>1. Goal
      BY <1>s, <1>k, <2>1, <2>2 DEF CallIs
    <3> QED BY <1>t, <1>k, <3>1 DEF Renewed, Api!DeniedForCause
  <2>3. CASE /\ call.pc # "refresh" \/ ~ Api!CanLogIn
             /\ CallIs("answered", call.path, "401", call.effects, call.troubled)
    <3>1. call.pc # "refresh"
      BY <1>t, <1>s, <1>k, <2>1, <2>3
    <3>2. cred = "wrong password"
      BY <1>s, <1>k, <2>1, <3>1 DEF Api!Accepted
    <3>3. Goal
      BY <2>3, <3>2 DEF CallIs
    <3> QED BY <1>t, <1>k, <3>3 DEF Renewed, Api!DeniedForCause
  <2> QED BY <1>4, <2>2, <2>3, RenewalEffect
<1>5. CASE Api!RenewalFails
  <2>1. access' = access /\ call.pc \in {"login", "relogin", "refresh"} /\ call.answer = "none"
    BY <1>5, <1>s DEF Api!RenewalFails, Api!Renewing
  <2>2. /\ call'.troubled
        /\ \/ call'.pc = "answered"
           \/ call'.pc = "relogin" /\ Api!CanLogIn
    <3>1. \/ Api!CanLogIn /\ CallIs("relogin", call.path, call.answer, call.effects, TRUE)
          \/ \E a \in {"failed", "401"} : CallIs("answered", call.path, a, call.effects, TRUE)
      BY <1>5, RenewalEffect
    <3>2. ASSUME NEW k, NEW a, CallIs(k, call.path, a, call.effects, TRUE)
          PROVE  call'.troubled /\ call'.pc = k
      <4>1. call'.troubled = TRUE /\ call'.pc = k
        BY <3>2 DEF CallIs
      <4> QED BY <4>1
    <3> QED BY <3>1, <3>2
  <2>3. Goal
    BY <1>s, <2>1, <2>2
  <2> QED BY <1>t, <1>k, <2>3 DEF Renewed, Api!DeniedForCause
<1>6. CASE Api!Expires
  <2>1. access = "live" /\ CallIs(call.pc, call.path, call.answer, call.effects, call.pc # "idle")
    BY <1>6, RenewalEffect DEF Api!Expires
  <2>2. call'.pc = call.pc /\ call'.answer = call.answer /\ (call'.troubled <=> call.pc # "idle")
    BY <2>1 DEF CallIs
  <2>3. call.pc = "idle" => call.answer = "none"
    BY <1>s
  <2>4. Goal
    BY <1>s, <2>1, <2>2, <2>3
  <2> QED BY <1>t, <1>k, <2>4 DEF Renewed, Api!DeniedForCause
<1>7. CASE Api!Taken
  <2>1. access' = access /\ call'.pc = "idle" /\ call'.answer = "none"
    BY <1>7 DEF Api!Taken, Api!Idle
  <2>2. Goal
    BY <1>s, <2>1
  <2> QED BY <1>t, <1>k, <2>2 DEF Renewed, Api!DeniedForCause
<1>8. ASSUME NEW path \in Api!Endpoints, Api!Call(path)
      PROVE  Renewed' /\ (Api!DeniedForCause)'
  <2>1. access' = access
    BY <1>8 DEF Api!Call
  <2>2. \/ call'.pc = "send" /\ call'.answer = "none" /\ (Api!Keyed \/ access # "none")
        \/ call'.pc = "login" /\ call'.answer = "none" /\ Api!CanLogIn
        \/ call'.pc = "answered" /\ call'.answer = "failed"
    BY <1>8, CallBegins DEF CallIs
  <2>3. Goal
    BY <1>s, <1>k, <2>1, <2>2
  <2> QED BY <1>t, <1>k, <2>3 DEF Renewed, Api!DeniedForCause
<1> QED BY <1>1, <1>2, <1>3, <1>4, <1>5, <1>6, <1>7, <1>8 DEF Api!Next, Api!Request

LEMMA ClientTypeStep ==
  ASSUME TypeOK, Client, [Api!Next]_apiVars
  PROVE  Client' /\ (Api!TypeOK)'
<1>1. CASE UNCHANGED apiVars
  BY <1>1 DEF apiVars, Client, Settled, Renewed, Api!Keyed, Api!CanLogIn, Api!DeniedForCause,
              Api!TypeOK, TypeOK
<1>2. CASE Api!Next
  <2>1. call' \in CallState
    BY <1>2, CallStep
  <2>2. cred' = cred /\ moved' = moved
    BY <1>2 DEF Api!Next, Api!Request, Api!Succeeds, Api!Denied, Api!Fails, Api!Renews,
         Api!RenewsBare, Api!RenewalRefused, Api!RenewalFails, Api!Expires, Api!Taken, Api!Call
  <2>3. access' \in {access, "live", "stale"} /\ refresh' \in {refresh, "live", "stale"}
    BY <1>2 DEF Api!Next, Api!Request, Api!Succeeds, Api!Denied, Api!Fails, Api!Renews,
         Api!RenewsBare, Api!RenewalRefused, Api!RenewalFails, Api!Expires, Api!Taken, Api!Call,
         Api!StoreTokens
  <2>4. faults' \in {faults, faults + 1} /\ expiries' \in {expiries, expiries + 1}
    BY <1>2 DEF Api!Next, Api!Request, Api!Succeeds, Api!Denied, Api!Fails, Api!Renews,
         Api!RenewsBare, Api!RenewalRefused, Api!RenewalFails, Api!Expires, Api!Taken, Api!Call
  <2>5. /\ cred \in Credentials /\ moved \in Moved /\ access \in Api!Token
        /\ refresh \in Api!Token /\ faults \in Nat /\ expiries \in Nat
    BY DEF TypeOK, Api!TypeOK
  <2>6. faults' \in Nat /\ expiries' \in Nat
    BY <2>4, <2>5
  <2>7. access' \in Api!Token /\ refresh' \in Api!Token
    BY <2>3, <2>5 DEF Api!Token
  <2>8. (Api!TypeOK)'
    BY <2>1, <2>2, <2>5, <2>6, <2>7 DEF Api!TypeOK, CallState
  <2> QED BY <1>2, <2>8, CallStep, RenewedStep DEF Client
<1> QED BY <1>1, <1>2

LEMMA ClientInitially == Init => Client /\ Api!TypeOK
  BY DEF Init, Api!Init, Api!Idle, Client, Settled, Renewed, Api!DeniedForCause, Api!TypeOK,
         Api!Requests, Api!Endpoints, Api!Answers, Api!Token

-----------------------------------------------------------------------------
(* The profiler *)
Profiling ==
  \/ Prof!Forget \/ Prof!StartSignals \/ Prof!Start \/ Prof!StopSignals
  \/ Prof!StopReturns \/ Prof!StopRaises
  \/ \E t \in Sampler : Prof!Check(t) \/ Prof!Collect(t)
  \/ Prof!Uses \/ Prof!CounterResets

LEMMA ProfilerSteps ==
  ASSUME [Next]_vars
  PROVE  Profiling \/ UNCHANGED profVars
<1>1. CASE Ask \/ Measure
  BY <1>1 DEF Ask, Measure, Afresh, Profiling
<1>2. CASE StartSignals \/ Start \/ StopSignals \/ StopReturns \/ StopRaises
  BY <1>2 DEF StartSignals, Start, StopSignals, StopReturns, StopRaises, Profiling
<1>3. CASE StartRaises
  BY <1>3 DEF StartRaises, Prof!StartRaises, Prof!vars, profVars
<1>4. CASE Background
  BY <1>4 DEF Background, Sampling, Card, Prof!Sampling, Profiling
<1>5. CASE NextWindow \/ Wait \/ BodyEnds \/ StopInterrupted \/ Report \/ ReportNothing \/ PushRun
           \/ PushSamples \/ PushedTrace \/ Wire \/ UNCHANGED vars
  BY <1>5 DEF NextWindow, Wait, BodyEnds, StopInterrupted, Report, ReportNothing, PushRun,
              PushSamples, PushedTrace, Wire, vars
<1> QED BY <1>1, <1>2, <1>3, <1>4, <1>5, NextCases

TelemetryState ==
  [source : Prof!Sources, energy : Nat, count : 0 .. MaxSamples, spent : Nat, reset : BOOLEAN]

LEMMA MeterTyped ==
  ASSUME TypeOK
  PROVE  /\ thread \in [Sampler -> {"off", "check", "read"}]
         /\ current \in Sampler \cup {Prof!None} /\ Prof!None \notin Sampler
         /\ samples \in Seq(Sampler) /\ Len(samples) <= MaxSamples /\ MaxSamples \in Nat
         /\ counter \in Nat /\ atStart \in Nat \cup {Prof!None} /\ used \in Nat
         /\ MaxEnergy \in Nat /\ Prof!None \notin Nat
         /\ telemetry \in TelemetryState /\ late \in Nat /\ strays \subseteq Sampler
         /\ set \in BOOLEAN /\ reset \in BOOLEAN /\ strayed \in BOOLEAN
         /\ backend \in {"nvml", "smi", "null"}
<1>1. Prof!None \notin Nat
  BY DEF Prof!None
<1>2. Prof!None \notin Sampler /\ MaxSamples \in Nat /\ MaxEnergy \in Nat
  BY ProfilerAssumption DEF Prof!Assumptions
<1>3. set \in BOOLEAN /\ reset \in BOOLEAN /\ strayed \in BOOLEAN
  BY DEF TypeOK, Prof!TypeOK
<1> QED BY <1>1, <1>2, <1>3 DEF TypeOK, Prof!TypeOK, TelemetryState

(* Time out or not, the join of the sampler changes these two alone.       *)
LEMMA JoinEffect ==
  ASSUME TypeOK, Prof!Joined \/ Prof!JoinTimesOut
  PROVE  /\ late' \in Nat /\ strays' \subseteq Sampler /\ strays \subseteq strays'
         /\ Prof!Alive(current) => current \in strays'
         /\ strays' = {} => ~ Prof!Alive(current)
<1>1. current \in Sampler \cup {Prof!None} /\ late \in Nat /\ strays \subseteq Sampler
  BY MeterTyped
<1>2. CASE Prof!Joined
  BY <1>1, <1>2 DEF Prof!Joined
<1>3. CASE Prof!JoinTimesOut
  BY <1>1, <1>3 DEF Prof!JoinTimesOut, Prof!Alive
<1> QED BY <1>2, <1>3

(* What stop() returns, and where an amount "counter" comes from           *)
LEMMA StopEffect ==
  ASSUME TypeOK, Prof!StopReturns
  PROVE  /\ telemetry' \in TelemetryState
         /\ telemetry'.count = Len(samples)
         /\ telemetry'.spent = used /\ telemetry'.reset = reset
         /\ telemetry'.source = "counter" =>
              /\ atStart # Prof!None /\ atStart <= counter
              /\ telemetry'.energy = counter - atStart
<1>0. PICK last \in Prof!CounterReadings :
        \E e \in Prof!ComputeEnergy(atStart, last, samples) : telemetry' = Prof!Summary(e)
  BY DEF Prof!StopReturns
<1>1. PICK e \in Prof!ComputeEnergy(atStart, last, samples) : telemetry' = Prof!Summary(e)
  BY <1>0
<1>2. last \in {counter, Prof!None}
  BY DEF Prof!CounterReadings
<1>3. /\ atStart \in Nat \cup {Prof!None} /\ counter \in Nat /\ Prof!None \notin Nat
      /\ used \in Nat /\ reset \in BOOLEAN
      /\ Len(samples) \in 0 .. MaxSamples
  <2>1. samples \in Seq(Sampler) /\ Len(samples) <= MaxSamples /\ MaxSamples \in Nat
    BY MeterTyped
  <2>2. Len(samples) \in Nat
    BY <2>1
  <2>3. Len(samples) \in 0 .. MaxSamples
    BY <2>1, <2>2
  <2> QED BY <2>3, MeterTyped
<1>4. \/ /\ atStart # Prof!None /\ last # Prof!None /\ last >= atStart
         /\ e = <<"counter", last - atStart>>
      \/ e = <<"integrated", 0>>
      \/ e = <<"none", 0>>
  BY DEF Prof!ComputeEnergy, Prof!Integrated
<1>5. \/ /\ atStart # Prof!None /\ atStart <= counter
         /\ e[1] = "counter" /\ e[2] = counter - atStart /\ e[2] \in Nat
      \/ e[1] = "integrated" /\ e[2] = 0
      \/ e[1] = "none" /\ e[2] = 0
  BY <1>2, <1>3, <1>4
<1>6. telemetry' = [source |-> e[1], energy |-> e[2], count |-> Len(samples),
                    spent |-> used, reset |-> reset]
  BY <1>1 DEF Prof!Summary
<1>7. e[1] \in Prof!Sources /\ e[2] \in Nat
  BY <1>5 DEF Prof!Sources
<1>8. telemetry' \in TelemetryState
  BY <1>3, <1>6, <1>7 DEF TelemetryState
<1>9. /\ telemetry'.source = e[1] /\ telemetry'.energy = e[2]
      /\ telemetry'.count = Len(samples)
      /\ telemetry'.spent = used /\ telemetry'.reset = reset
  BY <1>6
<1>10. telemetry'.source = "counter" =>
         /\ atStart # Prof!None /\ atStart <= counter /\ telemetry'.energy = counter - atStart
  BY <1>5, <1>9
<1> QED BY <1>8, <1>9, <1>10

(* One sample more at the most, and of a thread                            *)
LEMMA CollectEffect ==
  ASSUME TypeOK, NEW t \in Sampler, Prof!Collect(t)
  PROVE  /\ samples' \in Seq(Sampler) /\ Len(samples') <= MaxSamples
         /\ \A i \in DOMAIN samples' :
              samples'[i] = t \/ (i \in DOMAIN samples /\ samples'[i] = samples[i])
<1>1. samples \in Seq(Sampler) /\ Len(samples) <= MaxSamples /\ MaxSamples \in Nat
  BY MeterTyped
<1>2. CASE Len(samples) < MaxSamples
  <2>1. samples' = Append(samples, t)
    BY <1>2 DEF Prof!Collect
  <2>2. Len(samples') = Len(samples) + 1 /\ samples' \in Seq(Sampler)
    BY <1>1, <2>1
  <2>3. Len(samples) \in Nat
    BY <1>1
  <2>4. \A i \in DOMAIN samples' :
          samples'[i] = t \/ (i \in DOMAIN samples /\ samples'[i] = samples[i])
    BY <1>1, <2>1
  <2> QED BY <1>1, <1>2, <2>2, <2>3, <2>4
<1>3. CASE ~ (Len(samples) < MaxSamples)
  BY <1>1, <1>3 DEF Prof!Collect
<1> QED BY <1>2, <1>3

(* A sampler goes about its loop or begins one.                            *)
LEMMA ThreadMoves ==
  ASSUME TypeOK, NEW t \in Sampler, NEW k \in {"off", "check", "read"},
         thread' = [thread EXCEPT ![t] = k]
  PROVE  /\ thread' \in [Sampler -> {"off", "check", "read"}]
         /\ thread'[t] = k
         /\ \A u \in Sampler : u # t => thread'[u] = thread[u]
  BY MeterTyped

LEMMA ProfilerTypeStep ==
  ASSUME TypeOK, Profiling \/ UNCHANGED profVars
  PROVE  (Prof!TypeOK)'
<1> DEFINE Flags == /\ set' \in BOOLEAN /\ reset' \in BOOLEAN /\ strayed' \in BOOLEAN
                    /\ backend' \in {"nvml", "smi", "null"}
<1> DEFINE Threads == /\ thread' \in [Sampler -> {"off", "check", "read"}]
                      /\ current' \in Sampler \cup {Prof!None}
                      /\ strays' \subseteq Sampler
<1> DEFINE Readings == /\ counter' \in Nat /\ atStart' \in Nat \cup {Prof!None}
                       /\ late' \in Nat /\ used' \in Nat
<1> DEFINE Results == /\ samples' \in Seq(Sampler) /\ Len(samples') <= MaxSamples
                      /\ telemetry' \in TelemetryState
<1>f. Flags => {set', reset', strayed'} \subseteq BOOLEAN
  OBVIOUS
<1>g. Flags /\ Threads /\ Readings /\ Results => (Prof!TypeOK)'
  BY <1>f DEF Prof!TypeOK, TelemetryState
<1>1. CASE UNCHANGED profVars
  BY <1>1, <1>g, MeterTyped DEF profVars
<1>2. CASE Prof!Forget
  <2>1. telemetry' \in TelemetryState
    BY <1>2, MeterTyped DEF Prof!Forget, Prof!NoTelemetry, TelemetryState, Prof!Sources
  <2> QED BY <1>2, <2>1, <1>g, MeterTyped DEF Prof!Forget
<1>3. CASE Prof!StartSignals \/ Prof!StopSignals
  BY <1>3, <1>g, MeterTyped DEF Prof!StartSignals, Prof!StopSignals
<1>4. CASE Prof!Start
  <2>1. PICK t \in Sampler : thread' = [thread EXCEPT ![t] = "check"] /\ current' = t
    BY <1>4 DEF Prof!Start
  <2>2. thread' \in [Sampler -> {"off", "check", "read"}]
    BY <2>1, ThreadMoves
  <2>3. late' \in Nat /\ strays' \subseteq Sampler
    BY <1>4, JoinEffect DEF Prof!Start
  <2>4. samples' \in Seq(Sampler) /\ Len(samples') <= MaxSamples
    <3>1. samples' = << >>
      BY <1>4 DEF Prof!Start
    <3> QED BY <3>1, MeterTyped
  <2>5. atStart' \in Nat \cup {Prof!None}
    BY <1>4, MeterTyped DEF Prof!Start, Prof!CounterReadings
  <2>6. Flags
    BY <1>4, MeterTyped DEF Prof!Start
  <2>7. counter' \in Nat /\ used' \in Nat /\ telemetry' \in TelemetryState
    BY <1>4, MeterTyped DEF Prof!Start
  <2> QED BY <2>1, <2>2, <2>3, <2>4, <2>5, <2>6, <2>7, <1>g
<1>5. CASE Prof!StopReturns
  <2>1. telemetry' \in TelemetryState
    BY <1>5, StopEffect
  <2>2. late' \in Nat /\ strays' \subseteq Sampler
    BY <1>5, JoinEffect DEF Prof!StopReturns
  <2>3. Flags
    BY <1>5, MeterTyped DEF Prof!StopReturns
  <2> QED BY <1>5, <2>1, <2>2, <2>3, <1>g, MeterTyped DEF Prof!StopReturns
<1>6. CASE Prof!StopRaises
  <2>2. late' \in Nat /\ strays' \subseteq Sampler
    BY <1>6, JoinEffect DEF Prof!StopRaises
  <2>3. Flags
    BY <1>6, MeterTyped DEF Prof!StopRaises
  <2> QED BY <1>6, <2>2, <2>3, <1>g, MeterTyped DEF Prof!StopRaises
<1>7. ASSUME NEW t \in Sampler, Prof!Check(t)
      PROVE  (Prof!TypeOK)'
  <2>1. (IF set THEN "off" ELSE "read") \in {"off", "check", "read"}
    OBVIOUS
  <2>2. thread' \in [Sampler -> {"off", "check", "read"}]
    BY <1>7, <2>1, ThreadMoves DEF Prof!Check
  <2>3. strays' \subseteq Sampler
    BY <1>7, MeterTyped DEF Prof!Check
  <2> QED BY <1>7, <2>2, <2>3, <1>g, MeterTyped DEF Prof!Check
<1>8. ASSUME NEW t \in Sampler, Prof!Collect(t)
      PROVE  (Prof!TypeOK)'
  <2>1. thread' \in [Sampler -> {"off", "check", "read"}]
    BY <1>8, ThreadMoves DEF Prof!Collect
  <2>2. samples' \in Seq(Sampler) /\ Len(samples') <= MaxSamples
    BY <1>8, CollectEffect
  <2>3. UNCHANGED <<backend, current, set, counter, atStart, telemetry, late, used, reset,
                    strays, strayed>>
    BY <1>8 DEF Prof!Collect
  <2> QED BY <2>1, <2>2, <2>3, <1>g, MeterTyped
<1>9. CASE Prof!Uses \/ Prof!CounterResets
  <2>1. counter' \in Nat /\ used' \in Nat
    BY <1>9, MeterTyped DEF Prof!Uses, Prof!CounterResets
  <2>2. Flags
    BY <1>9, MeterTyped DEF Prof!Uses, Prof!CounterResets
  <2> QED BY <1>9, <2>1, <2>2, <1>g, MeterTyped DEF Prof!Uses, Prof!CounterResets
<1> QED BY <1>1, <1>2, <1>3, <1>4, <1>5, <1>6, <1>7, <1>8, <1>9 DEF Profiling

-----------------------------------------------------------------------------
(* The counter, from one reading to the other                              *)
LEMMA CounterStep ==
  ASSUME TypeOK, Meter, [Next]_vars
  PROVE  CounterMoved' /\ (Prof!CounterHonest)'
<1>t. /\ counter \in Nat /\ atStart \in Nat \cup {Prof!None} /\ used \in Nat
      /\ MaxEnergy \in Nat /\ Prof!None \notin Nat /\ reset \in BOOLEAN
  BY MeterTyped
<1>s. /\ Measuring /\ atStart # Prof!None =>
           IF reset THEN counter <= used ELSE counter = atStart + used
      /\ telemetry.source = "counter" =>
           /\ telemetry.energy <= telemetry.spent
           /\ ~ telemetry.reset => telemetry.energy = telemetry.spent
  BY DEF Meter, CounterMoved, Prof!CounterHonest
<1>h. telemetry' = telemetry => (Prof!CounterHonest)'
  BY <1>s DEF Prof!CounterHonest
<1>n. telemetry' = Prof!NoTelemetry => (Prof!CounterHonest)'
  BY DEF Prof!CounterHonest, Prof!NoTelemetry
<1>p. phase' \notin {"body", "stopping", "joining"} => CounterMoved'
  BY DEF CounterMoved, Measuring
<1>m. /\ UNCHANGED <<counter, atStart, used, reset>>
      /\ phase \in {"body", "stopping", "joining"}
      => CounterMoved'
  BY <1>s DEF CounterMoved, Measuring
<1>1. CASE Ask \/ Measure
  BY <1>1, <1>n, <1>p DEF Ask, Measure, Goto, Afresh, Prof!Forget
<1>2. CASE NextWindow \/ Wait \/ StartRaises \/ StopInterrupted \/ Report \/ ReportNothing
           \/ PushRun
  BY <1>2, <1>h, <1>p DEF NextWindow, Wait, StartRaises, StopInterrupted, Report, ReportNothing,
                          PushRun, Goto, Over, profVars, Prof!StartRaises, Prof!vars
<1>3. CASE PushSamples \/ PushedTrace \/ StartSignals
  BY <1>3, <1>h, <1>p DEF PushSamples, PushedTrace, StartSignals, Over, Goto, profVars, sdkVars,
                          Prof!StartSignals
<1>4. CASE BodyEnds \/ StopSignals
  BY <1>4, <1>h, <1>m DEF BodyEnds, StopSignals, profVars, Prof!StopSignals
<1>5. CASE StopRaises
  BY <1>5, <1>h, <1>p DEF StopRaises, Goto, Prof!StopRaises
<1>6. CASE Start
  <2>1. telemetry' = telemetry
    BY <1>6 DEF Start, Prof!Start
  <2>2. used' = 0 /\ reset' = FALSE /\ counter' = counter /\ atStart' \in {counter, Prof!None}
    BY <1>6 DEF Start, Prof!Start, Prof!CounterReadings
  <2>3. ASSUME atStart' # Prof!None
        PROVE  counter' = atStart' + used'
    <3>1. atStart' = counter /\ counter' = counter /\ used' = 0
      BY <2>2, <2>3
    <3>2. counter = counter + 0
      BY <1>t
    <3> QED BY <3>1, <3>2
  <2> QED BY <1>h, <2>1, <2>2, <2>3 DEF CounterMoved
<1>7. CASE StopReturns
  <2>1. Prof!StopReturns /\ phase = "joining" /\ phase' = "reporting"
    BY <1>7 DEF StopReturns, Goto
  <2>2. atStart # Prof!None => IF reset THEN counter <= used ELSE counter = atStart + used
    BY <1>s, <2>1 DEF Measuring
  <2>3. /\ telemetry'.spent = used /\ telemetry'.reset = reset
        /\ telemetry'.source = "counter" =>
             /\ atStart # Prof!None /\ atStart <= counter
             /\ telemetry'.energy = counter - atStart
    BY <2>1, StopEffect
  <2>4. ASSUME telemetry'.source = "counter"
        PROVE  telemetry'.energy <= used /\ (~ reset => telemetry'.energy = used)
    <3>1. /\ atStart \in Nat /\ atStart <= counter /\ telemetry'.energy = counter - atStart
          /\ IF reset THEN counter <= used ELSE counter = atStart + used
      BY <1>t, <2>2, <2>3, <2>4
    <3>2. CASE reset
      BY <1>t, <3>1, <3>2
    <3>3. CASE ~ reset
      BY <1>t, <3>1, <3>3
    <3> QED BY <3>2, <3>3
  <2>5. (Prof!CounterHonest)'
    BY <2>3, <2>4 DEF Prof!CounterHonest
  <2> QED BY <1>p, <2>1, <2>5
<1>8. CASE Wire \/ UNCHANGED vars
  BY <1>8, <1>h, <1>m, <1>p DEF Wire, vars, profVars, sdkVars
<1>9. CASE Background
  <2>1. phase' = phase
    BY <1>9 DEF Background, sdkVars
  <2>2. CASE Sampling
    <3>1. UNCHANGED <<counter, atStart, used, reset, telemetry>>
      BY <2>2 DEF Sampling, Prof!Sampling, Prof!Check, Prof!Collect
    <3> QED BY <1>h, <1>m, <1>p, <2>1, <3>1
  <2>3. CASE Prof!Uses /\ Measuring
    <3>1. used' = used + 1 /\ counter' = counter + 1 /\ UNCHANGED <<atStart, reset, telemetry>>
      BY <2>3 DEF Prof!Uses
    <3>2. atStart # Prof!None => IF reset THEN counter <= used ELSE counter = atStart + used
      BY <1>s, <2>3
    <3>3. atStart # Prof!None => IF reset THEN counter' <= used' ELSE counter' = atStart + used'
      BY <1>t, <3>1, <3>2
    <3>4. CounterMoved'
      BY <3>1, <3>3 DEF CounterMoved
    <3> QED BY <1>h, <3>1, <3>4
  <2>4. CASE Prof!CounterResets
    <3>1. counter' = 0 /\ reset' = TRUE /\ used' = used /\ telemetry' = telemetry
      BY <2>4 DEF Prof!CounterResets
    <3>2. CounterMoved'
      BY <1>t, <3>1 DEF CounterMoved
    <3> QED BY <1>h, <3>1, <3>2
  <2> QED BY <1>9, <2>2, <2>3, <2>4 DEF Background, Card, Measuring
<1> QED BY <1>1, <1>2, <1>3, <1>4, <1>5, <1>6, <1>7, <1>8, <1>9, NextCases

-----------------------------------------------------------------------------
(* Which samplers are alive, and whose the samples are                     *)
LEMMA SamplerStep ==
  ASSUME TypeOK, Meter, Told, [Next]_vars
  PROVE  OnlySampler'
<1>t. /\ thread \in [Sampler -> {"off", "check", "read"}]
      /\ current \in Sampler \cup {Prof!None} /\ Prof!None \notin Sampler
      /\ strays \subseteq Sampler /\ strayed \in BOOLEAN
  BY MeterTyped
<1>s. /\ \A u \in Sampler \ {current} : thread[u] # "off" => u \in strays
      /\ ~ strayed =>
           /\ strays = {}
           /\ \A i \in DOMAIN samples : samples[i] = current
      /\ ~ strayed /\ phase = "reporting" /\ measured =>
           /\ \A u \in Sampler : thread[u] = "off"
           /\ Len(samples) = telemetry.count
  BY DEF Meter, OnlySampler
<1>m. phase \in {"starting", "body", "stopping", "joining"} => ~ measured
  BY DEF Told
<1> DEFINE Same == UNCHANGED <<thread, current, strays, strayed, samples>>
(* The session moves on, and not to what a stop that returned would be.    *)
<1>p. /\ Same
      /\ phase' # "reporting" \/ ~ measured'
           \/ (phase = "reporting" /\ measured /\ telemetry' = telemetry)
      => OnlySampler'
  BY <1>s DEF OnlySampler
<1>1. CASE Ask \/ Measure
  BY <1>1, <1>p DEF Ask, Measure, Goto, Afresh, Prof!Forget
<1>2. CASE NextWindow \/ Wait \/ StartRaises \/ StopInterrupted \/ Report \/ ReportNothing
           \/ PushRun \/ BodyEnds
  BY <1>2, <1>p DEF NextWindow, Wait, StartRaises, StopInterrupted, Report, ReportNothing,
                    PushRun, BodyEnds, Goto, Over, profVars, Prof!StartRaises, Prof!vars
<1>3. CASE PushSamples \/ PushedTrace \/ StartSignals \/ StopSignals
  BY <1>3, <1>p DEF PushSamples, PushedTrace, StartSignals, StopSignals, Over, Goto, profVars,
                    sdkVars, Prof!StartSignals, Prof!StopSignals
<1>4. CASE Wire \/ UNCHANGED vars
  BY <1>4, <1>p DEF Wire, vars, profVars, sdkVars
<1>5. CASE Start
  <2>0. Prof!Start /\ phase' = "body"
    BY <1>5 DEF Start, Goto
  <2>1. PICK t \in Sampler :
          ~ Prof!Alive(t) /\ thread' = [thread EXCEPT ![t] = "check"] /\ current' = t
    BY <2>0 DEF Prof!Start
  <2>2. \A u \in Sampler : u # t => thread'[u] = thread[u]
    BY <2>1, ThreadMoves
  <2>3. strays \subseteq strays' /\ (Prof!Alive(current) => current \in strays')
    BY <2>0, JoinEffect DEF Prof!Start
  <2>4. samples' = << >> /\ (strayed' <=> strays' # {})
    BY <2>0 DEF Prof!Start
  <2>5. ASSUME NEW u \in Sampler \ {current'}, thread'[u] # "off"
        PROVE  u \in strays'
    <3>1. thread[u] # "off"
      BY <2>1, <2>2, <2>5
    <3>2. CASE u = current
      BY <1>t, <2>3, <3>1, <3>2 DEF Prof!Alive
    <3>3. CASE u # current
      BY <1>s, <2>3, <3>1, <3>3
    <3> QED BY <3>2, <3>3
  <2>6. \A i \in DOMAIN samples' : samples'[i] = current'
    BY <2>4
  <2> QED BY <2>0, <2>4, <2>5, <2>6 DEF OnlySampler
<1>6. CASE StopReturns \/ StopRaises
  <2>1. /\ Prof!Joined \/ Prof!JoinTimesOut
        /\ UNCHANGED <<thread, current, samples>>
        /\ strayed' <=> strayed \/ strays' # {}
        /\ phase = "joining" /\ phase' = "reporting"
    BY <1>6 DEF StopReturns, StopRaises, Prof!StopReturns, Prof!StopRaises, Goto
  <2>2. /\ strays \subseteq strays' /\ (Prof!Alive(current) => current \in strays')
    BY <2>1, JoinEffect
  <2>3. \A u \in Sampler \ {current} : thread[u] # "off" => u \in strays'
    BY <1>s, <2>2
  <2>4. ASSUME ~ strayed'
        PROVE  /\ strays' = {} /\ \A i \in DOMAIN samples : samples[i] = current
               /\ \A u \in Sampler : thread[u] = "off"
    <3>1. strays' = {} /\ ~ strayed
      BY <2>1, <2>4
    <3>2. ASSUME NEW u \in Sampler, thread[u] # "off"
          PROVE  FALSE
      <4>1. CASE u = current
        BY <1>t, <2>2, <3>1, <3>2, <4>1 DEF Prof!Alive
      <4>2. CASE u # current
        BY <2>3, <3>1, <3>2, <4>2
      <4> QED BY <4>1, <4>2
    <3> QED BY <1>s, <3>1, <3>2
  <2>5. measured' => telemetry'.count = Len(samples)
    <3>1. CASE StopReturns
      BY <3>1, StopEffect DEF StopReturns
    <3>2. CASE StopRaises
      BY <1>m, <2>1, <3>2 DEF StopRaises, Keep
    <3> QED BY <1>6, <3>1, <3>2
  <2> QED BY <2>1, <2>3, <2>4, <2>5 DEF OnlySampler
<1>7. CASE Background
  <2>1. UNCHANGED <<phase, measured>>
    BY <1>7 DEF Background, sdkVars
  <2>2. CASE Prof!Uses \/ Prof!CounterResets
    <3>1. Same /\ telemetry' = telemetry
      BY <2>2 DEF Prof!Uses, Prof!CounterResets
    <3> QED BY <1>p, <2>1, <3>1
  <2>3. ASSUME NEW t \in Sampler, Prof!Check(t)
        PROVE  OnlySampler'
    <3>1. /\ thread[t] = "check" /\ UNCHANGED <<current, samples, telemetry, strayed>>
          /\ strays' = IF set THEN strays \ {t} ELSE strays
          /\ thread' = [thread EXCEPT ![t] = IF set THEN "off" ELSE "read"]
      BY <2>3 DEF Prof!Check
    <3>2. thread'[t] = (IF set THEN "off" ELSE "read")
      BY <1>t, <3>1
    <3>3. \A u \in Sampler : u # t => thread'[u] = thread[u]
      BY <1>t, <3>1
    <3>4. ASSUME NEW u \in Sampler \ {current}, thread'[u] # "off"
          PROVE  u \in strays'
      <4>1. thread[u] # "off" /\ (u = t => ~ set)
        BY <3>1, <3>2, <3>3, <3>4
      <4>2. u \in strays
        BY <1>s, <4>1
      <4> QED BY <3>1, <4>1, <4>2
    <3>5. ~ (~ strayed /\ phase = "reporting" /\ measured)
      BY <1>s, <3>1
    <3> QED BY <1>s, <2>1, <3>1, <3>4, <3>5 DEF OnlySampler
  <2>4. ASSUME NEW t \in Sampler, Prof!Collect(t)
        PROVE  OnlySampler'
    <3>1. /\ thread[t] = "read" /\ UNCHANGED <<current, telemetry, strays, strayed>>
          /\ thread' = [thread EXCEPT ![t] = "check"]
      BY <2>4 DEF Prof!Collect
    <3>2. \A u \in Sampler : thread'[u] # "off" => thread[u] # "off"
      BY <1>t, <3>1
    <3>3. \A i \in DOMAIN samples' :
            samples'[i] = t \/ (i \in DOMAIN samples /\ samples'[i] = samples[i])
      BY <2>4, CollectEffect
    <3>4. ~ strayed => t = current
      BY <1>s, <3>1
    <3>5. ~ (~ strayed /\ phase = "reporting" /\ measured)
      BY <1>s, <3>1
    <3>6. ~ strayed => \A i \in DOMAIN samples' : samples'[i] = current
      BY <1>s, <3>3, <3>4
    <3> QED BY <1>s, <2>1, <3>1, <3>2, <3>5, <3>6 DEF OnlySampler
  <2> QED BY <1>7, <2>2, <2>3, <2>4 DEF Background, Sampling, Prof!Sampling, Card
<1> QED BY <1>1, <1>2, <1>3, <1>4, <1>5, <1>6, <1>7, NextCases

-----------------------------------------------------------------------------
(* What the session says *)
TraceState == [times : 0 .. 2, count : 0 .. MaxSamples, own : BOOLEAN]
SessionTyped ==
  /\ phase \in {"idle", "asking", "waiting", "starting", "body", "stopping", "joining",
                "reporting", "pushing", "tracing"}
  /\ exit \in {"success", "failed"} /\ measured \in BOOLEAN
  /\ fate \in {"none", "ok", "marked", "raised"}
  /\ outcome \in {"none", "returned", "raised", "refused", "interrupted"}
  /\ row \in {"none", "success", "failed"}
  /\ trace \in TraceState
Said == SessionTyped /\ Told /\ ReportIsTheRuns

LEMMA NothingTyped == Nothing \in TraceState /\ Nothing.times = 0 /\ Nothing.count = 0
<1>1. MaxSamples \in Nat
  BY ProfilerAssumption DEF Prof!Assumptions
<1> QED BY <1>1 DEF Nothing, TraceState

LEMMA SaidNow ==
  ASSUME IInv
  PROVE  Said
  BY DEF IInv, Said, SessionTyped, TypeOK, TraceState

(* Over: the caller is told what its body did.                             *)
LEMMA OverTold ==
  ASSUME Said, Over, Ended, UNCHANGED <<fate, exit>>
  PROVE  /\ phase' = "idle" /\ outcome' \in {"raised", "returned"}
         /\ OnlyTheBodyRaises'
         /\ fate \in {"ok", "marked", "raised"} /\ (exit = "success" <=> fate = "ok")
  BY DEF Said, SessionTyped, Over, Goto, Told, OnlyTheBodyRaises

LEMMA QuietStep ==
  ASSUME Said, UNCHANGED <<sdkVars, telemetry, strayed>>
  PROVE  Said'
  BY DEF Said, SessionTyped, sdkVars, Told, Ended, ReportIsTheRuns, OnlyTheBodyRaises

(* Nothing has been said of a block that goes on, nor is it now.           *)
LEMMA SilentStep ==
  ASSUME Said, phase # "idle", UNCHANGED <<exit, measured, fate, row, trace, outcome>>,
         phase = "starting" => phase' = "body",
         phase \in {"asking", "waiting"} => phase' \in {"waiting", "idle"},
         phase \notin {"starting", "asking", "waiting"} =>
           \/ phase = "stopping" /\ phase' = "joining"
           \/ phase = "joining" /\ phase' = "reporting"
  PROVE  Said'
  BY DEF Said, SessionTyped, Told, Ended, ReportIsTheRuns, OnlyTheBodyRaises

LEMMA AfreshStep ==
  ASSUME Said, Afresh, phase' \in {"asking", "starting"}
  PROVE  Said'
<1>1. /\ exit' = "success" /\ measured' = FALSE /\ fate' = "none" /\ outcome' = "none"
      /\ row' = "none" /\ trace' = Nothing
  BY DEF Afresh
<1>2. SessionTyped'
  BY <1>1, NothingTyped DEF SessionTyped
<1>3. Told'
  BY <1>1, NothingTyped DEF Told, Ended
<1>4. ReportIsTheRuns'
  BY <1>1, NothingTyped DEF ReportIsTheRuns, OnlyTheBodyRaises
<1> QED BY <1>2, <1>3, <1>4 DEF Said

LEMMA BodyStep ==
  ASSUME Said, BodyEnds
  PROVE  Said'
  BY DEF Said, SessionTyped, BodyEnds, Goto, Told, Ended, ReportIsTheRuns, OnlyTheBodyRaises,
         profVars

LEMMA RefusedStep ==
  ASSUME Said, StartRaises \/ StopInterrupted
  PROVE  Said'
  BY DEF Said, SessionTyped, StartRaises, StopInterrupted, Goto, Told, Ended, ReportIsTheRuns,
         OnlyTheBodyRaises

LEMMA StoppedStep ==
  ASSUME Said, StopReturns
  PROVE  Said'
  BY DEF Said, SessionTyped, StopReturns, Goto, Told, Ended, ReportIsTheRuns,
         OnlyTheBodyRaises

LEMMA ReportStep ==
  ASSUME IInv, Report
  PROVE  Said'
<1>s. Said
  BY SaidNow
<1>1. /\ phase = "reporting" /\ phase' = "pushing"
      /\ UNCHANGED <<profVars, exit, measured, fate, outcome, row>>
      /\ trace' = IF measured
                    THEN [times |-> 0, count |-> Len(samples),
                          own |-> \A i \in DOMAIN samples : samples[i] = current]
                    ELSE Nothing
  BY DEF Report, Goto
<1>2. /\ trace' \in TraceState /\ trace'.times = 0
      /\ trace'.count > 0 /\ ~ strayed => trace'.own /\ trace'.count = telemetry.count
  <2>1. CASE measured
    <3> DEFINE mine == \A i \in DOMAIN samples : samples[i] = current
    <3>1. Len(samples) \in 0 .. MaxSamples
      <4>1. samples \in Seq(Sampler) /\ Len(samples) <= MaxSamples /\ MaxSamples \in Nat
        BY MeterTyped DEF IInv
      <4>2. Len(samples) \in Nat
        BY <4>1
      <4> QED BY <4>1, <4>2
    <3>2. ~ strayed => mine /\ Len(samples) = telemetry.count
      BY <1>1, <2>1 DEF IInv, Meter, OnlySampler
    <3>3. mine \in BOOLEAN
      OBVIOUS
    <3>4. trace' = [times |-> 0, count |-> Len(samples), own |-> mine]
      BY <1>1, <2>1
    <3> HIDE DEF mine
    <3>5. trace' \in TraceState
      BY <3>1, <3>3, <3>4 DEF TraceState
    <3>6. trace'.times = 0 /\ trace'.count = Len(samples) /\ trace'.own = mine
      BY <3>4
    <3> QED BY <3>2, <3>5, <3>6
  <2>2. CASE ~ measured
    BY <1>1, <2>2, NothingTyped
  <2> QED BY <2>1, <2>2
<1>3. telemetry' = telemetry /\ strayed' = strayed
  BY <1>1 DEF profVars
<1> QED BY <1>s, <1>1, <1>2, <1>3
        DEF Said, SessionTyped, Told, Ended, ReportIsTheRuns, OnlyTheBodyRaises

LEMMA ReportNothingStep ==
  ASSUME Said, ReportNothing
  PROVE  Said'
<1>1. /\ Over /\ Ended /\ phase = "reporting" /\ UNCHANGED <<exit, fate, measured, row, trace>>
  BY DEF ReportNothing, Ended
<1>2. /\ phase' = "idle" /\ outcome' \in {"raised", "returned"} /\ OnlyTheBodyRaises'
  BY <1>1, OverTold
<1>3. row = "none" /\ trace.times = 0
  BY <1>1 DEF Said, Told
<1> QED BY <1>1, <1>2, <1>3 DEF Said, SessionTyped, Told, Ended, ReportIsTheRuns

LEMMA PushRunStep ==
  ASSUME IInv, PushRun
  PROVE  Said'
<1>s. Said
  BY SaidNow
<1>1. /\ phase = "pushing" /\ UNCHANGED <<exit, measured, fate>>
      /\ telemetry' = telemetry /\ strayed' = strayed
      /\ row' \in {row, exit}
      /\ \/ /\ call.answer = "ok" /\ ~ moved /\ trace.count > 0 /\ phase' = "tracing"
            /\ UNCHANGED <<outcome, trace>>
         \/ Over /\ trace' = Nothing
  BY DEF PushRun, Recorded, Goto, profVars
<1>2. row = "none" /\ Ended /\ outcome = "none" /\ trace.times = 0
      /\ exit \in {"success", "failed"} /\ (exit = "success" <=> fate = "ok")
  BY <1>s, <1>1 DEF Said, SessionTyped, Told, Ended
<1>3. row' \in {"none", "success", "failed"} /\ (row' # "none" => (row' = "success" <=> fate = "ok"))
  BY <1>1, <1>2
<1>4. CASE /\ call.answer = "ok" /\ ~ moved /\ trace.count > 0 /\ phase' = "tracing"
           /\ UNCHANGED <<outcome, trace>>
  <2>1. call.effects = 1
    BY <1>4 DEF IInv, Client, Settled
  <2>2. row' = exit
    BY <2>1 DEF PushRun, Recorded
  <2> QED BY <1>s, <1>1, <1>2, <1>3, <1>4, <2>2
          DEF Said, SessionTyped, Told, Ended, ReportIsTheRuns, OnlyTheBodyRaises
<1>5. CASE Over /\ trace' = Nothing
  <2>1. /\ phase' = "idle" /\ outcome' \in {"raised", "returned"} /\ OnlyTheBodyRaises'
    BY <1>s, <1>1, <1>2, <1>5, OverTold
  <2> QED BY <1>s, <1>1, <1>2, <1>3, <1>5, <2>1, NothingTyped
          DEF Said, SessionTyped, Told, Ended, ReportIsTheRuns
<1> QED BY <1>1, <1>4, <1>5

LEMMA PushedTraceStep ==
  ASSUME IInv, PushedTrace
  PROVE  Said'
<1>s. Said
  BY SaidNow
<1>1. /\ phase = "tracing" /\ Over /\ Ended /\ UNCHANGED <<exit, measured, fate, row>>
      /\ telemetry' = telemetry /\ strayed' = strayed
      /\ trace' = IF call.effects = 0 THEN Nothing ELSE [trace EXCEPT !.times = call.effects]
  BY DEF PushedTrace, profVars, Ended
<1>2. /\ phase' = "idle" /\ outcome' \in {"raised", "returned"} /\ OnlyTheBodyRaises'
  BY <1>s, <1>1, OverTold
<1>3. /\ row # "none" /\ trace.count > 0 /\ trace \in TraceState
      /\ row # "none" => (row = "success" <=> fate = "ok")
      /\ ~ strayed => trace.own /\ trace.count = telemetry.count
  BY <1>s, <1>1 DEF Said, SessionTyped, Told, ReportIsTheRuns
<1>4. call.effects \in 0 .. 2 /\ call.effects <= 1
  BY CallTyped DEF IInv, CallState, Client, Settled
<1>5. CASE call.effects = 0
  BY <1>s, <1>1, <1>2, <1>3, <1>5, NothingTyped
     DEF Said, SessionTyped, Told, Ended, ReportIsTheRuns
<1>6. CASE call.effects # 0
  <2>1. call.effects = 1
    BY <1>4, <1>6
  <2>2. trace' = [trace EXCEPT !.times = 1]
    BY <1>1, <2>1
  <2>3. trace' \in TraceState /\ trace'.times = 1 /\ trace'.count = trace.count
        /\ trace'.own = trace.own
    BY <1>3, <2>2 DEF TraceState
  <2> QED BY <1>s, <1>1, <1>2, <1>3, <2>3
          DEF Said, SessionTyped, Told, Ended, ReportIsTheRuns
<1> QED BY <1>5, <1>6

LEMMA SessionStep ==
  ASSUME IInv, [Next]_vars
  PROVE  Said'
<1>s. Said
  BY SaidNow
<1>1. CASE Ask \/ Measure
  BY <1>1, <1>s, AfreshStep DEF Ask, Measure, Goto
<1>2. CASE NextWindow \/ Wait \/ Start \/ StopSignals \/ StopRaises
  BY <1>2, <1>s, SilentStep DEF NextWindow, Wait, Start, StopSignals, StopRaises, Goto, Keep
<1>3. CASE StartRaises \/ StopInterrupted
  BY <1>3, <1>s, RefusedStep
<1>4. CASE BodyEnds
  BY <1>4, <1>s, BodyStep
<1>5. CASE StopReturns
  BY <1>5, <1>s, StoppedStep
<1>6. CASE Report
  BY <1>6, ReportStep
<1>7. CASE ReportNothing
  BY <1>7, <1>s, ReportNothingStep
<1>8. CASE PushRun
  BY <1>8, PushRunStep
<1>9. CASE PushedTrace
  BY <1>9, PushedTraceStep
<1>10. CASE StartSignals \/ PushSamples \/ Wire \/ Background \/ UNCHANGED vars
  <2>1. UNCHANGED <<sdkVars, telemetry, strayed>>
    BY <1>10 DEF StartSignals, PushSamples, Wire, Background, Sampling, Card, vars, profVars,
                 sdkVars, Prof!StartSignals, Prof!Sampling, Prof!Check, Prof!Collect, Prof!Uses,
                 Prof!CounterResets
  <2> QED BY <1>s, <2>1, QuietStep
<1> QED BY <1>1, <1>2, <1>3, <1>4, <1>5, <1>6, <1>7, <1>8, <1>9, <1>10, NextCases

-----------------------------------------------------------------------------
LEMMA InvInitially == Init => IInv
<1> SUFFICES ASSUME Init PROVE IInv
  OBVIOUS
<1>1. /\ backend \in {"nvml", "smi", "null"}
  BY DEF Init, Prof!Init, Prof!Backend
<1>2. Prof!TypeOK
  <2>1. MaxEnergy \in Nat /\ MaxSamples \in Nat
    BY ProfilerAssumption DEF Prof!Assumptions
  <2>2. telemetry \in TelemetryState
    BY <2>1 DEF Init, Prof!Init, Prof!NoTelemetry, TelemetryState, Prof!Sources
  <2>3. thread \in [Sampler -> {"off", "check", "read"}] /\ current \in Sampler \cup {Prof!None}
    BY DEF Init, Prof!Init
  <2>4. samples = << >> /\ samples \in Seq(Sampler) /\ Len(samples) = 0
    BY DEF Init, Prof!Init
  <2>5. Len(samples) <= MaxSamples
    BY <2>1, <2>4
  <2>6. counter \in Nat /\ atStart \in Nat \cup {Prof!None} /\ late \in Nat /\ used \in Nat
    BY <2>1 DEF Init, Prof!Init
  <2>7. set \in BOOLEAN /\ reset \in BOOLEAN /\ strayed \in BOOLEAN /\ strays \subseteq Sampler
    BY DEF Init, Prof!Init
  <2>8. {set, reset, strayed} \subseteq BOOLEAN
    BY <2>7
  <2> QED BY <1>1, <2>2, <2>3, <2>4, <2>5, <2>6, <2>7, <2>8 DEF Prof!TypeOK, TelemetryState
<1>3. SessionTyped
  BY NothingTyped DEF Init, SessionTyped
<1>4. TypeOK
  BY <1>2, <1>3, ClientInitially DEF TypeOK, SessionTyped, TraceState
<1>5. Told /\ ReportIsTheRuns
  BY NothingTyped DEF Init, Told, Ended, ReportIsTheRuns, OnlyTheBodyRaises
<1>6. Meter
  <2>1. CounterMoved
    BY DEF Init, CounterMoved, Measuring
  <2>2. telemetry.source = "none" /\ telemetry.count = 0 /\ samples = << >>
        /\ strays = {} /\ strayed = FALSE /\ \A t \in Sampler : thread[t] = "off"
    BY DEF Init, Prof!Init, Prof!NoTelemetry
  <2>3. OnlySampler
    BY <2>2 DEF OnlySampler
  <2>4. Prof!CounterHonest
    BY <2>2 DEF Prof!CounterHonest
  <2> QED BY <2>1, <2>3, <2>4 DEF Meter
<1> QED BY <1>4, <1>5, <1>6, ClientInitially DEF IInv

LEMMA InvStep == IInv /\ [Next]_vars => IInv'
<1> SUFFICES ASSUME IInv, [Next]_vars PROVE IInv'
  OBVIOUS
<1>1. Client' /\ (Api!TypeOK)'
  BY ClientSteps, ClientTypeStep DEF IInv
<1>2. (Prof!TypeOK)'
  BY ProfilerSteps, ProfilerTypeStep DEF IInv
<1>3. Said'
  BY SessionStep
<1>4. TypeOK'
  BY <1>1, <1>2, <1>3 DEF TypeOK, Said, SessionTyped, TraceState
<1>5. Meter'
  BY CounterStep, SamplerStep DEF IInv, Meter
<1> QED BY <1>1, <1>3, <1>4, <1>5 DEF IInv, Said

-----------------------------------------------------------------------------
(* Client, profiler and session only ever hold what their types allow: a   *)
(* sampler that comes back late finds a list of samples, and the session a *)
(* call it can take the answer of.                                         *)
THEOREM TypeCorrect == Spec => []TypeOK
<1>1. IInv => TypeOK
  BY DEF IInv
<1> QED BY <1>1, InvInitially, InvStep, PTL DEF Spec

(* Whatever a program does with the SDK, it is, to the client, a caller    *)
(* that takes the answer of each call before it makes the next: what       *)
(* ApiAuth promises of any such caller holds of the session.               *)
THEOREM SessionUsesTheClient == Spec => Api!Spec
<1>1. Init => Api!Init
  BY DEF Init
<1>2. [Next]_vars => [Api!Next]_<<cred, moved, access, refresh, call, faults, expiries>>
  BY ClientSteps DEF apiVars
<1> QED BY <1>1, <1>2, PTL DEF Spec, Api!Spec, Api!vars

(* No call takes effect upstream twice, whatever expires, fails or is      *)
(* retried meanwhile: only a request that was denied is sent again, and a  *)
(* denied one has had no effect (_authed_request).                         *)
THEOREM CallsTakeEffectOnce == Spec => []CallEffectAtMostOnce
<1>1. IInv => CallEffectAtMostOnce
  BY DEF IInv, Client, Settled, CallEffectAtMostOnce, Api!EffectAtMostOnce
<1> QED BY <1>1, InvInitially, InvStep, PTL DEF Spec

(* Who has good credentials is answered 401 only when something went wrong *)
(* during that very call; nothing an earlier call left behind, however     *)
(* stale, locks the client out (_ensure_auth, _refresh, login).            *)
THEOREM DeniedOnlyForCause == Spec => []DeniedForCause
<1>1. IInv => DeniedForCause
  BY DEF IInv, Client, DeniedForCause
<1> QED BY <1>1, InvInitially, InvStep, PTL DEF Spec

(* Energy said to be measured by the counter was used by the block, all of *)
(* it unless the counter was reset meanwhile, for any number of samplers   *)
(* that outlive their run (BaseProfiler._compute_energy).                  *)
THEOREM CounterEnergyWasUsed == Spec => []CounterHonest
<1>1. IInv => CounterHonest
  BY DEF IInv, Meter, CounterHonest
<1> QED BY <1>1, InvInitially, InvStep, PTL DEF Spec

(* What is told of a measured block is so: its caller, the run row and the *)
(* trace agree with what the body did and with what was sampled, whatever  *)
(* call failed and whatever stop() raised (measure, _report).              *)
THEOREM WhatIsToldIsSo == Spec => []ReportIsTheRuns
<1>1. IInv => ReportIsTheRuns
  BY DEF IInv
<1> QED BY <1>1, InvInitially, InvStep, PTL DEF Spec
=============================================================================
