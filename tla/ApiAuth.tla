------------------------------ MODULE ApiAuth ------------------------------
(***************************************************************************)
(* The authenticated wire client (apiclient.py).  Every endpoint goes      *)
(* through _authed_request: an API key is sent as it is; a session logs in *)
(* when it holds no access token, and a 401 is met by one refresh, or a    *)
(* new login, and one retry.  Nothing raises: a failure is an answer.      *)
(*                                                                         *)
(* One step is one HTTP request.  Tokens are known by what the server      *)
(* thinks of them: none held, live, or stale (expired, revoked).           *)
(***************************************************************************)
EXTENDS Integers, FiniteSets

CONSTANTS
  Credentials,  \* what the client may be configured with
  Moved,        \* whether the base URL may answer everything with a redirect
  MaxFaults,    \* bound on the requests that go wrong
  MaxExpiries   \* bound on the tokens that expire or are revoked

(* What is assumed of the constants; SdkSession, which instantiates this    *)
(* module, assumes it.                                                      *)
Assumptions ==
  /\ Credentials \subseteq {"key", "wrong key", "password", "wrong password", "none"}
  /\ Moved \subseteq BOOLEAN
  /\ {MaxFaults, MaxExpiries} \subseteq Nat

VARIABLES
  cred,      \* the configuration
  moved,     \* the base URL redirects
  access, refresh,   \* _access_token, _refresh_token
  call,      \* the call under way
  faults, expiries

vars == <<cred, moved, access, refresh, call, faults, expiries>>

Token == {"none", "live", "stale"}
Requests == {"login", "send", "refresh", "relogin", "resend"}
Answers == {"ok", "401", "failed"}

(* Calls without lasting effect upstream, calls the server knows again by  *)
(* their content, and calls that add something every time they arrive      *)
Reads == {"advise", "pull_schedule", "get_recommended_cap"}
Idempotent == {"register_node", "push_run", "ack"}
Appends == {"create_workflow", "push_samples", "submit_bench_bundle"}
Endpoints == Reads \cup Idempotent \cup Appends

(* pc: the next request, or idle, or answered; effects: how often the call *)
(* took effect upstream; troubled: something went wrong during the call    *)
Idle == [pc |-> "idle", path |-> "none", answer |-> "none", effects |-> 0,
         troubled |-> FALSE]

TypeOK ==
  /\ cred \in Credentials /\ moved \in Moved
  /\ access \in Token /\ refresh \in Token
  /\ call \in [pc : Requests \cup {"idle", "answered"},
               path : Endpoints \cup {"none"},
               answer : Answers \cup {"none"}, effects : 0 .. 2,
               troubled : BOOLEAN]
  /\ faults \in Nat /\ expiries \in Nat

Init ==
  /\ cred \in Credentials /\ moved \in Moved
  /\ access = "none" /\ refresh = "none"
  /\ call = Idle /\ faults = 0 /\ expiries = 0

Keyed == cred \in {"key", "wrong key"}
CanLogIn == cred \in {"password", "wrong password"}
Authorised == cred = "key" \/ (~Keyed /\ access = "live")

Goto(request) == call' = [call EXCEPT !.pc = request]
Answer(a) == call' = [call EXCEPT !.pc = "answered", !.answer = a]

(* _authed_request, up to its first request; without any credential there  *)
(* is none                                                                 *)
Call(path) ==
  /\ call.pc = "idle"
  /\ call' = [Idle EXCEPT !.path = path,
                !.pc = IF Keyed \/ access # "none" THEN "send"
                       ELSE IF CanLogIn THEN "login" ELSE "answered",
                !.answer = IF Keyed \/ access # "none" \/ CanLogIn THEN "none" ELSE "failed"]
  /\ UNCHANGED <<cred, moved, access, refresh, faults, expiries>>

(* A request is answered with a success.  A redirect is one: not 204, not  *)
(* an HTTP error, and nothing has happened upstream.                       *)
Sending == call.pc \in {"send", "resend"}
Succeeds ==
  /\ Sending /\ (Authorised \/ moved)
  /\ call' = [call EXCEPT !.pc = "answered", !.answer = "ok",
                          !.effects = IF moved THEN @ ELSE @ + 1]
  /\ UNCHANGED <<cred, moved, access, refresh, faults, expiries>>

(* The request is refused for its credential: the first time a session     *)
(* renews its token, the second time or with a key the 401 is the answer   *)
Denied ==
  /\ Sending /\ ~Authorised /\ ~moved
  /\ IF call.pc = "resend" \/ Keyed THEN Answer("401")
     ELSE IF refresh # "none" THEN Goto("refresh")
     ELSE IF CanLogIn THEN Goto("relogin")
     ELSE Answer("401")
  /\ UNCHANGED <<cred, moved, access, refresh, faults, expiries>>

(* Mutant: whatever fails is sent again *)
FailsAgain ==
  /\ Sending /\ faults < MaxFaults /\ faults' = faults + 1
  /\ \E effect \in 0 .. (IF Authorised /\ ~moved THEN 1 ELSE 0) :
       call' = [call EXCEPT !.pc = IF @ = "send" THEN "resend" ELSE "answered",
                            !.answer = IF call.pc = "send" THEN "none" ELSE "failed",
                            !.effects = @ + effect, !.troubled = TRUE]
  /\ UNCHANGED <<cred, moved, access, refresh, expiries>>

(* Any other HTTP error, no answer, or an answer that never came back      *)
Fails ==
  /\ Sending /\ faults < MaxFaults /\ faults' = faults + 1
  /\ \E effect \in 0 .. (IF Authorised /\ ~moved THEN 1 ELSE 0) :
       call' = [call EXCEPT !.pc = "answered", !.answer = "failed",
                            !.effects = @ + effect, !.troubled = TRUE]
  /\ UNCHANGED <<cred, moved, access, refresh, expiries>>

(* _store_tokens: a new pair, or a body without tokens, which keeps what   *)
(* is held                                                                 *)
StoreTokens(bare) ==
  IF bare THEN UNCHANGED <<access, refresh>>
          ELSE access' = "live" /\ refresh' = "live"

Renewing == call.pc \in {"login", "relogin", "refresh"}
Accepted == IF call.pc = "refresh" THEN refresh = "live" ELSE cred = "password"
Refused == IF call.pc = "refresh" /\ CanLogIn THEN Goto("relogin") ELSE Answer("401")

(* After an accepted login the call goes on, whether a token came with it  *)
(* or not; after a refresh only with a token, but an old one will do       *)
Renews ==
  /\ Renewing /\ Accepted /\ ~moved
  /\ StoreTokens(FALSE)
  /\ Goto(IF call.pc = "login" THEN "send" ELSE "resend")
  /\ UNCHANGED <<cred, moved, faults, expiries>>

RenewsBare ==
  /\ Renewing /\ (Accepted \/ moved)
  /\ \/ moved /\ UNCHANGED faults
     \/ ~moved /\ faults < MaxFaults /\ faults' = faults + 1
  /\ StoreTokens(TRUE)
  /\ call' = [call EXCEPT !.pc = IF @ = "login" THEN "send" ELSE "resend",
                          !.troubled = TRUE]
  /\ UNCHANGED <<cred, moved, expiries>>

(* Mutant: a refused refresh is the end of it *)
RenewalRefusedForGood ==
  /\ Renewing /\ ~Accepted /\ ~moved
  /\ Answer("401")
  /\ UNCHANGED <<cred, moved, access, refresh, faults, expiries>>

RenewalRefused ==
  /\ Renewing /\ ~Accepted /\ ~moved
  /\ Refused
  /\ UNCHANGED <<cred, moved, access, refresh, faults, expiries>>

(* The renewal fails otherwise; it may have reached the server, but its    *)
(* tokens are lost                                                         *)
RenewalFails ==
  /\ Renewing /\ faults < MaxFaults /\ faults' = faults + 1
  /\ call' = IF call.pc = "refresh" /\ CanLogIn
               THEN [call EXCEPT !.pc = "relogin", !.troubled = TRUE]
               ELSE [call EXCEPT !.pc = "answered", !.troubled = TRUE,
                                 !.answer = IF call.pc = "login" THEN "failed" ELSE "401"]
  /\ UNCHANGED <<cred, moved, access, refresh, expiries>>

(* An access token expires, or the session is revoked with both tokens     *)
Expires ==
  /\ expiries < MaxExpiries /\ expiries' = expiries + 1
  /\ access = "live" /\ access' = "stale" /\ refresh' \in {refresh, "stale"} /\ refresh # "none"
  /\ call' = [call EXCEPT !.troubled = (call.pc # "idle")]
  /\ UNCHANGED <<cred, moved, faults>>

Request ==
  \/ Succeeds \/ Denied \/ Fails
  \/ Renews \/ RenewsBare \/ RenewalRefused \/ RenewalFails

(* The caller takes the answer *)
Taken ==
  /\ call.pc = "answered" /\ call' = Idle
  /\ UNCHANGED <<cred, moved, access, refresh, faults, expiries>>

Next == Request \/ Expires \/ Taken \/ \E path \in Endpoints : Call(path)

Spec == Init /\ [][Next]_vars
-----------------------------------------------------------------------------
(* A call takes effect upstream at most once, its retry included: only a   *)
(* 401 is retried, and what was answered 401 has had no effect.  push_run  *)
(* would not mind; push_samples, create_workflow and the bundles append.   *)
EffectAtMostOnce == call.effects <= 1

(* A 401 reaches the caller only from credentials the server does not      *)
(* accept or when a request, a renewal or a token failed during this very  *)
(* call: what went wrong in an earlier call never locks the client out.    *)
DeniedForCause ==
  call.answer = "401" => cred \in {"wrong key", "wrong password"} \/ call.troubled
=============================================================================
