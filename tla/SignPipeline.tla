--------------------------- MODULE SignPipeline ---------------------------
(***************************************************************************)
(* One HTTP request after the other through the Guardian service           *)
(* (guardian/src/server.ts, plugins, routes, lib/signing.ts and            *)
(* lib/deadline.ts), with requests in flight side by side.  The shell is   *)
(* synchronous between its awaits; each await is a call of the host        *)
(* (authenticate, accountRateLimit, sign, liveness) that may return, throw *)
(* or hang, and is raced against a deadline.                               *)
(***************************************************************************)
EXTENDS Integers, FiniteSets

CONSTANTS Requests,     \* HTTP requests in flight
          Profiles,     \* what each of them may look like
          Tokens, None,
          Issued,       \* what authenticate tells of each token:
                        \* [scoped, requiresHmac, hasSecret]
          Overrides,    \* deadlines the host configured, None for the default
          IdleTimeout,  \* the HTTP server resets a socket after that
          MaxBodyBytes,
          Tolerance,    \* HMAC_TIMESTAMP_TOLERANCE_SECONDS
          Budget,       \* requests of one token per window
          MaxRevoked,   \* bound on revocations
          MaxClock      \* bound on the times of arrival

VARIABLES clock,
          revokedAt,    \* the token store: when each token was revoked, None if it is good
          left,         \* what each token's window still grants
          want,         \* the request received
          pc,           \* what the shell awaits for it
          since,        \* when its body had been read
          due,          \* when the deadline of the present await strikes
          info,         \* what authenticate said of its token, None before
          counted,      \* what the limiter answered each request, None before
          late,         \* host calls that lost their race and still run
          signing,      \* requests for which validate-and-sign was called
          answer        \* the status it was answered with, None before

limiter == <<left, counted>>
request == <<want, since, info>>
vars == <<clock, revokedAt, limiter, request, pc, due, late, signing, answer>>

(* ------------------------- configuration ------------------------------ *)

Awaits == {"authenticate", "rateLimit", "sign", "liveness"}

\* In seconds.
DEFAULT_GUARDIAN_TIMEOUTS ==
  [authenticate |-> 2, rateLimit |-> 1, liveness |-> 5, sign |-> 6]

\* setTimeout's 2^31 - 1 ms, in seconds.
MAX_TIMEOUT == 2147483

\* A faulty resolveGuardianTimeouts: the overrides are not merged in.
resolveGuardianTimeoutsUnmerged == DEFAULT_GUARDIAN_TIMEOUTS

resolveGuardianTimeouts ==
  [a \in Awaits |-> IF Overrides[a] = None THEN DEFAULT_GUARDIAN_TIMEOUTS[a] ELSE Overrides[a]]

\* Deadlines out of range and a cap that is none are refused at construction.
ASSUME OverridesAccepted ==
  \A a \in Awaits : Overrides[a] # None => Overrides[a] \in 1..MAX_TIMEOUT
ASSUME CapAccepted == MaxBodyBytes \in Nat \ {0}

\* What a request looks like to the shell, and what authenticate tells of a token.
Profile ==
  [post : BOOLEAN, json : BOOLEAN, route : {"sign", "health", "unknown"},
   size : Nat, declared : Nat \cup {None}, malformed : BOOLEAN,
   token : Tokens \cup {None}, hmac : {"none", "right", "wrong"}, stamp : Int,
   fits : BOOLEAN, upstreamDown : BOOLEAN, chainKnown : BOOLEAN]
TokenInfo == [scoped : BOOLEAN, requiresHmac : BOOLEAN, hasSecret : BOOLEAN]

ASSUME RequestsWellFormed ==
  \A r \in Requests : Profiles[r] \subseteq {p \in Profile : p.route = "sign" => p.post}
ASSUME TokensWellFormed == Issued \in [Tokens -> TokenInfo]
ASSUME LimitsAreNat == Tolerance \in Nat /\ Budget \in Nat

(* ----------------------------- errors --------------------------------- *)

\* The status an error maps to; codes, texts and headers are left out.
resolveError(tag) ==
  CASE tag = "Unauthenticated" -> 401
    [] tag = "Forbidden" -> 403
    [] tag \in {"BadRequest", "UnsupportedChain"} -> 400
    [] tag = "UnsupportedMediaType" -> 415
    [] tag = "PayloadTooLarge" -> 413
    [] tag = "NotFound" -> 404
    [] tag = "StateConflict" -> 409
    [] tag = "ValidationFailed" -> 422
    [] tag = "RateLimited" -> 429
    [] tag = "InternalError" -> 500
    [] tag = "UpstreamUnavailable" -> 503

Tags == {"Unauthenticated", "Forbidden", "BadRequest", "UnsupportedMediaType",
         "PayloadTooLarge", "UnsupportedChain", "NotFound", "StateConflict",
         "ValidationFailed", "RateLimited", "InternalError", "UpstreamUnavailable"}

\* None is no value of any other kind.
ASSUME NothingApart ==
  /\ None \notin Nat \cup Profile \cup TokenInfo \cup Tokens
  /\ None \notin {"granted", "denied", "REQUEST_VALIDATION"} \cup Tags

\* What the error handler makes of what was thrown.  A throw of the host that
\* is no tagged error is an internal error whose text stays inside.
toGuardianError(thrown) ==
  IF thrown \in Tags THEN thrown
  ELSE IF thrown = "NOT_FOUND" THEN "NotFound"
  ELSE IF thrown \in {"PARSE", "REQUEST_VALIDATION"} THEN "BadRequest"
  ELSE "InternalError"

Response(thrown) == resolveError(toGuardianError(thrown))

(* ------------------------- helpers of the shell ----------------------- *)

Answered(r) == pc[r] = "answered"

\* The request is answered once: the shell throws, or returns a result.
Reply(r, response) ==
  /\ pc' = [pc EXCEPT ![r] = "answered"]
  /\ answer' = [answer EXCEPT ![r] = response]
  /\ due' = [due EXCEPT ![r] = None]

Throw(r, thrown) == Reply(r, Response(thrown))

\* withAbstractionDeadline: the call is made and its timer set.
Call(r, abstraction) ==
  /\ pc' = [pc EXCEPT ![r] = abstraction]
  /\ due' = [due EXCEPT ![r] = clock + resolveGuardianTimeouts[abstraction]]

\* computeBodyHmacHex and timingSafeEqualHex: right or not; the timestamp is
\* compared with the clock when the token has been looked up.
Abs(n) == IF n < 0 THEN -n ELSE n

HmacHolds(r) ==
  /\ want[r].hmac = "right"
  /\ Abs(clock - want[r].stamp) <= Tolerance

\* A faulty RefusalOf: the scope is checked before the HMAC.
RefusalOfScopeFirst(r, known) ==
  IF ~known.scoped THEN "Forbidden"
  ELSE IF known.requiresHmac /\ (~known.hasSecret \/ ~HmacHolds(r)) THEN "Unauthenticated"
  ELSE None

\* What the auth derive throws for a token it got to know, or None.
RefusalOf(r, known) ==
  IF known.requiresHmac /\ (~known.hasSecret \/ ~HmacHolds(r)) THEN "Unauthenticated"
  ELSE IF ~known.scoped THEN "Forbidden"
  ELSE None

\* Behind the auth derive: the schemas, then the handler up to its only await.
RefusalBehindAuth(r) ==
  IF ~want[r].fits THEN "REQUEST_VALIDATION"
  ELSE IF want[r].upstreamDown THEN "UpstreamUnavailable"
  ELSE IF ~want[r].chainKnown THEN "UnsupportedChain"
  ELSE None

\* The continuation of the auth derive, with no await before the next host call.
Admit(r) ==
  IF RefusalBehindAuth(r) # None
  THEN Throw(r, RefusalBehindAuth(r)) /\ UNCHANGED signing
  ELSE Call(r, "sign") /\ signing' = signing \cup {r} /\ UNCHANGED answer

(* ------------------------------ Init ---------------------------------- *)

Init ==
  /\ clock = 0
  /\ revokedAt = [t \in Tokens |-> None]
  /\ left = [t \in Tokens |-> Budget]
  /\ counted = [r \in Requests |-> None]
  /\ want = [r \in Requests |-> None]
  /\ pc = [r \in Requests |-> "idle"]
  /\ since = [r \in Requests |-> 0]
  /\ due = [r \in Requests |-> None]
  /\ info = [r \in Requests |-> None]
  /\ late = {} /\ signing = {}
  /\ answer = [r \in Requests |-> None]

(* ---------------------------- the shell ------------------------------- *)

\* The gates before the body is read: content type, then the router.  The
\* health check needs no token.
Receive(r, profile) ==
  /\ pc[r] = "idle" /\ clock <= MaxClock
  /\ want' = [want EXCEPT ![r] = profile]
  /\ since' = [since EXCEPT ![r] = clock]
  /\ \/ profile.post /\ ~profile.json /\ Throw(r, "UnsupportedMediaType")
     \/ (profile.post => profile.json) /\ profile.route = "unknown" /\ Throw(r, "NOT_FOUND")
     \/ profile.route = "health" /\ Call(r, "liveness") /\ UNCHANGED answer
     \/ profile.json /\ profile.route = "sign"
          /\ pc' = [pc EXCEPT ![r] = "body"] /\ UNCHANGED <<due, answer>>
  /\ UNCHANGED <<clock, revokedAt, limiter, info, late, signing>>

\* A faulty OverCap: the declared length is taken at its word.
OverCapDeclared(profile) == profile.declared # None /\ profile.declared > MaxBodyBytes

\* A body over the cap is refused on its declared length, or when its bytes
\* cross the cap; a malformed one after it was read.  Then the auth derive
\* runs up to its first await.  Nothing but the server's own idle timeout
\* bounds how long the client takes to send the body.
OverCap(profile) ==
  profile.size > MaxBodyBytes \/ (profile.declared # None /\ profile.declared > MaxBodyBytes)

ReadBody(r) ==
  /\ pc[r] = "body"
  /\ since' = [since EXCEPT ![r] = clock]
  /\ IF OverCap(want[r]) THEN Throw(r, "PayloadTooLarge")
     ELSE IF want[r].malformed THEN Throw(r, "PARSE")
     ELSE IF want[r].token = None THEN Throw(r, "Unauthenticated")
     ELSE Call(r, "authenticate") /\ UNCHANGED answer
  /\ UNCHANGED <<clock, revokedAt, limiter, want, info, late, signing>>

\* authenticate returns: unknown token, refusal, or on to the rate limiter.
AuthReturns(r) ==
  /\ pc[r] = "authenticate"
  /\ LET t == want[r].token IN
     IF revokedAt[t] # None
     THEN Throw(r, "Unauthenticated") /\ UNCHANGED info
     ELSE /\ info' = [info EXCEPT ![r] = Issued[t]]
          /\ IF RefusalOf(r, Issued[t]) # None
             THEN Throw(r, RefusalOf(r, Issued[t]))
             ELSE Call(r, "rateLimit") /\ UNCHANGED answer
  /\ UNCHANGED <<clock, revokedAt, limiter, want, since, late, signing>>

LimitReturns(r) ==
  /\ pc[r] = "rateLimit" /\ counted[r] # None
  /\ IF counted[r] = "denied"
     THEN Throw(r, "RateLimited") /\ UNCHANGED signing
     ELSE Admit(r)
  /\ UNCHANGED <<clock, revokedAt, limiter, request, late>>

Success == 200

\* A faulty SignReturns: a signature that comes late is sent after all.
SignReturnsLate(r) ==
  /\ pc[r] = "sign" \/ <<r, "sign">> \in late
  /\ Reply(r, Success)
  /\ UNCHANGED <<clock, revokedAt, limiter, request, late, signing>>

\* Validate-and-sign returns a signature, or one of its errors; a response
\* that does not fit its own schema becomes an internal error.
SignErrors == {"ValidationFailed", "StateConflict", "NotFound",
               "RESPONSE_VALIDATION"}

SignReturns(r) ==
  /\ pc[r] = "sign"
  /\ Reply(r, Success) \/ \E e \in SignErrors : Throw(r, e)
  /\ UNCHANGED <<clock, revokedAt, limiter, request, late, signing>>

LivenessReturns(r) ==
  /\ pc[r] = "liveness"
  /\ Reply(r, Success)
  /\ UNCHANGED <<clock, revokedAt, limiter, request, late, signing>>

\* Any host call may report its backend down, or throw what it likes.
HostFails(r) ==
  /\ pc[r] \in Awaits
  /\ \E thrown \in {"UpstreamUnavailable", "UNKNOWN"} : Throw(r, thrown)
  /\ UNCHANGED <<clock, revokedAt, limiter, request, late, signing>>

\* A faulty DeadlineStrikes: accountRateLimit is awaited without a deadline.
DeadlineStrikesNotLimiter(r) ==
  /\ pc[r] \in Awaits \ {"rateLimit"} /\ clock >= due[r]
  /\ Throw(r, "UpstreamUnavailable")
  /\ late' = late \cup {<<r, pc[r]>>}
  /\ UNCHANGED <<clock, revokedAt, limiter, request, signing>>

\* The deadline wins the race: the request is answered, the call runs on.
DeadlineStrikes(r) ==
  /\ pc[r] \in Awaits /\ clock >= due[r]
  /\ Throw(r, "UpstreamUnavailable")
  /\ late' = late \cup {<<r, pc[r]>>}
  /\ UNCHANGED <<clock, revokedAt, limiter, request, signing>>

(* ----------------------- the host and the clock ----------------------- *)

\* The limiter counts a call some time before it answers, in time or late.
LimiterCounts(r) ==
  /\ counted[r] = None
  /\ pc[r] = "rateLimit" \/ <<r, "rateLimit">> \in late
  /\ LET t == want[r].token IN
     IF left[t] > 0
     THEN /\ counted' = [counted EXCEPT ![r] = "granted"]
          /\ left' = [left EXCEPT ![t] = left[t] - 1]
     ELSE counted' = [counted EXCEPT ![r] = "denied"] /\ UNCHANGED left
  /\ UNCHANGED <<clock, revokedAt, request, pc, due, late, signing, answer>>

Revoke(t) ==
  /\ Cardinality({u \in Tokens : revokedAt[u] # None}) < MaxRevoked
  /\ revokedAt[t] = None
  /\ revokedAt' = [revokedAt EXCEPT ![t] = clock]
  /\ UNCHANGED <<clock, limiter, request, pc, due, late, signing, answer>>

\* Timers fire when they are due: the event loop is not held up.
Tick ==
  /\ clock < MaxClock \/ \E r \in Requests : pc[r] \in Awaits
  /\ clock' = clock + 1
  /\ \A r \in Requests : pc[r] \in Awaits => clock < due[r]
  /\ UNCHANGED <<revokedAt, limiter, request, pc, due, late, signing, answer>>

Shell(r) ==
  \/ \E profile \in Profiles[r] : Receive(r, profile)
  \/ ReadBody(r) \/ AuthReturns(r) \/ LimitReturns(r) \/ SignReturns(r)
  \/ LivenessReturns(r) \/ HostFails(r) \/ DeadlineStrikes(r)

Next ==
  \/ \E r \in Requests : Shell(r) \/ LimiterCounts(r)
  \/ \E t \in Tokens : Revoke(t)
  \/ Tick

Spec == Init /\ [][Next]_vars

\* Time passes and timers fire; of the host nothing is assumed.
FairSpec == Spec /\ WF_vars(Tick) /\ \A r \in Requests : WF_vars(DeadlineStrikes(r))

(* --------------------------- properties ------------------------------- *)

Ms(a) == resolveGuardianTimeouts[a]

\* The request's token was looked up and found, and the HMAC it calls for was
\* there.
Authenticated(r) ==
  info[r] # None /\ (info[r].requiresHmac => info[r].hasSecret /\ want[r].hmac = "right")

\* Whoever does not authenticate learns nothing of the token's scopes or
\* budget, spends none of it, has no schema judged and nothing signed: a
\* stolen HMAC token sees the same 401 as an unknown one (auth.ts, the order
\* of authenticate, HMAC, scope and rate limit before validation).
StrangersLearnNothing ==
  \A r \in Requests : want[r] # None /\ want[r].route = "sign" /\ ~Authenticated(r) =>
    /\ counted[r] = None /\ r \notin signing
    /\ Answered(r) => \/ answer[r] \in {401, 413, 415, 500, 503}
                      \/ answer[r] = 400 /\ want[r].malformed

\* Validate-and-sign is only called for a request that may have it: JSON
\* within the cap, a token with the scope, found no longer before than the
\* deadline of the rate limiter even if revoked since, an HMAC stamped within
\* the tolerance of a moment at which the token was being looked up, a grant of
\* the limiter, a body that fits and a chain that is served; and only then is
\* anything answered 200 (auth.ts, runSigning).
SignedOnlyIfEntitled ==
  \A r \in Requests :
    /\ r \in signing =>
         /\ Authenticated(r) /\ info[r].scoped /\ counted[r] = "granted"
         /\ want[r].json /\ want[r].size <= MaxBodyBytes /\ want[r].fits /\ want[r].chainKnown
         /\ info[r].requiresHmac =>
              want[r].stamp \in (since[r] - Tolerance)..(since[r] + Ms("authenticate") + Tolerance)
    /\ pc[r] = "sign" /\ revokedAt[want[r].token] # None =>
         revokedAt[want[r].token] >= due[r] - Ms("sign") - Ms("rateLimit")
    /\ Answered(r) /\ answer[r] = 200 => r \in signing \/ want[r].route = "health"

\* Whatever hangs, a request is answered before the server's idle timeout
\* resets its socket, counted from its body: the deadlines add up (deadline.ts,
\* GuardianTimeouts: the sum that can hit a single request).
WorstCase == Ms("authenticate") + Ms("rateLimit") + Ms("sign")

AnsweredBeforeIdle ==
  \A r \in Requests : pc[r] \in Awaits => clock - since[r] < IdleTimeout

\* One answer for one request: a host call that comes back after its deadline
\* changes nothing (withAbstractionDeadline, the losing promise).
AnswerIsFinal ==
  [][\A r \in Requests : answer[r] # None => answer'[r] = answer[r] /\ pc'[r] = pc[r]]_vars

\* A request whose host calls hang is answered all the same
\* (withAbstractionDeadline, the race).
HungCallsAreAnswered ==
  \A r \in Requests : pc[r] \in Awaits ~> Answered(r)
===========================================================================
