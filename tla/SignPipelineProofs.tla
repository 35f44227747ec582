------------------------- MODULE SignPipelineProofs -------------------------
(***************************************************************************)
(* Proofs about SignPipeline: for any requests, tokens, deadlines, clock   *)
(* and host, only an entitled request is signed, a stranger learns nothing,*)
(* an answer is final and no request outlives the server's idle timeout.   *)
(***************************************************************************)
EXTENDS SignPipeline, TLAPS

-----------------------------------------------------------------------------
(* The inductive invariant.                                                *)

Pcs == {"idle", "body", "answered"} \cup Awaits

TypeOK ==
  /\ clock \in Nat
  /\ revokedAt \in [Tokens -> Nat \cup {None}]
  /\ left \in [Tokens -> Nat]
  /\ counted \in [Requests -> {"granted", "denied", None}]
  /\ want \in [Requests -> Profile \cup {None}]
  /\ pc \in [Requests -> Pcs]
  /\ since \in [Requests -> Nat]
  /\ due \in [Requests -> Nat \cup {None}]
  /\ info \in [Requests -> TokenInfo \cup {None}]
  /\ late \subseteq Requests \X Awaits
  /\ signing \subseteq Requests
  /\ answer = [r \in Requests |-> answer[r]]

\* Nobody has looked the token of the request up, counted it or signed for it.
Untouched(r) ==
  /\ info[r] = None /\ counted[r] = None /\ r \notin signing
  /\ <<r, "rateLimit">> \notin late

\* The auth derive let the request through to the rate limiter.
Passed(r) ==
  LET t == want[r].token IN
  /\ want[r] \in Profile /\ t \in Tokens
  /\ want[r].json /\ want[r].route = "sign" /\ want[r].size <= MaxBodyBytes
  /\ info[r] = Issued[t] /\ info[r].scoped
  /\ info[r].requiresHmac =>
       /\ info[r].hasSecret /\ want[r].hmac = "right"
       /\ want[r].stamp \in (since[r] - Tolerance)..(since[r] + Ms("authenticate") + Tolerance)

\* A revocation is no older than t.
NotRevokedBefore(r, t) ==
  revokedAt[want[r].token] # None => revokedAt[want[r].token] >= t

\* What a request may be told.
Shown(r, response) ==
  /\ response = 200 => r \in signing \/ want[r].route = "health"
  /\ want[r].route = "sign" /\ ~Authenticated(r) =>
       \/ response \in {401, 413, 415, 500, 503}
       \/ response = 400 /\ want[r].malformed

\* Where the shell is with the request.
PlaceInv(r) ==
  /\ pc[r] = "idle" => want[r] = None
  /\ pc[r] # "idle" => want[r] \in Profile
  /\ pc[r] \in {"idle", "body", "authenticate", "liveness"} => Untouched(r)
  /\ pc[r] \in {"body", "authenticate"} => want[r].route = "sign" /\ want[r].json
  /\ pc[r] = "liveness" => want[r].route = "health"
  /\ pc[r] = "authenticate" => want[r].token \in Tokens /\ want[r].size <= MaxBodyBytes
  /\ pc[r] \in {"rateLimit", "sign"} => Passed(r)
  /\ pc[r] = "sign" => r \in signing
  /\ pc[r] # "answered" => answer[r] = None
  /\ pc[r] = "answered" => Shown(r, answer[r])

\* What is known of a request however it goes on.
WorkInv(r) ==
  /\ counted[r] # None \/ <<r, "rateLimit">> \in late => Passed(r)
  /\ r \in signing =>
       Passed(r) /\ counted[r] = "granted" /\ want[r].fits /\ want[r].chainKnown

\* When the present await began and when it ends.
TimeInv(r) ==
  /\ pc[r] \in Awaits => due[r] \in Nat /\ clock <= due[r]
  /\ since[r] <= clock
  /\ pc[r] = "authenticate" => due[r] = since[r] + Ms("authenticate")
  /\ pc[r] = "liveness" => due[r] = since[r] + Ms("liveness")
  /\ pc[r] = "rateLimit" =>
       /\ due[r] <= since[r] + Ms("authenticate") + Ms("rateLimit")
       /\ due[r] - Ms("rateLimit") <= clock
       /\ NotRevokedBefore(r, due[r] - Ms("rateLimit"))
  /\ pc[r] = "sign" =>
       /\ due[r] <= since[r] + WorstCase
       /\ due[r] - Ms("sign") <= clock
       /\ NotRevokedBefore(r, due[r] - Ms("sign") - Ms("rateLimit"))

RInv(r) == PlaceInv(r) /\ WorkInv(r) /\ TimeInv(r)

IInv == TypeOK /\ \A r \in Requests : RInv(r)

-----------------------------------------------------------------------------
(* Lemmas.                                                                 *)

LEMMA DeadlinesPositive ==
  ASSUME NEW a \in Awaits
  PROVE  Ms(a) \in Nat /\ Ms(a) > 0
<1>1. Ms(a) = IF Overrides[a] = None THEN DEFAULT_GUARDIAN_TIMEOUTS[a] ELSE Overrides[a]
  BY SMT DEF Ms, resolveGuardianTimeouts
<1>2. DEFAULT_GUARDIAN_TIMEOUTS[a] \in Nat /\ DEFAULT_GUARDIAN_TIMEOUTS[a] > 0
  BY SMT DEF DEFAULT_GUARDIAN_TIMEOUTS, Awaits
<1>. QED
  <2>1. CASE Overrides[a] = None
    BY <1>1, <1>2, <2>1
  <2>2. CASE Overrides[a] # None
    <3>1. Overrides[a] \in 1..MAX_TIMEOUT
      BY <2>2, OverridesAccepted
    <3>2. Ms(a) = Overrides[a]
      BY <1>1, <2>2
    <3>3. MAX_TIMEOUT \in Nat
      BY SMT DEF MAX_TIMEOUT
    <3>. QED
      BY <3>1, <3>2, <3>3
  <2>. QED
    BY <2>1, <2>2

LEMMA Statuses ==
  /\ Response("UnsupportedMediaType") = 415
  /\ Response("NOT_FOUND") = 404
  /\ Response("PayloadTooLarge") = 413
  /\ Response("PARSE") = 400
  /\ Response("Unauthenticated") = 401
  /\ Response("Forbidden") = 403
  /\ Response("RateLimited") = 429
  /\ Response("UpstreamUnavailable") = 503
  /\ Response("UnsupportedChain") = 400
  /\ Response("ValidationFailed") = 422
  /\ Response("StateConflict") = 409
  /\ Response("NotFound") = 404
  /\ Response("REQUEST_VALIDATION") = 400
  /\ Response("RESPONSE_VALIDATION") = 500
  /\ Response("UNKNOWN") = 500
<1>2. \A tag \in Tags : toGuardianError(tag) = tag
  BY SMT DEF toGuardianError, Tags
<1>3. /\ toGuardianError("NOT_FOUND") = "NotFound"
      /\ toGuardianError("PARSE") = "BadRequest"
      /\ toGuardianError("REQUEST_VALIDATION") = "BadRequest"
      /\ toGuardianError("RESPONSE_VALIDATION") = "InternalError"
      /\ toGuardianError("UNKNOWN") = "InternalError"
  BY SMT DEF toGuardianError, Tags
<1>4. /\ resolveError("Unauthenticated") = 401 /\ resolveError("Forbidden") = 403
      /\ resolveError("BadRequest") = 400 /\ resolveError("UnsupportedChain") = 400
      /\ resolveError("UnsupportedMediaType") = 415 /\ resolveError("PayloadTooLarge") = 413
      /\ resolveError("NotFound") = 404 /\ resolveError("StateConflict") = 409
      /\ resolveError("ValidationFailed") = 422 /\ resolveError("RateLimited") = 429
      /\ resolveError("InternalError") = 500 /\ resolveError("UpstreamUnavailable") = 503
  BY SMT DEF resolveError
<1>5. {"Unauthenticated", "Forbidden", "UnsupportedMediaType", "PayloadTooLarge",
       "UnsupportedChain", "NotFound", "StateConflict", "ValidationFailed", "RateLimited",
       "UpstreamUnavailable"} \subseteq Tags
  BY DEF Tags
<1>6. \A tag \in Tags : Response(tag) = resolveError(tag)
  BY <1>2 DEF Response
<1>7. /\ Response("NOT_FOUND") = 404 /\ Response("PARSE") = 400
      /\ Response("REQUEST_VALIDATION") = 400
      /\ Response("RESPONSE_VALIDATION") = 500
      /\ Response("UNKNOWN") = 500
  BY <1>3, <1>4, SMTT(60) DEF Response
<1>. QED
  BY <1>4, <1>5, <1>6, <1>7, SMTT(60)

\* What a request knows stays true while another one moves.
LEMMA OtherRequests ==
  ASSUME NEW r \in Requests, RInv(r), UNCHANGED <<clock, revokedAt>>,
         want'[r] = want[r], pc'[r] = pc[r], since'[r] = since[r], due'[r] = due[r],
         info'[r] = info[r], counted'[r] = counted[r], answer'[r] = answer[r],
         <<r, "rateLimit">> \in late' <=> <<r, "rateLimit">> \in late,
         r \in signing' <=> r \in signing
  PROVE  RInv(r)'
<1>1. PlaceInv(r)'
  BY DEF RInv, PlaceInv, Untouched, Passed, Shown, Authenticated, Ms
<1>2. WorkInv(r)'
  BY DEF RInv, WorkInv, Passed, Ms
<1>3. TimeInv(r)'
  BY DEF RInv, TimeInv, NotRevokedBefore, Ms, WorstCase
<1>. QED
  BY <1>1, <1>2, <1>3 DEF RInv

\* A request that is answered: what is shown to it may be, and the call that lost
\* its race, if any, was one of a request that had passed.
LEMMA ReplyIInv ==
  ASSUME IInv, NEW r \in Requests, NEW response, Reply(r, response),
         UNCHANGED <<clock, revokedAt, limiter, signing>>,
         late' = late \/ (pc[r] \in Awaits /\ late' = late \cup {<<r, pc[r]>>}),
         want' \in [Requests -> Profile \cup {None}], since' \in [Requests -> Nat],
         info' \in [Requests -> TokenInfo \cup {None}],
         \A j \in Requests \ {r} :
           want'[j] = want[j] /\ since'[j] = since[j] /\ info'[j] = info[j],
         want'[r] \in Profile, since'[r] <= clock,
         \/ want'[r] = want[r] /\ since'[r] = since[r] /\ info'[r] = info[r]
         \/ Untouched(r) /\ late' = late,
         Shown(r, response)'
  PROVE  IInv'
<1>0. TypeOK /\ RInv(r) /\ \A j \in Requests : RInv(j)
  BY DEF IInv
<1>1. /\ pc' = [pc EXCEPT ![r] = "answered"]
      /\ answer' = [answer EXCEPT ![r] = response]
      /\ due' = [due EXCEPT ![r] = None]
  BY DEF Reply
<1>2. TypeOK'
  <2>1. pc' \in [Requests -> Pcs] /\ due' \in [Requests -> Nat \cup {None}]
    BY <1>0, <1>1 DEF TypeOK, Pcs
  <2>2. answer' = [j \in Requests |-> answer'[j]]
    BY <1>0, <1>1 DEF TypeOK
  <2>3. late' \subseteq Requests \X Awaits
    BY <1>0 DEF TypeOK
  <2>. QED
    BY <1>0, <2>1, <2>2, <2>3 DEF TypeOK, limiter
<1>3. /\ pc'[r] = "answered" /\ answer'[r] = response
      /\ counted'[r] = counted[r] /\ (r \in signing' <=> r \in signing)
  BY <1>0, <1>1 DEF TypeOK, limiter
<1>4. <<r, "rateLimit">> \in late' => <<r, "rateLimit">> \in late \/ pc[r] = "rateLimit"
  OBVIOUS
<1>5. RInv(r)'
  <2>1. PlaceInv(r)'
    BY <1>3 DEF PlaceInv, Awaits
  <2>2. WorkInv(r)'
    <3>1. CASE want'[r] = want[r] /\ since'[r] = since[r] /\ info'[r] = info[r]
      BY <1>0, <1>3, <1>4, <3>1 DEF RInv, PlaceInv, WorkInv, Passed, Ms
    <3>2. CASE Untouched(r) /\ late' = late
      BY <1>3, <3>2 DEF WorkInv, Untouched
    <3>. QED
      BY <3>1, <3>2
  <2>3. TimeInv(r)'
    BY <1>3 DEF TimeInv, Awaits
  <2>. QED
    BY <2>1, <2>2, <2>3 DEF RInv
<1>6. ASSUME NEW j \in Requests, j # r PROVE RInv(j)'
  <2>1. /\ pc'[j] = pc[j] /\ due'[j] = due[j] /\ answer'[j] = answer[j]
        /\ counted'[j] = counted[j]
        /\ <<j, "rateLimit">> \in late' <=> <<j, "rateLimit">> \in late
    BY <1>0, <1>1, <1>6 DEF TypeOK, limiter
  <2>. QED
    BY <1>0, <1>6, <2>1, OtherRequests
<1>. QED
  BY <1>2, <1>5, <1>6 DEF IInv

-----------------------------------------------------------------------------
(* IInv is inductive.                                                      *)

LEMMA InitIInv == Init => IInv
<1>. SUFFICES ASSUME Init PROVE IInv
  OBVIOUS
<1>1. TypeOK
  BY LimitsAreNat DEF Init, TypeOK, Pcs
<1>2. ASSUME NEW r \in Requests PROVE RInv(r)
  <2>1. /\ pc[r] = "idle" /\ want[r] = None /\ answer[r] = None /\ info[r] = None
        /\ counted[r] = None /\ since[r] = 0 /\ clock = 0 /\ late = {} /\ signing = {}
    BY DEF Init
  <2>. QED
    BY <2>1 DEF RInv, PlaceInv, WorkInv, TimeInv, Untouched, Awaits
<1>. QED
  BY <1>1, <1>2 DEF IInv

LEMMA ReceiveIInv ==
  ASSUME IInv, NEW r \in Requests, NEW profile \in Profiles[r], Receive(r, profile)
  PROVE  IInv'
<1>0. TypeOK /\ RInv(r) /\ \A j \in Requests : RInv(j)
  BY DEF IInv
<1>1. /\ pc[r] = "idle" /\ Untouched(r) /\ profile \in Profile
      /\ want' = [want EXCEPT ![r] = profile] /\ since' = [since EXCEPT ![r] = clock]
      /\ UNCHANGED <<clock, revokedAt, limiter, info, late, signing>>
  BY <1>0, RequestsWellFormed DEF Receive, RInv, PlaceInv
<1>2. /\ want' \in [Requests -> Profile \cup {None}] /\ since' \in [Requests -> Nat]
      /\ info' \in [Requests -> TokenInfo \cup {None}]
      /\ \A j \in Requests \ {r} :
           want'[j] = want[j] /\ since'[j] = since[j] /\ info'[j] = info[j]
      /\ want'[r] = profile /\ want'[r] \in Profile /\ info'[r] = None
      /\ since'[r] = clock /\ since'[r] <= clock
  BY <1>0, <1>1 DEF TypeOK, Untouched
<1>3. CASE profile.post /\ ~profile.json /\ Throw(r, "UnsupportedMediaType")
  <2>1. Reply(r, 415) /\ Shown(r, 415)'
    BY <1>3, Statuses DEF Throw, Shown
  <2>. QED
    BY <1>1, <1>2, <2>1, ReplyIInv
<1>4. CASE profile.route = "unknown" /\ Throw(r, "NOT_FOUND")
  <2>1. Reply(r, 404) /\ Shown(r, 404)'
    BY <1>2, <1>4, Statuses DEF Throw, Shown
  <2>. QED
    BY <1>1, <1>2, <2>1, ReplyIInv
<1>5. ASSUME \/ profile.route = "health" /\ Call(r, "liveness") /\ UNCHANGED answer
             \/ /\ profile.json /\ profile.route = "sign"
                /\ pc' = [pc EXCEPT ![r] = "body"] /\ UNCHANGED <<due, answer>>
      PROVE  IInv'
  <2>1. Ms("liveness") \in Nat
    BY DeadlinesPositive DEF Awaits
  <2>2. \/ /\ profile.route = "health" /\ UNCHANGED answer
           /\ pc' = [pc EXCEPT ![r] = "liveness"]
           /\ due' = [due EXCEPT ![r] = clock + Ms("liveness")]
        \/ /\ profile.json /\ profile.route = "sign"
           /\ pc' = [pc EXCEPT ![r] = "body"] /\ UNCHANGED <<due, answer>>
    BY <1>5 DEF Call, Ms
  <2>3. TypeOK'
    BY <1>0, <1>1, <1>2, <2>1, <2>2 DEF TypeOK, Pcs, Awaits, limiter
  <2>4. /\ Untouched(r)' /\ answer'[r] = None /\ clock' = clock /\ clock \in Nat
        /\ counted'[r] = None /\ r \notin signing' /\ <<r, "rateLimit">> \notin late'
        /\ \/ profile.route = "health" /\ pc'[r] = "liveness" /\ due'[r] = clock + Ms("liveness")
           \/ profile.json /\ profile.route = "sign" /\ pc'[r] = "body"
    BY <1>0, <1>1, <2>2 DEF TypeOK, Untouched, limiter, RInv, PlaceInv
  <2>5. RInv(r)'
    <3>1. PlaceInv(r)'
      BY <1>1, <1>2, <2>4 DEF PlaceInv, Awaits
    <3>2. WorkInv(r)'
      BY <2>4 DEF WorkInv
    <3>3. TimeInv(r)'
      BY <1>2, <2>1, <2>4 DEF TimeInv, Awaits, Ms
    <3>. QED
      BY <3>1, <3>2, <3>3 DEF RInv
  <2>6. ASSUME NEW j \in Requests, j # r PROVE RInv(j)'
    <3>1. /\ pc'[j] = pc[j] /\ due'[j] = due[j] /\ answer'[j] = answer[j]
          /\ counted'[j] = counted[j]
      BY <1>0, <1>1, <2>2, <2>6 DEF TypeOK, limiter
    <3>. QED
      BY <1>0, <1>1, <1>2, <2>6, <3>1, OtherRequests
  <2>. QED
    BY <2>3, <2>5, <2>6 DEF IInv
<1>. QED
  BY <1>3, <1>4, <1>5 DEF Receive

\* A host call that is made: its request has come so far, its deadline is set.
LEMMA CallIInv ==
  ASSUME IInv, NEW r \in Requests, NEW a \in Awaits, Call(r, a), pc[r] # "answered",
         UNCHANGED <<clock, revokedAt, limiter, want, late, answer>>,
         since' \in [Requests -> Nat], info' \in [Requests -> TokenInfo \cup {None}],
         signing' \subseteq Requests,
         \A j \in Requests \ {r} :
           since'[j] = since[j] /\ info'[j] = info[j] /\ (j \in signing' <=> j \in signing),
         answer[r] = None,
         due'[r] = clock + Ms(a) /\ pc'[r] = a => RInv(r)'
  PROVE  IInv'
<1>0. TypeOK /\ \A j \in Requests : RInv(j)
  BY DEF IInv
<1>1. /\ pc' = [pc EXCEPT ![r] = a] /\ due' = [due EXCEPT ![r] = clock + Ms(a)]
      /\ Ms(a) \in Nat
  BY DeadlinesPositive DEF Call, Ms
<1>2. TypeOK'
  BY <1>0, <1>1 DEF TypeOK, Pcs, limiter
<1>3. RInv(r)'
  BY <1>0, <1>1 DEF TypeOK
<1>4. ASSUME NEW j \in Requests, j # r PROVE RInv(j)'
  <2>1. /\ pc'[j] = pc[j] /\ due'[j] = due[j] /\ answer'[j] = answer[j]
        /\ counted'[j] = counted[j]
    BY <1>0, <1>1, <1>4 DEF TypeOK, limiter
  <2>. QED
    BY <1>0, <1>4, <2>1, OtherRequests
<1>. QED
  BY <1>2, <1>3, <1>4 DEF IInv

LEMMA ReadBodyIInv ==
  ASSUME IInv, NEW r \in Requests, ReadBody(r)
  PROVE  IInv'
<1>0. TypeOK /\ RInv(r)
  BY DEF IInv
<1>1. /\ pc[r] = "body" /\ Untouched(r) /\ want[r] \in Profile
      /\ want[r].route = "sign" /\ want[r].json /\ answer[r] = None
      /\ since' = [since EXCEPT ![r] = clock]
      /\ UNCHANGED <<clock, revokedAt, limiter, want, info, late, signing>>
  BY <1>0 DEF ReadBody, RInv, PlaceInv
<1>2. /\ want' \in [Requests -> Profile \cup {None}] /\ since' \in [Requests -> Nat]
      /\ info' \in [Requests -> TokenInfo \cup {None}]
      /\ \A j \in Requests \ {r} :
           want'[j] = want[j] /\ since'[j] = since[j] /\ info'[j] = info[j]
      /\ want'[r] \in Profile /\ since'[r] = clock /\ since'[r] <= clock
      /\ signing \subseteq Requests
  BY <1>0, <1>1 DEF TypeOK
<1>3. ASSUME NEW response \in {401, 413}, Reply(r, response)
      PROVE  IInv'
  <2>1. Shown(r, response)'
    BY <1>3 DEF Shown
  <2>. QED
    BY <1>1, <1>2, <1>3, <2>1, ReplyIInv
<1>4. CASE OverCap(want[r])
  BY <1>3, <1>4, Statuses DEF ReadBody, Throw
<1>5. CASE ~OverCap(want[r]) /\ want[r].malformed
  <2>1. Reply(r, 400) /\ Shown(r, 400)'
    BY <1>1, <1>5, Statuses DEF ReadBody, Throw, Shown
  <2>. QED
    BY <1>1, <1>2, <2>1, ReplyIInv
<1>6. CASE ~OverCap(want[r]) /\ ~want[r].malformed /\ want[r].token = None
  BY <1>3, <1>6, Statuses DEF ReadBody, Throw
<1>7. CASE ~OverCap(want[r]) /\ ~want[r].malformed /\ want[r].token # None
  <2>1. Call(r, "authenticate") /\ UNCHANGED answer
    BY <1>7 DEF ReadBody
  <2>2. want[r].token \in Tokens /\ want[r].size <= MaxBodyBytes
    BY <1>1, <1>7, CapAccepted DEF OverCap, Profile
  <2>3. ASSUME due'[r] = clock + Ms("authenticate") /\ pc'[r] = "authenticate"
        PROVE  RInv(r)'
    <3>1. Ms("authenticate") \in Nat /\ clock \in Nat
      BY <1>0, DeadlinesPositive DEF TypeOK, Awaits
    <3>2. Untouched(r)'
      BY <1>1 DEF Untouched, limiter
    <3>3. PlaceInv(r)'
      BY <1>1, <2>1, <2>2, <2>3, <3>2 DEF PlaceInv, Awaits
    <3>4. WorkInv(r)'
      BY <3>2 DEF WorkInv, Untouched
    <3>5. TimeInv(r)'
      BY <1>1, <1>2, <2>3, <3>1 DEF TimeInv, Awaits, Ms
    <3>. QED
      BY <3>3, <3>4, <3>5 DEF RInv
  <2>. QED
    BY <1>1, <1>2, <2>1, <2>3, CallIInv DEF Awaits
<1>. QED
  BY <1>4, <1>5, <1>6, <1>7

\* Whoever gets past the auth derive, has authenticated.
LEMMA RefusalAuthenticates ==
  ASSUME NEW r \in Requests, NEW known
  PROVE  /\ RefusalOf(r, known) \in {"Unauthenticated", "Forbidden", None}
         /\ RefusalOf(r, known) # "Unauthenticated" =>
              (known.requiresHmac => known.hasSecret /\ HmacHolds(r))
         /\ RefusalOf(r, known) = None => known.scoped
  BY NothingApart DEF RefusalOf, Tags

LEMMA AuthReturnsIInv ==
  ASSUME IInv, NEW r \in Requests, AuthReturns(r)
  PROVE  IInv'
<1>. DEFINE t == want[r].token
<1>0. TypeOK /\ RInv(r) /\ clock \in Nat /\ since[r] \in Nat
  BY DEF IInv, TypeOK
<1>1. /\ pc[r] = "authenticate" /\ Untouched(r) /\ want[r] \in Profile /\ t \in Tokens
      /\ want[r].route = "sign" /\ want[r].json /\ want[r].size <= MaxBodyBytes
      /\ answer[r] = None /\ since[r] <= clock
      /\ clock <= due[r] /\ due[r] = since[r] + Ms("authenticate")
      /\ UNCHANGED <<clock, revokedAt, limiter, want, since, late, signing>>
  BY <1>0 DEF AuthReturns, RInv, PlaceInv, TimeInv, Awaits
<1>2. want' \in [Requests -> Profile \cup {None}] /\ since' \in [Requests -> Nat]
      /\ want'[r] \in Profile /\ since'[r] <= clock /\ signing \subseteq Requests
      /\ Ms("authenticate") \in Nat /\ Ms("rateLimit") \in Nat
  BY <1>0, <1>1, DeadlinesPositive DEF TypeOK, Awaits
<1>3. CASE revokedAt[t] # None
  <2>1. Reply(r, 401) /\ info' = info
    BY <1>3, Statuses DEF AuthReturns, Throw
  <2>2. info' \in [Requests -> TokenInfo \cup {None}] /\ Shown(r, 401)'
    BY <1>0, <2>1 DEF TypeOK, Shown
  <2>. QED
    BY <1>1, <1>2, <2>1, <2>2, ReplyIInv
<1>4. CASE revokedAt[t] = None
  <2>1. info' = [info EXCEPT ![r] = Issued[t]] /\ Issued[t] \in TokenInfo
    BY <1>1, <1>4, TokensWellFormed DEF AuthReturns
  <2>2. /\ info' \in [Requests -> TokenInfo \cup {None}] /\ info'[r] = Issued[t]
        /\ \A j \in Requests \ {r} : info'[j] = info[j]
    BY <1>0, <2>1 DEF TypeOK
  <2>3. CASE RefusalOf(r, Issued[t]) = "Unauthenticated"
    <3>1. Reply(r, 401)
      BY <1>4, <2>3, NothingApart, Statuses DEF AuthReturns, Throw, Tags
    <3>2. Shown(r, 401)'
      BY DEF Shown
    <3>. QED
      BY <1>1, <1>2, <2>2, <3>1, <3>2, ReplyIInv
  <2>4. CASE RefusalOf(r, Issued[t]) = "Forbidden"
    <3>1. Reply(r, 403)
      BY <1>4, <2>4, NothingApart, Statuses DEF AuthReturns, Throw, Tags
    <3>2. Authenticated(r)'
      BY <1>1, <2>1, <2>2, <2>4, RefusalAuthenticates, NothingApart DEF Authenticated, HmacHolds
    <3>3. Shown(r, 403)'
      BY <3>2 DEF Shown
    <3>. QED
      BY <1>1, <1>2, <2>2, <3>1, <3>3, ReplyIInv
  <2>5. CASE RefusalOf(r, Issued[t]) = None
    <3>1. Call(r, "rateLimit") /\ UNCHANGED answer
      BY <1>4, <2>5 DEF AuthReturns
    <3>2. Issued[t].scoped /\ (Issued[t].requiresHmac => Issued[t].hasSecret /\ HmacHolds(r))
      BY <2>5, RefusalAuthenticates, NothingApart DEF Tags
    <3>3. HmacHolds(r) => /\ want[r].hmac = "right"
                          /\ want[r].stamp \in (since[r] - Tolerance)
                               ..(since[r] + Ms("authenticate") + Tolerance)
      <4>1. want[r].stamp \in Int
        BY <1>1 DEF Profile
      <4>. QED
        BY <1>0, <1>1, <1>2, <4>1, LimitsAreNat DEF HmacHolds, Abs
    <3>4. Passed(r)'
      BY <1>1, <2>2, <3>2, <3>3 DEF Passed, Ms
    <3>5. ASSUME due'[r] = clock + Ms("rateLimit") /\ pc'[r] = "rateLimit"
          PROVE  RInv(r)'
      <4>1. PlaceInv(r)'
        BY <1>1, <3>1, <3>4, <3>5 DEF PlaceInv, Awaits
      <4>2. WorkInv(r)'
        BY <1>1, <3>4 DEF WorkInv, Untouched
      <4>3. NotRevokedBefore(r, due[r] - Ms("rateLimit"))'
        BY <1>1, <1>4 DEF NotRevokedBefore
      <4>4. TimeInv(r)'
        BY <1>0, <1>1, <1>2, <3>5, <4>3 DEF TimeInv, Awaits, Ms
      <4>. QED
        BY <4>1, <4>2, <4>4 DEF RInv
    <3>. QED
      BY <1>1, <1>2, <2>2, <3>1, <3>5, CallIInv DEF Awaits
  <2>. QED
    BY <2>3, <2>4, <2>5, RefusalAuthenticates
<1>. QED
  BY <1>3, <1>4

\* Behind the auth derive and at the health check, everything may be shown but a
\* signature nobody asked for.
LEMMA BehindAuth ==
  ASSUME IInv, NEW r \in Requests, pc[r] \in {"rateLimit", "sign", "liveness"}, NEW response,
         response # 200 \/ pc[r] # "rateLimit"
  PROVE  Shown(r, response)
<1>1. RInv(r)
  BY DEF IInv
<1>2. CASE pc[r] = "liveness"
  BY <1>1, <1>2 DEF RInv, PlaceInv, Shown
<1>3. CASE pc[r] \in {"rateLimit", "sign"}
  <2>1. Passed(r)
    BY <1>1, <1>3 DEF RInv, PlaceInv
  <2>2. Authenticated(r)
    BY <2>1, TokensWellFormed, NothingApart DEF Passed, Authenticated
  <2>. QED
    BY <1>1, <1>3, <2>2 DEF RInv, PlaceInv, Shown
<1>. QED
  BY <1>2, <1>3

\* A request answered while a host call was awaited.
LEMMA AwaitedIInv ==
  ASSUME IInv, NEW r \in Requests, pc[r] \in Awaits, NEW response, Reply(r, response),
         UNCHANGED <<clock, revokedAt, limiter, request, signing>>,
         late' = late \/ late' = late \cup {<<r, pc[r]>>},
         Shown(r, response)
  PROVE  IInv'
<1>1. /\ want' = want /\ since' = since /\ info' = info
      /\ want' \in [Requests -> Profile \cup {None}] /\ since' \in [Requests -> Nat]
      /\ info' \in [Requests -> TokenInfo \cup {None}]
  BY DEF IInv, TypeOK, request
<1>2. want'[r] \in Profile /\ since'[r] <= clock
  BY <1>1 DEF IInv, RInv, PlaceInv, TimeInv, Awaits
<1>3. Shown(r, response)'
  BY <1>1 DEF Shown, Authenticated
<1>. QED
  BY <1>1, <1>2, <1>3, ReplyIInv

LEMMA LimitReturnsIInv ==
  ASSUME IInv, NEW r \in Requests, LimitReturns(r)
  PROVE  IInv'
<1>. DEFINE t == want[r].token
<1>0. TypeOK /\ RInv(r) /\ clock \in Nat
  BY DEF IInv, TypeOK
<1>1. /\ pc[r] = "rateLimit" /\ Passed(r) /\ answer[r] = None /\ counted[r] # None
      /\ UNCHANGED <<clock, revokedAt, limiter, request, late>>
  BY <1>0 DEF LimitReturns, RInv, PlaceInv
<1>2. ASSUME NEW response \in {400, 429, 503}, Reply(r, response), signing' = signing
      PROVE  IInv'
  <2>1. Shown(r, response)
    BY <1>1, BehindAuth
  <2>. QED
    BY <1>1, <1>2, <2>1, AwaitedIInv DEF Awaits
<1>3. CASE counted[r] = "denied"
  BY <1>2, <1>3, Statuses DEF LimitReturns, Throw
<1>4. CASE counted[r] # "denied" /\ RefusalBehindAuth(r) # None
  <2>1. RefusalBehindAuth(r) \in {"REQUEST_VALIDATION", "UpstreamUnavailable", "UnsupportedChain"}
    BY <1>4 DEF RefusalBehindAuth
  <2>2. Throw(r, RefusalBehindAuth(r)) /\ UNCHANGED signing
    BY <1>4 DEF LimitReturns, Admit
  <2>. QED
    BY <1>2, <2>1, <2>2, Statuses DEF Throw
<1>5. CASE counted[r] # "denied" /\ RefusalBehindAuth(r) = None
  <2>1. Call(r, "sign") /\ signing' = signing \cup {r} /\ UNCHANGED answer
    BY <1>5 DEF LimitReturns, Admit
  <2>2. want[r].fits /\ want[r].chainKnown
    <3>1. want[r].fits \in BOOLEAN /\ want[r].chainKnown \in BOOLEAN
      BY <1>1 DEF Passed, Profile
    <3>. QED
      BY <1>5, <3>1, NothingApart DEF RefusalBehindAuth, Tags
  <2>3. counted[r] = "granted"
    BY <1>0, <1>1, <1>5 DEF TypeOK
  <2>4. /\ want' = want /\ since' = since /\ info' = info /\ counted' = counted
        /\ since \in [Requests -> Nat] /\ info \in [Requests -> TokenInfo \cup {None}]
        /\ signing' \subseteq Requests /\ r \in signing'
    BY <1>0, <1>1, <2>1 DEF TypeOK, request, limiter
  <2>5. /\ due[r] \in Nat /\ clock <= due[r]
        /\ due[r] <= since[r] + Ms("authenticate") + Ms("rateLimit")
        /\ due[r] - Ms("rateLimit") <= clock /\ since[r] <= clock
        /\ NotRevokedBefore(r, due[r] - Ms("rateLimit"))
        /\ Ms("authenticate") \in Nat /\ Ms("rateLimit") \in Nat /\ Ms("sign") \in Nat
    BY <1>0, <1>1, DeadlinesPositive DEF RInv, TimeInv, Awaits
  <2>6. ASSUME due'[r] = clock + Ms("sign") /\ pc'[r] = "sign"
        PROVE  RInv(r)'
    <3>1. Passed(r)'
      BY <1>1, <2>4 DEF Passed, Ms
    <3>2. PlaceInv(r)'
      BY <1>1, <2>1, <2>4, <2>6, <3>1 DEF PlaceInv, Passed
    <3>3. WorkInv(r)'
      BY <2>2, <2>3, <2>4, <3>1 DEF WorkInv
    <3>4. NotRevokedBefore(r, due[r] - Ms("sign") - Ms("rateLimit"))'
      <4>1. revokedAt[t] \in Nat \cup {None}
        BY <1>0, <1>1 DEF TypeOK, Passed
      <4>2. revokedAt[t] # None => revokedAt[t] >= clock - Ms("rateLimit")
        BY <1>0, <2>5, <4>1 DEF NotRevokedBefore
      <4>3. due'[r] - Ms("sign") - Ms("rateLimit") = clock - Ms("rateLimit")
        BY <1>0, <2>5, <2>6
      <4>. QED
        BY <1>1, <2>4, <4>2, <4>3 DEF NotRevokedBefore, Ms
    <3>5. TimeInv(r)'
      <4>1. since[r] \in Nat
        BY <2>4
      <4>2. clock + Ms("sign") <= since[r] + WorstCase
        BY <1>0, <2>5, <4>1 DEF WorstCase
      <4>. QED
        BY <1>0, <1>1, <2>4, <2>5, <2>6, <3>4, <4>1, <4>2 DEF TimeInv, Awaits, Ms, WorstCase
    <3>. QED
      BY <3>2, <3>3, <3>5 DEF RInv
  <2>. QED
    BY <1>1, <2>1, <2>4, <2>6, CallIInv DEF Awaits
<1>. QED
  BY <1>3, <1>4, <1>5

\* A call that returns, fails, or loses its race.
LEMMA ReturnIInv ==
  ASSUME IInv, NEW r \in Requests,
         SignReturns(r) \/ LivenessReturns(r) \/ HostFails(r) \/ DeadlineStrikes(r)
  PROVE  IInv'
<1>1. CASE SignReturns(r)
  <2>1. PICK response : Reply(r, response)
    BY <1>1 DEF SignReturns, Throw
  <2>. QED
    BY <1>1, <2>1, BehindAuth, AwaitedIInv DEF SignReturns, Awaits
<1>2. CASE LivenessReturns(r)
  BY <1>2, BehindAuth, AwaitedIInv DEF LivenessReturns, Awaits
<1>3. ASSUME NEW response \in {500, 503}, pc[r] \in Awaits PROVE Shown(r, response)
  <2>1. CASE pc[r] = "authenticate"
    BY DEF Shown
  <2>2. CASE pc[r] # "authenticate"
    BY <1>3, <2>2, BehindAuth DEF Awaits
  <2>. QED
    BY <2>1, <2>2
<1>4. CASE HostFails(r)
  <2>1. PICK response \in {500, 503} : Reply(r, response)
    BY <1>4, Statuses DEF HostFails, Throw
  <2>. QED
    BY <1>3, <1>4, <2>1, AwaitedIInv DEF HostFails
<1>5. CASE DeadlineStrikes(r)
  <2>1. Reply(r, 503)
    BY <1>5, Statuses DEF DeadlineStrikes, Throw
  <2>. QED
    BY <1>3, <1>5, <2>1, AwaitedIInv DEF DeadlineStrikes
<1>. QED
  BY <1>1, <1>2, <1>4, <1>5

LEMMA LimiterCountsIInv ==
  ASSUME IInv, NEW r \in Requests, LimiterCounts(r)
  PROVE  IInv'
<1>0. TypeOK /\ RInv(r) /\ \A j \in Requests : RInv(j)
  BY DEF IInv
<1>1. /\ counted[r] = None /\ Passed(r) /\ r \notin signing
      /\ UNCHANGED <<clock, revokedAt, want, since, info, pc, due, late, signing, answer>>
  BY <1>0, NothingApart DEF LimiterCounts, RInv, PlaceInv, WorkInv, request
<1>2. PICK grant \in {"granted", "denied"} : counted' = [counted EXCEPT ![r] = grant]
  BY DEF LimiterCounts
<1>3. left' \in [Tokens -> Nat]
  <2>1. want[r].token \in Tokens /\ left[want[r].token] \in Nat
    BY <1>0, <1>1 DEF TypeOK, Passed
  <2>. QED
    BY <1>0, <2>1 DEF LimiterCounts, TypeOK
<1>4. TypeOK'
  BY <1>0, <1>1, <1>2, <1>3 DEF TypeOK
<1>5. RInv(r)'
  <2>1. PlaceInv(r)'
    <3>1. pc[r] \notin {"idle", "body", "authenticate", "liveness"}
      BY <1>0 DEF LimiterCounts, RInv, PlaceInv, Untouched
    <3>. QED
      BY <1>0, <1>1, <3>1 DEF RInv, PlaceInv, Passed, Shown, Authenticated, Ms
  <2>2. WorkInv(r)'
    BY <1>1 DEF WorkInv, Passed, Ms
  <2>3. TimeInv(r)'
    BY <1>0, <1>1 DEF RInv, TimeInv, NotRevokedBefore, Ms, WorstCase
  <2>. QED
    BY <2>1, <2>2, <2>3 DEF RInv
<1>6. ASSUME NEW j \in Requests, j # r PROVE RInv(j)'
  <2>1. counted'[j] = counted[j]
    BY <1>0, <1>2, <1>6 DEF TypeOK
  <2>. QED
    BY <1>0, <1>1, <1>6, <2>1, OtherRequests
<1>. QED
  BY <1>4, <1>5, <1>6 DEF IInv

LEMMA RevokeIInv ==
  ASSUME IInv, NEW t \in Tokens, Revoke(t)
  PROVE  IInv'
<1>0. TypeOK /\ \A j \in Requests : RInv(j)
  BY DEF IInv
<1>1. /\ revokedAt[t] = None /\ revokedAt' = [revokedAt EXCEPT ![t] = clock]
      /\ UNCHANGED <<clock, left, counted, want, since, info, pc, due, late, signing, answer>>
  BY DEF Revoke, limiter, request
<1>2. TypeOK'
  BY <1>0, <1>1 DEF TypeOK
<1>3. ASSUME NEW j \in Requests PROVE RInv(j)'
  <2>1. PlaceInv(j)'
    BY <1>0, <1>1 DEF RInv, PlaceInv, Untouched, Passed, Shown, Authenticated, Ms
  <2>2. WorkInv(j)'
    BY <1>0, <1>1 DEF RInv, WorkInv, Passed, Ms
  <2>3. ASSUME NEW n \in Int, n <= clock, want[j].token \in Tokens, NotRevokedBefore(j, n)
        PROVE  /\ revokedAt'[want[j].token] # None => revokedAt'[want[j].token] >= n
    BY <1>0, <1>1, <2>3 DEF TypeOK, NotRevokedBefore
  <2>4. /\ pc[j] \in Awaits => due[j] \in Nat
        /\ \A a \in Awaits : Ms(a) \in Nat
        /\ pc[j] \in {"rateLimit", "sign"} => want[j].token \in Tokens
        /\ clock \in Nat
    BY <1>0, DeadlinesPositive DEF RInv, TimeInv, PlaceInv, Passed, TypeOK
  <2>5. pc[j] = "rateLimit" => NotRevokedBefore(j, due[j] - Ms("rateLimit"))'
    <3>. SUFFICES ASSUME pc[j] = "rateLimit"
                  PROVE  NotRevokedBefore(j, due[j] - Ms("rateLimit"))'
      OBVIOUS
    <3>1. /\ due[j] - Ms("rateLimit") \in Int /\ due[j] - Ms("rateLimit") <= clock
          /\ NotRevokedBefore(j, due[j] - Ms("rateLimit"))
      BY <1>0, <2>4 DEF RInv, TimeInv, Awaits
    <3>. QED
      BY <1>1, <2>3, <2>4, <3>1 DEF NotRevokedBefore, Ms
  <2>6. pc[j] = "sign" => NotRevokedBefore(j, due[j] - Ms("sign") - Ms("rateLimit"))'
    <3>. SUFFICES ASSUME pc[j] = "sign"
                  PROVE  NotRevokedBefore(j, due[j] - Ms("sign") - Ms("rateLimit"))'
      OBVIOUS
    <3>1. /\ due[j] - Ms("sign") - Ms("rateLimit") \in Int
          /\ due[j] - Ms("sign") - Ms("rateLimit") <= clock
          /\ NotRevokedBefore(j, due[j] - Ms("sign") - Ms("rateLimit"))
      BY <1>0, <2>4 DEF RInv, TimeInv, Awaits
    <3>. QED
      BY <1>1, <2>3, <2>4, <3>1 DEF NotRevokedBefore, Ms
  <2>7. TimeInv(j)'
    BY <1>0, <1>1, <2>5, <2>6 DEF RInv, TimeInv, Ms, WorstCase
  <2>. QED
    BY <2>1, <2>2, <2>7 DEF RInv
<1>. QED
  BY <1>2, <1>3 DEF IInv

LEMMA TickIInv ==
  ASSUME IInv, Tick
  PROVE  IInv'
<1>0. TypeOK /\ \A j \in Requests : RInv(j)
  BY DEF IInv
<1>1. /\ clock' = clock + 1 /\ clock \in Nat
      /\ \A j \in Requests : pc[j] \in Awaits => clock < due[j]
      /\ UNCHANGED <<revokedAt, left, counted, want, since, info, pc, due, late, signing, answer>>
  BY <1>0 DEF Tick, limiter, request, TypeOK
<1>2. TypeOK'
  BY <1>0, <1>1 DEF TypeOK
<1>3. ASSUME NEW j \in Requests PROVE RInv(j)'
  <2>1. PlaceInv(j)'
    BY <1>0, <1>1 DEF RInv, PlaceInv, Untouched, Passed, Shown, Authenticated, Ms
  <2>2. WorkInv(j)'
    BY <1>0, <1>1 DEF RInv, WorkInv, Passed, Ms
  <2>3. /\ since[j] \in Nat /\ \A a \in Awaits : Ms(a) \in Nat
        /\ pc[j] \in Awaits => due[j] \in Nat
    BY <1>0, DeadlinesPositive DEF TypeOK, RInv, TimeInv
  <2>4. /\ pc[j] \in Awaits => clock' <= due[j]
        /\ since[j] <= clock'
        /\ pc[j] = "rateLimit" => due[j] - Ms("rateLimit") <= clock'
        /\ pc[j] = "sign" => due[j] - Ms("sign") <= clock'
    BY <1>0, <1>1, <2>3 DEF RInv, TimeInv, Awaits
  <2>5. TimeInv(j)'
    BY <1>0, <1>1, <2>4 DEF RInv, TimeInv, NotRevokedBefore, Ms, WorstCase
  <2>. QED
    BY <2>1, <2>2, <2>5 DEF RInv
<1>. QED
  BY <1>2, <1>3 DEF IInv

LEMMA NextIInv == IInv /\ [Next]_vars => IInv'
<1>. SUFFICES ASSUME IInv, [Next]_vars PROVE IInv'
  OBVIOUS
<1>1. ASSUME NEW r \in Requests, Shell(r) PROVE IInv'
  BY <1>1, ReceiveIInv, ReadBodyIInv, AuthReturnsIInv, LimitReturnsIInv, ReturnIInv DEF Shell
<1>2. CASE UNCHANGED vars
  <2>1. UNCHANGED <<clock, revokedAt, left, counted, want, since, info, pc, due, late, signing,
                    answer>>
    BY <1>2 DEF vars, limiter, request
  <2>2. TypeOK'
    BY <2>1 DEF IInv, TypeOK
  <2>3. \A j \in Requests : RInv(j)'
    BY <2>1, OtherRequests DEF IInv
  <2>. QED
    BY <2>2, <2>3 DEF IInv
<1>. QED
  BY <1>1, <1>2, LimiterCountsIInv, RevokeIInv, TickIInv DEF Next

LEMMA SpecIInv == Spec => []IInv
  BY InitIInv, NextIInv, PTL DEF Spec

-----------------------------------------------------------------------------
(* The theorems.                                                           *)

\* Every variable keeps its type, whatever the host does.
THEOREM TypeCorrect == Spec => []TypeOK
<1>1. IInv => TypeOK
  BY DEF IInv
<1>. QED
  BY <1>1, SpecIInv, PTL

\* For any requests, tokens and deadlines: whoever does not authenticate spends no
\* budget, has nothing judged or signed, and reads nothing of scopes or limits in
\* the status.
THEOREM StrangersLearnNothingCorrect == Spec => []StrangersLearnNothing
<1>1. ASSUME IInv PROVE StrangersLearnNothing
  <2>. SUFFICES ASSUME NEW r \in Requests, want[r] # None, want[r].route = "sign",
                       ~Authenticated(r)
                PROVE  /\ counted[r] = None /\ r \notin signing
                       /\ Answered(r) => \/ answer[r] \in {401, 413, 415, 500, 503}
                                         \/ answer[r] = 400 /\ want[r].malformed
    BY DEF StrangersLearnNothing
  <2>1. RInv(r)
    BY <1>1 DEF IInv
  <2>2. ~Passed(r)
    BY TokensWellFormed, NothingApart DEF Passed, Authenticated
  <2>. QED
    BY <2>1, <2>2 DEF RInv, PlaceInv, WorkInv, Shown, Answered
<1>. QED
  BY <1>1, SpecIInv, PTL

\* For any requests, tokens and deadlines, and whenever a token is revoked:
\* validate-and-sign is called only for a request entitled to it.
THEOREM SignedOnlyIfEntitledCorrect == Spec => []SignedOnlyIfEntitled
<1>1. ASSUME IInv PROVE SignedOnlyIfEntitled
  <2>. SUFFICES ASSUME NEW r \in Requests
                PROVE  /\ r \in signing =>
                            /\ Authenticated(r) /\ info[r].scoped /\ counted[r] = "granted"
                            /\ want[r].json /\ want[r].size <= MaxBodyBytes
                            /\ want[r].fits /\ want[r].chainKnown
                            /\ info[r].requiresHmac =>
                                 want[r].stamp \in (since[r] - Tolerance)
                                   ..(since[r] + Ms("authenticate") + Tolerance)
                       /\ pc[r] = "sign" /\ revokedAt[want[r].token] # None =>
                            revokedAt[want[r].token] >= due[r] - Ms("sign") - Ms("rateLimit")
                       /\ Answered(r) /\ answer[r] = 200 =>
                            r \in signing \/ want[r].route = "health"
    BY DEF SignedOnlyIfEntitled
  <2>1. RInv(r)
    BY <1>1 DEF IInv
  <2>2. Passed(r) => Authenticated(r)
    BY TokensWellFormed, NothingApart DEF Passed, Authenticated
  <2>3. r \in signing => Passed(r) /\ counted[r] = "granted" /\ want[r].fits /\ want[r].chainKnown
    BY <2>1 DEF RInv, WorkInv
  <2>4. pc[r] = "sign" => NotRevokedBefore(r, due[r] - Ms("sign") - Ms("rateLimit"))
    BY <2>1 DEF RInv, TimeInv
  <2>5. Answered(r) => Shown(r, answer[r])
    BY <2>1 DEF RInv, PlaceInv, Answered
  <2>. QED
    BY <2>2, <2>3, <2>4, <2>5 DEF Passed, NotRevokedBefore, Shown
<1>. QED
  BY <1>1, SpecIInv, PTL

\* When the deadlines of the signing routes, and that of the health check, fit into
\* the server's idle timeout, no request outlives it, for any deadlines and any host.
THEOREM AnsweredBeforeIdleCorrect ==
  ASSUME IdleTimeout \in Nat, WorstCase < IdleTimeout, Ms("liveness") < IdleTimeout
  PROVE  Spec => []AnsweredBeforeIdle
<1>1. ASSUME IInv PROVE AnsweredBeforeIdle
  <2>. SUFFICES ASSUME NEW r \in Requests, pc[r] \in Awaits
                PROVE  clock - since[r] < IdleTimeout
    BY DEF AnsweredBeforeIdle
  <2>1. /\ Ms("authenticate") \in Nat /\ Ms("rateLimit") \in Nat /\ Ms("sign") \in Nat
        /\ Ms("liveness") \in Nat /\ clock \in Nat /\ since[r] \in Nat /\ due[r] \in Nat
        /\ clock <= due[r]
    BY <1>1, DeadlinesPositive DEF IInv, TypeOK, RInv, TimeInv, Awaits
  <2>2. due[r] <= since[r] + WorstCase \/ due[r] = since[r] + Ms("liveness")
    BY <1>1, <2>1 DEF IInv, RInv, TimeInv, Awaits, WorstCase
  <2>. QED
    BY <2>1, <2>2 DEF WorstCase
<1>. QED
  BY <1>1, SpecIInv, PTL

\* An answer, once given, is the answer: whatever comes back late, and whatever the
\* host does then.
THEOREM AnswerIsFinalCorrect == Spec => AnswerIsFinal
<1>1. IInv /\ [Next]_vars => [\A r \in Requests :
                                answer[r] # None => answer'[r] = answer[r] /\ pc'[r] = pc[r]]_vars
  <2>. SUFFICES ASSUME IInv, Next, NEW r \in Requests, answer[r] # None
                PROVE  answer'[r] = answer[r] /\ pc'[r] = pc[r]
    OBVIOUS
  <2>1. TypeOK /\ pc[r] = "answered"
    BY DEF IInv, RInv, PlaceInv
  <2>2. ASSUME NEW j \in Requests, Shell(j) PROVE answer'[r] = answer[r] /\ pc'[r] = pc[r]
    <3>1. pc[j] # "answered"
      BY <2>2 DEF Shell, Receive, ReadBody, AuthReturns, LimitReturns, SignReturns,
                  LivenessReturns, HostFails, DeadlineStrikes, Awaits
    <3>2. ASSUME NEW response, Reply(j, response) PROVE answer'[r] = answer[r] /\ pc'[r] = pc[r]
      BY <2>1, <3>1, <3>2 DEF Reply, TypeOK
    <3>3. ASSUME NEW a, Call(j, a), UNCHANGED answer
          PROVE  answer'[r] = answer[r] /\ pc'[r] = pc[r]
      BY <2>1, <3>1, <3>3 DEF Call, TypeOK
    <3>4. CASE \E profile \in Profiles[j] : Receive(j, profile)
      <4>1. ASSUME pc' = [pc EXCEPT ![j] = "body"], UNCHANGED answer
            PROVE  answer'[r] = answer[r] /\ pc'[r] = pc[r]
        BY <2>1, <3>1, <4>1 DEF TypeOK
      <4>. QED
        BY <3>2, <3>3, <3>4, <4>1 DEF Receive, Throw
    <3>5. CASE ReadBody(j)
      BY <3>2, <3>3, <3>5 DEF ReadBody, Throw
    <3>6. CASE AuthReturns(j)
      BY <3>2, <3>3, <3>6 DEF AuthReturns, Throw
    <3>7. CASE LimitReturns(j)
      BY <3>2, <3>3, <3>7 DEF LimitReturns, Admit, Throw
    <3>8. CASE SignReturns(j) \/ LivenessReturns(j) \/ HostFails(j) \/ DeadlineStrikes(j)
      BY <3>2, <3>8 DEF SignReturns, LivenessReturns, HostFails, DeadlineStrikes, Throw
    <3>. QED
      BY <2>2, <3>4, <3>5, <3>6, <3>7, <3>8 DEF Shell
  <2>3. ASSUME NEW j \in Requests, LimiterCounts(j) PROVE answer' = answer /\ pc' = pc
    BY <2>3 DEF LimiterCounts
  <2>4. ASSUME (\E t \in Tokens : Revoke(t)) \/ Tick PROVE answer' = answer /\ pc' = pc
    BY <2>4 DEF Revoke, Tick
  <2>. QED
    BY <2>2, <2>3, <2>4 DEF Next
<1>. QED
  BY <1>1, SpecIInv, PTL DEF Spec, AnswerIsFinal
=============================================================================
