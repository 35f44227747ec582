----------------------- MODULE MCGuardianCoordinator -----------------------
(* Small instances of GuardianCoordinator for TLC.                         *)
EXTENDS GuardianCoordinator, TLC

CONSTANTS p1, p2, r1, r2, r3, r4, n1, n2

\* What grunt-api lists and a body brings where the two agree.
NoOwnNonce   == [r \in Requests |-> None]
ListedAsIs   == [r \in Requests |-> [id |-> r, nonce |-> OwnNonce[r]]]

\* Two replicas race over two independent whitelistings.
RaceClass   == (r1 :> "independent") @@ (r2 :> "independent")
RaceFilters == <<{r1, r2}>>

\* One replica, two filters, rows that are signed and rows that are not.  The legacy whitelisting
\* brings a nonce the window offers too; the hash listed for r1 is that of a payload
\* its reservation may lead to, but not the hash the reservation is answered with.
RowsClass     == (r1 :> "independent") @@ (r2 :> "legacy") @@ (r3 :> "malformed")
                   @@ (r4 :> "foreign")
RowsOwnNonce  == [NoOwnNonce EXCEPT ![r2] = n1]
RowsAnnounced == [ListedAsIs EXCEPT ![r1].nonce = n1]
RowsFilters   == <<{r1, r2}, {r3, r4}>>

\* A prompt whitelisting shares the listing with a request that always times out and
\* with one whose body is not the row's.
QueueClass   == (r1 :> "independent") @@ (r2 :> "legacy") @@ (r3 :> "badBody")
QueueFilters == <<{r1, r2, r3}>>

RaceSymmetry == Permutations(Replicas) \cup Permutations(Nonces)
=============================================================================
