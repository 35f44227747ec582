------------------------------ MODULE Signers ------------------------------
(***************************************************************************)
(* What a Guardian signer makes of what its backend does                   *)
(* (guardian/src/signers/private-key.ts, guardian-coordinator/src/         *)
(* kms-signers.ts and remoteHttpSignTypedData in cli.ts).  A signature is  *)
(* a record of the key that made it, the digest it is over and the parity  *)
(* of its recovery bit; a digest is the typed data itself, since hashing   *)
(* is taken to be injective.                                               *)
(***************************************************************************)
EXTENDS Naturals

CONSTANTS Guardian,     \* the address the service answers for
          Stranger      \* any other address a signature may recover to

ASSUME KeysDiffer == Guardian # Stranger

Providers == {"private_key", "remote_http", "aws_kms", "gcp_kms"}
Kms == {"aws_kms", "gcp_kms"}

\* ecrecover.  bit is the recovery bit that fits the curve point and v the
\* one the signature carries; the wrong bit, like the wrong digest, recovers
\* to some other address.
recoverAddress(digest, sig) ==
  IF sig.over = digest /\ sig.v = sig.bit THEN sig.by ELSE Stranger

Ok(sig) == [status |-> 200, signature |-> sig]
Err(status) == [status |-> status]

\* What the backend may do.  "threw" covers a failed or refused connection
\* and a KMS response without a signature; "aborted" is the client's own
\* timeout; "broken" is a signature that cannot be decoded.
NoReply == {"threw", "aborted"}
HttpReply == {"http4xx", "http5xx", "not_json", "body_aborted", "no_signature"}

\* A local key signs, or throws when the key itself is broken.
privateKeyToSignTypedData(reply) ==
  IF reply.what = "signature" THEN Ok(reply.sig) ELSE Err(500)

\* A KMS answers with (r, s) alone: both recovery bits are tried, and a
\* candidate that recovers to the Guardian is returned.
ethereumSignatureFromDer(digest, der) ==
  {sig \in {[by |-> der.by, over |-> der.over, bit |-> der.bit, v |-> v] : v \in {0, 1}} :
     recoverAddress(digest, sig) = Guardian}

kmsSignTypedData(digest, reply) ==
  IF reply.what = "signature"
  THEN LET usable == ethereumSignatureFromDer(digest, reply.sig)
       IN IF usable # {} THEN Ok(CHOOSE s \in usable : TRUE) ELSE Err(500)
  ELSE IF reply.what = "broken" THEN Err(500) ELSE Err(503)

\* A faulty remoteHttpSignTypedData: the recovered address is not compared.
remoteHttpSignTypedDataTrusting(digest, reply) ==
  CASE reply.what \in NoReply \cup {"http5xx", "body_aborted"} -> Err(503)
    [] reply.what = "http4xx" -> Err(502)
    [] reply.what \in {"not_json", "no_signature", "broken"} -> Err(500)
    [] reply.what = "signature" -> Ok(reply.sig)

remoteHttpSignTypedData(digest, reply) ==
  CASE reply.what \in NoReply \cup {"http5xx", "body_aborted"} -> Err(503)
    [] reply.what = "http4xx" -> Err(502)
    [] reply.what \in {"not_json", "no_signature", "broken"} -> Err(500)
    [] reply.what = "signature" ->
         IF recoverAddress(digest, reply.sig) = Guardian
         THEN Ok(reply.sig) ELSE Err(500)

signTypedData(provider, digest, reply) ==
  CASE provider = "private_key" -> privateKeyToSignTypedData(reply)
    [] provider \in Kms -> kmsSignTypedData(digest, reply)
    [] provider = "remote_http" -> remoteHttpSignTypedData(digest, reply)

\* What each backend can come back with, asked for a signature over digest
\* while the same key, or another, signs the digests in others.  Only a local
\* key is trusted to sign what it is given with the key it holds.
Replies(provider, digest, others) ==
  LET signed(by, over) == [what : {"signature"},
                           sig : [by : by, over : over, bit : {0}, v : {0, 1}]]
      failed(whats) == [what : whats]
  IN CASE provider = "private_key" ->
            {r \in signed({Guardian}, {digest}) : r.sig.v = r.sig.bit} \cup failed({"threw"})
       [] provider \in Kms ->
            signed({Guardian, Stranger}, {digest} \cup others) \cup failed({"threw", "broken"})
       [] provider = "remote_http" ->
            signed({Guardian, Stranger}, {digest} \cup others)
              \cup failed(NoReply \cup HttpReply \cup {"broken"})
=============================================================================
