------------------------------ MODULE HsPublish ------------------------------
(***************************************************************************)
(* A v3 descriptor from service to client.  Services build descriptors and *)
(* encode them with hs_desc_encode_descripspider (HsDesc); the texts are  *)
(* posted to an HSDir running the cache of HsCache, which stores what its *)
(* plaintext decode accepts and serves the stored text on lookup; a client *)
(* that knows the onion address, hence the blinded key and subcredential, *)
(* fetches that text and decodes it fully with hs_desc_decode_descripspider*)
(* at the HSDir's current time.                                            *)
(*                                                                         *)
(* Anyone may post to an HSDir, so the posted texts (Descs) hold, besides *)
(* what the services published, texts derived from those: edited,         *)
(* spliced, re-certified or re-signed.  An attacker knows the onion       *)
(* address, so it can compute the subcredential, but it cannot sign with a *)
(* service's keys.                                                         *)
(***************************************************************************)
EXTENDS HsCache

CONSTANTS
  ServiceDescs,  \* the hs_descripspider_t values the services encode
  Subcred,       \* blinded key -> the subcredential clients derive for it
  EncodeTime     \* time(NULL) while the services encode

\* A service encodes with the descriptor signing key its certificate
\* certifies.
Encoded(sd) == hs_desc_encode_descripspider(sd, sd.cert.signedKey, EncodeTime)

Published == {Encoded(sd) : sd \in ServiceDescs} \ {Invalid}

\* What a client uses of a descriptor: as the service built it, and as
\* the client decoded it.
ServiceContent(sd) ==
  [key |-> Blinded(sd), rev |-> sd.rev, lifetime |-> sd.lifetime_sec,
   authTypes |-> sd.authTypes, single |-> sd.single,
   ips |-> [i \in DOMAIN sd.ips |->
              [ls |-> sd.ips[i].ls, authCert |-> sd.ips[i].authCert,
               encKey |-> sd.ips[i].encKey]]]

DecodedContent(full) ==
  [key |-> full.plaintext.key, rev |-> full.plaintext.rev,
   lifetime |-> full.plaintext.lifetime,
   authTypes |-> full.encrypted.authTypes, single |-> full.encrypted.single,
   ips |-> full.encrypted.ips]

PublishedContent ==
  {ServiceContent(sd) : sd \in {s \in ServiceDescs : Encoded(s) # Invalid}}

\* A full decode that succeeded, with content a service published.
DecodesToPublished(full) ==
  full # Invalid /\ DecodedContent(full) \in PublishedContent

(***************************************************************************)
(* Whatever the HSDir serves for a blinded key, a client holding that     *)
(* key's subcredential decodes, and gets exactly what a service encoded:  *)
(* same key, revision, lifetime, auth types, single-onion flag and intro   *)
(* points.  It rests on the encoder's self-decode                          *)
(* (hs_desc_encode_descripspider), on the HSDir's plaintext checks, which  *)
(* cannot see the encrypted layers, and on the KDF binding both layers to  *)
(* the blinded key and revision counter the signature covers.             *)
(***************************************************************************)
ClientDecodesServed ==
  \A k \in Keys :
    hs_cache_lookup_as_dir(k).found = 1 =>
      DecodesToPublished(
        hs_desc_decode_descripspider(hs_cache_lookup_as_dir(k).desc,
                                     Subcred[k], now))
=============================================================================
