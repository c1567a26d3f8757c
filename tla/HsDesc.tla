------------------------------- MODULE HsDesc -------------------------------
(***************************************************************************)
(* The v3 hidden-service descriptor codec of src/src/or/hs_descriptor.c:  *)
(* hs_desc_encode_descripspider, which builds the inner (encrypted) layer, *)
(* encrypts it, wraps it in the middle (superencrypted) layer, pads and    *)
(* encrypts that, and signs the plaintext envelope; and the decoders       *)
(* hs_desc_decode_plaintext (all an HSDir can check) and                  *)
(* hs_desc_decode_descripspider (what a client with the subcredential     *)
(* checks).  Everything here is a pure function of its arguments.         *)
(*                                                                         *)
(* A text is abstracted to its tokens and its length.  Cryptography is    *)
(* abstracted to who did what:                                             *)
(*   - a certificate records its type, the key it certifies, the key it    *)
(*     names as its signer, the key that really signed it, whether the     *)
(*     signer is embedded and when it expires;                             *)
(*   - a signature records the key that made it and the body it covers;    *)
(*   - an encrypted blob records the KDF input it was keyed with (blinded  *)
(*     key, subcredential, revision counter, layer), whether its bytes are *)
(*     still the ones the MAC was computed over, its plaintext and length. *)
(* A check that a correct key or MAC passes is equality of these records. *)
(***************************************************************************)
EXTENDS Integers, Sequences

LOCAL INSTANCE SequencesExt

CONSTANTS
  MaxDescSize,     \* hs_cache_get_max_descripspider_size()
  MaxLifetimeSec,  \* HS_DESC_MAX_LIFETIME
  LifetimeBits,    \* width of plaintext->lifetime_sec (uint32_t)
  MaxIntroPoints,  \* MAX_INTRO_POINTS
  PadMultiple,     \* HS_DESC_SUPERENC_PLAINTEXT_PAD_MULTIPLE
  CertLifetime,    \* HS_DESC_CERT_LIFETIME, of the certificates it makes
  TextLen,         \* length of each fixed piece of text the encoder writes
  Invalid          \* the failure result (NULL, -1) of every encoder and decoder

\* HS_DESC_ENCRYPTED_SALT_LEN and DIGEST256_LEN
SaltLen == 16
MacLen == 32
SaltAndMacLen == SaltLen + MacLen

\* ONION_HANDSHAKE_TYPE_NTOR
NTOR == 2

\* The identifiers of the intro_auth_types table.
KnownAuthTypes == {"ed25519"}

\* The payload length encode_link_specifiers sets for each type.
LsPayload == [LS_IPV4 |-> 6, LS_IPV6 |-> 18, LS_LEGACY_ID |-> 20]

\* link_specifier_list_encoded_len: a count byte, then type, length and
\* payload per specifier.
LinkSpecListLen(ls) == 1 + FoldSeq(LAMBDA t, acc : acc + 2 + LsPayload[t], 0, ls)

\* base64_encode_size(n, 0), and with BASE64_ENCODE_MULTILINE one newline
\* per 64-character line.
B64Len(n) == 4 * ((n + 2) \div 3)
B64MultiLen(n) == B64Len(n) + (B64Len(n) + 63) \div 64

\* Characters of a number printed in decimal.
RECURSIVE DecLen(_)
DecLen(n) == IF n < 10 THEN 1 ELSE 1 + DecLen(n \div 10)

-----------------------------------------------------------------------------
(***************************************************************************)
(* Decoding.                                                               *)
(***************************************************************************)
\* cert_is_valid: the wanted type, the signing key embedded, the signature
\* made by that embedded key (spider_cert_checksig), not yet expired.
cert_is_valid(c, type, t) ==
  /\ c.type = type
  /\ c.included
  /\ c.signer = c.signingKey
  /\ t < c.expires

\* encrypted_data_length_is_valid: room for salt, MAC and one byte.
encrypted_data_length_is_valid(len) == len > SaltAndMacLen

\* The lifetime line in minutes, multiplied by 60 in place in a uint32_t.
LifetimeSec(minutes) == (minutes * 60) % (2 ^ LifetimeBits)

\* desc_sig_is_valid: the signature was made by the descriptor signing key
\* over the text before the signature line.
desc_sig_is_valid(doc, signing_pubkey) ==
  doc.sig.by = signing_pubkey /\ doc.sig.over = doc.body

(***************************************************************************)
(* desc_decode_plaintext_v3, at time t: the lifetime, the signing         *)
(* certificate, the superencrypted object and its length, and the         *)
(* signature, in that order.  The blinded key (the cache index) is the    *)
(* certificate's signing key, the descriptor signing key its signed key.  *)
(***************************************************************************)
desc_decode_plaintext_v3(doc, t) ==
  LET b == doc.body IN
  IF \/ LifetimeSec(b.minutes) > MaxLifetimeSec
     \/ ~cert_is_valid(b.cert, "SIGNING_HS_DESC", t)
     \/ b.superObj # "MESSAGE"
     \/ ~encrypted_data_length_is_valid(b.superenc.len)
     \/ ~desc_sig_is_valid(doc, b.cert.signedKey)
  THEN Invalid
  ELSE [key |-> b.cert.signingKey, signing |-> b.cert.signedKey,
        rev |-> b.rev, lifetime |-> LifetimeSec(b.minutes),
        minutes |-> b.minutes, superenc |-> b.superenc,
        blob |-> b.superenc.len, len |-> doc.len]

\* Seeded fault: the HSV3MaxDescripspiderSize cap is not checked.
DecodeWithoutSizeCap(doc, t) ==
  IF doc.body.version # 3 THEN Invalid ELSE desc_decode_plaintext_v3(doc, t)

\* hs_desc_decode_plaintext: the size cap (>=), a supported version, then
\* the v3 plaintext decoder.
hs_desc_decode_plaintext(doc, t) ==
  IF doc.len >= MaxDescSize \/ doc.body.version # 3 THEN Invalid
  ELSE desc_decode_plaintext_v3(doc, t)

\* build_secret_input and build_kdf_key: the key, IV and MAC key depend on
\* the blinded key, the subcredential, the revision counter and the layer.
KdfInput(blinded, subcred, rev, super) == <<blinded, subcred, rev, super>>

\* decrypt_desc_layer for plaintext p: length, MAC under the keys derived
\* from p, decryption; the NUL padding is cut at the first NUL (memchr),
\* which is where the layer text ends.  Each step of the decoders below
\* takes the result of the one before, and fails (Invalid) when it did.
decrypt_desc_layer(p, subcred, blob, super) ==
  IF \/ blob = Invalid
     \/ ~encrypted_data_length_is_valid(blob.len)
     \/ ~blob.intact
     \/ blob.kdf # KdfInput(p.key, subcred, p.rev, super)
  THEN Invalid
  ELSE blob.plain

\* decode_superencrypted with superencrypted_auth_data_is_valid: at least
\* one auth-client line (T1N), auth type x25519, a parsable ephemeral key,
\* a MESSAGE object of valid length.
decode_superencrypted(l1) ==
  IF \/ l1 = Invalid
     \/ l1.clients < 1
     \/ l1.authType # "x25519"
     \/ ~l1.authKeyOk
     \/ l1.encObj # "MESSAGE"
     \/ ~encrypted_data_length_is_valid(l1.enc.len)
  THEN Invalid
  ELSE l1.enc

\* desc_decrypt_all: middle layer, its parse, inner layer.
desc_decrypt_all(p, subcred) ==
  decrypt_desc_layer(
    p, subcred,
    decode_superencrypted(decrypt_desc_layer(p, subcred, p.superenc, TRUE)),
    FALSE)

\* decode_link_specifiers: base64 and the trunnel parse undo what
\* encode_link_specifiers wrote; an unknown type fails the list.
decode_link_specifiers(ls) ==
  IF \E i \in DOMAIN ls : ls[i] \notin DOMAIN LsPayload THEN Invalid ELSE ls

(***************************************************************************)
(* decode_introduction_point for descriptor plaintext p at time t: link   *)
(* specifiers, the auth-key certificate, the enc-key ("ntor" with one     *)
(* argument and no object, or "legacy" with a key), and its cross         *)
(* certification: an ed25519 certificate checked by cert_is_valid for     *)
(* ntor, a CROSSCERT bound to the descriptor signing key and accepted up  *)
(* to a day after expiry (approx_time() - 86400) for legacy.             *)
(***************************************************************************)
CrossCertified(p, ipt, t) ==
  CASE ipt.encKey = "ntor" ->
         /\ ipt.crossObj = "ED25519 CERT"
         /\ cert_is_valid(ipt.crossCert, "CROSS_HS_IP_KEYS", t)
    [] ipt.encKey = "legacy" ->
         /\ ipt.crossObj = "CROSSCERT"
         /\ ipt.crossCert.signedKey = p.signing
         /\ t - 86400 < ipt.crossCert.expires
    [] OTHER -> FALSE

decode_introduction_point(p, ipt, t) ==
  IF \/ decode_link_specifiers(ipt.ls) = Invalid
     \/ ipt.authObj # "ED25519 CERT"
     \/ ~cert_is_valid(ipt.authCert, "AUTH_HS_IP_KEY", t)
     \/ ~CrossCertified(p, ipt, t)
  THEN Invalid
  ELSE [ls |-> ipt.ls, authCert |-> ipt.authCert, encKey |-> ipt.encKey]

\* decode_intro_points: the layer split at each "\nintroduction-point ";
\* one section that does not decode fails them all.
AllDecoded(dec) == IF \E i \in DOMAIN dec : dec[i] = Invalid THEN Invalid ELSE dec

decode_intro_points(p, ips, t) ==
  AllDecoded([i \in DOMAIN ips |-> decode_introduction_point(p, ips[i], t)])

\* decode_auth_type: at least one listed type is known.
decode_auth_type(types) == \E i \in DOMAIN types : types[i] \in KnownAuthTypes

\* The end of desc_decode_encrypted_v3: every intro point decoded, at most
\* MaxIntroPoints of them.  The result is the whole decoded descriptor.
WithIntroPoints(p, l2, ips) ==
  IF ips = Invalid \/ Len(ips) > MaxIntroPoints THEN Invalid
  ELSE [plaintext |-> p,
        encrypted |-> [authTypes |-> l2.authReq, single |-> l2.single,
                       ips |-> ips]]

\* The parse of the decrypted inner layer l2: ntor among the create2
\* formats (decode_create2_list ignores the others), a known type in
\* intro-auth-required when present, then the intro points.
DecodeInnerLayer(p, l2, t) ==
  IF \/ l2 = Invalid
     \/ NTOR \notin l2.create2
     \/ l2.authReq # <<>> /\ ~decode_auth_type(l2.authReq)
  THEN Invalid
  ELSE WithIntroPoints(p, l2, decode_intro_points(p, l2.ips, t))

\* desc_decode_encrypted_v3: decrypt both layers, then parse the inner one.
desc_decode_encrypted_v3(p, subcred, t) ==
  DecodeInnerLayer(p, desc_decrypt_all(p, subcred), t)

\* hs_desc_decode_encrypted, on a plaintext that decoded (or not).
hs_desc_decode_encrypted(p, subcred, t) ==
  IF p = Invalid THEN Invalid ELSE desc_decode_encrypted_v3(p, subcred, t)

\* hs_desc_decode_descripspider: the plaintext, then the encrypted part with
\* the client's subcredential; [plaintext, encrypted] or Invalid.
hs_desc_decode_descripspider(doc, subcred, t) ==
  hs_desc_decode_encrypted(hs_desc_decode_plaintext(doc, t), subcred, t)
-----------------------------------------------------------------------------
(***************************************************************************)
(* Encoding, for a service descriptor sd: [version, lifetime_sec, cert,    *)
(* rev, subcred, create2, authTypes, single, ips], each intro point        *)
(* [ls, authCert, encKey].  The blinded key is the signing certificate's   *)
(* signing key; t is time(NULL) during the call.                           *)
(***************************************************************************)
Blinded(sd) == sd.cert.signingKey

\* encode_intro_point with encode_link_specifiers and encode_enc_key: the
\* cross certificate is made now, for the descriptor signing key, valid
\* for HS_DESC_CERT_LIFETIME.
encode_intro_point(sd, ip, t) ==
  [ls |-> ip.ls, authObj |-> "ED25519 CERT", authCert |-> ip.authCert,
   encKey |-> ip.encKey,
   crossObj |-> IF ip.encKey = "ntor" THEN "ED25519 CERT" ELSE "CROSSCERT",
   crossCert |-> [type |-> "CROSS_HS_IP_KEYS", signedKey |-> sd.cert.signedKey,
                  signingKey |-> "enc-key", signer |-> "enc-key",
                  included |-> TRUE, expires |-> t + CertLifetime],
   len |-> TextLen.ip + B64Len(LinkSpecListLen(ip.ls)) + TextLen[ip.encKey]]

\* get_inner_encrypted_layer_plaintext: fails without ntor; the
\* intro-auth-required and single-onion-service lines only when set.
get_inner_encrypted_layer_plaintext(sd, t) ==
  LET ips == [i \in DOMAIN sd.ips |-> encode_intro_point(sd, sd.ips[i], t)] IN
  IF ~sd.create2 THEN Invalid
  ELSE [create2 |-> {NTOR}, authReq |-> sd.authTypes, single |-> sd.single,
        ips |-> ips,
        len |-> TextLen.create2
                + (IF sd.authTypes = <<>> THEN 0
                   ELSE TextLen.authreq + TextLen.authtype * Len(sd.authTypes))
                + (IF sd.single THEN TextLen.single ELSE 0)
                + FoldSeq(LAMBDA ip, acc : acc + ip.len, 0, ips)]

\* compute_padded_plaintext_length: CEIL_DIV to the pad multiple.
compute_padded_plaintext_length(n) ==
  ((n + PadMultiple - 1) \div PadMultiple) * PadMultiple

\* build_encrypted: only the middle layer is padded.
EncryptedLen(n, super) ==
  IF super THEN compute_padded_plaintext_length(n) ELSE n

\* encrypt_descripspider_data: salt | ciphertext | MAC.
encrypt_descripspider_data(sd, plain, super) ==
  [kdf |-> KdfInput(Blinded(sd), sd.subcred, sd.rev, super), intact |-> TRUE,
   plain |-> plain, len |-> SaltLen + EncryptedLen(plain.len, super) + MacLen]

\* get_outer_encrypted_layer_plaintext: auth type, a fake ephemeral key,
\* CLIENT_AUTH_ENTRIES_BLOCK_SIZE fake auth-client lines, and the inner
\* blob as a base64 MESSAGE object.
get_outer_encrypted_layer_plaintext(blob2) ==
  [authType |-> "x25519", authKeyOk |-> TRUE, clients |-> 16,
   encObj |-> "MESSAGE", enc |-> blob2,
   len |-> TextLen.layer1 + B64MultiLen(blob2.len)]

\* encode_superencrypted_data: the inner layer, encrypted and base64'd
\* into the middle layer, which is padded, encrypted and base64'd in turn.
EncryptLayers(sd, l2) ==
  IF l2 = Invalid THEN Invalid
  ELSE encrypt_descripspider_data(
         sd, get_outer_encrypted_layer_plaintext(
               encrypt_descripspider_data(sd, l2, FALSE)), TRUE)

encode_superencrypted_data(sd, t) ==
  EncryptLayers(sd, get_inner_encrypted_layer_plaintext(sd, t))

\* The text desc_encode_v3 writes around the superencrypted blob: header
\* lines (lifetime in minutes), the signing certificate, the blob, and the
\* signature by kp over all of it.
Envelope(sd, kp, blob) ==
  LET body == [version |-> sd.version, minutes |-> sd.lifetime_sec \div 60,
               cert |-> sd.cert, rev |-> sd.rev, superObj |-> "MESSAGE",
               superenc |-> blob]
  IN [body |-> body, sig |-> [by |-> kp, over |-> body],
      len |-> TextLen.plain + DecLen(body.version) + DecLen(body.minutes)
              + DecLen(body.rev) + B64MultiLen(blob.len)]

\* The size cap desc_encode_v3 puts on what it made.
SizeCapped(doc) == IF doc.len >= MaxDescSize THEN Invalid ELSE doc

SignedEnvelope(sd, kp, blob) ==
  IF blob = Invalid THEN Invalid ELSE SizeCapped(Envelope(sd, kp, blob))

\* desc_encode_v3 with signing key kp: the certificate type, then the rest.
desc_encode_v3(sd, kp, t) ==
  IF sd.cert.type # "SIGNING_HS_DESC" THEN Invalid
  ELSE SignedEnvelope(sd, kp, encode_superencrypted_data(sd, t))

\* The decode hs_desc_encode_descripspider runs on what it just encoded, with
\* the descriptor's own subcredential (BUG on failure).
SelfDecoded(doc, subcred, t) ==
  IF doc = Invalid \/ hs_desc_decode_descripspider(doc, subcred, t) = Invalid
  THEN Invalid
  ELSE doc

\* Seeded fault: the encoder does not decode what it just encoded.
EncodeWithoutSelfCheck(sd, kp, t) ==
  IF sd.version # 3 THEN Invalid ELSE desc_encode_v3(sd, kp, t)

\* hs_desc_encode_descripspider: the version, the v3 encoder, the self-decode.
hs_desc_encode_descripspider(sd, kp, t) ==
  IF sd.version # 3 THEN Invalid
  ELSE SelfDecoded(desc_encode_v3(sd, kp, t), sd.subcred, t)
=============================================================================
