----------------------------- MODULE MC_HsCache -----------------------------
(***************************************************************************)
(* Instantiation of HsPublish (HsCache with the services' encoder and the *)
(* clients' decoder) for TLC.  There are two blinded keys, two revisions  *)
(* each and two lifetimes, and the wall clock moves by half hours and      *)
(* hours.  Times and the v2 maximum lifetime are scaled down from days to  *)
(* hours.  The 32-bit lifetime field is checked at 24 bits because TLC    *)
(* integers are 32-bit signed; the wrap condition is the same at any      *)
(* width above log2 of the maximum lifetime.                              *)
(***************************************************************************)
EXTENDS HsPublish

CONSTANTS k1, k2

MCKeys == {k1, k2}

MCSubcred == [k \in MCKeys |-> <<"subcred", k>>]

\* Certificates, made by the service's keys, valid past ClockMax.
Far == 100000
SigningCert(k) ==
  [type |-> "SIGNING_HS_DESC", signedKey |-> <<"desc-signing", k>>,
   signingKey |-> k, signer |-> k, included |-> TRUE, expires |-> Far]
AuthCert(k, exp) ==
  [type |-> "AUTH_HS_IP_KEY", signedKey |-> <<"ip-auth", k>>,
   signingKey |-> <<"desc-signing", k>>, signer |-> <<"desc-signing", k>>,
   included |-> TRUE, expires |-> exp]

IpNtor(k) ==
  [ls |-> <<"LS_IPV4", "LS_LEGACY_ID">>, authCert |-> AuthCert(k, Far),
   encKey |-> "ntor"]
IpLegacy(k) ==
  [ls |-> <<"LS_IPV4", "LS_IPV6", "LS_LEGACY_ID">>,
   authCert |-> AuthCert(k, Far), encKey |-> "legacy"]

\* A service descriptor: one or two intro points by revision, auth types
\* and the single-onion flag by lifetime.
SD(k, r, m, ips) ==
  [version |-> 3, lifetime_sec |-> m * 60, cert |-> SigningCert(k), rev |-> r,
   subcred |-> MCSubcred[k], create2 |-> TRUE,
   authTypes |-> IF m = 60 THEN <<"ed25519">> ELSE <<>>,
   single |-> m = 60, ips |-> ips]
Honest(k, r, m) ==
  SD(k, r, m, IF r = 1 THEN <<IpNtor(k)>> ELSE <<IpNtor(k), IpLegacy(k)>>)

\* Service descriptors the encoder refuses: too many intro points (only
\* the self-decode catches it), an expired intro-point certificate, a
\* lifetime over the maximum, no known auth type, no ntor.
Refused ==
  { SD(k1, 3, 30, [i \in 1..(MaxIntroPoints + 1) |-> IpNtor(k1)]),
    SD(k2, 3, 30, <<[IpNtor(k2) EXCEPT !.authCert = AuthCert(k2, 5000)]>>),
    SD(k1, 3, 200, <<IpNtor(k1)>>),
    [Honest(k2, 3, 60) EXCEPT !.authTypes = <<"rsa">>],
    [Honest(k2, 3, 30) EXCEPT !.create2 = FALSE] }

MCServiceDescs ==
  {Honest(k, r, m) : k \in MCKeys, r \in {1, 2}, m \in {30, 60}} \cup Refused

Enc(k, r, m) == Encoded(Honest(k, r, m))

\* The owner's signature over an edited body.
Resign(d, body) == [d EXCEPT !.body = body, !.sig.over = body]

\* Texts derived from published ones without the service's keys: the
\* revision counter raised, the encrypted blob of another revision spliced
\* in, and a descriptor for k1 under a certificate the attacker signed.
Forged ==
  LET sd == [Honest(k1, 2, 30) EXCEPT
               !.rev = 3, !.ips = <<IpNtor(k2)>>,
               !.cert = [SigningCert(k1) EXCEPT !.signer = "evil",
                                                !.signedKey = <<"desc-signing", "evil">>]]
  IN { [Enc(k1, 2, 30) EXCEPT !.body.rev = 3],
       [Enc(k1, 2, 30) EXCEPT !.body.superenc = Enc(k1, 1, 30).body.superenc],
       desc_encode_v3(sd, <<"desc-signing", "evil">>, EncodeTime) }

\* Signed texts that one plaintext check refuses.
Bad ==
  LET d == Enc(k2, 2, 30) IN
  { Resign(d, [d.body EXCEPT !.version = 2]),
    Resign(d, [d.body EXCEPT !.minutes = 181]),
    Resign(d, [d.body EXCEPT !.superenc.len = 48]),
    [d EXCEPT !.len = MaxDescSize] }

MCDescs == Published \cup Forged \cup Bad

\* Minutes values the uint32 multiplication by 60 wraps into range, and 0.
WrapMinutes == (2 ^ 24) \div 60 + 1

MCDescsWrap ==
  MCDescs \cup
    { Resign(Enc(k1, 2, 30), [Enc(k1, 2, 30).body EXCEPT !.minutes = WrapMinutes]),
      Resign(Enc(k2, 1, 30), [Enc(k2, 1, 30).body EXCEPT !.minutes = 0]) }

MCV2Init == {[ts |-> 1000, size |-> 700], [ts |-> 7000, size |-> 500]}

MCTextLen ==
  [plain |-> 560, layer1 |-> 1266, create2 |-> 18, authreq |-> 21,
   authtype |-> 8, single |-> 21, ip |-> 350, ntor |-> 400, legacy |-> 460]
=============================================================================
