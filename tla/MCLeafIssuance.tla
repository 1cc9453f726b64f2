--------------------------- MODULE MCLeafIssuance ---------------------------
(* One isolate, an iOS and an Android registration, and the secrets set     *)
(* right, or one of them wrong, or the intermediate in its last month.      *)
EXTENDS LeafIssuance

CONSTANTS r1, r2, realreelRoot, realreelIca, otherIca, rootKey, icaKey, otherKey,
          phone1, phone2, serial, noExt

Key(k, curve) == [key |-> k, algorithm |-> "ec", curve |-> curve,
                  oidParams |-> TRUE, uncompressed |-> TRUE]
By(k, hash) == [by |-> k, declared |-> "ecdsa", hash |-> hash, shape |-> "der"]

IcaUntil == 20 * 365 * 86400
Ca(subject, spki) ==
  [subject |-> subject, issuer |-> realreelRoot, serial |-> serial,
   from |-> -86400, until |-> IcaUntil, spki |-> spki, ca |-> TRUE,
   signature |-> By(rootKey, "SHA-384"), ski |-> spki.key, ext |-> noExt]

Ica == Ca(realreelIca, Key(icaKey, "P384"))
GoodEnv ==
  [runtime |-> "edge", sa |-> "ok", pem |-> Ica,
   resource |-> [spki |-> Key(icaKey, "P384"), algorithm |-> "EC_SIGN_P384_SHA384"],
   uuid |-> [p \in {"ios", "android"} |-> "uuid"],
   subject |-> [p \in {"ios", "android"} |-> p],
   ocspUrl |-> "ocsp", caIssuersUrl |-> "issuers",
   root |-> Ca(realreelRoot, Key(rootKey, "P384"))]
Envs ==
  {GoodEnv,
   [GoodEnv EXCEPT !.resource = Unset],
   [GoodEnv EXCEPT !.pem = Unreadable],
   [GoodEnv EXCEPT !.pem = Ca(otherIca, Key(otherKey, "P384"))],
   [GoodEnv EXCEPT !.pem.ski = NoSki],
   [GoodEnv EXCEPT !.pem.until = 30 * 86400],
   [GoodEnv EXCEPT !.resource.algorithm = "EC_SIGN_P256_SHA256"],
   [GoodEnv EXCEPT !.uuid["android"] = Unset]}
     \cup {[GoodEnv EXCEPT !.sa = form] : form \in {"unset", "not JSON", "incomplete", "bad key"}}

Ask(platform, phone) ==
  [platform |-> platform, sePublicKey |-> Key(phone, "P256"),
   csr |-> [form |-> "pkcs10", spki |-> Key(phone, "P256"),
            signature |-> By(phone, "SHA-256")]]
GoodAsks == [r \in Requests |-> IF r = r1 THEN Ask("ios", phone1) ELSE Ask("android", phone2)]
(* What may be wrong, or merely unusual, with the first request's CSR.      *)
OddAsks ==
  {[GoodAsks EXCEPT ![r1].csr.form = "not DER"],
   [GoodAsks EXCEPT ![r1].csr.signature.by = NoKey],
   [GoodAsks EXCEPT ![r1].csr.signature.hash = "SHA-384"],
   [GoodAsks EXCEPT ![r1].csr.spki.key = otherKey, ![r1].csr.signature.by = otherKey]}

MCRequests == {r1, r2}
MCCases == {[env |-> e, asks |-> GoodAsks] : e \in Envs}
             \cup {[env |-> GoodEnv, asks |-> a] : a \in OddAsks}
MCSilences == {{}} \cup {{f} : f \in Flow}
MCHeads == {128, 255}
MCNames == {realreelRoot, realreelIca, otherIca}
MCPublicKeys == {rootKey, icaKey, otherKey, phone1, phone2}
MCSerials == {serial}
=============================================================================
