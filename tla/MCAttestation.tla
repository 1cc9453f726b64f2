---------------------------- MODULE MCAttestation ----------------------------
(* Instances of DeviceAttestation: what an iPhone and three generations of  *)
(* Android phones send, everything one deviation makes of it, every mix of  *)
(* patch ages at the dates where calendars are hard, on both runtimes.      *)
EXTENDS AttestationVerdict, TLC

CONSTANTS ch1, ch2, dOurs, dOther

MCNames == {"AppleRoot", "AppleCA", "Google", "KeyCA", "Batch", "Device", "leaf", "stranger"}
MCKeys == {"kAppleRoot", "kAppleCA", "kGoogle", "kKeyCA", "kBatch", "kDevice",
           "kLeaf", "kOther"}

(* Certificates. *)
ec(key, curve) == [key |-> key, algorithm |-> "ec", curve |-> curve,
                   oidParams |-> TRUE, uncompressed |-> TRUE]
rsa(key) == [ec(key, "other") EXCEPT !.algorithm = "rsa"]
by(key, hash) == [by |-> key, declared |-> "ecdsa", hash |-> hash, shape |-> "der"]
byRsa(key) == [by(key, "SHA-256") EXCEPT !.declared = "rsa"]
NoExt == [v300 |-> NoExtension, legacy |-> NoExtension, nonce |-> NoExtension]
cert(subject, issuer, spki, signature, serial) ==
  [subject |-> subject, issuer |-> issuer, spki |-> spki, signature |-> signature,
   serial |-> serial, from |-> 0, until |-> 99999, ca |-> TRUE, ext |-> NoExt]

appleRoot == cert("AppleRoot", "AppleRoot", ec("kAppleRoot", "P384"),
                  by("kAppleRoot", "SHA-384"), 1)
appleCA == cert("AppleCA", "AppleRoot", ec("kAppleCA", "P384"),
                by("kAppleRoot", "SHA-384"), 2)
google == cert("Google", "Google", rsa("kGoogle"), byRsa("kGoogle"), 3)
oldGoogle == [google EXCEPT !.serial = 4, !.until = 100]
keyCA == cert("KeyCA", "KeyCA", ec("kKeyCA", "P384"), by("kKeyCA", "SHA-384"), 5)
batch == cert("Batch", "Google", ec("kBatch", "P384"), byRsa("kGoogle"), 6)
rkpBatch == [batch EXCEPT !.issuer = "KeyCA", !.signature = by("kKeyCA", "SHA-384")]
device == cert("Device", "Batch", ec("kDevice", "P256"), by("kBatch", "SHA-256"), 7)
MCAppleRoots == {appleRoot}
MCGoogleRoots == {google, keyCA}

leafOf(issuer, key, hash, ext) ==
  [cert("leaf", issuer, ec("kLeaf", "P256"), by(key, hash), 8) EXCEPT
     !.ext = ext, !.ca = FALSE]

-----------------------------------------------------------------------------
(* Servers. *)
plain == [corrupt |-> {}, suffixed |-> FALSE, optIn |-> FALSE, local |-> FALSE,
          runtime |-> "edge", revoked |-> {}, digests |-> {dOurs}, floor |-> Missing]
local == [plain EXCEPT !.optIn = TRUE, !.local = TRUE]
Servers == {plain, local, [plain EXCEPT !.runtime = "cli"], [plain EXCEPT !.local = TRUE],
            [plain EXCEPT !.corrupt = {3}], [plain EXCEPT !.suffixed = TRUE],
            [plain EXCEPT !.optIn = TRUE]}

(* iPhones. *)
auth == [rp |-> "app", counter |-> 0, aaguid |-> "production", credential |-> "kLeaf",
         attested |-> TRUE, truncated |-> FALSE]
nonce(a, c, k) == [outer |-> "sequence", tagged |-> TRUE, inner |-> "octets32",
                  over |-> <<a, c, k>>]
iphone(a) ==
  [platform |-> "ios", form |-> "ok", now |-> 20468, auth |-> a, challenge |-> ch1,
   seKey |-> "kOther", keyId |-> "kLeaf",
   chain |-> <<leafOf("AppleCA", "kAppleCA", "SHA-256",
                      [NoExt EXCEPT !.nonce = nonce(a, ch1, "kOther")]), appleCA>>]
OddAuths == {auth, [auth EXCEPT !.rp = "app.dev"], [auth EXCEPT !.counter = 1],
             [auth EXCEPT !.aaguid = "development"], [auth EXCEPT !.aaguid = "other"],
             [auth EXCEPT !.rp = "app.dev", !.aaguid = "development"],
             [auth EXCEPT !.credential = "kOther"], [auth EXCEPT !.attested = FALSE],
             [auth EXCEPT !.truncated = TRUE]}
iphones == {iphone(a) : a \in OddAuths}
OddNonces(p) ==
  {[p EXCEPT !.chain[1].ext.nonce = n] :
     n \in {NoExtension, [nonce(p.auth, ch1, "kOther") EXCEPT !.outer = "other"],
            [nonce(p.auth, ch1, "kOther") EXCEPT !.tagged = FALSE],
            [nonce(p.auth, ch1, "kOther") EXCEPT !.inner = "other"],
            nonce(p.auth, ch2, "kOther"), nonce(p.auth, ch1, "kLeaf"),
            nonce([p.auth EXCEPT !.counter = 7], ch1, "kOther")}}
  \cup {[p EXCEPT !.keyId = "kOther"], [p EXCEPT !.challenge = ch2],
        [p EXCEPT !.seKey = "kLeaf"]}

-----------------------------------------------------------------------------
(* Android phones: a patch level `k` months or days before `now`.           *)
tag(value) == [form |-> "explicit", value |-> value]
Month(now, k) ==
  LET m == Ymd(now) \div 100
      p == <<m, MonthBefore(m), MonthBefore(MonthBefore(m)),
             MonthBefore(MonthBefore(MonthBefore(m))),
             MonthBefore(MonthBefore(MonthBefore(MonthBefore(m))))>>
  IN  IF k = -2 THEN MonthAfter(MonthAfter(m)) ELSE IF k = -1 THEN MonthAfter(m) ELSE p[k + 1]
OsAges == {-2, -1, 0, 3, 4}
DayAges == {-32, -31, 0, 90, 91}

app == [form |-> "ok", packages |-> {[name |-> "app", version |-> 5]}, digests |-> {dOurs}]
noApp == [form |-> "absent", packages |-> {}, digests |-> {}]
rootOfTrust == [form |-> "ok", locked |-> TRUE, state |-> 0]
enforced(os, vendor, boot) ==
  [appId |-> noApp, rootOfTrust |-> rootOfTrust,
   tags |-> [purpose |-> tag({2, 3}), algorithm |-> tag(3), keySize |-> tag(256),
             digest |-> tag({4}), ecCurve |-> tag(1), origin |-> tag(0),
             osPatch |-> tag(os), vendorPatch |-> tag(vendor), bootPatch |-> tag(boot)]]
record(now, os, vendor, boot) ==
  LET list == enforced(Month(now, os), Ymd(now - vendor), Ymd(now - boot))
  IN  [readable |-> TRUE, challenge |-> ch1, attestationLevel |-> 1, keymasterLevel |-> 1,
       software |-> [list EXCEPT !.appId = app], hardware |-> list]
phone(now, r) ==
  [platform |-> "android-tee", form |-> "ok", now |-> now, auth |-> auth,
   challenge |-> ch1, seKey |-> "kLeaf", keyId |-> "kLeaf",
   chain |-> <<leafOf("Device", "kDevice", "SHA-256", [NoExt EXCEPT !.legacy = r]),
               device, batch>>]
usual == phone(20468, record(20468, 0, 30, 30))
strongbox == [usual EXCEPT !.platform = "android-strongbox",
                           !.chain[1].ext.legacy.attestationLevel = 2,
                           !.chain[1].ext.legacy.keymasterLevel = 2]

(* Chains: the root's copy on top, current or superseded, a newer           *)
(* hierarchy, and chains that do not hold.                                  *)
OddChains(p) ==
  LET c == p.chain
      n == Len(c)
      last == c[n]
  IN  {[p EXCEPT !.chain = d] :
         d \in {Append(c, google), Append(c, oldGoogle), Append(c, keyCA),
                Append(c, appleRoot), SubSeq(c, 1, n - 1), <<c[1]>>,
                <<c[1]>> \o Reverse(Tail(c)), Append(Append(c, batch), oldGoogle),
                [c EXCEPT ![n].issuer = "KeyCA", ![n].signature = by("kKeyCA", "SHA-384")],
                [c EXCEPT ![1].signature.by = NoKey], [c EXCEPT ![2].signature.by = NoKey],
                Append([c EXCEPT ![1].signature.by = NoKey], google),
                Append([c EXCEPT ![1].signature.by = "kOther"], oldGoogle),
                [c EXCEPT ![2].signature.hash = "SHA-1"],
                [c EXCEPT ![2].ca = FALSE], [c EXCEPT ![n].until = 100],
                [c EXCEPT ![1].from = 99999], [c EXCEPT ![1].signature.hash = "SHA-1"],
                [c EXCEPT ![1].signature.hash = "SHA-512"],
                [c EXCEPT ![1].signature.shape = "ber"],
                [c EXCEPT ![1].signature.shape = "malformed"],
                [c EXCEPT ![2].signature.shape = "malformed"],
                [c EXCEPT ![1].signature.declared = "rsaPss"],
                [c EXCEPT ![2].spki.oidParams = FALSE],
                [c EXCEPT ![2].spki.uncompressed = FALSE],
                [c EXCEPT ![2].spki.algorithm = "rsaPss"],
                [c EXCEPT ![2].spki.curve = "other"],
                [c EXCEPT ![1].issuer = "stranger"]}}
      \cup {[p EXCEPT !.form = f] : f \in {"unreadable", "badCert"}}

(* Records, the software list still saying what the hardware list no longer *)
(* does.                                                                    *)
OddRecords(p) ==
  LET ext == p.chain[1].ext
      r == ext.legacy
      With(x) == [p EXCEPT !.chain[1].ext.legacy = x]
  IN  {With(x) : x \in {NoExtension, [r EXCEPT !.readable = FALSE],
                        [r EXCEPT !.challenge = ch2]}}
      \cup {With([r EXCEPT !.attestationLevel = a, !.keymasterLevel = k]) :
              a \in 0..3, k \in 0..3}
      \cup {[p EXCEPT !.chain[1].ext.v300 = r],
            [p EXCEPT !.chain[1].ext.v300 = [r EXCEPT !.challenge = ch2]],
            [p EXCEPT !.seKey = "kOther"]}
      \cup {With([r EXCEPT !.hardware.tags[t].form = f]) :
              t \in DOMAIN r.hardware.tags,
              f \in {"absent", "malformed", "implicit", "enumerated"}}
      \cup {With([r EXCEPT !.hardware.tags[t].value = 2]) :
              t \in {"algorithm", "keySize", "ecCurve", "origin"}}
      \cup {With([r EXCEPT !.hardware.tags[t].value = {3}]) : t \in {"purpose", "digest"}}
      \cup {With([r EXCEPT !.hardware.rootOfTrust = x]) :
              x \in {[rootOfTrust EXCEPT !.form = "absent"],
                     [rootOfTrust EXCEPT !.locked = FALSE], [rootOfTrust EXCEPT !.state = 1]}}
      \cup {With([r EXCEPT !.software.appId = a, !.hardware.appId = b]) :
              a \in {app, noApp, [app EXCEPT !.packages = {}],
                     [app EXCEPT !.digests = {dOther}]}, b \in {app, noApp}}

(* Month in the day levels, day in the system's.                            *)
OddForms(p) ==
  LET tags == p.chain[1].ext.legacy.hardware.tags
  IN  {[p EXCEPT !.chain[1].ext.legacy.hardware.tags = t] :
         t \in {[tags EXCEPT !.osPatch.value = @ * 100 + 5],
                [tags EXCEPT !.vendorPatch.value = @ \div 100],
                [tags EXCEPT !.bootPatch.value = 7]}}

(* Every mix of ages, alone and with one other row failing.                 *)
PatchAges(now) ==
  LET mixes == {phone(now, record(now, os, vendor, boot)) :
                  os \in OsAges, vendor \in DayAges, boot \in DayAges}
  IN  mixes \cup
      {[p EXCEPT !.chain[1].ext.legacy.hardware.rootOfTrust.locked = FALSE] : p \in mixes}

On(servers, requests) == {[server |-> s, sent |-> q] : s \in servers, q \in requests}
Floors == {[plain EXCEPT !.floor = f] : f \in {5, 6}}
MCBatches ==
  {On(Servers, iphones), On(Servers, {usual, strongbox}),
   On({plain, local}, OddNonces(iphone(auth))),
   On({plain, [plain EXCEPT !.runtime = "cli"]},
      UNION {OddChains(p) : p \in {usual, strongbox, iphone(auth)}}
        \cup {[iphone(auth) EXCEPT !.form = "other"]}),
   On({plain}, OddRecords(usual) \cup OddRecords(strongbox)),
   On(Floors \cup {[plain EXCEPT !.revoked = {n}] : n \in {3, 7, 8}},
      {usual, [usual EXCEPT !.chain = Append(@, google)]})}
  \cup {On({plain}, PatchAges(now) \cup OddForms(phone(now, record(now, 0, 30, 30)))) :
          now \in {20468, 20543, 19782, 20088, 20666}}
=============================================================================
