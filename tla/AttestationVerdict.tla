------------------------- MODULE AttestationVerdict -------------------------
(***************************************************************************)
(* What the verdict on an attestation promises, stated without the gates:  *)
(* from the certificates, the keys that signed them, and the calendar.     *)
(***************************************************************************)
EXTENDS DeviceAttestation

(* A signature anyone could verify, on whatever runtime.                    *)
RealSignature(spki, signature) ==
  /\ signature.by = spki.key
  /\ signature.hash # "SHA-224" /\ (signature.hash = "SHA-1" => spki.algorithm = "rsa")
  /\ \/ spki.algorithm = "rsa" /\ signature.declared = "rsa"
     \/ /\ spki.algorithm = "ec" /\ signature.declared = "ecdsa"
        /\ spki.curve # "other" /\ spki.oidParams /\ spki.uncompressed
        /\ signature.shape # "malformed"
Vouches(issuer, cert) ==
  cert.issuer = issuer.subject /\ RealSignature(issuer.spki, cert.signature)
InDate(cert) == cert.from <= sent.now /\ sent.now <= cert.until

Roots == IF IsApple THEN AppleRoots ELSE GoogleRoots

(* A way from the leaf up to a pinned root, a real signature at every link. *)
Anchors(way, root) ==
  /\ InDate(sent.chain[way[1]]) /\ InDate(root)
  /\ \A i \in 2..Len(way) : /\ Vouches(sent.chain[way[i]], sent.chain[way[i - 1]])
                            /\ InDate(sent.chain[way[i]]) /\ sent.chain[way[i]].ca
  /\ Vouches(root, sent.chain[way[Len(way)]]) /\ root.ca
Anchored ==
  \E n \in DOMAIN sent.chain : \E way \in [1..n -> DOMAIN sent.chain] : \E root \in Roots :
    way[1] = 1 /\ Anchors(way, root)

(* The chain as devices send it: each certificate issued by the next, the   *)
(* last by a pinned root or itself a copy of one, of whatever date; and     *)
(* none but in-date CAs vouching for any of them, so that whichever way up  *)
(* is tried is a good one.                                                  *)
CopyOf(cert, root) == cert.subject = root.subject /\ cert.spki = root.spki
StraightUp ==
  \E n \in {Len(sent.chain), Len(sent.chain) - 1} : \E root \in Roots :
    /\ n > 0
    /\ n < Len(sent.chain) => /\ CopyOf(Last(sent.chain), root)
                              /\ Last(sent.chain).issuer = root.subject
    /\ n = Len(sent.chain) => Last(sent.chain).issuer # Last(sent.chain).subject
    /\ Anchors([i \in 1..n |-> i], root)
    /\ \A i \in 1..n : \A c \in {sent.chain[j] : j \in 1..n} \cup Roots :
         Vouches(c, sent.chain[i]) => InDate(c) /\ c.ca

-----------------------------------------------------------------------------
Deployed == server.corrupt = {} /\ ~server.suffixed /\ (server.optIn => server.local)
App == IF server.optIn THEN "app.dev" ELSE "app"

(* The Apple statement, made for this key, this challenge, this app.        *)
AppleGenuine ==
  LET ext == Head(sent.chain).ext.nonce
      a == sent.auth
  IN  /\ sent.form = "ok" /\ ~a.truncated /\ a.attested
      /\ ext # NoExtension
      /\ <<ext.outer, ext.tagged, ext.inner>> = <<"sequence", TRUE, "octets32">>
      /\ ext.over = <<a, sent.challenge, sent.seKey>>
      /\ sent.keyId = Head(sent.chain).spki.key /\ a.credential = sent.keyId
      /\ a.rp = App /\ a.counter = 0
      /\ a.aaguid = "production" \/ (server.optIn /\ a.aaguid = "development")

(* The record of an Android key, read as the policy's table reads it: from  *)
(* the list the secure hardware enforces; `renewed` patch levels are today's. *)
Record ==
  LET ext == Head(sent.chain).ext
  IN  IF ext.v300 # NoExtension THEN ext.v300 ELSE ext.legacy
Has(tag) == Record.hardware.tags[tag].form \notin {"absent", "malformed"}
Value(tag) == Record.hardware.tags[tag].value
KeyIsHardwareMade ==
  /\ \A tag \in {"purpose", "algorithm", "keySize", "digest", "ecCurve", "origin"} : Has(tag)
  /\ 2 \in Value("purpose") /\ 4 \in Value("digest")
  /\ <<Value("algorithm"), Value("keySize"), Value("ecCurve"), Value("origin")>>
       = <<3, 256, 1, 0>>
  /\ Record.hardware.rootOfTrust.form = "ok"
  /\ Record.hardware.rootOfTrust.locked /\ Record.hardware.rootOfTrust.state = 0
AppIsOurs ==
  LET id == IF Record.software.appId.form = "ok" THEN Record.software.appId
            ELSE Record.hardware.appId
      ours == {p \in id.packages : p.name = App}
  IN  /\ id.form = "ok" /\ ours # {} /\ \E d \in id.digests : d \in server.digests
      /\ server.floor # Missing => \E p \in ours : p.version >= server.floor

(* The calendar: months and days stepped one at a time.                     *)
Ymd(day) == Civil(day).year * 10000 + Civil(day).month * 100 + Civil(day).day
MonthBefore(m) == IF m % 100 = 1 THEN m - 89 ELSE m - 1
MonthAfter(m) == IF m % 100 = 12 THEN m + 89 ELSE m + 1
ThisMonth == Civil(sent.now).year * 100 + Civil(sent.now).month
IsMonth(v) == 200001 <= v /\ v <= 210012
IsDay(v) == 20000101 <= v /\ v <= 21001231
Patches == {"os", "vendor", "boot"}
PatchTag == [os |-> "osPatch", vendor |-> "vendorPatch", boot |-> "bootPatch"]
(* What a patch level says, given as a month or as a day.                   *)
Level(p) ==
  LET v == Value(PatchTag[p])
      readable == IF p = "os" THEN {"explicit", "implicit"}
                  ELSE {"explicit", "implicit", "enumerated"}
  IN  IF Record.hardware.tags[PatchTag[p]].form \notin readable THEN Missing
      ELSE IF p = "os"
      THEN IF IsMonth(v) THEN v ELSE IF IsMonth(v \div 100) THEN v \div 100 ELSE Missing
      ELSE IF IsMonth(v) THEN v * 100 + 1 ELSE IF IsDay(v) THEN v ELSE Missing
Oldest(p) ==
  IF p = "os" THEN MonthBefore(MonthBefore(MonthBefore(ThisMonth))) ELSE Ymd(sent.now - 90)
Newest(p) == IF p = "os" THEN MonthAfter(ThisMonth) ELSE Ymd(sent.now + 31)
Current(p) == Level(p) # Missing /\ Oldest(p) <= Level(p) /\ Level(p) <= Newest(p)
Outdated(p) == Level(p) # Missing /\ Level(p) < Oldest(p)

AndroidGenuine(renewed) ==
  /\ sent.form = "ok" /\ Record # NoExtension /\ Record.readable
  /\ \A c \in Range(sent.chain) : c.serial \notin server.revoked
  /\ Record.challenge = sent.challenge /\ Head(sent.chain).spki.key = sent.seKey
  /\ Record.attestationLevel \in {1, 2} /\ Record.keymasterLevel # 0
  /\ sent.platform = "android-strongbox" =>
       {Record.attestationLevel, Record.keymasterLevel} = {2}
  /\ KeyIsHardwareMade /\ AppIsOurs
  /\ \A p \in Patches : p \in renewed \/ Current(p)

Genuine(renewed) ==
  /\ Deployed
  /\ IF IsApple THEN AppleGenuine ELSE AndroidGenuine(renewed)

-----------------------------------------------------------------------------
(* A key enrolls only if a pinned root vouches for its certificate through  *)
(* an unbroken line of in-date CA certificates, and what that certificate   *)
(* says was said for this request: this key, this challenge, this app, by   *)
(* the hardware and not by the operating system (verifyChainToTrustedRoots  *)
(* reversing the chain and dropping its top, the gates of apple.ts and      *)
(* android.ts).                                                             *)
AcceptedIsGenuine ==
  verdict = "ok" => Len(sent.chain) > 1 /\ Anchored /\ Genuine({})

(* No honest device is turned away: a genuine statement under the chain as  *)
(* devices present it, with a copy of an older issue of the root on top or  *)
(* without, hash matching the curve or not, is accepted on either runtime,  *)
(* at every date (the fallback engine, the dropped top, the patch windows   *)
(* across a year's end).                                                    *)
GenuineIsNotRefused ==
  gate = "done" /\ Deployed /\ Len(sent.chain) > 1 /\ StraightUp /\ Genuine({})
    => verdict = "ok"

(* "Update your device" is said exactly when that would help: everything    *)
(* else about the statement holds and newer patches would make it pass; it  *)
(* sends the user to the maker alone only when the system's own level needs *)
(* no update, and then names the oldest level that does                     *)
(* (enforceAl2Evidence, stalePatchDetail).                                  *)
StaleMeansUpdatable ==
  LET stale == {p \in Patches : Outdated(p)}
      helps == ~IsApple /\ Len(sent.chain) > 1 /\ ~Genuine({}) /\ Genuine(stale)
  IN  gate = "done" =>
        /\ verdict = "ATTESTATION_STALE_PATCH" => helps /\ Anchored
        /\ helps /\ StraightUp => verdict = "ATTESTATION_STALE_PATCH"
        /\ verdict = "ATTESTATION_STALE_PATCH" =>
             /\ detail.kind = "firmware" <=> Current("os")
             /\ \E p \in stale : /\ detail.level = Level(p)
                                 /\ detail.kind = "os" <=> p = "os"
                                 /\ \A q \in stale \ {"os"} : p # "os" => Level(p) <= Level(q)

-----------------------------------------------------------------------------
(* The inductive invariant: what each gate that was passed established, and *)
(* what the last one made of it.                                            *)
Booted == FingerprintsHold /\ ~server.suffixed /\ (server.optIn => server.local)
Decoded == sent.form = "ok" /\ Len(sent.chain) > 1
ChainAnswers == VerifyChainToTrustedRoots(server.runtime, sent.chain, Roots, sent.now)

NonceHolds ==
  LET ext == keyCert.ext.nonce
  IN  HoldsNonce(ext) /\ ext.over = <<sent.auth, sent.challenge, sent.seKey>>
KeyIdHolds == sent.keyId = keyCert.spki.key
AuthReads == ~sent.auth.truncated /\ sent.auth.attested
AuthHolds ==
  /\ sent.auth.rp = AppIdentity /\ sent.auth.counter = 0
  /\ sent.auth.aaguid \in Environments /\ sent.auth.credential = sent.keyId
AppleStands == NonceHolds /\ KeyIdHolds /\ AuthReads /\ AuthHolds

Unrevoked == \A c \in Range(sent.chain) : c.serial \notin server.revoked
Described == description # NoExtension /\ description.readable
ChallengeHolds == description.challenge = sent.challenge
LevelsStand ==
  /\ description.attestationLevel \in {1, 2} /\ description.keymasterLevel # 0
  /\ sent.platform = "android-strongbox" =>
       description.attestationLevel = 2 /\ description.keymasterLevel = 2
KeyHolds == keyCert.spki.key = sent.seKey
PackageHolds == AppIdentity \in {p.name : p \in appId.packages}
AndroidStands ==
  Unrevoked /\ Described /\ ChallengeHolds /\ LevelsStand /\ KeyHolds /\ PackageHolds

AppleGates == {"nonce", "keyId", "authData", "authFields"}
AndroidGates == {"revoked", "describe", "challenge", "levels", "key", "package", "evidence"}
Stands ==
  /\ Booted /\ Decoded /\ TRUE \in ChainAnswers
  /\ IF IsApple THEN AppleStands ELSE AndroidStands
Fails ==
  \/ ~Booted \/ ~Decoded \/ FALSE \in ChainAnswers
  \/ IsApple /\ ~AppleStands
  \/ ~IsApple /\ (~AndroidStands \/ RowsThatFail # {} \/ UnfitPatches # StalePatches)
Judged ==
  \/ verdict = "ok" /\ Stands /\ (IsApple \/ RowsThatFail \cup UnfitPatches = {})
  \/ /\ verdict = "ATTESTATION_STALE_PATCH" /\ Stands /\ ~IsApple
     /\ RowsThatFail = {} /\ UnfitPatches = StalePatches /\ UnfitPatches # {}
     /\ detail = StalePatchDetail
  \/ verdict \notin {"ok", "ATTESTATION_STALE_PATCH"} /\ Fails

AppleInv ==
  /\ gate \in {"keyId", "authData", "authFields"} => NonceHolds
  /\ gate \in {"authData", "authFields"} => KeyIdHolds
  /\ gate = "authFields" => AuthReads
AndroidInv ==
  /\ gate \in AndroidGates \ {"revoked"} => Unrevoked
  /\ gate \in {"challenge", "levels", "key", "package", "evidence"} => Described
  /\ gate \in {"levels", "key", "package", "evidence"} => ChallengeHolds
  /\ gate \in {"key", "package", "evidence"} => LevelsStand
  /\ gate \in {"package", "evidence"} => KeyHolds
  /\ gate = "evidence" => PackageHolds
AttestationInv ==
  /\ IsServer(server) /\ IsAttestation(sent)
  /\ gate \in {"boot", "decode", "chain", "done"} \cup (IF IsApple THEN AppleGates ELSE AndroidGates)
  /\ gate # "done" => verdict = "none"
  /\ gate \notin {"boot", "done"} => Booted
  /\ gate \notin {"boot", "decode", "done"} => Decoded
  /\ gate \in AppleGates \cup AndroidGates => TRUE \in ChainAnswers
  /\ AppleInv /\ AndroidInv
  /\ gate = "done" => Judged
=============================================================================
