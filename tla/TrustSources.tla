---------------------------- MODULE TrustSources -----------------------------
(***************************************************************************)
(* Who may sign what: the curated issuers of trust-core, trust-sources.yaml *)
(* as the verifier loads it at boot (trust/loader.ts), and the resolution   *)
(* of a signature's identity to a source (trust/dispatcher.ts).  One pool   *)
(* of roots serves signing and time-stamp certificates alike.               *)
(***************************************************************************)
EXTENDS Naturals, Sequences

CONSTANTS Hosts,    \* OCSP responders' host patterns
          Roots     \* root certificates: cameras' and time-stamp authorities'

Profile == {"realreel", "wrap_parent_only"}

(* A leaf's organization must equal `org`; with a pin, its common name must *)
(* be one of it.                                                            *)
TrustedIssuers ==
  << [id |-> "realreel",  org |-> "Whole Earth Labs", pin |-> {}],
     [id |-> "pixel",     org |-> "Google", pin |-> {"Pixel Camera"}],
     [id |-> "proofmode", org |-> "Proofmode Reality Systems",
      pin |-> {"Proofmode for iOS", "Proofmode for Android"}] >>

IssuerIds == {TrustedIssuers[i].id : i \in DOMAIN TrustedIssuers}
MatchesCommonName(entry, name) == entry.pin = {} \/ name \in entry.pin

(* trust-sources.yaml: `present` says whether the PEM it names is on disk.  *)
SourceEntry == [id : STRING, root : Roots, present : BOOLEAN, profile : STRING,
                declares : BOOLEAN, hosts : SUBSET Hosts]
TsaEntry == [id : STRING, root : Roots, present : BOOLEAN]
Yaml == [sources : Seq(SourceEntry), tsas : Seq(TsaEntry)]

RevocationMalformed(entry) == entry.profile = "realreel" \/ entry.hosts = {}

SourceRefused(entry) ==
  \/ entry.id \notin IssuerIds
  \/ entry.profile \notin Profile
  \/ entry.declares /\ RevocationMalformed(entry)

Present(entries) == {i \in DOMAIN entries : entries[i].present}

(* An id names one entry of the sources and the time-stamp roots together.  *)
DuplicateId(yaml) ==
  LET ids(entries) == {entries[i].id : i \in Present(entries)}
      twice(entries) == \E i, j \in Present(entries) :
                          i # j /\ entries[i].id = entries[j].id
  IN  \/ twice(yaml.sources) \/ twice(yaml.tsas)
      \/ ids(yaml.sources) \cap ids(yaml.tsas) # {}

(* loadTrustConfig throws, and the server does not start. *)
LoadRefused(yaml) ==
  \/ \E i \in DOMAIN yaml.sources : SourceRefused(yaml.sources[i])
  \/ Present(yaml.sources) = {}
  \/ DuplicateId(yaml)

(* What it returns otherwise. *)
LoadTrust(yaml) ==
  LET sources == {yaml.sources[i] : i \in Present(yaml.sources)}
      tsas == {yaml.tsas[i] : i \in Present(yaml.tsas)}
  IN  [sources |-> sources,
       pool    |-> {e.root : e \in sources} \cup {e.root : e \in tsas},
       loaded  |-> {e.id : e \in sources},
       hosts   |-> UNION {e.hosts : e \in {d \in sources : d.declares}}]

NoSource == [id |-> "none", profile |-> "none", declares |-> FALSE, hosts |-> {}]

IdentifyTrustSource(org, name, trust) ==
  LET hits == {i \in DOMAIN TrustedIssuers :
                 /\ TrustedIssuers[i].id \in trust.loaded
                 /\ TrustedIssuers[i].org = org
                 /\ MatchesCommonName(TrustedIssuers[i], name)}
  IN  IF hits = {} THEN "none"
      ELSE TrustedIssuers[CHOOSE i \in hits : \A j \in hits : i <= j].id

(* makeTrustSourceResolver: the identity joined to its source's role. *)
ResolveTrustSource(org, name, trust) ==
  LET id == IdentifyTrustSource(org, name, trust)
  IN  IF id = "none" THEN NoSource
      ELSE LET e == CHOOSE e \in trust.sources : e.id = id
           IN  [id |-> id, profile |-> e.profile, declares |-> e.declares,
                hosts |-> IF e.declares THEN e.hosts ELSE {}]
=============================================================================
