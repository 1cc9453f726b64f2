-------------------------- MODULE MCManifestVerdict --------------------------
(* Instances of ManifestPolicy: the uploads an honest app sends (a native   *)
(* capture, a drained one, a wrapped camera's, one drained too often) and   *)
(* everything one or two deviations make of them, of the configuration too. *)
EXTENDS ManifestVerdict, TLC

CONSTANTS U, T, V, C, h1, h2, rr, goog, tsa, foreign, x1

MCLabels == {U, T, V, C}

(* Configurations. *)
realreelEntry == [id |-> "realreel", root |-> rr, present |-> TRUE,
                  profile |-> "realreel", declares |-> FALSE, hosts |-> {}]
pixelEntry == [id |-> "pixel", root |-> goog, present |-> TRUE,
               profile |-> "wrap_parent_only", declares |-> TRUE, hosts |-> {h1}]
proofmodeEntry == [pixelEntry EXCEPT !.id = "proofmode", !.hosts = {h2}]
tsaEntry == [id |-> "tsa", root |-> tsa, present |-> TRUE]
plain == [sources |-> <<realreelEntry, pixelEntry, proofmodeEntry>>, tsas |-> <<tsaEntry>>]
OddYamls ==
  {[plain EXCEPT !.sources[2].present = FALSE],
   [plain EXCEPT !.sources[2].declares = FALSE],
   [plain EXCEPT !.sources[2].profile = "realreel"],
   [plain EXCEPT !.sources[2].id = "sony"],
   [plain EXCEPT !.sources[3].id = "pixel"],
   [plain EXCEPT !.sources[1].declares = TRUE, !.sources[1].hosts = {h1}],
   [plain EXCEPT !.tsas[1].present = FALSE],
   [plain EXCEPT !.tsas[1].id = "realreel"]}

(* Manifests. *)
act(n) == [name |-> n, source |-> "digitalCapture", extent |-> x1, depth |-> 0]
entry(c, b, l) == [code |-> c, bucket |-> b, about |-> l]
matched(l) == entry("hashMatch", "success", l)
parent(l) == [ref |-> l, relationship |-> "parentOf", labelled |-> TRUE,
              report |-> "results", entries |-> {matched(l)}]
signed == [org |-> "Whole Earth Labs", name |-> "device", root |-> rr, actions |-> <<>>,
           timestamp |-> FALSE, ingredients |-> <<>>, broken |-> {},
           responder |-> h2, stapled |-> FALSE]
shot == [signed EXCEPT !.actions = <<act("created")>>]
pixelShot == [shot EXCEPT !.org = "Google", !.name = "Pixel Camera", !.root = goog,
                          !.responder = h1]
stamped(l) == [signed EXCEPT !.actions = <<act("opened")>>, !.timestamp = TRUE,
                             !.ingredients = <<parent(l)>>]
sent(l) == [signed EXCEPT !.actions = <<act("opened"), act("transcoded")>>,
                          !.ingredients = <<parent(l)>>]

carry(ms) == [store |-> [active |-> U, manifests |-> ms], readable |-> TRUE, time |-> 50,
              stamp |-> tsa, issued |-> 40, expires |-> 60]
native == carry(U :> sent(C) @@ C :> shot)
wrapped == carry(U :> sent(C) @@ C :> pixelShot)
drained == carry(U :> sent(T) @@ T :> stamped(C) @@ C :> shot)
drainedTwice ==
  carry(U :> sent(T) @@ T :> stamped(V) @@ V :> stamped(C) @@ C :> shot)

(* What may be different about an ingredient entry, a manifest, an upload.  *)
OddIngredients(g) ==
  {[g EXCEPT !.relationship = "componentOf"], [g EXCEPT !.labelled = FALSE],
   [g EXCEPT !.report = "legacy"], [g EXCEPT !.report = "absent"],
   [g EXCEPT !.entries = {}]} \cup
  {[g EXCEPT !.ref = l] : l \in MCLabels \cup {NoLabel}} \cup
  {[g EXCEPT !.entries = @ \cup {e}] :
     e \in {entry("hashMismatch", "failure", g.ref), entry("untrusted", "failure", g.ref),
            entry("expired", "deltas", g.ref), entry("signature", "informational", g.ref),
            entry("trusted", "success", g.ref), entry("untrusted", "failure", U),
            entry("ocspRevoked", "failure", g.ref),
            entry("ocspUnknown", "informational", g.ref)}}
OddActions == {act("edited"), act("created"), [act("trimmed") EXCEPT !.depth = 1],
               [act("opened") EXCEPT !.source = "trainedAlgorithmicMedia", !.depth = 4],
               [act("opened") EXCEPT !.source = "trainedAlgorithmicMedia", !.depth = 5]}
OddManifests(m) ==
  {[m EXCEPT !.org = "Google"], [m EXCEPT !.org = "Elsewhere"], [m EXCEPT !.org = ""],
   [m EXCEPT !.org = "Google", !.name = "Pixel Camera", !.root = goog],
   [m EXCEPT !.root = tsa], [m EXCEPT !.root = foreign],
   [m EXCEPT !.timestamp = ~@], [m EXCEPT !.ingredients = <<>>],
   [m EXCEPT !.broken = {"expired"}], [m EXCEPT !.broken = {"signature"}],
   [m EXCEPT !.responder = h1], [m EXCEPT !.responder = h2], [m EXCEPT !.stapled = TRUE]} \cup
  {[m EXCEPT !.actions = Append(@, a)] : a \in OddActions} \cup
  {[m EXCEPT !.ingredients = Append(@, parent(l))] : l \in MCLabels} \cup
  (IF Len(m.ingredients) # 1 THEN {}
   ELSE {[m EXCEPT !.ingredients = <<g>>] : g \in OddIngredients(m.ingredients[1])})
OddAt(u, l) ==
  {[u EXCEPT !.store.manifests[l] = m] : m \in OddManifests(u.store.manifests[l])}
OddUploads(u) ==
  {[u EXCEPT !.time = t] : t \in {35, 36, 55, 56, 65, 66, NoTime}} \cup
  {[u EXCEPT !.stamp = NoStamp], [u EXCEPT !.stamp = foreign], [u EXCEPT !.readable = FALSE],
   [u EXCEPT !.issued = NoTime], [u EXCEPT !.store.active = NoLabel]} \cup
  UNION {OddAt(u, l) : l \in DOMAIN u.store.manifests}

(* A manifest nothing references, with an ingredient entry of its own.      *)
Stray(u, g) == [u EXCEPT !.store.manifests = @ @@ V :> [signed EXCEPT !.ingredients = <<g>>]]
Strays(u) == {Stray(u, g) : g \in OddIngredients(parent(C)) \cup {parent(C)}}

(* One deviation of each honest upload, two of a wrap, two of a drained     *)
(* upload's update manifest or of that and its capture, and odd             *)
(* configurations under honest uploads and wraps of a deviating capture;    *)
(* and a stray manifest beside an honest or a deviating upload.             *)
Sent(y, uploads) == {[yaml |-> y, upload |-> u] : u \in uploads}
Honest == {native, wrapped, drained, drainedTwice}
MCBatches ==
  {Sent(plain, OddUploads(u)) : u \in Honest} \cup
  {Sent(plain, OddUploads(u)) : u \in OddUploads(wrapped)} \cup
  {Sent(plain, OddAt(u, T)) : u \in OddAt(drained, T)} \cup
  {Sent(plain, OddAt(u, C)) : u \in OddAt(drained, T)} \cup
  {Sent(plain, Strays(u)) : u \in {native, wrapped, drained} \cup OddAt(wrapped, U)} \cup
  {Sent(y, Honest) : y \in OddYamls} \cup
  {Sent(y, OddAt(wrapped, C)) : y \in OddYamls}
=============================================================================
