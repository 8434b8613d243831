---------------------------- MODULE Dictionaries ----------------------------
(***************************************************************************)
(* The operators of the standard module TLC on functions, for dictionaries *)
(* and tables, and what they return.  Those of TLC itself have no          *)
(* definition that a proof could use.                                      *)
(***************************************************************************)
LOCAL Standard == INSTANCE TLC

ToString(value) == Standard!ToString(value)

\* The dictionary of one key; the entries of f, and those of g besides.
key :> value == [k \in {key} |-> value]
f @@ g == [k \in DOMAIN f \cup DOMAIN g |-> IF k \in DOMAIN f THEN f[k] ELSE g[k]]

\* A dictionary of one key.
LEMMA OfOne ==
  ASSUME NEW key, NEW value
  PROVE  DOMAIN (key :> value) = {key} /\ (key :> value)[key] = value
BY DEF :>

\* Two dictionaries in one: the first takes precedence.
LEMMA OfBoth ==
  ASSUME NEW f, NEW g
  PROVE  /\ DOMAIN (f @@ g) = DOMAIN f \cup DOMAIN g
         /\ \A k \in DOMAIN f : (f @@ g)[k] = f[k]
         /\ \A k \in DOMAIN g \ DOMAIN f : (f @@ g)[k] = g[k]
BY DEF @@

\* One entry, before the others.
LEMMA Put ==
  ASSUME NEW key, NEW value, NEW f
  PROVE  /\ DOMAIN ((key :> value) @@ f) = {key} \cup DOMAIN f
         /\ ((key :> value) @@ f)[key] = value
         /\ \A k \in DOMAIN f : k # key => ((key :> value) @@ f)[k] = f[k]
BY DEF @@, :>

\* One entry, after the others.
LEMMA AddedKey ==
  ASSUME NEW key, NEW value, NEW f
  PROVE  DOMAIN (f @@ (key :> value)) = DOMAIN f \cup {key}
BY DEF @@, :>
=============================================================================
