--------------------------- MODULE MCAssetRegistry ---------------------------
(* Zone 1 is the permanent one (code_post_gfx) and holds the default asset d. *)
(* Zone 2 is a map, which brings its own d and names b; zone 3 its patch, of  *)
(* the same priority, with a d of its own; zone 4 a mod above both, which has *)
(* yet another d and defines the b the map only names.                        *)
EXTENDS AssetRegistry

MCZones == 1..4
MCPriority == <<0, 1, 1, 2>>
MCContent == <<{"d"}, {"d"}, {"d", "a"}, {"d", "b"}>>
MCSoftRefs == <<{}, {"b"}, {}, {}>>
MCPermanent == {1}
=============================================================================
