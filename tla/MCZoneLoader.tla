---------------------------- MODULE MCZoneLoader -----------------------------
(* A game that starts with code_post_gfx and a common zone, then loads maps,    *)
(* mods and post-load zones over them.                                          *)
EXTENDS ZoneLoader

MCMaps == {"m", "n"}
MCMods == {{<<"mod_ex">>, <<"localized_mod">>}}
CodePostGfx == Call(<<Info(<<"code_post_gfx">>, "CODE_POST_GFX", {})>>, TRUE)
Common == Call(<<Info(<<"common">>, "COMMON", {"COMMON", "MOD"}),
                 Info(<<"ui">>, "UI", {"UI", "MAP_PATCH", "LOCALIZED"})>>, FALSE)
PostLoad == Call(<<Info(<<"post">>, "POST_LOAD", {"POST_LOAD", "UI"})>>, FALSE)
MCEngineCalls == {Common, PostLoad}
MCOptional == {<<k, m>> : k \in {"localized", "localized_xl", "patch_ex"}, m \in MCMaps}
                  \cup {<<"localized_mod">>}
OneOptional == {<<"patch_ex", "m">>, <<"localized_xl", "m">>}
MCEndOf == [f \in Files |-> IF f[1] \in {"map", "common"} THEN 0 ELSE 1]
MCRequests == {[size |-> 1, alignment |-> 1]}
=============================================================================
