-------------------------- MODULE MCConfigStrings ---------------------------
(* A table of eight strings: 1 has a default, 3 is special, case does not count *)
(* from 4 on, 4 has a default in upper case, and 5 to 7 are the models.         *)
EXTENDS ConfigStrings

MCTexts == {"", "a", "A", "b", "long"}
MCLower == [t \in MCTexts |-> IF t = "A" THEN "a" ELSE t]
MCLength == [t \in MCTexts |-> CASE t = "" -> 0 [] t = "long" -> 8 [] OTHER -> 1]
MCBreaks == [t \in MCTexts |-> IF t = "long" THEN {3} ELSE {}]
MCDefault == (1 :> "a") @@ (4 :> "A")
MCPart(t, c) == IF t = "" THEN "" ELSE "part of " \o c

Pair(i, t) == [index |-> i, text |-> t]
MCBatches ==
    { <<Pair(1, "")>>, <<Pair(1, "A"), Pair(2, "a")>>, <<Pair(2, "long")>>,
      <<Pair(1, "a"), Pair(2, ""), Pair(4, "")>>, <<Pair(3, "A")>>, <<Pair(4, "a")>>,
      <<Pair(2, "A"), Pair(4, "long")>> }

MCEntities == {<<1, 4>>}
=============================================================================
