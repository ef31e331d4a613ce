----------------------------- MODULE MCResolver -----------------------------
EXTENDS Resolver
CONSTANTS main, other
MCGreenlet == {main, other}
MCWanted(g, n) ==
  CASE g = main /\ n = 1 -> {NewLookup("addr", "y", "inner")}
    [] g = other /\ n = 1 -> {NewLookup("inet", "x", "plain"), NewLookup("unspec", "x", "trailing")}
    [] g = other /\ n = 2 -> {NewLookup("addr", "z", "inner")}
    [] OTHER -> {}
MCDelay(round) == IF round = 0 THEN {1} ELSE {2}
=============================================================================
