---------------------------- MODULE MCImportScope ----------------------------
(* ImportScope for TLC: two sites in use, the discovery and reports of the    *)
(* second read as the first's, and a sub-task of the first.                   *)
EXTENDS ImportScope, TLC

SubTask    == {<<"dc-eu-sub", "dc-eu">>}
Hyphenated == [e \in Env |-> IF e = "dc_eu" THEN "dc-eu" ELSE e]
Nobodys    == [e \in Env |-> None]
ReadNames  == [r \in Root |-> IF r = "fortiadc" THEN Nobodys ELSE Hyphenated]
AnyContent == Permutations(Content)
=============================================================================
