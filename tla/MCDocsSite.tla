----------------------------- MODULE MCDocsSite -----------------------------
(***************************************************************************)
(* An instance of DocsSite for TLC: an entry with one below it, and a page *)
(* that is not in the list, as the README is not.                          *)
(***************************************************************************)
EXTENDS DocsSite

MCPages   == {"OAuth", "Consumer", "README"}
MCEntries == [page : {"README"}, hash : {NoHash}]
MCOrder   == <<"OAuth", "Consumer">>
MCAbove   == [p \in {"OAuth", "Consumer"} |-> IF p = "Consumer" THEN {"OAuth"} ELSE {}]
MCFolded  == {"Consumer"}
MCHits    == [q \in {"o", "co"} |-> IF q = "co" THEN {"Consumer"} ELSE {"OAuth", "Consumer"}]
=============================================================================
