------------------------------ MODULE MCDance ------------------------------
(***************************************************************************)
(* Instances of Dance for TLC.  Two sessions share one hash, or have their *)
(* own for request tokens and share one for access tokens.                 *)
(***************************************************************************)
EXTENDS Dance

Plain == [callback |-> None, exclude |-> FALSE, nonce |-> FALSE]
Hash1 == { Plain, [Plain EXCEPT !.callback = Own], [Plain EXCEPT !.exclude = TRUE],
           [Plain EXCEPT !.nonce = TRUE] }

OneForAll == [u \in Sessions \X Calls |-> "h1"]
ByCall    == [u \in Sessions \X Calls |-> IF u[2] = "request" THEN "h1" ELSE "h2"]

With(one, uses, get) ==
    [hash |-> [h \in Hashes |-> IF h = "h1" THEN one ELSE Plain], uses |-> uses, get |-> get]

MCStores == {<<>>, <<"s1">>}

MCSetups == { With(one, ByCall, FALSE) : one \in Hash1 }
            \cup { With(Plain, OneForAll, TRUE) }
            \cup { With([Plain EXCEPT !.nonce = TRUE], OneForAll, TRUE) }
=============================================================================
