--------------------------- MODULE MCOtherClients ---------------------------
(***************************************************************************)
(* Instances of OtherClients for TLC: two names, in the URL, in what the   *)
(* library appends to it and in the form, once, twice or in several parts. *)
(***************************************************************************)
EXTENDS OtherClients

MCName == {"a", "b"}

With(as, bs) == [n \in MCName |-> IF n = "a" THEN as ELSE bs]
Empty == With(<<>>, <<>>)
A     == With(<<Plain>>, <<>>)
B     == With(<<>>, <<Plain>>)

Forms == { Empty, A, B, With(<<"reserved">>, <<>>), With(<<"blank">>, <<Plain>>),
           With(<<Plain, Plain>>, <<>>) }

AllInputs ==
    { in \in [library : Libraries, verb : Verbs \ {"HEAD"},
              query : {Empty, A, With(<<Plain, "reserved">>, <<>>)},
              extra : {Empty, A, B}, form : Forms] :
        /\ in.library \in {"curb", "rest_client"} => in.extra = Empty
        /\ in.verb \in {"GET", "DELETE"} => in.form = Empty }
=============================================================================
