-------------------------- MODULE MCRequestSigning --------------------------
(***************************************************************************)
(* Instances of RequestSigning for TLC: two parameter names and values,    *)
(* queries and bodies that are empty, that carry one parameter, the same   *)
(* one twice, or a name that both of them carry.                           *)
(***************************************************************************)
EXTENDS RequestSigning

MCName  == {"a", "b"}
MCValue == {"1", "2"}

With(as, bs) == [n \in MCName |-> IF n = "a" THEN as ELSE bs]
Empty == With(<<>>, <<>>)
A1    == With(<<"1">>, <<>>)
A12   == With(<<"1", "2">>, <<>>)
A2B1  == With(<<"2">>, <<"1">>)

Bodiless ==
    [verb : {"GET", "DELETE"}, query : {Empty, A1, A12}, data : {Empty},
     given : {"none"}, type : {"none"}, scheme : Schemes,
     method : {"HMAC-SHA1", "PLAINTEXT"}, hash : {TRUE}, keyFile : {FALSE},
     formByDefault : {TRUE}]

\* A POST, PUT or PATCH without a body.
Bare == { [in EXCEPT !.verb = verb, !.formByDefault = default] :
            in \in Bodiless, verb \in {"POST", "PUT", "PATCH"}, default \in BOOLEAN }

Bodied(verbs, queries, bodies, methods, files) ==
    [verb : verbs, query : queries, data : bodies, given : {"hash", "string", "stream"},
     type : Types, scheme : Schemes, method : methods, hash : BOOLEAN,
     keyFile : files, formByDefault : BOOLEAN]

\* Every kind of request.
AllInputs ==
    Bodiless \cup Bare
    \cup Bodied({"POST", "PUT", "PATCH"}, {Empty, A1}, {Empty, A12, A2B1},
                {"HMAC-SHA1", "PLAINTEXT"}, {FALSE})
    \cup Bodied({"POST"}, {Empty, A1}, {A2B1}, {"RSA-SHA1"}, BOOLEAN)

PatchInput ==
    {[verb |-> "PATCH", query |-> Empty, data |-> A1, given |-> "hash", type |-> "none",
      scheme |-> "header", method |-> "HMAC-SHA1", hash |-> TRUE, keyFile |-> FALSE,
      formByDefault |-> TRUE]}
=============================================================================
