---------------------------- MODULE Verification ----------------------------
(***************************************************************************)
(* Parameters, signatures, and the server that verifies them with          *)
(* OAuth::Signature.verify through one of its request proxies.             *)
(*                                                                         *)
(* Parameters are what CGI.parse makes of them: a map from names to lists  *)
(* of values.  A signature is the data it was computed over, so two are    *)
(* equal exactly when all of that is; client and server hold matching      *)
(* secrets.  Timestamp and nonce, memoised alike, are one parameter, and   *)
(* the key, the token and the other constant parameters are another.       *)
(*                                                                         *)
(* A message is [verb, query, auth, body, type]: the parameters of its URL *)
(* and of its Authorization header, what a form parser would read in its   *)
(* body, and its Content-Type.                                             *)
(***************************************************************************)
EXTENDS SequencesExt

CONSTANTS AppName,   \* names of the application's own parameters
          AppValue   \* and their values

OAuthName == {"oauth_consumer_key", "oauth_signature_method", "oauth_nonce",
              "oauth_body_hash", "oauth_signature"}

\* The name under which CGI.parse files a whole Authorization header.
Garbled == "OAuth header"
Name    == AppName \cup OAuthName \cup {Garbled}

Verbs   == {"GET", "HEAD", "DELETE", "POST", "PUT", "PATCH"}
Schemes == {"header", "body", "query_string"}
Methods == {"HMAC-SHA1", "HMAC-SHA256", "RSA-SHA1", "PLAINTEXT"}
Servers == {"RackRequest", "ActionControllerRequest"}

\* Content-Type: none, form-urlencoded, or any other.
Types == {"none", "form", "other"}

AppParams == [AppName -> Seq(AppValue)]

ASSUME NamesDiffer == AppName \cap (OAuthName \cup {Garbled}) = {}
-----------------------------------------------------------------------------
NoParams == [n \in Name |-> <<>>]
Asked(params) == [n \in Name |-> IF n \in AppName THEN params[n] ELSE <<>>]
Own(params) == [n \in AppName |-> params[n]]

\* a and b in one string; Hash#merge, where b's values replace a's; and the
\* last value of every name.
Join(a, b)  == [n \in Name |-> a[n] \o b[n]]
Merge(a, b) == [n \in Name |-> IF b[n] = <<>> THEN a[n] ELSE b[n]]
LastWins(a) == [n \in Name |-> IF a[n] = <<>> THEN <<>> ELSE <<Last(a[n])>>]

(* Signature::Base and its subclasses: the base string is the verb and the *)
(* sorted parameters without the signature; PLAINTEXT signs the secret.    *)
Normalized(params) == [n \in Name \ {"oauth_signature"} |-> ToBag(params[n])]

Digest(method, verb, params) ==
    IF method = "PLAINTEXT" THEN [method |-> method]
    ELSE [method |-> method, verb |-> verb, params |-> Normalized(params)]
-----------------------------------------------------------------------------
(* The server's proxies.  RackRequest merges the form, the query and the   *)
(* header, keeping one value of each name; ActionControllerRequest looks   *)
(* the OAuth parameters up in the same way but signs the raw strings, the  *)
(* body's for POST and PUT only.                                           *)
Posted(m) == IF m.type = "form" THEN m.body ELSE NoParams

RackParameters(m) == LastWins(Merge(Merge(Posted(m), m.query), m.auth))

RawParameters(m) ==
    Join(Join(m.auth, m.query),
         IF m.verb \in {"POST", "PUT"} THEN Posted(m) ELSE NoParams)

ForSignature(server, m) ==
    IF server = "RackRequest" THEN RackParameters(m) ELSE RawParameters(m)

(* Variant: Rails parameters are taken like Rack's.                        *)
ForSignature_Merged(server, m) == RackParameters(m)

(* Signature.verify: without a method it raises UnknownSignatureMethod.    *)
Verify(server, m) ==
    LET found  == RackParameters(m)
        method == found["oauth_signature_method"]
    IN /\ method # <<>>
       /\ found["oauth_signature"]
            = <<Digest(Head(method), m.verb, ForSignature(server, m))>>
=============================================================================
