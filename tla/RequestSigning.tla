--------------------------- MODULE RequestSigning ---------------------------
(***************************************************************************)
(* One request from the call that creates it to the server that verifies   *)
(* it: Consumer#create_http_request, Net::HTTPGenericRequest#oauth! under  *)
(* the three schemes, Net::HTTP's transmission, and                        *)
(* OAuth::Signature.verify through the request proxies of a server.  The   *)
(* application keeps the request object, so it may sign and send it again. *)
(*                                                                         *)
(* A body is what a form parser would read in it, whatever its type says.  *)
(***************************************************************************)
EXTENDS Verification

CONSTANTS Input,     \* the requests the application makes
          MaxSigns,  \* bound: how often it signs one request
          MaxSends   \* bound: how often it sends one request

(* What the application asks for: a query, a body given as a Hash, as a    *)
(* string, as a stream or not at all, and a Content-Type header.  hash:    *)
(* :body_hash_enabled, which token requests do without.  keyFile: an RSA   *)
(* key passed as :private_key_file (or :private_key), not as the secret.   *)
(* formByDefault: this Net::HTTP sends untyped bodies as forms.            *)
Inputs == [verb : Verbs, query : AppParams, data : AppParams,
           given : {"none", "hash", "string", "stream"}, type : Types,
           scheme : Schemes, method : Methods, hash : BOOLEAN,
           keyFile : BOOLEAN, formByDefault : BOOLEAN]

ASSUME InputsFit ==
    /\ Input \subseteq Inputs
    /\ \A in \in Input :
         /\ in.given # "none" => in.verb \in {"POST", "PUT", "PATCH"}
         /\ in.given = "none" => \A n \in AppName : in.data[n] = <<>>
    /\ MaxSigns \in Nat
    /\ MaxSends \in Nat

VARIABLES input,   \* what was asked for
          req,     \* the Net::HTTPGenericRequest
          status,  \* "unsigned", "signed" or "raised"
          signs,   \* how often req was signed; the number is also the nonce
          sends,   \* how often it was sent
          wire,    \* the messages sent
          verdicts \* what servers said of them
vars == <<input, req, status, signs, sends, wire, verdicts>>
-----------------------------------------------------------------------------
(* create_http_request: only post, put and patch take a body, and only a   *)
(* Hash decides the type.  carrier: request.body, body_stream or neither.  *)
CreateHttpRequest(in) ==
    [verb |-> in.verb,
     query |-> Asked(in.query),
     auth |-> NoParams,
     body |-> Asked(in.data),
     carrier |-> IF in.given \in {"none", "stream"} THEN in.given ELSE "bytes",
     type |-> IF in.given = "hash" THEN "form" ELSE in.type]
-----------------------------------------------------------------------------
(* Variant: a body with no type yet is read as a form.                     *)
SignsBody_Untyped(r) ==
    r.verb \in {"POST", "PUT"} /\ r.type # "other" /\ r.carrier = "bytes"

(* The client's proxy, RequestProxy::Net::HTTP::HTTPRequest.  It reads the *)
(* body of a form, but of POST and PUT only and never from a stream.       *)
SignsBody(r) ==
    r.verb \in {"POST", "PUT"} /\ r.type = "form" /\ r.carrier = "bytes"

(* An Authorization header already there is parsed as if it were part of   *)
(* the query string, into one parameter no server will ever see.           *)
Garble(auth) ==
    IF auth = NoParams THEN NoParams
    ELSE [NoParams EXCEPT ![Garbled] = auth["oauth_nonce"]]

(* Variant: the stale header is left out.                                  *)
Garble_Ignored(auth) == NoParams

Parameters(r) ==
    Join(Join(r.query, Garble(r.auth)), IF SignsBody(r) THEN r.body ELSE NoParams)

(* Client::Helper#oauth_parameters, with the body hash of oauth!: the hash *)
(* is of request.body, which a stream leaves empty.                        *)
HashRequired(r) ==
    /\ input.hash
    /\ input.method # "PLAINTEXT"
    /\ r.verb \in {"POST", "PUT", "PATCH"}
    /\ r.type # "form"

OAuthParameters(r, nonce) ==
    [NoParams EXCEPT
       !["oauth_consumer_key"] = <<"key">>,
       !["oauth_signature_method"] = <<input.method>>,
       !["oauth_nonce"] = <<nonce>>,
       !["oauth_body_hash"] = IF ~HashRequired(r) THEN <<>>
                              ELSE <<IF r.carrier = "bytes" THEN r.body ELSE NoParams>>]

(* The private key of the options reaches the signature from the header    *)
(* scheme only; the others fall back on the consumer's secret.             *)
Unsignable ==
    input.method = "RSA-SHA1" /\ input.keyFile /\ input.scheme # "header"

Signed(params, verb, over) ==
    [params EXCEPT !["oauth_signature"] = <<Digest(input.method, verb, over)>>]

SetOAuthHeader(r, oauth) ==
    [r EXCEPT !.auth = Signed(oauth, r.verb, Join(Parameters(r), oauth))]

SetFormData(r, params) ==
    [r EXCEPT !.body = params, !.carrier = "bytes", !.type = "form"]

(* Variant: the new parameters win.                                        *)
WithOAuth_NewWins(r, oauth) == Merge(Parameters(r), oauth)

(* Variant: only the OAuth parameters are put into the body.               *)
WithOAuth_Only(r, oauth) == oauth

(* parameters_with_oauth: what the request already has wins.               *)
WithOAuth(r, oauth) == Merge(oauth, Parameters(r))

SetOAuthBody(r, oauth) ==
    LET first == SetFormData(r, WithOAuth(r, oauth))
        seen  == Parameters(first)
    IN IF Unsignable THEN first ELSE SetFormData(first, Signed(seen, r.verb, seen))

SetOAuthQueryString(r, oauth) ==
    LET first == [r EXCEPT !.query = Join(r.query, oauth)]
        sig   == Signed(NoParams, r.verb, Parameters(first))
    IN IF Unsignable THEN first ELSE [first EXCEPT !.query = Join(first.query, sig)]

OAuthBang(r, nonce) ==
    LET oauth == OAuthParameters(r, nonce) IN
    CASE input.scheme = "header"       -> SetOAuthHeader(r, oauth)
      [] input.scheme = "body"         -> SetOAuthBody(r, oauth)
      [] input.scheme = "query_string" -> SetOAuthQueryString(r, oauth)
-----------------------------------------------------------------------------
Init ==
    /\ input \in Input
    /\ req = CreateHttpRequest(input)
    /\ status = "unsigned"
    /\ signs = 0
    /\ sends = 0
    /\ wire = {}
    /\ verdicts = {}

(* Consumer#sign!, by create_signed_request or by the application.  When   *)
(* it raises, the request keeps what was already changed.                  *)
Sign ==
    /\ status # "raised"
    /\ signs < MaxSigns
    /\ req' = OAuthBang(req, signs + 1)
    /\ status' = IF Unsignable THEN "raised" ELSE "signed"
    /\ signs' = signs + 1
    /\ UNCHANGED <<input, sends, wire, verdicts>>

(* Variant: a request is sent although it was not signed.                  *)
Transmit_Unsigned ==
    /\ sends < MaxSends
    /\ wire' = wire \cup {[signs |-> signs, sends |-> sends + 1, verb |-> req.verb,
                           query |-> req.query, auth |-> req.auth, body |-> req.body,
                           type |-> req.type]}
    /\ sends' = sends + 1
    /\ UNCHANGED <<input, req, status, signs, verdicts>>

(* Net::HTTP#request: an untyped body is given a type first, for good, and *)
(* a stream is read to its end.                                            *)
Transmit ==
    LET type == IF req.carrier # "none" /\ req.type = "none" /\ input.formByDefault
                THEN "form" ELSE req.type
        left == IF req.carrier = "stream" THEN NoParams ELSE req.body
    IN /\ status = "signed"
       /\ sends < MaxSends
       /\ wire' = wire \cup {[signs |-> signs, sends |-> sends + 1, verb |-> req.verb,
                              query |-> req.query, auth |-> req.auth, body |-> req.body,
                              type |-> type]}
       /\ req' = [req EXCEPT !.type = type, !.body = left]
       /\ sends' = sends + 1
       /\ UNCHANGED <<input, status, signs, verdicts>>

(* The network delivers any message, also twice, to any server.            *)
Receive(server) ==
    \E m \in wire :
      /\ verdicts' = verdicts \cup {[of |-> m, by |-> server, ok |-> Verify(server, m)]}
      /\ UNCHANGED <<input, req, status, signs, sends, wire>>

Next ==
    \/ Sign
    \/ Transmit
    \/ \E server \in Servers : Receive(server)

Spec == Init /\ [][Next]_vars
-----------------------------------------------------------------------------
(* The types of the variables: a request is never signed or sent more      *)
(* often than the counters say, and only a signed one is sent.             *)
TypeOK ==
    /\ input \in Input
    /\ req.verb \in Verbs /\ req.type \in Types
    /\ req.carrier \in {"none", "bytes", "stream"}
    /\ \A part \in {req.query, req.auth, req.body} : DOMAIN part = Name
    /\ status \in {"unsigned", "signed", "raised"}
    /\ signs \in 0 .. MaxSigns /\ sends \in 0 .. MaxSends
    /\ status = "unsigned" <=> signs = 0
    /\ sends = 0 <=> wire = {}
    /\ \A m \in wire : m.signs \in 1 .. signs
    /\ \A v \in verdicts : v.of \in wire /\ v.by \in Servers

(* What was asked for, in the application's terms: whether the body is a   *)
(* form that gets signed, and whether a server will read it as a form.     *)
FormSigned ==
    /\ input.verb \in {"POST", "PUT"}
    /\ input.given = "hash" \/ (input.given = "string" /\ input.type = "form")

FormRead(server) ==
    /\ input.verb \in {"POST", "PUT", "PATCH"} /\ input.given # "none"
    /\ \/ input.given = "hash" \/ input.type = "form"
       \/ input.type = "none" /\ input.formByDefault
    /\ server = "RackRequest" \/ input.verb # "PATCH"

(* A Rails server must read the body exactly when it was signed; a Rack    *)
(* server must find, of each name, the one value that was signed.          *)
SameParameters(server) ==
    \A n \in AppName :
      LET signed == input.query[n] \o (IF FormSigned THEN input.data[n] ELSE <<>>)
          posted == IF FormRead(server) THEN input.data[n] ELSE <<>>
      IN IF server = "RackRequest"
         THEN Len(signed) <= 1 /\ (posted # <<>> => signed # <<>>)
         ELSE FormSigned \/ posted = <<>>

(* The requests a server can verify.  The body scheme needs a POST or PUT, *)
(* since the OAuth parameters are in a form then.  A PLAINTEXT signature   *)
(* covers no parameters; any other one must cover those the server finds,  *)
(* and with a query the body scheme signs some of them twice.              *)
Understood(server) ==
    /\ input.scheme = "body" => input.verb \in {"POST", "PUT"}
    /\ \/ input.method = "PLAINTEXT"
       \/ /\ input.scheme = "body"
          /\ input.query = Own(NoParams)
          /\ server = "RackRequest" /\ FormSigned
               => \A n \in AppName : Len(input.data[n]) <= 1
       \/ input.scheme # "body" /\ SameParameters(server)

(* A stream is at its end once it has been sent.                           *)
Whole(m) == input.given = "stream" => m.sends = 1

(* A request signed once is verified exactly when it is one of those: the  *)
(* proxies of both sides agree on it, under every scheme and method, and   *)
(* however often it is sent.                                               *)
VerifiesExactly ==
    \A v \in verdicts :
      (v.of.signs = 1 /\ Whole(v.of)) => (v.ok <=> Understood(v.by))

(* Signing a request again gives it no new life.  A Rack server refuses    *)
(* it, since the old header or the old query parameters are signed too and *)
(* the server does not see them; or, under the body scheme, it accepts a   *)
(* request that still has the nonce of its first signing.                  *)
NoNewLife ==
    \A v \in verdicts :
      (/\ v.ok /\ v.of.signs > 1 /\ v.by = "RackRequest"
       /\ input.method # "PLAINTEXT")
        => RackParameters(v.of)["oauth_nonce"] = <<1>>

(* Whatever is signed and sent, and however often, the application's own   *)
(* query and body arrive as they were asked for, unless the body scheme    *)
(* rewrites them: it does to all but the form of a POST or PUT.            *)
RewritesBody ==
    input.scheme = "body" /\ ~(FormSigned /\ input.query = Own(NoParams))
RequestArrives ==
    \A m \in wire :
      (Whole(m) /\ ~RewritesBody)
        => /\ Own(m.query) = input.query
           /\ input.verb \in {"POST", "PUT", "PATCH"} => Own(m.body) = input.data
-----------------------------------------------------------------------------
(* What the documentation promises and the code does not keep: a run finds *)
(* the violation.                                                          *)

(* AccessToken#patch: "@token.patch('/people/123', { :name => 'Bob' ...})" *)
(* is listed among the requests a token makes; its form is not signed, and *)
(* a Rack server, which reads the form, refuses it.                        *)
PatchVerifies ==
    \A v \in verdicts :
      (v.of.signs = 1 /\ input.verb = "PATCH" /\ input.given = "hash") => v.ok
=============================================================================
