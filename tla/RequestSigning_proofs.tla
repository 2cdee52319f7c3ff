------------------------ MODULE RequestSigning_proofs ------------------------
(***************************************************************************)
(* What holds of RequestSigning for every request an application can make, *)
(* any names and values, and however often it is signed and sent.          *)
(***************************************************************************)
EXTENDS RequestSigning, Verification_proofs

(* A request has its parts, each of them a map of all names.               *)
IsRequest(r) ==
    /\ r = [verb |-> r.verb, query |-> r.query, auth |-> r.auth, body |-> r.body,
            carrier |-> r.carrier, type |-> r.type]
    /\ r.verb \in Verbs /\ r.type \in Types /\ r.carrier \in {"none", "bytes", "stream"}
    /\ DOMAIN r.query = Name /\ DOMAIN r.auth = Name /\ DOMAIN r.body = Name

(* Its query has the application's parameters, its verb is the one asked   *)
(* for, and a form that gets signed stays one.                             *)
Keeps(r) ==
    /\ IsRequest(r)
    /\ \A n \in AppName : r.query[n] = input.query[n]
    /\ r.verb = input.verb
    /\ r.carrier = "stream" => input.given = "stream"
    /\ FormSigned => r.type = "form" /\ r.carrier = "bytes"

(* Its body has them too, unless it is rewritten or was a stream.          *)
BodyKept(r) == ~RewritesBody => \A n \in AppName : r.body[n] = input.data[n]

Arrived(m) ==
    Whole(m) /\ ~RewritesBody =>
      \A n \in AppName : m.query[n] = input.query[n] /\ m.body[n] = input.data[n]

SigningInv ==
    /\ TypeOK
    /\ Keeps(req)
    /\ (input.given = "stream" => sends = 0) => BodyKept(req)
    /\ \A m \in wire : Arrived(m)
-----------------------------------------------------------------------------
(* Parameters.                                                             *)

LEMMA InputTypes ==
    ASSUME input \in Input
    PROVE  /\ input \in Inputs
           /\ input.query \in AppParams /\ input.data \in AppParams
           /\ input.verb \in Verbs /\ input.type \in Types
           /\ input.given \in {"none", "hash", "string", "stream"}
           /\ input.scheme \in Schemes
           /\ \A n \in AppName : /\ input.query[n] \in Seq(AppValue)
                                 /\ input.data[n] \in Seq(AppValue)
BY InputsFit DEF Inputs, AppParams

(* The OAuth parameters have none of the application's names.              *)
LEMMA OAuthParametersOwn ==
    ASSUME NEW r, NEW nonce
    PROVE  /\ DOMAIN OAuthParameters(r, nonce) = Name
           /\ \A n \in AppName : OAuthParameters(r, nonce)[n] = <<>>
BY AppNames DEF OAuthParameters, NoParams, OAuthName

(* Neither has a signature.                                                *)
LEMMA SignedOwn ==
    ASSUME NEW params, DOMAIN params = Name, NEW verb, NEW over
    PROVE  /\ DOMAIN Signed(params, verb, over) = Name
           /\ \A n \in AppName : Signed(params, verb, over)[n] = params[n]
<1>1. PICK value : value = <<Digest(input.method, verb, over)>>
  OBVIOUS
<1>2. Signed(params, verb, over) = [params EXCEPT !["oauth_signature"] = value]
  BY <1>1 DEF Signed
<1> QED BY <1>2, AppNames DEF OAuthName

LEMMA JoinOwn ==
    ASSUME NEW a, NEW b, NEW n \in AppName, a[n] \in Seq(AppValue), b[n] = <<>>
    PROVE  Join(a, b)[n] = a[n]
BY AppNames, ConcatEmptySeq DEF Join

(* What the client's proxy sees of the application's parameters.           *)
LEMMA ParametersOwn ==
    ASSUME NEW r, NEW n \in AppName, r.query[n] \in Seq(AppValue)
    PROVE  /\ DOMAIN Parameters(r) = Name
           /\ r.query[n] = <<>> /\ SignsBody(r) /\ r.body[n] \in Seq(AppValue) =>
                Parameters(r)[n] = r.body[n]
<1> DEFINE url == Join(r.query, Garble(r.auth))
<1>1. Garble(r.auth)[n] = <<>>
  BY AppNames DEF Garble, NoParams
<1>2. url[n] = r.query[n]
  BY <1>1, JoinOwn
<1> HIDE DEF url
<1>3. Parameters(r) = Join(url, IF SignsBody(r) THEN r.body ELSE NoParams)
  BY DEF Parameters, url
<1>4. ASSUME r.query[n] = <<>>, SignsBody(r), r.body[n] \in Seq(AppValue)
      PROVE  Parameters(r)[n] = r.body[n]
  <2>1. Parameters(r) = Join(url, r.body)
    BY <1>3, <1>4
  <2>2. Parameters(r)[n] = url[n] \o r.body[n]
    BY <2>1, AppNames DEF Join
  <2> QED BY <1>2, <1>4, <2>2, ConcatEmptySeq
<1>5. DOMAIN Parameters(r) = Name
  BY <1>3 DEF Join
<1> QED BY <1>4, <1>5

(* The parameters that go into a form: what the request has wins.          *)
LEMMA WithOAuthOwn ==
    ASSUME NEW r, NEW nonce, NEW n \in AppName, r.query[n] = <<>>, SignsBody(r),
           r.body[n] \in Seq(AppValue)
    PROVE  WithOAuth(r, OAuthParameters(r, nonce))[n] = r.body[n]
<1>1. Parameters(r)[n] = r.body[n]
  <2>1. r.query[n] \in Seq(AppValue)
    OBVIOUS
  <2> QED BY <2>1, ParametersOwn
<1>2. OAuthParameters(r, nonce)[n] = <<>>
  BY OAuthParametersOwn
<1> QED BY <1>1, <1>2, AppNames DEF WithOAuth, Merge
-----------------------------------------------------------------------------
(* A request as the application asked for it.                              *)

LEMMA AskedOwn ==
    ASSUME NEW params
    PROVE  DOMAIN Asked(params) = Name /\ \A n \in AppName : Asked(params)[n] = params[n]
BY AppNames DEF Asked

LEMMA Created ==
    ASSUME input \in Input
    PROVE  Keeps(CreateHttpRequest(input)) /\ BodyKept(CreateHttpRequest(input))
<1> DEFINE r == CreateHttpRequest(input)
<1>1. /\ r.verb = input.verb /\ r.query = Asked(input.query) /\ r.auth = NoParams
      /\ r.body = Asked(input.data)
      /\ r.carrier = IF input.given \in {"none", "stream"} THEN input.given ELSE "bytes"
      /\ r.type = IF input.given = "hash" THEN "form" ELSE input.type
      /\ r = [verb |-> r.verb, query |-> r.query, auth |-> r.auth, body |-> r.body,
              carrier |-> r.carrier, type |-> r.type]
  BY DEF CreateHttpRequest
<1> HIDE DEF r
<1>2. IsRequest(r)
  BY <1>1, InputTypes, AskedOwn DEF IsRequest, NoParams, Types
<1>3. Keeps(r)
  BY <1>1, <1>2, AskedOwn, InputTypes DEF Keeps, FormSigned
<1>4. BodyKept(r)
  BY <1>1, AskedOwn DEF BodyKept
<1> QED BY <1>3, <1>4 DEF r
-----------------------------------------------------------------------------
(* Signing.                                                                *)

LEMMA HeaderKeeps ==
    ASSUME input \in Input, NEW r, Keeps(r), NEW nonce
    PROVE  LET new == SetOAuthHeader(r, OAuthParameters(r, nonce))
           IN  Keeps(new) /\ new.body = r.body
<1> DEFINE oauth == OAuthParameters(r, nonce)
<1>1. PICK auth : auth = Signed(oauth, r.verb, Join(Parameters(r), oauth))
  OBVIOUS
<1>2. DOMAIN auth = Name
  BY <1>1, OAuthParametersOwn, SignedOwn
<1>3. SetOAuthHeader(r, oauth) = [r EXCEPT !.auth = auth]
  BY <1>1 DEF SetOAuthHeader
<1> HIDE DEF oauth
<1>4. PICK new : new = [r EXCEPT !.auth = auth]
  OBVIOUS
<1>5. /\ new = [verb |-> r.verb, query |-> r.query, auth |-> auth, body |-> r.body,
                carrier |-> r.carrier, type |-> r.type]
  BY <1>4 DEF Keeps, IsRequest
<1>6. Keeps(new) /\ new.body = r.body
  BY <1>2, <1>5 DEF Keeps, IsRequest
<1> QED BY <1>3, <1>4, <1>6 DEF oauth

LEMMA QueryJoined ==
    ASSUME input \in Input, NEW r, Keeps(r), NEW more, \A n \in AppName : more[n] = <<>>
    PROVE  LET new == [r EXCEPT !.query = Join(r.query, more)]
           IN  Keeps(new) /\ new.body = r.body
<1>1. PICK query : query = Join(r.query, more)
  OBVIOUS
<1>2. DOMAIN query = Name
  BY <1>1 DEF Join
<1>3. ASSUME NEW n \in AppName PROVE query[n] = input.query[n]
  <2>1. r.query[n] = input.query[n] /\ r.query[n] \in Seq(AppValue)
    BY InputTypes DEF Keeps
  <2> QED BY <1>1, <2>1, JoinOwn
<1>4. PICK new : new = [r EXCEPT !.query = query]
  OBVIOUS
<1>5. new = [verb |-> r.verb, query |-> query, auth |-> r.auth, body |-> r.body,
             carrier |-> r.carrier, type |-> r.type]
  BY <1>4 DEF Keeps, IsRequest
<1>6. Keeps(new) /\ new.body = r.body
  BY <1>2, <1>3, <1>5 DEF Keeps, IsRequest
<1> QED BY <1>1, <1>4, <1>6

LEMMA QueryStringKeeps ==
    ASSUME input \in Input, NEW r, Keeps(r), NEW nonce
    PROVE  LET new == SetOAuthQueryString(r, OAuthParameters(r, nonce))
           IN  Keeps(new) /\ new.body = r.body
<1>1. PICK oauth : oauth = OAuthParameters(r, nonce)
  OBVIOUS
<1>2. \A n \in AppName : oauth[n] = <<>>
  BY <1>1, OAuthParametersOwn
<1>3. PICK first : first = [r EXCEPT !.query = Join(r.query, oauth)]
  OBVIOUS
<1>4. Keeps(first) /\ first.body = r.body
  BY <1>2, <1>3, QueryJoined
<1>5. PICK sig : sig = Signed(NoParams, r.verb, Parameters(first))
  OBVIOUS
<1>6. \A n \in AppName : sig[n] = <<>>
  <2>1. DOMAIN NoParams = Name /\ \A n \in AppName : NoParams[n] = <<>>
    BY AppNames DEF NoParams
  <2> QED BY <1>5, <2>1, SignedOwn
<1>7. PICK second : second = [first EXCEPT !.query = Join(first.query, sig)]
  OBVIOUS
<1>8. Keeps(second) /\ second.body = r.body
  BY <1>4, <1>6, <1>7, QueryJoined
<1>9. SetOAuthQueryString(r, oauth) = IF Unsignable THEN first ELSE second
  BY <1>3, <1>5, <1>7 DEF SetOAuthQueryString
<1> QED BY <1>1, <1>4, <1>8, <1>9

LEMMA FormData ==
    ASSUME NEW r, Keeps(r), NEW params, DOMAIN params = Name
    PROVE  /\ Keeps(SetFormData(r, params))
           /\ SetFormData(r, params).query = r.query
           /\ SetFormData(r, params).body = params
           /\ SetFormData(r, params).verb = r.verb
           /\ SetFormData(r, params).carrier = "bytes"
           /\ SetFormData(r, params).type = "form"
<1>1. PICK new : new = SetFormData(r, params)
  OBVIOUS
<1>2. new = [verb |-> r.verb, query |-> r.query, auth |-> r.auth, body |-> params,
             carrier |-> "bytes", type |-> "form"]
  BY <1>1 DEF SetFormData, Keeps, IsRequest
<1>3. Keeps(new)
  BY <1>2 DEF Keeps, IsRequest, Types
<1> QED BY <1>1, <1>2, <1>3

(* The form of a POST or PUT without a query is signed as it is.           *)
LEMMA BodyKeeps ==
    ASSUME input \in Input, NEW r, Keeps(r), input.scheme = "body", NEW nonce
    PROVE  LET new == SetOAuthBody(r, OAuthParameters(r, nonce))
           IN  Keeps(new) /\ (BodyKept(r) => BodyKept(new))
<1>0. PICK oauth : oauth = OAuthParameters(r, nonce)
  OBVIOUS
<1>1. PICK params : params = WithOAuth(r, oauth)
  OBVIOUS
<1>2. DOMAIN params = Name
  BY <1>1 DEF WithOAuth, Merge
<1>3. PICK first : first = SetFormData(r, params)
  OBVIOUS
<1>4. /\ Keeps(first) /\ first.query = r.query /\ first.body = params
      /\ first.verb = r.verb /\ first.carrier = "bytes" /\ first.type = "form"
  BY <1>2, <1>3, FormData
<1>5. PICK seen : seen = Parameters(first)
  OBVIOUS
<1>6. DOMAIN seen = Name
  BY <1>5 DEF Parameters, Join
<1>7. PICK signed : signed = Signed(seen, r.verb, seen)
  OBVIOUS
<1>8. DOMAIN signed = Name /\ \A n \in AppName : signed[n] = seen[n]
  BY <1>6, <1>7, SignedOwn
<1>9. PICK second : second = SetFormData(first, signed)
  OBVIOUS
<1>10. Keeps(second) /\ second.body = signed
  BY <1>4, <1>8, <1>9, FormData
<1>11. SetOAuthBody(r, oauth) = IF Unsignable THEN first ELSE second
  BY <1>1, <1>3, <1>5, <1>7, <1>9 DEF SetOAuthBody
<1>12. ASSUME BodyKept(r), ~RewritesBody, NEW n \in AppName
       PROVE  first.body[n] = input.data[n] /\ second.body[n] = input.data[n]
  <2>1. FormSigned /\ input.query[n] = <<>>
    BY <1>12, AppNames DEF RewritesBody, Own, NoParams
  <2>2. r.verb = input.verb /\ r.type = "form" /\ r.carrier = "bytes" /\ r.query[n] = <<>>
    BY <2>1 DEF Keeps
  <2>3. SignsBody(r) /\ SignsBody(first)
    BY <1>4, <2>1, <2>2 DEF SignsBody, FormSigned
  <2>4. r.body[n] = input.data[n] /\ input.data[n] \in Seq(AppValue)
    BY <1>12, InputTypes DEF BodyKept
  <2>5. params[n] = input.data[n]
    BY <1>0, <1>1, <2>2, <2>3, <2>4, WithOAuthOwn
  <2>6. <<>> \in Seq(AppValue) /\ r.query[n] = <<>> /\ first.query[n] = <<>>
    BY <1>4, <2>2
  <2>7. seen[n] = input.data[n]
    BY <1>4, <1>5, <2>3, <2>4, <2>5, <2>6, ParametersOwn
  <2> QED BY <1>4, <1>8, <1>10, <2>5, <2>7
<1>13. BodyKept(r) => BodyKept(first) /\ BodyKept(second)
  BY <1>12 DEF BodyKept
<1> QED BY <1>0, <1>4, <1>10, <1>11, <1>13

LEMMA OAuthBangKeeps ==
    ASSUME input \in Input, NEW r, Keeps(r), NEW nonce
    PROVE  Keeps(OAuthBang(r, nonce)) /\ (BodyKept(r) => BodyKept(OAuthBang(r, nonce)))
<1>1. PICK oauth : oauth = OAuthParameters(r, nonce)
  OBVIOUS
<1>2. CASE input.scheme = "header"
  <2>1. OAuthBang(r, nonce) = SetOAuthHeader(r, oauth)
    BY <1>1, <1>2 DEF OAuthBang
  <2> QED BY <1>1, <2>1, HeaderKeeps DEF BodyKept
<1>3. CASE input.scheme = "body"
  <2>1. OAuthBang(r, nonce) = SetOAuthBody(r, oauth)
    BY <1>1, <1>3 DEF OAuthBang
  <2> QED BY <1>1, <1>3, <2>1, BodyKeeps
<1>4. CASE input.scheme = "query_string"
  <2>1. OAuthBang(r, nonce) = SetOAuthQueryString(r, oauth)
    BY <1>1, <1>4 DEF OAuthBang
  <2> QED BY <1>1, <2>1, QueryStringKeeps DEF BodyKept
<1> QED BY <1>2, <1>3, <1>4, InputTypes DEF Schemes
-----------------------------------------------------------------------------
(* Steps.                                                                  *)

LEMMA InitSigning == Init => SigningInv
<1> SUFFICES ASSUME Init PROVE SigningInv
  OBVIOUS
<1>1. input \in Input /\ req = CreateHttpRequest(input)
  BY DEF Init
<1>2. Keeps(req) /\ BodyKept(req)
  BY <1>1, Created
<1>3. TypeOK
  BY <1>2, InputsFit DEF Init, TypeOK, Keeps, IsRequest
<1>4. wire = {}
  BY DEF Init
<1> QED BY <1>2, <1>3, <1>4 DEF SigningInv

LEMMA SignKeeps ==
    ASSUME SigningInv, Sign
    PROVE  SigningInv'
<1>1. /\ TypeOK /\ input \in Input /\ Keeps(req) /\ signs \in 0..MaxSigns
      /\ signs < MaxSigns /\ signs' = signs + 1
      /\ UNCHANGED <<input, sends, wire, verdicts>>
      /\ status' \in {"raised", "signed"}
  BY DEF SigningInv, TypeOK, Sign
<1>2. req' = OAuthBang(req, signs + 1)
  BY DEF Sign
<1>3. PICK new : new = OAuthBang(req, signs + 1)
  OBVIOUS
<1>4. Keeps(new) /\ (BodyKept(req) => BodyKept(new))
  BY <1>1, <1>3, OAuthBangKeeps
<1>5. Keeps(req)' /\ ((input.given = "stream" => sends = 0) => BodyKept(req))'
  BY <1>1, <1>2, <1>3, <1>4
     DEF SigningInv, Keeps, IsRequest, BodyKept, FormSigned, RewritesBody, Own
<1>6. signs' \in 0..MaxSigns /\ signs' # 0 /\ \A i \in 1..signs : i \in 1..signs'
  BY <1>1, InputsFit
<1>7. TypeOK'
  BY <1>1, <1>5, <1>6 DEF TypeOK, Keeps, IsRequest
<1>8. (\A m \in wire : Arrived(m))'
  BY <1>1 DEF SigningInv, Arrived, Whole, RewritesBody, FormSigned, Own
<1> QED BY <1>5, <1>7, <1>8 DEF SigningInv

LEMMA TransmitKeeps ==
    ASSUME SigningInv, Transmit
    PROVE  SigningInv'
<1>1. PICK type : type = IF req.carrier # "none" /\ req.type = "none" /\ input.formByDefault
                         THEN "form" ELSE req.type
  OBVIOUS
<1>2. PICK left : left = IF req.carrier = "stream" THEN NoParams ELSE req.body
  OBVIOUS
<1>3. PICK m : m = [signs |-> signs, sends |-> sends + 1, verb |-> req.verb,
                    query |-> req.query, auth |-> req.auth, body |-> req.body, type |-> type]
  OBVIOUS
<1>4. /\ status = "signed" /\ sends < MaxSends /\ wire' = wire \cup {m}
      /\ req' = [req EXCEPT !.type = type, !.body = left] /\ sends' = sends + 1
      /\ UNCHANGED <<input, status, signs, verdicts>>
  BY <1>1, <1>2, <1>3 DEF Transmit
<1>5. /\ TypeOK /\ input \in Input /\ Keeps(req) /\ sends \in 0..MaxSends
      /\ signs \in 0..MaxSigns /\ type \in Types
  BY <1>1 DEF SigningInv, TypeOK, Types
<1>6. PICK new : /\ new = req'
                 /\ new = [verb |-> req.verb, query |-> req.query, auth |-> req.auth,
                           body |-> left, carrier |-> req.carrier, type |-> type]
  BY <1>4, <1>5 DEF Keeps, IsRequest
<1>7. DOMAIN left = Name
  BY <1>2, <1>5 DEF Keeps, IsRequest, NoParams
<1>8. Keeps(new)
  BY <1>1, <1>5, <1>6, <1>7 DEF Keeps, IsRequest
<1>9. ASSUME input.given # "stream" PROVE BodyKept(new)
  <2>1. BodyKept(req) /\ left = req.body
    BY <1>2, <1>5, <1>9 DEF SigningInv, Keeps
  <2> QED BY <1>6, <2>1 DEF BodyKept
<1>10. sends' \in 0..MaxSends /\ sends' # 0
  BY <1>4, <1>5, InputsFit
<1>11. Keeps(req)' /\ ((input.given = "stream" => sends = 0) => BodyKept(req))'
  BY <1>4, <1>6, <1>8, <1>9, <1>10
     DEF Keeps, IsRequest, BodyKept, FormSigned, RewritesBody, Own
<1>12. Arrived(m)
  <2> SUFFICES ASSUME Whole(m), ~RewritesBody, NEW n \in AppName
               PROVE  m.query[n] = input.query[n] /\ m.body[n] = input.data[n]
    BY DEF Arrived
  <2>1. input.given = "stream" => sends = 0
    <3>1. m.sends = sends + 1
      BY <1>3
    <3> QED BY <1>5, <3>1 DEF Whole
  <2>2. BodyKept(req)
    BY <2>1 DEF SigningInv
  <2> QED BY <1>3, <1>5, <2>2 DEF BodyKept, Keeps
<1>13. (\A w \in wire : Arrived(w))'
  BY <1>4, <1>12 DEF SigningInv, Arrived, Whole, RewritesBody, FormSigned, Own
<1>14. TypeOK'
  <2>1. m.signs = signs /\ signs \in 1..signs
    BY <1>3, <1>4, <1>5 DEF TypeOK
  <2> QED BY <1>4, <1>5, <1>10, <1>11, <2>1 DEF TypeOK, Keeps, IsRequest
<1> QED BY <1>11, <1>13, <1>14 DEF SigningInv

LEMMA ReceiveKeeps ==
    ASSUME SigningInv, NEW server \in Servers, Receive(server)
    PROVE  SigningInv'
<1>1. PICK m \in wire :
        /\ verdicts' = verdicts \cup {[of |-> m, by |-> server, ok |-> Verify(server, m)]}
        /\ UNCHANGED <<input, req, status, signs, sends, wire>>
  BY DEF Receive
<1>2. PICK v : v = [of |-> m, by |-> server, ok |-> Verify(server, m)]
  OBVIOUS
<1>3. verdicts' = verdicts \cup {v} /\ v.of = m /\ v.by = server
  BY <1>1, <1>2
<1>4. TypeOK'
  BY <1>1, <1>3 DEF SigningInv, TypeOK
<1> QED BY <1>1, <1>4 DEF SigningInv, Keeps, BodyKept, FormSigned, Arrived, Whole,
                          RewritesBody, Own

LEMMA NextSigning ==
    ASSUME SigningInv, [Next]_vars
    PROVE  SigningInv'
<1>1. CASE UNCHANGED vars
  BY <1>1 DEF vars, SigningInv, TypeOK, Keeps, BodyKept, FormSigned, Arrived, Whole,
              RewritesBody, Own
<1> QED BY <1>1, SignKeeps, TransmitKeeps, ReceiveKeeps DEF Next
-----------------------------------------------------------------------------
THEOREM Invariance == Spec => []SigningInv
<1>1. SigningInv /\ [Next]_vars => SigningInv'
  BY NextSigning
<1> QED BY InitSigning, <1>1, PTL DEF Spec

(* The variables keep their types; a request is never sent before it is    *)
(* signed.                                                                 *)
THEOREM TypeCorrect == Spec => []TypeOK
<1>1. SigningInv => TypeOK
  BY DEF SigningInv
<1> QED BY Invariance, <1>1, PTL

(* The application's query and body arrive as they were asked for, however *)
(* often the request is signed and sent, under every scheme that does not  *)
(* rewrite the body.                                                       *)
THEOREM DataArrives == Spec => []RequestArrives
<1>1. SigningInv => RequestArrives
  <2> SUFFICES ASSUME SigningInv, NEW m \in wire, Whole(m), ~RewritesBody
               PROVE  Own(m.query) = input.query /\ Own(m.body) = input.data
    BY DEF RequestArrives
  <2>1. \A n \in AppName : m.query[n] = input.query[n] /\ m.body[n] = input.data[n]
    BY DEF SigningInv, Arrived
  <2>2. input.query \in AppParams /\ input.data \in AppParams
    BY InputTypes DEF SigningInv, TypeOK
  <2> QED BY <2>1, <2>2 DEF Own, AppParams
<1> QED BY Invariance, <1>1, PTL
=============================================================================
