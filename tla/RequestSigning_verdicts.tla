----------------------- MODULE RequestSigning_verdicts -----------------------
(***************************************************************************)
(* What servers say of signed requests: which requests they verify, and    *)
(* why signing a request again gives it no new life.                       *)
(***************************************************************************)
EXTENDS RequestSigning_proofs

(* The last of these signatures is over values of a name that are not the  *)
(* ones a server finds under it.                                           *)
Foreign(sigs, name, found) ==
    /\ sigs # <<>>
    /\ input.method # "PLAINTEXT" =>
         /\ Last(sigs).method = input.method
         /\ Last(sigs).params[name] # ToBag(found)

(* A request, or a message, after k signings.  A second header covers the  *)
(* first one, in a parameter no server sees; a second signature in the     *)
(* query covers both nonces, of which a server takes the last; the form of *)
(* the body scheme keeps its first nonce, unless the client's proxy does   *)
(* not read it, when it loses the signature method.                        *)
HeaderAfter(r, k) ==
    /\ Apart(r.query) /\ Apart(r.body)
    /\ k = 0 => r.auth = NoParams
    /\ k > 0 => r.auth[Garbled] = <<>> /\ r.auth[Nonce] = <<k>>
    /\ k > 1 => Foreign(r.auth[Sig], Garbled, <<>>)

QueryAfter(r, k) ==
    /\ r.auth = NoParams /\ Apart(r.body)
    /\ r.query[Nonce] \in Seq(Nat) /\ Len(r.query[Nonce]) = k
    /\ IsList(r.query[Sig])
    /\ k > 1 => Foreign(r.query[Sig], Nonce, <<Last(r.query[Nonce])>>)

BodyAfter(r, k) ==
    /\ Apart(r.query) /\ r.auth = NoParams
    /\ k = 0 => Apart(r.body)
    /\ k > 0 /\ ~Unsignable =>
         /\ r.type = "form"
         /\ IF input.verb \in {"POST", "PUT"} THEN r.body[Nonce] = <<1>>
            ELSE r.body[Method] = <<>>

After(r, k) ==
    /\ input.scheme = "header" => HeaderAfter(r, k)
    /\ input.scheme = "query_string" => QueryAfter(r, k)
    /\ input.scheme = "body" => BodyAfter(r, k)

(* What a first signature covers: the query and the form that is read; and *)
(* the body scheme puts the query into the form and reads both.            *)
Posting == input.verb \in {"POST", "PUT"}
Covered(n) ==
    LET data == input.query[n] \o (IF FormSigned THEN input.data[n] ELSE <<>>)
    IN  IF input.scheme = "body" THEN input.query[n] \o data ELSE data

(* The part of a request that has the OAuth parameters: one value of each, *)
(* and a signature of what is covered.                                     *)
Bears(part) ==
    /\ part[Method] = <<input.method>>
    /\ \A n \in Name \ AppName : part[n] = <<>> \/ \E x : part[n] = <<x>>
    /\ \E over :
         /\ part[Sig] = <<Digest(input.method, input.verb, over)>>
         /\ \A n \in Name \ {Sig} : over[n] = IF n \in AppName THEN Covered(n) ELSE part[n]

(* A request, or a message, after its first signing.                       *)
Vouched(r) ==
    /\ input.scheme = "header" => Bears(r.auth) /\ \A n \in AppName : r.auth[n] = <<>>
    /\ input.scheme = "query_string" => Bears(r.query)
    /\ input.scheme = "body" /\ Posting =>
         Bears(r.body) /\ \A n \in AppName : r.body[n] = Covered(n)

(* The type of a body that no scheme rewrites, before and after Net::HTTP  *)
(* gives it one.                                                           *)
AskedCarrier == IF input.given \in {"none", "stream"} THEN input.given ELSE "bytes"
AskedType == IF input.given = "hash" THEN "form" ELSE input.type
GetsType == input.given # "none" /\ AskedType = "none" /\ input.formByDefault
SentType == IF GetsType THEN "form" ELSE AskedType

VerdictInv ==
    /\ SigningInv
    /\ After(req, signs)
    /\ status = "signed" \/ wire # {} => ~Unsignable
    /\ signs = 0 => req = CreateHttpRequest(input)
    /\ signs = 1 /\ ~Unsignable => Vouched(req)
    /\ IF input.scheme = "body" THEN signs > 0 => req.carrier = "bytes"
       ELSE req.carrier = AskedCarrier /\ req.type \in {AskedType, SentType}
    /\ \A m \in wire :
         /\ After(m, m.signs) /\ (m.signs = 1 => Vouched(m))
         /\ m.verb = input.verb /\ (input.scheme # "body" => m.type = SentType)
         /\ \A n \in AppName : m.query[n] = input.query[n]
    /\ \A v \in verdicts : v.ok = Verify(v.by, v.of)
-----------------------------------------------------------------------------
(* What oauth! puts together.                                              *)

(* OAuth parameters not signed yet: at most one value of each name.        *)
Fresh(oauth, nonce) ==
    /\ DOMAIN oauth = Name
    /\ \A n \in AppName \cup {Garbled, Sig} : oauth[n] = <<>>
    /\ oauth[Nonce] = <<nonce>> /\ oauth[Method] = <<input.method>>
    /\ \A n \in Name : oauth[n] = <<>> \/ \E x : oauth[n] = <<x>>

LEMMA OAuthParametersFresh ==
    ASSUME NEW r, NEW nonce
    PROVE  Fresh(OAuthParameters(r, nonce), nonce)
<1>1. PICK hash : hash = IF ~HashRequired(r) THEN <<>>
                         ELSE <<IF r.carrier = "bytes" THEN r.body ELSE NoParams>>
  OBVIOUS
<1>2. hash = <<>> \/ \E x : hash = <<x>>
  BY <1>1
<1>3. PICK oauth : oauth = OAuthParameters(r, nonce)
  OBVIOUS
<1>4. oauth = [NoParams EXCEPT !["oauth_consumer_key"] = <<"key">>,
                 !["oauth_signature_method"] = <<input.method>>,
                 !["oauth_nonce"] = <<nonce>>, !["oauth_body_hash"] = hash]
  BY <1>1, <1>3 DEF OAuthParameters
<1>5. /\ DOMAIN oauth = Name
      /\ oauth["oauth_consumer_key"] = <<"key">>
      /\ oauth["oauth_signature_method"] = <<input.method>>
      /\ oauth["oauth_nonce"] = <<nonce>> /\ oauth["oauth_body_hash"] = hash
      /\ \A n \in Name : n \notin {"oauth_consumer_key", "oauth_signature_method",
                                   "oauth_nonce", "oauth_body_hash"} => oauth[n] = <<>>
  BY <1>4, OAuthNames DEF NoParams, Sig, Nonce, Method
<1>6. /\ oauth[Nonce] = <<nonce>> /\ oauth[Method] = <<input.method>>
      /\ oauth[Garbled] = <<>> /\ oauth[Sig] = <<>>
  BY <1>5, OAuthNames DEF Sig, Nonce, Method, Garbled
<1>7. \A n \in AppName : oauth[n] = <<>>
  BY <1>5, AppNames DEF OAuthName
<1>8. \A n \in Name : oauth[n] = <<>> \/ \E x : oauth[n] = <<x>>
  BY <1>2, <1>5
<1> QED BY <1>3, <1>5, <1>6, <1>7, <1>8 DEF Fresh

LEMMA SignedAt ==
    ASSUME NEW params, DOMAIN params = Name, NEW verb, NEW over
    PROVE  /\ DOMAIN Signed(params, verb, over) = Name
           /\ Signed(params, verb, over)[Sig] = <<Digest(input.method, verb, over)>>
           /\ \A n \in Name : n # Sig => Signed(params, verb, over)[n] = params[n]
<1>1. PICK value : value = <<Digest(input.method, verb, over)>>
  OBVIOUS
<1>2. Signed(params, verb, over) = [params EXCEPT ![Sig] = value]
  BY <1>1 DEF Signed, Sig
<1> QED BY <1>1, <1>2, OAuthNames

(* The client's proxy puts the query, the old header and the form together. *)
LEMMA ParametersAt ==
    ASSUME NEW r, NEW n \in Name
    PROVE  /\ DOMAIN Parameters(r) = Name
           /\ Parameters(r)[n] = (r.query[n] \o Garble(r.auth)[n])
                                   \o (IF SignsBody(r) THEN r.body[n] ELSE <<>>)
<1>1. PICK form : form = IF SignsBody(r) THEN r.body ELSE NoParams
  OBVIOUS
<1>2. form[n] = IF SignsBody(r) THEN r.body[n] ELSE <<>>
  BY <1>1 DEF NoParams
<1>3. PICK url : url = Join(r.query, Garble(r.auth))
  OBVIOUS
<1>4. url[n] = r.query[n] \o Garble(r.auth)[n]
  BY <1>3 DEF Join
<1>5. Parameters(r) = Join(url, form)
  BY <1>1, <1>3 DEF Parameters
<1> QED BY <1>2, <1>4, <1>5 DEF Join

LEMMA NothingToGarble ==
    /\ Garble(NoParams) = NoParams
    /\ DOMAIN NoParams = Name /\ \A n \in Name : NoParams[n] = <<>>
BY DEF Garble, NoParams

LEMMA GarbledAuth ==
    ASSUME NEW auth, NEW nonce, auth[Nonce] = <<nonce>>
    PROVE  Garble(auth)[Garbled] = <<nonce>>
<1>1. auth # NoParams
  <2>1. NoParams[Nonce] = <<>>
    BY OAuthNames DEF NoParams
  <2>2. <<nonce>> # <<>>
    OBVIOUS
  <2> QED BY <2>1, <2>2
<1>2. Garble(auth) = [NoParams EXCEPT ![Garbled] = <<nonce>>]
  BY <1>1 DEF Garble, Nonce
<1> QED BY <1>2, OAuthNames DEF NoParams

-----------------------------------------------------------------------------
(* Signing again.                                                          *)

(* A signature over these values is foreign to what a server finds.        *)
LEMMA SignedForeign ==
    ASSUME NEW verb, NEW over, NEW name \in Name \ {Sig}, NEW found, NEW s, s # <<>>,
           Last(s) = Digest(input.method, verb, over), ToBag(over[name]) # ToBag(found)
    PROVE  Foreign(s, name, found)
<1>1. PICK d : d = Digest(input.method, verb, over)
  OBVIOUS
<1>2. /\ d.method = input.method
      /\ input.method # "PLAINTEXT" => d.params[name] = ToBag(over[name])
  BY <1>1, DigestShows DEF Sig
<1> QED BY <1>1, <1>2 DEF Foreign

LEMMA HeaderAgain ==
    ASSUME NEW r, IsRequest(r), NEW k \in Nat, HeaderAfter(r, k)
    PROVE  HeaderAfter(SetOAuthHeader(r, OAuthParameters(r, k + 1)), k + 1)
<1>1. PICK oauth : oauth = OAuthParameters(r, k + 1)
  OBVIOUS
<1>2. Fresh(oauth, k + 1)
  BY <1>1, OAuthParametersFresh
<1>3. PICK over : over = Join(Parameters(r), oauth)
  OBVIOUS
<1>4. PICK auth : auth = Signed(oauth, r.verb, over)
  OBVIOUS
<1>5. /\ auth[Sig] = <<Digest(input.method, r.verb, over)>>
      /\ auth[Nonce] = <<k + 1>> /\ auth[Garbled] = <<>>
  BY <1>2, <1>4, SignedAt, OAuthNames DEF Fresh
<1>6. PICK new : new = [r EXCEPT !.auth = auth]
  OBVIOUS
<1>7. new.query = r.query /\ new.body = r.body /\ new.auth = auth
  BY <1>6 DEF IsRequest
<1>8. ASSUME k > 0 PROVE Foreign(auth[Sig], Garbled, <<>>)
  <2>1. Garble(r.auth)[Garbled] = <<k>>
    BY <1>8, GarbledAuth DEF HeaderAfter
  <2>2. r.query[Garbled] = <<>> /\ r.body[Garbled] = <<>> /\ oauth[Garbled] = <<>>
    BY <1>2, OAuthNames DEF HeaderAfter, Apart, Fresh
  <2>3. over[Garbled] = ((<<>> \o <<k>>) \o <<>>) \o <<>>
    BY <1>3, <2>1, <2>2, ParametersAt, OAuthNames DEF Join
  <2>4. over[Garbled] = <<k>>
    BY <2>3, SmallLists, ListAndNothing
  <2>5. ToBag(over[Garbled]) # ToBag(<<>>)
    <3>1. <<k>> \in Seq(Nat) /\ <<k>> # <<>>
      OBVIOUS
    <3> QED BY <2>4, <3>1, NoValues
  <2>6. auth[Sig] # <<>> /\ Last(auth[Sig]) = Digest(input.method, r.verb, over)
    <3>1. PICK d : d = Digest(input.method, r.verb, over)
      OBVIOUS
    <3> QED BY <1>5, <3>1, LastOfOne
  <2> QED BY <2>5, <2>6, SignedForeign, OAuthNames
<1>9. HeaderAfter(new, k + 1)
  <2>1. k + 1 > 0 /\ (k + 1 > 1 => k > 0)
    OBVIOUS
  <2> QED BY <1>5, <1>7, <1>8, <2>1 DEF HeaderAfter
<1> QED BY <1>1, <1>3, <1>4, <1>6, <1>9 DEF SetOAuthHeader

LEMMA QueryAgain ==
    ASSUME NEW r, IsRequest(r), NEW k \in Nat, QueryAfter(r, k), k > 0 => ~Unsignable
    PROVE  QueryAfter(SetOAuthQueryString(r, OAuthParameters(r, k + 1)), k + 1)
<1>1. PICK oauth : oauth = OAuthParameters(r, k + 1)
  OBVIOUS
<1>2. Fresh(oauth, k + 1)
  BY <1>1, OAuthParametersFresh
<1>3. PICK query : query = Join(r.query, oauth)
  OBVIOUS
<1>4. query[Nonce] = r.query[Nonce] \o <<k + 1>> /\ query[Sig] = r.query[Sig]
  BY <1>2, <1>3, ListAndNothing, OAuthNames DEF Join, Fresh, QueryAfter
<1>5. /\ query[Nonce] \in Seq(Nat) /\ Len(query[Nonce]) = k + 1
      /\ Last(query[Nonce]) = k + 1
  <2>1. r.query[Nonce] \in Seq(Nat) /\ Len(r.query[Nonce]) = k /\ k + 1 \in Nat
    BY DEF QueryAfter
  <2> QED BY <1>4, <2>1, OneMoreOf
<1>6. PICK first : first = [r EXCEPT !.query = query]
  OBVIOUS
<1>7. /\ first.query = query /\ first.auth = NoParams /\ first.body = r.body
      /\ first = [verb |-> r.verb, query |-> query, auth |-> r.auth, body |-> r.body,
                  carrier |-> r.carrier, type |-> r.type]
  BY <1>6 DEF IsRequest, QueryAfter
<1>8. PICK over : over = Parameters(first)
  OBVIOUS
<1>9. PICK sig : sig = Signed(NoParams, r.verb, over)
  OBVIOUS
<1>10. sig[Nonce] = <<>> /\ sig[Sig] = <<Digest(input.method, r.verb, over)>>
  BY <1>9, SignedAt, NothingToGarble, OAuthNames
<1>11. PICK signed : signed = Join(query, sig)
  OBVIOUS
<1>12. signed[Nonce] = query[Nonce]
  BY <1>5, <1>10, <1>11, OAuthNames, ConcatEmptySeq DEF Join
<1>13. PICK d : d = Digest(input.method, r.verb, over)
  OBVIOUS
<1>14. IsList(signed[Sig]) /\ signed[Sig] # <<>> /\ Last(signed[Sig]) = d
  <2>1. signed[Sig] = r.query[Sig] \o <<d>>
    BY <1>4, <1>10, <1>11, <1>13, OAuthNames DEF Join
  <2> QED BY <2>1, OneMore DEF QueryAfter
<1>15. over[Nonce] = query[Nonce]
  <2>1. r.body[Nonce] = <<>> /\ Garble(first.auth)[Nonce] = <<>>
    BY <1>7, NothingToGarble, OAuthNames DEF QueryAfter, Apart
  <2>2. Parameters(first)[Nonce] = (first.query[Nonce] \o Garble(first.auth)[Nonce])
                                     \o (IF SignsBody(first) THEN first.body[Nonce] ELSE <<>>)
    BY ParametersAt, OAuthNames
  <2>3. over[Nonce] = (query[Nonce] \o <<>>) \o <<>>
    BY <1>7, <1>8, <2>1, <2>2
  <2> QED BY <1>5, <2>3, ConcatEmptySeq
<1>16. ASSUME k > 0 PROVE Foreign(signed[Sig], Nonce, <<Last(signed[Nonce])>>)
  <2>1. ToBag(over[Nonce]) # ToBag(<<k + 1>>)
    <3>1. PICK nonces : nonces = over[Nonce]
      OBVIOUS
    <3>2. nonces \in Seq(Nat) /\ Len(nonces) = k + 1
      BY <1>5, <1>15, <3>1
    <3>3. ASSUME nonces = <<k + 1>> PROVE FALSE
      <4>1. Len(<<k + 1>>) = 1
        OBVIOUS
      <4> QED BY <1>16, <3>2, <3>3, <4>1
    <3> QED BY <3>1, <3>2, <3>3, OneValue
  <2> QED BY <1>5, <1>12, <1>13, <1>14, <2>1, SignedForeign, OAuthNames
<1>17. PICK second : second = [first EXCEPT !.query = signed]
  OBVIOUS
<1>18. second.query = signed /\ second.auth = NoParams /\ second.body = r.body
  BY <1>7, <1>17
<1>19. k + 1 > 1 => k > 0
  OBVIOUS
<1>20. QueryAfter(second, k + 1)
  BY <1>5, <1>12, <1>14, <1>16, <1>18, <1>19 DEF QueryAfter
<1>21. Unsignable => QueryAfter(first, k + 1)
  BY <1>4, <1>5, <1>7, <1>19 DEF QueryAfter
<1>22. SetOAuthQueryString(r, oauth) = IF Unsignable THEN first ELSE second
  <2>1. first.verb = r.verb
    BY <1>7
  <2> QED BY <1>3, <1>6, <1>7, <1>8, <1>9, <1>11, <1>17 DEF SetOAuthQueryString
<1> QED BY <1>1, <1>20, <1>21, <1>22

(* The parameters that go into a form: what the request has wins.          *)
LEMMA WithOAuthAt ==
    ASSUME NEW r, NEW oauth, NEW n \in Name
    PROVE  /\ DOMAIN WithOAuth(r, oauth) = Name
           /\ WithOAuth(r, oauth)[n] =
                IF Parameters(r)[n] = <<>> THEN oauth[n] ELSE Parameters(r)[n]
BY DEF WithOAuth, Merge

LEMMA SetFormDataParts ==
    ASSUME NEW r, IsRequest(r), NEW params, DOMAIN params = Name
    PROVE  /\ SetFormData(r, params) =
                [verb |-> r.verb, query |-> r.query, auth |-> r.auth, body |-> params,
                 carrier |-> "bytes", type |-> "form"]
           /\ IsRequest(SetFormData(r, params))
<1>1. PICK new : new = SetFormData(r, params)
  OBVIOUS
<1>2. new = [verb |-> r.verb, query |-> r.query, auth |-> r.auth, body |-> params,
             carrier |-> "bytes", type |-> "form"]
  BY <1>1 DEF SetFormData, IsRequest
<1>3. IsRequest(new)
  BY <1>2 DEF IsRequest, Types
<1> QED BY <1>1, <1>2, <1>3

(* The body scheme, step by step: what is put into the form, what is read  *)
(* back from it, and what is put into it in the end.                       *)
BodySigned(r, oauth, params, seen, new) ==
    /\ \A n \in Name :
         /\ params[n] = IF Parameters(r)[n] = <<>> THEN oauth[n] ELSE Parameters(r)[n]
         /\ seen[n] = (r.query[n] \o Garble(r.auth)[n])
                        \o (IF r.verb \in {"POST", "PUT"} THEN params[n] ELSE <<>>)
         /\ n # Sig => new.body[n] = seen[n]
    /\ new.body[Sig] = <<Digest(input.method, r.verb, seen)>>
    /\ new = [verb |-> r.verb, query |-> r.query, auth |-> r.auth, body |-> new.body,
              carrier |-> "bytes", type |-> "form"]

LEMMA BodySigns ==
    ASSUME NEW r, IsRequest(r), NEW oauth, ~Unsignable
    PROVE  \E params, seen : BodySigned(r, oauth, params, seen, SetOAuthBody(r, oauth))
<1>1. PICK params : params = WithOAuth(r, oauth)
  OBVIOUS
<1>2. /\ DOMAIN params = Name
      /\ \A n \in Name : params[n] =
           IF Parameters(r)[n] = <<>> THEN oauth[n] ELSE Parameters(r)[n]
  BY <1>1, WithOAuthAt, OAuthNames
<1>3. PICK first : first = SetFormData(r, params)
  OBVIOUS
<1>4. /\ first = [verb |-> r.verb, query |-> r.query, auth |-> r.auth, body |-> params,
                  carrier |-> "bytes", type |-> "form"]
      /\ IsRequest(first)
  BY <1>2, <1>3, SetFormDataParts
<1>5. /\ first.verb = r.verb /\ first.query = r.query /\ first.auth = r.auth
      /\ first.body = params /\ (SignsBody(first) <=> r.verb \in {"POST", "PUT"})
  BY <1>4 DEF SignsBody
<1>6. PICK seen : seen = Parameters(first)
  OBVIOUS
<1>7. DOMAIN seen = Name
  BY <1>6, ParametersAt, OAuthNames
<1>8. ASSUME NEW n \in Name
      PROVE  seen[n] = (r.query[n] \o Garble(r.auth)[n])
                         \o (IF r.verb \in {"POST", "PUT"} THEN params[n] ELSE <<>>)
  <2>1. Parameters(first)[n] = (first.query[n] \o Garble(first.auth)[n])
                                 \o (IF SignsBody(first) THEN first.body[n] ELSE <<>>)
    BY ParametersAt
  <2> QED BY <1>5, <1>6, <2>1
<1>9. PICK signed : signed = Signed(seen, r.verb, seen)
  OBVIOUS
<1>10. /\ DOMAIN signed = Name /\ signed[Sig] = <<Digest(input.method, r.verb, seen)>>
       /\ \A n \in Name : n # Sig => signed[n] = seen[n]
  BY <1>7, <1>9, SignedAt
<1>11. PICK second : second = SetFormData(first, signed)
  OBVIOUS
<1>12. second = [verb |-> first.verb, query |-> first.query, auth |-> first.auth,
                 body |-> signed, carrier |-> "bytes", type |-> "form"]
  BY <1>4, <1>10, <1>11, SetFormDataParts
<1>13. SetOAuthBody(r, oauth) = second
  BY <1>1, <1>3, <1>6, <1>9, <1>11 DEF SetOAuthBody
<1>14. second.body = signed
  BY <1>12
<1>15. BodySigned(r, oauth, params, seen, second)
  BY <1>2, <1>5, <1>8, <1>10, <1>12, <1>14 DEF BodySigned
<1> QED BY <1>13, <1>15

LEMMA BodyAgain ==
    ASSUME NEW r, IsRequest(r), NEW k \in Nat, BodyAfter(r, k), r.verb = input.verb,
           k > 0 => ~Unsignable /\ r.carrier = "bytes"
    PROVE  LET new == SetOAuthBody(r, OAuthParameters(r, k + 1))
           IN  BodyAfter(new, k + 1) /\ new.carrier = "bytes"
<1>1. PICK oauth : oauth = OAuthParameters(r, k + 1)
  OBVIOUS
<1>2. Fresh(oauth, k + 1)
  BY <1>1, OAuthParametersFresh
<1>3. CASE Unsignable
  <2>1. PICK params : params = WithOAuth(r, oauth)
    OBVIOUS
  <2>2. DOMAIN params = Name
    BY <2>1, WithOAuthAt, OAuthNames
  <2>3. SetOAuthBody(r, oauth) = SetFormData(r, params)
    BY <1>3, <2>1 DEF SetOAuthBody
  <2>4. PICK new : new = SetFormData(r, params)
    OBVIOUS
  <2>5. new.query = r.query /\ new.auth = r.auth /\ new.carrier = "bytes"
    BY <2>2, <2>4, SetFormDataParts
  <2>6. BodyAfter(new, k + 1)
    BY <1>3, <2>5 DEF BodyAfter
  <2> QED BY <1>1, <2>3, <2>4, <2>5, <2>6
<1>4. CASE ~Unsignable
  <2>1. PICK new : new = SetOAuthBody(r, oauth)
    OBVIOUS
  <2>2. PICK params, seen : BodySigned(r, oauth, params, seen, new)
    BY <1>4, <2>1, BodySigns
  <2>3. /\ new.query = r.query /\ new.auth = r.auth /\ new.carrier = "bytes"
        /\ new.type = "form"
    BY <2>2 DEF BodySigned
  <2>4. \A n \in Name : Garble(r.auth)[n] = <<>>
    BY NothingToGarble DEF BodyAfter
  <2>5. ASSUME NEW n \in Name \ AppName, n # Sig
        PROVE  new.body[n] = (<<>> \o <<>>)
                               \o (IF input.verb \in {"POST", "PUT"} THEN params[n] ELSE <<>>)
    <3>1. r.query[n] = <<>>
      BY DEF BodyAfter, Apart
    <3> QED BY <2>2, <2>4, <2>5, <3>1 DEF BodySigned
  <2>6. ASSUME input.verb \notin {"POST", "PUT"} PROVE new.body[Method] = <<>>
    <3>1. <<>> \o <<>> = <<>>
      BY SmallLists, ListAndNothing
    <3> QED BY <2>5, <2>6, <3>1, OAuthNames
  <2>7. ASSUME input.verb \in {"POST", "PUT"} PROVE new.body[Nonce] = <<1>>
    <3>1. PICK old : old = Parameters(r)[Nonce]
      OBVIOUS
    <3>2. old = (<<>> \o <<>>) \o (IF SignsBody(r) THEN r.body[Nonce] ELSE <<>>)
      <4>1. r.query[Nonce] = <<>>
        BY OAuthNames DEF BodyAfter, Apart
      <4> QED BY <2>4, <3>1, <4>1, ParametersAt, OAuthNames
    <3>3. <<>> \o <<>> = <<>> /\ <<>> \o <<1>> = <<1>>
      BY SmallLists, ListAndNothing
    <3>4. params[Nonce] = <<1>>
      <4>1. params[Nonce] = IF old = <<>> THEN <<k + 1>> ELSE old
        BY <1>2, <2>2, <3>1, OAuthNames DEF BodySigned, Fresh
      <4>2. CASE k = 0
        <5>1. old = <<>>
          BY <3>2, <3>3, <4>2, OAuthNames DEF BodyAfter, Apart
        <5> QED BY <4>1, <4>2, <5>1
      <4>3. CASE k > 0
        <5>1. SignsBody(r) /\ r.body[Nonce] = <<1>>
          BY <1>4, <2>7, <4>3 DEF BodyAfter, SignsBody
        <5>2. old = <<1>> /\ <<1>> # <<>>
          BY <3>2, <3>3, <5>1
        <5> QED BY <4>1, <5>2
      <4> QED BY <4>2, <4>3
    <3> QED BY <2>5, <2>7, <3>3, <3>4, OAuthNames
  <2>8. BodyAfter(new, k + 1)
    BY <2>3, <2>6, <2>7 DEF BodyAfter
  <2> QED BY <1>1, <2>1, <2>3, <2>8
<1> QED BY <1>3, <1>4

LEMMA SignsAgain ==
    ASSUME input \in Input, NEW r, IsRequest(r), r.verb = input.verb, NEW k \in Nat,
           After(r, k), k > 0 => ~Unsignable,
           input.scheme = "body" /\ k > 0 => r.carrier = "bytes"
    PROVE  LET new == OAuthBang(r, k + 1)
           IN  After(new, k + 1) /\ (input.scheme = "body" => new.carrier = "bytes")
<1>1. PICK oauth : oauth = OAuthParameters(r, k + 1)
  OBVIOUS
<1>2. PICK new : new = OAuthBang(r, k + 1)
  OBVIOUS
<1>3. CASE input.scheme = "header"
  <2>1. new = SetOAuthHeader(r, oauth)
    BY <1>1, <1>2, <1>3 DEF OAuthBang
  <2>2. HeaderAfter(new, k + 1)
    BY <1>1, <1>3, <2>1, HeaderAgain DEF After
  <2> QED BY <1>2, <1>3, <2>2 DEF After
<1>4. CASE input.scheme = "body"
  <2>1. new = SetOAuthBody(r, oauth)
    BY <1>1, <1>2, <1>4 DEF OAuthBang
  <2>2. BodyAfter(new, k + 1) /\ new.carrier = "bytes"
    BY <1>1, <1>4, <2>1, BodyAgain DEF After
  <2> QED BY <1>2, <1>4, <2>2 DEF After
<1>5. CASE input.scheme = "query_string"
  <2>1. new = SetOAuthQueryString(r, oauth)
    BY <1>1, <1>2, <1>5 DEF OAuthBang
  <2>2. QueryAfter(new, k + 1)
    BY <1>1, <1>5, <2>1, QueryAgain DEF After
  <2> QED BY <1>2, <1>5, <2>2 DEF After
<1> QED BY <1>3, <1>4, <1>5, InputTypes DEF Schemes
-----------------------------------------------------------------------------
(* What a Rack server says of a request signed again.                      *)

LEMMA Refused ==
    ASSUME NEW m, NEW name \in Name \ {Sig}, NEW sigs, input.method # "PLAINTEXT",
           RackParameters(m)[Sig] = <<Last(sigs)>>,
           Foreign(sigs, name, RackParameters(m)[name])
    PROVE  ~Verify("RackRequest", m)
<1> SUFFICES ASSUME Verify("RackRequest", m) PROVE FALSE
  OBVIOUS
<1>1. PICK found : found = RackParameters(m)
  OBVIOUS
<1>2. PICK method : method = Head(found[Method])
  OBVIOUS
<1>3. PICK d : d = Digest(method, m.verb, found)
  OBVIOUS
<1>4. found[Sig] = <<d>>
  BY <1>1, <1>2, <1>3 DEF Verify, ForSignature, Sig, Method
<1>5. d = Last(sigs)
  BY <1>1, <1>4
<1>6. d.method = method /\ (method # "PLAINTEXT" => d.params[name] = ToBag(found[name]))
  BY <1>3, DigestShows DEF Sig
<1>7. d.method = input.method /\ d.params[name] # ToBag(found[name])
  BY <1>1, <1>5 DEF Foreign
<1> QED BY <1>6, <1>7

LEMMA OldNonce ==
    ASSUME input \in Input, ~Unsignable, NEW m, NEW k \in Nat, k > 1, After(m, k),
           Verify("RackRequest", m), input.method # "PLAINTEXT"
    PROVE  RackParameters(m)[Nonce] = <<1>>
<1>1. CASE input.scheme = "header"
  <2>1. /\ Foreign(m.auth[Sig], Garbled, <<>>) /\ m.auth[Garbled] = <<>>
        /\ m.query[Garbled] = <<>> /\ m.body[Garbled] = <<>>
    BY <1>1, OAuthNames DEF After, HeaderAfter, Apart
  <2>2. Posted(m)[Garbled] = <<>>
    BY <2>1, OAuthNames DEF Posted, NoParams
  <2>3. RackParameters(m)[Garbled] = <<>>
    BY <2>1, <2>2, ServerFinds, OAuthNames
  <2>4. RackParameters(m)[Sig] = <<Last(m.auth[Sig])>>
    BY <2>1, ServerFinds, OAuthNames DEF Foreign
  <2> QED BY <2>1, <2>3, <2>4, Refused, OAuthNames
<1>2. CASE input.scheme = "query_string"
  <2>1. /\ m.auth = NoParams
        /\ m.query[Nonce] \in Seq(Nat) /\ Len(m.query[Nonce]) = k
        /\ Foreign(m.query[Sig], Nonce, <<Last(m.query[Nonce])>>)
    BY <1>2 DEF After, QueryAfter
  <2>2. m.auth[Nonce] = <<>> /\ m.auth[Sig] = <<>>
    BY <2>1, NothingToGarble, OAuthNames
  <2>3. m.query[Nonce] # <<>> /\ m.query[Sig] # <<>>
    BY <2>1, EmptySeq DEF Foreign
  <2>4. RackParameters(m)[Nonce] = <<Last(m.query[Nonce])>>
    BY <2>2, <2>3, ServerFinds, OAuthNames
  <2>5. RackParameters(m)[Sig] = <<Last(m.query[Sig])>>
    BY <2>2, <2>3, ServerFinds, OAuthNames
  <2> QED BY <2>1, <2>4, <2>5, Refused, OAuthNames
<1>3. CASE input.scheme = "body"
  <2>1. /\ Apart(m.query) /\ m.auth = NoParams /\ m.type = "form"
        /\ IF input.verb \in {"POST", "PUT"} THEN m.body[Nonce] = <<1>>
           ELSE m.body[Method] = <<>>
    BY <1>3 DEF After, BodyAfter
  <2>2. /\ m.auth[Nonce] = <<>> /\ m.auth[Method] = <<>>
        /\ m.query[Nonce] = <<>> /\ m.query[Method] = <<>> /\ Posted(m) = m.body
    BY <2>1, NothingToGarble, OAuthNames DEF Apart, Posted
  <2>3. CASE input.verb \in {"POST", "PUT"}
    <3>1. PICK one : one = <<1>>
      OBVIOUS
    <3>2. one # <<>> /\ Last(one) = 1 /\ m.body[Nonce] = one
      BY <2>1, <2>3, <3>1, LastOfOne
    <3>3. RackParameters(m)[Nonce] = <<Last(one)>>
      <4>1. Posted(m)[Nonce] = one
        BY <2>2, <3>2
      <4> QED BY <2>2, <3>2, <4>1, ServerFindsForm, OAuthNames
    <3> QED BY <3>2, <3>3
  <2>4. CASE input.verb \notin {"POST", "PUT"}
    <3>1. RackParameters(m)[Method] = <<>>
      BY <2>1, <2>2, <2>4, ServerFinds, OAuthNames
    <3> QED BY <3>1 DEF Verify, Method
  <2> QED BY <2>3, <2>4
<1> QED BY <1>1, <1>2, <1>3, InputTypes DEF Schemes
-----------------------------------------------------------------------------
(* Steps.                                                                  *)

LEMMA CreatedAfter ==
    ASSUME input \in Input
    PROVE  /\ After(CreateHttpRequest(input), 0)
           /\ IsRequest(CreateHttpRequest(input))
           /\ CreateHttpRequest(input).verb = input.verb
<1>1. PICK r : r = CreateHttpRequest(input)
  OBVIOUS
<1>2. IsRequest(r) /\ r.verb = input.verb
  BY <1>1, Created DEF Keeps
<1>3. /\ r.query = Asked(input.query) /\ r.auth = NoParams /\ r.body = Asked(input.data)
  BY <1>1 DEF CreateHttpRequest
<1>4. Apart(r.query) /\ Apart(r.body)
  BY <1>3 DEF Apart, Asked
<1>5. r.query[Nonce] = <<>> /\ r.query[Sig] = <<>>
  BY <1>4, OAuthNames DEF Apart
<1>6. <<>> \in Seq(Nat) /\ Len(<<>>) = 0 /\ IsList(<<>>)
  BY SmallLists, EmptySeq
<1>7. HeaderAfter(r, 0) /\ QueryAfter(r, 0) /\ BodyAfter(r, 0)
  BY <1>3, <1>4, <1>5, <1>6 DEF HeaderAfter, QueryAfter, BodyAfter
<1> QED BY <1>1, <1>2, <1>7 DEF After

LEMMA InitVerdict == Init => VerdictInv
<1> SUFFICES ASSUME Init PROVE VerdictInv
  OBVIOUS
<1>1. /\ input \in Input /\ req = CreateHttpRequest(input) /\ status = "unsigned"
      /\ signs = 0 /\ wire = {} /\ verdicts = {}
  BY DEF Init
<1>2. SigningInv /\ After(req, signs)
  BY <1>1, InitSigning, CreatedAfter
<1>3. req.carrier = AskedCarrier /\ req.type = AskedType
  BY <1>1 DEF CreateHttpRequest, AskedCarrier, AskedType
<1> QED BY <1>1, <1>2, <1>3 DEF VerdictInv


(* The first signing vouches for what the application asked for.           *)
LEMMA FirstCovers ==
    ASSUME input \in Input, NEW r, r = CreateHttpRequest(input)
    PROVE  \A n \in Name : Parameters(r)[n] =
             IF n \in AppName THEN input.query[n] \o (IF FormSigned THEN input.data[n] ELSE <<>>)
             ELSE <<>>
<1>1. /\ r.verb = input.verb /\ r.query = Asked(input.query) /\ r.auth = NoParams
      /\ r.body = Asked(input.data)
      /\ r.carrier = IF input.given \in {"none", "stream"} THEN input.given ELSE "bytes"
      /\ r.type = IF input.given = "hash" THEN "form" ELSE input.type
  BY DEF CreateHttpRequest
<1>2. SignsBody(r) <=> FormSigned
  BY <1>1, InputTypes DEF SignsBody, FormSigned
<1>3. ASSUME NEW n \in Name
      PROVE  Parameters(r)[n] =
               IF n \in AppName
               THEN input.query[n] \o (IF FormSigned THEN input.data[n] ELSE <<>>) ELSE <<>>
  <2>1. Garble(r.auth)[n] = <<>>
    BY <1>1, NothingToGarble
  <2>2. /\ r.query[n] = IF n \in AppName THEN input.query[n] ELSE <<>>
        /\ r.body[n] = IF n \in AppName THEN input.data[n] ELSE <<>>
    BY <1>1 DEF Asked
  <2>3. Parameters(r)[n] = (r.query[n] \o <<>>) \o (IF FormSigned THEN r.body[n] ELSE <<>>)
    BY <1>2, <2>1, ParametersAt
  <2>4. n \in AppName => r.query[n] \o <<>> = input.query[n]
    BY <2>2, InputTypes, ConcatEmptySeq
  <2>5. <<>> \o <<>> = <<>>
    BY SmallLists, ListAndNothing
  <2> QED BY <2>2, <2>3, <2>4, <2>5
<1> QED BY <1>3

LEMMA CoveredLists ==
    ASSUME input \in Input, NEW n \in AppName
    PROVE  /\ input.query[n] \o (IF FormSigned THEN input.data[n] ELSE <<>>) \in Seq(AppValue)
           /\ Covered(n) \in Seq(AppValue)
<1>1. PICK form : form = IF FormSigned THEN input.data[n] ELSE <<>>
  OBVIOUS
<1>2. form \in Seq(AppValue) /\ input.query[n] \in Seq(AppValue)
  BY <1>1, InputTypes, EmptySeq
<1>3. PICK data : data = input.query[n] \o form
  OBVIOUS
<1>4. data \in Seq(AppValue) /\ input.query[n] \o data \in Seq(AppValue)
  BY <1>2, <1>3, ConcatProperties
<1> QED BY <1>1, <1>3, <1>4 DEF Covered

LEMMA FirstHeader ==
    ASSUME input \in Input, input.scheme = "header", NEW r, r = CreateHttpRequest(input)
    PROVE  LET new == SetOAuthHeader(r, OAuthParameters(r, 1))
           IN  Bears(new.auth) /\ \A n \in AppName : new.auth[n] = <<>>
<1>1. PICK oauth : oauth = OAuthParameters(r, 1)
  OBVIOUS
<1>2. Fresh(oauth, 1)
  BY <1>1, OAuthParametersFresh
<1>3. PICK over : over = Join(Parameters(r), oauth)
  OBVIOUS
<1>4. PICK auth : auth = Signed(oauth, input.verb, over)
  OBVIOUS
<1>5. /\ auth[Sig] = <<Digest(input.method, input.verb, over)>>
      /\ \A n \in Name : n # Sig => auth[n] = oauth[n]
  BY <1>2, <1>4, SignedAt DEF Fresh
<1>6. ASSUME NEW n \in Name \ {Sig}
      PROVE  over[n] = IF n \in AppName THEN Covered(n) ELSE auth[n]
  <2>1. over[n] = Parameters(r)[n] \o oauth[n]
    BY <1>3 DEF Join
  <2>2. CASE n \in AppName
    <3>1. Parameters(r)[n] = Covered(n)
      BY <2>2, FirstCovers DEF Covered
    <3>2. oauth[n] = <<>> /\ Covered(n) \in Seq(AppValue)
      BY <1>2, <2>2, CoveredLists DEF Fresh
    <3> QED BY <2>1, <2>2, <3>1, <3>2, ConcatEmptySeq
  <2>3. CASE n \notin AppName
    <3>1. Parameters(r)[n] = <<>>
      BY <2>3, FirstCovers
    <3>2. oauth[n] = <<>> \/ \E x : oauth[n] = <<x>>
      BY <1>2 DEF Fresh
    <3>3. IsList(oauth[n])
      BY <3>2, SmallLists
    <3> QED BY <1>5, <2>1, <2>3, <3>1, <3>3, ListAndNothing
  <2> QED BY <2>2, <2>3
<1>7. auth[Method] = <<input.method>> /\ \A n \in AppName : auth[n] = <<>>
  BY <1>2, <1>5, OAuthNames, AppNames DEF Fresh
<1>8. ASSUME NEW n \in Name \ AppName PROVE auth[n] = <<>> \/ \E x : auth[n] = <<x>>
  BY <1>2, <1>5 DEF Fresh
<1>9. Bears(auth)
  BY <1>5, <1>6, <1>7, <1>8 DEF Bears
<1>10. PICK new : new = SetOAuthHeader(r, oauth)
  OBVIOUS
<1>11. new.auth = auth
  <2>1. IsRequest(r) /\ r.verb = input.verb
    BY CreatedAfter
  <2>2. new = [r EXCEPT !.auth = auth]
    BY <1>3, <1>4, <1>10, <2>1 DEF SetOAuthHeader
  <2> QED BY <2>1, <2>2 DEF IsRequest
<1> QED BY <1>1, <1>7, <1>9, <1>10, <1>11

LEMMA FirstQuery ==
    ASSUME input \in Input, input.scheme = "query_string", ~Unsignable,
           NEW r, r = CreateHttpRequest(input)
    PROVE  Bears(SetOAuthQueryString(r, OAuthParameters(r, 1)).query)
<1>1. PICK oauth : oauth = OAuthParameters(r, 1)
  OBVIOUS
<1>2. Fresh(oauth, 1)
  BY <1>1, OAuthParametersFresh
<1>3. /\ IsRequest(r) /\ r.verb = input.verb /\ r.query = Asked(input.query)
      /\ r.auth = NoParams /\ r.body = Asked(input.data)
  BY CreatedAfter DEF CreateHttpRequest
<1>4. PICK query : query = Join(r.query, oauth)
  OBVIOUS
<1>5. ASSUME NEW n \in Name
      PROVE  query[n] = IF n \in AppName THEN input.query[n] ELSE oauth[n]
  <2>1. query[n] = r.query[n] \o oauth[n]
    BY <1>4 DEF Join
  <2>2. CASE n \in AppName
    <3>1. r.query[n] = input.query[n] /\ input.query[n] \in Seq(AppValue) /\ oauth[n] = <<>>
      BY <1>2, <1>3, <2>2, InputTypes DEF Fresh, Asked
    <3> QED BY <2>1, <2>2, <3>1, ConcatEmptySeq
  <2>3. CASE n \notin AppName
    <3>1. r.query[n] = <<>> /\ (oauth[n] = <<>> \/ \E x : oauth[n] = <<x>>)
      BY <1>2, <1>3, <2>3 DEF Fresh, Asked
    <3>2. IsList(oauth[n])
      BY <3>1, SmallLists
    <3> QED BY <2>1, <2>3, <3>1, <3>2, ListAndNothing
  <2> QED BY <2>2, <2>3
<1>6. PICK first : first = [r EXCEPT !.query = query]
  OBVIOUS
<1>7. first = [verb |-> r.verb, query |-> query, auth |-> r.auth, body |-> r.body,
               carrier |-> r.carrier, type |-> r.type]
  BY <1>3, <1>6 DEF IsRequest
<1>8. /\ first.query = query /\ first.auth = NoParams /\ first.body = r.body
      /\ first.verb = r.verb /\ first.carrier = r.carrier /\ first.type = r.type
  BY <1>3, <1>7
<1>9. PICK over : over = Parameters(first)
  OBVIOUS
<1>10. ASSUME NEW n \in Name \ {Sig}
       PROVE  over[n] = IF n \in AppName THEN Covered(n) ELSE query[n]
  <2>1. Parameters(first)[n] = (first.query[n] \o Garble(first.auth)[n])
                                 \o (IF SignsBody(first) THEN first.body[n] ELSE <<>>)
    BY ParametersAt
  <2>2. (SignsBody(first) <=> SignsBody(r)) /\ Garble(first.auth)[n] = <<>>
    BY <1>8, NothingToGarble DEF SignsBody
  <2>3. over[n] = (query[n] \o <<>>) \o (IF SignsBody(r) THEN r.body[n] ELSE <<>>)
    BY <1>8, <1>9, <2>1, <2>2
  <2>4. CASE n \in AppName
    <3>1. query[n] = r.query[n] /\ Garble(r.auth)[n] = <<>>
      BY <1>3, <1>5, <2>4, NothingToGarble DEF Asked
    <3>2. over[n] = Parameters(r)[n]
      BY <2>3, <3>1, ParametersAt
    <3>3. Parameters(r)[n] = Covered(n)
      BY <2>4, FirstCovers DEF Covered
    <3> QED BY <2>4, <3>2, <3>3
  <2>5. CASE n \notin AppName
    <3>1. r.body[n] = <<>> /\ (query[n] = <<>> \/ \E x : query[n] = <<x>>)
      BY <1>2, <1>3, <1>5, <2>5 DEF Fresh, Asked
    <3>2. IsList(query[n])
      BY <3>1, SmallLists
    <3> QED BY <2>3, <2>5, <3>1, <3>2, ListAndNothing
  <2> QED BY <2>4, <2>5
<1>11. PICK sig : sig = Signed(NoParams, r.verb, over)
  OBVIOUS
<1>12. PICK d : d = Digest(input.method, input.verb, over)
  OBVIOUS
<1>13. sig[Sig] = <<d>> /\ \A n \in Name : n # Sig => sig[n] = <<>>
  BY <1>3, <1>11, <1>12, SignedAt, NothingToGarble
<1>14. PICK signed : signed = Join(query, sig)
  OBVIOUS
<1>15. signed[Sig] = <<d>>
  <2>1. query[Sig] = <<>>
    BY <1>2, <1>5, OAuthNames DEF Fresh
  <2>2. signed[Sig] = <<>> \o <<d>>
    BY <1>13, <1>14, <2>1, OAuthNames DEF Join
  <2> QED BY <2>2, SmallLists, ListAndNothing
<1>16. ASSUME NEW n \in Name \ AppName, n # Sig
       PROVE  signed[n] = oauth[n] /\ query[n] = oauth[n] /\ (oauth[n] = <<>> \/ \E x : oauth[n] = <<x>>)
  <2>1. query[n] = oauth[n] /\ (oauth[n] = <<>> \/ \E x : oauth[n] = <<x>>)
    BY <1>2, <1>5 DEF Fresh
  <2>2. IsList(query[n])
    BY <2>1, SmallLists
  <2>3. signed[n] = query[n] \o <<>>
    BY <1>13, <1>14, <1>16 DEF Join
  <2> QED BY <2>1, <2>2, <2>3, ListAndNothing
<1>17. Bears(signed)
  <2>1. signed[Method] = <<input.method>>
    BY <1>2, <1>16, OAuthNames DEF Fresh
  <2>2. \A n \in Name \ AppName : signed[n] = <<>> \/ \E x : signed[n] = <<x>>
    BY <1>15, <1>16
  <2>3. \A n \in Name \ {Sig} : over[n] = IF n \in AppName THEN Covered(n) ELSE signed[n]
    BY <1>10, <1>16
  <2> QED BY <1>12, <1>15, <2>1, <2>2, <2>3 DEF Bears
<1>18. PICK second : second = [first EXCEPT !.query = signed]
  OBVIOUS
<1>19. second.query = signed
  BY <1>7, <1>18
<1>20. SetOAuthQueryString(r, oauth) = second
  BY <1>4, <1>6, <1>8, <1>9, <1>11, <1>14, <1>18 DEF SetOAuthQueryString
<1> QED BY <1>1, <1>17, <1>19, <1>20

LEMMA FirstBody ==
    ASSUME input \in Input, input.scheme = "body", Posting, ~Unsignable,
           NEW r, r = CreateHttpRequest(input)
    PROVE  LET new == SetOAuthBody(r, OAuthParameters(r, 1))
           IN  Bears(new.body) /\ \A n \in AppName : new.body[n] = Covered(n)
<1>1. PICK oauth : oauth = OAuthParameters(r, 1)
  OBVIOUS
<1>2. Fresh(oauth, 1)
  BY <1>1, OAuthParametersFresh
<1>3. /\ IsRequest(r) /\ r.verb = input.verb /\ r.query = Asked(input.query)
      /\ r.auth = NoParams
  BY CreatedAfter DEF CreateHttpRequest
<1>4. PICK new : new = SetOAuthBody(r, oauth)
  OBVIOUS
<1>5. PICK params, over : BodySigned(r, oauth, params, over, new)
  BY <1>3, <1>4, BodySigns
<1>6. /\ new.body[Sig] = <<Digest(input.method, input.verb, over)>>
      /\ \A n \in Name : n # Sig => new.body[n] = over[n]
  BY <1>3, <1>5 DEF BodySigned
<1>7. ASSUME NEW n \in AppName PROVE over[n] = Covered(n)
  <2>1. PICK data : data = input.query[n] \o (IF FormSigned THEN input.data[n] ELSE <<>>)
    OBVIOUS
  <2>2. Parameters(r)[n] = data /\ oauth[n] = <<>>
    BY <1>2, <2>1, FirstCovers, AppNames DEF Fresh
  <2>3. params[n] = data
    BY <1>5, <2>2, AppNames DEF BodySigned
  <2>4. r.query[n] = input.query[n] /\ Garble(r.auth)[n] = <<>>
    BY <1>3, AppNames, NothingToGarble DEF Asked
  <2>5. over[n] = (input.query[n] \o <<>>) \o data
    BY <1>3, <1>5, <2>3, <2>4, AppNames DEF BodySigned, Posting
  <2>6. input.query[n] \o <<>> = input.query[n]
    BY InputTypes, ConcatEmptySeq
  <2>7. Covered(n) = input.query[n] \o data
    BY <2>1 DEF Covered
  <2> QED BY <2>5, <2>6, <2>7
<1>8. ASSUME NEW n \in Name \ AppName PROVE over[n] = oauth[n] /\ (oauth[n] = <<>> \/ \E x : oauth[n] = <<x>>)
  <2>1. Parameters(r)[n] = <<>>
    BY FirstCovers
  <2>2. params[n] = oauth[n]
    BY <1>5, <2>1 DEF BodySigned
  <2>3. r.query[n] = <<>> /\ Garble(r.auth)[n] = <<>>
    BY <1>3, NothingToGarble DEF Asked
  <2>4. over[n] = (<<>> \o <<>>) \o oauth[n]
    BY <1>3, <1>5, <2>2, <2>3 DEF BodySigned, Posting
  <2>5. oauth[n] = <<>> \/ \E x : oauth[n] = <<x>>
    BY <1>2 DEF Fresh
  <2>6. IsList(oauth[n])
    BY <2>5, SmallLists
  <2> QED BY <2>4, <2>5, <2>6, SmallLists, ListAndNothing
<1>9. new.body[Method] = <<input.method>>
  BY <1>2, <1>6, <1>8, OAuthNames DEF Fresh
<1>10. ASSUME NEW n \in Name \ AppName
       PROVE  new.body[n] = <<>> \/ \E x : new.body[n] = <<x>>
  BY <1>6, <1>8
<1>11. \A n \in Name \ {Sig} : over[n] = IF n \in AppName THEN Covered(n) ELSE new.body[n]
  BY <1>6, <1>7
<1>12. Bears(new.body)
  BY <1>6, <1>9, <1>10, <1>11 DEF Bears
<1>13. \A n \in AppName : new.body[n] = Covered(n)
  BY <1>6, <1>7, AppNames, OAuthNames
<1> QED BY <1>1, <1>4, <1>12, <1>13

LEMMA FirstVouched ==
    ASSUME input \in Input, ~Unsignable, NEW r, r = CreateHttpRequest(input)
    PROVE  Vouched(OAuthBang(r, 1))
<1>1. PICK oauth : oauth = OAuthParameters(r, 1)
  OBVIOUS
<1>2. PICK new : new = OAuthBang(r, 1)
  OBVIOUS
<1>3. CASE input.scheme = "header"
  <2>1. new = SetOAuthHeader(r, oauth)
    BY <1>1, <1>2, <1>3 DEF OAuthBang
  <2> QED BY <1>1, <1>2, <1>3, <2>1, FirstHeader DEF Vouched
<1>4. CASE input.scheme = "body"
  <2>1. new = SetOAuthBody(r, oauth)
    BY <1>1, <1>2, <1>4 DEF OAuthBang
  <2> QED BY <1>1, <1>2, <1>4, <2>1, FirstBody DEF Vouched
<1>5. CASE input.scheme = "query_string"
  <2>1. new = SetOAuthQueryString(r, oauth)
    BY <1>1, <1>2, <1>5 DEF OAuthBang
  <2> QED BY <1>1, <1>2, <1>5, <2>1, FirstQuery DEF Vouched
<1> QED BY <1>3, <1>4, <1>5, InputTypes DEF Schemes

(* No scheme but the body's changes the carrier or the type.               *)
LEMMA SigningLeavesType ==
    ASSUME input \in Input, input.scheme # "body", NEW r, IsRequest(r), NEW nonce
    PROVE  OAuthBang(r, nonce).carrier = r.carrier /\ OAuthBang(r, nonce).type = r.type
<1>1. PICK oauth : oauth = OAuthParameters(r, nonce)
  OBVIOUS
<1>2. PICK new : new = OAuthBang(r, nonce)
  OBVIOUS
<1>3. CASE input.scheme = "header"
  <2>1. PICK auth : auth = Signed(oauth, r.verb, Join(Parameters(r), oauth))
    OBVIOUS
  <2>2. new = [r EXCEPT !.auth = auth]
    BY <1>1, <1>2, <1>3, <2>1 DEF OAuthBang, SetOAuthHeader
  <2> QED BY <1>2, <2>2 DEF IsRequest
<1>4. CASE input.scheme = "query_string"
  <2>1. PICK first : first = [r EXCEPT !.query = Join(r.query, oauth)]
    OBVIOUS
  <2>2. PICK query : query = Join(first.query, Signed(NoParams, r.verb, Parameters(first)))
    OBVIOUS
  <2>3. new = IF Unsignable THEN first ELSE [first EXCEPT !.query = query]
    BY <1>1, <1>2, <1>4, <2>1, <2>2 DEF OAuthBang, SetOAuthQueryString
  <2>4. /\ DOMAIN first = DOMAIN r /\ first.carrier = r.carrier /\ first.type = r.type
    BY <2>1 DEF IsRequest
  <2>5. DOMAIN r = {"verb", "query", "auth", "body", "carrier", "type"}
    BY DEF IsRequest
  <2> QED BY <1>2, <2>3, <2>4, <2>5
<1> QED BY <1>3, <1>4, InputTypes DEF Schemes

(* The facts about a request do not change while the request does not.     *)
LEMMA MessagesKept ==
    ASSUME VerdictInv, UNCHANGED <<input, wire>>
    PROVE  (\A m \in wire :
              /\ After(m, m.signs) /\ (m.signs = 1 => Vouched(m))
              /\ m.verb = input.verb /\ (input.scheme # "body" => m.type = SentType)
              /\ \A n \in AppName : m.query[n] = input.query[n])'
BY DEF VerdictInv, After, HeaderAfter, QueryAfter, BodyAfter, Foreign, Unsignable,
       Vouched, Bears, Covered, FormSigned, Posting, SentType, GetsType, AskedType

LEMMA SignVerdict ==
    ASSUME VerdictInv, Sign
    PROVE  VerdictInv'
<1>1. /\ SigningInv /\ input \in Input /\ signs \in Nat /\ IsRequest(req)
      /\ req.verb = input.verb /\ After(req, signs)
      /\ input.scheme = "body" /\ signs > 0 => req.carrier = "bytes"
      /\ status # "raised" /\ status \in {"unsigned", "signed", "raised"}
      /\ status = "unsigned" <=> signs = 0
      /\ status = "signed" => ~Unsignable
      /\ wire # {} => ~Unsignable
  BY InputsFit DEF VerdictInv, SigningInv, TypeOK, Keeps, Sign
<1>2. /\ req' = OAuthBang(req, signs + 1) /\ signs' = signs + 1
      /\ status' = IF Unsignable THEN "raised" ELSE "signed"
      /\ UNCHANGED <<input, sends, wire, verdicts>>
  BY DEF Sign
<1>3. PICK new : new = OAuthBang(req, signs + 1)
  OBVIOUS
<1>4. After(new, signs + 1) /\ (input.scheme = "body" => new.carrier = "bytes")
  BY <1>1, <1>3, SignsAgain
<1>5. SigningInv'
  BY <1>1, SignKeeps
<1>6. After(req, signs)'
  BY <1>2, <1>3, <1>4
     DEF After, HeaderAfter, QueryAfter, BodyAfter, Foreign, Unsignable
<1>7. ASSUME signs = 0, ~Unsignable PROVE Vouched(new)
  <2>1. req = CreateHttpRequest(input)
    BY <1>7 DEF VerdictInv
  <2> QED BY <1>1, <1>3, <1>7, <2>1, FirstVouched
<1>8. (signs = 1 /\ ~Unsignable => Vouched(req))'
  <2>1. signs' = 1 => signs = 0
    BY <1>1, <1>2
  <2> QED BY <1>2, <1>3, <1>7, <2>1
          DEF Unsignable, Vouched, Bears, Covered, FormSigned, Posting
<1>9. (IF input.scheme = "body" THEN signs > 0 => req.carrier = "bytes"
       ELSE req.carrier = AskedCarrier /\ req.type \in {AskedType, SentType})'
  <2>1. CASE input.scheme = "body"
    BY <1>2, <1>3, <1>4, <2>1
  <2>2. CASE input.scheme # "body"
    <3>1. new.carrier = req.carrier /\ new.type = req.type
      BY <1>1, <1>3, <2>2, SigningLeavesType
    <3> QED BY <1>2, <1>3, <2>2, <3>1
            DEF VerdictInv, AskedCarrier, AskedType, SentType, GetsType
  <2> QED BY <2>1, <2>2
<1>10. (status = "signed" \/ wire # {} => ~Unsignable)' /\ signs' # 0
  BY <1>1, <1>2 DEF Unsignable
<1>11. (\A v \in verdicts : v.ok = Verify(v.by, v.of))'
  BY <1>2 DEF VerdictInv
<1> QED BY <1>2, <1>5, <1>6, <1>8, <1>9, <1>10, <1>11, MessagesKept DEF VerdictInv

LEMMA TransmitVerdict ==
    ASSUME VerdictInv, Transmit
    PROVE  VerdictInv'
<1>1. PICK type : type = IF req.carrier # "none" /\ req.type = "none" /\ input.formByDefault
                         THEN "form" ELSE req.type
  OBVIOUS
<1>2. PICK left : left = IF req.carrier = "stream" THEN NoParams ELSE req.body
  OBVIOUS
<1>3. PICK m : m = [signs |-> signs, sends |-> sends + 1, verb |-> req.verb,
                    query |-> req.query, auth |-> req.auth, body |-> req.body, type |-> type]
  OBVIOUS
<1>4. /\ status = "signed" /\ wire' = wire \cup {m}
      /\ req' = [req EXCEPT !.type = type, !.body = left]
      /\ UNCHANGED <<input, status, signs, verdicts>>
  BY <1>1, <1>2, <1>3 DEF Transmit
<1>5. /\ SigningInv /\ input \in Input /\ IsRequest(req) /\ signs \in Nat
      /\ After(req, signs) /\ ~Unsignable /\ signs # 0 /\ req.verb = input.verb
      /\ (signs = 1 => Vouched(req))
      /\ \A n \in AppName : req.query[n] = input.query[n]
  BY <1>4, InputsFit DEF VerdictInv, SigningInv, TypeOK, Keeps
<1>6. PICK new : /\ new = req'
                 /\ new = [verb |-> req.verb, query |-> req.query, auth |-> req.auth,
                           body |-> left, carrier |-> req.carrier, type |-> type]
  BY <1>4, <1>5 DEF IsRequest
<1>7. /\ new.query = req.query /\ new.auth = req.auth /\ new.body = left
      /\ new.type = type /\ new.carrier = req.carrier
      /\ m.query = req.query /\ m.auth = req.auth /\ m.body = req.body
      /\ m.type = type /\ m.signs = signs /\ m.verb = req.verb
  BY <1>3, <1>6
<1>8. Apart(req.body) => Apart(left)
  BY <1>2, NothingToGarble DEF Apart
<1>9. input.scheme = "body" => left = req.body /\ type = req.type
  <2> SUFFICES ASSUME input.scheme = "body" PROVE left = req.body /\ type = req.type
    OBVIOUS
  <2>1. req.carrier = "bytes" /\ req.type = "form"
    BY <1>5 DEF VerdictInv, After, BodyAfter
  <2> QED BY <1>1, <1>2, <2>1
<1>10. After(new, signs) /\ After(m, m.signs)
  <2>1. CASE input.scheme = "header"
    BY <1>5, <1>7, <1>8, <2>1 DEF After, HeaderAfter
  <2>2. CASE input.scheme = "query_string"
    BY <1>5, <1>7, <1>8, <2>2 DEF After, QueryAfter
  <2>3. CASE input.scheme = "body"
    BY <1>5, <1>7, <1>9, <2>3 DEF After, BodyAfter
  <2> QED BY <2>1, <2>2, <2>3, InputTypes, <1>5 DEF Schemes
<1>11. signs = 1 => Vouched(new) /\ Vouched(m)
  BY <1>5, <1>7, <1>9 DEF Vouched
<1>12. ASSUME input.scheme # "body"
       PROVE  type = SentType /\ req.carrier = AskedCarrier
  <2>1. req.carrier = AskedCarrier /\ req.type \in {AskedType, SentType}
    BY <1>12 DEF VerdictInv
  <2>2. req.carrier = "none" <=> input.given = "none"
    BY <2>1, InputTypes, <1>5 DEF AskedCarrier
  <2> QED BY <1>1, <2>1, <2>2 DEF SentType, GetsType
<1>13. SigningInv'
  BY <1>5, TransmitKeeps
<1>14. After(req, signs)'
  BY <1>4, <1>6, <1>10
     DEF After, HeaderAfter, QueryAfter, BodyAfter, Foreign, Unsignable
<1>15. (signs = 1 /\ ~Unsignable => Vouched(req))'
  BY <1>4, <1>6, <1>11 DEF Vouched, Bears, Covered, FormSigned, Posting
<1>16. (IF input.scheme = "body" THEN signs > 0 => req.carrier = "bytes"
        ELSE req.carrier = AskedCarrier /\ req.type \in {AskedType, SentType})'
  BY <1>4, <1>6, <1>7, <1>12 DEF VerdictInv, AskedCarrier, AskedType, SentType, GetsType
<1>17. ASSUME NEW w \in wire'
       PROVE  (/\ After(w, w.signs) /\ (w.signs = 1 => Vouched(w))
               /\ w.verb = input.verb /\ (input.scheme # "body" => w.type = SentType)
               /\ \A n \in AppName : w.query[n] = input.query[n])'
  <2>1. /\ After(w, w.signs) /\ (w.signs = 1 => Vouched(w))
        /\ w.verb = input.verb /\ (input.scheme # "body" => w.type = SentType)
        /\ \A n \in AppName : w.query[n] = input.query[n]
    <3>1. CASE w \in wire
      BY <3>1 DEF VerdictInv
    <3>2. CASE w = m
      BY <1>5, <1>7, <1>10, <1>11, <1>12, <3>2
    <3> QED BY <1>4, <3>1, <3>2
  <2> QED BY <1>4, <2>1
          DEF After, HeaderAfter, QueryAfter, BodyAfter, Foreign, Unsignable,
              Vouched, Bears, Covered, FormSigned, Posting, SentType, GetsType, AskedType
<1>18. (status = "signed" \/ wire # {} => ~Unsignable)' /\ signs' # 0
       /\ (\A v \in verdicts : v.ok = Verify(v.by, v.of))'
  BY <1>4, <1>5 DEF Unsignable, VerdictInv
<1> QED BY <1>13, <1>14, <1>15, <1>16, <1>17, <1>18 DEF VerdictInv

LEMMA ReceiveVerdict ==
    ASSUME VerdictInv, NEW server \in Servers, Receive(server)
    PROVE  VerdictInv'
<1>1. PICK m \in wire :
        /\ verdicts' = verdicts \cup {[of |-> m, by |-> server, ok |-> Verify(server, m)]}
        /\ UNCHANGED <<input, req, status, signs, sends, wire>>
  BY DEF Receive
<1>2. PICK v : v = [of |-> m, by |-> server, ok |-> Verify(server, m)]
  OBVIOUS
<1>3. verdicts' = verdicts \cup {v} /\ v.ok = Verify(v.by, v.of)
  BY <1>1, <1>2
<1>4. (\A w \in verdicts : w.ok = Verify(w.by, w.of))'
  BY <1>3 DEF VerdictInv
<1>5. SigningInv'
  BY ReceiveKeeps DEF VerdictInv
<1> QED BY <1>1, <1>4, <1>5, MessagesKept
        DEF VerdictInv, After, HeaderAfter, QueryAfter, BodyAfter, Foreign, Unsignable,
            Vouched, Bears, Covered, FormSigned, Posting, SentType, GetsType, AskedType,
            AskedCarrier

LEMMA NextVerdict ==
    ASSUME VerdictInv, [Next]_vars
    PROVE  VerdictInv'
<1>1. CASE UNCHANGED vars
  <2>1. SigningInv'
    BY <1>1, NextSigning DEF VerdictInv
  <2> QED BY <1>1, <2>1, MessagesKept
          DEF vars, VerdictInv, After, HeaderAfter, QueryAfter, BodyAfter, Foreign,
              Unsignable, Vouched, Bears, Covered, FormSigned, Posting, SentType,
              GetsType, AskedType, AskedCarrier
<1> QED BY <1>1, SignVerdict, TransmitVerdict, ReceiveVerdict DEF Next
-----------------------------------------------------------------------------
(* Whatever is signed and sent again, a request keeps what tells servers   *)
(* its first signing from a later one, and verdicts are those on messages. *)
THEOREM VerdictInvariance == Spec => []VerdictInv
<1>1. VerdictInv /\ [Next]_vars => VerdictInv'
  BY NextVerdict
<1> QED BY InitVerdict, <1>1, PTL DEF Spec

(* Signing a request again gives it no new life: a Rack server refuses it, *)
(* or it still has the nonce of its first signing.                         *)
THEOREM OldRequestsStayOld == Spec => []NoNewLife
<1>1. VerdictInv => NoNewLife
  <2> SUFFICES ASSUME VerdictInv, NEW v \in verdicts, v.ok, v.of.signs > 1,
                      v.by = "RackRequest", input.method # "PLAINTEXT"
               PROVE  RackParameters(v.of)["oauth_nonce"] = <<1>>
    BY DEF NoNewLife
  <2>1. PICK m \in wire : m = v.of
    BY DEF VerdictInv, SigningInv, TypeOK
  <2>2. /\ input \in Input /\ ~Unsignable /\ After(m, m.signs)
        /\ Verify("RackRequest", m) /\ m.signs \in Nat
    BY <2>1, InputsFit DEF VerdictInv, SigningInv, TypeOK
  <2> QED BY <2>1, <2>2, OldNonce DEF Nonce
<1> QED BY VerdictInvariance, <1>1, PTL
-----------------------------------------------------------------------------
(* Which requests a server verifies.                                       *)

(* So a signature is verified when it covers the application's parameters  *)
(* as the server reads them.                                               *)
LEMMA Comparing ==
    ASSUME NEW server \in Servers, NEW m, m.verb = input.verb, NEW part, Bears(part),
           \A n \in Name \ AppName :
             RackParameters(m)[n] = part[n] /\ RawParameters(m)[n] = part[n]
    PROVE  Verify(server, m)
             <=> \/ input.method = "PLAINTEXT"
                 \/ \A n \in AppName :
                      ToBag(Covered(n)) = ToBag(ForSignature(server, m)[n])
<1>1. PICK over : /\ part[Sig] = <<Digest(input.method, input.verb, over)>>
                  /\ \A n \in Name \ {Sig} :
                       over[n] = IF n \in AppName THEN Covered(n) ELSE part[n]
  BY DEF Bears
<1>2. PICK sig : sig = Digest(input.method, input.verb, over)
  OBVIOUS
<1>3. RackParameters(m)[Method] = <<input.method>> /\ RackParameters(m)[Sig] = <<sig>>
  BY <1>1, <1>2, OAuthNames DEF Bears
<1>4. PICK found : found = ForSignature(server, m)
  OBVIOUS
<1>5. Verify(server, m) <=> sig = Digest(input.method, input.verb, found)
  BY <1>3, <1>4, VerifyFound DEF Sig, Method
<1>6. \A n \in Name \ AppName : found[n] = part[n]
  BY <1>4 DEF ForSignature
<1>7. Verify(server, m)
        <=> \/ input.method = "PLAINTEXT"
            \/ \A n \in Name \ {Sig} : ToBag(over[n]) = ToBag(found[n])
  BY <1>2, <1>5, SameDigest DEF Sig
<1>8. ASSUME NEW n \in Name \ {Sig}
      PROVE  /\ n \in AppName => over[n] = Covered(n)
             /\ n \notin AppName => ToBag(over[n]) = ToBag(found[n])
  BY <1>1, <1>6
<1>9. (\A n \in Name \ {Sig} : ToBag(over[n]) = ToBag(found[n]))
        <=> \A n \in AppName : ToBag(Covered(n)) = ToBag(found[n])
  BY <1>8, AppNames, OAuthNames
<1> QED BY <1>4, <1>7, <1>9

(* The form that a server reads.                                           *)
LEMMA PostedAsked ==
    ASSUME input \in Input, input.scheme # "body", NEW m, m.verb = input.verb,
           m.type = SentType, NEW n \in AppName, m.body[n] = input.data[n]
    PROVE  /\ Posted(m)[n] = IF FormRead("RackRequest") THEN input.data[n] ELSE <<>>
           /\ (IF m.verb \in {"POST", "PUT"} THEN Posted(m)[n] ELSE <<>>)
                = IF FormRead("ActionControllerRequest") THEN input.data[n] ELSE <<>>
<1>1. Posted(m)[n] = IF m.type = "form" THEN input.data[n] ELSE <<>>
  BY AppNames DEF Posted, NoParams
<1>2. CASE input.given = "none"
  <2>1. input.data[n] = <<>>
    BY <1>2, InputsFit
  <2> QED BY <1>1, <1>2, <2>1 DEF FormRead
<1>3. CASE input.given # "none"
  <2>1. input.verb \in {"POST", "PUT", "PATCH"}
    BY <1>3, InputsFit
  <2>2. m.type = "form" <=> \/ input.given = "hash" \/ input.type = "form"
                            \/ input.type = "none" /\ input.formByDefault
    BY <1>3 DEF SentType, GetsType, AskedType
  <2> QED BY <1>1, <1>3, <2>1, <2>2 DEF FormRead
<1> QED BY <1>2, <1>3

(* One name: what Rack and what Rails make of what was signed.             *)
LEMMA RackAgrees ==
    ASSUME NEW query \in Seq(AppValue), NEW posted \in Seq(AppValue),
           NEW form \in Seq(AppValue), form = <<>> \/ form = posted, NEW found,
           found = LET all == IF query # <<>> THEN query ELSE posted
                   IN  IF all = <<>> THEN <<>> ELSE <<Last(all)>>
    PROVE  ToBag(query \o form) = ToBag(found)
             <=> /\ Len(query \o form) <= 1
                 /\ posted # <<>> => query \o form # <<>>
<1>1. PICK signed : signed = query \o form
  OBVIOUS
<1>2. signed \in Seq(AppValue) /\ Len(signed) \in Nat /\ Len(signed) = Len(query) + Len(form)
      /\ Len(query) \in Nat /\ Len(form) \in Nat
  BY <1>1, ConcatProperties, LenProperties
<1>3. PICK all : all = IF query # <<>> THEN query ELSE posted
  OBVIOUS
<1>4. all \in Seq(AppValue) /\ found = IF all = <<>> THEN <<>> ELSE <<Last(all)>>
  BY <1>3
<1>5. CASE all = <<>>
  <2>1. found = <<>> /\ posted = <<>> /\ query = <<>> /\ form = <<>> /\ signed = <<>>
    BY <1>1, <1>3, <1>4, <1>5, ConcatEmptySeq
  <2> QED BY <1>1, <1>2, <2>1, EmptySeq
<1>6. CASE all # <<>> /\ Len(signed) = 1
  <2>1. signed = all
    <3>1. CASE query # <<>>
      <4>1. Len(query) # 0
        BY <3>1, EmptySeq
      <4>2. Len(form) = 0
        BY <1>2, <1>6, <4>1
      <4>3. form = <<>>
        BY <4>2, EmptySeq
      <4> QED BY <1>1, <1>3, <3>1, <4>3, ConcatEmptySeq
    <3>2. CASE query = <<>>
      <4>1. signed = form
        BY <1>1, <3>2, ConcatEmptySeq
      <4>2. form # <<>>
        BY <1>6, <4>1, EmptySeq
      <4> QED BY <1>3, <3>2, <4>1, <4>2
    <3> QED BY <3>1, <3>2
  <2>2. found = <<all[1]>> /\ Len(all) = 1
    BY <1>4, <1>6, <2>1 DEF Last
  <2>3. found = all
    BY <1>4, <2>2
  <2>4. signed # <<>>
    BY <1>6, <2>1
  <2> QED BY <1>1, <1>6, <2>1, <2>3, <2>4
<1>7. CASE all # <<>> /\ Len(signed) # 1
  <2>1. found = <<Last(all)>>
    BY <1>4, <1>7
  <2>2. ToBag(signed) # ToBag(found)
    <3>1. signed # found
      <4>1. PICK last : last = Last(all)
        OBVIOUS
      <4>2. Len(<<last>>) = 1
        OBVIOUS
      <4> QED BY <1>7, <2>1, <4>1, <4>2
    <3> QED BY <1>2, <2>1, <3>1, OneValue
  <2>3. Len(signed) <= 1 => signed = <<>> /\ query = <<>>
    <3> SUFFICES ASSUME Len(signed) <= 1 PROVE signed = <<>> /\ query = <<>>
      OBVIOUS
    <3>1. Len(signed) = 0 /\ Len(query) = 0
      BY <1>2, <1>7
    <3> QED BY <1>2, <3>1, EmptySeq
  <2>4. query = <<>> => posted # <<>>
    BY <1>3, <1>7
  <2> QED BY <1>1, <2>2, <2>3, <2>4
<1> QED BY <1>5, <1>6, <1>7

LEMMA RailsAgrees ==
    ASSUME NEW query \in Seq(AppValue), NEW posted \in Seq(AppValue),
           NEW form \in Seq(AppValue), form = <<>> \/ form = posted
    PROVE  ToBag(query \o form) = ToBag(query \o posted) <=> form = posted
<1>1. CASE form = posted
  BY <1>1
<1>2. CASE form # posted
  <2>1. query \o form = query
    BY <1>2, ConcatEmptySeq
  <2>2. ASSUME ToBag(query \o posted) = ToBag(query) PROVE FALSE
    <3>1. posted = <<>>
      BY <2>2, MoreValues
    <3> QED BY <1>2, <3>1
  <2> QED BY <1>2, <2>1, <2>2
<1> QED BY <1>1, <1>2

(* Header and query string: a server must find what was signed.            *)
LEMMA UrlVerdict ==
    ASSUME input \in Input, input.scheme # "body", NEW server \in Servers, NEW m,
           After(m, 1), Vouched(m), m.verb = input.verb, m.type = SentType,
           \A n \in AppName : m.query[n] = input.query[n] /\ m.body[n] = input.data[n]
    PROVE  Verify(server, m) <=> input.method = "PLAINTEXT" \/ SameParameters(server)
<1>1. PICK part : part = IF input.scheme = "header" THEN m.auth ELSE m.query
  OBVIOUS
<1>2. input.scheme = "header" \/ input.scheme = "query_string"
  BY InputTypes DEF Schemes
<1>3. Bears(part) /\ Apart(m.body) /\ \A n \in AppName : m.auth[n] = <<>>
  BY <1>1, <1>2, NothingToGarble, AppNames DEF Vouched, After, HeaderAfter, QueryAfter
<1>4. ASSUME NEW n \in Name \ AppName
      PROVE  RackParameters(m)[n] = part[n] /\ RawParameters(m)[n] = part[n]
  <2>1. PICK values : values = part[n]
    OBVIOUS
  <2>2. values = <<>> \/ \E x : values = <<x>>
    <3>1. CASE n = Sig
      BY <1>3, <2>1, <3>1 DEF Bears
    <3>2. CASE n # Sig
      BY <1>3, <2>1, <3>2 DEF Bears
    <3> QED BY <3>1, <3>2
  <2>3. Posted(m)[n] = <<>>
    BY <1>3 DEF Posted, NoParams, Apart
  <2>4. \/ m.auth[n] = values /\ m.query[n] = <<>> /\ Posted(m)[n] = <<>>
        \/ m.auth[n] = <<>> /\ m.query[n] = values /\ Posted(m)[n] = <<>>
    BY <1>1, <1>2, <2>1, <2>3, NothingToGarble DEF After, HeaderAfter, QueryAfter, Apart
  <2>5. n \in Name
    OBVIOUS
  <2>6. RackParameters(m)[n] = values /\ RawParameters(m)[n] = values
    BY <2>2, <2>4, <2>5, PartFound
  <2> QED BY <2>1, <2>6
<1>5. ASSUME NEW n \in AppName
      PROVE  ToBag(Covered(n)) = ToBag(ForSignature(server, m)[n])
               <=> LET signed == input.query[n]
                                   \o (IF FormSigned THEN input.data[n] ELSE <<>>)
                       posted == IF FormRead(server) THEN input.data[n] ELSE <<>>
                   IN  IF server = "RackRequest"
                       THEN Len(signed) <= 1 /\ (posted # <<>> => signed # <<>>)
                       ELSE FormSigned \/ posted = <<>>
  <2>1. PICK query : query = input.query[n]
    OBVIOUS
  <2>2. PICK form : form = IF FormSigned THEN input.data[n] ELSE <<>>
    OBVIOUS
  <2>3. PICK posted : posted = IF FormRead(server) THEN input.data[n] ELSE <<>>
    OBVIOUS
  <2>4. Covered(n) = query \o form
    BY <2>1, <2>2 DEF Covered
  <2>5. query \in Seq(AppValue) /\ form \in Seq(AppValue) /\ posted \in Seq(AppValue)
    BY <2>1, <2>2, <2>3, InputTypes, EmptySeq
  <2>6. m.auth[n] = <<>> /\ m.query[n] = query /\ n \in Name
    BY <1>3, <2>1, AppNames
  <2>7. CASE server = "RackRequest"
    <3>1. FormSigned => FormRead(server)
      BY <2>7 DEF FormSigned, FormRead
    <3>2. form = <<>> \/ form = posted
      BY <2>2, <2>3, <3>1
    <3>3. Posted(m)[n] = posted
      BY <2>3, <2>7, PostedAsked
    <3>4. PICK found : found = ForSignature(server, m)[n]
      OBVIOUS
    <3>5. found = LET all == IF query # <<>> THEN query ELSE posted
                  IN  IF all = <<>> THEN <<>> ELSE <<Last(all)>>
      <4>1. found = RackParameters(m)[n]
        BY <2>7, <3>4 DEF ForSignature
      <4> QED BY <2>6, <3>3, <4>1, ServerFinds
    <3>6. ToBag(query \o form) = ToBag(found)
            <=> /\ Len(query \o form) <= 1
                /\ posted # <<>> => query \o form # <<>>
      BY <2>5, <3>2, <3>5, RackAgrees
    <3> QED BY <2>1, <2>2, <2>3, <2>4, <2>7, <3>4, <3>6
  <2>8. CASE server # "RackRequest"
    <3>1. server = "ActionControllerRequest"
      BY <2>8 DEF Servers
    <3>2. FormSigned => FormRead(server)
      BY <3>1 DEF FormSigned, FormRead
    <3>3. form = <<>> \/ form = posted
      BY <2>2, <2>3, <3>2
    <3>4. ForSignature(server, m)[n] = query \o posted
      <4>1. ForSignature(server, m)[n] = RawParameters(m)[n]
        BY <2>8 DEF ForSignature
      <4>2. (IF m.verb \in {"POST", "PUT"} THEN Posted(m)[n] ELSE <<>>) = posted
        BY <2>3, <3>1, PostedAsked
      <4>3. RawParameters(m)[n] = (<<>> \o query) \o posted
        BY <2>6, <4>2, ServerSigns
      <4> QED BY <2>5, <4>1, <4>3, ConcatEmptySeq
    <3>5. ToBag(query \o form) = ToBag(query \o posted) <=> form = posted
      BY <2>5, <3>3, RailsAgrees
    <3>6. form = posted <=> FormSigned \/ posted = <<>>
      BY <2>2, <2>3, <3>2
    <3> QED BY <2>3, <2>4, <2>8, <3>4, <3>5, <3>6
  <2> QED BY <2>7, <2>8
<1>6. (\A n \in AppName : ToBag(Covered(n)) = ToBag(ForSignature(server, m)[n]))
        <=> SameParameters(server)
  BY <1>5 DEF SameParameters
<1> QED BY <1>3, <1>4, <1>6, Comparing

(* Body scheme: the form has the query in it, and so covers it twice.      *)
LEMMA BodyVerdict ==
    ASSUME input \in Input, input.scheme = "body", Posting, ~Unsignable,
           NEW server \in Servers, NEW m, After(m, 1), Vouched(m), m.verb = input.verb,
           \A n \in AppName : m.query[n] = input.query[n]
    PROVE  Verify(server, m)
             <=> \/ input.method = "PLAINTEXT"
                 \/ /\ input.query = Own(NoParams)
                    /\ server = "RackRequest" /\ FormSigned
                         => \A n \in AppName : Len(input.data[n]) <= 1
<1>1. /\ Bears(m.body) /\ Apart(m.query) /\ m.auth = NoParams /\ m.type = "form"
      /\ \A n \in AppName : m.body[n] = Covered(n)
  BY DEF Vouched, After, BodyAfter
<1>2. Posted(m) = m.body /\ m.verb \in {"POST", "PUT"}
  BY <1>1 DEF Posted, Posting
<1>3. ASSUME NEW n \in Name \ AppName
      PROVE  RackParameters(m)[n] = m.body[n] /\ RawParameters(m)[n] = m.body[n]
  <2>1. PICK values : values = m.body[n]
    OBVIOUS
  <2>2. values = <<>> \/ \E x : values = <<x>>
    <3>1. CASE n = Sig
      BY <1>1, <2>1, <3>1 DEF Bears
    <3>2. CASE n # Sig
      BY <1>1, <2>1, <3>2 DEF Bears
    <3> QED BY <3>1, <3>2
  <2>3. m.auth[n] = <<>> /\ m.query[n] = <<>> /\ Posted(m)[n] = values
    BY <1>1, <1>2, <2>1, NothingToGarble DEF Apart
  <2>4. n \in Name
    OBVIOUS
  <2>5. RackParameters(m)[n] = values /\ RawParameters(m)[n] = values
    BY <1>2, <2>2, <2>3, <2>4, PartFound
  <2> QED BY <2>1, <2>5
<1>4. ASSUME NEW n \in AppName
      PROVE  ToBag(Covered(n)) = ToBag(ForSignature(server, m)[n])
               <=> /\ input.query[n] = <<>>
                   /\ server = "RackRequest" /\ FormSigned => Len(input.data[n]) <= 1
  <2>1. PICK query : query = input.query[n]
    OBVIOUS
  <2>2. PICK form : form = IF FormSigned THEN input.data[n] ELSE <<>>
    OBVIOUS
  <2>3. PICK data : data = query \o form
    OBVIOUS
  <2>4. PICK all : all = query \o data
    OBVIOUS
  <2>5. Covered(n) = all
    BY <2>1, <2>2, <2>3, <2>4 DEF Covered
  <2>6. query \in Seq(AppValue) /\ form \in Seq(AppValue)
    BY <2>1, <2>2, InputTypes, EmptySeq
  <2>7. data \in Seq(AppValue) /\ Len(data) = Len(query) + Len(form)
    BY <2>3, <2>6, ConcatProperties
  <2>8. all \in Seq(AppValue) /\ Len(all) = Len(query) + Len(data)
    BY <2>4, <2>6, <2>7, ConcatProperties
  <2>9. m.auth[n] = <<>> /\ m.query[n] = query /\ Posted(m)[n] = all /\ n \in Name
    BY <1>1, <1>2, <2>1, <2>5, AppNames, NothingToGarble
  <2>10. CASE server = "RackRequest"
    <3>1. PICK found : found = ForSignature(server, m)[n]
      OBVIOUS
    <3>2. found = LET first == IF query # <<>> THEN query ELSE all
                  IN  IF first = <<>> THEN <<>> ELSE <<Last(first)>>
      <4>1. found = RackParameters(m)[n]
        BY <2>10, <3>1 DEF ForSignature
      <4> QED BY <2>9, <4>1, ServerFinds
    <3>3. data = <<>> \/ data = all \/ query # <<>>
      BY <2>4, <2>7, ConcatEmptySeq
    <3>4. CASE query = <<>>
      <4>1. data = form /\ all = form
        BY <2>3, <2>4, <2>6, <3>4, ConcatEmptySeq
      <4>2. ToBag(query \o form) = ToBag(found)
              <=> /\ Len(query \o form) <= 1
                  /\ all # <<>> => query \o form # <<>>
        BY <2>6, <3>2, <4>1, RackAgrees
      <4>3. ToBag(all) = ToBag(found) <=> Len(form) <= 1
        BY <2>3, <4>1, <4>2
      <4>4. Len(form) <= 1 <=> (FormSigned => Len(input.data[n]) <= 1)
        BY <2>2, EmptySeq
      <4> QED BY <2>1, <2>5, <2>10, <3>1, <3>4, <4>3, <4>4
    <3>5. CASE query # <<>>
      <4>1. found = <<Last(query)>>
        BY <3>2, <3>5
      <4>2. Len(query) \in Nat /\ Len(form) \in Nat /\ Len(query) # 0
        BY <2>6, <3>5, LenProperties, EmptySeq
      <4>3. Len(all) # 1
        BY <2>7, <2>8, <4>2
      <4>4. ASSUME ToBag(all) = ToBag(found) PROVE FALSE
        <5>1. PICK last : last = Last(query)
          OBVIOUS
        <5>2. all = <<last>>
          BY <2>8, <4>1, <4>4, <5>1, OneValue
        <5>3. Len(<<last>>) = 1
          OBVIOUS
        <5> QED BY <4>3, <5>2, <5>3
      <4> QED BY <2>1, <2>5, <3>1, <3>5, <4>4
    <3> QED BY <3>4, <3>5
  <2>11. CASE server # "RackRequest"
    <3>1. ForSignature(server, m)[n] = query \o all
      <4>1. ForSignature(server, m)[n] = RawParameters(m)[n]
        BY <2>11 DEF ForSignature
      <4>2. RawParameters(m)[n] = (<<>> \o query) \o all
        BY <1>2, <2>9, ServerSigns
      <4> QED BY <2>6, <4>1, <4>2, ConcatEmptySeq
    <3>2. query = <<>> => query \o all = all
      BY <2>8, ConcatEmptySeq
    <3>3. ToBag(query \o all) = ToBag(all) => query = <<>>
      BY <2>6, <2>8, MoreValues
    <3> QED BY <2>1, <2>5, <2>11, <3>1, <3>2, <3>3
  <2> QED BY <2>10, <2>11
<1>5. input.query = Own(NoParams) <=> \A n \in AppName : input.query[n] = <<>>
  <2>1. Own(NoParams) = [n \in AppName |-> <<>>]
    BY AppNames DEF Own, NoParams
  <2>2. input.query = [n \in AppName |-> input.query[n]]
    BY InputTypes DEF AppParams
  <2> QED BY <2>1, <2>2
<1>6. (\A n \in AppName : ToBag(Covered(n)) = ToBag(ForSignature(server, m)[n]))
        <=> /\ input.query = Own(NoParams)
            /\ server = "RackRequest" /\ FormSigned
                 => \A n \in AppName : Len(input.data[n]) <= 1
  BY <1>4, <1>5
<1> QED BY <1>1, <1>3, <1>6, Comparing

LEMMA FirstVerdict ==
    ASSUME VerdictInv, NEW m \in wire, m.signs = 1, Whole(m), NEW server \in Servers
    PROVE  Verify(server, m) <=> Understood(server)
<1>1. /\ input \in Input /\ ~Unsignable /\ After(m, 1) /\ Vouched(m)
      /\ m.verb = input.verb /\ (input.scheme # "body" => m.type = SentType)
      /\ \A n \in AppName : m.query[n] = input.query[n]
      /\ Arrived(m)
  BY DEF VerdictInv, SigningInv, TypeOK
<1>2. CASE input.scheme # "body"
  <2>1. \A n \in AppName : m.query[n] = input.query[n] /\ m.body[n] = input.data[n]
    BY <1>1, <1>2 DEF Arrived, RewritesBody
  <2>2. Verify(server, m) <=> input.method = "PLAINTEXT" \/ SameParameters(server)
    BY <1>1, <1>2, <2>1, UrlVerdict
  <2> QED BY <1>2, <2>2 DEF Understood
<1>3. CASE input.scheme = "body" /\ Posting
  <2>1. Verify(server, m)
          <=> \/ input.method = "PLAINTEXT"
              \/ /\ input.query = Own(NoParams)
                 /\ server = "RackRequest" /\ FormSigned
                      => \A n \in AppName : Len(input.data[n]) <= 1
    BY <1>1, <1>3, BodyVerdict
  <2> QED BY <1>3, <2>1 DEF Understood, Posting
<1>4. CASE input.scheme = "body" /\ ~Posting
  <2>1. /\ Apart(m.query) /\ m.auth = NoParams /\ m.type = "form"
        /\ m.body[Method] = <<>>
    BY <1>1, <1>4 DEF After, BodyAfter, Posting
  <2>2. m.auth[Method] = <<>> /\ m.query[Method] = <<>> /\ Posted(m)[Method] = <<>>
    BY <2>1, NothingToGarble, OAuthNames DEF Apart, Posted
  <2>3. RackParameters(m)[Method] = <<>>
    BY <2>2, ServerFindsForm, OAuthNames
  <2> QED BY <1>4, <2>3 DEF Verify, Method, Understood, Posting
<1> QED BY <1>2, <1>3, <1>4

(* A request signed once is verified exactly when both sides' proxies      *)
(* agree on it, under every scheme and method, however often it is sent.   *)
THEOREM FirstVerdicts == Spec => []VerifiesExactly
<1>1. VerdictInv => VerifiesExactly
  <2> SUFFICES ASSUME VerdictInv, NEW v \in verdicts, v.of.signs = 1, Whole(v.of)
               PROVE  v.ok <=> Understood(v.by)
    BY DEF VerifiesExactly
  <2>1. v.of \in wire /\ v.by \in Servers /\ v.ok = Verify(v.by, v.of)
    BY DEF VerdictInv, SigningInv, TypeOK
  <2>2. PICK m \in wire : m = v.of
    BY <2>1
  <2>3. Verify(v.by, m) <=> Understood(v.by)
    BY <2>1, <2>2, FirstVerdict
  <2> QED BY <2>1, <2>2, <2>3
<1> QED BY VerdictInvariance, <1>1, PTL
=============================================================================
