------------------------- MODULE OtherClients_proofs -------------------------
(***************************************************************************)
(* What holds of OtherClients for every request an application can make    *)
(* with the other HTTP libraries, and any names.                           *)
(***************************************************************************)
EXTENDS OtherClients, Verification_proofs

(* What a proxy takes of the application's parameters: typhoeus the URL,   *)
(* rest-client one value from the URL or else the form, em-http the form   *)
(* that has its type and the URL.                                          *)
Taken(n, e) ==
    CASE input.library = "typhoeus" -> input.query[n] \o input.extra[n]
      [] input.library = "rest_client" ->
           IF input.query[n] # <<>> THEN input.query[n]
           ELSE IF PostOrPut /\ input.form[n] # <<>> THEN <<TrueOrLast(input.form[n])>>
           ELSE <<>>
      [] input.library = "em_http" ->
           (IF PostOrPut /\ e THEN input.form[n] ELSE <<>>)
             \o (IF input.extra[n] = <<>> THEN input.query[n] ELSE input.extra[n])
      [] OTHER -> <<>>

(* The header has one value of each OAuth parameter, and a signature of    *)
(* what was taken when the form had its type or not; what a request of     *)
(* curb covers does not matter, since it is not of any verb.               *)
Bears(header, e) ==
    /\ DOMAIN header = Name
    /\ header[Method] = <<"HMAC-SHA1">>
    /\ \A n \in AppName : header[n] = <<>>
    /\ \A n \in Name : header[n] = <<>> \/ \E x : header[n] = <<x>>
    /\ \E over :
         /\ header[Sig] = <<Digest("HMAC-SHA1", SignedVerb, over)>>
         /\ input.library # "curb" =>
              \A n \in Name \ {Sig} :
                over[n] = IF n \in AppName THEN Taken(n, e) ELSE header[n]

ClientInv ==
    /\ input \in Input
    /\ typed \in BOOLEAN
    /\ early \in BOOLEAN
    /\ status \in {"building", "signed", "raised", "sent"}
    /\ IF status \in {"signed", "sent"} THEN Bears(auth, early) ELSE auth = NoParams
    /\ status # "sent" => verdicts = {}
    /\ \A v \in verdicts : v.by \in Servers /\ v = [by |-> v.by, ok |-> Verify(v.by, Message)]
-----------------------------------------------------------------------------
(* What is signed.                                                         *)

LEMMA InputTypes ==
    ASSUME input \in Input
    PROVE  /\ input \in Inputs /\ input.library \in Libraries /\ input.verb \in Verbs
           /\ \A n \in AppName : /\ input.query[n] \in Seq(AppValue)
                                 /\ input.extra[n] \in Seq(AppValue)
                                 /\ input.form[n] \in Seq(AppValue)
           /\ input.library \in {"curb", "rest_client"}
                => \A n \in AppName : input.extra[n] = <<>>
BY InputsFit DEF Inputs, AppParams

LEMMA AskedAt ==
    ASSUME NEW n \in Name
    PROVE  /\ Query[n] = IF n \in AppName THEN input.query[n] ELSE <<>>
           /\ Extra[n] = IF n \in AppName THEN input.extra[n] ELSE <<>>
           /\ Form[n] = IF n \in AppName THEN input.form[n] ELSE <<>>
           /\ NoParams[n] = <<>>
BY DEF Query, Extra, Form, Asked, NoParams

(* As Asked, but typed: the parts are lists, of no values outside AppName. *)
LEMMA AskedLists ==
    ASSUME input \in Input, NEW n \in Name
    PROVE  /\ Query[n] \in Seq(AppValue) /\ Extra[n] \in Seq(AppValue)
           /\ Form[n] \in Seq(AppValue)
BY AskedAt, InputTypes, EmptySeq

(* Of one value, and of plain ones.                                        *)
LEMMA TrueOrLastOfOne ==
    ASSUME NEW v
    PROVE  TrueOrLast(<<v>>) = IF v = "blank" THEN "true" ELSE Undecoded(v)
<1> DEFINE given == {i \in DOMAIN <<v>> : <<v>>[i] # "blank"}
<1>1. TrueOrLast(<<v>>) = IF given = {} THEN "true" ELSE Undecoded(<<v>>[Max(given)])
  BY DEF TrueOrLast
<1>2. CASE v = "blank"
  <2>1. given = {}
    BY <1>2
  <2> HIDE DEF given
  <2> QED BY <1>1, <1>2, <2>1
<1>3. CASE v # "blank"
  <2>1. given = {1}
    BY <1>3
  <2>2. Max({1}) = 1
    BY DEF Max
  <2>3. <<v>>[1] = v
    OBVIOUS
  <2> HIDE DEF given
  <2> QED BY <1>1, <1>3, <2>1, <2>2, <2>3
<1> QED BY <1>2, <1>3

LEMMA TrueOrLastOfPlain ==
    ASSUME NEW form \in Seq(AppValue), form # <<>>, \A i \in DOMAIN form : form[i] = Plain
    PROVE  TrueOrLast(form) = Plain
<1> DEFINE given == {i \in DOMAIN form : form[i] # "blank"}
<1>1. TrueOrLast(form) = IF given = {} THEN "true" ELSE Undecoded(form[Max(given)])
  BY DEF TrueOrLast
<1>2. PICK k \in Nat : k = Len(form) /\ k # 0 /\ DOMAIN form = 1 .. k
  BY EmptySeq, LenProperties
<1>3. given = 1 .. k
  BY <1>2 DEF Plain
<1>4. Max(1 .. k) = k
  BY <1>2 DEF Max
<1>5. form[k] = Plain /\ given # {}
  BY <1>2, <1>3
<1> HIDE DEF given
<1> QED BY <1>1, <1>3, <1>4, <1>5 DEF Undecoded, Plain

LEMMA TakenTyphoeus ==
    ASSUME input \in Input, input.library = "typhoeus", NEW n \in Name
    PROVE  Parameters[n] = Query[n] \o Extra[n]
<1>1. PICK url : url = Join(Query, Extra)
  OBVIOUS
<1>2. PICK posted : posted = IF input.verb = "POST" THEN Extra ELSE NoParams
  OBVIOUS
<1>3. Parameters = Merge(posted, url)
  BY <1>1, <1>2 DEF Parameters, TyphoeusParameters
<1>4. PICK query : query = Query[n]
  OBVIOUS
<1>5. PICK extra : extra = Extra[n]
  OBVIOUS
<1>6. PICK all : all = query \o extra
  OBVIOUS
<1>7. url[n] = all /\ (posted[n] = extra \/ posted[n] = <<>>)
  BY <1>1, <1>2, <1>4, <1>5, <1>6, AskedAt DEF Join
<1>8. all = <<>> => extra = <<>>
  <2>1. query \in Seq(AppValue) /\ extra \in Seq(AppValue)
    BY <1>4, <1>5, AskedLists
  <2>2. Len(all) = Len(query) + Len(extra) /\ Len(query) \in Nat /\ Len(extra) \in Nat
    BY <1>6, <2>1, ConcatProperties, LenProperties
  <2>3. all = <<>> => Len(extra) = 0
    BY <2>2, EmptySeq
  <2> QED BY <2>1, <2>3, EmptySeq
<1>9. Parameters[n] = IF url[n] = <<>> THEN posted[n] ELSE url[n]
  BY <1>3 DEF Merge
<1> QED BY <1>4, <1>5, <1>6, <1>7, <1>8, <1>9

LEMMA TakenRestClient ==
    ASSUME input \in Input, input.library = "rest_client", NEW n \in Name
    PROVE  Parameters[n] = IF Query[n] # <<>> THEN Query[n]
                           ELSE IF PostOrPut /\ Form[n] # <<>> THEN <<TrueOrLast(Form[n])>>
                           ELSE <<>>
<1>1. PICK posted : posted = IF input.verb \in {"POST", "PUT"} THEN RestClientForm ELSE NoParams
  OBVIOUS
<1>2. Parameters = Merge(posted, Query)
  BY <1>1 DEF Parameters, RestClientParameters
<1>3. posted[n] = IF PostOrPut /\ Form[n] # <<>> THEN <<TrueOrLast(Form[n])>> ELSE <<>>
  BY <1>1, AskedAt DEF PostOrPut, RestClientForm
<1>4. Parameters[n] = IF Query[n] = <<>> THEN posted[n] ELSE Query[n]
  BY <1>2 DEF Merge
<1> QED BY <1>3, <1>4

LEMMA TakenEm ==
    ASSUME input \in Input, input.library = "em_http", NEW n \in Name
    PROVE  Parameters[n] = (IF PostOrPut /\ typed THEN Form[n] ELSE <<>>)
                             \o (IF Extra[n] = <<>> THEN Query[n] ELSE Extra[n])
<1>1. PICK url : url = Merge(Query, Extra)
  OBVIOUS
<1>2. Parameters = Join(EmPosted, url)
  BY <1>1 DEF Parameters, EmParameters
<1>3. url[n] = IF Extra[n] = <<>> THEN Query[n] ELSE Extra[n]
  BY <1>1 DEF Merge
<1>4. EmPosted[n] = IF PostOrPut /\ typed THEN Form[n] ELSE <<>>
  BY AskedAt DEF EmPosted, PostOrPut
<1>5. Parameters[n] = EmPosted[n] \o url[n]
  BY <1>2 DEF Join
<1> QED BY <1>3, <1>4, <1>5

LEMMA ParametersTaken ==
    ASSUME input \in Input, input.library # "curb", NEW n \in Name
    PROVE  /\ Parameters[n] = IF n \in AppName THEN Taken(n, typed) ELSE <<>>
           /\ n \in AppName => Taken(n, typed) \in Seq(AppValue \cup {TrueOrLast(f) : f \in Seq(AppValue)})
<1>1. <<>> \o <<>> = <<>>
  BY SmallLists, ListAndNothing
<1>2. ASSUME NEW s \in Seq(AppValue)
      PROVE  s \in Seq(AppValue \cup {TrueOrLast(f) : f \in Seq(AppValue)})
  OBVIOUS
<1>3. CASE input.library = "typhoeus"
  <2>1. Parameters[n] = Query[n] \o Extra[n]
    BY <1>3, TakenTyphoeus
  <2>2. Parameters[n] \in Seq(AppValue)
    BY <2>1, AskedLists, ConcatProperties
  <2> QED BY <1>1, <1>2, <1>3, <2>1, <2>2, AskedAt DEF Taken
<1>4. CASE input.library = "rest_client"
  <2>1. Parameters[n] = IF Query[n] # <<>> THEN Query[n]
                        ELSE IF PostOrPut /\ Form[n] # <<>> THEN <<TrueOrLast(Form[n])>>
                        ELSE <<>>
    BY <1>4, TakenRestClient
  <2>2. Form[n] \in Seq(AppValue)
    BY AskedLists
  <2>3. Parameters[n] \in Seq(AppValue \cup {TrueOrLast(f) : f \in Seq(AppValue)})
    <3>1. CASE Query[n] # <<>>
      BY <1>2, <2>1, <3>1, AskedLists
    <3>2. CASE Query[n] = <<>> /\ PostOrPut /\ Form[n] # <<>>
      <4>1. PICK w : w = TrueOrLast(Form[n])
        OBVIOUS
      <4>2. PICK T : T = AppValue \cup {TrueOrLast(f) : f \in Seq(AppValue)}
        OBVIOUS
      <4>3. w \in T
        BY <2>2, <4>1, <4>2
      <4>4. <<w>> \in Seq(T)
        BY <4>3
      <4> QED BY <2>1, <3>2, <4>1, <4>2, <4>4
    <3>3. CASE Query[n] = <<>> /\ ~(PostOrPut /\ Form[n] # <<>>)
      BY <2>1, <3>3, EmptySeq
    <3> QED BY <3>1, <3>2, <3>3
  <2> QED BY <1>4, <2>1, <2>3, AskedAt DEF Taken
<1>5. CASE input.library = "em_http"
  <2>1. Parameters[n] = (IF PostOrPut /\ typed THEN Form[n] ELSE <<>>)
                          \o (IF Extra[n] = <<>> THEN Query[n] ELSE Extra[n])
    BY <1>5, TakenEm
  <2>2. Parameters[n] \in Seq(AppValue)
    BY <2>1, AskedLists, ConcatProperties, EmptySeq
  <2> QED BY <1>1, <1>2, <1>5, <2>1, <2>2, AskedAt DEF Taken
<1> QED BY <1>3, <1>4, <1>5, InputTypes DEF Libraries

LEMMA OAuthFresh ==
    /\ DOMAIN OAuthParameters = Name
    /\ OAuthParameters[Method] = <<"HMAC-SHA1">> /\ OAuthParameters[Sig] = <<>>
    /\ \A n \in AppName : OAuthParameters[n] = <<>>
    /\ \A n \in Name : OAuthParameters[n] = <<>> \/ \E x : OAuthParameters[n] = <<x>>
<1>1. PICK oauth : oauth = OAuthParameters
  OBVIOUS
<1>2. oauth = [NoParams EXCEPT !["oauth_consumer_key"] = <<"key">>,
                 !["oauth_signature_method"] = <<"HMAC-SHA1">>, !["oauth_nonce"] = <<1>>]
  BY <1>1 DEF OAuthParameters
<1>3. /\ DOMAIN oauth = Name
      /\ oauth["oauth_consumer_key"] = <<"key">>
      /\ oauth["oauth_signature_method"] = <<"HMAC-SHA1">> /\ oauth["oauth_nonce"] = <<1>>
      /\ \A n \in Name : n \notin {"oauth_consumer_key", "oauth_signature_method",
                                   "oauth_nonce"} => oauth[n] = <<>>
  BY <1>2, OAuthNames DEF NoParams, Nonce, Method
<1>4. oauth[Method] = <<"HMAC-SHA1">> /\ oauth[Sig] = <<>>
  BY <1>3, OAuthNames DEF Sig, Method
<1>5. \A n \in AppName : oauth[n] = <<>>
  BY <1>3, AppNames DEF OAuthName
<1>6. \A n \in Name : oauth[n] = <<>> \/ \E x : oauth[n] = <<x>>
  BY <1>3
<1> QED BY <1>1, <1>3, <1>4, <1>5, <1>6

LEMMA HeaderBears ==
    ASSUME input \in Input
    PROVE  Bears(Header, typed)
<1>1. PICK oauth : oauth = OAuthParameters
  OBVIOUS
<1>2. PICK over : over = Join(Parameters, oauth)
  OBVIOUS
<1>3. PICK value : value = <<Digest("HMAC-SHA1", SignedVerb, over)>>
  OBVIOUS
<1>4. PICK header : header = Header
  OBVIOUS
<1>5. header = [oauth EXCEPT ![Sig] = value]
  BY <1>1, <1>2, <1>3, <1>4 DEF Header, Sig
<1>6. /\ DOMAIN header = Name /\ header[Sig] = value
      /\ \A n \in Name : n # Sig => header[n] = oauth[n]
  BY <1>1, <1>5, OAuthFresh, OAuthNames
<1>7. /\ header[Method] = <<"HMAC-SHA1">> /\ \A n \in AppName : header[n] = <<>>
  BY <1>1, <1>6, OAuthFresh, OAuthNames, AppNames
<1>8. ASSUME NEW n \in Name PROVE header[n] = <<>> \/ \E x : header[n] = <<x>>
  BY <1>1, <1>3, <1>6, OAuthFresh
<1>9. ASSUME input.library # "curb", NEW n \in Name \ {Sig}
      PROVE  over[n] = IF n \in AppName THEN Taken(n, typed) ELSE header[n]
  <2>1. over[n] = Parameters[n] \o oauth[n]
    BY <1>2 DEF Join
  <2>2. CASE n \in AppName
    <3>1. oauth[n] = <<>> /\ Parameters[n] = Taken(n, typed)
      BY <1>1, <1>9, <2>2, OAuthFresh, ParametersTaken
    <3>2. Taken(n, typed) \o <<>> = Taken(n, typed)
      BY <1>9, <2>2, ParametersTaken, ConcatEmptySeq
    <3> QED BY <2>1, <2>2, <3>1, <3>2
  <2>3. CASE n \notin AppName
    <3>1. Parameters[n] = <<>> /\ (oauth[n] = <<>> \/ \E x : oauth[n] = <<x>>)
      BY <1>1, <1>9, <2>3, OAuthFresh, ParametersTaken
    <3>2. IsList(oauth[n])
      BY <3>1, SmallLists
    <3> QED BY <1>6, <2>1, <2>3, <3>1, <3>2, ListAndNothing
  <2> QED BY <2>2, <2>3
<1> QED BY <1>3, <1>4, <1>6, <1>7, <1>8, <1>9 DEF Bears
-----------------------------------------------------------------------------
(* The steps.                                                              *)

LEMMA BearsKept ==
    ASSUME NEW header, NEW e, Bears(header, e), input' = input, auth' = header, early' = e
    PROVE  Bears(auth, early)'
<1>1. PICK over :
        /\ header[Sig] = <<Digest("HMAC-SHA1", SignedVerb, over)>>
        /\ input.library # "curb" =>
             \A n \in Name \ {Sig} :
               over[n] = IF n \in AppName THEN Taken(n, e) ELSE header[n]
  BY DEF Bears
<1>2. SignedVerb' = SignedVerb
  BY DEF SignedVerb
<1>3. ASSUME NEW n PROVE Taken(n, early)' = Taken(n, e)
  BY DEF Taken, PostOrPut
<1>4. (auth')[Sig] = <<Digest("HMAC-SHA1", SignedVerb', over)>>
  BY <1>1, <1>2
<1>5. ASSUME (input').library # "curb", NEW n \in Name \ {Sig}
      PROVE  over[n] = IF n \in AppName THEN Taken(n, early)' ELSE (auth')[n]
  BY <1>1, <1>3, <1>5
<1>6. /\ DOMAIN auth' = Name
      /\ (auth')[Method] = <<"HMAC-SHA1">>
      /\ \A n \in AppName : (auth')[n] = <<>>
      /\ \A n \in Name : (auth')[n] = <<>> \/ \E x : (auth')[n] = <<x>>
  BY DEF Bears
<1> QED BY <1>4, <1>5, <1>6 DEF Bears

LEMMA MessageKept ==
    ASSUME UNCHANGED <<input, auth>>
    PROVE  Message' = Message
<1>1. Query' = Query /\ Extra' = Extra /\ Form' = Form
  BY DEF Query, Extra, Form
<1> QED BY <1>1 DEF Message

LEMMA VerdictsKept ==
    ASSUME ClientInv, UNCHANGED <<input, auth, verdicts>>
    PROVE  (\A v \in verdicts :
              v.by \in Servers /\ v = [by |-> v.by, ok |-> Verify(v.by, Message)])'
<1>1. PICK m : m = Message /\ m = Message'
  BY MessageKept
<1>2. \A v \in verdicts : v.by \in Servers /\ v = [by |-> v.by, ok |-> Verify(v.by, m)]
  BY <1>1 DEF ClientInv
<1> QED BY <1>1, <1>2

LEMMA InitClient == ASSUME Init PROVE ClientInv
BY DEF Init, ClientInv

LEMMA SetTypeClient == ASSUME ClientInv, SetType PROVE ClientInv'
<1>1. UNCHANGED <<input, auth, early, status, verdicts>> /\ typed' = TRUE
  BY DEF SetType
<1>2. (status \in {"signed", "sent"}) => Bears(auth, early)'
  <2>1. PICK header, e : header = auth /\ e = early
    OBVIOUS
  <2>2. (status \in {"signed", "sent"}) => Bears(header, e)
    BY <2>1 DEF ClientInv
  <2> QED BY <1>1, <2>1, <2>2, BearsKept
<1> QED BY <1>1, <1>2, VerdictsKept DEF ClientInv

LEMMA SignClient == ASSUME ClientInv, Sign PROVE ClientInv'
<1>1. status = "building" /\ early' = typed /\ UNCHANGED <<input, typed, verdicts>>
  BY DEF Sign
<1>2. verdicts = {} /\ auth = NoParams
  BY <1>1 DEF ClientInv
<1>3. CASE SignRaises
  <2>1. status' = "raised" /\ auth' = auth
    BY <1>3 DEF Sign
  <2> QED BY <1>1, <1>2, <2>1 DEF ClientInv
<1>4. CASE ~SignRaises
  <2>1. PICK header, e : header = Header /\ e = typed
    OBVIOUS
  <2>2. status' = "signed" /\ auth' = header
    BY <1>4, <2>1 DEF Sign
  <2>3. Bears(header, e)
    BY <2>1, HeaderBears DEF ClientInv
  <2>4. Bears(auth, early)'
    BY <1>1, <2>1, <2>2, <2>3, BearsKept
  <2> QED BY <1>1, <1>2, <2>2, <2>4 DEF ClientInv
<1> QED BY <1>3, <1>4

LEMMA SendClient == ASSUME ClientInv, Send PROVE ClientInv'
<1>1. status = "signed" /\ status' = "sent" /\ UNCHANGED <<input, typed, auth, early, verdicts>>
  BY DEF Send
<1>2. Bears(auth, early)'
  <2>1. PICK header, e : header = auth /\ e = early
    OBVIOUS
  <2>2. Bears(header, e)
    BY <1>1, <2>1 DEF ClientInv
  <2> QED BY <1>1, <2>1, <2>2, BearsKept
<1> QED BY <1>1, <1>2, VerdictsKept DEF ClientInv

LEMMA ReceiveClient ==
    ASSUME ClientInv, NEW server \in Servers, Receive(server)
    PROVE  ClientInv'
<1>1. /\ status = "sent" /\ UNCHANGED <<input, typed, auth, early, status>>
      /\ verdicts' = verdicts \cup {[by |-> server, ok |-> Verify(server, Message)]}
  BY DEF Receive
<1>2. Bears(auth, early)'
  <2>1. PICK header, e : header = auth /\ e = early
    OBVIOUS
  <2>2. Bears(header, e)
    BY <1>1, <2>1 DEF ClientInv
  <2> QED BY <1>1, <2>1, <2>2, BearsKept
<1>3. PICK m : m = Message /\ m = Message'
  BY <1>1, MessageKept
<1>4. \A v \in verdicts' : v.by \in Servers /\ v = [by |-> v.by, ok |-> Verify(v.by, m)]
  BY <1>1, <1>3 DEF ClientInv
<1> QED BY <1>1, <1>2, <1>3, <1>4 DEF ClientInv

(* A header bears a signature of what the proxy took of the request, for   *)
(* the Content-Type that the form had then; nothing else is ever sent, and *)
(* every verdict is one on the request as it was sent.                     *)
THEOREM ClientInvariance == Spec => []ClientInv
<1>1. ASSUME ClientInv, [Next]_vars PROVE ClientInv'
  <2>1. CASE UNCHANGED vars
    <3>1. UNCHANGED <<input, typed, auth, early, status, verdicts>>
      BY <2>1 DEF vars
    <3>2. status \in {"signed", "sent"} => Bears(auth, early)'
      <4>1. PICK header, e : header = auth /\ e = early
        OBVIOUS
      <4>2. status \in {"signed", "sent"} => Bears(header, e)
        BY <1>1, <4>1 DEF ClientInv
      <4> QED BY <3>1, <4>1, <4>2, BearsKept
    <3> QED BY <1>1, <3>1, <3>2, VerdictsKept DEF ClientInv
  <2>2. CASE Next
    BY <1>1, <2>2, SetTypeClient, SignClient, SendClient, ReceiveClient DEF Next
  <2> QED BY <1>1, <2>1, <2>2
<1> QED BY <1>1, InitClient, PTL DEF Spec

(* The types; a request is signed unless signing raised, and servers agree *)
(* with themselves.                                                        *)
THEOREM TypeCorrect == Spec => []TypeOK
<1>1. ASSUME ClientInv PROVE TypeOK
  <2>1. CASE status \in {"signed", "sent"}
    <3>1. DOMAIN auth = Name /\ auth[Sig] # <<>>
      BY <1>1, <2>1 DEF ClientInv, Bears
    <3> QED BY <1>1, <2>1, <3>1 DEF ClientInv, TypeOK, Sig
  <2>2. CASE status \notin {"signed", "sent"}
    <3>1. DOMAIN auth = Name /\ auth[Sig] = <<>>
      BY <1>1, <2>2, OAuthNames DEF ClientInv, NoParams
    <3> QED BY <1>1, <2>2, <3>1 DEF ClientInv, TypeOK, Sig
  <2> QED BY <2>1, <2>2
<1> QED BY <1>1, ClientInvariance, PTL
-----------------------------------------------------------------------------
(* What a server makes of the request.                                     *)

LEMMA MessageParts ==
    ASSUME input \in Input, NEW m, m = Message
    PROVE  /\ m.verb = input.verb /\ m.auth = auth
           /\ \A n \in Name : m.query[n] = Query[n] \o Extra[n] /\ Posted(m)[n] = Form[n]
<1>1. PICK query : query = Join(Query, Extra)
  OBVIOUS
<1>2. PICK type : type = IF Form = NoParams THEN "none" ELSE "form"
  OBVIOUS
<1>3. m = [verb |-> input.verb, query |-> query, auth |-> auth, body |-> Form, type |-> type]
  BY <1>1, <1>2 DEF Message
<1>4. Posted(m) = Form
  BY <1>2, <1>3 DEF Posted
<1>5. m.verb = input.verb /\ m.auth = auth /\ m.query = query
  BY <1>3
<1>6. \A n \in Name : query[n] = Query[n] \o Extra[n]
  BY <1>1 DEF Join
<1> QED BY <1>4, <1>5, <1>6

(* The OAuth parameters are those of the header.                           *)
LEMMA HeaderFound ==
    ASSUME input \in Input, NEW e, Bears(auth, e), NEW m, m = Message,
           NEW n \in Name \ AppName
    PROVE  RackParameters(m)[n] = auth[n] /\ RawParameters(m)[n] = auth[n]
<1>1. PICK values : values = auth[n]
  OBVIOUS
<1>2. values = <<>> \/ \E x : values = <<x>>
  BY <1>1 DEF Bears
<1>3. <<>> \o <<>> = <<>>
  BY SmallLists, ListAndNothing
<1>4. m.auth[n] = values /\ m.query[n] = <<>> /\ Posted(m)[n] = <<>>
  BY <1>1, <1>3, MessageParts, AskedAt
<1> QED BY <1>1, <1>2, <1>4, PartFound

(* And the application's those of URL and form.                            *)
LEMMA AppFound ==
    ASSUME input \in Input, NEW e, Bears(auth, e), NEW m, m = Message, NEW n \in AppName
    PROVE  \E url, form \in Seq(AppValue) :
             /\ url = input.query[n] \o input.extra[n] /\ form = input.form[n]
             /\ RackParameters(m)[n] =
                  IF url # <<>> THEN <<Last(url)>>
                  ELSE IF form # <<>> THEN <<Last(form)>> ELSE <<>>
             /\ RawParameters(m)[n] = IF PostOrPut THEN url \o form ELSE url
<1>1. n \in Name /\ m.auth[n] = <<>>
  BY AppNames, MessageParts DEF Bears
<1>2. PICK url, form : url = input.query[n] \o input.extra[n] /\ form = input.form[n]
  OBVIOUS
<1>3. m.query[n] = url /\ Posted(m)[n] = form
  BY <1>1, <1>2, MessageParts, AskedAt
<1>4. url \in Seq(AppValue) /\ form \in Seq(AppValue)
  BY <1>2, InputTypes, ConcatProperties
<1>5. RackParameters(m)[n] =
        IF url # <<>> THEN <<Last(url)>> ELSE IF form # <<>> THEN <<Last(form)>> ELSE <<>>
  BY <1>1, <1>3, ServerFinds
<1>6. RawParameters(m)[n] = (<<>> \o url) \o (IF PostOrPut THEN form ELSE <<>>)
  BY <1>1, <1>3, ServerSigns, MessageParts DEF PostOrPut
<1>7. <<>> \o url = url /\ url \o <<>> = url
  BY <1>4, ConcatEmptySeq
<1>8. RawParameters(m)[n] = IF PostOrPut THEN url \o form ELSE url
  BY <1>6, <1>7
<1> QED BY <1>2, <1>4, <1>5, <1>8

(* A request of curb has no verb that a server could see.                  *)
LEMMA CurbNever ==
    ASSUME input \in Input, input.library = "curb", NEW e, Bears(auth, e), NEW m,
           m = Message, NEW server
    PROVE  ~Verify(server, m)
<1>1. PICK over : auth[Sig] = <<Digest("HMAC-SHA1", "", over)>>
  BY DEF Bears, SignedVerb
<1>2. PICK sig : sig = Digest("HMAC-SHA1", "", over)
  OBVIOUS
<1>3. PICK found : found = ForSignature(server, m)
  OBVIOUS
<1>4. RackParameters(m)[Method] = <<"HMAC-SHA1">> /\ RackParameters(m)[Sig] = <<sig>>
  BY <1>1, <1>2, HeaderFound, OAuthNames DEF Bears
<1>5. Verify(server, m) <=> sig = Digest("HMAC-SHA1", m.verb, found)
  BY <1>3, <1>4, VerifyFound DEF Sig, Method
<1>6. m.verb \in Verbs /\ m.verb # ""
  BY MessageParts, InputTypes DEF Verbs
<1>7. PICK verb, theirs : verb = m.verb /\ theirs = Digest("HMAC-SHA1", m.verb, found)
  OBVIOUS
<1>8. sig = [method |-> "HMAC-SHA1", verb |-> "", params |-> Normalized(over)]
  BY <1>2 DEF Digest
<1>9. theirs = [method |-> "HMAC-SHA1", verb |-> verb, params |-> Normalized(found)]
  BY <1>7 DEF Digest
<1>10. sig.verb = "" /\ theirs.verb = verb
  BY <1>8, <1>9
<1> QED BY <1>5, <1>6, <1>7, <1>10

(* Any other is verified when every name has, for the server, the values   *)
(* that the proxy took.                                                    *)
LEMMA ComparingTaken ==
    ASSUME input \in Input, input.library # "curb", NEW e, Bears(auth, e), NEW m,
           m = Message, NEW server
    PROVE  Verify(server, m)
             <=> \A n \in AppName : ToBag(Taken(n, e)) = ToBag(ForSignature(server, m)[n])
<1>1. PICK over : /\ auth[Sig] = <<Digest("HMAC-SHA1", input.verb, over)>>
                  /\ \A n \in Name \ {Sig} :
                       over[n] = IF n \in AppName THEN Taken(n, e) ELSE auth[n]
  BY DEF Bears, SignedVerb
<1>2. PICK sig : sig = Digest("HMAC-SHA1", input.verb, over)
  OBVIOUS
<1>3. RackParameters(m)[Method] = <<"HMAC-SHA1">> /\ RackParameters(m)[Sig] = <<sig>>
  BY <1>1, <1>2, HeaderFound, OAuthNames DEF Bears
<1>4. PICK found : found = ForSignature(server, m)
  OBVIOUS
<1>5. Verify(server, m) <=> sig = Digest("HMAC-SHA1", input.verb, found)
  BY <1>3, <1>4, VerifyFound, MessageParts DEF Sig, Method
<1>6. \A n \in Name \ AppName : found[n] = auth[n]
  BY <1>4, HeaderFound DEF ForSignature
<1>7. Verify(server, m) <=> \A n \in Name \ {Sig} : ToBag(over[n]) = ToBag(found[n])
  BY <1>2, <1>5, SameDigest DEF Sig
<1>8. ASSUME NEW n \in Name \ {Sig}
      PROVE  /\ n \in AppName => over[n] = Taken(n, e)
             /\ n \notin AppName => ToBag(over[n]) = ToBag(found[n])
  BY <1>1, <1>6
<1>9. (\A n \in Name \ {Sig} : ToBag(over[n]) = ToBag(found[n]))
        <=> \A n \in AppName : ToBag(Taken(n, e)) = ToBag(found[n])
  BY <1>8, AppNames, OAuthNames
<1> QED BY <1>4, <1>7, <1>9
-----------------------------------------------------------------------------
(* Names that occur once.                                                  *)

LEMMA Once ==
    ASSUME NEW S, NEW q \in Seq(S), NEW x \in Seq(S), NEW f \in Seq(S), Len(q \o x \o f) <= 1
    PROVE  /\ q = <<>> \/ \E v \in S : q = <<v>>
           /\ x = <<>> \/ \E v \in S : x = <<v>>
           /\ f = <<>> \/ \E v \in S : f = <<v>>
           /\ q # <<>> => x = <<>> /\ f = <<>>
           /\ x # <<>> => f = <<>>
<1>1. Len(q) + Len(x) + Len(f) <= 1
  <2>1. q \o x \in Seq(S) /\ Len(q \o x) = Len(q) + Len(x)
    BY ConcatProperties
  <2>2. Len((q \o x) \o f) = Len(q \o x) + Len(f)
    BY <2>1, ConcatProperties
  <2> QED BY <2>1, <2>2
<1>2. ASSUME NEW s \in Seq(S), Len(s) <= 1
      PROVE  s = <<>> \/ \E v \in S : s = <<v>>
  <2>1. CASE Len(s) = 0
    BY <2>1, EmptySeq
  <2>2. CASE Len(s) # 0
    <3>1. Len(s) = 1
      <4>1. PICK k : k = Len(s)
        OBVIOUS
      <4>2. k \in Nat
        BY <4>1, LenProperties
      <4>3. k <= 1 /\ k # 0
        BY <1>2, <2>2, <4>1
      <4> QED BY <4>1, <4>2, <4>3
    <3>2. PICK v \in S : v = s[1]
      BY <3>1, ElementOfSeq
    <3>3. s = <<v>>
      BY <3>1, <3>2
    <3> QED BY <3>3
  <2> QED BY <2>1, <2>2
<1>3. Len(q) \in Nat /\ Len(x) \in Nat /\ Len(f) \in Nat
  BY LenProperties
<1>4. /\ q # <<>> => Len(q) # 0
      /\ x # <<>> => Len(x) # 0
      /\ f # <<>> => Len(f) # 0
  BY EmptySeq
<1> QED BY <1>1, <1>2, <1>3, <1>4

LEMMA OneAgainstOne ==
    ASSUME NEW a, NEW b
    PROVE  /\ ToBag(<<a>>) = ToBag(<<b>>) <=> a = b
           /\ ToBag(<<>>) # ToBag(<<b>>)
<1>1. <<a>> \in Seq({a}) /\ <<b>> \in Seq({b})
  OBVIOUS
<1>2. ASSUME ToBag(<<a>>) = ToBag(<<b>>) PROVE a = b
  <2>1. <<a>> = <<b>>
    BY <1>1, <1>2, OneValue
  <2> QED BY <2>1
<1>3. ASSUME ToBag(<<>>) = ToBag(<<b>>) PROVE FALSE
  <2>1. <<b>> = <<>>
    BY <1>1, <1>3, NoValues
  <2> QED BY <2>1
<1> QED BY <1>2, <1>3

(* The same values on both sides: none, what the URL has, or the form when *)
(* the proxy read it as it is and the server does too.                     *)
LEMMA OnceAgree ==
    ASSUME input \in Input, input.library # "curb", NEW e, Bears(auth, e), NEW m,
           m = Message, NEW server \in Servers, NEW n \in AppName, Times(n) <= 1
    PROVE  ToBag(Taken(n, e)) = ToBag(ForSignature(server, m)[n])
             <=> \/ input.form[n] = <<>>
                 \/ /\ PostOrPut /\ input.library = "rest_client"
                    /\ \A i \in DOMAIN input.form[n] : input.form[n][i] = Plain
                 \/ PostOrPut /\ input.library = "em_http" /\ e
                 \/ server = "ActionControllerRequest" /\ ~PostOrPut
<1>1. PICK q, x, f : q = input.query[n] /\ x = input.extra[n] /\ f = input.form[n]
  OBVIOUS
<1>2. q \in Seq(AppValue) /\ x \in Seq(AppValue) /\ f \in Seq(AppValue)
  BY <1>1, InputTypes
<1>3. Len(q \o x \o f) <= 1
  BY <1>1 DEF Times
<1>4. /\ q = <<>> \/ \E v \in AppValue : q = <<v>>
      /\ x = <<>> \/ \E v \in AppValue : x = <<v>>
      /\ f = <<>> \/ \E v \in AppValue : f = <<v>>
      /\ q # <<>> => x = <<>> /\ f = <<>>
      /\ x # <<>> => f = <<>>
  BY <1>2, <1>3, Once
<1>5. PICK url :
        /\ url = q \o x
        /\ RackParameters(m)[n] =
             IF url # <<>> THEN <<Last(url)>> ELSE IF f # <<>> THEN <<Last(f)>> ELSE <<>>
        /\ RawParameters(m)[n] = IF PostOrPut THEN url \o f ELSE url
  <2>1. PICK url, form \in Seq(AppValue) :
          /\ url = input.query[n] \o input.extra[n] /\ form = input.form[n]
          /\ RackParameters(m)[n] =
               IF url # <<>> THEN <<Last(url)>>
               ELSE IF form # <<>> THEN <<Last(form)>> ELSE <<>>
          /\ RawParameters(m)[n] = IF PostOrPut THEN url \o form ELSE url
    BY AppFound
  <2>2. url = q \o x /\ form = f
    BY <1>1, <2>1
  <2> QED BY <2>1, <2>2
<1>6. PICK taken : taken = Taken(n, e)
  OBVIOUS
<1>7. PICK found : found = ForSignature(server, m)[n]
  OBVIOUS
<1>8. found = IF server = "RackRequest"
              THEN IF url # <<>> THEN <<Last(url)>>
                   ELSE IF f # <<>> THEN <<Last(f)>> ELSE <<>>
              ELSE IF PostOrPut THEN url \o f ELSE url
  BY <1>5, <1>7 DEF ForSignature
<1>9. /\ <<>> \o <<>> = <<>>
      /\ \A v : /\ <<v>> \o <<>> = <<v>> /\ <<>> \o <<v>> = <<v>>
                /\ <<v>> # <<>> /\ Last(<<v>>) = v
  BY SmallLists, ListAndNothing, LastOfOne
<1>10. input.library \in {"rest_client", "typhoeus", "em_http"}
  BY InputTypes DEF Libraries
<1>11. input.library = "rest_client" => x = <<>>
  BY <1>1, InputTypes
<1>12. server = "RackRequest" \/ server = "ActionControllerRequest"
  BY DEF Servers
<1>13. taken = CASE input.library = "typhoeus" -> url
                 [] input.library = "rest_client" ->
                      IF q # <<>> THEN q
                      ELSE IF PostOrPut /\ f # <<>> THEN <<TrueOrLast(f)>> ELSE <<>>
                 [] input.library = "em_http" ->
                      (IF PostOrPut /\ e THEN f ELSE <<>>) \o (IF x = <<>> THEN q ELSE x)
                 [] OTHER -> <<>>
  BY <1>1, <1>5, <1>6 DEF Taken
<1>14. CASE f = <<>>
  <2>1. ASSUME q = <<>>, x = <<>> PROVE taken = <<>> /\ found = <<>>
    BY <1>5, <1>8, <1>9, <1>10, <1>13, <1>14, <2>1
  <2>2. ASSUME NEW v, q = <<v>>, x = <<>> PROVE taken = <<v>> /\ found = <<v>>
    <3>1. url = <<v>>
      BY <1>5, <1>9, <2>2
    <3>2. found = <<v>>
      BY <1>8, <1>9, <1>14, <3>1
    <3>3. taken = <<v>>
      BY <1>9, <1>10, <1>13, <1>14, <2>2, <3>1
    <3> QED BY <3>2, <3>3
  <2>3. ASSUME NEW v, q = <<>>, x = <<v>> PROVE taken = <<v>> /\ found = <<v>>
    <3>1. url = <<v>>
      BY <1>5, <1>9, <2>3
    <3>2. found = <<v>>
      BY <1>8, <1>9, <1>14, <3>1
    <3>3. taken = <<v>>
      BY <1>9, <1>10, <1>11, <1>13, <1>14, <2>3, <3>1
    <3> QED BY <3>2, <3>3
  <2>4. taken = found
    BY <1>4, <2>1, <2>2, <2>3
  <2> QED BY <1>1, <1>6, <1>7, <1>14, <2>4
<1>15. ASSUME NEW v \in AppValue, f = <<v>>
       PROVE  ToBag(taken) = ToBag(found)
                <=> \/ PostOrPut /\ input.library = "rest_client" /\ v = Plain
                    \/ PostOrPut /\ input.library = "em_http" /\ e
                    \/ server = "ActionControllerRequest" /\ ~PostOrPut
  <2>1. q = <<>> /\ x = <<>> /\ url = <<>>
    BY <1>4, <1>5, <1>9, <1>15
  <2>2. found = IF server = "ActionControllerRequest" /\ ~PostOrPut THEN <<>> ELSE <<v>>
    BY <1>8, <1>9, <1>12, <1>15, <2>1
  <2>3. taken = IF PostOrPut /\ input.library = "rest_client" THEN <<TrueOrLast(<<v>>)>>
                ELSE IF PostOrPut /\ input.library = "em_http" /\ e THEN <<v>> ELSE <<>>
    BY <1>9, <1>10, <1>13, <1>15, <2>1
  <2>4. TrueOrLast(<<v>>) = v <=> v = Plain
    BY InputsFit, TrueOrLastOfOne DEF Undecoded, Values, Plain
  <2>5. PICK true : true = TrueOrLast(<<v>>)
    OBVIOUS
  <2>6. /\ ToBag(<<true>>) = ToBag(<<v>>) <=> true = v
        /\ ToBag(<<>>) # ToBag(<<v>>) /\ ToBag(<<>>) # ToBag(<<true>>)
    BY OneAgainstOne
  <2> QED BY <1>10, <2>2, <2>3, <2>4, <2>5, <2>6
<1>16. ASSUME NEW v \in AppValue, f = <<v>>
       PROVE  /\ f # <<>>
              /\ (\A i \in DOMAIN f : f[i] = Plain) <=> v = Plain
  BY <1>16
<1> QED BY <1>1, <1>4, <1>6, <1>7, <1>14, <1>15, <1>16
-----------------------------------------------------------------------------
(* The verdicts on requests in which every name occurs once are the        *)
(* expected ones: none of curb's is verified; any other is when it has no  *)
(* form, its form was signed, or the server leaves the form out.           *)
THEOREM FirstVerdicts == Spec => []VerifiesExactly
<1>1. ASSUME ClientInv, \A n \in AppName : Times(n) <= 1, NEW v \in verdicts
      PROVE  v.ok <=> /\ input.library # "curb"
                      /\ \/ ~HasForm
                         \/ FormSigned
                         \/ v.by = "ActionControllerRequest" /\ ~PostOrPut
  <2>1. PICK server \in Servers : server = v.by
    BY <1>1 DEF ClientInv
  <2>2. input \in Input /\ v = [by |-> server, ok |-> Verify(server, Message)]
    BY <1>1, <2>1 DEF ClientInv
  <2>3. Bears(auth, early)
    BY <1>1 DEF ClientInv
  <2>4. PICK m, e : m = Message /\ e = early
    OBVIOUS
  <2>5. Bears(auth, e)
    BY <2>3, <2>4
  <2>6. v.ok <=> Verify(server, m)
    BY <2>2, <2>4
  <2>7. CASE input.library = "curb"
    BY <2>2, <2>4, <2>5, <2>6, <2>7, CurbNever
  <2>8. CASE input.library # "curb"
    <3>1. v.ok <=> \A n \in AppName :
                     ToBag(Taken(n, e)) = ToBag(ForSignature(server, m)[n])
      BY <2>2, <2>4, <2>5, <2>6, <2>8, ComparingTaken
    <3>2. \A n \in AppName :
            ToBag(Taken(n, e)) = ToBag(ForSignature(server, m)[n])
              <=> \/ input.form[n] = <<>>
                  \/ /\ PostOrPut /\ input.library = "rest_client"
                     /\ \A i \in DOMAIN input.form[n] : input.form[n][i] = Plain
                  \/ PostOrPut /\ input.library = "em_http" /\ e
                  \/ server = "ActionControllerRequest" /\ ~PostOrPut
      BY <1>1, <2>2, <2>4, <2>5, <2>8, OnceAgree
    <3>3. v.ok <=> \A n \in AppName :
                     \/ input.form[n] = <<>>
                     \/ /\ PostOrPut /\ input.library = "rest_client"
                        /\ \A i \in DOMAIN input.form[n] : input.form[n][i] = Plain
                     \/ PostOrPut /\ input.library = "em_http" /\ e
                     \/ server = "ActionControllerRequest" /\ ~PostOrPut
      BY <3>1, <3>2
    <3>4. \A n \in AppName : input.form[n] = <<>> =>
            \A i \in DOMAIN input.form[n] : input.form[n][i] = Plain
      <4>1. ASSUME NEW n \in AppName, input.form[n] = <<>>
            PROVE  \A i \in DOMAIN input.form[n] : input.form[n][i] = Plain
        <5>1. PICK form : form = input.form[n]
          OBVIOUS
        <5>2. DOMAIN form = {}
          BY <4>1, <5>1
        <5> QED BY <5>1, <5>2
      <4> QED BY <4>1
    <3>5. OnlyPlain <=> \A n \in AppName : \A i \in DOMAIN input.form[n] :
                          input.form[n][i] = Plain
      BY DEF OnlyPlain
    <3>6. HasForm <=> \E n \in AppName : input.form[n] # <<>>
      BY DEF HasForm
    <3>7. FormSigned <=> /\ PostOrPut
                         /\ \/ input.library = "rest_client" /\ OnlyPlain
                            \/ input.library = "em_http" /\ e
      BY <2>4 DEF FormSigned
    <3> QED BY <2>1, <2>8, <3>3, <3>4, <3>5, <3>6, <3>7
  <2> QED BY <2>7, <2>8
<1>2. ASSUME ClientInv PROVE VerifiesExactly
  BY <1>1, <1>2 DEF VerifiesExactly
<1> QED BY <1>2, ClientInvariance, PTL

(* A Rack server agrees with rest-client's proxy on which of several       *)
(* values counts, and a Rails server with em-http's on how often each one  *)
(* does, in whichever order they come.                                     *)
LEMMA RestClientAgrees ==
    ASSUME input \in Input, input.library = "rest_client", NEW e, Bears(auth, e), NEW m,
           m = Message, NEW n \in AppName, PostOrPut, OnlyPlain,
           Len(input.query[n]) <= 1, input.extra[n] = <<>>
    PROVE  Taken(n, e) = RackParameters(m)[n]
<1>1. PICK url, form \in Seq(AppValue) :
        /\ url = input.query[n] \o input.extra[n] /\ form = input.form[n]
        /\ RackParameters(m)[n] =
             IF url # <<>> THEN <<Last(url)>>
             ELSE IF form # <<>> THEN <<Last(form)>> ELSE <<>>
        /\ RawParameters(m)[n] = IF PostOrPut THEN url \o form ELSE url
  BY AppFound
<1>2. PICK q \in Seq(AppValue) : q = input.query[n]
  BY InputTypes
<1>3. url = q
  <2>1. url = q \o <<>>
    BY <1>1, <1>2
  <2> QED BY <2>1, ConcatEmptySeq
<1>4. Taken(n, e) = IF q # <<>> THEN q
                    ELSE IF form # <<>> THEN <<TrueOrLast(form)>> ELSE <<>>
  BY <1>1, <1>2 DEF Taken
<1>5. CASE q # <<>>
  <2>1. PICK k : k = Len(q)
    OBVIOUS
  <2>2. k \in Nat /\ k # 0 /\ k <= 1
    BY <1>2, <1>5, <2>1, EmptySeq, LenProperties
  <2>3. k = 1
    BY <2>2
  <2>4. PICK w : w = q[1]
    OBVIOUS
  <2>5. Len(q) = 1 /\ q \in Seq(AppValue)
    BY <1>2, <2>1, <2>3
  <2>6. q = <<w>>
    BY <2>4, <2>5
  <2>7. Last(q) = w
    BY <2>4, <2>5 DEF Last
  <2> QED BY <1>1, <1>3, <1>4, <1>5, <2>6, <2>7
<1>6. CASE q = <<>> /\ form # <<>>
  <2>1. Len(form) \in Nat /\ Len(form) # 0 /\ DOMAIN form = 1 .. Len(form)
    BY <1>6, EmptySeq, LenProperties
  <2>2. \A i \in DOMAIN form : form[i] = Plain
    BY <1>1 DEF OnlyPlain
  <2>3. Last(form) = Plain
    BY <2>1, <2>2 DEF Last
  <2>4. TrueOrLast(form) = Plain
    BY <1>6, <2>2, TrueOrLastOfPlain
  <2> QED BY <1>1, <1>3, <1>4, <1>6, <2>3, <2>4
<1>7. CASE q = <<>> /\ form = <<>>
  BY <1>1, <1>3, <1>4, <1>7
<1> QED BY <1>5, <1>6, <1>7

LEMMA EmAgrees ==
    ASSUME input \in Input, input.library = "em_http", NEW e, e = TRUE, Bears(auth, e), NEW m,
           m = Message, NEW n \in AppName, PostOrPut, input.extra[n] = <<>>
    PROVE  ToBag(Taken(n, e)) = ToBag(RawParameters(m)[n])
<1>1. PICK url, form \in Seq(AppValue) :
        /\ url = input.query[n] \o input.extra[n] /\ form = input.form[n]
        /\ RackParameters(m)[n] =
             IF url # <<>> THEN <<Last(url)>>
             ELSE IF form # <<>> THEN <<Last(form)>> ELSE <<>>
        /\ RawParameters(m)[n] = IF PostOrPut THEN url \o form ELSE url
  BY AppFound
<1>2. PICK q \in Seq(AppValue) : q = input.query[n]
  BY InputTypes
<1>3. url = q
  <2>1. url = q \o <<>>
    BY <1>1, <1>2
  <2> QED BY <2>1, ConcatEmptySeq
<1>4. Taken(n, e) = form \o url
  BY <1>1, <1>2, <1>3 DEF Taken
<1>5. RawParameters(m)[n] = url \o form
  BY <1>1
<1> QED BY <1>4, <1>5, Swapped

(* Repeated names: a request of rest-client whose form holds plain values  *)
(* only is verified by a Rack server, and one of em-http by a Rails server *)
(* however often its names are repeated.                                   *)
THEOREM RepeatedAgree == Spec => []RepeatedNamesAgree
<1>1. ASSUME ClientInv, NEW v \in verdicts, input.library # "curb"
      PROVE  v.ok <=> \A n \in AppName :
               ToBag(Taken(n, early)) = ToBag(ForSignature(v.by, Message)[n])
  <2>1. PICK server : server = v.by
    OBVIOUS
  <2>2. input \in Input /\ v = [by |-> server, ok |-> Verify(server, Message)]
    BY <1>1, <2>1 DEF ClientInv
  <2>3. PICK m, e : m = Message /\ e = early
    OBVIOUS
  <2>4. Bears(auth, e)
    BY <1>1, <2>3 DEF ClientInv
  <2>5. v.ok <=> Verify(server, m)
    BY <2>2, <2>3
  <2>6. Verify(server, m) <=>
          \A n \in AppName : ToBag(Taken(n, e)) = ToBag(ForSignature(server, m)[n])
    BY <1>1, <2>2, <2>3, <2>4, ComparingTaken
  <2> QED BY <2>1, <2>3, <2>5, <2>6
<1>2. ASSUME ClientInv, input.library = "rest_client", FormSigned,
             \A n \in AppName : Len(input.query[n]) <= 1 /\ input.extra[n] = <<>>,
             NEW v \in verdicts, v.by = "RackRequest"
      PROVE  v.ok
  <2>1. PostOrPut /\ OnlyPlain
    BY <1>2 DEF FormSigned
  <2>2. PICK m, e : m = Message /\ e = early
    OBVIOUS
  <2>3. input \in Input /\ Bears(auth, e)
    BY <1>2, <2>2 DEF ClientInv
  <2>4. ASSUME NEW n \in AppName PROVE Taken(n, e) = RackParameters(m)[n]
    BY <1>2, <2>1, <2>2, <2>3, RestClientAgrees
  <2>5. \A n \in AppName : ToBag(Taken(n, e)) = ToBag(ForSignature(v.by, m)[n])
    BY <1>2, <2>4 DEF ForSignature
  <2> QED BY <1>1, <1>2, <2>2, <2>5
<1>3. ASSUME ClientInv, input.library = "em_http", FormSigned,
             \A n \in AppName : input.extra[n] = <<>>,
             NEW v \in verdicts, v.by = "ActionControllerRequest"
      PROVE  v.ok
  <2>1. PostOrPut /\ early
    BY <1>3 DEF FormSigned
  <2>2. PICK m, e : m = Message /\ e = early
    OBVIOUS
  <2>3. input \in Input /\ Bears(auth, e) /\ e = TRUE
    BY <1>3, <2>1, <2>2 DEF ClientInv
  <2>4. ASSUME NEW n \in AppName PROVE ToBag(Taken(n, e)) = ToBag(RawParameters(m)[n])
    BY <1>3, <2>1, <2>2, <2>3, EmAgrees
  <2>5. \A n \in AppName : ToBag(Taken(n, e)) = ToBag(ForSignature(v.by, m)[n])
    BY <1>3, <2>4 DEF ForSignature
  <2> QED BY <1>1, <1>3, <2>2, <2>5
<1>4. ASSUME ClientInv PROVE RepeatedNamesAgree
  BY <1>2, <1>3, <1>4 DEF RepeatedNamesAgree
<1> QED BY <1>4, ClientInvariance, PTL
=============================================================================
