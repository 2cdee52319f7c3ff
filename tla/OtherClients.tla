---------------------------- MODULE OtherClients ----------------------------
(***************************************************************************)
(* Requests of the other HTTP libraries.  The application builds a         *)
(* request, has a Client::Helper sign it through the library's request     *)
(* proxy, puts the header on it and lets the library send it; a server     *)
(* verifies it.  Each proxy has its own reading of the URL and of the      *)
(* form, and each library finishes the request after it was signed.        *)
(*                                                                         *)
(* A value is "plain", "reserved" (form encoding changes it) or "blank";   *)
(* "encoded" is a reserved one that nobody decoded.                        *)
(***************************************************************************)
EXTENDS Verification

CONSTANTS Input  \* the requests the application makes

Libraries == {"typhoeus", "curb", "rest_client", "em_http"}
Plain == "plain"
Values == {Plain, "reserved", "blank"}

(* query: in the URL.  extra: what typhoeus takes as :params and em_http   *)
(* as :query, for the library to append to the URL; the others have no     *)
(* such thing.  form: the body.                                            *)
Inputs == [library : Libraries, verb : Verbs, query : AppParams,
           extra : AppParams, form : AppParams]

ASSUME InputsFit ==
    /\ Input \subseteq Inputs /\ AppValue = Values
    /\ \A in \in Input : in.library \in {"curb", "rest_client"} =>
         \A n \in AppName : in.extra[n] = <<>>

VARIABLES input,    \* what was asked for
          typed,    \* whether the Content-Type of a form is on the request
          auth,     \* its Authorization header
          early,    \* whether typed was TRUE when it was signed (history)
          status,   \* "building", "signed", "raised" or "sent"
          verdicts  \* what servers said of it
vars == <<input, typed, auth, early, status, verdicts>>
-----------------------------------------------------------------------------
Query == Asked(input.query)
Extra == Asked(input.extra)
Form  == Asked(input.form)

Mapped(params, Op(_)) ==
    [n \in Name |-> [i \in DOMAIN params[n] |-> Op(params[n][i])]]

\* split("&") and split("=") decode nothing; a blank value is nil then,
\* which curb's proxy keeps.
Undecoded(v) == IF v = "reserved" THEN "encoded" ELSE v

(* query_string_to_hash: a blank value is true, if there is no other, and  *)
(* does not replace one.  Variant: it is like any other.                   *)
TrueOrLast_Blank(values) == Undecoded(Last(values))
TrueOrLast(values) ==
    LET given == {i \in DOMAIN values : values[i] # "blank"}
    IN IF given = {} THEN "true" ELSE Undecoded(values[Max(given)])

(* Curl::Easy: no verb is known, and the form counts if it has its type.   *)
CurbParameters ==
    Merge(IF typed THEN LastWins(Mapped(Form, Undecoded)) ELSE NoParams, Query)

(* RestClient::Request: a Hash payload has its type from the start.        *)
RestClientForm ==
    [n \in Name |-> IF Form[n] = <<>> THEN <<>> ELSE <<TrueOrLast(Form[n])>>]
RestClientParameters ==
    Merge(IF input.verb \in {"POST", "PUT"} THEN RestClientForm ELSE NoParams, Query)

(* Typhoeus::Request: :params are in the URL by now, and are all that the  *)
(* proxy takes for the form of a POST.  The body is never read.            *)
TyphoeusParameters ==
    LET url == Join(Query, Extra)
    IN Merge(IF input.verb = "POST" THEN Extra ELSE NoParams, url)

(* EventMachine::HttpClient: the :query replaces what the URL has of the   *)
(* same name, the values of form and URL are put together.                 *)
EmPosted == IF input.verb \in {"POST", "PUT"} /\ typed THEN Form ELSE NoParams

(* Variant: what is in the URL hides the form.                             *)
EmParameters_Hidden == Merge(EmPosted, Merge(Query, Extra))
EmParameters == Join(EmPosted, Merge(Query, Extra))

(* curb's proxy splits a body that is nil.  em_http's merged_parameters    *)
(* appends to an array, which a string under :query is not; that :query    *)
(* maps strings to strings is all that is modelled of it.                  *)
SignRaises ==
    \/ input.library = "curb" /\ typed /\ Form = NoParams
    \/ /\ input.library = "em_http"
       /\ \E n \in Name : EmPosted[n] # <<>> /\ Extra[n] # <<>>

Parameters ==
    CASE input.library = "typhoeus"    -> TyphoeusParameters
      [] input.library = "curb"        -> CurbParameters
      [] input.library = "rest_client" -> RestClientParameters
      [] input.library = "em_http"     -> EmParameters

(* Curl::Easy's method is nil, the others give the request's.              *)
SignedVerb == IF input.library = "curb" THEN "" ELSE input.verb

(* Client::Helper#oauth_parameters; no body hash outside Net::HTTP.        *)
OAuthParameters ==
    [NoParams EXCEPT !["oauth_consumer_key"] = <<"key">>,
                     !["oauth_signature_method"] = <<"HMAC-SHA1">>,
                     !["oauth_nonce"] = <<1>>]

Header ==
    LET over == Join(Parameters, OAuthParameters)
    IN [OAuthParameters EXCEPT !["oauth_signature"] =
            <<Digest("HMAC-SHA1", SignedVerb, over)>>]

(* Every library sends a form with its type, given or not, and with all    *)
(* the parameters of the URL.                                              *)
Message ==
    [verb |-> input.verb, query |-> Join(Query, Extra), auth |-> auth, body |-> Form,
     type |-> IF Form = NoParams THEN "none" ELSE "form"]
-----------------------------------------------------------------------------
Init ==
    /\ input \in Input
    /\ typed = FALSE
    /\ auth = NoParams
    /\ early = FALSE
    /\ status = "building"
    /\ verdicts = {}

(* The application may set the Content-Type before or after it signs.      *)
SetType ==
    /\ status \in {"building", "signed"}
    /\ ~typed
    /\ typed' = TRUE
    /\ UNCHANGED <<input, auth, early, status, verdicts>>

(* Variant: the error is swallowed and the request goes out unsigned.      *)
Sign_Rescued ==
    /\ status = "building"
    /\ status' = "signed"
    /\ auth' = IF SignRaises THEN auth ELSE Header
    /\ early' = typed
    /\ UNCHANGED <<input, typed, verdicts>>

(* Client::Helper#header (em_http: oauth! under the header scheme).        *)
Sign ==
    /\ status = "building"
    /\ IF SignRaises THEN status' = "raised" /\ UNCHANGED auth
       ELSE status' = "signed" /\ auth' = Header
    /\ early' = typed
    /\ UNCHANGED <<input, typed, verdicts>>

Send ==
    /\ status = "signed"
    /\ status' = "sent"
    /\ UNCHANGED <<input, typed, auth, early, verdicts>>

Receive(server) ==
    /\ status = "sent"
    /\ verdicts' = verdicts \cup {[by |-> server, ok |-> Verify(server, Message)]}
    /\ UNCHANGED <<input, typed, auth, early, status>>

Next ==
    \/ SetType \/ Sign \/ Send
    \/ \E server \in Servers : Receive(server)

Spec == Init /\ [][Next]_vars
-----------------------------------------------------------------------------
(* The types of the variables; a request that could not be signed is not   *)
(* sent, and a server gives one verdict on it.                             *)
TypeOK ==
    /\ input \in Input
    /\ typed \in BOOLEAN
    /\ DOMAIN auth = Name
    /\ status \in {"building", "signed", "raised", "sent"}
    /\ status \in {"signed", "sent"} <=> auth["oauth_signature"] # <<>>
    /\ \A v, w \in verdicts : v.by = w.by => v = w

(* What was asked for, in the application's terms.                         *)
Times(n) == Len(input.query[n] \o input.extra[n] \o input.form[n])
HasForm  == \E n \in AppName : input.form[n] # <<>>
OnlyPlain ==
    \A n \in AppName : \A i \in DOMAIN input.form[n] : input.form[n][i] = Plain
PostOrPut == input.verb \in {"POST", "PUT"}

(* The forms a signature covers: of rest-client only plain values, of      *)
(* em-http those that had their type by then, of typhoeus none.            *)
FormSigned ==
    /\ PostOrPut
    /\ \/ input.library = "rest_client" /\ OnlyPlain
       \/ input.library = "em_http" /\ early

(* When every name occurs once in the request, a server verifies it        *)
(* exactly when it has no form, when its form was signed, or when the      *)
(* server does not read the form either; requests of curb it never does.   *)
VerifiesExactly ==
    (\A n \in AppName : Times(n) <= 1) =>
      \A v \in verdicts :
        v.ok <=> /\ input.library # "curb"
                 /\ \/ ~HasForm
                    \/ FormSigned
                    \/ v.by = "ActionControllerRequest" /\ ~PostOrPut

(* Names that occur twice: a Rack server merges URL and form as            *)
(* rest-client's proxy does, and a Rails server counts every instance, as  *)
(* em-http's does, whichever part it is in; each pair agrees.              *)
RepeatedNamesAgree ==
    /\ input.library = "rest_client" /\ FormSigned
         /\ (\A n \in AppName : Len(input.query[n]) <= 1 /\ input.extra[n] = <<>>)
         => \A v \in verdicts : v.by = "RackRequest" => v.ok
    /\ input.library = "em_http" /\ FormSigned
         /\ (\A n \in AppName : input.extra[n] = <<>>)
         => \A v \in verdicts : v.by = "ActionControllerRequest" => v.ok
=============================================================================
