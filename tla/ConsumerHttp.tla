---------------------------- MODULE ConsumerHttp ----------------------------
(***************************************************************************)
(* OAuth::Consumer and the state its calls share: the memoised connection  *)
(* @http and the memoised root @uri.  Every request made through the       *)
(* consumer reads both, several of them write both, and none of them takes *)
(* a lock.                                                                 *)
(*                                                                         *)
(* A caller is a thread of the application.  It makes one call at a time:  *)
(*   "plain"    Consumer#request                                           *)
(*   "service"  AccessToken#request (get, head, post, put, patch, delete)  *)
(*   "token"    Consumer#token_request (get_request_token,                 *)
(*              get_access_token, RequestToken#get_access_token)           *)
(* and a call is cut at every read or write of the shared state, so the    *)
(* steps of the callers interleave as the threads do.  All shared accesses *)
(* of one step are taken to be atomic.                                     *)
(*                                                                         *)
(* What a request carries (parameters, bodies, signatures) is left out     *)
(* here: a request is where it is sent and the URL it was signed for.      *)
(***************************************************************************)
EXTENDS Uris
LOCAL INSTANCE SequencesExt

CONSTANTS Caller,      \* threads that share the consumer
          Config,      \* the option hashes the consumer may be built with
          PlainRef,    \* what Consumer#request is called with
          ServiceRef,  \* what AccessToken#request is called with
          TokenOpts,   \* the redirect options token calls are given
          Answer,      \* the Locations servers redirect to
          AppHttp,     \* connections the application assigns with http=
          AppUri       \* roots the application assigns with uri(...)

(* :site, :request_endpoint, :request_token_url/path and :access_token_url *)
(* /path as one set of references, and the two redirect options.           *)
Options == [site : Url, endpoint : Origin \cup {None}, tokenRefs : SUBSET Ref,
            max : Nat, cross : BOOLEAN]

(* Per-call redirect options: None when the key is absent.                 *)
CallOpts == [max : Nat \cup {None}, cross : BOOLEAN \cup {None}]
NoOpts   == [max |-> None, cross |-> None]

ASSUME ConstantsFit ==
    /\ Config \subseteq Options
    /\ PlainRef \subseteq Ref
    /\ ServiceRef \subseteq Ref
    /\ TokenOpts \subseteq CallOpts
    /\ Answer \subseteq Location
    /\ AppHttp \subseteq Origin
    /\ AppUri \subseteq Url

VARIABLES options,  \* @options: chosen at construction, then never changed
          http,     \* @http: where the connection goes, None until created
          uri,      \* @uri: None until read or set
          pc,       \* pc[t]: where caller t is in its call
          call,     \* call[t]: the local variables of t's call
          trail     \* trail[t]: the requests t's call has sent (history)
vars == <<options, http, uri, pc, call, trail>>

Labels == {"idle", "swapUri", "swapHttp", "resolve", "build", "sign", "send",
           "await", "restoreUri", "restoreHttp"}

(* ref: the path argument.  via: the Location it was followed from.  home, *)
(* swapped: site_uri and is_service_uri_different.  hops: the redirect     *)
(* count.  path, signed: the request line and the URL it was signed for.   *)
Call == [kind : {"plain", "service", "token"}, ref : Ref, opts : CallOpts,
         via : Location \cup {None}, home : Url \cup {None}, swapped : BOOLEAN,
         hops : Nat, path : Path, signed : Url \cup {None}]

Exchange == [to : Origin, path : Path, signed : Url, ref : Ref,
             via : Location \cup {None}]

ASSUME NoneIsNoCall == None \notin Call

TypeOK ==
    /\ options \in Config
    /\ http \in Origin \cup {None}
    /\ uri \in Url \cup {None}
    /\ pc \in [Caller -> Labels]
    /\ call \in [Caller -> Call \cup {None}]
    /\ trail \in [Caller -> Seq(Exchange)]
    /\ \A t \in Caller : pc[t] # "idle" => call[t] \in Call

Init ==
    /\ options \in Config
    /\ http = None
    /\ uri = None
    /\ pc = [t \in Caller |-> "idle"]
    /\ call = [t \in Caller |-> None]
    /\ trail = [t \in Caller |-> <<>>]
-----------------------------------------------------------------------------
(* Variant: an explicit url wins over request_endpoint.                    *)
CreateHttp_UrlFirst(target) ==
    IF target # None THEN target
    ELSE IF options.endpoint # None THEN options.endpoint
    ELSE options.site.origin

(* create_http(url): request_endpoint overrides the url, and the site      *)
(* stands in for a missing one.                                            *)
CreateHttp(target) ==
    IF options.endpoint # None THEN options.endpoint
    ELSE IF target = None THEN options.site.origin
    ELSE target

(* The http reader: @http ||= create_http.                                 *)
Connection == IF http = None THEN CreateHttp(None) ELSE http

(* Where a request for ref belongs.                                        *)
Destined(ref) == CreateHttp(IF ref.kind = "absolute" THEN ref.origin ELSE None)

(* The uri reader: @uri ||= URI.parse(site).                               *)
SiteUri == IF uri = None THEN options.site ELSE uri

(* create_http_request puts the site's path in front when the connection's *)
(* host is the site's host, whatever its scheme and port.                  *)
OnSiteHost(conn) == options.site.origin.host = conn.host
RequestPath(conn, path) ==
    IF options.site.path # Root /\ OnSiteHost(conn) THEN options.site.path \o path
    ELSE path

(* Variant: signs for the site's host even on another connection.          *)
SignedUrl_SiteHost(conn, path) ==
    [origin |-> [scheme |-> options.site.origin.scheme,
                 host   |-> options.site.origin.host,
                 port   |-> conn.port],
     path   |-> path]

(* oauth_full_request_uri: host and port come from the connection, the     *)
(* scheme from the site.  With a request_endpoint the host is replaced by  *)
(* the site's text after "http(s)://", the port is still the connection's. *)
SignedUrl(conn, path) ==
    [origin |-> [scheme |-> options.site.origin.scheme,
                 host   |-> IF options.endpoint # None THEN options.site.origin.host
                            ELSE conn.host,
                 port   |-> conn.port],
     path   |-> path]

(* URI#host= refuses that text when the site has a path.                   *)
Signable == options.endpoint = None \/ options.site.path = <<>>

(* token_request_uri: a rooted path is resolved against the site.          *)
TokenUri(ref) == IF ref.kind = "absolute" THEN UrlOf(ref)
                 ELSE Merge(options.site, ref)

(* token_request_redirect_path: a full URL only when the origin changes.   *)
RedirectRef(from, target) ==
    IF CrossOrigin(from, target)
    THEN [kind |-> "absolute", origin |-> target.origin, path |-> target.path]
    ELSE [kind |-> "rooted", path |-> RequestUri(target.path)]

MaxRedirects(opts) == IF opts.max # None THEN opts.max ELSE options.max
CrossAllowed(opts) == IF opts.cross # None THEN opts.cross ELSE options.cross
-----------------------------------------------------------------------------
Goto(t, label) == pc' = [pc EXCEPT ![t] = label]

Begin(t, kind, ref, opts, home, swapped) ==
    /\ pc[t] = "idle"
    /\ Goto(t, IF swapped THEN "swapUri" ELSE "resolve")
    /\ call' = [call EXCEPT ![t] =
                 [kind |-> kind, ref |-> ref, opts |-> opts, via |-> None,
                  home |-> home, swapped |-> swapped, hops |-> 0,
                  path |-> <<>>, signed |-> None]]
    /\ UNCHANGED <<options, http, trail>>

End(t) ==
    /\ Goto(t, "idle")
    /\ call' = [call EXCEPT ![t] = None]
    /\ trail' = [trail EXCEPT ![t] = <<>>]

(* Variant: no ensure clause.                                              *)
Leave_NoEnsure(t) == End(t)

(* The call returns or raises: either way through AccessToken's ensure.    *)
Leave(t) ==
    IF call[t].swapped
    THEN Goto(t, "restoreUri") /\ UNCHANGED <<call, trail>>
    ELSE End(t)

(* Consumer#request called by the application.                             *)
PlainCall(t) ==
    /\ \E ref \in PlainRef : Begin(t, "plain", ref, NoOpts, None, FALSE)
    /\ UNCHANGED uri

(* AccessToken#request: remember consumer.uri, and whether the request is  *)
(* for a full URL other than that.                                         *)
ServiceCall(t) ==
    /\ \E ref \in ServiceRef :
         Begin(t, "service", ref, NoOpts, SiteUri,
               ref.kind = "absolute" /\ ~SameUrl(UrlOf(ref), SiteUri))
    /\ uri' = SiteUri

(* Consumer#token_request on one of the configured token endpoints.        *)
TokenCall(t) ==
    /\ \E ref \in options.tokenRefs, opts \in TokenOpts :
         Begin(t, "token", ref, opts, None, FALSE)
    /\ UNCHANGED uri

(* Variant: hands the unparsed path to consumer.uri.                       *)
SwapUri_Unparsed(t) ==
    /\ pc[t] = "swapUri"
    /\ uri' = call[t].ref
    /\ Goto(t, "swapHttp")
    /\ UNCHANGED <<options, http, call, trail>>

(* consumer.uri(request_uri): two writes, the second one discards the      *)
(* connection for a new one to the site.                                   *)
SwapUri(t) ==
    /\ pc[t] = "swapUri"
    /\ uri' = UrlOf(call[t].ref)
    /\ Goto(t, "swapHttp")
    /\ UNCHANGED <<options, http, call, trail>>

SwapHttp(t) ==
    /\ pc[t] = "swapHttp"
    /\ http' = CreateHttp(None)
    /\ Goto(t, "resolve")
    /\ UNCHANGED <<options, uri, call, trail>>

(* Consumer#request: a full URL replaces the consumer's connection, and    *)
(* only its path goes on.                                                  *)
Resolve(t) ==
    /\ pc[t] = "resolve"
    /\ http' = IF call[t].ref.kind = "absolute" THEN CreateHttp(call[t].ref.origin)
               ELSE http
    /\ Goto(t, "build")
    /\ UNCHANGED <<options, uri, call, trail>>

(* create_http_request: reads the connection unless the site's path is     *)
(* "/".  Net::HTTP raises on an empty request path.                        *)
Build(t) ==
    /\ pc[t] = "build"
    /\ http' = IF options.site.path = Root THEN http ELSE Connection
    /\ LET path == RequestPath(Connection, call[t].ref.path)
       IN IF path = <<>> THEN Leave(t)
          ELSE /\ call' = [call EXCEPT ![t] = [call[t] EXCEPT !.path = path]]
               /\ Goto(t, "sign")
               /\ UNCHANGED trail
    /\ UNCHANGED <<options, uri>>

(* create_http_request raises on an unknown method or an unsizable body.   *)
BuildRaises(t) ==
    /\ pc[t] = "build"
    /\ http' = IF options.site.path = Root THEN http ELSE Connection
    /\ Leave(t)
    /\ UNCHANGED <<options, uri>>

(* sign!: the URL that is signed is computed from the connection as it is  *)
(* now, which need not be the one the path was built for.                  *)
Sign(t) ==
    /\ pc[t] = "sign"
    /\ http' = Connection
    /\ IF Signable
       THEN /\ call' = [call EXCEPT ![t] =
                         [call[t] EXCEPT !.signed = SignedUrl(Connection, call[t].path)]]
            /\ Goto(t, "send")
            /\ UNCHANGED trail
       ELSE Leave(t)
    /\ UNCHANGED <<options, uri>>

(* The block given to Consumer#request returned :done: nothing is sent.    *)
BlockDone(t) ==
    /\ pc[t] = "send"
    /\ call[t].kind = "plain"
    /\ Leave(t)
    /\ UNCHANGED <<options, http, uri>>

(* http.request(req): the connection is read once more.                    *)
Send(t) ==
    /\ pc[t] = "send"
    /\ http' = Connection
    /\ trail' = [trail EXCEPT ![t] = Append(@,
                  [to |-> Connection, path |-> call[t].path,
                   signed |-> call[t].signed, ref |-> call[t].ref,
                   via |-> call[t].via])]
    /\ Goto(t, "await")
    /\ UNCHANGED <<options, uri, call>>

(* Any answer that ends the call: for plain and service calls every        *)
(* answer; for token calls 2xx, 4xx, 5xx and 3xx without a Location.       *)
(* Also oauth_problem, a connection error or a timeout.                    *)
Answered(t) ==
    /\ pc[t] = "await"
    /\ Leave(t)
    /\ UNCHANGED <<options, http, uri>>

(* Variants: no look at the origin; the count compared before it is raised. *)
Refused_AnyOrigin(t, target) == call[t].hops + 1 > MaxRedirects(call[t].opts)

Refused_LateCount(t, target) ==
    \/ call[t].hops > MaxRedirects(call[t].opts)
    \/ /\ CrossOrigin(TokenUri(call[t].ref), target)
       /\ ~CrossAllowed(call[t].opts)

(* 3xx with a Location answers a token request: refused over the limit or  *)
(* across origins without permission, else asked again from the top.       *)
Refused(t, target) ==
    \/ call[t].hops + 1 > MaxRedirects(call[t].opts)
    \/ /\ CrossOrigin(TokenUri(call[t].ref), target)
       /\ ~CrossAllowed(call[t].opts)

(* Variant: the next request is made as if it were a call of its own.      *)
Follow_Afresh(t, loc, target) ==
    /\ call' = [call EXCEPT ![t] =
                 [call[t] EXCEPT !.ref = RedirectRef(TokenUri(call[t].ref), target),
                                 !.via = None]]
    /\ Goto(t, "resolve")
    /\ trail' = [trail EXCEPT ![t] = <<>>]

Follow(t, loc, target) ==
    /\ call' = [call EXCEPT ![t] =
                 [call[t] EXCEPT !.ref = RedirectRef(TokenUri(call[t].ref), target),
                                 !.via = loc,
                                 !.hops = call[t].hops + 1]]
    /\ Goto(t, "resolve")
    /\ UNCHANGED trail

Redirected(t) ==
    /\ pc[t] = "await"
    /\ call[t].kind = "token"
    /\ \E loc \in Answer :
         LET target == Merge(TokenUri(call[t].ref), loc)
         IN \/ Refused(t, target) /\ Leave(t)
            \/ ~Refused(t, target) /\ Follow(t, loc, target)
    /\ UNCHANGED <<options, http, uri>>

(* Variants: one half of the reset is forgotten.                           *)
RestoreUri_Kept(t) ==
    /\ pc[t] = "restoreUri"
    /\ Goto(t, "restoreHttp")
    /\ UNCHANGED <<options, http, uri, call, trail>>

RestoreHttp_Kept(t) ==
    /\ pc[t] = "restoreHttp"
    /\ End(t)
    /\ UNCHANGED <<options, http, uri>>

(* ensure: consumer.uri(site_uri), again two writes.                       *)
RestoreUri(t) ==
    /\ pc[t] = "restoreUri"
    /\ uri' = call[t].home
    /\ Goto(t, "restoreHttp")
    /\ UNCHANGED <<options, http, call, trail>>

RestoreHttp(t) ==
    /\ pc[t] = "restoreHttp"
    /\ http' = CreateHttp(None)
    /\ End(t)
    /\ UNCHANGED <<options, uri>>
-----------------------------------------------------------------------------
(* What the application does to the consumer between calls.                *)
AllIdle == \A t \in Caller : pc[t] = "idle"

SetHttp ==
    /\ http' \in AppHttp
    /\ UNCHANGED uri

SetUri ==
    /\ uri' \in AppUri
    /\ http' = CreateHttp(None)

ReadBack ==
    \/ http' = Connection /\ UNCHANGED uri
    \/ uri' = SiteUri /\ UNCHANGED http

(* marshal_dump and marshal_load: only key, secret and options survive.    *)
Reload ==
    /\ http' = None
    /\ uri' = None

Application ==
    /\ AllIdle
    /\ SetHttp \/ SetUri \/ ReadBack \/ Reload
    /\ UNCHANGED <<options, pc, call, trail>>

Step(t) ==
    \/ SwapUri(t) \/ SwapHttp(t) \/ Resolve(t)
    \/ Build(t) \/ BuildRaises(t) \/ Sign(t) \/ BlockDone(t) \/ Send(t)
    \/ Answered(t) \/ Redirected(t)
    \/ RestoreUri(t) \/ RestoreHttp(t)

Next ==
    \/ \E t \in Caller : PlainCall(t) \/ ServiceCall(t) \/ TokenCall(t) \/ Step(t)
    \/ Application

Spec == Init /\ [][Next]_vars

(* A call that has begun goes on: its thread is scheduled, and Net::HTTP's *)
(* open and read timeouts turn a silent server into an exception.          *)
FairSpec == Spec /\ \A t \in Caller : WF_vars(Step(t))
-----------------------------------------------------------------------------
(* A call sends at most one request, a token call one more per redirect    *)
(* its own or the consumer's limit allows, whoever else uses the consumer. *)
Budgeted(c) == IF c.kind = "token" THEN MaxRedirects(c.opts) + 1 ELSE 1
RedirectsBounded ==
    \A t \in Caller : pc[t] # "idle" => Len(trail[t]) <= Budgeted(call[t])

(* Without permission for cross-origin redirects, all the requests of one  *)
(* token call go to the server that the first one went to, wherever the    *)
(* Locations point.  (One caller at a time.)                               *)
StaysOnOneOrigin ==
    \A t \in Caller : pc[t] # "idle" /\ ~CrossAllowed(call[t].opts) =>
        \A i, j \in DOMAIN trail[t] : trail[t][i].to = trail[t][j].to

(* The host and the port a request is signed for are those of the          *)
(* connection it is sent on, though sign! and request read @http           *)
(* separately.  (No request_endpoint; one caller at a time, or callers     *)
(* that ask for rooted paths only.)                                        *)
SignedForConnection ==
    options.endpoint = None =>
        \A t \in Caller : \A i \in DOMAIN trail[t] :
            LET x == trail[t][i]
            IN x.signed.origin.host = x.to.host /\ x.signed.origin.port = x.to.port

(* A configured request_endpoint receives every request of every call,     *)
(* whatever URL was asked for or redirected to and however the callers     *)
(* interleave.                                                             *)
EndpointPinsConnection ==
    options.endpoint # None =>
        \A t \in Caller : \A i \in DOMAIN trail[t] : trail[t][i].to = options.endpoint

(* A service call leaves the consumer's root as it found it, and after a   *)
(* detour to another URL the connection goes to the site again, whether    *)
(* the call returned or raised.  (One caller at a time.)                   *)
ServiceCallRestores ==
    [][\A t \in Caller :
         pc[t] # "idle" /\ pc'[t] = "idle" /\ call[t].kind = "service" =>
            /\ uri' = call[t].home
            /\ call[t].swapped => http' = CreateHttp(None)]_vars

(* When no call is running the consumer's root is the site again, as the   *)
(* ensure clause of AccessToken#request means it to be.                    *)
RootIsSiteAtRest == AllIdle => uri \in {None, options.site}

(* A rooted path is asked of the site (or the request_endpoint).           *)
RelativeReachesSite ==
    \A t \in Caller : \A i \in DOMAIN trail[t] :
        trail[t][i].ref.kind = "rooted" => trail[t][i].to = CreateHttp(None)

(* A full URL is asked for with the path it has.                           *)
FullUrlKeepsPath ==
    \A t \in Caller : \A i \in DOMAIN trail[t] :
        trail[t][i].ref.kind = "absolute" =>
            trail[t][i].path = RequestUri(trail[t][i].ref.path)

(* The URL that was asked, as the server that answers knows it, and the    *)
(* URL its Location names there.                                           *)
AskedUrl(x) == [origin |-> x.to, path |-> x.path]
Hops(t) == {i \in DOMAIN trail[t] : trail[t][i].via # None}
NamedUrl(t, i) == Merge(AskedUrl(trail[t][i-1]), trail[t][i].via)

(* Without permission, a redirect that is followed names the origin of the *)
(* server that sent it.                                                    *)
FollowedWithinOrigin ==
    \A t \in Caller : pc[t] # "idle" /\ ~CrossAllowed(call[t].opts) =>
        \A i \in Hops(t) : NamedUrl(t, i).origin = trail[t][i-1].to

(* StatelessConsumer, as seen in this state.                               *)
Running(t)  == pc[t] # "idle"
Promise == INSTANCE StatelessConsumer WITH
    Destination <- Origin,
    Budget <- Nat,
    Nobody <- None,
    dest   <- [t \in Caller |-> IF Running(t) THEN Destined(call[t].ref) ELSE None],
    budget <- [t \in Caller |-> IF Running(t) THEN Budgeted(call[t]) ELSE 0],
    sentTo <- [t \in Caller |-> {trail[t][i].to : i \in DOMAIN trail[t]}],
    sent   <- [t \in Caller |-> Len(trail[t])]

(* Every behaviour of the consumer is one of a consumer without shared     *)
(* state.  (One caller, full URLs only in service calls, no cross-origin   *)
(* redirects, no connection assigned by the application.)                  *)
ImplementsPromise == Promise!Spec

(* Every call comes to an end, even against a server that only redirects.  *)
CallsEnd == \A t \in Caller : pc[t] # "idle" ~> pc[t] = "idle"
=============================================================================
