# Verification of the Ruby `oauth` gem

TLA+ modules that model the gem under `src/lib` and the scripts of its documentation site under
`src/docs/js`, TLC configurations that check them on small instances, and theorems that TLAPS
proves for every value of the constants. Ruby's `URI`, `Net::HTTP` and `Rack`, the HTTP libraries
the gem has proxies for, the provider and the browser are modelled from how the code uses them and
are marked external in `PROJECT.json`.

## 1. Inventory

The gem signs HTTP requests with OAuth 1.0/1.0a (the consumer's side), verifies them (the
provider's side), and runs the exchange of tokens.

| Component | State | Operations | Hard behaviour | What makes it correct |
|---|---|---|---|---|
| `Consumer`, transport (`consumer.rb`, `tokens/access_token.rb`) | `@http`, `@uri` (both memoised, both replaceable), `@options` | `request`, `token_request` with redirects, `AccessToken#request`, `http=`, `uri(...)`, `marshal_*` | every call reads and writes the shared connection without a lock; a call that raises half-way; redirects and their limits | a request goes where its caller meant, redirects stay bounded and on their origin, a detour is undone, every call ends |
| Signing for Net::HTTP (`client/helper.rb`, `client/net_http.rb`, `request_proxy/net_http.rb`) | the request object: path, body, type, header | `create_http_request`, `oauth!` under the schemes header, body, query string | signing rewrites the request it reads; a second signing; a body that is a form or not, typed by the application or by Net::HTTP | the server verifies what was signed; nothing is lost on the way |
| Verification (`signature.rb`, `signature/base.rb`, `request_proxy/rack_request.rb`, `action_controller_request.rb`, `action_dispatch_request.rb`) | none | `Signature.build`, `verify` | two proxies that collect parameters differently from each other and from the client | accepts exactly the requests whose parameters were signed |
| Other HTTP libraries (`request_proxy/{curb,typhoeus,rest_client,em_http}_request.rb`, `client/em_http.rb`) | the library's request | sign, send | the library finishes the request after it was signed | as above |
| Header text and escaping (`helper.rb`) | none | `escape`, `unescape`, `header`, `parse_header` | quotes, separators and escapes inside values and realms | what is written is read back |
| Signature methods (`signature/*`) | secrets | `signature`, `==`, `digest` | which secret and which key each scheme reaches | equal exactly on equal data and secrets |
| Normalisation (`helper.rb`) | none | `normalize`, `normalize_nested_query` | nested hashes and arrays | the same string on both sides |
| Proxy registry (`request_proxy.rb`, mock and Jabber proxies) | the table of proxies | `proxies`, `proxy` | several classes match, in load order | one proxy per request, the right one |
| Tokens and OAuth dance (`consumer.rb`, `tokens/*`) | token, secret, params; the caller's option hashes | `get_request_token`, `authorize_url`, `get_access_token` | a 200 that is an error; lost answers, resends, restarts; option hashes that are changed and shared | a token is what the provider issued for this exchange; no nonce is reused behind the caller's back; every call ends |
| Documentation site, page (`docs/js/app.js`) | `appState`, `#main`, history, hidden loader frame, progress bar and timers | `navigateTo`, its load handler, popstate, messages, `navExpander` | timers, load events and messages in any order; a later navigation overtakes an earlier one; loads that fail and are asked for again | content, address bar and marked entry agree; only the page last asked for is shown, and it is; the bar goes away |
| Documentation site, class list (`docs/js/full_list.js`) | folded entries, clicked entry, search field, marks, timer | search in batches, fold, click, expand | a search is changed or cleared between two of its batches | the marks are those of the text in the field; the clicked entry stays in sight |
| Rails test client, `Server`, errors, optional features, examples, jQuery | – | – | – | – |

How they interact: an `AccessToken` or `RequestToken` calls `Consumer#request` or `token_request`;
that builds a Net::HTTP request, calls `oauth!` on it (which makes a `Client::Helper`, which asks
`RequestProxy.proxy(request)` for the parameters and `Signature.sign` for the signature), and sends it
on the consumer's `http`. A provider calls `Signature.verify` with its framework's request, whose
proxy parses the header with `Helper.parse_header` and hands over the parameters. In the
documentation site the page and the class list are two documents that only post messages to each
other: "navigate" when an entry is clicked, "expand" when another page has come on show.

The hazards that these models are aimed at are listed with their lines in `PROJECT.json`.

## 2. Modules

| Module | Models | EXTENDS / INSTANCE |
|---|---|---|
| `Uris` | URLs, references and Locations; `URI#merge`, `==`, `request_uri`; the cross-origin test of consumer.rb | |
| `ConsumerHttp` | the consumer's shared state and every call through it, by any number of threads | `Uris`, `StatelessConsumer` |
| `StatelessConsumer` | the promise to a caller: a consumer without shared state | |
| `ConsumerHttp_proofs` | theorems about `ConsumerHttp`, and that it implements `StatelessConsumer` | `ConsumerHttp`, `TLAPS` |
| `Verification` | parameter maps, digests, the Rack and Rails proxies, `verify` | |
| `Verification_proofs` | lemmas on lists as bags, on digests and on what a server finds in a message | `Verification`, `TLAPS`, library theorems |
| `RequestSigning` | one Net::HTTP request from its creation to a server's verdict | `Verification` |
| `RequestSigning_proofs` | theorems about `RequestSigning`: types, what arrives | `RequestSigning`, `Verification_proofs` |
| `RequestSigning_verdicts` | theorems about `RequestSigning`: what servers verify | `RequestSigning_proofs` |
| `OtherClients` | the same for Typhoeus, Curb, RestClient and EM-HTTP | `Verification` |
| `OtherClients_proofs` | theorems about `OtherClients` | `OtherClients`, `Verification_proofs` |
| `HeaderCodec` | the Authorization header as text, written and read back | |
| `HeaderCodec_proofs` | theorems about `HeaderCodec` | `HeaderCodec`, `TLAPS`, library theorems |
| `Dance` | request token, approval and access token for several sessions, with a provider and a network that answer in every way | |
| `Dance_proofs` | theorems about `Dance` | `Dance`, `TLAPS`, `SequenceTheorems` |
| `DocsPages` | the pages of the documentation | |
| `DocsShell` | the page that stays while its content is exchanged (`app.js`) | `DocsPages` |
| `DocsList` | the class list (`full_list.js`) | `DocsPages` |
| `DocsSite` | both, the messages between them, and a reader | `DocsShell`, `DocsList` |
| `DocsSite_proofs` | theorems about `DocsSite` | `DocsSite`, `TLAPS`, `SequenceTheorems` |
| `MC*` | instances for TLC | the module of that name |

An operator whose name ends in `_Something` and whose comment begins with "Variant" is a faulty
version of the operator that follows it: a dropped check, an order swapped. Nothing uses it; put in
the place of the real one it must make the property named beside it in `PROJECT.json` ("mutants")
fail, which shows that the property depends on that line of the code.

### ConsumerHttp

`http`, `uri` and `options` are `@http`, `@uri` and `@options`; `call[t]` holds the local variables of
thread `t`'s call, `pc[t]` the place where it is, `trail[t]` (history) the requests it has sent. A
call is cut at each access to the shared state:

- `PlainCall`, `ServiceCall`, `TokenCall` are the entries of `Consumer#request`, `AccessToken#request`
  and `Consumer#token_request`;
- `SwapUri`, `SwapHttp` are the two writes of `consumer.uri(request_uri)`, `RestoreUri`, `RestoreHttp`
  those of the `ensure` clause, which `Leave` reaches on every return and exception;
- `Resolve` is the test for a full URL, `Build`/`BuildRaises` `create_http_request`, `Sign` `sign!` with
  `oauth_full_request_uri`, `BlockDone` the block that answers `:done`, `Send` `http.request`;
- `Answered` stands for every answer, error or timeout that ends the call, `Redirected` for a 3xx
  with a Location to a token call, which `Refused` decides and `Follow` follows;
- `SetHttp`, `SetUri`, `ReadBack`, `Reload` are what the application does between calls: `http=`, `uri`,
  the readers, and a marshal round trip.

Abstractions: the shared accesses within one step are atomic; a URL is origin and path, with no query;
references that are neither rooted nor full URLs come from Locations only; `@options` does not
change after construction; the application touches `http` and `uri` while no call runs. What a request
carries is left to `RequestSigning`.

### Verification, RequestSigning, OtherClients

A set of parameters maps names to lists of values, as `CGI.parse` does. A signature is the data it was
computed over: cryptography is perfect, the secrets match, and two signatures are equal when method,
verb and normalised parameters are. Nonce and timestamp, memoised alike, are one parameter (the number
of the signing); key, token, version and the other constants are one more. PLAINTEXT covers nothing.

In `RequestSigning`, `CreateHttpRequest` is the code of that name, `Sign` is `sign!` → `oauth!`
(`SetOAuthHeader`, `SetOAuthBody`, `SetOAuthQueryString`), including what is left of the request when
signing raises (`Unsignable`: an RSA key given as `:private_key_file` is seen under the header scheme
only). `Transmit` is Net::HTTP, which gives an untyped body a type and reads a stream to its end;
whether it does the former depends on the Ruby version and is an input (`formByDefault`). `Receive`
delivers any message sent, as often as the network likes, to a server of either kind.

`OtherClients` lets the application set the Content-Type before or after it signs, and models for each
library what its proxy sees (`CurbParameters`, ...) and what is sent (`Message`). The `:query` of EM-HTTP maps strings to
strings; arrays and symbols as its names or values are left out.

### HeaderCodec

A text is a sequence of characters. `Written` is `Client::Helper#header`, `ParseHeader` and `Malformed` are
`parse_header`; `Unquote` follows Ruby's `^`, `$` and `.`, which stop at newlines. Keys are one character.

### Dance

`rtoken[s]`, `atoken[s]` are the `RequestToken` and `AccessToken` of session `s`, `call[s]` the request it
has sent and `reply[s]` the answer to it. `setup` says how the application fills in and shares its
option hashes; `callback[h]` is what `:oauth_callback` of hash `h` is by now, `touched` (history) the
hashes that `get_request_token` has looked after.

- `GetRequestToken` and `GetAccessToken` are those methods up to the request (`SignAndSend`), with what
  they write into the caller's hash; `Approve` is the user at `authorize_url`, which a nil token has not;
- `Accept`, `Refuse`, `Redirect`, `Fail` are the provider and the network: it may issue a token whose
  answer is lost or has no form in it, may have noted the nonce of a request that it redirects, and
  refuses a nonce it has seen or a request token that is not approved or is spent;
- `Receive` is the 2xx branch of `token_request` with `from_hash` (a token is nil if it was not in the
  body), `Follow` the 3xx branch, `Raise` every way a call ends with an exception;
- `Resend` is Net::HTTP, which sends a GET once more, as it was signed, when no answer comes;
- `Restart` is an application that starts anew: its tokens were stored, its calls and hashes are gone.
  `Stores` are the sessions that begin with a stored request token.

A token and its secret are one number. Where a redirect leads is `ConsumerHttp`'s matter, and
what a request looks like is `RequestSigning`'s.

### DocsShell, DocsList, DocsSite

`DocsShell` has one action per task the browser runs in the page: the message handler (`ReceiveNavigate`),
`popstate` (`Traverse`, `FollowFragment`), the load event of the hidden frame (`StaleLoad`, `BareLoad`,
`PageLoad`, `FragmentLoad`, `ForeignLoad`, by what `loader.onload` finds), the timers (`IndicatorTimer`, `Tick`,
`HideTimer`, `ExpandByTimer`) and the load of the navigation frame (`NavLoads`). `Answer` is the network
and the browser: the frame has its document and the load event is queued as a task, which is why a
later `navigateTo` can set a new handler before it runs. A frame whose `src` was removed goes to an empty
document (`AboutBlank`), whose load event a later handler may take for its own. `loader` is that frame, `bar` the progress
bar with the timers that are running and the handles kept of them, `tab` the history.

When the frame's document is out of reach (no connection), `app.js:749` sets the address to the URL asked for.
That opens the page in full (`ForeignLoad`), unless the URL has a fragment and the address bar is at its
page already: then the browser goes to the fragment only, `popstate` fires, and the page is asked for once more
(`FragmentLoad`), by a navigation that is later than the one that failed, so that the `finally` block
of that one leaves the bar alone.

`DocsList` has an action per event of the list; a search is cut at each batch. Whether an entry is
seen follows the style sheet (`full_list.css:70` and `:191`). `DocsSite` adds the messages on their way
(`toTop`, `toNav`), the connection, which fails at most `MaxFailures` times (`Load`), and the reader, who makes
`MaxMoves` moves at any time.

History variables: `asked`, the URL last navigated to; `overtaken`, whether a navigation began while the
load event of another page was queued; `crossed`, whether a click and an "expand" overlapped. The last
two stay set, and name the cases in which the code does not keep content, address and mark together.

Abstractions: only the history entries of the present document; a page that must be loaded in full
(`window.location.href = ...`) is there at once, with its navigation frame loaded or not; setting the address
to the URL it has, with a fragment, fires `popstate` and adds no history entry, as the HTML standard says;
timers fire in any order, but for the two whose delays (120 and 400 ms) decide.

## 3. Runs

| Run | Checks | Shows |
|---|---|---|
| `one_caller` | `TypeOK`, `StaysOnOneOrigin`, `SignedForConnection`, `ServiceCallRestores` | one caller, every kind of call, reference, answer, failure and application assignment in any order, five configurations: token calls without permission stay on one server, a request is signed for the connection it goes out on, a service call puts the root back however it ends |
| `two_callers` | `RedirectsBounded`, `EndpointPinsConnection`, `CallsEnd` | what survives two callers in all interleavings, and, with fairness, that every call ends |
| `path_endpoints` | `RelativeReachesSite`, `RootIsSiteAtRest`, `ImplementsPromise` | with endpoints given as paths, and full URLs in service calls only, the consumer implements `StatelessConsumer` |
| `rooted_shared` | `RelativeReachesSite`, `SignedForConnection`, `ImplementsPromise` | two threads that only ask for rooted paths may share a consumer: every request goes to the site or the endpoint, and is signed for where it goes although another thread works on `@http` between the three reads of it |
| `signing` | `TypeOK`, `VerifiesExactly`, `NoNewLife`, `RequestArrives` | every verb, scheme, method, body and type: the requests a Rack or Rails server verifies are exactly those `Understood` describes; a second signing revives nothing; the application's data arrives |
| `other_libraries` | `TypeOK`, `VerifiesExactly`, `RepeatedNamesAgree` | the same for the four other libraries |
| `header_text` | `TypeOK`, `EscapeIsUndone`, `RaisesOnOddRealm`, `ParametersArrive` | escaping loses nothing; the parser raises exactly on a realm with an odd number of separators; a value arrives exactly when it has no newline |
| `docs_site` | `TypeOK`, `AddressAgrees`, `ContentAgrees`, `NavAgrees`, `BarAtRest`, `SearchExact`, `LatestWins`, `ClickedStaysInSight`, `Arrives`, `BarEnds`, `SearchEnds` | three moves of a reader in any order with loads, failed loads, load events, timers, batches and messages: address, content and marked entry agree; only the page last asked for comes on show, and it does; the bar goes away; a search marks what the field says and ends |
| `dance` | `TypeOK`, `CallbackAsAsked`, `GrantIsOwn`, `ReplayExplained`, `CallsEnd` | two sessions, shared and separate hashes, every answer, a resend, a redirect and restarts: an access token is the session's own, a nonce comes twice only if the caller or Net::HTTP says so, callbacks are those asked for, calls end |
| `prefixed_full_url` | `FullUrlKeepsPath` violated | finding 1 |
| `second_hop` | `FollowedWithinOrigin` violated | finding 2 |
| `patch_form` | `PatchVerifies` violated | finding 3 |

### Bounds

- Three hosts (the site, another server of the provider, a stranger), two schemes, a few ports: the
  code only compares origins, so three are enough for "the one asked, the site, neither".
- One or two callers. The races are between the save and the restore of one call and the writes of
  another, which two threads show; theorems without `Alone` hold for any number.
- Redirect limits 0, 1 and 2: the boundary, and one redirect after another.
- Two parameter names with two values, lists of up to two: enough for "absent, once, twice in one
  part, in two parts", which is all the proxies distinguish.
- `MaxSigns` and `MaxSends` are 2: signed again before and after it was sent, sent again with the same nonce.
- Texts up to two of seven characters, and some longer ones that hold escapes, for both of two
  parameters; seven realms.

- `dance`: two sessions are enough for "whose token", "who shares the hash" and "whose nonce". `MaxTries`
  is 2 calls in all, so that a session can exchange a token or try again, or two can call at once;
  a session may start with a stored token, which saves a call. `MaxHops` 1 is the limit and one past it.
- `docs_site`: three moves are a navigation, one that overtakes it, and a third that finds what the
  two have left (back after both, or a click that crosses). Two entries, one below the other, and a
  page that is not listed, at which the reader comes in; one fragment; two queries with one batch per entry;
  the bar fills in one tick (`Full`), since only empty, moving and full are told apart. `MaxFailures` 2: a load
  that fails, is asked for again through `popstate`, and fails again. About 423 000 states.

Deadlock is checked for `ConsumerHttp`. The modules that follow one request to its end, and `Dance` and
`DocsSite`, where applications and readers stop after their last move, say `CHECK_DEADLOCK FALSE`.

### Fairness

`FairSpec` assumes weak fairness of `Step(t)`, for each thread: a call that has begun goes on. Ruby
schedules its threads, no call waits for another one, and `create_http` gives every connection
an `open_timeout` and `read_timeout`, so that even a silent server becomes an exception. Beginning a
call is not fair. `CallsEnd` then says that a call ends although a server may answer each request
with a redirect.

In `Dance` the provider (`Provider(s)`, which includes the failures of the network) and the client's reaction
are fair: Net::HTTP's time limits give every request an outcome. Applications, users and restarts owe
nothing. `DocsSite` has one fairness condition,
on all that is not the reader's: while there is a task, a timer or a request under way, one of them is run, fires or is
answered, in whichever order. Browsers do more (none of them waits for ever), but this is enough, as each
of the reader's moves leaves an end of things to do. Requests fail `MaxFailures` times at most: `Arrives` and
`BarEnds` speak of a connection that comes back. With one that does not, neither holds of a URL with a fragment (see
the further observations). The reader owes nothing, nor does the navigation frame's load; that there are `MaxMoves`
moves at most is why `Arrives` can say that the page last asked for is shown.

## 4. What is proved

`ConsumerHttp_proofs` holds for any set of callers, configurations, references, Locations and options
that fit `ConstantsFit`, and a value `None` that is no URL and no call (`NoneIsNoUrl`, `NoneIsNoCall`).
TLC evaluates these assumptions in every run of that module. Each proof shows that the invariant holds
at first, that every step of a caller keeps it (one lemma, a case per action), and that it implies the property.

| Theorem | Statement | Invariant it rests on |
|---|---|---|
| `TypeCorrect` | `Spec => [](TypeOK /\ Fits)` | `Fits`: a call has the parts its kind and its place need, for instance a detour has the root to return to, and a call that is about to be sent has been signed. `TypeOK` alone is not inductive, because `Send` records a signed URL that `TypeOK` lets be `None` |
| `RedirectsAreBounded` | `Spec => []RedirectsBounded` | `Paced`: the requests sent are tied to the redirect count at each place, which is never above the limit |
| `EndpointPins` | `AppHttp = {} /\ Spec => []EndpointPinsConnection` | `Pinned`: the connection is `None` or the endpoint, and so is each entry of the trails |
| `OneOrigin` | `Alone /\ Spec => []StaysOnOneOrigin` | `OneServer`: once a token call has sent a request, the connection stays the server's that got it, and it asks for rooted paths only |
| `ServiceRestores` | `Alone /\ Spec => ServiceCallRestores` | `UriKept`: `@uri` is what the call saved, unless it is on its detour |
| `SignedForItsConnection` | `Alone /\ Spec => []SignedForConnection` | `Matches`: between `Sign` and `Send` the connection is the one signed for |
| `SiteIsRootAtRest` | `Alone /\ SiteOnly /\ Spec => []RootIsSiteAtRest` | `SiteAtRest`: but for the detour of a service call `@uri` is the site or not memoised yet, and a service call has saved the site to return to |
| `PathsReachSite` | `PathsOnly /\ Spec => []RelativeReachesSite` | `Homed`: the connection is `None` or the site's (or the endpoint's) unless some service call is on its detour (`Elsewhere`); a call about to send is connected to where its reference belongs, and so was all it has sent (`Aimed`). The property speaks of requests that were sent only, and says nothing of the connection the next one will find |
| `PromiseKept` | `PathsOnly /\ Spec => ImplementsPromise` | `Homed` with `Paced`. A step that begins a call, sends, or ends it is that step of `StatelessConsumer`; all others are stutters |

`Alone` says that there is at most one caller. `OneOrigin`, `ServiceRestores`, `SignedForItsConnection` and
`SiteIsRootAtRest` need it: a second caller's writes come between the first one's save and its restore, or
between its signature and its request (section 5, first further observation). `EndpointPins` assumes that
the application assigns no connection of its own, which would replace the pinned one, and `SiteOnly` that it
assigns no root but the site, which would be kept, as it should. `PathsOnly` is what the documented use
amounts to: token endpoints and the references of plain requests are paths, no redirect may
leave the origin, the application assigns no connection, and either service calls are for paths too, with
any number of callers, or they are for any URLs, `Alone` and `SiteOnly`. The runs `rooted_shared` and
`path_endpoints` are an instance of each. Without it the property fails: a full URL given to a plain request
stays the connection of the paths that follow.

### DocsSite_proofs

For any pages, list, tree, queries, batch size, ticks, and number of moves and failures. Every safety property
of the run is proved; `TypeOK` and the properties follow from one inductive invariant, `SiteInv`, and
`NavAgrees` from it and `NavFits`.

| Theorem | Property | What the invariant says of it |
|---|---|---|
| `TypeCorrect` | `TypeOK` | the types, and from `LoaderFits` that a queued load event has a document |
| `AddressOfPage` | `AddressAgrees` | `LoaderFits`: the latest handler, when it will not push its URL, is for the address that the history shows already; so the two agree again once it has run |
| `ContentOfPage` | `ContentAgrees` | `LoaderFits`: what is fetched is the page of the handler that is set, or an empty document, and what is held while a load event is queued is that page too, or is not shown, unless overtaken |
| `BarRests` | `BarAtRest` | `BarFits`: a handle is that of a hide timer that runs, and a bar due to be hidden does not move |
| `SearchCorrect` | `SearchExact` | `ListInv`: either one batch is pending, its timer's handle is kept and the rows before it are marked for the field's text (`Searching`), or none is (`AtRest`). Without the handle a second search would leave the first one's batch running |
| `LatestShown` | `LatestWins` | `LoaderFits`: the latest handler is for `asked` |
| `ClickedSeen` | `ClickedStaysInSight` | none: an expansion unfolds all that is above, and `Above` is transitive (`ListIsTree`) |
| `MarkOfPage` | `NavAgrees` | `NavFits`: the last "expand" or "navigate" on its way, or what is still to send one, is for the page on show |

### Dance_proofs

For any sessions, hashes, setups, stored tokens and limits, however often the application calls.

| Theorem | Property | Invariant it rests on |
|---|---|---|
| `TypeCorrect` | `TypeOK` | `GrantInv`, below |
| `GrantsAreOwn` | `GrantIsOwn` | `GrantInv`: beside the types, for each session: a request token that is not nil is the provider's for it (`Staged`); a call carries what its session has and its stage allows (`Asking`); an answer with a token has one issued to the caller, from an approved request token (`Answering`); and the property (`Granted`). The property alone is not inductive, since `Receive` makes a token of whatever the answer holds |
| `ReplaysExplained` | `ReplayExplained` | `NonceFits`: a nonce is the caller's or was generated, generated ones are numbered, two calls do not have the same one, and none seen has a higher number |
| `CallbacksAsAsked` | `CallbackAsAsked` | `CallbackFits`: a hash that was touched has what it was given or `"oob"`, any other what it was given; a hash that a request token was asked with was touched or excludes the callback. Needed for redirects, which read the hash again |

### RequestSigning_proofs

For any inputs that fit `InputsFit`, any names and values, and any number of signings and transmissions.

| Theorem | Property | Invariant it rests on |
|---|---|---|
| `TypeCorrect` | `TypeOK` | `SigningInv`: `Keeps(req)` says that a request has all its parts and the verb and query asked for, and that a form that gets signed stays one |
| `DataArrives` | `RequestArrives` | `SigningInv`: and its body is the one asked for (`BodyKept`) until a stream is read or the body scheme rewrites it; what was sent has `Arrived`. It rests on lemmas that no OAuth parameter has one of the application's names (`NamesDiffer`), so signing leaves those alone |

### RequestSigning_verdicts

Which requests servers verify, for the same inputs, from lemmas that `Verification_proofs` states once for both
clients: two lists are equal as bags only if their values are the same equally often (`SameValues`,
`MoreValues`, `Swapped`); a digest shows its method and the values of every name but its own
(`DigestShows`, `SameDigest`); a server finds the header's value before the query's and that before the form's
(`ServerFinds`, `PartFound`).

| Theorem | Property | Invariant it rests on |
|---|---|---|
| `FirstVerdicts` | `VerifiesExactly` | `VerdictInv`, `Vouched`: after the first signing one part of the request `Bears` one value of each OAuth parameter and a signature of `Covered(n)` for each of the application's names |
| `OldRequestsStayOld` | `NoNewLife` | `VerdictInv`, `After(r, k)`: what `k` signings leave in the header, the query or the form. A second header covers the first one's nonce in a parameter that no server sees, a second signature in the query covers two nonces of which a Rack server takes one (both are `Foreign`), and a form keeps the nonce it had |

`VerifiesExactly` alone is not inductive: verdicts are about messages, so the invariant has to say of
the request, and of each message on the wire, how it was signed and which type Net::HTTP gave its body
(`SentType`). The equivalence is proved in both directions: a request that is not `Understood` is refused
because the bags differ in some name, not only accepted when they agree.

### OtherClients_proofs

For any requests and names that fit `InputsFit`: values are those the libraries treat differently, and
`:params` or `:query` are given only to the libraries that have them.

| Theorem | Property | Invariant it rests on |
|---|---|---|
| `TypeCorrect` | `TypeOK` | `ClientInv`, below |
| `FirstVerdicts` | `VerifiesExactly` | `ClientInv`: the header `Bears` a signature of what the proxy took (`Taken`) when it signed, when the form had its type or not (`early`), and a verdict is one on `Message` |
| `RepeatedAgree` | `RepeatedNamesAgree` | `ClientInv`, and that the order in which URL and form are put together does not change a bag (`Swapped`) |

### HeaderCodec_proofs

For any keys, values and realms of any length that fit `TextsFit` (keys are distinct characters that are
neither reserved nor digits). Every property of the run is proved. The invariant `Sends` only says that the header is
`Written`, that it was read or raised on as `Malformed` says, and that `parsed` is `ParseHeader` of it. The work
is in lemmas about those operators:

| Theorem | Property | Argument |
|---|---|---|
| `EscapeUndone` | `EscapeIsUndone` | each character has its place in the escaped text (`EscapePlaced`), where `Decode` comes by (`DecodeCodes`): a `%` begins a code there and nowhere else, and there is no plus for the first pass to change (`PlusesDecoded`) |
| `TypeCorrect` | `TypeOK` | each assignment has its place in the header (`WrittenParts`), with a separator in front, one inside, those of the realm and no others (`WrittenCounts`) |
| `OddRealmRaises` | `RaisesOnOddRealm` | a text is cut into one piece more than it has separators (`PiecesCount`) and the header's last one is not empty (`WrittenEnds`), so `split` drops none (`WrittenSplit`) |
| `EveryParameterArrives` | `ParametersArrive` | the pieces between the separators of a parameter's assignment are its name and its quoted value (`WrittenPieces`), at an odd and an even place if the realm's are paired; names differ, so the last entry of a name is its own; the quotes are those of one line, and are taken away, exactly when the value has no newline (`QuotesTaken`, `TakenOut`) |

`Decode` and `Pieces` are recursive functions and `FlattenSeq` is one. That such a function exists, and what it is
at each place, needs induction over numbers. The library's induction theorem takes an operator; the lemma
`Induction` says the same of a set, from the least element that a well-founded order gives (`WFMin`), and
serves wherever a set `{n \in Nat : ...}` can be named.

### Only model-checked

Liveness (`CallsEnd` of `ConsumerHttp` and of `Dance`, `Arrives`, `BarEnds`, `SearchEnds`) is out of the prover's
reach, as is ENABLED, which weak fairness is made of. Every invariant and every action property of the
passing runs is proved, under the hypotheses named above; where a theorem has one and a run checks
the property outside it, only that run speaks for those cases.

## 5. Findings

1. A full token URL on the site's own host gets the site's path in front (`consumer.rb:528`).
2. The second redirect of a token call is compared with the site instead of the server that sent it (`consumer.rb:320`).
3. The form of a PATCH is sent unsigned and read by Rack, so the gem's own verification refuses it (`request_proxy/net_http.rb:53`).

Further observations that the models show and no run is kept for:

- two concurrent service calls can leave the consumer's root at one of their URLs for good
  (`access_token.rb:18`; `one_caller` shows that one at a time cannot);
- the Curb proxy has no verb to sign, so nothing it signs verifies (`curb_request.rb:23`);
- a full URL given to `Consumer#request` stays the connection of later rooted paths (`consumer.rb:262`);
- the signed URL has the scheme of `:site`, whatever that of the connection (`client/net_http.rb:98`);
- a redirect followed to the site's host gets the site's path in front again (`consumer.rb:363`, `:528`);
- a body given as string-encoded parameters is not typed and so not signed (`consumer.rb:253`);
- the body scheme replaces a body that is not a form (`client/net_http.rb:135`), puts the query into the
  body as well (its own FIXME), and for a PATCH or GET leaves the signature alone in it;
- RackRequest keeps one value of a repeated name, the client signs them all;
- `:private_key_file` is not seen under the body and query-string schemes (`client/helper.rb:51`);
- the Curb proxy raises on a request that is typed as a form and has no body (`curb_request.rb:51`);
- the RestClient proxy signs one value of a repeated name, the last that is not blank (`rest_client_request.rb:57`);
- a newline in a value keeps the quotes around it (`helper.rb:128`);
- `get_request_token` leaves `"oob"` in the caller's hash, where `get_access_token` with the same hash sends it (`consumer.rb:227`);
- a 200 without a token makes a token object of nils, with which an application may go on (`consumer.rb:314`);
- following a link inside the page on show while another page loads drops that load before it stops the
  progress bar, which stays on (`app.js:737`);
- a navigation that begins while the load event of another page is queued puts that page on show under its own URL (`app.js:732`);
- without a connection, going back to a URL with a fragment asks for its page again and again, and
  a bar that is shown stays on all the while (`app.js:749`);
- a page without `#main` reached through the history leaves the address bar ahead of the content (`app.js:646`);
- a search counts the entries that are unfolded, not those that match, and hits below a folded entry
  stay hidden, as `full_list.css:70` outranks `:191` (`full_list.js:232`);
- clearing a search keeps the announcement and the bold text of the last one (`full_list.js:168`);
- an expansion says `aria-expanded` of entries below it that stay folded (`full_list.js:293`).

## 6. Not modelled

- Cryptography, encodings other than ASCII, the choice of secrets, constant-time comparison.
- Whether a nonce was seen before: the gem leaves that to the provider's application.
- The Rails functional-test client, `Server`, errors, optional features, logging filters, examples
  and tooling: no state of their own, or not part of the library.
- The registry of proxies: a table filled while files are required, and one look-up. The mock and Jabber
  proxies read a plain object.
- The ActionDispatch proxy, nested parameters (`normalize_nested_query`), the choice of secrets per method:
  pure functions whose only reference would be a copy of themselves.
- A block given to a token call, and the parameters `authorize_url` appends.
- Of the documentation site: presentation (source and define links, the full tree, summary toggles,
  table of contents, the resizer, the search frame's buttons, focus and scrolling, row colours,
  `aria-expanded`), which changes what is seen but no state the rest reads; jQuery, which is third-party
  and which neither script uses.

## 7. Plan

Done, in this order: `ConsumerHttp` with its abstract specification; `Verification`/`RequestSigning`,
`OtherClients`, `HeaderCodec`; `DocsSite` and `Dance`; a theorem for each safety property of the passing runs
and for the refinement. What is left:

1. An abstract specification for each of `Dance` (a session that holds what the provider has issued to it)
   and `DocsSite` (a page shown is the last one asked for), with the refinements proved.
2. Which of the hypotheses `Alone`, `SiteOnly` and `PathsOnly` can be weakened: for instance `PathsOnly` with
   token calls on full URLs of the site, or several callers of which only one makes service calls.
3. Parts of liveness that are safety: a variant that every step of a call lowers (for `CallsEnd`), as an
   action property, which the prover can take.
