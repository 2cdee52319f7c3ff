--------------------------- MODULE MCConsumerHttp ---------------------------
(***************************************************************************)
(* Instances of ConsumerHttp for TLC.  Three hosts: the site, the provider *)
(* of the other service URLs ("api") and a stranger ("other").             *)
(***************************************************************************)
EXTENDS ConsumerHttp

MCHost    == {"site", "api", "other"}
MCSegment == {Blank, "v1", "a", "b"}

Https(host) == [scheme |-> "https", host |-> host, port |-> 443]
Http(host)  == [scheme |-> "http", host |-> host, port |-> 80]

SiteRoot  == [origin |-> Https("site"), path |-> <<>>]
SiteSlash == [origin |-> Https("site"), path |-> Root]
SiteV1    == [origin |-> Http("site"), path |-> <<"v1">>]

RootedRef(path)       == [kind |-> "rooted", path |-> path]
FullRef(origin, path) == [kind |-> "absolute", origin |-> origin, path |-> path]
NetworkRef(host, path) == [kind |-> "network", host |-> host, path |-> path]
BareRef(path)         == [kind |-> "bare", path |-> path]

A    == RootedRef(<<"a">>)
ApiA == FullRef(Https("api"), <<"a">>)

Consumer(site, endpoint, tokenRefs, max, cross) ==
    [site |-> site, endpoint |-> endpoint, tokenRefs |-> tokenRefs,
     max |-> max, cross |-> cross]

\* Every way to configure a consumer that the code distinguishes.
AllConfigs ==
    { Consumer(SiteRoot, None, {A, ApiA}, 2, FALSE),
      Consumer(SiteSlash, None, {A}, 1, TRUE),
      Consumer(SiteV1, None, {A, ApiA}, 1, FALSE),
      Consumer(SiteV1, Https("other"), {A}, 1, FALSE),
      Consumer(SiteRoot, Https("other"), {A, ApiA}, 2, FALSE) }

\* Two of them, for the runs with two callers.
FewConfigs ==
    { Consumer(SiteV1, None, {A}, 1, FALSE),
      Consumer(SiteRoot, Https("other"), {A}, 1, FALSE) }

\* The documented way: endpoints are paths under the site.
PathConfigs ==
    { Consumer(SiteRoot, None, {A}, 2, FALSE),
      Consumer(SiteSlash, None, {A}, 1, FALSE),
      Consumer(SiteV1, None, {A}, 1, FALSE),
      Consumer(SiteRoot, Https("other"), {A}, 2, FALSE) }

FullConfig == { Consumer(SiteRoot, None, {ApiA}, 2, FALSE) }
SameHost   == { Consumer(SiteV1, None, {FullRef(SiteV1.origin, <<"b">>)}, 2, FALSE) }
V1Config   == { Consumer(SiteV1, None, {A, ApiA}, 2, FALSE) }

\* A full URL without a path, one on the site's host, one elsewhere.
AllRefs  == { A, ApiA, FullRef(Https("api"), <<>>), FullRef(SiteV1.origin, <<"b">>) }
SomeRefs == { A, ApiA }
OnlyA    == { A }
NoRefs   == {}

\* The same origin, another host, scheme or port, and the relative forms.
AllAnswers ==
    { RootedRef(<<"b">>), BareRef(<<"b">>), NetworkRef("other", <<"b">>),
      FullRef(Https("other"), <<"b">>), FullRef(Https("other"), <<>>),
      FullRef(Https("site"), <<>>), FullRef(Http("site"), <<"b">>),
      FullRef([Https("site") EXCEPT !.port = 8443], <<"b">>),
      FullRef(Https("api"), <<"b">>) }
SomeAnswers == { RootedRef(<<"b">>), FullRef(Https("other"), <<"b">>) }
SiteAnswers == { FullRef(Https("site"), <<"b">>), RootedRef(<<"b">>) }

AllOpts  == { NoOpts, [max |-> 0, cross |-> None], [max |-> None, cross |-> TRUE],
              [max |-> 1, cross |-> FALSE] }
Default  == { NoOpts }

AllHttp == { Http("other") }
AllUri  == { UrlOf(ApiA) }
Nothing == {}
=============================================================================
