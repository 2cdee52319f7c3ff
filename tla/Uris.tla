-------------------------------- MODULE Uris --------------------------------
(***************************************************************************)
(* URLs as the consumer sees them: an origin, and a path that is a         *)
(* sequence of segments.  "" is the empty sequence, "/api/v1" is           *)
(* <<"api", "v1">>, and what follows a trailing slash is the segment Blank *)
(* ("/" is <<Blank>>), so that concatenating two path strings is           *)
(* concatenating two sequences.  Query strings travel with the path they   *)
(* follow and are left out.                                                *)
(*                                                                         *)
(* Merge and SameUrl stand for Ruby's URI library (URI#merge, URI#==) as   *)
(* far as src/lib/oauth/consumer.rb and access_token.rb use them.          *)
(***************************************************************************)
EXTENDS Naturals, Sequences
LOCAL INSTANCE SequencesExt

CONSTANTS Host,     \* the names that servers answer to
          Segment,  \* the segments paths are made of
          None      \* Ruby's nil

ASSUME NoneIsNoValue == None \notin Nat /\ None \notin BOOLEAN

Scheme == {"http", "https"}
Origin == [scheme : Scheme, host : Host, port : Nat]
Path   == Seq(Segment)
Url    == [origin : Origin, path : Path]

ASSUME NoneIsNoUrl == None \notin Origin /\ None \notin Url

Blank == "_"
Root  == <<Blank>>

ASSUME RootIsPath == Blank \in Segment

\* What an application hands to a request: a full URL or a rooted path.
Absolute == [kind : {"absolute"}, origin : Origin, path : Path]
Rooted   == [kind : {"rooted"}, path : Path]
Ref      == Absolute \cup Rooted

\* What a Location header may hold besides: "//host/path" and "path".
Network  == [kind : {"network"}, host : Host, path : Path]
Bare     == [kind : {"bare"}, path : Path]
Location == Ref \cup Network \cup Bare

ASSUME NoneIsNoLocation == None \notin Location

UrlOf(ref) == [origin |-> ref.origin, path |-> ref.path]

\* URI#request_uri: what goes on the request line is never empty.
RequestUri(path) == IF path = <<>> THEN Root ELSE path

\* URI#== normalises an empty path to "/".
SameUrl(a, b) ==
    /\ a.origin = b.origin
    /\ RequestUri(a.path) = RequestUri(b.path)

\* The path a bare reference resolves to: it replaces the last segment.
Sibling(path, rel) == (IF path = <<>> THEN <<>> ELSE Front(path)) \o rel

(* base.merge(loc): an absolute reference replaces everything, a network   *)
(* reference keeps the scheme and the port, the others keep the origin.    *)
Merge(base, loc) ==
    [origin |-> CASE loc.kind = "absolute" -> loc.origin
                  [] loc.kind = "network"  -> [base.origin EXCEPT !.host = loc.host]
                  [] OTHER                 -> base.origin,
     path   |-> IF loc.kind = "bare" THEN Sibling(base.path, loc.path)
                                     ELSE loc.path]

(* token_request_cross_origin?: scheme, host or effective port differ.     *)
CrossOrigin(a, b) ==
    \/ a.origin.scheme # b.origin.scheme
    \/ a.origin.host # b.origin.host
    \/ a.origin.port # b.origin.port
=============================================================================
