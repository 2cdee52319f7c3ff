------------------------ MODULE ConsumerHttp_proofs ------------------------
(***************************************************************************)
(* What holds of ConsumerHttp for every set of callers, every set of       *)
(* configurations and references and every redirect limit.                 *)
(***************************************************************************)
EXTENDS ConsumerHttp, TLAPS
LOCAL INSTANCE SequencesExt

(* Before the next request is sent, and on the way out.                    *)
Before  == {"swapUri", "swapHttp", "resolve", "build", "sign", "send"}
Leaving == {"restoreUri", "restoreHttp"}

(* What the locals of a call look like at each label.                      *)
CallFits(t) ==
    pc[t] # "idle" =>
        /\ call[t] \in Call
        /\ call[t].swapped => /\ call[t].kind = "service"
                              /\ call[t].ref.kind = "absolute"
        /\ call[t].kind = "service" => call[t].home \in Url
        /\ pc[t] \in {"swapUri", "swapHttp"} \cup Leaving => call[t].swapped
        /\ pc[t] = "send" => call[t].signed \in Url
Fits == \A t \in Caller : CallFits(t)

LEMMA MergeType ==
    ASSUME NEW base \in Url, NEW loc \in Location
    PROVE  Merge(base, loc) \in Url
<1>1. Sibling(base.path, loc.path) \in Path
  BY DEF Sibling, Front, Url, Path, Location, Ref, Absolute, Rooted, Network, Bare
<1>2. CASE loc.kind = "absolute"
  BY <1>2 DEF Merge, Url, Location, Ref, Absolute, Rooted, Network, Bare
<1>3. CASE loc.kind = "network"
  BY <1>3 DEF Merge, Url, Origin, Location, Ref, Absolute, Rooted, Network, Bare
<1>4. CASE loc.kind \notin {"absolute", "network"}
  BY <1>1, <1>4 DEF Merge, Url, Location, Ref, Absolute, Rooted, Network, Bare
<1> QED BY <1>2, <1>3, <1>4

LEMMA RootType == Root \in Path
BY RootIsPath DEF Root, Path

LEMMA UrlOfType ==
    ASSUME NEW ref \in Ref, ref.kind = "absolute"
    PROVE  UrlOf(ref) \in Url /\ ref.origin \in Origin /\ ref.path \in Path
BY DEF UrlOf, Ref, Absolute, Rooted, Url

LEMMA RefFields ==
    ASSUME NEW ref \in Ref
    PROVE  ref.path \in Path /\ ref \in Location /\ ref.kind \in {"absolute", "rooted"}
BY DEF Ref, Absolute, Rooted, Location

LEMMA RedirectRefType ==
    ASSUME NEW from \in Url, NEW target \in Url
    PROVE  RedirectRef(from, target) \in Ref
BY RootType DEF RedirectRef, RequestUri, Ref, Absolute, Rooted, Url

(* What the three assignments to a call's locals leave alone.              *)
LEMMA CallAssignments ==
    ASSUME NEW c \in Call, NEW path \in Path, NEW url \in Url,
           NEW ref \in Ref, NEW loc \in Location, NEW n \in Nat
    PROVE  /\ [c EXCEPT !.path = path] \in Call
           /\ [c EXCEPT !.signed = url] \in Call
           /\ [c EXCEPT !.ref = ref, !.via = loc, !.hops = n] \in Call
<1>1. [c EXCEPT !.path = path] \in Call
  BY DEF Call
<1>2. [c EXCEPT !.signed = url] \in Call
  BY DEF Call
<1>3. [c EXCEPT !.ref = ref, !.via = loc, !.hops = n] \in Call
  BY DEF Call
<1> QED BY <1>1, <1>2, <1>3

LEMMA CreateHttpType ==
    ASSUME TypeOK, NEW target \in Origin \cup {None}
    PROVE  CreateHttp(target) \in Origin
BY ConstantsFit DEF CreateHttp, TypeOK, Options, Url

LEMMA ReaderTypes ==
    ASSUME TypeOK
    PROVE  /\ Connection \in Origin
           /\ SiteUri \in Url
           /\ options \in Options
           /\ options.site \in Url
BY CreateHttpType, ConstantsFit DEF Connection, SiteUri, TypeOK, Options

LEMMA TokenUriType ==
    ASSUME TypeOK, NEW ref \in Ref
    PROVE  TokenUri(ref) \in Url
BY ReaderTypes, UrlOfType, MergeType, RefFields DEF TokenUri

LEMMA SignedUrlType ==
    ASSUME TypeOK, NEW conn \in Origin, NEW path \in Path
    PROVE  SignedUrl(conn, path) \in Url
BY ReaderTypes DEF SignedUrl, Url, Origin

LEMMA RequestPathType ==
    ASSUME TypeOK, NEW conn \in Origin, NEW path \in Path
    PROVE  RequestPath(conn, path) \in Path
BY ReaderTypes DEF RequestPath, Url, Path

LEMMA InitTyped == Init => TypeOK /\ Fits
BY DEF Init, TypeOK, Fits, CallFits, Labels

LEMMA BeginTyped ==
    ASSUME TypeOK, Fits, NEW t \in Caller,
           PlainCall(t) \/ ServiceCall(t) \/ TokenCall(t)
    PROVE  TypeOK' /\ Fits'
<1>1. CASE PlainCall(t)
  <2>1. PICK ref \in PlainRef : Begin(t, "plain", ref, NoOpts, None, FALSE)
    BY <1>1 DEF PlainCall
  <2>2. /\ call'[t] \in Call
        /\ call'[t].swapped = FALSE /\ call'[t].kind = "plain"
    BY <2>1, ConstantsFit DEF Begin, Call, CallOpts, NoOpts, TypeOK, Path
  <2> QED
    BY <1>1, <2>1, <2>2 DEF PlainCall, Begin, Goto, TypeOK, Fits, CallFits, Labels, Leaving
<1>2. CASE ServiceCall(t)
  <2> DEFINE away(ref) == ref.kind = "absolute" /\ ~SameUrl(UrlOf(ref), SiteUri)
  <2>1. PICK ref \in ServiceRef : Begin(t, "service", ref, NoOpts, SiteUri, away(ref))
    BY <1>2 DEF ServiceCall
  <2>2. away(ref) \in BOOLEAN /\ (away(ref) => ref.kind = "absolute")
    OBVIOUS
  <2> HIDE DEF away
  <2>3. /\ call'[t] \in Call
        /\ call'[t].kind = "service" /\ call'[t].home \in Url
        /\ call'[t].ref = ref /\ call'[t].swapped = away(ref)
    BY <2>1, <2>2, ConstantsFit, ReaderTypes
       DEF Begin, Call, CallOpts, NoOpts, TypeOK, Path
  <2> QED
    BY <1>2, <2>1, <2>2, <2>3, ReaderTypes
       DEF ServiceCall, Begin, Goto, TypeOK, Fits, CallFits, Labels, Leaving
<1>3. CASE TokenCall(t)
  <2>1. PICK ref \in options.tokenRefs, opts \in TokenOpts :
          Begin(t, "token", ref, opts, None, FALSE)
    BY <1>3 DEF TokenCall
  <2>2. /\ call'[t] \in Call
        /\ call'[t].swapped = FALSE /\ call'[t].kind = "token"
    BY <2>1, ConstantsFit, ReaderTypes DEF Begin, Call, Options, TypeOK, Path
  <2> QED
    BY <1>3, <2>1, <2>2 DEF TokenCall, Begin, Goto, TypeOK, Fits, CallFits, Labels, Leaving
<1> QED BY <1>1, <1>2, <1>3

(* However a step leaves a call, what it did to @http stays typed.         *)
LEMMA LeaveTyped ==
    ASSUME TypeOK, Fits, NEW t \in Caller, pc[t] # "idle", Leave(t),
           options' = options, http' \in Origin \cup {None}, uri' \in Url \cup {None}
    PROVE  TypeOK' /\ Fits'
<1>1. CASE call[t].swapped
  BY <1>1 DEF Leave, Goto, TypeOK, Fits, CallFits, Labels, Leaving
<1>2. CASE ~call[t].swapped
  <2>1. End(t)
    BY <1>2 DEF Leave
  <2>2. call' \in [Caller -> Call \cup {None}] /\ trail' \in [Caller -> Seq(Exchange)]
    BY <2>1 DEF End, TypeOK
  <2>3. pc' \in [Caller -> Labels]
    BY <2>1 DEF End, Goto, TypeOK, Labels
  <2> QED BY <2>1, <2>2, <2>3 DEF End, Goto, TypeOK, Fits, CallFits
<1> QED BY <1>1, <1>2

(* A step that goes on with changed locals, c, keeps them in shape.        *)
LEMMA GoOnTyped ==
    ASSUME TypeOK, Fits, NEW t \in Caller, pc[t] # "idle",
           NEW c \in Call, call' = [call EXCEPT ![t] = c],
           c.kind = call[t].kind, c.home = call[t].home, c.swapped = call[t].swapped,
           c.swapped => c.ref = call[t].ref,
           NEW label \in {"resolve", "sign", "send"}, Goto(t, label),
           label = "send" => c.signed \in Url,
           options' = options, http' \in Origin \cup {None}, uri' \in Url \cup {None},
           trail' = trail
    PROVE  TypeOK' /\ Fits'
<1>1. TypeOK'
  BY DEF TypeOK, Goto, Labels
<1>2. CallFits(t)'
  BY DEF TypeOK, Fits, CallFits, Goto, Leaving
<1>3. ASSUME NEW u \in Caller, u # t PROVE CallFits(u)'
  BY <1>3 DEF TypeOK, Fits, CallFits, Goto
<1> QED BY <1>1, <1>2, <1>3 DEF Fits

LEMMA StepTyped ==
    ASSUME TypeOK, Fits, NEW t \in Caller, Step(t)
    PROVE  TypeOK' /\ Fits'
<1> USE DEF TypeOK, Fits, CallFits, Goto, Labels, Leaving
<1>1. CASE SwapUri(t)
  BY <1>1, UrlOfType DEF SwapUri, Call
<1>2. CASE SwapHttp(t)
  BY <1>2, CreateHttpType DEF SwapHttp
<1>3. CASE Resolve(t)
  BY <1>3, CreateHttpType, UrlOfType DEF Resolve, Call
<1>4. CASE Build(t)
  <2> DEFINE path == RequestPath(Connection, call[t].ref.path)
  <2>1. http' \in Origin \cup {None} /\ options' = options /\ uri' \in Url \cup {None}
    BY <1>4, ReaderTypes DEF Build
  <2>2. CASE Leave(t)
    BY <1>4, <2>1, <2>2, LeaveTyped DEF Build
  <2>3. CASE /\ call' = [call EXCEPT ![t] = [call[t] EXCEPT !.path = path]]
             /\ Goto(t, "sign")
             /\ UNCHANGED trail
    <3>1. path \in Path /\ call[t] \in Call /\ pc[t] # "idle"
      BY <1>4, ReaderTypes, RequestPathType, RefFields DEF Build, Call
    <3> HIDE DEF path
    <3> DEFINE c == [call[t] EXCEPT !.path = path]
    <3>2. /\ c \in Call /\ c.kind = call[t].kind /\ c.home = call[t].home
          /\ c.swapped = call[t].swapped /\ c.ref = call[t].ref
      BY <3>1, CallAssignments DEF Call
    <3>3. call' = [call EXCEPT ![t] = c]
      BY <2>3
    <3> HIDE DEF c
    <3> QED BY <2>1, <2>3, <3>1, <3>2, <3>3, GoOnTyped
  <2> QED BY <1>4, <2>2, <2>3 DEF Build
<1>5. CASE BuildRaises(t)
  BY <1>5, ReaderTypes, LeaveTyped DEF BuildRaises
<1>6. CASE Sign(t)
  <2> DEFINE url == SignedUrl(Connection, call[t].path)
  <2>1. http' \in Origin \cup {None} /\ options' = options /\ uri' \in Url \cup {None}
    BY <1>6, ReaderTypes DEF Sign
  <2>2. CASE Leave(t)
    BY <1>6, <2>1, <2>2, LeaveTyped DEF Sign
  <2>3. CASE /\ call' = [call EXCEPT ![t] = [call[t] EXCEPT !.signed = url]]
             /\ Goto(t, "send")
             /\ UNCHANGED trail
    <3>1. url \in Url /\ call[t] \in Call /\ pc[t] # "idle"
      BY <1>6, ReaderTypes, SignedUrlType DEF Sign, Call
    <3> HIDE DEF url
    <3> DEFINE c == [call[t] EXCEPT !.signed = url]
    <3>2. /\ c \in Call /\ c.kind = call[t].kind /\ c.home = call[t].home
          /\ c.swapped = call[t].swapped /\ c.ref = call[t].ref /\ c.signed \in Url
      BY <3>1, CallAssignments DEF Call
    <3>3. call' = [call EXCEPT ![t] = c]
      BY <2>3
    <3> HIDE DEF c
    <3> QED BY <2>1, <2>3, <3>1, <3>2, <3>3, GoOnTyped
  <2> QED BY <1>6, <2>2, <2>3 DEF Sign
<1>7. CASE BlockDone(t)
  BY <1>7, LeaveTyped DEF BlockDone
<1>8. CASE Send(t)
  <2> DEFINE x == [to |-> Connection, path |-> call[t].path, signed |-> call[t].signed,
                   ref |-> call[t].ref, via |-> call[t].via]
  <2>1. x \in Exchange
    BY <1>8, ReaderTypes DEF Send, Exchange, Call
  <2> HIDE DEF x
  <2>2. trail' = [trail EXCEPT ![t] = Append(@, x)]
    BY <1>8 DEF Send, x
  <2> QED BY <1>8, <2>1, <2>2, ReaderTypes DEF Send
<1>9. CASE Answered(t)
  BY <1>9, LeaveTyped DEF Answered
<1>10. CASE Redirected(t)
  <2>1. PICK loc \in Answer :
          LET target == Merge(TokenUri(call[t].ref), loc)
          IN \/ Refused(t, target) /\ Leave(t)
             \/ ~Refused(t, target) /\ Follow(t, loc, target)
    BY <1>10 DEF Redirected
  <2> DEFINE target == Merge(TokenUri(call[t].ref), loc)
  <2>2. CASE Leave(t)
    BY <1>10, <2>2, LeaveTyped DEF Redirected
  <2>3. CASE Follow(t, loc, target)
    <3> DEFINE next == RedirectRef(TokenUri(call[t].ref), target)
    <3>1. loc \in Location /\ call[t] \in Call /\ TokenUri(call[t].ref) \in Url
      BY <1>10, ConstantsFit, TokenUriType DEF Redirected, Call
    <3>2. target \in Url
      BY <3>1, MergeType
    <3> HIDE DEF target
    <3>3. next \in Ref
      BY <3>1, <3>2, RedirectRefType
    <3> HIDE DEF next
    <3> DEFINE n == call[t].hops + 1
    <3>4. n \in Nat /\ ~call[t].swapped /\ pc[t] # "idle"
      BY <1>10, <3>1 DEF Redirected, Call
    <3> HIDE DEF n
    <3> DEFINE c == [call[t] EXCEPT !.ref = next, !.via = loc, !.hops = n]
    <3>5. /\ c \in Call /\ c.kind = call[t].kind /\ c.home = call[t].home
          /\ c.swapped = call[t].swapped
      BY <3>1, <3>3, <3>4, CallAssignments DEF Call
    <3>6. call' = [call EXCEPT ![t] = c]
      BY <2>3 DEF Follow, next, n, target
    <3> HIDE DEF c
    <3> QED BY <1>10, <2>3, <3>4, <3>5, <3>6, GoOnTyped DEF Redirected, Follow
  <2> QED BY <2>1, <2>2, <2>3
<1>11. CASE RestoreUri(t)
  BY <1>11 DEF RestoreUri
<1>12. CASE RestoreHttp(t)
  BY <1>12, CreateHttpType DEF RestoreHttp, End
<1> QED
  BY <1>1, <1>2, <1>3, <1>4, <1>5, <1>6, <1>7, <1>8, <1>9, <1>10, <1>11, <1>12 DEF Step

LEMMA ApplicationTyped ==
    ASSUME TypeOK, Fits, Application
    PROVE  TypeOK' /\ Fits'
BY ConstantsFit, CreateHttpType, ReaderTypes
   DEF Application, SetHttp, SetUri, ReadBack, Reload, TypeOK, Fits, CallFits

(* The variables keep their types, and a call its shape, in every step of  *)
(* every call: Consumer#request, token_request, AccessToken#request.       *)
THEOREM TypeCorrect == Spec => [](TypeOK /\ Fits)
<1>1. TypeOK /\ Fits /\ [Next]_vars => TypeOK' /\ Fits'
  <2> SUFFICES ASSUME TypeOK, Fits, [Next]_vars PROVE TypeOK' /\ Fits'
    OBVIOUS
  <2>1. CASE UNCHANGED vars
    BY <2>1 DEF vars, TypeOK, Fits, CallFits
  <2>2. CASE Next
    BY <2>2, BeginTyped, StepTyped, ApplicationTyped DEF Next
  <2> QED BY <2>1, <2>2
<1> QED BY InitTyped, <1>1, PTL DEF Spec
-----------------------------------------------------------------------------
Starts(t) == PlainCall(t) \/ ServiceCall(t) \/ TokenCall(t)

(* A caller's step changes no locals but its own, and never the options.   *)
LEMMA OthersKeep ==
    ASSUME TypeOK, NEW t \in Caller, Starts(t) \/ Step(t)
    PROVE  /\ options' = options
           /\ \A u \in Caller : u # t => /\ pc'[u] = pc[u]
                                       /\ call'[u] = call[u]
                                       /\ trail'[u] = trail[u]
<1> USE DEF TypeOK, Goto, Leave, End
<1>1. CASE Starts(t)
  BY <1>1 DEF Starts, PlainCall, ServiceCall, TokenCall, Begin
<1>2. CASE SwapUri(t) \/ SwapHttp(t) \/ Resolve(t)
  BY <1>2 DEF SwapUri, SwapHttp, Resolve
<1>3. CASE Build(t) \/ BuildRaises(t)
  BY <1>3 DEF Build, BuildRaises
<1>4. CASE Sign(t) \/ BlockDone(t)
  BY <1>4 DEF Sign, BlockDone
<1>5. CASE Send(t) \/ Answered(t)
  BY <1>5 DEF Send, Answered
<1>6. CASE Redirected(t)
  BY <1>6 DEF Redirected, Follow
<1>7. CASE RestoreUri(t) \/ RestoreHttp(t)
  BY <1>7 DEF RestoreUri, RestoreHttp
<1> QED BY <1>1, <1>2, <1>3, <1>4, <1>5, <1>6, <1>7 DEF Step

(* What a start leaves in the caller's own locals.                         *)
LEMMA StartLocals ==
    ASSUME TypeOK, Fits, NEW t \in Caller, Starts(t)
    PROVE  /\ pc[t] = "idle" /\ pc'[t] \in {"swapUri", "resolve"}
           /\ call'[t].hops = 0 /\ trail'[t] = trail[t] /\ http' = http
           /\ call'[t].kind = "service" => /\ call'[t].home = SiteUri /\ uri' = SiteUri
           /\ call'[t].kind # "service" => uri' = uri
BY DEF TypeOK, Starts, PlainCall, ServiceCall, TokenCall, Begin, Goto

(* Leaving forgets the trail or keeps everything for the ensure clause.    *)
LEMMA LeaveLocals ==
    ASSUME TypeOK, Fits, NEW t \in Caller, pc[t] # "idle", Leave(t)
    PROVE  \/ pc'[t] = "idle" /\ trail'[t] = <<>> /\ ~call[t].swapped
           \/ /\ pc'[t] = "restoreUri" /\ trail'[t] = trail[t] /\ call'[t] = call[t]
              /\ call[t].swapped
BY DEF TypeOK, Fits, CallFits, Leave, End, Goto

(* The number of requests sent follows the number of redirects.            *)
CallPaced(t) ==
    /\ pc[t] = "idle" => trail[t] = <<>>
    /\ pc[t] # "idle" =>
         /\ Len(trail[t]) <= call[t].hops + 1
         /\ pc[t] \in Before => Len(trail[t]) = call[t].hops
         /\ pc[t] = "await" => Len(trail[t]) = call[t].hops + 1
         /\ call[t].hops < Budgeted(call[t])
Paced == \A t \in Caller : CallPaced(t)

LEMMA BudgetType ==
    ASSUME TypeOK, NEW c \in Call
    PROVE  Budgeted(c) \in Nat /\ Budgeted(c) > 0
BY ReaderTypes DEF Budgeted, MaxRedirects, Call, CallOpts, Options

LEMMA StepPaced ==
    ASSUME TypeOK, Fits, Paced, NEW t \in Caller, Starts(t) \/ Step(t)
    PROVE  Paced'
<1>1. options' = options
  BY OthersKeep
<1>2. ASSUME NEW u \in Caller PROVE Budgeted(call[u])' = Budgeted(call'[u])
  BY <1>1 DEF Budgeted, MaxRedirects
<1>3. ASSUME NEW u \in Caller, u # t PROVE CallPaced(u)'
  BY <1>2, <1>3, OthersKeep DEF Paced, CallPaced
<1>4. CallPaced(t)'
  <2> USE <1>2 DEF CallPaced
  <2>0. /\ Len(trail[t]) \in Nat /\ CallPaced(t)
        /\ pc[t] # "idle" => call[t] \in Call /\ call[t].hops \in Nat
    BY DEF TypeOK, Call, Paced
  <2>1. CASE Starts(t)
    <3>1. call'[t] \in Call
      BY <2>1, StartLocals, BeginTyped DEF Starts, Fits, CallFits
    <3>2. Budgeted(call'[t]) \in Nat /\ Budgeted(call'[t]) > 0
      BY <3>1, BudgetType
    <3>3. /\ call'[t].hops = 0 /\ trail'[t] = <<>> /\ pc'[t] \in {"swapUri", "resolve"}
      BY <2>1, <2>0, StartLocals
    <3> QED BY <3>2, <3>3 DEF Before
  <2>2. CASE Leave(t) /\ pc[t] # "idle"
    BY <2>2, <2>0, LeaveLocals DEF Before
  <2>3. CASE SwapUri(t) \/ SwapHttp(t) \/ Resolve(t)
    BY <2>3, <2>0 DEF SwapUri, SwapHttp, Resolve, Goto, TypeOK, Before
  <2>4. CASE \/ Build(t) /\ ~Leave(t)
             \/ Sign(t) /\ ~Leave(t)
    <3>1. /\ pc[t] \in {"build", "sign"} /\ pc'[t] \in {"sign", "send"}
          /\ trail'[t] = trail[t]
          /\ \/ \E x : call'[t] = [call[t] EXCEPT !.path = x]
             \/ \E x : call'[t] = [call[t] EXCEPT !.signed = x]
      BY <2>4, <2>0 DEF Build, Sign, Goto, TypeOK
    <3>2. /\ call'[t].hops = call[t].hops /\ call'[t].kind = call[t].kind
          /\ call'[t].opts = call[t].opts
      BY <3>1, <2>0 DEF Call
    <3>3. Budgeted(call'[t]) = Budgeted(call[t])
      BY <3>2 DEF Budgeted
    <3> QED BY <3>1, <3>2, <3>3, <2>0 DEF Before
  <2>5. CASE Send(t)
    <3>1. /\ pc[t] = "send" /\ pc'[t] = "await" /\ call'[t] = call[t]
          /\ \E x \in Exchange : trail'[t] = Append(trail[t], x)
      <4>1. [to |-> Connection, path |-> call[t].path, signed |-> call[t].signed,
             ref |-> call[t].ref, via |-> call[t].via] \in Exchange
        BY <2>5, <2>0, ReaderTypes DEF Send, Exchange, Call, Fits, CallFits
      <4> QED BY <2>5, <4>1 DEF Send, Goto, TypeOK
    <3>2. Len(trail'[t]) = Len(trail[t]) + 1
      BY <3>1 DEF TypeOK
    <3> QED BY <3>1, <3>2, <2>0 DEF Before
  <2>6. CASE Redirected(t) /\ ~Leave(t)
    <3>1. PICK loc \in Answer :
            LET target == Merge(TokenUri(call[t].ref), loc)
            IN ~Refused(t, target) /\ Follow(t, loc, target)
      BY <2>6 DEF Redirected
    <3>2. /\ pc[t] = "await" /\ pc'[t] = "resolve" /\ trail'[t] = trail[t]
          /\ call[t].kind = "token" /\ call'[t].kind = "token"
          /\ call'[t].opts = call[t].opts /\ call'[t].hops = call[t].hops + 1
      BY <2>6, <3>1, <2>0 DEF Redirected, Follow, Goto, TypeOK, Call
    <3>3. call[t].hops + 1 <= MaxRedirects(call[t].opts) /\ MaxRedirects(call[t].opts) \in Nat
      BY <3>1, <3>2, <2>0, ReaderTypes DEF Refused, MaxRedirects, Call, CallOpts, Options
    <3>4. Budgeted(call'[t]) = MaxRedirects(call[t].opts) + 1
      BY <3>2 DEF Budgeted
    <3> QED BY <3>2, <3>3, <3>4, <2>0 DEF Before
  <2>7. CASE RestoreUri(t) \/ RestoreHttp(t)
    BY <2>7, <2>0 DEF RestoreUri, RestoreHttp, End, Goto, TypeOK, Before
  <2> QED
    BY <2>1, <2>2, <2>3, <2>4, <2>5, <2>6, <2>7
       DEF Step, Build, BuildRaises, Sign, BlockDone, Answered, Redirected
<1> QED BY <1>3, <1>4 DEF Paced

LEMMA AlwaysPaced == Spec => []Paced
<1>1. Init => Paced
  BY DEF Init, Paced, CallPaced
<1>2. TypeOK /\ Fits /\ Paced /\ [Next]_vars => Paced'
  <2> SUFFICES ASSUME TypeOK, Fits, Paced, [Next]_vars PROVE Paced'
    OBVIOUS
  <2>1. CASE UNCHANGED vars \/ Application
    BY <2>1 DEF vars, Application, Paced, CallPaced, Budgeted, MaxRedirects
  <2>2. CASE \E t \in Caller : Starts(t) \/ Step(t)
    BY <2>2, StepPaced
  <2> QED BY <2>1, <2>2 DEF Next, Starts
<1> QED BY <1>1, <1>2, TypeCorrect, PTL DEF Spec

(* Bounded in every interleaving of any number of callers: token_request's *)
(* redirect count is local to the call.                                    *)
THEOREM RedirectsAreBounded == Spec => []RedirectsBounded
<1>1. TypeOK /\ Paced => RedirectsBounded
  <2> SUFFICES ASSUME TypeOK, Paced, NEW t \in Caller, pc[t] # "idle"
               PROVE  Len(trail[t]) <= Budgeted(call[t])
    BY DEF RedirectsBounded
  <2>1. call[t].hops \in Nat /\ Budgeted(call[t]) \in Nat /\ Len(trail[t]) \in Nat
    BY BudgetType DEF TypeOK, Call
  <2> QED BY <2>1 DEF Paced, CallPaced
<1> QED BY <1>1, TypeCorrect, AlwaysPaced, PTL

-----------------------------------------------------------------------------
(* With a request_endpoint create_http builds no other connection.         *)
Pinned ==
    options.endpoint # None =>
        /\ http \in {None, options.endpoint}
        /\ \A t \in Caller : \A i \in DOMAIN trail[t] : trail[t][i].to = options.endpoint

(* What Send appends.                                                      *)
LEMMA SendAppends ==
    ASSUME TypeOK, Fits, NEW t \in Caller, Send(t)
    PROVE  /\ DOMAIN trail'[t] = 1 .. Len(trail[t]) + 1
           /\ \A i \in 1 .. Len(trail[t]) : trail'[t][i] = trail[t][i]
           /\ trail'[t][Len(trail[t]) + 1].to = Connection
           /\ trail'[t][Len(trail[t]) + 1].signed = call[t].signed
           /\ trail'[t][Len(trail[t]) + 1].ref = call[t].ref
           /\ DOMAIN trail[t] = 1 .. Len(trail[t]) /\ Len(trail[t]) \in Nat
<1> DEFINE x == [to |-> Connection, path |-> call[t].path, signed |-> call[t].signed,
                 ref |-> call[t].ref, via |-> call[t].via]
<1>1. x \in Exchange
  BY ReaderTypes DEF Send, Exchange, Call, Fits, CallFits, TypeOK
<1>2. x.to = Connection /\ x.signed = call[t].signed /\ x.ref = call[t].ref
  OBVIOUS
<1>3. trail'[t] = Append(trail[t], x)
  BY DEF Send, TypeOK
<1> HIDE DEF x
<1> QED BY <1>1, <1>2, <1>3 DEF TypeOK

(* Every other step keeps a caller's trail or empties it.                  *)
LEMMA TrailKept ==
    ASSUME TypeOK, Fits, NEW t \in Caller, Starts(t) \/ Step(t), ~Send(t)
    PROVE  trail'[t] = trail[t] \/ trail'[t] = <<>>
<1>1. CASE Starts(t)
  BY <1>1, StartLocals
<1>2. CASE pc[t] # "idle" /\ Leave(t)
  BY <1>2, LeaveLocals
<1>3. CASE Step(t) /\ ~Leave(t)
  BY <1>3 DEF Step, SwapUri, SwapHttp, Resolve, Build, BuildRaises, Sign, BlockDone,
              Answered, Redirected, Follow, RestoreUri, RestoreHttp, End, TypeOK
<1>4. Step(t) => pc[t] # "idle"
  BY DEF Step, SwapUri, SwapHttp, Resolve, Build, BuildRaises, Sign, BlockDone, Send,
         Answered, Redirected, RestoreUri, RestoreHttp
<1> QED BY <1>1, <1>2, <1>3, <1>4

(* The connections a step of a call may leave in @http.                    *)
LEMMA HttpWrites ==
    ASSUME TypeOK, Fits, NEW t \in Caller, Starts(t) \/ Step(t)
    PROVE  \/ http' = http
           \/ http' = Connection
           \/ \E target \in Origin \cup {None} : http' = CreateHttp(target)
<1>1. CASE Starts(t)
  BY <1>1, StartLocals
<1>2. CASE Resolve(t)
  BY <1>2, UrlOfType DEF Resolve, Fits, CallFits, Call
<1>3. CASE Step(t) /\ ~Resolve(t)
  BY <1>3 DEF Step, SwapUri, SwapHttp, Build, BuildRaises, Sign, BlockDone, Send,
              Answered, Redirected, RestoreUri, RestoreHttp
<1> QED BY <1>1, <1>2, <1>3

(* Consumer#create_http: `url = request_endpoint unless ...nil?' pins the  *)
(* connection for every call, unless the application assigns one itself.   *)
THEOREM EndpointPins == AppHttp = {} /\ Spec => []EndpointPinsConnection
<1> SUFFICES ASSUME AppHttp = {} PROVE Spec => []EndpointPinsConnection
  OBVIOUS
<1>1. Init => Pinned
  BY DEF Init, Pinned
<1>2. TypeOK /\ Fits /\ Pinned /\ [Next]_vars => Pinned'
  <2> SUFFICES ASSUME TypeOK, Fits, Pinned, [Next]_vars, options.endpoint # None,
                      options' = options
               PROVE  Pinned'
    BY OthersKeep DEF Next, vars, Application, Pinned, Starts
  <2>1. Connection = options.endpoint
    BY DEF Connection, CreateHttp, Pinned
  <2>2. CASE UNCHANGED vars
    BY <2>2 DEF vars, Pinned
  <2>3. CASE Application
    BY <2>1, <2>3 DEF Application, SetHttp, SetUri, ReadBack, Reload, CreateHttp, Pinned
  <2>4. ASSUME NEW t \in Caller, Starts(t) \/ Step(t) PROVE Pinned'
    <3>1. http' \in {None, options.endpoint}
      BY <2>1, <2>4, HttpWrites DEF CreateHttp, Pinned
    <3>2. ASSUME NEW u \in Caller, u # t, NEW i \in DOMAIN trail'[u]
          PROVE  trail'[u][i].to = options.endpoint
      BY <2>4, <3>2, OthersKeep DEF Pinned
    <3>3. ASSUME NEW i \in DOMAIN trail'[t] PROVE trail'[t][i].to = options.endpoint
      <4>1. CASE Send(t)
        <5>1. i \in 1 .. Len(trail[t]) \/ i = Len(trail[t]) + 1
          BY <3>3, <4>1, SendAppends
        <5> QED BY <2>1, <4>1, <5>1, SendAppends DEF Pinned
      <4>2. CASE ~Send(t)
        BY <2>4, <3>3, <4>2, TrailKept DEF Pinned
      <4> QED BY <4>1, <4>2
    <3> QED BY <3>1, <3>2, <3>3 DEF Pinned
  <2> QED BY <2>2, <2>3, <2>4 DEF Next, Starts
<1>3. Pinned => EndpointPinsConnection
  BY DEF Pinned, EndpointPinsConnection
<1> QED BY <1>1, <1>2, <1>3, TypeCorrect, PTL DEF Spec
-----------------------------------------------------------------------------
(* The properties of a consumer that is used by one caller at a time.      *)
Alone == \A a, b \in Caller : a = b

(* A token call that has sent a request is still connected to the server   *)
(* it sent it to, and asks for paths only.                                 *)
OneServer(t) ==
    pc[t] # "idle" /\ ~CrossAllowed(call[t].opts) /\ trail[t] # <<>> =>
        /\ \A i \in DOMAIN trail[t] : trail[t][i].to = trail[t][1].to
        /\ pc[t] \in Before \cup {"await"} => http = trail[t][1].to
        /\ pc[t] \in Before => call[t].ref.kind = "rooted"

LEMMA StepOneServer ==
    ASSUME TypeOK, Fits, Paced, NEW t \in Caller, OneServer(t), Starts(t) \/ Step(t)
    PROVE  OneServer(t)'
<1> USE DEF OneServer
<1>0. /\ options' = options
      /\ pc[t] # "idle" => call[t] \in Call /\ CallPaced(t) /\ CallFits(t)
      /\ trail[t] \in Seq(Exchange) /\ Len(trail[t]) \in Nat
  BY OthersKeep DEF TypeOK, Paced, Fits
<1>1. trail[t] # <<>> => trail[t][1].to \in Origin
  <2>1. trail[t] # <<>> => trail[t][1] \in Exchange
    BY <1>0
  <2> QED BY <2>1 DEF Exchange
<1>2. trail[t] # <<>> /\ http = trail[t][1].to => Connection = http
  BY <1>1, NoneIsNoUrl DEF Connection
<1>3. CrossAllowed(call[t].opts)' = CrossAllowed(call'[t].opts)
  BY <1>0 DEF CrossAllowed
<1>4. CASE Starts(t)
  BY <1>4, StartLocals DEF Paced, CallPaced
<1>5. CASE Leave(t) /\ pc[t] # "idle"
  BY <1>3, <1>5, LeaveLocals DEF Before
<1>6. CASE SwapUri(t) \/ SwapHttp(t)
  <2>1. trail[t] = <<>>
    BY <1>0, <1>6 DEF SwapUri, SwapHttp, CallPaced, CallFits, Before, Budgeted, Leaving, Call
  <2> QED BY <1>6, <2>1 DEF SwapUri, SwapHttp
<1>7. CASE Resolve(t)
  BY <1>0, <1>3, <1>7 DEF Resolve, Goto, TypeOK, Before
<1>8. CASE Build(t) /\ ~Leave(t)
  <2>1. /\ pc[t] = "build" /\ pc'[t] = "sign" /\ trail'[t] = trail[t]
        /\ http' \in {http, Connection}
        /\ \E x : call'[t] = [call[t] EXCEPT !.path = x]
    BY <1>8 DEF Build, Goto, TypeOK
  <2>2. call'[t].opts = call[t].opts /\ call'[t].ref = call[t].ref
    BY <1>0, <2>1 DEF Call
  <2> QED BY <1>2, <1>3, <2>1, <2>2 DEF Before
<1>9. CASE Sign(t) /\ ~Leave(t)
  <2>1. /\ pc[t] = "sign" /\ pc'[t] = "send" /\ trail'[t] = trail[t]
        /\ http' = Connection
        /\ \E x : call'[t] = [call[t] EXCEPT !.signed = x]
    BY <1>9 DEF Sign, Goto, TypeOK
  <2>2. call'[t].opts = call[t].opts /\ call'[t].ref = call[t].ref
    BY <1>0, <2>1 DEF Call
  <2> QED BY <1>2, <1>3, <2>1, <2>2 DEF Before
<1>10. CASE Send(t)
  <2>1. /\ pc[t] = "send" /\ pc'[t] = "await" /\ http' = Connection
        /\ call'[t] = call[t]
    BY <1>10 DEF Send, Goto, TypeOK
  <2>2. CASE trail[t] = <<>>
    BY <1>10, <2>1, <2>2, SendAppends DEF Before
  <2>3. CASE trail[t] # <<>>
    <3>1. Len(trail[t]) > 0 /\ trail'[t][1] = trail[t][1]
      BY <1>0, <1>10, <2>3, SendAppends
    <3>2. ~CrossAllowed(call[t].opts) => Connection = trail[t][1].to
      BY <1>2, <2>1, <2>3 DEF Before
    <3>3. ASSUME ~CrossAllowed(call[t].opts), NEW i \in DOMAIN trail'[t]
          PROVE  trail'[t][i].to = trail[t][1].to
      <4>1. CASE i \in 1 .. Len(trail[t])
        BY <1>10, <2>1, <2>3, <3>3, <4>1, SendAppends
      <4>2. CASE i = Len(trail[t]) + 1
        BY <1>10, <3>2, <3>3, <4>2, SendAppends
      <4> QED BY <1>10, <3>3, <4>1, <4>2, SendAppends
    <3> QED BY <1>3, <2>1, <3>1, <3>2, <3>3 DEF Before
  <2> QED BY <2>2, <2>3
<1>11. CASE Redirected(t) /\ ~Leave(t)
  <2>1. PICK loc \in Answer :
          LET target == Merge(TokenUri(call[t].ref), loc)
          IN ~Refused(t, target) /\ Follow(t, loc, target)
    BY <1>11 DEF Redirected
  <2> DEFINE target == Merge(TokenUri(call[t].ref), loc)
  <2>2. /\ pc[t] = "await" /\ trail'[t] = trail[t] /\ http' = http
        /\ call'[t].ref = RedirectRef(TokenUri(call[t].ref), target)
        /\ call'[t].opts = call[t].opts
    BY <1>11, <1>0, <2>1 DEF Redirected, Follow, TypeOK, Call
  <2>3. ~CrossAllowed(call[t].opts) => ~CrossOrigin(TokenUri(call[t].ref), target)
    BY <2>1 DEF Refused
  <2>4. ~CrossAllowed(call[t].opts) => call'[t].ref.kind = "rooted"
    BY <2>2, <2>3 DEF RedirectRef
  <2> QED BY <1>3, <2>2, <2>4 DEF Before
<1>12. CASE RestoreUri(t) \/ RestoreHttp(t)
  BY <1>3, <1>12 DEF RestoreUri, RestoreHttp, End, Goto, TypeOK, Before
<1> QED
  BY <1>4, <1>5, <1>6, <1>7, <1>8, <1>9, <1>10, <1>11, <1>12
     DEF Step, Build, BuildRaises, Sign, BlockDone, Answered, Redirected

(* consumer.rb: `response.error! if token_request_cross_origin?': without  *)
(* permission the connection is never replaced between two hops.           *)
THEOREM OneOrigin == Alone /\ Spec => []StaysOnOneOrigin
<1> DEFINE Inv == \A t \in Caller : OneServer(t)
<1> SUFFICES ASSUME Alone PROVE Spec => []StaysOnOneOrigin
  OBVIOUS
<1>1. Init => Inv
  BY DEF Init, OneServer
<1>2. TypeOK /\ Fits /\ Paced /\ Inv /\ [Next]_vars => Inv'
  <2> SUFFICES ASSUME TypeOK, Fits, Paced, Inv, [Next]_vars PROVE Inv'
    OBVIOUS
  <2>1. CASE UNCHANGED vars
    BY <2>1 DEF vars, OneServer, CrossAllowed
  <2>2. CASE Application
    BY <2>2 DEF Application, AllIdle, OneServer
  <2>3. CASE \E t \in Caller : Starts(t) \/ Step(t)
    BY <2>3, StepOneServer DEF Alone
  <2> QED BY <2>1, <2>2, <2>3 DEF Next, Starts
<1>3. Inv => StaysOnOneOrigin
  BY DEF StaysOnOneOrigin, OneServer
<1> QED BY <1>1, <1>2, <1>3, TypeCorrect, AlwaysPaced, PTL DEF Spec

(* While a service call runs @uri is what it found, except during its      *)
(* detour; restoreHttp comes after @uri is back.                           *)
UriKept(t) ==
    /\ call[t] # None => call[t].kind \in {"plain", "service", "token"}
    /\ pc[t] # "idle" /\ call[t].kind = "service"
       /\ (~call[t].swapped \/ pc[t] \in {"swapUri", "restoreHttp"}) => uri = call[t].home

LEMMA StepUriKept ==
    ASSUME TypeOK, Fits, NEW t \in Caller, UriKept(t), Starts(t) \/ Step(t)
    PROVE  UriKept(t)'
<1> USE DEF UriKept
<1>0. pc[t] # "idle" => call[t] \in Call /\ CallFits(t)
  BY DEF TypeOK, Fits
<1>1. call'[t] \in Call \cup {None}
  BY BeginTyped, StepTyped DEF TypeOK, Starts
<1>2. call'[t] # None => call'[t].kind \in {"plain", "service", "token"}
  BY <1>1, NoneIsNoCall DEF Call
<1>3. CASE Starts(t)
  BY <1>2, <1>3, StartLocals
<1>4. CASE Leave(t) /\ pc[t] # "idle" /\ uri' = uri
  BY <1>2, <1>4, LeaveLocals
<1>5. CASE SwapUri(t) \/ SwapHttp(t)
  BY <1>0, <1>2, <1>5 DEF SwapUri, SwapHttp, Goto, TypeOK, CallFits
<1>6. CASE Resolve(t)
  BY <1>2, <1>6 DEF Resolve, Goto, TypeOK
<1>7. CASE (Build(t) \/ Sign(t)) /\ ~Leave(t)
  <2>1. /\ pc[t] \in {"build", "sign"} /\ pc'[t] \in {"sign", "send"}
        /\ uri' = uri
        /\ \/ \E x : call'[t] = [call[t] EXCEPT !.path = x]
           \/ \E x : call'[t] = [call[t] EXCEPT !.signed = x]
    BY <1>7, <1>0 DEF Build, Sign, Goto, TypeOK
  <2>2. /\ call'[t].home = call[t].home /\ call'[t].kind = call[t].kind
        /\ call'[t].swapped = call[t].swapped
    BY <2>1, <1>0 DEF Call
  <2> QED BY <1>2, <2>1, <2>2
<1>8. CASE Send(t)
  BY <1>2, <1>8 DEF Send, Goto, TypeOK
<1>9. CASE Redirected(t) /\ ~Leave(t)
  <2>1. call[t].kind = "token" /\ call'[t].kind = call[t].kind
    BY <1>0, <1>9 DEF Redirected, Follow, TypeOK, Call
  <2> QED BY <1>2, <2>1
<1>10. CASE RestoreUri(t) \/ RestoreHttp(t)
  BY <1>0, <1>2, <1>10 DEF RestoreUri, RestoreHttp, End, Goto, TypeOK, CallFits, Leaving
<1> QED
  BY <1>3, <1>4, <1>5, <1>6, <1>7, <1>8, <1>9, <1>10
     DEF Step, Build, BuildRaises, Sign, BlockDone, Answered, Redirected

(* access_token.rb: the ensure clause runs on every way out.               *)
THEOREM ServiceRestores == Alone /\ Spec => ServiceCallRestores
<1> DEFINE Inv == \A t \in Caller : UriKept(t)
<1> DEFINE Restored(t) ==
      pc[t] # "idle" /\ pc'[t] = "idle" /\ call[t].kind = "service" =>
         /\ uri' = call[t].home
         /\ call[t].swapped => http' = CreateHttp(None)
<1> SUFFICES ASSUME Alone PROVE Spec => ServiceCallRestores
  OBVIOUS
<1>1. Init => Inv
  BY DEF Init, UriKept
<1>2. TypeOK /\ Fits /\ Inv /\ [Next]_vars => Inv'
  <2> SUFFICES ASSUME TypeOK, Fits, Inv, [Next]_vars PROVE Inv'
    OBVIOUS
  <2>1. CASE UNCHANGED vars
    BY <2>1 DEF vars, UriKept
  <2>2. CASE Application
    BY <2>2 DEF Application, AllIdle, UriKept
  <2>3. CASE \E t \in Caller : Starts(t) \/ Step(t)
    BY <2>3, StepUriKept DEF Alone
  <2> QED BY <2>1, <2>2, <2>3 DEF Next, Starts
<1>3. TypeOK /\ Fits /\ Inv /\ Next => \A t \in Caller : Restored(t)
  <2> SUFFICES ASSUME TypeOK, Fits, Inv, Next, NEW t \in Caller, pc[t] # "idle",
                      pc'[t] = "idle", call[t].kind = "service"
               PROVE  Restored(t)
    OBVIOUS
  <2>1. Step(t)
    BY OthersKeep, StartLocals DEF Next, Starts, Application, AllIdle, Alone
  <2>2. CallFits(t) /\ UriKept(t)
    BY DEF Fits
  <2>3. CASE RestoreHttp(t)
    BY <2>2, <2>3 DEF RestoreHttp, UriKept, CallFits, Leaving
  <2>4. CASE ~RestoreHttp(t)
    <3>1. uri' = uri /\ ~call[t].swapped
      BY <2>1, <2>4, LeaveLocals
         DEF Step, SwapUri, SwapHttp, Resolve, Build, BuildRaises, Sign, BlockDone, Send,
             Answered, Redirected, Follow, RestoreUri, Goto, TypeOK
    <3> QED BY <2>2, <3>1 DEF UriKept
  <2> QED BY <2>3, <2>4
<1>4. TypeOK /\ Fits /\ Inv /\ [Next]_vars => [\A t \in Caller : Restored(t)]_vars
  BY <1>3
<1> QED BY <1>1, <1>2, <1>4, TypeCorrect, PTL DEF Spec, ServiceCallRestores

(* Between sign! and http.request the connection is the one signed for.    *)
SignedFor(url, conn) == url.origin.host = conn.host /\ url.origin.port = conn.port
Matches(t) ==
    /\ pc[t] = "send" => http \in Origin /\ SignedFor(call[t].signed, http)
    /\ \A i \in DOMAIN trail[t] : SignedFor(trail[t][i].signed, trail[t][i].to)

LEMMA StepMatches ==
    ASSUME TypeOK, Fits, NEW t \in Caller, options.endpoint = None,
           Matches(t), Starts(t) \/ Step(t)
    PROVE  Matches(t)'
<1>1. CASE Send(t)
  <2>1. pc[t] = "send" /\ pc'[t] = "await"
    BY <1>1 DEF Send, Goto, TypeOK
  <2>2. Connection = http
    BY <2>1, NoneIsNoUrl DEF Matches, Connection
  <2>3. ASSUME NEW i \in DOMAIN trail'[t]
        PROVE  SignedFor(trail'[t][i].signed, trail'[t][i].to)
    <3>1. i \in 1 .. Len(trail[t]) \/ i = Len(trail[t]) + 1
      BY <1>1, <2>3, SendAppends
    <3> QED BY <1>1, <2>1, <2>2, <3>1, SendAppends DEF Matches
  <2> QED BY <2>1, <2>3 DEF Matches
<1>2. CASE ~Send(t)
  <2>1. \A i \in DOMAIN trail'[t] : SignedFor(trail'[t][i].signed, trail'[t][i].to)
    BY <1>2, TrailKept DEF Matches
  <2>2. ASSUME pc'[t] = "send" PROVE http' \in Origin /\ SignedFor(call'[t].signed, http')
    <3>1. Sign(t) /\ call'[t] = [call[t] EXCEPT !.signed = SignedUrl(Connection, call[t].path)]
      BY <1>2, <2>2, LeaveLocals, StartLocals
         DEF Step, SwapUri, SwapHttp, Resolve, Build, BuildRaises, Sign, BlockDone,
             Answered, Redirected, Follow, RestoreUri, RestoreHttp, End, Goto, TypeOK
    <3>2. call[t] \in Call /\ http' = Connection
      BY <3>1 DEF Sign, TypeOK
    <3>3. call'[t].signed = SignedUrl(Connection, call[t].path)
      BY <3>1, <3>2 DEF Call
    <3> QED BY <3>2, <3>3, ReaderTypes DEF SignedUrl, SignedFor
  <2> QED BY <2>1, <2>2 DEF Matches
<1> QED BY <1>1, <1>2

(* net_http.rb, oauth_full_request_uri: the host and the port signed for   *)
(* are read from the connection the request is then sent on.               *)
THEOREM SignedForItsConnection == Alone /\ Spec => []SignedForConnection
<1> DEFINE Inv == options.endpoint = None => \A t \in Caller : Matches(t)
<1> SUFFICES ASSUME Alone PROVE Spec => []SignedForConnection
  OBVIOUS
<1>1. Init => Inv
  BY DEF Init, Matches
<1>2. TypeOK /\ Fits /\ Inv /\ [Next]_vars => Inv'
  <2> SUFFICES ASSUME TypeOK, Fits, Inv, [Next]_vars, options.endpoint = None,
                      options' = options
               PROVE  Inv'
    BY OthersKeep DEF Next, vars, Application, Starts
  <2>1. CASE UNCHANGED vars
    BY <2>1 DEF vars, Matches
  <2>2. CASE Application
    BY <2>2 DEF Application, AllIdle, Matches
  <2>3. CASE \E t \in Caller : Starts(t) \/ Step(t)
    BY <2>3, StepMatches DEF Alone
  <2> QED BY <2>1, <2>2, <2>3 DEF Next, Starts
<1>3. Inv => SignedForConnection
  BY DEF SignedForConnection, Matches, SignedFor
<1> QED BY <1>1, <1>2, <1>3, TypeCorrect, PTL DEF Spec
-----------------------------------------------------------------------------
(* A consumer that is used as its documentation shows it, with endpoints   *)
(* given as paths under the site, promises what StatelessConsumer says,    *)
(* although its calls share a connection and a root.                       *)

(* Locals that a step of a call leaves alone until the call ends.          *)
LEMMA StepKeeps ==
    ASSUME TypeOK, Fits, NEW t \in Caller, Step(t), pc'[t] # "idle"
    PROVE  /\ pc[t] # "idle" /\ call[t] \in Call /\ call'[t] \in Call
           /\ call'[t].kind = call[t].kind /\ call'[t].home = call[t].home
           /\ call'[t].swapped = call[t].swapped /\ call'[t].opts = call[t].opts
           /\ ~Redirected(t) \/ Leave(t) => call'[t].ref = call[t].ref
<1>1. pc[t] # "idle" /\ call[t] \in Call
  BY DEF Step, SwapUri, SwapHttp, Resolve, Build, BuildRaises, Sign, BlockDone, Send,
         Answered, Redirected, RestoreUri, RestoreHttp, Fits, CallFits
<1>2. call'[t] \in Call
  BY StepTyped DEF Fits, CallFits
<1>3. CASE Leave(t)
  BY <1>1, <1>2, <1>3, LeaveLocals
<1>4. CASE (Build(t) \/ Sign(t)) /\ ~Leave(t)
  <2>1. \/ \E x : call'[t] = [call[t] EXCEPT !.path = x]
        \/ \E x : call'[t] = [call[t] EXCEPT !.signed = x]
    BY <1>4 DEF Build, Sign, TypeOK
  <2> QED BY <1>1, <1>2, <2>1 DEF Call
<1>5. CASE Redirected(t) /\ ~Leave(t)
  <2>1. PICK loc \in Answer :
          LET target == Merge(TokenUri(call[t].ref), loc)
          IN ~Refused(t, target) /\ Follow(t, loc, target)
    BY <1>5 DEF Redirected
  <2>2. PICK next : next = RedirectRef(TokenUri(call[t].ref),
                                       Merge(TokenUri(call[t].ref), loc))
    OBVIOUS
  <2>3. call'[t] = [call[t] EXCEPT !.ref = next, !.via = loc, !.hops = call[t].hops + 1]
    BY <2>1, <2>2 DEF Follow, TypeOK
  <2> QED BY <1>1, <1>2, <1>5, <2>3 DEF Call
<1>6. CASE SwapUri(t) \/ SwapHttp(t) \/ Resolve(t) \/ Send(t) \/ RestoreUri(t)
  BY <1>1, <1>2, <1>6 DEF SwapUri, SwapHttp, Resolve, Send, RestoreUri
<1>7. CASE RestoreHttp(t)
  BY <1>7 DEF RestoreHttp, End, Goto, TypeOK
<1> QED
  BY <1>3, <1>4, <1>5, <1>6, <1>7 DEF Step, Build, BuildRaises, Sign, BlockDone, Answered,
                                      Redirected

(* Where the steps of a call go next.                                      *)
LEMMA StepGoes ==
    ASSUME TypeOK, Fits, NEW t \in Caller, Step(t)
    PROVE  \/ pc[t] = "swapUri" /\ SwapUri(t) /\ pc'[t] = "swapHttp"
           \/ pc[t] = "swapHttp" /\ SwapHttp(t) /\ pc'[t] = "resolve"
           \/ pc[t] = "resolve" /\ Resolve(t) /\ pc'[t] = "build"
           \/ pc[t] = "build" /\ Build(t) /\ pc'[t] = "sign"
           \/ pc[t] = "sign" /\ Sign(t) /\ pc'[t] = "send"
           \/ pc[t] = "send" /\ Send(t) /\ pc'[t] = "await"
           \/ pc[t] = "await" /\ Redirected(t) /\ ~Leave(t) /\ pc'[t] = "resolve"
           \/ pc[t] \in {"build", "sign", "send", "await"} /\ Leave(t)
           \/ pc[t] = "restoreUri" /\ RestoreUri(t) /\ pc'[t] = "restoreHttp"
           \/ pc[t] = "restoreHttp" /\ RestoreHttp(t) /\ pc'[t] = "idle"
<1> USE DEF Goto, TypeOK
<1>1. CASE SwapUri(t) \/ SwapHttp(t) \/ Resolve(t)
  BY <1>1 DEF SwapUri, SwapHttp, Resolve
<1>2. CASE Build(t) \/ BuildRaises(t) \/ Sign(t)
  BY <1>2 DEF Build, BuildRaises, Sign
<1>3. CASE BlockDone(t) \/ Send(t) \/ Answered(t)
  BY <1>3 DEF BlockDone, Send, Answered
<1>4. CASE Redirected(t)
  BY <1>4 DEF Redirected, Follow
<1>5. CASE RestoreUri(t) \/ RestoreHttp(t)
  BY <1>5 DEF RestoreUri, RestoreHttp, End
<1> QED BY <1>1, <1>2, <1>3, <1>4, <1>5 DEF Step
-----------------------------------------------------------------------------
(* The application sets no other root than the site.                       *)
SiteOnly == \A c \in Config : AppUri \subseteq {c.site}

(* @uri is the site, if anything, but for the detour of a service call,    *)
(* which has the site to return to.                                        *)
AtHome == uri \in {None, options.site}
Returns(t) ==
    pc[t] # "idle" =>
        /\ call[t].kind = "service" => call[t].home = options.site
        /\ ~call[t].swapped \/ pc[t] \in {"swapUri", "restoreHttp"} => AtHome
SiteAtRest ==
    /\ AllIdle => AtHome
    /\ \A t \in Caller : Returns(t)

LEMMA StepReturns ==
    ASSUME TypeOK, Fits, Alone, NEW t \in Caller, SiteAtRest, Starts(t) \/ Step(t)
    PROVE  SiteAtRest'
<1>0. options' = options
  BY OthersKeep
<1>1. \A u \in Caller : u = t
  BY DEF Alone
<1>2. CASE Starts(t)
  <2>1. AtHome /\ pc[t] = "idle"
    BY <1>1, <1>2, StartLocals DEF SiteAtRest, AllIdle
  <2>2. SiteUri = options.site
    BY <2>1 DEF AtHome, SiteUri
  <2>3. pc'[t] # "idle" /\ uri' \in {uri, SiteUri}
    BY <1>2, StartLocals
  <2>4. call'[t].kind = "service" => call'[t].home = SiteUri
    BY <1>2, StartLocals
  <2> QED BY <1>0, <1>1, <2>1, <2>2, <2>3, <2>4 DEF SiteAtRest, AllIdle, AtHome, Returns
<1>3. CASE Step(t) /\ pc'[t] = "idle"
  <2>1. uri' = uri
    BY <1>3, StepGoes, LeaveLocals
       DEF Step, SwapUri, SwapHttp, Resolve, Build, BuildRaises, Sign, BlockDone, Send,
           Answered, Redirected, RestoreUri, RestoreHttp
  <2>2. pc[t] = "restoreHttp" \/ (pc[t] # "idle" /\ ~call[t].swapped)
    BY <1>3, StepGoes, LeaveLocals
  <2> QED BY <1>0, <1>1, <1>3, <2>1, <2>2 DEF SiteAtRest, AtHome, Returns
<1>4. CASE Step(t) /\ pc'[t] # "idle"
  <2>1. /\ pc[t] # "idle" /\ Returns(t) /\ CallFits(t)
        /\ call'[t].kind = call[t].kind /\ call'[t].home = call[t].home
        /\ call'[t].swapped = call[t].swapped
    BY <1>4, StepKeeps DEF SiteAtRest, Fits
  <2>2. CASE SwapUri(t)
    <3>1. call[t].swapped /\ pc'[t] = "swapHttp"
      BY <2>1, <2>2 DEF SwapUri, Goto, TypeOK, CallFits
    <3> QED BY <1>0, <1>1, <1>4, <2>1, <3>1 DEF SiteAtRest, AllIdle, AtHome, Returns
  <2>3. CASE RestoreUri(t)
    <3>1. uri' = call[t].home /\ call[t].kind = "service"
      BY <2>1, <2>3 DEF RestoreUri, CallFits, Leaving
    <3> QED BY <1>0, <1>1, <1>4, <2>1, <3>1 DEF SiteAtRest, AllIdle, AtHome, Returns
  <2>4. CASE ~SwapUri(t) /\ ~RestoreUri(t)
    <3>1. uri' = uri
      BY <1>4, <2>4 DEF Step, SwapHttp, Resolve, Build, BuildRaises, Sign, BlockDone, Send,
                        Answered, Redirected, RestoreHttp
    <3>2. call'[t].swapped => pc'[t] \notin {"swapUri", "restoreHttp"}
      BY <1>4, <2>4, StepGoes, LeaveLocals
    <3> QED BY <1>0, <1>1, <1>4, <2>1, <3>1, <3>2 DEF SiteAtRest, AllIdle, AtHome, Returns
  <2> QED BY <2>2, <2>3, <2>4
<1> QED BY <1>2, <1>3, <1>4

LEMMA AlwaysAtRest == Alone /\ SiteOnly /\ Spec => []SiteAtRest
<1> SUFFICES ASSUME Alone, SiteOnly PROVE Spec => []SiteAtRest
  OBVIOUS
<1>1. Init => SiteAtRest
  BY DEF Init, SiteAtRest, AtHome, Returns
<1>2. TypeOK /\ Fits /\ SiteAtRest /\ [Next]_vars => SiteAtRest'
  <2> SUFFICES ASSUME TypeOK, Fits, SiteAtRest, [Next]_vars PROVE SiteAtRest'
    OBVIOUS
  <2>1. CASE UNCHANGED vars
    BY <2>1 DEF vars, SiteAtRest, AtHome, Returns, AllIdle
  <2>2. CASE Application
    <3>1. AtHome /\ options' = options /\ pc' = pc /\ AllIdle
      BY <2>2 DEF Application, SiteAtRest
    <3>2. uri' \in {uri, None, SiteUri} \cup AppUri
      BY <2>2 DEF Application, SetHttp, SetUri, ReadBack, Reload
    <3>3. AppUri \subseteq {options.site}
      BY DEF SiteOnly, TypeOK
    <3> QED BY <3>1, <3>2, <3>3 DEF SiteAtRest, AtHome, Returns, AllIdle, SiteUri
  <2>3. CASE \E t \in Caller : Starts(t) \/ Step(t)
    BY <2>3, StepReturns
  <2> QED BY <2>1, <2>2, <2>3 DEF Next, Starts
<1> QED BY <1>1, <1>2, TypeCorrect, PTL DEF Spec

(* access_token.rb: between calls the consumer's root is the site, whatever *)
(* URLs were asked of service calls and however they ended, as long as one *)
(* call at a time runs and the application sets no other root.             *)
THEOREM SiteIsRootAtRest == Alone /\ SiteOnly /\ Spec => []RootIsSiteAtRest
<1>1. SiteAtRest => RootIsSiteAtRest
  BY DEF SiteAtRest, RootIsSiteAtRest, AtHome
<1> QED BY <1>1, AlwaysAtRest, PTL
-----------------------------------------------------------------------------
(* Endpoints are paths, no redirect may leave the origin, and only service *)
(* calls are for full URLs; those either not at all, or one call at a time *)
(* with no other root than the site.                                       *)
PathsOnly ==
    /\ PlainRef \subseteq Rooted
    /\ \A c \in Config : c.tokenRefs \subseteq Rooted /\ c.cross = FALSE
    /\ \A opts \in TokenOpts : opts.cross \in {None, FALSE}
    /\ AppHttp = {}
    /\ ServiceRef \subseteq Rooted \/ (Alone /\ SiteOnly)

(* A service call is elsewhere from the time it connects to another URL.   *)
Elsewhere(t) == call[t].swapped /\ pc[t] \notin {"idle", "swapUri", "swapHttp", "resolve"}

(* Otherwise the connection goes to the site (or the request_endpoint).    *)
ToSite == http \in {None, CreateHttp(None)}

(* A call asks the site for paths, or is on its detour; when it sends it   *)
(* is connected to where its reference belongs, and so was all it sent.    *)
Aimed(t) ==
    pc[t] # "idle" =>
        /\ ~CrossAllowed(call[t].opts)
        /\ call[t].kind # "service" \/ ServiceRef \subseteq Rooted => call[t].ref.kind = "rooted"
        /\ call[t].ref.kind = "absolute" =>
             call[t].swapped \/ call[t].ref.origin = options.site.origin
        /\ pc[t] \in {"build", "sign", "send"} => Connection = Destined(call[t].ref)
        /\ \A i \in DOMAIN trail[t] : trail[t][i].to = Destined(call[t].ref)

Homed ==
    /\ (\A t \in Caller : ~Elsewhere(t)) => ToSite
    /\ \A t \in Caller : Aimed(t)
    /\ \A t \in Caller : \A i \in DOMAIN trail[t] :
         trail[t][i].to = Destined(trail[t][i].ref)

(* Every reference of the site belongs where paths do.                     *)
LEMMA SiteDestined ==
    ASSUME TypeOK, NEW ref \in Ref,
           ref.kind = "rooted" \/ ref.origin = options.site.origin
    PROVE  Destined(ref) = CreateHttp(None)
<1>1. options.site.origin \in Origin
  BY ReaderTypes DEF Url
<1>2. options.site.origin # None
  BY <1>1, NoneIsNoUrl
<1> QED BY <1>2, RefFields DEF Destined, CreateHttp

LEMMA OptionsFixed ==
    ASSUME TypeOK, NEW t \in Caller, Starts(t) \/ Step(t)
    PROVE  /\ options' = options
           /\ \A target : CreateHttp(target)' = CreateHttp(target)
           /\ \A ref : Destined(ref)' = Destined(ref)
           /\ \A opts : CrossAllowed(opts)' = CrossAllowed(opts)
BY OthersKeep DEF CreateHttp, Destined, CrossAllowed

(* What the proofs need of @uri to know where a full URL leads.            *)
Settled == ServiceRef \subseteq Rooted \/ (Alone /\ SiteAtRest)

LEMMA StartAims ==
    ASSUME TypeOK, Fits, Paced, PathsOnly, Settled, NEW t \in Caller, Starts(t)
    PROVE  Aimed(t)'
<1>1. /\ pc'[t] \in {"swapUri", "resolve"} /\ trail'[t] = <<>> /\ pc[t] = "idle"
  BY StartLocals DEF Paced, CallPaced
<1>2. options' = options /\ options \in Config
  BY OptionsFixed DEF TypeOK
<1>3. CASE PlainCall(t)
  <2>1. PICK ref \in PlainRef : Begin(t, "plain", ref, NoOpts, None, FALSE)
    BY <1>3 DEF PlainCall
  <2>2. call'[t].ref = ref /\ call'[t].opts = NoOpts /\ call'[t].kind = "plain"
    BY <2>1 DEF Begin, TypeOK
  <2>3. ref.kind = "rooted"
    BY DEF PathsOnly, Rooted
  <2>4. ~CrossAllowed(call'[t].opts)
    BY <1>2, <2>2 DEF CrossAllowed, NoOpts, PathsOnly
  <2> QED BY <1>1, <1>2, <2>2, <2>3, <2>4 DEF Aimed, CrossAllowed
<1>4. CASE TokenCall(t)
  <2>1. PICK ref \in options.tokenRefs, opts \in TokenOpts :
          Begin(t, "token", ref, opts, None, FALSE)
    BY <1>4 DEF TokenCall
  <2>2. call'[t].ref = ref /\ call'[t].opts = opts /\ call'[t].kind = "token"
    BY <2>1 DEF Begin, TypeOK
  <2>3. ref.kind = "rooted"
    BY <1>2 DEF PathsOnly, Rooted
  <2>4. ~CrossAllowed(call'[t].opts)
    BY <1>2, <2>2 DEF CrossAllowed, PathsOnly
  <2> QED BY <1>1, <1>2, <2>2, <2>3, <2>4 DEF Aimed, CrossAllowed
<1>5. CASE ServiceCall(t)
  <2> DEFINE away(ref) == ref.kind = "absolute" /\ ~SameUrl(UrlOf(ref), SiteUri)
  <2>1. PICK ref \in ServiceRef : Begin(t, "service", ref, NoOpts, SiteUri, away(ref))
    BY <1>5 DEF ServiceCall
  <2>2. /\ call'[t].ref = ref /\ call'[t].opts = NoOpts /\ call'[t].kind = "service"
        /\ call'[t].swapped = away(ref)
    BY <2>1 DEF Begin, TypeOK
  <2>3. ~CrossAllowed(call'[t].opts)
    BY <1>2, <2>2 DEF CrossAllowed, NoOpts, PathsOnly
  <2>4. ServiceRef \subseteq Rooted => ref.kind = "rooted"
    BY DEF Rooted
  <2>5. ASSUME ref.kind = "absolute", ~away(ref) PROVE ref.origin = options.site.origin
    <3>1. Alone /\ SiteAtRest
      BY <2>4, <2>5 DEF Settled
    <3>2. AllIdle
      BY <1>1, <3>1 DEF Alone, AllIdle
    <3>3. SiteUri = options.site
      BY <3>1, <3>2 DEF SiteAtRest, AtHome, SiteUri
    <3> QED BY <2>5, <3>3 DEF SameUrl, UrlOf
  <2> HIDE DEF away
  <2> QED BY <1>1, <1>2, <2>2, <2>3, <2>4, <2>5 DEF Aimed, CrossAllowed
<1> QED BY <1>3, <1>4, <1>5 DEF Starts

(* Where the connection goes when nobody is elsewhere.                     *)
LEMMA ConnectedToSite ==
    ASSUME TypeOK, ToSite
    PROVE  Connection = CreateHttp(None)
BY DEF ToSite, Connection

(* Unless it is a detour's own, no call sees another one elsewhere.        *)
LEMMA NobodyElsewhere ==
    ASSUME TypeOK, Fits, Settled, Homed, NEW t \in Caller, pc[t] # "idle", ~Elsewhere(t)
    PROVE  ToSite
<1>1. ASSUME NEW u \in Caller PROVE ~Elsewhere(u)
  <2>1. CASE Alone
    BY <2>1 DEF Alone
  <2>2. CASE ServiceRef \subseteq Rooted
    BY <2>2 DEF Homed, Aimed, Fits, CallFits, Elsewhere
  <2> QED BY <2>1, <2>2 DEF Settled
<1> QED BY <1>1 DEF Homed

(* A reader leaves the connection it has read.                             *)
LEMMA ReadConnection ==
    ASSUME TypeOK, options' = options, http' \in {http, Connection}
    PROVE  Connection' = Connection
BY ReaderTypes, NoneIsNoUrl DEF Connection, CreateHttp

LEMMA StepAims ==
    ASSUME TypeOK, Fits, Paced, PathsOnly, Settled, Homed, NEW t \in Caller, Step(t)
    PROVE  Aimed(t)'
<1> SUFFICES ASSUME pc'[t] # "idle" PROVE Aimed(t)'
  BY DEF Aimed
<1>1. /\ pc[t] # "idle" /\ Aimed(t) /\ CallFits(t)
      /\ call[t] \in Call /\ call'[t] \in Call
      /\ call'[t].kind = call[t].kind /\ call'[t].swapped = call[t].swapped
      /\ call'[t].opts = call[t].opts
      /\ ~Redirected(t) \/ Leave(t) => call'[t].ref = call[t].ref
      /\ call[t].ref \in Ref /\ call'[t].ref \in Ref
  BY StepKeeps DEF Homed, Fits, Call
<1>2. /\ options' = options
      /\ Destined(call[t].ref)' = Destined(call'[t].ref)
      /\ CrossAllowed(call[t].opts)' = CrossAllowed(call'[t].opts)
  BY OthersKeep DEF Destined, CreateHttp, CrossAllowed
<1>3. ASSUME NEW r \in Ref PROVE Destined(r)' = Destined(r)
  BY <1>2 DEF Destined, CreateHttp
<1> USE <1>1, <1>2 DEF Aimed
<1>4. CASE SwapUri(t) \/ SwapHttp(t)
  BY <1>4, <1>3, StepGoes, TrailKept
     DEF SwapUri, SwapHttp, Goto, TypeOK, Paced, CallPaced
<1>5. CASE Resolve(t)
  <2>1. pc[t] = "resolve" /\ pc'[t] = "build" /\ trail' = trail /\ call' = call
    BY <1>5 DEF Resolve, Goto, TypeOK
  <2>2. CASE call[t].ref.kind = "absolute"
    <3>1. http' = Destined(call[t].ref) /\ http' # None
      BY <1>5, <2>2, CreateHttpType, UrlOfType, NoneIsNoUrl DEF Resolve, Destined
    <3> QED BY <1>3, <2>1, <3>1 DEF Connection
  <2>3. CASE call[t].ref.kind = "rooted"
    <3>1. http' = http
      BY <1>5, <2>3 DEF Resolve
    <3>2. Connection = Destined(call[t].ref)
      BY <2>1, <2>3, NobodyElsewhere, ConnectedToSite, SiteDestined DEF Elsewhere
    <3>3. Connection' = Connection
      BY <3>1, ReadConnection
    <3> QED BY <1>3, <2>1, <3>2, <3>3
  <2> QED BY <2>2, <2>3, RefFields
<1>6. CASE (Build(t) \/ Sign(t)) /\ ~Leave(t)
  <2>1. /\ pc[t] \in {"build", "sign"} /\ trail' = trail /\ http' \in {http, Connection}
        /\ ~Redirected(t)
    BY <1>6 DEF Build, Sign, Redirected
  <2>2. Connection' = Connection
    BY <2>1, ReadConnection
  <2> QED BY <1>3, <2>1, <2>2
<1>7. CASE Send(t)
  <2>1. /\ pc[t] = "send" /\ pc'[t] = "await" /\ call'[t] = call[t]
        /\ Connection = Destined(call[t].ref)
    BY <1>7 DEF Send, Goto, TypeOK
  <2>2. ASSUME NEW i \in DOMAIN trail'[t] PROVE trail'[t][i].to = Destined(call[t].ref)
    <3>1. i \in 1 .. Len(trail[t]) \/ i = Len(trail[t]) + 1
      BY <1>7, <2>2, SendAppends
    <3> QED BY <1>7, <2>1, <3>1, SendAppends
  <2> QED BY <1>3, <2>1, <2>2
<1>8. CASE Redirected(t) /\ ~Leave(t)
  <2>1. PICK loc \in Answer :
          LET target == Merge(TokenUri(call[t].ref), loc)
          IN ~Refused(t, target) /\ Follow(t, loc, target)
    BY <1>8 DEF Redirected
  <2> DEFINE target == Merge(TokenUri(call[t].ref), loc)
  <2>2. /\ pc[t] = "await" /\ pc'[t] = "resolve" /\ trail' = trail /\ call[t].kind = "token"
        /\ call'[t].ref = RedirectRef(TokenUri(call[t].ref), target)
    BY <1>8, <2>1 DEF Redirected, Follow, Goto, TypeOK, Call
  <2>3. ~CrossOrigin(TokenUri(call[t].ref), target)
    BY <2>1 DEF Refused
  <2>4. call'[t].ref.kind = "rooted" /\ call[t].ref.kind = "rooted"
    BY <2>2, <2>3 DEF RedirectRef
  <2>5. Destined(call'[t].ref) = Destined(call[t].ref)
    BY <2>4 DEF Destined
  <2> QED BY <2>2, <2>4, <2>5
<1>9. CASE Leave(t)
  <2>1. pc'[t] = "restoreUri" /\ trail'[t] = trail[t] /\ call'[t] = call[t]
    BY <1>9, LeaveLocals
  <2> QED BY <1>3, <2>1
<1>10. CASE RestoreUri(t)
  <2>1. pc'[t] = "restoreHttp" /\ trail'[t] = trail[t] /\ call'[t] = call[t]
    BY <1>10 DEF RestoreUri, Goto, TypeOK
  <2> QED BY <1>3, <2>1
<1>11. CASE RestoreHttp(t)
  BY <1>11 DEF RestoreHttp, End, Goto, TypeOK
<1> QED
  BY <1>4, <1>5, <1>6, <1>7, <1>8, <1>9, <1>10, <1>11
     DEF Step, Build, BuildRaises, Sign, BlockDone, Answered, Redirected

(* However the connection is left, it goes to the site unless somebody is  *)
(* elsewhere.                                                              *)
LEMMA StepToSite ==
    ASSUME TypeOK, Fits, PathsOnly, Settled, Homed, NEW t \in Caller, Starts(t) \/ Step(t),
           \A u \in Caller : ~Elsewhere(u)'
    PROVE  ToSite'
<1>1. options' = options /\ CreateHttp(None)' = CreateHttp(None)
  BY OptionsFixed
<1>2. ASSUME ToSite, http' \in {http, Connection} PROVE ToSite'
  BY <1>1, <1>2, ConnectedToSite DEF ToSite
<1>3. ASSUME ~Elsewhere(t) PROVE ToSite
  <2>1. ASSUME NEW u \in Caller, u # t PROVE ~Elsewhere(u)
    BY <2>1, OthersKeep DEF Elsewhere
  <2> QED BY <1>3, <2>1 DEF Homed
<1>4. CASE Starts(t)
  BY <1>2, <1>3, <1>4, StartLocals DEF Elsewhere
<1>5. CASE SwapHttp(t) \/ RestoreHttp(t)
  BY <1>1, <1>5 DEF SwapHttp, RestoreHttp, ToSite
<1>6. CASE Resolve(t)
  <2>1. pc[t] = "resolve" /\ pc'[t] = "build" /\ call' = call /\ Aimed(t)
    BY <1>6 DEF Resolve, Goto, TypeOK, Homed
  <2>2. ~call[t].swapped /\ call[t].ref \in Ref
    BY <2>1 DEF Elsewhere, TypeOK, Call
  <2>3. CASE call[t].ref.kind = "absolute"
    <3>1. http' = Destined(call[t].ref)
      BY <1>6, <2>3, UrlOfType, NoneIsNoUrl DEF Resolve, Destined
    <3> QED BY <1>1, <2>1, <2>2, <2>3, <3>1, SiteDestined DEF ToSite, Aimed
  <2>4. CASE call[t].ref.kind # "absolute"
    BY <1>2, <1>3, <1>6, <2>1, <2>4 DEF Resolve, Elsewhere
  <2> QED BY <2>3, <2>4
<1>7. CASE Step(t) /\ ~SwapHttp(t) /\ ~RestoreHttp(t) /\ ~Resolve(t)
  <2>1. http' \in {http, Connection}
    BY <1>7 DEF Step, SwapUri, Build, BuildRaises, Sign, BlockDone, Send, Answered,
                Redirected, RestoreUri
  <2>2. ~Elsewhere(t)
    <3>1. CASE pc'[t] = "idle"
      BY <1>7, <3>1, StepGoes, LeaveLocals DEF Elsewhere
    <3>2. CASE pc'[t] # "idle"
      BY <1>7, <3>2, StepGoes, StepKeeps, LeaveLocals DEF Elsewhere, Redirected, Fits, CallFits
    <3> QED BY <3>1, <3>2
  <2> QED BY <1>2, <1>3, <2>1, <2>2
<1> QED BY <1>4, <1>5, <1>6, <1>7

LEMMA StepHomed ==
    ASSUME TypeOK, Fits, Paced, PathsOnly, Settled, Homed, NEW t \in Caller,
           Starts(t) \/ Step(t)
    PROVE  Homed'
<1>1. TypeOK' /\ Fits'
  BY BeginTyped, StepTyped DEF Starts
<1>2. /\ options' = options /\ CreateHttp(None)' = CreateHttp(None)
      /\ \A ref : Destined(ref)' = Destined(ref)
  BY OptionsFixed
<1>3. Aimed(t)'
  BY StartAims, StepAims
<1>4. ((\A u \in Caller : ~Elsewhere(u)) => ToSite)'
  BY StepToSite
<1>5. ASSUME NEW u \in Caller, u # t PROVE Aimed(u)'
  <2>1. ServiceRef \subseteq Rooted
    BY <1>5 DEF Settled, Alone
  <2>2. ASSUME NEW v \in Caller, pc'[v] # "idle"
        PROVE  call'[v].ref.kind = "rooted" /\ ~Elsewhere(v)'
    <3>1. Aimed(v)
      BY DEF Homed
    <3>2. call'[v].ref.kind = "rooted"
      BY <1>3, <2>1, <2>2, <3>1, OthersKeep DEF Aimed
    <3> QED BY <1>1, <2>2, <3>2 DEF Fits, CallFits, Elsewhere
  <2>3. ToSite'
    BY <1>4, <2>2 DEF Elsewhere
  <2>4. Connection' = CreateHttp(None)
    BY <1>2, <2>3 DEF ToSite, Connection
  <2>5. pc'[u] # "idle" => Destined(call'[u].ref) = CreateHttp(None)
    BY <2>2 DEF Destined
  <2>6. pc'[u] = pc[u] /\ call'[u] = call[u] /\ trail'[u] = trail[u] /\ Aimed(u)
    BY <1>5, OthersKeep DEF Homed
  <2> QED BY <1>2, <2>2, <2>4, <2>5, <2>6 DEF Aimed, CrossAllowed
<1>6. ASSUME NEW u \in Caller, NEW i \in DOMAIN trail'[u]
      PROVE  trail'[u][i].to = Destined(trail'[u][i].ref)
  <2>1. CASE u # t \/ ~Send(t)
    BY <1>6, <2>1, OthersKeep, TrailKept DEF Homed
  <2>2. CASE u = t /\ Send(t)
    <3>1. Aimed(t) /\ pc[t] = "send"
      BY <2>2 DEF Homed, Send
    <3>2. i \in 1 .. Len(trail[t]) \/ i = Len(trail[t]) + 1
      BY <1>6, <2>2, SendAppends
    <3> QED BY <2>2, <3>1, <3>2, SendAppends DEF Homed, Aimed
  <2> QED BY <2>1, <2>2
<1>7. \A u \in Caller : Aimed(u)'
  BY <1>3, <1>5
<1>8. (\A u \in Caller : \A i \in DOMAIN trail[u] :
         trail[u][i].to = Destined(trail[u][i].ref))'
  BY <1>2, <1>6 DEF Destined, CreateHttp
<1> QED BY <1>4, <1>7, <1>8 DEF Homed

LEMMA InitHomed == Init => Homed
BY DEF Init, Homed, ToSite, Aimed

LEMMA NextHomed ==
    ASSUME TypeOK, Fits, Paced, PathsOnly, Settled, Homed, [Next]_vars
    PROVE  Homed'
<1>1. CASE UNCHANGED vars
  BY <1>1 DEF vars, Homed, ToSite, Aimed, Elsewhere, Connection, CreateHttp, Destined, CrossAllowed
<1>2. CASE Application
  <2>1. /\ options' = options /\ pc' = pc /\ call' = call /\ trail' = trail
        /\ \A t \in Caller : pc[t] = "idle"
    BY <1>2 DEF Application, AllIdle
  <2>2. ToSite
    BY <2>1 DEF Homed, Elsewhere
  <2>3. http' \in {http, None, Connection, CreateHttp(None)}
    BY <1>2 DEF Application, SetHttp, SetUri, ReadBack, Reload, PathsOnly
  <2>4. ToSite'
    BY <2>1, <2>2, <2>3, ConnectedToSite DEF ToSite, CreateHttp
  <2> QED BY <2>1, <2>4 DEF Homed, Aimed, Destined, CreateHttp
<1> QED BY <1>1, <1>2, StepHomed DEF Next, Starts

LEMMA AlwaysHomed == PathsOnly /\ Spec => []Homed
<1> SUFFICES ASSUME PathsOnly PROVE Spec => []Homed
  OBVIOUS
<1>1. CASE ServiceRef \subseteq Rooted
  <2>1. TypeOK /\ Fits /\ Paced /\ Homed /\ [Next]_vars => Homed'
    BY <1>1, NextHomed DEF Settled
  <2> QED BY <2>1, InitHomed, TypeCorrect, AlwaysPaced, PTL DEF Spec
<1>2. CASE Alone /\ SiteOnly
  <2>1. Spec => []SiteAtRest
    BY <1>2, AlwaysAtRest
  <2>2. TypeOK /\ Fits /\ Paced /\ SiteAtRest /\ Homed /\ [Next]_vars => Homed'
    BY <1>2, NextHomed DEF Settled
  <2> QED BY <2>1, <2>2, InitHomed, TypeCorrect, AlwaysPaced, PTL DEF Spec
<1> QED BY <1>1, <1>2 DEF PathsOnly

(* consumer.rb, request: a path is asked of the site, or of the            *)
(* request_endpoint, whichever calls went before or run at the same time,  *)
(* when only service calls are for full URLs: none of them, or one call at *)
(* a time.                                                                 *)
THEOREM PathsReachSite == PathsOnly /\ Spec => []RelativeReachesSite
<1>1. Homed => RelativeReachesSite
  BY DEF Homed, RelativeReachesSite, Destined
<1> QED BY <1>1, AlwaysHomed, PTL
-----------------------------------------------------------------------------
(* The refinement: what StatelessConsumer sees of a caller.                *)
DestOf(t)   == IF Running(t) THEN Destined(call[t].ref) ELSE None
BudgetOf(t) == IF Running(t) THEN Budgeted(call[t]) ELSE 0
SentToOf(t) == {trail[t][i].to : i \in DOMAIN trail[t]}
SentOf(t)   == Len(trail[t])
SeenSame(t) ==
    /\ DestOf(t)' = DestOf(t) /\ BudgetOf(t)' = BudgetOf(t)
    /\ SentToOf(t)' = SentToOf(t) /\ SentOf(t)' = SentOf(t)

LEMMA SeenTypes ==
    ASSUME TypeOK, Fits, NEW t \in Caller, Running(t)
    PROVE  DestOf(t) \in Origin /\ DestOf(t) # None /\ BudgetOf(t) \in Nat
<1>1. call[t] \in Call /\ call[t].ref \in Ref
  BY DEF Fits, CallFits, Running, Call
<1>2. Destined(call[t].ref) \in Origin
  BY <1>1, CreateHttpType, UrlOfType DEF Destined
<1>3. Budgeted(call[t]) \in Nat
  BY <1>1, BudgetType
<1> QED BY <1>2, <1>3, NoneIsNoUrl DEF DestOf, BudgetOf

LEMMA EmptyTrail ==
    ASSUME Paced, NEW t \in Caller, ~Running(t)
    PROVE  /\ SentToOf(t) = {} /\ SentOf(t) = 0
           /\ DestOf(t) = None /\ BudgetOf(t) = 0
BY DEF Paced, CallPaced, Running, SentToOf, SentOf, DestOf, BudgetOf

LEMMA OthersSeenSame ==
    ASSUME TypeOK, NEW t \in Caller, Starts(t) \/ Step(t), NEW u \in Caller, u # t
    PROVE  SeenSame(u)
BY OthersKeep DEF SeenSame, DestOf, BudgetOf, SentToOf, SentOf, Running, Destined, CreateHttp,
                  Budgeted, MaxRedirects

(* What the steps of one caller look like.                                 *)
LEMMA SeenStart ==
    ASSUME TypeOK, Fits, Paced, NEW t \in Caller, Starts(t)
    PROVE  /\ DestOf(t) = None /\ DestOf(t)' \in Origin /\ BudgetOf(t)' \in Nat
           /\ SentToOf(t)' = SentToOf(t) /\ SentOf(t)' = SentOf(t)
<1>1. TypeOK' /\ Fits'
  BY BeginTyped DEF Starts
<1>2. ~Running(t) /\ Running(t)' /\ trail'[t] = trail[t]
  BY StartLocals DEF Running
<1>3. DestOf(t)' \in Origin /\ BudgetOf(t)' \in Nat
  <2>1. options' = options /\ call'[t] \in Call /\ call'[t].ref \in Ref
    BY <1>1, <1>2, OptionsFixed DEF Fits, CallFits, Running, Call
  <2>2. Destined(call'[t].ref) \in Origin /\ Budgeted(call'[t]) \in Nat
    BY <2>1, CreateHttpType, UrlOfType, BudgetType DEF Destined
  <2> QED BY <1>2, <2>1, <2>2 DEF DestOf, BudgetOf, Destined, CreateHttp, Budgeted, MaxRedirects
<1> QED BY <1>2, <1>3 DEF DestOf, SentToOf, SentOf

LEMMA SeenSend ==
    ASSUME TypeOK, Fits, Paced, Homed, NEW t \in Caller, Send(t)
    PROVE  /\ DestOf(t) # None /\ SentOf(t) < BudgetOf(t)
           /\ SentOf(t)' = SentOf(t) + 1 /\ SentToOf(t)' = {DestOf(t)}
           /\ DestOf(t)' = DestOf(t) /\ BudgetOf(t)' = BudgetOf(t)
<1>1. /\ pc[t] = "send" /\ pc'[t] = "await" /\ call' = call /\ options' = options
      /\ Running(t) /\ Running(t)'
  BY DEF Send, Goto, TypeOK, Running
<1>2. DestOf(t) # None /\ BudgetOf(t) \in Nat
  BY <1>1, SeenTypes
<1>3. /\ Len(trail[t]) = call[t].hops /\ call[t].hops < Budgeted(call[t])
      /\ Connection = Destined(call[t].ref)
      /\ \A i \in DOMAIN trail[t] : trail[t][i].to = Destined(call[t].ref)
  BY <1>1 DEF Paced, CallPaced, Before, Homed, Aimed
<1>4. /\ DOMAIN trail'[t] = 1 .. Len(trail[t]) + 1 /\ Len(trail[t]) \in Nat
      /\ \A i \in 1 .. Len(trail[t]) + 1 : trail'[t][i].to = Destined(call[t].ref)
  <2>1. ASSUME NEW i \in 1 .. Len(trail[t]) + 1
        PROVE  trail'[t][i].to = Destined(call[t].ref)
    <3>1. i \in 1 .. Len(trail[t]) \/ i = Len(trail[t]) + 1
      BY SendAppends
    <3> QED BY <1>3, <3>1, SendAppends
  <2> QED BY <2>1, SendAppends
<1>5. SentToOf(t)' = {DestOf(t)}
  <2>1. 1 \in 1 .. Len(trail[t]) + 1
    BY <1>4
  <2> QED BY <1>1, <1>4, <2>1 DEF SentToOf, DestOf
<1>6. SentOf(t)' = SentOf(t) + 1
  <2>1. trail' \in [Caller -> Seq(Exchange)]
    BY StepTyped DEF Step, TypeOK
  <2> QED BY <1>4, <2>1 DEF SentOf
<1>7. DestOf(t)' = DestOf(t) /\ BudgetOf(t)' = BudgetOf(t)
  BY <1>1 DEF DestOf, BudgetOf, Running, Destined, CreateHttp, Budgeted, MaxRedirects
<1> QED BY <1>1, <1>2, <1>3, <1>5, <1>6, <1>7 DEF SentOf, BudgetOf

LEMMA SeenElse ==
    ASSUME TypeOK, Fits, Paced, Homed, PathsOnly, Settled, NEW t \in Caller, Step(t), ~Send(t),
           pc'[t] # "idle"
    PROVE  SeenSame(t)
<1>1. /\ Running(t) /\ Running(t)' /\ options' = options
      /\ call'[t].kind = call[t].kind /\ call'[t].opts = call[t].opts
  BY StepKeeps, OthersKeep DEF Running
<1>2. trail'[t] = trail[t]
  <2>1. Paced' /\ (trail'[t] = trail[t] \/ trail'[t] = <<>>)
    BY StepPaced, TrailKept
  <2>2. trail'[t] = <<>> /\ Leave(t) => trail[t] = trail'[t]
    BY StepKeeps, LeaveLocals
  <2> QED BY <2>1, <2>2, StepGoes
             DEF SwapUri, SwapHttp, Resolve, Build, Sign, Redirected, Follow, RestoreUri,
                 RestoreHttp
<1>3. Destined(call'[t].ref) = Destined(call[t].ref)
  <2>1. CASE ~Redirected(t) \/ Leave(t)
    BY <2>1, StepKeeps
  <2>2. CASE Redirected(t) /\ ~Leave(t)
    <3>1. Aimed(t) /\ Aimed(t)' /\ call[t].kind = "token"
      BY <2>2, StepAims DEF Homed, Redirected
    <3>2. call'[t].ref.kind = "rooted" /\ call[t].ref.kind = "rooted"
      BY <1>1, <3>1 DEF Aimed, Running
    <3> QED BY <3>2 DEF Destined
  <2> QED BY <2>1, <2>2
<1> QED BY <1>1, <1>2, <1>3 DEF SeenSame, DestOf, BudgetOf, SentToOf, SentOf, Running, Destined,
                                CreateHttp, Budgeted, MaxRedirects

LEMMA StartsPromise ==
    ASSUME TypeOK, Fits, Paced, NEW t \in Caller, Starts(t)
    PROVE  Promise!Begin(t)
<1>1. \A u \in Caller : u # t => SeenSame(u)
  BY OthersSeenSame
<1> QED BY <1>1, SeenStart
        DEF Promise!Begin, SeenSame, DestOf, BudgetOf, SentToOf, SentOf

LEMMA SendPromise ==
    ASSUME TypeOK, Fits, Paced, Homed, NEW t \in Caller, Send(t)
    PROVE  Promise!Ask(t)
<1>1. \A u \in Caller : u # t => SeenSame(u)
  BY OthersSeenSame DEF Step
<1> QED BY <1>1, SeenSend
        DEF Promise!Ask, SeenSame, DestOf, BudgetOf, SentToOf, SentOf

LEMMA LeavePromise ==
    ASSUME TypeOK, Fits, Paced, NEW t \in Caller, Step(t), pc'[t] = "idle"
    PROVE  Promise!End(t)
<1>1. \A u \in Caller : u # t => SeenSame(u)
  BY OthersSeenSame
<1>2. Paced'
  BY StepPaced
<1>3. /\ SentToOf(t)' = {} /\ SentOf(t)' = 0 /\ DestOf(t)' = None /\ BudgetOf(t)' = 0
  BY <1>2 DEF Paced, CallPaced, Running, SentToOf, SentOf, DestOf, BudgetOf
<1>4. DestOf(t) # None
  BY StepGoes, SeenTypes DEF Running
<1> QED BY <1>1, <1>3, <1>4
        DEF Promise!End, SeenSame, DestOf, BudgetOf, SentToOf, SentOf

LEMMA InitPromise == Init => Promise!Init
BY DEF Init, Promise!Init, Running

LEMMA NextPromise ==
    ASSUME TypeOK, Fits, Paced, PathsOnly, Settled, Homed, [Next]_vars
    PROVE  [Promise!Next]_Promise!vars
<1>1. CASE UNCHANGED vars \/ Application
  <2>1. options' = options /\ pc' = pc /\ call' = call /\ trail' = trail
    BY <1>1 DEF vars, Application
  <2> QED BY <2>1 DEF Promise!vars, Running, Destined, CreateHttp, Budgeted, MaxRedirects
<1>2. ASSUME NEW t \in Caller, Starts(t) PROVE Promise!Next
  BY <1>2, StartsPromise DEF Promise!Next
<1>3. ASSUME NEW t \in Caller, Step(t) PROVE [Promise!Next]_Promise!vars
  <2>1. CASE Send(t)
    BY <2>1, SendPromise DEF Promise!Next
  <2>2. CASE pc'[t] = "idle"
    BY <1>3, <2>2, LeavePromise DEF Promise!Next
  <2>3. CASE ~Send(t) /\ pc'[t] # "idle"
    <3>1. \A u \in Caller : SeenSame(u)
      BY <1>3, <2>3, SeenElse, OthersSeenSame
    <3> QED BY <3>1 DEF Promise!vars, SeenSame, DestOf, BudgetOf, SentToOf, SentOf
  <2> QED BY <2>1, <2>2, <2>3
<1> QED BY <1>1, <1>2, <1>3 DEF Next, Starts

(* Every step of the consumer is a step of StatelessConsumer or none that  *)
(* it sees: a call is for one destination, all its requests go there, and  *)
(* it sends no more of them than its redirects allow.                      *)
THEOREM PromiseKept == PathsOnly /\ Spec => ImplementsPromise
<1> SUFFICES ASSUME PathsOnly PROVE Spec => Promise!Spec
  BY DEF ImplementsPromise
<1>1. CASE ServiceRef \subseteq Rooted
  <2>1. TypeOK /\ Fits /\ Paced /\ Homed /\ [Next]_vars => [Promise!Next]_Promise!vars
    BY <1>1, NextPromise DEF Settled
  <2>2. Spec => []Homed
    BY AlwaysHomed
  <2> QED BY <2>1, <2>2, InitPromise, TypeCorrect, AlwaysPaced, PTL DEF Spec, Promise!Spec
<1>2. CASE Alone /\ SiteOnly
  <2>1. TypeOK /\ Fits /\ Paced /\ SiteAtRest /\ Homed /\ [Next]_vars
          => [Promise!Next]_Promise!vars
    BY <1>2, NextPromise DEF Settled
  <2>2. Spec => []Homed /\ []SiteAtRest
    <3>1. Spec => []Homed
      BY AlwaysHomed
    <3>2. Spec => []SiteAtRest
      BY <1>2, AlwaysAtRest
    <3> QED BY <3>1, <3>2
  <2> QED BY <2>1, <2>2, InitPromise, TypeCorrect, AlwaysPaced, PTL DEF Spec, Promise!Spec
<1> QED BY <1>1, <1>2 DEF PathsOnly
=============================================================================
