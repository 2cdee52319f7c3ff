------------------------------- MODULE Dance -------------------------------
(***************************************************************************)
(* The exchange of tokens: each session of an application has a Consumer   *)
(* fetch a request token, its user approve it at the provider, and the     *)
(* request token exchanged for an access token.  Answers can be lost, come *)
(* with 200 and no token in them, redirect or refuse; the application      *)
(* starts anew in between and tries again, and keeps options in hashes it  *)
(* may pass to several calls.                                              *)
(*                                                                         *)
(* A token and its secret are the number the provider gave them; None      *)
(* stands for nil.  Where a redirect may lead is ConsumerHttp's matter.    *)
(***************************************************************************)
EXTENDS Naturals, Sequences, FiniteSets

CONSTANTS Sessions, \* the users' sessions
          Hashes,   \* the option hashes of the application
          None,     \* Ruby's nil
          Own,      \* a callback URL of the application's
          Setups,   \* how hashes are filled in and passed to calls
          Stores,   \* sessions that kept a request token before a restart
          MaxHops,  \* token_request_max_redirects
          MaxTries  \* calls the application makes

Calls == {"request", "access"}
Oob == "oob"
Callbacks == {None, Own, Oob}

(* A hash: what the application put in it.  nonce says that it put one.    *)
Hash == [callback : {None, Own}, exclude : BOOLEAN, nonce : BOOLEAN]
(* uses: the hash each call is passed.  get: whether http_method is :get.  *)
Setup == [hash : [Hashes -> Hash], uses : [Sessions \X Calls -> Hashes], get : BOOLEAN]

ASSUME SetupsFit == Setups \subseteq Setup /\ None \notin {Own, Oob}
ASSUME StoresFit ==
    /\ Stores \subseteq Seq(Sessions)
    /\ \A kept \in Stores : \A i, j \in DOMAIN kept : kept[i] = kept[j] => i = j
ASSUME BoundsFit == MaxHops \in Nat /\ MaxTries \in Nat

VARIABLES setup,    \* the application's choices
          callback, \* :oauth_callback in each hash
          touched,  \* the hashes get_request_token wrote "oob" to (history)
          stage,    \* how far each session is
          rtoken,   \* its RequestToken, None before there is one
          atoken,   \* its AccessToken, likewise
          call,     \* the request it has sent, None if none is under way
          reply,    \* the answer to it
          tries,    \* the calls it made so far
          nonces,   \* how many nonces were generated
          issued,   \* the provider's tokens
          seen      \* the nonces it has accepted
appVars == <<setup, callback, touched, stage, rtoken, atoken, tries, nonces>>
vars == <<appVars, call, reply, issued, seen>>

Stages == {"new", "pending", "approved", "holding"}
Object == [token : Nat \cup {None}, secret : Nat \cup {None}]
(* A nonce the caller put into a hash, or the nth one generated.           *)
Nonces == (Hashes \cup {None}) \X Nat
Requests == [kind : Calls, nonce : Nonces, callback : Callbacks,
             token : Nat \cup {None}, hops : Nat, resent : BOOLEAN]
(* "raises" stands for every answer that makes the call raise: 4xx, 5xx    *)
(* and any with an oauth_problem in WWW-Authenticate.                      *)
Answers == {"token", "tokenless", "raises", "redirect", "lost"}
Replies == [answer : Answers, token : Nat \cup {None}]
Issued == [kind : Calls, owner : Sessions, approved : BOOLEAN, spent : BOOLEAN,
           from : Nat \cup {None}]

ASSUME NoneIsNil == None \notin Object /\ None \notin Requests /\ None \notin Replies

Pair(t) == [token |-> t, secret |-> t]

(* Sessions that kept a token wait for their users.                        *)
Init ==
    /\ setup \in Setups
    /\ \E kept \in Stores :
         LET TokenOf(s) == CHOOSE i \in DOMAIN kept : kept[i] = s
             Kept(s)    == \E i \in DOMAIN kept : kept[i] = s
         IN /\ rtoken = [s \in Sessions |-> IF Kept(s) THEN Pair(TokenOf(s)) ELSE None]
            /\ stage = [s \in Sessions |-> IF Kept(s) THEN "pending" ELSE "new"]
            /\ issued = [i \in DOMAIN kept |->
                  [kind |-> "request", owner |-> kept[i], approved |-> FALSE,
                   spent |-> FALSE, from |-> None]]
    /\ callback = [h \in Hashes |-> setup.hash[h].callback] /\ touched = {}
    /\ atoken = [s \in Sessions |-> None]
    /\ call = [s \in Sessions |-> None] /\ reply = [s \in Sessions |-> None]
    /\ tries = 0 /\ nonces = 0 /\ seen = {}
-----------------------------------------------------------------------------
Idle(s) == call[s] = None /\ reply[s] = None /\ tries < MaxTries
HashOf(s, kind) == setup.uses[<<s, kind>>]

(* sign!: the options are merged into a new hash, so a nonce that is       *)
(* generated stays out of the caller's.  Variant: it does not.             *)
NonceFor_Kept(h) == IF setup.hash[h].nonce \/ h \in touched
                   THEN <<h, 0>> ELSE <<None, nonces + 1>>
NonceFor(h) == IF setup.hash[h].nonce THEN <<h, 0>> ELSE <<None, nonces + 1>>

(* oauth_parameters leaves out what is empty: the token of a nil object.   *)
SignAndSend(s, kind, token, cb, hops) ==
    LET h == HashOf(s, kind)
    IN /\ call' = [call EXCEPT ![s] =
                     [kind |-> kind, nonce |-> NonceFor(h), callback |-> cb,
                      token |-> token, hops |-> hops, resent |-> FALSE]]
       /\ nonces' = IF setup.hash[h].nonce THEN nonces ELSE nonces + 1

(* request_options[:oauth_callback] ||= "oob" unless exclude_callback.     *)
(* Variant: it also replaces what the application gave.                    *)
WithCallback_Always(h) == IF setup.hash[h].exclude THEN callback[h] ELSE Oob
WithCallback(h) ==
    IF setup.hash[h].exclude \/ callback[h] # None THEN callback[h] ELSE Oob

GetRequestToken(s) ==
    LET h == HashOf(s, "request") IN
    /\ Idle(s) /\ stage[s] = "new"
    /\ callback' = [callback EXCEPT ![h] = WithCallback(h)]
    /\ touched' = IF setup.hash[h].exclude THEN touched ELSE touched \cup {h}
    /\ SignAndSend(s, "request", None, WithCallback(h), 0)
    /\ tries' = tries + 1
    /\ UNCHANGED <<setup, stage, rtoken, atoken, reply, issued, seen>>

(* The user follows authorize_url, which a nil token does not have.        *)
Approve(s) ==
    LET t == rtoken[s].token IN
    /\ stage[s] = "pending" /\ t # None
    /\ issued' = [issued EXCEPT ![t].approved = TRUE]
    /\ stage' = [stage EXCEPT ![s] = "approved"]
    /\ UNCHANGED <<setup, callback, touched, rtoken, atoken, tries, nonces, call,
                   reply, seen>>

(* Nothing keeps an application from asking too early or with a nil token. *)
GetAccessToken(s) ==
    /\ Idle(s) /\ stage[s] \in {"pending", "approved"}
    /\ SignAndSend(s, "access", rtoken[s].token, callback[HashOf(s, "access")], 0)
    /\ tries' = tries + 1
    /\ UNCHANGED <<setup, callback, touched, stage, rtoken, atoken, reply, issued, seen>>
-----------------------------------------------------------------------------
(* The provider, and the network to and from it.                           *)

Grants(c) ==
    \/ c.kind = "request"
    \/ /\ c.token # None
       /\ issued[c.token].kind = "request"
       /\ issued[c.token].approved /\ ~issued[c.token].spent

Open(s) == call[s] # None /\ reply[s] = None
Replied(s, answer, token) ==
    /\ reply' = [reply EXCEPT ![s] = [answer |-> answer, token |-> token]]
    /\ UNCHANGED <<appVars, call>>

(* What it does for a request it accepts.                                  *)
Issue(s) ==
    LET c     == call[s]
        fresh == [kind |-> c.kind, owner |-> s, approved |-> FALSE, spent |-> FALSE,
                  from |-> c.token]
    IN /\ seen' = seen \cup {c.nonce}
       /\ issued' = Append(IF c.kind = "access"
                           THEN [issued EXCEPT ![c.token].spent = TRUE] ELSE issued, fresh)

(* The answer arrives, has no form in its body, or is lost on the way.     *)
Accept(s) ==
    /\ Open(s) /\ call[s].nonce \notin seen /\ Grants(call[s])
    /\ Issue(s)
    /\ \/ Replied(s, "token", Len(issued) + 1)
       \/ \E answer \in {"tokenless", "lost"} : Replied(s, answer, None)

Refuse(s) ==
    /\ Open(s) /\ (call[s].nonce \in seen \/ ~Grants(call[s]))
    /\ \E answer \in {"raises", "tokenless"} : Replied(s, answer, None)
    /\ UNCHANGED <<issued, seen>>

(* It sends the client elsewhere, and may have looked at its nonce.        *)
Redirect(s) ==
    /\ Open(s)
    /\ \/ UNCHANGED seen
       \/ call[s].nonce \notin seen /\ seen' = seen \cup {call[s].nonce}
    /\ Replied(s, "redirect", None) /\ UNCHANGED issued

(* It breaks down, or the request never arrives.                           *)
Fail(s) ==
    /\ Open(s)
    /\ \E answer \in {"raises", "lost"} : Replied(s, answer, None)
    /\ UNCHANGED <<issued, seen>>
-----------------------------------------------------------------------------
(* What the call makes of the answer.  Variant: the answer is kept.        *)

Answered(s, answers) == reply[s] # None /\ reply[s].answer \in answers
Closed_Reply(s) == call' = [call EXCEPT ![s] = None] /\ UNCHANGED reply
Closed(s) == call' = [call EXCEPT ![s] = None] /\ reply' = [reply EXCEPT ![s] = None]

(* Net::HTTP sends an idempotent request once more by itself.              *)
Resends(s) == setup.get /\ ~call[s].resent
Resend(s) ==
    /\ Answered(s, {"lost"}) /\ Resends(s)
    /\ call' = [call EXCEPT ![s].resent = TRUE]
    /\ reply' = [reply EXCEPT ![s] = None]
    /\ UNCHANGED <<appVars, issued, seen>>

(* Variants: the token of the previous call is kept for a nil one; the     *)
(* redirects are not counted.                                              *)
Parsed_Kept(s) == IF reply[s].token = None THEN rtoken[s] ELSE Pair(reply[s].token)
Parsed(s) == Pair(reply[s].token)
HopsAfter_Same(c) == c.hops
HopsAfter(c) == c.hops + 1

(* 2xx: from_hash makes a token of what was parsed, nil if it was not in   *)
(* there.                                                                  *)
Receive(s) ==
    /\ Answered(s, {"token", "tokenless"})
    /\ \/ /\ call[s].kind = "request"
          /\ rtoken' = [rtoken EXCEPT ![s] = Parsed(s)]
          /\ stage' = [stage EXCEPT ![s] = "pending"]
          /\ UNCHANGED atoken
       \/ /\ call[s].kind = "access"
          /\ atoken' = [atoken EXCEPT ![s] = Parsed(s)]
          /\ stage' = [stage EXCEPT ![s] = "holding"]
          /\ UNCHANGED rtoken
    /\ Closed(s)
    /\ UNCHANGED <<setup, callback, touched, tries, nonces, issued, seen>>

(* 3xx: the same call is signed anew for the other URL.  The first hop     *)
(* merges the caller's hash as it is by then, later ones that copy.        *)
Follow(s) ==
    LET c  == call[s]
        cb == IF c.hops = 0 THEN callback[HashOf(s, c.kind)] ELSE c.callback
    IN
    /\ Answered(s, {"redirect"}) /\ HopsAfter(c) <= MaxHops
    /\ SignAndSend(s, c.kind, c.token, cb, HopsAfter(c))
    /\ reply' = [reply EXCEPT ![s] = None]
    /\ UNCHANGED <<setup, callback, touched, stage, rtoken, atoken, tries, issued, seen>>

(* OAuth::Problem, OAuth::Unauthorized, error! and timeouts: the call      *)
(* raises and leaves the session as it was.                                *)
Raise(s) ==
    /\ \/ Answered(s, {"raises"})
       \/ Answered(s, {"lost"}) /\ ~Resends(s)
       \/ Answered(s, {"redirect"}) /\ HopsAfter(call[s]) > MaxHops
    /\ Closed(s)
    /\ UNCHANGED <<appVars, issued, seen>>

(* The application starts anew: tokens were stored, calls are gone.        *)
Restart ==
    /\ \E s \in Sessions : call[s] # None
    /\ call' = [s \in Sessions |-> None] /\ reply' = [s \in Sessions |-> None]
    /\ callback' = [h \in Hashes |-> setup.hash[h].callback] /\ touched' = {}
    /\ UNCHANGED <<setup, stage, rtoken, atoken, tries, nonces, issued, seen>>

Provider(s) == Accept(s) \/ Refuse(s) \/ Redirect(s) \/ Fail(s)
Client(s)   == Resend(s) \/ Receive(s) \/ Follow(s) \/ Raise(s)

Next ==
    \/ \E s \in Sessions :
          \/ GetRequestToken(s)
          \/ Approve(s)
          \/ GetAccessToken(s)
          \/ Accept(s)
          \/ Refuse(s)
          \/ Redirect(s)
          \/ Fail(s)
          \/ Resend(s)
          \/ Receive(s)
          \/ Follow(s)
          \/ Raise(s)
    \/ Restart

Spec == Init /\ [][Next]_vars

(* Net::HTTP has a time limit, so every request has an outcome; the code   *)
(* then runs on.  Users and applications owe nothing.                      *)
FairSpec == Spec /\ \A s \in Sessions : WF_vars(Provider(s)) /\ WF_vars(Client(s))
-----------------------------------------------------------------------------
(* The variables keep their types.                                         *)
TypeOK ==
    /\ setup \in Setups
    /\ callback \in [Hashes -> Callbacks] /\ touched \subseteq Hashes
    /\ stage \in [Sessions -> Stages]
    /\ rtoken \in [Sessions -> Object \cup {None}]
    /\ atoken \in [Sessions -> Object \cup {None}]
    /\ call \in [Sessions -> Requests \cup {None}]
    /\ reply \in [Sessions -> Replies \cup {None}]
    /\ tries \in 0..MaxTries /\ nonces \in Nat
    /\ issued \in Seq(Issued) /\ seen \subseteq Nonces
    /\ \A s \in Sessions : reply[s] # None => call[s] # None

(* A request goes out with the callback its hash was given, and one for a  *)
(* request token with "oob" if there is none and it is not excluded.  What *)
(* get_request_token wrote into a hash shows in other calls that are       *)
(* passed the same hash, and nowhere else.                                 *)
CallbackAsAsked ==
    \A s \in Sessions : call[s] # None =>
        LET c == call[s]  h == HashOf(s, c.kind)  given == setup.hash[h] IN
        \/ c.callback = given.callback
           /\ (c.kind = "request" => given.callback # None \/ given.exclude)
        \/ c.callback = Oob /\ given.callback = None
           /\ IF c.kind = "request" THEN ~given.exclude ELSE h \in touched

(* A session's access token, if it is not nil, is one the provider issued  *)
(* to it, with its secret, for its own request token, which its user       *)
(* approved: a nil request token is never worth one.                       *)
GrantIsOwn ==
    \A s \in Sessions : atoken[s] # None /\ atoken[s].token # None =>
        LET t == atoken[s].token IN
        /\ atoken[s].secret = t
        /\ t \in DOMAIN issued /\ issued[t].kind = "access" /\ issued[t].owner = s
        /\ issued[t].from = rtoken[s].token /\ rtoken[s].token # None
        /\ issued[issued[t].from].approved /\ issued[issued[t].from].owner = s

(* A request arrives with a nonce that was seen before only if the caller  *)
(* put it into the options, to be used again for every redirect and every  *)
(* call, or Net::HTTP sent an idempotent request again.                    *)
ReplayExplained ==
    \A s \in Sessions : Open(s) /\ call[s].nonce \in seen =>
        setup.hash[HashOf(s, call[s].kind)].nonce \/ call[s].resent

(* Every call ends: a provider that only redirects, or never answers, does *)
(* not keep it.                                                            *)
CallsEnd == \A s \in Sessions : call[s] # None ~> call[s] = None
=============================================================================
