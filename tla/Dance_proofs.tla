---------------------------- MODULE Dance_proofs ----------------------------
(***************************************************************************)
(* What holds of Dance for every set of sessions and option hashes, every  *)
(* redirect limit and however often the application calls.                 *)
(***************************************************************************)
EXTENDS Dance, TLAPS, SequenceTheorems

(* A token the provider issued to a session.                               *)
Mine(t, kind, s) == t \in DOMAIN issued /\ issued[t].kind = kind /\ issued[t].owner = s

(* Who has which token at which stage, and what calls and answers carry.   *)
Staged(s) ==
    /\ stage[s] = "new" <=> rtoken[s] = None
    /\ atoken[s] # None => stage[s] = "holding"
    /\ rtoken[s] # None /\ rtoken[s].token # None => Mine(rtoken[s].token, "request", s)
Asking(s) ==
    call[s] # None =>
        /\ call[s].kind = "request" => stage[s] = "new" /\ call[s].token = None
        /\ call[s].kind = "access" => /\ stage[s] \in {"pending", "approved"}
                                      /\ call[s].token = rtoken[s].token
Answering(s) ==
    reply[s] # None /\ reply[s].token # None =>
        /\ call[s] # None /\ Mine(reply[s].token, call[s].kind, s)
        /\ call[s].kind = "access" =>
             /\ call[s].token # None /\ issued[reply[s].token].from = call[s].token
             /\ issued[call[s].token].approved
Granted(s) ==
    atoken[s] # None /\ atoken[s].token # None =>
        LET t == atoken[s].token IN
        /\ atoken[s].secret = t
        /\ t \in DOMAIN issued /\ issued[t].kind = "access" /\ issued[t].owner = s
        /\ issued[t].from = rtoken[s].token /\ rtoken[s].token # None
        /\ issued[issued[t].from].approved /\ issued[issued[t].from].owner = s
Fits(s) == Staged(s) /\ Asking(s) /\ Answering(s) /\ Granted(s)
GrantInv == TypeOK /\ \A s \in Sessions : Fits(s)

(* A nonce that was generated is of one call only, and not seen before it  *)
(* arrives with it.                                                        *)
Generated(s) == call[s] # None /\ ~setup.hash[HashOf(s, call[s].kind)].nonce
NonceFits ==
    /\ \A s \in Sessions : call[s] # None /\ ~Generated(s) =>
         call[s].nonce = <<HashOf(s, call[s].kind), 0>>
    /\ \A s \in Sessions : Generated(s) =>
         \E n \in 1..nonces : call[s].nonce = <<None, n>>
    /\ \A nonce \in seen : nonce[2] <= nonces
    /\ \A s, t \in Sessions : Generated(s) /\ Generated(t) /\ s # t =>
         call[s].nonce # call[t].nonce

(* A hash has what it was given, or the "oob" get_request_token left.      *)
CallbackFits ==
    /\ \A h \in Hashes :
         IF h \in touched THEN /\ ~setup.hash[h].exclude
                               /\ callback[h] = IF setup.hash[h].callback = None THEN Oob
                                                ELSE setup.hash[h].callback
         ELSE callback[h] = setup.hash[h].callback
    /\ \A s \in Sessions : call[s] # None /\ call[s].kind = "request" =>
         setup.hash[HashOf(s, "request")].exclude \/ HashOf(s, "request") \in touched
-----------------------------------------------------------------------------
(* Types.                                                                  *)

LEMMA SetupTypes ==
    ASSUME TypeOK
    PROVE  /\ setup \in Setup
           /\ \A h \in Hashes : /\ setup.hash[h] \in Hash
                                /\ setup.hash[h].callback \in {None, Own}
                                /\ setup.hash[h].exclude \in BOOLEAN
                                /\ setup.hash[h].nonce \in BOOLEAN
           /\ \A s \in Sessions, kind \in Calls : HashOf(s, kind) \in Hashes
           /\ \A h \in Hashes : callback[h] \in Callbacks
BY SetupsFit DEF TypeOK, Setup, Hash, HashOf

LEMMA CallTypes ==
    ASSUME TypeOK, NEW s \in Sessions, call[s] # None
    PROVE  /\ call[s] \in Requests /\ call[s].kind \in Calls /\ call[s].nonce \in Nonces
           /\ call[s].callback \in Callbacks /\ call[s].token \in Nat \cup {None}
           /\ call[s].hops \in Nat
BY DEF TypeOK, Requests

LEMMA ReplyTypes ==
    ASSUME TypeOK, NEW s \in Sessions, reply[s] # None
    PROVE  reply[s] \in Replies /\ reply[s].token \in Nat \cup {None} /\ call[s] # None
BY DEF TypeOK, Replies

LEMMA TokenTypes ==
    ASSUME TypeOK, NEW s \in Sessions, rtoken[s] # None
    PROVE  rtoken[s] \in Object /\ rtoken[s].token \in Nat \cup {None}
BY DEF TypeOK, Object

LEMMA PairTypes ==
    ASSUME NEW t \in Nat \cup {None}
    PROVE  /\ Pair(t) \in Object /\ Pair(t) # None
           /\ Pair(t).token = t /\ Pair(t).secret = t
BY NoneIsNil DEF Pair, Object

(* A request that is signed and sent.                                      *)
LEMMA SignAndSendTypes ==
    ASSUME TypeOK, NEW s \in Sessions, NEW kind \in Calls, NEW token \in Nat \cup {None},
           NEW cb \in Callbacks, NEW hops \in Nat, SignAndSend(s, kind, token, cb, hops)
    PROVE  /\ call' \in [Sessions -> Requests \cup {None}] /\ nonces' \in Nat
           /\ call'[s] # None /\ call'[s].kind = kind /\ call'[s].token = token
           /\ call'[s].callback = cb /\ call'[s].nonce = NonceFor(HashOf(s, kind))
           /\ \A r \in Sessions \ {s} : call'[r] = call[r]
<1> DEFINE h == HashOf(s, kind)
           new == [kind |-> kind, nonce |-> NonceFor(h), callback |-> cb,
                   token |-> token, hops |-> hops, resent |-> FALSE]
<1>1. h \in Hashes /\ nonces \in Nat /\ call \in [Sessions -> Requests \cup {None}]
  BY SetupTypes DEF TypeOK
<1>2. NonceFor(h) \in Nonces
  BY <1>1 DEF NonceFor, Nonces
<1>3. new \in Requests /\ new # None
  <2>1. PICK nonce \in Nonces : nonce = NonceFor(h)
    BY <1>2
  <2>2. [kind |-> kind, nonce |-> nonce, callback |-> cb, token |-> token,
         hops |-> hops, resent |-> FALSE] \in Requests
    BY DEF Requests
  <2>3. new \in Requests
    BY <2>1, <2>2
  <2> HIDE DEF new
  <2> QED BY <2>3, NoneIsNil
<1>4. call' = [call EXCEPT ![s] = new] /\ nonces' \in Nat
  BY <1>1 DEF SignAndSend
<1>5. /\ new.kind = kind /\ new.token = token /\ new.callback = cb
      /\ new.nonce = NonceFor(HashOf(s, kind))
  OBVIOUS
<1> HIDE DEF new
<1> QED BY <1>1, <1>3, <1>4, <1>5

(* The provider's tokens grow in number and stay whose they are.           *)
Grows ==
    \A t \in DOMAIN issued :
        /\ t \in DOMAIN issued' /\ issued'[t].kind = issued[t].kind
        /\ issued'[t].owner = issued[t].owner /\ issued'[t].from = issued[t].from
        /\ issued[t].approved => issued'[t].approved

LEMMA SameGrows == ASSUME UNCHANGED issued PROVE Grows
BY DEF Grows

LEMMA FitsKept ==
    ASSUME GrantInv, Grows, NEW s \in Sessions,
           stage'[s] = stage[s], rtoken'[s] = rtoken[s], atoken'[s] = atoken[s],
           call'[s] = call[s], reply'[s] = reply[s]
    PROVE  Fits(s)'
<1>1. Fits(s)
  BY DEF GrantInv
<1>2. ASSUME NEW t, NEW kind, Mine(t, kind, s) PROVE Mine(t, kind, s)'
  BY <1>2 DEF Mine, Grows
<1>3. Staged(s)'
  BY <1>1, <1>2 DEF Fits, Staged
<1>4. Asking(s)'
  BY <1>1 DEF Fits, Asking
<1>5. Answering(s)'
  <2> SUFFICES ASSUME reply[s] # None, reply[s].token # None PROVE Answering(s)'
    BY DEF Answering
  <2>1. call[s] # None /\ Mine(reply[s].token, call[s].kind, s)
    BY <1>1 DEF Fits, Answering
  <2>2. ASSUME call[s].kind = "access"
        PROVE  /\ call[s].token # None /\ issued'[reply[s].token].from = call[s].token
               /\ issued'[call[s].token].approved
    <3>1. /\ call[s].token # None /\ issued[reply[s].token].from = call[s].token
          /\ issued[call[s].token].approved
      BY <1>1, <2>2 DEF Fits, Answering
    <3>2. /\ stage[s] \in {"pending", "approved"} /\ call[s].token = rtoken[s].token
      BY <1>1, <2>1, <2>2 DEF Fits, Asking
    <3>3. call[s].token \in DOMAIN issued
      BY <1>1, <3>1, <3>2 DEF Fits, Staged, Mine
    <3> QED BY <2>1, <3>1, <3>3 DEF Grows, Mine
  <2>3. Mine(reply[s].token, call[s].kind, s)'
    BY <2>1 DEF Mine, Grows
  <2> QED BY <2>1, <2>2, <2>3 DEF Answering
<1>6. Granted(s)'
  <2> SUFFICES ASSUME atoken[s] # None, atoken[s].token # None PROVE Granted(s)'
    BY DEF Granted
  <2>1. /\ atoken[s].secret = atoken[s].token /\ Mine(atoken[s].token, "access", s)
        /\ issued[atoken[s].token].from = rtoken[s].token /\ rtoken[s].token # None
        /\ issued[rtoken[s].token].approved /\ issued[rtoken[s].token].owner = s
    BY <1>1 DEF Fits, Granted, Mine
  <2>2. rtoken[s].token \in DOMAIN issued
    BY <1>1, <2>1 DEF Fits, Staged, Mine
  <2> QED BY <2>1, <2>2 DEF Granted, Grows, Mine
<1> QED BY <1>3, <1>4, <1>5, <1>6 DEF Fits
-----------------------------------------------------------------------------
(* Each action keeps the types and what the sessions hold.                 *)

LEMMA GetRequestTokenFits ==
    ASSUME GrantInv, NEW s \in Sessions, GetRequestToken(s)
    PROVE  GrantInv'
<1> DEFINE h == HashOf(s, "request")
<1>1. TypeOK /\ Fits(s) /\ stage[s] = "new" /\ reply[s] = None /\ tries < MaxTries
  BY DEF GrantInv, GetRequestToken, Idle
<1>2. h \in Hashes /\ WithCallback(h) \in Callbacks
  BY <1>1, SetupTypes DEF WithCallback, Callbacks, Calls
<1>3. /\ SignAndSend(s, "request", None, WithCallback(h), 0)
      /\ callback' = [callback EXCEPT ![h] = WithCallback(h)]
      /\ touched' \subseteq touched \cup {h} /\ tries' = tries + 1
      /\ UNCHANGED <<setup, stage, rtoken, atoken, reply, issued, seen>>
  BY DEF GetRequestToken
<1> HIDE DEF h
<1>4. /\ call' \in [Sessions -> Requests \cup {None}] /\ nonces' \in Nat
      /\ call'[s] # None /\ call'[s].kind = "request" /\ call'[s].token = None
      /\ \A r \in Sessions \ {s} : call'[r] = call[r]
  BY <1>1, <1>2, <1>3, SignAndSendTypes DEF Calls
<1>5. TypeOK'
  BY <1>1, <1>2, <1>3, <1>4, BoundsFit DEF TypeOK
<1>6. Fits(s)'
  BY <1>1, <1>3, <1>4 DEF Fits, Staged, Asking, Answering, Granted, Mine
<1>7. \A r \in Sessions \ {s} : Fits(r)'
  BY <1>3, <1>4, SameGrows, FitsKept
<1> QED BY <1>5, <1>6, <1>7 DEF GrantInv

LEMMA GetAccessTokenFits ==
    ASSUME GrantInv, NEW s \in Sessions, GetAccessToken(s)
    PROVE  GrantInv'
<1> DEFINE cb == callback[HashOf(s, "access")]
<1>1. /\ TypeOK /\ Fits(s) /\ stage[s] \in {"pending", "approved"} /\ reply[s] = None
      /\ tries < MaxTries
  BY DEF GrantInv, GetAccessToken, Idle
<1>2. cb \in Callbacks /\ rtoken[s].token \in Nat \cup {None}
  BY <1>1, SetupTypes, TokenTypes DEF Fits, Staged, Calls
<1>3. /\ SignAndSend(s, "access", rtoken[s].token, cb, 0) /\ tries' = tries + 1
      /\ UNCHANGED <<setup, callback, touched, stage, rtoken, atoken, reply, issued, seen>>
  BY DEF GetAccessToken
<1> HIDE DEF cb
<1>4. /\ call' \in [Sessions -> Requests \cup {None}] /\ nonces' \in Nat
      /\ call'[s] # None /\ call'[s].kind = "access" /\ call'[s].token = rtoken[s].token
      /\ \A r \in Sessions \ {s} : call'[r] = call[r]
  BY <1>1, <1>2, <1>3, SignAndSendTypes DEF Calls
<1>5. TypeOK'
  BY <1>1, <1>3, <1>4, BoundsFit DEF TypeOK
<1>6. Fits(s)'
  BY <1>1, <1>3, <1>4 DEF Fits, Staged, Asking, Answering, Granted, Mine
<1>7. \A r \in Sessions \ {s} : Fits(r)'
  BY <1>3, <1>4, SameGrows, FitsKept
<1> QED BY <1>5, <1>6, <1>7 DEF GrantInv

(* Changing one of the provider's tokens.                                  *)
LEMMA IssuedExcept ==
    ASSUME issued \in Seq(Issued), NEW t \in DOMAIN issued, NEW e \in Issued,
           e.kind = issued[t].kind, e.owner = issued[t].owner, e.from = issued[t].from,
           issued[t].approved => e.approved
    PROVE  LET new == [issued EXCEPT ![t] = e] IN
           /\ new \in Seq(Issued) /\ Len(new) = Len(issued) /\ DOMAIN new = DOMAIN issued
           /\ new[t] = e
           /\ \A i \in DOMAIN issued : /\ new[i].kind = issued[i].kind
                                       /\ new[i].owner = issued[i].owner
                                       /\ new[i].from = issued[i].from
                                       /\ issued[i].approved => new[i].approved
<1> DEFINE new == [issued EXCEPT ![t] = e]
<1>1. DOMAIN issued = 1..Len(issued)
  BY LenProperties
<1>2. new \in Seq(Issued) /\ Len(new) = Len(issued)
  BY <1>1, ExceptSeq
<1>3. DOMAIN new = DOMAIN issued /\ new[t] = e /\ \A i \in DOMAIN issued \ {t} : new[i] = issued[i]
  OBVIOUS
<1> HIDE DEF new
<1>4. QED BY <1>2, <1>3 DEF new

LEMMA ApproveFits ==
    ASSUME GrantInv, NEW s \in Sessions, Approve(s)
    PROVE  GrantInv'
<1>1. TypeOK /\ Fits(s)
  BY DEF GrantInv
<1>2. PICK t : t = rtoken[s].token
  OBVIOUS
<1>3. /\ stage[s] = "pending" /\ t # None /\ issued \in Seq(Issued)
      /\ issued' = [issued EXCEPT ![t].approved = TRUE]
      /\ stage' = [stage EXCEPT ![s] = "approved"]
      /\ UNCHANGED <<setup, callback, touched, rtoken, atoken, tries, nonces, call,
                      reply, seen>>
  BY <1>1, <1>2 DEF Approve, TypeOK
<1>4. t \in DOMAIN issued /\ rtoken[s] # None
  BY <1>1, <1>2, <1>3 DEF Fits, Staged, Mine
<1>5. issued[t] \in Issued
  BY <1>3, <1>4, LenProperties, ElementOfSeq
<1>6. PICK e \in Issued : /\ e = [issued[t] EXCEPT !.approved = TRUE]
                          /\ e.kind = issued[t].kind /\ e.owner = issued[t].owner
                          /\ e.from = issued[t].from /\ e.approved
  <2>1. PICK old \in Issued : old = issued[t]
    BY <1>5
  <2>2. /\ [old EXCEPT !.approved = TRUE] \in Issued
        /\ [old EXCEPT !.approved = TRUE].kind = old.kind
        /\ [old EXCEPT !.approved = TRUE].owner = old.owner
        /\ [old EXCEPT !.approved = TRUE].from = old.from
        /\ [old EXCEPT !.approved = TRUE].approved
    BY DEF Issued
  <2> QED BY <2>1, <2>2
<1>7. issued' = [issued EXCEPT ![t] = e]
  <2>1. issued' = [issued EXCEPT ![t] = [issued[t] EXCEPT !.approved = TRUE]]
    BY <1>3, <1>4, Zenon
  <2> QED BY <1>6, <2>1
<1>8. issued' \in Seq(Issued) /\ Grows
  BY <1>3, <1>4, <1>6, <1>7, IssuedExcept DEF Grows
<1>9. TypeOK'
  BY <1>1, <1>3, <1>8 DEF TypeOK, Stages
<1>10. /\ stage'[s] = "approved" /\ stage \in [Sessions -> Stages]
       /\ \A r \in Sessions \ {s} : stage'[r] = stage[r]
  BY <1>1, <1>3 DEF TypeOK
<1>11. \A r \in Sessions \ {s} : Fits(r)'
  BY <1>3, <1>8, <1>10, FitsKept
<1>12. Fits(s)'
  <2>1. atoken[s] = None
    BY <1>1, <1>3 DEF Fits, Staged
  <2>2. ASSUME NEW i, NEW kind, Mine(i, kind, s) PROVE Mine(i, kind, s)'
    BY <1>8, <2>2 DEF Mine, Grows
  <2>3. Staged(s)' /\ Granted(s)'
    BY <1>1, <1>3, <1>4, <1>10, <2>1, <2>2 DEF Fits, Staged, Granted
  <2>4. Asking(s)'
    BY <1>1, <1>3, <1>10 DEF Fits, Asking
  <2>5. Answering(s)'
    <3> SUFFICES ASSUME reply[s] # None, reply[s].token # None PROVE Answering(s)'
      BY <1>3 DEF Answering
    <3>1. call[s] # None /\ Mine(reply[s].token, call[s].kind, s)
      BY <1>1 DEF Fits, Answering
    <3>2. ASSUME call[s].kind = "access"
          PROVE  /\ call[s].token # None /\ issued'[reply[s].token].from = call[s].token
                 /\ issued'[call[s].token].approved
      <4>1. /\ call[s].token # None /\ issued[reply[s].token].from = call[s].token
            /\ issued[call[s].token].approved /\ call[s].token = t
        BY <1>1, <1>2, <3>1, <3>2 DEF Fits, Answering, Asking
      <4> QED BY <1>4, <1>8, <3>1, <4>1 DEF Grows, Mine
    <3> QED BY <1>3, <2>2, <3>1, <3>2 DEF Answering
  <2> QED BY <2>3, <2>4, <2>5 DEF Fits
<1> QED BY <1>9, <1>11, <1>12 DEF GrantInv

LEMMA IssueFits ==
    ASSUME GrantInv, NEW s \in Sessions, Open(s), Grants(call[s]), Issue(s)
    PROVE  /\ issued' \in Seq(Issued) /\ Grows
           /\ seen' = seen \cup {call[s].nonce} /\ seen' \subseteq Nonces
           /\ Len(issued) + 1 \in Nat /\ Len(issued) + 1 \in DOMAIN issued'
           /\ issued'[Len(issued) + 1].kind = call[s].kind
           /\ issued'[Len(issued) + 1].owner = s
           /\ issued'[Len(issued) + 1].from = call[s].token
           /\ call[s].kind = "access" => /\ call[s].token # None
                                         /\ issued'[call[s].token].approved
<1> DEFINE c     == call[s]
           fresh == [kind |-> c.kind, owner |-> s, approved |-> FALSE, spent |-> FALSE,
                     from |-> c.token]
           new   == [issued EXCEPT ![c.token].spent = TRUE]
           base  == IF c.kind = "access" THEN new ELSE issued
<1>1. TypeOK /\ Fits(s) /\ issued \in Seq(Issued) /\ c # None
  BY DEF GrantInv, TypeOK, Open
<1>2. /\ c.kind \in Calls /\ c.nonce \in Nonces /\ c.token \in Nat \cup {None}
  BY <1>1, CallTypes
<1>3. fresh \in Issued /\ fresh.kind = c.kind /\ fresh.owner = s /\ fresh.from = c.token
  BY <1>2 DEF Issued
<1>4. c.kind = "access" => /\ c.token # None /\ issued[c.token].approved
                           /\ c.token = rtoken[s].token
  BY <1>1 DEF Grants, Fits, Asking
<1>5. /\ base \in Seq(Issued) /\ Len(base) = Len(issued) /\ DOMAIN base = DOMAIN issued
      /\ \A i \in DOMAIN issued : /\ base[i].kind = issued[i].kind
                                  /\ base[i].owner = issued[i].owner
                                  /\ base[i].from = issued[i].from
                                  /\ issued[i].approved => base[i].approved
  <2>1. CASE c.kind = "access"
    <3>1. PICK t : t = c.token
      OBVIOUS
    <3>2. t \in DOMAIN issued
      BY <1>1, <1>4, <2>1, <3>1 DEF Fits, Staged, Asking, Mine
    <3>3. PICK old \in Issued : old = issued[t]
      BY <1>1, <3>2, LenProperties, ElementOfSeq
    <3>4. /\ [old EXCEPT !.spent = TRUE] \in Issued
          /\ [old EXCEPT !.spent = TRUE].kind = old.kind
          /\ [old EXCEPT !.spent = TRUE].owner = old.owner
          /\ [old EXCEPT !.spent = TRUE].from = old.from
          /\ [old EXCEPT !.spent = TRUE].approved = old.approved
      BY DEF Issued
    <3>5. PICK e \in Issued : /\ e = [issued[t] EXCEPT !.spent = TRUE]
                              /\ e.kind = issued[t].kind /\ e.owner = issued[t].owner
                              /\ e.from = issued[t].from
                              /\ issued[t].approved => e.approved
      BY <3>3, <3>4
    <3>6. new = [issued EXCEPT ![t] = [issued[t] EXCEPT !.spent = TRUE]]
      BY <3>1, <3>2, Zenon
    <3>7. new = [issued EXCEPT ![t] = e]
      BY <3>5, <3>6
    <3> HIDE DEF new
    <3> QED BY <1>1, <2>1, <3>2, <3>5, <3>7, IssuedExcept
  <2>2. CASE c.kind # "access"
    BY <1>1, <2>2
  <2> QED BY <2>1, <2>2
<1>6. issued' = Append(base, fresh) /\ seen' = seen \cup {c.nonce}
  BY DEF Issue
<1> HIDE DEF base, fresh
<1>7. Len(issued) \in Nat /\ DOMAIN issued = 1..Len(issued)
  BY <1>1, LenProperties
<1>8. /\ issued' \in Seq(Issued) /\ Len(issued)' = Len(issued) + 1
      /\ \A i \in 1..Len(issued) : issued'[i] = base[i]
      /\ issued'[Len(issued) + 1] = fresh
  BY <1>3, <1>5, <1>6, AppendProperties
<1>9. DOMAIN issued' = 1..(Len(issued) + 1)
  BY <1>8, LenProperties
<1>10. Grows
  <2> SUFFICES ASSUME NEW i \in DOMAIN issued
               PROVE  /\ i \in DOMAIN issued' /\ issued'[i].kind = issued[i].kind
                      /\ issued'[i].owner = issued[i].owner /\ issued'[i].from = issued[i].from
                      /\ issued[i].approved => issued'[i].approved
    BY DEF Grows
  <2>1. \A n \in Nat : \A j \in 1..n : j \in 1..(n + 1)
    OBVIOUS
  <2>2. i \in 1..Len(issued) /\ i \in DOMAIN issued'
    BY <1>7, <1>9, <2>1, Zenon
  <2>3. issued'[i] = base[i]
    BY <1>8, <2>2, Zenon
  <2>4. /\ base[i].kind = issued[i].kind /\ base[i].owner = issued[i].owner
        /\ base[i].from = issued[i].from
    BY <1>5
  <2>5. issued[i].approved => base[i].approved
    BY <1>5
  <2> QED BY <2>2, <2>3, <2>4, <2>5
<1>11. Len(issued) + 1 \in Nat /\ Len(issued) + 1 \in DOMAIN issued'
  <2>1. \A n \in Nat : n + 1 \in Nat /\ n + 1 \in 1..(n + 1)
    OBVIOUS
  <2>2. Len(issued) + 1 \in Nat /\ Len(issued) + 1 \in 1..(Len(issued) + 1)
    BY <1>7, <2>1, Zenon
  <2> QED BY <1>9, <2>2, Zenon
<1>12. c.kind = "access" => issued'[c.token].approved
  <2>1. c.kind = "access" => c.token \in DOMAIN issued
    BY <1>1, <1>4 DEF Fits, Staged, Asking, Mine
  <2> QED BY <1>4, <1>10, <2>1 DEF Grows
<1>13. seen' \subseteq Nonces
  BY <1>1, <1>2, <1>6 DEF TypeOK
<1> QED BY <1>3, <1>4, <1>6, <1>7, <1>8, <1>10, <1>11, <1>12, <1>13

(* An answer; one without a token says nothing of the provider's.          *)
LEMMA RepliedFits ==
    ASSUME GrantInv, NEW s \in Sessions, Open(s), NEW answer \in Answers,
           NEW t \in Nat \cup {None}, Replied(s, answer, t), Grows,
           issued' \in Seq(Issued), seen' \subseteq Nonces,
           t # None => /\ t \in DOMAIN issued' /\ issued'[t].kind = call[s].kind
                       /\ issued'[t].owner = s /\ issued'[t].from = call[s].token
                       /\ call[s].kind = "access" => /\ call[s].token # None
                                                     /\ issued'[call[s].token].approved
    PROVE  GrantInv'
<1> DEFINE new == [answer |-> answer, token |-> t]
<1>1. TypeOK /\ Fits(s) /\ call[s] # None
  BY DEF GrantInv, Open
<1>2. /\ reply' = [reply EXCEPT ![s] = new]
      /\ UNCHANGED <<setup, callback, touched, stage, rtoken, atoken, tries, nonces, call>>
  BY DEF Replied, appVars
<1>3. new \in Replies /\ new.token = t
  BY DEF Replies
<1> HIDE DEF new
<1>4. /\ reply' \in [Sessions -> Replies \cup {None}] /\ reply'[s] = new
      /\ \A r \in Sessions \ {s} : reply'[r] = reply[r]
  BY <1>1, <1>2, <1>3 DEF TypeOK
<1>5. TypeOK'
  <2>1. \A r \in Sessions : reply'[r] # None => call'[r] # None
    BY <1>1, <1>2, <1>4 DEF TypeOK
  <2> QED BY <1>1, <1>2, <1>4, <2>1 DEF TypeOK
<1>6. \A r \in Sessions \ {s} : Fits(r)'
  BY <1>2, <1>4, FitsKept
<1>7. Fits(s)'
  <2>1. ASSUME NEW i, NEW kind, Mine(i, kind, s) PROVE Mine(i, kind, s)'
    BY <2>1 DEF Mine, Grows
  <2>2. Staged(s)' /\ Asking(s)'
    BY <1>1, <1>2, <2>1 DEF Fits, Staged, Asking
  <2>3. Answering(s)'
    BY <1>1, <1>2, <1>3, <1>4 DEF Answering, Mine
  <2>4. Granted(s)'
    <3> SUFFICES ASSUME atoken[s] # None, atoken[s].token # None PROVE Granted(s)'
      BY <1>2 DEF Granted
    <3>1. /\ atoken[s].secret = atoken[s].token /\ Mine(atoken[s].token, "access", s)
          /\ issued[atoken[s].token].from = rtoken[s].token /\ rtoken[s].token # None
          /\ issued[rtoken[s].token].approved /\ issued[rtoken[s].token].owner = s
      BY <1>1 DEF Fits, Granted, Mine
    <3>2. stage[s] = "holding"
      BY <1>1 DEF Fits, Staged
    <3>3. rtoken[s] # None
      BY <1>1, <3>2 DEF Fits, Staged
    <3>4. rtoken[s].token \in DOMAIN issued
      BY <1>1, <3>1, <3>3 DEF Fits, Staged, Mine
    <3> QED BY <1>2, <3>1, <3>4 DEF Granted, Grows, Mine
  <2> QED BY <2>2, <2>3, <2>4 DEF Fits
<1> QED BY <1>5, <1>6, <1>7 DEF GrantInv

LEMMA AcceptFits ==
    ASSUME GrantInv, NEW s \in Sessions, Accept(s)
    PROVE  GrantInv'
<1>1. Open(s) /\ Grants(call[s]) /\ Issue(s)
  BY DEF Accept
<1>2. PICK n : n = Len(issued) + 1
  OBVIOUS
<1>3. /\ issued' \in Seq(Issued) /\ Grows /\ seen' \subseteq Nonces
      /\ n \in Nat /\ n \in DOMAIN issued' /\ issued'[n].kind = call[s].kind
      /\ issued'[n].owner = s /\ issued'[n].from = call[s].token
      /\ call[s].kind = "access" => /\ call[s].token # None
                                    /\ issued'[call[s].token].approved
  BY <1>1, <1>2, IssueFits
<1>4. CASE Replied(s, "token", n)
  BY <1>1, <1>3, <1>4, RepliedFits DEF Answers
<1>5. CASE \E answer \in {"tokenless", "lost"} : Replied(s, answer, None)
  BY <1>1, <1>3, <1>5, RepliedFits DEF Answers
<1> QED BY <1>2, <1>4, <1>5 DEF Accept

(* Nothing is issued.                                                      *)
LEMMA NothingIssuedFits ==
    ASSUME GrantInv, NEW s \in Sessions, Refuse(s) \/ Redirect(s) \/ Fail(s)
    PROVE  GrantInv'
<1>1. TypeOK /\ Open(s) /\ UNCHANGED issued
  BY DEF GrantInv, Refuse, Redirect, Fail
<1>2. Grows /\ issued' \in Seq(Issued)
  BY <1>1, SameGrows DEF TypeOK
<1>3. seen' \subseteq Nonces
  <2>1. call[s].nonce \in Nonces
    BY <1>1, CallTypes DEF Open
  <2> QED BY <1>1, <2>1 DEF TypeOK, Refuse, Redirect, Fail
<1>4. PICK answer \in Answers : Replied(s, answer, None)
  BY DEF Refuse, Redirect, Fail, Answers
<1> QED BY <1>1, <1>2, <1>3, <1>4, RepliedFits

LEMMA ResendFits ==
    ASSUME GrantInv, NEW s \in Sessions, Resend(s)
    PROVE  GrantInv'
<1>1. /\ TypeOK /\ Fits(s) /\ reply[s] # None
      /\ reply' = [reply EXCEPT ![s] = None]
      /\ UNCHANGED <<setup, callback, touched, stage, rtoken, atoken, tries, nonces,
                     issued, seen>>
  BY DEF GrantInv, Resend, Answered, appVars
<1>2. PICK c \in Requests : c = call[s]
  BY <1>1 DEF TypeOK
<1>3. PICK e \in Requests : /\ e = [c EXCEPT !.resent = TRUE] /\ e # None
                            /\ e.kind = c.kind /\ e.token = c.token
  <2>1. /\ [c EXCEPT !.resent = TRUE] \in Requests
        /\ [c EXCEPT !.resent = TRUE].kind = c.kind
        /\ [c EXCEPT !.resent = TRUE].token = c.token
    BY DEF Requests
  <2> QED BY <2>1, NoneIsNil
<1>4. call' = [call EXCEPT ![s] = e]
  <2>1. call' = [call EXCEPT ![s] = [call[s] EXCEPT !.resent = TRUE]]
    BY DEF Resend
  <2> QED BY <1>2, <1>3, <2>1
<1>5. /\ call' \in [Sessions -> Requests \cup {None}] /\ call'[s] = e
      /\ reply' \in [Sessions -> Replies \cup {None}] /\ reply'[s] = None
      /\ \A r \in Sessions \ {s} : call'[r] = call[r] /\ reply'[r] = reply[r]
  BY <1>1, <1>4 DEF TypeOK
<1>6. TypeOK'
  BY <1>1, <1>5 DEF TypeOK
<1>7. Fits(s)'
  BY <1>1, <1>2, <1>3, <1>5, NoneIsNil DEF Fits, Staged, Asking, Answering, Granted, Mine
<1>8. \A r \in Sessions \ {s} : Fits(r)'
  BY <1>1, <1>5, SameGrows, FitsKept
<1> QED BY <1>6, <1>7, <1>8 DEF GrantInv

(* A call that ends leaves no answer.                                      *)
LEMMA ClosedTypes ==
    ASSUME TypeOK, NEW s \in Sessions, Closed(s)
    PROVE  /\ call' \in [Sessions -> Requests \cup {None}]
           /\ reply' \in [Sessions -> Replies \cup {None}]
           /\ call'[s] = None /\ reply'[s] = None
           /\ \A r \in Sessions \ {s} : call'[r] = call[r] /\ reply'[r] = reply[r]
           /\ \A r \in Sessions : reply'[r] # None => call'[r] # None
BY DEF Closed, TypeOK

LEMMA ReceiveFits ==
    ASSUME GrantInv, NEW s \in Sessions, Receive(s)
    PROVE  GrantInv'
<1> DEFINE t == reply[s].token
<1>1. /\ TypeOK /\ Fits(s) /\ reply[s] # None /\ call[s] # None /\ Closed(s)
      /\ UNCHANGED <<setup, callback, touched, tries, nonces, issued, seen>>
  BY ReplyTypes DEF GrantInv, Receive, Answered
<1>2. /\ call' \in [Sessions -> Requests \cup {None}]
      /\ reply' \in [Sessions -> Replies \cup {None}]
      /\ call'[s] = None /\ reply'[s] = None
      /\ \A r \in Sessions \ {s} : call'[r] = call[r] /\ reply'[r] = reply[r]
      /\ \A r \in Sessions : reply'[r] # None => call'[r] # None
  BY <1>1, ClosedTypes
<1>3. PICK pair \in Object : /\ pair = Parsed(s) /\ pair # None
                             /\ pair.token = t /\ pair.secret = t
  BY <1>1, ReplyTypes, PairTypes DEF Parsed
<1>4. CASE /\ call[s].kind = "request"
           /\ rtoken' = [rtoken EXCEPT ![s] = Parsed(s)]
           /\ stage' = [stage EXCEPT ![s] = "pending"]
           /\ UNCHANGED atoken
  <2>1. /\ rtoken' = [rtoken EXCEPT ![s] = pair] /\ stage' = [stage EXCEPT ![s] = "pending"]
        /\ atoken' = atoken
    BY <1>3, <1>4
  <2>2. /\ rtoken' \in [Sessions -> Object \cup {None}] /\ stage' \in [Sessions -> Stages]
        /\ rtoken'[s] = pair /\ stage'[s] = "pending"
        /\ \A r \in Sessions \ {s} : rtoken'[r] = rtoken[r] /\ stage'[r] = stage[r]
    BY <1>1, <2>1 DEF TypeOK, Stages
  <2>3. TypeOK'
    BY <1>1, <1>2, <2>1, <2>2 DEF TypeOK
  <2>4. atoken[s] = None
    BY <1>1, <1>4 DEF Fits, Asking, Staged
  <2>5. t # None => Mine(t, "request", s)
    BY <1>1, <1>4 DEF Fits, Answering
  <2>6. Fits(s)'
    BY <1>1, <1>2, <1>3, <2>1, <2>2, <2>4, <2>5
       DEF Fits, Staged, Asking, Answering, Granted, Mine
  <2>7. \A r \in Sessions \ {s} : Fits(r)'
    BY <1>1, <1>2, <2>1, <2>2, SameGrows, FitsKept
  <2> QED BY <2>3, <2>6, <2>7 DEF GrantInv
<1>5. CASE /\ call[s].kind = "access"
           /\ atoken' = [atoken EXCEPT ![s] = Parsed(s)]
           /\ stage' = [stage EXCEPT ![s] = "holding"]
           /\ UNCHANGED rtoken
  <2>1. /\ atoken' = [atoken EXCEPT ![s] = pair] /\ stage' = [stage EXCEPT ![s] = "holding"]
        /\ rtoken' = rtoken
    BY <1>3, <1>5
  <2>2. /\ atoken' \in [Sessions -> Object \cup {None}] /\ stage' \in [Sessions -> Stages]
        /\ atoken'[s] = pair /\ stage'[s] = "holding"
        /\ \A r \in Sessions \ {s} : atoken'[r] = atoken[r] /\ stage'[r] = stage[r]
    BY <1>1, <2>1 DEF TypeOK, Stages
  <2>3. TypeOK'
    BY <1>1, <1>2, <2>1, <2>2 DEF TypeOK
  <2>4. call[s].token = rtoken[s].token /\ stage[s] # "new" /\ rtoken[s] # None
    BY <1>1, <1>5 DEF Fits, Asking, Staged
  <2>5. t # None => /\ Mine(t, "access", s) /\ rtoken[s].token # None
                    /\ issued[t].from = rtoken[s].token /\ issued[rtoken[s].token].approved
                    /\ Mine(rtoken[s].token, "request", s)
    BY <1>1, <1>5, <2>4 DEF Fits, Answering, Staged
  <2>6. Granted(s)'
    BY <1>1, <1>3, <2>1, <2>2, <2>5 DEF Granted, Mine
  <2>7. Staged(s)'
    BY <1>1, <2>1, <2>2, <2>4 DEF Fits, Staged, Mine
  <2>8. Fits(s)'
    BY <1>2, <2>6, <2>7 DEF Fits, Asking, Answering
  <2>9. \A r \in Sessions \ {s} : Fits(r)'
    BY <1>1, <1>2, <2>1, <2>2, SameGrows, FitsKept
  <2> QED BY <2>3, <2>8, <2>9 DEF GrantInv
<1> QED BY <1>4, <1>5 DEF Receive

LEMMA RaiseFits ==
    ASSUME GrantInv, NEW s \in Sessions, Raise(s)
    PROVE  GrantInv'
<1>1. /\ TypeOK /\ Fits(s) /\ Closed(s)
      /\ UNCHANGED <<setup, callback, touched, stage, rtoken, atoken, tries, nonces,
                     issued, seen>>
  BY DEF GrantInv, Raise, appVars
<1>2. /\ call' \in [Sessions -> Requests \cup {None}]
      /\ reply' \in [Sessions -> Replies \cup {None}]
      /\ call'[s] = None /\ reply'[s] = None
      /\ \A r \in Sessions \ {s} : call'[r] = call[r] /\ reply'[r] = reply[r]
      /\ \A r \in Sessions : reply'[r] # None => call'[r] # None
  BY <1>1, ClosedTypes
<1>3. TypeOK'
  BY <1>1, <1>2 DEF TypeOK
<1>4. Fits(s)'
  BY <1>1, <1>2 DEF Fits, Staged, Asking, Answering, Granted, Mine
<1>5. \A r \in Sessions \ {s} : Fits(r)'
  BY <1>1, <1>2, SameGrows, FitsKept
<1> QED BY <1>3, <1>4, <1>5 DEF GrantInv

LEMMA FollowFits ==
    ASSUME GrantInv, NEW s \in Sessions, Follow(s)
    PROVE  GrantInv'
<1> DEFINE c  == call[s]
           cb == IF c.hops = 0 THEN callback[HashOf(s, c.kind)] ELSE c.callback
<1>1. TypeOK /\ Fits(s) /\ reply[s] # None /\ c # None
  BY ReplyTypes DEF GrantInv, Follow, Answered
<1>2. /\ c.kind \in Calls /\ c.token \in Nat \cup {None} /\ cb \in Callbacks
      /\ HopsAfter(c) \in Nat
  BY <1>1, CallTypes, SetupTypes DEF HopsAfter
<1>3. /\ SignAndSend(s, c.kind, c.token, cb, HopsAfter(c))
      /\ reply' = [reply EXCEPT ![s] = None]
      /\ UNCHANGED <<setup, callback, touched, stage, rtoken, atoken, tries, issued, seen>>
  BY DEF Follow
<1> HIDE DEF cb
<1>4. /\ call' \in [Sessions -> Requests \cup {None}] /\ nonces' \in Nat
      /\ call'[s] # None /\ call'[s].kind = c.kind /\ call'[s].token = c.token
      /\ \A r \in Sessions \ {s} : call'[r] = call[r]
  BY <1>1, <1>2, <1>3, SignAndSendTypes
<1>5. /\ reply' \in [Sessions -> Replies \cup {None}] /\ reply'[s] = None
      /\ \A r \in Sessions \ {s} : reply'[r] = reply[r]
  BY <1>1, <1>3 DEF TypeOK
<1>6. TypeOK'
  <2>1. \A r \in Sessions : reply'[r] # None => call'[r] # None
    BY <1>1, <1>4, <1>5 DEF TypeOK
  <2> QED BY <1>1, <1>3, <1>4, <1>5, <2>1 DEF TypeOK
<1>7. Fits(s)'
  BY <1>1, <1>3, <1>4, <1>5 DEF Fits, Staged, Asking, Answering, Granted, Mine
<1>8. \A r \in Sessions \ {s} : Fits(r)'
  BY <1>3, <1>4, <1>5, SameGrows, FitsKept
<1> QED BY <1>6, <1>7, <1>8 DEF GrantInv

LEMMA RestartFits ==
    ASSUME GrantInv, Restart
    PROVE  GrantInv'
<1>1. /\ TypeOK /\ \A s \in Sessions : Fits(s)
      /\ call' = [s \in Sessions |-> None] /\ reply' = [s \in Sessions |-> None]
      /\ callback' = [h \in Hashes |-> setup.hash[h].callback] /\ touched' = {}
      /\ UNCHANGED <<setup, stage, rtoken, atoken, tries, nonces, issued, seen>>
  BY DEF GrantInv, Restart
<1>2. callback' \in [Hashes -> Callbacks]
  BY <1>1, SetupTypes DEF Callbacks
<1>3. TypeOK'
  BY <1>1, <1>2 DEF TypeOK
<1>4. ASSUME NEW s \in Sessions PROVE Fits(s)'
  <2>1. Fits(s) /\ call'[s] = None /\ reply'[s] = None
    BY <1>1
  <2> QED BY <1>1, <2>1 DEF Fits, Staged, Asking, Answering, Granted, Mine
<1> QED BY <1>3, <1>4 DEF GrantInv

LEMMA InitFits == Init => GrantInv
<1> SUFFICES ASSUME Init PROVE GrantInv
  OBVIOUS
<1>1. PICK kept \in Stores :
        LET TokenOf(s) == CHOOSE i \in DOMAIN kept : kept[i] = s
            Kept(s)    == \E i \in DOMAIN kept : kept[i] = s
        IN /\ rtoken = [s \in Sessions |-> IF Kept(s) THEN Pair(TokenOf(s)) ELSE None]
           /\ stage = [s \in Sessions |-> IF Kept(s) THEN "pending" ELSE "new"]
           /\ issued = [i \in DOMAIN kept |->
                 [kind |-> "request", owner |-> kept[i], approved |-> FALSE,
                  spent |-> FALSE, from |-> None]]
  BY DEF Init
<1> DEFINE TokenOf(s) == CHOOSE i \in DOMAIN kept : kept[i] = s
           Kept(s)    == \E i \in DOMAIN kept : kept[i] = s
<1>2. /\ kept \in Seq(Sessions) /\ DOMAIN kept = 1..Len(kept) /\ Len(kept) \in Nat
      /\ \A i \in DOMAIN kept : kept[i] \in Sessions
  BY StoresFit, LenProperties, ElementOfSeq
<1>3. issued \in Seq(Issued)
  <2>1. \A i \in DOMAIN kept : [kind |-> "request", owner |-> kept[i], approved |-> FALSE,
                                spent |-> FALSE, from |-> None] \in Issued
    BY <1>2 DEF Issued, Calls
  <2>2. issued \in [1..Len(kept) -> Issued]
    BY <1>1, <1>2, <2>1
  <2> QED BY <1>2, <2>2, SeqDef
<1>4. ASSUME NEW s \in Sessions, Kept(s)
      PROVE  TokenOf(s) \in DOMAIN kept /\ kept[TokenOf(s)] = s /\ TokenOf(s) \in Nat
  <2>1. TokenOf(s) \in DOMAIN kept /\ kept[TokenOf(s)] = s
    BY <1>4
  <2> HIDE DEF TokenOf
  <2> QED BY <1>2, <2>1
<1>5. ASSUME NEW s \in Sessions
      PROVE  Staged(s) /\ rtoken[s] \in Object \cup {None} /\ stage[s] \in Stages
  <2>1. CASE Kept(s)
    <3>1. PICK t \in Nat : t = TokenOf(s) /\ t \in DOMAIN kept /\ kept[t] = s
      BY <1>4, <2>1
    <3>2. rtoken[s] = Pair(t) /\ stage[s] = "pending"
      BY <1>1, <2>1, <3>1
    <3>3. Mine(t, "request", s)
      BY <1>1, <3>1 DEF Mine
    <3>4. Pair(t) \in Object /\ Pair(t) # None /\ Pair(t).token = t
      BY PairTypes
    <3>5. atoken[s] = None
      BY DEF Init
    <3> QED BY <3>2, <3>3, <3>4, <3>5 DEF Staged, Stages
  <2>2. CASE ~Kept(s)
    <3>1. rtoken[s] = None /\ stage[s] = "new" /\ atoken[s] = None
      BY <1>1, <2>2 DEF Init
    <3> QED BY <3>1 DEF Staged, Stages
  <2> QED BY <2>1, <2>2
<1>6. rtoken \in [Sessions -> Object \cup {None}] /\ stage \in [Sessions -> Stages]
  <2>1. DOMAIN rtoken = Sessions /\ DOMAIN stage = Sessions
    BY <1>1
  <2>2. rtoken = [s \in Sessions |-> rtoken[s]] /\ stage = [s \in Sessions |-> stage[s]]
    BY <1>1
  <2> QED BY <1>5, <2>2
<1>7. TypeOK
  <2>1. /\ setup \in Setups /\ callback = [h \in Hashes |-> setup.hash[h].callback]
        /\ touched = {} /\ atoken = [s \in Sessions |-> None]
        /\ call = [s \in Sessions |-> None] /\ reply = [s \in Sessions |-> None]
        /\ tries = 0 /\ nonces = 0 /\ seen = {}
    BY DEF Init
  <2>2. callback \in [Hashes -> Callbacks]
    BY <2>1, SetupsFit DEF Setup, Hash, Callbacks
  <2> QED BY <1>3, <1>6, <2>1, <2>2, BoundsFit DEF TypeOK
<1>8. ASSUME NEW s \in Sessions PROVE Asking(s) /\ Answering(s) /\ Granted(s)
  <2>1. call[s] = None /\ reply[s] = None /\ atoken[s] = None
    BY DEF Init
  <2> QED BY <2>1 DEF Asking, Answering, Granted
<1> QED BY <1>5, <1>7, <1>8 DEF GrantInv, Fits

LEMMA StutterFits ==
    ASSUME GrantInv, UNCHANGED vars
    PROVE  GrantInv'
<1>1. TypeOK'
  BY DEF GrantInv, TypeOK, vars, appVars
<1>2. \A s \in Sessions : Fits(s)'
  BY SameGrows, FitsKept DEF vars, appVars
<1> QED BY <1>1, <1>2 DEF GrantInv

LEMMA NextFits ==
    ASSUME GrantInv, [Next]_vars
    PROVE  GrantInv'
<1>1. ASSUME NEW s \in Sessions,
             \/ GetRequestToken(s) \/ Approve(s) \/ GetAccessToken(s)
             \/ Accept(s) \/ Refuse(s) \/ Redirect(s) \/ Fail(s)
             \/ Resend(s) \/ Receive(s) \/ Follow(s) \/ Raise(s)
      PROVE  GrantInv'
  BY <1>1, GetRequestTokenFits, ApproveFits, GetAccessTokenFits, AcceptFits,
     NothingIssuedFits, ResendFits, ReceiveFits, FollowFits, RaiseFits
<1> QED BY <1>1, RestartFits, StutterFits DEF Next
-----------------------------------------------------------------------------
THEOREM GrantInvariance == Spec => []GrantInv
<1>1. GrantInv /\ [Next]_vars => GrantInv'
  BY NextFits
<1> QED BY InitFits, <1>1, PTL DEF Spec

(* The variables keep their types, whatever the provider answers.          *)
THEOREM TypeCorrect == Spec => []TypeOK
<1>1. GrantInv => TypeOK
  BY DEF GrantInv
<1> QED BY GrantInvariance, <1>1, PTL

(* However requests are lost, answered without a token, redirected, resent *)
(* or cut off by a restart, an access token a session holds was issued to  *)
(* it, for its own request token, which its user had approved.             *)
THEOREM GrantsAreOwn == Spec => []GrantIsOwn
<1>1. GrantInv => GrantIsOwn
  BY DEF GrantInv, Fits, Granted, GrantIsOwn
<1> QED BY GrantInvariance, <1>1, PTL
-----------------------------------------------------------------------------
(* Nonces.                                                                 *)
NonceInv == NonceFits /\ ReplayExplained

(* Calls that end, and calls that keep their nonce.                        *)
LEMMA NonceKept ==
    ASSUME NonceInv, UNCHANGED <<setup, nonces, seen>>,
           \A s \in Sessions :
             \/ call'[s] = None
             \/ call'[s] = call[s] /\ reply'[s] = reply[s]
             \/ /\ call[s] # None /\ call'[s].resent
                /\ call'[s].kind = call[s].kind /\ call'[s].nonce = call[s].nonce
    PROVE  NonceInv'
<1>1. ASSUME NEW s \in Sessions, call'[s] # None
      PROVE  /\ call[s] # None /\ call'[s].kind = call[s].kind
             /\ call'[s].nonce = call[s].nonce /\ Generated(s)' = Generated(s)
  BY <1>1 DEF Generated, HashOf
<1>2. NonceFits'
  BY <1>1 DEF NonceInv, NonceFits, Generated, HashOf
<1>3. ReplayExplained'
  BY <1>1 DEF NonceInv, ReplayExplained, Open, HashOf
<1> QED BY <1>2, <1>3 DEF NonceInv

(* A request is signed with the caller's nonce or with a new one.          *)
LEMMA SentNonce ==
    ASSUME GrantInv, NonceInv, NEW s \in Sessions, NEW kind \in Calls,
           NEW token \in Nat \cup {None}, NEW cb \in Callbacks, NEW hops \in Nat,
           SignAndSend(s, kind, token, cb, hops), UNCHANGED <<setup, seen>>,
           \A r \in Sessions \ {s} : reply'[r] = reply[r]
    PROVE  NonceInv'
<1> DEFINE h == HashOf(s, kind)
<1>1. TypeOK /\ nonces \in Nat /\ seen \subseteq Nonces
  BY DEF GrantInv, TypeOK
<1>2. /\ call'[s] # None /\ call'[s].kind = kind /\ call'[s].nonce = NonceFor(h)
      /\ \A r \in Sessions \ {s} : call'[r] = call[r]
  BY <1>1, SignAndSendTypes
<1>3. nonces' = IF setup.hash[h].nonce THEN nonces ELSE nonces + 1
  BY DEF SignAndSend
<1>4. /\ Generated(s)' = ~setup.hash[h].nonce
      /\ \A r \in Sessions \ {s} : Generated(r)' = Generated(r)
  BY <1>2 DEF Generated, HashOf
<1>5. nonces' \in Nat /\ nonces <= nonces'
  BY <1>1, <1>3
<1>6. ASSUME ~setup.hash[h].nonce
      PROVE  call'[s].nonce = <<None, nonces + 1>> /\ nonces' = nonces + 1
  BY <1>2, <1>3, <1>6 DEF NonceFor
<1>7. ASSUME NEW r \in Sessions \ {s}, Generated(r), ~setup.hash[h].nonce
      PROVE  call[r].nonce # call'[s].nonce
  <2>1. PICK n \in 1..nonces : call[r].nonce = <<None, n>>
    BY <1>7 DEF NonceInv, NonceFits
  <2>2. n # nonces + 1
    BY <1>1
  <2> QED BY <1>6, <1>7, <2>1, <2>2
<1>8. \A nonce \in seen' : nonce[2] <= nonces'
  <2>1. \A nonce \in seen : nonce[2] \in Nat /\ nonce[2] <= nonces
    BY <1>1 DEF Nonces, NonceInv, NonceFits
  <2> QED BY <1>1, <1>5, <2>1
<1>9. ASSUME NEW r \in Sessions, Generated(r)'
      PROVE  \E n \in 1..nonces' : call'[r].nonce = <<None, n>>
  <2>1. CASE r = s
    <3>1. Generated(s)'
      BY <1>9, <2>1
    <3>2. ~setup.hash[h].nonce
      BY <1>4, <3>1
    <3>3. nonces' = nonces + 1 /\ call'[s].nonce = <<None, nonces + 1>>
      BY <1>6, <3>2
    <3>4. nonces + 1 \in 1..nonces'
      BY <1>1, <3>3
    <3> QED BY <2>1, <3>3, <3>4
  <2>2. CASE r # s
    <3>1. PICK n \in 1..nonces : call[r].nonce = <<None, n>>
      BY <1>4, <1>9, <2>2 DEF NonceInv, NonceFits
    <3>2. n \in 1..nonces'
      BY <1>1, <1>5
    <3> QED BY <1>2, <2>2, <3>1, <3>2
  <2> QED BY <2>1, <2>2
<1>10. ASSUME NEW r \in Sessions, call'[r] # None, ~Generated(r)'
       PROVE  call'[r].nonce = <<HashOf(r, call'[r].kind), 0>>
  BY <1>2, <1>4, <1>10 DEF NonceInv, NonceFits, NonceFor
<1>11. ASSUME NEW r \in Sessions, NEW t \in Sessions, r # t, Generated(r)', Generated(t)'
       PROVE  call'[r].nonce # call'[t].nonce
  <2>1. CASE r = s
    <3>1. ~setup.hash[h].nonce /\ Generated(t) /\ call'[t] = call[t] /\ t \in Sessions \ {s}
      BY <1>2, <1>4, <1>11, <2>1
    <3> QED BY <1>7, <2>1, <3>1
  <2>2. CASE t = s
    <3>1. ~setup.hash[h].nonce /\ Generated(r) /\ call'[r] = call[r] /\ r \in Sessions \ {s}
      BY <1>2, <1>4, <1>11, <2>2
    <3> QED BY <1>7, <2>2, <3>1
  <2>3. CASE r # s /\ t # s
    <3>1. /\ Generated(r) /\ Generated(t)
          /\ call'[r] = call[r] /\ call'[t] = call[t]
      BY <1>2, <1>4, <1>11, <2>3
    <3> QED BY <1>11, <3>1 DEF NonceInv, NonceFits
  <2> QED BY <2>1, <2>2, <2>3
<1>12. NonceFits'
  BY <1>8, <1>9, <1>10, <1>11 DEF NonceFits, HashOf
<1>13. ReplayExplained'
  <2> SUFFICES ASSUME NEW r \in Sessions, Open(r)', call'[r].nonce \in seen
               PROVE  \/ setup.hash[HashOf(r, call'[r].kind)].nonce
                      \/ call'[r].resent
    BY DEF ReplayExplained, HashOf
  <2>1. CASE r = s
    <3>1. <<None, nonces + 1>> \notin seen
      <4>1. ~(nonces + 1 <= nonces)
        BY <1>1
      <4> QED BY <4>1 DEF NonceInv, NonceFits
    <3> QED BY <1>2, <1>6, <2>1, <3>1
  <2>2. CASE r # s
    BY <1>2, <2>2 DEF NonceInv, ReplayExplained, Open
  <2> QED BY <2>1, <2>2
<1> QED BY <1>12, <1>13 DEF NonceInv

(* The provider has seen the nonce of a request it answers.                *)
LEMMA AnsweredNonce ==
    ASSUME GrantInv, NonceInv, NEW s \in Sessions, Open(s), NEW answer \in Answers,
           NEW t \in Nat \cup {None}, Replied(s, answer, t),
           seen' \subseteq seen \cup {call[s].nonce}
    PROVE  NonceInv'
<1> DEFINE new == [answer |-> answer, token |-> t]
<1>1. /\ TypeOK /\ call[s] # None /\ nonces \in Nat
      /\ UNCHANGED <<setup, nonces, call>> /\ reply' = [reply EXCEPT ![s] = new]
  BY DEF GrantInv, TypeOK, Open, Replied, appVars
<1>2. new # None
  <2>1. new \in Replies
    BY DEF Replies
  <2> HIDE DEF new
  <2> QED BY <2>1, NoneIsNil
<1> HIDE DEF new
<1>3. reply'[s] # None /\ \A r \in Sessions \ {s} : reply'[r] = reply[r]
  BY <1>1, <1>2 DEF TypeOK
<1>4. \A r \in Sessions : Generated(r)' = Generated(r)
  BY <1>1 DEF Generated, HashOf
<1>5. call[s].nonce[2] <= nonces
  <2>1. CASE Generated(s)
    <3>1. PICK n \in 1..nonces : call[s].nonce = <<None, n>>
      BY <2>1 DEF NonceInv, NonceFits
    <3> QED BY <1>1, <3>1
  <2>2. CASE ~Generated(s)
    <3>1. call[s].nonce = <<HashOf(s, call[s].kind), 0>>
      BY <1>1, <2>2 DEF NonceInv, NonceFits
    <3> QED BY <1>1, <3>1
  <2> QED BY <2>1, <2>2
<1>6. NonceFits'
  BY <1>1, <1>4, <1>5 DEF NonceInv, NonceFits, HashOf
<1>7. ReplayExplained'
  <2> SUFFICES ASSUME NEW r \in Sessions, Open(r)', call[r].nonce \in seen'
               PROVE  \/ setup.hash[HashOf(r, call[r].kind)].nonce
                      \/ call[r].resent
    BY <1>1 DEF ReplayExplained, HashOf
  <2>1. r # s /\ Open(r)
    BY <1>1, <1>3 DEF Open
  <2>2. CASE call[r].nonce \in seen
    BY <2>1, <2>2 DEF NonceInv, ReplayExplained
  <2>3. CASE call[r].nonce = call[s].nonce
    <3>1. CASE ~Generated(r)
      BY <2>1, <3>1 DEF Open, Generated
    <3>2. CASE Generated(r)
      <4>1. ~Generated(s)
        BY <2>1, <2>3, <3>2 DEF NonceInv, NonceFits
      <4>2. call[s].nonce[2] = 0
        BY <1>1, <4>1 DEF NonceInv, NonceFits
      <4>3. PICK n \in 1..nonces : call[r].nonce = <<None, n>>
        BY <3>2 DEF NonceInv, NonceFits
      <4>4. call[r].nonce[2] = n /\ n # 0
        BY <1>1, <4>3
      <4> QED BY <2>3, <4>2, <4>4
    <3> QED BY <3>1, <3>2
  <2> QED BY <2>2, <2>3
<1> QED BY <1>6, <1>7 DEF NonceInv

LEMMA InitNonce == Init => NonceInv
BY DEF Init, NonceInv, NonceFits, ReplayExplained, Open, Generated

LEMMA GetRequestTokenNonce ==
    ASSUME GrantInv, NonceInv, NEW s \in Sessions, GetRequestToken(s)
    PROVE  NonceInv'
<1> DEFINE h == HashOf(s, "request")
<1>1. TypeOK
  BY DEF GrantInv
<1>2. WithCallback(h) \in Callbacks
  BY <1>1, SetupTypes DEF WithCallback, Callbacks, Calls
<1>3. /\ SignAndSend(s, "request", None, WithCallback(h), 0)
      /\ UNCHANGED <<setup, reply, seen>>
  BY DEF GetRequestToken
<1> HIDE DEF h
<1> QED BY <1>2, <1>3, SentNonce DEF Calls

LEMMA GetAccessTokenNonce ==
    ASSUME GrantInv, NonceInv, NEW s \in Sessions, GetAccessToken(s)
    PROVE  NonceInv'
<1> DEFINE cb == callback[HashOf(s, "access")]
<1>1. TypeOK /\ Fits(s) /\ stage[s] \in {"pending", "approved"}
  BY DEF GrantInv, GetAccessToken
<1>2. cb \in Callbacks /\ rtoken[s].token \in Nat \cup {None}
  BY <1>1, SetupTypes, TokenTypes DEF Fits, Staged, Calls
<1>3. /\ SignAndSend(s, "access", rtoken[s].token, cb, 0)
      /\ UNCHANGED <<setup, reply, seen>>
  BY DEF GetAccessToken
<1> HIDE DEF cb
<1> QED BY <1>2, <1>3, SentNonce DEF Calls

LEMMA FollowNonce ==
    ASSUME GrantInv, NonceInv, NEW s \in Sessions, Follow(s)
    PROVE  NonceInv'
<1> DEFINE c  == call[s]
           cb == IF c.hops = 0 THEN callback[HashOf(s, c.kind)] ELSE c.callback
<1>1. TypeOK /\ c # None
  BY ReplyTypes DEF GrantInv, Follow, Answered
<1>2. /\ c.kind \in Calls /\ c.token \in Nat \cup {None} /\ cb \in Callbacks
      /\ HopsAfter(c) \in Nat
  BY <1>1, CallTypes, SetupTypes DEF HopsAfter
<1>3. /\ SignAndSend(s, c.kind, c.token, cb, HopsAfter(c))
      /\ reply' = [reply EXCEPT ![s] = None] /\ UNCHANGED <<setup, seen>>
  BY DEF Follow
<1>4. \A r \in Sessions \ {s} : reply'[r] = reply[r]
  BY <1>1, <1>3 DEF TypeOK
<1> HIDE DEF cb
<1> QED BY <1>2, <1>3, <1>4, SentNonce

LEMMA ProviderNonce ==
    ASSUME GrantInv, NonceInv, NEW s \in Sessions, Provider(s)
    PROVE  NonceInv'
<1>1. Open(s) /\ seen' \subseteq seen \cup {call[s].nonce}
  BY DEF Provider, Accept, Issue, Refuse, Redirect, Fail
<1>2. CASE Accept(s)
  <2>1. PICK n : n = Len(issued) + 1
    OBVIOUS
  <2>2. n \in Nat
    BY <1>2, <2>1, IssueFits DEF Accept
  <2>3. CASE Replied(s, "token", n)
    BY <1>1, <2>2, <2>3, AnsweredNonce DEF Answers
  <2>4. CASE \E answer \in {"tokenless", "lost"} : Replied(s, answer, None)
    BY <1>1, <2>4, AnsweredNonce DEF Answers
  <2> QED BY <1>2, <2>1, <2>3, <2>4 DEF Accept
<1>3. CASE Refuse(s) \/ Redirect(s) \/ Fail(s)
  <2>1. PICK answer \in Answers : Replied(s, answer, None)
    BY <1>3 DEF Refuse, Redirect, Fail, Answers
  <2> QED BY <1>1, <2>1, AnsweredNonce
<1> QED BY <1>2, <1>3 DEF Provider

LEMMA ResendNonce ==
    ASSUME GrantInv, NonceInv, NEW s \in Sessions, Resend(s)
    PROVE  NonceInv'
<1>1. /\ TypeOK /\ call[s] # None /\ reply' = [reply EXCEPT ![s] = None]
      /\ UNCHANGED <<setup, nonces, seen>>
  BY ReplyTypes DEF GrantInv, Resend, Answered, appVars
<1>2. PICK c \in Requests : c = call[s]
  BY <1>1 DEF TypeOK
<1>3. PICK e : /\ e = [c EXCEPT !.resent = TRUE] /\ e.resent
               /\ e.kind = c.kind /\ e.nonce = c.nonce
  <2>1. /\ [c EXCEPT !.resent = TRUE].resent
        /\ [c EXCEPT !.resent = TRUE].kind = c.kind
        /\ [c EXCEPT !.resent = TRUE].nonce = c.nonce
    BY DEF Requests
  <2> QED BY <2>1
<1>4. call' = [call EXCEPT ![s] = e]
  <2>1. call' = [call EXCEPT ![s] = [call[s] EXCEPT !.resent = TRUE]]
    BY DEF Resend
  <2> QED BY <1>2, <1>3, <2>1
<1>5. /\ call'[s] = e
      /\ \A r \in Sessions \ {s} : call'[r] = call[r] /\ reply'[r] = reply[r]
  BY <1>1, <1>4 DEF TypeOK
<1> QED BY <1>1, <1>2, <1>3, <1>5, NonceKept

(* What ends a call, or leaves it as it is.                                *)
LEMMA OtherNonce ==
    ASSUME GrantInv, NonceInv,
           \/ \E s \in Sessions : Approve(s) \/ Receive(s) \/ Raise(s)
           \/ Restart \/ UNCHANGED vars
    PROVE  NonceInv'
<1>1. TypeOK
  BY DEF GrantInv
<1>2. UNCHANGED <<setup, nonces, seen>>
  BY DEF Approve, Receive, Raise, Restart, vars, appVars
<1>3. \A r \in Sessions : call'[r] = None \/ (call'[r] = call[r] /\ reply'[r] = reply[r])
  <2>1. CASE \E s \in Sessions : Receive(s) \/ Raise(s)
    <3>1. PICK s \in Sessions : Closed(s)
      BY <2>1 DEF Receive, Raise
    <3> QED BY <1>1, <3>1, ClosedTypes
  <2>2. CASE Restart
    BY <2>2 DEF Restart
  <2>3. CASE (\E s \in Sessions : Approve(s)) \/ UNCHANGED vars
    BY <2>3 DEF Approve, vars
  <2> QED BY <2>1, <2>2, <2>3
<1> QED BY <1>2, <1>3, NonceKept

(* Whatever is lost, redirected, resent or tried again, the provider gets  *)
(* a nonce twice only where the caller put it into the options or Net::HTTP*)
(* sent an idempotent request again: none of the library's own is reused.  *)
THEOREM ReplaysExplained == Spec => []ReplayExplained
<1>1. GrantInv /\ NonceInv /\ [Next]_vars => NonceInv'
  <2> SUFFICES ASSUME GrantInv, NonceInv, [Next]_vars PROVE NonceInv'
    OBVIOUS
  <2>1. ASSUME NEW s \in Sessions,
               \/ GetRequestToken(s) \/ GetAccessToken(s) \/ Follow(s)
               \/ Provider(s) \/ Resend(s)
        PROVE  NonceInv'
    BY <2>1, GetRequestTokenNonce, GetAccessTokenNonce, FollowNonce, ProviderNonce,
       ResendNonce
  <2>2. CASE \/ \E s \in Sessions : Approve(s) \/ Receive(s) \/ Raise(s)
             \/ Restart \/ UNCHANGED vars
    BY <2>2, OtherNonce
  <2> QED BY <2>1, <2>2 DEF Next, Provider
<1>2. NonceInv => ReplayExplained
  BY DEF NonceInv
<1> QED BY InitNonce, GrantInvariance, <1>1, <1>2, PTL DEF Spec
-----------------------------------------------------------------------------
(* Callbacks.                                                              *)
CallbackInv == CallbackFits /\ CallbackAsAsked

(* A callback a call may go out with whose options are hash h.             *)
Asked(cb, kind, h) ==
    \/ /\ cb = setup.hash[h].callback
       /\ kind = "request" => setup.hash[h].callback # None \/ setup.hash[h].exclude
    \/ /\ cb = Oob /\ setup.hash[h].callback = None
       /\ IF kind = "request" THEN ~setup.hash[h].exclude ELSE h \in touched

LEMMA AskedOfCalls ==
    ASSUME CallbackInv, NEW s \in Sessions, call[s] # None
    PROVE  Asked(call[s].callback, call[s].kind, HashOf(s, call[s].kind))
BY DEF CallbackInv, CallbackAsAsked, Asked

(* What a hash holds may be sent, by calls other than get_request_token,   *)
(* and by it once it has looked after the hash.                            *)
LEMMA AskedOfHashes ==
    ASSUME CallbackFits, NEW h \in Hashes, NEW kind \in Calls,
           kind = "request" => setup.hash[h].exclude \/ h \in touched
    PROVE  Asked(callback[h], kind, h)
BY SetupsFit DEF CallbackFits, Asked, Oob, Calls

(* Calls that end, and calls that keep their callback.                     *)
LEMMA CallbackKept ==
    ASSUME CallbackInv, UNCHANGED <<setup, callback, touched>>,
           \A s \in Sessions :
             \/ call'[s] = None
             \/ /\ call[s] # None /\ call'[s].kind = call[s].kind
                /\ call'[s].callback = call[s].callback
    PROVE  CallbackInv'
<1>1. CallbackFits'
  BY DEF CallbackInv, CallbackFits, HashOf
<1>2. CallbackAsAsked'
  BY DEF CallbackInv, CallbackAsAsked, HashOf
<1> QED BY <1>1, <1>2 DEF CallbackInv

(* A request is signed and sent; hashes and those touched were seen to.    *)
LEMMA SentCallback ==
    ASSUME TypeOK, CallbackInv, NEW s \in Sessions, NEW kind \in Calls,
           NEW token \in Nat \cup {None}, NEW cb \in Callbacks, NEW hops \in Nat,
           SignAndSend(s, kind, token, cb, hops), UNCHANGED setup,
           touched \subseteq touched', Asked(cb, kind, HashOf(s, kind))',
           \A h \in Hashes :
             IF h \in touched' THEN /\ ~setup.hash[h].exclude
                                    /\ callback'[h] = IF setup.hash[h].callback = None THEN Oob
                                                      ELSE setup.hash[h].callback
             ELSE callback'[h] = setup.hash[h].callback,
           kind = "request" => \/ setup.hash[HashOf(s, kind)].exclude
                               \/ HashOf(s, kind) \in touched'
    PROVE  CallbackInv'
<1>1. /\ call'[s] # None /\ call'[s].kind = kind /\ call'[s].callback = cb
      /\ \A r \in Sessions \ {s} : call'[r] = call[r]
  BY SignAndSendTypes
<1>2. \A r \in Sessions : call'[r] # None /\ call'[r].kind = "request" =>
        setup.hash[HashOf(r, "request")].exclude \/ HashOf(r, "request") \in touched'
  BY <1>1 DEF CallbackInv, CallbackFits
<1>3. CallbackFits'
  BY <1>2 DEF CallbackFits, HashOf
<1>4. ASSUME NEW r \in Sessions, NEW c, c = call'[r], c # None
      PROVE  Asked(c.callback, c.kind, HashOf(r, c.kind))'
  <2>1. CASE r = s
    <3>1. c.kind = kind /\ c.callback = cb
      BY <1>1, <1>4, <2>1
    <3> QED BY <2>1, <3>1
  <2>2. CASE r # s
    <3>1. c = call[r]
      BY <1>1, <1>4, <2>2
    <3>2. Asked(c.callback, c.kind, HashOf(r, c.kind))
      BY <1>4, <3>1, AskedOfCalls
    <3> QED BY <3>2 DEF Asked, HashOf
  <2> QED BY <2>1, <2>2
<1>5. CallbackAsAsked'
  <2> SUFFICES ASSUME NEW r \in Sessions, NEW c, c = call'[r], c # None
               PROVE  LET h     == setup.uses[<<r, c.kind>>]
                          given == setup.hash[h] IN
                      \/ c.callback = given.callback
                         /\ (c.kind = "request" => given.callback # None \/ given.exclude)
                      \/ c.callback = Oob /\ given.callback = None
                         /\ IF c.kind = "request" THEN ~given.exclude ELSE h \in touched'
    BY DEF CallbackAsAsked, HashOf
  <2>1. Asked(c.callback, c.kind, HashOf(r, c.kind))'
    BY <1>4
  <2>2. PICK h : h = setup.uses[<<r, c.kind>>]
    OBVIOUS
  <2>3. Asked(c.callback, c.kind, h)'
    BY <2>1, <2>2 DEF Asked, HashOf
  <2> QED BY <2>2, <2>3 DEF Asked
<1> QED BY <1>3, <1>5 DEF CallbackInv

LEMMA InitCallback == Init => CallbackInv
BY DEF Init, CallbackInv, CallbackFits, CallbackAsAsked

LEMMA GetRequestTokenCallback ==
    ASSUME TypeOK, CallbackInv, NEW s \in Sessions, GetRequestToken(s)
    PROVE  CallbackInv'
<1>1. PICK h \in Hashes : h = HashOf(s, "request")
  BY SetupTypes DEF Calls
<1>2. PICK cb \in Callbacks : cb = WithCallback(h)
  BY SetupTypes DEF WithCallback, Callbacks
<1>3. /\ SignAndSend(s, "request", None, cb, 0) /\ UNCHANGED setup
      /\ callback' = [callback EXCEPT ![h] = cb] /\ callback \in [Hashes -> Callbacks]
      /\ touched' = IF setup.hash[h].exclude THEN touched ELSE touched \cup {h}
  BY <1>1, <1>2 DEF GetRequestToken, TypeOK
<1>4. cb = IF setup.hash[h].exclude \/ callback[h] # None THEN callback[h] ELSE Oob
  BY <1>2 DEF WithCallback
<1>5. \A g \in Hashes :
        IF g \in touched THEN /\ ~setup.hash[g].exclude
                              /\ callback[g] = IF setup.hash[g].callback = None THEN Oob
                                               ELSE setup.hash[g].callback
        ELSE callback[g] = setup.hash[g].callback
  BY DEF CallbackInv, CallbackFits
<1>6. ASSUME NEW g \in Hashes
      PROVE  IF g \in touched' THEN /\ ~setup.hash[g].exclude
                                    /\ callback'[g] = IF setup.hash[g].callback = None THEN Oob
                                                      ELSE setup.hash[g].callback
             ELSE callback'[g] = setup.hash[g].callback
  <2>1. CASE g = h
    BY <1>3, <1>4, <1>5, <2>1
  <2>2. CASE g # h
    BY <1>3, <1>5, <2>2
  <2> QED BY <2>1, <2>2
<1>7. Asked(cb, "request", h)'
  BY <1>3, <1>4, <1>5, SetupsFit DEF Asked
<1>8. setup.hash[h].exclude \/ h \in touched'
  BY <1>3
<1>9. Asked(cb, "request", HashOf(s, "request"))'
  BY <1>1, <1>3, <1>7 DEF Asked, HashOf
<1> QED BY <1>1, <1>3, <1>6, <1>8, <1>9, SentCallback DEF Calls

(* A request that takes its callback from its hash as it is.               *)
LEMMA ReadCallback ==
    ASSUME TypeOK, CallbackInv, NEW s \in Sessions, NEW kind \in Calls,
           NEW token \in Nat \cup {None}, NEW cb \in Callbacks, NEW hops \in Nat,
           SignAndSend(s, kind, token, cb, hops), UNCHANGED <<setup, callback, touched>>,
           Asked(cb, kind, HashOf(s, kind)),
           kind = "request" => \/ setup.hash[HashOf(s, kind)].exclude
                               \/ HashOf(s, kind) \in touched
    PROVE  CallbackInv'
<1>1. Asked(cb, kind, HashOf(s, kind))'
  BY DEF Asked, HashOf
<1>2. \A h \in Hashes :
        IF h \in touched THEN /\ ~setup.hash[h].exclude
                              /\ callback[h] = IF setup.hash[h].callback = None THEN Oob
                                               ELSE setup.hash[h].callback
        ELSE callback[h] = setup.hash[h].callback
  BY DEF CallbackInv, CallbackFits
<1> QED BY <1>1, <1>2, SentCallback

LEMMA GetAccessTokenCallback ==
    ASSUME GrantInv, CallbackInv, NEW s \in Sessions, GetAccessToken(s)
    PROVE  CallbackInv'
<1>1. TypeOK /\ Fits(s) /\ stage[s] \in {"pending", "approved"}
  BY DEF GrantInv, GetAccessToken
<1>2. PICK h \in Hashes : h = HashOf(s, "access")
  BY <1>1, SetupTypes DEF Calls
<1>3. callback[h] \in Callbacks /\ rtoken[s].token \in Nat \cup {None}
  BY <1>1, SetupTypes, TokenTypes DEF Fits, Staged
<1>4. /\ SignAndSend(s, "access", rtoken[s].token, callback[h], 0)
      /\ UNCHANGED <<setup, callback, touched>>
  BY <1>2 DEF GetAccessToken
<1>5. Asked(callback[h], "access", HashOf(s, "access"))
  BY <1>2, AskedOfHashes DEF CallbackInv, Calls
<1> QED BY <1>1, <1>3, <1>4, <1>5, ReadCallback DEF Calls

LEMMA FollowCallback ==
    ASSUME TypeOK, CallbackInv, NEW s \in Sessions, Follow(s)
    PROVE  CallbackInv'
<1> DEFINE c  == call[s]
           h  == HashOf(s, c.kind)
           cb == IF c.hops = 0 THEN callback[h] ELSE c.callback
<1>1. c # None /\ h \in Hashes
  BY ReplyTypes, CallTypes, SetupTypes DEF Follow, Answered
<1>2. /\ c.kind \in Calls /\ c.token \in Nat \cup {None} /\ cb \in Callbacks
      /\ HopsAfter(c) \in Nat
  BY <1>1, CallTypes, SetupTypes DEF HopsAfter
<1>3. /\ SignAndSend(s, c.kind, c.token, cb, HopsAfter(c))
      /\ UNCHANGED <<setup, callback, touched>>
  BY DEF Follow
<1>4. c.kind = "request" => setup.hash[h].exclude \/ h \in touched
  BY <1>1 DEF CallbackInv, CallbackFits
<1>5. Asked(cb, c.kind, h)
  <2>1. Asked(callback[h], c.kind, h)
    BY <1>1, <1>2, <1>4, AskedOfHashes DEF CallbackInv
  <2>2. Asked(c.callback, c.kind, h)
    BY <1>1, AskedOfCalls
  <2> QED BY <2>1, <2>2
<1> HIDE DEF cb
<1> QED BY <1>2, <1>3, <1>4, <1>5, ReadCallback

LEMMA OtherCallback ==
    ASSUME TypeOK, CallbackInv,
           \/ \E s \in Sessions : \/ Approve(s) \/ Provider(s) \/ Resend(s)
                                 \/ Receive(s) \/ Raise(s)
           \/ UNCHANGED vars
    PROVE  CallbackInv'
<1>1. UNCHANGED <<setup, callback, touched>>
  BY DEF Approve, Provider, Accept, Refuse, Redirect, Fail, Replied, Resend, Receive,
         Raise, vars, appVars
<1>2. ASSUME NEW r \in Sessions
      PROVE  \/ call'[r] = None
             \/ /\ call[r] # None /\ call'[r].kind = call[r].kind
                /\ call'[r].callback = call[r].callback
  <2>1. CASE \E s \in Sessions : Receive(s) \/ Raise(s)
    <3>1. PICK s \in Sessions : Closed(s)
      BY <2>1 DEF Receive, Raise
    <3> QED BY <3>1, ClosedTypes
  <2>2. CASE \E s \in Sessions : Resend(s)
    <3>1. PICK s \in Sessions : Resend(s)
      BY <2>2
    <3>2. call[s] # None
      BY <3>1, ReplyTypes DEF Resend, Answered
    <3>3. PICK c \in Requests : c = call[s]
      BY <3>2 DEF TypeOK
    <3>4. PICK e : e = [c EXCEPT !.resent = TRUE] /\ e.kind = c.kind /\ e.callback = c.callback
      <4>1. /\ [c EXCEPT !.resent = TRUE].kind = c.kind
            /\ [c EXCEPT !.resent = TRUE].callback = c.callback
        BY DEF Requests
      <4> QED BY <4>1
    <3>5. call' = [call EXCEPT ![s] = e]
      <4>1. call' = [call EXCEPT ![s] = [call[s] EXCEPT !.resent = TRUE]]
        BY <3>1 DEF Resend
      <4> QED BY <3>3, <3>4, <4>1
    <3>6. call'[s] = e /\ \A t \in Sessions \ {s} : call'[t] = call[t]
      BY <3>5 DEF TypeOK
    <3> QED BY <3>2, <3>3, <3>4, <3>6
  <2>3. CASE (\E s \in Sessions : Approve(s) \/ Provider(s)) \/ UNCHANGED vars
    BY <2>3 DEF Approve, Provider, Accept, Refuse, Redirect, Fail, Replied, vars
  <2> QED BY <2>1, <2>2, <2>3
<1> QED BY <1>1, <1>2, CallbackKept

LEMMA RestartCallback ==
    ASSUME TypeOK, CallbackInv, Restart
    PROVE  CallbackInv'
<1>1. /\ call' = [s \in Sessions |-> None] /\ touched' = {} /\ setup' = setup
      /\ callback' = [h \in Hashes |-> setup.hash[h].callback]
  BY DEF Restart
<1> QED BY <1>1 DEF CallbackInv, CallbackFits, CallbackAsAsked

(* However sessions share hashes, and calls are redirected, tried again or *)
(* cut off, a request has the callback its hash was given, "oob" for a     *)
(* request token that was given none, and nothing another call left        *)
(* behind, unless it was get_request_token with the very same hash.        *)
THEOREM CallbacksAsAsked == Spec => []CallbackAsAsked
<1>1. GrantInv /\ CallbackInv /\ [Next]_vars => CallbackInv'
  <2> SUFFICES ASSUME GrantInv, CallbackInv, [Next]_vars PROVE CallbackInv'
    OBVIOUS
  <2>1. TypeOK
    BY DEF GrantInv
  <2>2. ASSUME NEW s \in Sessions, GetRequestToken(s) \/ GetAccessToken(s) \/ Follow(s)
        PROVE  CallbackInv'
    BY <2>1, <2>2, GetRequestTokenCallback, GetAccessTokenCallback, FollowCallback
  <2>3. CASE \/ \E s \in Sessions : \/ Approve(s) \/ Provider(s) \/ Resend(s)
                                    \/ Receive(s) \/ Raise(s)
             \/ UNCHANGED vars
    BY <2>1, <2>3, OtherCallback
  <2>4. CASE Restart
    BY <2>1, <2>4, RestartCallback
  <2> QED BY <2>2, <2>3, <2>4 DEF Next, Provider
<1>2. CallbackInv => CallbackAsAsked
  BY DEF CallbackInv
<1> QED BY InitCallback, GrantInvariance, <1>1, <1>2, PTL DEF Spec
==============================================================================
