------------------------- MODULE Verification_proofs -------------------------
(***************************************************************************)
(* Lemmas on parameters and signatures: when two lists of values are equal *)
(* as the base string sees them, and what a server finds in a message.     *)
(***************************************************************************)
EXTENDS Verification, TLAPS, FiniteSetTheorems, SequenceTheorems

Sig    == "oauth_signature"
Nonce  == "oauth_nonce"
Method == "oauth_signature_method"

Apart(params) == \A n \in Name \ AppName : params[n] = <<>>

LEMMA AppNames ==
    /\ AppName \subseteq Name
    /\ \A n \in AppName : n \notin OAuthName /\ n # Garbled
BY NamesDiffer DEF Name

LEMMA OAuthNames ==
    /\ Sig \in Name /\ Nonce \in Name /\ Method \in Name /\ Garbled \in Name
    /\ "oauth_consumer_key" \in Name /\ "oauth_body_hash" \in Name
    /\ Sig \notin AppName /\ Nonce \notin AppName /\ Method \notin AppName
    /\ Garbled \notin AppName
    /\ Sig # Nonce /\ Sig # Method /\ Sig # Garbled /\ Nonce # Method /\ Nonce # Garbled
BY NamesDiffer DEF Name, OAuthName, Garbled, Sig, Nonce, Method

(* A list of any values.                                                   *)
IsList(s) == s \in Seq(Range(s))

LEMMA SmallLists == /\ IsList(<<>>) /\ \A x : IsList(<<x>>)
BY DEF IsList, Range

LEMMA ListAndNothing == ASSUME NEW s, IsList(s) PROVE s \o <<>> = s /\ <<>> \o s = s
BY ConcatEmptySeq DEF IsList

(* A list with one more value.                                             *)
LEMMA OneMoreOf ==
    ASSUME NEW S, NEW s \in Seq(S), NEW x \in S
    PROVE  /\ s \o <<x>> \in Seq(S) /\ s \o <<x>> # <<>> /\ Last(s \o <<x>>) = x
           /\ Len(s \o <<x>>) = Len(s) + 1
<1>1. PICK one : one = <<x>>
  OBVIOUS
<1>2. one \in Seq(S) /\ Len(one) = 1 /\ one[1] = x
  BY <1>1
<1>3. PICK w : w = s \o one
  OBVIOUS
<1>4. Len(s) \in Nat /\ w \in Seq(S) /\ Len(w) = Len(s) + 1 /\ w[Len(s) + 1] = x
  <2>1. Len(s) \in Nat /\ Len(one) \in Nat
    BY <1>2, LenProperties
  <2>2. w \in Seq(S) /\ Len(w) = Len(s) + Len(one)
    BY <1>2, <1>3, ConcatProperties
  <2>3. \A i \in 1 .. Len(s) + Len(one) : w[i] = IF i <= Len(s) THEN s[i] ELSE one[i - Len(s)]
    BY <1>2, <1>3, ConcatProperties
  <2> QED BY <1>2, <2>1, <2>2, <2>3
<1>5. Last(w) = x /\ w # <<>>
  BY <1>4 DEF Last
<1> QED BY <1>1, <1>3, <1>4, <1>5

LEMMA OneMore ==
    ASSUME NEW s, IsList(s), NEW x
    PROVE  IsList(s \o <<x>>) /\ s \o <<x>> # <<>> /\ Last(s \o <<x>>) = x
<1>1. PICK S : S = Range(s) \cup {x}
  OBVIOUS
<1>2. s \in Seq(S) /\ x \in S
  BY <1>1 DEF IsList
<1>3. PICK w : w = s \o <<x>>
  OBVIOUS
<1>4. w \in Seq(S) /\ w # <<>> /\ Last(w) = x
  BY <1>2, <1>3, OneMoreOf
<1>5. IsList(w)
  <2>1. DOMAIN w = 1 .. Len(w) /\ w = [i \in 1 .. Len(w) |-> w[i]]
    BY <1>4
  <2>2. \A i \in 1 .. Len(w) : w[i] \in Range(w)
    BY <2>1 DEF Range
  <2> QED BY <1>4, <2>1, <2>2 DEF IsList
<1> QED BY <1>3, <1>4, <1>5

(* The places of a value in a list.                                        *)
Places(s, x) == {i \in DOMAIN s : s[i] = x}

LEMMA PlacesFinite ==
    ASSUME NEW S, NEW s \in Seq(S), NEW x
    PROVE  /\ IsFiniteSet(Places(s, x)) /\ Cardinality(Places(s, x)) \in Nat
           /\ Places(s, x) \subseteq 1 .. Len(s)
<1>1. Len(s) \in Nat /\ DOMAIN s = 1 .. Len(s)
  BY LenProperties
<1>2. Places(s, x) \subseteq 1 .. Len(s)
  BY <1>1 DEF Places
<1>3. IsFiniteSet(1 .. Len(s))
  BY <1>1, FS_Interval
<1>4. IsFiniteSet(Places(s, x))
  BY <1>2, <1>3, FS_Subset
<1> QED BY <1>2, <1>4, FS_CardinalityType

(* Lists equal as bags have the same values equally often.                 *)
LEMMA SameValues ==
    ASSUME NEW S, NEW s \in Seq(S), NEW T, NEW t \in Seq(T), ToBag(s) = ToBag(t),
           NEW i \in 1 .. Len(s)
    PROVE  /\ \E j \in 1 .. Len(t) : t[j] = s[i]
           /\ Cardinality(Places(s, s[i])) = Cardinality(Places(t, s[i]))
<1>1. DOMAIN s = 1 .. Len(s) /\ DOMAIN t = 1 .. Len(t)
  BY LenProperties
<1>2. /\ ToBag(s) = [x \in Range(s) |-> Cardinality(Places(s, x))]
      /\ ToBag(t) = [x \in Range(t) |-> Cardinality(Places(t, x))]
  BY DEF ToBag, Places
<1>3. PICK x : x = s[i]
  OBVIOUS
<1>4. x \in Range(s)
  BY <1>1, <1>3 DEF Range
<1>5. PICK b : b = ToBag(s)
  OBVIOUS
<1>6. DOMAIN b = Range(s) /\ b[x] = Cardinality(Places(s, x))
  BY <1>2, <1>4, <1>5
<1>7. x \in Range(t) /\ b[x] = Cardinality(Places(t, x))
  BY <1>2, <1>4, <1>5, <1>6
<1>8. \E j \in 1 .. Len(t) : t[j] = x
  BY <1>1, <1>7 DEF Range
<1> QED BY <1>3, <1>6, <1>7, <1>8

(* Nothing is equal to no value but no value.                              *)
LEMMA NoValues ==
    ASSUME NEW S, NEW s \in Seq(S), ToBag(s) = ToBag(<<>>)
    PROVE  s = <<>>
<1>1. <<>> \in Seq(S) /\ Len(<<>>) = 0
  BY EmptySeq
<1>2. Len(s) \in Nat
  BY LenProperties
<1>3. ASSUME Len(s) # 0 PROVE FALSE
  <2>1. 1 \in 1 .. Len(s)
    BY <1>2, <1>3
  <2>2. PICK none : none = <<>>
    OBVIOUS
  <2>3. none \in Seq(S) /\ ToBag(s) = ToBag(none)
    BY <1>1, <2>2
  <2>4. \A i \in 1 .. Len(s) : \E j \in 1 .. Len(none) : none[j] = s[i]
    BY <2>3, SameValues
  <2> QED BY <1>1, <2>1, <2>2, <2>4
<1> QED BY <1>3, EmptySeq

(* One value is not equal to several.                                      *)
LEMMA OneValue ==
    ASSUME NEW S, NEW s \in Seq(S), NEW x, ToBag(s) = ToBag(<<x>>)
    PROVE  s = <<x>>
<1>1. PICK t : t = <<x>>
  OBVIOUS
<1>2. t \in Seq({x}) /\ Len(t) = 1 /\ t[1] = x /\ 1 \in 1 .. Len(t)
  BY <1>1
<1>3. Len(s) \in Nat /\ DOMAIN s = 1 .. Len(s)
  BY LenProperties
<1>4. \A i \in 1 .. Len(s) : s[i] = x
  <2> TAKE i \in 1 .. Len(s)
  <2>1. \E j \in 1 .. Len(t) : t[j] = s[i]
    BY <1>1, <1>2, SameValues
  <2> QED BY <1>2, <2>1
<1>5. (\E j \in 1 .. Len(s) : s[j] = x) /\ Cardinality(Places(t, x)) = Cardinality(Places(s, x))
  <2>1. ToBag(t) = ToBag(s)
    BY <1>1
  <2>2. /\ \E j \in 1 .. Len(s) : s[j] = t[1]
        /\ Cardinality(Places(t, t[1])) = Cardinality(Places(s, t[1]))
    BY <1>2, <2>1, SameValues
  <2> QED BY <1>2, <2>2
<1>6. Places(s, x) = 1 .. Len(s) /\ Places(t, x) = 1 .. 1
  BY <1>2, <1>3, <1>4 DEF Places
<1>7. Cardinality(1 .. 1) = 1 /\ Cardinality(1 .. Len(s)) = IF 1 > Len(s) THEN 0 ELSE Len(s) - 1 + 1
  <2>1. 1 \in Int /\ Len(s) \in Int
    BY <1>3
  <2>2. Cardinality(1 .. 1) = IF 1 > 1 THEN 0 ELSE 1 - 1 + 1
    BY <2>1, FS_Interval
  <2> QED BY <2>1, <2>2, FS_Interval
<1>8. Len(s) = 1
  BY <1>3, <1>5, <1>6, <1>7
<1>9. s[1] = x
  BY <1>4, <1>8
<1> QED BY <1>3, <1>8, <1>9

(* A list with more values in front or behind is not equal to it.          *)
LEMMA MoreValues ==
    ASSUME NEW S, NEW s \in Seq(S), NEW r \in Seq(S),
           ToBag(s \o r) = ToBag(s) \/ ToBag(r \o s) = ToBag(s)
    PROVE  r = <<>>
<1> SUFFICES ASSUME r # <<>> PROVE FALSE
  OBVIOUS
<1>1. /\ Len(s) \in Nat /\ DOMAIN s = 1 .. Len(s)
      /\ Len(r) \in Nat /\ DOMAIN r = 1 .. Len(r) /\ Len(r) # 0
  BY LenProperties, EmptySeq
<1>2. PICK x : x = r[1]
  OBVIOUS
<1>3. ASSUME ToBag(s \o r) = ToBag(s) PROVE FALSE
  <2>1. PICK w : w = s \o r
    OBVIOUS
  <2>2. /\ w \in Seq(S) /\ Len(w) = Len(s) + Len(r) /\ DOMAIN w = 1 .. Len(w)
        /\ \A i \in 1 .. Len(s) : w[i] = s[i]
        /\ w[Len(s) + 1] = x
    BY <1>1, <1>2, <2>1, ConcatProperties, LenProperties
  <2>3. Len(s) + 1 \in Places(w, x) /\ Len(s) + 1 \in 1 .. Len(w)
    BY <1>1, <2>2 DEF Places
  <2>4. w[Len(s) + 1] = x /\ ToBag(w) = ToBag(s)
    BY <1>3, <2>1, <2>2
  <2>5. Cardinality(Places(w, x)) = Cardinality(Places(s, x))
    <3> PICK k \in 1 .. Len(w) : k = Len(s) + 1
      BY <2>3
    <3>1. Cardinality(Places(w, w[k])) = Cardinality(Places(s, w[k]))
      BY <2>2, <2>4, SameValues
    <3> QED BY <2>4, <3>1
  <2>6. Places(s, x) \subseteq Places(w, x) /\ Len(s) + 1 \notin Places(s, x)
    BY <1>1, <2>2 DEF Places
  <2> QED BY <2>2, <2>3, <2>5, <2>6, PlacesFinite, FS_Subset
<1>4. ASSUME ToBag(r \o s) = ToBag(s) PROVE FALSE
  <2>1. PICK w : w = r \o s
    OBVIOUS
  <2>2. /\ w \in Seq(S) /\ Len(w) = Len(r) + Len(s) /\ DOMAIN w = 1 .. Len(w)
        /\ \A i \in 1 .. Len(s) : w[Len(r) + i] = s[i]
        /\ w[1] = x
    BY <1>1, <1>2, <2>1, ConcatProperties, LenProperties
  <2>3. 1 \in Places(w, x) /\ 1 \in 1 .. Len(w)
    BY <1>1, <2>2 DEF Places
  <2>4. w[1] = x /\ ToBag(w) = ToBag(s)
    BY <1>4, <2>1, <2>2
  <2>5. Cardinality(Places(w, x)) = Cardinality(Places(s, x))
    <3> PICK k \in 1 .. Len(w) : k = 1
      BY <2>3
    <3>1. Cardinality(Places(w, w[k])) = Cardinality(Places(s, w[k]))
      BY <2>2, <2>4, SameValues
    <3> QED BY <2>4, <3>1
  <2> DEFINE moved == {Len(r) + j : j \in Places(s, x)}
             f == [j \in Places(s, x) |-> Len(r) + j]
  <2>6. moved \subseteq Places(w, x) /\ 1 \notin moved
    BY <1>1, <2>2 DEF Places
  <2>7. ExistsBijection(Places(s, x), moved)
    <3>1. \A j \in Places(s, x) : j \in Nat
      BY <1>1 DEF Places
    <3>2. f \in Bijection(Places(s, x), moved)
      BY <1>1, <3>1 DEF Bijection, Injection, Surjection, IsInjective
    <3> QED BY <3>2 DEF ExistsBijection
  <2>8. Cardinality(moved) = Cardinality(Places(s, x)) /\ IsFiniteSet(moved)
    BY <2>7, PlacesFinite, FS_Bijection
  <2> QED BY <2>2, <2>3, <2>5, <2>6, <2>8, PlacesFinite, FS_Subset
<1> QED BY <1>3, <1>4

(* The order does not matter.                                              *)
LEMMA SwappedPlaces ==
    ASSUME NEW S, NEW s \in Seq(S), NEW t \in Seq(S), NEW x
    PROVE  Cardinality(Places(s \o t, x)) = Cardinality(Places(t \o s, x))
<1>1. PICK w : w = s \o t
  OBVIOUS
<1>2. PICK z : z = t \o s
  OBVIOUS
<1>3. Len(s) \in Nat /\ Len(t) \in Nat
  BY LenProperties
<1>4. /\ w \in Seq(S) /\ Len(w) = Len(s) + Len(t)
      /\ \A i \in 1 .. Len(s) + Len(t) : w[i] = IF i <= Len(s) THEN s[i] ELSE t[i - Len(s)]
  BY <1>1, ConcatProperties
<1>5. /\ z \in Seq(S) /\ Len(z) = Len(t) + Len(s)
      /\ \A i \in 1 .. Len(t) + Len(s) : z[i] = IF i <= Len(t) THEN t[i] ELSE s[i - Len(t)]
  BY <1>2, ConcatProperties
<1>6. DOMAIN w = 1 .. Len(w) /\ DOMAIN z = 1 .. Len(z)
  BY <1>4, <1>5, LenProperties
<1> DEFINE f == [i \in Places(w, x) |-> IF i <= Len(s) THEN i + Len(t) ELSE i - Len(s)]
<1>7. \A i \in Places(w, x) : i \in 1 .. Len(s) + Len(t) /\ w[i] = x
  BY <1>4, <1>6 DEF Places
<1>8. \A i \in Places(w, x) : f[i] \in Places(z, x)
  <2> TAKE i \in Places(w, x)
  <2>1. i \in 1 .. Len(s) + Len(t) /\ x = IF i <= Len(s) THEN s[i] ELSE t[i - Len(s)]
    BY <1>4, <1>7
  <2>2. PICK k : k = IF i <= Len(s) THEN i + Len(t) ELSE i - Len(s)
    OBVIOUS
  <2>3. k \in 1 .. Len(t) + Len(s)
    BY <1>3, <2>1, <2>2
  <2>4. z[k] = IF k <= Len(t) THEN t[k] ELSE s[k - Len(t)]
    BY <1>5, <2>3
  <2>5. z[k] = x
    <3>1. CASE i <= Len(s)
      <4>1. ~(k <= Len(t)) /\ k - Len(t) = i
        BY <1>3, <2>1, <2>2, <3>1
      <4> QED BY <2>1, <2>4, <3>1, <4>1
    <3>2. CASE ~(i <= Len(s))
      <4>1. k <= Len(t) /\ k = i - Len(s)
        BY <1>3, <2>1, <2>2, <3>2
      <4> QED BY <2>1, <2>4, <3>2, <4>1
    <3> QED BY <3>1, <3>2
  <2>6. k \in Places(z, x)
    BY <1>5, <1>6, <2>3, <2>5 DEF Places
  <2> QED BY <2>2, <2>6
<1>9. \A i, j \in Places(w, x) : f[i] = f[j] => i = j
  BY <1>3, <1>7
<1>10. \A k \in Places(z, x) : \E i \in Places(w, x) : f[i] = k
  <2> TAKE k \in Places(z, x)
  <2>1. k \in 1 .. Len(t) + Len(s) /\ z[k] = x
    BY <1>5, <1>6 DEF Places
  <2>2. PICK i : i = IF k <= Len(t) THEN k + Len(s) ELSE k - Len(t)
    OBVIOUS
  <2>3. i \in 1 .. Len(w) /\ w[i] = x
    <3>1. x = IF k <= Len(t) THEN t[k] ELSE s[k - Len(t)]
      BY <1>5, <2>1
    <3>2. i \in 1 .. Len(s) + Len(t) /\ i \in 1 .. Len(w)
      BY <1>3, <1>4, <2>1, <2>2
    <3>3. w[i] = IF i <= Len(s) THEN s[i] ELSE t[i - Len(s)]
      BY <1>4, <3>2
    <3>4. CASE k <= Len(t)
      <4>1. ~(i <= Len(s)) /\ i - Len(s) = k
        BY <1>3, <2>1, <2>2, <3>4
      <4> QED BY <3>1, <3>2, <3>3, <3>4, <4>1
    <3>5. CASE ~(k <= Len(t))
      <4>1. i <= Len(s) /\ i = k - Len(t)
        BY <1>3, <2>1, <2>2, <3>5
      <4> QED BY <3>1, <3>2, <3>3, <3>5, <4>1
    <3> QED BY <3>4, <3>5
  <2>4. i \in Places(w, x)
    BY <1>6, <2>3 DEF Places
  <2>5. f[i] = k
    BY <1>3, <2>1, <2>2, <2>4
  <2> QED BY <2>4, <2>5
<1>11. f \in Bijection(Places(w, x), Places(z, x))
  BY <1>8, <1>9, <1>10 DEF Bijection, Injection, Surjection, IsInjective
<1>12. ExistsBijection(Places(w, x), Places(z, x))
  BY <1>11 DEF ExistsBijection
<1>13. Cardinality(Places(z, x)) = Cardinality(Places(w, x))
  BY <1>4, <1>12, PlacesFinite, FS_Bijection
<1> QED BY <1>1, <1>2, <1>13

LEMMA Swapped ==
    ASSUME NEW S, NEW s \in Seq(S), NEW t \in Seq(S)
    PROVE  ToBag(s \o t) = ToBag(t \o s)
<1>1. Range(s \o t) = Range(s) \cup Range(t) /\ Range(t \o s) = Range(t) \cup Range(s)
  BY RangeConcatenation
<1>2. PICK values : values = Range(s \o t) /\ values = Range(t \o s)
  BY <1>1
<1>3. \A x : Cardinality(Places(s \o t, x)) = Cardinality(Places(t \o s, x))
  BY SwappedPlaces
<1>4. /\ ToBag(s \o t) = [x \in values |-> Cardinality(Places(s \o t, x))]
      /\ ToBag(t \o s) = [x \in values |-> Cardinality(Places(t \o s, x))]
  BY <1>2 DEF ToBag, Places
<1> QED BY <1>3, <1>4
-----------------------------------------------------------------------------
(* Signatures: a digest shows its method and, but for PLAINTEXT, the values *)
(* of every name but the signature's own.                                  *)
LEMMA DigestShows ==
    ASSUME NEW method, NEW verb, NEW params
    PROVE  /\ Digest(method, verb, params).method = method
           /\ method # "PLAINTEXT" => \A n \in Name \ {"oauth_signature"} :
                Digest(method, verb, params).params[n] = ToBag(params[n])
<1>1. PICK normal : normal = Normalized(params)
  OBVIOUS
<1>2. \A n \in Name \ {"oauth_signature"} : normal[n] = ToBag(params[n])
  BY <1>1 DEF Normalized
<1>3. Digest(method, verb, params) =
        IF method = "PLAINTEXT" THEN [method |-> method]
        ELSE [method |-> method, verb |-> verb, params |-> normal]
  BY <1>1 DEF Digest
<1> QED BY <1>2, <1>3

LEMMA SameDigest ==
    ASSUME NEW method, NEW verb, NEW P, NEW Q
    PROVE  Digest(method, verb, P) = Digest(method, verb, Q)
             <=> \/ method = "PLAINTEXT"
                 \/ \A n \in Name \ {"oauth_signature"} : ToBag(P[n]) = ToBag(Q[n])
<1>1. CASE method = "PLAINTEXT"
  BY <1>1 DEF Digest
<1>2. CASE method # "PLAINTEXT"
  <2>1. ASSUME Digest(method, verb, P) = Digest(method, verb, Q),
               NEW n \in Name \ {"oauth_signature"}
        PROVE  ToBag(P[n]) = ToBag(Q[n])
    <3>1. PICK d : d = Digest(method, verb, P) /\ d = Digest(method, verb, Q)
      BY <2>1
    <3>2. /\ Digest(method, verb, P).params[n] = ToBag(P[n])
          /\ Digest(method, verb, Q).params[n] = ToBag(Q[n])
      BY <1>2, DigestShows
    <3> QED BY <3>1, <3>2
  <2>2. ASSUME \A n \in Name \ {"oauth_signature"} : ToBag(P[n]) = ToBag(Q[n])
        PROVE  Digest(method, verb, P) = Digest(method, verb, Q)
    <3>1. Normalized(P) = Normalized(Q)
      BY <2>2 DEF Normalized
    <3> QED BY <3>1 DEF Digest
  <2> QED BY <1>2, <2>1, <2>2
<1> QED BY <1>1, <1>2
-----------------------------------------------------------------------------
(* What a server finds: the header hides the query, the query hides the    *)
(* form, and the last value counts.                                        *)
LEMMA LastOfOne == ASSUME NEW x PROVE Last(<<x>>) = x
BY DEF Last

LEMMA ServerFinds ==
    ASSUME NEW m, NEW n \in Name
    PROVE  RackParameters(m)[n] =
             LET values == IF m.auth[n] # <<>> THEN m.auth[n]
                           ELSE IF m.query[n] # <<>> THEN m.query[n] ELSE Posted(m)[n]
             IN  IF values = <<>> THEN <<>> ELSE <<Last(values)>>
<1>1. PICK url : url = Merge(Posted(m), m.query)
  OBVIOUS
<1>2. url[n] = IF m.query[n] = <<>> THEN Posted(m)[n] ELSE m.query[n]
  BY <1>1 DEF Merge
<1>3. PICK all : all = Merge(url, m.auth)
  OBVIOUS
<1>4. all[n] = IF m.auth[n] = <<>> THEN url[n] ELSE m.auth[n]
  BY <1>3 DEF Merge
<1>5. RackParameters(m)[n] = IF all[n] = <<>> THEN <<>> ELSE <<Last(all[n])>>
  BY <1>1, <1>3 DEF RackParameters, LastWins
<1> QED BY <1>2, <1>4, <1>5

LEMMA ServerFindsForm ==
    ASSUME NEW m, NEW n \in Name, m.auth[n] = <<>>, m.query[n] = <<>>, NEW values,
           Posted(m)[n] = values
    PROVE  RackParameters(m)[n] = IF values = <<>> THEN <<>> ELSE <<Last(values)>>
BY ServerFinds

(* And what a Rails server signs: everything.                              *)
LEMMA ServerSigns ==
    ASSUME NEW m, NEW n \in Name
    PROVE  RawParameters(m)[n] =
             (m.auth[n] \o m.query[n])
               \o (IF m.verb \in {"POST", "PUT"} THEN Posted(m)[n] ELSE <<>>)
<1>1. PICK form : form = IF m.verb \in {"POST", "PUT"} THEN Posted(m) ELSE NoParams
  OBVIOUS
<1>2. form[n] = IF m.verb \in {"POST", "PUT"} THEN Posted(m)[n] ELSE <<>>
  BY <1>1 DEF NoParams
<1>3. PICK url : url = Join(m.auth, m.query)
  OBVIOUS
<1>4. url[n] = m.auth[n] \o m.query[n]
  BY <1>3 DEF Join
<1>5. RawParameters(m)[n] = url[n] \o form[n]
  BY <1>1, <1>3 DEF RawParameters, Join
<1> QED BY <1>2, <1>4, <1>5

(* A server verifies the signature that it finds, with the method that it  *)
(* finds.                                                                  *)
LEMMA VerifyFound ==
    ASSUME NEW server, NEW m, NEW method, NEW sig,
           RackParameters(m)["oauth_signature_method"] = <<method>>,
           RackParameters(m)["oauth_signature"] = <<sig>>
    PROVE  Verify(server, m) <=> sig = Digest(method, m.verb, ForSignature(server, m))
<1>1. Head(<<method>>) = method /\ <<method>> # <<>>
  OBVIOUS
<1>2. PICK d : d = Digest(method, m.verb, ForSignature(server, m))
  OBVIOUS
<1>3. <<sig>> = <<d>> <=> sig = d
  OBVIOUS
<1> QED BY <1>1, <1>2, <1>3 DEF Verify

(* The OAuth parameters are found, in whichever part they are.             *)
LEMMA PartFound ==
    ASSUME NEW m, NEW n \in Name, NEW values, values = <<>> \/ \E x : values = <<x>>,
           \/ m.auth[n] = values /\ m.query[n] = <<>> /\ Posted(m)[n] = <<>>
           \/ m.auth[n] = <<>> /\ m.query[n] = values /\ Posted(m)[n] = <<>>
           \/ /\ m.auth[n] = <<>> /\ m.query[n] = <<>> /\ Posted(m)[n] = values
              /\ m.verb \in {"POST", "PUT"}
    PROVE  RackParameters(m)[n] = values /\ RawParameters(m)[n] = values
<1>1. PICK form : form = Posted(m)[n]
  OBVIOUS
<1>2. IsList(values) /\ <<>> \o <<>> = <<>>
  BY SmallLists, ListAndNothing
<1>3. RawParameters(m)[n] = values
  <2>1. RawParameters(m)[n] = (m.auth[n] \o m.query[n])
                                \o (IF m.verb \in {"POST", "PUT"} THEN form ELSE <<>>)
    BY <1>1, ServerSigns
  <2>2. values \o <<>> = values /\ <<>> \o values = values
    BY <1>2, ListAndNothing
  <2> QED BY <1>1, <1>2, <2>1, <2>2
<1>4. RackParameters(m)[n] = IF values = <<>> THEN <<>> ELSE <<Last(values)>>
  <2>1. RackParameters(m)[n] =
          LET all == IF m.auth[n] # <<>> THEN m.auth[n]
                     ELSE IF m.query[n] # <<>> THEN m.query[n] ELSE form
          IN  IF all = <<>> THEN <<>> ELSE <<Last(all)>>
    BY <1>1, ServerFinds
  <2> QED BY <1>1, <2>1
<1>5. CASE values = <<>>
  BY <1>3, <1>4, <1>5
<1>6. ASSUME NEW x, values = <<x>> PROVE RackParameters(m)[n] = values
  <2>1. Last(values) = x /\ values # <<>>
    BY <1>6, LastOfOne
  <2> QED BY <1>4, <1>6, <2>1
<1> QED BY <1>3, <1>5, <1>6
=============================================================================
