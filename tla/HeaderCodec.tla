---------------------------- MODULE HeaderCodec ----------------------------
(***************************************************************************)
(* The Authorization header as text: Client::Helper#header writes it, the  *)
(* network carries it, OAuth::Helper.parse_header reads it on the server.  *)
(* OAuth values are percent-encoded and quoted; the realm is only quoted.  *)
(*                                                                         *)
(* A text is a sequence of characters.  A key is one character, and so is  *)
(* a byte that no escape of Special characters stands for.                 *)
(***************************************************************************)
EXTENDS Naturals, Sequences, FiniteSets, SequencesExt, FiniteSetsExt

CONSTANTS Key,    \* the names of the parameters, in the order of sort
          Text,   \* the values the client sends
          Realm   \* the realms it may be given (<<>> for none)

Quote   == "\""
Newline == "\n"

\* The reserved characters, with the two digits of their code.
Special == { <<"%", "2", "5">>, <<"+", "2", "B">>, <<Quote, "2", "2">>,
             <<",", "2", "C">>, <<"=", "3", "D">>, <<"&", "2", "6">>,
             <<" ", "2", "0">>, <<Newline, "0", "A">> }
Digits == {"0", "2", "3", "5", "6", "A", "B", "C", "D"}

ASSUME TextsFit ==
    /\ Key \in Seq(Range(Key)) /\ IsInjective(Key) /\ Key # <<>>
    /\ \A text \in Text \cup Realm : text \in Seq(Range(text))
    /\ \A k \in Range(Key) \cup {"realm"} :
         k \notin Digits /\ \A sp \in Special : k # sp[1]
    /\ "realm" \notin Range(Key)

VARIABLES sent,    \* sent[k]: the value of parameter k
          realm,   \* options[:realm]
          header,  \* the header's text
          parsed,  \* the Hash parse_header returned
          stage    \* "new", "written", "read", or "raised": OAuth::Problem
vars == <<sent, realm, header, parsed, stage>>

Nothing == <<>>
-----------------------------------------------------------------------------
(* _escape: reserved characters become %HH.                                *)
EscapeAll(text, reserved) ==
    FlattenSeq([i \in DOMAIN text |->
        IF \E sp \in reserved : sp[1] = text[i]
        THEN LET sp == CHOOSE sp \in reserved : sp[1] = text[i]
             IN <<"%", sp[2], sp[3]>>
        ELSE <<text[i]>>])

(* Variant: a comma counts as unreserved.                                  *)
Escape_Commas(text) == EscapeAll(text, {sp \in Special : sp[1] # ","})

Escape(text) == EscapeAll(text, Special)

(* unescape: a plus is a plus, then every %HH becomes its character, from  *)
(* the left; whatever is no escape stays.                                  *)
Byte(h, l) ==
    IF \E sp \in Special : sp[2] = h /\ sp[3] = l
    THEN (CHOOSE sp \in Special : sp[2] = h /\ sp[3] = l)[1]
    ELSE h \o l

Decode(text) ==
    LET n == Len(text)
        IsEscape(i) == /\ text[i] = "%" /\ i + 2 <= n
                       /\ text[i+1] \in Digits /\ text[i+2] \in Digits
        from[i \in 1 .. n + 1] ==
            IF i > n THEN <<>>
            ELSE IF IsEscape(i) THEN <<Byte(text[i+1], text[i+2])>> \o from[i+3]
            ELSE <<text[i]>> \o from[i+1]
    IN from[1]

(* Variant: escapes are undone until none is left.                         *)
Unescape_Again(text) == Decode(Decode(text))

Unescape(text) ==
    Decode(FlattenSeq([i \in DOMAIN text |->
        IF text[i] = "+" THEN <<"%", "2", "B">> ELSE <<text[i]>>]))
-----------------------------------------------------------------------------
(* Helper#header: realm as it is, values escaped, all quoted.              *)
Assign(key, text) == <<key, "=", Quote>> \o text \o <<Quote>>

Assignments ==
    LET pairs == [i \in DOMAIN Key |-> Assign(Key[i], Escape(sent[Key[i]]))]
    IN IF realm = <<>> THEN pairs ELSE <<Assign("realm", realm)>> \o pairs

Join(texts, glue) ==
    FlattenSeq([i \in DOMAIN texts |-> IF i = 1 THEN texts[i] ELSE glue \o texts[i]])

(* Variant: the assignments are joined the way those of a cookie are.      *)
Written_Semicolons == Join(Assignments, <<";", " ">>)

Written == Join(Assignments, <<",", " ">>)

(* String#split at , = and &, which drops empty pieces at the end.         *)
Separators == {",", "=", "&"}
Cut(pieces, char) ==
    IF char \in Separators THEN Append(pieces, <<>>)
    ELSE [pieces EXCEPT ![Len(pieces)] = Append(@, char)]

Pieces(text) ==
    LET upto[i \in 0 .. Len(text)] ==
            IF i = 0 THEN << <<>> >> ELSE Cut(upto[i-1], text[i])
    IN upto[Len(text)]

Split(text) ==
    LET all  == Pieces(text)
        full == {i \in DOMAIN all : all[i] # <<>>}
    IN SubSeq(all, 1, IF full = {} THEN 0 ELSE Max(full))

(* String#strip.                                                           *)
Strip(text) ==
    LET ink == {i \in DOMAIN text : text[i] \notin {" ", Newline}}
    IN IF ink = {} THEN <<>> ELSE SubSeq(text, Min(ink), Max(ink))

(* The sub that takes the quotes away: its anchors are those of a line and *)
(* its dot is no newline, so they go from the first line that has both.    *)
Starts(text, i) == i = 1 \/ text[i-1] = Newline
Ends(text, j)   == j = Len(text) \/ text[j+1] = Newline
QuotedLines(text) ==
    {ij \in (DOMAIN text) \X (DOMAIN text) :
       /\ ij[1] < ij[2] /\ Starts(text, ij[1]) /\ Ends(text, ij[2])
       /\ text[ij[1]] = Quote /\ text[ij[2]] = Quote
       /\ \A k \in ij[1] .. ij[2] : text[k] # Newline}

(* Variant: the quotes are never taken away.                               *)
Unquote_Never(text) == text

Unquote(text) ==
    IF QuotedLines(text) = {} THEN text
    ELSE LET line == CHOOSE ij \in QuotedLines(text) :
                       \A other \in QuotedLines(text) : ij[1] <= other[1]
         IN SubSeq(text, 1, line[1] - 1) \o SubSeq(text, line[1] + 1, line[2] - 1)
              \o SubSeq(text, line[2] + 1, Len(text))

(* parse_header raises unless the pieces are even in number, and takes     *)
(* them two by two, of equal names the last.                               *)
Malformed(text) == Len(Split(text)) % 2 = 1

ParseHeader(text) ==
    LET pieces == Split(text)
        clean  == [i \in DOMAIN pieces |-> Unquote(Unescape(Strip(pieces[i])))]
        names  == {i \in DOMAIN clean : i % 2 = 1}
    IN [name \in {clean[i] : i \in names} |->
            clean[Max({i \in names : clean[i] = name}) + 1]]
-----------------------------------------------------------------------------
Init ==
    /\ sent \in [Range(Key) -> Text]
    /\ realm \in Realm
    /\ header = <<>>
    /\ parsed = Nothing
    /\ stage = "new"

Write ==
    /\ stage = "new"
    /\ header' = Written
    /\ stage' = "written"
    /\ UNCHANGED <<sent, realm, parsed>>

Parse ==
    /\ stage = "written"
    /\ ~Malformed(header)
    /\ parsed' = ParseHeader(header)
    /\ stage' = "read"
    /\ UNCHANGED <<sent, realm, header>>

ParseRaises ==
    /\ stage = "written"
    /\ Malformed(header)
    /\ stage' = "raised"
    /\ UNCHANGED <<sent, realm, header, parsed>>

Next == Write \/ Parse \/ ParseRaises

Spec == Init /\ [][Next]_vars
-----------------------------------------------------------------------------
(* What is sent is not changed, and a header never holds a raw separator   *)
(* but those it needs and the realm's.                                     *)
Count(text, chars) == Cardinality({i \in DOMAIN text : text[i] \in chars})
TypeOK ==
    /\ sent \in [Range(Key) -> Text] /\ realm \in Realm
    /\ stage \in {"new", "written", "read", "raised"}
    /\ stage # "new" =>
         LET assigned == Len(Key) + (IF realm = <<>> THEN 0 ELSE 1)
         IN Count(header, Separators) = 2 * assigned - 1 + Count(realm, Separators)

(* Escaping loses nothing, whatever escapes the text itself seems to hold. *)
EscapeIsUndone == \A k \in Range(Key) : Unescape(Escape(sent[k])) = sent[k]

(* The server raises exactly when the realm brings an odd number of        *)
(* separators into the header, whatever the values are.                    *)
RaisesOnOddRealm ==
    /\ stage = "raised" => Count(realm, Separators) % 2 = 1
    /\ stage = "read" => Count(realm, Separators) % 2 = 0

(* Otherwise every parameter arrives exactly when it has no newline: with  *)
(* one the quotes are not those of a line and stay.                        *)
ParametersArrive ==
    stage = "read" =>
      \A k \in Range(Key) :
        (<<k>> \in DOMAIN parsed /\ parsed[<<k>>] = sent[k])
          <=> Count(sent[k], {Newline}) = 0
=============================================================================
