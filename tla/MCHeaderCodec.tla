--------------------------- MODULE MCHeaderCodec ---------------------------
(***************************************************************************)
(* Instances of HeaderCodec for TLC: two parameters; every text up to a    *)
(* length over characters that are special to some step of the code.       *)
(***************************************************************************)
EXTENDS HeaderCodec

MCKey   == <<"k", "l">>
MCTexts == BoundedSeq({"a", "2", "%", "+", Quote, ",", Newline}, 2)
             \cup { <<"%", "2", "5">>, <<"%", "2", "5", "2">>, <<" ", "a", " ">>,
                    <<"&", "=", Quote>>, <<Quote, Newline, Quote>> }

MCRealm  == { <<>>, <<"a">>, <<"a", "=", "b">>, <<"a", "=", "b", "&", "c">>,
              <<",", ",", ",">>, <<"%", "2", "C">>, <<Quote>> }
=============================================================================
