------------------------------ MODULE MCBrowse ------------------------------
(***************************************************************************)
(* Browse for TLC: plain names, names with special characters, and         *)
(* repositories that are called like an action or a pattern: "a+" takes    *)
(* "a", and "[" makes a pattern that takes nothing.                        *)
(***************************************************************************)
EXTENDS Browse, TLC

Sha == "0123456789abcdef0123456789abcdef01234567"

SomeSpecial ==
  [part \in {"", "r", "a", "n"} \union {Sha} \union Actions |-> {}]
  @@ ("b:" :> {":"}) @@ ("a?n" :> {"?"}) @@ ("n " :> {" "}) @@ ("w" :> {"wide"})
  @@ ("?" :> {"?"}) @@ ("a+" :> {"+"}) @@ ("[" :> {"+"})

SomeKept == ("a?n" :> "a") @@ ("n " :> "n") @@ ("?" :> "")
SomeNarrow == [part \in DOMAIN SomeSpecial |-> IF part = "w" THEN "?" ELSE part]
SomeWords == {"r", "a", "n", "w", Sha} \union (Actions \ {"favicon.ico"})

SomeNames == {"r", "ping", "a+", "[", "w"}
SomePattern ==
  [names \in SUBSET SomeNames |->
    IF names = {} THEN {""}
    ELSE IF "[" \in names THEN {}
    ELSE (names \ {"a+"}) \union (IF "a+" \in names THEN {"a"} ELSE {})]

(* A path is that of a file in one index and of a directory in another.    *)
SomeIndexes ==
  { {}, {<<"a">>, <<"a?n", "n">>}, {<<"a", "n">>, <<"b:", "a">>},
    {<<"a", "n ">>, <<"a", "a", "b:">>}, {<<"w", "n">>, <<"a", "a", "n">>} }

SomeUrls == { <<"">>, <<"browse", "r">>, <<"browse", "r", "a", "">>, <<"r", "">>, <<"r", "", "">>,
              <<"r", "", "a", "n ">>, <<"r", "w">>, <<"w", "a">>, <<"a", "a">>, <<"ping", "a", "a">>,
              <<"history", "r", "">>, <<"commit", "a", "n">>,
              <<"file", "r", Sha, "a", "n">>, <<"favicon.ico">>, <<"n", "n">> }

SomeDirectories == {<<"r", <<"a">>>>}
=============================================================================
