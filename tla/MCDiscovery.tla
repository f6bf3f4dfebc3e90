---------------------------- MODULE MCDiscovery ----------------------------
(***************************************************************************)
(* Two users.  Alice owns the items 1 and 3 and Bob item 2, so that either *)
(* of them is side A of a match; Bob has two wants that both may serve.    *)
(***************************************************************************)
EXTENDS Discovery

CONSTANTS alice, bob

MCItems == 1..3
MCWants == {"w1", "w2", "w3"}
MCOwner == <<alice, bob, alice>>
MCWanter == [w \in MCWants |-> IF w = "w1" THEN alice ELSE bob]
MCCategories == {"music", "books"}
MCConditions == <<"new", "like_new", "good", "fair", "poor">>

listing(title, description, category, condition, value) ==
  [title |-> title, description |-> description, category |-> category,
   condition |-> condition, value |-> value]

\* Texts with and without wildcards, in both cases, with blanks around them;
\* a title of blanks only, an unknown condition and a negative value are refused.
MCListings ==
  <<{listing(<<"A", "b">>, <<>>, "music", "good", 3),
     listing(<<" ", "b", "%", " ">>, <<"_">>, "music", "good", 0),
     listing(<<" ">>, <<"a">>, "music", "good", 3)},
    {listing(<<"b">>, <<"\\", "a">>, "music", "like_new", Missing),
     listing(<<"_", "A">>, <<>>, "music", "good", 0),
     listing(<<"b">>, <<>>, "music", "mint", -1)},
    {listing(<<"a", " ", "b">>, <<>>, "music", "fair", 2)}>>

request(category, keywords, min) ==
  [category |-> category, keywords |-> keywords, min |-> min]

\* No keyword, one of wildcards only, one with a blank next to a wildcard, the
\* same one twice; too many of them, one that is too long and unknown
\* vocabulary are refused.
MCRequests ==
  [w \in MCWants |->
     CASE w = "w1" -> {request("music", <<<<"%">>>>, ""),
                       request("music", <<<<"A", " ", "%">>, <<" ", "a">>>>, Missing),
                       request("toys", <<>>, "mint")}
       [] w = "w2" -> {request("music", <<<<"_", "b">>, <<"\\", "\\", "%">>>>, "good"),
                       request("books", <<<<"a", "b">>>>, Missing),
                       request("books", <<<<"a", "b", "a">>>>, Missing)}
       [] w = "w3" -> {request("music", <<<<" ", "\\">>, <<"a">>>>, Missing),
                       request("music", <<<<"a">>, <<"b">>, <<" ">>, <<"a", "b">>>>, Missing)}]

MCQueries ==
  {<<>>, <<" ">>, <<"a">>, <<"B", " ">>, <<"%">>, <<"_">>, <<"\\">>, <<"a", "B">>,
   <<"a", "%">>, <<"_", "b">>, <<"b", "_">>, <<"\\", "%">>, <<"\\", "a">>, <<"a", "_", " ">>}
=============================================================================
