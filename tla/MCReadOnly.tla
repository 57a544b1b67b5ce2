------------------------------- MODULE MCReadOnly -------------------------------
(* The files of test/test_directory in small: a.txt, a directory with the same *)
(* beginning, and a file two directories down; or no file at all.  64 bits are *)
(* four here, contents up to three bytes.                                      *)
EXTENDS ReadOnlyClient, TLC

CONSTANTS noFile

mcBytes == {1, 2}
mcHalf == 8
mcMaxLen == 3
mcSizes == {0, 1, 2}
mcRewrites == {<<1, 2>>, <<2>>}

mcA == <<"a">>
mcX == <<"x">>
mcTxt == <<"a", "txt">>
mcDir == <<"a", "txt", "dir">>
mcHidden == <<"", "a">>

mcAssets == <<mcTxt>> :> <<1, 2, 1>> @@ <<mcDir, mcHidden>> :> << >> @@ <<mcA, mcX, mcA>> :> <<2>>
mcNone == [f \in {} |-> << >>]
mcPacked == {mcAssets, mcNone}
\* a.txt shorter and the deep file longer; a.txt gone; a file that new() did not see.
mcEditions ==
    {<<mcTxt>> :> <<2>> @@ <<mcA, mcX, mcA>> :> <<1, 2>>,
     <<mcDir, mcHidden>> :> << >> @@ <<mcX>> :> <<2>>}

\* The root, what is on the way to the files, and two paths that are not.
mcPlaces ==
    {Top, <<mcTxt>>, <<mcDir>>, <<mcDir, mcHidden>>, <<mcA>>, <<mcA, mcX>>, <<mcA, mcX, mcA>>,
     <<mcX>>, <<mcA, mcTxt>>}

\* "", "/", "//", ".", "..", "a", "a.txt", "a.txt.dir/.a", "x/a", "/a/x",
\* "a/", "../a", "a/../..", "a/../../x", "/../x", "./a//x", "../..", "x/./..".
mcTexts ==
    {<<Nothing>>, <<Nothing, Nothing>>, <<Nothing, Nothing, Nothing>>, <<Here>>, <<Above>>,
     <<mcA>>, <<mcTxt>>, <<mcDir, mcHidden>>, <<mcX, mcA>>, <<Nothing, mcA, mcX>>,
     <<mcA, Nothing>>, <<Above, mcA>>, <<mcA, Above, Above>>, <<mcA, Above, Above, mcX>>,
     <<Nothing, Above, mcX>>, <<Here, mcA, Nothing, mcX>>, <<Above, Above>>, <<mcX, Here, Above>>}
=============================================================================
