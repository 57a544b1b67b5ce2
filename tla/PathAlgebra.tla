------------------------------ MODULE PathAlgebra ------------------------------
(***************************************************************************)
(* The path algebra of path.rs (trait PathLike), which VfsPath and          *)
(* AsyncVfsPath share.                                                      *)
(*                                                                          *)
(* A name is the text between two slashes, split at its dots: "a.txt" is    *)
(* <<"a", "txt">>, "." is <<"", "">>, ".." is <<"", "", "">> and the empty  *)
(* text <<"">>.  The argument of join is the text split at its slashes, a   *)
(* sequence of names: "a/b" is <<a, b>>, "/a" is <<Nothing, a>>, "a/" is    *)
(* <<a, Nothing>>, "" is <<Nothing>> and "/" is <<Nothing, Nothing>>.       *)
(* A VfsPath's own path is the sequence of the names behind its slashes.    *)
(***************************************************************************)
EXTENDS Integers, SequencesExt

Nothing == <<"">>
Here == <<"", "">>
Above == <<"", "", "">>

Top == << >>            \* the path "" of the root

IsNormal(p) == \A i \in DOMAIN p : p[i] \notin {Nothing, Here, Above}

Filename(p) == IF p = Top THEN Nothing ELSE Last(p)

\* {} where the code answers None.
Extension(name) ==
    IF Len(name) = 1 \/ Front(name) = Nothing THEN {} ELSE {Last(name)}

ParentPath(p) == IF p = Top THEN Top ELSE Front(p)

IsAbsolute(text) == Len(text) > 1 /\ Head(text) = Nothing
EndsInSlash(text) ==
    /\ Len(text) > 1
    /\ Last(text) = Nothing
    /\ text # <<Nothing, Nothing>>

\* Fault: a ".." beyond the names of the argument is dropped.
TakeComponentNeverLeaving(walk, name) ==
    IF name \in {Nothing, Here} THEN walk
    ELSE IF name # Above THEN [walk EXCEPT !.names = Append(@, name)]
    ELSE [walk EXCEPT !.names = IF @ = << >> THEN @ ELSE Front(@)]

\* One turn of join_internal's loop: names are collected apart from the path
\* they are relative to, which shrinks once there is no name left to drop.
TakeComponent(walk, name) ==
    IF name \in {Nothing, Here} THEN walk
    ELSE IF name # Above THEN [walk EXCEPT !.names = Append(@, name)]
    ELSE IF walk.names # << >> THEN [walk EXCEPT !.names = Front(@)]
    ELSE [walk EXCEPT !.base = ParentPath(@)]

\* join: the new path, or none and InvalidPath.
JoinAnswer(p, text) ==
    LET start == [base |-> IF IsAbsolute(text) THEN Top ELSE p, names |-> << >>]
        walk == FoldLeft(TakeComponent, start, text)
    IN  IF text = <<Nothing>> THEN [code |-> "Ok", path |-> p]
        ELSE IF EndsInSlash(text) THEN [code |-> "InvalidPath", path |-> Top]
        ELSE [code |-> "Ok", path |-> walk.base \o walk.names]

-----------------------------------------------------------------------------
(* The reference: a name survives when no later stretch of the text has more *)
(* ".." in it than names, whatever was collected where.                      *)

Count(names, S) == Cardinality({i \in S : names[i] \notin {Nothing, Here, Above}})
Ups(names, S) == Cardinality({i \in S : names[i] = Above})

Survives(names, i) ==
    /\ names[i] \notin {Nothing, Here, Above}
    /\ \A j \in i + 1 .. Len(names) :
          Ups(names, i + 1 .. j) <= Count(names, i + 1 .. j)

Resolved(p, text) ==
    LET names == IF IsAbsolute(text) THEN text ELSE p \o text
    IN  [k \in 1 .. Cardinality({i \in DOMAIN names : Survives(names, i)}) |->
            names[CHOOSE i \in DOMAIN names :
                     /\ Survives(names, i)
                     /\ Cardinality({j \in 1 .. i : Survives(names, j)}) = k]]
=============================================================================
