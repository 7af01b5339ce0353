----------------------------- MODULE PathPolicy -----------------------------
(***************************************************************************)
(* How a path of a request becomes one below the root of its connection.   *)
(* A path as it is spelled is the sequence of its parts between slashes,   *)
(* and a part the sequence of its words between backslashes; a path that   *)
(* has been resolved is a sequence of parts.                               *)
(***************************************************************************)
EXTENDS Lists

Control == "control"     \* a word with a control character
Drives == {"c:"}
Outside == <<<<"..">>>>  \* what is refused

Absolute(path) == Len(path) > 1 /\ path[1] = <<"">>

(* A path with its backslashes read as slashes.                            *)
Slashed(path) == LET words == FlattenSeq(path) IN [i \in DOMAIN words |-> <<words[i]>>]

Follows(names, part) ==
    IF names = Outside \/ part \in {<<"">>, <<".">>} THEN names
    ELSE IF part # <<"..">> THEN Append(names, part)
    ELSE IF names = <<>> THEN Outside ELSE Front(names)
Normal(path) ==
    LET upto[i \in 0..Len(path)] ==
            IF i = 0 THEN <<>> ELSE Follows(upto[i - 1], path[i])
    IN upto[Len(path)]

(* sanitize: backslashes are legal in names, but if they were slashes the  *)
(* path should not lead out either.                                        *)
Escapes(path) == (\E part \in ToSet(path) : Len(part) > 1) /\ Normal(Slashed(path)) = Outside
Sanitize(path) ==
    IF Control \in ToSet(FlattenSeq(path)) \/ Escapes(path) THEN Outside ELSE Normal(path)

CanonicalRoot(root) ==
    LET clean == Sanitize(IF root[1][1] \in Drives THEN Slashed(root) ELSE root)
    IN IF clean = Outside THEN <<>> ELSE clean

(* resolve: an absolute path at the root loses it, and any other, as the   *)
(* listings spell them, is taken from the root.                            *)
Resolve(root, lock, path) ==
    LET top == CanonicalRoot(root)
        clean == Sanitize(path)
        absolute == clean \notin {Outside, <<>>} /\ Absolute(path)
    IN IF absolute /\ IsPrefix(top, clean) THEN SubSeq(clean, Len(top) + 1, Len(clean))
       ELSE IF absolute /\ lock THEN Sanitize(clean) ELSE clean
=============================================================================
