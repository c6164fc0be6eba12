---------------------------- MODULE MCDistributor ----------------------------
(* Small instances of Distributor for TLC. *)
EXTENDS Distributor

CONSTANTS c1, c2, c3, a, b, e

\* Every connection asks for a name of its own.
OwnNames == c1 :> {a} @@ c2 :> {b} @@ c3 :> {e}

\* Connections and their names change places together.
Renaming(f) ==
    LET chans == <<c1, c2, c3>>
        names == <<a, b, e>>
    IN  [x \in {c1, c2, c3} |-> chans[f[CHOOSE i \in 1 .. 3 : x = chans[i]]]] @@
        [x \in {a, b, e} |-> names[f[CHOOSE i \in 1 .. 3 : x = names[i]]]]

OwnerSymmetry == {Renaming(f) : f \in Permutations(1 .. 3)}

\* Every connection asks for any name, the empty one included, as often as it
\* likes.
AnyNames == [c \in Channel |-> Name]

Symmetry == Permutations(Channel) \cup Permutations(Name \ {Anon})

\* sent is an output: no guard reads it, so two states that differ only in it
\* have the same continuations.  The action properties are evaluated on every
\* step, also on those that lead to a state already seen.
View == <<users, sessions, selfName, chan, running, strayed>>
==============================================================================
