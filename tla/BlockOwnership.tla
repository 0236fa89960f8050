--------------------------- MODULE BlockOwnership ---------------------------
(***************************************************************************)
(* What a block pool promises to the code that stores K/V through it, with *)
(* no free list and no lengths: every holder has a list of blocks, no      *)
(* block is in two places, and one step changes the list of one holder,    *)
(* only at its tail. Logical slot q of a holder is slot q % block_size of  *)
(* the (q \div block_size)-th block of its list, so a list that changed    *)
(* anywhere but at its tail would silently move K/V that is still in use.  *)
(***************************************************************************)
EXTENDS Integers, Sequences

CONSTANTS Block, Holder

VARIABLE held   \* held[h]: the blocks of h, in logical order

Disjoint(f) == \A g, h \in Holder : \A i \in 1 .. Len(f[g]), j \in 1 .. Len(f[h]) :
                   f[g][i] = f[h][j] => g = h /\ i = j

Init == held = [h \in Holder |-> << >>]

\* t starts with s.
Extends(t, s) == Len(s) <= Len(t) /\ \A i \in 1 .. Len(s) : t[i] = s[i]

\* h takes blocks nobody holds, after the ones it has, or gives up a tail of its list.
Change(h) == /\ held' \in [Holder -> Seq(Block)]
             /\ Extends(held'[h], held[h]) \/ Extends(held[h], held'[h])
             /\ \A g \in Holder \ {h} : held'[g] = held[g]
             /\ Disjoint(held')

Next == \E h \in Holder : Change(h)

Spec == Init /\ [][Next]_held
=============================================================================
