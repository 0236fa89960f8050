---------------------------- MODULE MCTrainStep ----------------------------
(***************************************************************************)
(* Instances of TrainStep for TLC: rollouts of one to five sequences of    *)
(* every shape, and small ones with every log w, for each correction.      *)
(***************************************************************************)
EXTENDS TrainStep

CONSTANTS Sizes, Lengths, OptSteps, Micros, Exponents

Shape(f, o, m) ==
    [prompt |-> [i \in DOMAIN f |-> f[i][1]], out |-> [i \in DOMAIN f |-> f[i][2]],
     log_w |-> [i \in DOMAIN f |-> [j \in 1 .. f[i][2] |-> 0]],
     opt_steps |-> o, micro |-> m, correction |-> "none"]

\* Up to Sizes sequences, each of one of the Lengths; the weights are 1.
Shapes == UNION {{Shape(f, o, m) : f \in [1 .. n -> Lengths], o \in OptSteps, m \in Micros} :
                 n \in 1 .. Sizes}
MCLengths == {<<1, 3>>, <<2, 1>>, <<3, 2>>}

\* Two sequences of two tokens, in one minibatch or two.
Weighted ==
    {[prompt |-> <<1, 2>>, out |-> <<2, 2>>, log_w |-> <<<<e[1], e[2]>>, <<e[3], e[4]>>>>,
      opt_steps |-> o, micro |-> 1, correction |-> c] :
        e \in [1 .. 4 -> Exponents], o \in {1, 2}, c \in Correction \ {"none"}}

MCRollouts == Shapes \cup Weighted
MCExponents == -2 .. 2
MCWeight == [l \in MCExponents |-> 2 ^ (l + 2)]
=============================================================================
