------------------------------- MODULE MCGait -------------------------------
(***************************************************************************)
(* Gait with 1200 units to a cycle of 0.8 s, which makes the phase offsets *)
(* (1/2, 1/3, 1/6), 0.55 and 0.67 exact. A tick covers 20 ms, or a late    *)
(* one 40 ms.                                                              *)
(***************************************************************************)
EXTENDS Gait

MCSteps == {30, 60}

Setup(tripod, wave, ripple, overlap) ==
  [duty    |-> [TRIPOD |-> tripod, WAVE |-> wave, RIPPLE |-> ripple],
   overlap |-> [TRIPOD |-> 0, WAVE |-> overlap, RIPPLE |-> overlap]]

\* config.hpp: the wave's 0.8333 = 999.96 / 1200 is rounded down, so that its
\* swing windows overlap a little, as the code's do.
Shipped == Setup(660, 999, 804, 0)

\* A tripod too hasty ever to have every foot down; the groups of the others
\* drawn together, so that their swings overlap and all feet rest in between.
Provisioned == Setup(540, 1020, 780, 120)

MCSetups == {Shipped, Provisioned}

\* Of these, whatever gait has every foot down at some phase gets there from
\* every phase: CanRest asks for no more than that.
ASSUME RestsIfItEverDoes ==
  \A c \in Setups, g \in Gaits : CanRest[c][g] <=> \E p \in Phases : Grounded(c, g, p)
=============================================================================
