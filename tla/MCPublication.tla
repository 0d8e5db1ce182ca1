--------------------------- MODULE MCPublication ---------------------------
(* A small instance: one runnable arm, one planned; the selectors name it     *)
(* once, twice, and not at all.                                              *)
EXTENDS Publication

MCCatalog == <<[entrant |-> "spate", variant |-> "native", runnable |-> TRUE],
               [entrant |-> "planned", variant |-> "v", runnable |-> FALSE]>>
MCAsks == {<<[entrant |-> "spate", variant |-> Star]>>,
           <<[entrant |-> Star, variant |-> Star], [entrant |-> "spate", variant |-> "native"]>>,
           <<[entrant |-> "planned", variant |-> Star]>>}
\* An ordinary sweep and one in another mode, one on a fixture, a tuning sweep, and
\* a knob overridden under a publishable trigger, which is refused.
MCOptions ==
  {[reps |-> 2, group |-> "drain", bars |-> FALSE, fixture |-> FALSE, knobs |-> FALSE, failFast |-> FALSE],
   [reps |-> 1, group |-> "sustained", bars |-> FALSE, fixture |-> FALSE, knobs |-> FALSE, failFast |-> FALSE],
   [reps |-> 1, group |-> "drain", bars |-> FALSE, fixture |-> TRUE, knobs |-> FALSE, failFast |-> TRUE],
   [reps |-> 1, group |-> "drain", bars |-> TRUE, fixture |-> FALSE, knobs |-> TRUE, failFast |-> FALSE],
   [reps |-> 1, group |-> "drain", bars |-> FALSE, fixture |-> FALSE, knobs |-> TRUE, failFast |-> FALSE]}
=============================================================================
