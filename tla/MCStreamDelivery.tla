-------------------------- MODULE MCStreamDelivery --------------------------
(***************************************************************************)
(* Small instances of StreamDelivery for TLC.                              *)
(***************************************************************************)
EXTENDS StreamDelivery

\* The chains that pass frames on only tell those that are refused, or too large, apart.
\* The limit on frames is read where the one on events is: one chain of the two has it.
FramesByChain ==
    [translated |-> AllFrames \ {"huge"},
     guarded |-> {"delta", "reject", "huge"},
     raw |-> {"delta", "finish"}]
=============================================================================
