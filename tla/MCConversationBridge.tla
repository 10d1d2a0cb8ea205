---- MODULE MCConversationBridge ----
(***************************************************************************)
(* Small instances of ConversationBridge. Turns are interchangeable until  *)
(* they begin, so their permutations are a symmetry.                       *)
(***************************************************************************)
EXTENDS ConversationBridge, TLC

CONSTANTS c1, c2

TurnSymmetry == Permutations(Turns)

\* Two calls of either kind, answered rightly and wrongly.
SomeInputs ==
    {<<Message>>, <<Output("function", c1)>>, <<Output("custom", c1)>>,
     <<Output("function", c1), Message>>, <<Message, Output("function", c1)>>,
     <<Output("function", c1), Output("function", c1)>>, <<Output("custom", c1), Output("function", c1)>>,
     <<Output("function", c2), Output("function", c1)>>}
SomeAnswers ==
    {<<>>, <<Message>>, <<Call("function", c1)>>, <<Call("function", c1), Call("custom", c1)>>,
     <<Call("function", c1), Call("function", c2)>>, <<Call("function", c1), Call("function", c1)>>}

\* What happens around the turns, the clock, a configuration and a rotation, at most
\* two of them in one behaviour, is combined with plain text only: what the calls are
\* makes no difference to it.
OneTroubleAtATime ==
    \/ now = 0 /\ generation = 0 /\ \A n \in Namespaces : revision[n] = 0
    \/ /\ \A t \in Turns : transcript[t] = [i \in DOMAIN transcript[t] |-> Message]
       /\ now = 0 \/ generation = 0 \/ \A n \in Namespaces : revision[n] = 0
====
