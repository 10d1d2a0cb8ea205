---- MODULE MCStreamTranslation ----
(***************************************************************************)
(* Small instances of StreamTranslation.                                   *)
(***************************************************************************)
EXTENDS StreamTranslation

AllPairs == {<<"chat", "anthropic">>, <<"chat", "responses">>, <<"anthropic", "chat">>,
             <<"anthropic", "responses">>, <<"responses", "chat">>, <<"responses", "anthropic">>}

\* An Anthropic stream spends two events on each block and four on the message.
Events == [chat |-> 5, anthropic |-> 10, responses |-> 7]
====
