------------------------------ MODULE MCDialogue ------------------------------
(***************************************************************************)
(* Small instances of Dialogue.                                            *)
(***************************************************************************)
EXTENDS Dialogue

AllPairs == {<<c, u>> \in Formats \X Formats : c # u}

Tool(kind, name, children) == [kind |-> kind, name |-> name, children |-> children]
Read == Tool("function", <<"read">>, <<>>)
Patch == Tool("custom", <<"patch">>, <<>>)
Files == Tool("namespace", <<"files">>, <<<<"list">>>>)
Boxes == [chat |-> {<<Read>>}, anthropic |-> {<<Read>>}, responses |-> {<<Read, Patch>>, <<Patch, Files>>}]

\* Only a Chat client keeps the proxy's word that a call is a server tool's.
OwnTools == [chat |-> {<<"search">>}, anthropic |-> {}, responses |-> {}]

Agents == {FlatName(Files.name, Files.children[1]), <<"agent_message">>}

SomeEdits ==
    {<<>>, <<[type |-> "clear_tool_uses", keep |-> 1, inputs |-> TRUE, excluded |-> {}]>>,
     <<[type |-> "clear_thinking", keep |-> 1],
       [type |-> "clear_tool_uses", keep |-> 1, inputs |-> FALSE, excluded |-> {}]>>,
     <<[type |-> "clear_tool_uses", keep |-> 1, inputs |-> FALSE, excluded |-> {}],
       [type |-> "clear_thinking", keep |-> 1]>>}
=============================================================================
