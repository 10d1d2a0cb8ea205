-------------------------- MODULE ToolDefinitions --------------------------
(***************************************************************************)
(* Tool definitions on their way between the protocols                     *)
(* (translate/internal/tools.rs). A Responses client may declare tools no  *)
(* other protocol has: custom tools, whose input is free text, and         *)
(* namespaces of functions. Towards another upstream both become functions *)
(* - a custom tool one with a single string argument, a namespaced tool    *)
(* one named after namespace and child - and the request's bridge context  *)
(* says how the calls of the answer are turned back.                       *)
(*                                                                         *)
(* A name is the sequence of its "__"-separated segments.                  *)
(***************************************************************************)
EXTENDS Naturals, SequencesExt, FiniteSetsExt

\* An optional value is a sequence of at most one.
Nothing == <<>>

\* The proxy's own segment: a public name that starts with it is reserved.
Reserved(name) == Len(name) > 1 /\ name[1] = "__llmup_custom"

----------------------------------------------------------------------------
(* Definitions: [kind, name, children], kind in function, custom, namespace, hosted *)

\* The tools of a list that pass a test, in their order
Those(tools, Passes(_)) == FlattenSeq([i \in DOMAIN tools |-> IF Passes(tools[i]) THEN <<tools[i]>> ELSE <<>>])

\* normalized_responses_tool_definition: none for a tool that is left out;
\* the namespaces that are kept have functions only.
NormalizedTools(tools) == Those(tools, LAMBDA t : t.kind # "hosted")

FlatName(namespace, child) == namespace \o child

\* validate_responses_request_for_custom_bridge
PublicNamesAllowed(tools) ==
    \A i \in DOMAIN tools : ~Reserved(tools[i].name) /\ \A c \in ToSet(tools[i].children) : ~Reserved(c)

\* request_scoped_openai_custom_bridge_context: which functions stand for
\* custom tools, and which for the child of a namespace.
BridgeContext(tools) ==
    LET namespaces == {t \in ToSet(tools) : t.kind = "namespace"} IN
    [custom |-> {t.name : t \in {x \in ToSet(tools) : x.kind = "custom"}},
     split  |-> [flat \in UNION {{FlatName(t.name, c) : c \in ToSet(t.children)} : t \in namespaces} |->
                    CHOOSE pair \in UNION {{<<t.name, c>> : c \in ToSet(t.children)} : t \in namespaces} :
                        FlatName(pair[1], pair[2]) = flat]]

NoBridge == [custom |-> {}, split |-> [flat \in {} |-> <<>>]]

\* The names of the functions a list of tools becomes, one by one.
FunctionNames(tools) ==
    FlattenSeq([i \in DOMAIN tools |->
        IF tools[i].kind = "namespace" THEN [c \in DOMAIN tools[i].children |-> FlatName(tools[i].name, tools[i].children[c])]
                                       ELSE <<tools[i].name>>])

\* request_scoped_openai_custom_bridge_conflict_name: a function and a custom tool share a name
CustomConflict(tools) ==
    \E i, j \in DOMAIN tools : tools[i].kind = "function" /\ tools[j].kind = "custom" /\ tools[i].name = tools[j].name

\* request_scoped_openai_namespace_bridge_conflict_name
NamespaceConflict(tools) ==
    LET single == {t.name : t \in {x \in ToSet(tools) : x.kind # "namespace"}}
        flats == FunctionNames(Those(tools, LAMBDA t : t.kind = "namespace"))
    IN  \/ \E i \in DOMAIN flats : Reserved(flats[i]) \/ flats[i] \in single
        \/ ~IsInjective(flats)
=============================================================================
