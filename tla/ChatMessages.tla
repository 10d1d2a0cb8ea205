---------------------------- MODULE ChatMessages ----------------------------
(***************************************************************************)
(* The Chat Completions message, the pivot of every translation            *)
(* (translate/internal.rs and translate/internal/openai_family.rs), and    *)
(* the role repairs made on lists of messages.                             *)
(*                                                                         *)
(* Content is the sequence of what can be seen in it - texts, images,      *)
(* refusals and notes the proxy writes - whether the code holds it as a    *)
(* string, as parts or as nothing at all: joining texts keeps the sequence.*)
(***************************************************************************)
EXTENDS ToolBridge

Thing(kind, value) == [kind |-> kind, value |-> value]
Text(value) == Thing("text", value)
Shows(content, kinds) == SelectSeq(content, LAMBDA thing : thing.kind \in kinds)

Message(role, content) ==
    [role |-> role, content |-> content, calls |-> <<>>, id |-> "",
     reasoning |-> <<>>, replay |-> <<>>, refusal |-> <<>>]

\* The result of the call id.
ToolMessage(id, content) == [Message("tool", content) EXCEPT !.id = id]

\* A translation returns a body or an error.
Failed == [ok |-> FALSE]
Done(body) == [ok |-> TRUE, body |-> body]

\* A message holds nothing but its role and its content.
OnlySpeaks(message) == message = Message(message.role, message.content)

\* coalesce_openai_string_messages: neighbours that only speak, in text, are joined.
Coalesced(messages) ==
    LET joins(one, other) ==
            /\ one.role = other.role /\ OnlySpeaks(one) /\ OnlySpeaks(other)
            /\ one.role # "tool" /\ Shows(one.content \o other.content, {"image"}) = <<>>
        join(list, message) ==
            IF list # <<>> /\ joins(Last(list), message)
            THEN Front(list) \o <<[Last(list) EXCEPT !.content = @ \o message.content]>>
            ELSE Append(list, message)
    IN  FoldLeft(join, <<>>, messages)

\* downgrade_openai_instruction_messages_to_user_for_maximum_safe_compatibility:
\* instructions in text are announced as such, all of them become the user's.
Downgraded(messages) ==
    LET instruct(message) ==
            IF message.role \notin {"system", "developer"} THEN message
            ELSE [message EXCEPT !.role = "user",
                                 !.content = IF Shows(@, {"image", "refusal"}) # <<>> THEN @
                                             ELSE <<Thing("label", message.role)>> \o @]
    IN  Coalesced([i \in DOMAIN messages |-> instruct(messages[i])])
=============================================================================
