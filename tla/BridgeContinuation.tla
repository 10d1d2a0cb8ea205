------------------------- MODULE BridgeContinuation -------------------------
(***************************************************************************)
(* When may a continuation follow a stored conversation?  The pure part of *)
(* the conversation bridge (proxy.rs): which tool calls a transcript leaves *)
(* open, and which items a continuation must begin with.                   *)
(*                                                                         *)
(* A transcript is a sequence of items. Of an item only its type, the kind *)
(* of tool and the call id matter here.                                    *)
(***************************************************************************)
EXTENDS Integers, Sequences, FiniteSets

ToolKinds == {"function", "custom"}

Message == [type |-> "message"]
Call(kind, id) == [type |-> "call", kind |-> kind, id |-> id]
Output(kind, id) == [type |-> "output", kind |-> kind, id |-> id]

Items(ids) ==
    {Message} \cup {Call(k, c) : k \in ToolKinds, c \in ids}
              \cup {Output(k, c) : k \in ToolKinds, c \in ids}

IsOutput(item) == item.type = "output"

\* PendingBridgeToolCall: what an output item has to match.
Key(item) == <<item.kind, item.id>>

\* The scan of pending_bridge_tool_calls failed: the transcript is malformed.
Malformed == {<<"malformed">>}

\* Mutant: a second call with the id of a pending one is refused, whatever its kind.
ScanById(pending, item) ==
    IF pending = Malformed THEN Malformed ELSE
    CASE item.type = "message" -> pending
      [] item.type = "call" ->
            IF \E p \in pending : p[2] = item.id THEN Malformed ELSE pending \cup {Key(item)}
      [] item.type = "output" ->
            IF Key(item) \in pending THEN pending \ {Key(item)} ELSE Malformed

\* One item of the scan: a call may not be pending already, an output closes
\* the pending call of its id and kind, and there must be one.
ScanItem(pending, item) ==
    IF pending = Malformed THEN Malformed ELSE
    CASE item.type = "message" -> pending
      [] item.type = "call" ->
            IF Key(item) \in pending THEN Malformed ELSE pending \cup {Key(item)}
      [] item.type = "output" ->
            IF Key(item) \in pending THEN pending \ {Key(item)} ELSE Malformed

PendingCalls(items) ==
    LET pending[i \in 0..Len(items)] ==
            IF i = 0 THEN {} ELSE ScanItem(pending[i - 1], items[i])
    IN  pending[Len(items)]

\* Mutant: what follows the outputs is not looked at.
ContinuationLoose(stored, current) ==
    LET pending == PendingCalls(stored)
        n == Cardinality(pending)
    IN  /\ pending # Malformed
        /\ Len(current) >= n
        /\ \A i \in 1..n : IsOutput(current[i]) /\ Key(current[i]) \in pending
        /\ \A i, j \in 1..n : i # j => Key(current[i]) # Key(current[j])

\* validate_bridge_continuation_items
ContinuationAllowed(stored, current) ==
    LET pending == PendingCalls(stored)
        n == Cardinality(pending)
    IN  /\ pending # Malformed
        /\ Len(current) >= n
        /\ \A i \in 1..n : IsOutput(current[i]) /\ Key(current[i]) \in pending
        /\ \A i, j \in 1..n : i # j => Key(current[i]) # Key(current[j])
        /\ \A i \in n + 1..Len(current) : current[i].type = "message"

-----------------------------------------------------------------------------
(* The reference: said without scanning or counting. *)

\* The calls of a transcript that no later output answers.
Unanswered(items) ==
    {Key(items[i]) : i \in {k \in DOMAIN items :
        /\ items[k].type = "call"
        /\ ~ \E j \in k + 1..Len(items) : IsOutput(items[j]) /\ Key(items[j]) = Key(items[k])}}

\* Each output answers a call before it, with no second call or output of the
\* same key in between.
WellFormed(items) ==
    \A j \in DOMAIN items :
        LET same == {i \in 1..j - 1 : items[i].type # "message" /\ Key(items[i]) = Key(items[j])}
            last == CHOOSE i \in same : \A k \in same : k <= i
        IN  CASE items[j].type = "message" -> TRUE
              [] items[j].type = "output" -> same # {} /\ items[last].type = "call"
              [] items[j].type = "call" -> same = {} \/ IsOutput(items[last])

\* The continuation is the answers, in any order and each once, and then messages.
AnswersThenMessages(stored, current) ==
    /\ WellFormed(stored)
    /\ \E n \in 0..Len(current) :
          /\ {Key(current[i]) : i \in {k \in 1..n : IsOutput(current[k])}} = Unanswered(stored)
          /\ n = Cardinality(Unanswered(stored))
          /\ \A i \in n + 1..Len(current) : current[i] = Message
=============================================================================
