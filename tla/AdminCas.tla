------------------------------ MODULE AdminCas ------------------------------
(***************************************************************************)
(* What the admin API promises: the data authentication and the            *)
(* configurations of all namespaces are one object, changed by             *)
(* compare-and-swap in single steps, in which every configuration is one   *)
(* that the mode of the data authentication allows.                        *)
(***************************************************************************)
CONSTANTS
    Namespaces,
    DataAuth,       \* the target of a write that is not a namespace
    Writes,         \* the admin's writes; a write names the revision it generates
    Initial,        \* the revision of what startup loaded
    NoRevision      \* no revision: the namespace does not exist

Targets == Namespaces \cup {DataAuth}
Revisions == Writes \cup {Initial}

Modes == {"unconfigured", "client_provider_key", "proxy_key"}

\* What matters of a configuration here: whether it has upstreams, and where
\* their provider keys come from.
Configs == {"empty", "inline", "keyless", "env"}

\* validate_runtime_config: the configurations a mode allows.
Allowed(m) ==
    CASE m = "unconfigured" -> {"empty"}
      [] m = "client_provider_key" -> Configs \ {"inline"}
      [] m = "proxy_key" -> Configs \ {"keyless"}

VARIABLES
    mode,           \* of the data authentication
    current,        \* current[x]: the revision of a namespace or of the data auth
    config,         \* config[n], meaningful where current[n] # NoRevision
    target,         \* target[w]: what write w replaces,
    expected,       \* its if_revision,
    payload,        \* and what it puts there
    outcome         \* "idle", "pending", "applied" or "refused"

state == <<mode, current, config>>
writes == <<target, expected, payload>>
vars == <<state, writes, outcome>>

Loaded == {n \in Namespaces : current[n] # NoRevision}

Init ==
    /\ mode \in Modes
    /\ current \in [Targets -> {Initial, NoRevision}] /\ current[DataAuth] = Initial
    /\ config \in [Namespaces -> Configs]
    /\ \A n \in Namespaces : config[n] = "empty" <=> n \notin Loaded
    /\ \A n \in Loaded : config[n] \in Allowed(mode)
    /\ \A n, m \in Loaded : n = m      \* startup loads one namespace, with upstreams
    /\ target = [w \in Writes |-> DataAuth]
    /\ expected = [w \in Writes |-> NoRevision]
    /\ payload = [w \in Writes |-> "proxy_key"]
    /\ outcome = [w \in Writes |-> "idle"]

Submit(w) ==
    /\ outcome[w] = "idle"
    /\ outcome' = [outcome EXCEPT ![w] = "pending"]
    /\ \E what \in Targets, ifRevision \in Revisions \cup {NoRevision}, new \in Configs \cup Modes :
          /\ target' = [target EXCEPT ![w] = what]
          /\ expected' = [expected EXCEPT ![w] = ifRevision]
          /\ payload' = [payload EXCEPT ![w] = new]
    /\ UNCHANGED state

\* A write takes effect at once or not at all, and only if its if_revision is
\* the revision of what it replaces. Nothing else changes with it.
Apply(w) ==
    /\ outcome[w] = "pending"
    /\ outcome' = [outcome EXCEPT ![w] = "applied"]
    /\ expected[w] = current[target[w]]
    /\ current' = [current EXCEPT ![target[w]] = w]
    /\ IF target[w] = DataAuth
       THEN /\ \A n \in Loaded : config[n] \in Allowed(payload[w])
            /\ mode' = payload[w]
            /\ UNCHANGED config
       ELSE /\ payload[w] \in Allowed(mode)
            /\ config' = [config EXCEPT ![target[w]] = payload[w]]
            /\ UNCHANGED mode
    /\ UNCHANGED writes

Refuse(w) ==
    /\ outcome[w] = "pending"
    /\ outcome' = [outcome EXCEPT ![w] = "refused"]
    /\ UNCHANGED <<state, writes>>

Next == \E w \in Writes : Submit(w) \/ Apply(w) \/ Refuse(w)

Spec == Init /\ [][Next]_vars
=============================================================================
