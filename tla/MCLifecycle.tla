----------------------------- MODULE MCLifecycle -----------------------------
(* Lifecycle on environments in which at most two settings are set, or none. *)
EXTENDS Lifecycle

\* Numbers below, at and above each parser's boundary, one whose products leave
\* -128..127, and one that does not fit itself.
RawValues == {Blank, Text("with @"), Text("other")}
    \union {Number(n) : n \in {-1, 0, 1, 20, 64, 200}}

MCEnvironments ==
    {[s \in Settings |-> IF s = s1 THEN v1 ELSE IF s = s2 THEN v2 ELSE Unset] :
        s1 \in Settings, s2 \in Settings, v1 \in RawValues, v2 \in RawValues}

\* Nothing is set: every default.
MCDefaults == {[s \in Settings |-> Unset]}
=============================================================================
