-------------------------- MODULE MCSimpleCommand --------------------------
EXTENDS SimpleCommand

\* An enforcing callback in each of five stages, or an advisory and an enforcing
\* one in a single stage.
MCTables ==
  {[s \in Stages |-> IF s \in {"before", "dispatch", "policy", "builtin", "exec"}
                     THEN <<TRUE>> ELSE <<>>]}
    \union {[s \in Stages |-> IF s = t THEN <<FALSE, TRUE>> ELSE <<>>] : t \in Stages}
=============================================================================
