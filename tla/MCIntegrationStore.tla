------------------------- MODULE MCIntegrationStore -------------------------
(* Instance of IntegrationStore for TLC.                                   *)
EXTENDS IntegrationStore

CONSTANTS jira, docs, claude, copilot

\* The second version of jira drops a command and a hook, brings a command and
\* a hook, and has an alias that docs has too.
MCDeclares ==
    [e \in Exts |->
        IF e = jira
          THEN <<[commands |-> {"jira.run"}, aliases |-> {}, hooks |-> {"before"}],
                 [commands |-> {"jira.go"}, aliases |-> {"x"}, hooks |-> {"after"}]>>
          ELSE <<[commands |-> {"docs.run"}, aliases |-> {"x"}, hooks |-> {"after"}]>>]

=============================================================================
