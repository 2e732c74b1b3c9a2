------------------------------ MODULE MCDistro ------------------------------
EXTENDS Distro, TLC

\* An option is the plain one, with what its callers add.
Plain == [azure |-> "off", browser |-> FALSE, aks |-> FALSE, otlp |-> FALSE, a365 |-> "off",
          custom |-> FALSE, console |-> "default",
          instrumentation |-> [k \in InstrumentationKeys |-> "default"], suppressInput |-> FALSE,
          sensitive |-> FALSE, stats |-> TRUE]

AzureMonitor == [azure |-> "valid", browser |-> TRUE, aks |-> TRUE, a365 |-> "exporting",
                 suppressInput |-> TRUE, sensitive |-> TRUE] @@ Plain
Agent365 == [azure |-> "invalid", a365 |-> "on", aks |-> TRUE,
             instrumentation |-> ("console" :> "on") @@ ("redis4" :> "on") @@ ("openaiAgents" :> "off")
                                   @@ Plain.instrumentation] @@ Plain

MCOptions == [AzureMonitor |-> AzureMonitor, Agent365 |-> Agent365]

\* A parent process with the shim left a number.
MCInherited == [shim |-> FALSE, features |-> {"shim", "aks"}]
MCSetups == [sdk: Inits, flag: BOOLEAN]
=============================================================================
