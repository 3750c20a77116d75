------------------------------- MODULE RowLimit -------------------------------
(***************************************************************************)
(* Which row limit a datasource instance gets when it is constructed:      *)
(* newRowLimit of datasource.go.                                           *)
(***************************************************************************)
EXTENDS Integers

\* A source of the limit that may not be set, or may be set to something that
\* is not a number.
Unset == [kind |-> "unset", value |-> 0]
Invalid == [kind |-> "invalid", value |-> 0]
Number(n) == [kind |-> "number", value |-> n]

NoLimit == -1  \* defaultRowLimit

\* config.enabled   EnableRowLimit, set by the plugin or by SetDefaultRowLimit
\* config.settings  DriverSettings.RowLimit, 0 for none
\* config.env       GF_DATAPROXY_ROW_LIMIT
\* config.grafana   the SQL configuration in the context
\* config.default   what SetDefaultRowLimit set before the construction, or an
\*                  earlier construction of the same value left; 0 for none
\* config.late      the argument of a later SetDefaultRowLimit, 0 for none

\* Mutant of NewRowLimit: the environment is asked before the settings.
NewRowLimitEnvFirst(config) ==
    CASE ~config.enabled -> NoLimit
      [] config.env.kind = "number" /\ config.env.value >= 0 -> config.env.value
      [] config.settings # 0 -> config.settings
      [] config.grafana.kind = "number" -> config.grafana.value
      [] config.default # 0 -> config.default
      [] OTHER -> NoLimit

NewRowLimit(config) ==
    IF ~config.enabled THEN NoLimit
    ELSE IF config.settings # 0 THEN config.settings
    ELSE IF config.env.kind = "number" /\ config.env.value >= 0 THEN config.env.value
    ELSE IF config.grafana.kind = "number" THEN config.grafana.value
    ELSE IF config.default # 0 THEN config.default
    ELSE NoLimit

=============================================================================
