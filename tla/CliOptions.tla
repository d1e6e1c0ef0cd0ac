----------------------------- MODULE CliOptions -----------------------------
(***************************************************************************)
(* Where an option of the command line gets its value (src/tool/cli.cpp),  *)
(* for the one option whose name the service command and every service     *)
(* register: port.                                                         *)
(*                                                                         *)
(* The arguments are the values given with --port or -p, in order; Missing *)
(* is an option at the end that lacks its value.  An environment file is   *)
(* the sequence of its definitions, and the environment of the process a   *)
(* function from variables to values.                                      *)
(***************************************************************************)
EXTENDS Integers, Sequences, SequencesExt

CONSTANTS None,        \* a null pointer in place of a value
          Missing,     \* an option without its value
          MaxEnvVars   \* MAX_ENV_VARS: 100

ASSUME CliAssumption == MaxEnvVars \in Nat

\* The options named port in order of registration: that of the service command
\* comes first, and has no default.
PortOptions == << [env |-> "FEDERATED_PORT",      default |-> None],
                  [env |-> "FEDERATED_SMTP_PORT", default |-> "25"],
                  [env |-> "FEDERATED_IMAP_PORT", default |-> "143"],
                  [env |-> "FEDERATED_HTTP_PORT", default |-> "8080"] >>

\* The one that a service registers for itself.
OwnOption == [smtp |-> PortOptions[2], imap |-> PortOptions[3], http |-> PortOptions[4]]

\* Every service registers a default.
ASSUME DefaultAssumption == \A service \in DOMAIN OwnOption : OwnOption[service].default # None

Variables == {PortOptions[i].env : i \in 1..Len(PortOptions)}

ParseFails(args) == args # <<>> /\ Last(args) = Missing

\* set_option_value() replaces what an earlier argument stored.
StoredOption(args) == IF args = <<>> THEN None ELSE Last(args)

\* load_env_file() keeps the definitions that there is room for.
Loaded(file) == SubSeq(file, 1, IF Len(file) > MaxEnvVars THEN MaxEnvVars ELSE Len(file))

\* The first definition of a variable, or None.
InFile(lines, var) ==
  LET i == SelectInSeq(lines, LAMBDA line : line.var = var)
  IN  IF i = 0 THEN None ELSE lines[i].value

\* variant: asks the environment of the process first
GetEnvVarOfProcessFirst(lines, env, var) ==
  IF env[var] # None THEN env[var] ELSE InFile(lines, var)

GetEnvVar(lines, env, var) ==
  IF InFile(lines, var) # None THEN InFile(lines, var) ELSE env[var]

\* variant: an option without a default ends the search
OptionValueOfFirst(lines, env, options) ==
  GetEnvVar(lines, env, options[1].env)

\* What one option yields, from its variable or its default.
Yields(lines, env, option) ==
  IF GetEnvVar(lines, env, option.env) # None
  THEN GetEnvVar(lines, env, option.env) ELSE option.default

\* The value of the first option that yields one.
OptionValue(lines, env, options) ==
  LET values == [i \in 1..Len(options) |-> Yields(lines, env, options[i])]
      i == SelectInSeq(values, LAMBDA v : v # None)
  IN  IF i = 0 THEN None ELSE values[i]

GetOptionValue(args, lines, env) ==
  IF StoredOption(args) # None THEN StoredOption(args)
  ELSE OptionValue(lines, env, PortOptions)
=============================================================================
