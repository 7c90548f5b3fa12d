------------------------------ MODULE CliConfig ------------------------------
(***************************************************************************)
(* Startup: main parses the command line, loads the configuration with    *)
(* Cli::get_config and panics on an error, otherwise goes on to start the  *)
(* adapter (src/main.rs:17-23, src/cli.rs:26-48).                          *)
(*                                                                         *)
(* The configuration file is abstracted to what get_config tells apart:   *)
(* whether it opens, whether serde_json reads a Config from it, and the   *)
(* socks_proxy field: absent, a string that is not a URI, or a URI with   *)
(* or without a scheme, a host and a port.                                 *)
(***************************************************************************)
\* What Uri::parse makes of a socks_proxy string: whether it parses, and
\* the parts the URI has (none when it does not parse).
ProxyString ==
    {[parses |-> FALSE, scheme |-> FALSE, host |-> FALSE, port |-> FALSE]}
        \cup [parses : {TRUE}, scheme : BOOLEAN, host : BOOLEAN, port : BOOLEAN]

\* The files the config argument can name.
ConfigFile ==
    [opens : BOOLEAN, deserializes : BOOLEAN, socks_proxy : {<<>>} \cup {<<u>> : u \in ProxyString},
     incoming_source : {"Systemd", "Path"}]

\* enum CliError, and the Ok result.
CliError == {"Io", "Deserialize", "Validation"}

VARIABLES
    file,     \* the file the config argument names
    phase,    \* "parsing", "configured", "running" or "panicked"
    metricsServer  \* whether start_metrics_grpc was called

cliVars == <<file, phase, metricsServer>>

\* Cli::get_config: File::open, then serde_json::from_reader, then, when a
\* socks_proxy is given, Uri::parse and the check that scheme, host and
\* port are all present; each failure returns at once with its CliError.
GetConfig(f) ==
    IF ~f.opens THEN "Io"
    ELSE IF ~f.deserializes THEN "Deserialize"
    ELSE IF f.socks_proxy = << >> THEN "Ok"
    ELSE IF ~f.socks_proxy[1].parses THEN "Validation"
    ELSE IF ~f.socks_proxy[1].scheme \/ ~f.socks_proxy[1].host \/ ~f.socks_proxy[1].port
            THEN "Validation"
    ELSE "Ok"

CliTypeOK ==
    /\ file \in ConfigFile
    /\ phase \in {"parsing", "configured", "running", "panicked"}
    /\ metricsServer \in BOOLEAN

\* Cli::parse: the path given on the command line names some file.
CliInit ==
    /\ file \in ConfigFile
    /\ phase = "parsing"
    /\ metricsServer = FALSE

\* main: the match on cli.get_config(); an Err panics (and, under
\* abort_on_panic, ends the process).
LoadConfig ==
    /\ phase = "parsing"
    /\ phase' = IF GetConfig(file) \in CliError THEN "panicked" ELSE "configured"
    /\ UNCHANGED <<file, metricsServer>>

\* The rest of main: the metrics server is started only when systemd hands
\* over the sockets; the gRPC server and the router are spawned, and main
\* waits for the shutdown signal.
Start ==
    /\ phase = "configured"
    /\ metricsServer' = (file.incoming_source = "Systemd")
    /\ phase' = "running"
    /\ UNCHANGED file

CliNext == LoadConfig \/ Start

CliSpec == CliInit /\ [][CliNext]_cliVars

=============================================================================
