---------------------------- MODULE ServiceLoop ----------------------------
(***************************************************************************)
(* A process of the tool (src/tool/cli_main.cpp, cli.cpp, cli_commands.cpp *)
(* and log.cpp): it sets up its log, dispatches the command, and ends with *)
(* an exit code.  `service start' parses its arguments, finds its port,    *)
(* sets up what it serves from, and then waits for SIGINT or SIGTERM.      *)
(*                                                                         *)
(* Anybody may send a signal at any moment.  A signal is delivered between *)
(* two steps of the process; its handler is a frame on top of what it      *)
(* interrupts, which goes on only when the handler has returned.  A signal *)
(* waits while a handler for it runs, but one for the other may interrupt. *)
(* LOG_INFO takes a lock: localtime() and strftime() do, in the C library, *)
(* and a thread that asks for that lock while it holds it waits forever.   *)
(***************************************************************************)
EXTENDS CliOptions, FiniteSets

CONSTANTS Arguments, Files, Environments,  \* what a process may be started with
          MaxSignals                       \* bound on the signals sent

\* None is no text: a null pointer is not a string.
ASSUME ServiceAssumption ==
  /\ MaxSignals \in Nat
  /\ None \notin STRING
  /\ Arguments \subseteq Seq(STRING \cup {Missing}) /\ Missing # None
  /\ Files \subseteq Seq([var : STRING, value : STRING])
  /\ Environments \subseteq [Variables -> STRING \cup {None}]

VARIABLES command,  \* the command of the process
          helps,    \* whether --help or -h is among its arguments: "yes" or "no"
          service, args, file, env,  \* what else it was started with
          level,    \* the log level asked for: "info", or "error" for a quieter one
          logFile,  \* the log file asked for: "none", or one that "opens" or "fails"
          ready,    \* g_initialized: "yes" or "no"
          logs,     \* the level of g_config
          handle,   \* the log file of g_config: "none", "open", or "freed" by fclose()
          exit,     \* what cli_main() returned
          port,     \* the port that it reports
          pc,       \* where its main program is
          step,     \* the step of Setup that is next
          resource, \* the mail store or the HTTP subsystem: "down" or "up"
          running,  \* g_service_running: "yes" or "no"
          handled,  \* the signals that have a handler
          pending,  \* the signals sent and not delivered
          frames,   \* the handlers that run, the last on top
          lock,     \* the depth of the frame that holds the C library's lock
          asked,    \* whether a handler has asked the loop to end: "yes" or "no"
          sent      \* how many signals were sent

inputs == <<command, helps, service, args, file, env, level, logFile>>
logger == <<ready, logs, handle>>
signals == <<handled, pending, frames, lock, asked, sent>>
vars == <<inputs, logger, exit, port, pc, step, resource, running, signals>>

Signals == {"SIGINT", "SIGTERM"}
Services == DOMAIN OwnOption
Free == -1       \* nobody holds the lock
MainDepth == 0   \* the depth of the main program
NoEnvironment == [var \in Variables |-> None]
Over == {"done", "killed"}

\* Commands that are not for a service, with their exit codes: no command at all, one
\* that nobody registered, a completion for a shell that is known or not, and those
\* that print what they know, as "service list" does.
ExitCode == [none |-> "1", unregistered |-> "1", completion |-> "0", no_completion |-> "1",
             version |-> "0", list |-> "0"]
ServiceActions == {"start", "stop", "status", "unknown"}

\* The levels that main() sets, as far as LOG_INFO tells them apart.
Levels == {"info", "error"}

\* LOG_INFO gets past the level: that of g_config, or the one that it sets itself
\* when nothing is set up.
Logs == ready = "no" \/ logs = "info"

\* Whatever logs first sets up the log with defaults if nothing has.
AutoInit == IF ready = "yes" THEN UNCHANGED logger
            ELSE ready' = "yes" /\ logs' = "info" /\ handle' = "none"

\* A frame may begin a message; what stamps it with the time holds the lock.
MayLog == Logs /\ lock = Free

\* It is through with it, or there is nothing to write.
Logged(depth) == Logs => lock = depth

\* A registered command that finds --help or -h prints its help, also where -h is
\* the short name of host.
Registered == command \notin {"none", "unregistered", "completion", "no_completion"}
Help == Registered /\ helps = "yes"

Init == /\ command \in ServiceActions \cup DOMAIN ExitCode
        /\ helps \in {"yes", "no"}
        /\ service \in Services \cup {"unknown", None}
        /\ args \in Arguments
        /\ file \in Files
        /\ env \in Environments
        /\ ~Registered \/ helps = "yes" => args = <<>>
        /\ command # "start" \/ helps = "yes" => file = <<>> /\ env = NoEnvironment
        /\ level \in Levels
        /\ logFile \in {"none", "opens", "fails"}
        /\ ready = "no"
        /\ logs = "info"
        /\ handle = "none"
        /\ exit = None
        /\ port = None
        /\ pc = "main"
        /\ step = 1
        /\ resource = "down"
        /\ running = "no"
        /\ handled = {}
        /\ pending = {}
        /\ frames = <<>>
        /\ lock = Free
        /\ asked = "no"
        /\ sent = 0

----------------------------------------------------------------------------
\* The main program goes on only when no handler is on top of it.
MainAt(where) == pc = where /\ frames = <<>>

\* variant: the log is not marked as set up
LogInitUnmarked == "no"

\* Without the file that it is to write, log_init() does not mark the log as set up.
LogInit == IF logFile = "fails" THEN "no" ELSE "yes"

StartLog == /\ MainAt("main")
            /\ ready' = LogInit
            /\ logs' = level
            /\ handle' = IF logFile = "opens" THEN "open" ELSE "none"
            /\ pc' = "command"
            /\ UNCHANGED <<inputs, exit, port, step, resource, running, signals>>

Finish(code) == /\ exit' = code
                /\ pc' = "ending"
                /\ UNCHANGED <<inputs, port, step, resource, running, signals>>

Tell == /\ MainAt("command")
        /\ Help \/ (command \in DOMAIN ExitCode /\ ~ParseFails(args))
        /\ Finish(IF Help THEN "0" ELSE ExitCode[command])
        /\ UNCHANGED logger

\* parse_args() fails, or no service has the name, or nothing the action.
Refuse == /\ MainAt("command")
          /\ ~Help
          /\ \/ Registered /\ ParseFails(args)
             \/ command \in ServiceActions /\ (service \notin Services \/ command = "unknown")
          /\ Finish("1")
          /\ UNCHANGED logger

\* These log, and what `stop' cleans up is its own process's, which is not set up.
StopOrStatus == /\ MainAt("command")
                /\ ~Help
                /\ command \in {"stop", "status"}
                /\ ~ParseFails(args)
                /\ service \in Services
                /\ Finish("0")
                /\ AutoInit

Configure == /\ MainAt("command")
             /\ ~Help
             /\ command = "start"
             /\ ~ParseFails(args)
             /\ service \in Services
             /\ port' = GetOptionValue(args, Loaded(file), env)
             /\ pc' = "configured"
             /\ AutoInit
             /\ UNCHANGED <<inputs, exit, step, resource, running, signals>>

\* Nothing reads the options after this, so the model forgets them.
InitResource == /\ MainAt("configured")
                /\ resource' = "up"
                /\ args' = <<>>
                /\ file' = <<>>
                /\ env' = NoEnvironment
                /\ port' = None
                /\ pc' = "setup"
                /\ UNCHANGED <<command, helps, service, level, logFile, logger, exit, step, running, signals>>

\* variant: the flag is set when the handlers are in place
SetupFlagLast == <<"SIGINT", "SIGTERM", "flag">>

\* variant: the flag is not set
SetupWithoutFlag == <<"SIGINT", "SIGTERM">>

\* How the loop begins: g_service_running.store(true), then the handlers.
Setup == <<"flag", "SIGINT", "SIGTERM">>

SetUp == /\ MainAt("setup")
         /\ step <= Len(Setup)
         /\ step' = step + 1
         /\ running' = IF Setup[step] = "flag" THEN "yes" ELSE running
         /\ handled' = handled \cup ({Setup[step]} \cap Signals)
         /\ UNCHANGED <<inputs, logger, exit, port, pc, resource, pending, frames, lock, asked, sent>>

SetupEnds == /\ MainAt("setup")
             /\ step > Len(Setup)
             /\ pc' = "announcing"
             /\ UNCHANGED <<inputs, logger, exit, port, step, resource, running, signals>>

\* The messages of the main program while signals are handled, with what follows.
AfterLog == [announcing |-> "loop", terminated |-> "cleaning", cleaning |-> "cleanup"]

MainLog == /\ frames = <<>>
           /\ pc \in DOMAIN AfterLog
           /\ \/ /\ MayLog
                 /\ lock' = MainDepth
                 /\ pc' = pc
                 /\ AutoInit
              \/ /\ Logged(MainDepth)
                 /\ lock' = Free
                 /\ pc' = AfterLog[pc]
                 /\ UNCHANGED logger
           /\ UNCHANGED <<inputs, exit, port, step, resource, running,
                          handled, pending, frames, asked, sent>>

\* The test of the while loop.
Test == /\ MainAt("loop")
        /\ pc' = IF running = "yes" THEN "sleeping" ELSE "terminated"
        /\ UNCHANGED <<inputs, logger, exit, port, step, resource, running, signals>>

\* sleep(1) is over, after a second or because a handler ran.
WakeUp == /\ MainAt("sleeping")
          /\ pc' = "loop"
          /\ UNCHANGED <<inputs, logger, exit, port, step, resource, running, signals>>

CleanUp == /\ MainAt("cleanup")
           /\ resource' = "down"
           /\ exit' = "0"
           /\ pc' = "ending"
           /\ UNCHANGED <<inputs, logger, port, step, running, signals>>

\* log_cleanup(): fclose(), and then the rest.
CloseLog == /\ MainAt("ending")
            /\ handle' = IF handle = "open" THEN "freed" ELSE handle
            /\ pc' = "closed"
            /\ UNCHANGED <<inputs, ready, logs, exit, port, step, resource, running, signals>>

ForgetLog == /\ MainAt("closed")
             /\ handle' = "none"
             /\ ready' = "no"
             /\ pc' = "returning"
             /\ UNCHANGED <<inputs, logs, exit, port, step, resource, running, signals>>

Exit == /\ MainAt("returning")
        /\ pc' = "done"
        /\ UNCHANGED <<inputs, logger, exit, port, step, resource, running, signals>>

----------------------------------------------------------------------------
Kill(s) == /\ pc \notin Over
           /\ sent < MaxSignals
           /\ sent' = sent + 1
           /\ pending' = pending \cup {s}
           /\ UNCHANGED <<inputs, logger, exit, port, pc, step, resource, running,
                          handled, frames, lock, asked>>

Masked(s) == \E i \in 1..Len(frames) : frames[i].signal = s

\* Without a handler the process ends.
Deliver(s) == /\ pc \notin Over
              /\ s \in pending
              /\ ~Masked(s)
              /\ pending' = pending \ {s}
              /\ IF s \in handled
                 THEN /\ frames' = Append(frames, [signal |-> s, at |-> "log"])
                      /\ pc' = pc
                 ELSE /\ frames' = frames
                      /\ pc' = "killed"
              /\ UNCHANGED <<inputs, logger, exit, port, step, resource, running,
                             handled, lock, asked, sent>>

Depth == Len(frames)
HandlerAt(where) == pc \notin Over /\ frames # <<>> /\ Last(frames).at = where

\* LOG_INFO in the handler.
HandlerLog == /\ HandlerAt("log")
              /\ \/ /\ MayLog
                    /\ lock' = Depth
                    /\ frames' = frames
                    /\ AutoInit
                 \/ /\ Logged(Depth)
                    /\ lock' = Free
                    /\ frames' = [frames EXCEPT ![Depth].at = "store"]
                    /\ UNCHANGED logger
              /\ UNCHANGED <<inputs, exit, port, pc, step, resource, running,
                             handled, pending, asked, sent>>

HandlerStore == /\ HandlerAt("store")
                /\ running' = "no"
                /\ asked' = "yes"
                /\ frames' = Front(frames)
                /\ UNCHANGED <<inputs, logger, exit, port, pc, step, resource, handled, pending, lock, sent>>

Main == \/ StartLog
        \/ Tell
        \/ Refuse
        \/ StopOrStatus
        \/ Configure
        \/ InitResource
        \/ SetUp
        \/ SetupEnds
        \/ MainLog
        \/ Test
        \/ WakeUp
        \/ CleanUp
        \/ CloseLog
        \/ ForgetLog
        \/ Exit

Next == \/ Main
        \/ \E s \in Signals : Kill(s) \/ Deliver(s)
        \/ HandlerLog
        \/ HandlerStore

Spec == Init /\ [][Next]_vars

\* The process runs, and the kernel delivers what is pending.
FairSpec == /\ Spec
            /\ WF_vars(Main)
            /\ WF_vars(HandlerLog)
            /\ WF_vars(HandlerStore)
            /\ \A s \in Signals : WF_vars(Deliver(s))

----------------------------------------------------------------------------
TypeOK == /\ command \in ServiceActions \cup DOMAIN ExitCode
          /\ service \in Services \cup {"unknown", None}
          /\ level \in Levels
          /\ logFile \in {"none", "opens", "fails"}
          /\ ready \in {"yes", "no"}
          /\ logs \in Levels
          /\ handle \in {"none", "open", "freed"}
          /\ exit \in {None, "0", "1"}
          /\ pc \in {"main", "command", "ending", "closed", "returning", "configured", "setup", "loop", "sleeping", "cleanup"}
                     \cup DOMAIN AfterLog \cup Over
          /\ pc = "configured" => port # None
          /\ step \in 1..Len(Setup) + 1
          /\ resource \in {"down", "up"}
          /\ running \in {"yes", "no"}
          /\ handled \subseteq Signals
          /\ pending \subseteq Signals
          /\ frames \in Seq([signal : handled, at : {"log", "store"}])
          /\ Len(frames) <= Cardinality(Signals)
          /\ lock \in {Free} \cup 0..Len(frames)
          /\ asked \in {"yes", "no"}
          /\ sent \in 0..MaxSignals

\* Where a service may be told its port: the variable of all services, or its own.
PortVariables(name) == {"FEDERATED_PORT", OwnOption[name].env}

\* What the environment file, by the first definition of each, and the environment
\* of the process say of them.
Defines(var) == \E i \in 1..Len(file) : file[i].var = var
FileGives(name) == {file[i].value : i \in {k \in 1..Len(file) :
                                             /\ file[k].var \in PortVariables(name)
                                             /\ \A j \in 1..(k - 1) : file[j].var # file[k].var}}
EnvGives(name) == {env[var] : var \in PortVariables(name)} \ {None}

\* "CLI args > env file > env var > default" (cli.h:103).
PortIsOf(name) == IF args # <<>> THEN port = Last(args)
                  ELSE IF FileGives(name) # {} THEN port \in FileGives(name)
                  ELSE IF EnvGives(name) # {} THEN port \in EnvGives(name)
                  ELSE port = OwnOption[name].default

\* Every service gets its port that way.  Spec does not have this property, for two
\* reasons.  The search goes from one option to the next and asks file and environment
\* for each (cli.cpp:199), so FEDERATED_PORT of the environment comes before the own
\* variable of the file.  And it goes over the options of all services in order of
\* registration, so IMAP and HTTP get the variable and the default of SMTP, where
\* tests/e2e/test_imap.sh:46 expects `Port: 2143' with FEDERATED_IMAP_PORT=2143.
EveryPortIsOwn == pc = "configured" => PortIsOf(service)

\* The variable of all services is set in the environment only, and the own one of
\* the service in the file.
Crossed(name) == /\ args = <<>>
                 /\ env["FEDERATED_PORT"] # None /\ ~Defines("FEDERATED_PORT")
                 /\ Defines(OwnOption[name].env)

\* The service whose options the search comes to: the first of all, unless an
\* argument or the variable of all services ends it before.
AskedFor == IF args = <<>> /\ env["FEDERATED_PORT"] = None /\ ~Defines("FEDERATED_PORT")
            THEN "smtp" ELSE service

\* Nothing else departs from "CLI args > env file > env var > default" (cli.h:103):
\* a service has the port that these give it, or, where it is told nothing by what
\* all services share, the one that they give SMTP.  Only where the two variables are
\* crossed does the environment come before the file.
PortByPriority ==
  pc = "configured" => IF Crossed(AskedFor) THEN port \in EnvGives(AskedFor) ELSE PortIsOf(AskedFor)

\* Somebody waits for a lock that is held by what it interrupted.
Stuck == /\ HandlerAt("log")
         /\ Logs
         /\ lock \notin {Free, Depth}

\* A signal is never lost, whenever it comes: before the handlers, between them,
\* between the test of the flag and the sleep, or in the clean-up, it ends the
\* process, unless a handler waits for its own thread (NeverStuck).
SignalEnds == (sent > 0) ~> (pc \in Over \/ Stuck)

\* A process that was to serve and ends with success did serve, until a handler asked
\* it to stop, and has taken down what it set up ("graceful shutdown",
\* cli_commands.cpp:26).
EndsInOrder ==
  pc = "done" /\ command = "start" /\ ~Help /\ exit = "0" => asked = "yes" /\ resource = "down"

\* While the process works, no message is written that the level asked for excludes,
\* unless the log file could not be opened: then log_init() leaves the log unmarked,
\* and the first message sets it up anew with the default level.  This is about
\* LOG_INFO: the lines of LOG_HEADER are written at any level (log.cpp:249).
LevelIsKept == lock # Free /\ level = "error" => logFile = "fails" \/ pc = "returning"

\* "Signal handler for graceful shutdown" (cli_commands.cpp:26): a handler never
\* waits for the thread that it interrupted.
NeverStuck == ~Stuck

\* `start' that ends with success did serve.  Spec does not have this property: -h is
\* the short name of the option host (cli_commands.cpp:324), and `service start smtp
\* -h 0.0.0.0' prints the help (cli.cpp:445).
SuccessMeansServed == pc = "done" /\ command = "start" /\ exit = "0" => asked = "yes"

\* Nobody writes to a log file that is closed.  Spec does not have this property: the
\* handlers stay installed, and a signal may come when log_cleanup() has called
\* fclose() and not yet forgotten the file (log.cpp:41).
ClosedFileUnused == ~(handle = "freed" /\ lock # Free)
=============================================================================
