----------------------------- MODULE DnsTunnel -----------------------------
(***************************************************************************)
(* The DNS tunnel (src/transport/dns_tunnel.cpp): each message becomes a   *)
(* DNS query, held back by a rate limiter that sleeps by the wall clock.   *)
(*                                                                         *)
(* Time passes in ticks, and a sleep lasts at least as long as it was asked *)
(* to.  Instead of the time of the last query the model keeps how long ago *)
(* it was, age, and by how much the wall clock was set since, drift: the   *)
(* limiter sees age + drift, and a negative value as a huge one, since it  *)
(* subtracts unsigned numbers.  A configuration is a record; its server    *)
(* and its domain are one name, and its interval is 1000 / max_qps.        *)
(***************************************************************************)
EXTENDS Integers, FiniteSets

CONSTANTS Configs,    \* configurations: name, valid, interval, minJitter, maxJitter;
                      \* "no" is valid when the server is not an address
          Second,     \* how far back or forward the wall clock is set
          LongAgo,    \* bound on age: more than any interval and jitter
          Never,      \* age before the first query
          MaxId       \* bound on the queries of a session

ASSUME DnsAssumption ==
  /\ Second \in Nat /\ LongAgo \in Nat /\ MaxId \in Nat /\ Never \notin Int
  /\ \A c \in Configs : /\ c.interval \in Nat
                        /\ c.minJitter \in Nat
                        /\ c.maxJitter \in Nat
                        /\ c.interval + c.minJitter <= LongAgo
                        /\ c.interval + Second <= LongAgo
                        /\ c.maxJitter <= LongAgo

VARIABLES config,    \* g_config
          tunnel,    \* is_open: "open" or "closed"
          socket,    \* socket_fd: "open" or "invalid"
          server,    \* the name in dns_server_addr
          limits,    \* the interval and jitters of the rate limiter
          nextId,    \* transaction_id
          age,       \* since last_query_time_ms, or Never
          drift,     \* by how much the wall clock was set since
          clock,     \* whether it was set since: "steady" or "set"
          since,     \* how long ago the limiter let a query go, or Never
          pc,        \* the step that the call in progress is at
          size,      \* the message that send() was called with
          left,      \* what is left of a sleep
          inbox,     \* datagrams in the socket
          query,     \* the query sent last, or none
          ret        \* what the last call returned

limiter == <<limits, age, drift, clock, since>>
vars == <<config, tunnel, socket, server, limiter, nextId, pc, size, left, inbox, query, ret>>

\* The sizes of messages that send() tells apart: 0, 1 to 39, 40 to 149 (a label
\* of more than 63 characters), 150 to 200 (a name of more than 252), and more.
Sizes == {"empty", "fits", "long_label", "long_name", "large"}
Datagrams == {"short", "answer"}
NoQuery == [id |-> 0, server |-> "none", domain |-> "none"]
Limits(c) == [interval |-> c.interval, minJitter |-> c.minJitter, maxJitter |-> c.maxJitter]

Init == /\ config \in Configs
        /\ tunnel = "closed"
        /\ socket = "invalid"
        /\ server = "none"
        /\ limits = Limits(config)
        /\ nextId = 1
        /\ age = Never
        /\ drift = 0
        /\ clock = "steady"
        /\ since = Never
        /\ pc = "idle"
        /\ size = "empty"
        /\ left = 0
        /\ inbox = {}
        /\ query = NoQuery
        /\ ret = "OK"

Return(code) == pc' = "idle" /\ ret' = code

----------------------------------------------------------------------------
\* Callers configure before they open (dns_tunnel.h:75); the code does not look whether
\* they do (dns_tunnel.cpp:419).
Configure(c) == /\ pc = "idle"
                /\ tunnel = "closed"
                /\ config' = c
                /\ UNCHANGED <<tunnel, socket, server, limiter, nextId, pc, size, left,
                               inbox, query, ret>>

\* variant: an address that is there already is kept
ServerKept == IF server = "none" THEN config.name ELSE server

\* The address that open() takes from the configuration.
ServerOfConfig == config.name

Open == /\ pc = "idle"
        /\ \/ /\ tunnel = "open"
              /\ Return("OK")
              /\ UNCHANGED <<config, tunnel, socket, server, limiter, nextId, size, left, inbox, query>>
           \/ /\ tunnel = "closed"  \* socket() fails
              /\ Return("ERR_IO")
              /\ UNCHANGED <<config, tunnel, socket, server, limiter, nextId, size, left, inbox, query>>
           \/ /\ tunnel = "closed"  \* inet_pton() does
              /\ config.valid = "no"
              /\ Return("ERR_IO")
              /\ server' = "none"
              /\ UNCHANGED <<config, tunnel, socket, limiter, nextId, size, left, inbox, query>>
           \/ /\ tunnel = "closed"
              /\ config.valid = "yes"
              /\ tunnel' = "open"
              /\ socket' = "open"
              /\ server' = ServerOfConfig
              /\ limits' = Limits(config)
              /\ nextId' = 1
              /\ Return("OK")
              /\ UNCHANGED <<config, age, drift, clock, since, size, left, inbox, query>>

\* What waits in the socket goes with it; the limiter remembers the last query.
Close == /\ pc = "idle"
         /\ tunnel' = "closed"
         /\ socket' = "invalid"
         /\ inbox' = {}
         /\ Return("OK")
         /\ UNCHANGED <<config, server, limiter, nextId, size, left, query>>

\* send() refuses, or the limiter looks at the clock.
Send(s) == /\ pc = "idle"
           /\ size' = s
           /\ \/ /\ tunnel = "closed"
                 /\ Return("ERR_IO")
              \/ /\ tunnel = "open"
                 /\ s \in {"empty", "large"}
                 /\ Return("ERR_FORMAT")
              \/ /\ tunnel = "open"
                 /\ s \notin {"empty", "large"}
                 /\ pc' = "limit"
                 /\ ret' = ret
           /\ UNCHANGED <<config, tunnel, socket, server, limiter, nextId, left, inbox, query>>

Elapsed == age + drift

\* variant: does not ask whether anything is missing
WaitUntested == IF age = Never THEN 0 ELSE limits.interval - Elapsed

\* It sleeps for what is missing, and does not look at the clock again.  The model has
\* no usleep() that a signal ends early: its result is not looked at (dns_tunnel.cpp:37).
Wait == IF age = Never THEN 0
        ELSE IF Elapsed >= 0 /\ Elapsed < limits.interval THEN limits.interval - Elapsed ELSE 0

Limit == /\ pc = "limit"
         /\ left' = Wait
         /\ pc' = "waiting"
         /\ UNCHANGED <<config, tunnel, socket, server, limiter, nextId, size, inbox, query, ret>>

Jitters == IF limits.maxJitter > limits.minJitter
           THEN limits.minJitter .. limits.maxJitter - 1 ELSE {limits.minJitter}

\* variant: the time of the query is taken before the jitter
TakesTimeBeforeJitter(step) == step = "jitter"

\* The limiter takes the time of the query when it lets the query go.
TakesTime(step) == step = "release"

TakeTime(step) == IF TakesTime(step) THEN age' = 0 /\ drift' = 0 /\ clock' = "steady"
                  ELSE UNCHANGED <<age, drift, clock>>

Jitter == /\ pc = "waiting"
          /\ left = 0
          /\ left' \in Jitters
          /\ pc' = "jitter"
          /\ TakeTime("jitter")
          /\ UNCHANGED <<config, tunnel, socket, server, limits, since, nextId, size, inbox,
                         query, ret>>

Release == /\ pc = "jitter"
           /\ left = 0
           /\ TakeTime("release")
           /\ since' = 0
           /\ pc' = "build"
           /\ UNCHANGED <<config, tunnel, socket, server, limits, nextId, size, left, inbox,
                          query, ret>>

\* A name that is too long takes no id, a label that is too long does; sendto()
\* may fail.
Build == /\ pc = "build"
         /\ nextId <= MaxId
         /\ \/ /\ size = "long_name"
               /\ Return("ERR_FORMAT")
               /\ UNCHANGED <<nextId, query>>
            \/ /\ size = "long_label"
               /\ nextId' = nextId + 1
               /\ Return("ERR_FORMAT")
               /\ UNCHANGED query
            \/ /\ size = "fits"
               /\ nextId' = nextId + 1
               /\ query' = [id |-> nextId, server |-> server, domain |-> config.name]
               /\ Return("OK")
            \/ /\ size = "fits"
               /\ nextId' = nextId + 1
               /\ Return("ERR_IO")
               /\ UNCHANGED query
         /\ UNCHANGED <<config, tunnel, socket, server, limiter, size, left, inbox>>

\* recv() blocks in recvfrom() until a datagram comes, from whomever, or it fails.
Recv == /\ pc = "idle"
        /\ \/ tunnel = "closed" /\ Return("ERR_IO")
           \/ tunnel = "open" /\ pc' = "receiving" /\ ret' = ret
        /\ UNCHANGED <<config, tunnel, socket, server, limiter, nextId, size, left, inbox, query>>

\* Nothing of an answer is decoded.
Received == /\ pc = "receiving"
            /\ \/ \E d \in inbox : /\ inbox' = inbox \ {d}
                                   /\ Return(IF d = "short" THEN "ERR_FORMAT" ELSE "OK")
               \/ Return("ERR_TIMEOUT") /\ UNCHANGED inbox
            /\ UNCHANGED <<config, tunnel, socket, server, limiter, nextId, size, left, query>>

----------------------------------------------------------------------------
Later(t) == IF t = Never \/ t = LongAgo THEN t ELSE t + 1

Tick == /\ age' = Later(age)
        /\ since' = Later(since)
        /\ left' = IF left = 0 THEN 0 ELSE left - 1
        /\ UNCHANGED <<config, tunnel, socket, server, limits, drift, clock, nextId, pc, size,
                       inbox, query, ret>>

\* Somebody sets the wall clock, once between two queries.
SetClock == /\ clock = "steady"
            /\ age # Never
            /\ clock' = "set"
            /\ drift' \in {-Second, Second}
            /\ UNCHANGED <<config, tunnel, socket, server, limits, nextId, age, since, pc, size,
                           left, inbox, query, ret>>

Arrive(d) == /\ socket = "open"
             /\ inbox' = inbox \cup {d}
             /\ UNCHANGED <<config, tunnel, socket, server, limiter, nextId, pc, size, left,
                            query, ret>>

Next == \/ \E c \in Configs : Configure(c)
        \/ Open
        \/ Close
        \/ \E s \in Sizes : Send(s)
        \/ Limit
        \/ Jitter
        \/ Release
        \/ Build
        \/ Recv
        \/ Received
        \/ Tick
        \/ SetClock
        \/ \E d \in Datagrams : Arrive(d)

Spec == Init /\ [][Next]_vars

----------------------------------------------------------------------------
TypeOK == /\ config \in Configs
          /\ tunnel \in {"open", "closed"}
          /\ socket = IF tunnel = "open" THEN "open" ELSE "invalid"
          /\ tunnel = "open" => limits = Limits(config)
          /\ nextId \in 1..MaxId + 1
          /\ {age, since} \subseteq 0..LongAgo \cup {Never}
          /\ drift \in {-Second, 0, Second}
          /\ clock \in {"steady", "set"}
          /\ pc \in {"idle", "limit", "waiting", "jitter", "build", "receiving"}
          /\ pc # "idle" => tunnel = "open"
          /\ size \in Sizes
          /\ left \in 0..LongAgo
          /\ inbox \subseteq Datagrams
          /\ query.id \in 0..MaxId
          /\ ret \in {"OK", "ERR_IO", "ERR_FORMAT", "ERR_TIMEOUT"}

\* "Enforces maximum queries per second" (dns_tunnel.h:44): from one query to the
\* next the interval and the least jitter pass, also over a close and an open with
\* another rate and over messages that are refused after the wait, unless the wall
\* clock was set in between.
Spaced == [][Release /\ since # Never /\ clock = "steady"
               => since >= limits.interval + limits.minJitter]_vars

\* A query goes to the server of the configuration whose domain it carries, also
\* when open() failed with one and succeeded with another.
OneConfiguration == query.server = query.domain
=============================================================================
