------------------------------- MODULE Process --------------------------------
(***************************************************************************)
(* The life of the process (cmd/pulsar/main.go run, internal/server): it   *)
(* opens PostgreSQL, Redis and, if it can, S3, listens, and on SIGINT or   *)
(* SIGTERM stops accepting requests and lets those in flight finish for at *)
(* most HTTP_SHUTDOWN_TIMEOUT.  What run returns is kept as the state the  *)
(* process ends in, until it is started again.                             *)
(***************************************************************************)
EXTENDS Naturals

CONSTANT Grace      \* HTTP_SHUTDOWN_TIMEOUT, in ticks

ASSUME GraceAssumption == Grace \in Nat

VARIABLES
    proc,       \* where run is
    signalled,  \* whether the context of run is cancelled
    storage,    \* whether run has an S3 client
    grace       \* ticks left to the requests in flight

processVars == <<proc, signalled, storage, grace>>

Starting == {"database", "migrate", "redis", "s3", "listen"}
Ended    == {"stopped", "failed"}

\* The variables of the environment that validate looks at; a variable that is
\* not set is like an empty one.
Environment == [APP_ENV : {"", "production"}, PUBLIC_BASE_URL : {"", "https://host"},
                JWT_SECRET : {"", "short"}, S3_BUCKET : {"", "bucket"},
                SESSION_COOKIE_SECURE : {"", "true", "false", "on"},
                CSRF_SECURE : {"", "true", "false", "on"}]

env(v, def) == IF v # "" THEN v ELSE def

\* What ParseBool does not know leaves the default.
envBool(v, def) == IF v \in {"true", "false"} THEN v = "true" ELSE def

\* Outside production everything but the two names is accepted, and the
\* defaults stand for those.
validate(e) ==
    /\ env(e.PUBLIC_BASE_URL, "http://localhost:8080") # ""
    /\ env(e.S3_BUCKET, "pulsar") # ""
    /\ env(e.APP_ENV, "local") = "production" =>
          /\ env(e.JWT_SECRET, "change-me-in-production-please-32-bytes-min") # "short"
          /\ envBool(e.SESSION_COOKIE_SECURE, FALSE)
          /\ envBool(e.CSRF_SECURE, FALSE)

\* config.Load reads the environment; what validate refuses ends run.
LoadConfig == proc' \in {IF validate(e) THEN "database" ELSE "failed" : e \in Environment}

ProcessStart ==
    /\ proc \in Ended
    /\ LoadConfig /\ signalled' = FALSE /\ storage' = FALSE
    /\ UNCHANGED grace

\* A step of the start either succeeds or ends run with an error; with the
\* context cancelled it fails.
StartStep(from, to) ==
    /\ proc = from
    /\ \/ proc' = "failed"
       \/ proc' = to /\ ~signalled
    /\ UNCHANGED <<signalled, storage, grace>>

\* repository.New.
OpenDatabase == StartStep("database", "migrate")

\* Migrate knows no context, and run goes on when it fails.
Migrate ==
    /\ proc = "migrate"
    /\ proc' = "redis"
    /\ UNCHANGED <<signalled, storage, grace>>

\* cache.New.
OpenRedis == StartStep("redis", "s3")

\* A client that cannot be built is logged, and so is a bucket that
\* EnsureBucket cannot create; run goes on, also with its context cancelled.
OpenS3 ==
    /\ proc = "s3"
    /\ proc' = "listen" /\ storage' \in BOOLEAN
    /\ UNCHANGED <<signalled, grace>>

\* The server listens in a goroutine of its own; an error ends run, and so
\* does an error of the listener later.
Listen ==
    /\ proc = "listen"
    /\ proc' \in {"serving", "failed"}
    /\ UNCHANGED <<signalled, storage, grace>>

ListenerFails ==
    /\ proc = "serving"
    /\ proc' = "failed"
    /\ UNCHANGED <<signalled, storage, grace>>

Signal ==
    /\ proc \notin Ended /\ ~signalled
    /\ signalled' = TRUE
    /\ UNCHANGED <<proc, storage, grace>>

\* Server.Shutdown closes the listener and waits.
BeginShutdown ==
    /\ proc = "serving" /\ signalled
    /\ proc' = "draining" /\ grace' = Grace
    /\ UNCHANGED <<signalled, storage>>

DrainedAtOnce(quiet) ==
    /\ proc = "draining"
    /\ proc' = "stopped"
    /\ UNCHANGED <<signalled, storage, grace>>

\* No request is in flight: run returns nil.
Drained(quiet) ==
    /\ proc = "draining" /\ quiet
    /\ proc' = "stopped"
    /\ UNCHANGED <<signalled, storage, grace>>

DrainTimeoutNever ==
    /\ proc = "draining" /\ grace > Grace
    /\ proc' = "failed"
    /\ UNCHANGED <<signalled, storage, grace>>

\* The time is over: run returns the error, and the requests end with it.
DrainTimeout ==
    /\ proc = "draining" /\ grace = 0
    /\ proc' = "failed"
    /\ UNCHANGED <<signalled, storage, grace>>

Kill ==
    /\ proc \notin Ended
    /\ proc' = "failed"
    /\ UNCHANGED <<signalled, storage, grace>>

ProcessTick ==
    /\ grace' = IF grace > 0 THEN grace - 1 ELSE 0
    /\ UNCHANGED <<proc, signalled, storage>>

ProcessInit == proc = "stopped" /\ signalled = FALSE /\ storage = FALSE /\ grace = 0

\* The phases of run, and a deadline that is never extended.
ProcessTypeOK ==
    /\ proc \in Starting \cup Ended \cup {"serving", "draining"}
    /\ signalled \in BOOLEAN /\ storage \in BOOLEAN
    /\ grace \in 0 .. Grace
    /\ proc = "draining" => signalled

\* Whatever the requests in flight do, a signalled process ends
\* (docs/ARCHITECTURE.md: drain until HTTP_SHUTDOWN_TIMEOUT).
ShutdownEnds == signalled /\ proc \notin Ended ~> proc \in Ended
=============================================================================
