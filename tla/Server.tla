------------------------------- MODULE Server -------------------------------
(***************************************************************************)
(* The process of cmd/server: how it starts, serves and stops, and the     *)
(* pool of database connections all its requests share.                    *)
(*                                                                         *)
(* A request is a series of turns, each holding one connection.  The       *)
(* repositories of the ledger, of wallets and of credit query through the  *)
(* pool even inside a transaction: such a turn holds one connection and    *)
(* waits for a second one, once for every such query.  Turns of a handler  *)
(* that hold one connection only and follow each other count as one.       *)
(***************************************************************************)
EXTENDS Integers, Sequences, FiniteSets, Service

CONSTANTS
    Requests,
    Invokes,        \* what each request invokes: a method, or one of Routes
    Size,           \* connections the pool may open
    Environments    \* the process environments to start in

(* newHTTPHandler.                                                         *)
Routes == {"/health/ready", "/api/v1/zibal/callback"}

VARIABLES
    env,        \* the environment variables, per setting
    stage,      \* how far main is
    accepting,  \* the listeners that take new requests
    failed,     \* servers whose goroutine has sent its error to errCh
    overdue,    \* whether shutdownCtx has expired
    code,       \* what run returned
    phase,      \* per request: where it is
    work,       \* per request: the turns left, each with its queries left
    held        \* connections in use, as <<request, 1 or 2>>

serverVars == <<env, stage, accepting, failed, overdue, code, phase, work, held>>

-----------------------------------------------------------------------------
(* Settings, and what a value must parse as (requireString ... requireBool).*)

Settings ==
    [DATABASE_URL |-> "string", REDIS_URL |-> "string", GRPC_PORT |-> "int",
     HTTP_PORT |-> "int", ZIBAL_SANDBOX |-> "bool", ZIBAL_MERCHANT |-> "string",
     FINANCE_PUBLIC_BASE_URL |-> "string", PLATFORM_FEE_PERCENT |-> "float"]

Values == {"", "text", "integer", "decimal", "truth"}

Parses(kind) ==
    CASE kind = "string" -> Values \ {""}
      [] kind = "int" -> {"integer"}
      [] kind = "float" -> {"integer", "decimal"}
      [] kind = "bool" -> {"truth"}

ASSUME ServerAssumption ==
    /\ Invokes \in [Requests -> Methods \cup Routes]
    /\ Size \in Nat \ {0}
    /\ IsFiniteSet(Requests)
    /\ Environments \subseteq [DOMAIN Settings -> Values]

Loads == \A s \in DOMAIN Settings : env[s] \in Parses(Settings[s])

(* The pool queries a transaction makes besides its own statements: wallet *)
(* and credit accounts ensured, balances read, grant rows written.         *)
NestedQueries(m) ==
    CASE m = "PayFromWallet" -> 4
      [] m \in {"RefundEscrow", "PartialRefundEscrow"} -> 3
      [] m \in {"FundEscrow", "ReleaseEscrow", "GrantCredit", "VerifyPaymentOrder",
                "/api/v1/zibal/callback"} -> 2
      [] m \in {"VerifyWalletTopupOrder", "CreateWithdrawal", "FailWithdrawal",
                "RejectWithdrawal", "ReverseCreditGrant"} -> 1
      [] OTHER -> 0

(* A guarded call turns to its idempotency record before and after its     *)
(* handler; a callback logs its event before it verifies.                  *)
Turns(m) ==
    CASE m \in mutatingMethods -> <<0, NestedQueries(m), 0>>
      [] m = "/api/v1/zibal/callback" -> <<0, NestedQueries(m)>>
      [] OTHER -> <<NestedQueries(m)>>

-----------------------------------------------------------------------------
Starting == {"config", "pool", "redis", "listen", "serve"}
Stages == Starting \cup {"select", "draining", "shutdown", "closing", "exited", "killed"}

Listener(r) == IF Invokes[r] \in Routes THEN "http" ELSE "grpc"

Waiting == {"queue", "nested"}
Phases == {"new", "turn", "query", "answered"} \cup Waiting

Active(l) ==
    {r \in Requests : Listener(r) = l /\ phase[r] \notin {"new", "answered"}}

ServerTypeOK ==
    /\ env \in [DOMAIN Settings -> Values]
    /\ stage \in Stages
    /\ accepting \subseteq {"grpc", "http"}
    /\ failed \subseteq {"grpc", "http"}
    /\ overdue \in BOOLEAN
    /\ code \in {"none", "ok", "error"}
    /\ phase \in [Requests -> Phases]
    /\ work \in [Requests -> Seq(Nat)]
    /\ held \subseteq Requests \X {1, 2}

ServerInit ==
    /\ env \in Environments
    /\ stage = "config"
    /\ accepting = {}
    /\ failed = {}
    /\ overdue = FALSE
    /\ code = "none"
    /\ phase = [r \in Requests |-> "new"]
    /\ work = [r \in Requests |-> Turns(Invokes[r])]
    /\ held = {}

requestVars == <<phase, work, held>>

-----------------------------------------------------------------------------
(* Startup.  Neither NewPool nor NewClient connects: each fails on a URL   *)
(* it cannot parse.  What was opened is closed when run returns.           *)

Returns(error) == stage' = "closing" /\ code' = error

Load ==
    /\ stage = "config"
    /\ IF Loads THEN stage' = "pool" /\ UNCHANGED code ELSE Returns("error")
    /\ UNCHANGED <<env, accepting, failed, overdue, requestVars>>

After(s) == CASE s = "pool" -> "redis" [] s = "redis" -> "listen" [] s = "listen" -> "serve"

Open ==
    /\ stage \in {"pool", "redis", "listen"}
    /\ \/ stage' = After(stage) /\ UNCHANGED code
       \/ Returns("error")
    /\ UNCHANGED <<env, accepting, failed, overdue, requestVars>>

(* Both goroutines are started, and only then is Notify called.            *)
Serve ==
    /\ stage = "serve" /\ accepting = {} /\ failed = {}
    /\ accepting' = {"grpc", "http"}
    /\ UNCHANGED <<env, stage, failed, overdue, code, requestVars>>

Notify ==
    /\ stage = "serve" /\ accepting \cup failed # {}
    /\ stage' = "select"
    /\ UNCHANGED <<env, accepting, failed, overdue, code, requestVars>>

(* A signal nobody has asked for ends the process at once.                 *)
EarlySignal ==
    /\ stage \in Starting
    /\ stage' = "killed"
    /\ UNCHANGED <<env, accepting, failed, overdue, code, requestVars>>

-----------------------------------------------------------------------------
(* Shutdown.                                                               *)

(* A listener fails, the HTTP one also when its port cannot be bound.      *)
ServerFails(l) ==
    /\ l \in accepting
    /\ accepting' = accepting \ {l}
    /\ failed' = failed \cup {l}
    /\ UNCHANGED <<env, stage, overdue, code, requestVars>>

(* <-errCh: run returns the error and stops neither server.                *)
ReturnFailure ==
    /\ stage = "select" /\ failed # {}
    /\ Returns("error")
    /\ UNCHANGED <<env, accepting, failed, overdue, requestVars>>

(* <-sigCh: GracefulStop takes no new calls and waits for the active ones, *)
(* while HTTP goes on accepting and shutdownCtx runs.                      *)
Signal ==
    /\ stage = "select"
    /\ stage' = "draining"
    /\ accepting' = accepting \ {"grpc"}
    /\ UNCHANGED <<env, failed, overdue, code, requestVars>>

DeadlineExceeded ==
    /\ stage \in {"draining", "shutdown"} /\ ~overdue
    /\ overdue' = TRUE
    /\ UNCHANGED <<env, stage, accepting, failed, code, requestVars>>

StopsAtOnce == TRUE

DrainsCalls == Active("grpc") = {}

GracefulStop ==
    /\ stage = "draining"
    /\ DrainsCalls
    /\ stage' = "shutdown"
    /\ accepting' = {}
    /\ UNCHANGED <<env, failed, overdue, code, requestVars>>

(* Shutdown looks for active callbacks before it looks at its deadline.    *)
Shutdown ==
    /\ stage = "shutdown"
    /\ IF Active("http") = {} THEN Returns("ok") ELSE overdue /\ Returns("error")
    /\ UNCHANGED <<env, accepting, failed, overdue, requestVars>>

(* The deferred dbPool.Close waits until every connection is returned;     *)
(* then main ends, and with it whatever still runs.                        *)
Close ==
    /\ stage = "closing" /\ held = {}
    /\ stage' = "exited"
    /\ accepting' = {}
    /\ UNCHANGED <<env, failed, overdue, code, requestVars>>

-----------------------------------------------------------------------------
(* Requests, as long as the process runs.                                  *)

processVars == <<env, stage, accepting, failed, overdue, code>>

Running == stage \notin {"exited", "killed"}

Move(r, p) == phase' = [phase EXCEPT ![r] = p]

Arrive(r) ==
    /\ Running
    /\ phase[r] = "new" /\ Listener(r) \in accepting
    /\ Move(r, "queue")
    /\ UNCHANGED <<processVars, work, held>>

HasFree == Cardinality(held) < Size

(* pgxpool hands out a free connection; once closed it hands out none.     *)
Acquire(r) ==
    /\ Running /\ stage # "closing" /\ HasFree
    /\ \/ phase[r] = "queue" /\ Move(r, "turn") /\ held' = held \cup {<<r, 1>>}
       \/ phase[r] = "nested" /\ Move(r, "query") /\ held' = held \cup {<<r, 2>>}
    /\ UNCHANGED <<processVars, work>>

AnyTurn(r) == TRUE

QueriesPending(r) == Head(work[r]) > 0

(* A query through the pool inside the transaction: EnsureAccount,         *)
(* SumByAccount, CreateGrant, MarkReversed.                                *)
Nest(r) ==
    /\ Running
    /\ phase[r] = "turn" /\ QueriesPending(r)
    /\ Move(r, "nested")
    /\ UNCHANGED <<processVars, work, held>>

QueryDone(r) ==
    /\ Running
    /\ phase[r] = "query"
    /\ Move(r, "turn")
    /\ held' = held \ {<<r, 2>>}
    /\ work' = [work EXCEPT ![r] = <<Head(@) - 1>> \o Tail(@)]
    /\ UNCHANGED processVars

(* Commit, or the end of a plain query: the connection goes back.          *)
TurnDone(r) ==
    /\ Running
    /\ phase[r] = "turn" /\ ~QueriesPending(r)
    /\ Move(r, IF Len(work[r]) = 1 THEN "answered" ELSE "queue")
    /\ held' = held \ {<<r, 1>>}
    /\ work' = [work EXCEPT ![r] = Tail(@)]
    /\ UNCHANGED processVars

OnlyTx(r) == {<<r, 1>>}

ConnectionsOf(r) == {<<r, 1>>, <<r, 2>>}

(* An error ends the request: the deferred Rollback returns what it holds. *)
Fails(r) ==
    /\ Move(r, "answered")
    /\ held' = held \ ConnectionsOf(r)
    /\ UNCHANGED <<processVars, work>>

Abort(r) ==
    /\ Running
    /\ phase[r] \in {"turn", "query"}
    /\ Fails(r)

(* The pool is closed: who waits learns so when a connection is free.      *)
Refused(r) ==
    /\ stage = "closing" /\ HasFree
    /\ phase[r] \in Waiting
    /\ Fails(r)

(* A caller who waits for a connection gives up: its context ends.         *)
GiveUp(r) ==
    /\ Running
    /\ phase[r] \in Waiting
    /\ Fails(r)

Proceed(r) == Nest(r) \/ QueryDone(r) \/ TurnDone(r)

Stops == ReturnFailure \/ DeadlineExceeded \/ GracefulStop \/ Shutdown \/ Close

ServerNext ==
    \/ Load \/ Open \/ Serve \/ Notify \/ EarlySignal \/ Signal \/ Stops
    \/ \E l \in {"grpc", "http"} : ServerFails(l)
    \/ \E r \in Requests :
          Arrive(r) \/ Acquire(r) \/ Proceed(r) \/ Abort(r) \/ Refused(r) \/ GiveUp(r)

ServerSpec == ServerInit /\ [][ServerNext]_serverVars

(* main and the goroutines of the requests run on, the deadline passes,    *)
(* Postgres answers, and connections are handed out in the order asked     *)
(* for.  Callers come, give up and signals arrive as they please.          *)
ServerFairness ==
    /\ WF_serverVars(Stops)
    /\ \A r \in Requests : WF_serverVars(Proceed(r) \/ Refused(r)) /\ SF_serverVars(Acquire(r))

-----------------------------------------------------------------------------
(* Properties.                                                             *)

(* Whatever ends a turn, commit, error, refusal or a caller who is gone,   *)
(* the pool gets back exactly what the request held (WithTx, CreateJournal).*)
Accounted ==
    held = {<<r, 1>> : r \in {q \in Requests : phase[q] \in {"turn", "nested", "query"}}}
               \cup {<<r, 2>> : r \in {q \in Requests : phase[q] = "query"}}

(* F0-bootstrap-report.md:32 "graceful shutdown on SIGINT/SIGTERM": if run *)
(* returns without an error nothing that was accepted is cut off, neither  *)
(* a call between its commit and its idempotency record nor a callback.    *)
CleanExit ==
    stage = "exited" /\ code = "ok" => Active("grpc") \cup Active("http") = {}

(* All connections are held by transactions that wait for another one.     *)
Stalled ==
    /\ ~HasFree
    /\ \A c \in held : phase[c[1]] = "nested"

Nested == {r \in Requests : \E i \in DOMAIN Turns(Invokes[r]) : Turns(Invokes[r])[i] > 0}

(* Fewer concurrent transactions than connections cannot stall the pool.   *)
EnoughConnections == Cardinality(Nested) < Size => ~Stalled

(* A process told to stop does, unless the pool has stalled: GracefulStop  *)
(* and dbPool.Close have no deadline of their own.                         *)
SignalledExits == stage = "draining" ~> stage = "exited" \/ Stalled

(* Who waits for a connection gets one or an error, unless the pool has    *)
(* stalled or the process is gone.                                         *)
Served ==
    \A r \in Requests :
        phase[r] = "queue" ~> phase[r] # "queue" \/ Stalled \/ ~Running
=============================================================================
