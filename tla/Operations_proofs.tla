------------------------- MODULE Operations_proofs -------------------------
(***************************************************************************)
(* Theorems about the components MCOperations checks side by side: the     *)
(* server process with its connection pool, the fake PSP, the provider     *)
(* event log and the stored journals with their readers, for any number of *)
(* requests, any pool, any payers, prices, events, limits, writers and     *)
(* journals.                                                               *)
(***************************************************************************)
EXTENDS Server, ProviderEvents, ZibalMock, Books, SumTheorems, FiniteSetTheorems,
        SequenceTheorems, TLAPS

-----------------------------------------------------------------------------
(* The server.                                                             *)

(* A request that is not answered has a turn left, and one in a query, or  *)
(* waiting for its second connection, has that query left.                 *)
TurnsLeft ==
    \A r \in Requests :
        /\ phase[r] # "answered" => work[r] # <<>>
        /\ phase[r] \in {"nested", "query"} => Head(work[r]) > 0

(* Only a request whose method nests queries has any left.                 *)
OnlyNested ==
    \A r \in Requests : \A i \in DOMAIN work[r] : work[r][i] > 0 => r \in Nested

(* Accounted, connection by connection.                                    *)
HeldRight ==
    \A r \in Requests :
        /\ <<r, 1>> \in held <=> phase[r] \in {"turn", "nested", "query"}
        /\ <<r, 2>> \in held <=> phase[r] = "query"

SInv == ServerTypeOK /\ TurnsLeft /\ OnlyNested /\ HeldRight

-----------------------------------------------------------------------------
(* Turns.                                                                  *)

LEMMA QueriesAreNat == ASSUME NEW m PROVE NestedQueries(m) \in Nat
BY DEF NestedQueries

LEMMA TurnsType == ASSUME NEW m PROVE Turns(m) \in Seq(Nat) /\ Turns(m) # <<>>
<1>1. NestedQueries(m) \in Nat
  BY QueriesAreNat
<1>2. CASE m \in mutatingMethods
  BY <1>1, <1>2 DEF Turns
<1>3. CASE m \notin mutatingMethods
  BY <1>1, <1>3 DEF Turns
<1> QED BY <1>2, <1>3

(* A query of the current turn is done.                                    *)
LEMMA Spend ==
  ASSUME NEW s \in Seq(Nat), s # <<>>, Head(s) > 0
  PROVE  LET t == <<Head(s) - 1>> \o Tail(s)
         IN  /\ t \in Seq(Nat) /\ t # <<>>
             /\ DOMAIN t = DOMAIN s
             /\ \A i \in DOMAIN t : t[i] > 0 => s[i] > 0
<1> DEFINE t == <<Head(s) - 1>> \o Tail(s)
<1>1. Len(s) \in Nat \ {0} /\ Head(s) \in Nat /\ Tail(s) \in Seq(Nat) /\ Head(s) = s[1]
  OBVIOUS
<1>2. <<Head(s) - 1>> \in Seq(Nat)
  BY <1>1
<1>3. t \in Seq(Nat) /\ Len(t) = Len(s)
  BY <1>1, <1>2
<1>4. \A i \in 1 .. Len(s) : t[i] = IF i = 1 THEN Head(s) - 1 ELSE s[i]
  BY <1>1, <1>2
<1> QED BY <1>1, <1>3, <1>4

(* The current turn is done.                                               *)
LEMMA Finish ==
  ASSUME NEW s \in Seq(Nat), s # <<>>
  PROVE  /\ Tail(s) \in Seq(Nat)
         /\ Len(s) # 1 => Tail(s) # <<>>
         /\ \A i \in DOMAIN Tail(s) : i + 1 \in DOMAIN s /\ Tail(s)[i] = s[i + 1]
<1>1. Len(s) \in Nat \ {0} /\ DOMAIN s = 1 .. Len(s)
  OBVIOUS
<1>2. /\ Tail(s) \in Seq(Nat) /\ Len(Tail(s)) = Len(s) - 1
      /\ \A i \in 1 .. Len(Tail(s)) : Tail(s)[i] = s[i + 1]
  BY HeadTailProperties
<1>3. DOMAIN Tail(s) = 1 .. Len(s) - 1
  BY <1>2
<1>4. Len(s) # 1 => Tail(s) # <<>>
  <2>1. Len(<<>>) = 0
    BY EmptySeq
  <2>2. Len(s) # 1 => Len(Tail(s)) # 0
    BY <1>1, <1>2
  <2> QED BY <2>1, <2>2
<1> QED BY <1>1, <1>2, <1>3, <1>4

-----------------------------------------------------------------------------
LEMMA InitSInv == ASSUME ServerInit PROVE SInv
<1>1. \A r \in Requests : Turns(Invokes[r]) \in Seq(Nat) /\ Turns(Invokes[r]) # <<>>
  BY TurnsType
<1>2. ServerTypeOK
  BY <1>1, ServerAssumption DEF ServerInit, ServerTypeOK, Stages, Starting, Phases
<1>3. TurnsLeft
  BY <1>1 DEF ServerInit, TurnsLeft
<1>4. OnlyNested
  BY DEF ServerInit, OnlyNested, Nested
<1>5. HeldRight
  BY DEF ServerInit, HeldRight
<1> QED BY <1>2, <1>3, <1>4, <1>5 DEF SInv

(* main's own steps leave requests and connections alone.                  *)
LEMMA ProcessKeeps ==
  ASSUME SInv,
         \/ Load \/ Open \/ Serve \/ Notify \/ EarlySignal \/ Signal \/ Stops
         \/ \E l \in {"grpc", "http"} : ServerFails(l)
  PROVE  SInv'
<1>1. UNCHANGED requestVars
  BY DEF Load, Open, Serve, Notify, EarlySignal, Signal, Stops, ServerFails, ReturnFailure,
     DeadlineExceeded, GracefulStop, Shutdown, Close, requestVars
<1>2. /\ env' = env
      /\ stage' \in Stages /\ accepting' \subseteq {"grpc", "http"}
      /\ failed' \subseteq {"grpc", "http"} /\ overdue' \in BOOLEAN
      /\ code' \in {"none", "ok", "error"}
  BY DEF Load, Open, Serve, Notify, EarlySignal, Signal, Stops, ServerFails, ReturnFailure,
     DeadlineExceeded, GracefulStop, Shutdown, Close, Returns, After, SInv, ServerTypeOK,
     Stages, Starting
<1> QED BY <1>1, <1>2 DEF requestVars, SInv, ServerTypeOK, TurnsLeft, OnlyNested, HeldRight

(* A request that only moves and takes or gives back connections.          *)
LEMMA MoveKeeps ==
  ASSUME SInv, NEW r \in Requests, NEW p \in Phases, Move(r, p),
         UNCHANGED <<processVars, work>>,
         p # "answered" => phase[r] # "answered",
         p \in {"nested", "query"} => Head(work[r]) > 0,
         \A q \in Requests \ {r}, i \in {1, 2} : <<q, i>> \in held' <=> <<q, i>> \in held,
         held' \subseteq Requests \X {1, 2},
         <<r, 1>> \in held' <=> p \in {"turn", "nested", "query"},
         <<r, 2>> \in held' <=> p = "query"
  PROVE  SInv'
<1>1. ServerTypeOK'
  BY DEF SInv, ServerTypeOK, Move, processVars
<1>2. /\ phase'[r] = p
      /\ \A q \in Requests \ {r} : phase'[q] = phase[q]
  BY DEF SInv, ServerTypeOK, Move
<1>3. TurnsLeft' /\ OnlyNested' /\ HeldRight'
  BY <1>2 DEF SInv, TurnsLeft, OnlyNested, HeldRight
<1> QED BY <1>1, <1>3 DEF SInv

LEMMA FailsKeeps == ASSUME SInv, NEW r \in Requests, Fails(r) PROVE SInv'
<1>1. "answered" \in Phases
  BY DEF Phases
<1> QED BY <1>1, MoveKeeps DEF Fails, ConnectionsOf, SInv, ServerTypeOK

LEMMA QueryKeeps == ASSUME SInv, NEW r \in Requests, QueryDone(r) PROVE SInv'
<1> DEFINE s == work[r]
           t == <<Head(s) - 1>> \o Tail(s)
<1>1. s \in Seq(Nat) /\ s # <<>> /\ Head(s) > 0
  BY DEF SInv, ServerTypeOK, TurnsLeft, QueryDone
<1>2. /\ t \in Seq(Nat) /\ t # <<>>
      /\ DOMAIN t = DOMAIN s
      /\ \A i \in DOMAIN t : t[i] > 0 => s[i] > 0
  BY <1>1, Spend
<1>3. work' = [work EXCEPT ![r] = t]
  BY DEF QueryDone
<1>4. phase' = [phase EXCEPT ![r] = "turn"] /\ held' = held \ {<<r, 2>>}
  BY DEF QueryDone, Move
<1> HIDE DEF t
<1>5. ServerTypeOK'
  BY <1>2, <1>3, <1>4 DEF SInv, ServerTypeOK, Phases, QueryDone, processVars
<1>6. TurnsLeft' /\ OnlyNested'
  BY <1>2, <1>3, <1>4 DEF SInv, ServerTypeOK, TurnsLeft, OnlyNested
<1>7. HeldRight'
  <2>1. phase \in [Requests -> Phases] /\ phase[r] = "query"
    BY DEF SInv, ServerTypeOK, QueryDone
  <2>2. phase'[r] = "turn" /\ \A q \in Requests \ {r} : phase'[q] = phase[q]
    BY <1>4, <2>1
  <2>3. <<r, 1>> \in held
    BY <2>1 DEF SInv, HeldRight
  <2>4. <<r, 1>> \in held' /\ <<r, 2>> \notin held'
    BY <1>4, <2>3
  <2>5. \A q \in Requests \ {r} : /\ <<q, 1>> \in held' <=> <<q, 1>> \in held
                                  /\ <<q, 2>> \in held' <=> <<q, 2>> \in held
    BY <1>4
  <2>6. \A q \in Requests : /\ <<q, 1>> \in held <=> phase[q] \in {"turn", "nested", "query"}
                            /\ <<q, 2>> \in held <=> phase[q] = "query"
    BY DEF SInv, HeldRight
  <2>7. ASSUME NEW q \in Requests
        PROVE  /\ <<q, 1>> \in held' <=> phase'[q] \in {"turn", "nested", "query"}
               /\ <<q, 2>> \in held' <=> phase'[q] = "query"
    <3>1. CASE q = r
      BY <2>2, <2>4, <3>1
    <3>2. CASE q # r
      <4>1. phase'[q] = phase[q]
        BY <2>2, <3>2
      <4>2. /\ (<<q, 1>> \in held') <=> (<<q, 1>> \in held)
            /\ (<<q, 2>> \in held') <=> (<<q, 2>> \in held)
        BY <2>5, <3>2
      <4>3. /\ (<<q, 1>> \in held) <=> (phase[q] \in {"turn", "nested", "query"})
            /\ (<<q, 2>> \in held) <=> (phase[q] = "query")
        BY <2>6
      <4> QED BY <4>1, <4>2, <4>3
    <3> QED BY <3>1, <3>2
  <2> QED BY <2>7 DEF HeldRight
<1> QED BY <1>5, <1>6, <1>7 DEF SInv

LEMMA TurnKeeps == ASSUME SInv, NEW r \in Requests, TurnDone(r) PROVE SInv'
<1> DEFINE s == work[r]
           p == IF Len(s) = 1 THEN "answered" ELSE "queue"
<1>1. s \in Seq(Nat) /\ s # <<>>
  BY DEF SInv, ServerTypeOK, TurnsLeft, TurnDone
<1>2. /\ Tail(s) \in Seq(Nat)
      /\ Len(s) # 1 => Tail(s) # <<>>
      /\ \A i \in DOMAIN Tail(s) : i + 1 \in DOMAIN s /\ Tail(s)[i] = s[i + 1]
  BY <1>1, Finish
<1>3. work' = [work EXCEPT ![r] = Tail(s)]
  BY DEF TurnDone
<1>4. phase' = [phase EXCEPT ![r] = p] /\ held' = held \ {<<r, 1>>} /\ p \in {"answered", "queue"}
  BY DEF TurnDone, Move
<1>5. p # "answered" => Len(s) # 1
  OBVIOUS
<1> DEFINE u == Tail(s)
<1>6. /\ u \in Seq(Nat) /\ (p # "answered" => u # <<>>)
      /\ \A i \in DOMAIN u : u[i] > 0 => \E k \in DOMAIN s : s[k] > 0
      /\ work' = [work EXCEPT ![r] = u]
  BY <1>2, <1>3, <1>5
<1> HIDE DEF p, u
<1>7. ServerTypeOK'
  BY <1>4, <1>6 DEF SInv, ServerTypeOK, Phases, Waiting, TurnDone, processVars
<1>8. TurnsLeft' /\ OnlyNested'
  BY <1>4, <1>6 DEF SInv, ServerTypeOK, TurnsLeft, OnlyNested
<1>9. HeldRight'
  BY <1>4 DEF SInv, ServerTypeOK, HeldRight, TurnDone
<1> QED BY <1>7, <1>8, <1>9 DEF SInv

LEMMA RequestKeeps ==
  ASSUME SInv, NEW r \in Requests,
         Arrive(r) \/ Acquire(r) \/ Proceed(r) \/ Abort(r) \/ Refused(r) \/ GiveUp(r)
  PROVE  SInv'
<1> USE DEF Phases, Waiting
<1>1. CASE Arrive(r)
  BY <1>1, MoveKeeps DEF Arrive, processVars, SInv, ServerTypeOK, HeldRight
<1>2. CASE Acquire(r)
  <2>1. CASE phase[r] = "queue"
    <3>1. Move(r, "turn") /\ held' = held \cup {<<r, 1>>} /\ UNCHANGED <<processVars, work>>
      BY <1>2, <2>1 DEF Acquire
    <3>2. held' \subseteq Requests \X {1, 2}
      BY <3>1 DEF SInv, ServerTypeOK
    <3>3. \A q \in Requests \ {r}, i \in {1, 2} : <<q, i>> \in held' <=> <<q, i>> \in held
      BY <3>1
    <3>4. <<r, 1>> \in held' /\ <<r, 2>> \notin held'
      <4>1. <<r, 2>> \notin held
        BY <2>1 DEF SInv, HeldRight
      <4> QED BY <3>1, <4>1
    <3>5. /\ "turn" \in Phases /\ phase[r] # "answered"
          /\ "turn" \notin {"nested", "query"}
      BY <2>1
    <3> QED BY <3>1, <3>2, <3>3, <3>4, <3>5, MoveKeeps
  <2>2. CASE phase[r] = "nested"
    <3>1. Move(r, "query") /\ held' = held \cup {<<r, 2>>} /\ UNCHANGED <<processVars, work>>
      BY <1>2, <2>2 DEF Acquire
    <3>2. Head(work[r]) > 0
      BY <2>2 DEF SInv, TurnsLeft
    <3>3. held' \subseteq Requests \X {1, 2}
      BY <3>1 DEF SInv, ServerTypeOK
    <3>4. \A q \in Requests \ {r}, i \in {1, 2} : <<q, i>> \in held' <=> <<q, i>> \in held
      BY <3>1
    <3>5. <<r, 1>> \in held' /\ <<r, 2>> \in held'
      BY <2>2, <3>1 DEF SInv, HeldRight
    <3> QED BY <2>2, <3>1, <3>2, <3>3, <3>4, <3>5, MoveKeeps
  <2>3. phase[r] = "queue" \/ phase[r] = "nested"
    BY <1>2 DEF Acquire
  <2> QED BY <2>1, <2>2, <2>3
<1>3. CASE Nest(r)
  BY <1>3, MoveKeeps DEF Nest, QueriesPending, processVars, SInv, ServerTypeOK, HeldRight
<1>4. CASE QueryDone(r)
  BY <1>4, QueryKeeps
<1>5. CASE TurnDone(r)
  BY <1>5, TurnKeeps
<1>6. CASE Abort(r) \/ Refused(r) \/ GiveUp(r)
  BY <1>6, FailsKeeps DEF Abort, Refused, GiveUp
<1> QED BY <1>1, <1>2, <1>3, <1>4, <1>5, <1>6 DEF Proceed

LEMMA StepKeeps == ASSUME SInv, [ServerNext]_serverVars PROVE SInv'
<1>1. CASE UNCHANGED serverVars
  BY <1>1 DEF serverVars, SInv, ServerTypeOK, TurnsLeft, OnlyNested, HeldRight
<1>2. ASSUME NEW r \in Requests,
             Arrive(r) \/ Acquire(r) \/ Proceed(r) \/ Abort(r) \/ Refused(r) \/ GiveUp(r)
      PROVE  SInv'
  BY <1>2, RequestKeeps
<1> QED BY <1>1, <1>2, ProcessKeeps DEF ServerNext

(* What the theorems below rest on.                                        *)
THEOREM ServerInvariant == ServerSpec => []SInv
<1> QED BY InitSInv, StepKeeps, PTL DEF ServerSpec

-----------------------------------------------------------------------------
(* The variables of the process and of its requests keep their types; that *)
(* the queries left never fall below zero is what needs TurnsLeft.         *)
THEOREM ServerTypeCorrect == ServerSpec => []ServerTypeOK
<1>1. SInv => ServerTypeOK
  BY DEF SInv
<1> QED BY <1>1, ServerInvariant, PTL

(* The pool gets back exactly what was taken, however a turn ends.         *)
THEOREM PoolAccounted == ServerSpec => []Accounted
<1>1. ASSUME SInv PROVE Accounted
  <2> DEFINE first == {<<r, 1>> : r \in {q \in Requests : phase[q] \in {"turn", "nested", "query"}}}
             second == {<<r, 2>> : r \in {q \in Requests : phase[q] = "query"}}
  <2>1. ASSUME NEW c \in held PROVE c \in first \cup second
    <3>1. PICK r \in Requests, i \in {1, 2} : c = <<r, i>>
      BY <1>1 DEF SInv, ServerTypeOK
    <3> QED BY <1>1, <2>1, <3>1 DEF SInv, HeldRight
  <2>2. first \cup second \subseteq held
    BY <1>1 DEF SInv, HeldRight
  <2> QED BY <2>1, <2>2 DEF Accounted
<1> QED BY <1>1, ServerInvariant, PTL

(* With more connections than requests whose transactions query through    *)
(* the pool, they never hold all of it waiting for one another: the bound  *)
(* a deployment has to respect, since nothing in the code does.            *)
THEOREM NeverStalls == ServerSpec => []EnoughConnections
<1>1. ASSUME SInv PROVE EnoughConnections
  <2> SUFFICES ASSUME Cardinality(Nested) < Size, ~HasFree,
                      \A c \in held : phase[c[1]] = "nested"
               PROVE  FALSE
    BY DEF EnoughConnections, Stalled
  <2>1. ASSUME NEW c \in held PROVE c[1] \in Nested /\ c = <<c[1], 1>>
    <3>1. PICK r \in Requests, i \in {1, 2} : c = <<r, i>>
      BY <1>1 DEF SInv, ServerTypeOK
    <3>2. phase[r] = "nested" /\ c[1] = r
      BY <3>1
    <3>3. i = 1
      BY <1>1, <3>1, <3>2 DEF SInv, HeldRight
    <3>4. work[r] \in Seq(Nat) /\ work[r] # <<>> /\ Head(work[r]) > 0
      BY <1>1, <3>2 DEF SInv, ServerTypeOK, TurnsLeft
    <3>5. 1 \in DOMAIN work[r] /\ work[r][1] > 0
      BY <3>4
    <3>6. r \in Nested
      BY <1>1, <3>5 DEF SInv, OnlyNested
    <3> QED BY <3>1, <3>2, <3>3, <3>6
  <2>2. IsFiniteSet(Nested)
    BY FS_Subset, ServerAssumption DEF Nested
  <2> DEFINE f == [c \in held |-> c[1]]
  <2>3. f \in Injection(held, Nested)
    BY <2>1 DEF Injection, IsInjective
  <2>4. IsFiniteSet(held) /\ Cardinality(held) <= Cardinality(Nested)
    BY <2>2, <2>3, FS_Injection
  <2>5. Cardinality(held) \in Nat /\ Cardinality(Nested) \in Nat
    BY <2>2, <2>4, FS_CardinalityType
  <2> QED BY <2>4, <2>5, ServerAssumption DEF HasFree
<1> QED BY <1>1, ServerInvariant, PTL

-----------------------------------------------------------------------------
(* Shutdown.  Once nothing is accepted no request becomes active any more. *)

Stopped ==
    /\ stage = "shutdown" \/ code = "ok" => accepting = {} /\ Active("grpc") = {}
    /\ code = "ok" => stage \in {"closing", "exited"} /\ Active("http") = {}

LEMMA InitStopped == ASSUME ServerInit PROVE Stopped
BY DEF ServerInit, Stopped

(* A request can only become active through a listener that accepts.       *)
LEMMA NoneBecomesActive ==
    ASSUME SInv, NEW r \in Requests, NEW l,
           Arrive(r) \/ Acquire(r) \/ Proceed(r) \/ Abort(r) \/ Refused(r) \/ GiveUp(r),
           l \notin accepting
    PROVE  Active(l)' \subseteq Active(l)
<1>1. phase \in [Requests -> Phases]
  BY DEF SInv, ServerTypeOK
<1>2. PICK p : phase' = [phase EXCEPT ![r] = p]
  BY DEF Arrive, Acquire, Proceed, Nest, QueryDone, TurnDone, Abort, Refused, GiveUp, Fails, Move
<1>3. CASE Arrive(r)
  <2>1. Listener(r) # l
    BY <1>3 DEF Arrive
  <2> QED BY <1>1, <1>2, <2>1 DEF Active, Listener
<1>4. CASE ~Arrive(r)
  <2>1. phase[r] \notin {"new", "answered"}
    BY <1>4 DEF Acquire, Proceed, Nest, QueryDone, TurnDone, Abort, Refused, GiveUp, Waiting
  <2> QED BY <1>1, <1>2, <2>1 DEF Active, Listener
<1> QED BY <1>3, <1>4

LEMMA NextStopped == SInv /\ Stopped /\ [ServerNext]_serverVars => Stopped'
<1> SUFFICES ASSUME SInv, Stopped, [ServerNext]_serverVars PROVE Stopped'
  OBVIOUS
<1>1. ASSUME NEW r \in Requests,
             Arrive(r) \/ Acquire(r) \/ Proceed(r) \/ Abort(r) \/ Refused(r) \/ GiveUp(r)
      PROVE  Stopped'
  <2>1. UNCHANGED <<stage, accepting, code>>
    BY <1>1 DEF Arrive, Acquire, Proceed, Nest, QueryDone, TurnDone, Abort, Refused, GiveUp,
                Fails, processVars
  <2>2. \A l : l \notin accepting => Active(l)' \subseteq Active(l)
    BY <1>1, NoneBecomesActive
  <2> QED BY <2>1, <2>2 DEF Stopped
<1>2. ASSUME UNCHANGED phase PROVE \A l : Active(l)' = Active(l)
  BY <1>2 DEF Active, Listener
<1>3. CASE UNCHANGED serverVars
  BY <1>2, <1>3 DEF serverVars, Stopped
<1>4. CASE GracefulStop
  <2>1. /\ stage' = "shutdown" /\ accepting' = {} /\ UNCHANGED <<code, phase>>
        /\ Active("grpc") = {} /\ stage = "draining"
    BY <1>4 DEF GracefulStop, DrainsCalls, requestVars
  <2> QED BY <1>2, <2>1 DEF Stopped
<1>5. CASE Shutdown
  <2>1. /\ stage' = "closing" /\ UNCHANGED <<accepting, phase>> /\ stage = "shutdown"
        /\ code' = "ok" => Active("http") = {}
    BY <1>5 DEF Shutdown, Returns, requestVars
  <2> QED BY <1>2, <2>1 DEF Stopped
<1>6. CASE \/ Load \/ Open \/ Serve \/ Notify \/ EarlySignal \/ Signal
           \/ ReturnFailure \/ DeadlineExceeded \/ Close
           \/ \E l \in {"grpc", "http"} : ServerFails(l)
  <2>1. UNCHANGED phase
    BY <1>6 DEF Load, Open, Serve, Notify, EarlySignal, Signal, ReturnFailure,
                DeadlineExceeded, Close, ServerFails, requestVars
  <2>2. /\ stage' = "shutdown" => stage = "shutdown"
        /\ code' = "ok" => code = "ok"
        /\ stage = "shutdown" \/ code = "ok" => accepting' \subseteq accepting
        /\ code = "ok" /\ stage \in {"closing", "exited"} => stage' \in {"closing", "exited"}
    BY <1>6 DEF Load, Open, Serve, Notify, EarlySignal, Signal, ReturnFailure, Returns, After,
                DeadlineExceeded, Close, ServerFails, Starting, Stopped
  <2> QED BY <1>2, <2>1, <2>2 DEF Stopped
<1> QED BY <1>1, <1>3, <1>4, <1>5, <1>6 DEF ServerNext, Stops

(* When run returns without an error, every call and every callback that   *)
(* was accepted has been answered: GracefulStop waits for the calls, and   *)
(* Shutdown reports success only when no callback is left.                 *)
THEOREM ExitsCleanly == ServerSpec => []CleanExit
<1>1. ServerInit => SInv /\ Stopped
  BY InitSInv, InitStopped
<1>2. SInv /\ Stopped /\ [ServerNext]_serverVars => SInv' /\ Stopped'
  BY StepKeeps, NextStopped
<1>3. Stopped => CleanExit
  BY DEF Stopped, CleanExit
<1> QED BY <1>1, <1>2, <1>3, PTL DEF ServerSpec

-----------------------------------------------------------------------------
(* The fake PSP.  Track ids are handed out without gaps; an answered       *)
(* client's order is stored, and a client that began after it is numbered  *)
(* higher.                                                                 *)

Prices == {Price[p] : p \in Payers}

Client == [step : {"new", "locking", "requested", "verified", "lost"}, id : Nat,
           amount : {0} \cup Prices]

Answered(p) == session[p].step \notin {"new", "locking"}

NumberedTo(n) ==
    /\ DOMAIN mockOrders = 1 .. n
    /\ \A p \in Payers :
          /\ session[p].step = "new" => session[p].id = 0
          /\ session[p].step = "locking" => session[p].id \in 1 .. n + 1
          /\ Answered(p) => session[p].id \in 1 .. n

MockTyped ==
    /\ \A id \in DOMAIN mockOrders : mockOrders[id] \in [amount : Prices, paid : BOOLEAN]
    /\ session \in [Payers -> Client]
    /\ before \in [Payers -> SUBSET Payers]

BeganAfter ==
    \A p \in Payers : \A q \in before[p] :
        session[p].step # "new" /\ Answered(q) /\ session[q].id < session[p].id

OwnAmount ==
    \A p \in Payers :
        /\ session[p].step = "requested" /\ ~Shared(p) =>
              mockOrders[session[p].id].amount = Price[p]
        /\ session[p].step = "verified" /\ ~Shared(p) => session[p].amount = Price[p]

MockInv == MockTyped /\ (\E n \in Nat : NumberedTo(n)) /\ BeganAfter /\ OwnAmount

LEMMA InitMockInv == MockInit => MockInv
<1> SUFFICES ASSUME MockInit PROVE MockInv
  OBVIOUS
<1>1. DOMAIN mockOrders = {}
  BY DEF MockInit
<1>2. NumberedTo(0)
  BY <1>1 DEF MockInit, NumberedTo, Answered, Session
<1>3. MockTyped
  BY <1>1 DEF MockInit, MockTyped, Session, Client
<1> QED BY <1>2, <1>3 DEF MockInit, MockInv, BeganAfter, OwnAmount, Session

(* An id once given is kept, so what is shared stays shared.               *)
LEMMA StaysShared ==
    ASSUME MockInv, NEW p \in Payers, session[p].step # "new", Shared(p),
           \A q \in Payers : session[q].step # "new" => session'[q].id = session[q].id
    PROVE  Shared(p)'
<1>1. PICK q \in Payers \ {p} : session[q].id = session[p].id
  BY DEF Shared
<1>2. session[q].step # "new"
  <2>1. PICK n \in Nat : NumberedTo(n)
    BY DEF MockInv
  <2>2. session[p].id >= 1
    BY <2>1 DEF MockInv, MockTyped, Client, NumberedTo, Answered
  <2> QED BY <1>1, <2>1, <2>2 DEF NumberedTo
<1> QED BY <1>1, <1>2 DEF Shared

LEMMA RequestNumbers ==
    ASSUME MockInv, NEW p \in Payers, Request(p)
    PROVE  MockInv'
<1>1. PICK n \in Nat : NumberedTo(n)
  BY DEF MockInv
<1>2. NextTrackID = n + 1
  <2>1. DOMAIN mockOrders = 1 .. n
    BY <1>1 DEF NumberedTo
  <2>2. Cardinality(1 .. n) = n
    BY FS_Interval
  <2> QED BY <2>1, <2>2 DEF NextTrackID
<1>3. /\ session[p].step = "new"
      /\ session' = [session EXCEPT ![p] = [step |-> "locking", id |-> n + 1, amount |-> 0]]
      /\ before' = [before EXCEPT ![p] = {q \in Payers : Answered(q)}]
      /\ UNCHANGED mockOrders
  BY <1>2 DEF Request, Session, Answered
<1>4. /\ session'[p] = [step |-> "locking", id |-> n + 1, amount |-> 0]
      /\ before'[p] = {q \in Payers : Answered(q)}
      /\ \A q \in Payers \ {p} : session'[q] = session[q] /\ before'[q] = before[q]
  BY <1>3 DEF MockInv, MockTyped
<1>5. MockTyped'
  <2>1. [step |-> "locking", id |-> n + 1, amount |-> 0] \in Client
    BY DEF Client
  <2> QED BY <1>3, <2>1 DEF MockInv, MockTyped
<1>6. NumberedTo(n)'
  BY <1>1, <1>3, <1>4 DEF NumberedTo, Answered
<1>7. BeganAfter'
  <2> SUFFICES ASSUME NEW q \in Payers, NEW r \in before'[q]
               PROVE  session'[q].step # "new" /\ Answered(r)' /\ session'[r].id < session'[q].id
    BY DEF BeganAfter
  <2>1. r \in Payers
    BY <1>3 DEF MockInv, MockTyped
  <2>2. CASE q = p
    <3>1. Answered(r) /\ session[r].id \in 1 .. n
      BY <1>1, <1>4, <2>2 DEF NumberedTo
    <3>2. r # p
      BY <1>3, <3>1 DEF Answered
    <3> QED BY <1>4, <2>1, <2>2, <3>1, <3>2 DEF Answered
  <2>3. CASE q # p
    <3>1. session[q].step # "new" /\ Answered(r) /\ session[r].id < session[q].id
      BY <1>4, <2>3 DEF MockInv, BeganAfter
    <3>2. r # p
      BY <1>3, <3>1 DEF Answered
    <3> QED BY <1>4, <2>1, <2>3, <3>1, <3>2 DEF Answered
  <2> QED BY <2>2, <2>3
<1>8. OwnAmount'
  <2> SUFFICES ASSUME NEW q \in Payers, session'[q].step \in {"requested", "verified"}, ~Shared(q)'
               PROVE  /\ session'[q].step = "requested" =>
                            mockOrders'[session'[q].id].amount = Price[q]
                      /\ session'[q].step = "verified" => session'[q].amount = Price[q]
    BY DEF OwnAmount
  <2>1. q # p /\ session'[q] = session[q]
    BY <1>4
  <2>2. \A r \in Payers : session[r].step # "new" => session'[r].id = session[r].id
    BY <1>3, <1>4
  <2>3. ~Shared(q)
    BY <2>1, <2>2, StaysShared
  <2> QED BY <1>3, <2>1, <2>3 DEF MockInv, OwnAmount
<1> QED BY <1>5, <1>6, <1>7, <1>8 DEF MockInv

(* A later order under the same id replaces the earlier one: the two       *)
(* clients share it, and nobody else is affected.                          *)
LEMMA StoreKeepsMock ==
    ASSUME MockInv, NEW p \in Payers, StoreOrder(p)
    PROVE  MockInv'
<1>1. PICK n \in Nat : NumberedTo(n)
  BY DEF MockInv
<1>2. PICK id \in 1 .. n + 1 : id = session[p].id
  BY <1>1 DEF NumberedTo, StoreOrder
<1>3. /\ session[p].step = "locking"
      /\ mockOrders' = [x \in 1 .. n \cup {id} |->
                           IF x = id THEN [amount |-> Price[p], paid |-> FALSE]
                           ELSE mockOrders[x]]
      /\ session' = [session EXCEPT ![p].step = "requested"]
      /\ UNCHANGED before
  BY <1>1, <1>2 DEF StoreOrder, NumberedTo
<1>4. PICK m \in Nat : m >= n /\ 1 .. n \cup {id} = 1 .. m
  <2>1. CASE id = n + 1
    <3>1. 1 .. n \cup {id} = 1 .. n + 1
      BY <2>1
    <3> QED BY <3>1
  <2>2. CASE id \in 1 .. n
    <3>1. 1 .. n \cup {id} = 1 .. n
      BY <2>2
    <3> QED BY <3>1
  <2> QED BY <2>1, <2>2
<1>5. /\ session'[p].step = "requested" /\ session'[p].id = id
      /\ session'[p].amount = session[p].amount
      /\ \A q \in Payers \ {p} : session'[q] = session[q]
  BY <1>2, <1>3 DEF MockInv, MockTyped, Client
<1>6. MockTyped'
  <2>1. session' \in [Payers -> Client]
    BY <1>3 DEF MockInv, MockTyped, Client
  <2>2. [amount |-> Price[p], paid |-> FALSE] \in [amount : Prices, paid : BOOLEAN]
    BY DEF Prices
  <2>3. DOMAIN mockOrders' = 1 .. m /\ \A x \in 1 .. m : mockOrders'[x] =
           IF x = id THEN [amount |-> Price[p], paid |-> FALSE] ELSE mockOrders[x]
    BY <1>3, <1>4
  <2>4. \A x \in 1 .. m : x # id => x \in DOMAIN mockOrders
    BY <1>1, <1>4 DEF NumberedTo
  <2> QED BY <1>3, <2>1, <2>2, <2>3, <2>4 DEF MockInv, MockTyped
<1>7. NumberedTo(m)'
  <2>1. DOMAIN mockOrders' = 1 .. m /\ id \in 1 .. m
    BY <1>3, <1>4
  <2>2. 1 .. n \subseteq 1 .. m /\ 1 .. n + 1 \subseteq 1 .. m + 1
    BY <1>4
  <2> QED BY <1>1, <1>5, <2>1, <2>2 DEF NumberedTo, Answered
<1>8. BeganAfter'
  <2> SUFFICES ASSUME NEW q \in Payers, NEW r \in before[q]
               PROVE  session'[q].step # "new" /\ Answered(r)' /\ session'[r].id < session'[q].id
    BY <1>3 DEF BeganAfter
  <2>1. /\ r \in Payers /\ session[q].step # "new"
        /\ Answered(r) /\ session[r].id < session[q].id
    BY DEF MockInv, MockTyped, BeganAfter
  <2>2. \A x \in Payers : session'[x].id = session[x].id
    BY <1>2, <1>5
  <2>3. session'[q].step # "new" /\ Answered(r)'
    BY <1>3, <1>5, <2>1 DEF Answered
  <2> QED BY <2>1, <2>2, <2>3
<1>9. OwnAmount'
  <2> SUFFICES ASSUME NEW q \in Payers, session'[q].step \in {"requested", "verified"}, ~Shared(q)'
               PROVE  /\ session'[q].step = "requested" =>
                            mockOrders'[session'[q].id].amount = Price[q]
                      /\ session'[q].step = "verified" => session'[q].amount = Price[q]
    BY DEF OwnAmount
  <2>1. \A x \in Payers : session'[x].id = session[x].id
    BY <1>2, <1>5
  <2>2. CASE q = p
    BY <1>3, <1>5, <2>2
  <2>3. CASE q # p
    <3>1. session'[q] = session[q] /\ session[q].step # "new"
      BY <1>5, <2>3
    <3>2. ~Shared(q)
      BY <2>1, <3>1, StaysShared
    <3>3. session[q].id # id
      BY <1>2, <2>3, <3>2 DEF Shared
    <3>4. session[q].step = "requested" => session[q].id \in 1 .. n
      BY <1>1 DEF NumberedTo, Answered
    <3>5. session[q].step = "requested" =>
             mockOrders'[session[q].id] = mockOrders[session[q].id]
      BY <1>3, <3>3, <3>4
    <3> QED BY <3>1, <3>2, <3>5 DEF MockInv, OwnAmount
  <2> QED BY <2>2, <2>3
<1> QED BY <1>6, <1>7, <1>8, <1>9 DEF MockInv

(* The steps of an answered client: nothing but "paid" of its order, its   *)
(* own step and the amount it was told.                                    *)
LEMMA AnsweredKeepsMock ==
    ASSUME MockInv, NEW p \in Payers, MarkPaid(p) \/ Verify(p) \/ LoseAnswer(p)
    PROVE  MockInv'
<1>1. PICK n \in Nat : NumberedTo(n)
  BY DEF MockInv
<1>2. PICK id \in 1 .. n : id = session[p].id
  BY <1>1 DEF NumberedTo, Answered, MarkPaid, Verify, LoseAnswer
<1>3. mockOrders[id] \in [amount : Prices, paid : BOOLEAN] /\ DOMAIN mockOrders = 1 .. n
  BY <1>1 DEF MockInv, MockTyped, NumberedTo
<1>4. /\ DOMAIN mockOrders' = 1 .. n
      /\ \A x \in 1 .. n : /\ mockOrders'[x] \in [amount : Prices, paid : BOOLEAN]
                           /\ mockOrders'[x].amount = mockOrders[x].amount
  <2>1. \A x \in 1 .. n : mockOrders[x] \in [amount : Prices, paid : BOOLEAN]
    BY <1>1 DEF MockInv, MockTyped, NumberedTo
  <2>2. CASE mockOrders' = mockOrders
    BY <1>3, <2>1, <2>2
  <2>3. CASE Paying(id)
    BY <1>3, <2>1, <2>3 DEF Paying
  <2> QED BY <1>2, <2>2, <2>3 DEF MarkPaid, Verify, LoseAnswer
<1>5. /\ session[p].step = "requested" /\ Answered(p)' /\ session'[p].id = session[p].id
      /\ session'[p] \in Client
      /\ session'[p].step \in {"requested", "verified", "lost"}
      /\ session'[p].step = "verified" => session'[p].amount = mockOrders[id].amount
      /\ \A q \in Payers \ {p} : session'[q] = session[q]
      /\ DOMAIN session' = Payers
      /\ UNCHANGED before
  BY <1>2, <1>3 DEF MarkPaid, Verify, LoseAnswer, MockInv, MockTyped, Client, Answered
<1>6. MockTyped'
  <2>1. session' \in [Payers -> Client]
    <3>1. session' = [q \in Payers |-> session'[q]]
      BY DEF MarkPaid, Verify, LoseAnswer, MockInv, MockTyped
    <3>2. \A q \in Payers : session'[q] \in Client
      BY <1>5 DEF MockInv, MockTyped
    <3> QED BY <3>1, <3>2
  <2> QED BY <1>4, <1>5, <2>1 DEF MockInv, MockTyped
<1>7. NumberedTo(n)'
  BY <1>1, <1>2, <1>4, <1>5 DEF NumberedTo, Answered
<1>8. \A q \in Payers : session'[q].id = session[q].id
  BY <1>5
<1>9. BeganAfter'
  <2> SUFFICES ASSUME NEW q \in Payers, NEW r \in before[q]
               PROVE  session'[q].step # "new" /\ Answered(r)' /\ session'[r].id < session'[q].id
    BY <1>5 DEF BeganAfter
  <2>1. /\ r \in Payers /\ session[q].step # "new"
        /\ Answered(r) /\ session[r].id < session[q].id
    BY DEF MockInv, MockTyped, BeganAfter
  <2> QED BY <1>5, <1>8, <2>1 DEF Answered
<1>10. OwnAmount'
  <2> SUFFICES ASSUME NEW q \in Payers, session'[q].step \in {"requested", "verified"}, ~Shared(q)'
               PROVE  /\ session'[q].step = "requested" =>
                            mockOrders'[session'[q].id].amount = Price[q]
                      /\ session'[q].step = "verified" => session'[q].amount = Price[q]
    BY DEF OwnAmount
  <2>1. session[q].step # "new"
    BY <1>5
  <2>2. ~Shared(q)
    BY <1>8, <2>1, StaysShared
  <2>3. session[q].step = "requested" =>
           /\ session[q].id \in 1 .. n
           /\ mockOrders[session[q].id].amount = Price[q]
    BY <1>1, <2>2 DEF MockInv, OwnAmount, NumberedTo, Answered
  <2>4. CASE q = p
    BY <1>2, <1>4, <1>5, <2>3, <2>4
  <2>5. CASE q # p
    BY <1>4, <1>5, <2>2, <2>3, <2>5 DEF MockInv, OwnAmount
  <2> QED BY <2>4, <2>5
<1> QED BY <1>6, <1>7, <1>9, <1>10 DEF MockInv

LEMMA NextMockInv == MockInv /\ [MockNext]_mockVars => MockInv'
<1>1. ASSUME MockInv, UNCHANGED mockVars PROVE MockInv'
  BY <1>1 DEF mockVars, MockInv, MockTyped, NumberedTo, BeganAfter, OwnAmount, Shared, Answered
<1> QED BY <1>1, RequestNumbers, StoreKeepsMock, AnsweredKeepsMock DEF MockNext

(* Clients that ask the fake PSP one after the other get track ids of      *)
(* their own, and a client alone on its id verifies its own amount, also   *)
(* when others overlapped (handleRequest numbers before it locks).         *)
THEOREM MockIsFaithful == MockSpec => []MockKeepsApart
<1>1. MockInv => MockKeepsApart
  <2> SUFFICES ASSUME MockInv, NEW p \in Payers
               PROVE  /\ \A q \in before[p] : session[q].id # session[p].id
                      /\ session[p].step = "verified" /\ ~Shared(p) =>
                            session[p].amount = Price[p]
    BY DEF MockKeepsApart
  <2>1. ASSUME NEW q \in before[p] PROVE session[q].id # session[p].id
    <3>1. q \in Payers /\ session[q].id < session[p].id
      BY DEF MockInv, MockTyped, BeganAfter
    <3>2. session[q].id \in Nat /\ session[p].id \in Nat
      BY <3>1 DEF MockInv, MockTyped, Client
    <3> QED BY <3>1, <3>2
  <2> QED BY <2>1 DEF MockInv, OwnAmount
<1> QED BY <1>1, InitMockInv, NextMockInv, PTL DEF MockSpec

-----------------------------------------------------------------------------
(* The provider event log: a row's rank is the number of rows newer than   *)
(* it.  Rows with the same stamp have the same rank.                       *)

Stamped(rows) == IsFiniteSet(rows) /\ \A r \in rows : r.at \in Nat

Newer(r, rows) == {q \in rows : q.at > r.at}

Rank(r, rows) == Cardinality(Newer(r, rows))

LEMMA RankType ==
    ASSUME NEW rows, Stamped(rows), NEW r \in rows
    PROVE  IsFiniteSet(Newer(r, rows)) /\ Rank(r, rows) \in Nat
<1>1. IsFiniteSet(rows) /\ Newer(r, rows) \subseteq rows
  BY DEF Stamped, Newer
<1>2. IsFiniteSet(Newer(r, rows))
  BY <1>1, FS_Subset
<1> QED BY <1>2, FS_CardinalityType DEF Rank

(* More rows never lower a rank.                                           *)
LEMMA RankGrows ==
    ASSUME NEW rows, NEW more, rows \subseteq more, Stamped(more), NEW r \in rows
    PROVE  /\ Rank(r, rows) \in Nat /\ Rank(r, more) \in Nat
           /\ Rank(r, rows) <= Rank(r, more)
<1>1. Stamped(rows)
  BY FS_Subset DEF Stamped
<1>2. IsFiniteSet(Newer(r, more)) /\ Newer(r, rows) \subseteq Newer(r, more)
  BY RankType DEF Newer
<1>3. Cardinality(Newer(r, rows)) <= Cardinality(Newer(r, more))
  BY <1>2, FS_Subset
<1>4. Rank(r, rows) \in Nat /\ Rank(r, more) \in Nat
  BY <1>1, RankType
<1> QED BY <1>3, <1>4 DEF Rank

-----------------------------------------------------------------------------
(* Pages, whatever order the query gives to rows with the same stamp.      *)

(* What is taken is finite; when one row is taken, so is every newer one.  *)
LEMMA NewestTakes ==
    ASSUME NEW rows, Stamped(rows), NEW n \in Nat, NEW S \in Newest(n, rows)
    PROVE  /\ S \subseteq rows /\ IsFiniteSet(S) /\ Cardinality(S) \in Nat
           /\ Cardinality(S) <= n
           /\ Cardinality(S) = n \/ S = rows
           /\ \A x \in S : Newer(x, rows) \subseteq S
           /\ \A x \in rows \ S : \A y \in S : y.at = x.at \/ y \in Newer(x, rows)
<1>1. /\ S \subseteq rows /\ \A x \in S, q \in rows \ S : x.at >= q.at
      /\ Cardinality(S) = n \/ (S = rows /\ Cardinality(S) < n)
  BY DEF Newest
<1>2. IsFiniteSet(S) /\ Cardinality(S) \in Nat
  BY <1>1, FS_Subset, FS_CardinalityType DEF Stamped
<1>3. Cardinality(S) <= n /\ (Cardinality(S) = n \/ S = rows)
  BY <1>1, <1>2
<1>4. ASSUME NEW x \in S, NEW y \in Newer(x, rows) PROVE y \in S
  <2>1. y \in rows /\ y.at > x.at /\ y.at \in Nat /\ x.at \in Nat
    BY <1>1 DEF Newer, Stamped
  <2>2. y \notin S => x.at >= y.at
    BY <1>1, <2>1
  <2> QED BY <2>1, <2>2
<1>5. ASSUME NEW x \in rows \ S, NEW y \in S PROVE y.at = x.at \/ y \in Newer(x, rows)
  <2>1. y \in rows /\ y.at >= x.at /\ y.at \in Nat /\ x.at \in Nat
    BY <1>1 DEF Stamped
  <2>2. y.at = x.at \/ y.at > x.at
    BY <2>1
  <2> QED BY <2>1, <2>2 DEF Newer
<1> QED BY <1>1, <1>2, <1>3, <1>4, <1>5

(* A page holds the stamp of every row that ranks in it, and, when it is   *)
(* not full, of every row that ranks behind its begin.                     *)
LEMMA PageReaches ==
    ASSUME NEW rows, Stamped(rows), NEW o \in Nat, NEW n \in Nat \ {0},
           NEW skipped \in Newest(o, rows), NEW items \in Newest(n, rows \ skipped),
           NEW r \in rows, o <= Rank(r, rows),
           Rank(r, rows) < o + n \/ Cardinality(items) # n
    PROVE  \E q \in items : q.at = r.at
<1> DEFINE left == rows \ skipped
           newer == Newer(r, rows)
<1>1. Stamped(left) /\ left \subseteq rows
  BY FS_Subset DEF Stamped
<1>2. /\ skipped \subseteq rows /\ IsFiniteSet(skipped) /\ Cardinality(skipped) \in Nat
      /\ Cardinality(skipped) <= o
      /\ Cardinality(skipped) = o \/ skipped = rows
      /\ \A x \in skipped : Newer(x, rows) \subseteq skipped
      /\ \A x \in rows \ skipped : \A y \in skipped : y.at = x.at \/ y \in Newer(x, rows)
  BY NewestTakes
<1>3. /\ items \subseteq left /\ IsFiniteSet(items) /\ Cardinality(items) \in Nat
      /\ Cardinality(items) = n \/ items = left
      /\ \A x \in left \ items : \A y \in items : y.at = x.at \/ y \in Newer(x, left)
  <2> HIDE DEF left
  <2> QED BY <1>1, NewestTakes DEF left
<1>4. IsFiniteSet(newer) /\ Cardinality(newer) = Rank(r, rows) /\ Rank(r, rows) \in Nat
      /\ r \notin newer
  <2>1. r \notin newer
    BY DEF Newer, Stamped
  <2> QED BY <2>1, RankType DEF Rank
<1>5. r \notin skipped
  <2> SUFFICES ASSUME r \in skipped PROVE FALSE
    OBVIOUS
  <2>1. newer \subseteq skipped
    BY <1>2
  <2>2. Cardinality(newer) <= Cardinality(skipped) /\ Cardinality(newer) # Cardinality(skipped)
    BY <1>2, <1>4, <2>1, FS_Subset
  <2> QED BY <1>2, <1>4, <2>2
<1>6. CASE r \in items
  BY <1>6
<1>7. CASE r \notin items
  <2> SUFFICES ASSUME \A q \in items : q.at # r.at PROVE FALSE
    OBVIOUS
  <2>1. r \in left \ items /\ Cardinality(items) = n /\ Cardinality(skipped) = o
    BY <1>2, <1>3, <1>5, <1>7
  <2>2. items \subseteq newer
    BY <1>1, <1>3, <2>1 DEF Newer
  <2>3. ASSUME NEW x \in skipped PROVE x \in newer
    <3>1. x.at = r.at \/ x \in newer
      BY <1>2, <1>5
    <3>2. x.at # r.at
      <4> SUFFICES ASSUME x.at = r.at PROVE FALSE
        OBVIOUS
      <4>1. newer \subseteq skipped
        BY <1>2 DEF Newer
      <4>2. items = {}
        BY <1>3, <2>2, <4>1
      <4> QED BY <2>1, <4>2, FS_EmptySet
    <3> QED BY <3>1, <3>2
  <2>4. skipped \cup items \subseteq newer /\ skipped \cap items = {}
    BY <1>3, <2>2, <2>3
  <2> HIDE DEF left, newer
  <2>5. Cardinality(skipped \cup items)
            = Cardinality(skipped) + Cardinality(items) - Cardinality(skipped \cap items)
    BY <1>2, <1>3, FS_Union
  <2>6. Cardinality(skipped \cup items) = o + n
    BY <2>1, <2>4, <2>5, FS_EmptySet
  <2>7. Cardinality(skipped \cup items) <= Cardinality(newer)
    BY <1>4, <2>4, FS_Subset
  <2> QED BY <1>4, <2>1, <2>6, <2>7
<1> QED BY <1>6, <1>7

(* The rows before a page that is not full, and its own, are all there are. *)
LEMMA PageIsLast ==
    ASSUME NEW rows, Stamped(rows), NEW o \in Nat, NEW n \in Nat \ {0},
           NEW skipped \in Newest(o, rows), NEW items \in Newest(n, rows \ skipped),
           Cardinality(items) # n
    PROVE  o + Cardinality(items) >= Cardinality(rows)
<1> DEFINE left == rows \ skipped
<1>1. Stamped(left)
  BY FS_Subset DEF Stamped
<1>2. /\ skipped \subseteq rows /\ IsFiniteSet(skipped) /\ Cardinality(skipped) \in Nat
      /\ Cardinality(skipped) <= o
  BY NewestTakes
<1>3. items = left /\ IsFiniteSet(items) /\ Cardinality(items) \in Nat
  <2> HIDE DEF left
  <2> QED BY <1>1, NewestTakes DEF left
<1>4. rows = skipped \cup items /\ skipped \cap items = {}
  BY <1>2, <1>3
<1> HIDE DEF left
<1>5. Cardinality(skipped \cup items)
          = Cardinality(skipped) + Cardinality(items) - Cardinality(skipped \cap items)
  BY <1>2, <1>3, FS_Union
<1>6. Cardinality(skipped \cap items) = 0
  BY <1>4, FS_EmptySet
<1>7. Cardinality(rows) = Cardinality(skipped) + Cardinality(items)
  BY <1>2, <1>3, <1>4, <1>5, <1>6
<1> QED BY <1>2, <1>3, <1>7

-----------------------------------------------------------------------------
(* The invariant of a walk.  Of what it began with it has seen the stamp   *)
(* of all that ranks before its pages; a page not full saw them all.       *)

Rows == [event : Events, at : Nat]

EventsTyped ==
    /\ clock \in Nat
    /\ logging \in [Events -> [step : {"new", "begun", "done"}, at : Nat]]
    /\ logged \subseteq Rows /\ IsFiniteSet(logged)

Walk ==
    [step : {"count", "page", "listed"}, filter : Filters, limit : Nat \ {0},
     page : Nat \ {0}, total : Nat, items : SUBSET logged, seen : SUBSET logged,
     began : SUBSET logged]

Listed == IF listing.step = "listed" THEN listing.page ELSE listing.page - 1

Saw(r, seen) == \E q \in seen : q.at = r.at

Swept ==
    \A r \in listing.began :
        /\ r \in Matching(listing.filter)
        /\ Rank(r, Matching(listing.filter)) < Listed * listing.limit => Saw(r, listing.seen)

Walking ==
    listing.step # "none" =>
        /\ listing \in Walk
        /\ Swept
        /\ listing.step = "page" => listing.total <= Counted(listing.filter)
        /\ listing.step = "listed" /\ ~Full =>
              /\ \A r \in listing.began : Saw(r, listing.seen)
              /\ Offset(listing.page, listing.limit) + Cardinality(listing.items)
                     >= listing.total

EventsInv == EventsTyped /\ Walking

LEMMA InitEventsInv == EventsInit => EventsInv
<1>1. IsFiniteSet({})
  BY FS_EmptySet
<1> QED BY <1>1 DEF EventsInit, EventsInv, EventsTyped, Walking

(* Whatever a listing matches is stamped, and only grows.                  *)
LEMMA MatchingStamped ==
    EventsTyped => \A filter : Stamped(Matching(filter))
<1> SUFFICES ASSUME EventsTyped, NEW filter PROVE Stamped(Matching(filter))
  OBVIOUS
<1>1. Matching(filter) \subseteq logged
  BY DEF Matching
<1>2. IsFiniteSet(Matching(filter))
  BY <1>1, FS_Subset DEF EventsTyped
<1> QED BY <1>1, <1>2 DEF EventsTyped, Rows, Stamped

(* A walk is not disturbed by rows that appear before, in or behind its    *)
(* pages.                                                                  *)
LEMMA WalkGoesOn ==
    ASSUME EventsInv, EventsTyped', logged \subseteq logged', UNCHANGED listing
    PROVE  Walking'
<1> SUFFICES ASSUME listing.step # "none"
             PROVE  /\ listing \in Walk'
                    /\ Swept'
                    /\ listing.step = "page" => listing.total <= Counted(listing.filter)'
                    /\ listing.step = "listed" /\ ~Full =>
                          /\ \A r \in listing.began : Saw(r, listing.seen)
                          /\ Offset(listing.page, listing.limit) + Cardinality(listing.items)
                                 >= listing.total
  BY DEF Walking, Full, Offset, Saw
<1> DEFINE rows == Matching(listing.filter)
           more == Matching(listing.filter)'
<1>1. /\ listing \in Walk /\ Swept
      /\ listing.step = "page" => listing.total <= Counted(listing.filter)
  BY DEF EventsInv, Walking
<1>2. rows \subseteq more
  BY DEF Matching
<1>3. Stamped(rows) /\ Stamped(more)
  <2>1. Stamped(rows)
    BY MatchingStamped DEF EventsInv
  <2>2. EventsTyped' => (\A filter : Stamped(Matching(filter)))'
    BY MatchingStamped, PTL
  <2>3. \A filter : Stamped({r \in logged' : filter \in {"", EventType[r.event]}})
    BY <2>2 DEF Matching, Stamped
  <2> QED BY <2>1, <2>3 DEF Matching
<1>4. listing \in Walk'
  BY <1>1 DEF Walk
<1>5. Swept'
  <2> SUFFICES ASSUME NEW r \in listing.began
               PROVE  /\ r \in more
                      /\ Rank(r, more) < Listed * listing.limit => Saw(r, listing.seen)
    BY DEF Swept, Listed, Rank, Newer, Saw
  <2>1. r \in rows /\ (Rank(r, rows) < Listed * listing.limit => Saw(r, listing.seen))
    BY <1>1 DEF Swept
  <2>2. /\ Rank(r, rows) \in Nat /\ Rank(r, more) \in Nat
        /\ Rank(r, rows) <= Rank(r, more)
    <3> HIDE DEF rows, more
    <3> QED BY <1>2, <1>3, <2>1, RankGrows
  <2>3. Listed * listing.limit \in Int
    <3> DEFINE k == Listed
               n == listing.limit
    <3>1. k \in Int /\ n \in Int
      BY <1>1 DEF Walk, Listed
    <3> HIDE DEF k, n
    <3>2. k * n \in Int
      BY <3>1
    <3> QED BY <3>2 DEF k, n
  <2> DEFINE bound == Listed * listing.limit
  <2> HIDE DEF bound, rows, more
  <2>4. Rank(r, more) < bound => Rank(r, rows) < bound
    BY <2>2, <2>3 DEF bound
  <2> QED BY <1>2, <2>1, <2>4 DEF bound
<1>6. listing.step = "page" => listing.total <= Counted(listing.filter)'
  <2>1. Cardinality(rows) <= Cardinality(more)
    <3> HIDE DEF rows, more
    <3> QED BY <1>2, <1>3, FS_Subset DEF Stamped
  <2>2. Cardinality(rows) \in Nat /\ Cardinality(more) \in Nat
    <3> HIDE DEF rows, more
    <3> QED BY <1>3, FS_CardinalityType DEF Stamped
  <2>3. listing.total \in Nat /\ Counted(listing.filter) = Cardinality(rows)
        /\ Counted(listing.filter)' = Cardinality(more)
    BY <1>1 DEF Walk, Counted
  <2> HIDE DEF rows, more
  <2> QED BY <1>1, <2>1, <2>2, <2>3
<1> QED BY <1>4, <1>5, <1>6 DEF EventsInv, Walking

-----------------------------------------------------------------------------
(* The steps of the log.                                                   *)

LEMMA RowKeeps ==
    ASSUME EventsInv, NEW e \in Events, NEW at \in Nat, Create(e, at),
           clock' \in Nat, UNCHANGED listing
    PROVE  EventsInv'
<1> DEFINE row == [event |-> e, at |-> at]
           entry == [step |-> "done", at |-> at]
<1>1. /\ logged' = logged \cup {row}
      /\ logging' = [logging EXCEPT ![e] = entry]
      /\ row \in Rows
      /\ entry \in [step : {"new", "begun", "done"}, at : Nat]
  BY DEF Create, Rows
<1> HIDE DEF row, entry
<1>2. IsFiniteSet(logged')
  BY <1>1, FS_AddElement DEF EventsInv, EventsTyped
<1>3. EventsTyped'
  BY <1>1, <1>2 DEF EventsInv, EventsTyped
<1> QED BY <1>1, <1>3, WalkGoesOn DEF EventsInv

LEMMA LogKeeps ==
    ASSUME EventsInv, NEW e \in Events,
           LogEvent(e) \/ BeginVerify(e) \/ LogVerify(e) \/ RollbackLog(e)
    PROVE  EventsInv'
<1>1. /\ clock \in Nat /\ \A t \in Now : t \in Nat
      /\ logging \in [Events -> [step : {"new", "begun", "done"}, at : Nat]]
  BY DEF EventsInv, EventsTyped, Now
<1>2. CASE LogEvent(e)
  <2>1. clock' \in Nat /\ Create(e, clock') /\ UNCHANGED listing
    BY <1>1, <1>2 DEF LogEvent
  <2> QED BY <2>1, RowKeeps
<1>3. CASE LogVerify(e)
  <2>1. Create(e, logging[e].at) /\ UNCHANGED <<clock, listing>>
    BY <1>3 DEF LogVerify
  <2>2. logging[e].at \in Nat
    BY <1>1
  <2> QED BY <1>1, <2>1, <2>2, RowKeeps
<1>4. CASE BeginVerify(e)
  <2> DEFINE entry == [step |-> "begun", at |-> clock']
  <2>1. /\ clock' \in Nat /\ logging' = [logging EXCEPT ![e] = entry]
        /\ UNCHANGED <<logged, listing>>
        /\ entry \in [step : {"new", "begun", "done"}, at : Nat]
    BY <1>1, <1>4 DEF BeginVerify
  <2> HIDE DEF entry
  <2>2. EventsTyped'
    BY <1>1, <2>1 DEF EventsInv, EventsTyped
  <2> QED BY <2>1, <2>2, WalkGoesOn DEF EventsInv
<1>5. CASE RollbackLog(e)
  <2> DEFINE entry == [logging[e] EXCEPT !.step = "done"]
  <2>1. /\ logging' = [logging EXCEPT ![e] = entry]
        /\ UNCHANGED <<logged, clock, listing>>
        /\ entry \in [step : {"new", "begun", "done"}, at : Nat]
    BY <1>1, <1>5 DEF RollbackLog
  <2> HIDE DEF entry
  <2>2. EventsTyped'
    BY <1>1, <2>1 DEF EventsInv, EventsTyped
  <2> QED BY <2>1, <2>2, WalkGoesOn DEF EventsInv
<1> QED BY <1>2, <1>3, <1>4, <1>5

-----------------------------------------------------------------------------
(* The steps of the walk.                                                  *)

(* Arithmetic of the pages.                                                *)
LEMMA PagesMeet ==
    ASSUME NEW k \in Int, NEW n \in Int
    PROVE  (k - 1) * n + n = k * n /\ (k - 1) * n \in Int /\ k * n \in Int
OBVIOUS

LEMMA OffsetType ==
    ASSUME NEW k \in Nat \ {0}, NEW n \in Nat \ {0}
    PROVE  Offset(k, n) \in Nat
<1> DEFINE m == k - 1
<1>1. m \in Nat
  OBVIOUS
<1> HIDE DEF m
<1>2. m * n \in Nat
  BY <1>1
<1> QED BY <1>2 DEF m, Offset

LEMMA WalkStarts ==
    ASSUME EventsInv, NEW filter \in Filters, NEW limit \in Limits,
           StartListing(filter, limit)
    PROVE  EventsInv'
<1> DEFINE n == Bounded(limit)
           walk == [step |-> "count", filter |-> filter, limit |-> n, page |-> 1,
                    total |-> 0, items |-> {}, seen |-> {}, began |-> Matching(filter)]
<1>1. n \in Nat \ {0}
  BY EventsAssumption DEF Bounded
<1>2. listing' = walk /\ UNCHANGED <<logged, logging, clock>>
  BY DEF StartListing
<1>3. EventsTyped'
  BY <1>2 DEF EventsInv, EventsTyped
<1> HIDE DEF n
<1>4. listing' \in Walk'
  <2>1. Matching(filter) \subseteq logged
    BY DEF Matching
  <2>2. walk \in Walk
    BY <1>1, <2>1 DEF Walk
  <2> QED BY <1>2, <2>2 DEF Walk
<1>5. Swept'
  <2> SUFFICES ASSUME NEW r \in Matching(filter)
               PROVE  ~ (Rank(r, Matching(filter)) < (1 - 1) * n)
    BY <1>2 DEF Swept, Listed, Matching, Rank, Newer, Saw
  <2>1. Rank(r, Matching(filter)) \in Nat
    BY MatchingStamped, RankType DEF EventsInv
  <2>2. (1 - 1) * n = 0
    BY <1>1
  <2> QED BY <2>1, <2>2
<1> QED BY <1>2, <1>3, <1>4, <1>5 DEF EventsInv, Walking

LEMMA CountKeeps ==
    ASSUME EventsInv, CountEvents
    PROVE  EventsInv'
<1> DEFINE c == Counted(listing.filter)
<1>1. listing \in Walk /\ Swept /\ listing.step = "count"
  BY DEF EventsInv, Walking, CountEvents
<1>2. /\ listing' = [listing EXCEPT !.step = "page", !.total = c]
      /\ UNCHANGED <<logged, logging, clock>>
  BY DEF CountEvents
<1>3. c \in Nat
  <2>1. IsFiniteSet(Matching(listing.filter))
    BY MatchingStamped DEF EventsInv, Stamped
  <2> QED BY <2>1, FS_CardinalityType DEF Counted
<1>4. EventsTyped'
  BY <1>2 DEF EventsInv, EventsTyped
<1>5. Counted(listing.filter)' = c
  BY <1>1, <1>2 DEF Walk, Counted, Matching
<1> HIDE DEF c
<1>6. /\ listing' \in Walk'
      /\ listing'.step = "page" /\ listing'.total = c
      /\ listing'.filter = listing.filter /\ listing'.limit = listing.limit
      /\ listing'.page = listing.page
      /\ listing'.began = listing.began /\ listing'.seen = listing.seen
  BY <1>1, <1>2, <1>3 DEF Walk
<1>7. Swept'
  BY <1>1, <1>2, <1>6 DEF Swept, Listed, Matching, Rank, Newer, Saw
<1>8. listing'.total <= Counted(listing.filter)'
  BY <1>3, <1>5, <1>6
<1> QED BY <1>4, <1>6, <1>7, <1>8 DEF EventsInv, Walking

LEMMA NextPageKeeps ==
    ASSUME EventsInv, NextPage
    PROVE  EventsInv'
<1>1. listing \in Walk /\ Swept /\ listing.step = "listed"
  BY DEF EventsInv, Walking, NextPage
<1>2. /\ listing' = [listing EXCEPT !.step = "count", !.page = listing.page + 1]
      /\ UNCHANGED <<logged, logging, clock>>
  BY DEF NextPage
<1>3. EventsTyped'
  BY <1>2 DEF EventsInv, EventsTyped
<1>4. Walk' = Walk
  BY <1>2 DEF Walk
<1>5. /\ listing' \in Walk
      /\ listing'.step = "count" /\ listing'.page = listing.page + 1
      /\ listing'.filter = listing.filter /\ listing'.limit = listing.limit
      /\ listing'.began = listing.began /\ listing'.seen = listing.seen
  <2> DEFINE k == listing.page + 1
  <2>1. k \in Nat \ {0}
    BY <1>1 DEF Walk
  <2>2. listing' = [listing EXCEPT !.step = "count", !.page = k]
    BY <1>2
  <2> HIDE DEF k
  <2>3. listing'.page = k
    BY <1>1, <2>2 DEF Walk
  <2> QED BY <1>1, <2>1, <2>2, <2>3 DEF Walk, k
<1>6. Listed' = Listed
  BY <1>1, <1>5 DEF Listed, Walk
<1>7. Swept'
  BY <1>1, <1>2, <1>5, <1>6 DEF Swept, Matching, Rank, Newer, Saw
<1> QED BY <1>3, <1>4, <1>5, <1>7 DEF EventsInv, Walking

(* The page that is read: the stamp of what began the walk and ranks       *)
(* before its end was seen, now or before; if it is not full, of all.      *)
LEMMA ListPageKeeps ==
    ASSUME EventsInv, ListPage
    PROVE  EventsInv'
<1> DEFINE rows == Matching(listing.filter)
           n == listing.limit
           o == Offset(listing.page, listing.limit)
<1>1. /\ listing \in Walk /\ Swept /\ listing.step = "page"
      /\ listing.total <= Counted(listing.filter)
  BY DEF EventsInv, Walking, ListPage
<1>2. PICK items \in Pages(listing.filter, listing.page, listing.limit) :
          /\ listing' = [listing EXCEPT !.step = "listed", !.items = items,
                                        !.seen = listing.seen \cup items]
          /\ UNCHANGED <<logged, logging, clock>>
  BY DEF ListPage
<1>3. EventsTyped'
  BY <1>2 DEF EventsInv, EventsTyped
<1>4. Stamped(rows)
  BY MatchingStamped DEF EventsInv
<1>5. /\ n \in Nat \ {0} /\ o \in Nat
      /\ o = Listed * n
      /\ o + n = listing.page * n
  <2>1. n \in Nat \ {0} /\ listing.page \in Nat \ {0}
    BY <1>1 DEF Walk
  <2>2. Listed = listing.page - 1
    BY <1>1 DEF Listed
  <2>3. Offset(listing.page, n) \in Nat
    <3> HIDE DEF n
    <3> QED BY <2>1, OffsetType
  <2>4. o = Listed * n
    BY <2>2 DEF Offset
  <2>5. o + n = listing.page * n
    <3> HIDE DEF n
    <3>1. (listing.page - 1) * n + n = listing.page * n
      BY <2>1, PagesMeet
    <3> QED BY <3>1 DEF Offset, n
  <2> QED BY <2>1, <2>3, <2>4, <2>5
<1>6. PICK skipped \in Newest(o, rows) : items \in Newest(n, rows \ skipped)
  BY <1>2 DEF Pages
<1>7. items \subseteq logged
  BY <1>6 DEF Newest, Matching
<1>8. /\ listing' \in Walk'
      /\ listing'.step = "listed" /\ listing'.page = listing.page
      /\ listing'.filter = listing.filter /\ listing'.limit = listing.limit
      /\ listing'.began = listing.began /\ listing'.seen = listing.seen \cup items
      /\ listing'.items = items /\ listing'.total = listing.total
  BY <1>1, <1>2, <1>7 DEF Walk
<1>9. Matching(listing.filter)' = rows /\ Listed' = listing.page
  BY <1>2, <1>8 DEF Matching, Listed
<1>10. ASSUME NEW r \in listing.began
       PROVE  /\ r \in rows
              /\ Rank(r, rows) < o + n \/ Cardinality(items) # n =>
                     Saw(r, listing.seen \cup items)
  <2>1. r \in rows /\ (Rank(r, rows) < o => Saw(r, listing.seen))
    BY <1>1, <1>5 DEF Swept
  <2>2. Rank(r, rows) \in Nat
    BY <1>4, <2>1, RankType
  <2> HIDE DEF rows, o, n
  <2>3. o <= Rank(r, rows) /\ (Rank(r, rows) < o + n \/ Cardinality(items) # n) =>
            \E q \in items : q.at = r.at
    BY <1>4, <1>5, <1>6, <2>1, PageReaches
  <2>4. Rank(r, rows) < o \/ o <= Rank(r, rows)
    BY <1>5, <2>2
  <2> QED BY <2>1, <2>3, <2>4 DEF Saw
<1>11. Swept'
  <2> SUFFICES ASSUME NEW r \in listing.began
               PROVE  /\ r \in rows
                      /\ Rank(r, rows) < listing.page * n => Saw(r, listing.seen \cup items)
    BY <1>2, <1>8, <1>9 DEF Swept, Rank, Newer, Matching, Saw
  <2> QED BY <1>5, <1>10
<1>12. ASSUME Cardinality(items) # n
       PROVE  o + Cardinality(items) >= listing.total
  <2>1. listing.total \in Nat /\ listing.total <= Cardinality(rows)
    BY <1>1 DEF Walk, Counted
  <2> HIDE DEF rows, o, n
  <2>2. o + Cardinality(items) >= Cardinality(rows)
    BY <1>4, <1>5, <1>6, <1>12, PageIsLast
  <2>3. Cardinality(items) \in Nat /\ Cardinality(rows) \in Nat
    <3>1. IsFiniteSet(rows) /\ items \subseteq rows
      BY <1>4, <1>6 DEF Stamped, Newest
    <3> QED BY <3>1, FS_Subset, FS_CardinalityType
  <2> QED BY <1>5, <2>1, <2>2, <2>3
<1>13. ~ Full' => Cardinality(items) # n
  BY <1>8 DEF Full
<1>14. Offset(listing'.page, listing'.limit) = o
  BY <1>8
<1> HIDE DEF rows, o, n
<1>15. ~ Full' =>
          /\ \A r \in listing'.began : Saw(r, listing'.seen)
          /\ Offset(listing'.page, listing'.limit) + Cardinality(listing'.items)
                 >= listing'.total
  BY <1>8, <1>10, <1>12, <1>13, <1>14
<1>16. Walking'
  BY <1>8, <1>11, <1>15 DEF Walking, Offset, Saw
<1> QED BY <1>3, <1>16 DEF EventsInv

LEMMA NextEventsInv == EventsInv /\ [EventsNext]_eventsVars => EventsInv'
<1>1. ASSUME EventsInv, UNCHANGED eventsVars PROVE EventsInv'
  <2>1. UNCHANGED <<logged, logging, clock, listing>>
    BY <1>1 DEF eventsVars
  <2>2. EventsTyped'
    BY <1>1, <2>1 DEF EventsInv, EventsTyped
  <2> QED BY <1>1, <2>1, <2>2, WalkGoesOn DEF EventsInv
<1> QED BY <1>1, LogKeeps, WalkStarts, CountKeeps, ListPageKeeps, NextPageKeeps DEF EventsNext

LEMMA EventsInvariant == EventsSpec => []EventsInv
BY InitEventsInv, NextEventsInv, PTL DEF EventsSpec

(* Who pages to the end misses an event there was at the beginning only    *)
(* for another with the very same stamp, though rows keep appearing in     *)
(* front of, in and behind the pages, stamps repeat, and every query       *)
(* orders equal ones anew (ListProviderEvents, by OFFSET and created_at).  *)
THEOREM PagingIsComplete == EventsSpec => []PagesMissNothing
<1>1. EventsInv => PagesMissNothing
  BY DEF EventsInv, Walking, Saw, PagesMissNothing
<1> QED BY <1>1, EventsInvariant, PTL

(* The page that ends the walk reaches the total reported with it, though  *)
(* the total was counted in a query of its own (List).                     *)
THEOREM PagingReachesTotal == EventsSpec => []TotalIsReached
<1>1. EventsInv => TotalIsReached
  BY DEF EventsInv, Walking, TotalIsReached
<1> QED BY <1>1, EventsInvariant, PTL

-----------------------------------------------------------------------------
(* The books: ledger entries, by account and column.                       *)

Columns == {"debit", "credit"}

(* A column of a journal, what it sums to over some accounts, and what the *)
(* journals of S sum to.                                                   *)
Column(j, c) == [a \in DOMAIN j.lines |-> j.lines[a][c]]

Part(j, accounts, c) == SumFunctionOnSet(Column(j, c), accounts \cap DOMAIN j.lines)

SumOf(accounts, c, S) == SumFunctionOnSet([j \in S |-> Part(j, accounts, c)], S)

Stored(S) == S \subseteq Inputs /\ IsFiniteSet(S)

(* Module Functions defines the sum, here and again inside D.              *)
LEMMA SameSum == ASSUME NEW f, NEW S PROVE D!SumFunctionOnSet(f, S) = SumFunctionOnSet(f, S)
BY DEF SumFunctionOnSet, FoldFunctionOnSet, MapThenFoldSet, D!SumFunctionOnSet,
       D!FoldFunctionOnSet, D!MapThenFoldSet

LEMMA SameTotal ==
    ASSUME NEW f PROVE D!SumFunction(f) = SumFunctionOnSet(f, DOMAIN f)
<1>1. D!SumFunction(f) = D!SumFunctionOnSet(f, DOMAIN f)
  BY DEF D!SumFunction, D!FoldFunction, D!SumFunctionOnSet
<1> QED BY <1>1, SameSum

LEMMA ColumnType ==
    ASSUME NEW j \in Inputs, NEW c \in Columns
    PROVE  /\ IsFiniteSet(DOMAIN j.lines)
           /\ DOMAIN Column(j, c) = DOMAIN j.lines
           /\ \A a \in DOMAIN j.lines : Column(j, c)[a] \in Int
BY BooksAssumption DEF Columns, Column

LEMMA TotalsAre ==
    ASSUME NEW j \in Inputs, NEW accounts
    PROVE  /\ D!TotalDebit(LinesIn(j, accounts)) = Part(j, accounts, "debit")
           /\ D!TotalCredit(LinesIn(j, accounts)) = Part(j, accounts, "credit")
<1> DEFINE l == LinesIn(j, accounts)
           A == accounts \cap DOMAIN j.lines
           debit == [a \in DOMAIN l |-> l[a].debit]
           credit == [a \in DOMAIN l |-> l[a].credit]
<1>1. IsFiniteSet(A)
  BY BooksAssumption, FS_Subset
<1>2. /\ DOMAIN l = A /\ DOMAIN debit = A /\ DOMAIN credit = A
      /\ \A a \in A : debit[a] = Column(j, "debit")[a] /\ credit[a] = Column(j, "credit")[a]
  BY DEF LinesIn, Restrict, Column
<1>3. /\ D!TotalDebit(l) = D!SumFunction(debit)
      /\ D!TotalCredit(l) = D!SumFunction(credit)
  BY DEF D!TotalDebit, D!TotalCredit
<1> HIDE DEF l, A, debit, credit
<1>4. /\ D!SumFunction(debit) = SumFunctionOnSet(debit, A)
      /\ D!SumFunction(credit) = SumFunctionOnSet(credit, A)
  BY <1>2, SameTotal
<1>5. /\ SumFunctionOnSet(debit, A) = SumFunctionOnSet(Column(j, "debit"), A)
      /\ SumFunctionOnSet(credit, A) = SumFunctionOnSet(Column(j, "credit"), A)
  BY <1>1, <1>2, SumSame
<1> QED BY <1>3, <1>4, <1>5 DEF Part, l, A

LEMMA ColumnTotals ==
    ASSUME NEW j \in Inputs, NEW accounts, DOMAIN j.lines \subseteq accounts
    PROVE  /\ D!TotalDebit(j.lines) = Part(j, accounts, "debit")
           /\ D!TotalCredit(j.lines) = Part(j, accounts, "credit")
<1>1. /\ D!TotalDebit(j.lines) = D!SumFunction(Column(j, "debit"))
      /\ D!TotalCredit(j.lines) = D!SumFunction(Column(j, "credit"))
  BY DEF D!TotalDebit, D!TotalCredit, Column
<1>2. /\ D!SumFunction(Column(j, "debit")) = SumFunctionOnSet(Column(j, "debit"), DOMAIN j.lines)
      /\ D!SumFunction(Column(j, "credit")) = SumFunctionOnSet(Column(j, "credit"), DOMAIN j.lines)
  BY SameTotal, ColumnType DEF Columns
<1>3. accounts \cap DOMAIN j.lines = DOMAIN j.lines
  OBVIOUS
<1> QED BY <1>1, <1>2, <1>3 DEF Part

LEMMA PartType ==
    ASSUME NEW j \in Inputs, NEW accounts, NEW c \in Columns
    PROVE  /\ Part(j, accounts, c) \in Int
           /\ D!ValidateLines(j.lines) => Part(j, accounts, c) \in Nat
<1> DEFINE A == accounts \cap DOMAIN j.lines
<1>1. IsFiniteSet(A) /\ \A a \in A : Column(j, c)[a] \in Int
  BY ColumnType, FS_Subset
<1>2. ASSUME D!ValidateLines(j.lines) PROVE \A a \in A : Column(j, c)[a] \in Nat
  <2>1. \A a \in A : /\ j.lines[a].debit \in Int /\ j.lines[a].credit \in Int
                     /\ j.lines[a].debit >= 0 /\ j.lines[a].credit >= 0
    BY <1>2, BooksAssumption DEF D!ValidateLines, D!ValidLine
  <2> QED BY <2>1 DEF Columns, Column
<1> HIDE DEF A
<1> QED BY <1>1, <1>2, SumType, SumNat DEF Part, A

(* One account, and accounts apart.                                        *)
LEMMA PartOfOne ==
    ASSUME NEW j \in Inputs, NEW a, NEW c \in Columns
    PROVE  Part(j, {a}, c) = IF a \in DOMAIN j.lines THEN j.lines[a][c] ELSE 0
<1>1. CASE a \in DOMAIN j.lines
  <2>1. {a} \cap DOMAIN j.lines = {a}
    BY <1>1
  <2>2. Column(j, c)[a] \in Int /\ Column(j, c)[a] = j.lines[a][c]
    BY <1>1, ColumnType DEF Column
  <2>3. SumFunctionOnSet(Column(j, c), {a}) = Column(j, c)[a]
    BY <2>2, SumOne
  <2> QED BY <1>1, <2>1, <2>2, <2>3 DEF Part
<1>2. CASE a \notin DOMAIN j.lines
  <2>1. {a} \cap DOMAIN j.lines = {}
    BY <1>2
  <2> QED BY <1>2, <2>1, SumEmpty DEF Part
<1> QED BY <1>1, <1>2

LEMMA PartUnion ==
    ASSUME NEW j \in Inputs, NEW A, NEW B, A \cap B = {}, NEW c \in Columns
    PROVE  Part(j, A \cup B, c) = Part(j, A, c) + Part(j, B, c)
<1> DEFINE S == A \cap DOMAIN j.lines
           T == B \cap DOMAIN j.lines
<1>1. (A \cup B) \cap DOMAIN j.lines = S \cup T /\ S \cap T = {}
  OBVIOUS
<1>2. IsFiniteSet(S) /\ IsFiniteSet(T) /\ \A a \in S \cup T : Column(j, c)[a] \in Int
  BY ColumnType, FS_Subset
<1> HIDE DEF S, T
<1>3. SumFunctionOnSet(Column(j, c), S \cup T) =
          SumFunctionOnSet(Column(j, c), S) + SumFunctionOnSet(Column(j, c), T)
  BY <1>1, <1>2, SumUnion
<1> QED BY <1>1, <1>3 DEF Part, S, T

-----------------------------------------------------------------------------
(* Sums over sets of journals.                                             *)

LEMMA SumOfType ==
    ASSUME NEW S, Stored(S), NEW A, NEW c \in Columns
    PROVE  /\ SumOf(A, c, S) \in Int
           /\ (\A j \in S : D!ValidateLines(j.lines)) => SumOf(A, c, S) \in Nat
<1> DEFINE f == [j \in S |-> Part(j, A, c)]
<1>1. /\ \A j \in S : f[j] \in Int
      /\ (\A j \in S : D!ValidateLines(j.lines)) => \A j \in S : f[j] \in Nat
  BY PartType DEF Stored
<1>2. IsFiniteSet(S)
  BY DEF Stored
<1> HIDE DEF f
<1>3. SumFunctionOnSet(f, S) \in Int
  BY <1>1, <1>2, SumType
<1>4. (\A j \in S : D!ValidateLines(j.lines)) => SumFunctionOnSet(f, S) \in Nat
  BY <1>1, <1>2, SumNat
<1> QED BY <1>3, <1>4 DEF SumOf, f

LEMMA SumOfAdd ==
    ASSUME NEW S, Stored(S), NEW j \in Inputs, j \notin S, NEW A, NEW c \in Columns
    PROVE  SumOf(A, c, S \cup {j}) = SumOf(A, c, S) + Part(j, A, c)
<1> DEFINE f == [k \in S |-> Part(k, A, c)]
           T == S \cup {j}
           g == [k \in T |-> Part(k, A, c)]
<1>1. IsFiniteSet(S) /\ \A k \in S : f[k] = g[k]
  BY DEF Stored
<1>2. g[j] = Part(j, A, c)
  OBVIOUS
<1>3. g[j] \in Int /\ \A k \in S : g[k] \in Int
  BY PartType DEF Stored
<1> HIDE DEF f, g
<1>4. SumFunctionOnSet(g, S \cup {j}) = SumFunctionOnSet(g, S) + g[j]
  BY <1>1, <1>3, SumAdd
<1>5. SumFunctionOnSet(f, S) = SumFunctionOnSet(g, S)
  BY <1>1, SumSame
<1>6. SumOf(A, c, T) = SumFunctionOnSet(g, T) /\ SumOf(A, c, S) = SumFunctionOnSet(f, S)
  BY DEF SumOf, f, g
<1> QED BY <1>2, <1>4, <1>5, <1>6 DEF T

LEMMA SumOfUnion ==
    ASSUME NEW S, Stored(S), NEW A, NEW B, A \cap B = {}, NEW c \in Columns
    PROVE  SumOf(A \cup B, c, S) = SumOf(A, c, S) + SumOf(B, c, S)
<1> DEFINE f == [j \in S |-> Part(j, A, c)]
           g == [j \in S |-> Part(j, B, c)]
           h == [j \in S |-> Part(j, A \cup B, c)]
<1>1. \A j \in S : f[j] \in Int /\ g[j] \in Int /\ h[j] = f[j] + g[j]
  BY PartType, PartUnion DEF Stored
<1>2. IsFiniteSet(S)
  BY DEF Stored
<1> HIDE DEF f, g, h
<1>3. SumFunctionOnSet(h, S) = SumFunctionOnSet(f, S) + SumFunctionOnSet(g, S)
  BY <1>1, <1>2, SumPlus
<1> QED BY <1>3 DEF SumOf, f, g, h

(* Valid journals leave the columns of the whole chart equal, whatever     *)
(* they are.                                                               *)
LEMMA SumOfBalances ==
    ASSUME NEW S, Stored(S), \A j \in S : D!ValidateLines(j.lines)
    PROVE  SumOf(D!Accounts, "debit", S) = SumOf(D!Accounts, "credit", S)
<1> DEFINE f == [j \in S |-> Part(j, D!Accounts, "debit")]
           g == [j \in S |-> Part(j, D!Accounts, "credit")]
<1>1. ASSUME NEW j \in S PROVE f[j] = g[j]
  <2>1. j \in Inputs /\ DOMAIN j.lines \subseteq D!Accounts
    BY BooksAssumption DEF Stored
  <2>2. D!TotalDebit(j.lines) = D!TotalCredit(j.lines)
    BY DEF D!ValidateLines
  <2> QED BY <2>1, <2>2, ColumnTotals
<1>2. IsFiniteSet(S)
  BY DEF Stored
<1> HIDE DEF f, g
<1>3. SumFunctionOnSet(f, S) = SumFunctionOnSet(g, S)
  BY <1>1, <1>2, SumSame
<1> QED BY <1>3 DEF SumOf, f, g

LEMMA SumWhereIs ==
    ASSUME Stored(journals), NEW A
    PROVE  SumWhere(A) = [debit |-> SumOf(A, "debit", journals),
                          credit |-> SumOf(A, "credit", journals)]
<1> DEFINE f == [j \in journals |-> D!TotalDebit(LinesIn(j, A))]
           g == [j \in journals |-> D!TotalCredit(LinesIn(j, A))]
<1>1. f = [j \in journals |-> Part(j, A, "debit")] /\ DOMAIN f = journals
  BY TotalsAre DEF Stored
<1>2. g = [j \in journals |-> Part(j, A, "credit")] /\ DOMAIN g = journals
  BY TotalsAre DEF Stored
<1> HIDE DEF f, g
<1>3. SumFunction(f) = SumOf(A, "debit", journals)
  BY <1>1 DEF SumFunction, SumOf
<1>4. SumFunction(g) = SumOf(A, "credit", journals)
  BY <1>2 DEF SumFunction, SumOf
<1> QED BY <1>3, <1>4 DEF SumWhere, f, g

-----------------------------------------------------------------------------
(* Writers.                                                                *)

Unfinished == {"begun", "ensured", "inserted"}

Postings == [step : {"new", "done"}] \cup [step : Unfinished, journal : Inputs]

PostingsTyped ==
    /\ Stored(journals)
    /\ \A j \in journals : D!ValidateLines(j.lines)
    /\ posting \in [Writers -> Postings]
    /\ \A w \in Writers :
           posting[w].step \in Unfinished => D!ValidateLines(posting[w].journal.lines)

(* The unique index, over what is committed and what is inserted.          *)
Unique ==
    /\ \A j, k \in journals : j.ref = k.ref => j = k
    /\ \A w \in Writers : posting[w].step = "inserted" =>
          /\ \A j \in journals : j.ref # posting[w].journal.ref
          /\ \A v \in Writers : posting[v].step = "inserted" /\
                 posting[v].journal.ref = posting[w].journal.ref => v = w

Owners(j) == {u \in Users : D!UserWallet(u) \in DOMAIN j.lines}

Registered ==
    /\ \A j \in journals : Owners(j) \subseteq registered
    /\ \A w \in Writers : posting[w].step \in {"ensured", "inserted"} =>
           Owners(posting[w].journal) \subseteq registered

WritersInv == PostingsTyped /\ Unique /\ Registered

writersVars == <<journals, posting, registered>>

LEMMA InitWriters == BooksInit => WritersInv
<1>1. BooksInit => PostingsTyped
  BY FS_EmptySet DEF BooksInit, PostingsTyped, Postings, Stored, Unfinished
<1> QED BY <1>1 DEF BooksInit, WritersInv, Unique, Registered

LEMMA PostJournalKeeps ==
    ASSUME WritersInv, NEW w \in Writers, NEW j \in Inputs, PostJournal(w, j)
    PROVE  WritersInv'
<1> USE DEF WritersInv, PostJournal
<1>1. posting' = [posting EXCEPT ![w] = [step |-> "begun", journal |-> j]]
  OBVIOUS
<1>2. /\ posting'[w] = [step |-> "begun", journal |-> j]
      /\ \A v \in Writers \ {w} : posting'[v] = posting[v]
  BY DEF PostingsTyped, Postings
<1>3. PostingsTyped'
  BY <1>2 DEF PostingsTyped, Postings, Stored, Unfinished
<1>4. Unique'
  BY <1>2 DEF Unique
<1>5. Registered'
  BY <1>2 DEF Registered, Owners
<1> QED BY <1>3, <1>4, <1>5

LEMMA EnsureKeeps ==
    ASSUME WritersInv, NEW w \in Writers, EnsureForLines(w)
    PROVE  WritersInv'
<1> USE DEF WritersInv, EnsureForLines
<1>1. posting[w] \in [step : Unfinished, journal : Inputs]
  BY DEF PostingsTyped, Postings
<1>2. /\ posting'[w] = [step |-> "ensured", journal |-> posting[w].journal]
      /\ \A v \in Writers \ {w} : posting'[v] = posting[v]
  BY <1>1 DEF PostingsTyped, Postings
<1>3. PostingsTyped'
  <2>1. posting' \in [Writers -> Postings]
    <3>1. posting'[w] \in [step : Unfinished, journal : Inputs]
      BY <1>1, <1>2 DEF Unfinished
    <3> QED BY <1>2, <3>1 DEF PostingsTyped, Postings
  <2> QED BY <1>1, <1>2, <2>1 DEF PostingsTyped, Postings, Stored, Unfinished
<1>4. Unique'
  BY <1>2 DEF Unique
<1>5. registered \subseteq registered' /\ Owners(posting[w].journal) \subseteq registered'
  BY DEF Owners, ParseUserIDFromWalletAccount
<1>6. Registered'
  BY <1>2, <1>5 DEF Registered, Owners
<1> QED BY <1>3, <1>4, <1>6

LEMMA CreateJournalKeeps ==
    ASSUME WritersInv, NEW w \in Writers, CreateJournal(w)
    PROVE  WritersInv'
<1> USE DEF WritersInv, CreateJournal
<1>1. posting[w] \in [step : Unfinished, journal : Inputs]
  BY DEF PostingsTyped, Postings
<1>2. /\ posting'[w] = [step |-> "inserted", journal |-> posting[w].journal]
      /\ \A v \in Writers \ {w} : posting'[v] = posting[v]
  BY <1>1 DEF PostingsTyped, Postings
<1>3. PostingsTyped'
  <2>1. posting' \in [Writers -> Postings]
    <3>1. posting'[w] \in [step : Unfinished, journal : Inputs]
      BY <1>1, <1>2 DEF Unfinished
    <3> QED BY <1>2, <3>1 DEF PostingsTyped, Postings
  <2> QED BY <1>1, <1>2, <2>1 DEF PostingsTyped, Postings, Stored, Unfinished
<1>4. Unique'
  BY <1>2 DEF Unique, FreeReference
<1>5. Registered'
  BY <1>2 DEF Registered, Owners
<1> QED BY <1>3, <1>4, <1>5

LEMMA CommitPostingKeeps ==
    ASSUME WritersInv, NEW w \in Writers, CommitPosting(w)
    PROVE  WritersInv'
<1> USE DEF WritersInv, CommitPosting
<1>1. posting[w] \in [step : Unfinished, journal : Inputs] /\ posting[w].step = "inserted"
  BY DEF PostingsTyped, Postings
<1>2. /\ posting'[w] = [step |-> "done"]
      /\ \A v \in Writers \ {w} : posting'[v] = posting[v]
  BY DEF PostingsTyped, Postings
<1>3. PostingsTyped'
  <2>1. Stored(journals)'
    BY <1>1, FS_AddElement DEF PostingsTyped, Postings, Stored
  <2> QED BY <1>1, <1>2, <2>1 DEF PostingsTyped, Postings, Unfinished
<1>4. Unique'
  BY <1>1, <1>2 DEF Unique
<1>5. Registered'
  BY <1>1, <1>2 DEF Registered, Owners
<1> QED BY <1>3, <1>4, <1>5

LEMMA RollbackKeeps ==
    ASSUME WritersInv, NEW w \in Writers, RollbackPosting(w)
    PROVE  WritersInv'
<1> USE DEF WritersInv, RollbackPosting
<1>2. /\ posting'[w] = [step |-> "done"]
      /\ \A v \in Writers \ {w} : posting'[v] = posting[v]
  BY DEF PostingsTyped, Postings
<1>3. PostingsTyped'
  BY <1>2 DEF PostingsTyped, Postings, Stored, Unfinished
<1>4. Unique'
  BY <1>2 DEF Unique
<1>5. Registered'
  BY <1>2 DEF Registered, Owners
<1> QED BY <1>3, <1>4, <1>5

LEMMA ReadersKeepWriters ==
    ASSUME UNCHANGED writersVars, WritersInv PROVE WritersInv'
BY DEF writersVars, WritersInv, PostingsTyped, Stored, Unique, Registered, Owners

LEMMA NextWriters == WritersInv /\ [BooksNext]_booksVars => WritersInv'
<1> SUFFICES ASSUME WritersInv, [BooksNext]_booksVars PROVE WritersInv'
  OBVIOUS
<1>1. CASE \E w \in Writers :
          \/ \E j \in Inputs : PostJournal(w, j)
          \/ EnsureForLines(w) \/ CreateJournal(w) \/ CommitPosting(w) \/ RollbackPosting(w)
  BY <1>1, PostJournalKeeps, EnsureKeeps, CreateJournalKeeps, CommitPostingKeeps, RollbackKeeps
<1>2. CASE \/ GetTreasurySummary \/ (\E u \in Users : GetWallet(u)) \/ ListWalletTransactions
           \/ \E r \in Checks : StartRun(r) \/ SumGlobal(r) \/ CreateRun(r)
  <2>1. UNCHANGED writersVars
    BY <1>2 DEF GetTreasurySummary, GetWallet, ListWalletTransactions, StartRun, SumGlobal,
       CreateRun, writersVars
  <2> QED BY <2>1, ReadersKeepWriters
<1>3. CASE UNCHANGED booksVars
  BY <1>3, ReadersKeepWriters DEF booksVars, writersVars
<1> QED BY <1>1, <1>2, <1>3 DEF BooksNext

LEMMA WritersInvariant == BooksSpec => []WritersInv
BY InitWriters, NextWriters, PTL DEF BooksSpec

(* Only a commit stores a journal, and it stores one.                      *)
LEMMA OnlyCommitStores ==
    ASSUME WritersInv, [BooksNext]_booksVars, journals' # journals
    PROVE  \E j \in Inputs : /\ D!ValidateLines(j.lines)
                             /\ \A k \in journals : k.ref # j.ref
                             /\ j \notin journals /\ journals' = journals \cup {j}
<1>1. PICK w \in Writers : CommitPosting(w)
  BY DEF BooksNext, booksVars, PostJournal, EnsureForLines, CreateJournal, RollbackPosting,
     GetTreasurySummary, GetWallet, ListWalletTransactions, StartRun, SumGlobal, CreateRun
<1>2. /\ posting[w].journal \in Inputs /\ D!ValidateLines(posting[w].journal.lines)
      /\ \A k \in journals : k.ref # posting[w].journal.ref
      /\ journals' = journals \cup {posting[w].journal}
  BY <1>1 DEF CommitPosting, WritersInv, PostingsTyped, Postings, Unique, Unfinished
<1> QED BY <1>2

-----------------------------------------------------------------------------
(* What the rows say is the ledger.                                        *)

LEMMA BalanceIs ==
    ASSUME Stored(journals), NEW a
    PROVE  /\ CreditLessDebit(SumByAccount(a)) =
                 SumOf({a}, "credit", journals) - SumOf({a}, "debit", journals)
           /\ SumOf({a}, "credit", journals) \in Int /\ SumOf({a}, "debit", journals) \in Int
BY SumWhereIs, SumOfType DEF CreditLessDebit, SumByAccount, Columns

(* The ledger that the journals of S make.                                 *)
LedgerOf(S) ==
    [balance |-> [a \in D!Accounts |-> SumOf({a}, "credit", S) - SumOf({a}, "debit", S)],
     posted |-> {j.ref : j \in S}]

LEMMA LedgerIs == Stored(journals) => AsLedger = LedgerOf(journals)
BY BalanceIs DEF AsLedger, LedgerOf

LEMMA StoreIsPost ==
    ASSUME NEW S, Stored(S), NEW j \in Inputs, j \notin S
    PROVE  LedgerOf(S \cup {j}) = D!Post(LedgerOf(S), j)
<1> DEFINE b == [a \in D!Accounts |-> SumOf({a}, "credit", S) - SumOf({a}, "debit", S)]
           T == S \cup {j}
           after == [a \in D!Accounts |-> SumOf({a}, "credit", T) - SumOf({a}, "debit", T)]
<1>1. ASSUME NEW a \in D!Accounts
      PROVE  after[a] = IF a \in DOMAIN j.lines
                        THEN b[a] + j.lines[a].credit - j.lines[a].debit
                        ELSE b[a]
  <2>1. /\ SumOf({a}, "credit", T) = SumOf({a}, "credit", S) + Part(j, {a}, "credit")
        /\ SumOf({a}, "debit", T) = SumOf({a}, "debit", S) + Part(j, {a}, "debit")
    BY SumOfAdd DEF Columns
  <2>2. SumOf({a}, "credit", S) \in Int /\ SumOf({a}, "debit", S) \in Int
    BY SumOfType DEF Columns
  <2>3. /\ Part(j, {a}, "credit") = IF a \in DOMAIN j.lines THEN j.lines[a].credit ELSE 0
        /\ Part(j, {a}, "debit") = IF a \in DOMAIN j.lines THEN j.lines[a].debit ELSE 0
    BY PartOfOne DEF Columns
  <2>4. a \in DOMAIN j.lines => j.lines[a].credit \in Int /\ j.lines[a].debit \in Int
    BY BooksAssumption
  <2>5. /\ b[a] = SumOf({a}, "credit", S) - SumOf({a}, "debit", S)
        /\ after[a] = SumOf({a}, "credit", T) - SumOf({a}, "debit", T)
    OBVIOUS
  <2> HIDE DEF b, after
  <2> QED BY <2>1, <2>2, <2>3, <2>4, <2>5
<1>2. DOMAIN b = D!Accounts /\ DOMAIN after = D!Accounts
  OBVIOUS
<1>3. after = [a \in DOMAIN b |-> IF a \in DOMAIN j.lines
                                  THEN b[a] + j.lines[a].credit - j.lines[a].debit
                                  ELSE b[a]]
  <2> HIDE DEF b
  <2> QED BY <1>1, <1>2
<1>4. {k.ref : k \in T} = {k.ref : k \in S} \cup {j.ref}
  OBVIOUS
<1>5. LedgerOf(S).balance = b /\ LedgerOf(S).posted = {k.ref : k \in S}
  BY DEF LedgerOf
<1>6. LedgerOf(T) = [balance |-> after, posted |-> {k.ref : k \in T}]
  BY DEF LedgerOf
<1> HIDE DEF b, after, T
<1>7. D!Post(LedgerOf(S), j) = [balance |-> after, posted |-> {k.ref : k \in T}]
  BY <1>3, <1>4, <1>5 DEF D!Post
<1> QED BY <1>6, <1>7 DEF T

(* The rows implement the ledger the other modules are written over: what  *)
(* concurrent writers insert, line by line, changes balances and           *)
(* references as one valid posting after the other (createJournal).        *)
THEOREM RowsAreLedger == BooksSpec => ImplementsLedger
<1>1. ASSUME WritersInv, WritersInv', [BooksNext]_booksVars, journals' # journals
      PROVE  \E j \in journals' \ journals :
                 D!CanPost(AsLedger, j) /\ AsLedger' = D!Post(AsLedger, j)
  <2>1. PICK j \in Inputs : /\ D!ValidateLines(j.lines)
                            /\ \A k \in journals : k.ref # j.ref
                            /\ j \notin journals /\ journals' = journals \cup {j}
    BY <1>1, OnlyCommitStores
  <2>2. Stored(journals) /\ Stored(journals')
    BY <1>1 DEF WritersInv, PostingsTyped, Stored
  <2>3. AsLedger = LedgerOf(journals)
    BY <2>2, LedgerIs
  <2>4. AsLedger' = LedgerOf(journals')
    <3>1. (Stored(journals) => AsLedger = LedgerOf(journals))'
      BY LedgerIs, PTL
    <3> QED BY <2>2, <3>1 DEF LedgerOf, Stored, SumOf, Part, Column
  <2>5. LedgerOf(journals') = D!Post(LedgerOf(journals), j)
    BY <2>1, <2>2, StoreIsPost
  <2>6. D!CanPost(LedgerOf(journals), j)
    BY <2>1 DEF D!CanPost, LedgerOf
  <2> QED BY <2>1, <2>3, <2>4, <2>5, <2>6
<1>2. WritersInv /\ WritersInv' /\ [BooksNext]_booksVars =>
          [\E j \in journals' \ journals :
               D!CanPost(AsLedger, j) /\ AsLedger' = D!Post(AsLedger, j)]_journals
  BY <1>1
<1> QED BY <1>2, WritersInvariant, PTL DEF BooksSpec, ImplementsLedger

-----------------------------------------------------------------------------
(* Reconciliation.  A sum that has been read is never above what another   *)
(* would read now, and a run that is yet to sum began before now.          *)

Passes(r) == r.status = "PASSED"

Read == [step : {"create", "done"}, started : Nat, completed : Nat,
         status : {"PASSED"}, debit : Int]

Past(r) == r.started <= now /\ r.completed <= now /\ r.debit <= SumOfAll.debit

InOrder(x, y) == x.completed < y.started => x.debit <= y.debit

ChecksInv ==
    /\ now \in Nat
    /\ runs \in Seq(Read)
    /\ check \in [Checks -> {Unchecked} \cup [step : {"sum"}, started : Nat] \cup Read]
    /\ \A r \in Checks : /\ check[r].step = "sum" => check[r].started <= now
                         /\ check[r] \in Read => Past(check[r])
    /\ \A i \in DOMAIN runs : Past(runs[i])
    /\ \A i, k \in DOMAIN runs : InOrder(runs[i], runs[k])
    /\ \A r \in Checks : check[r] \in Read =>
          /\ \A i \in DOMAIN runs : InOrder(runs[i], check[r]) /\ InOrder(check[r], runs[i])
          /\ \A q \in Checks : check[q] \in Read => InOrder(check[r], check[q])

LEMMA SumOfAllType ==
    ASSUME WritersInv
    PROVE  SumOfAll.debit \in Nat /\ SumOfAll.credit = SumOfAll.debit
<1>1. Stored(journals) /\ \A j \in journals : D!ValidateLines(j.lines)
  BY DEF WritersInv, PostingsTyped
<1>2. SumOf(D!Accounts, "debit", journals) \in Nat
  BY <1>1, SumOfType DEF Columns
<1>3. SumOf(D!Accounts, "debit", journals) = SumOf(D!Accounts, "credit", journals)
  BY <1>1, SumOfBalances
<1> QED BY <1>1, <1>2, <1>3, SumWhereIs DEF SumOfAll

LEMMA DebitIsNat == WritersInv => SumOfAll.debit \in Nat
BY SumOfAllType

LEMMA AllDebits ==
    Stored(journals) => SumOfAll.debit = SumOf(D!Accounts, "debit", journals)
BY SumWhereIs DEF SumOfAll

(* What is stored is never taken back.                                     *)
LEMMA DebitGrows ==
    ASSUME WritersInv, WritersInv', [BooksNext]_booksVars
    PROVE  SumOfAll.debit <= SumOfAll'.debit
<1>1. Stored(journals) /\ Stored(journals')
  BY DEF WritersInv, PostingsTyped, Stored
<1>2. SumOfAll.debit = SumOf(D!Accounts, "debit", journals)
  BY <1>1, AllDebits
<1>3. SumOfAll'.debit = SumOf(D!Accounts, "debit", journals')
  <2>1. (Stored(journals) => SumOfAll.debit = SumOf(D!Accounts, "debit", journals))'
    BY AllDebits, PTL
  <2> QED BY <1>1, <2>1 DEF SumOf, Part, Column, Stored
<1>4. SumOf(D!Accounts, "debit", journals) \in Int
  BY <1>1, SumOfType DEF Columns
<1>5. CASE journals' = journals
  BY <1>2, <1>3, <1>4, <1>5
<1>6. CASE journals' # journals
  <2>1. PICK j \in Inputs : /\ D!ValidateLines(j.lines)
                            /\ j \notin journals /\ journals' = journals \cup {j}
    BY <1>6, OnlyCommitStores
  <2>2. SumOf(D!Accounts, "debit", journals') =
            SumOf(D!Accounts, "debit", journals) + Part(j, D!Accounts, "debit")
    BY <1>1, <2>1, SumOfAdd DEF Columns
  <2>3. Part(j, D!Accounts, "debit") \in Nat
    BY <2>1, PartType DEF Columns
  <2> QED BY <1>2, <1>3, <1>4, <2>2, <2>3
<1> QED BY <1>5, <1>6

LEMMA InitChecks == BooksInit => ChecksInv
BY DEF BooksInit, ChecksInv, Read, Unchecked

(* A step that writes nothing but journals leaves every run as it was.     *)
LEMMA WritersKeepChecks ==
    ASSUME ChecksInv, WritersInv, WritersInv', [BooksNext]_booksVars,
           UNCHANGED <<now, check, runs>>
    PROVE  ChecksInv'
<1>1. SumOfAll.debit <= SumOfAll'.debit
  BY DebitGrows
<1>2. SumOfAll.debit \in Nat /\ SumOfAll'.debit \in Nat
  <2>1. (WritersInv => SumOfAll.debit \in Nat)'
    BY DebitIsNat, PTL
  <2> QED BY <2>1, SumOfAllType
<1> DEFINE d == SumOfAll.debit
           e == SumOfAll'.debit
<1>3. d \in Nat /\ e \in Nat /\ d <= e
  BY <1>1, <1>2
<1>4. /\ \A r \in Checks : check[r] \in Read => check[r].debit <= d
      /\ \A i \in DOMAIN runs : runs[i].debit <= d
      /\ \A r \in Checks : check[r] \in Read => check[r].debit \in Int
      /\ \A i \in DOMAIN runs : runs[i].debit \in Int
  <2>1. \A x \in Read : x.debit \in Int
    BY DEF Read
  <2>2. \A i \in DOMAIN runs : runs[i] \in Read
    BY DEF ChecksInv
  <2>3. /\ \A r \in Checks : check[r] \in Read => Past(check[r])
        /\ \A i \in DOMAIN runs : Past(runs[i])
    BY DEF ChecksInv
  <2> QED BY <2>1, <2>2, <2>3 DEF Past
<1>5. /\ \A r \in Checks : check[r] \in Read => check[r].debit <= e
      /\ \A i \in DOMAIN runs : runs[i].debit <= e
  <2> HIDE DEF d, e
  <2> QED BY <1>3, <1>4
<1> QED BY <1>5 DEF ChecksInv, Past, InOrder, Read, Unchecked

LEMMA StartKeepsChecks ==
    ASSUME ChecksInv, WritersInv, NEW r \in Checks, StartRun(r)
    PROVE  ChecksInv'
<1>1. /\ check'[r] = [step |-> "sum", started |-> now + 1]
      /\ \A q \in Checks \ {r} : check'[q] = check[q]
      /\ check'[r] \notin Read
      /\ check' \in [Checks -> {Unchecked} \cup [step : {"sum"}, started : Nat] \cup Read]
  BY DEF ChecksInv, StartRun, Read
<1>2. now' = now + 1 /\ runs' = runs /\ SumOfAll' = SumOfAll /\ now \in Nat
  BY DEF StartRun, SumOfAll, SumWhere, LinesIn, ChecksInv
<1>3. \A q \in Checks : check'[q] \in Read => q # r /\ check'[q] = check[q]
  BY <1>1
<1>4. ASSUME NEW x \in Read, Past(x) PROVE Past(x)'
  BY <1>2, <1>4 DEF Past, Read
<1>5. \A i \in DOMAIN runs : runs[i] \in Read
  BY DEF ChecksInv
<1>6. \A q \in Checks : check'[q].step = "sum" => check'[q].started <= now'
  <2> SUFFICES ASSUME NEW q \in Checks, check'[q].step = "sum"
               PROVE  check'[q].started <= now'
    OBVIOUS
  <2>1. CASE q = r
    <3>1. check'[q].started = now + 1
      BY <1>1, <2>1
    <3> QED BY <1>2, <3>1
  <2>2. CASE q # r
    <3>1. check[q].step = "sum" /\ check[q].started <= now
      BY <1>1, <2>2 DEF ChecksInv
    <3>2. check[q].started \in Nat
      BY <3>1 DEF ChecksInv, Unchecked, Read
    <3> QED BY <1>1, <1>2, <2>2, <3>1, <3>2
  <2> QED BY <2>1, <2>2
<1>7. /\ \A q \in Checks : check'[q] \in Read => Past(check[q])'
      /\ \A i \in DOMAIN runs : Past(runs[i])'
  BY <1>2, <1>3, <1>4, <1>5 DEF ChecksInv, Past, StartRun
<1> QED BY <1>1, <1>2, <1>3, <1>6, <1>7 DEF ChecksInv, Past, InOrder, Read, Unchecked

(* A sum read now is not below any read before, and no run that has begun  *)
(* began after it.                                                         *)
LEMMA SumKeepsChecks ==
    ASSUME ChecksInv, WritersInv, NEW r \in Checks, SumGlobal(r)
    PROVE  ChecksInv'
<1> DEFINE y == [step |-> "create", started |-> check[r].started, completed |-> now,
                 status |-> StatusFor(SumOfAll), debit |-> SumOfAll.debit]
<1>1. /\ check'[r] = y
      /\ \A q \in Checks \ {r} : check'[q] = check[q]
      /\ now' = now /\ runs' = runs /\ SumOfAll' = SumOfAll /\ now \in Nat
  BY DEF SumGlobal, ChecksInv, SumOfAll, SumWhere, LinesIn
<1>2. check[r].started \in Nat /\ check[r].started <= now
  BY DEF ChecksInv, SumGlobal, Unchecked, Read
<1>3. y \in Read
  BY <1>1, <1>2, SumOfAllType DEF Read, StatusFor
<1>4. Past(y)
  BY <1>1, <1>2, SumOfAllType DEF Past
<1>5. ASSUME NEW x \in Read, Past(x) PROVE InOrder(x, y) /\ InOrder(y, x)
  BY <1>1, <1>5 DEF Past, InOrder, Read
<1>6. InOrder(y, y)
  BY <1>1, <1>2, SumOfAllType DEF InOrder
<1>7. ASSUME NEW x PROVE Past(x)' <=> Past(x)
  BY <1>1 DEF Past
<1>8. /\ \A i \in DOMAIN runs : runs[i] \in Read /\ Past(runs[i])
      /\ \A q \in Checks : check[q] \in Read => Past(check[q])
  BY DEF ChecksInv
<1>9. check' \in [Checks -> {Unchecked} \cup [step : {"sum"}, started : Nat] \cup Read]
  BY <1>3 DEF SumGlobal, ChecksInv
<1> HIDE DEF y
<1>10. /\ \A q \in Checks : check'[q].step = "sum" => check'[q].started <= now'
       /\ \A q \in Checks : check'[q] \in Read => Past(check'[q])
       /\ \A i \in DOMAIN runs : Past(runs[i])
  <2>1. y.step # "sum"
    BY <1>3 DEF Read
  <2> QED BY <1>1, <1>4, <1>8, <2>1 DEF ChecksInv
<1>11. \A q \in Checks : check'[q] \in Read =>
          /\ \A i \in DOMAIN runs : InOrder(runs[i], check'[q]) /\ InOrder(check'[q], runs[i])
          /\ \A p \in Checks : check'[p] \in Read => InOrder(check'[q], check'[p])
  <2> SUFFICES ASSUME NEW q \in Checks, check'[q] \in Read
               PROVE  /\ \A i \in DOMAIN runs : /\ InOrder(runs[i], check'[q])
                                                /\ InOrder(check'[q], runs[i])
                      /\ \A p \in Checks : check'[p] \in Read => InOrder(check'[q], check'[p])
    OBVIOUS
  <2>1. CASE q = r
    <3>1. \A i \in DOMAIN runs : InOrder(runs[i], y) /\ InOrder(y, runs[i])
      BY <1>5, <1>8
    <3>2. \A p \in Checks : check'[p] \in Read => InOrder(y, check'[p])
      BY <1>1, <1>5, <1>6, <1>8
    <3> QED BY <1>1, <2>1, <3>1, <3>2
  <2>2. CASE q # r
    <3>1. check'[q] = check[q] /\ check[q] \in Read
      BY <1>1, <2>2
    <3>2. InOrder(check[q], y)
      BY <1>5, <1>8, <3>1
    <3> QED BY <1>1, <3>1, <3>2 DEF ChecksInv
  <2> QED BY <2>1, <2>2
<1>12. /\ \A q \in Checks : check'[q] \in Read => Past(check[q])'
       /\ \A i \in DOMAIN runs' : Past(runs[i])'
  <2>1. /\ \A q \in Checks : Past(check[q])' <=> Past(check'[q])
        /\ \A i \in DOMAIN runs : Past(runs[i])' <=> Past(runs'[i])
    BY <1>1 DEF Past
  <2> QED BY <1>1, <1>10, <2>1
<1>13. now' \in Nat /\ runs' \in Seq(Read) /\ \A i, k \in DOMAIN runs' : InOrder(runs'[i], runs'[k])
  BY <1>1 DEF ChecksInv
<1> QED BY <1>1, <1>9, <1>10, <1>11, <1>12, <1>13 DEF ChecksInv, InOrder, Read, Unchecked

(* The row is the run, a step later.                                       *)
LEMMA CreateKeepsChecks ==
    ASSUME ChecksInv, WritersInv, NEW r \in Checks, CreateRun(r)
    PROVE  ChecksInv'
<1> DEFINE y == check[r]
<1>1. y \in Read /\ y.step = "create"
  BY DEF CreateRun, ChecksInv, Unchecked
<1>2. /\ check' = [check EXCEPT ![r] = [y EXCEPT !.step = "done"]]
      /\ runs' = Append(runs, y) /\ runs \in Seq(Read)
      /\ now' = now /\ SumOfAll' = SumOfAll /\ now \in Nat
  BY DEF CreateRun, ChecksInv, SumOfAll, SumWhere, LinesIn
<1>3. /\ check'[r] \in Read /\ check'[r].started = y.started /\ check'[r].completed = y.completed
      /\ check'[r].debit = y.debit /\ check'[r].step = "done"
  BY <1>1, <1>2 DEF ChecksInv, Read
<1>4. \A q \in Checks \ {r} : check'[q] = check[q]
  BY <1>2 DEF ChecksInv
<1>5. /\ runs' \in Seq(Read) /\ DOMAIN runs' = DOMAIN runs \cup {Len(runs) + 1}
      /\ runs'[Len(runs) + 1] = y
      /\ \A i \in DOMAIN runs : runs'[i] = runs[i]
  BY <1>1, <1>2
<1>6. \A i \in DOMAIN runs' : \/ runs'[i] = y
                              \/ i \in DOMAIN runs /\ runs'[i] = runs[i]
  BY <1>5
<1> DEFINE Known(x) == x = y \/ \E i \in DOMAIN runs : x = runs[i]
           Like(x, z) == /\ x.started = z.started /\ x.completed = z.completed
                         /\ x.debit = z.debit
<1>7. \A x, z : Known(x) /\ Known(z) => InOrder(x, z) /\ Past(x)
  BY <1>1 DEF ChecksInv
<1>8. \A x, q : Known(x) /\ q \in Checks /\ check[q] \in Read =>
                    InOrder(x, check[q]) /\ InOrder(check[q], x)
  BY <1>1 DEF ChecksInv
<1>9. \A i \in DOMAIN runs' : Known(runs'[i])
  BY <1>6
<1>10. \A q \in Checks : check'[q] \in Read => check[q] \in Read /\ Like(check'[q], check[q])
  BY <1>1, <1>3, <1>4
<1>11. \A q \in Checks : check[q] \in Read => Past(check[q])
  BY DEF ChecksInv
<1>12. \A q, p \in Checks : check[q] \in Read /\ check[p] \in Read => InOrder(check[q], check[p])
  BY DEF ChecksInv
<1>13. check' \in [Checks -> {Unchecked} \cup [step : {"sum"}, started : Nat] \cup Read]
  BY <1>2, <1>3 DEF ChecksInv
<1>14. \A q \in Checks : check'[q].step = "sum" => check'[q].started <= now'
  <2>1. \A q \in Checks : check[q].step = "sum" => check[q].started <= now
    BY DEF ChecksInv
  <2> QED BY <1>2, <1>3, <1>4, <2>1
<1> HIDE DEF y, Known
<1>15. /\ \A q \in Checks : check'[q] \in Read => Past(check[q])'
       /\ \A i \in DOMAIN runs' : Past(runs[i])'
  <2>1. \A q \in Checks : check'[q] \in Read => Past(check'[q])
    BY <1>10, <1>11 DEF Past
  <2>2. \A i \in DOMAIN runs' : Past(runs'[i])
    BY <1>7, <1>9
  <2> QED BY <1>2, <2>1, <2>2 DEF Past
<1>16. \A i, k \in DOMAIN runs' : InOrder(runs'[i], runs'[k])
  BY <1>7, <1>9
<1>17. \A q \in Checks : check'[q] \in Read =>
          /\ \A i \in DOMAIN runs' : InOrder(runs'[i], check'[q]) /\ InOrder(check'[q], runs'[i])
          /\ \A p \in Checks : check'[p] \in Read => InOrder(check'[q], check'[p])
  <2> SUFFICES ASSUME NEW q \in Checks, check'[q] \in Read
               PROVE  /\ \A i \in DOMAIN runs' : /\ InOrder(runs'[i], check'[q])
                                                 /\ InOrder(check'[q], runs'[i])
                      /\ \A p \in Checks : check'[p] \in Read => InOrder(check'[q], check'[p])
    OBVIOUS
  <2>1. check[q] \in Read /\ Like(check'[q], check[q])
    BY <1>10
  <2>2. \A i \in DOMAIN runs' : InOrder(runs'[i], check[q]) /\ InOrder(check[q], runs'[i])
    BY <1>8, <1>9, <2>1
  <2>3. \A p \in Checks : check'[p] \in Read =>
            InOrder(check[q], check[p]) /\ Like(check'[p], check[p])
    BY <1>10, <1>12, <2>1
  <2> QED BY <2>1, <2>2, <2>3 DEF InOrder
<1> QED BY <1>2, <1>5, <1>13, <1>14, <1>15, <1>16, <1>17 DEF ChecksInv, InOrder, Read, Unchecked

LEMMA NextChecks ==
    ChecksInv /\ WritersInv /\ WritersInv' /\ [BooksNext]_booksVars => ChecksInv'
<1> SUFFICES ASSUME ChecksInv, WritersInv, WritersInv', [BooksNext]_booksVars PROVE ChecksInv'
  OBVIOUS
<1>1. CASE \E r \in Checks : StartRun(r) \/ SumGlobal(r) \/ CreateRun(r)
  BY <1>1, StartKeepsChecks, SumKeepsChecks, CreateKeepsChecks
<1>2. CASE ~ \E r \in Checks : StartRun(r) \/ SumGlobal(r) \/ CreateRun(r)
  <2>1. UNCHANGED <<now, check, runs>>
    BY <1>2 DEF BooksNext, booksVars, readVars, PostJournal, EnsureForLines, CreateJournal,
       CommitPosting, RollbackPosting, GetTreasurySummary, GetWallet, ListWalletTransactions
  <2> QED BY <2>1, WritersKeepChecks
<1> QED BY <1>1, <1>2

(* Reconciliation passes at every moment, in the middle of postings too,   *)
(* and a run that begins when another is complete never sees fewer debits: *)
(* a journal is stored whole and valid, and is never taken back.           *)
THEOREM ReconciliationPasses == BooksSpec => []RunsPassed
<1>1. BooksSpec => []ChecksInv
  BY InitChecks, NextChecks, WritersInvariant, PTL DEF BooksSpec
<1>2. ChecksInv => RunsPassed
  <2> SUFFICES ASSUME ChecksInv, NEW i \in DOMAIN runs, NEW k \in DOMAIN runs
               PROVE  /\ runs[i].status = "PASSED"
                      /\ runs[i].completed < runs[k].started => runs[i].debit <= runs[k].debit
    BY DEF RunsPassed
  <2>1. runs[i] \in Read
    BY DEF ChecksInv
  <2>2. InOrder(runs[i], runs[k])
    BY DEF ChecksInv
  <2> QED BY <2>1, <2>2 DEF Read, InOrder
<1> QED BY <1>1, <1>2, PTL

-----------------------------------------------------------------------------
(* Wallets.                                                                *)

Net(a, S) == SumOf({a}, "credit", S) - SumOf({a}, "debit", S)

Entry(j, a) == [ref |-> j.ref, line |-> j.lines[a]]

Touching(S, a) == {j \in S : a \in DOMAIN j.lines}

Earlier == {e \in statement.entries : \E j \in statement.from : j.ref = e.ref}

StatementInv ==
    /\ statement.from \subseteq journals
    /\ statement.step = "balance" =>
          /\ statement \in [from : SUBSET journals, user : Users, balance : Int,
                            entries : {{}}, step : {"balance"}]
          /\ statement.balance = Net(D!UserWallet(statement.user), statement.from)
    /\ statement.step = "listed" =>
          /\ statement.entries # {} => statement.user \in registered
          /\ statement.balance = SumFunction([e \in Earlier |-> CreditLessDebit(e.line)])

(* The entries of an account explain what its two columns sum to.          *)
LEMMA EntriesExplain ==
    ASSUME NEW S, Stored(S), \A j, k \in S : j.ref = k.ref => j = k, NEW a,
           NEW E, E = {Entry(j, a) : j \in Touching(S, a)}
    PROVE  Net(a, S) = SumFunction([e \in E |-> CreditLessDebit(e.line)])
<1> DEFINE T == Touching(S, a)
           c == [j \in S |-> Part(j, {a}, "credit")]
           d == [j \in S |-> Part(j, {a}, "debit")]
           n == [j \in S |-> c[j] - d[j]]
           g == [e \in E |-> CreditLessDebit(e.line)]
           h == [j \in T |-> Entry(j, a)]
<1>1. IsFiniteSet(S) /\ S \subseteq Inputs /\ T \subseteq S
  BY DEF Stored, Touching
<1>2. IsFiniteSet(T)
  BY <1>1, FS_Subset
<1>3. ASSUME NEW j \in S
      PROVE  /\ c[j] \in Int /\ d[j] \in Int /\ n[j] \in Int /\ c[j] = n[j] + d[j]
             /\ j \in T => n[j] = j.lines[a].credit - j.lines[a].debit
             /\ j \notin T => n[j] = 0
  <2>1. j \in Inputs /\ (j \in T <=> a \in DOMAIN j.lines)
    BY <1>1 DEF Touching
  <2>2. c[j] \in Int /\ d[j] \in Int
    BY <2>1, PartType DEF Columns
  <2>3. /\ c[j] = IF a \in DOMAIN j.lines THEN j.lines[a].credit ELSE 0
        /\ d[j] = IF a \in DOMAIN j.lines THEN j.lines[a].debit ELSE 0
    BY <2>1, PartOfOne DEF Columns
  <2>4. n[j] = c[j] - d[j]
    OBVIOUS
  <2> HIDE DEF c, d, n, T
  <2> QED BY <2>1, <2>2, <2>3, <2>4
<1>4. \A j \in T : h[j] = Entry(j, a) /\ h[j] \in E
  OBVIOUS
<1>5. ASSUME NEW j \in T PROVE n[j] \in Int /\ g[h[j]] = n[j]
  <2>1. g[h[j]] = j.lines[a].credit - j.lines[a].debit
    BY <1>4 DEF Entry, CreditLessDebit
  <2> HIDE DEF g, h, n, T
  <2> QED BY <1>1, <1>3, <2>1
<1>6. \A j, k \in T : h[j] = h[k] => j = k
  <2>1. \A j \in T : h[j].ref = j.ref
    BY <1>4 DEF Entry
  <2> HIDE DEF h, T
  <2> QED BY <1>1, <2>1
<1>7. E = {h[j] : j \in T} /\ DOMAIN g = E
  OBVIOUS
<1>8. Net(a, S) = SumFunctionOnSet(c, S) - SumFunctionOnSet(d, S)
  BY DEF Net, SumOf
<1> HIDE DEF T, c, d, n, g, h
<1>9. SumFunctionOnSet(c, S) = SumFunctionOnSet(n, S) + SumFunctionOnSet(d, S)
  BY <1>1, <1>3, SumPlus
<1>10. SumFunctionOnSet(n, S) = SumFunctionOnSet(n, T)
  BY <1>1, <1>3, SumOver
<1>11. SumFunctionOnSet(g, E) = SumFunctionOnSet(n, T)
  <2> DEFINE I == {h[j] : j \in T}
  <2>1. SumFunctionOnSet(g, I) = SumFunctionOnSet(n, T)
    BY <1>2, <1>5, <1>6, SumImage
  <2>2. I = E
    BY <1>7
  <2> HIDE DEF I
  <2> QED BY <2>1, <2>2
<1>12. SumFunctionOnSet(n, S) \in Int /\ SumFunctionOnSet(d, S) \in Int
  BY <1>1, <1>3, SumType
<1>13. Net(a, S) = SumFunctionOnSet(g, E)
  BY <1>8, <1>9, <1>10, <1>11, <1>12
<1> QED BY <1>7, <1>13 DEF SumFunction, g

LEMMA InitStatement == BooksInit => StatementInv
BY DEF BooksInit, StatementInv, NoStatement

LEMMA GetWalletKeeps ==
    ASSUME StatementInv, WritersInv, NEW u \in Users, GetWallet(u)
    PROVE  StatementInv'
<1>1. statement' = [from |-> journals, user |-> u, balance |-> GetBalance(u),
                    entries |-> {}, step |-> "balance"]
  BY DEF GetWallet
<1>2. Stored(journals) /\ journals' = journals
  BY DEF WritersInv, PostingsTyped, GetWallet
<1>3. GetBalance(u) = Net(D!UserWallet(u), journals) /\ GetBalance(u) \in Int
  BY <1>2, BalanceIs DEF GetBalance, Net
<1>4. statement'.from = journals /\ statement'.step = "balance"
      /\ statement'.balance = Net(D!UserWallet(statement'.user), statement'.from)
      /\ statement' \in [from : SUBSET journals, user : Users, balance : Int,
                         entries : {{}}, step : {"balance"}]
  BY <1>1, <1>3
<1> QED BY <1>2, <1>4 DEF StatementInv, Net, SumOf, Part, Column

(* The journals of when the balance was read are there still, and in the   *)
(* list; those listed besides have other references.                       *)
LEMMA ListKeeps ==
    ASSUME StatementInv, WritersInv, ListWalletTransactions
    PROVE  StatementInv'
<1> DEFINE a == D!UserWallet(statement.user)
           S == statement.from
           E == {Entry(j, a) : j \in Touching(S, a)}
<1>1. /\ statement.balance = Net(a, S) /\ S \subseteq journals /\ statement.user \in Users
      /\ statement'.from = S /\ statement'.balance = statement.balance
      /\ statement'.user = statement.user /\ statement'.step = "listed"
      /\ statement'.entries = ListByAccount(a)
      /\ UNCHANGED <<journals, registered>>
  BY DEF ListWalletTransactions, StatementInv
<1>2. Stored(journals) /\ \A j, k \in journals : j.ref = k.ref => j = k
  BY DEF WritersInv, PostingsTyped, Unique
<1>3. ListByAccount(a) = {Entry(j, a) : j \in Touching(journals, a)}
  BY DEF ListByAccount, Entry, Touching
<1>4. Earlier' = E
  <2>1. Earlier' = {e \in statement'.entries : \E j \in statement'.from : j.ref = e.ref}
    BY DEF Earlier
  <2>2. \A e \in ListByAccount(a) : (\E j \in S : j.ref = e.ref) => e \in E
    BY <1>1, <1>2, <1>3 DEF Entry, Touching
  <2>3. \A e \in E : e \in ListByAccount(a) /\ \E j \in S : j.ref = e.ref
    BY <1>1, <1>3 DEF Entry, Touching
  <2> HIDE DEF E, a, S
  <2> QED BY <1>1, <2>1, <2>2, <2>3
<1>5. Net(a, S) = SumFunction([e \in E |-> CreditLessDebit(e.line)])
  <2>1. Stored(S) /\ \A j, k \in S : j.ref = k.ref => j = k
    BY <1>1, <1>2, FS_Subset DEF Stored
  <2> HIDE DEF S, a
  <2> QED BY <2>1, EntriesExplain
<1>6. statement'.balance = SumFunction([e \in Earlier' |-> CreditLessDebit(e.line)])
  <2> HIDE DEF E, a, S
  <2> QED BY <1>1, <1>4, <1>5
<1>7. statement'.entries # {} => statement'.user \in registered'
  <2>1. \A j \in journals : a \in DOMAIN j.lines => statement.user \in registered
    BY <1>1 DEF WritersInv, Registered, Owners
  <2> QED BY <1>1, <1>3, <2>1 DEF Touching
<1>8. statement'.from \subseteq journals'
  BY <1>1
<1> QED BY <1>1, <1>6, <1>7, <1>8 DEF StatementInv, SumFunction, CreditLessDebit

LEMMA NextStatement ==
    StatementInv /\ WritersInv /\ [BooksNext]_booksVars => StatementInv'
<1> SUFFICES ASSUME StatementInv, WritersInv, [BooksNext]_booksVars PROVE StatementInv'
  OBVIOUS
<1>1. CASE (\E u \in Users : GetWallet(u)) \/ ListWalletTransactions
  BY <1>1, GetWalletKeeps, ListKeeps
<1>2. CASE ~ ((\E u \in Users : GetWallet(u)) \/ ListWalletTransactions)
  <2>1. statement' = statement
    BY <1>2 DEF BooksNext, booksVars, readVars, PostJournal, EnsureForLines, CreateJournal,
       CommitPosting, RollbackPosting, GetTreasurySummary, StartRun, SumGlobal, CreateRun
  <2>2. journals \subseteq journals'
    BY OnlyCommitStores
  <2>3. registered \subseteq registered'
    BY DEF BooksNext, booksVars, PostJournal, EnsureForLines, CreateJournal,
       CommitPosting, RollbackPosting, GetTreasurySummary, StartRun, SumGlobal, CreateRun,
       GetWallet, ListWalletTransactions
  <2>4. SUBSET journals \subseteq SUBSET journals'
    BY <2>2
  <2>5. statement \in [from : SUBSET journals, user : Users, balance : Int,
                       entries : {{}}, step : {"balance"}] =>
            statement \in [from : SUBSET journals', user : Users, balance : Int,
                           entries : {{}}, step : {"balance"}]
    BY <2>4
  <2> QED BY <2>1, <2>2, <2>3, <2>5 DEF StatementInv, Net, SumOf, Part, Column, Earlier,
          SumFunction, CreditLessDebit
<1> QED BY <1>1, <1>2

(* The transactions listed for a wallet explain the balance shown before,  *)
(* whatever was posted in between, which only adds to the list; who has    *)
(* any is registered (GetBalance, ListByAccount, EnsureForLines).          *)
THEOREM StatementsExplain == BooksSpec => []StatementExplains
<1>1. StatementInv => StatementExplains
  BY DEF StatementInv, StatementExplains, Earlier
<1> QED BY <1>1, InitStatement, NextStatement, WritersInvariant, PTL DEF BooksSpec

-----------------------------------------------------------------------------
(* The treasury summary.                                                   *)

(* The accounts each of its figures counts, and those the first n count.   *)
Counts(i) == {a \in D!Accounts : a[1] = Figures[i]}

CountedBy(n) == {a \in D!Accounts : \E i \in 1 .. n : a[1] = Figures[i]}

Figure(i, S) ==
    IF Figures[i] \in DebitSide
    THEN SumOf(Counts(i), "debit", S) - SumOf(Counts(i), "credit", S)
    ELSE SumOf(Counts(i), "credit", S) - SumOf(Counts(i), "debit", S)

SummaryInv ==
    /\ summary.from \subseteq journals
    /\ summary.read \in Seq(Int) /\ Len(summary.read) \in 0 .. 8
    /\ summary.from = journals =>
          \A i \in DOMAIN summary.read : summary.read[i] = Figure(i, journals)

LEMMA FiguresAre ==
    /\ DOMAIN Figures = 1 .. 8 /\ Len(Figures) = 8
    /\ \A i, k \in 1 .. 8 : Figures[i] = Figures[k] => i = k
    /\ {i \in DOMAIN Figures : Figures[i] \in DebitSide} = {1, 2, 3, 5}
    /\ {i \in DOMAIN Figures : Figures[i] \in CreditSide} = {4, 6, 7, 8}
<1>1. /\ DOMAIN Figures = 1 .. 8 /\ Len(Figures) = 8
      /\ Figures[1] = "IR_PSP_CLEARING" /\ Figures[2] = "IR_BANK_MAIN"
      /\ Figures[3] = "IR_PAYOUT_CLEARING" /\ Figures[4] = "AIRBAR_FEE_REVENUE"
      /\ Figures[5] = "AIRBAR_PROMO_EXPENSE" /\ Figures[6] = "WALLET_LIABILITY"
      /\ Figures[7] = "ESCROW" /\ Figures[8] = "PROMO_CREDIT_LIABILITY"
  BY DEF Figures
<1>2. \A i \in 1 .. 8 : i \in {1, 2, 3, 4, 5, 6, 7, 8}
  OBVIOUS
<1>3. \A i, k \in 1 .. 8 : Figures[i] = Figures[k] => i = k
  BY <1>1, <1>2
<1>4. \A i \in 1 .. 8 : Figures[i] \in DebitSide <=> i \in {1, 2, 3, 5}
  BY <1>1, <1>2 DEF DebitSide
<1>5. \A i \in 1 .. 8 : Figures[i] \in CreditSide <=> i \in {4, 6, 7, 8}
  <2>1. \A i \in 1 .. 8 : Figures[i] \in CreditSide <=> Figures[i] \notin DebitSide
    BY <1>1 DEF CreditSide
  <2> QED BY <1>2, <1>4, <2>1
<1> QED BY <1>1, <1>3, <1>4, <1>5

(* Every account of the chart is counted by one figure.                    *)
LEMMA AllCounted == CountedBy(8) = D!Accounts /\ CountedBy(1) = Counts(1)
<1>1. \A a \in D!Accounts : \E i \in 1 .. 8 : a[1] = Figures[i]
  <2>1. \A a \in D!Accounts : a[1] \in D!SystemAccounts \cup
                {"WALLET_LIABILITY", "PROMO_CREDIT_LIABILITY", "ESCROW"}
    BY DEF D!Accounts
  <2>2. \A n \in D!SystemAccounts \cup
                {"WALLET_LIABILITY", "PROMO_CREDIT_LIABILITY", "ESCROW"} :
            \E i \in 1 .. 8 : n = Figures[i]
    BY DEF D!SystemAccounts, Figures
  <2> QED BY <2>1, <2>2
<1>2. \A i \in 1 .. 1 : i = 1
  OBVIOUS
<1> QED BY <1>1, <1>2 DEF CountedBy, Counts

LEMMA CountOneMore ==
    ASSUME NEW n \in 1 .. 7
    PROVE  CountedBy(n + 1) = CountedBy(n) \cup Counts(n + 1)
           /\ CountedBy(n) \cap Counts(n + 1) = {}
<1>1. 1 .. n + 1 = (1 .. n) \cup {n + 1} /\ n + 1 \notin 1 .. n
  OBVIOUS
<1>2. \A i \in 1 .. n : Figures[i] # Figures[n + 1]
  BY FiguresAre
<1> QED BY <1>1, <1>2 DEF CountedBy, Counts

LEMMA SystemCounts ==
    /\ Counts(1) = {D!Account("IR_PSP_CLEARING")}
    /\ Counts(2) = {D!Account("IR_BANK_MAIN")}
    /\ Counts(3) = {D!Account("IR_PAYOUT_CLEARING")}
    /\ Counts(4) = {D!Account("AIRBAR_FEE_REVENUE")}
    /\ Counts(5) = {D!Account("AIRBAR_PROMO_EXPENSE")}
<1>1. \A a \in D!Accounts : a[1] \in D!SystemAccounts => a = D!Account(a[1])
  BY DEF D!Accounts, D!SystemAccounts, D!Account
<1>2. \A n \in D!SystemAccounts : D!Account(n) \in D!Accounts /\ D!Account(n)[1] = n
  BY DEF D!Accounts, D!SystemAccounts, D!Account
<1>3. \A n \in D!SystemAccounts : {a \in D!Accounts : a[1] = n} = {D!Account(n)}
  BY <1>1, <1>2
<1> QED BY <1>3 DEF Counts, Figures, D!SystemAccounts

LEMMA FigureIs ==
    ASSUME Stored(journals), NEW i \in 1 .. 8
    PROVE  FigureOf(Figures[i]) = Figure(i, journals) /\ Figure(i, journals) \in Int
<1>1. \A A : /\ SumWhere(A).debit = SumOf(A, "debit", journals)
             /\ SumWhere(A).credit = SumOf(A, "credit", journals)
  BY SumWhereIs
<1>2. Figure(i, journals) \in Int
  BY SumOfType DEF Figure, Columns
<1>3. CASE i \in {1, 2, 3, 5}
  <2>1. Figures[i] \in DebitSide
    BY <1>3 DEF Figures, DebitSide
  <2>2. FigureOf(Figures[i]) = DebitLessCredit(SumByAccount(D!Account(Figures[i])))
    BY <1>3 DEF FigureOf, Figures, assetBalance, expenseBalance
  <2>3. Counts(i) = {D!Account(Figures[i])}
    BY <1>3, SystemCounts DEF Figures
  <2> QED BY <1>1, <1>2, <2>1, <2>2, <2>3 DEF Figure, DebitLessCredit, SumByAccount
<1>4. CASE i = 4
  <2>1. Figures[i] \notin DebitSide
    BY <1>4 DEF Figures, DebitSide
  <2>2. FigureOf(Figures[i]) = CreditLessDebit(SumByAccount(D!Account(Figures[i])))
    BY <1>4 DEF FigureOf, Figures, revenueBalance
  <2>3. Counts(i) = {D!Account(Figures[i])}
    BY <1>4, SystemCounts DEF Figures
  <2> QED BY <1>1, <1>2, <2>1, <2>2, <2>3 DEF Figure, CreditLessDebit, SumByAccount
<1>5. CASE i \in {6, 7, 8}
  <2>1. Figures[i] \notin DebitSide
    BY <1>5 DEF Figures, DebitSide
  <2>2. FigureOf(Figures[i]) = CreditLessDebit(SumByAccountLike(Figures[i]))
    BY <1>5 DEF FigureOf, Figures, liabilityBalance
  <2>3. SumByAccountLike(Figures[i]) = SumWhere(Counts(i))
    BY DEF SumByAccountLike, Counts
  <2> QED BY <1>1, <1>2, <2>1, <2>2, <2>3 DEF Figure, CreditLessDebit
<1> QED BY <1>3, <1>4, <1>5

(* So the figures of one moment balance.                                   *)
LEMMA SumOfCounted ==
    ASSUME NEW S, Stored(S), NEW c \in Columns
    PROVE  /\ \A i \in 1 .. 8 : SumOf(Counts(i), c, S) \in Int
           /\ SumOf(D!Accounts, c, S) =
                 SumOf(Counts(1), c, S) + SumOf(Counts(2), c, S) + SumOf(Counts(3), c, S)
                 + SumOf(Counts(4), c, S) + SumOf(Counts(5), c, S) + SumOf(Counts(6), c, S)
                 + SumOf(Counts(7), c, S) + SumOf(Counts(8), c, S)
<1>1. \A A : SumOf(A, c, S) \in Int
  BY SumOfType
<1>2. ASSUME NEW n \in 1 .. 7
      PROVE  SumOf(CountedBy(n + 1), c, S) = SumOf(CountedBy(n), c, S) + SumOf(Counts(n + 1), c, S)
  BY CountOneMore, SumOfUnion
<1>3. /\ SumOf(CountedBy(2), c, S) = SumOf(CountedBy(1), c, S) + SumOf(Counts(2), c, S)
      /\ SumOf(CountedBy(3), c, S) = SumOf(CountedBy(2), c, S) + SumOf(Counts(3), c, S)
      /\ SumOf(CountedBy(4), c, S) = SumOf(CountedBy(3), c, S) + SumOf(Counts(4), c, S)
      /\ SumOf(CountedBy(5), c, S) = SumOf(CountedBy(4), c, S) + SumOf(Counts(5), c, S)
      /\ SumOf(CountedBy(6), c, S) = SumOf(CountedBy(5), c, S) + SumOf(Counts(6), c, S)
      /\ SumOf(CountedBy(7), c, S) = SumOf(CountedBy(6), c, S) + SumOf(Counts(7), c, S)
      /\ SumOf(CountedBy(8), c, S) = SumOf(CountedBy(7), c, S) + SumOf(Counts(8), c, S)
  <2>1. /\ 1 \in 1 .. 7 /\ 1 + 1 = 2 /\ 2 \in 1 .. 7 /\ 2 + 1 = 3 /\ 3 \in 1 .. 7 /\ 3 + 1 = 4
        /\ 4 \in 1 .. 7 /\ 4 + 1 = 5 /\ 5 \in 1 .. 7 /\ 5 + 1 = 6 /\ 6 \in 1 .. 7 /\ 6 + 1 = 7
        /\ 7 \in 1 .. 7 /\ 7 + 1 = 8
    OBVIOUS
  <2> QED BY <1>2, <2>1
<1> QED BY <1>1, <1>3, AllCounted

LEMMA FiguresBalance ==
    ASSUME NEW S, Stored(S), \A j \in S : D!ValidateLines(j.lines)
    PROVE  /\ \A i \in 1 .. 8 : Figure(i, S) \in Int
           /\ Figure(1, S) + Figure(2, S) + Figure(3, S) + Figure(5, S) =
                 Figure(4, S) + Figure(6, S) + Figure(7, S) + Figure(8, S)
<1> DEFINE d(i) == SumOf(Counts(i), "debit", S)
           c(i) == SumOf(Counts(i), "credit", S)
<1>1. \A i \in 1 .. 8 : d(i) \in Int /\ c(i) \in Int
  BY SumOfType DEF Columns
<1>2. d(1) + d(2) + d(3) + d(4) + d(5) + d(6) + d(7) + d(8) =
          c(1) + c(2) + c(3) + c(4) + c(5) + c(6) + c(7) + c(8)
  BY SumOfCounted, SumOfBalances DEF Columns
<1>3. /\ Figure(1, S) = d(1) - c(1) /\ Figure(2, S) = d(2) - c(2)
      /\ Figure(3, S) = d(3) - c(3) /\ Figure(5, S) = d(5) - c(5)
      /\ Figure(4, S) = c(4) - d(4) /\ Figure(6, S) = c(6) - d(6)
      /\ Figure(7, S) = c(7) - d(7) /\ Figure(8, S) = c(8) - d(8)
  BY DEF Figure, Figures, DebitSide
<1>4. \A i \in 1 .. 8 : Figure(i, S) \in Int
  BY <1>1 DEF Figure
<1> HIDE DEF d, c
<1> QED BY <1>1, <1>2, <1>3, <1>4

LEMMA PairFinite == ASSUME NEW x, NEW y PROVE IsFiniteSet({x, y})
<1>1. IsFiniteSet({x} \cup {y})
  BY FS_Singleton, FS_AddElement
<1>2. {x, y} = {x} \cup {y}
  OBVIOUS
<1> QED BY <1>1, <1>2

LEMMA InitSummary == BooksInit => SummaryInv
BY DEF BooksInit, SummaryInv, Unread

(* A figure read while nothing has been posted since the first.            *)
LEMMA FigureKeeps ==
    ASSUME SummaryInv, WritersInv, GetTreasurySummary
    PROVE  SummaryInv'
<1> DEFINE n == Len(summary.read) + 1
           x == FigureOf(Figures[n])
           was == summary.read
           are == summary'.read
<1>1. /\ journals' = journals /\ are = Append(was, x)
      /\ summary'.from = IF was = <<>> THEN journals ELSE summary.from
      /\ was \in Seq(Int) /\ n \in 1 .. 8 /\ summary.from \subseteq journals
  <2>1. Len(was) < 8 /\ Len(was) \in 0 .. 8 /\ was \in Seq(Int)
    BY FiguresAre DEF GetTreasurySummary, SummaryInv
  <2>2. n \in 1 .. 8
    <3> DEFINE m == Len(was)
    <3>1. m \in 0 .. 8 /\ m < 8
      BY <2>1
    <3> HIDE DEF m
    <3>2. m + 1 \in 1 .. 8
      BY <3>1
    <3> QED BY <3>2 DEF m
  <2> QED BY <2>1, <2>2 DEF GetTreasurySummary, SummaryInv
<1>2. x = Figure(n, journals) /\ x \in Int
  <2>1. Stored(journals)
    BY DEF WritersInv, PostingsTyped
  <2> QED BY <1>1, <2>1, FigureIs
<1> HIDE DEF x
<1>3. are \in Seq(Int) /\ Len(are) = n /\ DOMAIN are = 1 .. n
      /\ are[n] = x /\ \A i \in DOMAIN was : are[i] = was[i]
  BY <1>1, <1>2
<1>4. \A i \in 1 .. n : i # n => i \in DOMAIN was
  BY <1>1
<1>5. summary'.from = journals => \A i \in DOMAIN are : are[i] = Figure(i, journals)
  <2> SUFFICES ASSUME summary'.from = journals, NEW i \in DOMAIN are
               PROVE  are[i] = Figure(i, journals)
    OBVIOUS
  <2>1. CASE i = n
    BY <1>2, <1>3, <2>1
  <2>2. CASE i # n
    <3>1. i \in DOMAIN was /\ are[i] = was[i]
      <4>1. i \in 1 .. n
        BY <1>3
      <4>2. i \in DOMAIN was
        BY <1>4, <2>2, <4>1
      <4> QED BY <1>3, <4>2
    <3>2. summary.from = journals
      BY <1>1, <3>1
    <3> QED BY <3>1, <3>2 DEF SummaryInv
  <2> QED BY <2>1, <2>2
<1>6. summary'.from \subseteq journals' /\ Len(are) \in 0 .. 8
  BY <1>1, <1>3
<1> QED BY <1>1, <1>3, <1>5, <1>6 DEF SummaryInv, Figure, SumOf, Part, Column

LEMMA NextSummary == SummaryInv /\ WritersInv /\ [BooksNext]_booksVars => SummaryInv'
<1> SUFFICES ASSUME SummaryInv, WritersInv, [BooksNext]_booksVars PROVE SummaryInv'
  OBVIOUS
<1>1. CASE GetTreasurySummary
  BY <1>1, FigureKeeps
<1>2. CASE ~ GetTreasurySummary
  <2>1. summary' = summary
    BY <1>2 DEF BooksNext, booksVars, readVars, PostJournal, EnsureForLines, CreateJournal,
       CommitPosting, RollbackPosting, GetWallet, ListWalletTransactions, StartRun, SumGlobal,
       CreateRun
  <2>2. CASE journals' = journals
    BY <2>1, <2>2 DEF SummaryInv, Figure, SumOf, Part, Column
  <2>3. CASE journals' # journals
    <3>1. PICK j \in Inputs : j \notin journals /\ journals' = journals \cup {j}
      BY <2>3, OnlyCommitStores
    <3>2. summary'.from \subseteq journals' /\ summary'.from # journals'
      BY <2>1, <3>1 DEF SummaryInv
    <3> QED BY <2>1, <3>2 DEF SummaryInv
  <2> QED BY <2>2, <2>3
<1> QED BY <1>1, <1>2

(* A treasury summary during which nothing was posted balances: its eight  *)
(* figures count every account of the chart once and on its own side       *)
(* (GetTreasurySummary).                                                   *)
THEOREM SummariesBalance == BooksSpec => []SummaryBalances
<1>1. SummaryInv /\ WritersInv => SummaryBalances
  <2> SUFFICES ASSUME SummaryInv, WritersInv, Len(summary.read) = Len(Figures),
                      summary.from = journals
               PROVE  Total(DebitSide) = Total(CreditSide)
    BY DEF SummaryBalances
  <2> DEFINE f == summary.read
  <2>1. \A i \in 1 .. 8 : f[i] = Figure(i, journals)
    <3>1. DOMAIN f = 1 .. 8
      BY FiguresAre DEF SummaryInv
    <3> QED BY <3>1 DEF SummaryInv
  <2>2. Stored(journals) /\ \A j \in journals : D!ValidateLines(j.lines)
    BY DEF WritersInv, PostingsTyped
  <2>3. /\ \A i \in 1 .. 8 : Figure(i, journals) \in Int
        /\ Figure(1, journals) + Figure(2, journals) + Figure(3, journals) + Figure(5, journals) =
              Figure(4, journals) + Figure(6, journals) + Figure(7, journals) + Figure(8, journals)
    BY <2>2, FiguresBalance
  <2>4. Total(DebitSide) = SumFunctionOnSet(f, {1, 2, 3, 5})
        /\ Total(CreditSide) = SumFunctionOnSet(f, {4, 6, 7, 8})
    BY FiguresAre DEF Total
  <2>5. \A i \in 1 .. 8 : f[i] \in Int
    BY <2>1, <2>3
  <2> HIDE DEF f
  <2>6. /\ f[1] \in Int /\ f[2] \in Int /\ f[3] \in Int /\ f[4] \in Int
        /\ f[5] \in Int /\ f[6] \in Int /\ f[7] \in Int /\ f[8] \in Int
    BY <2>5
  <2>7. SumFunctionOnSet(f, {1, 2, 3, 5}) = (f[1] + f[2]) + (f[3] + f[5])
    <3> DEFINE i == 1
               j == 2
               k == 3
               l == 5
               S == {i, j}
               T == {k, l}
    <3>1. {1, 2, 3, 5} = S \cup T /\ S \cap T = {} /\ i # j /\ k # l
      OBVIOUS
    <3>2. f[i] \in Int /\ f[j] \in Int /\ f[k] \in Int /\ f[l] \in Int
      BY <2>6
    <3>3. IsFiniteSet(S) /\ IsFiniteSet(T)
      BY PairFinite
    <3>4. \A x \in S \cup T : f[x] \in Int
      BY <3>2
    <3> HIDE DEF i, j, k, l
    <3>5. SumFunctionOnSet(f, S) = f[i] + f[j] /\ SumFunctionOnSet(f, T) = f[k] + f[l]
      BY <3>1, <3>2, SumPair
    <3> HIDE DEF S, T
    <3>6. SumFunctionOnSet(f, S \cup T) = SumFunctionOnSet(f, S) + SumFunctionOnSet(f, T)
      BY <3>1, <3>3, <3>4, SumUnion
    <3> QED BY <3>1, <3>5, <3>6 DEF i, j, k, l
  <2>8. SumFunctionOnSet(f, {4, 6, 7, 8}) = (f[4] + f[6]) + (f[7] + f[8])
    <3> DEFINE i == 4
               j == 6
               k == 7
               l == 8
               S == {i, j}
               T == {k, l}
    <3>1. {4, 6, 7, 8} = S \cup T /\ S \cap T = {} /\ i # j /\ k # l
      OBVIOUS
    <3>2. f[i] \in Int /\ f[j] \in Int /\ f[k] \in Int /\ f[l] \in Int
      BY <2>6
    <3>3. IsFiniteSet(S) /\ IsFiniteSet(T)
      BY PairFinite
    <3>4. \A x \in S \cup T : f[x] \in Int
      BY <3>2
    <3> HIDE DEF i, j, k, l
    <3>5. SumFunctionOnSet(f, S) = f[i] + f[j] /\ SumFunctionOnSet(f, T) = f[k] + f[l]
      BY <3>1, <3>2, SumPair
    <3> HIDE DEF S, T
    <3>6. SumFunctionOnSet(f, S \cup T) = SumFunctionOnSet(f, S) + SumFunctionOnSet(f, T)
      BY <3>1, <3>3, <3>4, SumUnion
    <3> QED BY <3>1, <3>5, <3>6 DEF i, j, k, l
  <2>9. Total(DebitSide) = (f[1] + f[2]) + (f[3] + f[5])
        /\ Total(CreditSide) = (f[4] + f[6]) + (f[7] + f[8])
    BY <2>4, <2>7, <2>8
  <2>10. /\ f[1] = Figure(1, journals) /\ f[2] = Figure(2, journals)
         /\ f[3] = Figure(3, journals) /\ f[4] = Figure(4, journals)
         /\ f[5] = Figure(5, journals) /\ f[6] = Figure(6, journals)
         /\ f[7] = Figure(7, journals) /\ f[8] = Figure(8, journals)
    BY <2>1
  <2> HIDE DEF Total
  <2> QED BY <2>3, <2>6, <2>9, <2>10
<1> QED BY <1>1, InitSummary, NextSummary, WritersInvariant, PTL DEF BooksSpec
=============================================================================
