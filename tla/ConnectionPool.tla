---------------------------- MODULE ConnectionPool ----------------------------
(***************************************************************************)
(* DatabasePool of src/utils/database.utils.ts.  acquire and release are   *)
(* called by hand or by execute, which gives the connection back when the  *)
(* function it was given returns.  An asynchronous function returns a      *)
(* promise, so it goes on using a connection that is free again, together  *)
(* with whoever is given it next.                                          *)
(***************************************************************************)
EXTENDS Naturals, FiniteSets, Sequences

CONSTANTS
  Connection,    \* the connections of the pool (maxConnections of them)
  Holder         \* callers

ASSUME PoolAssumption == IsFiniteSet(Connection)

VARIABLES
  available,   \* the stack of free connections
  inUse,       \* the connections handed out
  holds,       \* the connections each caller has acquired and not released
  lingers,     \* the connections each caller's asynchronous functions still work with
  refused,     \* callers that found no connection
  poolClosed

poolVars == <<available, inUse, holds, lingers, refused, poolClosed>>

Orders == {s \in [1 .. Cardinality(Connection) -> Connection] :
             \A i, j \in 1 .. Cardinality(Connection) : s[i] = s[j] => i = j}

PoolInit ==
  /\ available \in Orders
  /\ inUse = {}
  /\ holds = [h \in Holder |-> {}]
  /\ lingers = [h \in Holder |-> {}]
  /\ refused = {}
  /\ poolClosed = FALSE

Top == available[Len(available)]

TakeTop ==
  /\ available' = SubSeq(available, 1, Len(available) - 1)
  /\ inUse' = inUse \cup {Top}

\* acquire
AcquireConnection(h) ==
  /\ UNCHANGED <<lingers, poolClosed>>
  /\ IF available = <<>>
     THEN /\ refused' = refused \cup {h}
          /\ UNCHANGED <<available, inUse, holds>>
     ELSE /\ TakeTop
          /\ holds' = [holds EXCEPT ![h] = @ \cup {Top}]
          /\ refused' = refused \ {h}

\* release, once for each acquire.
Release(h, c) ==
  /\ c \in holds[h]
  /\ holds' = [holds EXCEPT ![h] = @ \ {c}]
  /\ inUse' = inUse \ {c}
  /\ available' = Append(available, c)
  /\ UNCHANGED <<lingers, refused, poolClosed>>

\* Mutant: a function that throws costs the connection (no finally).
ExecuteOnceLeaks(h) ==
  IF available = <<>>
  THEN refused' = refused \cup {h} /\ UNCHANGED <<available, inUse, holds, lingers, poolClosed>>
  ELSE TakeTop /\ refused' = refused \ {h} /\ UNCHANGED <<holds, lingers, poolClosed>>

\* execute of a synchronous function, whether it returns or throws: the connection taken
\* from the top is put back on the top.
ExecuteOnce(h) ==
  /\ refused' = IF available = <<>> THEN refused \cup {h} ELSE refused \ {h}
  /\ UNCHANGED <<available, inUse, holds, lingers, poolClosed>>

\* execute of an asynchronous function: the promise is returned and the connection put
\* back; the function works on with it.
ExecuteAsync(h) ==
  /\ available # <<>>
  /\ lingers' = [lingers EXCEPT ![h] = @ \cup {Top}]
  /\ refused' = refused \ {h}
  /\ UNCHANGED <<available, inUse, holds, poolClosed>>

\* The promise of an asynchronous function settles.
LingerEnds(h, c) ==
  /\ c \in lingers[h]
  /\ lingers' = [lingers EXCEPT ![h] = @ \ {c}]
  /\ UNCHANGED <<available, inUse, holds, refused, poolClosed>>

\* close forgets the connections, also those that callers still work with; those they
\* release go into the empty stack.
ClosePool ==
  /\ ~poolClosed /\ poolClosed' = TRUE
  /\ available' = <<>> /\ inUse' = {}
  /\ UNCHANGED <<holds, lingers, refused>>

PoolNext ==
  \/ ClosePool
  \/ \E h \in Holder :
       \/ AcquireConnection(h)
       \/ ExecuteOnce(h)
       \/ ExecuteAsync(h)
       \/ \E c \in Connection : Release(h, c) \/ LingerEnds(h, c)

PoolSpec == PoolInit /\ [][PoolNext]_poolVars

-----------------------------------------------------------------------------
Free == {available[i] : i \in 1 .. Len(available)}

PoolTypeOK ==
  /\ available \in Seq(Connection) /\ Len(available) <= Cardinality(Connection)
  /\ inUse \subseteq Connection
  /\ {holds, lingers} \subseteq [Holder -> SUBSET Connection]
  /\ refused \subseteq Holder

\* Until close, a connection that is handed out has been acquired by one caller, and one
\* that is not is free, whoever takes and gives in which order.  Nothing is said of
\* asynchronous functions: they may share the connection of that caller.
HeldOnce == ~poolClosed =>
  /\ \A c \in Connection :
       Cardinality({h \in Holder : c \in holds[h]}) = (IF c \in inUse THEN 1 ELSE 0)
  /\ Free \cap inUse = {}

\* Until close no connection is lost: those that are not handed out can be had.
NoneLost ==
  ~poolClosed => Free \cup inUse = Connection /\ Len(available) = Cardinality(Free)

\* Until close the DatabasePool (utils/database.utils.ts) hands no connection out to a
\* second caller before the first has released it, and loses none, also when functions
\* given to execute throw or go on working with a connection that is free again.
PoolIsSound == PoolTypeOK /\ HeldOnce /\ NoneLost
================================================================================
