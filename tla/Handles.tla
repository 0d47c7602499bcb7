------------------------------- MODULE Handles -------------------------------
(***************************************************************************)
(* The tree of handles (handles.h) and the calls that build it, use it and *)
(* take it apart, made by several threads: SQLAllocHandle, SQLFreeHandle,  *)
(* SQLConnect, SQLDisconnect, and any other call on a connection or a      *)
(* statement.                                                              *)
(*                                                                         *)
(* A handle is the address of its object; an address is used again once    *)
(* its object is deleted.  A call under way is a record: what it is, the   *)
(* handle it was given, and where it is:                                   *)
(*   "enter"   the handle's magic number was right; to take the mutex      *)
(*   "inside"  holds the mutex of the connection                           *)
(*   "unlink"  SQLFreeHandle of a connection, between its two locks        *)
(*   "delete"  ... and behind them                                         *)
(*                                                                         *)
(* What the driver relies on is ODBC's rule for applications: a handle is  *)
(* not used while or after it is freed (Compatible).                       *)
(***************************************************************************)
EXTENDS FiniteSets

CONSTANTS
    Threads,   \* threads of the application
    Env,       \* the environment handle
    Conns,     \* addresses of connections
    Stmts,     \* addresses of statements
    Nobody,    \* a mutex is free
    Idle       \* a thread is not in a call

Handles == {Env} \cup Conns \cup Stmts

EnvOps == {"AllocConn", "FreeEnv"}
ConnOps == {"AllocStmt", "Connect", "Disconnect", "FreeConn", "UseConn"}
StmtOps == {"FreeStmt", "UseStmt", "Cancel"}

Calls ==
    [op : EnvOps, h : {Env}, at : {"enter"}]
    \cup [op : ConnOps, h : Conns, at : {"enter", "inside"}]
    \cup [op : {"FreeConn"}, h : Conns, at : {"unlink", "delete"}]
    \cup [op : StmtOps, h : Stmts, at : {"enter", "inside"}]

ASSUME HandleConstants ==
    /\ Env \notin Conns \cup Stmts /\ Conns \cap Stmts = {}
    /\ Nobody \notin Threads /\ Idle \notin Calls

VARIABLES
    alive,       \* the objects that exist: their magic is set
    connected,   \* Conn::connected
    conns,       \* Env::conns
    stmts,       \* Conn::stmts
    owner,       \* Stmt::conn
    mu,          \* Conn::mu: the thread that holds it
    call         \* what each thread is doing

vars == <<alive, connected, conns, stmts, owner, mu, call>>

\* The connection whose mutex a call takes.
ConnOf(h) == IF h \in Stmts THEN owner[h] ELSE h

StmtsOf(c) == {s \in alive \cap Stmts : owner[s] = c}

------------------------------------------------------------------------------
(* The application's part *)

\* The objects a call reads or writes until it returns.
Uses(op, h) ==
    {h} \cup (IF op = "FreeConn" THEN {Env} ELSE {})
        \cup (IF op \in {"FreeStmt", "UseStmt"} THEN {owner[h]} ELSE {})

\* The objects it deletes if it succeeds.
Destroys(op, h) ==
    IF op = "Disconnect" THEN StmtsOf(h)
    ELSE IF op \in {"FreeEnv", "FreeConn", "FreeStmt"} THEN {h} ELSE {}

\* Two calls that may be under way together.
Compatible(op, h, other) ==
    other # Idle =>
        /\ Destroys(op, h) \cap Uses(other.op, other.h) = {}
        /\ Destroys(other.op, other.h) \cap Uses(op, h) = {}

\* A thread makes a call; Env::from, Conn::from or Stmt::from accepts the handle.
Begin(t, op, h) ==
    /\ call[t] = Idle
    /\ h \in alive
    /\ \A u \in Threads : Compatible(op, h, call[u])
    /\ call' = [call EXCEPT ![t] = [op |-> op, h |-> h, at |-> "enter"]]
    /\ UNCHANGED <<alive, connected, conns, stmts, owner, mu>>

------------------------------------------------------------------------------
(* Locking *)

At(t, op, at) == call[t] # Idle /\ call[t].op = op /\ call[t].at = at

Goto(t, at) == call' = [call EXCEPT ![t].at = at]

Return(t) == call' = [call EXCEPT ![t] = Idle]

\* WITH_CONN and WITH_STMT: a statement has no mutex of its own, it uses its connection's.
Lock(t) ==
    /\ call[t] # Idle
    /\ call[t].at = "enter" /\ call[t].op \notin EnvOps \cup {"Cancel"}
    /\ mu[ConnOf(call[t].h)] = Nobody
    /\ mu' = [mu EXCEPT ![ConnOf(call[t].h)] = t]
    /\ Goto(t, "inside")
    /\ UNCHANGED <<alive, connected, conns, stmts, owner>>

Unlock(t) == mu' = [mu EXCEPT ![ConnOf(call[t].h)] = Nobody]

\* The call returns without a change to the tree: any other function, a login that fails or an
\* open connection that is opened again, memory that runs out, and the tests of connected.
ReturnUnchanged(t) ==
    /\ \/ \E op \in {"UseConn", "UseStmt", "Connect", "AllocStmt"} : At(t, op, "inside")
       \/ At(t, "Disconnect", "inside") /\ call[t].h \notin connected
       \/ At(t, "FreeConn", "inside") /\ call[t].h \in connected
    /\ Unlock(t)
    /\ Return(t)
    /\ UNCHANGED <<alive, connected, conns, stmts, owner>>

------------------------------------------------------------------------------
(* Environments *)

AllocEnv ==
    /\ Env \notin alive
    /\ alive' = alive \cup {Env}
    /\ conns' = {}
    /\ UNCHANGED <<connected, stmts, owner, mu, call>>

\* SQLFreeHandle of the environment looks at its list without the environment's mutex.
FreeEnv(t) ==
    /\ At(t, "FreeEnv", "enter")
    /\ alive' = IF conns = {} THEN alive \ {Env} ELSE alive
    /\ Return(t)
    /\ UNCHANGED <<connected, conns, stmts, owner, mu>>

------------------------------------------------------------------------------
(* Connections *)

\* Memory runs out.
AllocConnFails(t) ==
    /\ At(t, "AllocConn", "enter")
    /\ Return(t)
    /\ UNCHANGED <<alive, connected, conns, stmts, owner, mu>>

AllocConn(t, c) ==
    /\ At(t, "AllocConn", "enter")
    /\ c \notin alive
    /\ alive' = alive \cup {c}
    /\ conns' = conns \cup {c}
    /\ stmts' = [stmts EXCEPT ![c] = {}]
    /\ connected' = connected \ {c}
    /\ Return(t)
    /\ UNCHANGED <<owner, mu>>

\* do_connect, its login done; a connection that is open already is refused.
Connect(t) ==
    /\ At(t, "Connect", "inside")
    /\ call[t].h \notin connected
    /\ connected' = connected \cup {call[t].h}
    /\ Unlock(t)
    /\ Return(t)
    /\ UNCHANGED <<alive, conns, stmts, owner>>

\* SQLDisconnect deletes what is on the connection's list.
Disconnect(t) ==
    /\ At(t, "Disconnect", "inside")
    /\ call[t].h \in connected
    /\ alive' = alive \ stmts[call[t].h]
    /\ stmts' = [stmts EXCEPT ![call[t].h] = {}]
    /\ connected' = connected \ {call[t].h}
    /\ Unlock(t)
    /\ Return(t)
    /\ UNCHANGED <<conns, owner>>

\* (mutant) Does not test whether the connection is closed.
FreeConn_unchecked(t) ==
    /\ At(t, "FreeConn", "inside")
    /\ Unlock(t)
    /\ Goto(t, "unlink")
    /\ UNCHANGED <<alive, connected, conns, stmts, owner>>

\* SQLFreeHandle of a connection tests under the connection's mutex whether it is closed,
FreeConn(t) ==
    /\ At(t, "FreeConn", "inside")
    /\ call[t].h \notin connected
    /\ Unlock(t)
    /\ Goto(t, "unlink")
    /\ UNCHANGED <<alive, connected, conns, stmts, owner>>

\* takes it off the environment's list under that mutex,
FreeConnUnlink(t) ==
    /\ At(t, "FreeConn", "unlink")
    /\ conns' = conns \ {call[t].h}
    /\ Goto(t, "delete")
    /\ UNCHANGED <<alive, connected, stmts, owner, mu>>

\* and deletes it under none.
FreeConnDelete(t) ==
    /\ At(t, "FreeConn", "delete")
    /\ alive' = alive \ {call[t].h}
    /\ Return(t)
    /\ UNCHANGED <<connected, conns, stmts, owner, mu>>

------------------------------------------------------------------------------
(* Statements *)

\* (mutant) Whether the connection is open is not tested under the mutex.
AllocStmt_unchecked(t, s) ==
    /\ At(t, "AllocStmt", "inside")
    /\ s \notin alive
    /\ alive' = alive \cup {s}
    /\ owner' = [owner EXCEPT ![s] = call[t].h]
    /\ stmts' = [stmts EXCEPT ![call[t].h] = @ \cup {s}]
    /\ Unlock(t)
    /\ Return(t)
    /\ UNCHANGED <<connected, conns>>

AllocStmt(t, s) ==
    /\ At(t, "AllocStmt", "inside")
    /\ call[t].h \in connected
    /\ s \notin alive
    /\ alive' = alive \cup {s}
    /\ owner' = [owner EXCEPT ![s] = call[t].h]
    /\ stmts' = [stmts EXCEPT ![call[t].h] = @ \cup {s}]
    /\ Unlock(t)
    /\ Return(t)
    /\ UNCHANGED <<connected, conns>>

\* (mutant) The statement stays on its connection's list.
FreeStmt_keeps_link(t) ==
    /\ At(t, "FreeStmt", "inside")
    /\ alive' = alive \ {call[t].h}
    /\ Unlock(t)
    /\ Return(t)
    /\ UNCHANGED <<connected, stmts, conns, owner>>

FreeStmt(t) ==
    /\ At(t, "FreeStmt", "inside")
    /\ stmts' = [stmts EXCEPT ![owner[call[t].h]] = @ \ {call[t].h}]
    /\ alive' = alive \ {call[t].h}
    /\ Unlock(t)
    /\ Return(t)
    /\ UNCHANGED <<connected, conns, owner>>

\* SQLCancel takes no mutex.
Cancel(t) ==
    /\ At(t, "Cancel", "enter")
    /\ Return(t)
    /\ UNCHANGED <<alive, connected, conns, stmts, owner, mu>>

------------------------------------------------------------------------------
Init ==
    /\ alive = {}
    /\ connected = {}
    /\ conns = {}
    /\ stmts = [c \in Conns |-> {}]
    /\ owner \in [Stmts -> Conns]
    /\ mu = [c \in Conns |-> Nobody]
    /\ call = [t \in Threads |-> Idle]

Begins(t) ==
    \/ \E op \in EnvOps : Begin(t, op, Env)
    \/ \E op \in ConnOps, c \in Conns : Begin(t, op, c)
    \/ \E op \in StmtOps, s \in Stmts : Begin(t, op, s)

Proceeds(t) ==
    \/ Lock(t) \/ ReturnUnchanged(t)
    \/ FreeEnv(t)
    \/ AllocConnFails(t)
    \/ \E c \in Conns : AllocConn(t, c)
    \/ Connect(t) \/ Disconnect(t)
    \/ FreeConn(t) \/ FreeConnUnlink(t) \/ FreeConnDelete(t)
    \/ \E s \in Stmts : AllocStmt(t, s)
    \/ FreeStmt(t) \/ Cancel(t)

Next == AllocEnv \/ \E t \in Threads : Begins(t) \/ Proceeds(t)

Spec == Init /\ [][Next]_vars

------------------------------------------------------------------------------
(* Properties *)

TypeOK ==
    /\ alive \in SUBSET Handles
    /\ connected \in SUBSET (alive \cap Conns)
    /\ conns \in SUBSET Conns
    /\ stmts \in [Conns -> SUBSET Stmts]
    /\ owner \in [Stmts -> Conns]
    /\ mu \in [Conns -> Threads \cup {Nobody}]
    /\ call \in [Threads -> Calls \cup {Idle}]

\* The connections a thread has taken off the environment's list and not yet deleted.
Deleting == {c \in Conns : \E t \in Threads : At(t, "FreeConn", "delete") /\ call[t].h = c}

\* The lists the driver walks when it disconnects and when it frees the environment are those
\* of the objects that exist: nothing is deleted twice, also when an address is used again, and
\* nothing is forgotten.
ListsAreTheTree ==
    /\ \A c \in alive \cap Conns : stmts[c] = StmtsOf(c)
    /\ conns = (alive \cap Conns) \ Deleting

\* No object outlives the one it points to: every statement has an open connection (Conn's
\* destructor does not look for statements), every connection an environment.
NoOrphans ==
    /\ \A s \in alive \cap Stmts : owner[s] \in alive \cap connected
    /\ alive \cap Conns # {} => Env \in alive

\* A call that passed the test of its handle finds everything it uses still there when it gets
\* the mutex, and until it returns, however long it waited and whatever was freed meanwhile.
NoDanglingUse ==
    \A t \in Threads : call[t] # Idle => Uses(call[t].op, call[t].h) \subseteq alive

\* Calls under way are compatible, and a connection that passed the test of SQLFreeHandle has
\* not been opened since, though its mutex was given back.
CallsUnderWay ==
    /\ \A t, u \in Threads :
         t # u /\ call[t] # Idle => Compatible(call[t].op, call[t].h, call[u])
    /\ \A t \in Threads :
         At(t, "FreeConn", "unlink") \/ At(t, "FreeConn", "delete") => call[t].h \notin connected

\* The inductive invariant: what the application grants to the calls under way stays granted
\* while statements come and go, and a connection that passed its test stays closed.
IInv ==
    /\ TypeOK
    /\ CallsUnderWay
    /\ ListsAreTheTree
    /\ NoOrphans
    /\ NoDanglingUse
==============================================================================
