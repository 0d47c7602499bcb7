---------------------------- MODULE Handles_proofs ----------------------------
(***************************************************************************)
(* Proofs about Handles: the inductive invariant IInv and the properties   *)
(* that follow from it.                                                    *)
(***************************************************************************)
EXTENDS Handles, TLAPS

Ops == EnvOps \cup ConnOps \cup StmtOps

\* A call uses and deletes handles only.
LEMMA CallTypes ==
    ASSUME TypeOK, NEW t \in Threads, call[t] # Idle
    PROVE  /\ call[t] \in Calls
           /\ call[t].op \in Ops
           /\ call[t].h \in Handles
           /\ call[t].op \in EnvOps => call[t].h = Env
           /\ call[t].op \in ConnOps => call[t].h \in Conns
           /\ call[t].op \in StmtOps => call[t].h \in Stmts
  <1>1. call[t] \in Calls
    BY DEF TypeOK
  <1> QED
    BY <1>1 DEF Calls, Ops, Handles, EnvOps, ConnOps, StmtOps

\* The initial state.
LEMMA InitIInv == Init => IInv
  <1> SUFFICES ASSUME Init PROVE IInv
    OBVIOUS
  <1>1. TypeOK
    BY DEF Init, TypeOK
  <1>2. CallsUnderWay
    BY DEF Init, CallsUnderWay, At
  <1>3. ListsAreTheTree
    BY DEF Init, ListsAreTheTree
  <1>4. NoOrphans /\ NoDanglingUse
    BY DEF Init, NoOrphans, NoDanglingUse
  <1> QED
    BY <1>1, <1>2, <1>3, <1>4 DEF IInv

\* What calls use and delete is a matter of the objects that exist and of the owners.
LEMMA SameUses ==
    ASSUME alive' = alive, owner' = owner
    PROVE  /\ \A op, h : Uses(op, h)' = Uses(op, h)
           /\ \A op, h : Destroys(op, h)' = Destroys(op, h)
           /\ \A op, h, c : Compatible(op, h, c)' = Compatible(op, h, c)
  <1>1. \A op, h : Uses(op, h)' = Uses(op, h)
    BY DEF Uses
  <1>2. \A h : StmtsOf(h)' = StmtsOf(h)
    BY DEF StmtsOf
  <1>3. \A op, h : Destroys(op, h)' = Destroys(op, h)
    BY <1>2 DEF Destroys
  <1>4. \A op, h, c : Compatible(op, h, c)' = Compatible(op, h, c)
    BY <1>1, <1>3 DEF Compatible
  <1> QED
    BY <1>1, <1>3, <1>4

\* A call that begins.
LEMMA BeginKeepsIInv ==
    ASSUME IInv, NEW t \in Threads, NEW op, NEW h, Begin(t, op, h),
           \/ op \in EnvOps /\ h = Env
           \/ op \in ConnOps /\ h \in Conns
           \/ op \in StmtOps /\ h \in Stmts
    PROVE  IInv'
  <1>1. TypeOK'
    BY DEF IInv, TypeOK, Begin, Calls
  <1>2. \A u \in Threads \ {t} : call'[u] = call[u]
    BY DEF IInv, TypeOK, Begin
  <1>3. call'[t] = [op |-> op, h |-> h, at |-> "enter"]
    BY DEF IInv, TypeOK, Begin
  <1>4. CallsUnderWay'
    <2>1. \A u \in Threads \ {t} : Compatible(op, h, call[u])
      BY DEF Begin
    <2>2. \A u, v \in Threads : u # v /\ call'[u] # Idle => Compatible(call'[u].op, call'[u].h, call'[v])
      <3> SUFFICES ASSUME NEW u \in Threads, NEW v \in Threads, u # v, call'[u] # Idle
                   PROVE  Compatible(call'[u].op, call'[u].h, call'[v])
        OBVIOUS
      <3>1. CASE u = t
        BY <3>1, <2>1, <1>2, <1>3
      <3>2. CASE v = t
        BY <3>2, <2>1, <1>2, <1>3 DEF Compatible
      <3>3. CASE u # t /\ v # t
        BY <3>3, <1>2 DEF IInv, CallsUnderWay
      <3> QED
        BY <3>1, <3>2, <3>3
    <2>3. alive' = alive /\ owner' = owner /\ connected' = connected
      BY DEF Begin
    <2>4. \A u, v \in Threads : u # v /\ call'[u] # Idle => Compatible(call[u].op, call[u].h, call[v])'
      BY <2>2, <2>3 DEF Compatible, Uses, Destroys, StmtsOf
    <2> QED
      BY <2>3, <2>4, <1>2, <1>3 DEF IInv, CallsUnderWay, At
  <1>5. ListsAreTheTree'
    <2>1. Deleting' = Deleting
      BY <1>2, <1>3 DEF Deleting, At, Begin
    <2> QED
      BY <2>1 DEF IInv, ListsAreTheTree, StmtsOf, Begin
  <1>6. NoOrphans'
    BY DEF IInv, NoOrphans, Begin
  <1>7. NoDanglingUse'
    <2>1. alive' = alive /\ owner' = owner /\ h \in alive
      BY DEF Begin
    <2>2. Uses(op, h) \subseteq alive
      <3>1. h \in Conns => Env \in alive
        BY <2>1 DEF IInv, NoOrphans
      <3>2. h \in Stmts => owner[h] \in alive
        BY <2>1 DEF IInv, NoOrphans
      <3> QED
        BY <2>1, <3>1, <3>2 DEF Uses, EnvOps, ConnOps, StmtOps
    <2>3. \A u \in Threads \ {t} : call[u] # Idle => Uses(call[u].op, call[u].h) \subseteq alive
      BY DEF IInv, NoDanglingUse
    <2> QED
      BY <2>1, <2>2, <2>3, <1>2, <1>3 DEF NoDanglingUse, Uses
  <1> QED
    BY <1>1, <1>4, <1>5, <1>6, <1>7 DEF IInv

\* The calls other than t's go on, and t's returns or goes on as the call it is.
Steps(t) ==
    /\ \A u \in Threads \ {t} : call'[u] = call[u]
    /\ call[t] # Idle
    /\ \/ call'[t] = Idle
       \/ call'[t] # Idle /\ call'[t].op = call[t].op /\ call'[t].h = call[t].h

\* A step that creates and deletes nothing leaves the calls compatible and what they use alive.
LEMMA StepsKeepCalls ==
    ASSUME IInv, NEW t \in Threads, Steps(t), alive' = alive, owner' = owner
    PROVE  /\ \A u, v \in Threads :
                u # v /\ call'[u] # Idle => Compatible(call[u].op, call[u].h, call[v])'
           /\ NoDanglingUse'
  <1>1. \A u, v \in Threads : u # v /\ call'[u] # Idle => Compatible(call[u].op, call[u].h, call[v])'
    <2> SUFFICES ASSUME NEW u \in Threads, NEW v \in Threads, u # v, call'[u] # Idle
                 PROVE  Compatible(call[u].op, call[u].h, call[v])'
      OBVIOUS
    <2>1. call[u] # Idle /\ call'[u].op = call[u].op /\ call'[u].h = call[u].h
      BY DEF Steps
    <2>2. call'[v] = Idle \/ (call[v] # Idle /\ call'[v].op = call[v].op /\ call'[v].h = call[v].h)
      BY DEF Steps
    <2>3. Compatible(call[u].op, call[u].h, call[v])
      BY <2>1 DEF IInv, CallsUnderWay
    <2>4. Compatible(call'[u].op, call'[u].h, call'[v])
      BY <2>1, <2>2, <2>3 DEF Compatible
    <2> QED
      BY <2>4, SameUses
  <1>2. NoDanglingUse'
    <2> SUFFICES ASSUME NEW u \in Threads, call'[u] # Idle
                 PROVE  (Uses(call[u].op, call[u].h) \subseteq alive)'
      BY DEF NoDanglingUse
    <2>1. call[u] # Idle /\ call'[u].op = call[u].op /\ call'[u].h = call[u].h
      BY DEF Steps
    <2> QED
      BY <2>1, SameUses DEF IInv, NoDanglingUse
  <1> QED
    BY <1>1, <1>2

\* A call takes the mutex.
LEMMA LockKeepsIInv ==
    ASSUME IInv, NEW t \in Threads, Lock(t)
    PROVE  IInv'
  <1>1. call' = [call EXCEPT ![t].at = "inside"] /\ call[t] # Idle /\ call[t].at = "enter"
        /\ call[t].op \notin EnvOps \cup {"Cancel"}
    BY DEF Lock, Goto
  <1>2. TypeOK'
    BY <1>1, CallTypes DEF IInv, TypeOK, Lock, Calls
  <1>3. Steps(t)
    BY <1>1, CallTypes DEF IInv, TypeOK, Steps, Calls
  <1>4. Deleting' = Deleting
    BY <1>1, <1>3 DEF Deleting, At, Steps, IInv, TypeOK
  <1>5. ListsAreTheTree' /\ NoOrphans'
    BY <1>4 DEF IInv, ListsAreTheTree, NoOrphans, StmtsOf, Lock
  <1>6. NoDanglingUse'
    BY <1>3, StepsKeepCalls DEF Lock
  <1>7. CallsUnderWay'
    <2>1. \A u \in Threads : (At(u, "FreeConn", "unlink") \/ At(u, "FreeConn", "delete"))'
                               => u # t
      BY <1>1 DEF At, IInv, TypeOK
    <2>2. \A u \in Threads : (At(u, "FreeConn", "unlink") \/ At(u, "FreeConn", "delete"))'
                               => call[u].h \notin connected /\ call'[u] = call[u]
      BY <2>1, <1>3 DEF At, Steps, IInv, CallsUnderWay
    <2> QED
      BY <2>2, <1>3, StepsKeepCalls DEF CallsUnderWay, Lock
  <1> QED
    BY <1>2, <1>5, <1>6, <1>7 DEF IInv

\* The steps that give the mutex back or never had it and change no list: a call returns.
LEMMA ReturnKeepsIInv ==
    ASSUME IInv, NEW t \in Threads, call[t] # Idle, Return(t),
           call[t].op = "FreeConn" => call[t].at # "delete",
           alive' = alive, owner' = owner, stmts' = stmts, conns' = conns,
           mu' \in [Conns -> Threads \cup {Nobody}],
           connected' \in SUBSET (alive \cap Conns), connected \subseteq connected',
           \A u \in Threads \ {t} : At(u, "FreeConn", "unlink") \/ At(u, "FreeConn", "delete")
               => call[u].h \notin connected'
    PROVE  IInv'
  <1>1. TypeOK'
    BY DEF IInv, TypeOK, Return
  <1>2. Steps(t) /\ call'[t] = Idle
    BY DEF IInv, TypeOK, Return, Steps
  <1>3. Deleting' = Deleting
    BY <1>2 DEF Deleting, At, Steps
  <1>4. ListsAreTheTree' /\ NoOrphans'
    BY <1>3 DEF IInv, ListsAreTheTree, NoOrphans, StmtsOf
  <1>5. NoDanglingUse'
    BY <1>2, StepsKeepCalls
  <1>6. CallsUnderWay'
    <2>1. \A u \in Threads : (At(u, "FreeConn", "unlink") \/ At(u, "FreeConn", "delete"))'
                               => call[u].h \notin connected' /\ call'[u] = call[u]
      BY <1>2 DEF At, Steps
    <2> QED
      BY <2>1, <1>2, StepsKeepCalls DEF CallsUnderWay
  <1> QED
    BY <1>1, <1>4, <1>5, <1>6 DEF IInv

\* The two steps in which the freeing of a connection goes on.
LEMMA FreeConnKeepsIInv ==
    ASSUME IInv, NEW t \in Threads, FreeConn(t)
    PROVE  IInv'
  <1>1. call' = [call EXCEPT ![t].at = "unlink"] /\ At(t, "FreeConn", "inside")
        /\ call[t].h \in Conns
    BY CallTypes DEF FreeConn, Goto, At, IInv, ConnOps
  <1>2. TypeOK'
    BY <1>1 DEF IInv, TypeOK, FreeConn, Unlock, ConnOf, At, Calls
  <1>3. Steps(t)
    BY <1>1, <1>2 DEF IInv, TypeOK, Steps, Calls, At
  <1>4. Deleting' = Deleting
    BY <1>1, <1>3 DEF Deleting, At, Steps, IInv, TypeOK
  <1>5. ListsAreTheTree' /\ NoOrphans'
    BY <1>4 DEF IInv, ListsAreTheTree, NoOrphans, StmtsOf, FreeConn
  <1>6. NoDanglingUse'
    BY <1>3, StepsKeepCalls DEF FreeConn
  <1>7. CallsUnderWay'
    <2>1. call[t].h \notin connected /\ call'[t].h = call[t].h
      BY <1>1 DEF FreeConn, IInv, TypeOK
    <2>2. \A u \in Threads \ {t} :
            (At(u, "FreeConn", "unlink") \/ At(u, "FreeConn", "delete"))'
               => call[u].h \notin connected /\ call'[u] = call[u]
      BY <1>3 DEF At, Steps, IInv, CallsUnderWay
    <2> QED
      BY <2>1, <2>2, <1>3, StepsKeepCalls DEF CallsUnderWay, FreeConn
  <1> QED
    BY <1>2, <1>5, <1>6, <1>7 DEF IInv

\* Between the two locks the connection leaves the environment's list and is not deleted yet.
LEMMA UnlinkKeepsIInv ==
    ASSUME IInv, NEW t \in Threads, FreeConnUnlink(t)
    PROVE  IInv'
  <1>1. call' = [call EXCEPT ![t].at = "delete"] /\ At(t, "FreeConn", "unlink")
        /\ call[t].h \in Conns
    BY CallTypes DEF FreeConnUnlink, Goto, At, IInv, ConnOps
  <1>2. TypeOK'
    <2>1. call[t] \in Calls /\ call[t].op = "FreeConn" /\ call[t].at = "unlink"
      BY <1>1 DEF IInv, TypeOK, At
    <2>2. [call[t] EXCEPT !.at = "delete"] \in Calls
      BY <2>1 DEF Calls
    <2>3. call' \in [Threads -> Calls \cup {Idle}]
      BY <2>2, <1>1 DEF IInv, TypeOK
    <2> QED
      BY <2>3 DEF IInv, TypeOK, FreeConnUnlink
  <1>3. Steps(t)
    BY <1>1, <1>2 DEF IInv, TypeOK, Steps, Calls, At
  <1>4. At(t, "FreeConn", "delete")' /\ call'[t].h = call[t].h
    <2>1. call[t] \in Calls /\ call[t].op = "FreeConn" /\ call'[t] = [call[t] EXCEPT !.at = "delete"]
      BY <1>1 DEF IInv, TypeOK, At
    <2>2. call'[t].op = "FreeConn" /\ call'[t].at = "delete" /\ call'[t].h = call[t].h
      BY <2>1 DEF Calls
    <2>3. call'[t] # Idle
      <3>1. call[t].at = "unlink"
        BY <1>1 DEF At
      <3>2. call'[t] \in Calls
        BY <2>1, <3>1 DEF Calls
      <3> QED
        BY <3>2, HandleConstants
    <2> QED
      BY <2>2, <2>3 DEF At
  <1>5. Deleting' = Deleting \cup {call[t].h}
    BY <1>1, <1>3, <1>4 DEF Deleting, At, Steps
  <1>6. ListsAreTheTree' /\ NoOrphans'
    BY <1>5 DEF IInv, ListsAreTheTree, NoOrphans, StmtsOf, FreeConnUnlink
  <1>7. NoDanglingUse'
    BY <1>3, StepsKeepCalls DEF FreeConnUnlink
  <1>8. CallsUnderWay'
    <2>1. call[t].h \notin connected
      BY <1>1 DEF IInv, CallsUnderWay
    <2>2. \A u \in Threads \ {t} :
            (At(u, "FreeConn", "unlink") \/ At(u, "FreeConn", "delete"))'
               => call[u].h \notin connected /\ call'[u] = call[u]
      BY <1>3 DEF At, Steps, IInv, CallsUnderWay
    <2> QED
      BY <2>1, <2>2, <1>3, <1>4, StepsKeepCalls DEF CallsUnderWay, FreeConnUnlink
  <1> QED
    BY <1>2, <1>6, <1>7, <1>8 DEF IInv

\* A call that deletes what it was granted returns: nobody else uses it.
LEMMA DeletionKeepsCalls ==
    ASSUME IInv, NEW t \in Threads, call[t] # Idle, Return(t),
           NEW D, D \subseteq Destroys(call[t].op, call[t].h),
           alive' = alive \ D, owner' = owner, connected' \subseteq connected
    PROVE  CallsUnderWay' /\ NoDanglingUse'
  <1>1. \A u \in Threads : u # t => call'[u] = call[u]
    BY DEF Return, IInv, TypeOK
  <1>2. call'[t] = Idle
    BY DEF Return, IInv, TypeOK
  <1>3. \A op, h : Uses(op, h)' = Uses(op, h)
    BY DEF Uses
  <1>4. \A op, h : Destroys(op, h)' \subseteq Destroys(op, h)
    BY DEF Destroys, StmtsOf
  <1>5. CallsUnderWay'
    <2>1. ASSUME NEW u \in Threads, NEW v \in Threads, u # v, call'[u] # Idle
          PROVE  Compatible(call[u].op, call[u].h, call[v])'
      <3>1. u # t /\ call'[u] = call[u]
        BY <2>1, <1>1, <1>2
      <3>2. call'[v] = Idle \/ call'[v] = call[v]
        BY <1>1, <1>2
      <3>3. Compatible(call[u].op, call[u].h, call[v])
        BY <2>1, <3>1 DEF IInv, CallsUnderWay
      <3> QED
        BY <3>1, <3>2, <3>3, <1>3, <1>4 DEF Compatible
    <2>2. ASSUME NEW u \in Threads, (At(u, "FreeConn", "unlink") \/ At(u, "FreeConn", "delete"))'
          PROVE  call'[u].h \notin connected'
      BY <2>2, <1>1, <1>2 DEF At, IInv, CallsUnderWay
    <2> QED
      BY <2>1, <2>2 DEF CallsUnderWay
  <1>6. NoDanglingUse'
    <2> SUFFICES ASSUME NEW u \in Threads, call'[u] # Idle
                 PROVE  (Uses(call[u].op, call[u].h) \subseteq alive)'
      BY DEF NoDanglingUse
    <2>1. u # t /\ call'[u] = call[u]
      BY <1>1, <1>2
    <2>2. Compatible(call[t].op, call[t].h, call[u])
      BY <2>1 DEF IInv, CallsUnderWay
    <2>3. Uses(call[u].op, call[u].h) \subseteq alive \ D
      BY <2>1, <2>2 DEF IInv, NoDanglingUse, Compatible
    <2> QED
      BY <2>1, <2>3, <1>3
  <1> QED
    BY <1>5, <1>6

\* An object that did not exist is in nobody's use.
LEMMA CreationKeepsCalls ==
    ASSUME IInv, NEW x, x \notin alive, alive' = alive \cup {x},
           \A s \in Stmts \ {x} : owner'[s] = owner[s],
           \A u \in Threads : call'[u] = Idle \/ call'[u] = call[u],
           connected' \subseteq connected
    PROVE  CallsUnderWay' /\ NoDanglingUse'
  <1>1. ASSUME NEW u \in Threads, call[u] # Idle
        PROVE  /\ Uses(call[u].op, call[u].h) \subseteq alive
               /\ Uses(call[u].op, call[u].h)' = Uses(call[u].op, call[u].h)
                    \/ call'[u] # call[u]
               /\ Destroys(call[u].op, call[u].h)' \subseteq Destroys(call[u].op, call[u].h) \cup {x}
                    \/ call'[u] # call[u]
    <2>1. Uses(call[u].op, call[u].h) \subseteq alive
      BY <1>1 DEF IInv, NoDanglingUse
    <2>2. call[u].h \in alive /\ call[u].h # x
      BY <2>1 DEF Uses
    <2>3. call[u].op \in {"FreeStmt", "UseStmt"} => call[u].h \in Stmts \ {x}
      BY <1>1, <2>2, CallTypes DEF IInv, StmtOps
    <2>4. Uses(call[u].op, call[u].h)' = Uses(call[u].op, call[u].h) \/ call'[u] # call[u]
      BY <2>3 DEF Uses
    <2>5. \A c : StmtsOf(c)' \subseteq StmtsOf(c) \cup {x}
      BY DEF StmtsOf
    <2> QED
      BY <2>1, <2>4, <2>5 DEF Destroys
  <1>2. CallsUnderWay'
    <2>1. ASSUME NEW u \in Threads, NEW v \in Threads, u # v, call'[u] # Idle, call'[v] # Idle
          PROVE  Compatible(call[u].op, call[u].h, call[v])'
      <3>1. call'[u] = call[u] /\ call'[v] = call[v]
        BY <2>1
      <3>2. Compatible(call[u].op, call[u].h, call[v])
        BY <2>1, <3>1 DEF IInv, CallsUnderWay
      <3> QED
        BY <2>1, <3>1, <3>2, <1>1 DEF Compatible
    <2>2. ASSUME NEW u \in Threads, (At(u, "FreeConn", "unlink") \/ At(u, "FreeConn", "delete"))'
          PROVE  call'[u].h \notin connected'
      BY <2>2 DEF At, IInv, CallsUnderWay
    <2> QED
      BY <2>1, <2>2 DEF CallsUnderWay, Compatible
  <1>3. NoDanglingUse'
    BY <1>1 DEF NoDanglingUse
  <1> QED
    BY <1>2, <1>3

\* The connection that is deleted has no statements left and is on no list.
LEMMA FreeConnDeleteKeepsIInv ==
    ASSUME IInv, NEW t \in Threads, FreeConnDelete(t)
    PROVE  IInv'
  <1> DEFINE c == call[t].h
  <1>1. At(t, "FreeConn", "delete") /\ call[t] # Idle /\ c \in Conns
    BY CallTypes DEF FreeConnDelete, At, IInv, ConnOps
  <1>2. c \notin connected /\ c \in alive
    BY <1>1 DEF IInv, CallsUnderWay, NoDanglingUse, Uses
  <1>3. CallsUnderWay' /\ NoDanglingUse'
    <2>1. {c} \subseteq Destroys(call[t].op, call[t].h)
      BY <1>1 DEF Destroys, At
    <2> QED
      BY <2>1, <1>1, DeletionKeepsCalls DEF FreeConnDelete
  <1>4. call' = [call EXCEPT ![t] = Idle]
    BY DEF FreeConnDelete, Return
  <1>5. TypeOK'
    BY <1>2, <1>4 DEF IInv, TypeOK, FreeConnDelete
  <1>6. Deleting' = Deleting \ {c}
    <2>1. \A u \in Threads : At(u, "FreeConn", "delete") /\ call[u].h = c => u = t
      <3> SUFFICES ASSUME NEW u \in Threads, At(u, "FreeConn", "delete"), call[u].h = c, u # t
                   PROVE  FALSE
        OBVIOUS
      <3>1. Compatible(call[t].op, call[t].h, call[u])
        BY <1>1 DEF IInv, CallsUnderWay
      <3> QED
        BY <3>1, <1>1 DEF At, Compatible, Destroys, Uses
    <2> QED
      BY <2>1, <1>1, <1>4 DEF Deleting, At, IInv, TypeOK
  <1>7. c \in Deleting
    BY <1>1 DEF Deleting
  <1>8. c \notin Stmts /\ Env # c
    BY <1>1, HandleConstants
  <1>9. ListsAreTheTree'
    BY <1>6, <1>7, <1>8 DEF IInv, ListsAreTheTree, StmtsOf, FreeConnDelete
  <1>10. NoOrphans'
    BY <1>2, <1>8 DEF IInv, NoOrphans, FreeConnDelete
  <1> QED
    BY <1>3, <1>5, <1>9, <1>10 DEF IInv

\* An environment that begins has no connections: those of an earlier one are gone.
LEMMA AllocEnvKeepsIInv ==
    ASSUME IInv, AllocEnv
    PROVE  IInv'
  <1>1. alive \cap Conns = {} /\ conns = {}
    BY DEF IInv, NoOrphans, ListsAreTheTree, AllocEnv
  <1>2. TypeOK'
    BY DEF IInv, TypeOK, AllocEnv, Handles
  <1>3. CallsUnderWay' /\ NoDanglingUse'
    BY CreationKeepsCalls DEF AllocEnv, IInv
  <1>4. Deleting' = Deleting
    BY DEF Deleting, At, AllocEnv
  <1>5. ListsAreTheTree' /\ NoOrphans'
    BY <1>1, <1>4, HandleConstants DEF IInv, ListsAreTheTree, NoOrphans, StmtsOf, AllocEnv
  <1> QED
    BY <1>2, <1>3, <1>5 DEF IInv

\* An environment is deleted when it has no connections; one that is being deleted needs it.
LEMMA FreeEnvKeepsIInv ==
    ASSUME IInv, NEW t \in Threads, FreeEnv(t)
    PROVE  IInv'
  <1>1. At(t, "FreeEnv", "enter") /\ call[t] # Idle /\ call[t].op = "FreeEnv" /\ call[t].h = Env
    BY CallTypes DEF FreeEnv, At, IInv, EnvOps
  <1>2. CASE conns # {}
    BY <1>1, <1>2, ReturnKeepsIInv DEF FreeEnv, At, IInv, TypeOK, CallsUnderWay
  <1>3. CASE conns = {}
    <2>1. alive' = alive \ {Env} /\ UNCHANGED <<connected, conns, stmts, owner, mu>> /\ Return(t)
      BY <1>3 DEF FreeEnv
    <2>2. CallsUnderWay' /\ NoDanglingUse'
      <3>1. {Env} \subseteq Destroys(call[t].op, call[t].h)
        BY <1>1 DEF Destroys
      <3> QED
        BY <3>1, <2>1, <1>1, DeletionKeepsCalls
    <2>3. \A u \in Threads : ~At(u, "FreeConn", "delete")
      <3> SUFFICES ASSUME NEW u \in Threads, At(u, "FreeConn", "delete")
                   PROVE  FALSE
        OBVIOUS
      <3>1. u # t
        BY <1>1 DEF At
      <3>2. Compatible(call[t].op, call[t].h, call[u])
        BY <1>1, <3>1 DEF IInv, CallsUnderWay
      <3> QED
        BY <3>2, <1>1 DEF Compatible, Destroys, Uses, At
    <2>4. alive \cap Conns = {}
      BY <1>3, <2>3 DEF IInv, ListsAreTheTree, Deleting
    <2>5. TypeOK'
      BY <2>1, HandleConstants DEF IInv, TypeOK, Return
    <2>6. Deleting' = {}
      BY <2>1, <2>3 DEF Deleting, At, Return, IInv, TypeOK
    <2>7. ListsAreTheTree' /\ NoOrphans'
      <3>1. alive \cap Stmts = {}
        BY <2>4 DEF IInv, NoOrphans, TypeOK
      <3>2. alive' \cap Stmts = {} /\ alive' \cap Conns = {} /\ conns' = {}
        BY <3>1, <2>1, <2>4, <1>3
      <3> QED
        BY <3>2, <2>6 DEF ListsAreTheTree, NoOrphans, StmtsOf
    <2> QED
      BY <2>2, <2>5, <2>7 DEF IInv
  <1> QED
    BY <1>2, <1>3

\* A connection that begins has no statements: none points to its address.
LEMMA AllocConnKeepsIInv ==
    ASSUME IInv, NEW t \in Threads, NEW c \in Conns, AllocConn(t, c)
    PROVE  IInv'
  <1>1. At(t, "AllocConn", "enter") /\ call[t] # Idle /\ call[t].op = "AllocConn" /\ call[t].h = Env
    BY CallTypes DEF AllocConn, At, IInv, EnvOps
  <1>2. Env \in alive
    BY <1>1 DEF IInv, NoDanglingUse, Uses
  <1>3. c \notin alive /\ c \notin connected /\ c \notin conns /\ c \notin Stmts /\ c # Env
    BY HandleConstants DEF AllocConn, IInv, TypeOK, ListsAreTheTree
  <1>4. call' = [call EXCEPT ![t] = Idle]
    BY DEF AllocConn, Return
  <1>5. TypeOK'
    BY <1>3, <1>4 DEF IInv, TypeOK, AllocConn, Handles
  <1>6. CallsUnderWay' /\ NoDanglingUse'
    <2>1. \A u \in Threads : call'[u] = Idle \/ call'[u] = call[u]
      BY <1>4 DEF IInv, TypeOK
    <2> QED
      BY <2>1, <1>3, CreationKeepsCalls DEF AllocConn
  <1>7. Deleting' = Deleting
    BY <1>1, <1>4 DEF Deleting, At, IInv, TypeOK
  <1>8. c \notin Deleting
    <2> SUFFICES ASSUME NEW u \in Threads, At(u, "FreeConn", "delete"), call[u].h = c
                 PROVE  FALSE
      BY DEF Deleting
    <2> QED
      BY <1>3 DEF At, IInv, NoDanglingUse, Uses
  <1>9. \A s \in alive \cap Stmts : owner[s] # c
    BY <1>3 DEF IInv, NoOrphans
  <1>10. ListsAreTheTree'
    BY <1>3, <1>7, <1>8, <1>9 DEF IInv, ListsAreTheTree, StmtsOf, AllocConn, TypeOK
  <1>11. NoOrphans'
    BY <1>2, <1>3, <1>9 DEF IInv, NoOrphans, AllocConn
  <1> QED
    BY <1>5, <1>6, <1>10, <1>11 DEF IInv

\* No connection that is opened is on its way to be deleted: nobody may free it now.
LEMMA ConnectKeepsIInv ==
    ASSUME IInv, NEW t \in Threads, Connect(t)
    PROVE  IInv'
  <1>1. At(t, "Connect", "inside") /\ call[t] # Idle /\ call[t].op = "Connect" /\ call[t].h \in Conns
    BY CallTypes DEF Connect, At, IInv, ConnOps
  <1>2. call[t].h \in alive
    BY <1>1 DEF IInv, NoDanglingUse, Uses
  <1>3. mu' \in [Conns -> Threads \cup {Nobody}]
    BY <1>1 DEF Connect, Unlock, IInv, TypeOK
  <1>4. \A u \in Threads \ {t} : At(u, "FreeConn", "unlink") \/ At(u, "FreeConn", "delete")
            => call[u].h \notin connected'
    <2> SUFFICES ASSUME NEW u \in Threads \ {t}, At(u, "FreeConn", "unlink") \/ At(u, "FreeConn", "delete")
                 PROVE  call[u].h \notin connected'
      OBVIOUS
    <2>1. Compatible(call[t].op, call[t].h, call[u]) /\ call[u].h \notin connected
      BY <1>1 DEF IInv, CallsUnderWay
    <2>2. call[u].h # call[t].h
      BY <2>1, <1>1 DEF Compatible, Destroys, Uses, At
    <2> QED
      BY <2>1, <2>2 DEF Connect
  <1>5. connected' \in SUBSET (alive \cap Conns) /\ connected \subseteq connected'
    BY <1>1, <1>2 DEF Connect, IInv, TypeOK
  <1> QED
    BY <1>1, <1>3, <1>4, <1>5, ReturnKeepsIInv DEF Connect

\* SQLDisconnect deletes the statements of the connection, all of them and no others.
LEMMA DisconnectKeepsIInv ==
    ASSUME IInv, NEW t \in Threads, Disconnect(t)
    PROVE  IInv'
  <1> DEFINE c == call[t].h
  <1>1. At(t, "Disconnect", "inside") /\ call[t] # Idle /\ call[t].op = "Disconnect" /\ c \in Conns
    BY CallTypes DEF Disconnect, At, IInv, ConnOps
  <1>2. c \in alive
    BY <1>1 DEF IInv, NoDanglingUse, Uses
  <1>3. stmts[c] = StmtsOf(c)
    BY <1>1, <1>2 DEF IInv, ListsAreTheTree
  <1>4. CallsUnderWay' /\ NoDanglingUse'
    <2>1. stmts[c] \subseteq Destroys(call[t].op, call[t].h)
      BY <1>1, <1>3 DEF Destroys
    <2> QED
      BY <2>1, <1>1, DeletionKeepsCalls DEF Disconnect
  <1>5. call' = [call EXCEPT ![t] = Idle]
    BY DEF Disconnect, Return
  <1>6. alive' \cap Conns = alive \cap Conns /\ (Env \in alive => Env \in alive')
    BY <1>3, HandleConstants DEF Disconnect, StmtsOf
  <1>7. TypeOK'
    BY <1>1, <1>5, <1>6 DEF IInv, TypeOK, Disconnect, Unlock, ConnOf
  <1>8. Deleting' = Deleting
    BY <1>1, <1>5 DEF Deleting, At, IInv, TypeOK
  <1>9. ListsAreTheTree'
    <2>1. alive' = alive \ StmtsOf(c) /\ owner' = owner /\ stmts' = [stmts EXCEPT ![c] = {}]
      BY <1>3 DEF Disconnect
    <2>2. \A d \in Conns : stmts'[d] = IF d = c THEN {} ELSE stmts[d]
      BY <2>1 DEF IInv, TypeOK
    <2>3. \A d \in Conns : StmtsOf(d)' = IF d = c THEN {} ELSE StmtsOf(d)
      BY <2>1 DEF StmtsOf
    <2>4. \A d \in alive \cap Conns : stmts[d] = StmtsOf(d)
      BY DEF IInv, ListsAreTheTree
    <2>5. \A d \in alive' \cap Conns : stmts'[d] = StmtsOf(d)'
      BY <2>2, <2>3, <2>4, <1>6
    <2>6. conns' = (alive' \cap Conns) \ Deleting'
      BY <1>6, <1>8 DEF IInv, ListsAreTheTree, Disconnect
    <2> QED
      BY <2>5, <2>6 DEF ListsAreTheTree
  <1>10. NoOrphans'
    BY <1>3, <1>6 DEF IInv, NoOrphans, Disconnect, StmtsOf, TypeOK
  <1> QED
    BY <1>4, <1>7, <1>9, <1>10 DEF IInv

\* A statement that begins is put on the list of the connection it points to.
LEMMA AllocStmtKeepsIInv ==
    ASSUME IInv, NEW t \in Threads, NEW s \in Stmts, AllocStmt(t, s)
    PROVE  IInv'
  <1> DEFINE c == call[t].h
  <1>1. At(t, "AllocStmt", "inside") /\ call[t] # Idle /\ call[t].op = "AllocStmt" /\ c \in Conns
    BY CallTypes DEF AllocStmt, At, IInv, ConnOps
  <1>2. c \in alive /\ c \in connected /\ s \notin alive /\ s \notin Conns
    BY <1>1, HandleConstants DEF AllocStmt, IInv, NoDanglingUse, Uses
  <1>3. owner' = [owner EXCEPT ![s] = c] /\ alive' = alive \cup {s}
    BY DEF AllocStmt
  <1>4. call' = [call EXCEPT ![t] = Idle]
    BY DEF AllocStmt, Return
  <1>5. CallsUnderWay' /\ NoDanglingUse'
    <2>1. \A u \in Threads : call'[u] = Idle \/ call'[u] = call[u]
      BY <1>4 DEF IInv, TypeOK
    <2>2. \A r \in Stmts \ {s} : owner'[r] = owner[r]
      BY <1>3 DEF IInv, TypeOK
    <2> QED
      BY <2>1, <2>2, <1>2, CreationKeepsCalls DEF AllocStmt
  <1>6. TypeOK'
    <2>1. stmts' \in [Conns -> SUBSET Stmts]
      BY <1>1 DEF IInv, TypeOK, AllocStmt
    <2>2. mu' \in [Conns -> Threads \cup {Nobody}] /\ call' \in [Threads -> Calls \cup {Idle}]
      BY <1>1, <1>4 DEF IInv, TypeOK, AllocStmt, Unlock
    <2>3. owner' \in [Stmts -> Conns]
      BY <1>1, <1>3 DEF IInv, TypeOK
    <2> QED
      BY <2>1, <2>2, <2>3, <1>3 DEF IInv, TypeOK, AllocStmt, Handles
  <1>7. Deleting' = Deleting
    BY <1>1, <1>4 DEF Deleting, At, IInv, TypeOK
  <1>8. alive' \cap Conns = alive \cap Conns
    BY <1>2, <1>3
  <1>9. ListsAreTheTree'
    <2>1. stmts' = [stmts EXCEPT ![c] = @ \cup {s}]
      BY DEF AllocStmt
    <2>2. \A d \in Conns : stmts'[d] = IF d = c THEN stmts[d] \cup {s} ELSE stmts[d]
      BY <2>1 DEF IInv, TypeOK
    <2>3. \A r \in Stmts : owner'[r] = IF r = s THEN c ELSE owner[r]
      BY <1>3 DEF IInv, TypeOK
    <2>4. \A d \in Conns : StmtsOf(d)' = IF d = c THEN StmtsOf(d) \cup {s} ELSE StmtsOf(d)
      BY <2>3, <1>2, <1>3 DEF StmtsOf
    <2>5. \A d \in alive \cap Conns : stmts[d] = StmtsOf(d)
      BY DEF IInv, ListsAreTheTree
    <2>6. \A d \in alive' \cap Conns : stmts'[d] = StmtsOf(d)'
      BY <2>2, <2>4, <2>5, <1>8
    <2>7. conns' = (alive' \cap Conns) \ Deleting'
      BY <1>7, <1>8 DEF IInv, ListsAreTheTree, AllocStmt
    <2> QED
      BY <2>6, <2>7 DEF ListsAreTheTree
  <1>10. NoOrphans'
    BY <1>2, <1>3, <1>8 DEF IInv, NoOrphans, AllocStmt, TypeOK
  <1> QED
    BY <1>5, <1>6, <1>9, <1>10 DEF IInv

\* A statement that is freed leaves the list of the connection it points to.
LEMMA FreeStmtKeepsIInv ==
    ASSUME IInv, NEW t \in Threads, FreeStmt(t)
    PROVE  IInv'
  <1> DEFINE s == call[t].h
  <1> DEFINE c == owner[s]
  <1>1. At(t, "FreeStmt", "inside") /\ call[t] # Idle /\ call[t].op = "FreeStmt" /\ s \in Stmts
    BY CallTypes DEF FreeStmt, At, IInv, StmtOps
  <1>2. s \in alive /\ c \in Conns /\ c \in alive /\ s \notin Conns /\ s # Env
    BY <1>1, HandleConstants DEF IInv, NoDanglingUse, Uses, TypeOK
  <1>3. alive' = alive \ {s} /\ owner' = owner /\ call' = [call EXCEPT ![t] = Idle]
    BY DEF FreeStmt, Return
  <1>4. CallsUnderWay' /\ NoDanglingUse'
    <2>1. {s} \subseteq Destroys(call[t].op, call[t].h)
      BY <1>1 DEF Destroys
    <2> QED
      BY <2>1, <1>1, DeletionKeepsCalls DEF FreeStmt
  <1>5. alive' \cap Conns = alive \cap Conns
    BY <1>2, <1>3
  <1>6. TypeOK'
    <2>1. stmts' \in [Conns -> SUBSET Stmts]
      BY <1>2 DEF IInv, TypeOK, FreeStmt
    <2>2. mu' \in [Conns -> Threads \cup {Nobody}] /\ call' \in [Threads -> Calls \cup {Idle}]
      BY <1>3 DEF IInv, TypeOK, FreeStmt, Unlock
    <2> QED
      BY <2>1, <2>2, <1>3, <1>5 DEF IInv, TypeOK, FreeStmt
  <1>7. Deleting' = Deleting
    BY <1>1, <1>3 DEF Deleting, At, IInv, TypeOK
  <1>8. ListsAreTheTree'
    <2>1. stmts' = [stmts EXCEPT ![c] = @ \ {s}]
      BY DEF FreeStmt
    <2>2. \A d \in Conns : stmts'[d] = IF d = c THEN stmts[d] \ {s} ELSE stmts[d]
      BY <2>1 DEF IInv, TypeOK
    <2>3. \A d \in Conns : StmtsOf(d)' = IF d = c THEN StmtsOf(d) \ {s} ELSE StmtsOf(d)
      BY <1>3 DEF StmtsOf
    <2>4. \A d \in alive \cap Conns : stmts[d] = StmtsOf(d)
      BY DEF IInv, ListsAreTheTree
    <2>5. \A d \in alive' \cap Conns : stmts'[d] = StmtsOf(d)'
      BY <2>2, <2>3, <2>4, <1>5
    <2>6. conns' = (alive' \cap Conns) \ Deleting'
      BY <1>5, <1>7 DEF IInv, ListsAreTheTree, FreeStmt
    <2> QED
      BY <2>5, <2>6 DEF ListsAreTheTree
  <1>9. NoOrphans'
    <2>1. \A r \in alive \cap Stmts : owner[r] \in alive' \cap connected'
      <3>1. \A r \in Stmts : owner[r] # s
        BY <1>2 DEF IInv, TypeOK
      <3> QED
        BY <3>1, <1>3 DEF IInv, NoOrphans, FreeStmt
    <2>2. alive' \cap Conns # {} => Env \in alive'
      BY <1>2, <1>3, <1>5 DEF IInv, NoOrphans
    <2>3. alive' \cap Stmts \subseteq alive \cap Stmts
      BY <1>3
    <2> QED
      BY <2>1, <2>2, <2>3, <1>3 DEF NoOrphans
  <1> QED
    BY <1>4, <1>6, <1>8, <1>9 DEF IInv

\* The calls that change nothing in the tree.
LEMMA QuietKeepsIInv ==
    ASSUME IInv, NEW t \in Threads, ReturnUnchanged(t) \/ AllocConnFails(t) \/ Cancel(t)
    PROVE  IInv'
  <1>1. call[t] # Idle /\ Return(t) /\ call[t].at # "delete"
    BY DEF ReturnUnchanged, AllocConnFails, Cancel, At
  <1>2. UNCHANGED <<alive, connected, conns, stmts, owner>>
    BY DEF ReturnUnchanged, AllocConnFails, Cancel
  <1>3. mu' \in [Conns -> Threads \cup {Nobody}]
    <2>1. mu' = mu \/ Unlock(t)
      BY DEF ReturnUnchanged, AllocConnFails, Cancel
    <2>2. CASE Unlock(t)
      <3> DEFINE c == ConnOf(call[t].h)
      <3>1. mu' = [mu EXCEPT ![c] = Nobody]
        BY <2>2 DEF Unlock
      <3> HIDE DEF c
      <3> QED
        BY <3>1 DEF IInv, TypeOK
    <2> QED
      BY <2>1, <2>2 DEF IInv, TypeOK
  <1>4. \A u \in Threads : At(u, "FreeConn", "unlink") \/ At(u, "FreeConn", "delete")
            => call[u].h \notin connected'
    BY <1>2 DEF IInv, CallsUnderWay
  <1> QED
    BY <1>1, <1>2, <1>3, <1>4, ReturnKeepsIInv DEF IInv, TypeOK

\* Nothing happens.
LEMMA StutterKeepsIInv ==
    ASSUME IInv, UNCHANGED vars
    PROVE  IInv'
  <1>1. UNCHANGED <<alive, connected, conns, stmts, owner, mu, call>>
    BY DEF vars
  <1>2. TypeOK' /\ NoOrphans'
    BY <1>1 DEF IInv, TypeOK, NoOrphans
  <1>3. Deleting' = Deleting
    BY <1>1 DEF Deleting, At
  <1>4. ListsAreTheTree'
    BY <1>1, <1>3 DEF IInv, ListsAreTheTree, StmtsOf
  <1>5. CallsUnderWay' /\ NoDanglingUse'
    BY <1>1, SameUses DEF IInv, CallsUnderWay, NoDanglingUse, At
  <1> QED
    BY <1>2, <1>4, <1>5 DEF IInv

\* Every step keeps the invariant.
LEMMA NextKeepsIInv == IInv /\ [Next]_vars => IInv'
  <1> SUFFICES ASSUME IInv, [Next]_vars PROVE IInv'
    OBVIOUS
  <1>1. CASE AllocEnv
    BY <1>1, AllocEnvKeepsIInv
  <1>2. ASSUME NEW t \in Threads, Begins(t) PROVE IInv'
    BY <1>2, BeginKeepsIInv DEF Begins
  <1>3. ASSUME NEW t \in Threads, Proceeds(t) PROVE IInv'
    <2>1. CASE Lock(t)
      BY <2>1, LockKeepsIInv
    <2>2. CASE ReturnUnchanged(t) \/ AllocConnFails(t) \/ Cancel(t)
      BY <2>2, QuietKeepsIInv
    <2>3. CASE FreeEnv(t)
      BY <2>3, FreeEnvKeepsIInv
    <2>4. CASE \E c \in Conns : AllocConn(t, c)
      BY <2>4, AllocConnKeepsIInv
    <2>5. CASE Connect(t)
      BY <2>5, ConnectKeepsIInv
    <2>6. CASE Disconnect(t)
      BY <2>6, DisconnectKeepsIInv
    <2>7. CASE FreeConn(t)
      BY <2>7, FreeConnKeepsIInv
    <2>8. CASE FreeConnUnlink(t)
      BY <2>8, UnlinkKeepsIInv
    <2>9. CASE FreeConnDelete(t)
      BY <2>9, FreeConnDeleteKeepsIInv
    <2>10. CASE \E s \in Stmts : AllocStmt(t, s)
      BY <2>10, AllocStmtKeepsIInv
    <2>11. CASE FreeStmt(t)
      BY <2>11, FreeStmtKeepsIInv
    <2> QED
      BY <1>3, <2>1, <2>2, <2>3, <2>4, <2>5, <2>6, <2>7, <2>8, <2>9, <2>10, <2>11 DEF Proceeds
  <1>4. CASE UNCHANGED vars
    BY <1>4, StutterKeepsIInv
  <1> QED
    BY <1>1, <1>2, <1>3, <1>4 DEF Next

\* IInv holds in every state: the handle tree and the calls under way agree, for any number of
\* threads, connections and statements.
THEOREM HandlesInvariant == Spec => []IInv
  <1> QED
    BY InitIInv, NextKeepsIInv, PTL DEF Spec

\* Every variable of the handle tree keeps its type.
THEOREM HandleTypes == Spec => []TypeOK
  <1>1. IInv => TypeOK
    BY DEF IInv
  <1> QED
    BY <1>1, HandlesInvariant, PTL

\* The lists that SQLDisconnect and SQLFreeHandle walk hold exactly the objects that exist.
THEOREM ListsFollowTheTree == Spec => []ListsAreTheTree
  <1>1. IInv => ListsAreTheTree
    BY DEF IInv
  <1> QED
    BY <1>1, HandlesInvariant, PTL

\* No statement outlives its connection, no connection its environment.
THEOREM NothingOutlivesItsOwner == Spec => []NoOrphans
  <1>1. IInv => NoOrphans
    BY DEF IInv
  <1> QED
    BY <1>1, HandlesInvariant, PTL

\* A call finds the objects it uses until it returns.
THEOREM CallsFindTheirObjects == Spec => []NoDanglingUse
  <1>1. IInv => NoDanglingUse
    BY DEF IInv
  <1> QED
    BY <1>1, HandlesInvariant, PTL
==============================================================================
