------------------------- MODULE MetadataCache_proofs -------------------------
(* Proofs about MetadataCache: who holds the mutex, what a call returns and when a *)
(* cache goes, for every number of connections, caches and objects and every set  *)
(* of times to live.                                                              *)
EXTENDS MetadataCache, TLAPS

\* Where a connection waits for Salesforce with the mutex in its hands.
Waiting == {"global", "describe"}

\* A cache's mutex is held by exactly the connection that waits for Salesforce with it.
MutexIsHeld ==
    /\ \A k \in Keys : mu[k] # Nobody => key[mu[k]] = k /\ pc[mu[k]] \in Waiting
    /\ \A c \in Conns : pc[c] \in Waiting => mu[key[c]] = c

\* The inductive invariant: the request under way is known by its mutex.
IInv == TypeOK /\ MutexIsHeld /\ UnusedCacheIsEmpty

------------------------------------------------------------------------------
\* The ages of a cache stay ages when a tick passes.
LEMMA OlderIsAge ==
    ASSUME NEW a \in Ages
    PROVE  Older(a) \in Ages /\ (a = Absent => Older(a) = Absent)
  BY CacheConstants DEF CacheConstants, Ages, Older, Absent

\* A new driver satisfies the invariant.
LEMMA InitEstablishesIInv == Init => IInv
  BY CacheConstants
     DEF CacheConstants, Init, IInv, TypeOK, Ages, Absent, NoEntries, MutexIsHeld, Waiting,
         UnusedCacheIsEmpty

\* A connection that takes a cache adds a user to it and leaves its entries alone.
LEMMA ConnectKeepsIInv ==
    ASSUME IInv, NEW c \in Conns, NEW k \in Keys, NEW t \in TTLs, Connect(c, k, t)
    PROVE  IInv'
  <1>. USE DEF IInv
  <1>1. TypeOK'
    BY CacheConstants DEF CacheConstants, TypeOK, Ages, Absent, NoEntries, Connect, Goto, callVars
  <1>2. MutexIsHeld'
    BY CacheConstants DEF CacheConstants, TypeOK, MutexIsHeld, Waiting, Connect, Goto, callVars
  <1>3. UnusedCacheIsEmpty'
    BY CacheConstants DEF CacheConstants, TypeOK, UnusedCacheIsEmpty, Users, Connect, Goto, callVars
  <1>. QED
    BY <1>1, <1>2, <1>3

\* The last user of a cache takes its entries with it; the mutex is not in its hands.
LEMMA DisconnectKeepsIInv ==
    ASSUME IInv, NEW c \in Conns, Disconnect(c)
    PROVE  IInv'
  <1>. USE DEF IInv
  <1>. DEFINE k == key[c]
  <1>0. k \in Keys /\ k # NoKey /\ c \in Users(k) /\ mu[k] # c
    BY CacheConstants DEF CacheConstants, TypeOK, MutexIsHeld, Waiting, Users, Disconnect
  <1>1. TypeOK'
    <2>1. CASE Users(k) = {c}
      <3>1. NoEntries \in [Objects -> Ages] /\ Absent \in Ages
        BY DEF NoEntries, Ages
      <3>2. /\ listed' = [listed EXCEPT ![k] = {}]
            /\ listed_age' = [listed_age EXCEPT ![k] = Absent]
            /\ entry_age' = [entry_age EXCEPT ![k] = NoEntries]
        BY <2>1 DEF Disconnect
      <3>3. /\ listed' \in [Keys -> SUBSET Objects]
            /\ listed_age' \in [Keys -> Ages]
            /\ entry_age' \in [Keys -> [Objects -> Ages]]
        BY <1>0, <3>1, <3>2 DEF TypeOK
      <3>4. /\ pc' \in [Conns -> {"off", "idle", "resolve", "global", "look", "describe"}]
            /\ key' \in [Conns -> Keys \cup {NoKey}]
            /\ \A d \in Conns : (key'[d] = NoKey) = (pc'[d] = "off")
        BY <1>0 DEF TypeOK, Disconnect, Goto
      <3>. QED
        BY <3>3, <3>4 DEF TypeOK, Disconnect, callVars
    <2>2. CASE Users(k) # {c}
      BY <1>0, <2>2 DEF TypeOK, Ages, Disconnect, Goto, callVars
    <2>. QED
      BY <2>1, <2>2
  <1>2. MutexIsHeld'
    BY CacheConstants DEF CacheConstants, TypeOK, MutexIsHeld, Waiting, Disconnect, Goto, callVars
  <1>3. UnusedCacheIsEmpty'
    <2>. SUFFICES ASSUME NEW j \in Keys, Users(j)' = {}
                  PROVE  (listed_age[j] = Absent /\ entry_age[j] = NoEntries /\ mu[j] = Nobody)'
      BY DEF UnusedCacheIsEmpty
    <2>1. CASE j # k
      <3>1. Users(j) = {}
        BY <2>1, CacheConstants DEF CacheConstants, TypeOK, Users, Disconnect
      <3>. QED
        BY <2>1, <3>1 DEF TypeOK, UnusedCacheIsEmpty, Disconnect
    <2>2. CASE j = k
      <3>1. Users(k) = {c}
        BY <1>0, <2>2 DEF TypeOK, Users, Disconnect
      <3>2. \A d \in Conns : d # c => key[d] # k
        BY <3>1 DEF Users
      <3>3. mu[k] = Nobody
        BY <1>0, <3>2 DEF TypeOK, MutexIsHeld
      <3>. QED
        BY <1>0, <2>2, <3>1, <3>3 DEF TypeOK, Disconnect
    <2>. QED
      BY <2>1, <2>2
  <1>. QED
    BY <1>1, <1>2, <1>3

\* A call that begins holds no mutex.
LEMMA AskKeepsIInv ==
    ASSUME IInv, NEW c \in Conns, NEW ns \in SUBSET Objects, Ask(c, ns)
    PROVE  IInv'
  <1>. USE DEF IInv
  <1>1. TypeOK'
    BY CacheConstants DEF CacheConstants, TypeOK, Ages, Absent, NoEntries, Ask, Goto, cacheVars
  <1>2. MutexIsHeld'
    BY CacheConstants DEF CacheConstants, TypeOK, MutexIsHeld, Waiting, Ask, Goto, cacheVars
  <1>3. UnusedCacheIsEmpty'
    BY CacheConstants DEF CacheConstants, TypeOK, UnusedCacheIsEmpty, Users, Ask, Goto, cacheVars
  <1>. QED
    BY <1>1, <1>2, <1>3

\* A name is resolved between taking and giving back the mutex.
LEMMA ResolveKeepsIInv ==
    ASSUME IInv, NEW c \in Conns, Resolve(c)
    PROVE  IInv'
  <1>. USE DEF IInv
  <1>0. /\ pc' \in {[pc EXCEPT ![c] = "look"], pc} /\ pc[c] = "resolve"
        /\ \E n \in names[c] :
             /\ names' = [names EXCEPT ![c] = names[c] \ {n}]
             /\ canonical' = [canonical EXCEPT ![c] = canonical[c] \cup ({n} \cap listed[key[c]])]
    BY DEF Resolve, Goto
  <1>1. TypeOK'
    <2>1. names' \in [Conns -> SUBSET Objects] /\ canonical' \in [Conns -> SUBSET Objects]
      BY <1>0 DEF TypeOK
    <2>2. /\ pc' \in [Conns -> {"off", "idle", "resolve", "global", "look", "describe"}]
          /\ \A d \in Conns : (key[d] = NoKey) = (pc'[d] = "off")
      BY <1>0 DEF TypeOK
    <2>. QED
      BY <2>1, <2>2 DEF TypeOK, Resolve, cacheVars
  <1>2. MutexIsHeld'
    <2>1. \A d \in Conns : (pc'[d] \in Waiting) = (pc[d] \in Waiting)
      BY <1>0 DEF TypeOK, Waiting
    <2>. QED
      BY <2>1 DEF TypeOK, MutexIsHeld, Resolve, cacheVars
  <1>3. UnusedCacheIsEmpty'
    BY CacheConstants DEF CacheConstants, TypeOK, UnusedCacheIsEmpty, Users, Resolve, Goto, cacheVars
  <1>. QED
    BY <1>1, <1>2, <1>3

\* The mutex is taken from nobody.
LEMMA AskGlobalKeepsIInv ==
    ASSUME IInv, NEW c \in Conns, AskGlobal(c)
    PROVE  IInv'
  <1>. USE DEF IInv
  <1>1. TypeOK'
    BY CacheConstants DEF CacheConstants, TypeOK, Ages, Absent, NoEntries, AskGlobal, Goto, callVars
  <1>2. MutexIsHeld'
    BY CacheConstants DEF CacheConstants, TypeOK, MutexIsHeld, Waiting, AskGlobal, Goto, callVars
  <1>3. UnusedCacheIsEmpty'
    BY CacheConstants DEF CacheConstants, TypeOK, UnusedCacheIsEmpty, Users, AskGlobal, Goto, callVars
  <1>. QED
    BY <1>1, <1>2, <1>3

\* The list is stored and the mutex given back by the connection that held it.
LEMMA GlobalAnsweredKeepsIInv ==
    ASSUME IInv, NEW c \in Conns, GlobalAnswered(c)
    PROVE  IInv'
  <1>. USE DEF IInv
  <1>1. TypeOK'
    BY CacheConstants DEF CacheConstants, TypeOK, Ages, Absent, NoEntries, GlobalAnswered, Goto, Unlock
  <1>2. MutexIsHeld'
    BY CacheConstants DEF CacheConstants, TypeOK, MutexIsHeld, Waiting, GlobalAnswered, Goto, Unlock
  <1>3. UnusedCacheIsEmpty'
    BY CacheConstants DEF CacheConstants, TypeOK, UnusedCacheIsEmpty, Users, GlobalAnswered, Goto, Unlock
  <1>. QED
    BY <1>1, <1>2, <1>3

\* An exception gives the mutex back and changes no entry.
LEMMA RequestFailsKeepsIInv ==
    ASSUME IInv, NEW c \in Conns, RequestFails(c)
    PROVE  IInv'
  <1>. USE DEF IInv
  <1>1. TypeOK'
    BY CacheConstants DEF CacheConstants, TypeOK, Ages, Absent, NoEntries, RequestFails, Leave, Goto, Unlock
  <1>2. MutexIsHeld'
    BY CacheConstants DEF CacheConstants, TypeOK, MutexIsHeld, Waiting, RequestFails, Leave, Goto, Unlock
  <1>3. UnusedCacheIsEmpty'
    BY CacheConstants DEF CacheConstants, TypeOK, UnusedCacheIsEmpty, Users, RequestFails, Leave, Goto, Unlock
  <1>. QED
    BY <1>1, <1>2, <1>3

\* A call that finds its entries returns them without a request.
LEMMA LookFoundKeepsIInv ==
    ASSUME IInv, NEW c \in Conns, LookFound(c)
    PROVE  IInv'
  <1>. USE DEF IInv
  <1>1. TypeOK'
    BY CacheConstants DEF CacheConstants, TypeOK, Ages, Absent, NoEntries, LookFound, Leave, Goto, cacheVars
  <1>2. MutexIsHeld'
    BY CacheConstants DEF CacheConstants, TypeOK, MutexIsHeld, Waiting, LookFound, Leave, Goto, cacheVars
  <1>3. UnusedCacheIsEmpty'
    BY CacheConstants DEF CacheConstants, TypeOK, UnusedCacheIsEmpty, Users, LookFound, Leave, Goto, cacheVars
  <1>. QED
    BY <1>1, <1>2, <1>3

\* A call that misses entries takes the free mutex.
LEMMA LookMissingKeepsIInv ==
    ASSUME IInv, NEW c \in Conns, LookMissing(c)
    PROVE  IInv'
  <1>. USE DEF IInv
  <1>1. TypeOK'
    BY CacheConstants DEF CacheConstants, TypeOK, Ages, Absent, NoEntries, LookMissing, Missing, Goto
  <1>2. MutexIsHeld'
    BY CacheConstants DEF CacheConstants, TypeOK, MutexIsHeld, Waiting, LookMissing, Missing, Goto
  <1>3. UnusedCacheIsEmpty'
    BY CacheConstants DEF CacheConstants, TypeOK, UnusedCacheIsEmpty, Users, LookMissing, Missing, Goto
  <1>. QED
    BY <1>1, <1>2, <1>3

\* The new entries are stored and the mutex given back.
LEMMA DescribeAnsweredKeepsIInv ==
    ASSUME IInv, NEW c \in Conns, NEW got \in SUBSET Objects, DescribeAnswered(c, got)
    PROVE  IInv'
  <1>. USE DEF IInv
  <1>1. TypeOK'
    BY CacheConstants DEF CacheConstants, TypeOK, Ages, Absent, NoEntries, DescribeAnswered, Leave, Goto, Unlock
  <1>2. MutexIsHeld'
    BY CacheConstants DEF CacheConstants, TypeOK, MutexIsHeld, Waiting, DescribeAnswered, Leave, Goto, Unlock
  <1>3. UnusedCacheIsEmpty'
    BY CacheConstants DEF CacheConstants, TypeOK, UnusedCacheIsEmpty, Users, DescribeAnswered, Leave, Goto, Unlock
  <1>. QED
    BY <1>1, <1>2, <1>3

\* Time passes: an entry that is not there stays away.
LEMMA TickKeepsIInv ==
    ASSUME IInv, Tick
    PROVE  IInv'
  <1>. USE DEF IInv
  <1>1. TypeOK'
    BY OlderIsAge DEF TypeOK, Tick, connVars, callVars
  <1>2. MutexIsHeld'
    BY DEF MutexIsHeld, Waiting, Tick, connVars
  <1>3. UnusedCacheIsEmpty'
    BY OlderIsAge DEF TypeOK, UnusedCacheIsEmpty, Users, NoEntries, Older, Tick, connVars
  <1>. QED
    BY <1>1, <1>2, <1>3

\* Every step keeps the invariant.
LEMMA NextKeepsIInv == IInv /\ [Next]_vars => IInv'
  <1>. SUFFICES ASSUME IInv, [Next]_vars PROVE IInv'
    OBVIOUS
  <1>1. CASE Tick
    BY <1>1, TickKeepsIInv
  <1>2. CASE \E o \in Objects : Change(o)
    BY <1>2 DEF IInv, TypeOK, MutexIsHeld, Waiting, UnusedCacheIsEmpty, Users, Change, cacheVars,
                connVars, callVars
  <1>3. CASE UNCHANGED vars
    BY <1>3 DEF IInv, TypeOK, MutexIsHeld, Waiting, UnusedCacheIsEmpty, Users, vars, cacheVars,
                connVars, callVars
  <1>4. ASSUME NEW c \in Conns,
               \/ \E k \in Keys, t \in TTLs : Connect(c, k, t)
               \/ Disconnect(c)
               \/ \E ns \in SUBSET Objects : Ask(c, ns)
               \/ Resolve(c) \/ AskGlobal(c) \/ LookFound(c) \/ LookMissing(c)
               \/ Answered(c)
        PROVE  IInv'
    BY <1>4, ConnectKeepsIInv, DisconnectKeepsIInv, AskKeepsIInv, ResolveKeepsIInv,
       AskGlobalKeepsIInv, LookFoundKeepsIInv, LookMissingKeepsIInv, GlobalAnsweredKeepsIInv,
       RequestFailsKeepsIInv, DescribeAnsweredKeepsIInv DEF Answered
  <1>. QED
    BY <1>1, <1>2, <1>3, <1>4 DEF Next

------------------------------------------------------------------------------
\* The invariant holds in every reachable state.
THEOREM CacheInvariant == Spec => []IInv
  <1>1. Init => IInv
    BY InitEstablishesIInv
  <1>2. IInv /\ [Next]_vars => IInv'
    BY NextKeepsIInv
  <1>. QED
    BY <1>1, <1>2, PTL DEF Spec

\* Every variable of the caches and their users keeps its type.
THEOREM TypeCorrect == Spec => []TypeOK
  BY CacheInvariant, PTL DEF IInv

\* A cache that no connection holds is empty and unlocked.
THEOREM CacheGoesWithItsUsers == Spec => []UnusedCacheIsEmpty
  BY CacheInvariant, PTL DEF IInv

\* Two connections never wait for Salesforce with the same cache: both would hold its mutex.
THEOREM OneRequestAtATime == Spec => []OneRequestPerCache
  <1>1. IInv => OneRequestPerCache
    BY DEF IInv, MutexIsHeld, Waiting, OneRequestPerCache
  <1>. QED
    BY <1>1, CacheInvariant, PTL

\* A call comes back from its second part without a request only with entries that are fresh
\* at that moment: only LookFound takes it from there to its return.
THEOREM ReturnsAreFresh == Spec => CacheReturnsFresh
  <1>. DEFINE Fresh == \A c \in Conns : pc[c] = "look" /\ pc'[c] = "idle" =>
                          \A o \in canonical[c] : fresh(key[c], entry_age[key[c]][o])
  <1>1. ASSUME IInv, Next PROVE Fresh
    <2>. SUFFICES ASSUME NEW c \in Conns, pc[c] = "look", pc'[c] = "idle"
                  PROVE  \A o \in canonical[c] : fresh(key[c], entry_age[key[c]][o])
      OBVIOUS
    <2>1. ~Tick /\ ~(\E o \in Objects : Change(o))
      BY DEF Tick, Change, connVars
    <2>2. ASSUME NEW d \in Conns PROVE ~Resolve(d) /\ ~GlobalAnswered(d) /\ ~Disconnect(d)
                                       /\ ~AskGlobal(d) /\ ~LookMissing(d)
      BY <1>1 DEF IInv, TypeOK, Resolve, GlobalAnswered, Disconnect, AskGlobal, LookMissing, Goto
    <2>3. ASSUME NEW d \in Conns, NEW ns \in SUBSET Objects PROVE ~Ask(d, ns)
      BY <1>1 DEF IInv, TypeOK, Ask, Goto
    <2>4. ASSUME NEW d \in Conns, NEW k \in Keys, NEW t \in TTLs PROVE ~Connect(d, k, t)
      BY <1>1 DEF IInv, TypeOK, Connect, Goto
    <2>5. ASSUME NEW d \in Conns PROVE ~RequestFails(d)
      BY <1>1 DEF IInv, TypeOK, RequestFails, Leave, Goto
    <2>6. ASSUME NEW d \in Conns, NEW got \in SUBSET Objects PROVE ~DescribeAnswered(d, got)
      BY <1>1 DEF IInv, TypeOK, DescribeAnswered, Leave, Goto
    <2>7. PICK d \in Conns : LookFound(d)
      BY <1>1, <2>1, <2>2, <2>3, <2>4, <2>5, <2>6 DEF Next, Answered
    <2>8. d = c
      BY <1>1, <2>7 DEF IInv, TypeOK, LookFound, Leave, Goto
    <2>. QED
      BY <2>7, <2>8 DEF LookFound, Missing
  <1>2. IInv /\ [Next]_vars => [Fresh]_vars
    BY <1>1
  <1>. QED
    BY <1>2, CacheInvariant, PTL DEF Spec, CacheReturnsFresh
==============================================================================
