---------------------------- MODULE MetadataCache ----------------------------
(***************************************************************************)
(* The object metadata that connections to the same org and user share     *)
(* (metadata.cpp), and the connections that use it.  A key stands for      *)
(* SalesforceClient::cache_key.                                            *)
(*                                                                         *)
(* Each connection runs one call at a time under its own mutex.  A call    *)
(* that needs metadata takes the cache's mutex mu_ and keeps it while it   *)
(* waits for Salesforce.  Where a connection is:                           *)
(*   "off"       not connected                                             *)
(*   "idle"      connected, no call under way                              *)
(*   "resolve"   objects_meta: to take mu_ and look up a name in objects   *)
(*   "global"    holds mu_, waits for describe_global                      *)
(*   "look"      objects_meta: to take mu_ for its second part             *)
(*   "describe"  holds mu_, waits for describe_many                        *)
(*                                                                         *)
(* Time is kept as the age of the list and of each entry, and an age stops *)
(* counting once it exceeds every time to live.                            *)
(***************************************************************************)
EXTENDS Integers, FiniteSets

CONSTANTS
    Conns,     \* connections
    Keys,      \* cache keys
    Objects,   \* objects an org may have
    Nobody,    \* mu_ is free
    NoKey,     \* the key of a connection that is not connected
    TTLs,      \* the values of MetadataCacheTTL in use
    MaxAge     \* bound: ages from here on are not told apart

ASSUME CacheConstants ==
    /\ Nobody \notin Conns /\ NoKey \notin Keys
    /\ MaxAge \in Nat /\ TTLs \subseteq 0 .. MaxAge
    /\ IsFiniteSet(Objects)

Absent == -1   \* the age of an entry or a list that is not there

VARIABLES
    org,         \* the objects Salesforce has
    ttl,         \* ttl_ of the cache of each key
    listed,      \* globals_
    listed_age,  \* the age of globals_at_, Absent while globals_loaded_ is false
    entry_age,   \* objects_: the age of each entry, Absent when there is none
    mu,          \* the connection that holds mu_
    pc,          \* where each connection is, see above
    key,         \* the cache each connection uses
    names,       \* names objects_meta has still to resolve
    canonical,   \* the ones it resolved
    missing      \* those it asks Salesforce to describe

cacheVars == <<ttl, listed, listed_age, entry_age, mu>>
connVars == <<pc, key>>
callVars == <<names, canonical, missing>>
vars == <<org, cacheVars, connVars, callVars>>

NoEntries == [o \in Objects |-> Absent]

\* MetadataCache::fresh
fresh(k, age) == age # Absent /\ age < ttl[k]

Users(k) == {c \in Conns : key[c] = k}

Goto(c, where) == pc' = [pc EXCEPT ![c] = where]

Unlock(k) == mu' = [mu EXCEPT ![k] = Nobody]

------------------------------------------------------------------------------
(* Connections *)

\* MetadataCache::shared: the cache lives while a connection holds it.  The newest
\* connection's time to live is set on it in either case, under the registry's mutex only.
Connect(c, k, t) ==
    /\ pc[c] = "off"
    /\ Goto(c, "idle")
    /\ key' = [key EXCEPT ![c] = k]
    /\ ttl' = [ttl EXCEPT ![k] = t]
    /\ UNCHANGED <<org, listed, listed_age, entry_age, mu, callVars>>

\* (mutant) The connection keeps its pointer to the cache.
Disconnect_keeps_meta(c) ==
    /\ pc[c] = "idle"
    /\ Goto(c, "off")
    /\ UNCHANGED <<org, cacheVars, key, callVars>>

\* SQLDisconnect: the last connection takes the cache with it (the registry's pointer is weak).
Disconnect(c) ==
    /\ pc[c] = "idle"
    /\ Goto(c, "off")
    /\ key' = [key EXCEPT ![c] = NoKey]
    /\ IF Users(key[c]) = {c}
         THEN /\ listed' = [listed EXCEPT ![key[c]] = {}]
              /\ listed_age' = [listed_age EXCEPT ![key[c]] = Absent]
              /\ entry_age' = [entry_age EXCEPT ![key[c]] = NoEntries]
         ELSE UNCHANGED <<listed, listed_age, entry_age>>
    /\ UNCHANGED <<org, ttl, mu, callVars>>

------------------------------------------------------------------------------
(* MetadataCache::objects_meta *)

\* A statement or a catalog function needs the objects of ns.
Ask(c, ns) ==
    /\ pc[c] = "idle"
    /\ ns # {}
    /\ Goto(c, "resolve")
    /\ names' = [names EXCEPT ![c] = ns]
    /\ canonical' = [canonical EXCEPT ![c] = {}]
    /\ UNCHANGED <<org, cacheVars, key, missing>>

\* resolve_object_name, the list of objects being fresh: a name that is not on it is dropped.
Resolve(c) ==
    /\ pc[c] = "resolve"
    /\ mu[key[c]] = Nobody
    /\ fresh(key[c], listed_age[key[c]])
    /\ \E n \in names[c] :
         /\ names' = [names EXCEPT ![c] = @ \ {n}]
         /\ canonical' = [canonical EXCEPT ![c] = @ \cup ({n} \cap listed[key[c]])]
         /\ IF names[c] = {n} THEN Goto(c, "look") ELSE UNCHANGED pc
    /\ UNCHANGED <<org, cacheVars, key, missing>>

\* ... and the list being old: describe_global, under the mutex.
AskGlobal(c) ==
    /\ pc[c] = "resolve"
    /\ mu[key[c]] = Nobody
    /\ ~fresh(key[c], listed_age[key[c]])
    /\ mu' = [mu EXCEPT ![key[c]] = c]
    /\ Goto(c, "global")
    /\ UNCHANGED <<org, ttl, listed, listed_age, entry_age, key, callVars>>

\* The new list answers for the name that asked for it, however old it is by now.
GlobalAnswered(c) ==
    /\ pc[c] = "global"
    /\ listed' = [listed EXCEPT ![key[c]] = org]
    /\ listed_age' = [listed_age EXCEPT ![key[c]] = 0]
    /\ Unlock(key[c])
    /\ \E n \in names[c] :
         /\ names' = [names EXCEPT ![c] = @ \ {n}]
         /\ canonical' = [canonical EXCEPT ![c] = @ \cup ({n} \cap org)]
         /\ Goto(c, IF names[c] = {n} THEN "look" ELSE "resolve")
    /\ UNCHANGED <<org, ttl, entry_age, key, missing>>

\* The call is over, by its return or by an exception.
Leave(c) ==
    /\ Goto(c, "idle")
    /\ names' = [names EXCEPT ![c] = {}]
    /\ canonical' = [canonical EXCEPT ![c] = {}]
    /\ missing' = [missing EXCEPT ![c] = {}]

\* (mutant) A request that fails leaves the mutex locked.
RequestFails_locked(c) ==
    /\ pc[c] \in {"global", "describe"}
    /\ Leave(c)
    /\ UNCHANGED <<org, cacheVars, key>>

\* An exception leaves the call, the lock guard releases mu_, the cache is as it was.
RequestFails(c) ==
    /\ pc[c] \in {"global", "describe"}
    /\ Unlock(key[c])
    /\ Leave(c)
    /\ UNCHANGED <<org, ttl, listed, listed_age, entry_age, key>>

\* (mutant) Every entry that is there is taken for good.
Missing_absent_only(c) == {o \in canonical[c] : entry_age[key[c]][o] = Absent}

\* The resolved objects with no fresh entry.
Missing(c) == {o \in canonical[c] : ~fresh(key[c], entry_age[key[c]][o])}

\* The second part of objects_meta, when it finds all it needs: it returns those entries.
LookFound(c) ==
    /\ pc[c] = "look"
    /\ mu[key[c]] = Nobody
    /\ Missing(c) = {}
    /\ Leave(c)
    /\ UNCHANGED <<org, cacheVars, key>>

\* (mutant) Asks without keeping the mutex.
LookMissing_unlocked(c) ==
    /\ pc[c] = "look"
    /\ mu[key[c]] = Nobody
    /\ Missing(c) # {}
    /\ missing' = [missing EXCEPT ![c] = Missing(c)]
    /\ Goto(c, "describe")
    /\ UNCHANGED <<org, cacheVars, key, names, canonical>>

\* ... and when it does not: describe_many, under the mutex.
LookMissing(c) ==
    /\ pc[c] = "look"
    /\ mu[key[c]] = Nobody
    /\ Missing(c) # {}
    /\ missing' = [missing EXCEPT ![c] = Missing(c)]
    /\ mu' = [mu EXCEPT ![key[c]] = c]
    /\ Goto(c, "describe")
    /\ UNCHANGED <<org, ttl, listed, listed_age, entry_age, key, names, canonical>>

\* The answer describes the objects of got.  A single object is described by a request of its
\* own, whose failure is RequestFails; in a batch a sub-request that fails is passed over, and
\* one for an object that is no longer there fails.  The call returns every entry that is there
\* now for its names.
DescribeAnswered(c, got) ==
    /\ pc[c] = "describe"
    /\ got \subseteq missing[c] \cap org
    /\ Cardinality(missing[c]) = 1 => got = missing[c]
    /\ entry_age' = [entry_age EXCEPT ![key[c]] =
                       [o \in Objects |-> IF o \in got THEN 0 ELSE @[o]]]
    /\ Unlock(key[c])
    /\ Leave(c)
    /\ UNCHANGED <<org, ttl, listed, listed_age, key>>

------------------------------------------------------------------------------
(* The world *)

Older(age) == IF age = Absent \/ age = MaxAge THEN age ELSE age + 1

Tick ==
    /\ listed_age' = [k \in Keys |-> Older(listed_age[k])]
    /\ entry_age' = [k \in Keys |-> [o \in Objects |-> Older(entry_age[k][o])]]
    /\ UNCHANGED <<org, ttl, listed, mu, connVars, callVars>>

\* An administrator creates or deletes objects.
Change(o) ==
    /\ org' = IF o \in org THEN org \ {o} ELSE org \cup {o}
    /\ UNCHANGED <<cacheVars, connVars, callVars>>

Init ==
    /\ org = Objects
    /\ ttl = [k \in Keys |-> 0]
    /\ listed = [k \in Keys |-> {}]
    /\ listed_age = [k \in Keys |-> Absent]
    /\ entry_age = [k \in Keys |-> NoEntries]
    /\ mu = [k \in Keys |-> Nobody]
    /\ pc = [c \in Conns |-> "off"]
    /\ key = [c \in Conns |-> NoKey]
    /\ names = [c \in Conns |-> {}]
    /\ canonical = [c \in Conns |-> {}]
    /\ missing = [c \in Conns |-> {}]

Answered(c) ==
    \/ GlobalAnswered(c)
    \/ \E got \in SUBSET Objects : DescribeAnswered(c, got)
    \/ RequestFails(c)

Next ==
    \/ \E c \in Conns :
         \/ \E k \in Keys, t \in TTLs : Connect(c, k, t)
         \/ Disconnect(c)
         \/ \E ns \in SUBSET Objects : Ask(c, ns)
         \/ Resolve(c) \/ AskGlobal(c) \/ LookFound(c) \/ LookMissing(c)
         \/ Answered(c)
    \/ Tick
    \/ \E o \in Objects : Change(o)

Spec == Init /\ [][Next]_vars

\* Salesforce answers, or the request times out.
FairSpec == Spec /\ \A c \in Conns : WF_vars(Answered(c))

------------------------------------------------------------------------------
(* Properties *)

Ages == {Absent} \cup 0 .. MaxAge

TypeOK ==
    /\ org \in SUBSET Objects
    /\ ttl \in [Keys -> 0 .. MaxAge]
    /\ listed \in [Keys -> SUBSET Objects]
    /\ listed_age \in [Keys -> Ages]
    /\ entry_age \in [Keys -> [Objects -> Ages]]
    /\ mu \in [Keys -> Conns \cup {Nobody}]
    /\ pc \in [Conns -> {"off", "idle", "resolve", "global", "look", "describe"}]
    /\ key \in [Conns -> Keys \cup {NoKey}]
    /\ \A c \in Conns : (key[c] = NoKey) = (pc[c] = "off")
    /\ names \in [Conns -> SUBSET Objects]
    /\ canonical \in [Conns -> SUBSET Objects]
    /\ missing \in [Conns -> SUBSET Objects]

\* Connections that share a cache never have Salesforce describe for two of them at a time,
\* so an object is not described twice because two connections missed it together.
OneRequestPerCache ==
    \A c, d \in Conns :
        c # d /\ key[c] = key[d] => ~(pc[c] \in {"global", "describe"} /\ pc[d] \in {"global", "describe"})

\* A call that finds all it needs in the cache returns nothing older than the cache's time to
\* live, whatever other connections did between the two parts of objects_meta.
CacheReturnsFresh ==
    [][\A c \in Conns : pc[c] = "look" /\ pc'[c] = "idle" =>
          \A o \in canonical[c] : fresh(key[c], entry_age[key[c]][o])]_vars

\* A cache without users is empty and unlocked: a connection opened later sees nothing that was
\* described before it, and a cache does not die under a call.
UnusedCacheIsEmpty ==
    \A k \in Keys : Users(k) = {} =>
        listed_age[k] = Absent /\ entry_age[k] = NoEntries /\ mu[k] = Nobody

\* The mutex of a cache does not stay with a connection: whoever waits for Salesforce under it
\* gets an answer or an error, and leaves it in either case.
MutexReleased == \A k \in Keys : mu[k] # Nobody ~> mu[k] = Nobody

\* README.md:139 gives MetadataCacheTTL as "Seconds to cache object metadata": what a call had
\* Salesforce describe because it was missing or expired is new when the call returns it.
DescribedIsFresh ==
    [][\A c \in Conns : pc[c] = "describe" /\ pc'[c] = "idle" /\ entry_age'[key[c]] # entry_age[key[c]] =>
          \A o \in missing[c] : entry_age'[key[c]][o] \in {Absent, 0}]_vars
==============================================================================
