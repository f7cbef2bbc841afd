----------------------------- MODULE ServeCache -----------------------------
(***************************************************************************)
(* The host-resolution cache of the app hosts, packages/serving/src, and    *)
(* the drobek:app-changed announcements that keep it honest,               *)
(* packages/apps/src/events.ts.                                            *)
(*                                                                         *)
(* Every process answers an app's hosts (production, preview and one host   *)
(* per version number) from memory.  Any of them may change the app in     *)
(* Postgres; the one that did busts its own cache and then publishes to    *)
(* Redis, whose pub/sub forgets a message no connection is subscribed for. *)
(* A cache fill is two reads of Postgres and a store, with other requests, *)
(* changes and busts between any two of them.                              *)
(*                                                                         *)
(* The module follows one process.  The others reach it only through what  *)
(* they commit and publish, so their caches are left out and their changes *)
(* counted until they are published.                                       *)
(*                                                                         *)
(* One slug, whose app is created at most once: a slug is released only 30 *)
(* days after its app was deleted.  Locking stands for every change of the *)
(* app row a cached answer carries (visibility, frame ancestors, ...), and  *)
(* an expired entry for one the LRU evicted.  Custom hostnames have a cache *)
(* of the same shape, left out here.                                       *)
(***************************************************************************)
EXTENDS Integers, FiniteSets

CONSTANTS
    Loads,         \* cache fills under way at once
    MaxNumber,     \* bound: versions the app gets
    MaxChanges,    \* bound: changes of the app
    None

ASSUME BoundAssumption == MaxNumber \in Nat /\ MaxChanges \in Nat

Numbers == 1..MaxNumber
Prod    == <<"prod", 0>>
Preview == <<"preview", 0>>
Hosts   == {Prod, Preview} \cup {<<"version", n>> : n \in Numbers}
Any     == <<"*", 0>>              \* ANY_HOST: the slug has no app
Keys    == Hosts \cup {Any}

(* What a host answers: the app row's part of it and the version, 0 for none. *)
Values  == [app : {"none", "live", "locked"}, version : 0..MaxNumber]
NoApp   == [app |-> "none", version |-> 0]
Entries == [value : Values, raced : BOOLEAN]
Fills   == [host : Hosts, step : {"version", "store"}, value : Values, raced : BOOLEAN]

ASSUME NoneAssumption == None \notin Entries \cup Fills

VARIABLES
    status,       \* the app row: none yet, live, locked, or soft-deleted
    published,    \* published_version_id, 0 for null
    ok,           \* versions that exist and compiled
    changes,      \* number of changes so far, for the bound
    resolved,     \* the positive cache
    missing,      \* the negative cache
    fill,         \* fills under way
    toEmit,       \* changes this process committed and has not announced yet
    others,       \* other processes' changes they have not published yet
    inbox,        \* messages on their way to the subscriber connection
    sub,          \* that connection: down, ready, or subscribed ("on")
    \* history, which nothing reads: entries and fills also carry `raced`,
    \* that a bust came while they were loaded
    missed        \* a change of another process was not heard since the last bust

db    == <<status, published, ok, changes>>
cache == <<resolved, missing>>
feed  == <<toEmit, others, inbox, sub>>
vars  == <<db, cache, fill, feed, missed>>

TypeOK ==
    /\ status \in {"none", "live", "locked", "gone"}
    /\ published \in ok \cup {0}
    /\ ok \subseteq Numbers
    /\ changes \in 0..MaxChanges
    /\ resolved \in [Hosts -> Entries \cup {None}]
    /\ missing \in [Keys -> Entries \cup {None}]
    /\ fill \in [Loads -> Fills \cup {None}]
    /\ toEmit \in Nat /\ others \in Nat /\ inbox \in Nat
    /\ sub \in {"down", "ready", "on"}
    /\ missed \in BOOLEAN

NoHits   == [h \in Hosts |-> None]
NoMisses == [k \in Keys |-> None]

(* The process starts on the database as it finds it. *)
Init ==
    /\ status \in {"none", "live", "locked", "gone"}
    /\ ok \in SUBSET Numbers
    /\ published \in ok \cup {0}
    /\ status = "none" => ok = {}
    /\ status = "locked" => published = 0
    /\ changes = 0
    /\ resolved = NoHits /\ missing = NoMisses
    /\ fill = [l \in Loads |-> None]
    /\ toEmit = 0 /\ others = 0 /\ inbox = 0
    /\ sub = "down" /\ missed = FALSE

-----------------------------------------------------------------------------
(* The reads of resolveFromDb: the live app's row, then the newest of the   *)
(* versions the host may show, for a row that published version p.          *)

RowSeen == IF status \in {"live", "locked"} THEN status ELSE "none"

Candidates(h, p) ==
    CASE h = Prod    -> ok \cap {p}
      [] h = Preview -> ok
      [] OTHER       -> ok \cap {h[2]}

Newest(S) == CHOOSE n \in S \cup {0} : \A m \in S : m <= n

\* What key k answers by the database as it is now.
Truth(k) ==
    IF RowSeen = "none" THEN NoApp
    ELSE [app |-> RowSeen, version |-> Newest(Candidates(k, published))]

-----------------------------------------------------------------------------
(* Changes.  Each is one transaction, of this process (own) or another; the *)
(* process announces it later.                                              *)

Changed(own) ==
    /\ changes < MaxChanges
    /\ changes' = changes + 1
    /\ toEmit' = IF own THEN toEmit + 1 ELSE toEmit
    /\ others' = IF own THEN others ELSE others + 1
    /\ UNCHANGED <<cache, fill, inbox, sub, missed>>

CreateApp(own) ==
    /\ status = "none"
    /\ status' = "live"
    /\ Changed(own)
    /\ UNCHANGED <<published, ok>>

CreateVersion(own) ==
    /\ status = "live"
    /\ Newest(ok) + 1 \in Numbers
    /\ ok' = ok \cup {Newest(ok) + 1}
    /\ Changed(own)
    /\ UNCHANGED <<status, published>>

PublishVersion(own, n) ==
    /\ status = "live"
    /\ n \in ok
    /\ published' = n
    /\ Changed(own)
    /\ UNCHANGED <<status, ok>>

UnpublishApp(own) ==
    /\ status = "live"
    /\ published # 0
    /\ published' = 0
    /\ Changed(own)
    /\ UNCHANGED <<status, ok>>

TakedownApp(own) ==
    /\ status = "live"
    /\ status' = "locked"
    /\ published' = 0
    /\ Changed(own)
    /\ UNCHANGED ok

RestoreApp(own) ==
    /\ status = "locked"
    /\ status' = "live"
    /\ Changed(own)
    /\ UNCHANGED <<published, ok>>

\* The retention or a clean-up; AppVersions says which versions it spares.
Deletable(n) == n \in ok \ {published, Newest(ok)}

DeleteVersion(own, n) ==
    /\ status \in {"live", "locked"}
    /\ Deletable(n)
    /\ ok' = ok \ {n}
    /\ Changed(own)
    /\ UNCHANGED <<status, published>>

SoftDeleteApp(own) ==
    /\ status \in {"live", "locked"}
    /\ status' = "gone"
    /\ Changed(own)
    /\ UNCHANGED <<published, ok>>

-----------------------------------------------------------------------------
(* The caches.                                                              *)

Overtaken == [l \in Loads |-> IF fill[l] = None THEN None ELSE [fill[l] EXCEPT !.raced = TRUE]]

\* bust, and bustAll as far as this slug goes.  The fills under way go on.
BustKeepsMissesMutant ==
    /\ resolved' = NoHits
    /\ fill' = Overtaken
    /\ UNCHANGED missing
Bust ==
    /\ resolved' = NoHits /\ missing' = NoMisses
    /\ fill' = Overtaken

\* resolve, for a host neither cache knows, up to the read of the app row;
\* when there is no app, no version is read.
Resolve(h, l) ==
    /\ fill[l] = None
    /\ resolved[h] = None /\ missing[Any] = None /\ missing[h] = None
    /\ fill' = [fill EXCEPT ![l] =
                  [host |-> h, raced |-> FALSE,
                   step |-> IF RowSeen = "none" THEN "store" ELSE "version",
                   value |-> IF RowSeen = "none" THEN NoApp
                             ELSE [app |-> RowSeen, version |-> published]]]
    /\ UNCHANGED <<db, cache, feed, missed>>

\* Until then, the fill's version is the one the row named as published.
ReadVersion(l) ==
    /\ fill[l] # None /\ fill[l].step = "version"
    /\ fill' = [fill EXCEPT
                  ![l].step = "store",
                  ![l].value.version = Newest(Candidates(fill[l].host, fill[l].value.version))]
    /\ UNCHANGED <<db, cache, feed, missed>>

\* A miss that found no app forgets everything else about the slug.
StoreNoAppKeepsMutant(e) ==
    /\ missing' = [missing EXCEPT ![Any] = e]
    /\ UNCHANGED resolved
StoreNoApp(e) ==
    /\ resolved' = NoHits
    /\ missing' = [NoMisses EXCEPT ![Any] = e]

\* One that found the app forgets that there was none.
StoreApp(h, e) ==
    \/ /\ h \notin {Prod, Preview} /\ e.value.version = 0
       /\ missing' = [missing EXCEPT ![Any] = None, ![h] = e]
       /\ UNCHANGED resolved
    \/ /\ h \in {Prod, Preview} \/ e.value.version # 0
       /\ missing' = [missing EXCEPT ![Any] = None]
       /\ resolved' = [resolved EXCEPT ![h] = e]

Store(l) ==
    /\ fill[l] # None /\ fill[l].step = "store"
    /\ LET e == [value |-> fill[l].value, raced |-> fill[l].raced] IN
       \/ e.value.app = "none" /\ StoreNoApp(e)
       \/ e.value.app # "none" /\ StoreApp(fill[l].host, e)
    /\ fill' = [fill EXCEPT ![l] = None]
    /\ UNCHANGED <<db, feed, missed>>

\* A failed read, which answers 500.
FailFill(l) ==
    /\ fill[l] # None
    /\ fill' = [fill EXCEPT ![l] = None]
    /\ UNCHANGED <<db, cache, feed, missed>>

\* An entry's time is up (a hit does not prolong it), or the LRU evicts it.
ExpireMissOnlyMutant(k) ==
    /\ missing[k] # None
    /\ missing' = [missing EXCEPT ![k] = None]
    /\ UNCHANGED <<db, resolved, fill, feed, missed>>
Expire(k) ==
    /\ \/ /\ k \in Hosts /\ resolved[k] # None
          /\ resolved' = [resolved EXCEPT ![k] = None]
          /\ UNCHANGED missing
       \/ /\ missing[k] # None
          /\ missing' = [missing EXCEPT ![k] = None]
          /\ UNCHANGED resolved
    /\ UNCHANGED <<db, fill, feed, missed>>

-----------------------------------------------------------------------------
(* Announcements.  A message names only the slug, so messages are counted.  *)

\* A bust covers every change committed before it.
Heard == Bust /\ missed' = FALSE

\* notifyAppChanged: this process first.
EmitLocal ==
    /\ toEmit > 0
    /\ toEmit' = toEmit - 1
    /\ Heard
    /\ UNCHANGED <<db, others, inbox, sub>>

\* Its own message comes back from Redis some time later, or never.
Echo ==
    /\ sub = "on"
    /\ Heard
    /\ UNCHANGED <<db, feed>>

\* Redis hands a message to the connections subscribed now.
OtherPublishes ==
    /\ others > 0
    /\ others' = others - 1
    /\ \/ sub = "on" /\ inbox' = inbox + 1 /\ UNCHANGED missed
       \/ sub # "on" /\ missed' = TRUE /\ UNCHANGED inbox
    /\ UNCHANGED <<db, cache, fill, toEmit, sub>>

\* Another process's publish failed, or it stopped before it announced.
OtherNeverPublishes ==
    /\ others > 0
    /\ others' = others - 1
    /\ missed' = TRUE
    /\ UNCHANGED <<db, cache, fill, toEmit, inbox, sub>>

\* The subscriber relays a message into the process's own emitter.
Deliver ==
    /\ inbox > 0
    /\ inbox' = inbox - 1
    /\ Heard
    /\ UNCHANGED <<db, toEmit, others, sub>>

Disconnect ==
    /\ sub # "down"
    /\ sub' = "down"
    /\ inbox' = 0
    /\ missed' = (missed \/ inbox > 0)
    /\ UNCHANGED <<db, cache, fill, toEmit, others>>

\* The connection is up: bustAll.  Its SUBSCRIBE reaches Redis after that, or
\* never, when it failed while the process started.
Ready ==
    /\ sub = "down"
    /\ sub' = "ready"
    /\ Heard
    /\ UNCHANGED <<db, toEmit, others, inbox>>

Subscribed ==
    /\ sub = "ready"
    /\ sub' = "on"
    /\ UNCHANGED <<db, cache, fill, toEmit, others, inbox, missed>>

\* The process restarts with empty caches.
Restart ==
    /\ resolved' = NoHits /\ missing' = NoMisses
    /\ fill' = [l \in Loads |-> None]
    /\ toEmit' = 0 /\ inbox' = 0
    /\ sub' = "down" /\ missed' = FALSE
    /\ UNCHANGED <<db, others>>

-----------------------------------------------------------------------------
Change(own) ==
    \/ CreateApp(own) \/ CreateVersion(own) \/ UnpublishApp(own) \/ TakedownApp(own)
    \/ RestoreApp(own) \/ SoftDeleteApp(own)
    \/ \E n \in Numbers : PublishVersion(own, n) \/ DeleteVersion(own, n)

Serve ==
    \/ \E h \in Hosts, l \in Loads : Resolve(h, l)
    \/ \E l \in Loads : ReadVersion(l) \/ Store(l) \/ FailFill(l)
    \/ \E k \in Keys : Expire(k)

Announce ==
    \/ EmitLocal \/ Echo \/ OtherPublishes \/ OtherNeverPublishes
    \/ Deliver \/ Disconnect \/ Ready \/ Subscribed \/ Restart

Next == (\E own \in BOOLEAN : Change(own)) \/ Serve \/ Announce

\* The TTL is all that is sure to happen: it ends every entry.
Spec == Init /\ [][Next]_vars /\ \A k \in Keys : WF_vars(Expire(k))

-----------------------------------------------------------------------------
(* Properties.                                                              *)

Cached(k) == ({missing[k]} \cup {resolved[h] : h \in Hosts \cap {k}}) \ {None}

\* Key k is answered by what the database no longer says.
Stale(k) == \E e \in Cached(k) : e.value # Truth(k)

\* A change has yet to be announced to this process, or passed it by.
Unheard == toEmit > 0 \/ others > 0 \/ inbox > 0 \/ missed

(* A process that has heard of every change answers by the database,        *)
(* whichever of its fills, misses and busts came in which order.  What is   *)
(* left is a fill that a bust overtook (store.server.ts keeps no generation *)
(* of the slug), a message still under way, and one it could not get.       *)
StaleHasCause ==
    \A k \in Keys : \A e \in Cached(k) : e.value # Truth(k) => e.raced \/ Unheard

(* knowsLiveHost takes any positive entry of the slug for a live app, and a  *)
(* "no such app" answers every host: the two are never there together, and  *)
(* what the positive cache holds is an app's answer.                        *)
KnownIsLive ==
    /\ \A h \in Hosts : resolved[h] # None => resolved[h].value.app # "none"
    /\ missing[Any] # None => \A h \in Hosts : resolved[h] = None /\ missing[h] = None

(* events.ts: "The cache also has a short TTL backstop, so a lost message    *)
(* only delays."  Once the app stops changing, the process comes to answer  *)
(* by the database for good, whatever was lost and however slow a fill was. *)
LostMessagesOnlyDelay == <>[](\A k \in Keys : ~Stale(k))
=============================================================================
