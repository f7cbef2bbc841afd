---------------------------- MODULE CustomDomains ----------------------------
(* Custom domains: packages/domains/src/domains.server.ts (add, verify, make *)
(* primary, remove) and recheck.server.ts (the daily sweep).                 *)
(*                                                                           *)
(* A row claims a hostname for one app; it serves once a DNS look has found  *)
(* its two records. A verification reads its row, looks at the DNS for       *)
(* seconds, and writes by what it read; the sweep selects its rows, looks,   *)
(* and drops by a conditional update. Both run beside each other, beside the *)
(* members' requests, and beside deletions of the app. What every change     *)
(* owes the serving side is an announcement (it empties the cache of custom  *)
(* hosts and of the app), made by a call of its own after the commit.        *)
(* DNS is the world's: a look may find the records, their absence, or no     *)
(* answer, at any time.                                                      *)
EXTENDS FiniteSets, Integers

CONSTANTS
    Apps, Names,
    Ids,          \* ids of domain rows, never given twice
    Requests,     \* requests of members, and workers of the sweep
    MaxPerApp,    \* DOMAINS_MAX_PER_APP
    Nil

ASSUME DomainAssumption ==
    /\ MaxPerApp \in Nat
    /\ Nil \notin Apps \cup Names \cup Ids \cup Requests
    /\ Nil \notin [app : Apps, name : Names]

VARIABLES
    app,          \* "live", "deleted" (soft) or "purged"
    row,          \* the app and name of each row, also of one removed since
    rows,         \* the ids of the rows there are
    verified,     \* rows with a verified_at
    primary,      \* rows with is_primary
    lock,         \* who holds the row of the app FOR UPDATE
    pc, of,       \* each request's next call, and its app
    arg,          \* the row it is about (the name, for an add)
    seen,         \* was that row verified when the request read it?
    unheard       \* history: the names and apps whose lookups lost an answer
                  \* by a change that is not announced yet

tables == <<app, row, rows, verified, primary, lock>>
requests == <<pc, of, arg, seen>>
domainVars == <<tables, requests, unheard>>

Of(a) == {d \in rows : row[d].app = a}
Live(d) == app[row[d].app] = "live"

(* lookup.server.ts: the apps a custom host is answered with, and where the  *)
(* app's own host redirects to.                                              *)
ServedBy(n) == {row[d].app : d \in {e \in verified : row[e].name = n /\ Live(e)}}
RedirectsTo(a) ==
    {row[d].name : d \in {e \in primary \cap verified : row[e].app = a /\ Live(e)}}

(* verifiedByAnotherApp                                                      *)
Holders(a, n) ==
    {d \in verified : row[d].name = n /\ row[d].app # a /\ Live(d)}

(* releaseFromDeletedApps                                                    *)
HeldByDeletedMutant(n) == {}
HeldByDeleted(n) == {d \in verified : row[d].name = n /\ ~Live(d)}

(* domains_verified_hostname_uq: the other rows that would break it.         *)
ConflictsMutant(d, kept) == {}
Conflicts(d, kept) == {e \in kept \ {d} : row[e].name = row[d].name}

-----------------------------------------------------------------------------
Goto(p, l, a, x, s) ==
    /\ pc' = [pc EXCEPT ![p] = l]
    /\ of' = [of EXCEPT ![p] = a]
    /\ arg' = [arg EXCEPT ![p] = x]
    /\ seen' = [seen EXCEPT ![p] = s]

Ends(p) == Goto(p, "idle", Nil, Nil, FALSE)
Announces(p) == Goto(p, "announce", of[p], Nil, FALSE)

(* What a committed change takes from the lookups.                           *)
Tracks ==
    unheard' = unheard
        \cup {n \in Names : ~(ServedBy(n) \subseteq ServedBy(n)')}
        \cup {a \in Apps : ~(RedirectsTo(a) \subseteq RedirectsTo(a)')}

(* An announcement of app a: every custom host, and what is cached of a.     *)
AnnouncedBy(a) == Names \cup {a}

-----------------------------------------------------------------------------
Taken(p, a, n) == Goto(p, "taken", a, n, FALSE)

AppFreeMutant(a) == TRUE
AppFree(a) == lock[a] = Nil

(* addDomain: the transaction locks the row of the app, then counts. The     *)
(* member was let in while the app was live; it may be deleted since.        *)
AddDomain(p, a, n) ==
    /\ pc[p] = "idle" /\ app[a] # "purged" /\ AppFree(a)
    /\ \A d \in Of(a) : row[d].name # n
    /\ \/ /\ Holders(a, n) # {}
          /\ Taken(p, a, n)
          /\ UNCHANGED <<tables, unheard>>
       \/ /\ Holders(a, n) = {}
          /\ Cardinality(Of(a)) < MaxPerApp
          /\ lock' = [lock EXCEPT ![a] = p]
          /\ Goto(p, "insert", a, n, FALSE)
          /\ UNCHANGED <<app, row, rows, verified, primary, unheard>>

InsertDomain(p) ==
    /\ pc[p] = "insert"
    /\ \E d \in {e \in Ids : row[e] = Nil} :
        /\ row' = [row EXCEPT ![d] = [app |-> of[p], name |-> arg[p]]]
        /\ rows' = rows \cup {d}
    /\ lock' = [lock EXCEPT ![of[p]] = Nil]
    /\ Announces(p)
    /\ UNCHANGED <<app, verified, primary, unheard>>

(* loadRow, before the request awaits the DNS or its own delete.             *)
LoadsRow(p, d, l) ==
    /\ pc[p] = "idle" /\ d \in rows /\ Live(d)
    /\ Goto(p, l, row[d].app, d, d \in verified)
    /\ UNCHANGED <<tables, unheard>>

VerifyDomain(p, d) == LoadsRow(p, d, "verify")
RemoveDomain(p, d) == LoadsRow(p, d, "remove")

(* The records are there: first the question who else has the name.          *)
LookFinds(p) ==
    /\ pc[p] = "verify"
    /\ LET d == arg[p] IN
        IF Holders(of[p], row[d].name) # {}
            THEN Taken(p, of[p], row[d].name)
            ELSE Goto(p, "store", of[p], d, seen[p])
    /\ UNCHANGED <<tables, unheard>>

(* Then deleted apps are relieved of it and the row is verified, unless the  *)
(* index says another app was faster. A row removed meanwhile takes nothing. *)
(* Only a row read unverified is audited and announced.                      *)
StoreVerified(p) ==
    /\ pc[p] = "store"
    /\ LET d == arg[p]
           freed == HeldByDeleted(row[d].name)
           kept == verified \ freed IN
       \/ /\ d \in rows /\ Conflicts(d, kept) # {}
          /\ Taken(p, of[p], row[d].name)
          /\ UNCHANGED <<tables, unheard>>
       \/ /\ d \in rows => Conflicts(d, kept) = {}
          /\ verified' = kept \cup ({d} \cap rows)
          /\ primary' = primary \ freed
          /\ IF seen[p] THEN Ends(p) ELSE Announces(p)
          /\ UNCHANGED <<app, row, rows, lock>>
          /\ Tracks

DropHeardMutant(p) == FALSE
DropHeard(p) == seen[p]

(* The records are gone: a row read verified loses its verification; one     *)
(* read unverified keeps its state and gets the reason.                      *)
LookMisses(p) ==
    /\ pc[p] = "verify"
    /\ LET dropped == IF seen[p] THEN {arg[p]} ELSE {} IN
        /\ verified' = verified \ dropped
        /\ primary' = primary \ dropped
    /\ IF DropHeard(p) THEN Announces(p) ELSE Ends(p)
    /\ UNCHANGED <<app, row, rows, lock>>
    /\ Tracks

(* No answer changes nothing, here and in the sweep.                         *)
LookFails(p) ==
    /\ pc[p] \in {"verify", "sweep"}
    /\ Ends(p)
    /\ UNCHANGED <<tables, unheard>>

(* recheckDueDomains: the select, long before the worker's own look.         *)
SweepSelects(p, d) == d \in verified /\ LoadsRow(p, d, "sweep")

(* A definitive failure: dropped where it is still verified; only the worker *)
(* whose update dropped it audits, announces and writes to the owners.       *)
SweepDrops(p) ==
    /\ pc[p] = "sweep"
    /\ verified' = verified \ {arg[p]}
    /\ primary' = IF arg[p] \in verified THEN primary \ {arg[p]} ELSE primary
    /\ IF arg[p] \in verified THEN Announces(p) ELSE Ends(p)
    /\ UNCHANGED <<app, row, rows, lock>>
    /\ Tracks

(* setPrimaryDomain: the transaction reads the row without a lock ...        *)
ChoosePrimary(p, d) == d \in verified /\ LoadsRow(p, d, "primary")

(* ... and then takes the mark from the app's other row and gives it to this *)
(* one, whatever became of it.                                               *)
SetPrimary(p) ==
    /\ pc[p] = "primary"
    /\ primary' = (primary \ Of(of[p])) \cup ({arg[p]} \cap rows)
    /\ Announces(p)
    /\ UNCHANGED <<app, row, rows, verified, lock>>
    /\ Tracks

ClearPrimary(p, a) ==
    /\ pc[p] = "idle" /\ app[a] = "live"
    /\ primary' = primary \ Of(a)
    /\ Goto(p, "announce", a, Nil, FALSE)
    /\ UNCHANGED <<app, row, rows, verified, lock>>
    /\ Tracks

Without(ds) ==
    /\ rows' = rows \ ds
    /\ verified' = verified \ ds
    /\ primary' = primary \ ds

DeleteRow(p) ==
    /\ pc[p] = "remove"
    /\ Without({arg[p]})
    /\ Announces(p)
    /\ UNCHANGED <<app, row, lock>>
    /\ Tracks

AnnounceChange(p) ==
    /\ pc[p] = "announce"
    /\ unheard' = unheard \ AnnouncedBy(of[p])
    /\ Ends(p)
    /\ UNCHANGED tables

(* The refusal is sent.                                                      *)
Refuse(p) ==
    /\ pc[p] = "taken"
    /\ Ends(p)
    /\ UNCHANGED <<tables, unheard>>

(* The process dies, or a statement fails: an open transaction is undone.    *)
(* What it had to announce then waits for the caches' TTL and is excused.    *)
Fails(p) ==
    /\ pc[p] # "idle"
    /\ lock' = [a \in Apps |-> IF lock[a] = p THEN Nil ELSE lock[a]]
    /\ unheard' = IF pc[p] = "announce" THEN unheard \ AnnouncedBy(of[p]) ELSE unheard
    /\ Ends(p)
    /\ UNCHANGED <<app, row, rows, verified, primary>>

(* softDeleteApp and the purge (packages/apps); both announce by themselves, *)
(* the rows of a deleted app stay until the purge takes them.                *)
DeleteApp(a) ==
    /\ app[a] = "live" /\ lock[a] = Nil
    /\ app' = [app EXCEPT ![a] = "deleted"]
    /\ UNCHANGED <<row, rows, verified, primary, lock, requests, unheard>>

PurgeApp(a) ==
    /\ app[a] = "deleted" /\ lock[a] = Nil
    /\ app' = [app EXCEPT ![a] = "purged"]
    /\ Without(Of(a))
    /\ UNCHANGED <<row, lock, requests, unheard>>

-----------------------------------------------------------------------------
DomainsInit ==
    /\ app = [a \in Apps |-> "live"]
    /\ row = [d \in Ids |-> Nil]
    /\ rows = {} /\ verified = {} /\ primary = {}
    /\ lock = [a \in Apps |-> Nil]
    /\ pc = [p \in Requests |-> "idle"]
    /\ of = [p \in Requests |-> Nil]
    /\ arg = [p \in Requests |-> Nil]
    /\ seen = [p \in Requests |-> FALSE]
    /\ unheard = {}

Begin(p) ==
    \/ \E a \in Apps, n \in Names : AddDomain(p, a, n)
    \/ \E d \in Ids : VerifyDomain(p, d)
    \/ \E d \in Ids : SweepSelects(p, d)
    \/ \E d \in Ids : ChoosePrimary(p, d)
    \/ \E a \in Apps : ClearPrimary(p, a)
    \/ \E d \in Ids : RemoveDomain(p, d)

Continue(p) ==
    \/ InsertDomain(p)
    \/ LookFinds(p) \/ StoreVerified(p) \/ LookMisses(p) \/ LookFails(p)
    \/ SweepDrops(p) \/ SetPrimary(p) \/ DeleteRow(p)
    \/ AnnounceChange(p) \/ Refuse(p) \/ Fails(p)

DomainsNext ==
    \/ \E p \in Requests : Begin(p) \/ Continue(p)
    \/ \E a \in Apps : DeleteApp(a) \/ PurgeApp(a)

DomainsSpec == DomainsInit /\ [][DomainsNext]_domainVars

-----------------------------------------------------------------------------
(* The types: marks are on rows that exist, a request about to insert holds  *)
(* the row of its app, and an app has at most its limit of domains, however  *)
(* many are added at once.                                                   *)
DomainsTypeOK ==
    /\ app \in [Apps -> {"live", "deleted", "purged"}]
    /\ row \in [Ids -> {Nil} \cup [app : Apps, name : Names]]
    /\ rows \subseteq {d \in Ids : row[d] # Nil}
    /\ \A a \in Apps : Cardinality(Of(a)) <= MaxPerApp
    /\ verified \subseteq rows /\ primary \subseteq rows
    /\ lock \in [Apps -> Requests \cup {Nil}]
    /\ \A p \in Requests : pc[p] = "insert" => lock[of[p]] = p
    /\ pc \in [Requests -> {"idle", "insert", "verify", "store", "sweep",
                            "primary", "remove", "announce", "taken"}]
    /\ of \in [Requests -> Apps \cup {Nil}]
    /\ arg \in [Requests -> Ids \cup Names \cup {Nil}]
    /\ seen \in [Requests -> BOOLEAN]
    /\ unheard \subseteq Names \cup Apps

(* A host has one app. Two apps whose records are both in place may be       *)
(* verified at the same moment, each having found the name free: the unique  *)
(* index lets one of them through. So the redirect of an app's own host      *)
(* always comes back to the app.                                             *)
OneAppPerHost ==
    /\ \A n \in Names : Cardinality(ServedBy(n)) <= 1
    /\ \A a \in Apps : \A n \in RedirectsTo(a) : ServedBy(n) = {a}

(* "A removed one stops serving": whatever takes a host or a redirect away   *)
(* from an app - a removal, a check, the sweep, another primary - has its    *)
(* announcement still to make, until it is made.                             *)
LossesAnnounced ==
    \A x \in unheard : \E p \in Requests : pc[p] = "announce" /\ x \in AnnouncedBy(of[p])

(* A deleted app holds no name: a claim or a verification refused because    *)
(* the name is taken has, at that moment, a live app that holds it.          *)
DeletedHoldNothing ==
    [][\A p \in Requests : pc[p] # "taken" /\ pc'[p] = "taken" =>
        \E d \in verified :
            Live(d) /\ row[d].name = arg'[p] /\ row[d].app # of'[p]]_domainVars
=============================================================================
