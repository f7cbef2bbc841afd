----------------------------- MODULE HostsProofs -----------------------------
(***************************************************************************)
(* Which app a host is answered with: proofs about ServeCache, what one    *)
(* process remembers of it, and about CustomDomains, what the database     *)
(* says of a custom host.                                                  *)
(*                                                                         *)
(* ServeCache, for any number of fills, versions and changes: an           *)
(* out-of-date answer has a cause, and what the cache takes for a live app *)
(* is one.  StaleHasCause is not inductive: a fill under way becomes an    *)
(* entry.  A fill no bust overtook must itself agree with the database, up *)
(* to a change this process has yet to hear of: with the app row while it  *)
(* has read only that, with the whole answer once it has read the version. *)
(*                                                                         *)
(* CustomDomains, for any apps, names, requests and workers of the sweep:  *)
(* the two unique indexes of the table are invariants of the rows marked   *)
(* and added, and a request that took a lookup its answer announces it.    *)
(***************************************************************************)
EXTENDS ServeCache, CustomDomains, FiniteSetTheorems, WellFoundedInduction, TLAPS

UpToDate(f) ==
    \/ f.step = "version" /\ RowSeen # "none" /\ f.value = [app |-> RowSeen, version |-> published]
    \/ f.step = "store" /\ f.value = Truth(f.host)

FillsExplained ==
    \A l \in Loads : fill[l] # None => fill[l].raced \/ Unheard \/ UpToDate(fill[l])

IInv == TypeOK /\ StaleHasCause /\ KnownIsLive /\ FillsExplained

USE BoundAssumption DEF Numbers

-----------------------------------------------------------------------------
(* Helpers.                                                                *)

(* The newest of some versions is one of them, or 0. *)
LEMMA NewestIs ==
    ASSUME NEW S, S \subseteq Numbers
    PROVE  Newest(S) \in S \cup {0} /\ \A m \in S : m <= Newest(S)
<1> DEFINE T == {MaxNumber - v : v \in S \cup {0}}
<1>1. T \subseteq Nat /\ T # {}
  <2>1. T # {}
    OBVIOUS
  <2>2. \A v \in S \cup {0} : v \in Int /\ v <= MaxNumber
    BY SMT
  <2>3. \A v \in S \cup {0} : MaxNumber - v \in Nat
    BY <2>2, SMT
  <2> QED BY <2>1, <2>3
<1>2. PICK x \in T : \A y \in T : ~(<<y, x>> \in OpToRel(<, Nat))
  BY <1>1, NatLessThanWellFounded, WFMin
<1>3. \A y \in T : ~(y < x)
  BY <1>1, <1>2 DEF OpToRel
<1>4. PICK v \in S \cup {0} : x = MaxNumber - v
  BY <1>2
<1>5. \A w \in S \cup {0} : w <= v
  <2> TAKE w \in S \cup {0}
  <2>1. v \in Int /\ w \in Int
    BY <1>4
  <2>2. ~(MaxNumber - w < MaxNumber - v)
    BY <1>3, <1>4
  <2> QED BY <2>1, <2>2
<1> QED BY <1>5 DEF Newest

(* The keys are different, and there is a Prod and an Any among them. *)
LEMMA KeyFacts == /\ Hosts \subseteq Keys /\ Any \in Keys /\ Any \notin Hosts
                  /\ Prod \in Hosts /\ Preview \in Hosts
BY DEF Hosts, Keys, Any, Prod, Preview

(* None is neither an entry nor a fill. *)
LEMMA NoneFacts == None \notin Entries /\ None \notin Fills
BY NoneAssumption

(* A host's answer is a value. *)
LEMMA AnswerIsTyped ==
    ASSUME TypeOK, NEW h, NEW p
    PROVE  Newest(Candidates(h, p)) \in 0..MaxNumber
<1>1. Candidates(h, p) \subseteq Numbers
  BY DEF Candidates, TypeOK
<1> QED BY <1>1, NewestIs

(* "No such app" is what the database says of every key while there is none. *)
LEMMA NoAppIsTrue == ASSUME NEW k, Truth(k).app = "none" PROVE Truth(k) = NoApp /\ RowSeen = "none"
BY DEF Truth, NoApp, RowSeen

(* A bust leaves nothing that could be out of date. *)
LEMMA BustInv ==
    ASSUME TypeOK, Bust
    PROVE  /\ resolved' \in [Hosts -> Entries \cup {None}]
           /\ missing' \in [Keys -> Entries \cup {None}]
           /\ fill' \in [Loads -> Fills \cup {None}]
           /\ StaleHasCause' /\ KnownIsLive'
           /\ \A l \in Loads : fill'[l] # None => fill'[l].raced
<1>1. \A h \in Hosts : resolved'[h] = None
  BY DEF Bust, NoHits
<1>2. \A k \in Keys : missing'[k] = None
  BY DEF Bust, NoMisses
<1>3. \A k \in Keys : Cached(k)' = {}
  BY <1>1, <1>2 DEF Cached
<1>4. \A l \in Loads : fill'[l] = IF fill[l] = None THEN None ELSE [fill[l] EXCEPT !.raced = TRUE]
  BY DEF Bust, Overtaken
<1>5. \A l \in Loads : fill'[l] \in Fills \cup {None} /\ (fill'[l] # None => fill'[l].raced)
  <2> TAKE l \in Loads
  <2>1. fill[l] \in Fills \cup {None}
    BY DEF TypeOK
  <2>2. CASE fill[l] = None
    BY <1>4, <2>2
  <2>3. CASE fill[l] \in Fills
    BY <1>4, <2>3, NoneFacts DEF Fills
  <2> QED BY <2>1, <2>2, <2>3
<1>6. fill' \in [Loads -> Fills \cup {None}]
  BY <1>5 DEF Bust, Overtaken
<1>7. StaleHasCause'
  BY <1>3 DEF StaleHasCause
<1>8. KnownIsLive'
  BY <1>1, <1>2, KeyFacts DEF KnownIsLive
<1> QED BY <1>5, <1>6, <1>7, <1>8 DEF Bust, NoHits, NoMisses

-----------------------------------------------------------------------------
(* The invariant.                                                          *)

LEMMA InitInv == Init => IInv
<1> SUFFICES ASSUME Init PROVE IInv
  OBVIOUS
<1>1. /\ \A h \in Hosts : resolved[h] = None
      /\ \A k \in Keys : missing[k] = None
      /\ \A l \in Loads : fill[l] = None
  BY DEF Init, NoHits, NoMisses
<1>2. TypeOK
  <2>1. /\ resolved \in [Hosts -> Entries \cup {None}]
        /\ missing \in [Keys -> Entries \cup {None}]
        /\ fill \in [Loads -> Fills \cup {None}]
    BY DEF Init, NoHits, NoMisses
  <2>2. /\ status \in {"none", "live", "locked", "gone"} /\ published \in ok \cup {0}
        /\ ok \subseteq Numbers /\ changes \in 0..MaxChanges
    BY DEF Init
  <2>3. toEmit \in Nat /\ others \in Nat /\ inbox \in Nat
    BY DEF Init
  <2>4. sub \in {"down", "ready", "on"} /\ missed \in BOOLEAN
    BY DEF Init
  <2> QED BY <2>1, <2>2, <2>3, <2>4 DEF TypeOK
<1>3. StaleHasCause
  BY <1>1 DEF StaleHasCause, Cached
<1>4. KnownIsLive
  BY <1>1, KeyFacts DEF KnownIsLive
<1>5. FillsExplained
  BY <1>1 DEF FillsExplained
<1> QED BY <1>2, <1>3, <1>4, <1>5 DEF IInv

(* After a change, this process has something to hear of. *)
LEMMA ChangeInv ==
    ASSUME IInv, NEW own \in BOOLEAN, Change(own) PROVE IInv'
<1> USE DEF IInv
<1>1. Changed(own)
  BY DEF Change, CreateApp, CreateVersion, PublishVersion, UnpublishApp, TakedownApp,
         RestoreApp, DeleteVersion, SoftDeleteApp
<1>2. Unheard'
  BY <1>1 DEF Changed, Unheard, TypeOK
<1>3. Newest(ok) \in ok \cup {0}
  BY NewestIs DEF TypeOK
<1> DEFINE Row == /\ status' \in {"none", "live", "locked", "gone"}
                  /\ ok' \subseteq Numbers /\ published' \in ok' \cup {0}
<1>4. Row
  <2>1. CASE CreateApp(own) \/ UnpublishApp(own) \/ TakedownApp(own) \/ RestoreApp(own) \/ SoftDeleteApp(own)
    BY <2>1 DEF CreateApp, UnpublishApp, TakedownApp, RestoreApp, SoftDeleteApp, TypeOK
  <2>2. CASE CreateVersion(own)
    BY <2>2 DEF CreateVersion, TypeOK
  <2>3. ASSUME NEW n \in Numbers, PublishVersion(own, n) PROVE Row
    BY <2>3 DEF PublishVersion, TypeOK
  <2>4. ASSUME NEW n \in Numbers, DeleteVersion(own, n) PROVE Row
    BY <2>4 DEF DeleteVersion, Deletable, TypeOK
  <2> HIDE DEF Row
  <2> QED BY <2>1, <2>2, <2>3, <2>4 DEF Change
<1>5. /\ changes' \in 0..MaxChanges /\ toEmit' \in Nat /\ others' \in Nat
      /\ UNCHANGED <<resolved, missing, fill, inbox, sub, missed>>
  BY <1>1 DEF Changed, TypeOK, cache
<1>6. TypeOK'
  BY <1>4, <1>5 DEF TypeOK
<1>7. StaleHasCause' /\ FillsExplained'
  BY <1>2 DEF StaleHasCause, FillsExplained
<1>8. KnownIsLive'
  BY <1>5 DEF KnownIsLive
<1> QED BY <1>6, <1>7, <1>8

(* What the database says changes only with the database. *)
LEMMA SameTruth ==
    ASSUME UNCHANGED db
    PROVE  /\ RowSeen' = RowSeen /\ published' = published
           /\ \A k : Truth(k)' = Truth(k)
           /\ \A f : UpToDate(f)' = UpToDate(f)
<1>1. RowSeen' = RowSeen /\ published' = published /\ ok' = ok
  BY DEF db, RowSeen
<1>2. \A k : Truth(k)' = Truth(k)
  BY <1>1 DEF Truth, Candidates, Newest
<1> QED BY <1>1, <1>2 DEF UpToDate

(* A fill begins on the row as it is. *)
LEMMA ResolveInv ==
    ASSUME IInv, NEW h \in Hosts, NEW l \in Loads, Resolve(h, l) PROVE IInv'
<1> USE DEF IInv
<1> DEFINE f == [host |-> h, raced |-> FALSE,
                 step |-> IF RowSeen = "none" THEN "store" ELSE "version",
                 value |-> IF RowSeen = "none" THEN NoApp
                           ELSE [app |-> RowSeen, version |-> published]]
<1>1. fill' = [fill EXCEPT ![l] = f] /\ UNCHANGED <<db, cache, feed, missed>>
  BY DEF Resolve
<1>2. f \in Fills /\ UpToDate(f)
  <2>1. RowSeen \in {"none", "live", "locked"} /\ published \in 0..MaxNumber
    BY DEF RowSeen, TypeOK
  <2>2. f \in Fills
    BY <2>1 DEF Fills, Values, NoApp
  <2>3. UpToDate(f)
    BY DEF UpToDate, Truth
  <2> QED BY <2>2, <2>3
<1>3. TypeOK'
  BY <1>1, <1>2 DEF TypeOK, db, cache, feed
<1>4. StaleHasCause' /\ KnownIsLive'
  BY <1>1, SameTruth DEF StaleHasCause, KnownIsLive, Cached, Unheard, cache, feed
<1>5. Unheard' = Unheard
  BY <1>1 DEF Unheard, feed
<1>6. ASSUME NEW m \in Loads, fill'[m] # None
      PROVE  (fill[m].raced \/ Unheard \/ UpToDate(fill[m]))'
  <2>1. CASE m = l
    <3>1. fill'[m] = f
      BY <1>1, <2>1 DEF TypeOK
    <3> QED BY <1>1, <1>2, <3>1, SameTruth DEF UpToDate
  <2>2. CASE m # l
    <3>1. fill'[m] = fill[m]
      BY <1>1, <2>2 DEF TypeOK
    <3> QED BY <1>1, <1>5, <1>6, <3>1, SameTruth DEF FillsExplained, UpToDate
  <2> QED BY <2>1, <2>2
<1>7. FillsExplained'
  BY <1>6 DEF FillsExplained
<1> QED BY <1>3, <1>4, <1>7

(* Reading the version of an up-to-date row gives the whole answer. *)
LEMMA ReadVersionInv ==
    ASSUME IInv, NEW l \in Loads, ReadVersion(l) PROVE IInv'
<1> USE DEF IInv
<1> DEFINE n == Newest(Candidates(fill[l].host, fill[l].value.version))
           f == [fill[l] EXCEPT !.step = "store", !.value.version = n]
<1>1. fill' = [fill EXCEPT ![l] = f] /\ UNCHANGED <<db, cache, feed, missed>>
  BY DEF ReadVersion
<1>2. fill[l] \in Fills /\ fill[l].step = "version"
  BY DEF ReadVersion, TypeOK
<1>3. n \in 0..MaxNumber
  BY AnswerIsTyped
<1>4. /\ f \in Fills /\ f.host = fill[l].host /\ f.raced = fill[l].raced /\ f.step = "store"
      /\ f.value = [app |-> fill[l].value.app, version |-> n]
  BY <1>2, <1>3 DEF Fills, Values
<1>5. UpToDate(fill[l]) => UpToDate(f)
  BY <1>2, <1>4 DEF UpToDate, Truth
<1>6. TypeOK'
  BY <1>1, <1>4 DEF TypeOK, db, cache, feed
<1>7. StaleHasCause' /\ KnownIsLive'
  BY <1>1, SameTruth DEF StaleHasCause, KnownIsLive, Cached, Unheard, cache, feed
<1>8. Unheard' = Unheard
  BY <1>1 DEF Unheard, feed
<1>9. ASSUME NEW m \in Loads, fill'[m] # None
      PROVE  (fill[m].raced \/ Unheard \/ UpToDate(fill[m]))'
  <2>1. CASE m = l
    <3>1. fill'[m] = f
      BY <1>1, <2>1 DEF TypeOK
    <3>2. fill[l].raced \/ Unheard \/ UpToDate(fill[l])
      BY <1>2, NoneFacts DEF FillsExplained
    <3> QED BY <1>1, <1>4, <1>5, <1>8, <3>1, <3>2, SameTruth DEF UpToDate
  <2>2. CASE m # l
    <3>1. fill'[m] = fill[m]
      BY <1>1, <2>2 DEF TypeOK
    <3> QED BY <1>1, <1>8, <1>9, <3>1, SameTruth DEF FillsExplained, UpToDate
  <2> QED BY <2>1, <2>2
<1>10. FillsExplained'
  BY <1>9 DEF FillsExplained
<1> QED BY <1>6, <1>7, <1>10

(* What holds of every fill still holds when one of them is gone.          *)
LEMMA FillGone ==
    ASSUME IInv, NEW l \in Loads, fill' = [fill EXCEPT ![l] = None], UNCHANGED <<db, feed, missed>>
    PROVE  FillsExplained' /\ fill' \in [Loads -> Fills \cup {None}]
<1> USE DEF IInv
<1>1. Unheard' = Unheard
  BY DEF Unheard, feed
<1>2. ASSUME NEW m \in Loads, fill'[m] # None
      PROVE  (fill[m].raced \/ Unheard \/ UpToDate(fill[m]))'
  <2>1. fill'[m] = fill[m]
    BY <1>2 DEF TypeOK
  <2> QED BY <1>1, <1>2, <2>1, SameTruth DEF FillsExplained, UpToDate
<1> QED BY <1>2 DEF FillsExplained, TypeOK

(* The entry a fill stores is one the fill's own state explains.            *)
LEMMA StoreInv ==
    ASSUME IInv, NEW l \in Loads, Store(l) PROVE IInv'
<1> USE DEF IInv
<1> DEFINE e == [value |-> fill[l].value, raced |-> fill[l].raced]
           h == fill[l].host
<1>1. /\ fill[l] \in Fills /\ fill[l].step = "store"
      /\ fill' = [fill EXCEPT ![l] = None] /\ UNCHANGED <<db, feed, missed>>
      /\ \/ e.value.app = "none" /\ StoreNoApp(e)
         \/ e.value.app # "none" /\ StoreApp(h, e)
  BY DEF Store, TypeOK
<1>2. e \in Entries /\ h \in Hosts
  BY <1>1 DEF Entries, Fills
<1>3. e.raced \/ Unheard \/ e.value = Truth(h)
  BY <1>1, NoneFacts DEF FillsExplained, UpToDate
<1>4. Unheard' = Unheard /\ \A k : Truth(k)' = Truth(k)
  BY <1>1, SameTruth DEF Unheard, feed
<1>5. FillsExplained' /\ fill' \in [Loads -> Fills \cup {None}]
  BY <1>1, FillGone
<1>6. CASE e.value.app = "none" /\ StoreNoApp(e)
  <2>1. /\ \A g \in Hosts : resolved'[g] = None
        /\ \A k \in Keys : missing'[k] = IF k = Any THEN e ELSE None
    BY <1>6, KeyFacts DEF StoreNoApp, NoHits, NoMisses
  <2>2. resolved' \in [Hosts -> Entries \cup {None}] /\ missing' \in [Keys -> Entries \cup {None}]
    BY <1>2, <1>6 DEF StoreNoApp, NoHits, NoMisses
  <2>3. e.raced \/ Unheard \/ e.value = Truth(Any)
    <3>1. e.value = Truth(h) => RowSeen = "none" /\ e.value = NoApp
      BY <1>6, NoAppIsTrue
    <3> QED BY <1>3, <3>1 DEF Truth
  <2>4. ASSUME NEW k \in Keys, NEW x \in Cached(k)' PROVE x = e /\ k = Any
    BY <2>1, <2>4 DEF Cached
  <2>5. StaleHasCause'
    BY <1>4, <2>3, <2>4 DEF StaleHasCause
  <2>6. KnownIsLive'
    BY <2>1, KeyFacts DEF KnownIsLive
  <2>7. TypeOK'
    BY <1>1, <1>5, <2>2 DEF TypeOK, db, feed
  <2> QED BY <1>5, <2>5, <2>6, <2>7
<1>7. CASE e.value.app # "none" /\ StoreApp(h, e)
  <2>1. /\ \A g \in Hosts : resolved'[g] \in {resolved[g]} \cup (IF g = h THEN {e} ELSE {})
        /\ \A k \in Keys : missing'[k] \in {missing[k], None} \cup (IF k = h THEN {e} ELSE {})
        /\ missing'[Any] = None
    BY <1>2, <1>7, KeyFacts DEF StoreApp, TypeOK
  <2>2. resolved' \in [Hosts -> Entries \cup {None}] /\ missing' \in [Keys -> Entries \cup {None}]
    BY <1>2, <1>7, KeyFacts DEF StoreApp, TypeOK
  <2>3. ASSUME NEW k \in Keys, NEW x \in Cached(k)' PROVE x \in Cached(k) \/ (x = e /\ k = h)
    BY <2>1, <2>3 DEF Cached
  <2>4. StaleHasCause'
    BY <1>3, <1>4, <2>3 DEF StaleHasCause
  <2>5. KnownIsLive'
    BY <1>7, <2>1 DEF KnownIsLive
  <2>6. TypeOK'
    BY <1>1, <1>5, <2>2 DEF TypeOK, db, feed
  <2> QED BY <1>5, <2>4, <2>5, <2>6
<1> QED BY <1>1, <1>6, <1>7

LEMMA FailFillInv ==
    ASSUME IInv, NEW l \in Loads, FailFill(l) PROVE IInv'
<1> USE DEF IInv
<1>1. fill' = [fill EXCEPT ![l] = None] /\ UNCHANGED <<db, cache, feed, missed>>
  BY DEF FailFill
<1>2. FillsExplained' /\ fill' \in [Loads -> Fills \cup {None}]
  BY <1>1, FillGone
<1>3. StaleHasCause' /\ KnownIsLive'
  BY <1>1, SameTruth DEF StaleHasCause, KnownIsLive, Cached, Unheard, cache, feed
<1>4. TypeOK'
  BY <1>1, <1>2 DEF TypeOK, db, cache, feed
<1> QED BY <1>2, <1>3, <1>4

LEMMA ExpireInv ==
    ASSUME IInv, NEW k \in Keys, Expire(k) PROVE IInv'
<1> USE DEF IInv
<1>1. /\ \A h \in Hosts : resolved'[h] \in {resolved[h], None}
      /\ \A j \in Keys : missing'[j] \in {missing[j], None}
      /\ resolved' \in [Hosts -> Entries \cup {None}]
      /\ missing' \in [Keys -> Entries \cup {None}]
      /\ UNCHANGED <<db, fill, feed, missed>>
  BY DEF Expire, TypeOK
<1>2. TypeOK'
  BY <1>1 DEF TypeOK, db, feed
<1>3. Unheard' = Unheard /\ \A j : Truth(j)' = Truth(j)
  BY <1>1, SameTruth DEF Unheard, feed
<1>4. \A j \in Keys : Cached(j)' \subseteq Cached(j)
  BY <1>1 DEF Cached
<1>5. StaleHasCause'
  BY <1>3, <1>4 DEF StaleHasCause
<1>6. KnownIsLive'
  BY <1>1, KeyFacts DEF KnownIsLive
<1>7. FillsExplained'
  BY <1>1, <1>3, SameTruth DEF FillsExplained, UpToDate
<1> QED BY <1>2, <1>5, <1>6, <1>7

(* What the process hears of empties its caches and overtakes its fills.    *)
LEMMA HeardInv ==
    ASSUME IInv, EmitLocal \/ Echo \/ Deliver \/ Ready PROVE IInv'
<1> USE DEF IInv
<1>1. Heard /\ UNCHANGED db
  BY DEF EmitLocal, Echo, Deliver, Ready
<1>2. /\ resolved' \in [Hosts -> Entries \cup {None}]
      /\ missing' \in [Keys -> Entries \cup {None}]
      /\ fill' \in [Loads -> Fills \cup {None}]
      /\ StaleHasCause' /\ KnownIsLive'
      /\ \A l \in Loads : fill'[l] # None => fill'[l].raced
  BY <1>1, BustInv DEF Heard
<1>3. toEmit' \in Nat /\ others' \in Nat /\ inbox' \in Nat
  BY DEF EmitLocal, Echo, Deliver, Ready, TypeOK, feed
<1>4. sub' \in {"down", "ready", "on"} /\ missed' \in BOOLEAN
  BY <1>1 DEF EmitLocal, Echo, Deliver, Ready, TypeOK, feed, Heard
<1>5. TypeOK'
  BY <1>1, <1>2, <1>3, <1>4 DEF TypeOK, db
<1>6. FillsExplained'
  BY <1>2 DEF FillsExplained
<1> QED BY <1>2, <1>5, <1>6

(* A message that moves on, or is lost, is still to be heard of.            *)
LEMMA PassingInv ==
    ASSUME IInv, OtherPublishes \/ OtherNeverPublishes \/ Disconnect \/ Subscribed PROVE IInv'
<1> USE DEF IInv
<1>1. UNCHANGED <<db, cache, fill>>
  BY DEF OtherPublishes, OtherNeverPublishes, Disconnect, Subscribed
<1>2. Unheard => Unheard'
  <2>1. CASE OtherPublishes
    <3>1. CASE sub = "on"
      <4>1. inbox' > 0
        BY <2>1, <3>1 DEF OtherPublishes, TypeOK
      <4> QED BY <4>1 DEF Unheard
    <3>2. CASE sub # "on"
      <4>1. missed'
        BY <2>1, <3>2 DEF OtherPublishes
      <4> QED BY <4>1 DEF Unheard
    <3> QED BY <3>1, <3>2
  <2>2. CASE OtherNeverPublishes
    BY <2>2 DEF OtherNeverPublishes, Unheard
  <2>3. CASE Disconnect
    BY <2>3, Zenon DEF Disconnect, Unheard
  <2>4. CASE Subscribed
    BY <2>4, Zenon DEF Subscribed, Unheard
  <2> QED BY <2>1, <2>2, <2>3, <2>4
<1>3. /\ toEmit' \in Nat /\ others' \in Nat /\ inbox' \in Nat
      /\ sub' \in {"down", "ready", "on"}
  BY DEF OtherPublishes, OtherNeverPublishes, Disconnect, Subscribed, TypeOK
<1>4. missed' \in BOOLEAN
  <2>1. missed \in BOOLEAN
    BY DEF TypeOK
  <2>2. CASE OtherPublishes \/ OtherNeverPublishes
    BY <2>1, <2>2 DEF OtherPublishes, OtherNeverPublishes
  <2>3. CASE Disconnect
    BY <2>3 DEF Disconnect
  <2>4. CASE Subscribed
    BY <2>1, <2>4 DEF Subscribed
  <2> QED BY <2>2, <2>3, <2>4
<1>5. TypeOK'
  BY <1>1, <1>3, <1>4 DEF TypeOK, db, cache
<1>6. StaleHasCause' /\ KnownIsLive'
  BY <1>1, <1>2, SameTruth DEF StaleHasCause, KnownIsLive, Cached, cache
<1>7. FillsExplained'
  BY <1>1, <1>2, SameTruth DEF FillsExplained, UpToDate
<1> QED BY <1>5, <1>6, <1>7

LEMMA RestartInv == ASSUME IInv, Restart PROVE IInv'
<1> USE DEF IInv
<1>1. /\ \A h \in Hosts : resolved'[h] = None
      /\ \A k \in Keys : missing'[k] = None
      /\ \A l \in Loads : fill'[l] = None
  BY DEF Restart, NoHits, NoMisses
<1>2. /\ resolved' \in [Hosts -> Entries \cup {None}]
      /\ missing' \in [Keys -> Entries \cup {None}]
      /\ fill' \in [Loads -> Fills \cup {None}]
  BY DEF Restart, NoHits, NoMisses
<1>3. TypeOK'
  BY <1>2 DEF Restart, TypeOK, db
<1>4. StaleHasCause' /\ KnownIsLive' /\ FillsExplained'
  BY <1>1, KeyFacts DEF StaleHasCause, KnownIsLive, FillsExplained, Cached
<1> QED BY <1>3, <1>4

LEMMA StepInv == IInv /\ [Next]_vars => IInv'
<1> SUFFICES ASSUME IInv, [Next]_vars PROVE IInv'
  OBVIOUS
<1>1. CASE UNCHANGED vars
  <2>1. UNCHANGED <<db, cache, fill, feed, missed>>
    BY <1>1 DEF vars
  <2>2. Unheard' = Unheard
    BY <2>1 DEF Unheard, feed
  <2>3. TypeOK'
    BY <2>1 DEF IInv, TypeOK, db, cache, feed
  <2>4. StaleHasCause' /\ KnownIsLive'
    BY <2>1, <2>2, SameTruth DEF IInv, StaleHasCause, KnownIsLive, Cached, cache
  <2>5. FillsExplained'
    BY <2>1, <2>2, SameTruth DEF IInv, FillsExplained, UpToDate
  <2> QED BY <2>3, <2>4, <2>5 DEF IInv
<1>2. CASE \E own \in BOOLEAN : Change(own)
  BY <1>2, ChangeInv
<1>3. CASE Serve
  BY <1>3, ResolveInv, ReadVersionInv, StoreInv, FailFillInv, ExpireInv DEF Serve
<1>4. CASE Announce
  BY <1>4, HeardInv, PassingInv, RestartInv DEF Announce
<1> QED BY <1>1, <1>2, <1>3, <1>4 DEF Next

-----------------------------------------------------------------------------
(* Whatever number of fills, busts, changes, losses and reconnections       *)
(* interleave, an answer the database no longer gives was loaded across a   *)
(* bust, or a change has not reached this process.                         *)
THEOREM StaleIsExplained == Spec => []StaleHasCause
<1>1. IInv => StaleHasCause
  BY DEF IInv
<1> QED BY <1>1, InitInv, StepInv, PTL DEF Spec

(* The positive cache holds live apps only, and never beside the slug's     *)
(* "no such app".                                                          *)
THEOREM KnownHostsAreLive == Spec => []KnownIsLive
<1>1. IInv => KnownIsLive
  BY DEF IInv
<1> QED BY <1>1, InitInv, StepInv, PTL DEF Spec

(* The database's view, the caches, the fills and the feed keep their types. *)
THEOREM TypeCorrect == Spec => []TypeOK
<1>1. IInv => TypeOK
  BY DEF IInv
<1> QED BY <1>1, InitInv, StepInv, PTL DEF Spec
-----------------------------------------------------------------------------
(* CustomDomains.                                                          *)

(* domains_verified_hostname_uq: a name is verified once, whatever its app.  *)
Indexed == \A d, e \in verified : row[d].name = row[e].name => d = e

(* domains_app_hostname_uq: an app has a name once.                          *)
OncePerApp == \A d, e \in rows : row[d] = row[e] => d = e

(* What an add has counted stays so while it holds the app's row.            *)
Inserting ==
    \A p \in Requests : pc[p] = "insert" =>
        /\ of[p] \in Apps /\ arg[p] \in Names
        /\ Cardinality(Of(of[p])) < MaxPerApp
        /\ \A d \in Of(of[p]) : row[d].name # arg[p]

(* What the other requests are about: a row there is or was, and its app.    *)
About == {"verify", "store", "sweep", "primary", "remove"}
Knowing ==
    \A p \in Requests : pc[p] \in About =>
        arg[p] \in Ids /\ row[arg[p]] # Nil /\ of[p] = row[arg[p]].app

DomainsInv ==
    /\ DomainsTypeOK /\ IsFiniteSet(rows)
    /\ Indexed /\ OncePerApp /\ Inserting /\ Knowing
    /\ LossesAnnounced

Calls == About \cup {"idle", "insert", "announce", "taken"}

LEMMA DomainsInitInv == DomainsInit => DomainsInv
<1> SUFFICES ASSUME DomainsInit PROVE DomainsInv
  OBVIOUS
<1>1. rows = {} /\ IsFiniteSet(rows)
  BY FS_EmptySet DEF DomainsInit
<1>2. \A a \in Apps : Cardinality(Of(a)) <= MaxPerApp
  <2> TAKE a \in Apps
  <2>1. Of(a) = {}
    BY <1>1 DEF Of
  <2> QED BY <2>1, FS_EmptySet, DomainAssumption
<1>3. DomainsTypeOK
  BY <1>1, <1>2 DEF DomainsInit, DomainsTypeOK
<1> QED BY <1>1, <1>3 DEF DomainsInit, DomainsInv, Indexed, OncePerApp,
             Inserting, Knowing, LossesAnnounced, About

-----------------------------------------------------------------------------
(* What a call leaves behind.                                                *)

(* An announcement still to make stays so when its request does nothing and  *)
(* the one that does something takes no lookup its answer.                   *)
LEMMA NothingLost ==
    ASSUME LossesAnnounced, NEW p \in Requests, pc[p] # "announce",
           \A q \in Requests \ {p} : pc'[q] = pc[q] /\ of'[q] = of[q],
           unheard' = unheard
    PROVE  LossesAnnounced'
<1> SUFFICES ASSUME NEW x \in unheard'
             PROVE  \E q \in Requests : pc'[q] = "announce" /\ x \in AnnouncedBy(of'[q])
  BY DEF LossesAnnounced, AnnouncedBy
<1>1. PICK q \in Requests : pc[q] = "announce" /\ x \in AnnouncedBy(of[q])
  BY DEF LossesAnnounced
<1>2. q # p
  BY <1>1
<1> QED BY <1>1, <1>2 DEF AnnouncedBy

(* What the one takes away it is about to announce, if no other app's        *)
(* redirect is among it.                                                     *)
LEMMA OwnLost ==
    ASSUME LossesAnnounced, NEW p \in Requests, pc[p] # "announce",
           \A q \in Requests \ {p} : pc'[q] = pc[q] /\ of'[q] = of[q],
           pc'[p] = "announce",
           \A a \in Apps \ {of'[p]} : RedirectsTo(a) \subseteq RedirectsTo(a)',
           Tracks
    PROVE  LossesAnnounced'
<1> SUFFICES ASSUME NEW x \in unheard'
             PROVE  \E q \in Requests : pc'[q] = "announce" /\ x \in AnnouncedBy(of'[q])
  BY DEF LossesAnnounced, AnnouncedBy
<1>1. CASE x \in unheard
  <2>1. PICK q \in Requests : pc[q] = "announce" /\ x \in AnnouncedBy(of[q])
    BY <1>1 DEF LossesAnnounced
  <2> QED BY <2>1
<1>2. CASE x \notin unheard
  <2>1. x \in Names \cup {of'[p]}
    BY <1>2 DEF Tracks
  <2> QED BY <2>1 DEF AnnouncedBy
<1> QED BY <1>1, <1>2

(* The types of what a request keeps.                                        *)
LEMMA GotoFacts ==
    ASSUME DomainsTypeOK, NEW p \in Requests, NEW l \in Calls, NEW a \in Apps \cup {Nil},
           NEW x \in Ids \cup Names \cup {Nil}, NEW s \in BOOLEAN, Goto(p, l, a, x, s)
    PROVE  /\ pc' \in [Requests -> Calls] /\ of' \in [Requests -> Apps \cup {Nil}]
           /\ arg' \in [Requests -> Ids \cup Names \cup {Nil}]
           /\ seen' \in [Requests -> BOOLEAN]
           /\ pc'[p] = l /\ of'[p] = a /\ arg'[p] = x /\ seen'[p] = s
           /\ \A q \in Requests \ {p} :
                 pc'[q] = pc[q] /\ of'[q] = of[q] /\ arg'[q] = arg[q]
<1>1. pc \in [Requests -> Calls]
  BY DEF DomainsTypeOK, Calls, About
<1> QED BY <1>1 DEF DomainsTypeOK, Goto

(* A call that adds no row and takes no lock: what remains to be shown of it.*)
LEMMA Leaves ==
    ASSUME DomainsInv, NEW p \in Requests, pc[p] # "insert",
           NEW l \in Calls \ {"insert"}, NEW a \in Apps \cup {Nil},
           NEW x \in Ids \cup Names \cup {Nil}, NEW s \in BOOLEAN, Goto(p, l, a, x, s),
           l \in About => x \in Ids /\ row[x] # Nil /\ a = row[x].app,
           UNCHANGED <<app, row, lock>>, rows' \subseteq rows,
           verified' \subseteq rows', primary' \subseteq rows', Indexed',
           unheard' \subseteq Names \cup Apps, LossesAnnounced'
    PROVE  DomainsInv'
<1>1. /\ pc' \in [Requests -> Calls] /\ of' \in [Requests -> Apps \cup {Nil}]
      /\ arg' \in [Requests -> Ids \cup Names \cup {Nil}]
      /\ seen' \in [Requests -> BOOLEAN]
      /\ pc'[p] = l /\ of'[p] = a /\ arg'[p] = x
      /\ \A q \in Requests \ {p} : pc'[q] = pc[q] /\ of'[q] = of[q] /\ arg'[q] = arg[q]
  BY GotoFacts DEF DomainsInv
<1>2. IsFiniteSet(rows) /\ IsFiniteSet(rows')
  BY FS_Subset DEF DomainsInv
<1>3. \A b \in Apps : /\ Of(b)' \subseteq Of(b)
                      /\ Cardinality(Of(b)') <= Cardinality(Of(b))
                      /\ Cardinality(Of(b)') \in Nat /\ Cardinality(Of(b)) \in Nat
  <2> TAKE b \in Apps
  <2>1. Of(b)' \subseteq Of(b) /\ Of(b) \subseteq rows
    BY DEF Of
  <2> QED BY <1>2, <2>1, FS_Subset, FS_CardinalityType
<1>4. \A b \in Apps : Cardinality(Of(b)') <= MaxPerApp
  BY <1>3, DomainAssumption DEF DomainsInv, DomainsTypeOK
<1>5. \A q \in Requests : pc'[q] = "insert" => lock'[of'[q]] = q
  BY <1>1 DEF DomainsInv, DomainsTypeOK
<1>6. DomainsTypeOK'
  <2>1. rows' \subseteq {d \in Ids : row'[d] # Nil}
    BY DEF DomainsInv, DomainsTypeOK
  <2> QED BY <1>1, <1>4, <1>5, <2>1 DEF DomainsInv, DomainsTypeOK, Calls, About
<1>7. OncePerApp'
  BY DEF DomainsInv, OncePerApp
<1>8. Inserting'
  <2> SUFFICES ASSUME NEW q \in Requests, pc'[q] = "insert"
               PROVE  /\ of'[q] \in Apps /\ arg'[q] \in Names
                      /\ Cardinality(Of(of[q])') < MaxPerApp
                      /\ \A d \in Of(of[q])' : row'[d].name # arg'[q]
    BY DEF Inserting, Of
  <2>1. q # p /\ pc[q] = "insert" /\ of'[q] = of[q] /\ arg'[q] = arg[q]
    BY <1>1
  <2>2. /\ of[q] \in Apps /\ arg[q] \in Names
        /\ Cardinality(Of(of[q])) < MaxPerApp
        /\ \A d \in Of(of[q]) : row[d].name # arg[q]
    BY <2>1 DEF DomainsInv, Inserting
  <2>3. Of(of[q])' \subseteq Of(of[q])
    BY <2>1 DEF Of
  <2>4. Cardinality(Of(of[q])') <= Cardinality(Of(of[q])) /\ Cardinality(Of(of[q])') \in Nat
    BY <2>1, <2>3, <1>2, FS_Subset, FS_CardinalityType DEF Of
  <2>5. Cardinality(Of(of[q])) \in Nat
    BY <2>2, <1>3
  <2> QED BY <2>1, <2>2, <2>3, <2>4, <2>5, DomainAssumption
<1>9. Knowing'
  BY <1>1 DEF DomainsInv, Knowing
<1> QED BY <1>2, <1>6, <1>7, <1>8, <1>9 DEF DomainsInv
-----------------------------------------------------------------------------
(* One lemma per kind of call.                                               *)

USE DEF tables, requests

(* A call that only moves on.                                                *)
LEMMA Quiet ==
    ASSUME DomainsInv, NEW p \in Requests, pc[p] \notin {"insert", "announce"},
           NEW l \in Calls \ {"insert"}, NEW a \in Apps \cup {Nil},
           NEW x \in Ids \cup Names \cup {Nil}, NEW s \in BOOLEAN, Goto(p, l, a, x, s),
           l \in About => x \in Ids /\ row[x] # Nil /\ a = row[x].app,
           UNCHANGED <<tables, unheard>>
    PROVE  DomainsInv'
<1>1. \A q \in Requests \ {p} : pc'[q] = pc[q] /\ of'[q] = of[q]
  BY GotoFacts DEF DomainsInv
<1>2. LossesAnnounced'
  BY <1>1, NothingLost DEF DomainsInv
<1>3. Indexed' /\ verified' \subseteq rows' /\ primary' \subseteq rows'
  BY DEF DomainsInv, Indexed, DomainsTypeOK
<1>4. unheard' \subseteq Names \cup Apps
  BY DEF DomainsInv, DomainsTypeOK
<1> QED BY <1>2, <1>3, <1>4, Leaves

(* A call that takes something away and goes on to announce it.              *)
LEMMA Loses ==
    ASSUME DomainsInv, NEW p \in Requests, pc[p] \notin {"insert", "announce"},
           NEW a \in Apps, Goto(p, "announce", a, Nil, FALSE),
           UNCHANGED <<app, row, lock>>, rows' \subseteq rows,
           verified' \subseteq rows', primary' \subseteq rows', Indexed',
           \A b \in Apps \ {a} : RedirectsTo(b) \subseteq RedirectsTo(b)',
           Tracks
    PROVE  DomainsInv'
<1>1. /\ pc'[p] = "announce" /\ of'[p] = a
      /\ \A q \in Requests \ {p} : pc'[q] = pc[q] /\ of'[q] = of[q]
  BY GotoFacts DEF DomainsInv, Calls
<1>2. LossesAnnounced'
  BY <1>1, OwnLost DEF DomainsInv
<1>3. unheard' \subseteq Names \cup Apps
  BY DEF DomainsInv, DomainsTypeOK, Tracks
<1> QED BY <1>2, <1>3, Leaves DEF Calls, About

LEMMA AddDomainInv ==
    ASSUME DomainsInv, NEW p \in Requests, NEW a \in Apps, NEW n \in Names, AddDomain(p, a, n)
    PROVE  DomainsInv'
<1>1. CASE Taken(p, a, n) /\ UNCHANGED <<tables, unheard>>
  BY <1>1, Quiet DEF AddDomain, Taken, Calls, About
<1>2. CASE /\ Cardinality(Of(a)) < MaxPerApp
           /\ lock' = [lock EXCEPT ![a] = p]
           /\ Goto(p, "insert", a, n, FALSE)
           /\ UNCHANGED <<app, row, rows, verified, primary, unheard>>
  <2> USE <1>2
  <2>1. /\ pc' \in [Requests -> Calls] /\ of' \in [Requests -> Apps \cup {Nil}]
        /\ arg' \in [Requests -> Ids \cup Names \cup {Nil}]
        /\ seen' \in [Requests -> BOOLEAN]
        /\ pc'[p] = "insert" /\ of'[p] = a /\ arg'[p] = n
        /\ \A q \in Requests \ {p} : pc'[q] = pc[q] /\ of'[q] = of[q] /\ arg'[q] = arg[q]
    <3>1. Goto(p, "insert", a, n, FALSE) /\ DomainsTypeOK
      BY DEF DomainsInv
    <3> QED BY <3>1 DEF Goto, DomainsTypeOK, Calls, About
  <2>2. pc[p] = "idle" /\ lock[a] = Nil /\ \A d \in Of(a) : row[d].name # n
    BY DEF AddDomain, AppFree
  <2>3. \A b \in Apps : Of(b)' = Of(b)
    BY DEF Of
  <2>4. \A q \in Requests : pc'[q] = "insert" => lock'[of'[q]] = q
    <3> SUFFICES ASSUME NEW q \in Requests \ {p}, pc[q] = "insert"
                 PROVE  lock'[of[q]] = q
      BY <2>1 DEF DomainsInv, DomainsTypeOK
    <3>1. lock[of[q]] = q /\ q # Nil /\ of[q] \in Apps
      BY DomainAssumption DEF DomainsInv, DomainsTypeOK, Inserting
    <3> QED BY <2>2, <3>1 DEF DomainsInv, DomainsTypeOK
  <2>5. DomainsTypeOK'
    BY <2>1, <2>3, <2>4 DEF DomainsInv, DomainsTypeOK, Calls, About
  <2>6. Inserting'
    <3> SUFFICES ASSUME NEW q \in Requests, pc'[q] = "insert"
                 PROVE  /\ of'[q] \in Apps /\ arg'[q] \in Names
                        /\ Cardinality(Of(of[q])') < MaxPerApp
                        /\ \A d \in Of(of[q])' : row'[d].name # arg'[q]
      BY DEF Inserting, Of
    <3>1. CASE q = p
      BY <2>1, <2>2, <2>3, <3>1 DEF Of
    <3>2. CASE q # p
      BY <2>1, <2>3, <3>2 DEF DomainsInv, Inserting, Of
    <3> QED BY <3>1, <3>2
  <2>7. LossesAnnounced'
    BY <2>1, <2>2, NothingLost DEF DomainsInv
  <2>8. Indexed' /\ OncePerApp' /\ Knowing' /\ IsFiniteSet(rows')
    BY <2>1 DEF DomainsInv, Indexed, OncePerApp, Knowing, About
  <2> QED BY <2>5, <2>6, <2>7, <2>8 DEF DomainsInv
<1> QED BY <1>1, <1>2 DEF AddDomain

LEMMA InsertDomainInv ==
    ASSUME DomainsInv, NEW p \in Requests, InsertDomain(p)
    PROVE  DomainsInv'
<1>0. PICK a \in Apps : a = of[p]
  BY DEF InsertDomain, DomainsInv, Inserting
<1>1. /\ a \in Apps /\ arg[p] \in Names /\ lock[a] = p
      /\ Cardinality(Of(a)) < MaxPerApp
      /\ \A e \in Of(a) : row[e].name # arg[p]
  BY <1>0 DEF InsertDomain, DomainsInv, Inserting, DomainsTypeOK
<1>2. PICK d \in Ids : /\ row[d] = Nil
                       /\ row' = [row EXCEPT ![d] = [app |-> a, name |-> arg[p]]]
                       /\ rows' = rows \cup {d}
  BY <1>0 DEF InsertDomain
<1>3. /\ pc' \in [Requests -> Calls] /\ of' \in [Requests -> Apps \cup {Nil}]
      /\ arg' \in [Requests -> Ids \cup Names \cup {Nil}]
      /\ seen' \in [Requests -> BOOLEAN]
      /\ pc'[p] = "announce" /\ of'[p] = a
      /\ \A q \in Requests \ {p} : pc'[q] = pc[q] /\ of'[q] = of[q] /\ arg'[q] = arg[q]
  <2>1. Goto(p, "announce", a, Nil, FALSE) /\ DomainsTypeOK
    BY <1>0 DEF InsertDomain, Announces, DomainsInv
  <2> QED BY <2>1 DEF Goto, DomainsTypeOK, Calls, About
<1>4. d \notin rows
  BY <1>2 DEF DomainsInv, DomainsTypeOK
<1>5. row'[d] = [app |-> a, name |-> arg[p]] /\ \A e \in rows : row'[e] = row[e] /\ row[e] # Nil
  BY <1>2, <1>4 DEF DomainsInv, DomainsTypeOK
<1>6. Of(a)' = Of(a) \cup {d} /\ d \notin Of(a) /\ \A b \in Apps \ {a} : Of(b)' = Of(b)
  <2>1. \A b \in Apps : {e \in rows' : row'[e].app = b}
                        = Of(b) \cup {e \in {d} : b = a}
    BY <1>2, <1>4, <1>5 DEF Of
  <2> QED BY <1>4, <2>1 DEF Of
<1>7. \A b \in Apps : IsFiniteSet(Of(b)) /\ Cardinality(Of(b)) \in Nat
  BY FS_Subset, FS_CardinalityType DEF Of, DomainsInv
<1>8. Cardinality(Of(a)') = Cardinality(Of(a)) + 1
  BY <1>1, <1>6, <1>7, FS_AddElement
<1>9. \A b \in Apps : Cardinality(Of(b)') <= MaxPerApp
  <2>1. Cardinality(Of(a)') <= MaxPerApp
    BY <1>1, <1>7, <1>8, DomainAssumption
  <2>2. \A b \in Apps \ {a} : Cardinality(Of(b)') <= MaxPerApp
    BY <1>6 DEF DomainsInv, DomainsTypeOK
  <2> QED BY <2>1, <2>2
<1>10. \A q \in Requests \ {p} : pc[q] = "insert" => of[q] \in Apps \ {a} /\ lock[of[q]] = q
  BY <1>1 DEF DomainsInv, DomainsTypeOK, Inserting
<1>11. lock' = [lock EXCEPT ![a] = Nil] /\ UNCHANGED <<app, verified, primary, unheard>>
  BY <1>0 DEF InsertDomain
<1>12. DomainsTypeOK'
  <2>1. row' \in [Ids -> {Nil} \cup [app : Apps, name : Names]]
    BY <1>1, <1>2 DEF DomainsInv, DomainsTypeOK
  <2>2. rows' \subseteq {e \in Ids : row'[e] # Nil}
    BY <1>1, <1>2, <1>5, DomainAssumption DEF DomainsInv, DomainsTypeOK
  <2>3. lock' \in [Apps -> Requests \cup {Nil}]
    BY <1>11 DEF DomainsInv, DomainsTypeOK
  <2>4. \A q \in Requests : pc'[q] = "insert" => lock'[of'[q]] = q
    BY <1>3, <1>10, <1>11 DEF DomainsInv, DomainsTypeOK
  <2>5. verified' \subseteq rows' /\ primary' \subseteq rows'
    BY <1>2, <1>11 DEF DomainsInv, DomainsTypeOK
  <2> QED BY <1>3, <1>9, <1>11, <2>1, <2>2, <2>3, <2>4, <2>5
          DEF DomainsInv, DomainsTypeOK, Calls, About
<1>13. IsFiniteSet(rows')
  BY <1>2, FS_AddElement DEF DomainsInv
<1>14. Indexed'
  BY <1>5, <1>11 DEF DomainsInv, Indexed, DomainsTypeOK
<1>15. OncePerApp'
  <2> SUFFICES ASSUME NEW e \in rows', NEW f \in rows', row'[e] = row'[f] PROVE e = f
    BY DEF OncePerApp
  <2>1. \A g \in rows : row'[g] # row'[d]
    BY <1>1, <1>5 DEF Of
  <2> QED BY <1>2, <1>5, <2>1 DEF DomainsInv, OncePerApp
<1>16. Inserting'
  <2> SUFFICES ASSUME NEW q \in Requests, pc'[q] = "insert"
               PROVE  /\ of'[q] \in Apps /\ arg'[q] \in Names
                      /\ Cardinality(Of(of[q])') < MaxPerApp
                      /\ \A e \in Of(of[q])' : row'[e].name # arg'[q]
    BY DEF Inserting, Of
  <2>1. q # p /\ pc[q] = "insert" /\ of'[q] = of[q] /\ arg'[q] = arg[q]
    BY <1>3
  <2>2. Of(of[q])' = Of(of[q])
    BY <1>6, <1>10, <2>1 DEF Of
  <2>3. \A e \in Of(of[q]) : row'[e] = row[e]
    BY <1>5 DEF Of
  <2> QED BY <2>1, <2>2, <2>3 DEF DomainsInv, Inserting
<1>17. Knowing'
  BY <1>2, <1>3 DEF DomainsInv, DomainsTypeOK, Knowing, About
<1>18. LossesAnnounced'
  BY <1>3, <1>11, NothingLost DEF InsertDomain, DomainsInv
<1> QED BY <1>12, <1>13, <1>14, <1>15, <1>16, <1>17, <1>18 DEF DomainsInv

(* What a request about a row knows of it.                                   *)
LEMMA KnownRow ==
    ASSUME DomainsInv, NEW p \in Requests, pc[p] \in About
    PROVE  arg[p] \in Ids /\ of[p] \in Apps /\ row[arg[p]].name \in Names
           /\ row[arg[p]] # Nil /\ of[p] = row[arg[p]].app
<1>1. arg[p] \in Ids /\ row[arg[p]] # Nil /\ of[p] = row[arg[p]].app
  BY DEF DomainsInv, Knowing
<1>2. row[arg[p]] \in [app : Apps, name : Names]
  BY <1>1 DEF DomainsInv, DomainsTypeOK
<1> QED BY <1>1, <1>2

LEMMA LoadsRowInv ==
    ASSUME DomainsInv, NEW p \in Requests, NEW d \in Ids,
           NEW l \in About, LoadsRow(p, d, l)
    PROVE  DomainsInv'
<1>1. row[d] # Nil /\ row[d] \in [app : Apps, name : Names]
  BY DEF LoadsRow, DomainsInv, DomainsTypeOK
<1>2. /\ Goto(p, l, row[d].app, d, d \in verified) /\ UNCHANGED <<tables, unheard>>
      /\ pc[p] \notin {"insert", "announce"} /\ l \in Calls \ {"insert"}
  BY DEF LoadsRow, Calls, About
<1> DEFINE a == row[d].app
           s == d \in verified
<1>3. a \in Apps \cup {Nil} /\ s \in BOOLEAN
  BY <1>1
<1>4. Goto(p, l, a, d, s)
  BY <1>2
<1> HIDE DEF s
<1> QED BY <1>1, <1>2, <1>3, <1>4, Quiet

LEMMA RequestEndsInv ==
    ASSUME DomainsInv, NEW p \in Requests, pc[p] \notin {"insert", "announce"},
           Ends(p), UNCHANGED <<tables, unheard>>
    PROVE  DomainsInv'
BY Quiet DEF Ends, Calls, About

LEMMA LookFindsInv ==
    ASSUME DomainsInv, NEW p \in Requests, LookFinds(p)
    PROVE  DomainsInv'
<1>1. /\ pc[p] = "verify" /\ arg[p] \in Ids /\ of[p] \in Apps /\ row[arg[p]].name \in Names
      /\ row[arg[p]] # Nil /\ of[p] = row[arg[p]].app
      /\ seen[p] \in BOOLEAN
  BY KnownRow DEF LookFinds, About, DomainsInv, DomainsTypeOK
<1>2. CASE Taken(p, of[p], row[arg[p]].name)
  BY <1>1, <1>2, Quiet DEF LookFinds, Taken, Calls, About
<1>3. CASE Goto(p, "store", of[p], arg[p], seen[p])
  BY <1>1, <1>3, Quiet DEF LookFinds, Calls, About
<1> QED BY <1>2, <1>3 DEF LookFinds

(* Verifying a row takes nothing from a live app.                            *)
LEMMA StoreVerifiedInv ==
    ASSUME DomainsInv, NEW p \in Requests, StoreVerified(p)
    PROVE  DomainsInv'
<1>1. /\ pc[p] = "store" /\ arg[p] \in Ids /\ of[p] \in Apps /\ row[arg[p]].name \in Names
      /\ row[arg[p]] # Nil /\ of[p] = row[arg[p]].app
  BY KnownRow DEF StoreVerified, About
<1> DEFINE d == arg[p]
           freed == HeldByDeleted(row[d].name)
           kept == verified \ freed
<1>2. CASE Taken(p, of[p], row[d].name) /\ UNCHANGED <<tables, unheard>>
  BY <1>1, <1>2, Quiet DEF Taken, Calls, About
<1>3. CASE /\ d \in rows => Conflicts(d, kept) = {}
           /\ verified' = kept \cup ({d} \cap rows)
           /\ primary' = primary \ freed
           /\ IF seen[p] THEN Ends(p) ELSE Announces(p)
           /\ UNCHANGED <<app, row, rows, lock>>
           /\ Tracks
  <2>1. \A e \in verified : Live(e) => e \in verified'
    BY <1>3 DEF HeldByDeleted
  <2>2. \A e \in primary : Live(e) => e \in primary' \/ e \notin verified
    BY <1>3 DEF HeldByDeleted
  <2>3. \A e : Live(e)' = Live(e)
    BY <1>3 DEF Live
  <2>4. \A n \in Names : ServedBy(n) \subseteq ServedBy(n)'
    BY <1>3, <2>1, <2>3 DEF ServedBy
  <2>5. \A a \in Apps : RedirectsTo(a) \subseteq RedirectsTo(a)'
    BY <1>3, <2>1, <2>2, <2>3 DEF RedirectsTo
  <2>6. unheard' = unheard
    BY <1>3, <2>4, <2>5 DEF Tracks
  <2>7. verified' \subseteq rows' /\ primary' \subseteq rows'
    BY <1>3 DEF DomainsInv, DomainsTypeOK
  <2>8. Indexed'
    <3>1. kept \subseteq verified
      OBVIOUS
    <3>2. d \in rows => \A e \in kept : row[e].name = row[d].name => e = d
      BY <1>3 DEF Conflicts
    <3> QED BY <1>3, <3>1, <3>2 DEF DomainsInv, Indexed
  <2>9. unheard' \subseteq Names \cup Apps
    BY <2>6 DEF DomainsInv, DomainsTypeOK
  <2>10. \A q \in Requests \ {p} : pc'[q] = pc[q] /\ of'[q] = of[q]
    BY <1>3, GotoFacts DEF Ends, Announces, Goto, DomainsInv, DomainsTypeOK
  <2>11. LossesAnnounced'
    BY <1>1, <2>6, <2>10, NothingLost DEF DomainsInv
  <2>12. CASE Ends(p)
    BY <1>1, <1>3, <2>7, <2>8, <2>9, <2>11, <2>12, Leaves DEF Ends, Calls, About
  <2>13. CASE Announces(p)
    BY <1>1, <1>3, <2>7, <2>8, <2>9, <2>11, <2>13, Leaves DEF Announces, Calls, About
  <2> QED BY <1>3, <2>12, <2>13
<1> QED BY <1>2, <1>3 DEF StoreVerified

(* Dropping a row's verification takes it from the row's app only.           *)
LEMMA DropsRedirect ==
    ASSUME DomainsInv, NEW d \in Ids, row[d] # Nil, UNCHANGED <<app, row>>,
           verified \ {d} \subseteq verified', primary \ {d} \subseteq primary'
    PROVE  \A b \in Apps \ {row[d].app} : RedirectsTo(b) \subseteq RedirectsTo(b)'
<1>1. \A e : Live(e)' = Live(e)
  BY DEF Live
<1> QED BY <1>1 DEF RedirectsTo

LEMMA LookMissesInv ==
    ASSUME DomainsInv, NEW p \in Requests, LookMisses(p)
    PROVE  DomainsInv'
<1>1. /\ pc[p] = "verify" /\ arg[p] \in Ids /\ of[p] \in Apps
      /\ row[arg[p]] # Nil /\ of[p] = row[arg[p]].app
  BY KnownRow DEF LookMisses, About
<1>2. CASE ~seen[p]
  <2>1. Ends(p) /\ UNCHANGED <<app, row, rows, lock, verified, primary>> /\ Tracks
    BY <1>2 DEF LookMisses, DropHeard
  <2>2. \A x : ServedBy(x)' = ServedBy(x) /\ RedirectsTo(x)' = RedirectsTo(x)
    BY <2>1 DEF ServedBy, RedirectsTo, Live
  <2>3. unheard' = unheard
    BY <2>1, <2>2 DEF Tracks
  <2> QED BY <1>1, <2>1, <2>3, RequestEndsInv
<1>3. CASE seen[p]
  <2>1. /\ verified' = verified \ {arg[p]} /\ primary' = primary \ {arg[p]}
        /\ Goto(p, "announce", of[p], Nil, FALSE)
        /\ UNCHANGED <<app, row, rows, lock>> /\ Tracks
    BY <1>3 DEF LookMisses, DropHeard, Announces
  <2>2. Indexed' /\ verified' \subseteq rows' /\ primary' \subseteq rows'
    BY <2>1 DEF DomainsInv, DomainsTypeOK, Indexed
  <2>3. \A b \in Apps \ {of[p]} : RedirectsTo(b) \subseteq RedirectsTo(b)'
    BY <1>1, <2>1, DropsRedirect
  <2> QED BY <1>1, <2>1, <2>2, <2>3, Loses
<1> QED BY <1>2, <1>3

LEMMA SweepDropsInv ==
    ASSUME DomainsInv, NEW p \in Requests, SweepDrops(p)
    PROVE  DomainsInv'
<1>1. /\ pc[p] = "sweep" /\ arg[p] \in Ids /\ of[p] \in Apps
      /\ row[arg[p]] # Nil /\ of[p] = row[arg[p]].app
  BY KnownRow DEF SweepDrops, About
<1>2. CASE arg[p] \notin verified
  <2>1. Ends(p) /\ UNCHANGED <<app, row, rows, lock, verified, primary>> /\ Tracks
    BY <1>2 DEF SweepDrops
  <2>2. \A x : ServedBy(x)' = ServedBy(x) /\ RedirectsTo(x)' = RedirectsTo(x)
    BY <2>1 DEF ServedBy, RedirectsTo, Live
  <2>3. unheard' = unheard
    BY <2>1, <2>2 DEF Tracks
  <2> QED BY <1>1, <2>1, <2>3, RequestEndsInv
<1>3. CASE arg[p] \in verified
  <2>1. /\ verified' = verified \ {arg[p]} /\ primary' = primary \ {arg[p]}
        /\ Goto(p, "announce", of[p], Nil, FALSE)
        /\ UNCHANGED <<app, row, rows, lock>> /\ Tracks
    BY <1>3 DEF SweepDrops, Announces
  <2>2. Indexed' /\ verified' \subseteq rows' /\ primary' \subseteq rows'
    BY <2>1 DEF DomainsInv, DomainsTypeOK, Indexed
  <2>3. \A b \in Apps \ {of[p]} : RedirectsTo(b) \subseteq RedirectsTo(b)'
    BY <1>1, <2>1, DropsRedirect
  <2> QED BY <1>1, <2>1, <2>2, <2>3, Loses
<1> QED BY <1>2, <1>3

LEMMA DeleteRowInv ==
    ASSUME DomainsInv, NEW p \in Requests, DeleteRow(p)
    PROVE  DomainsInv'
<1>1. /\ pc[p] = "remove" /\ arg[p] \in Ids /\ of[p] \in Apps
      /\ row[arg[p]] # Nil /\ of[p] = row[arg[p]].app
  BY KnownRow DEF DeleteRow, About
<1>2. /\ rows' = rows \ {arg[p]}
      /\ verified' = verified \ {arg[p]} /\ primary' = primary \ {arg[p]}
      /\ Goto(p, "announce", of[p], Nil, FALSE)
      /\ UNCHANGED <<app, row, lock>> /\ Tracks
  BY DEF DeleteRow, Without, Announces
<1>3. Indexed' /\ verified' \subseteq rows' /\ primary' \subseteq rows' /\ rows' \subseteq rows
  BY <1>2 DEF DomainsInv, DomainsTypeOK, Indexed
<1>4. \A b \in Apps \ {of[p]} : RedirectsTo(b) \subseteq RedirectsTo(b)'
  BY <1>1, <1>2, DropsRedirect
<1> QED BY <1>1, <1>2, <1>3, <1>4, Loses

(* A primary mark of one app's rows leaves the other apps' redirects alone.  *)
LEMMA PrimaryInv ==
    ASSUME DomainsInv, NEW p \in Requests, pc[p] \notin {"insert", "announce"},
           NEW a \in Apps, Goto(p, "announce", a, Nil, FALSE),
           UNCHANGED <<app, row, rows, verified, lock>>,
           primary \ Of(a) \subseteq primary', primary' \subseteq rows, Tracks
    PROVE  DomainsInv'
<1>1. Indexed' /\ verified' \subseteq rows' /\ primary' \subseteq rows'
  BY DEF DomainsInv, DomainsTypeOK, Indexed
<1>2. \A e : Live(e)' = Live(e)
  BY DEF Live
<1>3. \A b \in Apps \ {a} : RedirectsTo(b) \subseteq RedirectsTo(b)'
  BY <1>2 DEF RedirectsTo, Of
<1> QED BY <1>1, <1>3, Loses

LEMMA SetPrimaryInv ==
    ASSUME DomainsInv, NEW p \in Requests, SetPrimary(p)
    PROVE  DomainsInv'
<1>1. pc[p] = "primary" /\ of[p] \in Apps
  BY KnownRow DEF SetPrimary, About
<1>2. primary \ Of(of[p]) \subseteq primary' /\ primary' \subseteq rows
  BY DEF SetPrimary, DomainsInv, DomainsTypeOK
<1> QED BY <1>1, <1>2, PrimaryInv DEF SetPrimary, Announces

LEMMA ClearPrimaryInv ==
    ASSUME DomainsInv, NEW p \in Requests, NEW a \in Apps, ClearPrimary(p, a)
    PROVE  DomainsInv'
<1>1. primary \ Of(a) \subseteq primary' /\ primary' \subseteq rows
  BY DEF ClearPrimary, DomainsInv, DomainsTypeOK
<1> QED BY <1>1, PrimaryInv DEF ClearPrimary

(* An announcement made, or excused, is of one app and every name.           *)
LEMMA AnnouncedInv ==
    ASSUME DomainsInv, NEW p \in Requests, pc[p] = "announce",
           unheard' = unheard \ AnnouncedBy(of[p]), Ends(p), UNCHANGED tables
    PROVE  DomainsInv'
<1>1. \A q \in Requests \ {p} : pc'[q] = pc[q] /\ of'[q] = of[q]
  BY DEF Ends, Goto, DomainsInv, DomainsTypeOK
<1>2. LossesAnnounced'
  <2> SUFFICES ASSUME NEW x \in unheard'
               PROVE  \E q \in Requests : pc'[q] = "announce" /\ x \in AnnouncedBy(of'[q])
    BY DEF LossesAnnounced, AnnouncedBy
  <2>1. PICK q \in Requests : pc[q] = "announce" /\ x \in AnnouncedBy(of[q])
    BY DEF DomainsInv, LossesAnnounced
  <2> QED BY <1>1, <2>1
<1>3. Indexed' /\ verified' \subseteq rows' /\ primary' \subseteq rows'
      /\ unheard' \subseteq Names \cup Apps
  BY DEF DomainsInv, DomainsTypeOK, Indexed
<1> QED BY <1>2, <1>3, Leaves DEF Ends, Calls, About

LEMMA RequestFailsInv ==
    ASSUME DomainsInv, NEW p \in Requests, Fails(p)
    PROVE  DomainsInv'
<1>1. /\ pc' \in [Requests -> Calls] /\ of' \in [Requests -> Apps \cup {Nil}]
      /\ arg' \in [Requests -> Ids \cup Names \cup {Nil}]
      /\ seen' \in [Requests -> BOOLEAN]
      /\ pc'[p] = "idle"
      /\ \A q \in Requests \ {p} : pc'[q] = pc[q] /\ of'[q] = of[q] /\ arg'[q] = arg[q]
  <2>1. Goto(p, "idle", Nil, Nil, FALSE) /\ DomainsTypeOK
    BY DEF Fails, Ends, DomainsInv
  <2> QED BY <2>1 DEF Goto, DomainsTypeOK, Calls, About
<1>2. /\ lock' = [a \in Apps |-> IF lock[a] = p THEN Nil ELSE lock[a]]
      /\ UNCHANGED <<app, row, rows, verified, primary>>
      /\ unheard' = IF pc[p] = "announce" THEN unheard \ AnnouncedBy(of[p]) ELSE unheard
  BY DEF Fails
<1>3. \A b \in Apps : Of(b)' = Of(b)
  BY <1>2 DEF Of
<1>4. \A q \in Requests : pc'[q] = "insert" => lock'[of'[q]] = q
  <2> SUFFICES ASSUME NEW q \in Requests \ {p}, pc[q] = "insert" PROVE lock'[of[q]] = q
    BY <1>1
  <2>1. lock[of[q]] = q /\ of[q] \in Apps
    BY DEF DomainsInv, DomainsTypeOK, Inserting
  <2> QED BY <1>2, <2>1
<1>5. DomainsTypeOK'
  <2>1. lock' \in [Apps -> Requests \cup {Nil}]
    BY <1>2 DEF DomainsInv, DomainsTypeOK
  <2>2. \A b \in Apps : Cardinality(Of(b)') <= MaxPerApp
    BY <1>3 DEF DomainsInv, DomainsTypeOK
  <2> QED BY <1>1, <1>2, <1>4, <2>1, <2>2 DEF DomainsInv, DomainsTypeOK, Calls, About
<1>6. Inserting'
  <2> SUFFICES ASSUME NEW q \in Requests, pc'[q] = "insert"
               PROVE  /\ of'[q] \in Apps /\ arg'[q] \in Names
                      /\ Cardinality(Of(of[q])') < MaxPerApp
                      /\ \A e \in Of(of[q])' : row'[e].name # arg'[q]
    BY DEF Inserting, Of
  <2>1. q # p /\ pc[q] = "insert" /\ of'[q] = of[q] /\ arg'[q] = arg[q]
    BY <1>1
  <2>2. Of(of[q])' = Of(of[q])
    BY <1>2, <2>1 DEF Of
  <2> QED BY <1>2, <2>1, <2>2 DEF DomainsInv, Inserting
<1>7. LossesAnnounced'
  <2> SUFFICES ASSUME NEW x \in unheard'
               PROVE  \E q \in Requests : pc'[q] = "announce" /\ x \in AnnouncedBy(of'[q])
    BY DEF LossesAnnounced, AnnouncedBy
  <2>1. PICK q \in Requests : pc[q] = "announce" /\ x \in AnnouncedBy(of[q])
    BY <1>2 DEF DomainsInv, LossesAnnounced
  <2> QED BY <1>1, <1>2, <2>1
<1>8. Indexed' /\ OncePerApp' /\ Knowing' /\ IsFiniteSet(rows')
  BY <1>1, <1>2 DEF DomainsInv, Indexed, OncePerApp, Knowing, About
<1> QED BY <1>5, <1>6, <1>7, <1>8 DEF DomainsInv

(* The deletion and the purge move no request.                               *)
LEMMA AppGoesInv ==
    ASSUME DomainsInv, app' \in [Apps -> {"live", "deleted", "purged"}],
           rows' \subseteq rows, verified' \subseteq verified \cap rows',
           primary' \subseteq primary \cap rows', UNCHANGED <<row, lock, requests, unheard>>
    PROVE  DomainsInv'
<1>1. IsFiniteSet(rows) /\ IsFiniteSet(rows')
  BY FS_Subset DEF DomainsInv
<1>2. \A b \in Apps : /\ Of(b)' \subseteq Of(b)
                      /\ Cardinality(Of(b)') <= Cardinality(Of(b))
                      /\ Cardinality(Of(b)') \in Nat /\ Cardinality(Of(b)) \in Nat
  <2> TAKE b \in Apps
  <2>1. Of(b)' \subseteq Of(b) /\ Of(b) \subseteq rows
    BY DEF Of
  <2> QED BY <1>1, <2>1, FS_Subset, FS_CardinalityType
<1>3. \A b \in Apps : Cardinality(Of(b)') <= MaxPerApp
  BY <1>2, DomainAssumption DEF DomainsInv, DomainsTypeOK
<1>4. DomainsTypeOK'
  <2>1. \A q \in Requests : pc'[q] = "insert" => lock'[of'[q]] = q
    BY DEF DomainsInv, DomainsTypeOK
  <2> QED BY <1>3, <2>1 DEF DomainsInv, DomainsTypeOK
<1>5. Inserting'
  <2> SUFFICES ASSUME NEW q \in Requests, pc[q] = "insert"
               PROVE  /\ of[q] \in Apps /\ arg[q] \in Names
                      /\ Cardinality(Of(of[q])') < MaxPerApp
                      /\ \A e \in Of(of[q])' : row[e].name # arg[q]
    BY DEF Inserting, Of
  <2>1. /\ of[q] \in Apps /\ arg[q] \in Names
        /\ Cardinality(Of(of[q])) < MaxPerApp
        /\ \A e \in Of(of[q]) : row[e].name # arg[q]
    BY DEF DomainsInv, Inserting
  <2>2. Of(of[q])' = {e \in rows' : row[e].app = of[q]}
    BY DEF Of
  <2>3. \A b \in Apps : {e \in rows' : row[e].app = b} \subseteq Of(b)
                     /\ Cardinality({e \in rows' : row[e].app = b}) <= Cardinality(Of(b))
                     /\ Cardinality({e \in rows' : row[e].app = b}) \in Nat
    BY <1>2 DEF Of
  <2> QED BY <1>2, <2>1, <2>2, <2>3, DomainAssumption
<1>6. Indexed' /\ OncePerApp' /\ Knowing' /\ LossesAnnounced'
  BY DEF DomainsInv, Indexed, OncePerApp, Knowing, LossesAnnounced, AnnouncedBy
<1> QED BY <1>1, <1>4, <1>5, <1>6 DEF DomainsInv

LEMMA DomainsStepInv == DomainsInv /\ [DomainsNext]_domainVars => DomainsInv'
<1> SUFFICES ASSUME DomainsInv, [DomainsNext]_domainVars PROVE DomainsInv'
  OBVIOUS
<1>1. CASE UNCHANGED domainVars
  <2>1. rows' \subseteq rows /\ verified' \subseteq verified \cap rows'
        /\ primary' \subseteq primary \cap rows'
        /\ app' \in [Apps -> {"live", "deleted", "purged"}]
    BY <1>1 DEF domainVars, DomainsInv, DomainsTypeOK
  <2> QED BY <1>1, <2>1, AppGoesInv DEF domainVars
<1>2. ASSUME NEW p \in Requests, Begin(p) PROVE DomainsInv'
  <2>1. CASE \E d \in Ids : VerifyDomain(p, d)
    BY <2>1, LoadsRowInv DEF VerifyDomain, About
  <2>2. CASE \E d \in Ids : SweepSelects(p, d)
    BY <2>2, LoadsRowInv DEF SweepSelects, About
  <2>3. CASE \E d \in Ids : ChoosePrimary(p, d)
    BY <2>3, LoadsRowInv DEF ChoosePrimary, About
  <2>4. CASE \E d \in Ids : RemoveDomain(p, d)
    BY <2>4, LoadsRowInv DEF RemoveDomain, About
  <2> QED BY <1>2, <2>1, <2>2, <2>3, <2>4, AddDomainInv, ClearPrimaryInv DEF Begin
<1>3. ASSUME NEW p \in Requests, Continue(p) PROVE DomainsInv'
  <2>1. CASE LookFails(p) \/ Refuse(p)
    BY <2>1, RequestEndsInv DEF LookFails, Refuse
  <2>2. CASE AnnounceChange(p)
    BY <2>2, AnnouncedInv DEF AnnounceChange
  <2> QED BY <1>3, <2>1, <2>2, InsertDomainInv, LookFindsInv, StoreVerifiedInv, LookMissesInv,
             SweepDropsInv, SetPrimaryInv, DeleteRowInv, RequestFailsInv DEF Continue
<1>4. ASSUME NEW a \in Apps, DeleteApp(a) PROVE DomainsInv'
  <2>1. rows' \subseteq rows /\ verified' \subseteq verified \cap rows'
        /\ primary' \subseteq primary \cap rows'
        /\ app' \in [Apps -> {"live", "deleted", "purged"}]
    BY <1>4 DEF DeleteApp, DomainsInv, DomainsTypeOK
  <2> QED BY <1>4, <2>1, AppGoesInv DEF DeleteApp
<1>5. ASSUME NEW a \in Apps, PurgeApp(a) PROVE DomainsInv'
  <2>1. rows' \subseteq rows /\ verified' \subseteq verified \cap rows'
        /\ primary' \subseteq primary \cap rows'
        /\ app' \in [Apps -> {"live", "deleted", "purged"}]
    BY <1>5 DEF PurgeApp, Without, DomainsInv, DomainsTypeOK
  <2> QED BY <1>5, <2>1, AppGoesInv DEF PurgeApp
<1> QED BY <1>1, <1>2, <1>3, <1>4, <1>5 DEF DomainsNext

-----------------------------------------------------------------------------
(* Rows, marks, locks and requests keep their types; an app never has more   *)
(* domains than it may, however many are added at once.                      *)
THEOREM DomainsWellTyped == DomainsSpec => []DomainsTypeOK
<1>1. DomainsInv => DomainsTypeOK
  BY DEF DomainsInv
<1> QED BY <1>1, DomainsInitInv, DomainsStepInv, PTL DEF DomainsSpec

(* A custom host is answered with at most one app, and an app's own host     *)
(* redirects to hosts that are answered with that app, for any number of     *)
(* apps, names, requests and workers of the sweep.                           *)
THEOREM HostsHaveOneApp == DomainsSpec => []OneAppPerHost
<1>1. ASSUME DomainsInv PROVE OneAppPerHost
  <2>1. \A n \in Names : \A a, b \in ServedBy(n) : a = b
    BY <1>1 DEF DomainsInv, Indexed, ServedBy
  <2>2. \A n \in Names : Cardinality(ServedBy(n)) <= 1
    <3> TAKE n \in Names
    <3>1. CASE ServedBy(n) = {}
      BY <3>1, FS_EmptySet
    <3>2. CASE ServedBy(n) # {}
      <4>1. PICK a \in ServedBy(n) : ServedBy(n) = {a}
        BY <2>1, <3>2
      <4>2. Cardinality({a}) = 1
        BY FS_Singleton
      <4> QED BY <4>1, <4>2
    <3> QED BY <3>1, <3>2
  <2>3. \A a \in Apps : \A n \in RedirectsTo(a) : n \in Names /\ a \in ServedBy(n)
    <3> SUFFICES ASSUME NEW a \in Apps,
                        NEW d \in primary \cap verified, row[d].app = a, Live(d)
                 PROVE  row[d].name \in Names /\ a \in ServedBy(row[d].name)
      BY DEF RedirectsTo
    <3>1. d \in Ids /\ row[d] \in [app : Apps, name : Names]
      BY <1>1 DEF DomainsInv, DomainsTypeOK
    <3> QED BY <3>1 DEF ServedBy
  <2> QED BY <2>1, <2>2, <2>3 DEF OneAppPerHost
<1>2. DomainsInv => OneAppPerHost
  BY <1>1
<1> QED BY <1>2, DomainsInitInv, DomainsStepInv, PTL DEF DomainsSpec

(* Whatever stops a host or a redirect from being answered is announced by   *)
(* the request that did it, whoever else changed the row since it was read.  *)
THEOREM LossesAreAnnounced == DomainsSpec => []LossesAnnounced
<1>1. DomainsInv => LossesAnnounced
  BY DEF DomainsInv
<1> QED BY <1>1, DomainsInitInv, DomainsStepInv, PTL DEF DomainsSpec

(* A name is refused only while a live app other than the asking one has it. *)
LEMMA RefusedIsHeld ==
    ASSUME DomainsInv, [DomainsNext]_domainVars, NEW p \in Requests,
           pc[p] # "taken", pc'[p] = "taken"
    PROVE  \E d \in verified :
              Live(d) /\ row[d].name = arg'[p] /\ row[d].app # of'[p]
<1>1. PICK q \in Requests : Begin(q) \/ Continue(q)
  BY DEF DomainsNext, domainVars, DeleteApp, PurgeApp
<1> USE DEF Goto, DomainsInv, DomainsTypeOK
<1>2. q = p
  <2>1. ASSUME NEW l, NEW a, NEW x, NEW s, Goto(q, l, a, x, s) PROVE q = p
    BY <2>1
  <2> HIDE DEF Goto, DomainsInv, DomainsTypeOK
  <2> QED BY <1>1, <2>1 DEF Begin, Continue, AddDomain, Taken, VerifyDomain, SweepSelects,
             ChoosePrimary, RemoveDomain, LoadsRow, ClearPrimary, InsertDomain, LookFinds,
             StoreVerified, LookMisses, LookFails, SweepDrops, SetPrimary, DeleteRow,
             AnnounceChange, Announces, Refuse, Fails, Ends
<1>3. CASE \E a \in Apps, n \in Names : AddDomain(p, a, n)
  BY <1>3 DEF AddDomain, Taken, Holders
<1>4. CASE LookFinds(p)
  BY <1>4 DEF LookFinds, Taken, Holders
<1>5. CASE StoreVerified(p)
  <2> DEFINE d == arg[p]
             kept == verified \ HeldByDeleted(row[d].name)
  <2>1. /\ d \in rows /\ Conflicts(d, kept) # {}
        /\ of'[p] = of[p] /\ arg'[p] = row[d].name /\ of[p] = row[d].app
    BY <1>5 DEF StoreVerified, Taken, Ends, Announces, Knowing, About
  <2>2. PICK e \in kept : e # d /\ row[e].name = row[d].name
    BY <2>1 DEF Conflicts
  <2>3. Live(e) /\ e \in verified
    BY <2>2 DEF HeldByDeleted
  <2>4. row[e].app # row[d].app
    <3>1. e \in rows /\ d \in rows /\ row[e] # row[d]
      BY <2>1, <2>2, <2>3 DEF OncePerApp
    <3>2. row[e] \in [app : Apps, name : Names] /\ row[d] \in [app : Apps, name : Names]
      BY <3>1
    <3> QED BY <2>2, <3>1, <3>2
  <2> QED BY <2>1, <2>2, <2>3, <2>4
<1>6. CASE ~(LookFinds(p) \/ StoreVerified(p) \/ \E a \in Apps, n \in Names : AddDomain(p, a, n))
  BY <1>1, <1>2, <1>6 DEF Begin, Continue, VerifyDomain, SweepSelects,
     ChoosePrimary, RemoveDomain, LoadsRow, ClearPrimary, InsertDomain, LookMisses,
     LookFails, SweepDrops, SetPrimary, DeleteRow, AnnounceChange, Announces, Refuse, Fails, Ends
<1> QED BY <1>3, <1>4, <1>5, <1>6

(* The names of deleted apps are free: a claim or a check that is refused    *)
(* meets a live app that holds the name at that moment.                      *)
THEOREM DeletedNamesAreFree == DomainsSpec => DeletedHoldNothing
<1>1. DomainsInv /\ [DomainsNext]_domainVars =>
        [\A p \in Requests : pc[p] # "taken" /\ pc'[p] = "taken" =>
            \E d \in verified :
                Live(d) /\ row[d].name = arg'[p] /\ row[d].app # of'[p]]_domainVars
  BY RefusedIsHeld
<1> QED BY <1>1, DomainsInitInv, DomainsStepInv, PTL DEF DomainsSpec, DeletedHoldNothing
=============================================================================
