-------------------------- MODULE AppWritesProofs --------------------------
(***************************************************************************)
(* AppWrites implements AppHistory, for any number of users, sessions and  *)
(* files: an edit is always the newest version with the call's files       *)
(* changed, a restore a copy, although every write reads, compiles and     *)
(* stores in separate steps and its lease may end meanwhile.  The          *)
(* baseVersion check under the row lock is what makes it so: see           *)
(* StoreWriteSteps.                                                        *)
(***************************************************************************)
EXTENDS AppWrites, TLAPS

USE SessionAssumption, AttemptAssumption

LEMMA InitInv == Init => Inv
<1> SUFFICES ASSUME Init PROVE Inv
  OBVIOUS
<1>1. [f \in Files |-> 1] \in [Files -> Nat]
  OBVIOUS
<1>2. versions \in Seq([Files -> Nat]) /\ Len(versions) = 1
  BY <1>1 DEF Init
<1>3. PICK u \in Users : author = << [user |-> u, via |-> "create", base |-> 0, held |-> FALSE] >>
  BY DEF Init
<1>4. author \in Seq([user : Users, via : Vias, base : Nat, held : BOOLEAN]) /\ Len(author) = 1
  BY <1>3 DEF Vias
<1> QED BY <1>2, <1>4 DEF Init, Inv

(* Storing a version only appends it and its author. *)
LEMMA StoreAppends ==
    ASSUME Inv, NEW v \in [Files -> Nat],
           NEW who \in [user : Users, via : Vias, base : Nat, held : BOOLEAN], Store(v, who)
    PROVE  /\ versions' \in Seq([Files -> Nat])
           /\ author' \in Seq([user : Users, via : Vias, base : Nat, held : BOOLEAN])
           /\ Len(author') = Len(versions')
           /\ Newest' = Newest + 1 /\ Newest' \in 1..MaxVersions /\ Newest \in 1..Newest'
           /\ versions' = Append(versions, v)
           /\ Kinds' = Append(Kinds, IF who.via \in {"restore", "dashboard"}
                                     THEN "copy" ELSE who.via)
<1> DEFINE Authors0 == [user : Users, via : Vias, base : Nat, held : BOOLEAN]
           Kind(a) == IF a.via \in {"restore", "dashboard"} THEN "copy" ELSE a.via
<1>1. author \in Seq(Authors0) /\ Len(author) = Len(versions) /\ Len(versions) \in Nat \ {0}
  BY DEF Inv
<1>2. author' = Append(author, who) /\ versions' = Append(versions, v) /\ Newest < MaxVersions
  BY DEF Store
<1>3. /\ author' \in Seq(Authors0) /\ Len(author') = Len(author) + 1
      /\ \A n \in 1..Len(author) : author'[n] = author[n]
      /\ author'[Len(author) + 1] = who
  BY <1>1, <1>2
<1>4. Kinds' = Append(Kinds, Kind(who))
  <2>1. Kinds = [n \in 1..Len(author) |-> Kind(author[n])]
    BY DEF Kinds
  <2>2. Kinds' = [n \in 1..(Len(author) + 1) |-> Kind(author'[n])]
    BY <1>3 DEF Kinds
  <2>3. Len(Kinds) = Len(author)
    BY <1>1, <2>1
  <2>4. Append(Kinds, Kind(who)) =
          [n \in 1..(Len(author) + 1) |-> IF n = Len(author) + 1 THEN Kind(who) ELSE Kinds[n]]
    BY <1>1, <2>1, <2>3
  <2>5. ASSUME NEW n \in 1..(Len(author) + 1)
        PROVE  Kind(author'[n]) = IF n = Len(author) + 1 THEN Kind(who) ELSE Kinds[n]
    BY <1>1, <1>3, <2>1
  <2> QED BY <2>2, <2>4, <2>5
<1>5. versions' \in Seq([Files -> Nat]) /\ Len(versions') = Len(versions) + 1
  BY <1>2 DEF Inv
<1> QED BY <1>1, <1>2, <1>3, <1>4, <1>5 DEF Newest, Inv

(* A write stores its base with its files changed; the base of an edit is the *)
(* newest version.                                                            *)
LEMMA StoreWriteSteps ==
    ASSUME Inv, NEW s \in Sessions, StoreWrite(s)
    PROVE  /\ Merged(s) \in [Files -> Nat]
           /\ call[s].files \in SUBSET Files /\ call[s].kind \in {"edit", "whole"}
           /\ base[s] \in 1..Newest
           /\ Merged(s) = History!Changed(versions[base[s]], call[s].files)
           /\ call[s].kind = "edit" => base[s] = Newest
<1>1. call[s].kind \in {"edit", "whole"} /\ call[s].files \in SUBSET Files /\ pc[s] = "store"
  BY DEF StoreWrite, Inv, Calls
<1>2. base[s] \in 1..Newest
  BY <1>1 DEF Inv
<1>3. versions[base[s]] \in [Files -> Nat] /\ Newest \in Nat
  BY <1>2 DEF Inv, Newest
<1>4. call[s].kind = "edit" => base[s] = Newest
  BY DEF StoreWrite, OnBase
<1> QED BY <1>1, <1>2, <1>3, <1>4 DEF Merged, History!Changed, Newest

(* A call that answers leaves the other calls as they are. *)
LEMMA AnswerKeeps ==
    ASSUME Inv, NEW s \in Sessions, Answer(s)
    PROVE  /\ pc' \in [Sessions -> {"idle", "read", "store"}]
           /\ call' \in [Sessions -> Calls \cup {None}]
           /\ base' \in [Sessions -> Nat] /\ holding' \in [Sessions -> BOOLEAN]
           /\ \A t \in Sessions : pc'[t] # "idle" =>
                pc[t] # "idle" /\ pc'[t] = pc[t] /\ call'[t] = call[t] /\ base'[t] = base[t]
BY DEF Inv, Answer

LEMMA CopyIsTyped ==
    ASSUME Inv, NEW n \in 1..Newest
    PROVE  versions[n] \in [Files -> Nat]
BY DEF Inv, Newest

(* Every step keeps Inv and is a step of AppHistory or leaves it alone. *)
LEMMA Step ==
    ASSUME Inv, [Next]_vars
    PROVE  Inv' /\ [History!Next]_<<versions, Kinds>>
<1>1. ASSUME NEW s \in Sessions, StoreWrite(s) PROVE Inv' /\ History!Next
  <2> DEFINE who == [user |-> UserOf[s], via |-> call[s].kind, base |-> base[s], held |-> holding[s]]
  <2>1. Store(Merged(s), who) /\ Answer(s) /\ UNCHANGED dashboard
    BY <1>1 DEF StoreWrite
  <2>2. /\ Merged(s) \in [Files -> Nat]
        /\ call[s].files \in SUBSET Files /\ call[s].kind \in {"edit", "whole"}
        /\ base[s] \in 1..Newest
        /\ Merged(s) = History!Changed(versions[base[s]], call[s].files)
        /\ call[s].kind = "edit" => base[s] = Newest
    BY <1>1, StoreWriteSteps
  <2>3. who \in [user : Users, via : Vias, base : Nat, held : BOOLEAN]
    BY <2>2 DEF Inv, Vias, Newest
  <2>4. /\ versions' \in Seq([Files -> Nat])
        /\ author' \in Seq([user : Users, via : Vias, base : Nat, held : BOOLEAN])
        /\ Len(author') = Len(versions')
        /\ Newest' = Newest + 1 /\ Newest' \in 1..MaxVersions /\ Newest \in 1..Newest'
        /\ versions' = Append(versions, Merged(s))
        /\ Kinds' = Append(Kinds, call[s].kind)
    BY <2>1, <2>2, <2>3, StoreAppends
  <2>5. Inv'
    <3>1. Newest \in Nat /\ Newest' = Newest + 1 /\ Newest' = Len(versions')
      BY <2>4 DEF Inv, Newest
    <3>2. /\ pc' \in [Sessions -> {"idle", "read", "store"}]
          /\ call' \in [Sessions -> Calls \cup {None}]
          /\ base' \in [Sessions -> Nat] /\ holding' \in [Sessions -> BOOLEAN]
          /\ \A t \in Sessions : pc'[t] # "idle" =>
               pc[t] # "idle" /\ pc'[t] = pc[t] /\ call'[t] = call[t] /\ base'[t] = base[t]
      BY <2>1, AnswerKeeps
    <3>3. \A t \in Sessions : pc'[t] # "idle" =>
            /\ call'[t] \in Calls
            /\ call'[t].kind = "restore" => pc'[t] = "store" /\ call'[t].from \in 1..Newest'
            /\ call'[t].kind # "restore" /\ pc'[t] = "store" => base'[t] \in 1..Newest'
      BY <3>1, <3>2 DEF Inv
    <3>4. dashboard' # None => dashboard'.from \in 1..Newest' /\ dashboard'.user \in Users
      BY <2>1, <3>1 DEF Inv
    <3> QED BY <2>4, <3>1, <3>2, <3>3, <3>4 DEF Inv
  <2>6. History!Edit(call[s].files) \/ History!WholeWrite(call[s].files, base[s])
    <3>1. CASE call[s].kind = "edit"
      <4>1. /\ versions' = Append(versions, History!Changed(versions[Newest], call[s].files))
            /\ Kinds' = Append(Kinds, "edit")
        BY <2>2, <2>4, <3>1
      <4> QED BY <4>1, <2>2, <2>4 DEF History!Edit, History!Add, Newest
    <3>2. CASE call[s].kind = "whole"
      <4>1. /\ versions' = Append(versions, History!Changed(versions[base[s]], call[s].files))
            /\ Kinds' = Append(Kinds, "whole")
        BY <2>2, <2>4, <3>2
      <4> QED BY <4>1, <2>2, <2>4 DEF History!WholeWrite, History!Add, Newest
    <3> QED BY <2>2, <3>1, <3>2
  <2> QED BY <2>2, <2>5, <2>6 DEF History!Next, Newest
<1>2. ASSUME NEW s \in Sessions, StoreRestore(s) PROVE Inv' /\ History!Next
  <2> DEFINE who == [user |-> UserOf[s], via |-> "restore", base |-> Newest, held |-> holding[s]]
  <2>1. Store(versions[call[s].from], who) /\ Answer(s) /\ UNCHANGED dashboard
        /\ call[s].from \in 1..Newest
    BY <1>2 DEF StoreRestore, Inv
  <2>2. who \in [user : Users, via : Vias, base : Nat, held : BOOLEAN]
    BY DEF Inv, Vias, Newest
  <2>3. /\ versions' \in Seq([Files -> Nat])
        /\ author' \in Seq([user : Users, via : Vias, base : Nat, held : BOOLEAN])
        /\ Len(author') = Len(versions')
        /\ Newest' = Newest + 1 /\ Newest' \in 1..MaxVersions /\ Newest \in 1..Newest'
        /\ versions' = Append(versions, versions[call[s].from])
        /\ Kinds' = Append(Kinds, "copy")
    BY <2>1, <2>2, CopyIsTyped, StoreAppends
  <2>4. Inv'
    <3>1. /\ pc' \in [Sessions -> {"idle", "read", "store"}]
          /\ call' \in [Sessions -> Calls \cup {None}]
          /\ base' \in [Sessions -> Nat] /\ holding' \in [Sessions -> BOOLEAN]
          /\ \A t \in Sessions : pc'[t] # "idle" =>
               pc[t] # "idle" /\ pc'[t] = pc[t] /\ call'[t] = call[t] /\ base'[t] = base[t]
      BY <2>1, AnswerKeeps
    <3>2. Newest \in Nat /\ 1..Newest \subseteq 1..Newest'
      BY <2>3
    <3>3. \A t \in Sessions : pc'[t] # "idle" =>
            /\ call'[t] \in Calls
            /\ call'[t].kind = "restore" => pc'[t] = "store" /\ call'[t].from \in 1..Newest'
            /\ call'[t].kind # "restore" /\ pc'[t] = "store" => base'[t] \in 1..Newest'
      BY <3>1, <3>2 DEF Inv
    <3>4. dashboard' # None => dashboard'.from \in 1..Newest' /\ dashboard'.user \in Users
      BY <2>1, <3>2 DEF Inv
    <3> QED BY <2>3, <3>1, <3>3, <3>4 DEF Inv, Newest
  <2>5. History!Copy(call[s].from)
    BY <2>3 DEF History!Copy, History!Add
  <2> QED BY <2>1, <2>4, <2>5 DEF History!Next, Newest
<1>3. ASSUME DashboardRestore PROVE Inv' /\ History!Next
  <2> DEFINE who == [user |-> dashboard.user, via |-> "dashboard", base |-> Newest, held |-> FALSE]
  <2>1. /\ Store(versions[dashboard.from], who)
        /\ dashboard' = None /\ UNCHANGED sessionVars
        /\ dashboard.from \in 1..Newest /\ dashboard.user \in Users
    BY <1>3 DEF DashboardRestore, Inv
  <2>2. who \in [user : Users, via : Vias, base : Nat, held : BOOLEAN]
    BY <2>1 DEF Inv, Vias, Newest
  <2>3. /\ versions' \in Seq([Files -> Nat])
        /\ author' \in Seq([user : Users, via : Vias, base : Nat, held : BOOLEAN])
        /\ Len(author') = Len(versions')
        /\ Newest' = Newest + 1 /\ Newest' \in 1..MaxVersions /\ Newest \in 1..Newest'
        /\ versions' = Append(versions, versions[dashboard.from])
        /\ Kinds' = Append(Kinds, "copy")
    BY <2>1, <2>2, CopyIsTyped, StoreAppends
  <2>4. Inv'
    BY <2>1, <2>3 DEF Inv, Newest, sessionVars
  <2>5. History!Copy(dashboard.from)
    BY <2>3 DEF History!Copy, History!Add
  <2> QED BY <2>1, <2>4, <2>5 DEF History!Next, Newest
<1>4. ASSUME NEW s \in Sessions,
             \/ \E c \in Calls : TakeLease(s, c)
             \/ LatestSources(s) \/ Reapply(s)
      PROVE  Inv' /\ UNCHANGED <<versions, author>>
  <2>1. CASE \E c \in Calls : TakeLease(s, c)
    <3>1. PICK c \in Calls : TakeLease(s, c)
      BY <2>1
    <3>2. c.kind = "restore" => c.from \in 1..Newest
      BY <3>1 DEF TakeLease, Calls, Inv, Newest
    <3> QED BY <3>1, <3>2 DEF TakeLease, Inv, Newest
  <2>2. CASE LatestSources(s)
    <3>1. /\ Newest \in 1..MaxVersions /\ base' \in [Sessions -> Nat]
          /\ pc' \in [Sessions -> {"idle", "read", "store"}]
      BY <2>2 DEF LatestSources, Inv, Newest
    <3>2. \A t \in Sessions : pc'[t] # "idle" => pc[t] # "idle"
      BY <2>2 DEF LatestSources, Inv
    <3> QED BY <2>2, <3>1, <3>2 DEF LatestSources, Inv, Newest
  <2>3. CASE Reapply(s)
    BY <2>3 DEF Reapply, Inv, Newest
  <2> QED BY <1>4, <2>1, <2>2, <2>3
<1>5. ASSUME NEW s \in Sessions, Refuse(s) PROVE Inv' /\ UNCHANGED <<versions, author>>
  BY <1>5, AnswerKeeps DEF Refuse, Inv, Newest
<1>6. ASSUME LeaseEnds \/ \E u \in Users, n \in 1..MaxVersions : ReadAppLease(u, n)
      PROVE  Inv' /\ UNCHANGED <<versions, author>>
  <2>1. CASE LeaseEnds
    BY <2>1 DEF LeaseEnds, Inv, Newest
  <2>2. CASE \E u \in Users, n \in 1..MaxVersions : ReadAppLease(u, n)
    <3>1. PICK u \in Users, n \in 1..Newest : ReadAppLease(u, n)
      BY <2>2 DEF ReadAppLease
    <3> QED BY <3>1 DEF ReadAppLease, Inv, Newest, sessionVars
  <2> QED BY <1>6, <2>1, <2>2
<1>7. ASSUME UNCHANGED vars PROVE Inv' /\ UNCHANGED <<versions, author>>
  BY <1>7 DEF vars, sessionVars, Inv, Newest
<1>8. UNCHANGED <<versions, author>> => UNCHANGED <<versions, Kinds>>
  BY DEF Kinds
<1> QED BY <1>1, <1>2, <1>3, <1>4, <1>5, <1>6, <1>7, <1>8 DEF Next

(* Whatever write_files, restore_version and the dashboard do at once, an *)
(* edit is stored on the newest version and nothing is lost by it.        *)
THEOREM WritesKeepHistory == Spec => ImplementsHistory
<1>1. Init => History!Init
  BY DEF Init, History!Init, Kinds
<1>2. Inv /\ [Next]_vars => Inv' /\ [History!Next]_<<versions, Kinds>>
  BY Step
<1> QED BY <1>1, <1>2, InitInv, PTL DEF Spec, ImplementsHistory, History!Spec

-----------------------------------------------------------------------------
(* The lease keeps users apart. Whoever stores while holding it is of the    *)
(* user the lease names, and so are all who hold it then.                    *)

LEMMA InvHolds == Spec => []Inv
<1>1. Inv /\ [Next]_vars => Inv'
  BY Step
<1> QED BY <1>1, InitInv, PTL DEF Spec

(* A stored version is of the lease's user, or of nobody who held it.        *)
LEMMA StoreKeepsHolding ==
    ASSUME Inv, Holding, LeaseKeepsUsersApart,
           NEW v, NEW who \in [user : Users, via : Vias, base : Nat, held : BOOLEAN],
           Store(v, who),
           who.held => who.user = lease,
           who.held /\ who.via \in {"edit", "whole"} =>
               \A k \in (who.base + 1)..Newest : author[k].user = who.user \/ ~author[k].held
    PROVE  /\ LeaseKeepsUsersApart'
           /\ \A s \in Sessions : holding[s] /\ pc[s] = "store" /\ call[s].kind # "restore" =>
                 \A k \in (base[s] + 1)..Newest' : author'[k].user = UserOf[s] \/ ~author'[k].held
<1>1. /\ Newest \in Nat /\ Newest = Len(author) /\ Newest' = Newest + 1
      /\ author'[Newest + 1] = who
      /\ \A k \in 1..Newest : author'[k] = author[k]
  BY DEF Inv, Store, Newest
<1>2. \A n \in 1..Newest : author[n].base \in Nat
  <2> DEFINE Authors0 == [user : Users, via : Vias, base : Nat, held : BOOLEAN]
  <2>1. author \in Seq(Authors0) /\ Newest = Len(author)
    BY <1>1 DEF Inv
  <2> HIDE DEF Authors0
  <2>2. \A n \in 1..Newest : author[n] \in Authors0
    BY <2>1
  <2> QED BY <2>2 DEF Authors0
<1>3. LeaseKeepsUsersApart'
  <2> SUFFICES ASSUME NEW n \in 2..(Newest + 1),
                      author'[n].via \in {"edit", "whole"}, author'[n].held,
                      NEW k \in (author'[n].base + 1)..(n - 1)
               PROVE  author'[k].user = author'[n].user \/ ~author'[k].held
    BY <1>1 DEF LeaseKeepsUsersApart
  <2>1. CASE n = Newest + 1
    BY <1>1, <2>1
  <2>2. CASE n \in 2..Newest
    <3>1. author'[n] = author[n] /\ author[n].base \in Nat
      BY <1>1, <1>2, <2>2
    <3>2. k \in (author[n].base + 1)..(n - 1) /\ k \in 1..Newest /\ author'[k] = author[k]
      BY <1>1, <2>2, <3>1
    <3> QED BY <2>2, <3>1, <3>2 DEF LeaseKeepsUsersApart
  <2> QED BY <1>1, <2>1, <2>2
<1>4. ASSUME NEW s \in Sessions, holding[s], pc[s] = "store", call[s].kind # "restore",
             NEW k \in (base[s] + 1)..(Newest + 1)
      PROVE  author'[k].user = UserOf[s] \/ ~author'[k].held
  <2>1. lease = UserOf[s] /\ base[s] \in Nat
    BY <1>4 DEF Holding, Inv
  <2>2. CASE k = Newest + 1
    BY <1>1, <2>1, <2>2
  <2>3. CASE k \in 1..Newest
    BY <1>1, <1>4, <2>1, <2>3 DEF Holding
  <2> QED BY <1>1, <2>1, <2>2, <2>3
<1> QED BY <1>1, <1>3, <1>4

(* The session that has stored holds nothing any more.                        *)
LEMMA AnswerStays ==
    ASSUME Inv, Holding, NEW s \in Sessions, Answer(s), UNCHANGED lease,
           \A t \in Sessions : holding[t] /\ pc[t] = "store" /\ call[t].kind # "restore" =>
              \A k \in (base[t] + 1)..Newest' : author'[k].user = UserOf[t] \/ ~author'[k].held
    PROVE  Holding'
<1>1. ASSUME NEW t \in Sessions, holding'[t]
      PROVE  /\ t # s /\ holding[t] /\ pc'[t] = pc[t] /\ call'[t] = call[t] /\ base'[t] = base[t]
  BY <1>1 DEF Inv, Answer
<1>2. ASSUME NEW t \in Sessions, holding'[t]
      PROVE  /\ lease' = UserOf[t] /\ pc'[t] # "idle"
             /\ pc'[t] = "store" /\ call'[t].kind # "restore" =>
                   \A k \in (base'[t] + 1)..Newest' :
                      author'[k].user = UserOf[t] \/ ~author'[k].held
  BY <1>1, <1>2 DEF Holding
<1> QED BY <1>2 DEF Holding

LEMMA HoldingStep ==
    ASSUME Inv, Holding, LeaseKeepsUsersApart, [Next]_vars
    PROVE  Holding' /\ LeaseKeepsUsersApart'
<1> USE DEF Inv
<1>1. ASSUME NEW s \in Sessions, StoreWrite(s) PROVE Holding' /\ LeaseKeepsUsersApart'
  <2> DEFINE who == [user |-> UserOf[s], via |-> call[s].kind, base |-> base[s], held |-> holding[s]]
  <2>1. /\ Store(Merged(s), who) /\ Answer(s) /\ pc[s] = "store" /\ UNCHANGED lease
        /\ call[s].kind \in {"edit", "whole"} /\ base[s] \in 1..Newest
    BY <1>1, StoreWriteSteps DEF StoreWrite, Store
  <2>2. who \in [user : Users, via : Vias, base : Nat, held : BOOLEAN]
    BY <2>1 DEF Vias, Newest
  <2>3. /\ who.held => who.user = lease
        /\ who.held => \A k \in (who.base + 1)..Newest :
                          author[k].user = who.user \/ ~author[k].held
    BY <2>1 DEF Holding
  <2>4. /\ LeaseKeepsUsersApart'
        /\ \A t \in Sessions : holding[t] /\ pc[t] = "store" /\ call[t].kind # "restore" =>
              \A k \in (base[t] + 1)..Newest' : author'[k].user = UserOf[t] \/ ~author'[k].held
    BY <2>1, <2>2, <2>3, StoreKeepsHolding
  <2> HIDE DEF who
  <2> QED BY <2>1, <2>4, AnswerStays
<1>2. ASSUME NEW s \in Sessions, StoreRestore(s) PROVE Holding' /\ LeaseKeepsUsersApart'
  <2> DEFINE who == [user |-> UserOf[s], via |-> "restore", base |-> Newest, held |-> holding[s]]
  <2>1. Store(versions[call[s].from], who) /\ Answer(s) /\ UNCHANGED lease
    BY <1>2 DEF StoreRestore, Store
  <2>2. who \in [user : Users, via : Vias, base : Nat, held : BOOLEAN]
    BY DEF Vias, Newest
  <2>3. who.held => who.user = lease
    BY DEF Holding
  <2>4. /\ LeaseKeepsUsersApart'
        /\ \A t \in Sessions : holding[t] /\ pc[t] = "store" /\ call[t].kind # "restore" =>
              \A k \in (base[t] + 1)..Newest' : author'[k].user = UserOf[t] \/ ~author'[k].held
    BY <2>1, <2>2, <2>3, StoreKeepsHolding
  <2> HIDE DEF who
  <2> QED BY <2>1, <2>4, AnswerStays
<1>3. ASSUME DashboardRestore PROVE Holding' /\ LeaseKeepsUsersApart'
  <2> DEFINE who == [user |-> dashboard.user, via |-> "dashboard", base |-> Newest, held |-> FALSE]
  <2>1. Store(versions[dashboard.from], who) /\ UNCHANGED sessionVars
    BY <1>3 DEF DashboardRestore
  <2>2. who \in [user : Users, via : Vias, base : Nat, held : BOOLEAN]
    BY <1>3 DEF DashboardRestore, Vias, Newest
  <2> QED BY <2>1, <2>2, StoreKeepsHolding DEF Holding, sessionVars, Store
<1>4. ASSUME UNCHANGED <<versions, author>>
      PROVE  LeaseKeepsUsersApart' /\ Newest' = Newest
  BY <1>4 DEF LeaseKeepsUsersApart, Newest
<1>5. ASSUME NEW s \in Sessions, NEW c \in Calls, TakeLease(s, c)
      PROVE  Holding' /\ LeaseKeepsUsersApart'
  <2>1. ASSUME NEW t \in Sessions, holding'[t]
        PROVE  /\ lease' = UserOf[t] /\ pc'[t] # "idle"
               /\ pc'[t] = "store" /\ call'[t].kind # "restore" =>
                     \A k \in (base'[t] + 1)..Newest' :
                        author'[k].user = UserOf[t] \/ ~author'[k].held
    <3>1. CASE t = s
      BY <1>5, <3>1 DEF TakeLease
    <3>2. CASE t # s
      <4>1. holding[t] /\ UserOf[t] # None
        BY <1>5, <2>1, <3>2 DEF TakeLease
      <4> QED BY <1>4, <1>5, <3>2, <4>1 DEF TakeLease, MayTake, Holding
    <3> QED BY <3>1, <3>2
  <2> QED BY <1>4, <1>5, <2>1 DEF Holding, TakeLease
<1>6. ASSUME NEW s \in Sessions, LatestSources(s) PROVE Holding' /\ LeaseKeepsUsersApart'
  BY <1>4, <1>6 DEF LatestSources, Holding, Newest
<1>7. ASSUME NEW s \in Sessions, Reapply(s) PROVE Holding' /\ LeaseKeepsUsersApart'
  BY <1>4, <1>7 DEF Reapply, Holding
<1>8. ASSUME NEW s \in Sessions, Refuse(s) PROVE Holding' /\ LeaseKeepsUsersApart'
  BY <1>4, <1>8 DEF Refuse, Answer, Holding
<1>9. ASSUME LeaseEnds PROVE Holding' /\ LeaseKeepsUsersApart'
  BY <1>4, <1>9 DEF LeaseEnds, Holding
<1>10. ASSUME NEW u \in Users, NEW n \in 1..MaxVersions, ReadAppLease(u, n)
       PROVE  Holding' /\ LeaseKeepsUsersApart'
  BY <1>4, <1>10 DEF ReadAppLease, sessionVars, Holding
<1>11. ASSUME UNCHANGED vars PROVE Holding' /\ LeaseKeepsUsersApart'
  BY <1>4, <1>11 DEF vars, sessionVars, Holding
<1> QED BY <1>1, <1>2, <1>3, <1>5, <1>6, <1>7, <1>8, <1>9, <1>10, <1>11 DEF Next

(* Between the version a write read and the one it stores no other user's     *)
(* agent stores anything, unless one of their leases ended under its holder.  *)
THEOREM LeaseKeepsApart == Spec => []LeaseKeepsUsersApart
<1>1. Init => Holding /\ LeaseKeepsUsersApart
  BY DEF Init, Holding, LeaseKeepsUsersApart, Newest
<1>2. Inv /\ Holding /\ LeaseKeepsUsersApart /\ [Next]_vars
        => (Holding /\ LeaseKeepsUsersApart)'
  BY HoldingStep
<1> QED BY <1>1, <1>2, InvHolds, PTL DEF Spec

-----------------------------------------------------------------------------
(* The types. A version stored names only versions that were stored before   *)
(* it, or itself, and edits are applied at most Attempts times.               *)
LEMMA StoreTypes ==
    ASSUME TypeOK, NEW v \in [Files -> 1..MaxVersions], NEW who \in Authors, Store(v, who)
    PROVE  /\ versions' \in Seq([Files -> 1..MaxVersions]) /\ Len(versions') \in 1..MaxVersions
           /\ author' \in Seq(Authors) /\ Len(author') = Len(versions')
           /\ lease' \in Users \cup {None}
<1>1. Len(versions) \in 1..(MaxVersions - 1)
  BY DEF TypeOK, Store, Newest
<1> QED BY <1>1 DEF TypeOK, Store

LEMMA VersionTypes ==
    ASSUME TypeOK, NEW n \in 1..Newest
    PROVE  versions[n] \in [Files -> 1..MaxVersions]
BY DEF TypeOK, Newest

LEMMA AnswerTypes ==
    ASSUME TypeOK, NEW s \in Sessions, Answer(s)
    PROVE  /\ pc' \in [Sessions -> {"idle", "read", "store"}]
           /\ call' \in [Sessions -> Calls \cup {None}]
           /\ base' \in [Sessions -> 0..MaxVersions]
           /\ attempt' \in [Sessions -> 0..Attempts]
           /\ holding' \in [Sessions -> BOOLEAN]
BY DEF TypeOK, Answer

LEMMA TypeStep ==
    ASSUME Inv, TypeOK, [Next]_vars
    PROVE  TypeOK'
<1>0. Newest \in 1..MaxVersions
  BY DEF TypeOK, Newest
<1>1. ASSUME NEW s \in Sessions, StoreWrite(s) PROVE TypeOK'
  <2> DEFINE who == [user |-> UserOf[s], via |-> call[s].kind, base |-> base[s], held |-> holding[s]]
  <2>1. /\ Store(Merged(s), who) /\ Answer(s) /\ UNCHANGED dashboard
        /\ call[s].kind \in {"edit", "whole"} /\ base[s] \in 1..Newest /\ Newest < MaxVersions
    BY <1>1, StoreWriteSteps DEF StoreWrite, Store
  <2>2. Merged(s) \in [Files -> 1..MaxVersions]
    BY <1>0, <2>1, VersionTypes DEF Merged
  <2>3. who \in Authors
    BY <1>0, <2>1 DEF Authors, Vias, TypeOK
  <2> QED BY <2>1, <2>2, <2>3, StoreTypes, AnswerTypes DEF TypeOK
<1>2. ASSUME NEW s \in Sessions, StoreRestore(s) PROVE TypeOK'
  <2> DEFINE who == [user |-> UserOf[s], via |-> "restore", base |-> Newest, held |-> holding[s]]
  <2>1. /\ Store(versions[call[s].from], who) /\ Answer(s) /\ UNCHANGED dashboard
        /\ call[s].from \in 1..Newest
    BY <1>2 DEF StoreRestore, Inv
  <2>2. who \in Authors
    BY <1>0 DEF Authors, Vias, TypeOK
  <2> QED BY <2>1, <2>2, VersionTypes, StoreTypes, AnswerTypes DEF TypeOK
<1>3. ASSUME DashboardRestore PROVE TypeOK'
  <2> DEFINE who == [user |-> dashboard.user, via |-> "dashboard", base |-> Newest, held |-> FALSE]
  <2>1. /\ Store(versions[dashboard.from], who) /\ dashboard' = None /\ UNCHANGED sessionVars
        /\ dashboard.from \in 1..Newest /\ dashboard.user \in Users
    BY <1>3 DEF DashboardRestore, Inv
  <2>2. who \in Authors
    BY <1>0, <2>1 DEF Authors, Vias
  <2> QED BY <2>1, <2>2, VersionTypes, StoreTypes DEF TypeOK, sessionVars
<1>4. ASSUME NEW s \in Sessions, NEW c \in Calls, TakeLease(s, c) PROVE TypeOK'
  <2>1. /\ pc' \in [Sessions -> {"idle", "read", "store"}]
        /\ call' \in [Sessions -> Calls \cup {None}]
        /\ holding' \in [Sessions -> BOOLEAN]
    BY <1>4 DEF TakeLease, TypeOK
  <2>2. attempt' \in [Sessions -> 0..Attempts] /\ lease' \in Users \cup {None}
    BY <1>4 DEF TakeLease, TypeOK
  <2>3. UNCHANGED <<versions, author, base, dashboard>>
    BY <1>4 DEF TakeLease
  <2>4. /\ versions' \in Seq([Files -> 1..MaxVersions]) /\ Len(versions') \in 1..MaxVersions
        /\ author' \in Seq(Authors) /\ Len(author') = Len(versions')
        /\ base' \in [Sessions -> 0..MaxVersions]
        /\ dashboard' \in [user : Users, from : 1..MaxVersions] \cup {None}
    BY <2>3 DEF TypeOK
  <2> QED BY <2>1, <2>2, <2>4 DEF TypeOK
<1>5. ASSUME NEW s \in Sessions, LatestSources(s) \/ Reapply(s) PROVE TypeOK'
  <2>0. /\ pc \in [Sessions -> {"idle", "read", "store"}]
        /\ base \in [Sessions -> 0..MaxVersions] /\ attempt \in [Sessions -> 0..Attempts]
    BY DEF TypeOK
  <2>1. /\ pc' \in [Sessions -> {"idle", "read", "store"}]
        /\ base' \in [Sessions -> 0..MaxVersions] /\ attempt' \in [Sessions -> 0..Attempts]
    <3>1. CASE LatestSources(s)
      BY <1>0, <2>0, <3>1 DEF LatestSources
    <3>2. CASE Reapply(s)
      <4>1. attempt[s] + 1 \in 0..Attempts
        BY <2>0, <3>2 DEF Reapply, TriesLeft
      <4> QED BY <2>0, <3>2, <4>1 DEF Reapply
    <3> QED BY <1>5, <3>1, <3>2
  <2>3. UNCHANGED <<versions, author, lease, call, holding, dashboard>>
    BY <1>5 DEF LatestSources, Reapply
  <2>4. /\ versions' \in Seq([Files -> 1..MaxVersions]) /\ Len(versions') \in 1..MaxVersions
        /\ author' \in Seq(Authors) /\ Len(author') = Len(versions')
        /\ lease' \in Users \cup {None} /\ call' \in [Sessions -> Calls \cup {None}]
        /\ holding' \in [Sessions -> BOOLEAN]
        /\ dashboard' \in [user : Users, from : 1..MaxVersions] \cup {None}
    BY <2>3 DEF TypeOK
  <2> QED BY <2>1, <2>4 DEF TypeOK
<1>6. ASSUME NEW s \in Sessions, Refuse(s) PROVE TypeOK'
  BY <1>6, AnswerTypes DEF Refuse, TypeOK
<1>7. ASSUME LeaseEnds PROVE TypeOK'
  BY <1>7 DEF LeaseEnds, TypeOK
<1>8. ASSUME NEW u \in Users, NEW n \in 1..MaxVersions, ReadAppLease(u, n) PROVE TypeOK'
  BY <1>8 DEF ReadAppLease, sessionVars, TypeOK
<1>9. ASSUME UNCHANGED vars PROVE TypeOK'
  BY <1>9 DEF vars, sessionVars, TypeOK
<1> QED BY <1>1, <1>2, <1>3, <1>4, <1>5, <1>6, <1>7, <1>8, <1>9 DEF Next

(* Every version, author and call keeps its type, and a write with edits is   *)
(* applied at most EDIT_WRITE_ATTEMPTS times.                                 *)
THEOREM TypeCorrect == Spec => []TypeOK
<1>1. Init => TypeOK
  <2> SUFFICES ASSUME Init PROVE TypeOK
    OBVIOUS
  <2>1. versions \in Seq([Files -> 1..MaxVersions]) /\ Len(versions) = 1
    BY DEF Init
  <2>2. PICK u \in Users : author = << [user |-> u, via |-> "create", base |-> 0, held |-> FALSE] >>
    BY DEF Init
  <2>3. author \in Seq(Authors) /\ Len(author) = 1
    BY <2>2 DEF Authors, Vias
  <2> QED BY <2>1, <2>3 DEF Init, TypeOK
<1>2. Inv /\ TypeOK /\ [Next]_vars => TypeOK'
  BY TypeStep
<1> QED BY <1>1, <1>2, InvHolds, PTL DEF Spec

=============================================================================
