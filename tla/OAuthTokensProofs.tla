------------------------- MODULE OAuthTokensProofs -------------------------
(***************************************************************************)
(* The lineage invariants of OAuthTokens, for any number of codes, rows,   *)
(* requests, and any clock: IInv is inductive, and OneLiveRefresh,         *)
(* LinksResolve, BurntStaysBurnt and OnlyReuseRevokes follow from it.      *)
(* One lemma per action, one step per conjunct of IInv. That what is spent *)
(* stays spent needs Issuing besides, and that a detected reuse has a      *)
(* cause needs CauseInv, how deep in its lineage each row and rotation is. *)
(***************************************************************************)
EXTENDS OAuthTokens, FiniteSetTheorems, TLAPS

USE IdAssumption, TimeAssumption
    DEF IInv, RowIds, Used, tables, request, conn, history

(* Nothing is minted at first. *)
LEMMA InitInv == Init => IInv
<1> SUFFICES ASSUME Init PROVE IInv
  OBVIOUS
<1>1. TypeOK
  BY DEF Init, TypeOK, Statuses, Pcs
<1>2. Allocation /\ Exchange /\ LinksResolve /\ OneLiveRefresh
  BY DEF Init, Allocation, Exchange, LinksResolve, OneLiveRefresh, LiveRefresh
<1>3. Walk /\ BurntStaysBurnt /\ Damage /\ Snapshot
  BY DEF Init, Walk, Burning, BurntStaysBurnt, Damage, Snapshot
<1> QED BY <1>1, <1>2, <1>3

(* A new code has minted nothing. *)
LEMMA IssueAuthCodeInv ==
    ASSUME IInv, NEW c \in Codes, IssueAuthCode(c)
    PROVE  IInv'
<1>1. TypeOK'
  BY DEF TypeOK, Statuses, Pcs, IssueAuthCode
<1>2. Allocation'
  BY DEF TypeOK, Allocation, IssueAuthCode
<1>3. Exchange'
  BY DEF TypeOK, Exchange, IssueAuthCode
<1>4. LinksResolve'
  BY DEF TypeOK, LinksResolve, IssueAuthCode
<1>5. OneLiveRefresh'
  BY DEF TypeOK, OneLiveRefresh, LiveRefresh, LineageOf, IssueAuthCode
<1>6. Walk'
  BY DEF TypeOK, Walk, Burning, IssueAuthCode
<1>7. BurntStaysBurnt'
  BY DEF TypeOK, BurntStaysBurnt, IssueAuthCode
<1>8. Damage'
  BY DEF TypeOK, Damage, IssueAuthCode
<1>9. Snapshot'
  BY DEF TypeOK, Snapshot, IssueAuthCode
<1> QED BY <1>1, <1>2, <1>3, <1>4, <1>5, <1>6, <1>7, <1>8, <1>9

(* A code found used is flagged before its lineage is looked up. *)
LEMMA PresentCodeInv ==
    ASSUME IInv, NEW p \in Requests, NEW c \in Codes, NEW valid \in BOOLEAN,
           PresentCode(p, c, valid)
    PROVE  IInv'
<1>1. TypeOK'
  BY DEF TypeOK, Statuses, Pcs, PresentCode
<1>2. Allocation'
  BY DEF TypeOK, Allocation, PresentCode
<1>3. Exchange'
  BY DEF TypeOK, Exchange, PresentCode
<1>4. LinksResolve'
  BY DEF TypeOK, LinksResolve, PresentCode
<1>5. OneLiveRefresh'
  BY DEF TypeOK, OneLiveRefresh, LiveRefresh, LineageOf, PresentCode
<1>6. Walk'
  BY DEF TypeOK, Walk, Burning, PresentCode
<1>7. BurntStaysBurnt'
  BY DEF TypeOK, BurntStaysBurnt, PresentCode
<1>8. Damage'
  BY DEF TypeOK, Damage, PresentCode
<1>9. Snapshot'
  BY DEF TypeOK, Snapshot, PresentCode
<1> QED BY <1>1, <1>2, <1>3, <1>4, <1>5, <1>6, <1>7, <1>8, <1>9

(* One request wins a code, and no row is of its lineage yet. *)
LEMMA ConsumeCodeInv ==
    ASSUME IInv, NEW p \in Requests, ConsumeCode(p)
    PROVE  IInv'
<1>1. TypeOK'
  <2>1. CASE code[start[p]] = "unused" /\ pc[p] = "consume"
    <3>1. start[p] \in Codes
      BY DEF Exchange, ConsumeCode
    <3>2. code' \in [Codes -> Statuses] /\ pc' \in [Requests -> Pcs]
      <4>1. /\ code' = [code EXCEPT ![start[p]] = "used"]
            /\ pc' = [pc EXCEPT ![p] = "insert"]
        BY <2>1 DEF ConsumeCode
      <4> QED BY <3>1, <4>1 DEF TypeOK, Statuses, Pcs
    <3>3. \A q \in Requests : pc'[q] # "idle" => start'[q] # None /\ cur'[q] #
           None
      BY <2>1 DEF TypeOK, ConsumeCode
    <3> QED BY <2>1, <3>2, <3>3 DEF TypeOK, ConsumeCode
  <2>2. CASE code[start[p]] = "unused" /\ pc[p] = "spoil"
    <3>0. Finish(p)
      BY <2>2 DEF ConsumeCode
    <3>1. start[p] \in Codes
      BY DEF Exchange, ConsumeCode
    <3>2. code' \in [Codes -> Statuses] /\ pc' \in [Requests -> Pcs]
      <4>1. /\ code' = [code EXCEPT ![start[p]] = "used"]
            /\ pc' = [pc EXCEPT ![p] = "idle"]
        BY <2>2, <3>0 DEF ConsumeCode, Finish
      <4> QED BY <3>1, <4>1 DEF TypeOK, Statuses, Pcs
    <3>3. /\ at' \in [Requests -> Nat] /\ hops' \in [Requests -> Nat]
          /\ start' \in [Requests -> RowIds \cup {None}]
          /\ cur' \in [Requests -> RowIds \cup {None}]
          /\ seen' \in [Requests -> SUBSET RowIds]
      BY <3>0 DEF TypeOK, Finish
    <3>4. \A q \in Requests : pc'[q] # "idle" => start'[q] # None /\ cur'[q] #
           None
      BY <3>0 DEF TypeOK, Finish
    <3> QED BY <2>2, <3>2, <3>3, <3>4 DEF TypeOK, ConsumeCode
  <2>3. CASE code[start[p]] # "unused"
    BY <2>3 DEF TypeOK, Statuses, Pcs, Exchange, ConsumeCode
  <2> QED BY <2>1, <2>2, <2>3 DEF ConsumeCode
<1>2. Allocation'
  BY DEF TypeOK, Allocation, ConsumeCode, Finish
<1>3. Exchange'
  <2>1. /\ start[p] \in Codes /\ cur[p] = start[p] /\ origin' = origin
        /\ \A q \in Requests : q # p =>
             pc'[q] = pc[q] /\ start'[q] = start[q] /\ cur'[q] = cur[q]
    BY DEF TypeOK, Exchange, ConsumeCode, Finish
  <2>2. \A c \in Codes : code[c] \in {"used", "deleted"} => code'[c] = code[c]
    BY <2>1 DEF TypeOK, ConsumeCode
  <2>3. CASE code[start[p]] = "unused" /\ pc[p] = "consume"
    <3>1. /\ pc'[p] = "insert" /\ start' = start /\ cur' = cur
          /\ code'[start[p]] = "used"
      BY <2>1, <2>3 DEF TypeOK, ConsumeCode
    <3>2. \A r \in RowIds : origin[r] # start[p]
      BY <2>1, <2>3 DEF TypeOK, Allocation
    <3>3. \A q \in Requests : pc[q] = "insert" => start[q] # start[p]
      BY <2>3 DEF Exchange
    <3> QED BY <2>1, <2>2, <3>1, <3>2, <3>3 DEF Exchange
  <2>4. CASE code[start[p]] = "unused" /\ pc[p] = "spoil"
    <3>1. pc'[p] = "idle"
      BY <2>4 DEF TypeOK, ConsumeCode, Finish
    <3> QED BY <2>1, <2>2, <3>1 DEF Exchange
  <2>5. CASE code[start[p]] # "unused"
    <3>1. pc'[p] = "find" /\ start' = start /\ cur' = cur
      BY <2>5 DEF TypeOK, ConsumeCode
    <3> QED BY <2>1, <2>2, <3>1 DEF Exchange
  <2> QED BY <2>3, <2>4, <2>5 DEF ConsumeCode
<1>4. LinksResolve'
  BY DEF TypeOK, LinksResolve, ConsumeCode, Finish
<1>5. OneLiveRefresh'
  BY DEF TypeOK, OneLiveRefresh, LiveRefresh, LineageOf, ConsumeCode, Finish
<1>6. Walk'
  BY DEF TypeOK, Walk, Burning, ConsumeCode, Finish
<1>7. BurntStaysBurnt'
  BY DEF TypeOK, BurntStaysBurnt, ConsumeCode, Finish
<1>8. Damage'
  BY DEF TypeOK, Damage, ConsumeCode, Finish
<1>9. Snapshot'
  BY DEF TypeOK, Snapshot, ConsumeCode, Finish
<1> QED BY <1>1, <1>2, <1>3, <1>4, <1>5, <1>6, <1>7, <1>8, <1>9

(* The first row of a lineage is the only row of it. *)
LEMMA InsertFirstInv ==
    ASSUME IInv, NEW p \in Requests, InsertFirst(p)
    PROVE  IInv'
<1>1. TypeOK'
  <2>1. start[p] \in Codes /\ start[p] \in RowIds
    BY DEF Exchange, InsertFirst, RowIds
  <2>2. /\ rows' \subseteq RowIds
        /\ usedAt' \in [RowIds -> Nat \cup {None}]
        /\ rotatedTo' \in [RowIds -> RowIds \cup {None}]
    BY <2>1 DEF TypeOK, InsertFirst
  <2>3. /\ expiresAt' \in [RowIds -> Nat]
        /\ origin' \in [RowIds -> Codes \cup {None}]
    BY <2>1, TimeAssumption DEF TypeOK, InsertFirst
  <2>4. /\ pc' \in [Requests -> Pcs]
        /\ \A q \in Requests : pc'[q] # "idle" => pc[q] # "idle"
    BY DEF TypeOK, Pcs, InsertFirst
  <2> QED BY <2>2, <2>3, <2>4 DEF TypeOK, InsertFirst
<1>2. Allocation'
  BY DEF TypeOK, Allocation, Exchange, InsertFirst
<1>3. Exchange'
  BY DEF TypeOK, Exchange, Allocation, InsertFirst
<1>4. LinksResolve'
  BY DEF TypeOK, LinksResolve, Exchange, Allocation, InsertFirst
<1>5. OneLiveRefresh'
  BY DEF TypeOK, OneLiveRefresh, LiveRefresh, LineageOf, Exchange, Allocation,
         InsertFirst
<1>6. Walk'
  BY DEF TypeOK, Walk, Burning, Exchange, Allocation, InsertFirst
<1>7. BurntStaysBurnt'
  BY DEF TypeOK, BurntStaysBurnt, Exchange, Allocation, InsertFirst
<1>8. Damage'
  BY DEF TypeOK, Damage, Exchange, Allocation, InsertFirst
<1>9. Snapshot'
  BY DEF TypeOK, Snapshot, Exchange, Allocation, InsertFirst
<1> QED BY <1>1, <1>2, <1>3, <1>4, <1>5, <1>6, <1>7, <1>8, <1>9

(* An access token is added to a row, revoked by nobody yet. *)
LEMMA InsertAccessInv ==
    ASSUME IInv, NEW p \in Requests, InsertAccess(p)
    PROVE  IInv'
<1>1. TypeOK'
  BY DEF TypeOK, Statuses, Pcs, InsertAccess
<1>2. Allocation'
  BY DEF TypeOK, Allocation, InsertAccess
<1>3. Exchange'
  BY DEF TypeOK, Exchange, InsertAccess
<1>4. LinksResolve'
  BY DEF TypeOK, LinksResolve, InsertAccess
<1>5. OneLiveRefresh'
  BY DEF TypeOK, OneLiveRefresh, LiveRefresh, LineageOf, InsertAccess
<1>6. Walk'
  BY DEF TypeOK, Walk, Burning, InsertAccess
<1>7. BurntStaysBurnt'
  BY DEF TypeOK, BurntStaysBurnt, InsertAccess
<1>8. Damage'
  BY DEF TypeOK, Damage, InsertAccess
<1>9. Snapshot'
  BY DEF TypeOK, Snapshot, InsertAccess
<1> QED BY <1>1, <1>2, <1>3, <1>4, <1>5, <1>6, <1>7, <1>8, <1>9

(* A response hands a token out and ends its request. *)
LEMMA RespondInv ==
    ASSUME IInv, NEW p \in Requests, Respond(p)
    PROVE  IInv'
<1>1. TypeOK'
  BY DEF TypeOK, Statuses, Pcs, Respond, Finish
<1>2. Allocation'
  BY DEF TypeOK, Allocation, Respond, Finish
<1>3. Exchange'
  BY DEF TypeOK, Exchange, Respond, Finish
<1>4. LinksResolve'
  BY DEF TypeOK, LinksResolve, Respond, Finish
<1>5. OneLiveRefresh'
  BY DEF TypeOK, OneLiveRefresh, LiveRefresh, LineageOf, Respond, Finish
<1>6. Walk'
  BY DEF TypeOK, Walk, Burning, Respond, Finish
<1>7. BurntStaysBurnt'
  BY DEF TypeOK, BurntStaysBurnt, Respond, Finish
<1>8. Damage'
  BY DEF TypeOK, Damage, Respond, Finish
<1>9. Snapshot'
  BY DEF TypeOK, Snapshot, Respond, Finish
<1> QED BY <1>1, <1>2, <1>3, <1>4, <1>5, <1>6, <1>7, <1>8, <1>9

(* The loop's body moves its request to a row and flags no more than the
   lineage of the presented one. *)
LEMMA ExamineTypes ==
    ASSUME TypeOK, NEW p \in Requests, NEW a \in RowIds, NEW r \in RowIds,
           NEW t \in Nat, NEW h \in Nat, origin[a] \in Codes,
           Examine(p, a, r, t, h)
    PROVE  /\ pc' \in [Requests -> Pcs]
           /\ cur' \in [Requests -> RowIds \cup {None}]
           /\ hops' \in [Requests -> Nat]
           /\ reused' \subseteq Codes
           /\ cur'[p] # None
           /\ \A q \in Requests : q # p => pc'[q] = pc[q] /\ cur'[q] = cur[q]
<1> DEFINE Moves(step, c, k) ==
             /\ Goto(p, step, c, k)
             /\ step \in Pcs /\ c \in RowIds /\ k \in Nat
             /\ reused' \subseteq Codes
<1>1. \E step \in Pcs, c \in RowIds, k \in Nat : Moves(step, c, k)
  <2>1. CASE r \in rows /\ ~Used(r) /\ Goto(p, "claim", r, h) /\ reused' = reused
    <3>1. Moves("claim", r, h)
      BY <2>1 DEF TypeOK, Pcs
    <3> QED BY <3>1 DEF Pcs
  <2>2. CASE /\ WithinRetry(r, t, h) /\ Goto(p, "follow", rotatedTo[r], h + 1)
             /\ reused' = reused
    <3>1. Moves("follow", rotatedTo[r], h + 1)
      BY <2>2 DEF TypeOK, Pcs, WithinRetry
    <3> QED BY <3>1 DEF Pcs
  <2>3. CASE DetectReuse(p, a, h)
    <3>1. Moves("mark", a, h)
      BY <2>3 DEF TypeOK, Pcs, DetectReuse
    <3> QED BY <3>1 DEF Pcs
  <2> QED BY <2>1, <2>2, <2>3 DEF Examine
<1>2. PICK step \in Pcs, c \in RowIds, k \in Nat : Moves(step, c, k)
  BY <1>1
<1> QED BY <1>2, IdAssumption DEF TypeOK, Goto

(* Reuse flags the lineage of the presented row. *)
LEMMA PresentRefreshInv ==
    ASSUME IInv, NEW p \in Requests, NEW r \in RowIds, PresentRefresh(p, r)
    PROVE  IInv'
<1>1. TypeOK'
  <2>1. /\ r \in RowIds /\ now \in Nat /\ origin[r] \in Codes
        /\ Examine(p, r, r, now, 0)
    BY DEF TypeOK, Allocation, PresentRefresh
  <2>2. /\ at' \in [Requests -> Nat]
        /\ start' \in [Requests -> RowIds \cup {None}]
        /\ start'[p] # None
        /\ \A q \in Requests : q # p => start'[q] = start[q]
    BY <2>1, IdAssumption DEF TypeOK, PresentRefresh
  <2> QED BY <2>1, <2>2, ExamineTypes DEF TypeOK, PresentRefresh
<1>2. Allocation'
  BY DEF TypeOK, Allocation, PresentRefresh, Examine, DetectReuse, Goto,
         WithinRetry
<1>3. Exchange'
  BY DEF TypeOK, Exchange, PresentRefresh, Examine, DetectReuse, Goto,
         WithinRetry
<1>4. LinksResolve'
  BY DEF TypeOK, LinksResolve, PresentRefresh, Examine, DetectReuse, Goto,
         WithinRetry
<1>5. OneLiveRefresh'
  BY DEF TypeOK, OneLiveRefresh, LiveRefresh, LineageOf, PresentRefresh,
         Examine, DetectReuse, Goto, WithinRetry
<1>6. Walk'
  BY DEF TypeOK, Walk, Burning, Allocation, PresentRefresh, Examine,
         DetectReuse, Goto, WithinRetry
<1>7. BurntStaysBurnt'
  BY DEF TypeOK, BurntStaysBurnt, PresentRefresh, Examine, DetectReuse, Goto,
         WithinRetry
<1>8. Damage'
  BY DEF TypeOK, Damage, PresentRefresh, Examine, DetectReuse, Goto,
         WithinRetry
<1>9. Snapshot'
  BY DEF TypeOK, Snapshot, PresentRefresh, Examine, DetectReuse, Goto,
         WithinRetry
<1> QED BY <1>1, <1>2, <1>3, <1>4, <1>5, <1>6, <1>7, <1>8, <1>9

(* The walk to the tail reads only. *)
LEMMA FollowInv ==
    ASSUME IInv, NEW p \in Requests, Follow(p)
    PROVE  IInv'
<1>1. TypeOK'
  <2>1. /\ start[p] \in RowIds /\ cur[p] \in RowIds
        /\ at[p] \in Nat /\ hops[p] \in Nat
        /\ origin[start[p]] \in Codes
    BY DEF TypeOK, Walk, Follow
  <2>2. Examine(p, start[p], cur[p], at[p], hops[p])
    BY DEF Follow
  <2> QED BY <2>1, <2>2, ExamineTypes DEF TypeOK, Follow
<1>2. Allocation'
  BY DEF TypeOK, Allocation, Follow, Examine, DetectReuse, Goto, WithinRetry
<1>3. Exchange'
  BY DEF TypeOK, Exchange, Follow, Examine, DetectReuse, Goto, WithinRetry
<1>4. LinksResolve'
  BY DEF TypeOK, LinksResolve, Follow, Examine, DetectReuse, Goto, WithinRetry
<1>5. OneLiveRefresh'
  BY DEF TypeOK, OneLiveRefresh, LiveRefresh, LineageOf, Follow, Examine,
         DetectReuse, Goto, WithinRetry
<1>6. Walk'
  BY DEF TypeOK, Walk, Burning, Follow, Examine, DetectReuse, Goto,
         WithinRetry
<1>7. BurntStaysBurnt'
  BY DEF TypeOK, BurntStaysBurnt, Follow, Examine, DetectReuse, Goto,
         WithinRetry
<1>8. Damage'
  BY DEF TypeOK, Damage, Follow, Examine, DetectReuse, Goto, WithinRetry
<1>9. Snapshot'
  BY DEF TypeOK, Snapshot, Follow, Examine, DetectReuse, Goto, WithinRetry
<1> QED BY <1>1, <1>2, <1>3, <1>4, <1>5, <1>6, <1>7, <1>8, <1>9

(* The claimed row was the one live row of its lineage; its successor takes
   its place. *)
LEMMA ClaimInv ==
    ASSUME IInv, NEW p \in Requests, Claim(p)
    PROVE  IInv'
<1>1. TypeOK'
  <2>1. CASE Claimable(cur[p])
    <3>1. PICK s \in FreshIds :
            /\ rows' = rows \cup {s}
            /\ usedAt' = [usedAt EXCEPT ![cur[p]] = at[p], ![s] = None]
            /\ rotatedTo' = [rotatedTo EXCEPT ![cur[p]] = s, ![s] = None]
            /\ expiresAt' = [expiresAt EXCEPT ![s] = at[p] + RefreshTtl]
            /\ origin' = [origin EXCEPT ![s] = origin[cur[p]]]
            /\ Goto(p, "access", s, hops[p])
      BY <2>1 DEF Claim
    <3>2. cur[p] \in RowIds /\ s \in RowIds /\ at[p] \in Nat /\ hops[p] \in
           Nat
      BY <2>1 DEF TypeOK, Claimable
    <3>3. /\ usedAt' \in [RowIds -> Nat \cup {None}]
          /\ rotatedTo' \in [RowIds -> RowIds \cup {None}]
          /\ expiresAt' \in [RowIds -> Nat]
          /\ origin' \in [RowIds -> Codes \cup {None}]
      BY <3>1, <3>2 DEF TypeOK
    <3>4. /\ pc' \in [Requests -> Pcs] /\ hops' \in [Requests -> Nat]
          /\ cur' \in [Requests -> RowIds \cup {None}]
          /\ \A q \in Requests : pc'[q] # "idle" => start'[q] # None /\
                 cur'[q] # None
      <4>1. /\ pc' = [pc EXCEPT ![p] = "access"]
            /\ cur' = [cur EXCEPT ![p] = s]
            /\ hops' = [hops EXCEPT ![p] = hops[p]]
        BY <3>1 DEF Goto
      <4>2. pc[p] = "claim" /\ start' = start
        BY DEF Claim
      <4>3. s # None
        BY <3>2, IdAssumption
      <4> QED BY <4>1, <4>2, <4>3, <3>2 DEF TypeOK, Pcs
    <3>5. UNCHANGED <<now, code, codeExp, access, held, at, start, seen,
           connPc,
                      doomed, replayed, reused, burnt, cutOff>>
      BY DEF Claim
    <3>6. rows' \subseteq RowIds
      BY <3>1, <3>2 DEF TypeOK
    <3> QED BY <3>3, <3>4, <3>5, <3>6 DEF TypeOK
  <2>2. CASE ~Claimable(cur[p])
    BY <2>2 DEF TypeOK, Pcs, Claim, Goto
  <2> QED BY <2>1, <2>2
<1>2. Allocation'
  BY DEF TypeOK, Allocation, Claim, Claimable, Goto
<1>3. Exchange'
  BY DEF TypeOK, Exchange, Claim, Claimable, Goto
<1>4. LinksResolve'
  BY DEF TypeOK, LinksResolve, Allocation, Claim, Claimable, Goto
<1>5. OneLiveRefresh'
  BY DEF TypeOK, OneLiveRefresh, LiveRefresh, LineageOf, Allocation, Claim,
         Claimable, Goto
<1>6. Walk'
  BY DEF TypeOK, Walk, Burning, Allocation, Claim, Claimable, Goto
<1>7. BurntStaysBurnt'
  BY DEF TypeOK, BurntStaysBurnt, Allocation, Claim, Claimable, Goto
<1>8. Damage'
  <2>1. access' = access /\ reused' = reused /\ replayed' = replayed
    BY DEF Claim
  <2>2. CASE Claimable(cur[p])
    <3>1. PICK s \in FreshIds :
            /\ origin[s] = None /\ rows' = rows \cup {s}
            /\ usedAt' = [usedAt EXCEPT ![cur[p]] = at[p], ![s] = None]
            /\ rotatedTo' = [rotatedTo EXCEPT ![cur[p]] = s, ![s] = None]
            /\ origin' = [origin EXCEPT ![s] = origin[cur[p]]]
      BY <2>2 DEF Claim
    <3>2. s \in RowIds /\ s # None /\ cur[p] \in RowIds /\ s \notin rows
      BY <2>2, <3>1, IdAssumption DEF TypeOK, Allocation, Claimable, RowIds
    <3>3. ASSUME NEW r \in rows', Used(r)', rotatedTo'[r] = None
          PROVE  origin'[r] \in reused' \cup replayed'
      BY <2>1, <3>1, <3>2, <3>3 DEF TypeOK, Damage, Used
    <3>4. ASSUME NEW r \in RowIds, access'[r] = "revoked"
          PROVE  origin'[r] \in reused' \cup replayed'
      <4>1. origin[r] \in reused \cup replayed
        BY <2>1, <3>4 DEF Damage
      <4>2. r # s
        BY <3>1, <4>1, IdAssumption DEF TypeOK, RowIds
      <4> QED BY <2>1, <3>1, <3>2, <4>1, <4>2 DEF TypeOK
    <3> QED BY <3>3, <3>4 DEF Damage
  <2>3. CASE ~Claimable(cur[p])
    BY <2>1, <2>3 DEF Damage, Claim, Used
  <2> QED BY <2>2, <2>3
<1>9. Snapshot'
  BY DEF TypeOK, Snapshot, Allocation, Claim, Claimable, Goto
<1> QED BY <1>1, <1>2, <1>3, <1>4, <1>5, <1>6, <1>7, <1>8, <1>9

(* A lost claim reads only. *)
LEMMA RereadInv ==
    ASSUME IInv, NEW p \in Requests, Reread(p)
    PROVE  IInv'
<1>1. TypeOK'
  <2>1. /\ start[p] \in RowIds /\ cur[p] \in RowIds
        /\ at[p] \in Nat /\ hops[p] \in Nat
        /\ origin[start[p]] \in Codes
    BY DEF TypeOK, Walk, Reread
  <2>2. CASE Examine(p, start[p], cur[p], at[p], hops[p])
    BY <2>1, <2>2, ExamineTypes DEF TypeOK, Reread
  <2>3. CASE DetectReuse(p, start[p], hops[p])
    BY <2>1, <2>3 DEF TypeOK, Pcs, Reread, DetectReuse, Goto
  <2> QED BY <2>2, <2>3 DEF Reread
<1>2. Allocation'
  BY DEF TypeOK, Allocation, Reread, Examine, DetectReuse, Goto, WithinRetry
<1>3. Exchange'
  BY DEF TypeOK, Exchange, Reread, Examine, DetectReuse, Goto, WithinRetry
<1>4. LinksResolve'
  BY DEF TypeOK, LinksResolve, Reread, Examine, DetectReuse, Goto, WithinRetry
<1>5. OneLiveRefresh'
  BY DEF TypeOK, OneLiveRefresh, LiveRefresh, LineageOf, Reread, Examine,
         DetectReuse, Goto, WithinRetry
<1>6. Walk'
  BY DEF TypeOK, Walk, Burning, Reread, Examine, DetectReuse, Goto,
         WithinRetry
<1>7. BurntStaysBurnt'
  BY DEF TypeOK, BurntStaysBurnt, Reread, Examine, DetectReuse, Goto,
         WithinRetry
<1>8. Damage'
  BY DEF TypeOK, Damage, Reread, Examine, DetectReuse, Goto, WithinRetry
<1>9. Snapshot'
  BY DEF TypeOK, Snapshot, Reread, Examine, DetectReuse, Goto, WithinRetry
<1> QED BY <1>1, <1>2, <1>3, <1>4, <1>5, <1>6, <1>7, <1>8, <1>9

(* The lineage of a replayed code is flagged already. *)
LEMMA FindFirstInv ==
    ASSUME IInv, NEW p \in Requests, FindFirst(p)
    PROVE  IInv'
<1>1. TypeOK'
  <2>1. CASE start[p] \in rows
    BY <2>1 DEF TypeOK, Pcs, FindFirst
  <2>2. CASE start[p] \notin rows
    <3>1. Finish(p)
      BY <2>2 DEF FindFirst
    <3>2. /\ pc' \in [Requests -> Pcs] /\ at' \in [Requests -> Nat]
          /\ hops' \in [Requests -> Nat] /\ seen' \in [Requests -> SUBSET RowIds]
      BY <3>1 DEF TypeOK, Pcs, Finish
    <3>3. /\ start' \in [Requests -> RowIds \cup {None}]
          /\ cur' \in [Requests -> RowIds \cup {None}]
          /\ \A q \in Requests : pc'[q] # "idle" => start'[q] # None /\
                 cur'[q] # None
      BY <3>1 DEF TypeOK, Finish
    <3> QED BY <3>2, <3>3 DEF TypeOK, FindFirst
  <2> QED BY <2>1, <2>2
<1>2. Allocation'
  BY DEF TypeOK, Allocation, FindFirst, Finish
<1>3. Exchange'
  <2>1. code' = code /\ origin' = origin
    BY DEF FindFirst
  <2>2. \A q \in Requests : pc'[q] \in {"consume", "spoil", "insert", "find"} =>
           q # p /\ pc'[q] = pc[q] /\ start'[q] = start[q] /\ cur'[q] = cur[q]
    BY DEF TypeOK, FindFirst, Finish
  <2> QED BY <2>1, <2>2 DEF Exchange
<1>4. LinksResolve'
  BY DEF TypeOK, LinksResolve, FindFirst, Finish
<1>5. OneLiveRefresh'
  BY DEF TypeOK, OneLiveRefresh, LiveRefresh, LineageOf, FindFirst, Finish
<1>6. Walk'
  BY DEF TypeOK, Walk, Burning, Exchange, Allocation, FindFirst, Finish
<1>7. BurntStaysBurnt'
  BY DEF TypeOK, BurntStaysBurnt, FindFirst, Finish
<1>8. Damage'
  BY DEF TypeOK, Damage, FindFirst, Finish
<1>9. Snapshot'
  BY DEF TypeOK, Snapshot, FindFirst, Finish
<1> QED BY <1>1, <1>2, <1>3, <1>4, <1>5, <1>6, <1>7, <1>8, <1>9

(* The row marked has no successor, or it was used before. *)
LEMMA MarkUsedInv ==
    ASSUME IInv, NEW p \in Requests, MarkUsed(p)
    PROVE  IInv'
<1>1. TypeOK'
  BY DEF TypeOK, Statuses, Pcs, MarkUsed
<1>2. Allocation'
  BY DEF TypeOK, Allocation, MarkUsed
<1>3. Exchange'
  BY DEF TypeOK, Exchange, MarkUsed
<1>4. LinksResolve'
  BY DEF TypeOK, LinksResolve, MarkUsed
<1>5. OneLiveRefresh'
  BY DEF TypeOK, OneLiveRefresh, LiveRefresh, LineageOf, MarkUsed
<1>6. Walk'
  BY DEF TypeOK, Walk, Burning, LinksResolve, MarkUsed
<1>7. BurntStaysBurnt'
  BY DEF TypeOK, BurntStaysBurnt, MarkUsed
<1>8. Damage'
  BY DEF TypeOK, Damage, Walk, Burning, MarkUsed
<1>9. Snapshot'
  BY DEF TypeOK, Snapshot, MarkUsed
<1> QED BY <1>1, <1>2, <1>3, <1>4, <1>5, <1>6, <1>7, <1>8, <1>9

(* A used row's link is final, so nothing is added behind the walk. *)
LEMMA NextLinkInv ==
    ASSUME IInv, NEW p \in Requests, NextLink(p)
    PROVE  IInv'
<1>1. TypeOK'
  BY DEF TypeOK, Statuses, Pcs, NextLink, LinkAfter
<1>2. Allocation'
  BY DEF TypeOK, Allocation, NextLink, LinkAfter
<1>3. Exchange'
  BY DEF TypeOK, Exchange, NextLink, LinkAfter
<1>4. LinksResolve'
  BY DEF TypeOK, LinksResolve, NextLink, LinkAfter
<1>5. OneLiveRefresh'
  BY DEF TypeOK, OneLiveRefresh, LiveRefresh, LineageOf, NextLink, LinkAfter
<1>6. Walk'
  BY DEF TypeOK, Walk, Burning, LinksResolve, NextLink, LinkAfter
<1>7. BurntStaysBurnt'
  BY DEF TypeOK, BurntStaysBurnt, NextLink, LinkAfter
<1>8. Damage'
  BY DEF TypeOK, Damage, NextLink, LinkAfter
<1>9. Snapshot'
  BY DEF TypeOK, Snapshot, NextLink, LinkAfter
<1> QED BY <1>1, <1>2, <1>3, <1>4, <1>5, <1>6, <1>7, <1>8, <1>9

(* The rows of a finished walk are closed under rotated_to. *)
LEMMA RevokeAccessInv ==
    ASSUME IInv, NEW p \in Requests, RevokeAccess(p)
    PROVE  IInv'
<1>1. TypeOK'
  BY DEF TypeOK, Statuses, Pcs, RevokeAccess, RevokedRows, Finish
<1>2. Allocation'
  BY DEF TypeOK, Allocation, Walk, Burning, RevokeAccess, RevokedRows, Finish
<1>3. Exchange'
  BY DEF TypeOK, Exchange, RevokeAccess, RevokedRows, Finish
<1>4. LinksResolve'
  BY DEF TypeOK, LinksResolve, RevokeAccess, RevokedRows, Finish
<1>5. OneLiveRefresh'
  BY DEF TypeOK, OneLiveRefresh, LiveRefresh, LineageOf, RevokeAccess,
         RevokedRows, Finish
<1>6. Walk'
  BY DEF TypeOK, Walk, Burning, RevokeAccess, RevokedRows, Finish
<1>7. BurntStaysBurnt'
  BY DEF TypeOK, BurntStaysBurnt, Walk, Burning, RevokeAccess, RevokedRows,
         Finish
<1>8. Damage'
  BY DEF TypeOK, Damage, Walk, Burning, RevokeAccess, RevokedRows, Finish
<1>9. Snapshot'
  BY DEF TypeOK, Snapshot, RevokeAccess, RevokedRows, Finish
<1> QED BY <1>1, <1>2, <1>3, <1>4, <1>5, <1>6, <1>7, <1>8, <1>9

(* A request that ends leaves the tables as they are. *)
LEMMA AbortInv ==
    ASSUME IInv, NEW p \in Requests, Abort(p)
    PROVE  IInv'
<1>1. TypeOK'
  BY DEF TypeOK, Statuses, Pcs, Abort, Finish
<1>2. Allocation'
  BY DEF TypeOK, Allocation, Abort, Finish
<1>3. Exchange'
  BY DEF TypeOK, Exchange, Abort, Finish
<1>4. LinksResolve'
  BY DEF TypeOK, LinksResolve, Abort, Finish
<1>5. OneLiveRefresh'
  BY DEF TypeOK, OneLiveRefresh, LiveRefresh, LineageOf, Abort, Finish
<1>6. Walk'
  BY DEF TypeOK, Walk, Burning, Abort, Finish
<1>7. BurntStaysBurnt'
  BY DEF TypeOK, BurntStaysBurnt, Abort, Finish
<1>8. Damage'
  BY DEF TypeOK, Damage, Abort, Finish
<1>9. Snapshot'
  BY DEF TypeOK, Snapshot, Abort, Finish
<1> QED BY <1>1, <1>2, <1>3, <1>4, <1>5, <1>6, <1>7, <1>8, <1>9

(* The snapshot holds every row. *)
LEMMA RevokeConnectionInv ==
    ASSUME IInv, RevokeConnection
    PROVE  IInv'
<1>1. TypeOK'
  BY DEF TypeOK, Statuses, Pcs, RevokeConnection
<1>2. Allocation'
  BY DEF TypeOK, Allocation, RevokeConnection
<1>3. Exchange'
  BY DEF TypeOK, Exchange, RevokeConnection
<1>4. LinksResolve'
  BY DEF TypeOK, LinksResolve, RevokeConnection
<1>5. OneLiveRefresh'
  BY DEF TypeOK, OneLiveRefresh, LiveRefresh, LineageOf, RevokeConnection
<1>6. Walk'
  BY DEF TypeOK, Walk, Burning, RevokeConnection
<1>7. BurntStaysBurnt'
  BY DEF TypeOK, BurntStaysBurnt, RevokeConnection
<1>8. Damage'
  BY DEF TypeOK, Damage, RevokeConnection
<1>9. Snapshot'
  BY DEF TypeOK, Snapshot, RevokeConnection
<1> QED BY <1>1, <1>2, <1>3, <1>4, <1>5, <1>6, <1>7, <1>8, <1>9

(* Rows outside the snapshot do not point into it. *)
LEMMA DeleteRefreshInv ==
    ASSUME IInv, DeleteRefresh
    PROVE  IInv'
<1>1. TypeOK'
  BY DEF TypeOK, Statuses, Pcs, DeleteRefresh
<1>2. Allocation'
  BY DEF TypeOK, Allocation, DeleteRefresh
<1>3. Exchange'
  BY DEF TypeOK, Exchange, DeleteRefresh
<1>4. LinksResolve'
  BY DEF TypeOK, LinksResolve, Snapshot, DeleteRefresh
<1>5. OneLiveRefresh'
  BY DEF TypeOK, OneLiveRefresh, LiveRefresh, LineageOf, DeleteRefresh
<1>6. Walk'
  BY DEF TypeOK, Walk, Burning, DeleteRefresh
<1>7. BurntStaysBurnt'
  BY DEF TypeOK, BurntStaysBurnt, DeleteRefresh
<1>8. Damage'
  BY DEF TypeOK, Damage, DeleteRefresh
<1>9. Snapshot'
  BY DEF TypeOK, Snapshot, DeleteRefresh
<1> QED BY <1>1, <1>2, <1>3, <1>4, <1>5, <1>6, <1>7, <1>8, <1>9

(* Deleting access tokens touches no row. *)
LEMMA DeleteAccessInv ==
    ASSUME IInv, DeleteAccess
    PROVE  IInv'
<1>1. TypeOK'
  BY DEF TypeOK, Statuses, Pcs, DeleteAccess
<1>2. Allocation'
  BY DEF TypeOK, Allocation, DeleteAccess
<1>3. Exchange'
  BY DEF TypeOK, Exchange, DeleteAccess
<1>4. LinksResolve'
  BY DEF TypeOK, LinksResolve, DeleteAccess
<1>5. OneLiveRefresh'
  BY DEF TypeOK, OneLiveRefresh, LiveRefresh, LineageOf, DeleteAccess
<1>6. Walk'
  BY DEF TypeOK, Walk, Burning, DeleteAccess
<1>7. BurntStaysBurnt'
  BY DEF TypeOK, BurntStaysBurnt, DeleteAccess
<1>8. Damage'
  BY DEF TypeOK, Damage, DeleteAccess
<1>9. Snapshot'
  BY DEF TypeOK, Snapshot, DeleteAccess
<1> QED BY <1>1, <1>2, <1>3, <1>4, <1>5, <1>6, <1>7, <1>8, <1>9

(* A deleted code stays spent. *)
LEMMA DeleteCodesInv ==
    ASSUME IInv, DeleteCodes
    PROVE  IInv'
<1>1. TypeOK'
  BY DEF TypeOK, Statuses, Pcs, DeleteCodes
<1>2. Allocation'
  BY DEF TypeOK, Allocation, DeleteCodes
<1>3. Exchange'
  BY DEF TypeOK, Exchange, DeleteCodes
<1>4. LinksResolve'
  BY DEF TypeOK, LinksResolve, DeleteCodes
<1>5. OneLiveRefresh'
  BY DEF TypeOK, OneLiveRefresh, LiveRefresh, LineageOf, DeleteCodes
<1>6. Walk'
  BY DEF TypeOK, Walk, Burning, DeleteCodes
<1>7. BurntStaysBurnt'
  BY DEF TypeOK, BurntStaysBurnt, DeleteCodes
<1>8. Damage'
  BY DEF TypeOK, Damage, DeleteCodes
<1>9. Snapshot'
  BY DEF TypeOK, Snapshot, DeleteCodes
<1> QED BY <1>1, <1>2, <1>3, <1>4, <1>5, <1>6, <1>7, <1>8, <1>9

(* The self-FK keeps the links whole. *)
LEMMA PruneExpiredOAuthInv ==
    ASSUME IInv, PruneExpiredOAuth
    PROVE  IInv'
<1>1. TypeOK'
  BY DEF TypeOK, Statuses, Pcs, PruneExpiredOAuth, Pruned, PruneKeepsLinks
<1>2. Allocation'
  BY DEF TypeOK, Allocation, PruneExpiredOAuth, Pruned, PruneKeepsLinks
<1>3. Exchange'
  BY DEF TypeOK, Exchange, PruneExpiredOAuth, Pruned, PruneKeepsLinks
<1>4. LinksResolve'
  BY DEF TypeOK, LinksResolve, PruneExpiredOAuth, Pruned, PruneKeepsLinks
<1>5. OneLiveRefresh'
  BY DEF TypeOK, OneLiveRefresh, LiveRefresh, LineageOf, PruneExpiredOAuth,
         Pruned, PruneKeepsLinks
<1>6. Walk'
  BY DEF TypeOK, Walk, Burning, PruneExpiredOAuth, Pruned, PruneKeepsLinks
<1>7. BurntStaysBurnt'
  BY DEF TypeOK, BurntStaysBurnt, PruneExpiredOAuth, Pruned, PruneKeepsLinks
<1>8. Damage'
  BY DEF TypeOK, Damage, PruneExpiredOAuth, Pruned, PruneKeepsLinks
<1>9. Snapshot'
  BY DEF TypeOK, Snapshot, PruneExpiredOAuth, Pruned, PruneKeepsLinks
<1> QED BY <1>1, <1>2, <1>3, <1>4, <1>5, <1>6, <1>7, <1>8, <1>9

(* Time alone changes nothing. *)
LEMMA TickInv ==
    ASSUME IInv, Tick
    PROVE  IInv'
<1>1. TypeOK'
  BY DEF TypeOK, Statuses, Pcs, Tick
<1>2. Allocation'
  BY DEF TypeOK, Allocation, Tick
<1>3. Exchange'
  BY DEF TypeOK, Exchange, Tick
<1>4. LinksResolve'
  BY DEF TypeOK, LinksResolve, Tick
<1>5. OneLiveRefresh'
  BY DEF TypeOK, OneLiveRefresh, LiveRefresh, LineageOf, Tick
<1>6. Walk'
  BY DEF TypeOK, Walk, Burning, Tick
<1>7. BurntStaysBurnt'
  BY DEF TypeOK, BurntStaysBurnt, Tick
<1>8. Damage'
  BY DEF TypeOK, Damage, Tick
<1>9. Snapshot'
  BY DEF TypeOK, Snapshot, Tick
<1> QED BY <1>1, <1>2, <1>3, <1>4, <1>5, <1>6, <1>7, <1>8, <1>9

(* No step leaves the invariant. *)
LEMMA NextInv == IInv /\ [Next]_vars => IInv'
<1> SUFFICES ASSUME IInv, [Next]_vars PROVE IInv'
  OBVIOUS
<1>1. CASE UNCHANGED vars
  <2>1. TypeOK' /\ Allocation' /\ Exchange' /\ LinksResolve'
    BY <1>1 DEF vars, TypeOK, Allocation, Exchange, LinksResolve
  <2>2. OneLiveRefresh' /\ Walk' /\ BurntStaysBurnt' /\ Damage' /\ Snapshot'
    BY <1>1 DEF vars, OneLiveRefresh, LiveRefresh, LineageOf, Walk, Burning,
                BurntStaysBurnt, Damage, Snapshot
  <2> QED BY <2>1, <2>2
<1>2. ASSUME NEW p \in Requests, Step(p) PROVE IInv'
  BY <1>2, ConsumeCodeInv, InsertFirstInv, InsertAccessInv, RespondInv,
         FollowInv,
     ClaimInv, RereadInv, FindFirstInv, MarkUsedInv, NextLinkInv,
            RevokeAccessInv
  DEF Step
<1> QED
  BY <1>1, <1>2, IssueAuthCodeInv, PresentCodeInv, PresentRefreshInv,
         AbortInv,
     RevokeConnectionInv, DeleteRefreshInv, DeleteAccessInv, DeleteCodesInv,
     PruneExpiredOAuthInv, TickInv
  DEF Next

(* IInv holds in every reachable state of the token endpoint. *)
THEOREM Invariance == Spec => []IInv
BY InitInv, NextInv, PTL DEF Spec

(* Type correctness of every table and request. *)
THEOREM TypeCorrect == Spec => []TypeOK
<1>1. IInv => TypeOK
  OBVIOUS
<1> QED BY <1>1, Invariance, PTL

(* However many requests rotate, retry and replay at once, a lineage has at *)
(* most one refresh token that can still be rotated (rotateRefresh's claim, *)
(* markAuthCodeUsed's single winner).                                       *)
THEOREM LineageNeverForks == Spec => []OneLiveRefresh
<1>1. IInv => OneLiveRefresh
  OBVIOUS
<1> QED BY <1>1, Invariance, PTL

(* rotated_to never dangles and never leaves the lineage, so rotateTail and *)
(* revokeLineage walk rows that are there.                                  *)
THEOREM LinksAlwaysResolve == Spec => []LinksResolve
<1>1. IInv => LinksResolve
  OBVIOUS
<1> QED BY <1>1, Invariance, PTL

(* After revokeLineage has finished, no row it went through can mint again. *)
THEOREM BurntForGood == Spec => []BurntStaysBurnt
<1>1. IInv => BurntStaysBurnt
  OBVIOUS
<1> QED BY <1>1, Invariance, PTL

(* A lineage without reuse or replay is never damaged by the revocation of  *)
(* another lineage of the same user and client.                             *)
THEOREM OtherLineagesKeepWorking == Spec => []OnlyReuseRevokes
<1>1. IInv => OnlyReuseRevokes
  BY DEF TypeOK, Damage, OnlyReuseRevokes, LineageOf
<1> QED BY <1>1, Invariance, PTL

-----------------------------------------------------------------------------
(* What is spent stays so.  An access token is inserted by the request that *)
(* inserted its row, once, and before anybody can have revoked it.          *)
Issuing ==
    /\ \A r \in RowIds : origin[r] = None => access[r] = "none"
    /\ \A p \in Requests : pc[p] = "access" =>
          origin[cur[p]] # None /\ access[cur[p]] = "none"
    /\ \A p, q \in Requests :
          pc[p] = "access" /\ pc[q] = "access" /\ cur[p] = cur[q] => p = q

\* A step that inserts neither a row nor an access token.
Quiet ==
    /\ origin' = origin /\ rows' \subseteq rows
    /\ \A r \in RowIds : access'[r] \in {access[r], "none"} \/ (access[r] = "live" /\ access'[r] = "revoked")
    /\ \A q \in Requests : pc'[q] = "access" => pc[q] = "access" /\ cur'[q] = cur[q]

(* Which steps insert nothing. *)
LEMMA MostAreQuiet ==
    ASSUME IInv, [Next]_vars
    PROVE  \/ Quiet
           \/ \E p \in Requests : InsertFirst(p) \/ InsertAccess(p) \/ Claim(p)
<1> USE DEF TypeOK, Quiet
<1>1. CASE UNCHANGED vars
  BY <1>1 DEF vars
<1>2. ASSUME NEW c \in Codes, IssueAuthCode(c) PROVE Quiet
  BY <1>2 DEF IssueAuthCode
<1>3. ASSUME NEW p \in Requests, NEW c \in Codes, NEW valid \in BOOLEAN, PresentCode(p, c, valid)
      PROVE  Quiet
  BY <1>3 DEF PresentCode
<1>4. ASSUME NEW p \in Requests, NEW r \in RowIds, PresentRefresh(p, r) PROVE Quiet
  BY <1>4 DEF PresentRefresh, Examine, Goto, DetectReuse
<1>5. ASSUME NEW p \in Requests, Follow(p) \/ Reread(p) PROVE Quiet
  BY <1>5 DEF Follow, Reread, Examine, Goto, DetectReuse
<1>6. ASSUME NEW p \in Requests, ConsumeCode(p) \/ Respond(p) \/ FindFirst(p) \/ Abort(p)
      PROVE  Quiet
  BY <1>6 DEF ConsumeCode, Respond, FindFirst, Abort, Finish
<1>7. ASSUME NEW p \in Requests, MarkUsed(p) \/ NextLink(p) PROVE Quiet
  BY <1>7 DEF MarkUsed, NextLink
<1>8. ASSUME NEW p \in Requests, RevokeAccess(p) PROVE Quiet
  BY <1>8 DEF RevokeAccess, Finish
<1>9. CASE RevokeConnection \/ DeleteRefresh \/ DeleteAccess \/ DeleteCodes
  BY <1>9 DEF RevokeConnection, DeleteRefresh, DeleteAccess, DeleteCodes
<1>10. CASE PruneExpiredOAuth \/ Tick
  BY <1>10 DEF PruneExpiredOAuth, Tick
<1> QED BY <1>1, <1>2, <1>3, <1>4, <1>5, <1>6, <1>7, <1>8, <1>9, <1>10 DEF Next, Step

(* A row about to be inserted has been nobody's. *)
LEMMA RowsAreNew ==
    ASSUME IInv, NEW p \in Requests
    PROVE  /\ InsertFirst(p) => start[p] \in Codes /\ cur[p] = start[p] /\ origin[start[p]] = None
           /\ \A r \in rows : origin[r] # None
BY DEF InsertFirst, Exchange, Allocation

LEMMA IssuingStep ==
    ASSUME IInv, Issuing, [Next]_vars
    PROVE  Issuing'
<1> USE DEF TypeOK, Issuing
<1>1. CASE Quiet
  <2>1. ASSUME NEW p \in Requests, pc[p] = "access" PROVE cur[p] \in RowIds
    BY <2>1
  <2> QED BY <1>1, <2>1 DEF Quiet
<1>2. ASSUME NEW p \in Requests, InsertFirst(p) PROVE Issuing'
  <2>1. /\ start[p] \in Codes /\ cur[p] = start[p] /\ origin[start[p]] = None
    BY <1>2, RowsAreNew
  <2>2. /\ access' = access /\ cur' = cur /\ origin' = [origin EXCEPT ![start[p]] = start[p]]
        /\ pc' = [pc EXCEPT ![p] = "access"]
    BY <1>2 DEF InsertFirst
  <2>3. None \notin Codes
    OBVIOUS
  <2> QED BY <2>1, <2>2, <2>3
<1>3. ASSUME NEW p \in Requests, InsertAccess(p) PROVE Issuing'
  BY <1>3 DEF InsertAccess
<1>4. ASSUME NEW p \in Requests, Claim(p) PROVE Issuing'
  <2>1. CASE ~Claimable(cur[p])
    BY <1>4, <2>1 DEF Claim, Goto
  <2>2. ASSUME NEW s \in FreshIds, Claimable(cur[p]), origin[s] = None,
               origin' = [origin EXCEPT ![s] = origin[cur[p]]], Goto(p, "access", s, hops[p])
        PROVE  Issuing'
    <3>1. cur[p] \in RowIds /\ origin[cur[p]] # None /\ access' = access
      BY <1>4, <2>2, RowsAreNew DEF Claimable, Claim
    <3>2. /\ pc' = [pc EXCEPT ![p] = "access"] /\ cur' = [cur EXCEPT ![p] = s]
      BY <2>2 DEF Goto
    <3> QED BY <2>2, <3>1, <3>2
  <2> QED BY <1>4, <2>1, <2>2 DEF Claim
<1> QED BY <1>1, <1>2, <1>3, <1>4, MostAreQuiet

(* Nobody can revoke an access token that its request has yet to insert. *)
LEMMA IssuingHolds == Spec => []Issuing
<1>1. Init => Issuing
  BY DEF Init, Issuing
<1> QED BY <1>1, IssuingStep, Invariance, PTL DEF Spec

(* Codes go one way: new, unused, used, deleted. *)
LEMMA CodesGoOneWay ==
    ASSUME IInv, [Next]_vars, NEW c \in Codes
    PROVE  /\ code[c] = "used" => code'[c] \in {"used", "deleted"}
           /\ code[c] = "deleted" => code'[c] = "deleted"
<1> USE DEF TypeOK, Statuses
<1>1. CASE UNCHANGED code
  BY <1>1
<1>2. ASSUME NEW d \in Codes, IssueAuthCode(d)
      PROVE  code[d] = "new" /\ code' = [code EXCEPT ![d] = "unused"]
  BY <1>2 DEF IssueAuthCode
<1>3. ASSUME NEW p \in Requests, ConsumeCode(p)
      PROVE  UNCHANGED code \/ (code[start[p]] = "unused" /\ code' = [code EXCEPT ![start[p]] = "used"])
  BY <1>3 DEF ConsumeCode
<1>4. DeleteCodes => code' = [d \in Codes |-> IF code[d] = "new" THEN "new" ELSE "deleted"]
  BY DEF DeleteCodes
<1>5. PruneExpiredOAuth => \A d \in Codes : code'[d] \in {code[d], "deleted"}
  BY DEF PruneExpiredOAuth
<1>6. \/ UNCHANGED code
      \/ \E d \in Codes : IssueAuthCode(d)
      \/ \E p \in Requests : ConsumeCode(p)
      \/ DeleteCodes \/ PruneExpiredOAuth
  BY Zenon DEF Next, Step, vars, PresentCode, InsertFirst, InsertAccess, Respond, PresentRefresh, Follow,
         Claim, Reread, FindFirst, MarkUsed, NextLink, RevokeAccess, Abort, RevokeConnection,
         DeleteRefresh, DeleteAccess, Tick
<1> QED BY <1>1, <1>2, <1>3, <1>4, <1>5, <1>6

(* Three steps write used_at. *)
LEMMA StampingSteps ==
    ASSUME [Next]_vars
    PROVE  \/ UNCHANGED usedAt
           \/ \E p \in Requests : InsertFirst(p) \/ Claim(p) \/ MarkUsed(p)
BY Zenon DEF Next, Step, vars, tables, IssueAuthCode, PresentCode, ConsumeCode, InsertAccess, Respond,
     PresentRefresh, Follow, Reread, FindFirst, NextLink, RevokeAccess, Abort, RevokeConnection,
     DeleteRefresh, DeleteAccess, DeleteCodes, PruneExpiredOAuth, Tick

(* Rows are stamped once. *)
LEMMA UsedOnce ==
    ASSUME IInv, [Next]_vars, NEW r \in rows, Used(r)
    PROVE  usedAt'[r] = usedAt[r]
<1> USE DEF TypeOK
<1>1. CASE UNCHANGED usedAt
  BY <1>1
<1>2. ASSUME NEW p \in Requests, InsertFirst(p) PROVE usedAt'[r] = usedAt[r]
  BY <1>2, RowsAreNew DEF InsertFirst
<1>3. ASSUME NEW p \in Requests, Claim(p) PROVE usedAt'[r] = usedAt[r]
  BY <1>3, RowsAreNew DEF Claim, Claimable
<1>4. ASSUME NEW p \in Requests, MarkUsed(p) PROVE usedAt'[r] = usedAt[r]
  BY <1>4 DEF MarkUsed
<1> QED BY <1>1, <1>2, <1>3, <1>4, StampingSteps

(* An id is inserted once, and a revoked access token stays revoked. *)
LEMMA InsertedOnce ==
    ASSUME IInv, Issuing, [Next]_vars, NEW r \in RowIds
    PROVE  /\ r \notin rows /\ origin[r] # None => r \notin rows'
           /\ access[r] = "revoked" => access'[r] # "live"
<1> USE DEF TypeOK
<1>1. CASE Quiet
  BY <1>1 DEF Quiet
<1>2. ASSUME NEW p \in Requests, InsertFirst(p)
      PROVE  rows' = rows \cup {start[p]} /\ access' = access
  BY <1>2 DEF InsertFirst
<1>3. ASSUME NEW p \in Requests, InsertAccess(p)
      PROVE  rows' = rows /\ access' = [access EXCEPT ![cur[p]] = "live"] /\ access[cur[p]] = "none"
  BY <1>3 DEF InsertAccess, Issuing
<1>4. ASSUME NEW p \in Requests, Claim(p)
      PROVE  /\ access' = access
             /\ rows' = rows \/ \E s \in FreshIds : rows' = rows \cup {s} /\ origin[s] = None
  BY <1>4 DEF Claim
<1>5. CASE \E p \in Requests : InsertFirst(p)
  BY <1>2, <1>5, RowsAreNew
<1>6. CASE \E p \in Requests : InsertAccess(p)
  <2>1. PICK p \in Requests : InsertAccess(p)
    BY <1>6
  <2>2. /\ rows' = rows /\ access' = [access EXCEPT ![cur[p]] = "live"]
        /\ access[cur[p]] = "none"
    BY <1>3, <2>1
  <2>3. access[r] = "revoked" => access'[r] = "revoked"
    BY <2>2
  <2> QED BY <2>2, <2>3
<1>7. CASE \E p \in Requests : Claim(p)
  <2>1. PICK p \in Requests : Claim(p)
    BY <1>7
  <2>2. /\ access' = access
        /\ rows' = rows \/ \E s \in FreshIds : rows' = rows \cup {s} /\ origin[s] = None
    BY <2>1, <1>4
  <2> QED BY <2>2
<1> QED BY <1>1, <1>5, <1>6, <1>7, MostAreQuiet

(* No interleaving of exchanges, rotations, burns and revocations makes a   *)
(* used row, a consumed code or a revoked access token usable again.        *)
THEOREM SpentStaysSpent == Spec => SpentForGood
<1>1. ASSUME IInv, Issuing, [Next]_vars
      PROVE  /\ \A c \in Codes : /\ code[c] = "used" => code'[c] \in {"used", "deleted"}
                                 /\ code[c] = "deleted" => code'[c] = "deleted"
             /\ \A r \in RowIds : /\ r \in rows /\ Used(r) => r \notin rows' \/ usedAt'[r] = usedAt[r]
                                  /\ r \notin rows /\ origin[r] # None => r \notin rows'
                                  /\ access[r] = "revoked" => access'[r] # "live"
  BY <1>1, CodesGoOneWay, UsedOnce, InsertedOnce
<1> QED BY <1>1, Invariance, IssuingHolds, PTL DEF Spec, SpentForGood

-----------------------------------------------------------------------------
(* A detected reuse has a cause.  A rotation works on a row of the          *)
(* presented token's lineage, as far down the chain as it has followed      *)
(* links; so a rotation at its hop limit has more rows than that behind it. *)
Rotates(p) == pc[p] \in {"follow", "claim", "reread"}
Rotating ==
    \A p \in Requests : Rotates(p) =>
        /\ at[p] <= now
        /\ origin[cur[p]] = origin[start[p]]
        /\ pc[p] = "reread" => Used(cur[p]) \/ cur[p] \notin rows

(* The depth of each row in its lineage: one more than its predecessor's.   *)
Ranked(d) ==
    /\ \A r \in rows : rotatedTo[r] # None => d[rotatedTo[r]] = d[r] + 1
    /\ \A c \in Codes : \A r \in LineageOf(c) : d[r] < Cardinality(LineageOf(c))
    /\ \A p \in Requests : Rotates(p) => hops[p] <= d[cur[p]]
Depth == \E d \in [RowIds -> Nat] : Ranked(d)

FiniteLineages == \A c \in Codes : IsFiniteSet(LineageOf(c))

\* The causes ReuseHasCause names.
HasCause(c) ==
    \/ c \in replayed
    \/ \E r \in LineageOf(c) : r \notin rows
    \/ \E r \in LineageOf(c) : Used(r) /\ now - usedAt[r] > Grace
    \/ \E r \in LineageOf(c) : expiresAt[r] <= now
    \/ Cardinality(LineageOf(c)) > MaxHops + 1

CauseInv == Rotating /\ Depth /\ FiniteLineages /\ ReuseHasCause

\* A step that leaves each row's lineage, link and expiry alone.
Rowless == UNCHANGED <<origin, rotatedTo, expiresAt>> /\ rows' \subseteq rows

\* A request that rotates after the step did so before it, on the same row.
SameRotations ==
    \A q \in Requests : Rotates(q)' =>
        /\ Rotates(q) /\ pc'[q] = pc[q] /\ cur'[q] = cur[q] /\ hops'[q] = hops[q]
        /\ at'[q] = at[q] /\ start'[q] = start[q]

(* Only three steps go on with a rotation, and two insert a row.            *)
LEMMA StepKinds ==
    ASSUME IInv, [Next]_vars
    PROVE  \/ Rowless /\ SameRotations /\ reused' = reused
           \/ \E p \in Requests : \/ InsertFirst(p) \/ Claim(p)
                                  \/ Follow(p) \/ Reread(p)
                                  \/ \E r \in RowIds : PresentRefresh(p, r)
<1> USE DEF TypeOK, Rowless, SameRotations, Rotates
<1> DEFINE Plain == Rowless /\ SameRotations /\ reused' = reused
<1>1. CASE UNCHANGED vars
  BY <1>1 DEF vars
<1>2. ASSUME NEW c \in Codes, IssueAuthCode(c) PROVE Plain
  BY <1>2 DEF IssueAuthCode
<1>3. ASSUME NEW p \in Requests, NEW c \in Codes, NEW valid \in BOOLEAN, PresentCode(p, c, valid)
      PROVE  Plain
  BY <1>3 DEF PresentCode
<1>4. ASSUME NEW p \in Requests, ConsumeCode(p) PROVE Plain
  BY <1>4 DEF ConsumeCode, Finish
<1>5. ASSUME NEW p \in Requests, Respond(p) \/ FindFirst(p) \/ Abort(p)
      PROVE  Plain
  BY <1>5 DEF Respond, FindFirst, Abort, Finish
<1>6. ASSUME NEW p \in Requests, MarkUsed(p) \/ NextLink(p) PROVE Plain
  BY <1>6 DEF MarkUsed, NextLink
<1>7. ASSUME NEW p \in Requests, RevokeAccess(p) \/ InsertAccess(p) PROVE Plain
  BY <1>7 DEF RevokeAccess, InsertAccess, Finish
<1>8. CASE RevokeConnection \/ DeleteRefresh \/ DeleteAccess \/ DeleteCodes
  BY <1>8 DEF RevokeConnection, DeleteRefresh, DeleteAccess, DeleteCodes
<1>9. CASE PruneExpiredOAuth \/ Tick
  BY <1>9 DEF PruneExpiredOAuth, Tick
<1> QED BY <1>1, <1>2, <1>3, <1>4, <1>5, <1>6, <1>7, <1>8, <1>9 DEF Next, Step

(* The loop's body stays within the rows: it works on the row it examined   *)
(* or on that row's successor, or flags the presented row's lineage.        *)
LEMMA Examined ==
    ASSUME IInv, NEW p \in Requests, NEW a \in RowIds, NEW r \in RowIds, NEW t \in Nat,
           NEW h \in Nat, Examine(p, a, r, t, h)
    PROVE  /\ \A q \in Requests : q # p => pc'[q] = pc[q] /\ cur'[q] = cur[q] /\ hops'[q] = hops[q]
           /\ \/ pc'[p] = "claim" /\ cur'[p] = r /\ hops'[p] = h /\ reused' = reused
              \/ /\ pc'[p] = "follow" /\ cur'[p] = rotatedTo[r] /\ hops'[p] = h + 1
                 /\ r \in rows /\ rotatedTo[r] # None /\ reused' = reused
              \/ /\ pc'[p] = "mark" /\ reused' = reused \cup {origin[a]}
                 /\ \/ r \notin rows
                    \/ ~Used(r) /\ expiresAt[r] <= t
                    \/ r \in rows /\ Used(r) /\ ~WithinRetry(r, t, h)
<1> USE DEF TypeOK, Goto
<1>1. CASE r \in rows /\ ~Used(r) /\ Goto(p, "claim", r, h) /\ reused' = reused
  BY <1>1
<1>2. CASE /\ r \in rows /\ WithinRetry(r, t, h) /\ Goto(p, "follow", rotatedTo[r], h + 1)
           /\ reused' = reused
  BY <1>2 DEF WithinRetry
<1>3. CASE /\ \/ r \notin rows
              \/ ~Used(r) /\ expiresAt[r] <= t
              \/ Used(r) /\ ~WithinRetry(r, t, h)
           /\ DetectReuse(p, a, h)
  BY <1>3 DEF DetectReuse
<1> QED BY <1>1, <1>2, <1>3 DEF Examine

(* What a rotation examines when it gives up: each refusal has a cause.     *)
LEMMA RefusalHasCause ==
    ASSUME IInv, Depth, FiniteLineages, ReuseHasCause,
           NEW r \in RowIds, origin[r] # None, NEW t \in Nat, t <= now, NEW h \in Nat,
           \E d \in [RowIds -> Nat] : Ranked(d) /\ h <= d[r],
           \/ r \notin rows
           \/ ~Used(r) /\ expiresAt[r] <= t
           \/ r \in rows /\ Used(r) /\ ~WithinRetry(r, t, h)
    PROVE  HasCause(origin[r])
<1> USE DEF TypeOK
<1>0. /\ r \in LineageOf(origin[r]) /\ origin[r] \in Codes
      /\ expiresAt[r] \in Nat /\ now \in Nat /\ rotatedTo[r] \in RowIds \cup {None}
  BY DEF LineageOf
<1>1. CASE r \notin rows
  BY <1>0, <1>1 DEF HasCause
<1>2. CASE ~Used(r) /\ expiresAt[r] <= t
  <2>1. expiresAt[r] <= now
    BY <1>0, <1>2
  <2> QED BY <1>0, <2>1 DEF HasCause
<1>3. CASE r \in rows /\ Used(r) /\ t - usedAt[r] > Grace
  <2>1. usedAt[r] \in Nat
    BY <1>3
  <2>2. now - usedAt[r] > Grace
    BY <1>0, <1>3, <2>1
  <2> QED BY <1>0, <1>3, <2>2 DEF HasCause
<1>4. CASE r \in rows /\ Used(r) /\ rotatedTo[r] = None
  <2>1. origin[r] \in reused \cup replayed
    BY <1>4 DEF Damage
  <2> QED BY <2>1 DEF ReuseHasCause, HasCause
<1>5. CASE r \in rows /\ rotatedTo[r] # None /\ h >= MaxHops
  <2>1. PICK d \in [RowIds -> Nat] : Ranked(d) /\ h <= d[r]
    OBVIOUS
  <2> DEFINE s == rotatedTo[r]
             L == LineageOf(origin[r])
  <2>2. s \in RowIds /\ origin[s] = origin[r] /\ d[s] = d[r] + 1
    BY <1>0, <1>5, <2>1 DEF LinksResolve, Ranked
  <2>3. d[s] < Cardinality(L)
    BY <1>0, <2>1, <2>2 DEF Ranked, LineageOf
  <2>4. Cardinality(L) \in Nat
    BY <1>0, FS_CardinalityType DEF FiniteLineages
  <2>5. Cardinality(L) > MaxHops + 1
    BY <1>5, <2>1, <2>2, <2>3, <2>4
  <2> QED BY <2>5 DEF HasCause
<1>6. ASSUME r \in rows, Used(r), ~WithinRetry(r, t, h)
      PROVE  \/ t - usedAt[r] > Grace
             \/ rotatedTo[r] = None
             \/ rotatedTo[r] # None /\ h >= MaxHops
  <2>1. usedAt[r] \in Nat
    BY <1>6
  <2> QED BY <1>6, <2>1 DEF WithinRetry
<1> QED BY <1>1, <1>2, <1>3, <1>4, <1>5, <1>6

(* What a step never changes: a row's lineage, expiry and use, and that it  *)
(* is gone; the clock and the replays only grow.                            *)
LEMMA LineagesGrow ==
    ASSUME IInv, Issuing, [Next]_vars, NEW r \in RowIds, origin[r] # None
    PROVE  /\ origin'[r] = origin[r] /\ expiresAt'[r] = expiresAt[r]
           /\ Used(r) => usedAt'[r] = usedAt[r]
           /\ r \notin rows => r \notin rows'
<1> USE DEF TypeOK
<1>1. r \notin rows => r \notin rows'
  BY InsertedOnce
<1>2. /\ origin'[r] = origin[r] /\ expiresAt'[r] = expiresAt[r]
  <2>1. ASSUME NEW p \in Requests, InsertFirst(p)
        PROVE  origin'[r] = origin[r] /\ expiresAt'[r] = expiresAt[r]
    BY <2>1, RowsAreNew DEF InsertFirst
  <2>2. ASSUME NEW p \in Requests, Claim(p)
        PROVE  origin'[r] = origin[r] /\ expiresAt'[r] = expiresAt[r]
    BY <2>2 DEF Claim
  <2>3. ASSUME NEW p \in Requests, Follow(p) \/ Reread(p) \/ \E a \in RowIds : PresentRefresh(p, a)
        PROVE  origin' = origin /\ expiresAt' = expiresAt
    BY <2>3 DEF Follow, Reread, PresentRefresh, tables
  <2> QED BY <2>1, <2>2, <2>3, StepKinds DEF Rowless
<1>3. Used(r) => usedAt'[r] = usedAt[r]
  <2>1. CASE UNCHANGED usedAt
    BY <2>1
  <2>2. ASSUME NEW p \in Requests, InsertFirst(p), Used(r) PROVE usedAt'[r] = usedAt[r]
    BY <2>2, RowsAreNew DEF InsertFirst
  <2>3. ASSUME NEW p \in Requests, Claim(p), Used(r) PROVE usedAt'[r] = usedAt[r]
    BY <2>3, RowsAreNew DEF Claim, Claimable
  <2>4. ASSUME NEW p \in Requests, MarkUsed(p), Used(r) PROVE usedAt'[r] = usedAt[r]
    BY <2>4 DEF MarkUsed
  <2> QED BY <2>1, <2>2, <2>3, <2>4, StampingSteps
<1> QED BY <1>1, <1>2, <1>3

(* The clock only moves on, and a replay is never forgotten. *)
LEMMA TickOrStill == [Next]_vars => now' = now \/ now' = now + 1
BY Zenon DEF Next, Step, vars, IssueAuthCode, PresentCode, ConsumeCode, InsertFirst, InsertAccess,
     Respond, PresentRefresh, Follow, Claim, Reread, FindFirst, MarkUsed, NextLink, RevokeAccess,
     Abort, RevokeConnection, DeleteRefresh, DeleteAccess, DeleteCodes, PruneExpiredOAuth, Tick

LEMMA ReplaysStay == [Next]_vars => replayed \subseteq replayed'
<1>1. ASSUME NEW p \in Requests, NEW c \in Codes, NEW valid \in BOOLEAN, PresentCode(p, c, valid)
      PROVE  replayed \subseteq replayed'
  BY <1>1 DEF PresentCode
<1>2. ASSUME NEW p \in Requests, ConsumeCode(p) PROVE replayed \subseteq replayed'
  BY <1>2 DEF ConsumeCode
<1>3. [Next]_vars => \/ replayed' = replayed
                     \/ \E p \in Requests, c \in Codes, valid \in BOOLEAN : PresentCode(p, c, valid)
                     \/ \E p \in Requests : ConsumeCode(p)
  BY Zenon DEF Next, Step, vars, history, IssueAuthCode, InsertFirst, InsertAccess,
     Respond, PresentRefresh, Follow, Claim, Reread, FindFirst, MarkUsed, NextLink, RevokeAccess,
     Abort, RevokeConnection, DeleteRefresh, DeleteAccess, DeleteCodes, PruneExpiredOAuth, Tick
<1> QED BY <1>1, <1>2, <1>3

(* Lineages stay finite, and none shrinks. *)
LEMMA LineagesFinite ==
    ASSUME IInv, Issuing, FiniteLineages, [Next]_vars
    PROVE  /\ FiniteLineages'
           /\ \A c \in Codes : LineageOf(c) \subseteq LineageOf(c)'
                               /\ Cardinality(LineageOf(c)) <= Cardinality(LineageOf(c)')
<1> USE DEF TypeOK
<1>1. ASSUME NEW c \in Codes PROVE LineageOf(c) \subseteq LineageOf(c)'
  BY LineagesGrow DEF LineageOf
<1>2. ASSUME NEW c \in Codes PROVE IsFiniteSet(LineageOf(c)')
  <2>0. IsFiniteSet(LineageOf(c))
    BY DEF FiniteLineages
  <2>1. ASSUME NEW s \in RowIds, NEW o, origin' = [origin EXCEPT ![s] = o]
        PROVE  IsFiniteSet(LineageOf(c)')
    <3>1. IsFiniteSet(LineageOf(c) \cup {s})
      BY <2>0, FS_AddElement
    <3>2. LineageOf(c)' \in SUBSET (LineageOf(c) \cup {s})
      BY <2>1 DEF LineageOf
    <3> QED BY <3>1, <3>2, FS_Subset
  <2>2. CASE origin' = origin
    <3>1. LineageOf(c)' = LineageOf(c)
      BY <2>2 DEF LineageOf
    <3> QED BY <2>0, <3>1
  <2>3. ASSUME NEW p \in Requests, InsertFirst(p) PROVE IsFiniteSet(LineageOf(c)')
    BY <2>1, <2>3, RowsAreNew DEF InsertFirst
  <2>4. ASSUME NEW p \in Requests, Claim(p) PROVE IsFiniteSet(LineageOf(c)')
    BY <2>1, <2>2, <2>4 DEF Claim
  <2>5. ASSUME NEW p \in Requests, Follow(p) \/ Reread(p) \/ \E a \in RowIds : PresentRefresh(p, a)
        PROVE  origin' = origin
    BY <2>5 DEF Follow, Reread, PresentRefresh
  <2> QED BY <2>2, <2>3, <2>4, <2>5, StepKinds DEF Rowless
<1>3. FiniteLineages'
  BY <1>2 DEF FiniteLineages
<1> QED BY <1>1, <1>2, <1>3, FS_Subset

(* A cause does not go away. *)
LEMMA CausesStay ==
    ASSUME IInv, Issuing, FiniteLineages, [Next]_vars, NEW c \in Codes, HasCause(c)
    PROVE  HasCause(c)'
<1> USE DEF TypeOK
<1>0. /\ LineageOf(c) \subseteq LineageOf(c)'
      /\ now \in Nat /\ now' \in Nat /\ now <= now' /\ replayed \subseteq replayed'
  <2>1. now \in Nat /\ now' \in Nat
    BY NextInv
  <2>2. now' = now \/ now' = now + 1
    BY Zenon, TickOrStill
  <2>3. replayed \subseteq replayed'
    BY ReplaysStay
  <2> QED BY <2>1, <2>2, <2>3, LineagesFinite
<1>1. CASE c \in replayed
  BY <1>0, <1>1 DEF HasCause
<1>2. ASSUME NEW r \in LineageOf(c)
      PROVE  /\ r \in RowIds /\ origin[r] # None /\ r \in LineageOf(c)'
             /\ expiresAt'[r] = expiresAt[r] /\ expiresAt[r] \in Nat
             /\ Used(r) => usedAt'[r] = usedAt[r] /\ usedAt[r] \in Nat
             /\ r \notin rows => r \notin rows'
  <2>1. r \in RowIds /\ origin[r] # None /\ r \in LineageOf(c)'
    BY <1>0 DEF LineageOf
  <2> QED BY <2>1, LineagesGrow
<1>3. CASE \E r \in LineageOf(c) : r \notin rows
  BY <1>2, <1>3 DEF HasCause
<1>4. ASSUME NEW r \in LineageOf(c), Used(r), now - usedAt[r] > Grace PROVE HasCause(c)'
  <2>1. r \in LineageOf(c)' /\ usedAt'[r] = usedAt[r] /\ usedAt[r] \in Nat /\ usedAt'[r] # None
    BY <1>2, <1>4
  <2>2. now' - usedAt'[r] > Grace
    BY <1>0, <1>4, <2>1
  <2> QED BY <2>1, <2>2 DEF HasCause
<1>5. ASSUME NEW r \in LineageOf(c), expiresAt[r] <= now PROVE HasCause(c)'
  <2>1. r \in LineageOf(c)' /\ expiresAt'[r] <= now'
    BY <1>0, <1>2, <1>5
  <2> QED BY <2>1 DEF HasCause
<1>6. CASE Cardinality(LineageOf(c)) > MaxHops + 1
  <2>1. Cardinality(LineageOf(c)) \in Nat /\ Cardinality(LineageOf(c)') \in Nat
    BY LineagesFinite, FS_CardinalityType DEF FiniteLineages
  <2>2. Cardinality(LineageOf(c)') > MaxHops + 1
    BY <1>6, <2>1, LineagesFinite
  <2> QED BY <2>2 DEF HasCause
<1> QED BY <1>1, <1>3, <1>4, <1>5, <1>6 DEF HasCause

(* A request in the loop, with what the loop's body is given. *)
LEMMA Working ==
    ASSUME IInv, Rotating, NEW p \in Requests, Rotates(p)
    PROVE  /\ start[p] \in RowIds /\ cur[p] \in RowIds /\ at[p] \in Nat /\ hops[p] \in Nat
           /\ at[p] <= now /\ origin[cur[p]] = origin[start[p]] /\ origin[cur[p]] \in Codes
BY DEF TypeOK, Rotates, Rotating, Walk

(* Each step that flags a lineage has a cause at hand. *)
LEMMA FlagsHaveCause ==
    ASSUME IInv, CauseInv, [Next]_vars
    PROVE  \A c \in reused' : HasCause(c)
<1> USE DEF TypeOK, CauseInv
<1>0. \A c \in reused : HasCause(c)
  BY DEF ReuseHasCause, HasCause
<1>1. CASE reused' = reused
  BY <1>0, <1>1
<1>2. PICK d \in [RowIds -> Nat] : Ranked(d)
  BY DEF Depth
<1>3. ASSUME NEW p \in Requests, NEW r \in RowIds, PresentRefresh(p, r)
      PROVE  \A c \in reused' : HasCause(c)
  <2>1. r \in rows /\ origin[r] # None /\ now \in Nat /\ Examine(p, r, r, now, 0) /\ d[r] \in Nat
    BY <1>3 DEF PresentRefresh, Allocation
  <2>2. \/ reused' = reused
        \/ /\ reused' = reused \cup {origin[r]}
           /\ \/ r \notin rows
              \/ ~Used(r) /\ expiresAt[r] <= now
              \/ r \in rows /\ Used(r) /\ ~WithinRetry(r, now, 0)
    BY <2>1, Examined
  <2>3. \E e \in [RowIds -> Nat] : Ranked(e) /\ 0 <= e[r]
    BY <1>2, <2>1
  <2>4. CASE reused' = reused \cup {origin[r]} /\ reused' # reused
    <3>1. HasCause(origin[r])
      <4>1. 0 \in Nat /\ now <= now
        BY <2>1
      <4> QED BY <2>1, <2>2, <2>3, <2>4, <4>1, RefusalHasCause
    <3> QED BY <1>0, <2>4, <3>1
  <2> QED BY <1>0, <2>2, <2>4
<1>4. ASSUME NEW p \in Requests, Follow(p) \/ Reread(p)
      PROVE  \A c \in reused' : HasCause(c)
  <2>1. Rotates(p)
    BY <1>4 DEF Follow, Reread, Rotates
  <2> DEFINE r == cur[p]
  <2>2. /\ start[p] \in RowIds /\ r \in RowIds /\ at[p] \in Nat /\ hops[p] \in Nat
        /\ at[p] <= now /\ origin[r] = origin[start[p]] /\ origin[r] \in Codes
    BY <2>1, Working
  <2>3. \/ reused' = reused
        \/ /\ reused' = reused \cup {origin[start[p]]}
           /\ \/ r \notin rows
              \/ ~Used(r) /\ expiresAt[r] <= at[p]
              \/ r \in rows /\ Used(r) /\ ~WithinRetry(r, at[p], hops[p])
    <3>1. CASE Examine(p, start[p], r, at[p], hops[p])
      BY <2>2, <3>1, Examined
    <3>2. CASE pc[p] = "reread" /\ DetectReuse(p, start[p], hops[p]) /\ (r \notin rows \/ ~Used(r))
      <4>1. r \notin rows
        BY <3>2 DEF Rotating, Rotates
      <4> QED BY <3>2, <4>1 DEF DetectReuse
    <3> QED BY <1>4, <3>1, <3>2 DEF Follow, Reread
  <2>4. \E e \in [RowIds -> Nat] : Ranked(e) /\ hops[p] <= e[r]
    BY <1>2, <2>1 DEF Ranked
  <2>5. CASE reused' = reused \cup {origin[r]} /\ reused' # reused
    <3>1. HasCause(origin[r])
      BY <2>2, <2>3, <2>4, <2>5, RefusalHasCause
    <3> QED BY <1>0, <2>5, <3>1
  <2> QED BY <1>0, <2>2, <2>3, <2>5
<1>5. ASSUME NEW p \in Requests, InsertFirst(p) \/ Claim(p) PROVE reused' = reused
  BY <1>5 DEF InsertFirst, Claim
<1> QED BY <1>1, <1>3, <1>4, <1>5, StepKinds

(* A rotation keeps its clock, its lineage and its lost claim. *)
LEMMA RotatingStep ==
    ASSUME IInv, Issuing, Rotating, [Next]_vars
    PROVE  Rotating'
<1> USE DEF TypeOK
<1>0. now \in Nat /\ now' \in Nat /\ now <= now'
  <2>1. now \in Nat /\ now' \in Nat
    BY NextInv
  <2> QED BY <2>1, TickOrStill
<1> DEFINE Good(q) == Rotates(q)' => /\ at'[q] <= now'
                                     /\ origin'[cur'[q]] = origin'[start'[q]]
                                     /\ pc'[q] = "reread" => usedAt'[cur'[q]] # None \/ cur'[q] \notin rows'
<1>1. ASSUME NEW q \in Requests, Rotates(q), pc'[q] = pc[q], cur'[q] = cur[q], at'[q] = at[q],
             start'[q] = start[q]
      PROVE  Good(q)
  <2>1. /\ start[q] \in RowIds /\ cur[q] \in RowIds /\ at[q] \in Nat
        /\ at[q] <= now /\ origin[cur[q]] = origin[start[q]] /\ origin[cur[q]] # None
    BY <1>1, Working
  <2>2. at'[q] <= now'
    BY <1>0, <1>1, <2>1
  <2>3. origin'[cur[q]] = origin[cur[q]] /\ origin'[start[q]] = origin[start[q]]
    BY <2>1, LineagesGrow
  <2>4. pc[q] = "reread" => usedAt'[cur[q]] # None \/ cur[q] \notin rows'
    BY <1>1, <2>1, LineagesGrow DEF Rotating
  <2> QED BY <1>1, <2>1, <2>2, <2>3, <2>4
<1>2. CASE SameRotations
  BY <1>1, <1>2 DEF SameRotations, Rotating
<1>3. ASSUME NEW p \in Requests, NEW r \in RowIds, PresentRefresh(p, r) PROVE Rotating'
  <2>1. /\ r \in rows /\ origin[r] # None /\ now' = now /\ origin' = origin
        /\ at' = [at EXCEPT ![p] = now] /\ start' = [start EXCEPT ![p] = r]
        /\ Examine(p, r, r, now, 0)
    BY <1>3 DEF PresentRefresh, Allocation
  <2>2. /\ \A q \in Requests : q # p => pc'[q] = pc[q] /\ cur'[q] = cur[q]
        /\ \/ pc'[p] = "claim" /\ cur'[p] = r
           \/ pc'[p] = "follow" /\ cur'[p] = rotatedTo[r] /\ rotatedTo[r] # None
           \/ pc'[p] = "mark"
    BY <1>0, <2>1, Examined
  <2>3. ASSUME NEW q \in Requests, q # p PROVE Good(q)
    <3>1. at'[q] = at[q] /\ start'[q] = start[q] /\ pc'[q] = pc[q] /\ cur'[q] = cur[q]
      BY <2>1, <2>2, <2>3
    <3>2. Rotates(q)' => Rotates(q)
      BY <3>1 DEF Rotates
    <3> QED BY <1>1, <3>1, <3>2
  <2>4. Good(p)
    <3>1. at'[p] = now /\ start'[p] = r
      BY <2>1
    <3>2. rotatedTo[r] # None => origin[rotatedTo[r]] = origin[r]
      BY <2>1 DEF LinksResolve
    <3> QED BY <1>0, <2>1, <2>2, <3>1, <3>2 DEF Rotates
  <2> QED BY <2>3, <2>4 DEF Rotating
<1>4. ASSUME NEW p \in Requests, Follow(p) \/ Reread(p) PROVE Rotating'
  <2>0. Rotates(p)
    BY <1>4 DEF Follow, Reread, Rotates
  <2>1. /\ start[p] \in RowIds /\ cur[p] \in RowIds /\ at[p] \in Nat /\ hops[p] \in Nat
        /\ at[p] <= now /\ origin[cur[p]] = origin[start[p]] /\ origin[cur[p]] # None
    BY <2>0, Working
  <2>2. now' = now /\ origin' = origin /\ at' = at /\ start' = start
    BY <1>4 DEF Follow, Reread
  <2>3. /\ \A q \in Requests : q # p => pc'[q] = pc[q] /\ cur'[q] = cur[q]
        /\ \/ pc'[p] = "claim" /\ cur'[p] = cur[p]
           \/ /\ pc'[p] = "follow" /\ cur'[p] = rotatedTo[cur[p]] /\ rotatedTo[cur[p]] # None
              /\ cur[p] \in rows
           \/ pc'[p] = "mark"
    <3>1. CASE Examine(p, start[p], cur[p], at[p], hops[p])
      BY <2>1, <3>1, Examined
    <3>2. CASE DetectReuse(p, start[p], hops[p])
      BY <3>2 DEF DetectReuse, Goto
    <3> QED BY <1>4, <3>1, <3>2 DEF Follow, Reread
  <2>4. ASSUME NEW q \in Requests, q # p PROVE Good(q)
    <3>1. Rotates(q)' => Rotates(q)
      BY <2>3, <2>4 DEF Rotates
    <3> QED BY <1>1, <2>2, <2>3, <2>4, <3>1
  <2>5. Good(p)
    <3>2. cur[p] \in rows /\ rotatedTo[cur[p]] # None => origin[rotatedTo[cur[p]]] = origin[cur[p]]
      BY DEF LinksResolve
    <3> QED BY <1>0, <2>1, <2>2, <2>3, <3>2 DEF Rotates
  <2> QED BY <2>4, <2>5 DEF Rotating
<1>5. ASSUME NEW p \in Requests, InsertFirst(p) \/ Claim(p) PROVE Rotating'
  <2>1. at' = at /\ start' = start /\ now' = now
    BY <1>5 DEF InsertFirst, Claim
  <2>2. \A q \in Requests : q # p => pc'[q] = pc[q] /\ cur'[q] = cur[q]
    BY <1>5 DEF InsertFirst, Claim, Goto
  <2>3. ASSUME NEW q \in Requests, q # p PROVE Good(q)
    <3>1. Rotates(q)' => Rotates(q)
      BY <2>2, <2>3 DEF Rotates
    <3> QED BY <1>1, <2>1, <2>2, <2>3, <3>1
  <2>4. Good(p)
    <3>1. CASE pc'[p] = "access"
      BY <3>1 DEF Rotates
    <3>2. CASE /\ pc[p] = "claim" /\ ~Claimable(cur[p]) /\ Goto(p, "reread", cur[p], hops[p])
               /\ UNCHANGED <<rows, usedAt, origin>>
      <4>1. /\ at[p] \in Nat /\ at[p] <= now /\ origin[cur[p]] = origin[start[p]]
        BY <3>2, Working DEF Rotates
      <4>2. cur'[p] = cur[p]
        BY <3>2 DEF Goto
      <4>3. usedAt[cur[p]] # None \/ cur[p] \notin rows
        BY <3>2 DEF Claimable
      <4> QED BY <2>1, <3>2, <4>1, <4>2, <4>3
    <3> QED BY <1>5, <3>1, <3>2 DEF InsertFirst, Claim, Goto
  <2> QED BY <2>3, <2>4 DEF Rotating
<1> QED BY <1>2, <1>3, <1>4, <1>5, StepKinds

(* Claiming the last row of a lineage puts its successor one deeper.        *)
LEMMA DepthStep ==
    ASSUME IInv, Issuing, CauseInv, [Next]_vars
    PROVE  Depth'
<1> USE DEF TypeOK, CauseInv
<1>0. PICK d \in [RowIds -> Nat] : Ranked(d)
  BY DEF Depth
<1>1. ASSUME NEW c \in Codes, NEW r \in LineageOf(c)
      PROVE  d[r] < Cardinality(LineageOf(c)')
  <2>1. d[r] < Cardinality(LineageOf(c)) /\ d[r] \in Nat
    BY <1>0 DEF Ranked, LineageOf
  <2>2. /\ Cardinality(LineageOf(c)) <= Cardinality(LineageOf(c)')
        /\ Cardinality(LineageOf(c)) \in Nat /\ Cardinality(LineageOf(c)') \in Nat
    BY LineagesFinite, FS_CardinalityType DEF FiniteLineages
  <2> QED BY <2>1, <2>2
<1>2. CASE Rowless /\ SameRotations
  <2>1. \A c \in Codes : \A r \in LineageOf(c)' : d[r] < Cardinality(LineageOf(c)')
    BY <1>1, <1>2 DEF Rowless, LineageOf
  <2>2. \A r \in rows' : rotatedTo'[r] # None => d[rotatedTo'[r]] = d[r] + 1
    BY <1>0, <1>2 DEF Ranked, Rowless
  <2>3. \A q \in Requests : Rotates(q)' => hops'[q] <= d[cur'[q]]
    BY <1>0, <1>2 DEF Ranked, SameRotations
  <2>4. Ranked(d)'
    BY <2>1, <2>2, <2>3 DEF Ranked
  <2> QED BY <2>4 DEF Depth
<1>3. ASSUME NEW p \in Requests, Follow(p) \/ Reread(p) \/ \E a \in RowIds : PresentRefresh(p, a)
      PROVE  Depth'
  <2>1. UNCHANGED <<origin, rotatedTo, rows>>
    BY <1>3 DEF Follow, Reread, PresentRefresh, tables
  <2>2. \A q \in Requests : q # p => pc'[q] = pc[q] /\ cur'[q] = cur[q] /\ hops'[q] = hops[q]
    BY <1>3 DEF Follow, Reread, PresentRefresh, Examine, DetectReuse, Goto
  <2>3. Rotates(p)' => hops'[p] <= d[cur'[p]]
    <3>1. ASSUME NEW r \in RowIds, NEW a \in RowIds, NEW t \in Nat, NEW h \in Nat, h <= d[r],
                 Examine(p, a, r, t, h)
          PROVE  Rotates(p)' => hops'[p] <= d[cur'[p]]
      <4>1. CASE pc'[p] = "claim" /\ cur'[p] = r /\ hops'[p] = h
        BY <3>1, <4>1
      <4>2. CASE /\ pc'[p] = "follow" /\ cur'[p] = rotatedTo[r] /\ hops'[p] = h + 1
                 /\ r \in rows /\ rotatedTo[r] # None
        <5>1. d[rotatedTo[r]] = d[r] + 1 /\ d[r] \in Nat
          BY <1>0, <4>2 DEF Ranked
        <5> QED BY <3>1, <4>2, <5>1
      <4>3. CASE pc'[p] = "mark"
        BY <4>3 DEF Rotates
      <4> QED BY <3>1, <4>1, <4>2, <4>3, Examined
    <3>2. ASSUME NEW a \in RowIds, PresentRefresh(p, a) PROVE Rotates(p)' => hops'[p] <= d[cur'[p]]
      <4>1. Examine(p, a, a, now, 0) /\ now \in Nat /\ 0 <= d[a] /\ 0 \in Nat
        BY <3>2 DEF PresentRefresh
      <4> QED BY <3>1, <4>1
    <3>3. CASE Follow(p) \/ Reread(p)
      <4>0. Rotates(p)
        BY <3>3 DEF Follow, Reread, Rotates
      <4>1. /\ start[p] \in RowIds /\ cur[p] \in RowIds /\ at[p] \in Nat /\ hops[p] \in Nat
            /\ hops[p] <= d[cur[p]]
        BY <1>0, <4>0, Working DEF Ranked
      <4>2. CASE Examine(p, start[p], cur[p], at[p], hops[p])
        BY <3>1, <4>1, <4>2
      <4>3. CASE DetectReuse(p, start[p], hops[p])
        BY <4>3 DEF DetectReuse, Goto, Rotates
      <4> QED BY <3>3, <4>2, <4>3 DEF Follow, Reread
    <3> QED BY <1>3, <3>2, <3>3
  <2>4. \A q \in Requests : Rotates(q)' => hops'[q] <= d[cur'[q]]
    BY <1>0, <2>2, <2>3 DEF Ranked, Rotates
  <2>5. \A c \in Codes : \A r \in LineageOf(c)' : d[r] < Cardinality(LineageOf(c)')
    BY <1>1, <2>1 DEF LineageOf
  <2>6. \A r \in rows' : rotatedTo'[r] # None => d[rotatedTo'[r]] = d[r] + 1
    BY <1>0, <2>1 DEF Ranked
  <2>7. Ranked(d)'
    BY <2>4, <2>5, <2>6 DEF Ranked
  <2> QED BY <2>7 DEF Depth
<1>4. ASSUME NEW p \in Requests, InsertFirst(p) PROVE Depth'
  <2>0. PICK c \in Codes : c = start[p] /\ origin[c] = None
    BY <1>4, RowsAreNew
  <2> DEFINE e == [d EXCEPT ![c] = 0]
  <2>1. c \in RowIds /\ origin[c] = None /\ e \in [RowIds -> Nat]
    BY <2>0
  <2>2. /\ rows' = rows \cup {c} /\ rotatedTo' = [rotatedTo EXCEPT ![c] = None]
        /\ origin' = [origin EXCEPT ![c] = c] /\ hops' = hops /\ cur' = cur
        /\ pc' = [pc EXCEPT ![p] = "access"]
    BY <1>4, <2>0 DEF InsertFirst
  <2>3. \A r \in rows' : rotatedTo'[r] # None => e[rotatedTo'[r]] = e[r] + 1
    <3>1. SUFFICES ASSUME NEW r \in rows, r # c, rotatedTo[r] # None PROVE e[rotatedTo[r]] = e[r] + 1
      BY <2>1, <2>2
    <3>2. rotatedTo[r] # c /\ rotatedTo[r] \in RowIds
      BY <2>1, <3>1 DEF LinksResolve, Allocation
    <3> QED BY <1>0, <3>1, <3>2 DEF Ranked
  <2>4. ASSUME NEW o \in Codes, NEW r \in LineageOf(o)'
        PROVE  e[r] < Cardinality(LineageOf(o)')
    <3>1. CASE r # c
      <4>1. r \in LineageOf(o) /\ e[r] = d[r]
        BY <2>1, <2>2, <2>4, <3>1 DEF LineageOf
      <4> QED BY <1>1, <4>1
    <3>2. CASE r = c
      <4>1. e[c] = 0
        BY <2>1
      <4>2. IsFiniteSet(LineageOf(o)')
        BY LineagesFinite DEF FiniteLineages
      <4>3. Cardinality(LineageOf(o)') \in Nat /\ Cardinality(LineageOf(o)') # 0
        BY <2>4, <4>2, FS_CardinalityType, FS_EmptySet
      <4> QED BY <3>2, <4>1, <4>3
    <3> QED BY <3>1, <3>2
  <2>5. ASSUME NEW q \in Requests, Rotates(q)' PROVE hops'[q] <= e[cur'[q]]
    <3>1. Rotates(q) /\ cur'[q] = cur[q] /\ hops'[q] = hops[q]
      BY <2>2, <2>5 DEF Rotates
    <3>2. cur[q] \in RowIds /\ cur[q] # c
      BY <2>1, <3>1, Working
    <3> QED BY <1>0, <3>1, <3>2 DEF Ranked
  <2>6. Ranked(e)'
    BY <2>3, <2>4, <2>5 DEF Ranked
  <2> QED BY <2>1, <2>6 DEF Depth
<1>5. ASSUME NEW p \in Requests, Claim(p) PROVE Depth'
  <2>0. Rotates(p) /\ pc[p] = "claim" /\ cur[p] \in RowIds /\ origin[cur[p]] \in Codes
    BY <1>5, Working DEF Claim, Rotates
  <2>1. CASE ~Claimable(cur[p])
    <3>1. UNCHANGED <<origin, rotatedTo, rows>> /\ Goto(p, "reread", cur[p], hops[p])
      BY <1>5, <2>1 DEF Claim
    <3>2. \A q \in Requests : Rotates(q)' => Rotates(q) /\ cur'[q] = cur[q] /\ hops'[q] = hops[q]
      BY <2>0, <3>1 DEF Rotates, Goto
    <3>3. \A c \in Codes : \A r \in LineageOf(c)' : d[r] < Cardinality(LineageOf(c)')
      BY <1>1, <3>1 DEF LineageOf
    <3>4. /\ \A r \in rows' : rotatedTo'[r] # None => d[rotatedTo'[r]] = d[r] + 1
          /\ \A q \in Requests : Rotates(q)' => hops'[q] <= d[cur'[q]]
      BY <1>0, <3>1, <3>2 DEF Ranked
    <3>5. Ranked(d)'
      BY <3>3, <3>4 DEF Ranked
    <3> QED BY <3>5 DEF Depth
  <2>2. CASE Claimable(cur[p])
    <3>1. PICK r \in rows : r = cur[p] /\ r \in RowIds
      BY <2>2 DEF Claimable
    <3>2. PICK s \in FreshIds :
            /\ origin[s] = None /\ rows' = rows \cup {s}
            /\ rotatedTo' = [rotatedTo EXCEPT ![r] = s, ![s] = None]
            /\ origin' = [origin EXCEPT ![s] = origin[r]]
            /\ Goto(p, "access", s, hops[p])
      BY <1>5, <2>2, <3>1 DEF Claim
    <3> DEFINE e == [d EXCEPT ![s] = d[r] + 1]
    <3>3. s \in RowIds /\ s # r /\ e \in [RowIds -> Nat] /\ origin[r] \in Codes
      BY <2>0, <3>1, <3>2
    <3>4. \A q \in rows' : rotatedTo'[q] # None => e[rotatedTo'[q]] = e[q] + 1
      <4>1. ASSUME NEW q \in rows, q # r, rotatedTo[q] # None
            PROVE  e[rotatedTo[q]] = e[q] + 1
        <5>1. rotatedTo[q] \in RowIds /\ rotatedTo[q] # s /\ q # s
          BY <3>2, <4>1 DEF LinksResolve, Allocation
        <5> QED BY <1>0, <4>1, <5>1 DEF Ranked
      <4>2. rotatedTo'[r] = s /\ e[s] = e[r] + 1 /\ rotatedTo'[s] = None
        BY <3>2, <3>3
      <4>3. \A q \in rows : q # r => q # s /\ rotatedTo'[q] = rotatedTo[q]
        BY <3>2, <3>3 DEF Allocation
      <4> QED BY <3>2, <4>1, <4>2, <4>3
    <3>5. ASSUME NEW o \in Codes, NEW q \in LineageOf(o)'
          PROVE  e[q] < Cardinality(LineageOf(o)')
      <4>1. CASE q # s
        <5>1. q \in LineageOf(o) /\ e[q] = d[q]
          BY <3>2, <3>3, <3>5, <4>1 DEF LineageOf
        <5> QED BY <1>1, <5>1
      <4>2. CASE q = s
        <5> DEFINE L == LineageOf(o)
        <5>1. IsFiniteSet(L) /\ Cardinality(L) \in Nat
          BY FS_CardinalityType DEF FiniteLineages
        <5>2. s \notin L
          BY <3>2, <3>3 DEF LineageOf
        <5>3. origin[r] = o /\ LineageOf(o)' = L \cup {s}
          BY <3>2, <3>3, <3>5, <4>2 DEF LineageOf
        <5>4. Cardinality(L \cup {s}) = Cardinality(L) + 1
          BY <5>1, <5>2, FS_AddElement
        <5>5. d[r] < Cardinality(L) /\ d[r] \in Nat /\ e[s] = d[r] + 1
          BY <1>0, <3>1, <3>3, <5>3 DEF Ranked, LineageOf
        <5>6. d[r] + 1 < Cardinality(L) + 1
          BY <5>1, <5>5
        <5> QED BY <4>2, <5>3, <5>4, <5>5, <5>6
      <4> QED BY <4>1, <4>2
    <3>6. ASSUME NEW q \in Requests, Rotates(q)' PROVE hops'[q] <= e[cur'[q]]
      <4>1. Rotates(q) /\ cur'[q] = cur[q] /\ hops'[q] = hops[q]
        BY <3>2, <3>6 DEF Rotates, Goto
      <4>2. cur[q] \in RowIds /\ cur[q] # s
        BY <3>2, <4>1, Working
      <4> QED BY <1>0, <4>1, <4>2 DEF Ranked
    <3>7. Ranked(e)'
      BY <3>4, <3>5, <3>6 DEF Ranked
    <3> QED BY <3>3, <3>7 DEF Depth
  <2> QED BY <2>1, <2>2
<1> QED BY <1>2, <1>3, <1>4, <1>5, StepKinds

LEMMA CauseStep ==
    ASSUME IInv, Issuing, CauseInv, [Next]_vars
    PROVE  CauseInv'
<1>1. Rotating' /\ Depth' /\ FiniteLineages'
  BY RotatingStep, DepthStep, LineagesFinite DEF CauseInv
<1>2. \A c \in reused' : c \in Codes /\ HasCause(c)'
  <2>1. reused' \subseteq Codes
    BY NextInv DEF TypeOK
  <2> QED BY <2>1, FlagsHaveCause, CausesStay DEF CauseInv
<1>3. ReuseHasCause'
  BY <1>2 DEF ReuseHasCause, HasCause
<1> QED BY <1>1, <1>3 DEF CauseInv

(* At first there is no lineage and no rotation. *)
LEMMA CauseInit == Init => CauseInv
<1> SUFFICES ASSUME Init PROVE CauseInv
  OBVIOUS
<1>1. Rotating /\ ReuseHasCause
  BY DEF Init, Rotating, Rotates, ReuseHasCause
<1>2. FiniteLineages
  <2>1. \A c \in Codes : LineageOf(c) = {}
    BY DEF Init, LineageOf
  <2> QED BY <2>1, FS_EmptySet DEF FiniteLineages
<1>3. Ranked([r \in RowIds |-> 0])
  BY DEF Init, Ranked, Rotates, LineageOf
<1>4. Depth
  BY <1>3 DEF Depth
<1> QED BY <1>1, <1>2, <1>4 DEF CauseInv

(* Sessions that share a token and rotate at once are never taken for       *)
(* reuse: however they interleave with burns, revocations, prunes and       *)
(* aborted requests, a detected reuse has a cause tokens.server.ts names.   *)
THEOREM ReuseIsNeverGuessed == Spec => []ReuseHasCause
<1>1. CauseInv => ReuseHasCause
  BY DEF CauseInv
<1> QED BY <1>1, CauseInit, CauseStep, Invariance, IssuingHolds, PTL DEF Spec

=============================================================================
