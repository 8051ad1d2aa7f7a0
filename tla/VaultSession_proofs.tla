------------------------ MODULE VaultSession_proofs ------------------------
(***************************************************************************)
(* Proofs about VaultSession for every number of handlers, wallets, ids,   *)
(* phrases and passwords.                                                  *)
(***************************************************************************)
EXTENDS VaultSession, WellFoundedInduction, FiniteSetTheorems, TLAPS

USE DEF history

-----------------------------------------------------------------------------
(* The oldest record.                                                      *)

LEMMA Least ==
  ASSUME NEW S \in SUBSET Nat, S # {}
  PROVE  \E i \in S : \A j \in S : i <= j
<1> DEFINE Less == {p \in Nat \X Nat : p[1] < p[2]}
<1>1. IsWellFoundedOn(Less, Nat)
  BY NatLessThanWellFounded DEF OpToRel
<1>2. PICK x \in S : \A y \in S : ~ (<<y, x>> \in Less)
  <2> HIDE DEF Less
  <2> QED BY <1>1, WFMin, Zenon
<1>3. ASSUME NEW y \in S PROVE x <= y
  <2>1. x \in Nat /\ y \in Nat
    OBVIOUS
  <2>2. ~ (<<y, x>> \in Less)
    <3> HIDE DEF Less
    <3> QED BY <1>2
  <2>3. <<y, x>> \in Less <=> y < x
    BY <2>1
  <2> QED BY <2>1, <2>2, <2>3
<1> QED BY <1>3

LEMMA IdsAreNumbers == Ids \subseteq Nat /\ NoId \notin Ids
BY VaultAssumption DEF Ids, NoId

LEMMA FirstMember ==
  ASSUME NEW S \in SUBSET Ids, S # {}
  PROVE  First(S) \in S
<1>1. \E i \in S : \A j \in S : i <= j
  BY Least, IdsAreNumbers
<1> QED BY <1>1 DEF First

LEMMA FirstType ==
  ASSUME NEW S \in SUBSET Ids
  PROVE  First(S) \in Ids \cup {NoId}
BY FirstMember DEF First

-----------------------------------------------------------------------------
(* Types.                                                                  *)

LEMMA BlankTypes ==
  /\ Empty \in Stores
  /\ Locked \in Sessions
  /\ Idle \in Jobs
BY DEF Empty, Stores, Locked, Sessions, Idle, Jobs, Stages, NoId

LEMMA StoredType ==
  ASSUME NEW w \in Stores
  PROVE  /\ Stored(w) \in SUBSET Ids
         /\ \A i \in Stored(w) : w[i] \in Records
BY DEF Stores, Stored

LEMMA PrimaryType ==
  ASSUME NEW s \in Seeds
  PROVE  Primary(s) \in SUBSET Accounts
BY DEF Primary, Accounts

LEMMA WithType ==
  ASSUME NEW w \in Stores, NEW i \in Ids, NEW r \in Records
  PROVE  With(w, i, r) \in Stores
BY DEF With, Stores

\* A step that only moves handler h keeps the types if the new job has one.
LEMMA GoesType ==
  ASSUME handler \in [Handlers -> Jobs], NEW h \in Handlers,
         NEW j \in Jobs, Goes(h, j)
  PROVE  handler' \in [Handlers -> Jobs]
BY DEF Goes

LEMMA InitTypes == Init => TypeOK
<1> SUFFICES ASSUME Init PROVE TypeOK
  OBVIOUS
<1>1. PICK S \in SUBSET (1..MAX_WALLETS) :
        /\ S \subseteq Ids
        /\ owner \in [Ids -> Seeds \cup {NoSeed}]
        /\ \A i \in Ids : owner[i] = NoSeed <=> i \notin S
        /\ \E old \in [S -> [pw: Passwords, listed: BOOLEAN, tron: BOOLEAN]] :
              store = [i \in Ids |->
                         IF i \in S THEN [seed |-> owner[i], pw |-> old[i].pw,
                              accounts |-> IF old[i].listed THEN Primary(owner[i]) ELSE {},
                              tron |-> old[i].tron /\ old[i].listed]
                         ELSE NoRecord]
        /\ agreed = [i \in Ids |-> IF i \in S THEN store[i].pw ELSE NoPassword]
        /\ active \in S \cup {NoId}
  BY DEF Init
<1>2. PICK old \in [S -> [pw: Passwords, listed: BOOLEAN, tron: BOOLEAN]] :
        store = [i \in Ids |->
                   IF i \in S THEN [seed |-> owner[i], pw |-> old[i].pw,
                        accounts |-> IF old[i].listed THEN Primary(owner[i]) ELSE {},
                        tron |-> old[i].tron /\ old[i].listed]
                   ELSE NoRecord]
  BY <1>1
<1>3. ASSUME NEW i \in S
      PROVE  store[i] \in Records
  <2>1. owner[i] \in Seeds /\ i \in Ids
    BY <1>1
  <2>2. Primary(owner[i]) \in SUBSET Accounts
    BY <2>1, PrimaryType
  <2>3. old[i].pw \in Passwords /\ old[i].listed \in BOOLEAN /\ old[i].tron \in BOOLEAN
    OBVIOUS
  <2>4. store[i] = [seed |-> owner[i], pw |-> old[i].pw,
                    accounts |-> IF old[i].listed THEN Primary(owner[i]) ELSE {},
                    tron |-> old[i].tron /\ old[i].listed]
    BY <1>2, <2>1
  <2>5. (old[i].tron /\ old[i].listed) \in BOOLEAN
    OBVIOUS
  <2> QED BY <2>1, <2>2, <2>3, <2>4, <2>5 DEF Records
<1>4. store \in Stores
  BY <1>1, <1>2, <1>3 DEF Stores
<1>5. agreed \in [Ids -> Passwords \cup {NoPassword}]
  BY <1>1, <1>3 DEF Records
<1>6. /\ session \in Sessions /\ handler \in [Handlers -> Jobs] /\ removed \in SUBSET Ids
      /\ unconfirmed \in [Ids -> Passwords \cup {NoPassword}] /\ overlapped \in SUBSET Ids
  BY BlankTypes DEF Init
<1> QED BY <1>1, <1>4, <1>5, <1>6 DEF TypeOK

-----------------------------------------------------------------------------
(* TypeOK is not inductive: what a handler has learnt must also be there   *)
(* when it goes on.                                                        *)

Ready(j) ==
    /\ j.pc \in {"wasm", "addRead", "addWrite", "addActive", "added"}
         => j.op = "create" /\ j.seed \in Seeds /\ j.pw \in Passwords
    /\ j.pc \in {"addWrite", "addActive", "added", "replaceRead", "replaceWrite",
                 "replaced", "opened", "updateRead", "updateWrite", "updated",
                 "setActive", "removeRead", "removeWrite", "removeActiveRead",
                 "removeActive", "removed"} => j.id \in Ids
    /\ j.op = "remove" => j.id \in Ids
    /\ j.op = "restore" => j.seed \in Seeds /\ j.pw \in Passwords
    /\ j.pc \in {"replaceRead", "replaceWrite", "replaced"} => j.op = "restore"
    /\ j.pc \in {"updateRead", "updateWrite", "updated"} => j.seed \in Seeds
    /\ j.pc \in {"opened", "replaceWrite", "removeWrite"} => j.saw[j.id] # NoRecord

SessionReady == session.wallet # NoId => session.seed \in Seeds

Typed ==
    /\ TypeOK
    /\ \A h \in Handlers : Ready(handler[h])
    /\ SessionReady

LEMMA GoesReady ==
  ASSUME Typed, NEW h \in Handlers, NEW j \in Jobs, Ready(j), Goes(h, j)
  PROVE  /\ handler' \in [Handlers -> Jobs]
         /\ \A g \in Handlers : Ready(handler'[g])
<1>1. handler \in [Handlers -> Jobs]
  BY DEF Typed, TypeOK
<1>2. handler' = [handler EXCEPT ![h] = j]
  BY DEF Goes
<1>3. \A g \in Handlers : handler'[g] = IF g = h THEN j ELSE handler[g]
  BY <1>1, <1>2
<1> QED BY <1>1, <1>2, <1>3 DEF Typed

LEMMA IdleReady == Idle \in Jobs /\ Ready(Idle)
BY BlankTypes DEF Ready, Idle

LEMMA AccountsOfType ==
  ASSUME NEW r \in Records
  PROVE  AccountsOf(r) \in SUBSET Accounts
BY PrimaryType DEF AccountsOf, Records

LEMMA AskActiveReady ==
  ASSUME NEW op \in AsksForActive \cap Operations, NEW id \in Ids \cup {NoId},
         NEW seed \in Seeds \cup {NoSeed}, NEW pw \in Passwords \cup {NoPassword},
         op = "remove" => id \in Ids,
         op = "restore" => seed \in Seeds /\ pw \in Passwords
  PROVE  LET j == [Idle EXCEPT !.op = op, !.pc = "wallets", !.id = id, !.seed = seed, !.pw = pw]
         IN j \in Jobs /\ Ready(j)
BY ZenonT(60), BlankTypes DEF Ready, Idle, Jobs, Stages

LEMMA ListReady ==
  [Idle EXCEPT !.op = "list", !.pc = "wallets"] \in Jobs
  /\ Ready([Idle EXCEPT !.op = "list", !.pc = "wallets"])
BY BlankTypes DEF Ready, Idle, Jobs, Stages

LEMMA RemovalKnows ==
  ASSUME NEW job \in Jobs, NEW b \in BOOLEAN
  PROVE  [job EXCEPT !.pc = "removeRead", !.among = {}, !.next = NoId, !.wasActive = b] \in Jobs
BY DEF Jobs, Stages

LEMMA KnowsActiveReady ==
  ASSUME Typed, NEW h \in Handlers, NEW id \in Ids \cup {NoId}, KnowsActive(h, id),
         handler[h].pc \in {"wallets", "activeId", "heal"}
  PROVE  /\ handler' \in [Handlers -> Jobs]
         /\ \A g \in Handlers : Ready(handler'[g])
<1> DEFINE job == handler[h]
<1>1. job \in Jobs /\ Ready(job)
  BY DEF Typed, TypeOK
<1>2. CASE job.op = "list"
  BY <1>2, IdleReady, GoesReady DEF KnowsActive, Ends
<1>3. CASE job.op = "remove"
  <2> DEFINE j == [job EXCEPT !.pc = "removeRead", !.among = {}, !.next = NoId,
                              !.wasActive = (id = job.id)]
  <2>1. Goes(h, j)
    BY <1>3 DEF KnowsActive
  <2>2. j \in Jobs
    <3>1. (id = job.id) \in BOOLEAN
      OBVIOUS
    <3> HIDE DEF job
    <3> QED BY <1>1, <3>1, RemovalKnows
  <2>3. Ready(j)
    BY <1>1, <1>3 DEF Ready, Jobs
  <2> QED BY <2>1, <2>2, <2>3, GoesReady
<1>4. CASE job.op \notin {"list", "remove"}
  <2> DEFINE j == [job EXCEPT !.pc = "record", !.among = {}, !.next = NoId, !.id = id]
  <2>1. Goes(h, j)
    BY <1>4 DEF KnowsActive
  <2>2. j \in Jobs
    BY <1>1 DEF Jobs, Stages
  <2>3. Ready(j)
    BY <1>1, <1>4 DEF Ready, Jobs
  <2> QED BY <2>1, <2>2, <2>3, GoesReady
<1> QED BY <1>2, <1>3, <1>4

\* The typing of a step follows from that of each variable it changes.
LEMMA TypedStep ==
  ASSUME Typed,
         store' = store \/ store' \in Stores,
         active' = active \/ active' \in Ids \cup {NoId},
         session' = session \/ (session' \in Sessions /\ SessionReady'),
         handler' = handler \/ (handler' \in [Handlers -> Jobs] /\ \A g \in Handlers : Ready(handler'[g])),
         owner' = owner \/ owner' \in [Ids -> Seeds \cup {NoSeed}],
         agreed' = agreed \/ agreed' \in [Ids -> Passwords \cup {NoPassword}],
         unconfirmed' = unconfirmed \/ unconfirmed' \in [Ids -> Passwords \cup {NoPassword}],
         removed' = removed \/ removed' \in SUBSET Ids,
         overlapped' = overlapped \/ overlapped' \in SUBSET Ids
  PROVE  Typed'
<1>1. TypeOK'
  BY DEF Typed, TypeOK
<1>2. \A h \in Handlers : Ready(handler[h])'
  BY DEF Typed
<1>3. SessionReady'
  BY DEF Typed, SessionReady
<1> QED BY <1>1, <1>2, <1>3 DEF Typed

LEMMA LockedReady == Locked \in Sessions /\ (session' = Locked => SessionReady')
BY BlankTypes DEF SessionReady, Locked

LEMMA UnlockedReady ==
  ASSUME NEW id \in Ids, NEW seed \in Seeds, NEW accounts \in SUBSET Accounts,
         session' = Unlocked(id, seed, accounts)
  PROVE  session' \in Sessions /\ SessionReady'
BY DEF Unlocked, Sessions, SessionReady

LEMMA JobTyped ==
  ASSUME Typed, NEW h \in Handlers
  PROVE  handler[h] \in Jobs /\ Ready(handler[h])
BY DEF Typed, TypeOK

LEMMA EndsReady ==
  ASSUME Typed, NEW h \in Handlers, Ends(h)
  PROVE  /\ handler' \in [Handlers -> Jobs]
         /\ \A g \in Handlers : Ready(handler'[g])
BY IdleReady, GoesReady DEF Ends

LEMMA ListsReady ==
  ASSUME Typed, NEW h \in Handlers, AnswersWithList(h)
  PROVE  /\ handler' \in [Handlers -> Jobs]
         /\ \A g \in Handlers : Ready(handler'[g])
BY ListReady, GoesReady DEF AnswersWithList

LEMMA WritesOverTyped ==
  ASSUME Typed, NEW h \in Handlers, WritesOver(h)
  PROVE  overlapped' \in SUBSET Ids
BY DEF WritesOver, Typed, TypeOK

LEMMA StoresPasswordTyped ==
  ASSUME Typed, NEW h \in Handlers, StoresPassword(h), handler[h].pw \in Passwords
  PROVE  /\ agreed' = agreed /\ removed' = removed
         /\ unconfirmed' \in [Ids -> Passwords \cup {NoPassword}]
         /\ overlapped' \in SUBSET Ids
BY WritesOverTyped DEF StoresPassword, Typed, TypeOK

LEMMA ConfirmsTyped ==
  ASSUME Typed, NEW h \in Handlers, Confirms(h), handler[h].id \in Ids,
         handler[h].pw \in Passwords
  PROVE  /\ agreed' \in [Ids -> Passwords \cup {NoPassword}]
         /\ unconfirmed' \in [Ids -> Passwords \cup {NoPassword}]
         /\ removed' = removed
         /\ overlapped' \in SUBSET Ids
         /\ handler' \in [Handlers -> Jobs] /\ \A g \in Handlers : Ready(handler'[g])
<1>1. agreed \in [Ids -> Passwords \cup {NoPassword}]
      /\ unconfirmed \in [Ids -> Passwords \cup {NoPassword}] /\ overlapped \in SUBSET Ids
  BY DEF Typed, TypeOK
<1>2. handler' \in [Handlers -> Jobs] /\ \A g \in Handlers : Ready(handler'[g])
  BY EndsReady DEF Confirms
<1>3. agreed' \in [Ids -> Passwords \cup {NoPassword}] /\ removed' = removed
  BY <1>1 DEF Confirms
<1>4. unconfirmed' \in [Ids -> Passwords \cup {NoPassword}] /\ overlapped' \in SUBSET Ids
  BY <1>1 DEF Confirms
<1> QED BY <1>2, <1>3, <1>4

-----------------------------------------------------------------------------
(* Creation keeps the types.                                               *)

LEMMA CreateBeginsTyped ==
  ASSUME Typed, NEW h \in Handlers, NEW seed \in Seeds, NEW pw \in Passwords,
         CreateBegins(h, seed, pw)
  PROVE  Typed'
<1> DEFINE j == [Idle EXCEPT !.op = "create", !.pc = "wasm", !.seed = seed, !.pw = pw]
<1>1. j \in Jobs /\ Ready(j)
  BY BlankTypes DEF CreateBegins, Starts, Ready, Idle, Jobs, Stages
<1>2. Goes(h, j)
  BY DEF CreateBegins
<1> HIDE DEF j
<1>3. handler' \in [Handlers -> Jobs] /\ \A g \in Handlers : Ready(handler'[g])
  BY <1>1, <1>2, GoesReady
<1> QED BY <1>3, TypedStep DEF CreateBegins

LEMMA CreateEncryptsTyped ==
  ASSUME Typed, NEW h \in Handlers, CreateEncrypts(h)
  PROVE  Typed'
<1> DEFINE j == [handler[h] EXCEPT !.pc = "addRead"]
<1>1. j \in Jobs /\ Ready(j)
  BY JobTyped DEF CreateEncrypts, Waits, Ready, Jobs, Stages
<1>2. Goes(h, j)
  BY DEF CreateEncrypts, Proceeds
<1> HIDE DEF j
<1>3. handler' \in [Handlers -> Jobs] /\ \A g \in Handlers : Ready(handler'[g])
  BY <1>1, <1>2, GoesReady
<1> QED BY <1>3, LockedReady, TypedStep DEF CreateEncrypts

LEMMA AddReadsTyped ==
  ASSUME Typed, NEW h \in Handlers, AddReads(h)
  PROVE  Typed'
<1> DEFINE id == First(Unused)
<1>1. id \in Ids
  BY FirstMember DEF AddReads, Unused
<1>2. CASE HasRoom(Stored(store))
  <2> DEFINE j == [handler[h] EXCEPT !.pc = "addWrite", !.id = id, !.saw = store]
  <2>1. Goes(h, j) /\ owner' = [owner EXCEPT ![id] = handler[h].seed]
    BY <1>2 DEF AddReads
  <2>2. j \in Jobs /\ Ready(j) /\ handler[h].seed \in Seeds
    <3>1. handler[h] \in Jobs /\ Ready(handler[h]) /\ handler[h].pc = "addRead"
      BY JobTyped DEF AddReads, Waits
    <3>2. store \in Stores
      BY DEF Typed, TypeOK
    <3> HIDE DEF id
    <3>3. j \in Jobs
      BY <1>1, <3>1, <3>2 DEF Jobs, Stages
    <3>4. Ready(j) /\ handler[h].seed \in Seeds
      BY <1>1, <3>1 DEF Jobs, Ready
    <3> QED BY <3>3, <3>4
  <2> HIDE DEF j, id
  <2>3. owner' \in [Ids -> Seeds \cup {NoSeed}]
    BY <2>1, <2>2 DEF Typed, TypeOK
  <2>4. handler' \in [Handlers -> Jobs] /\ \A g \in Handlers : Ready(handler'[g])
    BY <2>1, <2>2, GoesReady
  <2> QED BY <2>3, <2>4, TypedStep DEF AddReads
<1>3. CASE ~HasRoom(Stored(store))
  BY <1>3, EndsReady, TypedStep DEF AddReads
<1> QED BY <1>2, <1>3

LEMMA AddWritesTyped ==
  ASSUME Typed, NEW h \in Handlers, AddWrites(h)
  PROVE  Typed'
<1> DEFINE j == [handler[h] EXCEPT !.pc = "addActive", !.saw = Empty]
<1>0. handler[h] \in Jobs /\ Ready(handler[h]) /\ handler[h].pc = "addWrite"
  BY JobTyped DEF AddWrites, Waits
<1>1. j \in Jobs
  BY <1>0, BlankTypes DEF Jobs, Stages
<1>2. Ready(j)
  BY <1>0 DEF Ready, Jobs
<1>3. Goes(h, j)
  BY DEF AddWrites
<1> HIDE DEF j
<1>4. handler' \in [Handlers -> Jobs] /\ \A g \in Handlers : Ready(handler'[g])
  BY <1>1, <1>2, <1>3, GoesReady
<1>5. NewRecord(handler[h]) \in Records /\ handler[h].pw \in Passwords
  BY <1>0, PrimaryType DEF Ready, NewRecord, Records
<1>6. store' \in Stores
  BY <1>0, <1>5, WithType DEF AddWrites, Ready, Jobs
<1>7. StoresPassword(h)
  BY DEF AddWrites
<1> QED BY <1>4, <1>5, <1>6, <1>7, StoresPasswordTyped, TypedStep DEF AddWrites

LEMMA ProceedsTyped ==
  ASSUME Typed, NEW h \in Handlers, NEW pc \in {"added", "switched", "removeActive", "removed"},
         Proceeds(h, pc),
         \/ pc = "added" /\ handler[h].pc = "addActive"
         \/ pc = "switched"
         \/ pc \in {"removeActive", "removed"} /\ handler[h].id \in Ids
  PROVE  /\ handler' \in [Handlers -> Jobs]
         /\ \A g \in Handlers : Ready(handler'[g])
<1> DEFINE j == [handler[h] EXCEPT !.pc = pc]
<1>1. handler[h] \in Jobs /\ Ready(handler[h])
  BY JobTyped
<1>2. j \in Jobs
  BY <1>1 DEF Jobs, Stages
<1>3. Ready(j)
  BY <1>1 DEF Ready, Jobs
<1>4. Goes(h, j)
  BY DEF Proceeds
<1> HIDE DEF j
<1> QED BY <1>2, <1>3, <1>4, GoesReady

LEMMA AddActivatesTyped ==
  ASSUME Typed, NEW h \in Handlers, AddActivates(h)
  PROVE  Typed'
<1>1. handler[h].id \in Ids /\ handler[h].pc = "addActive"
  BY JobTyped DEF AddActivates, Waits, Ready
<1> QED BY <1>1, ProceedsTyped, TypedStep DEF AddActivates

LEMMA AddOpensTyped ==
  ASSUME Typed, NEW h \in Handlers, AddOpens(h)
  PROVE  Typed'
<1>1. /\ handler[h].id \in Ids
      /\ handler[h].seed \in Seeds
      /\ handler[h].pw \in Passwords
      /\ Primary(handler[h].seed) \in SUBSET Accounts
  BY JobTyped, PrimaryType DEF AddOpens, Waits, Ready
<1>2. session' \in Sessions /\ SessionReady'
  BY <1>1, UnlockedReady DEF AddOpens
<1>3. Confirms(h) /\ store' = store /\ active' = active /\ owner' = owner
  BY DEF AddOpens
<1> QED BY <1>1, <1>2, <1>3, ConfirmsTyped, TypedStep

-----------------------------------------------------------------------------
(* The search for the active wallet keeps the types.                       *)

LEMMA AskActiveTyped ==
  ASSUME Typed, NEW h \in Handlers, NEW op, NEW id \in Ids \cup {NoId},
         NEW seed \in Seeds \cup {NoSeed}, NEW pw \in Passwords \cup {NoPassword},
         op = "remove" => id \in Ids,
         op = "restore" => seed \in Seeds /\ pw \in Passwords,
         AskActive(h, op, id, seed, pw)
  PROVE  Typed'
<1> DEFINE j == [Idle EXCEPT !.op = op, !.pc = "wallets", !.id = id, !.seed = seed, !.pw = pw]
<1>1. op \in AsksForActive \cap Operations
  BY DEF AskActive, Starts
<1>2. j \in Jobs /\ Ready(j)
  BY <1>1, AskActiveReady
<1>3. Goes(h, j)
  BY DEF AskActive
<1> HIDE DEF j
<1>4. handler' \in [Handlers -> Jobs] /\ \A g \in Handlers : Ready(handler'[g])
  BY <1>2, <1>3, GoesReady
<1> QED BY <1>4, TypedStep DEF AskActive

LEMMA ReadsWalletsTyped ==
  ASSUME Typed, NEW h \in Handlers, ReadsWallets(h)
  PROVE  Typed'
<1>1. CASE Stored(store) = {} /\ handler[h].op = "remove"
  <2>1. KnowsActive(h, NoId)
    BY <1>1 DEF ReadsWallets
  <2> QED BY <2>1, KnowsActiveReady, TypedStep DEF ReadsWallets, Waits
<1>2. CASE Stored(store) = {} /\ handler[h].op # "remove"
  BY <1>2, EndsReady, TypedStep DEF ReadsWallets
<1>3. CASE Stored(store) # {}
  <2> DEFINE j == [handler[h] EXCEPT !.pc = "activeId", !.among = Stored(store)]
  <2>1. j \in Jobs /\ Ready(j)
    BY ZenonT(60), JobTyped DEF ReadsWallets, Waits, Ready, Jobs, Stages, Stored
  <2>2. Goes(h, j)
    BY <1>3 DEF ReadsWallets
  <2> HIDE DEF j
  <2>3. handler' \in [Handlers -> Jobs] /\ \A g \in Handlers : Ready(handler'[g])
    BY <2>1, <2>2, GoesReady
  <2> QED BY <2>3, TypedStep DEF ReadsWallets
<1> QED BY <1>1, <1>2, <1>3

LEMMA ReadsActiveTyped ==
  ASSUME Typed, NEW h \in Handlers, ReadsActive(h)
  PROVE  Typed'
<1>1. CASE active \in handler[h].among
  <2>1. KnowsActive(h, active) /\ active \in Ids \cup {NoId}
    BY <1>1 DEF ReadsActive, Typed, TypeOK
  <2> QED BY <2>1, KnowsActiveReady, TypedStep DEF ReadsActive, Waits
<1>2. CASE active \notin handler[h].among
  <2> DEFINE next == First(handler[h].among)
             j == [handler[h] EXCEPT !.pc = "heal", !.next = next]
  <2>1. next \in Ids \cup {NoId}
    BY JobTyped, FirstType DEF Jobs
  <2>2. j \in Jobs /\ Ready(j)
    <3> HIDE DEF next
    <3> QED BY ZenonT(60), <2>1, JobTyped DEF ReadsActive, Waits, Ready, Jobs, Stages
  <2>3. Goes(h, j)
    BY <1>2 DEF ReadsActive
  <2> HIDE DEF j, next
  <2>4. handler' \in [Handlers -> Jobs] /\ \A g \in Handlers : Ready(handler'[g])
    BY <2>2, <2>3, GoesReady
  <2> QED BY <2>4, TypedStep DEF ReadsActive
<1> QED BY <1>1, <1>2

LEMMA HealsTyped ==
  ASSUME Typed, NEW h \in Handlers, Heals(h)
  PROVE  Typed'
<1>1. handler[h].next \in Ids \cup {NoId}
  BY JobTyped DEF Jobs
<1>2. handler' \in [Handlers -> Jobs] /\ \A g \in Handlers : Ready(handler'[g])
  BY <1>1, KnowsActiveReady DEF Heals, Waits
<1> QED BY <1>1, <1>2, TypedStep DEF Heals

LEMMA ReadsRecordTyped ==
  ASSUME Typed, NEW h \in Handlers, ReadsRecord(h)
  PROVE  Typed'
<1> DEFINE id == handler[h].id
<1>1. CASE id \in Stored(store)
  <2> DEFINE saw == [Empty EXCEPT ![id] = store[id]]
             j == [handler[h] EXCEPT !.pc = "opened", !.saw = saw]
  <2>1. id \in Ids /\ store[id] \in Records /\ store[id] # NoRecord
    BY <1>1, VaultAssumption DEF Stored, Typed, TypeOK, Stores
  <2>2. saw \in Stores /\ saw[id] # NoRecord
    BY <2>1, BlankTypes DEF Stores
  <2>3. j \in Jobs /\ Ready(j)
    <3> HIDE DEF saw
    <3> QED BY ZenonT(60), <2>1, <2>2, JobTyped DEF ReadsRecord, Waits, Ready, Jobs, Stages
  <2>4. Goes(h, j)
    BY <1>1 DEF ReadsRecord
  <2> HIDE DEF j
  <2>5. handler' \in [Handlers -> Jobs] /\ \A g \in Handlers : Ready(handler'[g])
    BY <2>3, <2>4, GoesReady
  <2> QED BY <2>5, TypedStep DEF ReadsRecord
<1>2. CASE id \notin Stored(store)
  BY <1>2, EndsReady, TypedStep DEF ReadsRecord
<1> QED BY <1>1, <1>2

-----------------------------------------------------------------------------
(* Unlock, restore and derive keep the types.                              *)

LEMMA OpenedTyped ==
  ASSUME Typed, NEW h \in Handlers, Waits(h, "opened")
  PROVE  /\ handler[h].id \in Ids
         /\ Found(h) \in Records
         /\ AccountsOf(Found(h)) \in SUBSET Accounts
         /\ Found(h).seed \in Seeds
         /\ Found(h).accounts \in SUBSET Accounts
<1>1. handler[h].id \in Ids /\ Found(h) \in Records
  BY JobTyped DEF Waits, Ready, Found, Jobs, Stores
<1> QED BY <1>1, AccountsOfType DEF Records

LEMMA UnlocksTyped ==
  ASSUME Typed, NEW h \in Handlers, Unlocks(h)
  PROVE  Typed'
<1>1. session' \in Sessions /\ SessionReady'
  BY OpenedTyped, UnlockedReady DEF Unlocks
<1> QED BY <1>1, EndsReady, TypedStep DEF Unlocks

LEMMA UnlockUpdatesTyped ==
  ASSUME Typed, NEW h \in Handlers, UnlockUpdates(h)
  PROVE  Typed'
<1> DEFINE id == handler[h].id
           seed == Found(h).seed
           accounts == AccountsOf(Found(h))
           j == [Idle EXCEPT !.op = "unlock", !.pc = "updateRead", !.id = id,
                             !.seed = seed, !.accounts = accounts]
<1>1. id \in Ids /\ seed \in Seeds /\ accounts \in SUBSET Accounts
  BY OpenedTyped DEF UnlockUpdates
<1>2. Goes(h, j)
  BY DEF UnlockUpdates
<1>3. "unlock" \in Operations \cup {"none", "list"}
  BY JobTyped DEF UnlockUpdates, Jobs
<1> HIDE DEF id, seed, accounts
<1>4. j \in Jobs
  BY <1>1, <1>3, BlankTypes DEF Jobs, Stages
<1>5. Ready(j)
  BY <1>1 DEF Ready, Idle
<1> HIDE DEF j
<1>6. handler' \in [Handlers -> Jobs] /\ \A g \in Handlers : Ready(handler'[g])
  BY <1>2, <1>4, <1>5, GoesReady
<1> QED BY <1>6, TypedStep DEF UnlockUpdates

LEMMA NotOpenedTyped ==
  ASSUME Typed, NEW h \in Handlers, NotOpened(h) \/ RestoreRefused(h)
  PROVE  Typed'
BY EndsReady, TypedStep DEF NotOpened, RestoreRefused

LEMMA RestoreProvesTyped ==
  ASSUME Typed, NEW h \in Handlers, RestoreProves(h)
  PROVE  Typed'
<1> DEFINE j == [handler[h] EXCEPT !.pc = "replaceRead", !.saw = Empty]
<1>1. handler[h] \in Jobs /\ Ready(handler[h]) /\ handler[h].op = "restore"
      /\ handler[h].pc = "opened"
  BY JobTyped DEF RestoreProves, Waits
<1>2. j \in Jobs
  BY <1>1, BlankTypes DEF Jobs, Stages
<1>3. Ready(j)
  BY <1>1 DEF Ready, Jobs
<1>4. Goes(h, j)
  BY DEF RestoreProves
<1> HIDE DEF j
<1>5. handler' \in [Handlers -> Jobs] /\ \A g \in Handlers : Ready(handler'[g])
  BY <1>2, <1>3, <1>4, GoesReady
<1> QED BY <1>5, LockedReady, TypedStep DEF RestoreProves

\* A handler that reads the whole array before it writes it back.
LEMMA SnapshotTyped ==
  ASSUME Typed, NEW h \in Handlers, NEW pc \in {"replaceWrite", "updateWrite", "removeWrite"},
         \/ pc = "replaceWrite" /\ Waits(h, "replaceRead") /\ handler[h].id \in Stored(store)
         \/ pc = "updateWrite" /\ Waits(h, "updateRead")
         \/ pc = "removeWrite" /\ Waits(h, "removeRead") /\ handler[h].id \in Stored(store),
         Goes(h, [handler[h] EXCEPT !.pc = pc, !.saw = store])
  PROVE  /\ handler' \in [Handlers -> Jobs]
         /\ \A g \in Handlers : Ready(handler'[g])
<1> DEFINE j == [handler[h] EXCEPT !.pc = pc, !.saw = store]
<1>1. handler[h] \in Jobs /\ Ready(handler[h])
  BY JobTyped
<1>2. store \in Stores
  BY DEF Typed, TypeOK
<1>3. j \in Jobs
  BY <1>1, <1>2 DEF Jobs, Stages
<1>4. j.pc = pc /\ j.saw = store /\ j.id = handler[h].id /\ j.op = handler[h].op
      /\ j.seed = handler[h].seed /\ j.pw = handler[h].pw
  BY <1>1 DEF Jobs
<1> HIDE DEF j
<1>5. Ready(j)
  BY <1>1, <1>4 DEF Ready, Waits, Stored
<1> QED BY <1>3, <1>5, GoesReady DEF j

LEMMA ReplaceReadsTyped ==
  ASSUME Typed, NEW h \in Handlers, ReplaceReads(h)
  PROVE  Typed'
<1>1. CASE handler[h].id \in Stored(store)
  BY <1>1, SnapshotTyped, TypedStep DEF ReplaceReads
<1>2. CASE handler[h].id \notin Stored(store)
  BY <1>2, EndsReady, TypedStep DEF ReplaceReads
<1> QED BY <1>1, <1>2

LEMMA ReplaceWritesTyped ==
  ASSUME Typed, NEW h \in Handlers, ReplaceWrites(h)
  PROVE  Typed'
<1> DEFINE job == handler[h]
           updated == Replaced(job)
           accounts == AccountsOf(updated)
           j == [job EXCEPT !.pc = "replaced", !.saw = Empty, !.accounts = accounts]
<1>1. /\ job \in Jobs
      /\ Ready(job)
      /\ job.pc = "replaceWrite"
      /\ job.id \in Ids
      /\ job.seed \in Seeds
      /\ job.pw \in Passwords
      /\ job.saw \in Stores
      /\ job.saw[job.id] \in Records
  BY JobTyped DEF ReplaceWrites, Waits, Ready, Jobs, Stores
<1>2. updated \in Records
  BY <1>1 DEF Replaced, Records
<1>3. store' \in Stores
  BY <1>1, <1>2, WithType DEF ReplaceWrites
<1>4. accounts \in SUBSET Accounts
  BY <1>2, AccountsOfType
<1>5. Goes(h, j) /\ StoresPassword(h)
  BY DEF ReplaceWrites
<1> HIDE DEF updated, accounts, job
<1>6. j \in Jobs
  BY <1>1, <1>4, BlankTypes DEF Jobs, Stages
<1>7. Ready(j)
  BY <1>1 DEF Ready, Jobs
<1> HIDE DEF j
<1>8. handler' \in [Handlers -> Jobs] /\ \A g \in Handlers : Ready(handler'[g])
  BY <1>5, <1>6, <1>7, GoesReady
<1> QED BY <1>1, <1>3, <1>5, <1>8, StoresPasswordTyped, TypedStep DEF ReplaceWrites, job

LEMMA ReplaceConfirmsTyped ==
  ASSUME Typed, NEW h \in Handlers, ReplaceConfirms(h)
  PROVE  Typed'
<1>1. /\ handler[h].id \in Ids
      /\ handler[h].seed \in Seeds
      /\ handler[h].pw \in Passwords
      /\ handler[h].accounts \in SUBSET Accounts
  BY JobTyped DEF ReplaceConfirms, Waits, Ready, Jobs
<1>2. session' \in Sessions /\ SessionReady'
  BY <1>1, UnlockedReady DEF ReplaceConfirms
<1>3. Confirms(h) /\ store' = store /\ active' = active /\ owner' = owner
  BY DEF ReplaceConfirms
<1> QED BY <1>1, <1>2, <1>3, ConfirmsTyped, TypedStep

LEMMA DeriveBeginsTyped ==
  ASSUME Typed, NEW h \in Handlers, NEW index \in Indices, DeriveBegins(h, index)
  PROVE  Typed'
<1> DEFINE accounts == {a \in session.accounts : a.index # index}
                       \cup {[index |-> index, of |-> session.seed]}
           id == session.wallet
           seed == session.seed
           j == [Idle EXCEPT !.op = "derive", !.pc = "updateRead", !.id = id,
                             !.seed = seed, !.accounts = accounts]
<1>1. session \in Sessions /\ id \in Ids /\ seed \in Seeds
  BY DEF DeriveBegins, Typed, TypeOK, SessionReady, Sessions
<1>2. accounts \in SUBSET Accounts
  BY <1>1 DEF Sessions, Accounts
<1>3. Goes(h, j) /\ session' = [session EXCEPT !.accounts = accounts]
  BY DEF DeriveBegins
<1>4. "derive" \in Operations
  BY DEF DeriveBegins, Starts
<1> HIDE DEF accounts
<1>5. session' \in Sessions /\ SessionReady'
  BY <1>1, <1>2, <1>3 DEF Sessions, SessionReady
<1> HIDE DEF id, seed
<1>6. j \in Jobs
  BY <1>1, <1>2, <1>4, BlankTypes DEF Jobs, Stages
<1>7. Ready(j)
  BY <1>1 DEF Ready, Idle
<1> HIDE DEF j
<1>8. handler' \in [Handlers -> Jobs] /\ \A g \in Handlers : Ready(handler'[g])
  BY <1>3, <1>6, <1>7, GoesReady
<1> QED BY <1>5, <1>8, TypedStep DEF DeriveBegins

LEMMA UpdateReadsTyped ==
  ASSUME Typed, NEW h \in Handlers, UpdateReads(h)
  PROVE  Typed'
BY SnapshotTyped, TypedStep DEF UpdateReads

LEMMA UpdatedType ==
  ASSUME NEW job \in Jobs
  PROVE  Updated(job) \in Stores
<1>1. job.saw \in Stores /\ job.accounts \in SUBSET Accounts
  BY DEF Jobs
<1>2. ASSUME NEW i \in Stored(job.saw)
      PROVE  [job.saw[i] EXCEPT !.accounts = job.accounts, !.tron = TRUE] \in Records
  BY <1>1, StoredType DEF Records
<1> QED BY <1>1, <1>2 DEF Updated, Stores

LEMMA UpdateWritesTyped ==
  ASSUME Typed, NEW h \in Handlers, UpdateWrites(h)
  PROVE  Typed'
<1> DEFINE j == [handler[h] EXCEPT !.pc = "updated", !.saw = Empty]
<1>1. handler[h] \in Jobs /\ Ready(handler[h]) /\ handler[h].pc = "updateWrite"
  BY JobTyped DEF UpdateWrites, Waits
<1>2. store' \in Stores
  BY <1>1, UpdatedType DEF UpdateWrites
<1>3. j \in Jobs
  BY <1>1, BlankTypes DEF Jobs, Stages
<1>4. Ready(j)
  BY <1>1 DEF Ready, Jobs
<1>5. Goes(h, j) \/ Ends(h)
  BY DEF UpdateWrites
<1>6. WritesOver(h)
  BY DEF UpdateWrites
<1> HIDE DEF j
<1>7. handler' \in [Handlers -> Jobs] /\ \A g \in Handlers : Ready(handler'[g])
  BY <1>3, <1>4, <1>5, GoesReady, EndsReady
<1> QED BY <1>2, <1>6, <1>7, WritesOverTyped, TypedStep DEF UpdateWrites

LEMMA UpdateOpensTyped ==
  ASSUME Typed, NEW h \in Handlers, UpdateOpens(h)
  PROVE  Typed'
<1>1. /\ handler[h].id \in Ids
      /\ handler[h].seed \in Seeds
      /\ handler[h].accounts \in SUBSET Accounts
  BY JobTyped DEF UpdateOpens, Waits, Ready, Jobs
<1>2. session' \in Sessions /\ SessionReady'
  BY <1>1, UnlockedReady DEF UpdateOpens
<1> QED BY <1>2, EndsReady, TypedStep DEF UpdateOpens

-----------------------------------------------------------------------------
(* Switch, rename, remove and the end of a session keep the types.         *)

LEMMA SwitchReadsTyped ==
  ASSUME Typed, NEW h \in Handlers, NEW id \in Ids, SwitchReads(h, id)
  PROVE  Typed'
<1> DEFINE j == [Idle EXCEPT !.op = "switch", !.pc = "setActive", !.id = id]
<1>1. j \in Jobs /\ Ready(j)
  BY BlankTypes DEF SwitchReads, Starts, Ready, Idle, Jobs, Stages
<1>2. Goes(h, j)
  BY DEF SwitchReads
<1> HIDE DEF j
<1>3. handler' \in [Handlers -> Jobs] /\ \A g \in Handlers : Ready(handler'[g])
  BY <1>1, <1>2, GoesReady
<1> QED BY <1>3, TypedStep DEF SwitchReads

LEMMA SwitchWritesTyped ==
  ASSUME Typed, NEW h \in Handlers, SwitchWrites(h)
  PROVE  Typed'
<1>1. active' \in Ids \cup {NoId}
  BY JobTyped DEF SwitchWrites, Jobs
<1> QED BY <1>1, ProceedsTyped, TypedStep DEF SwitchWrites

LEMMA SwitchLocksTyped ==
  ASSUME Typed, NEW h \in Handlers, SwitchLocks(h)
  PROVE  Typed'
BY ListsReady, LockedReady, TypedStep DEF SwitchLocks

LEMMA RenameReadsTyped ==
  ASSUME Typed, NEW h \in Handlers, NEW id \in Ids, RenameReads(h, id)
  PROVE  Typed'
<1> DEFINE j == [Idle EXCEPT !.op = "rename", !.pc = "renameWrite", !.id = id, !.saw = store]
<1>1. j \in Jobs /\ Ready(j)
  BY ZenonT(60), BlankTypes DEF RenameReads, Starts, Ready, Idle, Jobs, Stages, Typed, TypeOK
<1>2. Goes(h, j)
  BY DEF RenameReads
<1> HIDE DEF j
<1>3. handler' \in [Handlers -> Jobs] /\ \A g \in Handlers : Ready(handler'[g])
  BY <1>1, <1>2, GoesReady
<1> QED BY <1>3, TypedStep DEF RenameReads

LEMMA RenameWritesTyped ==
  ASSUME Typed, NEW h \in Handlers, RenameWrites(h)
  PROVE  Typed'
<1>1. store' \in Stores
  BY JobTyped DEF RenameWrites, Jobs
<1> QED BY <1>1, ListsReady, WritesOverTyped, TypedStep DEF RenameWrites

LEMMA RemoveReadsTyped ==
  ASSUME Typed, NEW h \in Handlers, RemoveReads(h)
  PROVE  Typed'
<1>1. CASE handler[h].id \in Stored(store)
  BY <1>1, SnapshotTyped, TypedStep DEF RemoveReads
<1>2. CASE handler[h].id \notin Stored(store)
  BY <1>2, EndsReady, TypedStep DEF RemoveReads
<1> QED BY <1>1, <1>2

LEMMA RemoveWritesTyped ==
  ASSUME Typed, NEW h \in Handlers, RemoveWrites(h)
  PROVE  Typed'
<1> DEFINE next == First(Stored(handler[h].saw) \ {handler[h].id})
           j == [handler[h] EXCEPT !.pc = "removeActiveRead", !.saw = Empty, !.next = next]
<1>1. handler[h] \in Jobs /\ Ready(handler[h]) /\ handler[h].pc = "removeWrite"
  BY JobTyped DEF RemoveWrites, Waits
<1>2. next \in Ids \cup {NoId}
  BY FirstType DEF Stored
<1>3. store' \in Stores
  BY <1>1 DEF RemoveWrites, Remaining, Jobs, Stores
<1>4. Goes(h, j)
  BY DEF RemoveWrites
<1> HIDE DEF next
<1>5. j \in Jobs
  BY <1>1, <1>2, BlankTypes DEF Jobs, Stages
<1>6. Ready(j)
  BY <1>1 DEF Ready, Jobs
<1> HIDE DEF j
<1>7. handler' \in [Handlers -> Jobs] /\ \A g \in Handlers : Ready(handler'[g])
  BY <1>4, <1>5, <1>6, GoesReady
<1>8. /\ agreed' \in [Ids -> Passwords \cup {NoPassword}]
      /\ unconfirmed' \in [Ids -> Passwords \cup {NoPassword}]
  BY DEF RemoveWrites, Typed, TypeOK
<1> QED BY <1>3, <1>7, <1>8, WritesOverTyped, TypedStep DEF RemoveWrites

LEMMA RemoveReadsActiveTyped ==
  ASSUME Typed, NEW h \in Handlers, RemoveReadsActive(h)
  PROVE  Typed'
<1>1. handler[h].id \in Ids
  BY JobTyped DEF RemoveReadsActive, Waits, Ready
<1>2. PICK pc \in {"removeActive", "removed"} : Proceeds(h, pc)
  BY DEF RemoveReadsActive
<1> QED BY <1>1, <1>2, ProceedsTyped, TypedStep DEF RemoveReadsActive

LEMMA RemoveActivatesTyped ==
  ASSUME Typed, NEW h \in Handlers, RemoveActivates(h)
  PROVE  Typed'
<1>1. handler[h].id \in Ids /\ handler[h].next \in Ids \cup {NoId}
  BY JobTyped DEF RemoveActivates, Waits, Ready, Jobs
<1> QED BY <1>1, ProceedsTyped, TypedStep DEF RemoveActivates

LEMMA RemoveConfirmsTyped ==
  ASSUME Typed, NEW h \in Handlers, RemoveConfirms(h)
  PROVE  Typed'
<1>1. handler[h].id \in Ids
  BY JobTyped DEF RemoveConfirms, Waits, Ready
<1>2. session' = session \/ session' = Locked
  BY DEF RemoveConfirms
<1>3. removed' \in SUBSET Ids
  BY <1>1 DEF RemoveConfirms, Typed, TypeOK
<1> QED BY <1>2, <1>3, ListsReady, LockedReady, TypedStep DEF RemoveConfirms

LEMMA EndOfSessionTyped ==
  ASSUME Typed, Lock \/ WorkerStops
  PROVE  Typed'
<1>1. CASE Lock
  BY <1>1, LockedReady, TypedStep DEF Lock
<1>2. CASE WorkerStops
  <2>1. handler' \in [Handlers -> Jobs] /\ \A g \in Handlers : Ready(handler'[g])
    BY <1>2, IdleReady DEF WorkerStops
  <2> QED BY <1>2, <2>1, LockedReady, TypedStep DEF WorkerStops
<1> QED BY <1>1, <1>2

LEMMA InitTyped == Init => Typed
<1> SUFFICES ASSUME Init PROVE Typed
  OBVIOUS
<1>1. \A h \in Handlers : Ready(handler[h])
  BY IdleReady DEF Init
<1>2. SessionReady
  BY DEF Init, SessionReady, Locked
<1> QED BY <1>1, <1>2, InitTypes DEF Typed

LEMMA NextTyped == Typed /\ [Next]_vars => Typed'
<1> SUFFICES ASSUME Typed, [Next]_vars PROVE Typed'
  OBVIOUS
<1>1. ASSUME NEW h \in Handlers, MessageArrives(h) PROVE Typed'
  <2>1. ASSUME NEW seed \in Seeds, NEW pw \in Passwords, CreateBegins(h, seed, pw)
        PROVE Typed'
    BY <2>1, CreateBeginsTyped
  <2>2. ASSUME NEW pw \in Passwords, AskActive(h, "unlock", NoId, NoSeed, pw)
        PROVE Typed'
    BY <2>2, AskActiveTyped
  <2>3. ASSUME NEW seed \in Seeds, NEW pw \in Passwords, AskActive(h, "restore", NoId, seed, pw)
        PROVE Typed'
    BY <2>3, AskActiveTyped
  <2>4. CASE AskActive(h, "reveal", NoId, NoSeed, NoPassword)
    BY <2>4, AskActiveTyped
  <2>5. CASE AskActive(h, "list", NoId, NoSeed, NoPassword)
    BY <2>5, AskActiveTyped
  <2>6. ASSUME NEW id \in Ids, AskActive(h, "remove", id, NoSeed, NoPassword)
        PROVE Typed'
    BY <2>6, AskActiveTyped
  <2> QED BY <1>1, <2>1, <2>2, <2>3, <2>4, <2>5, <2>6, DeriveBeginsTyped,
             SwitchReadsTyped, RenameReadsTyped DEF MessageArrives
<1>2. ASSUME NEW h \in Handlers, CallReturns(h) PROVE Typed'
  BY <1>2, CreateEncryptsTyped, AddReadsTyped, AddWritesTyped, AddActivatesTyped,
     ReadsWalletsTyped, ReadsActiveTyped, HealsTyped, ReadsRecordTyped, UnlocksTyped,
     UnlockUpdatesTyped, NotOpenedTyped, RestoreProvesTyped, ReplaceReadsTyped,
     ReplaceWritesTyped, UpdateReadsTyped, UpdateWritesTyped, SwitchWritesTyped,
     RenameWritesTyped, RemoveReadsTyped, RemoveWritesTyped, RemoveReadsActiveTyped,
     RemoveActivatesTyped, AddOpensTyped, ReplaceConfirmsTyped, UpdateOpensTyped,
     SwitchLocksTyped, RemoveConfirmsTyped DEF CallReturns
<1>3. CASE Lock \/ WorkerStops
  BY <1>3, EndOfSessionTyped
<1>4. CASE UNCHANGED vars
  BY <1>4, TypedStep DEF vars
<1> QED BY <1>1, <1>2, <1>3, <1>4 DEF Next

THEOREM AlwaysTyped == Spec => []Typed
<1>1. Init => Typed
  BY InitTyped
<1>2. Typed /\ [Next]_vars => Typed'
  BY NextTyped
<1> QED BY <1>1, <1>2, PTL DEF Spec

\* Storage, session and handlers keep their types, for any constants.
THEOREM TypeCorrect == Spec => []TypeOK
<1>1. Typed => TypeOK
  BY DEF Typed
<1> QED BY <1>1, AlwaysTyped, PTL

-----------------------------------------------------------------------------
(* The limit on wallets.  What a handler is about to write back never has  *)
(* more records than fit, and one less if it is about to add one.          *)

Fits(j) ==
    /\ j.pc \in {"updateWrite", "replaceWrite", "renameWrite", "removeWrite", "addWrite"}
         => Cardinality(Stored(j.saw)) <= MAX_WALLETS
    /\ j.pc = "addWrite" => Cardinality(Stored(j.saw)) < MAX_WALLETS

Roomy == WalletsWithinLimit /\ \A h \in Handlers : Fits(handler[h])

LEMMA StoredFinite ==
  ASSUME NEW w
  PROVE  /\ IsFiniteSet(Stored(w))
         /\ Cardinality(Stored(w)) \in Nat
<1>1. IsFiniteSet(Ids)
  BY FS_Interval, VaultAssumption DEF Ids
<1>2. Stored(w) \in SUBSET Ids
  BY DEF Stored
<1> QED BY <1>1, <1>2, FS_Subset, FS_CardinalityType

LEMMA FewerStored ==
  ASSUME NEW v, NEW w, Stored(v) \subseteq Stored(w)
  PROVE  Cardinality(Stored(v)) <= Cardinality(Stored(w))
BY StoredFinite, FS_Subset

LEMMA OneMoreStored ==
  ASSUME NEW w \in Stores, NEW i \in Ids, NEW r
  PROVE  Cardinality(Stored(With(w, i, r))) <= Cardinality(Stored(w)) + 1
<1>1. Stored(With(w, i, r)) \subseteq Stored(w) \cup {i}
  BY DEF Stored, With, Stores
<1>2. IsFiniteSet(Stored(w) \cup {i})
      /\ Cardinality(Stored(w) \cup {i}) <= Cardinality(Stored(w)) + 1
      /\ Cardinality(Stored(w) \cup {i}) \in Nat
  BY StoredFinite, FS_AddElement, FS_CardinalityType
<1>3. Cardinality(Stored(With(w, i, r))) <= Cardinality(Stored(w) \cup {i})
  BY <1>1, <1>2, FS_Subset
<1> QED BY <1>2, <1>3, StoredFinite

LEMMA InitRoomy == Init => Roomy
<1> SUFFICES ASSUME Init PROVE Roomy
  OBVIOUS
<1>1. PICK S \in SUBSET (1..MAX_WALLETS) :
        \E old \in [S -> [pw: Passwords, listed: BOOLEAN, tron: BOOLEAN]] :
              store = [i \in Ids |->
                         IF i \in S THEN [seed |-> owner[i], pw |-> old[i].pw,
                              accounts |-> IF old[i].listed THEN Primary(owner[i]) ELSE {},
                              tron |-> old[i].tron /\ old[i].listed]
                         ELSE NoRecord]
  BY DEF Init
<1>2. Stored(store) \in SUBSET (1..MAX_WALLETS)
  BY <1>1 DEF Stored
<1>3. IsFiniteSet(1..MAX_WALLETS) /\ Cardinality(1..MAX_WALLETS) = MAX_WALLETS
  BY FS_Interval, VaultAssumption
<1>4. WalletsWithinLimit
  BY <1>2, <1>3, FS_Subset DEF WalletsWithinLimit
<1>5. \A h \in Handlers : Fits(handler[h])
  BY DEF Init, Fits, Idle
<1> QED BY <1>4, <1>5 DEF Roomy

LEMMA GoesRoomy ==
  ASSUME Typed, Roomy, NEW h \in Handlers, NEW j, Goes(h, j), Fits(j)
  PROVE  \A g \in Handlers : Fits(handler'[g])
<1>1. \A g \in Handlers : handler'[g] = IF g = h THEN j ELSE handler[g]
  BY DEF Goes, Typed, TypeOK
<1> QED BY <1>1 DEF Roomy

\* Handlers whose next stage writes nothing back.
LEMMA HarmlessRoomy ==
  ASSUME Typed, Roomy, NEW h \in Handlers, NEW j, Goes(h, j),
         j.pc \notin {"updateWrite", "replaceWrite", "renameWrite", "removeWrite", "addWrite"}
  PROVE  \A g \in Handlers : Fits(handler'[g])
BY GoesRoomy DEF Fits
Writing == {"updateWrite", "replaceWrite", "renameWrite", "removeWrite", "addWrite"}

\* Handler h goes to a stage that writes nothing back.
Onward(h) == \E j : Goes(h, j) /\ j.pc \notin Writing

LEMMA OnwardRoomy ==
  ASSUME Typed, Roomy, NEW h \in Handlers, Onward(h),
         store' = store \/ Cardinality(Stored(store')) <= MAX_WALLETS
  PROVE  Roomy'
<1>1. PICK j : Goes(h, j) /\ j.pc \notin Writing
  BY DEF Onward
<1>2. \A g \in Handlers : Fits(handler'[g])
  BY <1>1, HarmlessRoomy DEF Writing
<1>3. WalletsWithinLimit'
  BY DEF Roomy, WalletsWithinLimit
<1> QED BY <1>2, <1>3 DEF Roomy

LEMMA IdleOnward ==
  ASSUME NEW h, Ends(h) \/ AnswersWithList(h)
  PROVE  Onward(h)
<1> DEFINE list == [Idle EXCEPT !.op = "list", !.pc = "wallets"]
<1>1. Idle.pc = "idle" /\ list.pc = "wallets"
  BY DEF Idle
<1>2. Goes(h, Idle) \/ Goes(h, list)
  BY DEF Ends, AnswersWithList
<1> HIDE DEF list
<1> QED BY <1>1, <1>2 DEF Onward, Writing

LEMMA ProceedsOnward ==
  ASSUME Typed, NEW h \in Handlers, NEW pc \in Stages \ Writing, Proceeds(h, pc)
  PROVE  Onward(h)
<1>1. [handler[h] EXCEPT !.pc = pc].pc = pc
  BY JobTyped DEF Jobs
<1> QED BY <1>1 DEF Onward, Proceeds

LEMMA KnowsOnward ==
  ASSUME Typed, NEW h \in Handlers, NEW id, KnowsActive(h, id)
  PROVE  Onward(h)
<1> DEFINE j1 == [handler[h] EXCEPT !.pc = "removeRead", !.among = {}, !.next = NoId,
                                    !.wasActive = (id = handler[h].id)]
           j2 == [handler[h] EXCEPT !.pc = "record", !.among = {}, !.next = NoId, !.id = id]
<1>1. j1.pc = "removeRead" /\ j2.pc = "record"
  BY JobTyped DEF Jobs
<1>2. Ends(h) \/ Goes(h, j1) \/ Goes(h, j2)
  BY DEF KnowsActive
<1> HIDE DEF j1, j2
<1> QED BY <1>1, <1>2, IdleOnward DEF Onward, Writing
\* A snapshot has as many records as storage had when it was taken.
LEMMA SnapshotRoomy ==
  ASSUME Typed, Roomy, NEW h \in Handlers, NEW j, Goes(h, j), j.saw = store,
         j.pc = "addWrite" => Cardinality(Stored(store)) < MAX_WALLETS,
         store' = store
  PROVE  Roomy'
<1>1. Fits(j)
  BY DEF Fits, Roomy, WalletsWithinLimit
<1>2. \A g \in Handlers : Fits(handler'[g])
  BY <1>1, GoesRoomy
<1> QED BY <1>2 DEF Roomy, WalletsWithinLimit

LEMMA AddReadsRoomy ==
  ASSUME Typed, Roomy, NEW h \in Handlers, AddReads(h)
  PROVE  Roomy'
<1> DEFINE j == [handler[h] EXCEPT !.pc = "addWrite", !.id = First(Unused), !.saw = store]
<1>1. j.saw = store
  BY JobTyped DEF Jobs
<1>2. \/ Goes(h, j) /\ Cardinality(Stored(store)) < MAX_WALLETS
      \/ Ends(h)
  BY DEF AddReads, HasRoom
<1>3. store' = store
  BY DEF AddReads
<1> HIDE DEF j
<1> QED BY <1>1, <1>2, <1>3, SnapshotRoomy, IdleOnward, OnwardRoomy

LEMMA AddWritesRoomy ==
  ASSUME Typed, Roomy, NEW h \in Handlers, AddWrites(h)
  PROVE  Roomy'
<1>1. handler[h] \in Jobs /\ handler[h].pc = "addWrite" /\ handler[h].id \in Ids
  BY JobTyped DEF AddWrites, Waits, Ready
<1>2. Cardinality(Stored(handler[h].saw)) < MAX_WALLETS
  BY <1>1 DEF Roomy, Fits
<1>3. Cardinality(Stored(store')) <= Cardinality(Stored(handler[h].saw)) + 1
  BY <1>1, OneMoreStored DEF AddWrites, Jobs
<1>4. Cardinality(Stored(store')) <= MAX_WALLETS
  BY <1>2, <1>3, StoredFinite, VaultAssumption
<1> DEFINE j == [handler[h] EXCEPT !.pc = "addActive", !.saw = Empty]
<1>5. j.pc = "addActive" /\ Goes(h, j)
  BY <1>1 DEF AddWrites, Jobs
<1> HIDE DEF j
<1>6. Onward(h)
  BY <1>5 DEF Onward, Writing
<1> QED BY <1>4, <1>6, OnwardRoomy

LEMMA ReadsRoomy ==
  ASSUME Typed, Roomy, NEW h \in Handlers,
         \/ ReplaceReads(h) \/ UpdateReads(h) \/ RemoveReads(h)
  PROVE  Roomy'
<1>1. ASSUME NEW pc \in Writing \ {"addWrite"}, Goes(h, [handler[h] EXCEPT !.pc = pc, !.saw = store]),
             store' = store
      PROVE  Roomy'
  <2> DEFINE j == [handler[h] EXCEPT !.pc = pc, !.saw = store]
  <2>1. j.pc # "addWrite" /\ j.saw = store /\ Goes(h, j)
    BY <1>1, JobTyped DEF Jobs
  <2> HIDE DEF j
  <2> QED BY <1>1, <2>1, SnapshotRoomy
<1>2. store' = store
  BY DEF ReplaceReads, UpdateReads, RemoveReads
<1>3. \/ \E pc \in Writing \ {"addWrite"} : Goes(h, [handler[h] EXCEPT !.pc = pc, !.saw = store])
      \/ Ends(h)
  BY DEF ReplaceReads, UpdateReads, RemoveReads, Writing
<1> QED BY <1>1, <1>2, <1>3, IdleOnward, OnwardRoomy

LEMMA RenameReadsRoomy ==
  ASSUME Typed, Roomy, NEW h \in Handlers, NEW id \in Ids, RenameReads(h, id)
  PROVE  Roomy'
<1> DEFINE j == [Idle EXCEPT !.op = "rename", !.pc = "renameWrite", !.id = id, !.saw = store]
<1>1. j.pc # "addWrite" /\ j.saw = store
  BY DEF Idle
<1>2. Goes(h, j) /\ store' = store
  BY DEF RenameReads
<1> HIDE DEF j
<1> QED BY <1>1, <1>2, SnapshotRoomy

\* Writing back a snapshot, with a record changed or taken out, keeps within
\* the limit.
LEMMA WritesRoomy ==
  ASSUME Typed, Roomy, NEW h \in Handlers,
         ReplaceWrites(h) \/ UpdateWrites(h) \/ RenameWrites(h) \/ RemoveWrites(h)
  PROVE  Roomy'
<1> DEFINE job == handler[h]
           next == First(Stored(job.saw) \ {job.id})
           gone == [job EXCEPT !.pc = "removeActiveRead", !.saw = Empty, !.next = next]
           told == [job EXCEPT !.pc = "replaced", !.saw = Empty,
                               !.accounts = AccountsOf(Replaced(job))]
           done == [job EXCEPT !.pc = "updated", !.saw = Empty]
<1>1. job \in Jobs /\ Ready(job) /\ job.saw \in Stores
  BY JobTyped DEF Jobs
<1>2. job.pc \in Writing \ {"addWrite"}
  BY DEF ReplaceWrites, UpdateWrites, RenameWrites, RemoveWrites, Waits, Writing
<1>3. Cardinality(Stored(job.saw)) <= MAX_WALLETS
  BY <1>2 DEF Roomy, Fits, Writing
<1>4. Stored(store') \subseteq Stored(job.saw)
  <2>1. CASE ReplaceWrites(h)
    <3>1. job.id \in Stored(job.saw)
      BY <2>1, <1>1 DEF ReplaceWrites, Waits, Ready, Stored
    <3>2. store' = [job.saw EXCEPT ![job.id] = Replaced(job)]
      BY <2>1 DEF ReplaceWrites, With
    <3> QED BY <1>1, <3>1, <3>2 DEF Stored, Stores
  <2>2. CASE UpdateWrites(h)
    BY <1>1, <2>2 DEF UpdateWrites, Updated, Stored
  <2>3. CASE RenameWrites(h)
    BY <2>3 DEF RenameWrites
  <2>4. CASE RemoveWrites(h)
    BY <1>1, <2>4 DEF RemoveWrites, Remaining, Stored, Stores
  <2> QED BY <2>1, <2>2, <2>3, <2>4
<1>5. Cardinality(Stored(store')) <= MAX_WALLETS
  BY <1>3, <1>4, FewerStored, StoredFinite, VaultAssumption
<1>6. Onward(h)
  <2>1. gone.pc = "removeActiveRead" /\ told.pc = "replaced" /\ done.pc = "updated"
    BY <1>1 DEF Jobs
  <2>2. Ends(h) \/ AnswersWithList(h) \/ Goes(h, gone) \/ Goes(h, told) \/ Goes(h, done)
    BY DEF ReplaceWrites, UpdateWrites, RenameWrites, RemoveWrites
  <2> HIDE DEF gone, told, done
  <2> QED BY <2>1, <2>2, IdleOnward DEF Onward, Writing
<1> QED BY <1>5, <1>6, OnwardRoomy
\* The messages that arrive, a rename apart, and the search for the active
\* wallet write nothing.
LEMMA ArrivalRoomy ==
  ASSUME Typed, Roomy, NEW h \in Handlers, MessageArrives(h)
  PROVE  Roomy'
<1>1. ASSUME NEW seed \in Seeds, NEW pw \in Passwords, CreateBegins(h, seed, pw) PROVE Roomy'
  <2> DEFINE j == [Idle EXCEPT !.op = "create", !.pc = "wasm", !.seed = seed, !.pw = pw]
  <2>1. j.pc = "wasm" /\ Goes(h, j) /\ store' = store
    BY <1>1 DEF CreateBegins, Idle
  <2> HIDE DEF j
  <2> QED BY <2>1, OnwardRoomy DEF Onward, Writing
<1>2. ASSUME NEW op, NEW id, NEW seed, NEW pw, AskActive(h, op, id, seed, pw) PROVE Roomy'
  <2> DEFINE j == [Idle EXCEPT !.op = op, !.pc = "wallets", !.id = id, !.seed = seed, !.pw = pw]
  <2>1. j.pc = "wallets" /\ Goes(h, j) /\ store' = store
    BY <1>2 DEF AskActive, Idle
  <2> HIDE DEF j
  <2> QED BY <2>1, OnwardRoomy DEF Onward, Writing
<1>3. ASSUME NEW index \in Indices, DeriveBegins(h, index) PROVE Roomy'
  <2> DEFINE accounts == {a \in session.accounts : a.index # index}
                         \cup {[index |-> index, of |-> session.seed]}
             j == [Idle EXCEPT !.op = "derive", !.pc = "updateRead", !.id = session.wallet,
                               !.seed = session.seed, !.accounts = accounts]
  <2>1. Goes(h, j) /\ store' = store
    BY <1>3 DEF DeriveBegins
  <2> HIDE DEF accounts
  <2>2. j.pc = "updateRead"
    BY DEF Idle
  <2> HIDE DEF j
  <2> QED BY <2>1, <2>2, OnwardRoomy DEF Onward, Writing
<1>4. ASSUME NEW id \in Ids, SwitchReads(h, id) PROVE Roomy'
  <2> DEFINE j == [Idle EXCEPT !.op = "switch", !.pc = "setActive", !.id = id]
  <2>1. j.pc = "setActive" /\ Goes(h, j) /\ store' = store
    BY <1>4 DEF SwitchReads, Idle
  <2> HIDE DEF j
  <2> QED BY <2>1, OnwardRoomy DEF Onward, Writing
<1> QED BY <1>1, <1>2, <1>3, <1>4, RenameReadsRoomy DEF MessageArrives

LEMMA SearchRoomy ==
  ASSUME Typed, Roomy, NEW h \in Handlers,
         ReadsWallets(h) \/ ReadsActive(h) \/ Heals(h) \/ ReadsRecord(h)
  PROVE  Roomy'
<1>1. store' = store
  BY DEF ReadsWallets, ReadsActive, Heals, ReadsRecord
<1> DEFINE j1 == [handler[h] EXCEPT !.pc = "activeId", !.among = Stored(store)]
           j2 == [handler[h] EXCEPT !.pc = "heal", !.next = First(handler[h].among)]
           j3 == [handler[h] EXCEPT !.pc = "opened",
                    !.saw = [Empty EXCEPT ![handler[h].id] = store[handler[h].id]]]
<1>2. j1.pc = "activeId" /\ j2.pc = "heal" /\ j3.pc = "opened"
  BY JobTyped DEF Jobs
<1>3. \/ \E id : KnowsActive(h, id)
      \/ Ends(h) \/ Goes(h, j1) \/ Goes(h, j2) \/ Goes(h, j3)
  BY DEF ReadsWallets, ReadsActive, Heals, ReadsRecord
<1> HIDE DEF j1, j2, j3
<1>4. Onward(h)
  BY <1>2, <1>3, KnowsOnward, IdleOnward DEF Onward, Writing
<1> QED BY <1>1, <1>4, OnwardRoomy

LEMMA RemovalRoomy ==
  ASSUME Typed, Roomy, NEW h \in Handlers,
         RemoveReadsActive(h) \/ RemoveActivates(h) \/ RemoveConfirms(h)
  PROVE  Roomy'
<1>1. store' = store
  BY DEF RemoveReadsActive, RemoveActivates, RemoveConfirms
<1>2. Proceeds(h, "removeActive") \/ Proceeds(h, "removed") \/ AnswersWithList(h)
  BY DEF RemoveReadsActive, RemoveActivates, RemoveConfirms
<1>3. Onward(h)
  BY <1>2, ProceedsOnward, IdleOnward DEF Stages, Writing
<1> QED BY <1>1, <1>3, OnwardRoomy

LEMMA OpeningRoomy ==
  ASSUME Typed, Roomy, NEW h \in Handlers,
         \/ CreateEncrypts(h) \/ AddActivates(h) \/ Unlocks(h) \/ UnlockUpdates(h)
         \/ NotOpened(h) \/ RestoreProves(h) \/ RestoreRefused(h) \/ SwitchWrites(h)
         \/ AddOpens(h) \/ ReplaceConfirms(h) \/ UpdateOpens(h) \/ SwitchLocks(h)
  PROVE  Roomy'
<1>1. store' = store
  BY DEF CreateEncrypts, AddActivates, Unlocks, UnlockUpdates, NotOpened, RestoreProves,
         RestoreRefused, SwitchWrites, AddOpens, ReplaceConfirms, UpdateOpens, SwitchLocks
<1> DEFINE rec == Found(h)
           j1 == [Idle EXCEPT !.op = "unlock", !.pc = "updateRead", !.id = handler[h].id,
                              !.seed = rec.seed, !.accounts = AccountsOf(rec)]
           j2 == [handler[h] EXCEPT !.pc = "replaceRead", !.saw = Empty]
<1>2. j2.pc = "replaceRead"
  BY JobTyped DEF Jobs
<1>3. \/ Ends(h) \/ AnswersWithList(h) \/ Proceeds(h, "addRead")
      \/ Proceeds(h, "added") \/ Proceeds(h, "switched")
      \/ Goes(h, j1) \/ Goes(h, j2)
  BY DEF CreateEncrypts, AddActivates, Unlocks, UnlockUpdates, NotOpened, RestoreProves,
         RestoreRefused, SwitchWrites, AddOpens, ReplaceConfirms, UpdateOpens,
         SwitchLocks, Confirms
<1> HIDE DEF rec, j2
<1>4. j1.pc = "updateRead"
  BY DEF Idle
<1> HIDE DEF j1
<1>5. Onward(h)
  BY <1>2, <1>3, <1>4, ProceedsOnward, IdleOnward DEF Onward, Stages, Writing
<1> QED BY <1>1, <1>5, OnwardRoomy

LEMMA NextRoomy == Typed /\ Roomy /\ [Next]_vars => Roomy'
<1> SUFFICES ASSUME Typed, Roomy, [Next]_vars PROVE Roomy'
  OBVIOUS
<1>1. ASSUME NEW h \in Handlers, CallReturns(h) PROVE Roomy'
  BY <1>1, OpeningRoomy, AddReadsRoomy, AddWritesRoomy, SearchRoomy, ReadsRoomy,
     WritesRoomy, RemovalRoomy DEF CallReturns
<1>2. CASE Lock
  BY <1>2 DEF Lock, Roomy, WalletsWithinLimit
<1>3. CASE WorkerStops
  BY <1>3 DEF WorkerStops, Roomy, WalletsWithinLimit, Fits, Idle
<1>4. CASE UNCHANGED vars
  BY <1>4 DEF vars, Roomy, WalletsWithinLimit
<1> QED BY <1>1, <1>2, <1>3, <1>4, ArrivalRoomy DEF Next

LEMMA AlwaysRoomy == Spec => []Roomy
BY InitRoomy, NextRoomy, AlwaysTyped, PTL DEF Spec

\* However many handlers add wallets at once, and whatever the limit is, no
\* more than MAX_WALLETS records are ever stored (addVaultRecord).
THEOREM LimitCorrect == Spec => []WalletsWithinLimit
<1>1. Roomy => WalletsWithinLimit
  BY DEF Roomy
<1> QED BY <1>1, AlwaysRoomy, PTL

-----------------------------------------------------------------------------
(* The phrases.  Every snapshot a handler holds, and every phrase and      *)
(* account it is about to write, belongs to the wallet it says.            *)

Fine(o, i, rec) == rec # NoRecord => rec.seed = o[i] /\ \A a \in rec.accounts : a.of = o[i]

FineStore(o, w) == \A i \in Ids : Fine(o, i, w[i])

\* The stages in which a handler is bound to the phrase of its wallet.
Bound == {"addWrite", "addActive", "added", "updateRead", "updateWrite", "updated",
          "replaceRead", "replaceWrite", "replaced"}

\* The stages in which it is about to store accounts or open them.
Carrying == {"updateRead", "updateWrite", "updated", "replaced"}

JobMatches(o, j) ==
    /\ FineStore(o, j.saw)
    /\ j.pc \in Bound => j.seed = o[j.id]
    /\ j.pc \in Carrying => \A a \in j.accounts : a.of = o[j.id]

SessionMatches(o, s) ==
    s.wallet # NoId => s.seed = o[s.wallet] /\ \A a \in s.accounts : a.of = s.seed

Matching ==
    /\ FineStore(owner, store)
    /\ \A h \in Handlers : JobMatches(owner, handler[h])
    /\ SessionMatches(owner, session)

LEMMA EmptyFine == ASSUME NEW o PROVE FineStore(o, Empty)
BY DEF FineStore, Fine, Empty

LEMMA LockedMatches == ASSUME NEW o PROVE SessionMatches(o, Locked)
BY DEF SessionMatches, Locked

LEMMA MatchingStep ==
  ASSUME Typed, Matching, NEW h \in Handlers, NEW j, Goes(h, j), JobMatches(owner, j),
         owner' = owner,
         store' = store \/ FineStore(owner, store'),
         session' = session \/ SessionMatches(owner, session')
  PROVE  Matching'
<1>1. \A g \in Handlers : handler'[g] = IF g = h THEN j ELSE handler[g]
  BY DEF Goes, Typed, TypeOK
<1>2. \A g \in Handlers : JobMatches(owner, handler'[g])
  BY <1>1 DEF Matching
<1>3. FineStore(owner, store')
  BY DEF Matching
<1>4. SessionMatches(owner, session')
  BY DEF Matching
<1> QED BY <1>2, <1>3, <1>4 DEF Matching

\* Handler h goes to a stage that binds it to no phrase, with a snapshot it
\* had before or took now.
Unbound(h) ==
    \E j : Goes(h, j) /\ j.pc \notin Bound /\ j.saw \in {Empty, handler[h].saw, store}

LEMMA UnboundMatches ==
  ASSUME Typed, Matching, NEW h \in Handlers, Unbound(h), owner' = owner,
         store' = store \/ FineStore(owner, store'),
         session' = session \/ SessionMatches(owner, session')
  PROVE  Matching'
<1>1. PICK j : Goes(h, j) /\ j.pc \notin Bound /\ j.saw \in {Empty, handler[h].saw, store}
  BY DEF Unbound
<1>2. FineStore(owner, j.saw)
  BY <1>1, EmptyFine DEF Matching, JobMatches
<1>3. JobMatches(owner, j)
  BY <1>1, <1>2 DEF JobMatches, Bound, Carrying
<1> QED BY <1>1, <1>3, MatchingStep

LEMMA IdleUnbound ==
  ASSUME NEW h, Ends(h) \/ AnswersWithList(h)
  PROVE  Unbound(h)
<1> DEFINE list == [Idle EXCEPT !.op = "list", !.pc = "wallets"]
<1>1. Idle.pc = "idle" /\ list.pc = "wallets" /\ Idle.saw = Empty /\ list.saw = Empty
  BY DEF Idle
<1>2. Goes(h, Idle) \/ Goes(h, list)
  BY DEF Ends, AnswersWithList
<1> HIDE DEF list
<1> QED BY <1>1, <1>2 DEF Unbound, Bound

LEMMA ProceedsUnbound ==
  ASSUME Typed, NEW h \in Handlers, NEW pc \in Stages \ Bound, Proceeds(h, pc)
  PROVE  Unbound(h)
<1> DEFINE j == [handler[h] EXCEPT !.pc = pc]
<1>1. j.pc = pc /\ j.saw = handler[h].saw /\ Goes(h, j)
  BY JobTyped DEF Jobs, Proceeds
<1> HIDE DEF j
<1> QED BY <1>1 DEF Unbound

LEMMA KnowsUnbound ==
  ASSUME Typed, NEW h \in Handlers, NEW id, KnowsActive(h, id)
  PROVE  Unbound(h)
<1> DEFINE j1 == [handler[h] EXCEPT !.pc = "removeRead", !.among = {}, !.next = NoId,
                                    !.wasActive = (id = handler[h].id)]
           j2 == [handler[h] EXCEPT !.pc = "record", !.among = {}, !.next = NoId, !.id = id]
<1>1. j1.pc = "removeRead" /\ j2.pc = "record"
      /\ j1.saw = handler[h].saw /\ j2.saw = handler[h].saw
  BY JobTyped DEF Jobs
<1>2. Ends(h) \/ Goes(h, j1) \/ Goes(h, j2)
  BY DEF KnowsActive
<1> HIDE DEF j1, j2
<1> QED BY <1>1, <1>2, IdleUnbound DEF Unbound, Bound

LEMMA InitMatching == Init => Matching
<1> SUFFICES ASSUME Init PROVE Matching
  OBVIOUS
<1>1. PICK S \in SUBSET (1..MAX_WALLETS) :
        \E old \in [S -> [pw: Passwords, listed: BOOLEAN, tron: BOOLEAN]] :
              store = [i \in Ids |->
                         IF i \in S THEN [seed |-> owner[i], pw |-> old[i].pw,
                              accounts |-> IF old[i].listed THEN Primary(owner[i]) ELSE {},
                              tron |-> old[i].tron /\ old[i].listed]
                         ELSE NoRecord]
  BY DEF Init
<1>2. FineStore(owner, store)
  BY <1>1 DEF FineStore, Fine, Primary
<1>3. \A h \in Handlers : JobMatches(owner, handler[h])
  BY EmptyFine DEF Init, JobMatches, Idle, Bound, Carrying
<1> QED BY <1>2, <1>3, LockedMatches DEF Init, Matching
\* Nothing refers to an id that has no owner, so giving it one disturbs nothing.
LEMMA OwnerGiven ==
  ASSUME NEW id \in Ids, NEW seed, owner[id] = NoSeed,
         owner \in [Ids -> Seeds \cup {NoSeed}],
         owner' = [owner EXCEPT ![id] = seed]
  PROVE  /\ \A w \in Stores : FineStore(owner, w) => FineStore(owner', w)
         /\ \A j \in Jobs : Ready(j) /\ JobMatches(owner, j) => JobMatches(owner', j)
         /\ SessionReady /\ session \in Sessions /\ SessionMatches(owner, session)
              => SessionMatches(owner', session)
<1>1. \A i \in Ids : i # id => owner'[i] = owner[i]
  OBVIOUS
<1>2. ASSUME NEW w \in Stores, FineStore(owner, w)
      PROVE  FineStore(owner', w)
  <2>1. ASSUME NEW i \in Ids PROVE Fine(owner', i, w[i])
    <3>1. Fine(owner, i, w[i])
      BY <1>2 DEF FineStore
    <3>2. w[i] # NoRecord => w[i].seed \in Seeds
      BY DEF Stores, Records
    <3>3. w[i] # NoRecord => i # id
      BY <3>1, <3>2, VaultAssumption DEF Fine
    <3> QED BY <1>1, <3>1, <3>3 DEF Fine
  <2> QED BY <2>1 DEF FineStore
<1>3. ASSUME NEW j \in Jobs, Ready(j), JobMatches(owner, j)
      PROVE  JobMatches(owner', j)
  <2>1. FineStore(owner', j.saw)
    BY <1>2, <1>3 DEF JobMatches, Jobs
  <2>2. ASSUME j.pc \in Bound
        PROVE  j.id \in Ids /\ owner'[j.id] = owner[j.id]
    <3>1. j.id \in Ids /\ j.seed \in Seeds
      BY <1>3, <2>2 DEF Ready, Bound
    <3>2. j.id # id
      BY <1>3, <2>2, <3>1, VaultAssumption DEF JobMatches
    <3> QED BY <1>1, <3>1, <3>2
  <2>3. j.pc \in Carrying => j.pc \in Bound
    BY DEF Bound, Carrying
  <2> QED BY <1>3, <2>1, <2>2, <2>3 DEF JobMatches
<1>4. ASSUME SessionReady, session \in Sessions, SessionMatches(owner, session)
      PROVE  SessionMatches(owner', session)
  <2>1. session.wallet # NoId => session.wallet \in Ids /\ session.wallet # id
    BY <1>4, VaultAssumption DEF SessionReady, SessionMatches, Sessions
  <2> QED BY <1>1, <1>4, <2>1 DEF SessionMatches
<1> QED BY <1>2, <1>3, <1>4

LEMMA AddReadsMatching ==
  ASSUME Typed, Matching, NEW h \in Handlers, AddReads(h)
  PROVE  Matching'
<1> DEFINE id == First(Unused)
           j == [handler[h] EXCEPT !.pc = "addWrite", !.id = id, !.saw = store]
<1>1. id \in Ids /\ owner[id] = NoSeed
  BY FirstMember DEF AddReads, Unused
<1>2. store' = store /\ session' = session
  BY DEF AddReads
<1>3. /\ handler[h] \in Jobs
      /\ j.pc = "addWrite" /\ j.id = id /\ j.saw = store
      /\ j.seed = handler[h].seed /\ j.accounts = handler[h].accounts
  BY JobTyped DEF Jobs
<1> HIDE DEF id, j
<1>4. CASE HasRoom(Stored(store))
  <2>1. Goes(h, j) /\ owner' = [owner EXCEPT ![id] = handler[h].seed]
    BY <1>4 DEF AddReads, id, j
  <2>2. owner \in [Ids -> Seeds \cup {NoSeed}] /\ store \in Stores /\ session \in Sessions
        /\ SessionReady
    BY DEF Typed, TypeOK
  <2>3. FineStore(owner', store) /\ SessionMatches(owner', session)
    BY <1>1, <2>1, <2>2, OwnerGiven DEF Matching
  <2>4. \A g \in Handlers : JobMatches(owner', handler[g])
    BY <1>1, <2>1, <2>2, OwnerGiven, JobTyped DEF Matching
  <2>5. owner'[id] = handler[h].seed
    BY <1>1, <2>1, <2>2
  <2>6. JobMatches(owner', j)
    BY <1>3, <2>3, <2>5 DEF JobMatches, Carrying
  <2>7. \A g \in Handlers : handler'[g] = IF g = h THEN j ELSE handler[g]
    BY <2>1 DEF Goes, Typed, TypeOK
  <2>8. \A g \in Handlers : JobMatches(owner', handler'[g])
    BY <2>4, <2>6, <2>7
  <2> QED BY <1>2, <2>3, <2>8 DEF Matching
<1>5. CASE ~HasRoom(Stored(store))
  BY <1>2, <1>5, IdleUnbound, UnboundMatches DEF AddReads
<1> QED BY <1>4, <1>5

LEMMA WithFine ==
  ASSUME NEW o, NEW w \in Stores, FineStore(o, w), NEW i \in Ids, NEW r, Fine(o, i, r)
  PROVE  FineStore(o, With(w, i, r))
BY DEF FineStore, With, Stores

LEMMA AddWritesMatching ==
  ASSUME Typed, Matching, NEW h \in Handlers, AddWrites(h)
  PROVE  Matching'
<1> DEFINE job == handler[h]
           j == [job EXCEPT !.pc = "addActive", !.saw = Empty]
<1>1. /\ job \in Jobs /\ job.pc = "addWrite" /\ job.id \in Ids /\ job.saw \in Stores
      /\ JobMatches(owner, job)
  BY JobTyped DEF AddWrites, Waits, Ready, Jobs, Matching
<1>2. Fine(owner, job.id, NewRecord(job))
  BY <1>1 DEF Fine, NewRecord, Primary, JobMatches, Bound
<1>3. FineStore(owner, store')
  BY <1>1, <1>2, WithFine DEF AddWrites, JobMatches
<1>4. j.pc = "addActive" /\ j.saw = Empty /\ j.seed = job.seed /\ j.id = job.id
  BY <1>1 DEF Jobs
<1>5. Goes(h, j) /\ owner' = owner /\ session' = session
  BY DEF AddWrites
<1> HIDE DEF j
<1>6. JobMatches(owner, j)
  BY <1>1, <1>4, EmptyFine DEF JobMatches, Bound, Carrying
<1> QED BY <1>3, <1>5, <1>6, MatchingStep

LEMMA AddActivatesMatching ==
  ASSUME Typed, Matching, NEW h \in Handlers, AddActivates(h)
  PROVE  Matching'
<1> DEFINE j == [handler[h] EXCEPT !.pc = "added"]
<1>1. j.pc = "added" /\ j.saw = handler[h].saw /\ j.seed = handler[h].seed
      /\ j.id = handler[h].id /\ Goes(h, j)
  BY JobTyped DEF Jobs, AddActivates, Proceeds
<1>2. JobMatches(owner, handler[h]) /\ handler[h].pc = "addActive"
  BY DEF AddActivates, Waits, Matching
<1> HIDE DEF j
<1>3. JobMatches(owner, j)
  BY <1>1, <1>2 DEF JobMatches, Bound, Carrying
<1> QED BY <1>1, <1>3, MatchingStep DEF AddActivates

\* A handler that opens the session opens the phrase and the accounts it is
\* bound to.
LEMMA OpensMatching ==
  ASSUME Typed, Matching, NEW h \in Handlers,
         AddOpens(h) \/ ReplaceConfirms(h) \/ UpdateOpens(h)
  PROVE  Matching'
<1>1. handler[h].seed = owner[handler[h].id]
  BY DEF AddOpens, ReplaceConfirms, UpdateOpens, Waits, Matching, JobMatches, Bound
<1>2. CASE AddOpens(h)
  <2>1. SessionMatches(owner, session')
    BY <1>1, <1>2 DEF AddOpens, SessionMatches, Unlocked, Primary
  <2> QED BY <1>2, <2>1, IdleUnbound, UnboundMatches DEF AddOpens, Confirms
<1>3. CASE ReplaceConfirms(h) \/ UpdateOpens(h)
  <2>1. \A a \in handler[h].accounts : a.of = owner[handler[h].id]
    BY <1>3 DEF ReplaceConfirms, UpdateOpens, Waits, Matching, JobMatches, Carrying
  <2>2. SessionMatches(owner, session')
    BY <1>1, <1>3, <2>1 DEF ReplaceConfirms, UpdateOpens, SessionMatches, Unlocked
  <2> QED BY <1>3, <2>2, IdleUnbound, UnboundMatches DEF ReplaceConfirms, UpdateOpens, Confirms
<1> QED BY <1>2, <1>3

LEMMA ReadsRecordMatching ==
  ASSUME Typed, Matching, NEW h \in Handlers, ReadsRecord(h)
  PROVE  Matching'
<1> DEFINE id == handler[h].id
           found == [Empty EXCEPT ![id] = store[id]]
           j == [handler[h] EXCEPT !.pc = "opened", !.saw = found]
<1>1. j.pc = "opened" /\ j.saw = found
  BY JobTyped DEF Jobs
<1>2. FineStore(owner, found)
  BY EmptyFine DEF Matching, FineStore, Fine, Empty
<1>3. JobMatches(owner, j)
  BY <1>1, <1>2 DEF JobMatches, Bound, Carrying
<1>4. Goes(h, j) \/ Ends(h)
  BY DEF ReadsRecord
<1>5. store' = store /\ session' = session /\ owner' = owner
  BY DEF ReadsRecord
<1> HIDE DEF j
<1> QED BY <1>3, <1>4, <1>5, MatchingStep, IdleUnbound, UnboundMatches

\* What an opened record holds belongs to its wallet.
LEMMA FoundMatches ==
  ASSUME Typed, Matching, NEW h \in Handlers, Waits(h, "opened")
  PROVE  /\ handler[h].id \in Ids
         /\ Found(h) \in Records
         /\ Found(h).seed = owner[handler[h].id]
         /\ \A a \in Found(h).accounts : a.of = owner[handler[h].id]
         /\ \A a \in AccountsOf(Found(h)) : a.of = owner[handler[h].id]
<1>1. handler[h] \in Jobs /\ handler[h].id \in Ids /\ Found(h) # NoRecord
  BY JobTyped DEF Waits, Ready, Found
<1>2. Found(h) \in Records
  BY <1>1 DEF Found, Jobs, Stores
<1>3. Fine(owner, handler[h].id, Found(h))
  BY <1>1 DEF Matching, JobMatches, FineStore, Found
<1> QED BY <1>1, <1>2, <1>3 DEF Fine, AccountsOf, Primary

LEMMA UnlocksMatching ==
  ASSUME Typed, Matching, NEW h \in Handlers, Unlocks(h)
  PROVE  Matching'
<1>1. SessionMatches(owner, session')
  BY FoundMatches DEF Unlocks, SessionMatches, Unlocked
<1> QED BY <1>1, IdleUnbound, UnboundMatches DEF Unlocks

LEMMA UnlockUpdatesMatching ==
  ASSUME Typed, Matching, NEW h \in Handlers, UnlockUpdates(h)
  PROVE  Matching'
<1> DEFINE id == handler[h].id
           seed == Found(h).seed
           accounts == AccountsOf(Found(h))
           j == [Idle EXCEPT !.op = "unlock", !.pc = "updateRead", !.id = id, !.seed = seed,
                             !.accounts = accounts]
<1>1. seed = owner[id] /\ \A a \in accounts : a.of = owner[id]
  BY FoundMatches DEF UnlockUpdates
<1>2. Goes(h, j) /\ UNCHANGED <<store, session, owner>>
  BY DEF UnlockUpdates
<1> HIDE DEF id, seed, accounts
<1>3. JobMatches(owner, j)
  BY <1>1, EmptyFine DEF JobMatches, Idle
<1> HIDE DEF j
<1> QED BY <1>2, <1>3, MatchingStep

\* The phrase that proves its ownership is the wallet's own: it derives the
\* public account 0, which was derived from the wallet's phrase.
LEMMA RestoreProvesMatching ==
  ASSUME Typed, Matching, NEW h \in Handlers, RestoreProves(h)
  PROVE  Matching'
<1> DEFINE j == [handler[h] EXCEPT !.pc = "replaceRead", !.saw = Empty]
<1>1. handler[h].seed = owner[handler[h].id]
  BY FoundMatches DEF RestoreProves, MnemonicOwnsRecord
<1>2. j.pc = "replaceRead" /\ j.saw = Empty /\ j.seed = handler[h].seed /\ j.id = handler[h].id
  BY JobTyped DEF Jobs
<1>3. Goes(h, j) /\ session' = Locked /\ UNCHANGED <<store, owner>>
  BY DEF RestoreProves
<1> HIDE DEF j
<1>4. JobMatches(owner, j)
  BY <1>1, <1>2, EmptyFine DEF JobMatches, Carrying
<1> QED BY <1>3, <1>4, LockedMatches, MatchingStep

\* Taking a snapshot of storage keeps what the handler is bound to.
LEMMA SnapshotMatching ==
  ASSUME Typed, Matching, NEW h \in Handlers,
         NEW pc \in {"replaceWrite", "updateWrite", "removeWrite"},
         pc = "replaceWrite" => handler[h].pc = "replaceRead",
         pc = "updateWrite" => handler[h].pc = "updateRead",
         Goes(h, [handler[h] EXCEPT !.pc = pc, !.saw = store]),
         UNCHANGED <<store, session, owner>>
  PROVE  Matching'
<1> DEFINE j == [handler[h] EXCEPT !.pc = pc, !.saw = store]
<1>1. j.pc = pc /\ j.saw = store /\ j.seed = handler[h].seed /\ j.id = handler[h].id
      /\ j.accounts = handler[h].accounts
  BY JobTyped DEF Jobs
<1>2. JobMatches(owner, handler[h]) /\ FineStore(owner, store)
  BY DEF Matching
<1> HIDE DEF j
<1>3. JobMatches(owner, j)
  BY <1>1, <1>2 DEF JobMatches, Bound, Carrying
<1> QED BY <1>3, MatchingStep DEF j

LEMMA ReadsMatching ==
  ASSUME Typed, Matching, NEW h \in Handlers,
         \/ ReplaceReads(h) \/ UpdateReads(h) \/ RemoveReads(h)
  PROVE  Matching'
<1>1. UNCHANGED <<store, session, owner>>
  BY DEF ReplaceReads, UpdateReads, RemoveReads
<1>2. CASE ReplaceReads(h)
  BY <1>1, <1>2, SnapshotMatching, IdleUnbound, UnboundMatches DEF ReplaceReads, Waits
<1>3. CASE UpdateReads(h)
  BY <1>1, <1>3, SnapshotMatching DEF UpdateReads, Waits
<1>4. CASE RemoveReads(h)
  BY <1>1, <1>4, SnapshotMatching, IdleUnbound, UnboundMatches DEF RemoveReads, Waits
<1> QED BY <1>2, <1>3, <1>4

LEMMA ReplaceWritesMatching ==
  ASSUME Typed, Matching, NEW h \in Handlers, ReplaceWrites(h)
  PROVE  Matching'
<1> DEFINE job == handler[h]
           updated == Replaced(job)
<1>1. /\ job \in Jobs /\ job.id \in Ids /\ job.saw \in Stores /\ job.saw[job.id] # NoRecord
      /\ JobMatches(owner, job) /\ job.pc = "replaceWrite"
  BY JobTyped DEF ReplaceWrites, Waits, Ready, Jobs, Matching
<1>2. job.seed = owner[job.id] /\ Fine(owner, job.id, job.saw[job.id])
  BY <1>1 DEF JobMatches, FineStore, Bound
<1>3. job.saw[job.id] \in Records
  BY <1>1 DEF Stores
<1>4. updated.seed = owner[job.id] /\ \A a \in updated.accounts : a.of = owner[job.id]
  BY <1>1, <1>2, <1>3 DEF Replaced, Records, Fine
<1>5. FineStore(owner, store')
  BY <1>1, <1>4, WithFine DEF ReplaceWrites, JobMatches, Fine
<1> DEFINE accounts == AccountsOf(updated)
           j == [job EXCEPT !.pc = "replaced", !.saw = Empty, !.accounts = accounts]
<1>6. \A a \in accounts : a.of = owner[job.id]
  BY <1>4 DEF AccountsOf, Primary
<1>7. Goes(h, j) /\ session' = session /\ owner' = owner
  BY DEF ReplaceWrites
<1> HIDE DEF accounts
<1>8. j.pc = "replaced" /\ j.saw = Empty /\ j.seed = job.seed /\ j.id = job.id
      /\ j.accounts = accounts
  BY <1>1 DEF Jobs
<1> HIDE DEF j
<1>9. JobMatches(owner, j)
  BY <1>2, <1>6, <1>8, EmptyFine DEF JobMatches
<1> QED BY <1>5, <1>7, <1>9, MatchingStep

LEMMA UpdateWritesMatching ==
  ASSUME Typed, Matching, NEW h \in Handlers, UpdateWrites(h)
  PROVE  Matching'
<1> DEFINE job == handler[h]
<1>1. /\ job \in Jobs /\ job.id \in Ids /\ job.saw \in Stores
      /\ JobMatches(owner, job) /\ job.pc = "updateWrite"
  BY JobTyped DEF UpdateWrites, Waits, Ready, Jobs, Matching
<1>2. job.seed = owner[job.id] /\ \A a \in job.accounts : a.of = owner[job.id]
  BY <1>1 DEF JobMatches, Bound, Carrying
<1>3. ASSUME NEW i \in Ids
      PROVE  Fine(owner, i, Updated(job)[i])
  <2>1. Fine(owner, i, job.saw[i])
    BY <1>1 DEF JobMatches, FineStore
  <2>2. CASE i = job.id /\ i \in Stored(job.saw)
    <3>1. job.saw[i] \in Records /\ job.saw[i] # NoRecord
      BY <1>1, <2>2 DEF Stores, Stored
    <3>2. Updated(job)[i] = [job.saw[i] EXCEPT !.accounts = job.accounts, !.tron = TRUE]
      BY <2>2 DEF Updated
    <3>3. Updated(job)[i].seed = job.saw[i].seed /\ Updated(job)[i].accounts = job.accounts
      BY <3>1, <3>2 DEF Records
    <3> QED BY <1>2, <2>1, <2>2, <3>1, <3>3 DEF Fine
  <2>3. CASE ~(i = job.id /\ i \in Stored(job.saw))
    BY <2>1, <2>3 DEF Updated
  <2> QED BY <2>2, <2>3
<1>4. FineStore(owner, store')
  BY <1>3 DEF UpdateWrites, FineStore
<1> DEFINE j == [job EXCEPT !.pc = "updated", !.saw = Empty]
<1>5. (Goes(h, j) \/ Ends(h)) /\ session' = session /\ owner' = owner
  BY DEF UpdateWrites
<1>6. j.pc = "updated" /\ j.saw = Empty /\ j.seed = job.seed /\ j.id = job.id
      /\ j.accounts = job.accounts
  BY <1>1 DEF Jobs
<1> HIDE DEF j
<1>7. JobMatches(owner, j)
  BY <1>2, <1>6, EmptyFine DEF JobMatches
<1> QED BY <1>4, <1>5, <1>7, MatchingStep, IdleUnbound, UnboundMatches

LEMMA RenameReadsMatching ==
  ASSUME Typed, Matching, NEW h \in Handlers, NEW id \in Ids, RenameReads(h, id)
  PROVE  Matching'
<1> DEFINE j == [Idle EXCEPT !.op = "rename", !.pc = "renameWrite", !.id = id, !.saw = store]
<1>1. j.pc = "renameWrite" /\ j.saw = store
  BY DEF Idle
<1>2. Goes(h, j) /\ UNCHANGED <<store, session, owner>>
  BY DEF RenameReads
<1> HIDE DEF j
<1> QED BY <1>1, <1>2, UnboundMatches DEF Unbound, Bound

LEMMA RenameWritesMatching ==
  ASSUME Typed, Matching, NEW h \in Handlers, RenameWrites(h)
  PROVE  Matching'
<1>1. FineStore(owner, store')
  BY DEF RenameWrites, Matching, JobMatches
<1> QED BY <1>1, IdleUnbound, UnboundMatches DEF RenameWrites

LEMMA RemoveWritesMatching ==
  ASSUME Typed, Matching, NEW h \in Handlers, RemoveWrites(h)
  PROVE  Matching'
<1> DEFINE next == First(Stored(handler[h].saw) \ {handler[h].id})
           j == [handler[h] EXCEPT !.pc = "removeActiveRead", !.saw = Empty, !.next = next]
<1>1. handler[h] \in Jobs /\ handler[h].saw \in Stores /\ FineStore(owner, handler[h].saw)
  BY JobTyped DEF Jobs, Matching, JobMatches
<1>2. FineStore(owner, store')
  BY <1>1 DEF RemoveWrites, Remaining, FineStore, Fine, Stores
<1>3. j.pc = "removeActiveRead" /\ j.saw = Empty
  BY <1>1 DEF Jobs
<1>4. Goes(h, j) /\ UNCHANGED <<session, owner>>
  BY DEF RemoveWrites
<1> HIDE DEF j
<1>5. Unbound(h)
  BY <1>3, <1>4 DEF Unbound, Bound
<1> QED BY <1>2, <1>4, <1>5, UnboundMatches

LEMMA RemovalMatching ==
  ASSUME Typed, Matching, NEW h \in Handlers,
         RemoveReadsActive(h) \/ RemoveActivates(h) \/ RemoveConfirms(h)
  PROVE  Matching'
<1>1. store' = store /\ owner' = owner
  BY DEF RemoveReadsActive, RemoveActivates, RemoveConfirms
<1>2. session' = session \/ SessionMatches(owner, session')
  BY LockedMatches DEF RemoveReadsActive, RemoveActivates, RemoveConfirms
<1>3. Proceeds(h, "removeActive") \/ Proceeds(h, "removed") \/ AnswersWithList(h)
  BY DEF RemoveReadsActive, RemoveActivates, RemoveConfirms
<1>4. Unbound(h)
  BY <1>3, ProceedsUnbound, IdleUnbound DEF Stages, Bound
<1> QED BY <1>1, <1>2, <1>4, UnboundMatches

LEMMA SearchMatching ==
  ASSUME Typed, Matching, NEW h \in Handlers,
         ReadsWallets(h) \/ ReadsActive(h) \/ Heals(h)
  PROVE  Matching'
<1>1. UNCHANGED <<store, session, owner>>
  BY DEF ReadsWallets, ReadsActive, Heals
<1> DEFINE j1 == [handler[h] EXCEPT !.pc = "activeId", !.among = Stored(store)]
           j2 == [handler[h] EXCEPT !.pc = "heal", !.next = First(handler[h].among)]
<1>2. j1.pc = "activeId" /\ j2.pc = "heal" /\ j1.saw = handler[h].saw /\ j2.saw = handler[h].saw
  BY JobTyped DEF Jobs
<1>3. (\E id : KnowsActive(h, id)) \/ Ends(h) \/ Goes(h, j1) \/ Goes(h, j2)
  BY DEF ReadsWallets, ReadsActive, Heals
<1> HIDE DEF j1, j2
<1>4. Unbound(h)
  BY <1>2, <1>3, KnowsUnbound, IdleUnbound DEF Unbound, Bound
<1> QED BY <1>1, <1>4, UnboundMatches

LEMMA WaitingMatching ==
  ASSUME Typed, Matching, NEW h \in Handlers,
         CreateEncrypts(h) \/ NotOpened(h) \/ RestoreRefused(h) \/ SwitchWrites(h)
         \/ SwitchLocks(h)
  PROVE  Matching'
<1>1. store' = store /\ owner' = owner
  BY DEF CreateEncrypts, NotOpened, RestoreRefused, SwitchWrites, SwitchLocks
<1>2. session' = session \/ SessionMatches(owner, session')
  BY LockedMatches DEF CreateEncrypts, NotOpened, RestoreRefused, SwitchWrites, SwitchLocks
<1>3. Proceeds(h, "addRead") \/ Proceeds(h, "switched") \/ Ends(h) \/ AnswersWithList(h)
  BY DEF CreateEncrypts, NotOpened, RestoreRefused, SwitchWrites, SwitchLocks
<1>4. Unbound(h)
  BY <1>3, ProceedsUnbound, IdleUnbound DEF Stages, Bound
<1> QED BY <1>1, <1>2, <1>4, UnboundMatches

LEMMA ArrivalMatching ==
  ASSUME Typed, Matching, NEW h \in Handlers, MessageArrives(h)
  PROVE  Matching'
<1>1. ASSUME NEW seed \in Seeds, NEW pw \in Passwords, CreateBegins(h, seed, pw)
      PROVE Matching'
  <2> DEFINE j == [Idle EXCEPT !.op = "create", !.pc = "wasm", !.seed = seed, !.pw = pw]
  <2>1. j.pc = "wasm" /\ j.saw = Empty /\ Goes(h, j) /\ UNCHANGED <<store, session, owner>>
    BY <1>1 DEF CreateBegins, Idle
  <2> HIDE DEF j
  <2> QED BY <2>1, UnboundMatches DEF Unbound, Bound
<1>2. ASSUME NEW op, NEW id, NEW seed, NEW pw, AskActive(h, op, id, seed, pw)
      PROVE Matching'
  <2> DEFINE j == [Idle EXCEPT !.op = op, !.pc = "wallets", !.id = id, !.seed = seed, !.pw = pw]
  <2>1. j.pc = "wallets" /\ j.saw = Empty /\ Goes(h, j) /\ UNCHANGED <<store, session, owner>>
    BY <1>2 DEF AskActive, Idle
  <2> HIDE DEF j
  <2> QED BY <2>1, UnboundMatches DEF Unbound, Bound
<1>3. ASSUME NEW index \in Indices, DeriveBegins(h, index) PROVE Matching'
  <2> DEFINE accounts == {a \in session.accounts : a.index # index}
                         \cup {[index |-> index, of |-> session.seed]}
             id == session.wallet
             seed == session.seed
             j == [Idle EXCEPT !.op = "derive", !.pc = "updateRead", !.id = id,
                               !.seed = seed, !.accounts = accounts]
  <2>1. id # NoId /\ session \in Sessions /\ SessionMatches(owner, session)
    BY <1>3 DEF DeriveBegins, Typed, TypeOK, Matching
  <2>2. seed = owner[id] /\ \A a \in accounts : a.of = seed
    BY <2>1 DEF SessionMatches
  <2>3. Goes(h, j) /\ session' = [session EXCEPT !.accounts = accounts]
        /\ UNCHANGED <<store, owner>>
    BY <1>3 DEF DeriveBegins
  <2> HIDE DEF accounts
  <2>4. SessionMatches(owner, session')
    BY <2>1, <2>2, <2>3 DEF SessionMatches, Sessions
  <2> HIDE DEF id, seed
  <2>5. JobMatches(owner, j)
    BY <2>2, EmptyFine DEF JobMatches, Idle
  <2> HIDE DEF j
  <2> QED BY <2>3, <2>4, <2>5, MatchingStep
<1>4. ASSUME NEW id \in Ids, SwitchReads(h, id) PROVE Matching'
  <2> DEFINE j == [Idle EXCEPT !.op = "switch", !.pc = "setActive", !.id = id]
  <2>1. j.pc = "setActive" /\ j.saw = Empty /\ Goes(h, j) /\ UNCHANGED <<store, session, owner>>
    BY <1>4 DEF SwitchReads, Idle
  <2> HIDE DEF j
  <2> QED BY <2>1, UnboundMatches DEF Unbound, Bound
<1> QED BY <1>1, <1>2, <1>3, <1>4, RenameReadsMatching DEF MessageArrives

LEMMA NextMatching == Typed /\ Matching /\ [Next]_vars => Matching'
<1> SUFFICES ASSUME Typed, Matching, [Next]_vars PROVE Matching'
  OBVIOUS
<1>1. ASSUME NEW h \in Handlers, CallReturns(h) PROVE Matching'
  BY <1>1, RenameWritesMatching, WaitingMatching, AddReadsMatching, AddWritesMatching,
     AddActivatesMatching, OpensMatching, SearchMatching, ReadsRecordMatching, UnlocksMatching,
     UnlockUpdatesMatching, RestoreProvesMatching, ReadsMatching, ReplaceWritesMatching,
     UpdateWritesMatching, RemoveWritesMatching, RemovalMatching DEF CallReturns
<1>2. CASE Lock
  BY <1>2, LockedMatches DEF Lock, Matching
<1>3. CASE WorkerStops
  BY <1>3, LockedMatches, EmptyFine DEF WorkerStops, Matching, JobMatches, Idle, Bound,
     Carrying
<1>4. CASE UNCHANGED vars
  BY <1>4 DEF vars, Matching
<1> QED BY <1>1, <1>2, <1>3, <1>4, ArrivalMatching DEF Next

\* Whatever handlers overlap, a record holds the phrase its wallet was
\* created with and accounts of that phrase, and so does the session.
THEOREM PhrasesCorrect == Spec => []PhrasesMatch
<1>1. Init => Matching
  BY InitMatching
<1>2. Typed /\ Matching /\ [Next]_vars => Matching'
  BY NextMatching
<1>3. Matching => PhrasesMatch
  BY DEF Matching, PhrasesMatch, FineStore, Fine, SessionMatches, Stored
<1> QED BY <1>1, <1>2, <1>3, AlwaysTyped, PTL DEF Spec

-----------------------------------------------------------------------------
(* Removals and passwords.  A record that no handler wrote over another's  *)
(* is the one that was stored for it last, and is gone once it is removed. *)
(* For the second, an id about to be stored must have left no traces.      *)

\* The stages in which a handler speaks of an id that storage need not hold.
Taking == {"removeActiveRead", "removeActive", "removed"}
Claiming == Taking \cup {"addWrite"}

\* The stages that owe the user the answer about a stored password.
Telling == {"addActive", "added", "replaced"}

\* No trace of id i in storage and history, in what the handlers have read, and
\* in what those of S are about to do.
Untraced(i, S, w, r, jobs) ==
    /\ i \notin Stored(w)
    /\ i \notin r
    /\ \A g \in Handlers : i \notin Stored(jobs[g].saw)
    /\ \A g \in S : jobs[g].pc \in Claiming => jobs[g].id # i

Traceless ==
    /\ \A i \in Ids : owner[i] = NoSeed => Untraced(i, Handlers, store, removed, handler)
    /\ \A h \in Handlers :
         handler[h].pc = "addWrite"
           => Untraced(handler[h].id, Handlers \ {h}, store, removed, handler)

Gone(i, w, o) == i \notin Stored(w) \/ i \in o

Removals ==
    /\ \A i \in removed : Gone(i, store, overlapped)
    /\ \A h \in Handlers : handler[h].pc \in Taking => Gone(handler[h].id, store, overlapped)

\* A handler alone writes over what it read, and answers what it stored.
Undisturbed ==
    Alone =>
      /\ overlapped = {}
      /\ \A h \in Handlers :
           /\ handler[h].pc \in Writing => handler[h].saw = store
           /\ handler[h].pc \in Telling => unconfirmed[handler[h].id] = handler[h].pw

Lasting == Traceless /\ Removals /\ Undisturbed /\ OpensWithAgreedPassword

LEMMA InitLasting == Init => Lasting
<1> SUFFICES ASSUME Init PROVE Lasting
  OBVIOUS
<1>1. PICK S \in SUBSET (1..MAX_WALLETS) :
        /\ \A i \in Ids : owner[i] = NoSeed <=> i \notin S
        /\ \E old \in [S -> [pw: Passwords, listed: BOOLEAN, tron: BOOLEAN]] :
              store = [i \in Ids |->
                         IF i \in S THEN [seed |-> owner[i], pw |-> old[i].pw,
                              accounts |-> IF old[i].listed THEN Primary(owner[i]) ELSE {},
                              tron |-> old[i].tron /\ old[i].listed]
                         ELSE NoRecord]
        /\ agreed = [i \in Ids |-> IF i \in S THEN store[i].pw ELSE NoPassword]
  BY DEF Init
<1>2. Stored(store) \subseteq S
  BY <1>1 DEF Stored
<1>3. /\ handler = [h \in Handlers |-> Idle] /\ removed = {} /\ overlapped = {}
      /\ unconfirmed = [i \in Ids |-> NoPassword]
  BY DEF Init
<1>4. Idle.pc = "idle" /\ Stored(Idle.saw) = {}
  BY DEF Idle, Stored, Empty
<1>5. Traceless
  BY <1>1, <1>2, <1>3, <1>4 DEF Traceless, Untraced, Claiming, Taking
<1>6. Removals /\ Undisturbed
  BY <1>3, <1>4 DEF Removals, Undisturbed, Taking, Writing, Telling
<1>7. OpensWithAgreedPassword
  BY <1>1, <1>2, <1>3 DEF OpensWithAgreedPassword, Stored
<1> QED BY <1>5, <1>6, <1>7 DEF Lasting

\* Handler h goes on with job j, which has read nothing else than storage and
\* takes up no id that neither h nor its snapshot spoke of.
Follows(h, j) ==
    /\ Goes(h, j)
    /\ Stored(j.saw) \subseteq Stored(store) \cup Stored(handler[h].saw)
    /\ j.pc # "addWrite"
    /\ j.pc \in Taking => \/ handler[h].pc \in Taking /\ j.id = handler[h].id
                          \/ j.id \in Stored(handler[h].saw)

LEMMA HandlerAfter ==
  ASSUME Typed, NEW h \in Handlers, NEW j, Goes(h, j)
  PROVE  \A g \in Handlers : handler'[g] = IF g = h THEN j ELSE handler[g]
BY DEF Goes, Typed, TypeOK

LEMMA UntracedFollows ==
  ASSUME Typed, NEW h \in Handlers, NEW j, Follows(h, j),
         NEW i \in Ids, NEW S \in SUBSET Handlers, h \in S,
         Untraced(i, S, store, removed, handler),
         removed' \subseteq removed \cup (IF handler[h].pc \in Taking THEN {handler[h].id} ELSE {}),
         Stored(store') \subseteq Stored(store) \cup Stored(handler[h].saw)
                           \cup (IF handler[h].pc = "addWrite" THEN {handler[h].id} ELSE {})
  PROVE  Untraced(i, S, store', removed', handler')
<1>1. \A g \in Handlers : handler'[g] = IF g = h THEN j ELSE handler[g]
  BY HandlerAfter DEF Follows
<1>2. i \notin Stored(store) /\ i \notin Stored(handler[h].saw) /\ i \notin removed
  BY DEF Untraced
<1>3. handler[h].pc \in Claiming => handler[h].id # i
  BY DEF Untraced
<1>4. i \notin Stored(store')
  BY <1>2, <1>3 DEF Claiming
<1>5. i \notin removed'
  BY <1>2, <1>3 DEF Claiming
<1>6. \A g \in Handlers : i \notin Stored(handler'[g].saw)
  BY <1>1, <1>2 DEF Untraced, Follows
<1>7. j.pc \in Claiming => j.id # i
  BY <1>2, <1>3 DEF Follows, Claiming
<1>8. \A g \in S : handler'[g].pc \in Claiming => handler'[g].id # i
  BY <1>1, <1>7 DEF Untraced
<1> QED BY <1>4, <1>5, <1>6, <1>8 DEF Untraced

LEMMA TracelessFollows ==
  ASSUME Typed, Traceless, NEW h \in Handlers, NEW j, Follows(h, j), owner' = owner,
         removed' \subseteq removed \cup (IF handler[h].pc \in Taking THEN {handler[h].id} ELSE {}),
         Stored(store') \subseteq Stored(store) \cup Stored(handler[h].saw)
                           \cup (IF handler[h].pc = "addWrite" THEN {handler[h].id} ELSE {})
  PROVE  Traceless'
<1>1. \A g \in Handlers : handler'[g] = IF g = h THEN j ELSE handler[g]
  BY HandlerAfter DEF Follows
<1>2. ASSUME NEW i \in Ids, owner[i] = NoSeed
      PROVE  Untraced(i, Handlers, store', removed', handler')
  <2>1. Untraced(i, Handlers, store, removed, handler)
    BY <1>2 DEF Traceless
  <2> QED BY <2>1, UntracedFollows
<1>3. ASSUME NEW g \in Handlers, handler'[g].pc = "addWrite"
      PROVE  Untraced(handler'[g].id, Handlers \ {g}, store', removed', handler')
  <2>1. g # h /\ handler'[g] = handler[g]
    BY <1>1, <1>3 DEF Follows
  <2>2. handler[g].id \in Ids
        /\ Untraced(handler[g].id, Handlers \ {g}, store, removed, handler)
    BY <1>3, <2>1, JobTyped DEF Traceless, Ready
  <2>3. Handlers \ {g} \in SUBSET Handlers /\ h \in Handlers \ {g}
    BY <2>1
  <2>4. Untraced(handler[g].id, Handlers \ {g}, store', removed', handler')
    BY <2>2, <2>3, UntracedFollows
  <2> QED BY <2>1, <2>4
<1> QED BY <1>2, <1>3 DEF Traceless

LEMMA AddReadsTraceless ==
  ASSUME Typed, Traceless, NEW h \in Handlers, NEW j, Goes(h, j), AddReads(h),
         j.pc = "addWrite", j.saw = store, j.id = First(Unused),
         owner' = [owner EXCEPT ![First(Unused)] = handler[h].seed]
  PROVE  Traceless'
<1> DEFINE id == First(Unused)
<1>1. \A g \in Handlers : handler'[g] = IF g = h THEN j ELSE handler[g]
  BY HandlerAfter
<1>2. id \in Ids /\ owner[id] = NoSeed
  BY FirstMember DEF AddReads, Unused
<1>3. handler[h].seed \in Seeds /\ owner \in [Ids -> Seeds \cup {NoSeed}]
  BY JobTyped DEF AddReads, Waits, Ready, Typed, TypeOK
<1>4. \A i \in Ids : owner'[i] = IF i = id THEN handler[h].seed ELSE owner[i]
  BY <1>3
<1>5. store' = store /\ removed' = removed
  BY DEF AddReads
<1>6. j.id = id
  OBVIOUS
<1> HIDE DEF id
<1>7. Untraced(id, Handlers, store, removed, handler)
  BY <1>2 DEF Traceless
<1>8. ASSUME NEW i \in Ids, owner'[i] = NoSeed
      PROVE  Untraced(i, Handlers, store', removed', handler')
  <2>1. i # id /\ owner[i] = NoSeed
    BY <1>3, <1>4, <1>8, VaultAssumption
  <2>2. Untraced(i, Handlers, store, removed, handler)
    BY <2>1 DEF Traceless
  <2> QED BY <1>1, <1>5, <1>6, <2>1, <2>2 DEF Untraced
<1>9. ASSUME NEW g \in Handlers, handler'[g].pc = "addWrite"
      PROVE  Untraced(handler'[g].id, Handlers \ {g}, store', removed', handler')
  <2>1. CASE g = h
    BY <1>1, <1>5, <1>6, <1>7, <2>1 DEF Untraced
  <2>2. CASE g # h
    <3>1. handler'[g] = handler[g] /\ handler[g].pc = "addWrite"
      BY <1>1, <1>9, <2>2
    <3>2. Untraced(handler[g].id, Handlers \ {g}, store, removed, handler)
      BY <3>1 DEF Traceless
    <3>3. handler[g].id # id
      BY <1>7, <3>1 DEF Untraced, Claiming
    <3> QED BY <1>1, <1>5, <1>6, <3>1, <3>2, <3>3 DEF Untraced
  <2> QED BY <2>1, <2>2
<1> QED BY <1>8, <1>9 DEF Traceless

\* Steps that leave storage and history alone, and take up no id, no stale
\* snapshot and no password.
Light(h, j) ==
    /\ Follows(h, j)
    /\ j.pc \in Taking => handler[h].pc \in Taking /\ j.id = handler[h].id
    /\ j.pc \in Writing => j.saw = store
    /\ j.pc \in Telling => /\ handler[h].pc \in Telling
                           /\ j.id = handler[h].id /\ j.pw = handler[h].pw

Calm(h) == \E j : Light(h, j)

LEMMA CalmLasting ==
  ASSUME Typed, Lasting, NEW h \in Handlers, Calm(h),
         store' = store, owner' = owner, UNCHANGED history
  PROVE  Lasting'
<1>1. PICK j : Light(h, j)
  BY DEF Calm
<1>2. \A g \in Handlers : handler'[g] = IF g = h THEN j ELSE handler[g]
  BY <1>1, HandlerAfter DEF Light, Follows
<1>3. Traceless'
  BY <1>1, TracelessFollows DEF Light, Lasting
<1>4. \A g \in Handlers : handler'[g].pc \in Taking
                            => handler[g].pc \in Taking /\ handler'[g].id = handler[g].id
  BY <1>1, <1>2 DEF Light
<1>5. Removals'
  BY <1>4 DEF Lasting, Removals
<1>6. Undisturbed'
  BY <1>1, <1>2 DEF Lasting, Undisturbed, Light, Alone
<1>7. OpensWithAgreedPassword'
  BY DEF Lasting, OpensWithAgreedPassword
<1> QED BY <1>3, <1>5, <1>6, <1>7 DEF Lasting

LEMMA FinalCalm ==
  ASSUME NEW h \in Handlers, Ends(h) \/ AnswersWithList(h)
  PROVE  Calm(h)
<1> DEFINE list == [Idle EXCEPT !.op = "list", !.pc = "wallets"]
<1>1. Idle.pc = "idle" /\ list.pc = "wallets" /\ Stored(Idle.saw) = {} /\ Stored(list.saw) = {}
  BY DEF Idle, Stored, Empty
<1>2. Goes(h, Idle) \/ Goes(h, list)
  BY DEF Ends, AnswersWithList
<1> HIDE DEF list
<1> QED BY <1>1, <1>2 DEF Calm, Light, Follows, Taking, Writing, Telling

\* A job of a harmless stage that carries the old snapshot, a new one or none.
LEMMA PlainCalm ==
  ASSUME NEW h \in Handlers, NEW j, Goes(h, j),
         j.pc \notin Claiming \cup Telling,
         j.pc \in Writing => j.saw = store,
         Stored(j.saw) \subseteq Stored(store) \cup Stored(handler[h].saw)
  PROVE  Calm(h)
BY DEF Calm, Light, Follows, Claiming

LEMMA ProceedsCalm ==
  ASSUME Typed, NEW h \in Handlers, NEW pc, Proceeds(h, pc), pc \notin Writing,
         pc \in Taking => handler[h].pc \in Taking,
         pc \in Telling => handler[h].pc \in Telling
  PROVE  Calm(h)
<1> DEFINE j == [handler[h] EXCEPT !.pc = pc]
<1>1. j.pc = pc /\ j.saw = handler[h].saw /\ j.id = handler[h].id /\ j.pw = handler[h].pw
  BY JobTyped DEF Jobs
<1>2. Goes(h, j)
  BY DEF Proceeds
<1> HIDE DEF j
<1> QED BY <1>1, <1>2 DEF Calm, Light, Follows, Writing

LEMMA KnowsCalm ==
  ASSUME Typed, NEW h \in Handlers, NEW id, KnowsActive(h, id)
  PROVE  Calm(h)
<1> DEFINE j1 == [handler[h] EXCEPT !.pc = "removeRead", !.among = {}, !.next = NoId,
                                    !.wasActive = (id = handler[h].id)]
           j2 == [handler[h] EXCEPT !.pc = "record", !.among = {}, !.next = NoId, !.id = id]
<1>1. j1.pc = "removeRead" /\ j2.pc = "record"
      /\ j1.saw = handler[h].saw /\ j2.saw = handler[h].saw
  BY JobTyped DEF Jobs
<1>2. Ends(h) \/ Goes(h, j1) \/ Goes(h, j2)
  BY DEF KnowsActive
<1> HIDE DEF j1, j2
<1> QED BY <1>1, <1>2, FinalCalm, PlainCalm DEF Claiming, Taking, Telling, Writing

LEMMA ArrivalLasting ==
  ASSUME Typed, Lasting, NEW h \in Handlers, MessageArrives(h)
  PROVE  Lasting'
<1>0. Stored(Empty) = {}
  BY DEF Stored, Empty
<1>1. ASSUME NEW seed \in Seeds, NEW pw \in Passwords, CreateBegins(h, seed, pw)
      PROVE  Lasting'
  <2> DEFINE j == [Idle EXCEPT !.op = "create", !.pc = "wasm", !.seed = seed, !.pw = pw]
  <2>1. j.pc = "wasm" /\ j.saw = Empty /\ Goes(h, j) /\ UNCHANGED <<store, owner, history>>
    BY <1>1 DEF CreateBegins, Idle
  <2> HIDE DEF j
  <2>2. Calm(h)
    BY <1>0, <2>1, PlainCalm DEF Claiming, Taking, Telling, Writing
  <2> QED BY <2>1, <2>2, CalmLasting
<1>2. ASSUME NEW op, NEW id, NEW seed, NEW pw, AskActive(h, op, id, seed, pw)
      PROVE  Lasting'
  <2> DEFINE j == [Idle EXCEPT !.op = op, !.pc = "wallets", !.id = id, !.seed = seed, !.pw = pw]
  <2>1. j.pc = "wallets" /\ j.saw = Empty /\ Goes(h, j) /\ UNCHANGED <<store, owner, history>>
    BY <1>2 DEF AskActive, Idle
  <2> HIDE DEF j
  <2>2. Calm(h)
    BY <1>0, <2>1, PlainCalm DEF Claiming, Taking, Telling, Writing
  <2> QED BY <2>1, <2>2, CalmLasting
<1>3. ASSUME NEW index \in Indices, DeriveBegins(h, index)
      PROVE  Lasting'
  <2> DEFINE accounts == {a \in session.accounts : a.index # index}
                         \cup {[index |-> index, of |-> session.seed]}
             j == [Idle EXCEPT !.op = "derive", !.pc = "updateRead", !.id = session.wallet,
                               !.seed = session.seed, !.accounts = accounts]
  <2>1. Goes(h, j) /\ UNCHANGED <<store, owner, history>>
    BY <1>3 DEF DeriveBegins
  <2> HIDE DEF accounts
  <2>2. j.pc = "updateRead" /\ j.saw = Empty
    BY DEF Idle
  <2> HIDE DEF j
  <2>3. Calm(h)
    BY <1>0, <2>1, <2>2, PlainCalm DEF Claiming, Taking, Telling, Writing
  <2> QED BY <2>1, <2>3, CalmLasting
<1>4. ASSUME NEW id \in Ids, SwitchReads(h, id)
      PROVE  Lasting'
  <2> DEFINE j == [Idle EXCEPT !.op = "switch", !.pc = "setActive", !.id = id]
  <2>1. j.pc = "setActive" /\ j.saw = Empty /\ Goes(h, j) /\ UNCHANGED <<store, owner, history>>
    BY <1>4 DEF SwitchReads, Idle
  <2> HIDE DEF j
  <2>2. Calm(h)
    BY <1>0, <2>1, PlainCalm DEF Claiming, Taking, Telling, Writing
  <2> QED BY <2>1, <2>2, CalmLasting
<1>5. ASSUME NEW id \in Ids, RenameReads(h, id)
      PROVE  Lasting'
  <2> DEFINE j == [Idle EXCEPT !.op = "rename", !.pc = "renameWrite", !.id = id, !.saw = store]
  <2>1. j.pc = "renameWrite" /\ j.saw = store /\ Goes(h, j) /\ UNCHANGED <<store, owner, history>>
    BY <1>5 DEF RenameReads, Idle
  <2> HIDE DEF j
  <2>2. Calm(h)
    BY <2>1, PlainCalm DEF Claiming, Taking, Telling, Writing
  <2> QED BY <2>1, <2>2, CalmLasting
<1> QED BY <1>1, <1>2, <1>3, <1>4, <1>5 DEF MessageArrives

LEMMA SearchLasting ==
  ASSUME Typed, Lasting, NEW h \in Handlers,
         ReadsWallets(h) \/ ReadsActive(h) \/ Heals(h) \/ ReadsRecord(h)
  PROVE  Lasting'
<1>1. UNCHANGED <<store, owner, history>>
  BY DEF ReadsWallets, ReadsActive, Heals, ReadsRecord
<1> DEFINE found == [Empty EXCEPT ![handler[h].id] = store[handler[h].id]]
           j1 == [handler[h] EXCEPT !.pc = "activeId", !.among = Stored(store)]
           j2 == [handler[h] EXCEPT !.pc = "heal", !.next = First(handler[h].among)]
           j3 == [handler[h] EXCEPT !.pc = "opened", !.saw = found]
<1>2. /\ j1.pc = "activeId" /\ j2.pc = "heal" /\ j3.pc = "opened"
      /\ j1.saw = handler[h].saw /\ j2.saw = handler[h].saw /\ j3.saw = found
  BY JobTyped DEF Jobs
<1>3. \/ \E id : KnowsActive(h, id)
      \/ Ends(h) \/ Goes(h, j1) \/ Goes(h, j2) \/ Goes(h, j3)
  BY DEF ReadsWallets, ReadsActive, Heals, ReadsRecord
<1>4. Stored(found) \subseteq Stored(store)
  BY DEF Stored, Empty
<1> HIDE DEF found, j1, j2, j3
<1>5. Calm(h)
  BY <1>2, <1>3, <1>4, KnowsCalm, FinalCalm, PlainCalm DEF Claiming, Taking, Telling, Writing
<1> QED BY <1>1, <1>5, CalmLasting

LEMMA OpeningLasting ==
  ASSUME Typed, Lasting, NEW h \in Handlers,
         \/ CreateEncrypts(h) \/ AddActivates(h) \/ Unlocks(h) \/ UnlockUpdates(h)
         \/ NotOpened(h) \/ RestoreProves(h) \/ RestoreRefused(h) \/ UpdateOpens(h)
         \/ SwitchWrites(h) \/ SwitchLocks(h) \/ RemoveReadsActive(h) \/ RemoveActivates(h)
  PROVE  Lasting'
<1>1. UNCHANGED <<store, owner, history>>
  BY DEF CreateEncrypts, AddActivates, Unlocks, UnlockUpdates, NotOpened, RestoreProves,
         RestoreRefused, UpdateOpens, SwitchWrites, SwitchLocks, RemoveReadsActive,
         RemoveActivates
<1> DEFINE rec == Found(h)
           accounts == AccountsOf(rec)
           j1 == [Idle EXCEPT !.op = "unlock", !.pc = "updateRead", !.id = handler[h].id,
                              !.seed = rec.seed, !.accounts = accounts]
           j2 == [handler[h] EXCEPT !.pc = "replaceRead", !.saw = Empty]
<1>2. j2.pc = "replaceRead" /\ j2.saw = Empty
  BY JobTyped DEF Jobs
<1>3. \/ Ends(h) \/ AnswersWithList(h) \/ Goes(h, j1) \/ Goes(h, j2)
      \/ Proceeds(h, "addRead") \/ Proceeds(h, "switched")
      \/ Proceeds(h, "added") /\ handler[h].pc = "addActive"
      \/ (Proceeds(h, "removeActive") \/ Proceeds(h, "removed")) /\ handler[h].pc \in Taking
  BY DEF CreateEncrypts, AddActivates, Unlocks, UnlockUpdates, NotOpened, RestoreProves,
         RestoreRefused, UpdateOpens, SwitchWrites, SwitchLocks, RemoveReadsActive,
         RemoveActivates, Waits, Taking
<1> HIDE DEF rec, accounts, j2
<1>4. j1.pc = "updateRead" /\ j1.saw = Empty
  BY DEF Idle
<1> HIDE DEF j1
<1>5. Stored(Empty) = {}
  BY DEF Stored, Empty
<1>6. CASE Ends(h) \/ AnswersWithList(h) \/ Goes(h, j1) \/ Goes(h, j2)
  BY <1>1, <1>2, <1>4, <1>5, <1>6, FinalCalm, PlainCalm, CalmLasting
  DEF Claiming, Taking, Telling, Writing
<1>7. CASE Proceeds(h, "addRead") \/ Proceeds(h, "switched")
  BY <1>1, <1>7, ProceedsCalm, CalmLasting DEF Taking, Telling, Writing
<1>8. CASE Proceeds(h, "added") /\ handler[h].pc = "addActive"
  BY <1>1, <1>8, ProceedsCalm, CalmLasting DEF Taking, Telling, Writing
<1>9. CASE (Proceeds(h, "removeActive") \/ Proceeds(h, "removed")) /\ handler[h].pc \in Taking
  BY <1>1, <1>9, ProceedsCalm, CalmLasting DEF Telling, Writing
<1> QED BY <1>3, <1>6, <1>7, <1>8, <1>9

LEMMA ReadsLasting ==
  ASSUME Typed, Lasting, NEW h \in Handlers,
         \/ ReplaceReads(h) \/ UpdateReads(h) \/ RemoveReads(h)
  PROVE  Lasting'
<1>1. UNCHANGED <<store, owner, history>>
  BY DEF ReplaceReads, UpdateReads, RemoveReads
<1>2. \/ \E pc \in Writing \ {"addWrite"} : Goes(h, [handler[h] EXCEPT !.pc = pc, !.saw = store])
      \/ Ends(h)
  BY DEF ReplaceReads, UpdateReads, RemoveReads, Writing
<1>3. ASSUME NEW pc \in Writing \ {"addWrite"},
             Goes(h, [handler[h] EXCEPT !.pc = pc, !.saw = store])
      PROVE  Calm(h)
  <2> DEFINE j == [handler[h] EXCEPT !.pc = pc, !.saw = store]
  <2>1. j.pc = pc /\ j.saw = store /\ Goes(h, j)
    BY <1>3, JobTyped DEF Jobs
  <2> HIDE DEF j
  <2> QED BY <2>1, PlainCalm DEF Claiming, Taking, Telling, Writing
<1> QED BY <1>1, <1>2, <1>3, FinalCalm, CalmLasting

LEMMA AddReadsLasting ==
  ASSUME Typed, Lasting, NEW h \in Handlers, AddReads(h)
  PROVE  Lasting'
<1> DEFINE j == [handler[h] EXCEPT !.pc = "addWrite", !.id = First(Unused), !.saw = store]
<1>1. UNCHANGED <<store, history>>
  BY DEF AddReads
<1>2. CASE HasRoom(Stored(store))
  <2>1. Goes(h, j) /\ owner' = [owner EXCEPT ![First(Unused)] = handler[h].seed]
    BY <1>2 DEF AddReads
  <2>2. j.pc = "addWrite" /\ j.saw = store /\ j.id = First(Unused)
    BY JobTyped DEF Jobs
  <2> HIDE DEF j
  <2>3. \A g \in Handlers : handler'[g] = IF g = h THEN j ELSE handler[g]
    BY <2>1, HandlerAfter
  <2>4. Traceless'
    BY <2>1, <2>2, AddReadsTraceless DEF Lasting
  <2>5. \A g \in Handlers : handler'[g].pc \in Taking => handler'[g] = handler[g]
    BY <2>2, <2>3 DEF Taking
  <2>6. Removals'
    BY <1>1, <2>5 DEF Lasting, Removals
  <2>7. Undisturbed'
    BY <1>1, <2>2, <2>3 DEF Lasting, Undisturbed, Alone, Telling
  <2>8. OpensWithAgreedPassword'
    BY <1>1 DEF Lasting, OpensWithAgreedPassword
  <2> QED BY <2>4, <2>6, <2>7, <2>8 DEF Lasting
<1>3. CASE ~HasRoom(Stored(store))
  BY <1>1, <1>3, FinalCalm, CalmLasting DEF AddReads
<1> QED BY <1>2, <1>3

\* The answer about a password, and the removal that is done.
LEMMA ConfirmsLasting ==
  ASSUME Typed, Lasting, NEW h \in Handlers, AddOpens(h) \/ ReplaceConfirms(h)
  PROVE  Lasting'
<1> DEFINE id == handler[h].id
           pw == handler[h].pw
<1>1. /\ handler[h].pc \in Telling /\ id \in Ids /\ pw \in Passwords
      /\ store' = store /\ owner' = owner /\ Confirms(h)
  BY JobTyped DEF AddOpens, ReplaceConfirms, Waits, Telling, Ready
<1>2. /\ agreed \in [Ids -> Passwords \cup {NoPassword}]
      /\ unconfirmed \in [Ids -> Passwords \cup {NoPassword}]
  BY DEF Typed, TypeOK
<1>3. agreed' = [agreed EXCEPT ![id] = pw] /\ removed' = removed /\ Ends(h)
  BY <1>1 DEF Confirms
<1>4. \/ /\ unconfirmed[id] = pw
         /\ unconfirmed' = [unconfirmed EXCEPT ![id] = NoPassword]
         /\ overlapped' = overlapped
      \/ /\ unconfirmed[id] # pw
         /\ overlapped' = overlapped \cup {id}
         /\ unconfirmed' = unconfirmed
  BY <1>1 DEF Confirms
<1>5. PICK j : Light(h, j) /\ j = Idle
  <2>1. Idle.pc = "idle" /\ Stored(Idle.saw) = {}
    BY DEF Idle, Stored, Empty
  <2> QED BY <1>3, <2>1 DEF Ends, Light, Follows, Taking, Writing, Telling
<1>6. \A g \in Handlers : handler'[g] = IF g = h THEN Idle ELSE handler[g]
  BY <1>5, HandlerAfter DEF Light, Follows
<1> HIDE DEF id, pw
<1>7. Traceless'
  BY <1>1, <1>3, <1>5, TracelessFollows DEF Lasting, Light
<1>8. overlapped \subseteq overlapped'
  BY <1>4
<1>9. Removals'
  <2>1. Idle.pc \notin Taking
    BY DEF Idle, Taking
  <2> QED BY <1>1, <1>3, <1>6, <1>8, <2>1 DEF Lasting, Removals, Gone
<1>10. Undisturbed'
  <2> SUFFICES ASSUME Alone
               PROVE  /\ overlapped' = {}
                      /\ \A g \in Handlers : handler'[g] = Idle
    BY DEF Undisturbed, Alone, Idle, Writing, Telling
  <2>1. \A g \in Handlers : g = h
    BY DEF Alone
  <2>2. overlapped = {} /\ unconfirmed[id] = pw
    BY <1>1 DEF Lasting, Undisturbed, id, pw
  <2> QED BY <1>4, <1>6, <2>1, <2>2
<1>11. ASSUME NEW i \in Stored(store) \ overlapped'
       PROVE  store[i].pw = IF unconfirmed'[i] # NoPassword THEN unconfirmed'[i] ELSE agreed'[i]
  <2>1. i \in Ids /\ i \notin overlapped
    BY <1>8 DEF Stored
  <2>2. store[i].pw = IF unconfirmed[i] # NoPassword THEN unconfirmed[i] ELSE agreed[i]
    BY <2>1 DEF Lasting, OpensWithAgreedPassword
  <2>3. CASE i = id
    <3>1. unconfirmed[i] = pw /\ pw # NoPassword
      BY <1>1, <1>4, <1>11, <2>3, VaultAssumption
    <3>2. unconfirmed'[i] = NoPassword /\ agreed'[i] = pw
      BY <1>2, <1>3, <1>4, <2>1, <2>3, <3>1
    <3> QED BY <2>2, <3>1, <3>2
  <2>4. CASE i # id
    <3>1. unconfirmed'[i] = unconfirmed[i] /\ agreed'[i] = agreed[i]
      BY <1>2, <1>3, <1>4, <2>1, <2>4
    <3> QED BY <2>2, <3>1
  <2> QED BY <2>3, <2>4
<1>12. OpensWithAgreedPassword'
  BY <1>1, <1>11 DEF OpensWithAgreedPassword
<1> QED BY <1>7, <1>9, <1>10, <1>12 DEF Lasting

LEMMA RemoveConfirmsLasting ==
  ASSUME Typed, Lasting, NEW h \in Handlers, RemoveConfirms(h)
  PROVE  Lasting'
<1> DEFINE list == [Idle EXCEPT !.op = "list", !.pc = "wallets"]
<1>1. /\ handler[h].pc = "removed" /\ removed' = removed \cup {handler[h].id}
      /\ UNCHANGED <<store, owner, agreed, unconfirmed, overlapped>>
      /\ Goes(h, list)
  BY DEF RemoveConfirms, Waits, AnswersWithList
<1>2. list.pc = "wallets" /\ Stored(list.saw) = {}
  BY DEF Idle, Stored, Empty
<1> HIDE DEF list
<1>3. \A g \in Handlers : handler'[g] = IF g = h THEN list ELSE handler[g]
  BY <1>1, HandlerAfter
<1>4. Follows(h, list)
  BY <1>1, <1>2 DEF Follows, Taking
<1>5. Traceless'
  BY <1>1, <1>4, TracelessFollows DEF Lasting, Taking
<1>6. Gone(handler[h].id, store, overlapped)
  BY <1>1 DEF Lasting, Removals, Taking
<1>7. Removals'
  BY <1>1, <1>2, <1>3, <1>6 DEF Lasting, Removals, Taking
<1>8. Undisturbed'
  BY <1>1, <1>2, <1>3 DEF Lasting, Undisturbed, Alone, Writing, Telling
<1>9. OpensWithAgreedPassword'
  BY <1>1 DEF Lasting, OpensWithAgreedPassword
<1> QED BY <1>5, <1>7, <1>8, <1>9 DEF Lasting

-----------------------------------------------------------------------------
(* The array writes.  What another handler stored or removed since the     *)
(* array was read counts as overwritten from here on.                      *)

\* What a write stores at id i is what was read there, or a new ciphertext
\* whose password waits for its confirmation.
Restores(h, i) ==
    /\ i \in Stored(handler[h].saw)
    /\ store'[i].pw = handler[h].saw[i].pw
    /\ unconfirmed'[i] = unconfirmed[i] /\ agreed'[i] = agreed[i]

Renews(i) == unconfirmed'[i] = store'[i].pw /\ unconfirmed'[i] # NoPassword

LEMMA WritesLasting ==
  ASSUME Typed, Lasting, NEW h \in Handlers, NEW j, Follows(h, j), WritesOver(h),
         handler[h].pc \in Writing, j.pc \notin Writing,
         owner' = owner, removed' = removed,
         \A i \in Stored(store') : Restores(h, i) \/ Renews(i),
         Stored(store') \subseteq Stored(handler[h].saw)
                           \cup (IF handler[h].pc = "addWrite" THEN {handler[h].id} ELSE {}),
         j.pc \in Taking => j.id \notin Stored(store'),
         j.pc \in Telling => unconfirmed'[j.id] = j.pw
  PROVE  Lasting'
<1> DEFINE job == handler[h]
<1>1. \A g \in Handlers : handler'[g] = IF g = h THEN j ELSE handler[g]
  BY HandlerAfter DEF Follows
<1>2. overlapped' = overlapped \cup {i \in Ids : job.saw[i] # store[i]}
  BY DEF WritesOver
<1>3. handler[h].pc \notin Taking
  BY DEF Writing, Taking
<1>4. Traceless'
  BY <1>3, TracelessFollows DEF Lasting
<1>5. ASSUME NEW i, Gone(i, store, overlapped), i \in Ids,
             handler[h].pc = "addWrite" => handler[h].id # i
      PROVE  Gone(i, store', overlapped')
  <2>1. CASE i \in overlapped
    BY <1>2, <2>1 DEF Gone
  <2>2. CASE i \notin overlapped /\ job.saw[i] # store[i]
    BY <1>2, <1>5, <2>2 DEF Gone
  <2>3. CASE i \notin overlapped /\ job.saw[i] = store[i]
    <3>1. i \notin Stored(job.saw)
      BY <1>5, <2>3 DEF Gone, Stored
    <3> QED BY <1>5, <3>1 DEF Gone
  <2> QED BY <2>1, <2>2, <2>3
<1>6. handler[h].pc = "addWrite"
        => /\ handler[h].id \notin removed
           /\ \A g \in Handlers : g # h /\ handler[g].pc \in Taking => handler[g].id # handler[h].id
  BY DEF Lasting, Traceless, Untraced, Claiming
<1>7. removed \subseteq Ids
  BY DEF Typed, TypeOK
<1>8. \A g \in Handlers : handler[g].pc \in Taking => handler[g].id \in Ids
  BY JobTyped DEF Ready, Taking
<1>9. Removals'
  <2>1. ASSUME NEW i \in removed' PROVE Gone(i, store', overlapped')
    <3>1. i \in removed /\ i \in Ids /\ Gone(i, store, overlapped)
      BY <1>7 DEF Lasting, Removals
    <3> QED BY <1>5, <1>6, <3>1
  <2>2. ASSUME NEW g \in Handlers, handler'[g].pc \in Taking
        PROVE  Gone(handler'[g].id, store', overlapped')
    <3>1. CASE g = h
      BY <1>1, <2>2, <3>1 DEF Gone
    <3>2. CASE g # h
      <4>1. handler'[g] = handler[g]
        BY <1>1, <3>2
      <4>2. Gone(handler[g].id, store, overlapped) /\ handler[g].id \in Ids
        BY <1>8, <2>2, <4>1 DEF Lasting, Removals
      <4> QED BY <1>5, <1>6, <2>2, <3>2, <4>1, <4>2
    <3> QED BY <3>1, <3>2
  <2> QED BY <2>1, <2>2 DEF Removals
<1>10. Undisturbed'
  <2> SUFFICES ASSUME Alone
               PROVE  /\ overlapped' = {}
                      /\ \A g \in Handlers : g = h
    BY <1>1 DEF Undisturbed, Alone
  <2>1. \A g \in Handlers : g = h
    BY DEF Alone
  <2>2. overlapped = {} /\ job.saw = store
    BY DEF Lasting, Undisturbed
  <2> QED BY <1>2, <2>1, <2>2
<1>11. ASSUME NEW i \in Stored(store') \ overlapped'
       PROVE  store'[i].pw = IF unconfirmed'[i] # NoPassword THEN unconfirmed'[i] ELSE agreed'[i]
  <2>1. i \in Ids /\ i \notin overlapped /\ job.saw[i] = store[i]
    BY <1>2 DEF Stored
  <2>2. CASE Restores(h, i)
    <3>1. i \in Stored(store) /\ store'[i].pw = store[i].pw
      BY <2>1, <2>2 DEF Restores, Stored
    <3>2. store[i].pw = IF unconfirmed[i] # NoPassword THEN unconfirmed[i] ELSE agreed[i]
      BY <2>1, <3>1 DEF Lasting, OpensWithAgreedPassword
    <3> QED BY <2>2, <3>1, <3>2 DEF Restores
  <2>3. CASE Renews(i)
    BY <2>3 DEF Renews
  <2> QED BY <2>2, <2>3
<1>12. OpensWithAgreedPassword'
  BY <1>11 DEF OpensWithAgreedPassword
<1> QED BY <1>4, <1>9, <1>10, <1>12 DEF Lasting

\* A new record, or a new ciphertext in an old one.
LEMMA StoresLasting ==
  ASSUME Typed, Lasting, NEW h \in Handlers, AddWrites(h) \/ ReplaceWrites(h)
  PROVE  Lasting'
<1> DEFINE job == handler[h]
           rec == IF job.pc = "addWrite" THEN NewRecord(job) ELSE Replaced(job)
           accounts == AccountsOf(Replaced(job))
           j1 == [job EXCEPT !.pc = "addActive", !.saw = Empty]
           j2 == [job EXCEPT !.pc = "replaced", !.saw = Empty, !.accounts = accounts]
<1>1. job \in Jobs /\ job.saw \in Stores /\ job.id \in Ids /\ job.pw \in Passwords
      /\ job.pc \in {"addWrite", "replaceWrite"}
      /\ (job.pc = "replaceWrite" => job.id \in Stored(job.saw))
  BY JobTyped DEF AddWrites, ReplaceWrites, Waits, Ready, Jobs, Stored
<1>2. /\ store' = With(job.saw, job.id, rec) /\ StoresPassword(h) /\ owner' = owner
      /\ Goes(h, j1) \/ Goes(h, j2)
  BY DEF AddWrites, ReplaceWrites, Waits
<1>3. rec.pw = job.pw
  BY <1>1 DEF NewRecord, Replaced, Stored, Stores, Records
<1>4. /\ j1.pc = "addActive" /\ j1.saw = Empty /\ j1.id = job.id /\ j1.pw = job.pw
      /\ j2.pc = "replaced" /\ j2.saw = Empty /\ j2.id = job.id /\ j2.pw = job.pw
  BY <1>1 DEF Jobs
<1> HIDE DEF rec, accounts, j1, j2
<1>5. PICK j : Goes(h, j) /\ j.pc \in {"addActive", "replaced"} /\ j.saw = Empty
               /\ j.id = job.id /\ j.pw = job.pw
  BY <1>2, <1>4
<1>6. Stored(Empty) = {}
  BY DEF Stored, Empty
<1>7. Follows(h, j)
  BY <1>5, <1>6 DEF Follows, Taking
<1>8. /\ unconfirmed' = [unconfirmed EXCEPT ![job.id] = job.pw]
      /\ agreed' = agreed /\ removed' = removed /\ WritesOver(h)
  BY <1>2 DEF StoresPassword
<1>9. unconfirmed \in [Ids -> Passwords \cup {NoPassword}]
  BY DEF Typed, TypeOK
<1>10. \A i \in Ids : store'[i] = IF i = job.id THEN rec ELSE job.saw[i]
  BY <1>1, <1>2 DEF With, Stores
<1>11. ASSUME NEW i \in Stored(store') PROVE Restores(h, i) \/ Renews(i)
  <2>1. i \in Ids
    BY DEF Stored
  <2>2. CASE i = job.id
    BY <1>1, <1>3, <1>8, <1>9, <1>10, <2>1, <2>2, VaultAssumption DEF Renews
  <2>3. CASE i # job.id
    <3>1. store'[i] = job.saw[i] /\ i \in Stored(job.saw)
      BY <1>10, <2>1, <2>3 DEF Stored
    <3>2. unconfirmed'[i] = unconfirmed[i]
      BY <1>8, <1>9, <2>1, <2>3
    <3> QED BY <1>8, <3>1, <3>2 DEF Restores
  <2> QED BY <2>2, <2>3
<1>12. Stored(store') \subseteq Stored(job.saw) \cup (IF job.pc = "addWrite" THEN {job.id} ELSE {})
  BY <1>1, <1>10 DEF Stored
<1>13. unconfirmed'[j.id] = j.pw
  BY <1>1, <1>5, <1>8, <1>9
<1>14. job.pc \in Writing /\ j.pc \notin Writing /\ j.pc \notin Taking
  BY <1>1, <1>5 DEF Writing, Taking
<1> QED BY <1>2, <1>7, <1>8, <1>11, <1>12, <1>13, <1>14, WritesLasting

LEMMA RewritesLasting ==
  ASSUME Typed, Lasting, NEW h \in Handlers, UpdateWrites(h) \/ RenameWrites(h)
  PROVE  Lasting'
<1> DEFINE job == handler[h]
           list == [Idle EXCEPT !.op = "list", !.pc = "wallets"]
           done == [job EXCEPT !.pc = "updated", !.saw = Empty]
<1>1. job \in Jobs /\ job.saw \in Stores /\ job.pc \in {"updateWrite", "renameWrite"}
  BY JobTyped DEF UpdateWrites, RenameWrites, Waits, Jobs
<1>2. /\ store' = job.saw \/ store' = Updated(job)
      /\ WritesOver(h) /\ UNCHANGED <<owner, agreed, unconfirmed, removed>>
      /\ Goes(h, Idle) \/ Goes(h, list) \/ Goes(h, done)
  BY DEF UpdateWrites, RenameWrites, Ends, AnswersWithList
<1>3. /\ Idle.pc = "idle" /\ Idle.saw = Empty
      /\ list.pc = "wallets" /\ list.saw = Empty
      /\ done.pc = "updated" /\ done.saw = Empty
  BY <1>1 DEF Idle, Jobs
<1> HIDE DEF list, done
<1>4. PICK j : Goes(h, j) /\ j.saw = Empty /\ j.pc \in {"idle", "wallets", "updated"}
  BY <1>2, <1>3
<1>5. Stored(Empty) = {}
  BY DEF Stored, Empty
<1>6. Follows(h, j) /\ j.pc \notin Writing \cup Taking \cup Telling /\ job.pc \in Writing
  BY <1>1, <1>4, <1>5 DEF Follows, Taking, Telling, Writing
<1>7. \A i \in Ids : /\ store'[i] # NoRecord => job.saw[i] # NoRecord /\ store'[i].pw = job.saw[i].pw
  <2>1. CASE store' = job.saw
    BY <2>1
  <2>2. CASE store' = Updated(job)
    <3>1. ASSUME NEW i \in Ids, i \in Stored(job.saw)
          PROVE  [job.saw[i] EXCEPT !.accounts = job.accounts, !.tron = TRUE].pw = job.saw[i].pw
      BY <1>1, <3>1 DEF Stored, Stores, Records
    <3> QED BY <2>2, <3>1 DEF Updated, Stored
  <2> QED BY <1>2, <2>1, <2>2
<1>8. \A i \in Stored(store') : Restores(h, i)
  BY <1>2, <1>7 DEF Restores, Stored
<1>9. Stored(store') \subseteq Stored(job.saw)
  BY <1>7 DEF Stored
<1> QED BY <1>2, <1>6, <1>8, <1>9, WritesLasting

LEMMA RemoveWritesLasting ==
  ASSUME Typed, Lasting, NEW h \in Handlers, RemoveWrites(h)
  PROVE  Lasting'
<1> DEFINE job == handler[h]
           next == First(Stored(job.saw) \ {job.id})
           j == [job EXCEPT !.pc = "removeActiveRead", !.saw = Empty, !.next = next]
<1>1. job \in Jobs /\ job.saw \in Stores /\ job.id \in Ids /\ job.pc = "removeWrite"
  BY JobTyped DEF RemoveWrites, Waits, Ready, Jobs
<1>2. /\ store' = [job.saw EXCEPT ![job.id] = NoRecord] /\ WritesOver(h) /\ Goes(h, j)
      /\ agreed' = [agreed EXCEPT ![job.id] = NoPassword]
      /\ unconfirmed' = [unconfirmed EXCEPT ![job.id] = NoPassword]
      /\ owner' = owner /\ removed' = removed
  BY DEF RemoveWrites, Remaining
<1> HIDE DEF next
<1>3. j.pc = "removeActiveRead" /\ j.saw = Empty /\ j.id = job.id
  BY <1>1 DEF Jobs
<1> HIDE DEF j
<1>4. Stored(Empty) = {}
  BY DEF Stored, Empty
<1>5. job.id \notin Stored(store') /\ Stored(store') \subseteq Stored(job.saw)
  BY <1>1, <1>2 DEF Stored, Stores
<1>6. /\ agreed \in [Ids -> Passwords \cup {NoPassword}]
      /\ unconfirmed \in [Ids -> Passwords \cup {NoPassword}]
  BY DEF Typed, TypeOK
<1>7. ASSUME NEW i \in Stored(store') PROVE Restores(h, i)
  <2>1. i \in Ids /\ i # job.id /\ i \in Stored(job.saw)
    BY <1>5 DEF Stored
  <2> QED BY <1>1, <1>2, <1>6, <2>1 DEF Restores, Stores
<1>8. j.pc \notin Writing /\ j.pc \notin Telling /\ job.pc \in Writing
  BY <1>1, <1>3 DEF Writing, Telling
<1>9. job.id \in Stored(job.saw)
  BY <1>1, JobTyped DEF Ready, Stored
<1>10. Follows(h, j)
  BY <1>1, <1>2, <1>3, <1>4, <1>9 DEF Follows
<1>11. Stored(store') \subseteq Stored(job.saw) \cup (IF job.pc = "addWrite" THEN {job.id} ELSE {})
  BY <1>5
<1> QED BY <1>2, <1>3, <1>5, <1>7, <1>8, <1>10, <1>11, WritesLasting

LEMMA NextLasting == Typed /\ Lasting /\ [Next]_vars => Lasting'
<1> SUFFICES ASSUME Typed, Lasting, [Next]_vars PROVE Lasting'
  OBVIOUS
<1>1. ASSUME NEW h \in Handlers, CallReturns(h) PROVE Lasting'
  BY <1>1, SearchLasting, OpeningLasting, ReadsLasting, AddReadsLasting, ConfirmsLasting,
     RemoveConfirmsLasting, StoresLasting, RewritesLasting, RemoveWritesLasting DEF CallReturns
<1>2. CASE Lock
  BY <1>2 DEF Lock, Lasting, Traceless, Removals, Undisturbed, Alone, OpensWithAgreedPassword
<1>3. CASE WorkerStops
  <2>1. /\ handler' = [h \in Handlers |-> Idle]
        /\ UNCHANGED <<store, owner, agreed, unconfirmed, removed, overlapped>>
    BY <1>3 DEF WorkerStops
  <2>2. Idle.pc = "idle" /\ Stored(Idle.saw) = {}
    BY DEF Idle, Stored, Empty
  <2>3. Traceless'
    BY <2>1, <2>2 DEF Lasting, Traceless, Untraced, Claiming, Taking
  <2>4. Removals' /\ Undisturbed'
    BY <2>1, <2>2 DEF Lasting, Removals, Undisturbed, Alone, Taking, Writing, Telling
  <2>5. OpensWithAgreedPassword'
    BY <2>1 DEF Lasting, OpensWithAgreedPassword
  <2> QED BY <2>3, <2>4, <2>5 DEF Lasting
<1>4. CASE UNCHANGED vars
  BY <1>4 DEF vars, Lasting, Traceless, Removals, Undisturbed, Alone, OpensWithAgreedPassword
<1> QED BY <1>1, <1>2, <1>3, <1>4, ArrivalLasting DEF Next

\* A removed wallet is in storage again only where one handler wrote the array
\* over another's write, and never if messages are handled one at a time.
THEOREM RemovalsLast == Spec => []RemovedStaysRemoved
<1>1. Init => Lasting
  BY InitLasting
<1>2. Typed /\ Lasting /\ [Next]_vars => Lasting'
  BY NextLasting
<1>3. Typed /\ Lasting => RemovedStaysRemoved
  <2> SUFFICES ASSUME Typed, Lasting PROVE RemovedStaysRemoved
    OBVIOUS
  <2>1. removed \cap Stored(store) \subseteq overlapped
    BY DEF Lasting, Removals, Gone
  <2>2. Alone => overlapped = {}
    BY DEF Lasting, Undisturbed
  <2> QED BY <2>1, <2>2 DEF RemovedStaysRemoved
<1> QED BY <1>1, <1>2, <1>3, AlwaysTyped, PTL DEF Spec

\* Unless one handler wrote over another's write, a stored wallet opens with
\* the password confirmed last, or with the one stored last while its answer
\* is out or was cut off.
THEOREM PasswordsLast == Spec => []OpensWithAgreedPassword
<1>1. Init => Lasting
  BY InitLasting
<1>2. Typed /\ Lasting /\ [Next]_vars => Lasting'
  BY NextLasting
<1>3. Lasting => OpensWithAgreedPassword
  BY DEF Lasting
<1> QED BY <1>1, <1>2, <1>3, AlwaysTyped, PTL DEF Spec
=============================================================================
