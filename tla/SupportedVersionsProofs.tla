---------------------- MODULE SupportedVersionsProofs -----------------------
(***************************************************************************)
(* What SupportedVersions guarantees for every set of versions, tags,      *)
(* blacklists and objects and under all faults.                            *)
(***************************************************************************)
EXTENDS SupportedVersions, FiniteSetTheorems, TLAPS

USE TagsAssumption, BlacklistsAssumption, FiniteAssumption, NoObjectAssumption

-----------------------------------------------------------------------------
(* The latest releases.                                                    *)

\* Of the non-empty sets without a greatest element a smallest one would have
\* one more element than a set that has a greatest.
LEMMA MaxIsReached ==
  ASSUME NEW S \in SUBSET Int, IsFiniteSet(S), S # {}
  PROVE  Max(S) \in S /\ \A y \in S : Max(S) >= y
  <1> DEFINE Endless == {T \in SUBSET S : T # {} /\ \A x \in T : \E y \in T : ~(x >= y)}
  <1>1. SUFFICES ASSUME Endless # {} PROVE FALSE
    <2>1. S \notin Endless
      BY <1>1
    <2>2. \E x \in S : \A y \in S : x >= y
      BY <2>1
    <2> QED
      BY <2>2 DEF Max
  <1>2. FiniteSubsetsOf(S) = SUBSET S
    BY FS_FiniteSubsetsOfFinite
  <1>3. IsWellFoundedOn(StrictSubsetOrdering(S), FiniteSubsetsOf(S))
    BY FS_StrictSubsetOrderingWellFounded
  <1>4. Endless \subseteq FiniteSubsetsOf(S)
    BY <1>2
  <1> HIDE DEF Endless
  <1>5. PICK T \in Endless : \A U \in Endless : <<U, T>> \notin StrictSubsetOrdering(S)
    BY <1>1, <1>3, <1>4, WFMin
  <1>6. T \in SUBSET S /\ T # {} /\ \A x \in T : \E y \in T : ~(x >= y)
    BY DEF Endless
  <1>7. PICK t : t \in T
    BY <1>6
  <1>8. T \ {t} \notin Endless
    BY <1>5, <1>6, <1>7 DEF StrictSubsetOrdering
  <1>9. T \ {t} # {}
    BY <1>6, <1>7
  <1>10. PICK m \in T \ {t} : \A y \in T \ {t} : m >= y
    BY <1>6, <1>8, <1>9 DEF Endless
  <1>11. CASE m >= t
    BY <1>6, <1>7, <1>10, <1>11
  <1>12. CASE ~(m >= t)
    <2>1. m \in Int /\ t \in Int /\ \A y \in T \ {t} : y \in Int /\ t >= y
      BY <1>6, <1>7, <1>10, <1>12
    <2> QED
      BY <1>6, <1>7, <2>1
  <1> QED
    BY <1>11, <1>12

\* A version is listed with the time of one of its tags, and none is later.
LEMMA LatestIsATag ==
  ASSUME tags \subseteq Tags, NEW v \in DOMAIN Latest
  PROVE  /\ v \in Versions \ {NoVersion}
         /\ \E t \in tags : t.version = v /\ t.time = Latest[v]
         /\ \A t \in tags : t.version = v => t.time <= Latest[v]
  <1> DEFINE Own == {t \in tags : t.version = v}
             times == {t.time : t \in Own}
             time == [t \in Own |-> t.time]
  <1>1. v \in {t.version : t \in tags} \ {NoVersion} /\ Latest[v] = Max(times)
    BY DEF Latest, getLatestRelease, parseRegistryTags
  <1>2. IsFiniteSet(Own)
    BY FS_Subset
  <1>3. IsFiniteSet(times)
    <2>1. time \in Surjection(Own, times)
      BY DEF Surjection
    <2> HIDE DEF time, times, Own
    <2> QED
      BY <1>2, <2>1, FS_Surjection
  <1>4. times \in SUBSET Int /\ times # {}
    BY <1>1
  <1>5. Max(times) \in times /\ \A y \in times : Max(times) >= y
    <2> HIDE DEF times
    <2> QED
      BY <1>3, <1>4, MaxIsReached
  <1>6. \A t \in tags : t.version = v => Max(times) >= t.time /\ Max(times) \in Int
    BY <1>4, <1>5
  <1>7. \E t \in tags : t.version = v /\ t.time = Max(times)
    BY <1>5
  <1>8. v \in Versions \ {NoVersion}
    BY <1>1
  <1> QED
    BY <1>1, <1>6, <1>7, <1>8

Listed == {Entry(Latest, v) : v \in DOMAIN Latest}

\* Without a blacklist the entries to come are the releases that can be read
\* off the registry.
LEMMA ListedIsWanted ==
  ASSUME tags \subseteq Tags
  PROVE  Listed = Wanted({})
  <1>1. ASSUME NEW v \in DOMAIN Latest PROVE Entry(Latest, v) \in Wanted({})
    <2>1. PICK t \in tags : t.version = v /\ t.time = Latest[v]
      BY LatestIsATag
    <2>2. t.version # NoVersion /\ \A w \in tags : w.version = t.version => w.time <= t.time
      BY <2>1, LatestIsATag
    <2> QED
      BY <2>1, <2>2 DEF Entry, Wanted
  <1>2. ASSUME NEW t \in tags, t.version # NoVersion,
               \A w \in tags : w.version = t.version => w.time <= t.time
        PROVE  [name |-> t.version, latest |-> t.time] \in Listed
    <2>1. t.version \in DOMAIN Latest
      BY <1>2 DEF Latest, getLatestRelease, parseRegistryTags
    <2>2. PICK u \in tags : u.version = t.version /\ u.time = Latest[t.version]
      BY <2>1, LatestIsATag
    <2>3. u.time <= t.time /\ t.time <= u.time /\ u.time \in Int /\ t.time \in Int
      BY <1>2, <2>1, <2>2, LatestIsATag
    <2> QED
      BY <2>1, <2>2, <2>3 DEF Listed, Entry
  <1> QED
    BY <1>1, <1>2 DEF Listed, Wanted

\* There are finitely many of them, one for each version.
LEMMA ListedIsFinite ==
  ASSUME tags \subseteq Tags
  PROVE  /\ IsFiniteSet(Listed) /\ IsFiniteSet(DOMAIN Latest)
         /\ Cardinality(Listed) = Cardinality(DOMAIN Latest)
  <1> DEFINE entry == [v \in DOMAIN Latest |-> Entry(Latest, v)]
  <1>1. DOMAIN Latest \subseteq Versions
    BY LatestIsATag
  <1>2. IsFiniteSet(DOMAIN Latest)
    BY <1>1, FS_Subset
  <1>3. entry \in Bijection(DOMAIN Latest, Listed)
    BY DEF Bijection, Injection, Surjection, IsInjective, Listed, Entry
  <1> HIDE DEF entry
  <1> QED
    BY <1>2, <1>3, FS_Bijection DEF ExistsBijection

-----------------------------------------------------------------------------
(* The comparison.                                                         *)

\* What the controller writes: one entry for each of some versions.
Nice(status) ==
    /\ status \in Seq(DrupalVersion)
    /\ \A i, j \in DOMAIN status : status[i].name = status[j].name => i = j

LEMMA NiceIsFinite ==
  ASSUME NEW status, Nice(status)
  PROVE  /\ IsFiniteSet(Entries(status)) /\ Len(status) \in Nat
         /\ Cardinality(Entries(status)) = Len(status)
  <1>1. Len(status) \in Nat /\ DOMAIN status = 1 .. Len(status)
        /\ status \in [1 .. Len(status) -> DrupalVersion]
    BY DEF Nice
  <1>2. status \in Bijection(1 .. Len(status), Entries(status))
    BY <1>1 DEF Nice, Entries, Bijection, Injection, Surjection, IsInjective
  <1>3. IsFiniteSet(1 .. Len(status)) /\ Cardinality(1 .. Len(status)) = Len(status)
    BY <1>1, FS_Interval
  <1> QED
    BY <1>1, <1>2, <1>3, FS_Bijection DEF ExistsBijection

\* For such a status the comparison of lengths, names and releases is one of sets.
LEMMA ComparisonOfNice ==
  ASSUME tags \subseteq Tags, NEW status, Nice(status)
  PROVE  drupalVersionsEqual(status, Latest) <=> Entries(status) = Wanted({})
  <1>1. ASSUME drupalVersionsEqual(status, Latest) PROVE Entries(status) = Listed
    <2>1. \A v \in DOMAIN Latest : Entry(Latest, v) \in Entries(status)
      <3> SUFFICES ASSUME NEW v \in DOMAIN Latest
                   PROVE  Entry(Latest, v) \in Entries(status)
        OBVIOUS
      <3>1. PICK i \in DOMAIN status : status[i].name = v
        BY <1>1 DEF drupalVersionsEqual
      <3>2. status[i].latest = Latest[v] /\ status[i] \in DrupalVersion
        BY <1>1, <3>1 DEF drupalVersionsEqual, Nice
      <3>3. status[i] = Entry(Latest, v)
        BY <3>1, <3>2 DEF Entry, DrupalVersion
      <3> QED
        BY <3>3 DEF Entries
    <2>2. Listed \in SUBSET Entries(status)
      BY <2>1 DEF Listed
    <2>3. Cardinality(Entries(status)) = Cardinality(Listed)
      BY <1>1, NiceIsFinite, ListedIsFinite DEF drupalVersionsEqual
    <2> QED
      BY <2>2, <2>3, NiceIsFinite, FS_Subset
  <1>2. ASSUME Entries(status) = Listed PROVE drupalVersionsEqual(status, Latest)
    <2>1. Len(status) = Cardinality(DOMAIN Latest)
      BY <1>2, NiceIsFinite, ListedIsFinite
    <2>2. ASSUME NEW v \in DOMAIN Latest PROVE \E i \in DOMAIN status : status[i].name = v
      <3>1. Entry(Latest, v) \in Entries(status)
        BY <1>2 DEF Listed
      <3> QED
        BY <3>1 DEF Entries, Entry
    <2>3. ASSUME NEW v \in DOMAIN Latest, NEW i \in DOMAIN status, status[i].name = v
          PROVE  status[i].latest = Latest[v]
      <3>1. status[i] \in Listed
        BY <1>2 DEF Entries
      <3>2. PICK w \in DOMAIN Latest : status[i] = Entry(Latest, w)
        BY <3>1 DEF Listed
      <3> QED
        BY <2>3, <3>2 DEF Entry
    <2> QED
      BY <2>1, <2>2, <2>3 DEF drupalVersionsEqual
  <1> QED
    BY <1>1, <1>2, ListedIsWanted

\* Whatever order the map is gone through in, what is written is such a status,
\* and has nothing of the blacklist.
LEMMA UpdateIsNice ==
  ASSUME tags \subseteq Tags, ~LatestReleasePanics,
         NEW old \in Object, NEW new \in updateVersions(old, Latest)
  PROVE  /\ new \in Object /\ Nice(new.status)
         /\ new.blacklist = old.blacklist
         /\ \A e \in Entries(new.status) : e.name \notin new.blacklist
  <1> DEFINE L == {Entry(Latest, v) : v \in DOMAIN Latest \ old.blacklist}
  <1>1. PICK s \in SetToSeqs(L) : new = [old EXCEPT !.status = s]
    BY DEF updateVersions
  <1>2. L \subseteq Listed /\ IsFiniteSet(L) /\ Cardinality(L) \in Nat
    <2>1. L \in SUBSET Listed
      BY DEF Listed
    <2> HIDE DEF L
    <2> QED
      BY <2>1, ListedIsFinite, FS_Subset, FS_CardinalityType
  <1>3. L \subseteq DrupalVersion
    <2> SUFFICES ASSUME NEW v \in DOMAIN Latest PROVE Entry(Latest, v) \in DrupalVersion
      OBVIOUS
    <2>1. PICK t \in tags : t.version = v /\ t.time = Latest[v]
      BY LatestIsATag
    <2>2. v \in Versions /\ t.time # Bare
      BY <2>1, LatestIsATag DEF LatestReleasePanics
    <2> QED
      BY <2>1, <2>2 DEF DrupalVersion, Times, Entry
  <1>4. /\ s \in [1 .. Cardinality(L) -> L]
        /\ \A i, j \in 1 .. Cardinality(L) : i # j => s[i] # s[j]
    <2> HIDE DEF L
    <2> QED
      BY <1>1 DEF SetToSeqs
  <1>5. s \in Seq(DrupalVersion) /\ DOMAIN s = 1 .. Cardinality(L)
    <2> HIDE DEF L
    <2> QED
      BY <1>2, <1>3, <1>4
  <1>6. \A d, e \in L : d.name = e.name => d = e
    BY DEF Entry
  <1>7. \A e \in L : e.name \notin old.blacklist
    BY DEF Entry
  <1>8. new.status = s /\ new.blacklist = old.blacklist /\ new \in Object
    BY <1>1, <1>5 DEF Object
  <1> HIDE DEF L
  <1>9. \A i, j \in DOMAIN s : s[i].name = s[j].name => i = j
    BY <1>4, <1>5, <1>6
  <1>10. \A e \in Entries(s) : e.name \notin old.blacklist
    BY <1>4, <1>5, <1>7 DEF Entries
  <1> QED
    BY <1>5, <1>8, <1>9, <1>10 DEF Nice

-----------------------------------------------------------------------------
(* The invariant.                                                          *)

NiceCopies ==
    /\ \A o \in Exist(objs) : Nice(objs[o].status)
    /\ \A o \in Exist(seen) : Nice(seen[o].status)
    /\ Nice(copy.status)

CacheFollows == \A o \in Objects : o \notin pending => seen[o] = objs[o]

\* Where the write is not refused, the blacklist is still the one of the copy.
FreshCopy ==
    fresh => /\ pc # "idle" /\ objs[chosen] # NoObject
             /\ copy.blacklist = objs[chosen].blacklist

CopyRespects ==
    pc \in {"update", "again"} => \A e \in Entries(copy.status) : e.name \notin copy.blacklist

VersionsInv == /\ TypeOK /\ NiceCopies /\ CacheFollows /\ FreshCopy /\ CopyRespects
               /\ PollGoesOn

LEMMA NewObjectIsNice == NewObject \in Object /\ Nice(NewObject.status)
  BY DEF NewObject, Object, Nice

\* The variables of a call are not looked at when it has ended.
LEMMA ReturnKeeps ==
  ASSUME VersionsInv, Return
  PROVE  /\ pc' = "idle" /\ req' \in Objects /\ chosen' \in Objects
         /\ copy' \in Object /\ fresh' = FALSE /\ Nice(copy'.status)
  BY NewObjectIsNice DEF Return, VersionsInv, TypeOK

LEMMA InitVersions == Init => VersionsInv
  <1> SUFFICES ASSUME Init PROVE VersionsInv
    OBVIOUS
  <1>1. Exist(objs) = {} /\ Exist(seen) = {}
    BY DEF Init, Exist
  <1>2. TypeOK
    BY NewObjectIsNice DEF Init, TypeOK
  <1> QED
    BY <1>1, <1>2, NewObjectIsNice
    DEF Init, VersionsInv, NiceCopies, CacheFollows, FreshCopy, CopyRespects, PollGoesOn

\* The end of a call, which leaves its request in the queue or with a timer.
LEMMA EndOfCall ==
  ASSUME VersionsInv, Return, UNCHANGED environment,
         queue' \subseteq Objects, timers' \subseteq Objects,
         queue \subseteq queue', timers \subseteq timers', req \in queue' \cup timers'
  PROVE  VersionsInv'
  <1>1. TypeOK'
    BY ReturnKeeps DEF environment, VersionsInv, TypeOK
  <1>2. PollGoesOn'
    BY DEF environment, Exist, VersionsInv, PollGoesOn
  <1>3. NiceCopies'
    BY ReturnKeeps DEF environment, Exist, VersionsInv, NiceCopies
  <1> QED
    BY <1>1, <1>2, <1>3, ReturnKeeps
    DEF environment, VersionsInv, CacheFollows, FreshCopy, CopyRespects

\* What Write does to objects and events.
LEMMA WriteKeeps ==
  ASSUME VersionsInv, pc # "idle", Write
  PROVE  /\ objs' \in [Objects -> Object \cup {NoObject}] /\ pending' \subseteq Objects
         /\ UNCHANGED <<tags, seen>> /\ Exist(objs') = Exist(objs)
         /\ \A o \in Exist(objs') : Nice(objs'[o].status)
         /\ objs'[chosen] = copy /\ pending \subseteq pending'
         /\ \A o \in Objects : o \notin pending' => seen[o] = objs'[o]
  <1>1. /\ objs' = [objs EXCEPT ![chosen] = copy] /\ UNCHANGED <<tags, seen>>
        /\ pending' = IF objs' = objs THEN pending ELSE pending \cup {chosen}
        /\ objs[chosen] # NoObject /\ chosen \in Objects /\ copy \in Object
        /\ objs \in [Objects -> Object \cup {NoObject}] /\ pending \subseteq Objects
    BY DEF Write, VersionsInv, FreshCopy, TypeOK
  <1>2. \A o \in Objects : o # chosen => objs'[o] = objs[o]
    BY <1>1
  <1>3. objs'[chosen] = copy /\ copy # NoObject
    BY <1>1
  <1>4. objs' \in [Objects -> Object \cup {NoObject}]
    BY <1>1
  <1>5. Exist(objs') = Exist(objs)
    BY <1>1, <1>2, <1>3 DEF Exist
  <1>6. \A o \in Exist(objs') : Nice(objs'[o].status)
    BY <1>2, <1>3, <1>5 DEF Exist, VersionsInv, NiceCopies
  <1>7. \A o \in Objects : o \notin pending' => seen[o] = objs'[o]
    BY <1>1, <1>2 DEF VersionsInv, CacheFollows
  <1> QED
    BY <1>1, <1>3, <1>4, <1>5, <1>6, <1>7

\* A change of objects from outside.
LEMMA WriteObjectKeeps ==
  ASSUME VersionsInv, NEW o \in Objects, NEW object \in Object \cup {NoObject},
         object # NoObject => Nice(object.status), WriteObject(o, object)
  PROVE  VersionsInv'
  <1>1. /\ objs' = [objs EXCEPT ![o] = object] /\ pending' = pending \cup {o}
        /\ fresh' = (fresh /\ chosen # o)
        /\ UNCHANGED <<tags, seen, queue, timers, pc, req, chosen, copy>>
        /\ TypeOK
    BY DEF WriteObject, VersionsInv
  <1>2. TypeOK'
    BY <1>1 DEF TypeOK
  <1>3. objs'[o] = object /\ \A p \in Objects : p # o => objs'[p] = objs[p]
    BY <1>1 DEF TypeOK
  <1>4. NiceCopies'
    BY <1>1, <1>3 DEF Exist, VersionsInv, NiceCopies
  <1>5. CacheFollows' /\ FreshCopy'
    BY <1>1, <1>3 DEF VersionsInv, CacheFollows, FreshCopy, TypeOK
  <1>6. CopyRespects'
    BY <1>1 DEF VersionsInv, CopyRespects
  <1>7. PollGoesOn'
    BY <1>1, <1>3 DEF Exist, VersionsInv, PollGoesOn
  <1> QED
    BY <1>2, <1>4, <1>5, <1>6, <1>7 DEF VersionsInv

LEMMA ProcessStartsKeeps ==
  ASSUME VersionsInv, ProcessStarts
  PROVE  VersionsInv'
  <1>1. TypeOK'
    BY ReturnKeeps DEF ProcessStarts, Exist, VersionsInv, TypeOK
  <1> QED
    BY <1>1, ReturnKeeps
    DEF ProcessStarts, Exist, VersionsInv, NiceCopies, CacheFollows, FreshCopy,
        CopyRespects, PollGoesOn

\* The next attempt of a write, or the end of the call.
LEMMA TryAgainKeeps ==
  ASSUME VersionsInv, UNCHANGED environment, TryAgain(fresh)
  PROVE  VersionsInv'
  <1>1. CASE pc = "again" /\ Requeue
    BY <1>1, EndOfCall DEF Requeue, VersionsInv, TypeOK
  <1>2. CASE /\ pc = "update" /\ pc' = "again" /\ fresh' = fresh
             /\ UNCHANGED <<queue, timers, req, chosen, copy>>
    BY <1>2
    DEF environment, Exist, VersionsInv, TypeOK, NiceCopies, CacheFollows, FreshCopy,
        CopyRespects, PollGoesOn
  <1> QED
    BY <1>1, <1>2 DEF TryAgain

LEMMA VersionsStep == VersionsInv /\ [Next]_vars => VersionsInv'
  <1> SUFFICES ASSUME VersionsInv, [Next]_vars
               PROVE  VersionsInv'
    OBVIOUS
  <1> TypeOK
    BY DEF VersionsInv
  <1>1. ASSUME NEW o \in Objects, Fetch(o) PROVE VersionsInv'
    <2>1. /\ chosen' \in Objects /\ seen[chosen'] # NoObject /\ copy' = seen[chosen']
          /\ fresh' = (chosen' \notin pending) /\ pc' = "tags" /\ req' = o
          /\ queue' = queue \ {o} /\ UNCHANGED <<environment, timers>>
      BY <1>1 DEF Fetch, Exist
    <2>2. TypeOK'
      BY <2>1 DEF environment, TypeOK
    <2>3. NiceCopies'
      BY <2>1 DEF environment, Exist, VersionsInv, NiceCopies
    <2>4. FreshCopy'
      BY <2>1 DEF environment, VersionsInv, CacheFollows, FreshCopy
    <2>5. PollGoesOn'
      <3>1. pc = "idle"
        BY <1>1 DEF Fetch
      <3> QED
        BY <2>1, <3>1 DEF environment, Exist, VersionsInv, PollGoesOn
    <2> QED
      BY <2>1, <2>2, <2>3, <2>4, <2>5 DEF environment, VersionsInv, CacheFollows, CopyRespects
  <1>2. ASSUME KeepVersions \/ RegistryFails PROVE VersionsInv'
    BY <1>2, EndOfCall
    DEF KeepVersions, RegistryFails, RequeueAfterHour, Requeue, TypeOK
  <1>3. ASSUME ChangeVersions PROVE VersionsInv'
    <2>1. /\ copy' \in updateVersions(copy, Latest) /\ pc = "tags" /\ pc' = "update"
          /\ UNCHANGED <<environment, queue, timers, req, chosen, fresh>>
          /\ ~LatestReleasePanics /\ tags \subseteq Tags /\ copy \in Object
      BY <1>3 DEF ChangeVersions, TypeOK
    <2>2. /\ copy' \in Object /\ Nice(copy'.status) /\ copy'.blacklist = copy.blacklist
          /\ \A e \in Entries(copy'.status) : e.name \notin copy'.blacklist
      BY <2>1, UpdateIsNice
    <2> QED
      BY <2>1, <2>2
      DEF environment, Exist, VersionsInv, TypeOK, NiceCopies, CacheFollows, FreshCopy,
          CopyRespects, PollGoesOn
  <1>4. ASSUME UpdateStatus PROVE VersionsInv'
    <2>1. /\ pc # "idle" /\ Write /\ Return
          /\ timers' = timers \cup {req} /\ UNCHANGED queue
      BY <1>4 DEF UpdateStatus, RequeueAfterHour
    <2>2. TypeOK'
      BY <2>1, WriteKeeps, ReturnKeeps DEF TypeOK
    <2>3. NiceCopies'
      BY <2>1, WriteKeeps, ReturnKeeps DEF Exist, VersionsInv, NiceCopies
    <2>4. PollGoesOn'
      BY <2>1, WriteKeeps, ReturnKeeps DEF VersionsInv, PollGoesOn
    <2> QED
      BY <2>1, <2>2, <2>3, <2>4, WriteKeeps, ReturnKeeps
      DEF VersionsInv, CacheFollows, FreshCopy, CopyRespects
  <1>5. ASSUME UpdateStatusFails PROVE VersionsInv'
    BY <1>5, TryAgainKeeps DEF UpdateStatusFails
  <1>6. ASSUME UpdateStatusAnswerLost PROVE VersionsInv'
    <2>1. pc # "idle" /\ Write
      BY <1>6 DEF UpdateStatusAnswerLost, TryAgain
    <2>2. CASE pc = "again" /\ Requeue
      <3>1. Return /\ queue' = queue \cup {req} /\ UNCHANGED timers
        BY <2>2 DEF Requeue
      <3>2. TypeOK'
        BY <2>1, <3>1, WriteKeeps, ReturnKeeps DEF TypeOK
      <3>3. NiceCopies'
        BY <2>1, <3>1, WriteKeeps, ReturnKeeps DEF Exist, VersionsInv, NiceCopies
      <3>4. PollGoesOn'
        BY <2>1, <3>1, WriteKeeps, ReturnKeeps DEF VersionsInv, PollGoesOn
      <3> QED
        BY <2>1, <3>1, <3>2, <3>3, <3>4, WriteKeeps, ReturnKeeps
        DEF VersionsInv, CacheFollows, FreshCopy, CopyRespects
    <2>3. CASE /\ pc = "update" /\ pc' = "again" /\ fresh' = (objs' = objs)
               /\ UNCHANGED <<queue, timers, req, chosen, copy>>
      <3>1. TypeOK'
        BY <2>1, <2>3, WriteKeeps DEF TypeOK
      <3>2. NiceCopies'
        BY <2>1, <2>3, WriteKeeps DEF Exist, VersionsInv, NiceCopies
      <3>3. PollGoesOn'
        BY <2>1, <2>3, WriteKeeps DEF VersionsInv, PollGoesOn
      <3>4. FreshCopy'
        BY <2>1, <2>3, WriteKeeps DEF VersionsInv, FreshCopy, Write
      <3> QED
        BY <2>1, <2>3, <3>1, <3>2, <3>3, <3>4, WriteKeeps
        DEF VersionsInv, CacheFollows, CopyRespects
    <2> QED
      BY <1>6, <2>2, <2>3 DEF UpdateStatusAnswerLost, TryAgain
  <1>7. ASSUME Panic \/ Restart PROVE VersionsInv'
    BY <1>7, ProcessStartsKeeps DEF Panic, Restart
  <1>8. ASSUME NEW o \in Objects, InformerSync(o) PROVE VersionsInv'
    <2>1. /\ o \in pending /\ seen' = [seen EXCEPT ![o] = objs[o]]
          /\ pending' = pending \ {o} /\ queue' = queue \cup {o}
          /\ UNCHANGED <<tags, objs, timers, pc, req, chosen, copy, fresh>>
      BY <1>8 DEF InformerSync, call
    <2>2. TypeOK'
      BY <2>1 DEF TypeOK
    <2>3. seen'[o] = objs[o] /\ \A p \in Objects : p # o => seen'[p] = seen[p]
      BY <2>1 DEF TypeOK
    <2>4. NiceCopies'
      BY <2>1, <2>3 DEF Exist, VersionsInv, NiceCopies
    <2>5. CacheFollows'
      BY <2>1, <2>3 DEF VersionsInv, CacheFollows
    <2> QED
      BY <2>1, <2>2, <2>4, <2>5
      DEF Exist, VersionsInv, FreshCopy, CopyRespects, PollGoesOn
  <1>9. ASSUME NEW o \in Objects, HourPasses(o) PROVE VersionsInv'
    BY <1>9
    DEF HourPasses, environment, call, Exist, VersionsInv, TypeOK, NiceCopies, CacheFollows,
        FreshCopy, CopyRespects, PollGoesOn
  <1>10. ASSUME NEW o \in Objects, Create(o) PROVE VersionsInv'
    BY <1>10, NewObjectIsNice, WriteObjectKeeps DEF Create
  <1>11. ASSUME NEW o \in Objects, Delete(o) PROVE VersionsInv'
    BY <1>11, WriteObjectKeeps DEF Delete
  <1>12. ASSUME NEW o \in Objects, NEW b \in Blacklists, EditBlacklist(o, b)
         PROVE  VersionsInv'
    <2>1. objs[o] \in Object /\ Nice(objs[o].status)
      BY <1>12 DEF EditBlacklist, TypeOK, Exist, VersionsInv, NiceCopies
    <2>2. /\ [objs[o] EXCEPT !.blacklist = b] \in Object
          /\ [objs[o] EXCEPT !.blacklist = b].status = objs[o].status
      BY <2>1 DEF Object
    <2> QED
      BY <1>12, <2>1, <2>2, WriteObjectKeeps DEF EditBlacklist
  <1>13. ASSUME NEW t \in Tags, PushOrRemoveTag(t) PROVE VersionsInv'
    BY <1>13
    DEF PushOrRemoveTag, call, Exist, VersionsInv, TypeOK, NiceCopies, CacheFollows,
        FreshCopy, CopyRespects, PollGoesOn
  <1>14. CASE UNCHANGED vars
    BY <1>14
    DEF vars, environment, call, Exist, VersionsInv, TypeOK, NiceCopies, CacheFollows,
        FreshCopy, CopyRespects, PollGoesOn
  <1> QED
    BY <1>1, <1>2, <1>3, <1>4, <1>5, <1>6, <1>7, <1>8, <1>9, <1>10, <1>11, <1>12, <1>13,
       <1>14 DEF Next, Reconcile

LEMMA VersionsHold == Spec => []VersionsInv
  BY InitVersions, VersionsStep, PTL DEF Spec

-----------------------------------------------------------------------------
(* The theorems.                                                           *)

\* The variables keep their types: what is written is a list of entries of
\* known versions and times, whatever the tags.
THEOREM TypeCorrect == Spec => []TypeOK
  BY VersionsHold, PTL DEF VersionsInv

\* The registry is polled for ever: every object that exists has a request that
\* is served, queued, on its way or due, whatever fails.
THEOREM PollNeverStops == Spec => []PollGoesOn
  BY VersionsHold, PTL DEF VersionsInv

\* The comparison of drupalVersionsEqual is exact for every status of an object.
THEOREM ExactComparison == Spec => []ComparisonIsExact
  <1>1. VersionsInv => ComparisonIsExact
    <2> SUFFICES ASSUME VersionsInv, NEW o \in Exist(objs)
                 PROVE  drupalVersionsEqual(objs[o].status, Latest) <=>
                            Entries(objs[o].status) = Wanted({})
      BY Zenon DEF ComparisonIsExact
    <2> QED
      BY ComparisonOfNice DEF VersionsInv, TypeOK, NiceCopies
  <1> QED
    BY <1>1, VersionsHold, PTL

\* A version that is on the blacklist of an object at that moment is never
\* written into its status.
THEOREM BlacklistRespected == Spec => BlacklistIsRespected
  <1> DEFINE Respects ==
        \A o \in Exist(objs) :
            o \in Exist(objs') /\ objs'[o].status # objs[o].status =>
                \A e \in Entries(objs'[o].status) : e.name \notin objs[o].blacklist
  <1>1. ASSUME VersionsInv, [Next]_vars PROVE Respects \/ UNCHANGED objs
    <2> TypeOK
      BY <1>1 DEF VersionsInv
    <2>1. CASE pc \in {"update", "again"} /\ Write
      <3>1. /\ objs' = [objs EXCEPT ![chosen] = copy] /\ chosen \in Objects
            /\ copy.blacklist = objs[chosen].blacklist
            /\ \A e \in Entries(copy.status) : e.name \notin copy.blacklist
        BY <1>1, <2>1 DEF Write, VersionsInv, FreshCopy, CopyRespects, TypeOK
      <3>2. objs'[chosen] = copy /\ \A o \in Objects : o # chosen => objs'[o] = objs[o]
        BY <3>1 DEF TypeOK
      <3> QED
        BY <3>1, <3>2 DEF Exist
    <2>2. CASE \E o \in Objects : Create(o)
      BY <2>2 DEF Create, WriteObject, Exist, TypeOK
    <2>3. CASE \E o \in Objects : Delete(o)
      BY <2>3 DEF Delete, WriteObject, Exist, TypeOK
    <2>4. CASE \E o \in Objects, b \in Blacklists : EditBlacklist(o, b)
      <3>1. PICK o \in Objects, b \in Blacklists : EditBlacklist(o, b)
        BY <2>4
      <3>2. /\ objs' = [objs EXCEPT ![o] = [objs[o] EXCEPT !.blacklist = b]]
            /\ objs[o] \in Object
        BY <3>1 DEF EditBlacklist, WriteObject, TypeOK
      <3>3. objs'[o].status = objs[o].status
            /\ \A p \in Objects : p # o => objs'[p] = objs[p]
        BY <3>2 DEF TypeOK, Object
      <3> QED
        BY <3>3 DEF Exist
    <2>5. CASE UNCHANGED objs
      BY <2>5
    <2>6. CASE Reconcile \/ RegistryFails \/ UpdateStatusAnswerLost
      BY <2>1, <2>5, <2>6
      DEF Reconcile, Fetch, KeepVersions, ChangeVersions, RegistryFails, UpdateStatus,
          UpdateStatusFails, UpdateStatusAnswerLost, TryAgain, environment
    <2>7. CASE Panic \/ Restart \/ UNCHANGED vars
      BY <2>5, <2>7 DEF Panic, Restart, ProcessStarts, vars, environment
    <2>8. CASE \/ \E o \in Objects : InformerSync(o) \/ HourPasses(o)
               \/ \E t \in Tags : PushOrRemoveTag(t)
      BY <2>5, <2>8 DEF InformerSync, HourPasses, PushOrRemoveTag, environment
    <2> HIDE DEF Respects
    <2> QED
      BY <1>1, <2>2, <2>3, <2>4, <2>6, <2>7, <2>8 DEF Next
  <1>2. VersionsInv /\ [Next]_vars => [Respects]_objs
    BY <1>1
  <1> HIDE DEF Respects
  <1>3. Spec => [][Respects]_objs
    BY <1>2, VersionsHold, PTL DEF Spec
  <1> QED
    BY <1>3 DEF BlacklistIsRespected, Respects

-----------------------------------------------------------------------------
(* What the controller leaves alone, until somebody asks for something     *)
(* else: a status that lists the latest releases stays so, and without a   *)
(* blacklist it is not even written again.                                 *)

Requested(o) ==
    \/ \E t \in Tags : PushOrRemoveTag(t)
    \/ Create(o) \/ Delete(o)
    \/ \E blacklist \in Blacklists : EditBlacklist(o, blacklist)

\* What is written is what can be read off the registry and is not blacklisted.
LEMMA UpdateIsWanted ==
  ASSUME tags \subseteq Tags, ~LatestReleasePanics,
         NEW old \in Object, NEW new \in updateVersions(old, Latest)
  PROVE  Entries(new.status) = Wanted(new.blacklist)
  <1> DEFINE L == {Entry(Latest, v) : v \in DOMAIN Latest \ old.blacklist}
  <1>1. PICK s \in SetToSeqs(L) : new = [old EXCEPT !.status = s]
    BY DEF updateVersions
  <1>2. L = {e \in Listed : e.name \notin old.blacklist}
    BY DEF Listed, Entry
  <1>3. L = Wanted(old.blacklist)
    <2>1. Wanted(old.blacklist) = {e \in Wanted({}) : e.name \notin old.blacklist}
      BY DEF Wanted
    <2> HIDE DEF L
    <2> QED
      BY <1>2, <2>1, ListedIsWanted
  <1>4. IsFiniteSet(L) /\ Cardinality(L) \in Nat
    <2>1. L \in SUBSET Listed
      BY <1>2
    <2> HIDE DEF L
    <2> QED
      BY <2>1, ListedIsFinite, FS_Subset, FS_CardinalityType
  <1> HIDE DEF L
  <1>5. s \in [1 .. Cardinality(L) -> L]
    BY <1>1 DEF SetToSeqs
  <1>6. new.status = s /\ new.blacklist = old.blacklist
    BY <1>1 DEF Object
  <1>7. Nice(s)
    BY <1>6, UpdateIsNice
  <1>8. DOMAIN s = 1 .. Cardinality(L) /\ Len(s) = Cardinality(L)
    BY <1>4, <1>5, <1>7 DEF Nice
  <1>9. Entries(s) \in SUBSET L /\ Cardinality(Entries(s)) = Cardinality(L)
    BY <1>5, <1>7, <1>8, NiceIsFinite DEF Entries
  <1>10. Entries(s) = L
    BY <1>4, <1>9, FS_Subset
  <1> QED
    BY <1>3, <1>6, <1>10

\* A step that nobody asked for changes an object only by a write of the
\* controller, and leaves the tags and the blacklist as they are.
LEMMA UnaskedStep ==
  ASSUME VersionsInv, NEW o \in Exist(objs), [Next]_vars, [~Requested(o)]_vars
  PROVE  /\ tags' = tags /\ o \in Exist(objs')
         /\ objs'[o] = objs[o] \/ (chosen = o /\ fresh /\ pc \in {"update", "again"}
                                     /\ objs'[o] = copy)
         /\ objs'[o].blacklist = objs[o].blacklist
  <1> TypeOK /\ o \in Objects /\ objs[o] # NoObject
    BY DEF VersionsInv, Exist
  <1>1. CASE pc \in {"update", "again"} /\ Write
    <2>1. /\ objs' = [objs EXCEPT ![chosen] = copy] /\ chosen \in Objects /\ fresh
          /\ copy.blacklist = objs[chosen].blacklist /\ copy # NoObject
          /\ tags' = tags
      BY <1>1 DEF Write, VersionsInv, FreshCopy, TypeOK
    <2>2. objs'[chosen] = copy /\ \A p \in Objects : p # chosen => objs'[p] = objs[p]
      BY <2>1 DEF TypeOK
    <2> QED
      BY <1>1, <2>1, <2>2 DEF Exist
  <1>2. CASE objs'[o] = objs[o] /\ tags' = tags
    BY <1>2 DEF Exist
  <1>3. CASE Reconcile \/ RegistryFails \/ UpdateStatusAnswerLost
    BY <1>1, <1>2, <1>3
    DEF Reconcile, Fetch, KeepVersions, ChangeVersions, RegistryFails, UpdateStatus,
        UpdateStatusFails, UpdateStatusAnswerLost, TryAgain, environment
  <1>4. CASE Panic \/ Restart \/ UNCHANGED vars
    BY <1>2, <1>4 DEF Panic, Restart, ProcessStarts, vars, environment
  <1>5. CASE \E p \in Objects : InformerSync(p) \/ HourPasses(p)
    BY <1>2, <1>5 DEF InformerSync, HourPasses, environment
  <1>6. ASSUME NEW p \in Objects, p # o, NEW object, WriteObject(p, object)
        PROVE  objs'[o] = objs[o] /\ tags' = tags
    BY <1>6 DEF WriteObject, TypeOK
  <1>7. CASE \E p \in Objects : \/ Create(p) \/ Delete(p)
                                \/ \E b \in Blacklists : EditBlacklist(p, b)
    <2>1. CASE UNCHANGED vars
      BY <1>4, <2>1
    <2>2. CASE ~Requested(o)
      <3>1. PICK p \in Objects : \/ Create(p) \/ Delete(p)
                                 \/ \E b \in Blacklists : EditBlacklist(p, b)
        BY <1>7
      <3>2. p # o /\ \E object : WriteObject(p, object)
        BY <2>2, <3>1 DEF Requested, Create, Delete, EditBlacklist
      <3> QED
        BY <1>2, <1>6, <3>2
    <2> QED
      BY <2>1, <2>2
  <1>8. CASE \E t \in Tags : PushOrRemoveTag(t)
    BY <1>4, <1>8 DEF Requested
  <1> QED
    BY <1>3, <1>4, <1>5, <1>7, <1>8 DEF Next

\* What a step that nobody asked for leaves to the next attempt of a write.
LEMMA UnaskedCopy ==
  ASSUME VersionsInv, [Next]_vars, pc' # "idle"
  PROVE  \/ pc' = "tags"
         \/ /\ ChangeVersions /\ pc = "tags"
         \/ /\ pc' \in {pc, "again"} /\ (pc' = "again" => pc \in {"update", "again"})
            /\ copy' = copy /\ chosen' = chosen /\ (fresh' => fresh)
  <1> TypeOK
    BY DEF VersionsInv
  <1>1. CASE Reconcile \/ RegistryFails \/ UpdateStatusAnswerLost
    BY <1>1
    DEF Reconcile, Fetch, KeepVersions, ChangeVersions, RegistryFails, UpdateStatus,
        UpdateStatusFails, UpdateStatusAnswerLost, Write, TryAgain, Requeue,
        RequeueAfterHour, Return
  <1>2. CASE Panic \/ Restart
    BY <1>2 DEF Panic, Restart, ProcessStarts, Return
  <1>3. CASE UNCHANGED call
    BY <1>3 DEF call, TypeOK
  <1>4. CASE UNCHANGED <<pc, copy, chosen>> /\ (fresh' => fresh)
    BY <1>4 DEF TypeOK
  <1>5. CASE \E p \in Objects : \E object : WriteObject(p, object)
    BY <1>4, <1>5 DEF WriteObject
  <1> QED
    BY <1>1, <1>2, <1>3, <1>5
    DEF Next, vars, InformerSync, HourPasses, PushOrRemoveTag, Create, Delete,
        EditBlacklist

Truthful(o) == Entries(objs[o].status) = Wanted(objs[o].blacklist)

\* An object with the right status, which no late write of another one threatens.
StaysTruthful(o) ==
    /\ o \in Exist(objs) /\ Truthful(o)
    /\ pc \in {"update", "again"} /\ chosen = o /\ fresh
         => Entries(copy.status) = Wanted(copy.blacklist)

LEMMA TruthfulKept ==
  ASSUME NEW o \in Objects, VersionsInv, StaysTruthful(o),
         [Next]_vars, [~Requested(o)]_vars
  PROVE  StaysTruthful(o)'
  <1>1. o \in Exist(objs)
    BY DEF StaysTruthful
  <1>2. /\ tags' = tags /\ o \in Exist(objs')
        /\ objs'[o] = objs[o] \/ (chosen = o /\ fresh /\ pc \in {"update", "again"}
                                    /\ objs'[o] = copy)
    BY <1>1, UnaskedStep
  <1>3. Entries(objs'[o].status) = Wanted(objs'[o].blacklist)
    BY <1>2 DEF StaysTruthful, Truthful
  <1>4. ASSUME pc' \in {"update", "again"}, chosen' = o, fresh'
        PROVE  Entries(copy'.status) = Wanted(copy'.blacklist)
    <2>1. CASE ChangeVersions
      <3>1. /\ copy' \in updateVersions(copy, Latest) /\ ~LatestReleasePanics
            /\ copy \in Object /\ tags \subseteq Tags
        BY <2>1 DEF ChangeVersions, VersionsInv, TypeOK
      <3> QED
        BY <3>1, UpdateIsWanted
    <2>2. CASE /\ pc' \in {pc, "again"} /\ (pc' = "again" => pc \in {"update", "again"})
               /\ copy' = copy /\ chosen' = chosen /\ (fresh' => fresh)
      BY <1>4, <2>2 DEF StaysTruthful
    <2> QED
      BY <1>4, <2>1, <2>2, UnaskedCopy
  <1>5. Truthful(o)'
    BY <1>2, <1>3 DEF Truthful, Entries, Wanted
  <1>6. (pc \in {"update", "again"} /\ chosen = o /\ fresh
           => Entries(copy.status) = Wanted(copy.blacklist))'
    BY <1>2, <1>4 DEF Entries, Wanted
  <1> QED
    BY <1>2, <1>5, <1>6 DEF StaysTruthful, Exist

\* Once the status of an object lists the latest release of every version that
\* is not on its blacklist, and nothing else, it goes on doing so, until a tag
\* is pushed or removed or the object is edited, created or deleted: no late
\* write, retry, restart or lost answer brings an older list back.
THEOREM StatusStaysTrue ==
  ASSUME NEW CONSTANT o \in Objects
  PROVE  Spec => [](o \in Exist(objs) /\ Truthful(o) /\ pc \notin {"update", "again"}
                      => ([][~Requested(o)]_vars
                            => [](o \in Exist(objs) /\ Truthful(o))))
  <1>1. o \in Exist(objs) /\ Truthful(o) /\ pc \notin {"update", "again"}
          => StaysTruthful(o)
    BY DEF StaysTruthful
  <1>2. VersionsInv /\ StaysTruthful(o) /\ [Next]_vars /\ [~Requested(o)]_vars
          => StaysTruthful(o)'
    BY TruthfulKept
  <1>3. StaysTruthful(o) => o \in Exist(objs) /\ Truthful(o)
    BY DEF StaysTruthful
  <1> QED
    BY <1>1, <1>2, <1>3, VersionsHold, PTL DEF Spec

\* No call is about to write the object: its copy is out of date, or it finds
\* nothing to change.
Unwritten(o) ==
    /\ o \in Exist(objs) /\ objs[o].blacklist = {} /\ Truthful(o)
    /\ pc = "tags" /\ chosen = o /\ fresh => copy = objs[o]
    /\ pc \in {"update", "again"} /\ chosen = o => ~fresh

LEMMA UnwrittenKept ==
  ASSUME NEW o \in Objects, VersionsInv, Unwritten(o),
         [Next]_vars, [~Requested(o)]_vars
  PROVE  Unwritten(o)' /\ objs'[o] = objs[o]
  <1>1. o \in Exist(objs)
    BY DEF Unwritten
  <1>2. tags' = tags /\ o \in Exist(objs') /\ objs'[o] = objs[o]
    BY <1>1, UnaskedStep DEF Unwritten
  <1>3. Truthful(o)' /\ objs'[o].blacklist = {}
    BY <1>2 DEF Unwritten, Truthful, Entries, Wanted
  <1>4. ASSUME pc' = "tags", chosen' = o, fresh'
        PROVE  copy' = objs'[o]
    <2>1. CASE \E p \in Objects : Fetch(p)
      BY <1>2, <1>4, <2>1 DEF Fetch, VersionsInv, CacheFollows
    <2>2. CASE ~\E p \in Objects : Fetch(p)
      <3>1. pc = "tags" /\ UNCHANGED <<copy, chosen>> /\ (fresh' => fresh)
        BY <1>4, <2>2
        DEF Next, vars, call, Reconcile, KeepVersions, ChangeVersions, RegistryFails,
            UpdateStatus, UpdateStatusFails, UpdateStatusAnswerLost, TryAgain, Requeue,
            RequeueAfterHour, Return, Panic, Restart, ProcessStarts, InformerSync,
            HourPasses, PushOrRemoveTag, Create, Delete, EditBlacklist, WriteObject
      <3> QED
        BY <1>2, <1>4, <3>1 DEF Unwritten
    <2> QED
      BY <2>1, <2>2
  <1>5. ASSUME pc' \in {"update", "again"}, chosen' = o
        PROVE  ~fresh'
    <2>1. CASE ChangeVersions
      <3>1. ~UpToDate /\ pc = "tags" /\ chosen' = chosen /\ fresh' = fresh
        BY <2>1 DEF ChangeVersions
      <3>2. fresh => copy = objs[o]
        BY <1>5, <3>1 DEF Unwritten
      <3>3. Nice(objs[o].status) /\ tags \subseteq Tags
        BY <1>1 DEF VersionsInv, NiceCopies, TypeOK
      <3>4. drupalVersionsEqual(objs[o].status, Latest) /\ objs[o].blacklist = {}
        BY <3>3, ComparisonOfNice DEF Unwritten, Truthful
      <3> QED
        BY <3>1, <3>2, <3>4 DEF UpToDate
    <2>2. CASE /\ pc' \in {pc, "again"} /\ (pc' = "again" => pc \in {"update", "again"})
               /\ copy' = copy /\ chosen' = chosen /\ (fresh' => fresh)
      BY <1>5, <2>2 DEF Unwritten
    <2> QED
      BY <1>5, <2>1, <2>2, UnaskedCopy
  <1> QED
    BY <1>2, <1>3, <1>4, <1>5 DEF Unwritten, Exist

\* An object without a blacklist whose status is right when a call ends is not
\* written again until somebody asks for something else: the calls that every
\* hour, every event and every restart start all end with nothing to do.
\* WritesCease, from the first such moment on.
THEOREM NoFurtherWrite ==
  ASSUME NEW CONSTANT o \in Objects
  PROVE  Spec => [](o \in Exist(objs) /\ Truthful(o) /\ objs[o].blacklist = {} /\ pc = "idle"
                      => ([][~Requested(o)]_vars => [][objs'[o] = objs[o]]_vars))
  <1>1. o \in Exist(objs) /\ Truthful(o) /\ objs[o].blacklist = {} /\ pc = "idle"
          => Unwritten(o)
    BY DEF Unwritten
  <1>2. VersionsInv /\ Unwritten(o) /\ [Next]_vars /\ [~Requested(o)]_vars
          => Unwritten(o)' /\ [objs'[o] = objs[o]]_vars
    BY UnwrittenKept
  <1> QED
    BY <1>1, <1>2, VersionsHold, PTL DEF Spec
=============================================================================
