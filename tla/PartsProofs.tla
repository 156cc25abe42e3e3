---------------------------- MODULE PartsProofs -----------------------------
(***************************************************************************)
(* Theorems about the parts that share no state: start() and stop() of     *)
(* StartStop, the stamps and texts of Stamps, the settings and the loggers *)
(* of Registry, what CsvRetention removes, how long CondSleep sleeps, what *)
(* the Conversions return; and about MCParts, in which one of them moves.  *)
(***************************************************************************)
EXTENDS MCParts, TimeTextProofs, SequenceTheorems, WellFoundedInduction

-----------------------------------------------------------------------------
(***************************************************************************)
(* StartStop, for any number of threads that call start() and stop() and   *)
(* any number of workers.                                                  *)
(*                                                                         *)
(* The inductive invariant has four parts: the types; what is true of the  *)
(* std::thread objects however the calls overlap (ObjectInv); where a      *)
(* stop() stands as long as none has met another call (StopInv); and who   *)
(* owns the threads as long as no start() has met another call (StartInv). *)
(***************************************************************************)

(***************************************************************************)
(* The objects and threads, however the calls overlap.                     *)
(***************************************************************************)
\* A pointer refers to an object that was made for it.
PointersRefer ==
    \A r \in Roles :
        pointer[r] # Null => pointer[r] \in 1..born /\ roleOf[pointer[r]] = r

\* Objects are made in order, each with its thread.
OnlyBorn ==
    \A w \in Workers :
        IF w > born THEN object[w] = "none" /\ thread[w] = "none"
        ELSE object[w] # "none"

\* A thread that runs has a joinable object, and so has one that is waited for.
JoinableOnes ==
    /\ \A w \in Workers : thread[w] = "running" => object[w] = "joinable"
    /\ \A w \in joining : object[w] = "joinable"

\* Each join() waits for an object of its own.
WaitsApart ==
    /\ \A c \in Controllers : op[c] = "wait" => waited[c] \in joining
    /\ \A c, d \in Controllers :
          op[c] = "wait" /\ op[d] = "wait" /\ c # d => waited[c] # waited[d]

ObjectInv == PointersRefer /\ OnlyBorn /\ JoinableOnes /\ WaitsApart

Live(r)   == pointer[r] = Null \/ object[pointer[r]] \in {"joinable", "joined"}
Joined(r) == pointer[r] = Null \/ object[pointer[r]] = "joined"
Freed(r)  == pointer[r] = Null \/ object[pointer[r]] = "deleted"

-----------------------------------------------------------------------------
(***************************************************************************)
(* The calls, as long as no stop() has met another one.                    *)
(***************************************************************************)
StopAlone ==
    \A c, d \in Controllers : op[c] \in StopOps /\ c # d => op[d] = "out"

\* Outside of the last part of stop(), no pointer refers to a deleted object.
NothingFreed ==
    (\A c \in Controllers : op[c] \notin {"delete", "null"}) =>
        \A r \in Roles : Live(r)

\* The place that stop() has reached tells which objects are joined, deleted,
\* or forgotten.
StopPlace(c) ==
    /\ op[c] \in {"join", "wait"} => Referred(c) = "joinable"
    /\ op[c] = "wait" => waited[c] = pointer[role[c]]
    /\ op[c] \in {"test", "join", "wait"} /\ role[c] = "clear" => Joined("logging")
    /\ op[c] = "delete" => Joined("clear")
    /\ op[c] = "delete" /\ role[c] = "logging" => Joined("logging")
    /\ op[c] = "delete" /\ role[c] = "clear" => Freed("logging")
    /\ op[c] = "null" => Freed("clear")
    /\ op[c] = "null" /\ role[c] = "logging" => Freed("logging")
    /\ op[c] = "null" /\ role[c] = "clear" => pointer["logging"] = Null

\* start() finds the pointers it has set, whatever other start() calls do.
StartPlace(c) ==
    /\ op[c] = "name" => pointer["logging"] # Null /\ pointer["clear"] # Null
    /\ op[c] = "new" /\ role[c] = "clear" => pointer["logging"] # Null

JoinersWait ==
    \A w \in joining : \E c \in Controllers : op[c] = "wait" /\ waited[c] = w

StopInv ==
    ~stopMet =>
        /\ ~aborted
        /\ StopAlone
        /\ NothingFreed
        /\ \A c \in Controllers : StopPlace(c) /\ StartPlace(c)
        /\ JoinersWait

-----------------------------------------------------------------------------
(***************************************************************************)
(* The threads, as long as no start() has met another call.                *)
(***************************************************************************)
StartAlone ==
    \A c, d \in Controllers : op[c] \in StartOps /\ c # d => op[d] = "out"

\* The pointers are free when start() sets them; stop() calls, also ones that
\* overlap, free an object before they forget it.
OwnerPlace(c) ==
    /\ op[c] \in {"new", "name"} => flag
    /\ op[c] = "set" => pointer["logging"] = Null /\ pointer["clear"] = Null
    /\ op[c] = "new" /\ role[c] = "logging" => pointer["logging"] = Null
    /\ op[c] = "new" => pointer["clear"] = Null
    /\ op[c] = "delete" /\ role[c] = "clear" => Freed("logging")
    /\ op[c] = "null" => Freed("clear")
    /\ op[c] = "null" /\ role[c] = "logging" => Freed("logging")
    /\ op[c] = "null" /\ role[c] = "clear" => pointer["logging"] = Null

NothingLeft ==
    ~flag /\ (\A c \in Controllers : op[c] \notin StopOps) =>
        pointer["logging"] = Null /\ pointer["clear"] = Null

RunningOwned ==
    \A w \in Workers : thread[w] = "running" => pointer[roleOf[w]] = w

ObjectsOwned ==
    \A w \in Workers : object[w] \in {"joinable", "joined"} => pointer[roleOf[w]] = w

StartInv ==
    ~startMet /\ ~aborted =>
        /\ StartAlone
        /\ \A c \in Controllers : OwnerPlace(c)
        /\ NothingLeft
        /\ RunningOwned
        /\ ~stopMet => ObjectsOwned

StartStopInv == StartStopTypeOK /\ ObjectInv /\ StopInv /\ StartInv

-----------------------------------------------------------------------------
(***************************************************************************)
(* Where a call goes next.                                                 *)
(***************************************************************************)
\* Goto moves one thread.
LEMMA GotoMoves ==
    ASSUME StartStopTypeOK, NEW c \in Controllers, NEW o, NEW r, Goto(c, o, r)
    PROVE  /\ op'[c] = o /\ role'[c] = r
           /\ \A d \in Controllers : d # c => op'[d] = op[d] /\ role'[d] = role[d]
  BY DEF StartStopTypeOK, Goto

\* Onward goes to the second pointer, and from there to what comes next.
LEMMA OnwardMoves ==
    ASSUME StartStopTypeOK, NEW c \in Controllers, NEW then, Onward(c, then)
    PROVE  /\ op'[c] = IF role[c] = "logging" THEN op[c] ELSE then
           /\ role'[c] = IF role[c] = "logging" THEN "clear" ELSE "logging"
           /\ \A d \in Controllers : d # c => op'[d] = op[d] /\ role'[d] = role[d]
  <1>1. role[c] \in {"logging", "clear"}
    BY DEF StartStopTypeOK, Roles
  <1>2. CASE role[c] = "logging"
    <2>1. Goto(c, op[c], "clear")
      BY <1>2 DEF Onward
    <2> QED
      BY <1>2, <2>1, GotoMoves
  <1>3. CASE role[c] = "clear"
    <2>1. Goto(c, then, "logging")
      BY <1>3 DEF Onward
    <2> QED
      BY <1>3, <2>1, GotoMoves
  <1> QED
    BY <1>1, <1>2, <1>3

Places == {"out"} \cup StartOps \cup StopOps

\* Both keep the types.
LEMMA GotoTypes ==
    ASSUME StartStopTypeOK, NEW c \in Controllers, NEW o \in Places,
           NEW r \in Roles, Goto(c, o, r)
    PROVE  op' \in [Controllers -> Places] /\ role' \in [Controllers -> Roles]
  BY DEF StartStopTypeOK, Goto, Places, loggerVars

LEMMA OnwardTypes ==
    ASSUME StartStopTypeOK, NEW c \in Controllers, NEW then \in Places, Onward(c, then)
    PROVE  op' \in [Controllers -> Places] /\ role' \in [Controllers -> Roles]
  <1>1. op[c] \in Places /\ {"clear", "logging"} \subseteq Roles
    BY DEF StartStopTypeOK, Places, Roles, loggerVars
  <1>2. CASE role[c] = "logging"
    <2>1. Goto(c, op[c], "clear")
      BY <1>2 DEF Onward
    <2> QED
      BY <1>1, <2>1, GotoTypes
  <1>3. CASE role[c] # "logging"
    <2>1. Goto(c, then, "logging")
      BY <1>3 DEF Onward
    <2> QED
      BY <1>1, <2>1, GotoTypes
  <1> QED
    BY <1>2, <1>3

\* A step that leaves the objects alone and lets nobody begin to wait.
LEMMA ObjectFrame ==
    ASSUME ObjectInv, UNCHANGED <<workerVars, waited>>,
           \A d \in Controllers : op'[d] = "wait" => op[d] = "wait"
    PROVE  ObjectInv'
  BY DEF ObjectInv, PointersRefer, OnlyBorn, JoinableOnes, WaitsApart, workerVars

-----------------------------------------------------------------------------
(***************************************************************************)
(* StartStopInv is inductive.                                                      *)
(***************************************************************************)
LEMMA StartStopInitInv == StartStopInit => StartStopInv
  <1> SUFFICES ASSUME StartStopInit PROVE StartStopInv
    OBVIOUS
  <1>1. StartStopTypeOK
    <2>1. 0 \in 0..MaxWorkers
      BY StartStopAssumption
    <2> QED
      BY <2>1 DEF StartStopInit, StartStopTypeOK, Roles, Null
  <1>2. ObjectInv
    BY StartStopAssumption
    DEF StartStopInit, ObjectInv, PointersRefer, OnlyBorn, JoinableOnes, WaitsApart,
        Workers, Roles, Null
  <1>3. \A c \in Controllers : op[c] = "out"
    BY DEF StartStopInit
  <1>4. \A r \in Roles : pointer[r] = Null
    BY DEF StartStopInit
  <1>5. StopInv
    BY <1>3, <1>4 DEF StartStopInit, StopInv, StopAlone, NothingFreed, StopPlace,
       StartPlace, JoinersWait, StopOps, Live
  <1>6. StartInv
    BY <1>3, <1>4 DEF StartStopInit, StartInv, StartAlone, OwnerPlace, NothingLeft,
       RunningOwned, ObjectsOwned, StartOps, Roles
  <1> QED
    BY <1>1, <1>2, <1>5, <1>6 DEF StartStopInv

LEMMA KeepsStartCall ==
    ASSUME StartStopInv, NEW c \in Controllers, StartCall(c)
    PROVE  StartStopInv'
  <1>0. StartStopTypeOK /\ ObjectInv /\ StopInv /\ StartInv
    BY DEF StartStopInv
  <1>1. /\ op[c] = "out" /\ op'[c] = "set" /\ role'[c] = "logging"
        /\ \A d \in Controllers : d # c => op'[d] = op[d] /\ role'[d] = role[d]
        /\ UNCHANGED <<flag, workerVars, waited, loggerVars, aborted>> /\ ~flag /\ ~aborted
    BY <1>0, GotoMoves DEF StartCall, At
  <1>2. StartStopTypeOK'
    <2>1. op' \in [Controllers -> Places] /\ role' \in [Controllers -> Roles]
      BY <1>0, GotoTypes DEF StartCall, Places, StartOps, Roles
    <2>2. startMet' \in BOOLEAN /\ stopMet' \in BOOLEAN
      BY <1>0 DEF StartCall, Meets, StartStopTypeOK
    <2> QED
      BY <1>0, <1>1, <2>1, <2>2 DEF StartStopTypeOK, Places, workerVars, loggerVars
  <1>3. ObjectInv'
    BY <1>0, <1>1, ObjectFrame
  <1>4. StopInv'
    <2> SUFFICES ASSUME ~stopMet' PROVE StopInv'
      BY DEF StopInv
    <2>1. ~stopMet /\ \A d \in Controllers : op'[d] \notin StopOps
      BY <1>1 DEF StartCall, Meets, StopOps
    <2> QED
      BY <1>0, <1>1, <2>1 DEF StopInv, StopAlone, NothingFreed, StopPlace,
         StartPlace, JoinersWait, Live, StopOps, workerVars
  <1>5. StartInv'
    <2> SUFFICES ASSUME ~startMet', ~aborted' PROVE StartInv'
      BY DEF StartInv
    <2>1. /\ ~startMet
          /\ \A d \in Controllers : d # c => op[d] = "out"
          /\ ~stopMet' => ~stopMet
      BY <1>1 DEF StartCall, Meets, StopOps
    <2>2. RunningOwned' /\ (~stopMet' => ObjectsOwned')
      BY <1>0, <1>1, <2>1 DEF StartInv, RunningOwned, ObjectsOwned, workerVars
    <2>4. StartAlone'
      BY <1>1, <2>1 DEF StartAlone, StartOps
    <2>5. \A d \in Controllers : op[d] \notin StopOps
      BY <1>1, <2>1 DEF StopOps
    <2>6. NothingLeft'
      BY <1>0, <1>1, <2>1, <2>5 DEF StartInv, NothingLeft, workerVars
    <2>3. \A d \in Controllers : OwnerPlace(d)'
      BY <1>0, <1>1, <2>1, <2>5 DEF StartInv, OwnerPlace, NothingLeft, workerVars
    <2> QED
      BY <2>2, <2>3, <2>4, <2>6 DEF StartInv
  <1> QED
    BY <1>2, <1>3, <1>4, <1>5 DEF StartStopInv

LEMMA KeepsStartSet ==
    ASSUME StartStopInv, NEW c \in Controllers, StartSet(c)
    PROVE  StartStopInv'
  <1>0. StartStopTypeOK /\ ObjectInv /\ StopInv /\ StartInv
    BY DEF StartStopInv
  <1>1. /\ op[c] = "set" /\ op'[c] = "new" /\ role'[c] = "logging" /\ flag' = TRUE
        /\ \A d \in Controllers : d # c => op'[d] = op[d] /\ role'[d] = role[d]
        /\ UNCHANGED <<workerVars, waited, loggerVars, aborted, startMet, stopMet>>
    BY <1>0, GotoMoves DEF StartSet, At
  <1>2. StartStopTypeOK'
    <2>1. op' \in [Controllers -> Places] /\ role' \in [Controllers -> Roles]
      BY <1>0, GotoTypes DEF StartSet, Places, StartOps, Roles
    <2> QED
      BY <1>0, <1>1, <2>1 DEF StartStopTypeOK, Places, workerVars, loggerVars
  <1>3. ObjectInv'
    BY <1>0, <1>1, ObjectFrame
  <1>4. StopInv'
    BY <1>0, <1>1 DEF StopInv, StopAlone, NothingFreed, StopPlace, StartPlace,
       JoinersWait, Live, Joined, Freed, Referred, StopOps, workerVars
  <1>5. StartInv'
    BY <1>0, <1>1 DEF StartInv, StartAlone, OwnerPlace, NothingLeft, RunningOwned,
       ObjectsOwned, Freed, StartOps, workerVars
  <1> QED
    BY <1>2, <1>3, <1>4, <1>5 DEF StartStopInv

LEMMA KeepsStartName ==
    ASSUME StartStopInv, NEW c \in Controllers, StartName(c)
    PROVE  StartStopInv'
  <1>0. StartStopTypeOK /\ ObjectInv /\ StopInv /\ StartInv
    BY DEF StartStopInv
  <1>a. CASE Referred(c) \in {"null", "deleted"} /\ Abort
    <2>1. StartStopTypeOK' /\ ObjectInv'
      BY <1>0, <1>a, ObjectFrame DEF Abort, StartStopTypeOK, workerVars, loggerVars
    <2>2. StartInv'
      BY <1>a DEF Abort, StartInv
    <2>3. stopMet
      <3> SUFFICES ASSUME ~stopMet PROVE FALSE
        OBVIOUS
      <3>1. op[c] = "name" /\ role[c] \in {"logging", "clear"}
        BY <1>0 DEF StartName, At, StartStopTypeOK, Roles
      <3>2. Live(role[c]) /\ pointer[role[c]] # Null
        BY <1>0, <3>1 DEF StopInv, StopAlone, NothingFreed, StartPlace, StopOps, Roles
      <3> QED
        BY <1>a, <3>2 DEF Live, Referred
    <2> QED
      BY <1>a, <2>1, <2>2, <2>3 DEF Abort, StopInv, StartStopInv
  <1>b. CASE /\ Onward(c, "out")
             /\ UNCHANGED <<flag, workerVars, waited, loggerVars, aborted, startMet,
                            stopMet>>
    <2>1. /\ op[c] = "name" /\ op'[c] \in {"name", "out"}
          /\ \A d \in Controllers : d # c => op'[d] = op[d] /\ role'[d] = role[d]
      BY <1>0, <1>b, OnwardMoves DEF StartName, At
    <2>2. StartStopTypeOK'
      <3>1. op' \in [Controllers -> Places] /\ role' \in [Controllers -> Roles]
        BY <1>0, <1>b, OnwardTypes DEF Places
      <3> QED
        BY <1>0, <1>b, <3>1 DEF StartStopTypeOK, Places, workerVars, loggerVars
    <2>3. ObjectInv'
      BY <1>0, <1>b, <2>1, ObjectFrame
    <2>4. StopInv'
      BY <1>0, <1>b, <2>1 DEF StopInv, StopAlone, NothingFreed, StopPlace, StartPlace,
         JoinersWait, Live, Joined, Freed, Referred, StopOps, workerVars
    <2>5. StartInv'
      BY <1>0, <1>b, <2>1 DEF StartInv, StartAlone, OwnerPlace, NothingLeft, RunningOwned,
         ObjectsOwned, Freed, StartOps, StopOps, workerVars
    <2> QED
      BY <2>2, <2>3, <2>4, <2>5 DEF StartStopInv
  <1> QED
    BY <1>a, <1>b DEF StartName

LEMMA KeepsStartNew ==
    ASSUME StartStopInv, NEW c \in Controllers, StartNew(c)
    PROVE  StartStopInv'
  <1>0. StartStopTypeOK /\ ObjectInv /\ StopInv /\ StartInv
    BY DEF StartStopInv
  <1> DEFINE w == born + 1
  <1>1. /\ op[c] = "new" /\ born \in 0..MaxWorkers /\ born < MaxWorkers
        /\ role[c] \in {"logging", "clear"} /\ w \in Workers /\ ~aborted
        /\ role[c] = "logging" => op'[c] = "new" /\ role'[c] = "clear"
        /\ role[c] = "clear" => op'[c] = "name" /\ role'[c] = "logging"
        /\ \A d \in Controllers : d # c => op'[d] = op[d] /\ role'[d] = role[d]
        /\ UNCHANGED <<flag, joining, waited, loggerVars, aborted, startMet, stopMet>>
    <2>1. /\ op[c] = "new" /\ born < MaxWorkers /\ ~aborted /\ Onward(c, "name")
          /\ UNCHANGED <<flag, joining, waited, loggerVars, aborted, startMet, stopMet>>
      BY DEF StartNew, At
    <2>2. born \in 0..MaxWorkers /\ role[c] \in {"logging", "clear"}
      BY <1>0 DEF StartStopTypeOK, Roles
    <2>3. w \in Workers
      BY <2>1, <2>2, StartStopAssumption DEF Workers
    <2> QED
      BY <1>0, <2>1, <2>2, <2>3, OnwardMoves
  <1>6. /\ born' = w
        /\ pointer'[role[c]] = w /\ roleOf'[w] = role[c]
        /\ object'[w] = "joinable" /\ thread'[w] = "running"
        /\ \A r \in Roles : r # role[c] => pointer'[r] = pointer[r]
        /\ \A v \in Workers : v # w => /\ object'[v] = object[v]
                                     /\ thread'[v] = thread[v]
                                     /\ roleOf'[v] = roleOf[v]
    BY <1>0, <1>1 DEF StartNew, StartStopTypeOK, Roles
  <1>7. /\ Null = 0 /\ w # 0 /\ born \in Nat
        /\ \A r \in Roles : pointer[r] \in Nat /\ pointer[r] # w
        /\ \A r \in Roles : pointer[r] # Null => pointer[r] \in Workers
        /\ object[w] = "none" /\ thread[w] = "none" /\ w \notin joining
    <2>1. object[w] = "none" /\ thread[w] = "none" /\ w \notin joining
      BY <1>0, <1>1 DEF ObjectInv, OnlyBorn, JoinableOnes
    <2>2. \A r \in Roles : pointer[r] \in Nat /\ pointer[r] # w
      BY <1>0, <1>1 DEF ObjectInv, PointersRefer, Null, StartStopTypeOK
    <2>3. \A r \in Roles : pointer[r] # Null => pointer[r] \in Workers
      BY <1>0, <1>1, StartStopAssumption DEF ObjectInv, PointersRefer, Null, Workers
    <2> QED
      BY <1>1, <2>1, <2>2, <2>3 DEF Null
  <1>2. StartStopTypeOK'
    <2>1. op' \in [Controllers -> Places] /\ role' \in [Controllers -> Roles]
      BY <1>0, OnwardTypes DEF StartNew, Places, StartOps
    <2>2. /\ born' \in 0..MaxWorkers /\ pointer' \in [Roles -> 0..MaxWorkers]
          /\ roleOf' \in [Workers -> Roles]
      BY <1>0, <1>1 DEF StartNew, StartStopTypeOK, Workers
    <2>3. /\ object' \in [Workers -> {"none", "joinable", "joined", "deleted"}]
          /\ thread' \in [Workers -> {"none", "running", "ended"}]
      BY <1>0, <1>1 DEF StartNew, StartStopTypeOK
    <2> QED
      BY <1>0, <1>1, <2>1, <2>2, <2>3 DEF StartStopTypeOK, Places, loggerVars
  <1> HIDE DEF w
  <1>3. ObjectInv'
    <2>1. PointersRefer'
      BY <1>0, <1>1, <1>6, <1>7 DEF ObjectInv, PointersRefer, w
    <2>2. OnlyBorn'
      BY <1>0, <1>1, <1>6, <1>7 DEF ObjectInv, OnlyBorn, w, Workers
    <2>3. JoinableOnes'
      BY <1>0, <1>1, <1>6, <1>7 DEF ObjectInv, JoinableOnes, StartStopTypeOK
    <2>4. WaitsApart'
      BY <1>0, <1>1 DEF ObjectInv, WaitsApart
    <2> QED
      BY <2>1, <2>2, <2>3, <2>4 DEF ObjectInv
  <1>4. StopInv'
    <2> SUFFICES ASSUME ~stopMet PROVE StopInv'
      BY <1>1 DEF StopInv
    <2>1. \A d \in Controllers : op[d] \notin StopOps /\ op'[d] \notin StopOps
      BY <1>0, <1>1 DEF StopInv, StopAlone, StopOps
    <2>2. (\A r \in Roles : Live(r)) /\ joining = {}
      BY <1>0, <2>1 DEF StopInv, NothingFreed, JoinersWait, StopOps
    <2>3. \A r \in Roles : Live(r)'
      BY <1>6, <1>7, <2>2 DEF Live
    <2>4. \A d \in Controllers : StopPlace(d)'
      BY <2>1 DEF StopPlace, StopOps
    <2>5. \A d \in Controllers : StartPlace(d)'
      BY <1>0, <1>1, <1>6, <1>7 DEF StopInv, StartPlace, Roles
    <2> QED
      BY <1>1, <2>1, <2>2, <2>3, <2>4, <2>5
      DEF StopInv, StopAlone, NothingFreed, JoinersWait
  <1>5. StartInv'
    <2> SUFFICES ASSUME ~startMet PROVE StartInv'
      BY <1>1 DEF StartInv
    <2>1. \A d \in Controllers : d # c => op[d] = "out" /\ op'[d] = "out"
      BY <1>0, <1>1 DEF StartInv, StartAlone, StartOps
    <2>2. flag /\ pointer[role[c]] = Null
      BY <1>0, <1>1 DEF StartInv, OwnerPlace
    <2>3. StartAlone' /\ NothingLeft'
      BY <1>1, <2>1, <2>2 DEF StartAlone, NothingLeft, StartOps
    <2>4. \A d \in Controllers : OwnerPlace(d)'
      BY <1>0, <1>1, <1>6, <2>1, <2>2 DEF StartInv, OwnerPlace, Roles
    <2>5. ASSUME NEW v \in Workers, v # w, pointer[roleOf[v]] = v
          PROVE  pointer'[roleOf'[v]] = v
      BY <1>0, <1>6, <1>7, <2>2, <2>5 DEF StartStopTypeOK, Workers
    <2>6. RunningOwned' /\ (~stopMet' => ObjectsOwned')
      BY <1>0, <1>1, <1>6, <2>5 DEF StartInv, RunningOwned, ObjectsOwned
    <2> QED
      BY <2>3, <2>4, <2>6 DEF StartInv
  <1> QED
    BY <1>2, <1>3, <1>4, <1>5 DEF StartStopInv

LEMMA KeepsStopCall ==
    ASSUME StartStopInv, NEW c \in Controllers, StopCall(c)
    PROVE  StartStopInv'
  <1>0. StartStopTypeOK /\ ObjectInv /\ StopInv /\ StartInv
    BY DEF StartStopInv
  <1>1. /\ op[c] = "out" /\ op'[c] = "flush" /\ role'[c] = "logging" /\ flag' = FALSE
        /\ \A d \in Controllers : d # c => op'[d] = op[d] /\ role'[d] = role[d]
        /\ UNCHANGED <<workerVars, waited, loggerVars, aborted>> /\ ~aborted
    BY <1>0, GotoMoves DEF StopCall, At
  <1>2. StartStopTypeOK'
    <2>1. op' \in [Controllers -> Places] /\ role' \in [Controllers -> Roles]
      BY <1>0, GotoTypes DEF StopCall, Places, StopOps, Roles
    <2>2. startMet' \in BOOLEAN /\ stopMet' \in BOOLEAN
      BY <1>0 DEF StopCall, Meets, StartStopTypeOK
    <2> QED
      BY <1>0, <1>1, <2>1, <2>2 DEF StartStopTypeOK, Places, workerVars, loggerVars
  <1>3. ObjectInv'
    BY <1>0, <1>1, ObjectFrame
  <1>4. StopInv'
    <2> SUFFICES ASSUME ~stopMet' PROVE StopInv'
      BY DEF StopInv
    <2>1. ~stopMet /\ \A d \in Controllers : d # c => op[d] = "out"
      BY <1>1 DEF StopCall, Meets
    <2>2. \A d \in Controllers : op[d] = "out"
      BY <1>1, <2>1
    <2>3. (\A r \in Roles : Live(r)) /\ joining = {}
      BY <1>0, <2>1, <2>2 DEF StopInv, NothingFreed, JoinersWait
    <2>4. (\A r \in Roles : Live(r)') /\ joining' = {}
      BY <1>1, <2>3 DEF Live, workerVars
    <2>5. \A d \in Controllers : StopPlace(d)' /\ StartPlace(d)'
      BY <1>1, <2>1 DEF StopPlace, StartPlace
    <2>6. StopAlone'
      BY <1>1, <2>1 DEF StopAlone, StopOps
    <2> QED
      BY <1>1, <2>1, <2>4, <2>5, <2>6 DEF StopInv, NothingFreed, JoinersWait
  <1>5. StartInv'
    <2> SUFFICES ASSUME ~startMet', ~aborted' PROVE StartInv'
      BY DEF StartInv
    <2>1. /\ ~startMet /\ (~stopMet' => ~stopMet)
          /\ \A d \in Controllers : d # c => op[d] \notin StartOps
      BY <1>1 DEF StopCall, Meets
    <2>2. RunningOwned' /\ (~stopMet' => ObjectsOwned')
      BY <1>0, <1>1, <2>1 DEF StartInv, RunningOwned, ObjectsOwned, workerVars
    <2>3. StartAlone' /\ NothingLeft'
      BY <1>1, <2>1 DEF StartAlone, StartOps, NothingLeft, StopOps
    <2>4. \A d \in Controllers : OwnerPlace(d)'
      BY <1>0, <1>1, <2>1 DEF StartInv, OwnerPlace, Freed, StartOps, workerVars
    <2> QED
      BY <2>2, <2>3, <2>4 DEF StartInv
  <1> QED
    BY <1>2, <1>3, <1>4, <1>5 DEF StartStopInv

LEMMA KeepsStopTest ==
    ASSUME StartStopInv, NEW c \in Controllers, StopTest(c)
    PROVE  StartStopInv'
  <1>0. StartStopTypeOK /\ ObjectInv /\ StopInv /\ StartInv
    BY DEF StartStopInv
  <1>1. /\ op[c] = "test" /\ role[c] \in {"logging", "clear"} /\ ~aborted
        /\ \A d \in Controllers : d # c => op'[d] = op[d] /\ role'[d] = role[d]
        /\ UNCHANGED <<flag, workerVars, waited, loggerVars, aborted, startMet, stopMet>>
        /\ \/ Referred(c) = "joinable" /\ op'[c] = "join" /\ role'[c] = role[c]
           \/ Referred(c) # "joinable" /\ role[c] = "logging"
                /\ op'[c] = "test" /\ role'[c] = "clear"
           \/ Referred(c) # "joinable" /\ role[c] = "clear"
                /\ op'[c] = "delete" /\ role'[c] = "logging"
    <2>1. op[c] = "test" /\ role[c] \in {"logging", "clear"} /\ ~aborted
      BY <1>0 DEF StopTest, At, StartStopTypeOK, Roles
    <2>2. CASE Referred(c) = "joinable"
      <3>1. Goto(c, "join", role[c])
        BY <2>2 DEF StopTest
      <3> QED
        BY <1>0, <2>1, <2>2, <3>1, GotoMoves DEF StopTest
    <2>3. CASE Referred(c) # "joinable"
      <3>1. Onward(c, "delete")
        BY <2>3 DEF StopTest
      <3> QED
        BY <1>0, <2>1, <2>3, <3>1, OnwardMoves DEF StopTest
    <2> QED
      BY <2>2, <2>3
  <1>2. StartStopTypeOK'
    <2>1. op' \in [Controllers -> Places] /\ role' \in [Controllers -> Roles]
      <3>1. CASE Referred(c) = "joinable"
        BY <1>0, <1>1, <3>1, GotoTypes DEF StopTest, Places, StopOps, Roles
      <3>2. CASE Referred(c) # "joinable"
        BY <1>0, <1>1, <3>2, OnwardTypes DEF StopTest, Places, StopOps
      <3> QED
        BY <3>1, <3>2
    <2> QED
      BY <1>0, <1>1, <2>1 DEF StartStopTypeOK, Places, workerVars, loggerVars
  <1>3. ObjectInv'
    BY <1>0, <1>1, ObjectFrame
  <1>4. StopInv'
    <2> SUFFICES ASSUME ~stopMet PROVE StopInv'
      BY <1>1 DEF StopInv
    <2>1. \A d \in Controllers : d # c => op[d] = "out" /\ op'[d] = "out"
      BY <1>0, <1>1 DEF StopInv, StopAlone, StopOps
    <2>2. (\A r \in Roles : Live(r)) /\ joining = {}
      BY <1>0, <1>1, <2>1 DEF StopInv, NothingFreed, JoinersWait
    <2>3. /\ Referred(c) # "joinable" => Joined(role[c])
          /\ role[c] = "clear" => Joined("logging")
      BY <1>0, <1>1, <2>2 DEF Referred, Live, Joined, StopInv, StopPlace, Roles
    <2>4. StopPlace(c)'
      BY <1>1, <2>3 DEF StopPlace, Referred, Joined, workerVars
    <2>5. /\ (\A r \in Roles : Live(r)') /\ joining' = {}
          /\ \A d \in Controllers : StopPlace(d)' /\ StartPlace(d)'
      BY <1>1, <2>1, <2>2, <2>4 DEF Live, StopPlace, StartPlace, workerVars
    <2>6. StopAlone'
      BY <1>1, <2>1 DEF StopAlone, StopOps
    <2> QED
      BY <1>1, <2>5, <2>6 DEF StopInv, NothingFreed, JoinersWait
  <1>5. StartInv'
    <2> SUFFICES ASSUME ~startMet PROVE StartInv'
      BY <1>1 DEF StartInv
    <2>1. RunningOwned' /\ (~stopMet' => ObjectsOwned')
      BY <1>0, <1>1 DEF StartInv, RunningOwned, ObjectsOwned, workerVars
    <2>2. op'[c] \in StopOps /\ op'[c] \notin StartOps
      BY <1>1 DEF StopOps, StartOps
    <2>3. StartAlone' /\ NothingLeft'
      BY <1>0, <1>1, <2>2 DEF StartInv, StartAlone, StartOps, NothingLeft
    <2>4. \A d \in Controllers : OwnerPlace(d)'
      BY <1>0, <1>1 DEF StartInv, OwnerPlace, Freed, workerVars
    <2> QED
      BY <2>1, <2>3, <2>4 DEF StartInv
  <1> QED
    BY <1>2, <1>3, <1>4, <1>5 DEF StartStopInv

LEMMA KeepsStopJoin ==
    ASSUME StartStopInv, NEW c \in Controllers, StopJoin(c)
    PROVE  StartStopInv'
  <1>0. StartStopTypeOK /\ ObjectInv /\ StopInv /\ StartInv
    BY DEF StartStopInv
  <1>1. op[c] = "join" /\ ~aborted /\ role[c] \in {"logging", "clear"}
    BY <1>0 DEF StopJoin, At, StartStopTypeOK, Roles
  <1>2. ~stopMet => Referred(c) = "joinable" /\ joining = {}
    <2>1. ~stopMet => \A d \in Controllers : op[d] # "wait"
      BY <1>0, <1>1 DEF StopInv, StopAlone, StopOps
    <2> QED
      BY <1>0, <1>1, <2>1 DEF StopInv, StopPlace, JoinersWait
  <1>3. CASE Referred(c) \in {"null", "deleted"} /\ Abort
    <2>1. StartStopTypeOK' /\ ObjectInv'
      BY <1>0, <1>3, ObjectFrame DEF Abort, StartStopTypeOK, workerVars, loggerVars
    <2> QED
      BY <1>2, <1>3, <2>1 DEF Abort, StartInv, StopInv, StartStopInv
  <1>4. CASE /\ Referred(c) = "joined" \/ (Referred(c) = "joinable" /\ pointer[role[c]] \in joining)
             /\ Goto(c, "delete", "logging")
             /\ UNCHANGED <<flag, workerVars, waited, loggerVars, aborted, startMet,
                            stopMet>>
    <2>1. /\ op'[c] = "delete" /\ role'[c] = "logging" /\ stopMet
          /\ \A d \in Controllers : d # c => op'[d] = op[d] /\ role'[d] = role[d]
      BY <1>0, <1>2, <1>4, GotoMoves
    <2>2. StartStopTypeOK'
      <3>1. op' \in [Controllers -> Places] /\ role' \in [Controllers -> Roles]
        BY <1>0, <1>4, GotoTypes DEF Places, StopOps, Roles
      <3> QED
        BY <1>0, <1>4, <3>1 DEF StartStopTypeOK, Places, workerVars, loggerVars
    <2>3. ObjectInv'
      BY <1>0, <1>4, <2>1, ObjectFrame
    <2>4. StartInv'
      <3> SUFFICES ASSUME ~startMet PROVE StartInv'
        BY <1>4 DEF StartInv
      <3>1. RunningOwned'
        BY <1>0, <1>1, <1>4 DEF StartInv, RunningOwned, workerVars
      <3>2. StartAlone' /\ NothingLeft'
        BY <1>0, <1>1, <1>4, <2>1 DEF StartInv, StartAlone, StartOps, NothingLeft, StopOps
      <3>3. \A d \in Controllers : OwnerPlace(d)'
        BY <1>0, <1>1, <1>4, <2>1 DEF StartInv, OwnerPlace, Freed, workerVars
      <3> QED
        BY <1>4, <2>1, <3>1, <3>2, <3>3 DEF StartInv
    <2> QED
      BY <1>4, <2>1, <2>2, <2>3, <2>4 DEF StopInv, StartStopInv
  <1>5. CASE /\ Referred(c) = "joinable" /\ pointer[role[c]] \notin joining
             /\ joining' = joining \cup {pointer[role[c]]}
             /\ waited'  = [waited EXCEPT ![c] = pointer[role[c]]]
             /\ Goto(c, "wait", role[c])
             /\ UNCHANGED <<flag, pointer, born, roleOf, object, thread, loggerVars,
                            aborted, startMet, stopMet>>
    <2> DEFINE w == pointer[role[c]]
    <2>1. /\ op'[c] = "wait" /\ role'[c] = role[c] /\ waited'[c] = w
          /\ \A d \in Controllers : d # c => /\ op'[d] = op[d] /\ role'[d] = role[d]
                                          /\ waited'[d] = waited[d]
          /\ w # Null /\ object[w] = "joinable" /\ w \in Workers
      <3>1. op'[c] = "wait" /\ role'[c] = role[c]
            /\ \A d \in Controllers : d # c => op'[d] = op[d] /\ role'[d] = role[d]
        BY <1>0, <1>5, GotoMoves
      <3>2. waited'[c] = w /\ \A d \in Controllers : d # c => waited'[d] = waited[d]
        BY <1>0, <1>5 DEF StartStopTypeOK
      <3>3. w # Null /\ object[w] = "joinable"
        BY <1>5 DEF Referred
      <3>4. w \in Workers
        BY <1>0, <1>1, <3>3 DEF StartStopTypeOK, Workers, Null, Roles
      <3> QED
        BY <3>1, <3>2, <3>3, <3>4
    <2>2. StartStopTypeOK'
      <3>1. op' \in [Controllers -> Places] /\ role' \in [Controllers -> Roles]
        BY <1>0, <1>1, <1>5, GotoTypes DEF Places, StopOps, Roles
      <3>2. waited' \in [Controllers -> 0..MaxWorkers] /\ joining' \subseteq Workers
        BY <1>0, <1>5, <2>1 DEF StartStopTypeOK, Workers
      <3> QED
        BY <1>0, <1>5, <3>1, <3>2 DEF StartStopTypeOK, Places, loggerVars
    <2> HIDE DEF w
    <2>3. ObjectInv'
      <3>1. PointersRefer' /\ OnlyBorn' /\ JoinableOnes'
        BY <1>0, <1>5, <2>1 DEF ObjectInv, PointersRefer, OnlyBorn, JoinableOnes, w
      <3>2. WaitsApart'
        BY <1>0, <1>5, <2>1 DEF ObjectInv, WaitsApart, w
      <3> QED
        BY <3>1, <3>2 DEF ObjectInv
    <2>4. StopInv'
      <3> SUFFICES ASSUME ~stopMet PROVE StopInv'
        BY <1>5 DEF StopInv
      <3>1. \A d \in Controllers : d # c => op[d] = "out" /\ op'[d] = "out"
        BY <1>0, <1>1, <2>1 DEF StopInv, StopAlone, StopOps
      <3>2. \A r \in Roles : Live(r)'
        <4>1. \A d \in Controllers : op[d] \notin {"delete", "null"}
          BY <1>1, <3>1
        <4> QED
          BY <1>0, <1>5, <4>1 DEF StopInv, NothingFreed, Live
      <3>3. StopPlace(c)'
        BY <1>0, <1>1, <1>5, <2>1 DEF StopInv, StopPlace, Joined, Referred, w
      <3>4. \A d \in Controllers : StopPlace(d)' /\ StartPlace(d)'
        BY <2>1, <3>1, <3>3 DEF StopPlace, StartPlace
      <3>6. StopAlone' /\ ~aborted'
        BY <1>1, <1>5, <3>1 DEF StopAlone, StopOps
      <3>5. JoinersWait'
        BY <1>2, <1>5, <2>1 DEF JoinersWait, w
      <3> QED
        BY <1>1, <1>5, <3>1, <3>2, <3>4, <3>5, <3>6 DEF StopInv, NothingFreed
    <2>5. StartInv'
      <3> SUFFICES ASSUME ~startMet PROVE StartInv'
        BY <1>5 DEF StartInv
      <3>1. RunningOwned' /\ (~stopMet' => ObjectsOwned')
        BY <1>0, <1>1, <1>5 DEF StartInv, RunningOwned, ObjectsOwned
      <3>2. StartAlone' /\ NothingLeft'
        BY <1>0, <1>1, <1>5, <2>1 DEF StartInv, StartAlone, StartOps, NothingLeft, StopOps
      <3>3. \A d \in Controllers : OwnerPlace(d)'
        BY <1>0, <1>1, <1>5, <2>1 DEF StartInv, OwnerPlace, Freed
      <3> QED
        BY <3>1, <3>2, <3>3 DEF StartInv
    <2> QED
      BY <2>2, <2>3, <2>4, <2>5 DEF StartStopInv
  <1> QED
    BY <1>3, <1>4, <1>5 DEF StopJoin

LEMMA KeepsStopJoined ==
    ASSUME StartStopInv, NEW c \in Controllers, StopJoined(c)
    PROVE  StartStopInv'
  <1>0. StartStopTypeOK /\ ObjectInv /\ StopInv /\ StartInv
    BY DEF StartStopInv
  <1> DEFINE w == waited[c]
  <1>1. /\ op[c] = "wait" /\ ~aborted /\ role[c] \in {"logging", "clear"}
        /\ thread[w] = "ended" /\ w \in joining /\ w \in Workers
        /\ object[w] = "joinable"
        /\ UNCHANGED <<flag, pointer, born, roleOf, thread, loggerVars, aborted, startMet,
                       stopMet>>
    BY <1>0 DEF StopJoined, At, StartStopTypeOK, Roles, ObjectInv, WaitsApart, JoinableOnes
  <1>6. /\ role[c] = "logging" => op'[c] = "test" /\ role'[c] = "clear"
        /\ role[c] = "clear" => op'[c] = "delete" /\ role'[c] = "logging"
        /\ \A d \in Controllers : d # c => op'[d] = op[d] /\ role'[d] = role[d]
    BY <1>0, <1>1, GotoMoves DEF StopJoined
  <1>7. /\ object'[w] = "joined" /\ joining' = joining \ {w}
        /\ \A v \in Workers : v # w => object'[v] = object[v]
        /\ \A d \in Controllers : d # c => waited'[d] = waited[d]
    BY <1>0, <1>1 DEF StopJoined, StartStopTypeOK
  <1>2. StartStopTypeOK'
    <2>1. op' \in [Controllers -> Places] /\ role' \in [Controllers -> Roles]
      <3>1. CASE role[c] = "logging"
        BY <1>0, <3>1, GotoTypes DEF StopJoined, Places, StopOps, Roles
      <3>2. CASE role[c] # "logging"
        BY <1>0, <3>2, GotoTypes DEF StopJoined, Places, StopOps, Roles
      <3> QED
        BY <3>1, <3>2
    <2>2. object' \in [Workers -> {"none", "joinable", "joined", "deleted"}]
      BY <1>0 DEF StopJoined, StartStopTypeOK
    <2>4. waited' \in [Controllers -> 0..MaxWorkers]
      <3>1. Null \in 0..MaxWorkers
        BY StartStopAssumption DEF Null
      <3> QED
        BY <1>0, <3>1 DEF StopJoined, StartStopTypeOK
    <2>3. joining' \subseteq Workers
      BY <1>0, <1>7 DEF StartStopTypeOK
    <2> QED
      BY <1>0, <1>1, <2>1, <2>2, <2>3, <2>4 DEF StartStopTypeOK, Places, loggerVars
  <1> HIDE DEF w
  <1>3. ObjectInv'
    <2>1. PointersRefer' /\ OnlyBorn'
      BY <1>0, <1>1, <1>7 DEF ObjectInv, PointersRefer, OnlyBorn
    <2>2. JoinableOnes'
      BY <1>0, <1>1, <1>7 DEF ObjectInv, JoinableOnes, StartStopTypeOK
    <2>3. WaitsApart'
      BY <1>0, <1>1, <1>6, <1>7 DEF ObjectInv, WaitsApart, w
    <2> QED
      BY <2>1, <2>2, <2>3 DEF ObjectInv
  <1>4. StopInv'
    <2> SUFFICES ASSUME ~stopMet PROVE StopInv'
      BY <1>1 DEF StopInv
    <2>1. \A d \in Controllers : d # c => op[d] = "out" /\ op'[d] = "out"
      BY <1>0, <1>1, <1>6 DEF StopInv, StopAlone, StopOps
    <2>2. w = pointer[role[c]] /\ joining = {w}
      <3>1. w = pointer[role[c]]
        BY <1>0, <1>1 DEF StopInv, StopPlace, w
      <3>2. \A v \in joining : v = w
        BY <1>0, <2>1 DEF StopInv, JoinersWait, w
      <3> QED
        BY <1>1, <3>1, <3>2
    <2>3. \A r \in Roles : Live(r) /\ (pointer[r] # Null => pointer[r] \in Workers)
      <3>1. \A d \in Controllers : op[d] \notin {"delete", "null"}
        BY <1>1, <2>1
      <3> QED
        BY <1>0, <3>1 DEF StopInv, NothingFreed, StartStopTypeOK, Workers, Null
    <2>4. \A r \in Roles : Live(r)'
      BY <1>1, <1>7, <2>3 DEF Live
    <2>5. StopPlace(c)'
      BY <1>0, <1>1, <1>6, <1>7, <2>2, <2>3 DEF StopInv, StopPlace, Joined, Roles
    <2>6. \A d \in Controllers : StopPlace(d)' /\ StartPlace(d)'
      BY <1>1, <1>6, <2>1, <2>5 DEF StopPlace, StartPlace
    <2>7. StopAlone'
      BY <1>6, <2>1 DEF StopAlone, StopOps
    <2> QED
      BY <1>1, <1>7, <2>2, <2>4, <2>6, <2>7 DEF StopInv, NothingFreed, JoinersWait
  <1>5. StartInv'
    <2> SUFFICES ASSUME ~startMet PROVE StartInv'
      BY <1>1 DEF StartInv
    <2>1. RunningOwned' /\ (~stopMet' => ObjectsOwned')
      BY <1>0, <1>1, <1>7 DEF StartInv, RunningOwned, ObjectsOwned
    <2>2. StartAlone' /\ NothingLeft'
      BY <1>0, <1>1, <1>6 DEF StartInv, StartAlone, StartOps, NothingLeft, StopOps
    <2>3. \A r \in Roles : pointer[r] # Null => pointer[r] \in Workers
      BY <1>0 DEF StartStopTypeOK, Workers, Null
    <2>4. \A r \in Roles : Freed(r) => Freed(r)'
      BY <1>1, <1>7, <2>3 DEF Freed
    <2>5. \A d \in Controllers : OwnerPlace(d)'
      BY <1>0, <1>1, <1>6, <2>4 DEF StartInv, OwnerPlace, Roles
    <2> QED
      BY <2>1, <2>2, <2>5 DEF StartInv
  <1> QED
    BY <1>2, <1>3, <1>4, <1>5 DEF StartStopInv

LEMMA KeepsStopDelete ==
    ASSUME StartStopInv, NEW c \in Controllers, StopDelete(c)
    PROVE  StartStopInv'
  <1>0. StartStopTypeOK /\ ObjectInv /\ StopInv /\ StartInv
    BY DEF StartStopInv
  <1> DEFINE w == pointer[role[c]]
  <1>1. op[c] = "delete" /\ ~aborted /\ role[c] \in {"logging", "clear"}
    BY <1>0 DEF StopDelete, At, StartStopTypeOK, Roles
  <1>a. CASE Referred(c) \notin {"null", "joined"} /\ Abort
    <2>1. StartStopTypeOK' /\ ObjectInv'
      BY <1>0, <1>a, ObjectFrame DEF Abort, StartStopTypeOK, workerVars, loggerVars
    <2>2. stopMet
      BY <1>0, <1>1, <1>a DEF StopInv, StopPlace, Joined, Referred
    <2> QED
      BY <1>a, <2>1, <2>2 DEF Abort, StartInv, StopInv, StartStopInv
  <1>b. CASE /\ Referred(c) \in {"null", "joined"}
             /\ object' = IF w = Null THEN object ELSE [object EXCEPT ![w] = "deleted"]
             /\ Onward(c, "null")
             /\ UNCHANGED <<flag, pointer, born, roleOf, thread, joining, waited,
                            loggerVars, aborted, startMet, stopMet>>
    <2>1. /\ role[c] = "logging" => op'[c] = "delete" /\ role'[c] = "clear"
          /\ role[c] = "clear" => op'[c] = "null" /\ role'[c] = "logging"
          /\ \A d \in Controllers : d # c => op'[d] = op[d] /\ role'[d] = role[d]
      BY <1>0, <1>1, <1>b, OnwardMoves
    <2>2. \A r \in Roles : pointer[r] # Null =>
              pointer[r] \in Workers /\ roleOf[pointer[r]] = r
      BY <1>0 DEF ObjectInv, PointersRefer, StartStopTypeOK, Workers, Null
    <2>3. /\ w # Null => object[w] = "joined" /\ object'[w] = "deleted"
          /\ \A v \in Workers : v # w => object'[v] = object[v]
      BY <1>0, <1>1, <1>b, <2>2 DEF Referred, StartStopTypeOK, Roles
    <2>4. StartStopTypeOK'
      <3>1. op' \in [Controllers -> Places] /\ role' \in [Controllers -> Roles]
        BY <1>0, <1>b, OnwardTypes DEF Places, StopOps
      <3>2. object' \in [Workers -> {"none", "joinable", "joined", "deleted"}]
        BY <1>0, <1>b DEF StartStopTypeOK
      <3> QED
        BY <1>0, <1>b, <3>1, <3>2 DEF StartStopTypeOK, Places, loggerVars
    <2> HIDE DEF w
    <2>5. \A v \in Workers : v = w => v # Null
      BY DEF Workers, Null
    <2>6. ObjectInv'
      <3>1. PointersRefer'
        BY <1>0, <1>b DEF ObjectInv, PointersRefer
      <3>2. OnlyBorn' /\ JoinableOnes'
        BY <1>0, <1>b, <2>3, <2>5 DEF ObjectInv, OnlyBorn, JoinableOnes, StartStopTypeOK
      <3>3. WaitsApart'
        BY <1>0, <1>1, <1>b, <2>1 DEF ObjectInv, WaitsApart
      <3> QED
        BY <3>1, <3>2, <3>3 DEF ObjectInv
    <2>a. /\ role[c] = "logging" => Freed("logging")'
          /\ role[c] = "clear" => Freed("clear")'
          /\ Freed("logging") => Freed("logging")'
          /\ Freed("clear") => Freed("clear")'
          /\ role[c] = "logging" /\ Joined("clear") => Joined("clear")'
      BY <1>1, <1>b, <2>2, <2>3 DEF Freed, Joined, w, Roles
    <2>8. StopInv'
      <3> SUFFICES ASSUME ~stopMet PROVE StopInv'
        BY <1>b DEF StopInv
      <3>1. \A d \in Controllers : d # c => op[d] = "out" /\ op'[d] = "out"
        BY <1>0, <1>1, <2>1 DEF StopInv, StopAlone, StopOps
      <3>2. joining' = {}
        BY <1>0, <1>1, <1>b, <3>1 DEF StopInv, JoinersWait
      <3>3. StopPlace(c)'
        BY <1>0, <1>1, <2>1, <2>a DEF StopInv, StopPlace
      <3>4. \A d \in Controllers : StopPlace(d)' /\ StartPlace(d)'
        BY <1>1, <2>1, <3>1, <3>3 DEF StopPlace, StartPlace
      <3>5. StopAlone' /\ NothingFreed'
        BY <1>1, <2>1, <3>1 DEF StopAlone, StopOps, NothingFreed
      <3> QED
        BY <1>1, <1>b, <3>2, <3>4, <3>5 DEF StopInv, JoinersWait
    <2>9. StartInv'
      <3> SUFFICES ASSUME ~startMet PROVE StartInv'
        BY <1>b DEF StartInv
      <3>1. RunningOwned' /\ (~stopMet' => ObjectsOwned')
        BY <1>0, <1>1, <1>b, <2>3, <2>5 DEF StartInv, RunningOwned, ObjectsOwned
      <3>2. StartAlone' /\ NothingLeft'
        BY <1>0, <1>1, <1>b, <2>1 DEF StartInv, StartAlone, StartOps, NothingLeft, StopOps
      <3>3. \A d \in Controllers : OwnerPlace(d)'
        BY <1>0, <1>1, <1>b, <2>1, <2>a DEF StartInv, OwnerPlace
      <3> QED
        BY <3>1, <3>2, <3>3 DEF StartInv
    <2> QED
      BY <2>4, <2>6, <2>8, <2>9 DEF StartStopInv
  <1> QED
    BY <1>a, <1>b DEF StopDelete

LEMMA KeepsStopNull ==
    ASSUME StartStopInv, NEW c \in Controllers, StopNull(c)
    PROVE  StartStopInv'
  <1>0. StartStopTypeOK /\ ObjectInv /\ StopInv /\ StartInv
    BY DEF StartStopInv
  <1> DEFINE w == pointer[role[c]]
  <1>1. /\ op[c] = "null" /\ ~aborted /\ role[c] \in {"logging", "clear"}
        /\ UNCHANGED <<flag, born, roleOf, object, thread, joining, waited, loggerVars,
                       aborted, startMet, stopMet>>
        /\ role[c] = "logging" => op'[c] = "null" /\ role'[c] = "clear"
        /\ role[c] = "clear" => op'[c] = "out" /\ role'[c] = "logging"
        /\ \A d \in Controllers : d # c => op'[d] = op[d] /\ role'[d] = role[d]
    <2>1. /\ op[c] = "null" /\ ~aborted /\ role[c] \in {"logging", "clear"}
          /\ Onward(c, "out")
      BY <1>0 DEF StopNull, At, StartStopTypeOK, Roles
    <2> QED
      BY <1>0, <2>1, OnwardMoves DEF StopNull
  <1>6. /\ pointer'[role[c]] = Null
        /\ \A r \in Roles : r # role[c] => pointer'[r] = pointer[r]
        /\ \A r \in Roles : (pointer[r] = Null => pointer'[r] = Null) /\ (Freed(r) => Freed(r)')
    BY <1>0, <1>1 DEF StopNull, StartStopTypeOK, Roles, Freed
  <1>2. StartStopTypeOK'
    <2>1. op' \in [Controllers -> Places] /\ role' \in [Controllers -> Roles]
      BY <1>0, OnwardTypes DEF StopNull, Places
    <2>2. pointer' \in [Roles -> 0..MaxWorkers]
      <3>1. Null \in 0..MaxWorkers
        BY StartStopAssumption DEF Null
      <3> QED
        BY <1>0, <3>1 DEF StopNull, StartStopTypeOK
    <2> QED
      BY <1>0, <1>1, <2>1, <2>2 DEF StartStopTypeOK, Places, loggerVars
  <1>3. ObjectInv'
    <2>1. PointersRefer'
      BY <1>0, <1>1, <1>6 DEF ObjectInv, PointersRefer
    <2>2. OnlyBorn' /\ JoinableOnes' /\ WaitsApart'
      BY <1>0, <1>1 DEF ObjectInv, OnlyBorn, JoinableOnes, WaitsApart
    <2> QED
      BY <2>1, <2>2 DEF ObjectInv
  <1>4. StopInv'
    <2> SUFFICES ASSUME ~stopMet PROVE StopInv'
      BY <1>1 DEF StopInv
    <2>1. \A d \in Controllers : d # c => op[d] = "out" /\ op'[d] = "out"
      BY <1>0, <1>1 DEF StopInv, StopAlone, StopOps
    <2>2. joining' = {}
      BY <1>0, <1>1, <2>1 DEF StopInv, JoinersWait
    <2>3. /\ StopPlace(c)'
          /\ role[c] = "clear" => pointer'["logging"] = Null /\ pointer'["clear"] = Null
      BY <1>0, <1>1, <1>6 DEF StopInv, StopPlace, Roles
    <2>4. \A d \in Controllers : StopPlace(d)' /\ StartPlace(d)'
      BY <1>1, <2>1, <2>3 DEF StopPlace, StartPlace
    <2>5. StopAlone' /\ NothingFreed'
      BY <1>1, <2>1, <2>3 DEF StopAlone, StopOps, NothingFreed, Live, Roles
    <2> QED
      BY <1>1, <2>2, <2>4, <2>5 DEF StopInv, JoinersWait
  <1>5. StartInv'
    <2> SUFFICES ASSUME ~startMet PROVE StartInv'
      BY <1>1 DEF StartInv
    <2>1. /\ Freed(role[c]) /\ (role[c] = "clear" => pointer["logging"] = Null)
          /\ \A d \in Controllers : d # c => op[d] \notin StartOps
      BY <1>0, <1>1 DEF StartInv, OwnerPlace, StartAlone
    <2>2. ASSUME NEW v \in Workers, object[v] \in {"joinable", "joined"},
                 pointer[roleOf[v]] = v
          PROVE  pointer'[roleOf'[v]] = v
      <3>1. v # Null /\ roleOf[v] \in Roles
        <4>1. \A u \in Workers : u # Null
          BY StartStopAssumption DEF Workers, Null
        <4> QED
          BY <1>0, <4>1 DEF StartStopTypeOK
      <3>2. roleOf[v] # role[c]
        BY <2>1, <2>2, <3>1 DEF Freed
      <3> QED
        BY <1>1, <1>6, <2>2, <3>1, <3>2
    <2>3. RunningOwned' /\ (~stopMet' => ObjectsOwned')
      BY <1>0, <1>1, <2>2 DEF StartInv, ObjectInv, JoinableOnes, RunningOwned, ObjectsOwned
    <2>4. StartAlone' /\ NothingLeft'
      BY <1>1, <1>6, <2>1 DEF StartAlone, StartOps, NothingLeft, StopOps, Roles
    <2>5. \A d \in Controllers : OwnerPlace(d)'
      BY <1>0, <1>1, <1>6 DEF StartInv, OwnerPlace, Roles
    <2> QED
      BY <2>3, <2>4, <2>5 DEF StartInv
  <1> QED
    BY <1>2, <1>3, <1>4, <1>5 DEF StartStopInv

\* A step of do_logging() with the logger, or of a flush() to a null FILE*.
LEMMA KeepsVisit ==
    ASSUME StartStopInv,
           UNCHANGED <<flag, workerVars, op, role, waited, aborted, startMet, stopMet>>,
           visit' \in [Workers -> {"none", "flush", "check", "open"}],
           fileOpen' \in BOOLEAN, nullWrite' \in {"none", "worker", "stop"}
    PROVE  StartStopInv'
  <1>1. StartStopTypeOK'
    BY DEF StartStopInv, StartStopTypeOK, workerVars
  <1>2. ObjectInv'
    BY DEF StartStopInv, ObjectInv, PointersRefer, OnlyBorn, JoinableOnes, WaitsApart,
       workerVars
  <1>3. StopInv'
    BY DEF StartStopInv, StopInv, StopAlone, NothingFreed, StopPlace, StartPlace,
       JoinersWait, Live, Joined, Freed, Referred, workerVars
  <1>4. StartInv'
    BY DEF StartStopInv, StartInv, StartAlone, OwnerPlace, NothingLeft, RunningOwned,
       ObjectsOwned, Freed, workerVars
  <1> QED
    BY <1>1, <1>2, <1>3, <1>4 DEF StartStopInv

LEMMA KeepsStopFlush ==
    ASSUME StartStopInv, NEW c \in Controllers, StopFlush(c)
    PROVE  StartStopInv'
  <1>0. StartStopTypeOK /\ ObjectInv /\ StopInv /\ StartInv
    BY DEF StartStopInv
  <1>a. CASE Goto(c, "test", "logging") /\ UNCHANGED loggerVars
    <2>1. /\ op[c] = "flush" /\ op'[c] = "test" /\ role'[c] = "logging"
          /\ \A d \in Controllers : d # c => op'[d] = op[d] /\ role'[d] = role[d]
          /\ UNCHANGED <<flag, workerVars, waited, loggerVars, aborted, startMet, stopMet>>
      BY <1>0, <1>a, GotoMoves DEF StopFlush, At
    <2>2. StartStopTypeOK'
      <3>1. op' \in [Controllers -> Places] /\ role' \in [Controllers -> Roles]
        BY <1>0, <1>a, GotoTypes DEF Places, StopOps, Roles
      <3> QED
        BY <1>0, <2>1, <3>1 DEF StartStopTypeOK, Places, workerVars, loggerVars
    <2>3. ObjectInv'
      BY <1>0, <2>1, ObjectFrame
    <2>4. StopInv'
      BY <1>0, <2>1 DEF StopInv, StopAlone, NothingFreed, StopPlace, StartPlace,
         JoinersWait, Live, Joined, Freed, Referred, StopOps, workerVars
    <2>5. StartInv'
      BY <1>0, <2>1 DEF StartInv, StartAlone, OwnerPlace, NothingLeft, RunningOwned,
         ObjectsOwned, Freed, StartOps, StopOps, workerVars
    <2> QED
      BY <2>2, <2>3, <2>4, <2>5 DEF StartStopInv
  <1>b. CASE nullWrite' = "stop" /\ UNCHANGED <<op, role, visit, fileOpen>>
    BY <1>0, <1>b, KeepsVisit DEF StopFlush, StartStopTypeOK
  <1> QED
    BY <1>a, <1>b DEF StopFlush

LEMMA KeepsWorkerEnds ==
    ASSUME StartStopInv, NEW w \in Workers, WorkerEnds(w)
    PROVE  StartStopInv'
  <1>0. StartStopTypeOK /\ ObjectInv /\ StopInv /\ StartInv
    BY DEF StartStopInv
  <1>1. /\ ~aborted /\ thread[w] = "running"
        /\ thread' = [thread EXCEPT ![w] = "ended"]
        /\ UNCHANGED <<flag, pointer, born, roleOf, object, joining, op, role, waited,
                       loggerVars, aborted, startMet, stopMet>>
    BY DEF WorkerEnds, Runs
  <1>2. StartStopTypeOK'
    BY <1>0, <1>1 DEF StartStopTypeOK, loggerVars
  <1>6. \A v \in Workers : thread'[v] = thread[v] \/ (v = w /\ thread'[v] = "ended")
    BY <1>0, <1>1 DEF StartStopTypeOK
  <1>3. ObjectInv'
    BY <1>0, <1>1, <1>6 DEF ObjectInv, PointersRefer, OnlyBorn, JoinableOnes, WaitsApart
  <1>4. StopInv'
    BY <1>0, <1>1 DEF StopInv, StopAlone, NothingFreed, StopPlace, StartPlace,
       JoinersWait, Live, Joined, Freed, Referred
  <1>5. StartInv'
    BY <1>0, <1>1, <1>6 DEF StartInv, StartAlone, OwnerPlace, NothingLeft, RunningOwned,
       ObjectsOwned, Freed
  <1> QED
    BY <1>2, <1>3, <1>4, <1>5 DEF StartStopInv

LEMMA KeepsVisits ==
    ASSUME StartStopInv, NEW w \in Workers,
           WorkerVisits(w) \/ WorkerFlushes(w) \/ WorkerCloses(w) \/ WorkerOpens(w)
    PROVE  StartStopInv'
  <1>1. StartStopTypeOK
    BY DEF StartStopInv
  <1>2. PICK v \in {"none", "flush", "check", "open"} : VisitNext(w, v)
    BY DEF WorkerVisits, WorkerFlushes, WorkerCloses, WorkerOpens
  <1>3. visit' \in [Workers -> {"none", "flush", "check", "open"}]
    BY <1>1, <1>2 DEF VisitNext, StartStopTypeOK
  <1>4. fileOpen' \in BOOLEAN /\ nullWrite' \in {"none", "worker", "stop"}
    BY <1>1 DEF WorkerVisits, WorkerFlushes, WorkerCloses, WorkerOpens, StartStopTypeOK
  <1> QED
    BY <1>2, <1>3, <1>4, KeepsVisit DEF VisitNext

LEMMA StartStopNextInv == StartStopInv /\ [StartStopNext]_startStopVars => StartStopInv'
  <1> SUFFICES ASSUME StartStopInv, [StartStopNext]_startStopVars PROVE StartStopInv'
    OBVIOUS
  <1>1. CASE \E c \in Controllers :
                \/ StartCall(c) \/ StartSet(c) \/ StartNew(c) \/ StartName(c)
                \/ StopCall(c) \/ StopFlush(c) \/ StopTest(c) \/ StopJoin(c)
                \/ StopJoined(c) \/ StopDelete(c) \/ StopNull(c)
    BY <1>1, KeepsStartCall, KeepsStartSet, KeepsStartNew, KeepsStartName, KeepsStopCall,
       KeepsStopFlush, KeepsStopTest, KeepsStopJoin, KeepsStopJoined, KeepsStopDelete,
       KeepsStopNull
  <1>2. CASE \E w \in Workers :
                \/ WorkerEnds(w) \/ WorkerVisits(w) \/ WorkerFlushes(w)
                \/ WorkerCloses(w) \/ WorkerOpens(w)
    BY <1>2, KeepsWorkerEnds, KeepsVisits
  <1>3. CASE UNCHANGED startStopVars
    <2>1. StartStopTypeOK
      BY DEF StartStopInv
    <2> QED
      BY <1>3, <2>1, KeepsVisit DEF startStopVars, loggerVars, StartStopTypeOK
  <1> QED
    BY <1>1, <1>2, <1>3 DEF StartStopNext

-----------------------------------------------------------------------------
(***************************************************************************)
(* The file of the logger is closed only in the middle of a rotation, by a *)
(* running do_logging(); and a worker finds it so only if it is not the    *)
(* only one.                                                               *)
(***************************************************************************)
VisitInv ==
    /\ \A w \in Workers :
          visit[w] # "none" => thread[w] = "running" /\ roleOf[w] = "logging"
    /\ ~fileOpen => \E w \in Workers : visit[w] = "open"
    /\ nullWrite # "none" => ~fileOpen
    /\ nullWrite = "worker" => startMet

\* A step that leaves the logger alone and ends no thread that is at it.
LEMMA VisitFrame ==
    ASSUME VisitInv, UNCHANGED loggerVars, startMet => startMet',
           \A w \in Workers : visit[w] # "none" =>
              thread'[w] = thread[w] /\ roleOf'[w] = roleOf[w]
    PROVE  VisitInv'
  BY DEF VisitInv, loggerVars

LEMMA StartStopNextVisit ==
    ASSUME StartStopInv, VisitInv, [StartStopNext]_startStopVars
    PROVE  VisitInv'
  <1>0. StartStopTypeOK /\ ObjectInv /\ StartInv
    BY DEF StartStopInv
  <1>1. CASE \/ UNCHANGED startStopVars
             \/ \E c \in Controllers :
                   \/ StartCall(c) \/ StartSet(c) \/ StartName(c) \/ StopCall(c)
                   \/ StopTest(c) \/ StopJoin(c) \/ StopJoined(c) \/ StopDelete(c)
                   \/ StopNull(c)
    <2>0. ASSUME NEW c \in Controllers, StartCall(c) \/ StopCall(c)
          PROVE  UNCHANGED <<loggerVars, thread, roleOf>> /\ (startMet => startMet')
      BY <2>0 DEF StartCall, StopCall, Meets, workerVars
    <2>2. ASSUME NEW c \in Controllers, StartSet(c) \/ StartName(c) \/ StopTest(c)
          PROVE  UNCHANGED <<loggerVars, thread, roleOf, startMet>>
      BY <2>2 DEF StartSet, StartName, StopTest, Abort, workerVars
    <2>3. ASSUME NEW c \in Controllers,
                 StopJoin(c) \/ StopJoined(c) \/ StopDelete(c) \/ StopNull(c)
          PROVE  UNCHANGED <<loggerVars, thread, roleOf, startMet>>
      BY <2>3 DEF StopJoin, StopJoined, StopDelete, StopNull, Abort, workerVars
    <2>1. UNCHANGED <<loggerVars, thread, roleOf>> /\ (startMet => startMet')
      BY <1>1, <2>0, <2>2, <2>3 DEF startStopVars, workerVars
    <2> QED
      BY <2>1, VisitFrame
  <1>2. ASSUME NEW c \in Controllers, StartNew(c)
        PROVE  VisitInv'
    <2>1. /\ born \in Nat /\ born < MaxWorkers /\ MaxWorkers \in Nat
          /\ UNCHANGED <<loggerVars, startMet>>
          /\ roleOf' = [roleOf EXCEPT ![born + 1] = role[c]]
          /\ thread' = [thread EXCEPT ![born + 1] = "running"]
      BY <1>0, <1>2, StartStopAssumption DEF StartNew, StartStopTypeOK
    <2>2. thread[born + 1] = "none"
      BY <1>0, <2>1 DEF ObjectInv, OnlyBorn, Workers
    <2>3. \A w \in Workers : visit[w] # "none" => w # born + 1
      BY <2>2 DEF VisitInv
    <2>4. \A w \in Workers :
              w # born + 1 => thread'[w] = thread[w] /\ roleOf'[w] = roleOf[w]
      BY <1>0, <2>1 DEF StartStopTypeOK
    <2> QED
      BY <2>1, <2>3, <2>4, VisitFrame
  <1>3. ASSUME NEW c \in Controllers, StopFlush(c)
        PROVE  VisitInv'
    BY <1>3 DEF StopFlush, VisitInv, loggerVars, workerVars
  <1>4. ASSUME NEW w \in Workers, WorkerEnds(w)
        PROVE  VisitInv'
    <2>1. \A v \in Workers : visit[v] # "none" => v # w
      BY <1>4 DEF WorkerEnds, Runs
    <2>2. \A v \in Workers : visit[v] # "none" => thread'[v] = thread[v]
      BY <1>0, <1>4, <2>1 DEF WorkerEnds, StartStopTypeOK
    <2> QED
      BY <1>4, <2>2, VisitFrame DEF WorkerEnds
  <1>5. ASSUME NEW w \in Workers, NEW v, VisitNext(w, v)
        PROVE  /\ UNCHANGED <<thread, roleOf, startMet, aborted>>
               /\ visit'[w] = v /\ \A u \in Workers : u # w => visit'[u] = visit[u]
    BY <1>0, <1>5 DEF VisitNext, workerVars, StartStopTypeOK
  <1>6. ASSUME NEW w \in Workers, WorkerVisits(w)
        PROVE  VisitInv'
    <2>1. VisitNext(w, "flush") /\ UNCHANGED <<fileOpen, nullWrite>>
          /\ thread[w] = "running" /\ roleOf[w] = "logging" /\ visit[w] = "none"
      BY <1>6 DEF WorkerVisits, Runs
    <2> QED
      BY <1>5, <2>1 DEF VisitInv
  <1>7. ASSUME NEW w \in Workers, WorkerFlushes(w)
        PROVE  VisitInv'
    <2>0. /\ visit[w] = "flush" /\ thread[w] = "running" /\ roleOf[w] = "logging"
          /\ UNCHANGED fileOpen /\ nullWrite = "none" /\ ~aborted
      BY <1>7 DEF WorkerFlushes, Runs, VisitInv
    <2>1. CASE ~fileOpen /\ nullWrite' = "worker" /\ VisitNext(w, "flush")
      <3>1. PICK u \in Workers : visit[u] = "open"
        BY <2>1 DEF VisitInv
      <3>2. u # w /\ thread[u] = "running" /\ roleOf[u] = "logging"
        BY <2>0, <3>1 DEF VisitInv
      <3>3. startMet
        BY <1>0, <2>0, <3>2 DEF StartInv, RunningOwned
      <3> QED
        BY <1>5, <2>0, <2>1, <3>1, <3>2, <3>3 DEF VisitInv
    <2>2. CASE VisitNext(w, IF flag THEN "check" ELSE "none") /\ UNCHANGED nullWrite
      <3>1. PICK v \in {"check", "none"} : VisitNext(w, v)
        BY <2>2
      <3> QED
        BY <1>5, <2>0, <2>2, <3>1 DEF VisitInv
    <2> QED
      BY <1>7, <2>1, <2>2 DEF WorkerFlushes
  <1>8. ASSUME NEW w \in Workers, WorkerCloses(w)
        PROVE  VisitInv'
    <2>0. /\ visit[w] = "check" /\ thread[w] = "running" /\ roleOf[w] = "logging"
          /\ UNCHANGED nullWrite /\ nullWrite = "none"
      BY <1>8 DEF WorkerCloses, Runs, VisitInv
    <2>1. CASE VisitNext(w, "none") /\ UNCHANGED fileOpen
      BY <1>5, <2>0, <2>1 DEF VisitInv
    <2>2. CASE VisitNext(w, "open") /\ fileOpen' = FALSE
      BY <1>5, <2>0, <2>2 DEF VisitInv
    <2> QED
      BY <1>8, <2>1, <2>2 DEF WorkerCloses
  <1>9. ASSUME NEW w \in Workers, WorkerOpens(w)
        PROVE  VisitInv'
    <2>1. /\ nullWrite = "none" /\ UNCHANGED nullWrite /\ fileOpen' = TRUE
          /\ VisitNext(w, "none")
      BY <1>9 DEF WorkerOpens, Runs
    <2> QED
      BY <1>5, <2>1 DEF VisitInv
  <1> QED
    BY <1>1, <1>2, <1>3, <1>4, <1>6, <1>7, <1>8, <1>9 DEF StartStopNext

LEMMA StartStopSpecInv == StartStopSpec => [](StartStopInv /\ VisitInv)
  <1>1. StartStopInit => StartStopInv /\ VisitInv
    BY StartStopInitInv DEF StartStopInit, VisitInv
  <1>2. StartStopInv /\ VisitInv /\ [StartStopNext]_startStopVars =>
            (StartStopInv /\ VisitInv)'
    BY StartStopNextInv, StartStopNextVisit
  <1> QED
    BY <1>1, <1>2, PTL DEF StartStopSpec

-----------------------------------------------------------------------------
\* However many threads call start() and stop() at the same time, every
\* variable keeps its type.
THEOREM SpecStartStopTypeOK == StartStopSpec => []StartStopTypeOK
  <1>1. StartStopInv => StartStopTypeOK
    BY DEF StartStopInv
  <1> QED
    BY StartStopSpecInv, <1>1, PTL

\* log_mgr::start() and stop() use no null or deleted std::thread, and terminate
\* nothing, unless a stop() meets another call; do_logging() writes to a null
\* FILE* only after a start() met another call and left a second do_logging();
\* and both only while a do_logging() is between the close() and the open() of a
\* rotation.
THEOREM SpecDeathsExplained == StartStopSpec => []DeathsExplained
  <1>1. StartStopInv /\ VisitInv => DeathsExplained
    BY DEF StartStopInv, StopInv, VisitInv, DeathsExplained
  <1> QED
    BY StartStopSpecInv, <1>1, PTL

\* As long as no start() meets another call, each running thread is the one its
\* member pointer names, and a stopped log_mgr has no thread and no object.
THEOREM SpecWorkersOwned == StartStopSpec => []WorkersOwned
  <1>1. ASSUME StartStopInv PROVE WorkersOwned
    <2> SUFFICES ASSUME ~startMet, ~aborted PROVE WorkersOwned
      BY DEF WorkersOwned
    <2>1. StartStopTypeOK /\ ObjectInv /\ StartInv
      BY <1>1 DEF StartStopInv
    <2>2. RunningOwned
      BY <2>1 DEF StartInv
    <2>3. ASSUME ~flag, ~stopMet, \A c \in Controllers : op[c] = "out",
                 NEW w \in Workers
          PROVE  thread[w] # "running" /\ object[w] \in {"none", "deleted"}
      <3>1. \A c \in Controllers : op[c] \notin StopOps
        BY <2>3 DEF StopOps
      <3>2. pointer["logging"] = Null /\ pointer["clear"] = Null
        BY <2>1, <2>3, <3>1 DEF StartInv, NothingLeft
      <3>3. pointer[roleOf[w]] # w
        BY <2>1, <3>2 DEF StartStopTypeOK, Roles, Workers, Null
      <3> QED
        BY <2>1, <2>2, <2>3, <3>3 DEF StartInv, RunningOwned, ObjectsOwned, StartStopTypeOK
    <2> QED
      BY <2>2, <2>3 DEF WorkersOwned, RunningOwned
  <1> QED
    BY StartStopSpecInv, <1>1, PTL

-----------------------------------------------------------------------------
(***************************************************************************)
(* Stamps.                                                                 *)
(***************************************************************************)
ReadingSteps == {"ms", "tm", "put", "push"}

\* One static buffer: a thread that has it to itself finds its own text in it.
CallText(t) ==
    /\ UsesBuff(t) => call[t].kind = "fmt"
    /\ (InStep(t, "copy") /\ ~call[t].shared /\ ~call[t].conv) => buff = call[t].text
    /\ call[t].copy # call[t].text =>
          \/ call[t].kind \in {"mgr", "fmt"} /\ call[t].conv
          \/ call[t].kind = "fmt" /\ call[t].shared

TextInv ==
    /\ \A t \in Writers : CallText(t)
    /\ \A t, u \in Writers : (t # u /\ UsesBuff(t) /\ UsesBuff(u)) => call[t].shared

\* What a thread has read from the clock is not later than the clock, and no
\* earlier than the stamps there were when it began, but for those that lost
\* their second to another thread.
CallTime(t) ==
    /\ call[t].step \in ReadingSteps =>
          call[t].tt <= now.sec /\ call[t].start <= Len(lines[call[t].sink])
    /\ call[t].step \in ReadingSteps \ {"ms"} =>
          /\ call[t].tt <= call[t].ts.sec
          /\ ~Later(call[t].ts, now)
          /\ \A i \in 1..call[t].start :
                ~lines[call[t].sink][i].raced =>
                    ~Later(lines[call[t].sink][i].stamp, call[t].ts)
    /\ InStep(t, "push") => call[t].tmp_time.ms = call[t].ts.ms

LineTime(k, i) ==
    /\ ~lines[k][i].raced => ~Later(lines[k][i].stamp, now)
    /\ lines[k][i].late => lines[k][i].raced

TimeInv ==
    /\ \A t \in Writers : CallTime(t)
    /\ \A k \in Sinks : \A i \in 1..Len(lines[k]) : LineTime(k, i)

Holds(t) == call[t].step \in ReadingSteps \cup {"sec"} /\ call[t].kind # "str"

\* A line that came between the clock reading of a call and its end did not hold
\* the mutex of that call.
Passed(t) ==
    call[t].step \in ReadingSteps =>
        \A i \in call[t].start + 1 .. Len(lines[call[t].sink]) :
            /\ call[t].kind # "locked"
            /\ \/ call[t].kind = "str"
               \/ Guard(lines[call[t].sink][i].kind) # Guard(call[t].kind)

MutexInv ==
    /\ \A t \in Writers : Holds(t) => Mutex(t) \in mutexes
    /\ \A t, u \in Writers : (t # u /\ Holds(t) /\ Holds(u)) => Mutex(t) # Mutex(u)
    /\ \A t \in Writers : Passed(t)

StampsRest ==
    TextInv /\ TimeInv /\ MutexInv /\ TextLossExplained /\ BackwardsExplained

StampsInv == StampsTypeOK /\ StampsRest

LEMMA StampsConstants ==
    /\ Managed \subseteq Sinks /\ NoSink \notin Sinks
    /\ MsPerSec \in Nat /\ MsPerSec > 0 /\ MaxSec \in Nat
    /\ 0 \in 0 .. MsPerSec - 1 /\ Zero \in Time
    /\ \A x \in Time : x.sec \in Nat /\ x.ms \in 0 .. MsPerSec - 1 /\ x.ms \in Nat
  <1>1. /\ Managed \subseteq Sinks /\ NoSink \notin Sinks
        /\ MsPerSec \in Nat /\ MsPerSec > 0 /\ MaxSec \in Nat
    BY StampsAssumption
  <1>2. 0 \in 0 .. MsPerSec - 1
    BY <1>1
  <1>3. Zero \in Time
    BY <1>2 DEF Zero, Time
  <1>4. \A x \in Time : x.sec \in Nat /\ x.ms \in 0 .. MsPerSec - 1
    BY DEF Time
  <1>5. \A x \in 0 .. MsPerSec - 1 : x \in Nat
    BY <1>1
  <1> QED
    BY <1>1, <1>2, <1>3, <1>4, <1>5

LEMMA NoCallType == NoCall \in Call
  <1> QED
    BY StampsConstants DEF NoCall, Call, AnyKind

\* Where a call begins.
FirstSteps == {"format", "sec"}

LEMMA NewCallFields ==
    ASSUME NEW kind, NEW k, NEW step,
           kind \in AnyKind, k \in Sinks, step \in FirstSteps, calls \in Nat
    PROVE  /\ NewCall(kind, k, step) \in Call
           /\ NewCall(kind, k, step).step = step /\ NewCall(kind, k, step).kind = kind
           /\ NewCall(kind, k, step).sink = k /\ NewCall(kind, k, step).text = calls + 1
           /\ NewCall(kind, k, step).copy = calls + 1
           /\ ~NewCall(kind, k, step).shared
  <1> DEFINE c == NewCall(kind, k, step)
  <1>1. /\ c.step = step /\ c.kind = kind /\ c.sink = k /\ c.text = calls + 1
        /\ c.copy = calls + 1 /\ c.shared = FALSE
    BY DEF NewCall, NoCall
  <1>2. NoCall \in Call
    BY NoCallType
  <1>3. /\ step \in {"out", "format", "copy", "sec", "ms", "tm", "put", "push"}
        /\ k \in Sinks \cup {NoSink} /\ calls + 1 \in Nat /\ calls + 1 \in Nat \cup {Mixed}
    BY DEF FirstSteps
  <1>4. c \in Call
    <2> DEFINE n == NoCall
    <2>1. n \in Call /\ c = [n EXCEPT !.step = step, !.kind = kind, !.sink = k,
                                   !.text = calls + 1, !.copy = calls + 1]
      BY <1>2 DEF NewCall
    <2> HIDE DEF n, c
    <2> QED
      BY <1>3, <2>1 DEF Call
  <1> QED
    BY <1>1, <1>4

LEMMA StampsInitInv == StampsInit => StampsInv
  <1> SUFFICES ASSUME StampsInit PROVE StampsInv
    OBVIOUS
  <1>0. /\ now = Zero /\ tmbuf = 0 /\ buff = 0 /\ mutexes = {}
        /\ call = [t \in Writers |-> NoCall] /\ lines = [k \in Sinks |-> <<>>] /\ calls = 0
    BY DEF StampsInit, Cleared
  <1>1. StampsTypeOK
    BY <1>0, NoCallType, StampsConstants DEF StampsTypeOK, NoCall
  <1>2. TextInv /\ TimeInv /\ MutexInv
    BY <1>0 DEF TextInv, TimeInv, MutexInv, CallText, CallTime, Passed, NoCall, UsesBuff,
                InStep, ReadingSteps, Holds
  <1>3. TextLossExplained /\ BackwardsExplained
    BY <1>0 DEF TextLossExplained, BackwardsExplained
  <1> QED
    BY <1>1, <1>2, <1>3 DEF StampsInv, StampsRest

\* The thread that moves is in a call of a kind that its sink has.
CallOK(c) == c \in Call /\ (c.step # "out" => c.sink \in Sinks /\ c.kind \in Kinds(c.sink))

LEMMA Edited ==
    ASSUME StampsTypeOK, NEW t \in Writers, NEW c, CallOK(c), call' = [call EXCEPT ![t] = c]
    PROVE  /\ call'[t] = c
           /\ \A u \in Writers : u # t => call'[u] = call[u]
           /\ call' \in [Writers -> Call]
           /\ \A u \in Writers :
                 call'[u].step # "out" =>
                     call'[u].sink \in Sinks /\ call'[u].kind \in Kinds(call'[u].sink)
  <1>1. call \in [Writers -> Call] /\ c \in Call
    BY DEF StampsTypeOK, CallOK
  <1>2. /\ call'[t] = c
        /\ \A u \in Writers : u # t => call'[u] = call[u]
        /\ call' \in [Writers -> Call]
    BY <1>1
  <1>3. \A u \in Writers : call[u].step # "out" =>
                               call[u].sink \in Sinks /\ call[u].kind \in Kinds(call[u].sink)
    BY DEF StampsTypeOK
  <1>4. ASSUME NEW u \in Writers
        PROVE  call'[u].step # "out" =>
                   call'[u].sink \in Sinks /\ call'[u].kind \in Kinds(call'[u].sink)
    BY <1>2, <1>3 DEF CallOK
  <1> QED
    BY <1>2, <1>4

\* A call that has begun stays one to the same sink of the same kind.
LEMMA GoesOn ==
    ASSUME StampsTypeOK, NEW t \in Writers, call[t].step # "out", NEW c \in Call,
           c.sink = call[t].sink, c.kind = call[t].kind
    PROVE  CallOK(c)
  <1> QED
    BY DEF StampsTypeOK, CallOK

LEMMA NewCallOK ==
    ASSUME NEW k \in Sinks, NEW kind \in Kinds(k), NEW step \in FirstSteps, calls \in Nat
    PROVE  /\ CallOK(NewCall(kind, k, step)) /\ kind \in AnyKind
           /\ NewCall(kind, k, step) \in Call
           /\ NewCall(kind, k, step).step = step /\ NewCall(kind, k, step).kind = kind
           /\ NewCall(kind, k, step).sink = k /\ NewCall(kind, k, step).text = calls + 1
           /\ NewCall(kind, k, step).copy = calls + 1
           /\ ~NewCall(kind, k, step).shared
  <1>1. kind \in AnyKind
    BY DEF Kinds, AnyKind
  <1>2. /\ NewCall(kind, k, step) \in Call
        /\ NewCall(kind, k, step).step = step /\ NewCall(kind, k, step).kind = kind
        /\ NewCall(kind, k, step).sink = k /\ NewCall(kind, k, step).text = calls + 1
        /\ NewCall(kind, k, step).copy = calls + 1 /\ ~NewCall(kind, k, step).shared
    BY <1>1, NewCallFields
  <1>3. CallOK(NewCall(kind, k, step))
    BY <1>2 DEF CallOK
  <1> QED
    BY <1>1, <1>2, <1>3

LEMMA StampsTypes ==
    ASSUME StampsTypeOK
    PROVE  /\ now \in Time /\ tmbuf \in Nat /\ buff \in Nat \cup {Mixed} /\ calls \in Nat
           /\ mutexes \subseteq AnyKind \X Sinks
           /\ call \in [Writers -> Call] /\ lines \in [Sinks -> Seq(Line)]
  <1> QED
    BY DEF StampsTypeOK

-----------------------------------------------------------------------------
\* What each step makes of the call of its thread.
LEMMA StepReadSeconds ==
    ASSUME StampsTypeOK, NEW t \in Writers, ReadSeconds(t)
    PROVE  LET c == [call[t] EXCEPT !.step = "ms", !.tt = now.sec,
                                    !.start = Len(lines[call[t].sink])]
           IN  CallOK(c) /\ call' = [call EXCEPT ![t] = c]
  <1> DEFINE c == [call[t] EXCEPT !.step = "ms", !.tt = now.sec,
                                  !.start = Len(lines[call[t].sink])]
  <1>1. call[t] \in Call /\ call[t].step = "sec" /\ call[t].sink \in Sinks
    BY DEF StampsTypeOK, ReadSeconds, InStep
  <1>2. now.sec \in Nat /\ Len(lines[call[t].sink]) \in Nat
    BY <1>1, StampsTypes, StampsConstants
  <1>3. c \in Call /\ c.sink = call[t].sink /\ c.kind = call[t].kind
    BY <1>1, <1>2 DEF Call
  <1>4. call' = [call EXCEPT ![t] = c]
    BY StampsTypes DEF ReadSeconds
  <1> HIDE DEF c
  <1>5. CallOK(c)
    BY <1>1, <1>3, GoesOn
  <1> QED
    BY <1>4, <1>5 DEF c

LEMMA StepReadMillis ==
    ASSUME StampsTypeOK, NEW t \in Writers, ReadMillis(t)
    PROVE  LET c == [call[t] EXCEPT !.step = "tm", !.ts = now]
           IN  CallOK(c) /\ call' = [call EXCEPT ![t] = c]
  <1> DEFINE c == [call[t] EXCEPT !.step = "tm", !.ts = now]
  <1>1. call[t] \in Call /\ call[t].step = "ms" /\ now \in Time
    BY DEF StampsTypeOK, ReadMillis, InStep
  <1>2. c \in Call /\ c.sink = call[t].sink /\ c.kind = call[t].kind
    BY <1>1 DEF Call
  <1>3. call' = [call EXCEPT ![t] = c]
    BY StampsTypes DEF ReadMillis
  <1> HIDE DEF c
  <1>4. CallOK(c)
    BY <1>1, <1>2, GoesOn
  <1> QED
    BY <1>3, <1>4 DEF c

LEMMA StepLocalTime ==
    ASSUME StampsTypeOK, NEW t \in Writers, LocalTime(t)
    PROVE  LET c == [call[t] EXCEPT !.step = "put"]
           IN  CallOK(c) /\ call' = [call EXCEPT ![t] = c]
  <1> DEFINE c == [call[t] EXCEPT !.step = "put"]
  <1>1. call[t] \in Call /\ call[t].step = "tm"
    BY DEF StampsTypeOK, LocalTime, InStep
  <1>2. c \in Call /\ c.sink = call[t].sink /\ c.kind = call[t].kind
    BY <1>1 DEF Call
  <1>3. call' = [call EXCEPT ![t] = c]
    BY StampsTypes DEF LocalTime
  <1> HIDE DEF c
  <1>4. CallOK(c)
    BY <1>1, <1>2, GoesOn
  <1> QED
    BY <1>3, <1>4 DEF c

LEMMA StepPutTime ==
    ASSUME StampsTypeOK, NEW t \in Writers, PutTime(t)
    PROVE  LET c == [call[t] EXCEPT !.step = "push",
                                    !.tmp_time = [sec |-> tmbuf, ms |-> call[t].ts.ms]]
           IN  CallOK(c) /\ call' = [call EXCEPT ![t] = c]
  <1> DEFINE stamp == [sec |-> tmbuf, ms |-> call[t].ts.ms]
             c == [call[t] EXCEPT !.step = "push", !.tmp_time = stamp]
  <1>1. call[t] \in Call /\ call[t].step = "put" /\ tmbuf \in Nat
    BY DEF StampsTypeOK, PutTime, InStep
  <1>2. stamp \in Time
    <2>1. call[t].ts \in Time
      BY <1>1 DEF Call
    <2> QED
      BY <1>1, <2>1 DEF Time
  <1>3. call' = [call EXCEPT ![t] = c]
    BY StampsTypes DEF PutTime
  <1> HIDE DEF stamp
  <1>4. c \in Call /\ c.sink = call[t].sink /\ c.kind = call[t].kind
    BY <1>1, <1>2 DEF Call
  <1> HIDE DEF c
  <1>5. CallOK(c)
    BY <1>1, <1>4, GoesOn
  <1> QED
    BY <1>3, <1>5 DEF c, stamp

LEMMA InBuffType ==
    ASSUME StampsTypeOK, NEW t \in Writers, NEW text \in Nat \cup {Mixed}
    PROVE  InBuff(t, text) \subseteq Nat \cup {Mixed}
  <1> QED
    BY DEF InBuff

LEMMA StepFormatText ==
    ASSUME StampsTypeOK, NEW t \in Writers, FormatText(t)
    PROVE  LET c == [call[t] EXCEPT !.step = "copy"]
           IN  CallOK(c) /\ call' = [call EXCEPT ![t] = c] /\ buff' \in Nat \cup {Mixed}
  <1> DEFINE c == [call[t] EXCEPT !.step = "copy"]
  <1>1. call[t] \in Call /\ call[t].step = "format"
    BY DEF StampsTypeOK, FormatText, InStep
  <1>2. c \in Call /\ c.sink = call[t].sink /\ c.kind = call[t].kind /\ call[t].text \in Nat
    BY <1>1 DEF Call
  <1>3. call' = [call EXCEPT ![t] = c]
    BY StampsTypes DEF FormatText
  <1>4. buff' \in Nat \cup {Mixed}
    BY <1>2, InBuffType DEF FormatText
  <1> HIDE DEF c
  <1>5. CallOK(c)
    BY <1>1, <1>2, GoesOn
  <1> QED
    BY <1>3, <1>4, <1>5 DEF c

LEMMA StepCopyText ==
    ASSUME StampsTypeOK, NEW t \in Writers, CopyText(t)
    PROVE  \E text \in InBuff(t, buff) :
              LET c == [call[t] EXCEPT !.step = "sec", !.copy = text]
              IN  CallOK(c) /\ call' = [call EXCEPT ![t] = c]
  <1>0. PICK text \in InBuff(t, buff) :
            call' = [call EXCEPT ![t].step = "sec", ![t].copy = text]
    BY DEF CopyText
  <1> DEFINE c == [call[t] EXCEPT !.step = "sec", !.copy = text]
  <1>1. call[t] \in Call /\ call[t].step = "copy" /\ buff \in Nat \cup {Mixed}
    BY DEF StampsTypeOK, CopyText, InStep
  <1>2. text \in Nat \cup {Mixed}
    BY <1>1, InBuffType
  <1>3. c \in Call /\ c.sink = call[t].sink /\ c.kind = call[t].kind
    BY <1>1, <1>2 DEF Call
  <1>4. call' = [call EXCEPT ![t] = c]
    BY <1>0, StampsTypes
  <1> HIDE DEF c
  <1>5. CallOK(c)
    BY <1>1, <1>3, GoesOn
  <1> QED
    BY <1>4, <1>5 DEF c

CallByMgr(c, k) == /\ c.step = "sec" /\ c.kind = "mgr" /\ c.sink = k
                   /\ c.copy = c.text \/ c.conv

LEMMA StepLogByMgr ==
    ASSUME StampsTypeOK, NEW t \in Writers, NEW k \in Sinks, LogByMgr(t, k)
    PROVE  \E c : CallOK(c) /\ call' = [call EXCEPT ![t] = c] /\ CallByMgr(c, k)
  <1>0. PICK conv \in BOOLEAN :
            call' = [call EXCEPT ![t] = [NewCall("mgr", k, "sec") EXCEPT !.conv = conv,
                                            !.copy = IF conv THEN Mixed ELSE @]]
    BY DEF LogByMgr
  <1>1. "mgr" \in Kinds(k) /\ "sec" \in FirstSteps /\ calls \in Nat
    BY StampsTypes DEF Kinds, FirstSteps
  <1>3. PICK n : /\ n = NewCall("mgr", k, "sec") /\ CallOK(n) /\ n.step = "sec"
                 /\ n.kind = "mgr" /\ n.sink = k /\ n.copy = n.text
    BY <1>1, NewCallOK
  <1>2. PICK text \in Nat \cup {Mixed} : text = IF conv THEN Mixed ELSE n.copy
    BY <1>3 DEF CallOK, Call
  <1> DEFINE c == [n EXCEPT !.conv = conv, !.copy = text]
  <1>4. /\ c \in Call /\ c.step = "sec" /\ c.kind = "mgr" /\ c.sink = k
        /\ c.copy = c.text \/ c.conv
    BY <1>2, <1>3 DEF CallOK, Call
  <1>5. CallOK(c)
    <2> HIDE DEF c
    <2> QED
      BY <1>1, <1>4 DEF CallOK
  <1>6. call' = [call EXCEPT ![t] = c]
    BY <1>0, <1>2, <1>3
  <1>7. CallByMgr(c, k)
    BY <1>4 DEF CallByMgr
  <1> HIDE DEF c
  <1> QED
    BY <1>5, <1>6, <1>7

\* The stamp of a line is that of the call.
LEMMA LineOfType ==
    ASSUME NEW c \in Call
    PROVE  LineOf(c) \in Line
  <1>1. /\ c.tmp_time \in Time /\ c.kind \in AnyKind /\ c.start \in Nat
        /\ c.shared \in BOOLEAN /\ c.conv \in BOOLEAN
    BY DEF Call
  <1>2. /\ (c.tt # c.ts.sec) \in BOOLEAN /\ (c.tmp_time.sec # c.tt) \in BOOLEAN
        /\ Later(c.tmp_time, now) \in BOOLEAN /\ (c.copy = c.text) \in BOOLEAN
    BY DEF Later
  <1> QED
    BY <1>1, <1>2 DEF LineOf, Line

LEMMA StampsNextType == StampsTypeOK /\ [StampsNext]_stampsVars => StampsTypeOK'
  <1> SUFFICES ASSUME StampsTypeOK, [StampsNext]_stampsVars PROVE StampsTypeOK'
    OBVIOUS
  <1>0. /\ now \in Time /\ tmbuf \in Nat /\ buff \in Nat \cup {Mixed} /\ calls \in Nat
        /\ mutexes \subseteq AnyKind \X Sinks
        /\ call \in [Writers -> Call] /\ lines \in [Sinks -> Seq(Line)]
        /\ \A u \in Writers : call[u].step # "out" =>
                                  call[u].sink \in Sinks /\ call[u].kind \in Kinds(call[u].sink)
    BY DEF StampsTypeOK
  <1>a. \A t \in Writers : call[t].step # "out" => Mutex(t) \in AnyKind \X Sinks
    BY <1>0 DEF Call, Mutex, Guard, AnyKind
  <1>1. CASE ClockTicks
    <2>1. now.sec \in Nat /\ now.ms \in 0 .. MsPerSec - 1 /\ DOMAIN now = {"sec", "ms"}
      BY <1>0 DEF Time
    <2>2. now' \in Time
      BY <1>0, <1>1, <2>1, StampsConstants DEF ClockTicks, Time
    <2> QED
      BY <1>0, <1>1, <2>2 DEF ClockTicks, StampsTypeOK
  <1>2. ASSUME NEW t \in Writers, NEW k \in Sinks, LogFormat(t, k)
        PROVE  StampsTypeOK'
    <2>0. PICK conv \in BOOLEAN :
              call' = [u \in Writers |->
                 IF u = t THEN [NewCall("fmt", k, "format") EXCEPT
                                   !.shared = {v \in Writers \ {t} : UsesBuff(v)} # {},
                                   !.conv = conv]
                 ELSE [call[u] EXCEPT !.shared =
                          call[u].shared \/ u \in {v \in Writers \ {t} : UsesBuff(v)}]]
      BY <1>2 DEF LogFormat
    <2> DEFINE c == [NewCall("fmt", k, "format") EXCEPT
                        !.shared = {u \in Writers \ {t} : UsesBuff(u)} # {}, !.conv = conv]
               n == [u \in Writers |->
                        IF u = t THEN c
                        ELSE [call[u] EXCEPT !.shared = call[u].shared \/ u \in {v \in Writers \ {t} : UsesBuff(v)}]]
    <2>1. /\ k \in Managed /\ calls' = calls + 1 /\ buff' = 0 /\ call' = n
          /\ UNCHANGED <<now, tmbuf, mutexes, lines>>
      BY <1>2, <2>0 DEF LogFormat, Cleared
    <2>2. /\ NewCall("fmt", k, "format") \in Call
          /\ NewCall("fmt", k, "format").kind = "fmt" /\ NewCall("fmt", k, "format").sink = k
      <3>1. "fmt" \in AnyKind /\ "format" \in FirstSteps /\ calls \in Nat
        BY <1>0 DEF AnyKind, FirstSteps
      <3> QED
        BY <3>1, NewCallFields
    <2>3. c \in Call /\ c.kind = "fmt" /\ c.sink = k
      <3>1. PICK b \in BOOLEAN : b = ({u \in Writers \ {t} : UsesBuff(u)} # {})
        OBVIOUS
      <3>2. c = [NewCall("fmt", k, "format") EXCEPT !.shared = b, !.conv = conv]
        BY <3>1
      <3> QED
        BY <2>2, <3>2 DEF Call
    <2>4. ASSUME NEW u \in Writers, NEW b \in BOOLEAN
          PROVE  /\ [call[u] EXCEPT !.shared = b] \in Call
                 /\ [call[u] EXCEPT !.shared = b].step = call[u].step
                 /\ [call[u] EXCEPT !.shared = b].sink = call[u].sink
                 /\ [call[u] EXCEPT !.shared = b].kind = call[u].kind
      BY <1>0 DEF Call
    <2> HIDE DEF c
    <2>5. n \in [Writers -> Call]
      BY <2>3, <2>4
    <2>6. ASSUME NEW u \in Writers, n[u].step # "out"
          PROVE  n[u].sink \in Sinks /\ n[u].kind \in Kinds(n[u].sink)
      <3>1. CASE u = t
        BY <2>1, <2>3, <3>1 DEF Kinds
      <3>2. CASE u # t
        BY <1>0, <2>4, <2>6, <3>2
      <3> QED
        BY <3>1, <3>2
    <2> HIDE DEF n
    <2> QED
      BY <1>0, <2>1, <2>5, <2>6 DEF StampsTypeOK
  <1>3. ASSUME NEW t \in Writers, NEW k \in Sinks, LogString(t, k)
        PROVE  StampsTypeOK'
    <2>1. PICK c : CallOK(c) /\ call' = [call EXCEPT ![t] = c]
      <3>1. "str" \in Kinds(k) /\ "sec" \in FirstSteps
        BY DEF Kinds, FirstSteps
      <3> QED
        BY <1>0, <1>3, <3>1, NewCallOK DEF LogString
    <2>3. /\ UNCHANGED <<now, tmbuf, buff, mutexes, lines>> /\ calls' = calls + 1
      BY <1>3 DEF LogString
    <2>4. /\ call' \in [Writers -> Call]
          /\ \A u \in Writers : call'[u].step # "out" =>
                 call'[u].sink \in Sinks /\ call'[u].kind \in Kinds(call'[u].sink)
      BY <2>1, Edited
    <2> QED
      BY <1>0, <2>3, <2>4 DEF StampsTypeOK
  <1>4. ASSUME NEW t \in Writers, NEW k \in Sinks, LogArgs(t, k)
        PROVE  StampsTypeOK'
    <2>1. PICK c : CallOK(c) /\ call' = [call EXCEPT ![t] = c]
      <3>1. "args" \in Kinds(k) /\ "sec" \in FirstSteps
        BY DEF Kinds, FirstSteps
      <3> QED
        BY <1>0, <1>4, <3>1, NewCallOK DEF LogArgs
    <2>2. mutexes' \subseteq AnyKind \X Sinks
      BY <1>0, <1>4 DEF LogArgs, AnyKind
    <2>3. /\ UNCHANGED <<now, tmbuf, buff, lines>> /\ calls' = calls + 1
      BY <1>4 DEF LogArgs
    <2>4. /\ call' \in [Writers -> Call]
          /\ \A u \in Writers : call'[u].step # "out" =>
                 call'[u].sink \in Sinks /\ call'[u].kind \in Kinds(call'[u].sink)
      BY <2>1, Edited
    <2> QED
      BY <1>0, <2>3, <2>4, <2>2 DEF StampsTypeOK
  <1>5. ASSUME NEW t \in Writers, NEW k \in Sinks, LogByMgr(t, k)
        PROVE  StampsTypeOK'
    <2>1. PICK c : CallOK(c) /\ call' = [call EXCEPT ![t] = c]
      BY <1>5, StepLogByMgr
    <2>2. mutexes' \subseteq AnyKind \X Sinks
      BY <1>0, <1>5 DEF LogByMgr, AnyKind
    <2>3. /\ UNCHANGED <<now, tmbuf, buff, lines>> /\ calls' = calls + 1
      BY <1>5 DEF LogByMgr
    <2>4. /\ call' \in [Writers -> Call]
          /\ \A u \in Writers : call'[u].step # "out" =>
                 call'[u].sink \in Sinks /\ call'[u].kind \in Kinds(call'[u].sink)
      BY <2>1, Edited
    <2> QED
      BY <1>0, <2>3, <2>4, <2>2 DEF StampsTypeOK
  <1>6. ASSUME NEW t \in Writers, NEW k \in Sinks, LogLocked(t, k)
        PROVE  StampsTypeOK'
    <2>1. PICK c : CallOK(c) /\ call' = [call EXCEPT ![t] = c]
      <3>1. "locked" \in Kinds(k) /\ "sec" \in FirstSteps
        BY <1>6 DEF Kinds, FirstSteps, LogLocked
      <3> QED
        BY <1>0, <1>6, <3>1, NewCallOK DEF LogLocked
    <2>2. mutexes' \subseteq AnyKind \X Sinks
      BY <1>0, <1>6 DEF LogLocked, AnyKind
    <2>3. /\ UNCHANGED <<now, tmbuf, buff, lines>> /\ calls' = calls + 1
      BY <1>6 DEF LogLocked
    <2>4. /\ call' \in [Writers -> Call]
          /\ \A u \in Writers : call'[u].step # "out" =>
                 call'[u].sink \in Sinks /\ call'[u].kind \in Kinds(call'[u].sink)
      BY <2>1, Edited
    <2> QED
      BY <1>0, <2>3, <2>4, <2>2 DEF StampsTypeOK
  <1>7. ASSUME NEW t \in Writers, FormatText(t)
        PROVE  StampsTypeOK'
    <2>1. PICK c : CallOK(c) /\ call' = [call EXCEPT ![t] = c] /\ buff' \in Nat \cup {Mixed}
      BY <1>7, StepFormatText
    <2> QED
      BY <1>0, <1>7, <2>1, Edited DEF FormatText, StampsTypeOK
  <1>8. ASSUME NEW t \in Writers, CopyText(t)
        PROVE  StampsTypeOK'
    <2>1. PICK c : CallOK(c) /\ call' = [call EXCEPT ![t] = c]
      BY <1>8, StepCopyText
    <2>2. mutexes' \subseteq AnyKind \X Sinks
      BY <1>0, <1>8, <1>a DEF CopyText, InStep
    <2> QED
      BY <1>0, <1>8, <2>1, <2>2, Edited DEF CopyText, StampsTypeOK
  <1>9. ASSUME NEW t \in Writers, ReadSeconds(t)
        PROVE  StampsTypeOK'
    <2>1. PICK c : CallOK(c) /\ call' = [call EXCEPT ![t] = c]
      BY <1>9, StepReadSeconds
    <2> QED
      BY <1>0, <1>9, <2>1, Edited DEF ReadSeconds, StampsTypeOK
  <1>10. ASSUME NEW t \in Writers, ReadMillis(t)
         PROVE  StampsTypeOK'
    <2>1. PICK c : CallOK(c) /\ call' = [call EXCEPT ![t] = c]
      BY <1>10, StepReadMillis
    <2> QED
      BY <1>0, <1>10, <2>1, Edited DEF ReadMillis, StampsTypeOK
  <1>11. ASSUME NEW t \in Writers, LocalTime(t)
         PROVE  StampsTypeOK'
    <2>1. PICK c : CallOK(c) /\ call' = [call EXCEPT ![t] = c]
      BY <1>11, StepLocalTime
    <2>2. tmbuf' \in Nat
      BY <1>0, <1>11 DEF LocalTime, Call
    <2> QED
      BY <1>0, <1>11, <2>1, <2>2, Edited DEF LocalTime, StampsTypeOK
  <1>12. ASSUME NEW t \in Writers, PutTime(t)
         PROVE  StampsTypeOK'
    <2>1. PICK c : CallOK(c) /\ call' = [call EXCEPT ![t] = c]
      BY <1>12, StepPutTime
    <2> QED
      BY <1>0, <1>12, <2>1, Edited DEF PutTime, StampsTypeOK
  <1>13. ASSUME NEW t \in Writers, Pushes(t)
         PROVE  StampsTypeOK'
    <2>1. CallOK(NoCall)
      BY NoCallType DEF CallOK, NoCall
    <2>2. call[t] \in Call /\ call[t].sink \in Sinks
      BY <1>0, <1>13 DEF Pushes, InStep
    <2>3. LineOf(call[t]) \in Line /\ lines[call[t].sink] \in Seq(Line)
      BY <1>0, <2>2, LineOfType
    <2>4. Append(lines[call[t].sink], LineOf(call[t])) \in Seq(Line)
      BY <2>3
    <2>5. lines' \in [Sinks -> Seq(Line)]
      BY <1>0, <1>13, <2>4 DEF Pushes
    <2> QED
      BY <1>0, <1>13, <2>1, <2>5, Edited DEF Pushes, StampsTypeOK
  <1>14. CASE UNCHANGED stampsVars
    BY <1>0, <1>14 DEF stampsVars, StampsTypeOK
  <1> QED
    BY <1>1, <1>2, <1>3, <1>4, <1>5, <1>6, <1>7, <1>8, <1>9, <1>10, <1>11, <1>12, <1>13, <1>14
       DEF StampsNext, PushLine, PushLocked

-----------------------------------------------------------------------------
\* u is where it was in its call, and only the mark that it shared the buffer
\* may be new.
Agrees(u) ==
    /\ call'[u].step = call[u].step /\ call'[u].kind = call[u].kind
    /\ call'[u].sink = call[u].sink /\ call'[u].text = call[u].text
    /\ call'[u].copy = call[u].copy /\ call'[u].tt = call[u].tt
    /\ call'[u].ts = call[u].ts /\ call'[u].tmp_time = call[u].tmp_time
    /\ call'[u].start = call[u].start /\ call'[u].conv = call[u].conv
    /\ call[u].shared => call'[u].shared

\* Only t moves, and nothing is cached.
OnlyMoves(t) ==
    /\ \A u \in Writers \ {t} : Agrees(u)
    /\ UNCHANGED <<now, lines>>

LEMMA TimeMoves ==
    ASSUME StampsInv, NEW t \in Writers, OnlyMoves(t), CallTime(t)'
    PROVE  TimeInv'
  <1>1. ASSUME NEW u \in Writers \ {t} PROVE CallTime(u)'
    <2>1. CallTime(u) /\ Agrees(u) /\ now' = now /\ lines' = lines
      BY DEF StampsInv, StampsRest, TimeInv, OnlyMoves
    <2> QED
      BY <2>1 DEF CallTime, Agrees, InStep
  <1>2. ASSUME NEW k \in Sinks, NEW i \in 1..Len(lines[k]) PROVE LineTime(k, i)'
    <2>1. LineTime(k, i) /\ now' = now /\ lines' = lines
      BY DEF StampsInv, StampsRest, TimeInv, OnlyMoves
    <2> QED
      BY <2>1 DEF LineTime
  <1>3. lines' = lines
    BY DEF OnlyMoves
  <1> QED
    BY <1>1, <1>2, <1>3 DEF TimeInv

\* It may take a mutex that nobody has, and keeps the one it has.
LEMMA MutexMoves ==
    ASSUME StampsInv, NEW t \in Writers, OnlyMoves(t), Passed(t)', mutexes \subseteq mutexes',
           Holds(t)' => /\ Mutex(t)' \in mutexes'
                        /\ \/ Mutex(t)' \notin mutexes
                           \/ Holds(t) /\ Mutex(t)' = Mutex(t)
    PROVE  MutexInv'
  <1>0. MutexInv
    BY DEF StampsInv, StampsRest
  <1>1. ASSUME NEW u \in Writers \ {t}
        PROVE  /\ Holds(u)' <=> Holds(u)
               /\ Mutex(u)' = Mutex(u)
               /\ Passed(u)'
    <2>1. Agrees(u) /\ Passed(u) /\ lines' = lines
      BY <1>0 DEF OnlyMoves, MutexInv
    <2>2. (Holds(u)' <=> Holds(u)) /\ Mutex(u)' = Mutex(u)
      BY <2>1 DEF Agrees, Holds, Mutex
    <2>3. Passed(u)'
      BY <2>1 DEF Agrees, Passed
    <2> QED
      BY <2>2, <2>3
  <1>2. \A u \in Writers : Holds(u)' => Mutex(u)' \in mutexes'
    BY <1>0, <1>1 DEF MutexInv
  <1>3. ASSUME NEW u \in Writers, NEW v \in Writers, u # v, Holds(u)', Holds(v)'
        PROVE  Mutex(u)' # Mutex(v)'
    <2>1. CASE u # t /\ v # t
      BY <1>0, <1>1, <1>3, <2>1 DEF MutexInv
    <2>2. CASE u = t
      BY <1>0, <1>1, <1>3, <2>2 DEF MutexInv
    <2>3. CASE v = t
      BY <1>0, <1>1, <1>3, <2>3 DEF MutexInv
    <2> QED
      BY <2>1, <2>2, <2>3
  <1>4. \A u \in Writers : Passed(u)'
    BY <1>1
  <1> QED
    BY <1>2, <1>3, <1>4 DEF MutexInv

\* It leaves the buffer alone and does not begin to use it.
LEMMA TextMoves ==
    ASSUME StampsInv, NEW t \in Writers, buff' = buff,
           \A u \in Writers \ {t} : call'[u] = call[u],
           call'[t].step \notin {"format", "copy"}, CallText(t)'
    PROVE  TextInv'
  <1>0. TextInv
    BY DEF StampsInv, StampsRest
  <1>1. ASSUME NEW u \in Writers \ {t} PROVE CallText(u)' /\ (UsesBuff(u)' <=> UsesBuff(u))
    BY <1>0 DEF TextInv, CallText, UsesBuff, InStep
  <1>2. ~UsesBuff(t)'
    BY DEF UsesBuff
  <1>3. ASSUME NEW u \in Writers, NEW v \in Writers, u # v, UsesBuff(u)', UsesBuff(v)'
        PROVE  call'[u].shared
    <2>1. u # t /\ v # t
      BY <1>2, <1>3
    <2> QED
      BY <1>0, <1>1, <1>3, <2>1 DEF TextInv
  <1> QED
    BY <1>1, <1>3 DEF TextInv

\* What is said of the lines stays true while no line is cached.
LEMMA SameLines ==
    ASSUME StampsInv, lines' = lines
    PROVE  TextLossExplained' /\ BackwardsExplained'
  <1> QED
    BY DEF StampsInv, StampsRest, TextLossExplained, BackwardsExplained

-----------------------------------------------------------------------------
\* A call that begins with the clock.
LEMMA BeginsRest ==
    ASSUME StampsInv, NEW t \in Writers, NEW k \in Sinks, NEW c \in Call,
           call' = [call EXCEPT ![t] = c], call[t].step = "out", c.step = "sec", c.sink = k,
           c.copy = c.text \/ (c.kind = "mgr" /\ c.conv), UNCHANGED <<now, buff, lines>>,
           IF c.kind = "str" THEN mutexes' = mutexes
           ELSE /\ <<Guard(c.kind), k>> \notin mutexes
                /\ mutexes' = mutexes \cup {<<Guard(c.kind), k>>}
    PROVE  StampsRest'
  <1>0. StampsTypeOK
    BY DEF StampsInv
  <1>1. call'[t] = c /\ \A u \in Writers \ {t} : call'[u] = call[u]
    BY <1>0, StampsTypes
  <1>2. OnlyMoves(t)
    BY <1>1 DEF OnlyMoves, Agrees
  <1>3. TimeInv'
    <2>1. CallTime(t)'
      BY <1>1 DEF CallTime, ReadingSteps, InStep
    <2> QED
      BY <1>2, <2>1, TimeMoves
  <1>4. MutexInv'
    <2>1. Passed(t)'
      BY <1>1 DEF Passed, ReadingSteps
    <2>2. mutexes \subseteq mutexes'
      OBVIOUS
    <2>3. Holds(t)' => Mutex(t)' \in mutexes' /\ Mutex(t)' \notin mutexes
      BY <1>1 DEF Holds, Mutex
    <2> QED
      BY <1>2, <2>1, <2>2, <2>3, MutexMoves
  <1>5. TextInv'
    <2>1. CallText(t)'
      BY <1>1 DEF CallText, UsesBuff, InStep
    <2> QED
      BY <1>1, <2>1, TextMoves
  <1>6. TextLossExplained' /\ BackwardsExplained'
    BY SameLines
  <1> QED
    BY <1>3, <1>4, <1>5, <1>6 DEF StampsRest

LEMMA LogStringRest ==
    ASSUME StampsInv, NEW t \in Writers, NEW k \in Sinks, LogString(t, k) PROVE StampsRest'
  <1>1. "str" \in Kinds(k) /\ "sec" \in FirstSteps /\ calls \in Nat
    BY StampsTypes DEF Kinds, FirstSteps, StampsInv
  <1>2. PICK c : c = NewCall("str", k, "sec")
    OBVIOUS
  <1>3. c \in Call /\ c.step = "sec" /\ c.kind = "str" /\ c.sink = k /\ c.copy = c.text
    BY <1>1, <1>2, NewCallOK
  <1>4. /\ call' = [call EXCEPT ![t] = c] /\ call[t].step = "out" /\ mutexes' = mutexes
        /\ UNCHANGED <<now, buff, lines>>
    BY <1>2 DEF LogString, InStep
  <1> QED
    BY <1>3, <1>4, BeginsRest

LEMMA LogArgsRest ==
    ASSUME StampsInv, NEW t \in Writers, NEW k \in Sinks, LogArgs(t, k) PROVE StampsRest'
  <1>1. "args" \in Kinds(k) /\ "sec" \in FirstSteps /\ calls \in Nat
    BY StampsTypes DEF Kinds, FirstSteps, StampsInv
  <1>2. PICK c : c = NewCall("args", k, "sec")
    OBVIOUS
  <1>3. c \in Call /\ c.step = "sec" /\ c.kind = "args" /\ c.sink = k /\ c.copy = c.text
    BY <1>1, <1>2, NewCallOK
  <1>4. /\ call' = [call EXCEPT ![t] = c] /\ call[t].step = "out"
        /\ <<"args", k>> \notin mutexes /\ mutexes' = mutexes \cup {<<"args", k>>}
        /\ UNCHANGED <<now, buff, lines>>
    BY <1>2 DEF LogArgs, InStep
  <1>5. Guard(c.kind) = "args"
    BY <1>3 DEF Guard
  <1> QED
    BY <1>3, <1>4, <1>5, BeginsRest

LEMMA LogLockedRest ==
    ASSUME StampsInv, NEW t \in Writers, NEW k \in Sinks, LogLocked(t, k) PROVE StampsRest'
  <1>1. "locked" \in Kinds(k) /\ "sec" \in FirstSteps /\ calls \in Nat
    BY StampsTypes DEF Kinds, FirstSteps, StampsInv, LogLocked
  <1>2. PICK c : c = NewCall("locked", k, "sec")
    OBVIOUS
  <1>3. c \in Call /\ c.step = "sec" /\ c.kind = "locked" /\ c.sink = k /\ c.copy = c.text
    BY <1>1, <1>2, NewCallOK
  <1>4. /\ call' = [call EXCEPT ![t] = c] /\ call[t].step = "out"
        /\ <<"locked", k>> \notin mutexes /\ mutexes' = mutexes \cup {<<"locked", k>>}
        /\ UNCHANGED <<now, buff, lines>>
    BY <1>2 DEF LogLocked, InStep
  <1>5. Guard(c.kind) = "locked"
    BY <1>3 DEF Guard
  <1> QED
    BY <1>3, <1>4, <1>5, BeginsRest

LEMMA LogByMgrRest ==
    ASSUME StampsInv, NEW t \in Writers, NEW k \in Sinks, LogByMgr(t, k) PROVE StampsRest'
  <1>1. PICK c : CallOK(c) /\ call' = [call EXCEPT ![t] = c] /\ CallByMgr(c, k)
    BY StepLogByMgr DEF StampsInv
  <1>2. /\ c \in Call /\ call' = [call EXCEPT ![t] = c]
        /\ c.step = "sec" /\ c.kind = "mgr" /\ c.sink = k
        /\ c.copy = c.text \/ c.conv
    BY <1>1 DEF CallOK, CallByMgr
  <1>4. /\ call[t].step = "out"
        /\ <<"args", k>> \notin mutexes /\ mutexes' = mutexes \cup {<<"args", k>>}
        /\ UNCHANGED <<now, buff, lines>>
    BY DEF LogByMgr, InStep
  <1>5. Guard(c.kind) = "args"
    BY <1>2 DEF Guard
  <1> QED
    BY <1>2, <1>4, <1>5, BeginsRest

-----------------------------------------------------------------------------
\* A call that goes on with the text and the mutex it has.
LEMMA GoesOnRest ==
    ASSUME StampsInv, NEW t \in Writers, OnlyMoves(t), Passed(t)', CallTime(t)',
           \A u \in Writers \ {t} : call'[u] = call[u],
           call[t].step \in ReadingSteps \cup {"sec"}, call'[t].step \in ReadingSteps,
           call'[t].kind = call[t].kind, call'[t].sink = call[t].sink,
           call'[t].text = call[t].text, call'[t].copy = call[t].copy,
           call'[t].shared = call[t].shared, call'[t].conv = call[t].conv,
           UNCHANGED <<buff, mutexes>>
    PROVE  StampsRest'
  <1>1. TimeInv'
    BY TimeMoves
  <1>2. MutexInv'
    <2>1. Holds(t)' => Holds(t)
      BY DEF Holds
    <2>2. Mutex(t)' = Mutex(t)
      BY DEF Mutex
    <2>3. Holds(t) => Mutex(t) \in mutexes
      BY DEF StampsInv, StampsRest, MutexInv
    <2> QED
      BY <2>1, <2>2, <2>3, MutexMoves
  <1>3. TextInv'
    <2>1. CallText(t)
      BY DEF StampsInv, StampsRest, TextInv
    <2>2. CallText(t)' /\ call'[t].step \notin {"format", "copy"}
      BY <2>1 DEF CallText, UsesBuff, InStep, ReadingSteps
    <2> QED
      BY <2>2, TextMoves
  <1>4. TextLossExplained' /\ BackwardsExplained'
    BY SameLines DEF OnlyMoves
  <1> QED
    BY <1>1, <1>2, <1>3, <1>4 DEF StampsRest

LEMMA ReadSecondsRest ==
    ASSUME StampsInv, NEW t \in Writers, ReadSeconds(t) PROVE StampsRest'
  <1> DEFINE c == [call[t] EXCEPT !.step = "ms", !.tt = now.sec,
                                  !.start = Len(lines[call[t].sink])]
  <1>1. StampsTypeOK /\ call' = [call EXCEPT ![t] = c] /\ call \in [Writers -> Call]
    BY StepReadSeconds, StampsTypes DEF StampsInv
  <1>2. call'[t] = c /\ \A u \in Writers \ {t} : call'[u] = call[u]
    BY <1>1
  <1>3. /\ call'[t].step = "ms" /\ call'[t].tt = now.sec
        /\ call'[t].start = Len(lines[call[t].sink]) /\ call'[t].sink = call[t].sink
        /\ call'[t].kind = call[t].kind /\ call'[t].text = call[t].text
        /\ call'[t].copy = call[t].copy /\ call'[t].shared = call[t].shared
        /\ call'[t].conv = call[t].conv
    BY <1>1, <1>2 DEF Call
  <1>4. /\ call[t].step = "sec" /\ call[t].sink \in Sinks
        /\ UNCHANGED <<now, buff, mutexes, lines>>
    BY <1>1 DEF ReadSeconds, InStep, StampsTypeOK
  <1>5. now.sec \in Nat /\ Len(lines[call[t].sink]) \in Nat
    BY <1>1, <1>4, StampsTypes, StampsConstants
  <1> HIDE DEF c
  <1>6. OnlyMoves(t)
    BY <1>2, <1>4 DEF OnlyMoves, Agrees
  <1>7. CallTime(t)'
    BY <1>3, <1>4, <1>5 DEF CallTime, InStep
  <1>8. Passed(t)'
    BY <1>3, <1>4, <1>5 DEF Passed
  <1>9. call[t].step \in ReadingSteps \cup {"sec"} /\ call'[t].step \in ReadingSteps
    BY <1>3, <1>4 DEF ReadingSteps
  <1> QED
    BY <1>2, <1>3, <1>4, <1>6, <1>7, <1>8, <1>9, GoesOnRest

LEMMA ReadMillisRest ==
    ASSUME StampsInv, NEW t \in Writers, ReadMillis(t) PROVE StampsRest'
  <1> DEFINE c == [call[t] EXCEPT !.step = "tm", !.ts = now]
  <1>1. StampsTypeOK /\ call' = [call EXCEPT ![t] = c] /\ call \in [Writers -> Call]
    BY StepReadMillis, StampsTypes DEF StampsInv
  <1>2. call'[t] = c /\ \A u \in Writers \ {t} : call'[u] = call[u]
    BY <1>1
  <1>3. /\ call'[t].step = "tm" /\ call'[t].ts = now /\ call'[t].tt = call[t].tt
        /\ call'[t].start = call[t].start /\ call'[t].sink = call[t].sink
        /\ call'[t].kind = call[t].kind /\ call'[t].text = call[t].text
        /\ call'[t].copy = call[t].copy /\ call'[t].shared = call[t].shared
        /\ call'[t].conv = call[t].conv
    BY <1>1, <1>2 DEF Call
  <1>4. /\ call[t].step = "ms" /\ call[t].sink \in Sinks
        /\ UNCHANGED <<now, buff, mutexes, lines>>
    BY <1>1 DEF ReadMillis, InStep, StampsTypeOK
  <1>5. now.sec \in Nat /\ now.ms \in Nat /\ ~Later(now, now)
    BY <1>1, StampsTypes, StampsConstants DEF Later
  <1>6. CallTime(t) /\ Passed(t) /\ \A i \in 1..Len(lines[call[t].sink]) : LineTime(call[t].sink, i)
    BY <1>4 DEF StampsInv, StampsRest, TimeInv, MutexInv
  <1>7. call[t].start \in Nat /\ Len(lines[call[t].sink]) \in Nat
    BY <1>1, <1>4, StampsTypes DEF Call
  <1> HIDE DEF c
  <1>8. OnlyMoves(t)
    BY <1>2, <1>4 DEF OnlyMoves, Agrees
  <1>9. CallTime(t)'
    <2>1. call[t].tt <= now.sec /\ call[t].start <= Len(lines[call[t].sink])
      BY <1>4, <1>6 DEF CallTime, ReadingSteps
    <2>2. ASSUME NEW i \in 1..call[t].start
          PROVE  ~lines[call[t].sink][i].raced => ~Later(lines[call[t].sink][i].stamp, now)
      <3>1. i \in 1..Len(lines[call[t].sink])
        BY <1>7, <2>1
      <3> QED
        BY <1>6, <3>1 DEF LineTime
    <2> QED
      BY <1>3, <1>4, <1>5, <2>1, <2>2 DEF CallTime, InStep
  <1>10. Passed(t)'
    BY <1>3, <1>4, <1>6 DEF Passed, ReadingSteps
  <1>11. call[t].step \in ReadingSteps \cup {"sec"} /\ call'[t].step \in ReadingSteps
    BY <1>3, <1>4 DEF ReadingSteps
  <1> QED
    BY <1>2, <1>3, <1>4, <1>8, <1>9, <1>10, <1>11, GoesOnRest

LEMMA LocalTimeRest ==
    ASSUME StampsInv, NEW t \in Writers, LocalTime(t) PROVE StampsRest'
  <1> DEFINE c == [call[t] EXCEPT !.step = "put"]
  <1>1. StampsTypeOK /\ call' = [call EXCEPT ![t] = c] /\ call \in [Writers -> Call]
    BY StepLocalTime, StampsTypes DEF StampsInv
  <1>2. call'[t] = c /\ \A u \in Writers \ {t} : call'[u] = call[u]
    BY <1>1
  <1>3. /\ call'[t].step = "put" /\ call'[t].ts = call[t].ts /\ call'[t].tt = call[t].tt
        /\ call'[t].start = call[t].start /\ call'[t].sink = call[t].sink
        /\ call'[t].kind = call[t].kind /\ call'[t].text = call[t].text
        /\ call'[t].copy = call[t].copy /\ call'[t].shared = call[t].shared
        /\ call'[t].conv = call[t].conv
    BY <1>1, <1>2 DEF Call
  <1>4. call[t].step = "tm" /\ UNCHANGED <<now, buff, mutexes, lines>>
    BY DEF LocalTime, InStep
  <1>5. CallTime(t) /\ Passed(t)
    BY DEF StampsInv, StampsRest, TimeInv, MutexInv
  <1> HIDE DEF c
  <1>6. OnlyMoves(t)
    BY <1>2, <1>4 DEF OnlyMoves, Agrees
  <1>7. CallTime(t)'
    BY <1>3, <1>4, <1>5 DEF CallTime, InStep, ReadingSteps
  <1>8. Passed(t)'
    BY <1>3, <1>4, <1>5 DEF Passed, ReadingSteps
  <1>9. call[t].step \in ReadingSteps \cup {"sec"} /\ call'[t].step \in ReadingSteps
    BY <1>3, <1>4 DEF ReadingSteps
  <1> QED
    BY <1>2, <1>3, <1>4, <1>6, <1>7, <1>8, <1>9, GoesOnRest

LEMMA PutTimeRest ==
    ASSUME StampsInv, NEW t \in Writers, PutTime(t) PROVE StampsRest'
  <1> DEFINE c == [call[t] EXCEPT !.step = "push",
                                  !.tmp_time = [sec |-> tmbuf, ms |-> call[t].ts.ms]]
  <1>1. StampsTypeOK /\ call' = [call EXCEPT ![t] = c] /\ call \in [Writers -> Call]
    BY StepPutTime, StampsTypes DEF StampsInv
  <1>2. call'[t] = c /\ \A u \in Writers \ {t} : call'[u] = call[u]
    BY <1>1
  <1>3. /\ call'[t].step = "push" /\ call'[t].ts = call[t].ts /\ call'[t].tt = call[t].tt
        /\ call'[t].tmp_time.ms = call[t].ts.ms
        /\ call'[t].start = call[t].start /\ call'[t].sink = call[t].sink
        /\ call'[t].kind = call[t].kind /\ call'[t].text = call[t].text
        /\ call'[t].copy = call[t].copy /\ call'[t].shared = call[t].shared
        /\ call'[t].conv = call[t].conv
    BY <1>1, <1>2 DEF Call
  <1>4. call[t].step = "put" /\ UNCHANGED <<now, buff, mutexes, lines>>
    BY DEF PutTime, InStep
  <1>5. CallTime(t) /\ Passed(t)
    BY DEF StampsInv, StampsRest, TimeInv, MutexInv
  <1> HIDE DEF c
  <1>6. OnlyMoves(t)
    BY <1>2, <1>4 DEF OnlyMoves, Agrees
  <1>7. CallTime(t)'
    BY <1>3, <1>4, <1>5 DEF CallTime, InStep, ReadingSteps
  <1>8. Passed(t)'
    BY <1>3, <1>4, <1>5 DEF Passed, ReadingSteps
  <1>9. call[t].step \in ReadingSteps \cup {"sec"} /\ call'[t].step \in ReadingSteps
    BY <1>3, <1>4 DEF ReadingSteps
  <1> QED
    BY <1>2, <1>3, <1>4, <1>6, <1>7, <1>8, <1>9, GoesOnRest

-----------------------------------------------------------------------------
\* The static buffer: who begins to use it while another does marks them both.
LEMMA LogFormatRest ==
    ASSUME StampsInv, NEW t \in Writers, NEW k \in Sinks, LogFormat(t, k) PROVE StampsRest'
  <1>0. StampsTypeOK /\ TextInv /\ MutexInv /\ call \in [Writers -> Call]
    BY StampsTypes DEF StampsInv, StampsRest
  <1> DEFINE b == {u \in Writers \ {t} : UsesBuff(u)} # {}
             CallsWith(c) == [u \in Writers |->
                     IF u = t THEN c
                     ELSE [call[u] EXCEPT !.shared =
                              call[u].shared \/ u \in {v \in Writers \ {t} : UsesBuff(v)}]]
  <1>a. PICK conv \in BOOLEAN :
            call' = CallsWith([NewCall("fmt", k, "format") EXCEPT !.shared = b, !.conv = conv])
    BY DEF LogFormat
  <1> DEFINE c == [NewCall("fmt", k, "format") EXCEPT !.shared = b, !.conv = conv]
  <1>1. call' = CallsWith(c) /\ UNCHANGED <<now, mutexes, lines>>
    BY <1>a DEF LogFormat
  <1>2. /\ c.step = "format" /\ c.kind = "fmt" /\ c.copy = c.text /\ c.shared = b
    <2>1. PICK n : n = NewCall("fmt", k, "format")
      OBVIOUS
    <2>2. "fmt" \in AnyKind /\ "format" \in FirstSteps /\ calls \in Nat
      BY <1>0, StampsTypes DEF AnyKind, FirstSteps
    <2>3. n \in Call /\ n.step = "format" /\ n.kind = "fmt" /\ n.copy = n.text
      BY <2>1, <2>2, NewCallFields
    <2>4. c = [n EXCEPT !.shared = b, !.conv = conv]
      BY <2>1
    <2> HIDE DEF b, c
    <2> QED
      BY <2>3, <2>4 DEF Call
  <1>3. call'[t] = c
    BY <1>1
  <1>4. ASSUME NEW u \in Writers \ {t}
        PROVE  Agrees(u) /\ (call'[u].shared <=> (call[u].shared \/ UsesBuff(u)))
    <2>1. call'[u] = [call[u] EXCEPT !.shared =
                         call[u].shared \/ u \in {v \in Writers \ {t} : UsesBuff(v)}]
      BY <1>1
    <2>2. (u \in {v \in Writers \ {t} : UsesBuff(v)}) <=> UsesBuff(u)
      OBVIOUS
    <2>3. call[u] \in Call
      BY <1>0
    <2>4. PICK s \in BOOLEAN : s <=> (call[u].shared \/ UsesBuff(u))
      OBVIOUS
    <2>5. call'[u] = [call[u] EXCEPT !.shared = s]
      BY <2>1, <2>2, <2>3, <2>4 DEF Call
    <2> QED
      BY <2>3, <2>4, <2>5 DEF Agrees, Call
  <1> HIDE DEF c
  <1>5. b <=> \E u \in Writers \ {t} : UsesBuff(u)
    OBVIOUS
  <1> HIDE DEF b
  <1>6. OnlyMoves(t)
    BY <1>1, <1>4 DEF OnlyMoves
  <1>7. TimeInv'
    <2>1. CallTime(t)'
      BY <1>2, <1>3 DEF CallTime, ReadingSteps, InStep
    <2> QED
      BY <1>6, <2>1, TimeMoves
  <1>8. MutexInv'
    <2>1. Passed(t)' /\ ~Holds(t)'
      BY <1>2, <1>3 DEF Passed, ReadingSteps, Holds
    <2> QED
      BY <1>1, <1>6, <2>1, MutexMoves
  <1>9. TextInv'
    <2>1. CallText(t)' /\ UsesBuff(t)'
      BY <1>2, <1>3 DEF CallText, UsesBuff, InStep
    <2>2. ASSUME NEW u \in Writers \ {t}
          PROVE  CallText(u)' /\ (UsesBuff(u)' <=> UsesBuff(u))
      <3>1. CallText(u)
        BY <1>0 DEF TextInv
      <3> QED
        BY <1>4, <3>1 DEF CallText, UsesBuff, InStep, Agrees
    <2>3. ASSUME NEW u \in Writers, NEW v \in Writers, u # v, UsesBuff(u)', UsesBuff(v)'
          PROVE  call'[u].shared
      <3>1. CASE u = t
        BY <1>2, <1>3, <1>5, <2>2, <2>3, <3>1
      <3>2. CASE u # t
        BY <1>4, <2>2, <2>3, <3>2
      <3> QED
        BY <3>1, <3>2
    <2> QED
      BY <2>1, <2>2, <2>3 DEF TextInv
  <1>10. TextLossExplained' /\ BackwardsExplained'
    BY <1>1, SameLines
  <1> QED
    BY <1>7, <1>8, <1>9, <1>10 DEF StampsRest

LEMMA FormatTextRest ==
    ASSUME StampsInv, NEW t \in Writers, FormatText(t) PROVE StampsRest'
  <1> DEFINE c == [call[t] EXCEPT !.step = "copy"]
  <1>1. StampsTypeOK /\ call' = [call EXCEPT ![t] = c] /\ call \in [Writers -> Call] /\ TextInv
    BY StepFormatText, StampsTypes DEF StampsInv, StampsRest
  <1>2. call'[t] = c /\ \A u \in Writers \ {t} : call'[u] = call[u]
    BY <1>1
  <1>3. /\ call'[t].step = "copy" /\ call'[t].kind = call[t].kind
        /\ call'[t].text = call[t].text /\ call'[t].copy = call[t].copy
        /\ call'[t].shared = call[t].shared /\ call'[t].conv = call[t].conv
    BY <1>1, <1>2 DEF Call
  <1>4. /\ call[t].step = "format"
        /\ buff' \in InBuff(t, IF call[t].conv THEN Mixed ELSE call[t].text)
        /\ UNCHANGED <<now, mutexes, lines>>
    BY DEF FormatText, InStep
  <1> HIDE DEF c
  <1>5. OnlyMoves(t)
    BY <1>2, <1>4 DEF OnlyMoves, Agrees
  <1>6. TimeInv'
    <2>1. CallTime(t)'
      BY <1>3 DEF CallTime, ReadingSteps, InStep
    <2> QED
      BY <1>5, <2>1, TimeMoves
  <1>7. MutexInv'
    <2>1. Passed(t)' /\ ~Holds(t)'
      BY <1>3 DEF Passed, ReadingSteps, Holds
    <2> QED
      BY <1>4, <1>5, <2>1, MutexMoves
  <1>8. TextInv'
    <2>1. CallText(t) /\ UsesBuff(t)
      BY <1>1, <1>4 DEF TextInv, UsesBuff
    <2>2. (~call[t].shared /\ ~call[t].conv) => buff' = call[t].text
      <3>1. SUFFICES ASSUME ~call[t].shared, ~call[t].conv PROVE buff' = call[t].text
        OBVIOUS
      <3>2. \A u \in Writers \ {t} : ~InStep(u, "format")
        BY <1>1, <2>1, <3>1 DEF TextInv, UsesBuff, InStep
      <3> QED
        BY <1>4, <3>1, <3>2 DEF InBuff
    <2>3. CallText(t)'
      BY <1>3, <2>1, <2>2 DEF CallText, UsesBuff, InStep
    <2>4. \A u \in Writers : UsesBuff(u)' <=> UsesBuff(u)
      BY <1>2, <1>3, <2>1 DEF UsesBuff
    <2>5. ASSUME NEW u \in Writers \ {t} PROVE CallText(u)'
      <3>1. CallText(u) /\ (UsesBuff(u) => call[u].shared)
        BY <1>1, <2>1 DEF TextInv
      <3> QED
        BY <1>2, <3>1 DEF CallText, UsesBuff, InStep
    <2>6. \A u \in Writers : call'[u].shared = call[u].shared
      BY <1>2, <1>3
    <2>7. \A u, v \in Writers : (u # v /\ UsesBuff(u)' /\ UsesBuff(v)') => call'[u].shared
      BY <1>1, <2>4, <2>6 DEF TextInv
    <2> QED
      BY <2>3, <2>5, <2>7 DEF TextInv
  <1>9. TextLossExplained' /\ BackwardsExplained'
    BY <1>4, SameLines
  <1> QED
    BY <1>6, <1>7, <1>8, <1>9 DEF StampsRest

LEMMA CopyTextRest ==
    ASSUME StampsInv, NEW t \in Writers, CopyText(t) PROVE StampsRest'
  <1>0. StampsTypeOK /\ call \in [Writers -> Call] /\ TextInv
    BY StampsTypes DEF StampsInv, StampsRest
  <1>1. PICK text \in InBuff(t, buff) :
            call' = [call EXCEPT ![t] = [call[t] EXCEPT !.step = "sec", !.copy = text]]
    <2>1. PICK text \in InBuff(t, buff) :
              LET d == [call[t] EXCEPT !.step = "sec", !.copy = text]
              IN  CallOK(d) /\ call' = [call EXCEPT ![t] = d]
      BY <1>0, StepCopyText
    <2> QED
      BY <2>1
  <1> DEFINE c == [call[t] EXCEPT !.step = "sec", !.copy = text]
  <1>2. call'[t] = c /\ \A u \in Writers \ {t} : call'[u] = call[u]
    BY <1>0, <1>1
  <1>3. /\ call'[t].step = "sec" /\ call'[t].kind = call[t].kind
        /\ call'[t].sink = call[t].sink
        /\ call'[t].text = call[t].text /\ call'[t].copy = text
        /\ call'[t].shared = call[t].shared /\ call'[t].conv = call[t].conv
    BY <1>0, <1>2 DEF Call
  <1>4. /\ call[t].step = "copy" /\ Mutex(t) \notin mutexes
        /\ mutexes' = mutexes \cup {Mutex(t)} /\ UNCHANGED <<now, buff, lines>>
    BY DEF CopyText, InStep
  <1> HIDE DEF c
  <1>5. OnlyMoves(t)
    BY <1>2, <1>4 DEF OnlyMoves, Agrees
  <1>6. TimeInv'
    <2>1. CallTime(t)'
      BY <1>3 DEF CallTime, ReadingSteps, InStep
    <2> QED
      BY <1>5, <2>1, TimeMoves
  <1>7. MutexInv'
    <2>1. Passed(t)'
      BY <1>3 DEF Passed, ReadingSteps
    <2>2. Mutex(t)' = Mutex(t)
      BY <1>3 DEF Mutex
    <2> QED
      BY <1>4, <1>5, <2>1, <2>2, MutexMoves
  <1>8. TextInv'
    <2>1. CallText(t) /\ UsesBuff(t)
      BY <1>0, <1>4 DEF TextInv, UsesBuff
    <2>2. (~call[t].shared /\ ~call[t].conv) => text = call[t].text
      <3>1. SUFFICES ASSUME ~call[t].shared, ~call[t].conv PROVE text = call[t].text
        OBVIOUS
      <3>2. \A u \in Writers \ {t} : ~InStep(u, "format")
        BY <1>0, <2>1, <3>1 DEF TextInv, UsesBuff, InStep
      <3>3. buff = call[t].text
        BY <1>4, <2>1, <3>1 DEF CallText, InStep
      <3> QED
        BY <1>1, <3>2, <3>3 DEF InBuff
    <2>3. CallText(t)' /\ call'[t].step \notin {"format", "copy"}
      BY <1>3, <2>1, <2>2 DEF CallText, UsesBuff, InStep
    <2> QED
      BY <1>2, <1>4, <2>3, TextMoves
  <1>9. TextLossExplained' /\ BackwardsExplained'
    BY <1>4, SameLines
  <1> QED
    BY <1>6, <1>7, <1>8, <1>9 DEF StampsRest

-----------------------------------------------------------------------------
LEMMA LaterFacts ==
    ASSUME NEW a \in Time, NEW b \in Time, NEW c \in Time
    PROVE  /\ (~Later(a, b) /\ ~Later(b, c)) => ~Later(a, c)
           /\ a.sec < b.sec => ~Later(a, b)
           /\ (a.sec = b.sec /\ a.ms <= b.ms) => ~Later(a, b)
  <1>1. /\ a.sec \in Nat /\ b.sec \in Nat /\ c.sec \in Nat
        /\ a.ms \in Nat /\ b.ms \in Nat /\ c.ms \in Nat
    BY StampsConstants
  <1> QED
    BY <1>1 DEF Later

\* The clock only goes on.
LEMMA ClockTicksRest ==
    ASSUME StampsInv, StampsTypeOK', ClockTicks PROVE StampsRest'
  <1>0. StampsTypeOK /\ UNCHANGED <<buff, mutexes, call, lines>> /\ now \in Time /\ now' \in Time
    BY DEF StampsInv, ClockTicks, StampsTypeOK
  <1>1. /\ call \in [Writers -> Call] /\ lines \in [Sinks -> Seq(Line)]
        /\ now.sec \in Nat /\ now.ms \in Nat /\ DOMAIN now = {"sec", "ms"}
    BY <1>0, StampsTypes, StampsConstants DEF Time
  <1>2. ~Later(now, now') /\ now'.sec >= now.sec
    <2>1. \/ now'.sec = now.sec /\ now'.ms = now.ms + 1
          \/ now'.sec = now.sec + 1
      BY <1>0, <1>1 DEF ClockTicks
    <2> QED
      BY <1>0, <1>1, <2>1, LaterFacts
  <1>3. ASSUME NEW t \in Writers PROVE CallTime(t)'
    <2>1. CallTime(t) /\ call[t].ts \in Time /\ call[t].tt \in Nat
      BY <1>1 DEF StampsInv, StampsRest, TimeInv, Call
    <2>2. ~Later(call[t].ts, now) => ~Later(call[t].ts, now')
      BY <1>0, <1>2, <2>1, LaterFacts
    <2>3. call[t].tt <= now.sec => call[t].tt <= now'.sec
      <3>1. now'.sec \in Nat
        BY <1>0, StampsConstants
      <3> QED
        BY <1>1, <1>2, <2>1, <3>1
    <2> QED
      BY <1>0, <2>1, <2>2, <2>3 DEF CallTime, InStep
  <1>4. ASSUME NEW k \in Sinks, NEW i \in 1..Len(lines[k]) PROVE LineTime(k, i)'
    <2>0. LineTime(k, i) /\ lines[k] \in Seq(Line)
      BY <1>1 DEF StampsInv, StampsRest, TimeInv
    <2>1. LineTime(k, i) /\ lines[k][i].stamp \in Time
      <3>1. lines[k][i] \in Line
        BY <2>0
      <3> QED
        BY <2>0, <3>1 DEF Line
    <2>2. ~Later(lines[k][i].stamp, now) => ~Later(lines[k][i].stamp, now')
      BY <1>0, <1>2, <2>1, LaterFacts
    <2> QED
      BY <1>0, <2>1, <2>2 DEF LineTime
  <1>5. TimeInv'
    BY <1>0, <1>3, <1>4 DEF TimeInv
  <1>6. TextInv'
    BY <1>0 DEF StampsInv, StampsRest, TextInv, CallText, UsesBuff, InStep
  <1>7. MutexInv'
    BY <1>0 DEF StampsInv, StampsRest, MutexInv, Passed, Holds, Mutex
  <1>8. TextLossExplained' /\ BackwardsExplained'
    BY <1>0, SameLines
  <1> QED
    BY <1>5, <1>6, <1>7, <1>8 DEF StampsRest

\* The line that a call caches, and where.
LEMMA PushedLine ==
    ASSUME StampsTypeOK, NEW t \in Writers, Pushes(t)
    PROVE  \E k \in Sinks, n \in Nat, l \in Line :
              /\ k = call[t].sink /\ n = Len(lines[k]) /\ l = LineOf(call[t])
              /\ Len(lines'[k]) = n + 1 /\ lines'[k][n + 1] = l
              /\ \A i \in 1..n : lines'[k][i] = lines[k][i]
              /\ \A j \in Sinks : j # k => lines'[j] = lines[j]
              /\ call'[t] = NoCall /\ \A u \in Writers \ {t} : call'[u] = call[u]
  <1>1. /\ call[t] \in Call /\ call[t].sink \in Sinks /\ call \in [Writers -> Call]
        /\ lines \in [Sinks -> Seq(Line)]
    BY DEF StampsTypeOK, Pushes, InStep
  <1>2. PICK k \in Sinks : k = call[t].sink
    BY <1>1
  <1>3. PICK l \in Line : l = LineOf(call[t])
    BY <1>1, LineOfType
  <1>4. PICK s \in Seq(Line) : s = lines[k]
    BY <1>1
  <1>5. lines' = [lines EXCEPT ![k] = Append(s, l)] /\ call' = [call EXCEPT ![t] = NoCall]
    BY <1>1, <1>2, <1>3, <1>4 DEF Pushes
  <1>6. /\ Len(s) \in Nat /\ Len(Append(s, l)) = Len(s) + 1 /\ Append(s, l)[Len(s) + 1] = l
        /\ \A i \in 1..Len(s) : Append(s, l)[i] = s[i]
    BY <1>4
  <1>7. /\ lines'[k] = Append(s, l) /\ \A j \in Sinks : j # k => lines'[j] = lines[j]
        /\ call'[t] = NoCall /\ \A u \in Writers \ {t} : call'[u] = call[u]
    BY <1>1, <1>5
  <1>8. PICK n \in Nat : n = Len(s)
    BY <1>6
  <1>9. /\ n = Len(lines[k]) /\ Len(lines'[k]) = n + 1 /\ lines'[k][n + 1] = l
        /\ \A i \in 1..n : lines'[k][i] = lines[k][i]
    BY <1>4, <1>6, <1>7, <1>8
  <1> QED
    BY <1>2, <1>3, <1>7, <1>9

LEMMA PushesRest ==
    ASSUME StampsInv, NEW t \in Writers, PushLine(t) \/ PushLocked(t)
    PROVE  StampsRest'
  <1>0. /\ StampsTypeOK /\ TextInv /\ TimeInv /\ MutexInv /\ TextLossExplained
        /\ BackwardsExplained /\ Pushes(t) /\ call[t].step = "push" /\ InStep(t, "push")
        /\ call[t].step \in ReadingSteps /\ call[t].step \in ReadingSteps \ {"ms"}
    BY DEF StampsInv, StampsRest, PushLine, PushLocked, Pushes, InStep, ReadingSteps
  <1>1. PICK k \in Sinks, n \in Nat, l \in Line :
              /\ k = call[t].sink /\ n = Len(lines[k]) /\ l = LineOf(call[t])
              /\ Len(lines'[k]) = n + 1 /\ lines'[k][n + 1] = l
              /\ \A i \in 1..n : lines'[k][i] = lines[k][i]
              /\ \A j \in Sinks : j # k => lines'[j] = lines[j]
              /\ call'[t] = NoCall /\ \A u \in Writers \ {t} : call'[u] = call[u]
    BY <1>0, PushedLine
  <1>2. PICK c \in Call : c = call[t]
    BY <1>0, StampsTypes
  <1>3. /\ UNCHANGED <<now, buff>> /\ mutexes' = mutexes \ {Mutex(t)} /\ now \in Time
        /\ lines \in [Sinks -> Seq(Line)] /\ call \in [Writers -> Call]
    BY <1>0, StampsTypes DEF Pushes
  <1>4. /\ l.stamp = c.tmp_time /\ l.kind = c.kind /\ l.start = c.start /\ l.shared = c.shared
        /\ l.conv = c.conv
        /\ l.torn <=> c.tt # c.ts.sec
        /\ l.raced <=> c.tmp_time.sec # c.tt
        /\ l.late <=> Later(c.tmp_time, now)
        /\ l.intact <=> c.copy = c.text
    <2>1. l = LineOf(c)
      BY <1>1, <1>2
    <2>2. /\ l.stamp = c.tmp_time /\ l.kind = c.kind /\ l.start = c.start /\ l.shared = c.shared
          /\ l.conv = c.conv
      BY <2>1 DEF LineOf
    <2>3. l.torn = (c.tt # c.ts.sec)
      BY <2>1 DEF LineOf
    <2>4. l.raced = (c.tmp_time.sec # c.tt)
      BY <2>1 DEF LineOf
    <2>5. l.late = Later(c.tmp_time, now)
      BY <2>1 DEF LineOf
    <2>6. l.intact = (c.copy = c.text)
      BY <2>1 DEF LineOf
    <2> QED
      BY <2>2, <2>3, <2>4, <2>5, <2>6
  <1>5. /\ c.tmp_time \in Time /\ c.ts \in Time /\ c.tt \in Nat /\ c.start \in Nat /\ c.sink = k
    BY <1>1, <1>2 DEF Call
  <1>6. /\ c.tt <= c.ts.sec /\ ~Later(c.ts, now) /\ c.start <= n /\ c.tmp_time.ms = c.ts.ms
        /\ \A i \in 1..c.start : ~lines[k][i].raced => ~Later(lines[k][i].stamp, c.ts)
    BY <1>0, <1>1, <1>2, <1>5 DEF TimeInv, CallTime
  <1>7. ~l.raced => ~Later(l.stamp, c.ts)
    <2>1. c.tmp_time.sec \in Nat /\ c.ts.sec \in Nat /\ c.ts.ms \in Nat
      BY <1>5, StampsConstants
    <2> QED
      BY <1>4, <1>5, <1>6, <2>1 DEF Later
  <1>8. \A i \in 1..n + 1 : i = n + 1 \/ i \in 1..n
    OBVIOUS
  <1>9. TimeInv'
    <2>1. ~l.raced => ~Later(l.stamp, now)
      BY <1>3, <1>4, <1>5, <1>6, <1>7, LaterFacts
    <2>2. l.late => l.raced
      BY <1>4, <2>1
    <2>3. ASSUME NEW j \in Sinks, NEW i \in 1..Len(lines'[j]) PROVE LineTime(j, i)'
      <3>1. CASE j = k /\ i = n + 1
        BY <1>1, <1>3, <2>1, <2>2, <3>1 DEF LineTime
      <3>2. CASE ~(j = k /\ i = n + 1)
        <4>1. i \in 1..Len(lines[j]) /\ lines'[j][i] = lines[j][i]
          BY <1>1, <1>8, <3>2
        <4>2. LineTime(j, i)
          BY <1>0, <4>1 DEF TimeInv
        <4> QED
          BY <1>3, <4>1, <4>2 DEF LineTime
      <3> QED
        BY <3>1, <3>2
    <2>4. CallTime(t)'
      BY <1>1 DEF CallTime, NoCall, ReadingSteps, InStep
    <2>5. ASSUME NEW u \in Writers \ {t} PROVE CallTime(u)'
      <3>1. /\ CallTime(u) /\ call'[u] = call[u] /\ call[u] \in Call
            /\ call[u].step # "out" => call[u].sink \in Sinks
        BY <1>0, <1>1, <1>3 DEF TimeInv, StampsTypeOK
      <3>2. CASE call[u].step \in ReadingSteps
        <4>1. call[u].sink \in Sinks /\ call[u].start \in Nat
          BY <3>1, <3>2 DEF ReadingSteps, Call
        <4>2. Len(lines[call[u].sink]) \in Nat
          BY <1>3, <4>1
        <4>3. call[u].start <= Len(lines[call[u].sink])
          BY <3>1, <3>2 DEF CallTime
        <4>4. Len(lines'[call[u].sink]) >= Len(lines[call[u].sink])
          BY <1>1, <4>1, <4>2
        <4>5. Len(lines'[call[u].sink]) \in Nat
          BY <1>1, <4>1, <4>2
        <4>6. \A i \in 1..call[u].start : lines'[call[u].sink][i] = lines[call[u].sink][i]
          <5>1. CASE call[u].sink = k
            <6>1. call[u].start <= n
              BY <1>1, <4>3, <5>1
            <6>2. \A i \in 1..call[u].start : i \in 1..n
              BY <4>1, <6>1
            <6> QED
              BY <1>1, <5>1, <6>2
          <5>2. CASE call[u].sink # k
            BY <1>1, <4>1, <5>2
          <5> QED
            BY <5>1, <5>2
        <4>7. call[u].start <= Len(lines'[call[u].sink])
          BY <4>1, <4>2, <4>3, <4>4, <4>5
        <4> QED
          BY <1>3, <3>1, <4>6, <4>7 DEF CallTime, InStep
      <3>3. CASE call[u].step \notin ReadingSteps
        BY <3>1, <3>3 DEF CallTime, InStep, ReadingSteps
      <3> QED
        BY <3>2, <3>3
    <2> QED
      BY <2>3, <2>4, <2>5 DEF TimeInv
  <1>10. TextInv'
    <2>1. CallText(t)' /\ call'[t].step \notin {"format", "copy"}
      BY <1>1 DEF CallText, UsesBuff, InStep, NoCall
    <2> QED
      BY <1>1, <1>3, <2>1, TextMoves
  <1>11. MutexInv'
    <2>1. ~Holds(t)' /\ Passed(t)'
      BY <1>1 DEF Holds, Passed, NoCall, ReadingSteps
    <2>2. ASSUME NEW u \in Writers \ {t}
          PROVE  (Holds(u)' <=> Holds(u)) /\ Mutex(u)' = Mutex(u)
      BY <1>1 DEF Holds, Mutex
    <2>3. ASSUME NEW u \in Writers \ {t}, Holds(u)
          PROVE  Mutex(u) \in mutexes /\ Mutex(u) # Mutex(t)
      <3>1. Mutex(u) \in mutexes
        BY <1>0, <2>3 DEF MutexInv
      <3>2. Mutex(u) # Mutex(t)
        <4>1. CASE Holds(t)
          BY <1>0, <2>3, <4>1 DEF MutexInv
        <4>2. CASE ~Holds(t)
          <5>1. call[t].kind = "str" /\ call[u].kind # "str"
            BY <1>0, <2>3, <4>2 DEF Holds
          <5>2. Guard(call[t].kind) = "str" /\ Guard(call[u].kind) # "str"
            BY <5>1 DEF Guard
          <5> QED
            BY <5>2 DEF Mutex
        <4> QED
          BY <4>1, <4>2
      <3> QED
        BY <3>1, <3>2
    <2>4. \A u \in Writers : Holds(u)' => Mutex(u)' \in mutexes'
      BY <1>3, <2>1, <2>2, <2>3
    <2>5. \A u, v \in Writers : (u # v /\ Holds(u)' /\ Holds(v)') => Mutex(u)' # Mutex(v)'
      BY <1>0, <2>1, <2>2 DEF MutexInv
    <2>6. ASSUME NEW u \in Writers \ {t} PROVE Passed(u)'
      <3>1. /\ Passed(u) /\ call'[u] = call[u] /\ call[u] \in Call
            /\ call[u].step # "out" => call[u].sink \in Sinks
        BY <1>0, <1>1, <1>3 DEF MutexInv, StampsTypeOK
      <3>2. SUFFICES ASSUME call[u].step \in ReadingSteps,
                            NEW i \in call[u].start + 1 .. Len(lines'[call[u].sink])
                     PROVE  /\ call[u].kind # "locked"
                            /\ \/ call[u].kind = "str"
                               \/ Guard(lines'[call[u].sink][i].kind) # Guard(call[u].kind)
        BY <3>1 DEF Passed
      <3>3. call[u].sink \in Sinks /\ call[u].start \in Nat
        BY <3>1, <3>2 DEF ReadingSteps, Call
      <3>4. CASE call[u].sink = k /\ i = n + 1
        <4>1. lines'[call[u].sink][i].kind = call[t].kind /\ call[t].sink = k
          BY <1>1, <1>2, <1>4, <3>4
        <4>2. call[u].kind # "str" => Mutex(u) \in mutexes /\ Mutex(u) # Mutex(t)
          BY <2>3, <3>2 DEF Holds
        <4>3. call[u].kind # "locked"
          <5>1. SUFFICES ASSUME call[u].kind = "locked" PROVE FALSE
            OBVIOUS
          <5>2. Mutex(u) = <<"locked", k>>
            BY <3>4, <5>1 DEF Mutex, Guard
          <5>3. call[t].kind = "locked"
            BY <4>1, <4>2, <5>1, <5>2 DEF PushLine, PushLocked
          <5>4. Mutex(t) = <<"locked", k>>
            BY <4>1, <5>3 DEF Mutex, Guard
          <5> QED
            BY <4>2, <5>1, <5>2, <5>4
        <4>4. call[u].kind # "str" => Guard(call[t].kind) # Guard(call[u].kind)
          BY <3>4, <4>1, <4>2 DEF Mutex
        <4> QED
          BY <4>1, <4>3, <4>4
      <3>5. CASE ~(call[u].sink = k /\ i = n + 1)
        <4>1. i \in 1..Len(lines'[call[u].sink])
          BY <3>2, <3>3
        <4>2. /\ i \in 1..Len(lines[call[u].sink])
              /\ lines'[call[u].sink][i] = lines[call[u].sink][i]
          BY <1>1, <1>8, <3>3, <3>5, <4>1
        <4>3. i \in call[u].start + 1 .. Len(lines[call[u].sink])
          BY <1>3, <3>2, <3>3, <4>2
        <4> QED
          BY <3>1, <3>2, <4>2, <4>3 DEF Passed
      <3> QED
        BY <3>4, <3>5
    <2> QED
      BY <2>1, <2>4, <2>5, <2>6 DEF MutexInv
  <1>12. TextLossExplained'
    <2>1. ~l.intact => \/ l.kind \in {"mgr", "fmt"} /\ l.conv
                       \/ l.kind = "fmt" /\ l.shared
      BY <1>0, <1>2, <1>4 DEF TextInv, CallText
    <2> DEFINE Kept(x) == ~x.intact => \/ x.kind \in {"mgr", "fmt"} /\ x.conv
                                       \/ x.kind = "fmt" /\ x.shared
    <2>2. ASSUME NEW j \in Sinks, NEW i \in 1..Len(lines'[j]) PROVE Kept(lines'[j][i])
      <3>1. CASE j = k /\ i = n + 1
        BY <1>1, <2>1, <3>1
      <3>2. CASE ~(j = k /\ i = n + 1)
        <4>1. i \in 1..Len(lines[j]) /\ lines'[j][i] = lines[j][i]
          BY <1>1, <1>8, <3>2
        <4> QED
          BY <1>0, <4>1 DEF TextLossExplained
      <3> QED
        BY <3>1, <3>2
    <2> QED
      BY <2>2 DEF TextLossExplained
  <1>13. BackwardsExplained'
    <2> DEFINE Explained(i, a, b) ==
                  Later(a.stamp, b.stamp) =>
                      \/ b.torn \/ a.raced \/ b.raced
                      \/ /\ i > b.start /\ b.kind # "locked"
                         /\ b.kind = "str" \/ Guard(a.kind) # Guard(b.kind)
    <2>1. ASSUME NEW m \in Sinks, NEW j \in 1..Len(lines'[m]), NEW i \in 1 .. j - 1
          PROVE  Explained(i, lines'[m][i], lines'[m][j])
      <3>1. CASE m = k /\ j = n + 1
        <4>1. i \in 1..n
          BY <3>1
        <4>2. PICK a \in Line : a = lines[k][i]
          BY <1>1, <1>3, <4>1
        <4>3. lines'[m][j] = l /\ lines'[m][i] = a
          BY <1>1, <3>1, <4>1, <4>2
        <4>4. SUFFICES ASSUME Later(a.stamp, l.stamp), ~l.torn, ~a.raced, ~l.raced
                       PROVE  /\ i > l.start /\ l.kind # "locked"
                              /\ l.kind = "str" \/ Guard(a.kind) # Guard(l.kind)
          BY <4>3
        <4>5. i > c.start
          <5>1. SUFFICES ASSUME ~(i > c.start) PROVE FALSE
            OBVIOUS
          <5>2. i \in 1..c.start
            BY <1>5, <4>1, <5>1
          <5>3. ~Later(a.stamp, c.ts)
            BY <1>6, <4>2, <4>4, <5>2
          <5>4. l.stamp.sec = c.ts.sec /\ l.stamp.ms = c.ts.ms
            BY <1>4, <1>6, <4>4
          <5> QED
            BY <4>4, <5>3, <5>4 DEF Later
        <4>6. i \in c.start + 1 .. Len(lines[k])
          BY <1>1, <1>5, <4>1, <4>5
        <4>7. c.kind # "locked" /\ (c.kind = "str" \/ Guard(a.kind) # Guard(c.kind))
          BY <1>0, <1>2, <1>5, <4>2, <4>6 DEF MutexInv, Passed
        <4> QED
          BY <1>4, <4>5, <4>7
      <3>2. CASE ~(m = k /\ j = n + 1)
        <4>1. j \in 1..Len(lines[m]) /\ lines'[m][j] = lines[m][j]
          BY <1>1, <1>8, <3>2
        <4>2. lines'[m][i] = lines[m][i]
          <5>1. CASE m = k
            BY <1>1, <4>1, <5>1
          <5>2. CASE m # k
            BY <1>1, <5>2
          <5> QED
            BY <5>1, <5>2
        <4>3. Explained(i, lines[m][i], lines[m][j])
          BY <1>0, <4>1 DEF BackwardsExplained
        <4> QED
          BY <4>1, <4>2, <4>3
      <3> QED
        BY <3>1, <3>2
    <2> QED
      BY <2>1 DEF BackwardsExplained
  <1> QED
    BY <1>9, <1>10, <1>11, <1>12, <1>13 DEF StampsRest

LEMMA StampsNextInv == StampsInv /\ [StampsNext]_stampsVars => StampsInv'
  <1> SUFFICES ASSUME StampsInv, [StampsNext]_stampsVars PROVE StampsInv'
    OBVIOUS
  <1>1. StampsTypeOK'
    BY StampsNextType DEF StampsInv
  <1>2. CASE UNCHANGED stampsVars
    <2>1. StampsRest'
      BY <1>2 DEF stampsVars, StampsInv, StampsRest, TextInv, CallText, UsesBuff, InStep, TimeInv,
                  CallTime, LineTime, MutexInv, Holds, Mutex, Passed, TextLossExplained,
                  BackwardsExplained
    <2> QED
      BY <1>1, <2>1 DEF StampsInv
  <1>3. CASE StampsNext
    <2>1. StampsRest'
      BY <1>1, <1>3, ClockTicksRest, LogFormatRest, LogStringRest, LogArgsRest, LogByMgrRest,
         LogLockedRest, FormatTextRest, CopyTextRest, ReadSecondsRest, ReadMillisRest,
         LocalTimeRest, PutTimeRest, PushesRest DEF StampsNext
    <2> QED
      BY <1>1, <2>1 DEF StampsInv
  <1> QED
    BY <1>2, <1>3

\* What the threads find in the buffers, and when they have read the clock, as far
\* as the mutexes go.
THEOREM StampsSpecInv == StampsSpec => []StampsInv
  <1>1. StampsInit => StampsInv
    BY StampsInitInv
  <1>2. StampsInv /\ [StampsNext]_stampsVars => StampsInv'
    BY StampsNextInv
  <1> QED
    BY <1>1, <1>2, PTL DEF StampsSpec

\* A stamp is late, or earlier than one before it in the file, only by the races
\* of its two clock readings, of localtime()'s buffer, or of calls that do not
\* hold the same mutex.
THEOREM SpecStampsExplained == StampsSpec => []StampsExplained
  <1>1. StampsInv => StampsExplained
    BY DEF StampsInv, StampsRest, TimeInv, LineTime, StampsExplained, FutureOnlyByRace
  <1> QED
    BY <1>1, StampsSpecInv, PTL

\* A line has another text than the one passed only if log_mgr or a file_log_mgr
\* formatted it and handed snprintf() its va_list for a conversion in it, or if two
\* calls of a file_log_mgr's formatting overload overlapped, of any loggers: they
\* share one buffer, which no mutex protects.
THEOREM SpecTextLossExplained == StampsSpec => []TextLossExplained
  <1>1. StampsInv => TextLossExplained
    BY DEF StampsInv, StampsRest
  <1> QED
    BY <1>1, StampsSpecInv, PTL

-----------------------------------------------------------------------------
(***************************************************************************)
(* Registry.                                                               *)
(***************************************************************************)
Making  == {"make", "inserting"}
Walking == {"read", "level", "expired"}

\* Where a call is, and what it has: a name, the place of a logger, its own one.
RequestOK(c) ==
    /\ at[c] \in Getting \cup Walking => key[c] \in Names
    /\ at[c] \in Walking => m_log_map[key[c]] # Absent
    /\ at[c] \notin Making => mine[c] = Absent
    /\ at[c] = "inserting" => mine[c] # Absent
    /\ mine[c] \in 0..Len(loggers)
    /\ at[c] = "level" => arg[c] \in Levels

CallInv == \A c \in Callers : RequestOK(c)

MapInv ==
    /\ \A n \in Names : m_log_map[n] \in 0..Len(loggers)
    /\ \A s \in DOMAIN Setting : seen[s] \subseteq 1..Len(loggers)

\* A call of get_logger() that met no other has its name to itself.
RaceInv ==
    /\ \A c, d \in Callers : (c # d /\ at[c] \in Getting /\ at[d] \in Getting) => raced[c]
    /\ \A c \in Callers : (at[c] \in Making /\ ~raced[c]) => m_log_map[key[c]] = Absent
    /\ \A x \in given : ~x.raced => (x.logger # Absent /\ m_log_map[x.name] = x.logger)

\* A CSV logger keeps the level it was made with.
LoggerInv ==
    \A l \in 1..Len(loggers) :
        /\ loggers[l].format \in {"File", "Sqlite", "CSV"}
        /\ loggers[l].format = "CSV" =>
              loggers[l].level = log_level["ALL"] /\ loggers[l].filter = log_level["ALL"]

\* A logger has the setting that it should have.
Right(s, l) ==
    IF s = "level"
    THEN /\ loggers[l].level =
                (IF loggers[l].format = "File" \/ (loggers[l].format = "Sqlite" /\ l \in seen["level"])
                 THEN m_log_level ELSE log_level["ALL"])
         /\ loggers[l].filter = loggers[l].level \/ (loggers[l].filter = Own /\ l \in reopened)
    ELSE loggers[l].expired =
             (IF l \in seen["expired"] THEN wanted ELSE DefaultExpired(loggers[l].format))

HandedOn(s) == IF s = "level" THEN m_log_level ELSE wanted

\* While the last set_level() (or set_expired()) has not met another call, it
\* walks over the loggers there were when it began; those it has passed, and
\* those made since, are right.
WalkInv(s) ==
    /\ \A c, d \in Callers :
          (c # d /\ at[c] \in Setting[s]) => at[d] \notin Setting[s] \cup Getting
    /\ \A c \in Callers :
          at[c] \in Setting[s] =>
              /\ seen[s] = Registered
              /\ at[c] # "read" => arg[c] = HandedOn(s)
    /\ \A n \in Names :
          (m_log_map[n] # Absent /\ \A c \in Callers : at[c] \in Setting[s] => n < key[c])
              => Right(s, m_log_map[n])
    /\ \A c \in Callers :
          mine[c] # Absent => mine[c] \notin seen[s] /\ Right(s, mine[c])

SettingInv == \A s \in DOMAIN Setting : ~overlap[s] => WalkInv(s)

RegistryInv ==
    RegistryTypeOK /\ CallInv /\ MapInv /\ RaceInv /\ LoggerInv /\ SettingInv

-----------------------------------------------------------------------------
Logger == [format : log_format, level : Levels, filter : Levels \cup {Own}, expired : Nat]
CallPlaces == {"out"} \cup Getting \cup {"read", "level", "expired"}

LEMMA RegistryConstants ==
    /\ NumNames \in Nat /\ MaxLoggers \in Nat /\ MaxRequests \in Nat
    /\ Formats \subseteq log_format /\ MinutesAsked \subseteq Nat
    /\ \A n \in Names : n \in Nat /\ n # 0
    /\ DOMAIN Setting = {"level", "expired"}
    /\ Setting["level"] = {"read", "level"} /\ Setting["expired"] = {"expired"}
    /\ \A s \in DOMAIN Setting : Setting[s] \subseteq Walking
  <1>1. /\ NumNames \in Nat /\ MaxLoggers \in Nat /\ MaxRequests \in Nat
        /\ Formats \subseteq log_format /\ MinutesAsked \subseteq Nat
    BY RegistryAssumption
  <1>2. \A n \in Names : n \in Nat /\ n # 0
    BY <1>1 DEF Names
  <1>3. /\ DOMAIN Setting = {"level", "expired"}
        /\ Setting["level"] = {"read", "level"} /\ Setting["expired"] = {"expired"}
    BY DEF Setting
  <1>4. \A s \in DOMAIN Setting : Setting[s] \subseteq Walking
    BY <1>3 DEF Walking
  <1> QED
    BY <1>1, <1>2, <1>3, <1>4

LEMMA RegistryTypes ==
    ASSUME RegistryTypeOK
    PROVE  /\ m_log_map \in [Names -> Numbers] /\ m_log_level \in Levels
           /\ loggers \in Seq(Logger) /\ Len(loggers) \in Nat
           /\ at \in [Callers -> CallPlaces] /\ key \in [Callers -> Names \cup {Absent}]
           /\ format \in [Callers -> log_format] /\ mine \in [Callers -> Numbers]
           /\ arg \in [Callers -> Nat] /\ raced \in [Callers -> BOOLEAN]
           /\ overlap \in [DOMAIN Setting -> BOOLEAN]
           /\ seen \in [DOMAIN Setting -> SUBSET Numbers]
           /\ given \subseteq [name : Names, logger : Numbers, raced : BOOLEAN]
           /\ \A n \in Numbers : n \in Nat
  <1>1. \A n \in Numbers : n \in Nat
    BY RegistryConstants DEF Numbers
  <1> QED
    BY <1>1 DEF RegistryTypeOK, Logger, CallPlaces

LEMMA LevelNames ==
    /\ \A word : get_log_level_by_name(word) \in Levels
    /\ log_level["ALL"] = 7 /\ log_level["ALL"] \in Levels
  <1>1. ASSUME NEW word PROVE get_log_level_by_name(word) \in Levels
    <2>1. CASE word \in DOMAIN log_level
      <3>1. word \in {"OFF", "FATAL", "ERROR", "WARN", "INFO", "DEBUG", "TRACE", "ALL"}
        BY <2>1 DEF log_level
      <3>2. log_level[word] \in Levels
        BY <3>1 DEF log_level, Levels
      <3> QED
        BY <2>1, <3>2 DEF get_log_level_by_name
    <2>2. CASE word \notin DOMAIN log_level
      BY <2>2 DEF get_log_level_by_name, log_level, Levels
    <2> QED
      BY <2>1, <2>2
  <1>2. log_level["ALL"] = 7 /\ log_level["ALL"] \in Levels
    BY DEF log_level, Levels
  <1> QED
    BY <1>1, <1>2

\* Everything of d stays as it is, but that it may have met another call.
Stays(d) ==
    /\ at'[d] = at[d] /\ key'[d] = key[d] /\ mine'[d] = mine[d] /\ arg'[d] = arg[d]
    /\ format'[d] = format[d] /\ (raced[d] => raced'[d])

\* Where an iterator comes to.
LEMMA WalkMoves ==
    ASSUME RegistryTypeOK, NEW c \in Callers, NEW n, n \in Nat, NEW to \in Walking, NEW v \in Nat,
           Walk(c, n, to, v), format' = format
    PROVE  /\ \A d \in Callers \ {c} : Stays(d)
           /\ \/ /\ at'[c] = "out" /\ key'[c] = Absent /\ mine'[c] = Absent
                 /\ raced'[c] = FALSE
                 /\ ~Inserting(c) => \A k \in Names : k > n => m_log_map[k] = Absent
              \/ /\ at'[c] = to /\ key'[c] \in Names /\ key'[c] > n
                 /\ m_log_map[key'[c]] # Absent
                 /\ mine'[c] = mine[c] /\ raced'[c] = raced[c] /\ arg'[c] = v
                 /\ ~Inserting(c) =>
                       \A k \in Names : (k > n /\ m_log_map[k] # Absent) => key'[c] <= k
           /\ at' \in [Callers -> CallPlaces] /\ key' \in [Callers -> Names \cup {Absent}]
           /\ mine' \in [Callers -> Numbers] /\ raced' \in [Callers -> BOOLEAN]
           /\ arg' \in [Callers -> Nat]
  <1> DEFINE later == {k \in Names : k > n /\ m_log_map[k] # Absent}
  <1>0. /\ at \in [Callers -> CallPlaces] /\ key \in [Callers -> Names \cup {Absent}]
        /\ mine \in [Callers -> Numbers] /\ raced \in [Callers -> BOOLEAN]
        /\ arg \in [Callers -> Nat] /\ 0 \in Numbers
    BY RegistryTypes, RegistryConstants DEF Numbers
  <1>1. later \in SUBSET Nat
    BY RegistryConstants
  <1>2. PICK k \in After(c, n) :
           \/ k = Absent /\ Returns(c) /\ arg' = [arg EXCEPT ![c] = 0]
           \/ /\ k # Absent
              /\ at' = [at EXCEPT ![c] = to] /\ key' = [key EXCEPT ![c] = k]
              /\ arg' = [arg EXCEPT ![c] = v] /\ UNCHANGED <<mine, raced>>
    BY DEF Walk
  <1>3. /\ k \in later \cup {Absent}
        /\ ~Inserting(c) => \/ later = {} /\ k = Absent
                            \/ later # {} /\ k \in later /\ \A j \in later : k <= j
    <2>1. \/ k \in (IF later = {} THEN {Absent} ELSE {Min(later)})
          \/ k \in later \cup {Absent} /\ Inserting(c)
      BY <1>2 DEF After
    <2>2. later # {} => Min(later) \in later /\ \A j \in later : Min(later) <= j
      BY <1>1, LeastOf
    <2> HIDE DEF later
    <2> QED
      BY <2>1, <2>2
  <1>4. CASE k = Absent
    <2>1. /\ at' = [at EXCEPT ![c] = "out"] /\ key' = [key EXCEPT ![c] = Absent]
          /\ mine' = [mine EXCEPT ![c] = Absent] /\ raced' = [raced EXCEPT ![c] = FALSE]
          /\ arg' = [arg EXCEPT ![c] = 0]
      BY <1>2, <1>4 DEF Returns
    <2>2. ~Inserting(c) => \A j \in Names : j > n => m_log_map[j] = Absent
      <3>1. \A j \in later : j # Absent
        BY RegistryConstants DEF Absent
      <3>2. ~Inserting(c) => later = {}
        <4> HIDE DEF later
        <4> QED
          BY <1>3, <1>4, <3>1
      <3> QED
        BY <3>2
    <2>3. "out" \in CallPlaces /\ Absent \in Numbers
      BY <1>0 DEF CallPlaces, Absent
    <2>4. \A d \in Callers \ {c} : Stays(d)
      BY <1>0, <2>1 DEF Stays
    <2>5. at'[c] = "out" /\ key'[c] = Absent /\ mine'[c] = Absent /\ raced'[c] = FALSE
      BY <1>0, <2>1
    <2> QED
      BY <1>0, <2>1, <2>2, <2>3, <2>4, <2>5
  <1>5. CASE k # Absent
    <2>1. /\ at' = [at EXCEPT ![c] = to] /\ key' = [key EXCEPT ![c] = k]
          /\ arg' = [arg EXCEPT ![c] = v] /\ UNCHANGED <<mine, raced>>
      BY <1>2, <1>5
    <2>2. k \in Names /\ k > n /\ m_log_map[k] # Absent
      BY <1>3, <1>5
    <2>3. ~Inserting(c) => \A j \in Names : (j > n /\ m_log_map[j] # Absent) => k <= j
      BY <1>3, <1>5
    <2>4. to \in CallPlaces
      BY DEF CallPlaces, Walking
    <2>5. \A d \in Callers \ {c} : Stays(d)
      BY <1>0, <2>1 DEF Stays
    <2>6. at'[c] = to /\ key'[c] = k /\ arg'[c] = v /\ mine'[c] = mine[c] /\ raced'[c] = raced[c]
      BY <1>0, <2>1
    <2> QED
      BY <1>0, <2>1, <2>2, <2>3, <2>4, <2>5, <2>6
  <1> QED
    BY <1>4, <1>5

-----------------------------------------------------------------------------
(***************************************************************************)
(* Types, and what each call has.                                          *)
(***************************************************************************)
BaseInv == RegistryTypeOK /\ CallInv /\ MapInv

\* Nothing is ever taken out of m_log_map, nor a logger destroyed.
Grows ==
    /\ \A n \in Names : m_log_map[n] # Absent => m_log_map'[n] = m_log_map[n]
    /\ Len(loggers') \in Nat /\ Len(loggers) <= Len(loggers')

LEMMA RequestStays ==
    ASSUME BaseInv, NEW d \in Callers, Stays(d), Grows
    PROVE  RequestOK(d)'
  <1>1. RequestOK(d) /\ Len(loggers) \in Nat
    BY RegistryTypes DEF BaseInv, CallInv
  <1>2. mine'[d] \in 0..Len(loggers')
    <2>1. mine[d] \in 0..Len(loggers) /\ mine'[d] = mine[d]
      BY <1>1 DEF RequestOK, Stays
    <2> QED
      BY <1>1, <2>1 DEF Grows
  <1>3. at'[d] \in Getting \cup Walking => key'[d] \in Names
    BY <1>1 DEF RequestOK, Stays
  <1>4. at'[d] \in Walking => m_log_map'[key'[d]] # Absent
    BY <1>1 DEF RequestOK, Stays, Grows
  <1>5. /\ at'[d] \notin Making => mine'[d] = Absent
        /\ at'[d] = "inserting" => mine'[d] # Absent
        /\ at'[d] = "level" => arg'[d] \in Levels
    BY <1>1 DEF RequestOK, Stays
  <1> QED
    BY <1>2, <1>3, <1>4, <1>5 DEF RequestOK

LEMMA MapKept ==
    ASSUME BaseInv, m_log_map' = m_log_map, Len(loggers') \in Nat, Len(loggers) <= Len(loggers'),
           \A s \in DOMAIN Setting : seen'[s] \subseteq seen[s] \cup Registered
    PROVE  MapInv' /\ Grows
  <1>1. Len(loggers) \in Nat /\ MapInv
    BY RegistryTypes DEF BaseInv
  <1>2. \A x \in 0..Len(loggers) : x \in 0..Len(loggers')
    BY <1>1
  <1>3. \A x \in 1..Len(loggers) : x \in 1..Len(loggers')
    BY <1>1
  <1>4. ASSUME NEW x \in Registered PROVE x \in 1..Len(loggers)
    <2>1. PICK n \in Names : x = m_log_map[n]
      BY DEF Registered
    <2>2. x \in 0..Len(loggers) /\ x # 0
      BY <1>1, <2>1 DEF MapInv, Registered, Absent
    <2> QED
      BY <1>1, <2>2
  <1>5. \A n \in Names : m_log_map'[n] \in 0..Len(loggers')
    BY <1>1, <1>2 DEF MapInv
  <1>6. \A s \in DOMAIN Setting : seen'[s] \subseteq 1..Len(loggers')
    BY <1>1, <1>3, <1>4 DEF MapInv
  <1> QED
    BY <1>5, <1>6 DEF MapInv, Grows

LEMMA RegistryInitBase == RegistryInit => BaseInv
  <1> SUFFICES ASSUME RegistryInit PROVE BaseInv
    OBVIOUS
  <1>0. /\ m_log_map = [n \in Names |-> Absent] /\ m_log_level = log_level["ALL"] /\ loggers = <<>>
        /\ at = [c \in Callers |-> "out"] /\ key = [c \in Callers |-> Absent]
        /\ format = [c \in Callers |-> "File"] /\ mine = [c \in Callers |-> Absent]
        /\ arg = [c \in Callers |-> 0] /\ died = FALSE /\ requests = 0 /\ given = {}
        /\ raced = [c \in Callers |-> FALSE] /\ wanted = 0 /\ reopened = {}
        /\ overlap = [s \in DOMAIN Setting |-> FALSE] /\ seen = [s \in DOMAIN Setting |-> {}]
    BY DEF RegistryInit
  <1>1. overlap \in [DOMAIN Setting -> BOOLEAN] /\ seen \in [DOMAIN Setting -> SUBSET Numbers]
    BY <1>0, RegistryConstants
  <1>2. \A s \in DOMAIN Setting : seen[s] = {}
    BY <1>0, RegistryConstants
  <1>3. /\ m_log_map \in [Names -> Numbers] /\ mine \in [Callers -> Numbers]
        /\ requests \in 0..MaxRequests
    BY <1>0, RegistryConstants DEF Numbers, Absent
  <1>4. m_log_level \in Levels
    BY <1>0, LevelNames
  <1>5. loggers \in Seq(Logger) /\ Len(loggers) = 0
    BY <1>0
  <1>6. RegistryTypeOK
    BY <1>0, <1>1, <1>3, <1>4, <1>5 DEF RegistryTypeOK, Logger, log_format
  <1>7. CallInv
    BY <1>0, <1>5 DEF CallInv, RequestOK, Getting, Walking, Making, Absent
  <1>8. MapInv
    BY <1>0, <1>2, <1>5 DEF MapInv, Absent
  <1> QED
    BY <1>6, <1>7, <1>8 DEF BaseInv

LEMMA GetCallBase ==
    ASSUME BaseInv, NEW c \in Callers, NEW n \in Names, NEW f \in Formats, GetCall(c, n, f)
    PROVE  /\ BaseInv' /\ Grows /\ at[c] = "out" /\ at'[c] = "find" /\ mine'[c] = Absent
           /\ \A d \in Callers \ {c} : Stays(d)
  <1>0. RegistryTypeOK /\ CallInv
    BY DEF BaseInv
  <1>1. /\ at[c] = "out" /\ requests < MaxRequests /\ requests' = requests + 1
        /\ at' = [at EXCEPT ![c] = "find"] /\ key' = [key EXCEPT ![c] = n]
        /\ format' = [format EXCEPT ![c] = f]
        /\ UNCHANGED <<m_log_map, m_log_level, loggers, mine, arg, died, given, seen,
                       wanted, reopened>>
    BY DEF GetCall, Request
  <1>2. raced' \in [Callers -> BOOLEAN] /\ \A d \in Callers : raced[d] => raced'[d]
    <2>1. raced' = [d \in Callers |-> raced[d] \/ (d = c /\ Others(c, Getting))
                                               \/ (d # c /\ at[d] \in Getting)]
      BY DEF GetCall
    <2> QED
      BY <2>1
  <1>3. overlap' \in [DOMAIN Setting -> BOOLEAN]
    <2>1. overlap' = [s \in DOMAIN Setting |-> overlap[s] \/ Others(c, Setting[s])]
      BY DEF GetCall
    <2> QED
      BY <2>1
  <1>4. /\ requests' \in 0..MaxRequests
    BY <1>0, <1>1, RegistryConstants DEF RegistryTypeOK
  <1>5. /\ at' \in [Callers -> CallPlaces] /\ key' \in [Callers -> Names \cup {Absent}]
        /\ format' \in [Callers -> log_format]
    BY <1>0, <1>1, RegistryTypes, RegistryConstants DEF CallPlaces, Getting
  <1>6. RegistryTypeOK'
    BY <1>0, <1>1, <1>2, <1>3, <1>4, <1>5 DEF RegistryTypeOK, CallPlaces
  <1>7. MapInv' /\ Grows
    <2>1. Len(loggers) \in Nat /\ Len(loggers') = Len(loggers)
      BY <1>0, <1>1, RegistryTypes
    <2> QED
      BY <1>1, <2>1, MapKept
  <1>8. \A d \in Callers \ {c} : Stays(d)
    BY <1>0, <1>1, <1>2, RegistryTypes DEF Stays
  <1>9. at'[c] = "find" /\ key'[c] = n /\ mine'[c] = Absent
    BY <1>0, <1>1, RegistryTypes DEF CallInv, RequestOK, Making
  <1>10. RequestOK(c)'
    <2>1. mine'[c] \in 0..Len(loggers')
      BY <1>0, <1>1 DEF CallInv, RequestOK
    <2> QED
      BY <1>9, <2>1 DEF RequestOK, Walking
  <1>11. CallInv'
    BY <1>7, <1>8, <1>10, RequestStays DEF CallInv
  <1> QED
    BY <1>1, <1>6, <1>7, <1>8, <1>9, <1>11 DEF BaseInv

\* What Returns() and Give() do.
LEMMA ReturnsMoves ==
    ASSUME RegistryTypeOK, NEW c \in Callers, Returns(c), UNCHANGED <<arg, format>>
    PROVE  /\ \A d \in Callers \ {c} : Stays(d)
           /\ at'[c] = "out" /\ key'[c] = Absent /\ mine'[c] = Absent /\ raced'[c] = FALSE
           /\ at' \in [Callers -> CallPlaces] /\ key' \in [Callers -> Names \cup {Absent}]
           /\ mine' \in [Callers -> Numbers] /\ raced' \in [Callers -> BOOLEAN]
  <1>1. /\ at' = [at EXCEPT ![c] = "out"] /\ key' = [key EXCEPT ![c] = Absent]
        /\ mine' = [mine EXCEPT ![c] = Absent] /\ raced' = [raced EXCEPT ![c] = FALSE]
    BY DEF Returns
  <1>2. "out" \in CallPlaces /\ Absent \in Numbers
    BY RegistryConstants DEF CallPlaces, Absent, Numbers
  <1>3. \A d \in Callers \ {c} : Stays(d)
    BY <1>1, RegistryTypes DEF Stays
  <1>4. at'[c] = "out" /\ key'[c] = Absent /\ mine'[c] = Absent /\ raced'[c] = FALSE
    BY <1>1, RegistryTypes
  <1>5. /\ at' \in [Callers -> CallPlaces] /\ key' \in [Callers -> Names \cup {Absent}]
        /\ mine' \in [Callers -> Numbers] /\ raced' \in [Callers -> BOOLEAN]
    BY <1>1, <1>2, RegistryTypes
  <1> QED
    BY <1>3, <1>4, <1>5

LEMMA GiveType ==
    ASSUME RegistryTypeOK, NEW c \in Callers, NEW l \in Numbers, key[c] \in Names, Give(c, l)
    PROVE  given' \subseteq [name : Names, logger : Numbers, raced : BOOLEAN]
  <1>1. raced[c] \in BOOLEAN
    BY RegistryTypes
  <1> QED
    BY <1>1, RegistryTypes DEF Give

LEMMA GetFindBase ==
    ASSUME BaseInv, NEW c \in Callers, GetFind(c)
    PROVE  /\ BaseInv' /\ Grows /\ at[c] = "find" /\ at'[c] \in {"out", "make"}
           /\ mine'[c] = Absent /\ key[c] \in Names
           /\ \A d \in Callers \ {c} : Stays(d)
           /\ UNCHANGED <<m_log_map, m_log_level, loggers, arg, overlap, seen, wanted, reopened>>
  <1>0. RegistryTypeOK /\ CallInv
    BY DEF BaseInv
  <1>1. /\ at[c] = "find"
        /\ UNCHANGED <<m_log_map, m_log_level, loggers, format, arg, died, requests,
                       overlap, seen, wanted, reopened>>
    BY DEF GetFind
  <1>2. key[c] \in Names /\ mine[c] = Absent
    BY <1>0, <1>1 DEF CallInv, RequestOK, Getting, Making
  <1>3. Grows /\ MapInv'
    <2>1. Len(loggers) \in Nat /\ Len(loggers') = Len(loggers)
      BY <1>0, <1>1, RegistryTypes
    <2> QED
      BY <1>1, <2>1, MapKept
  <1>4. /\ \A d \in Callers \ {c} : Stays(d)
        /\ at'[c] \in {"out", "make"} /\ mine'[c] = Absent
        /\ at'[c] = "make" => key'[c] = key[c]
        /\ at' \in [Callers -> CallPlaces] /\ key' \in [Callers -> Names \cup {Absent}]
        /\ mine' \in [Callers -> Numbers] /\ raced' \in [Callers -> BOOLEAN]
        /\ given' \subseteq [name : Names, logger : Numbers, raced : BOOLEAN]
    <2>1. CASE Give(c, m_log_map[key[c]]) /\ Returns(c)
      <3>1. PICK l \in Numbers : l = m_log_map[key[c]]
        BY <1>0, <1>2, RegistryTypes
      <3>2. given' \subseteq [name : Names, logger : Numbers, raced : BOOLEAN]
        BY <1>0, <1>2, <2>1, <3>1, GiveType
      <3> QED
        BY <1>0, <1>1, <2>1, <3>2, ReturnsMoves
    <2>2. CASE at' = [at EXCEPT ![c] = "make"] /\ UNCHANGED <<key, mine, raced, given>>
      <3>1. "make" \in CallPlaces
        BY DEF CallPlaces, Getting
      <3> QED
        BY <1>0, <1>1, <1>2, <2>2, <3>1, RegistryTypes DEF Stays
    <2> QED
      BY <2>1, <2>2 DEF GetFind
  <1>5. RegistryTypeOK'
    BY <1>0, <1>1, <1>4 DEF RegistryTypeOK, CallPlaces
  <1>6. RequestOK(c)'
    <2>1. mine'[c] \in 0..Len(loggers')
      BY <1>0, <1>1, <1>2, <1>4 DEF CallInv, RequestOK
    <2> QED
      BY <1>2, <1>4, <2>1 DEF RequestOK, Walking, Getting
  <1>7. CallInv'
    BY <1>3, <1>4, <1>6, RequestStays DEF CallInv
  <1> QED
    BY <1>1, <1>2, <1>3, <1>4, <1>5, <1>7 DEF BaseInv

LEMMA NewLoggerType ==
    ASSUME RegistryTypeOK, NEW asked \in log_format
    PROVE  /\ NewLogger(asked) \in Logger
           /\ NewLogger(asked).format = Made(asked)
           /\ Made(asked) \in {"File", "Sqlite", "CSV"}
           /\ NewLogger(asked).expired = DefaultExpired(Made(asked))
           /\ NewLogger(asked).level =
                 (IF Made(asked) = "File" THEN m_log_level ELSE log_level["ALL"])
           /\ NewLogger(asked).filter = (IF Made(asked) = "File" THEN Own ELSE log_level["ALL"])
  <1>1. Made(asked) \in {"File", "Sqlite", "CSV"} /\ Made(asked) \in log_format
    BY DEF Made, log_format
  <1>2. DefaultExpired(Made(asked)) \in Nat
    BY DEF DefaultExpired
  <1>3. m_log_level \in Levels /\ log_level["ALL"] \in Levels
    BY RegistryTypes, LevelNames
  <1> QED
    BY <1>1, <1>2, <1>3 DEF NewLogger, Logger

LEMMA GetMakeBase ==
    ASSUME BaseInv, NEW c \in Callers, GetMake(c)
    PROVE  /\ BaseInv' /\ Grows /\ at[c] = "make" /\ at'[c] = "make"
           /\ mine'[c] = Len(loggers) + 1 /\ Len(loggers') = Len(loggers) + 1
           /\ \A l \in 1..Len(loggers) : loggers'[l] = loggers[l]
           /\ \E f \in log_format : loggers'[Len(loggers) + 1] = NewLogger(f)
           /\ \A d \in Callers \ {c} : Stays(d)
           /\ reopened' = reopened \cup {Len(loggers) + 1}
           /\ UNCHANGED <<m_log_map, m_log_level, key, raced, given, overlap, seen, wanted>>
  <1>0. RegistryTypeOK /\ CallInv /\ Len(loggers) \in Nat /\ loggers \in Seq(Logger)
    BY RegistryTypes DEF BaseInv
  <1>1. /\ at[c] = "make" /\ Len(loggers) < MaxLoggers
        /\ loggers' = Append(loggers, NewLogger(format[c]))
        /\ mine' = [mine EXCEPT ![c] = Len(loggers) + 1]
        /\ reopened' = reopened \cup {Len(loggers) + 1}
        /\ UNCHANGED <<m_log_map, m_log_level, at, key, format, arg, died, requests,
                       given, raced, overlap, seen, wanted>>
    BY DEF GetMake
  <1>2. PICK f \in log_format : f = format[c]
    BY <1>0, RegistryTypes
  <1>3. PICK g \in Logger : g = NewLogger(f)
    BY <1>0, NewLoggerType
  <1>4. loggers' = Append(loggers, g)
    BY <1>1, <1>2, <1>3
  <1>5. /\ loggers' \in Seq(Logger) /\ Len(loggers') = Len(loggers) + 1
        /\ loggers'[Len(loggers) + 1] = g
        /\ \A l \in 1..Len(loggers) : loggers'[l] = loggers[l]
    BY <1>0, <1>4
  <1>6. Len(loggers) + 1 \in Numbers
    BY <1>0, <1>1, RegistryConstants DEF Numbers
  <1>7. /\ mine' \in [Callers -> Numbers] /\ mine'[c] = Len(loggers) + 1
        /\ \A d \in Callers \ {c} : mine'[d] = mine[d]
    BY <1>0, <1>1, <1>6, RegistryTypes
  <1>8. reopened' \subseteq Numbers
    BY <1>0, <1>1, <1>6 DEF RegistryTypeOK
  <1>9. RegistryTypeOK'
    BY <1>0, <1>1, <1>5, <1>7, <1>8 DEF RegistryTypeOK, Logger
  <1>10. MapInv' /\ Grows
    BY <1>0, <1>1, <1>5, MapKept
  <1>11. \A d \in Callers \ {c} : Stays(d)
    BY <1>1, <1>7 DEF Stays
  <1>12. RequestOK(c)'
    <2>1. key[c] \in Names
      BY <1>0, <1>1 DEF CallInv, RequestOK, Getting
    <2>2. mine'[c] \in 0..Len(loggers')
      BY <1>0, <1>5, <1>7
    <2> QED
      BY <1>1, <2>1, <2>2 DEF RequestOK, Walking, Making
  <1>13. CallInv'
    BY <1>10, <1>11, <1>12, RequestStays DEF CallInv
  <1> QED
    BY <1>1, <1>2, <1>3, <1>5, <1>7, <1>9, <1>10, <1>11, <1>13 DEF BaseInv

LEMMA GetInsertBase ==
    ASSUME BaseInv, NEW c \in Callers, GetInsert(c)
    PROVE  /\ BaseInv' /\ Grows /\ at[c] = "make" /\ at'[c] = "inserting"
           /\ \A d \in Callers \ {c} : Stays(d)
           /\ UNCHANGED <<m_log_map, m_log_level, loggers, key, mine, raced, given, overlap,
                          seen, wanted, reopened>>
  <1>0. RegistryTypeOK /\ CallInv /\ Len(loggers) \in Nat
    BY RegistryTypes DEF BaseInv
  <1>1. /\ at[c] = "make" /\ mine[c] # Absent /\ at' = [at EXCEPT ![c] = "inserting"]
        /\ UNCHANGED <<m_log_map, m_log_level, loggers, key, format, mine, arg, died,
                       requests, given, raced, overlap, seen, wanted, reopened>>
    BY DEF GetInsert, pastVars
  <1>2. /\ at' \in [Callers -> CallPlaces] /\ at'[c] = "inserting"
        /\ \A d \in Callers \ {c} : Stays(d)
    <2>1. "inserting" \in CallPlaces
      BY DEF CallPlaces, Getting
    <2> QED
      BY <1>0, <1>1, <2>1, RegistryTypes DEF Stays
  <1>3. RegistryTypeOK'
    BY <1>0, <1>1, <1>2 DEF RegistryTypeOK, CallPlaces
  <1>4. MapInv' /\ Grows
    BY <1>0, <1>1, MapKept
  <1>5. RequestOK(c)'
    <2>1. RequestOK(c)
      BY <1>0 DEF CallInv
    <2> QED
      BY <1>1, <1>2, <2>1 DEF RequestOK, Walking, Making, Getting
  <1>6. CallInv'
    BY <1>2, <1>4, <1>5, RequestStays DEF CallInv
  <1> QED
    BY <1>1, <1>2, <1>3, <1>4, <1>6 DEF BaseInv

LEMMA GetInsertedBase ==
    ASSUME BaseInv, NEW c \in Callers, GetInserted(c)
    PROVE  /\ BaseInv' /\ Grows /\ at[c] = "inserting" /\ at'[c] = "out" /\ mine'[c] = Absent
           /\ key[c] \in Names /\ mine[c] \in 1..Len(loggers)
           /\ \A d \in Callers \ {c} : Stays(d)
           /\ \/ /\ m_log_map' = [m_log_map EXCEPT ![key[c]] =
                                     IF m_log_map[key[c]] = Absent THEN mine[c]
                                     ELSE m_log_map[key[c]]]
                 /\ m_log_map'[key[c]] # Absent
                 /\ m_log_map[key[c]] = Absent => m_log_map'[key[c]] = mine[c]
                 /\ \A n \in Names \ {key[c]} : m_log_map'[n] = m_log_map[n]
              \/ Inserting(c) /\ m_log_map' = m_log_map
           /\ Give(c, mine[c])
           /\ UNCHANGED <<m_log_level, loggers, arg, overlap, seen, wanted, reopened>>
  <1>0. RegistryTypeOK /\ CallInv /\ MapInv /\ Len(loggers) \in Nat /\ m_log_map \in [Names -> Numbers]
    BY RegistryTypes DEF BaseInv
  <1>1. /\ at[c] = "inserting" /\ Give(c, mine[c]) /\ Returns(c)
        /\ UNCHANGED <<m_log_level, loggers, format, arg, died, requests, overlap,
                       seen, wanted, reopened>>
    BY DEF GetInserted
  <1>2. key[c] \in Names /\ mine[c] \in 1..Len(loggers) /\ mine[c] \in Numbers
    <2>1. key[c] \in Names /\ mine[c] # Absent /\ mine[c] \in 0..Len(loggers)
      BY <1>0, <1>1 DEF CallInv, RequestOK, Getting
    <2>2. mine[c] \in Numbers
      BY <1>0, RegistryTypes
    <2> QED
      BY <1>0, <2>1, <2>2 DEF Absent
  <1>3. \/ /\ m_log_map' = [m_log_map EXCEPT ![key[c]] =
                               IF m_log_map[key[c]] = Absent THEN mine[c] ELSE m_log_map[key[c]]]
           /\ m_log_map'[key[c]] # Absent
           /\ m_log_map[key[c]] = Absent => m_log_map'[key[c]] = mine[c]
           /\ \A n \in Names \ {key[c]} : m_log_map'[n] = m_log_map[n]
        \/ Inserting(c) /\ m_log_map' = m_log_map
    <2>1. mine[c] # Absent
      BY <1>0, <1>2 DEF Absent
    <2>2. CASE m_log_map' = [m_log_map EXCEPT ![key[c]] =
                               IF m_log_map[key[c]] = Absent THEN mine[c] ELSE m_log_map[key[c]]]
      BY <1>0, <1>2, <2>1, <2>2
    <2>3. CASE Inserting(c) /\ m_log_map' = m_log_map
      BY <2>3
    <2> QED
      BY <2>2, <2>3 DEF GetInserted
  <1>4. /\ \A d \in Callers \ {c} : Stays(d)
        /\ at'[c] = "out" /\ mine'[c] = Absent
        /\ at' \in [Callers -> CallPlaces] /\ key' \in [Callers -> Names \cup {Absent}]
        /\ mine' \in [Callers -> Numbers] /\ raced' \in [Callers -> BOOLEAN]
    BY <1>0, <1>1, ReturnsMoves
  <1>5. given' \subseteq [name : Names, logger : Numbers, raced : BOOLEAN]
    <2>1. PICK l \in Numbers : l = mine[c]
      BY <1>2
    <2> QED
      BY <1>0, <1>1, <1>2, <2>1, GiveType
  <1>6. m_log_map' \in [Names -> Numbers]
    BY <1>0, <1>2, <1>3
  <1>7. RegistryTypeOK'
    BY <1>0, <1>1, <1>4, <1>5, <1>6 DEF RegistryTypeOK, CallPlaces
  <1>8. MapInv'
    <2>1. ASSUME NEW n \in Names PROVE m_log_map'[n] \in 0..Len(loggers')
      <3>1. m_log_map[n] \in 0..Len(loggers) /\ mine[c] \in 0..Len(loggers)
        BY <1>0, <1>2 DEF MapInv
      <3>2. m_log_map'[n] \in {m_log_map[n], mine[c]}
        BY <1>0, <1>2, <1>3
      <3> QED
        BY <1>1, <3>1, <3>2
    <2>2. \A s \in DOMAIN Setting : seen'[s] \subseteq 1..Len(loggers')
      BY <1>0, <1>1 DEF MapInv
    <2> QED
      BY <2>1, <2>2 DEF MapInv
  <1>9. Grows
    <2>1. \A n \in Names : m_log_map[n] # Absent => m_log_map'[n] = m_log_map[n]
      BY <1>0, <1>2, <1>3
    <2> QED
      BY <1>0, <1>1, <2>1 DEF Grows
  <1>10. RequestOK(c)'
    <2>1. 0 \in 0..Len(loggers')
      BY <1>0, <1>1
    <2> QED
      BY <1>4, <2>1 DEF RequestOK, Getting, Walking, Absent
  <1>11. CallInv'
    BY <1>4, <1>9, <1>10, RequestStays DEF CallInv
  <1> QED
    BY <1>1, <1>2, <1>3, <1>4, <1>7, <1>8, <1>9, <1>11 DEF BaseInv

-----------------------------------------------------------------------------
\* What a step of an iterator does to its call.
Comes(c, n, to) ==
    \/ /\ at'[c] = "out"
       /\ ~Inserting(c) => \A k \in Names : k > n => m_log_map[k] = Absent
    \/ /\ at'[c] = to /\ key'[c] \in Names /\ key'[c] > n
       /\ m_log_map[key'[c]] # Absent
       /\ ~Inserting(c) => \A k \in Names : (k > n /\ m_log_map[k] # Absent) => key'[c] <= k

LEMMA WalkBase ==
    ASSUME BaseInv, NEW c \in Callers, NEW n, n \in Nat, NEW to \in Walking \ {"level"}, NEW v \in Nat,
           Walk(c, n, to, v), at[c] \in {"out"} \cup Walking, Grows, UNCHANGED <<m_log_map, format>>
    PROVE  /\ \A d \in Callers \ {c} : Stays(d)
           /\ Comes(c, n, to) /\ (at'[c] = to => arg'[c] = v) /\ mine[c] = Absent /\ mine'[c] = Absent
           /\ at' \in [Callers -> CallPlaces] /\ key' \in [Callers -> Names \cup {Absent}]
           /\ mine' \in [Callers -> Numbers] /\ raced' \in [Callers -> BOOLEAN]
           /\ arg' \in [Callers -> Nat] /\ CallInv'
  <1>0. RegistryTypeOK /\ CallInv
    BY DEF BaseInv
  <1>1. /\ \A d \in Callers \ {c} : Stays(d)
        /\ \/ /\ at'[c] = "out" /\ key'[c] = Absent /\ mine'[c] = Absent
              /\ raced'[c] = FALSE
              /\ ~Inserting(c) => \A k \in Names : k > n => m_log_map[k] = Absent
           \/ /\ at'[c] = to /\ key'[c] \in Names /\ key'[c] > n
              /\ m_log_map[key'[c]] # Absent
              /\ mine'[c] = mine[c] /\ raced'[c] = raced[c] /\ arg'[c] = v
              /\ ~Inserting(c) =>
                    \A k \in Names : (k > n /\ m_log_map[k] # Absent) => key'[c] <= k
        /\ at' \in [Callers -> CallPlaces] /\ key' \in [Callers -> Names \cup {Absent}]
        /\ mine' \in [Callers -> Numbers] /\ raced' \in [Callers -> BOOLEAN]
        /\ arg' \in [Callers -> Nat]
    BY <1>0, WalkMoves
  <1>2. mine[c] = Absent
    BY <1>0 DEF CallInv, RequestOK, Making, Walking
  <1>3. mine'[c] = Absent /\ Comes(c, n, to) /\ (at'[c] = to => arg'[c] = v)
    BY <1>1, <1>2 DEF Comes, Walking
  <1>4. RequestOK(c)'
    <2>1. 0 \in 0..Len(loggers')
      BY DEF Grows
    <2>2. at'[c] # "level"
      BY <1>1
    <2> QED
      BY <1>1, <1>3, <2>1, <2>2 DEF RequestOK, Comes, Getting, Walking, Making, Absent
  <1>5. CallInv'
    BY <1>1, <1>4, RequestStays DEF CallInv
  <1> QED
    BY <1>1, <1>2, <1>3, <1>5

LEMMA RegisteredType ==
    ASSUME RegistryTypeOK PROVE Registered \subseteq Numbers
  <1> QED
    BY RegistryTypes DEF Registered

LEMMA BeginsBase ==
    ASSUME BaseInv, NEW c \in Callers, NEW setting \in DOMAIN Setting, Begins(c, setting),
           UNCHANGED <<m_log_map, loggers>>
    PROVE  /\ at[c] = "out" /\ requests' \in 0..MaxRequests
           /\ overlap' \in [DOMAIN Setting -> BOOLEAN]
           /\ seen' \in [DOMAIN Setting -> SUBSET Numbers]
           /\ MapInv' /\ Grows
           /\ overlap'[setting] <=> Others(c, Getting \cup Setting[setting])
           /\ seen'[setting] = Registered
           /\ \A s \in DOMAIN Setting \ {setting} :
                 overlap'[s] = overlap[s] /\ seen'[s] = seen[s]
  <1>0. RegistryTypeOK /\ CallInv /\ Len(loggers) \in Nat
    BY RegistryTypes DEF BaseInv
  <1>1. at[c] = "out" /\ requests < MaxRequests /\ requests' = requests + 1
    BY DEF Begins, Request
  <1>2. requests' \in 0..MaxRequests
    BY <1>0, <1>1, RegistryConstants DEF RegistryTypeOK
  <1>3. PICK b \in BOOLEAN : b <=> Others(c, Getting \cup Setting[setting])
    OBVIOUS
  <1>4. Others(c, Getting \cup Setting[setting]) \in BOOLEAN
    BY DEF Others
  <1>5. overlap' = [overlap EXCEPT ![setting] = b] /\ seen' = [seen EXCEPT ![setting] = Registered]
    BY <1>3, <1>4 DEF Begins
  <1>6. /\ overlap' \in [DOMAIN Setting -> BOOLEAN] /\ seen' \in [DOMAIN Setting -> SUBSET Numbers]
        /\ overlap'[setting] = b /\ seen'[setting] = Registered
        /\ \A s \in DOMAIN Setting \ {setting} :
              overlap'[s] = overlap[s] /\ seen'[s] = seen[s]
    BY <1>0, <1>5, RegistryTypes, RegisteredType
  <1>7. MapInv' /\ Grows
    <2>1. \A s \in DOMAIN Setting : seen'[s] \subseteq seen[s] \cup Registered
      BY <1>6
    <2> QED
      BY <1>0, <2>1, MapKept
  <1> QED
    BY <1>1, <1>2, <1>3, <1>6, <1>7

-----------------------------------------------------------------------------

LEMMA SetLevelBase ==
    ASSUME BaseInv, NEW c \in Callers, NEW word \in Words, SetLevel(c, word)
    PROVE  /\ BaseInv' /\ Grows /\ at[c] = "out" /\ mine[c] = Absent /\ mine'[c] = Absent
           /\ \A d \in Callers \ {c} : Stays(d)
           /\ Comes(c, 0, "read") /\ (at'[c] = "read" => arg'[c] = 0)
           /\ overlap'["level"] <=> Others(c, Getting \cup Setting["level"])
           /\ seen'["level"] = Registered
           /\ \A s \in DOMAIN Setting \ {"level"} :
                 overlap'[s] = overlap[s] /\ seen'[s] = seen[s]
           /\ UNCHANGED <<m_log_map, loggers, given, wanted>>
  <1>0. RegistryTypeOK
    BY DEF BaseInv
  <1>1. /\ Begins(c, "level") /\ Walk(c, 0, "read", 0)
        /\ m_log_level' = get_log_level_by_name(word) /\ reopened' = {}
        /\ UNCHANGED <<m_log_map, loggers, format, died, given, wanted>>
    BY DEF SetLevel
  <1>2. "level" \in DOMAIN Setting
    BY RegistryConstants
  <1>3. /\ at[c] = "out" /\ requests' \in 0..MaxRequests
        /\ overlap' \in [DOMAIN Setting -> BOOLEAN]
        /\ seen' \in [DOMAIN Setting -> SUBSET Numbers]
        /\ MapInv' /\ Grows
        /\ overlap'["level"] <=> Others(c, Getting \cup Setting["level"])
        /\ seen'["level"] = Registered
        /\ \A s \in DOMAIN Setting \ {"level"} :
              overlap'[s] = overlap[s] /\ seen'[s] = seen[s]
    BY <1>1, <1>2, BeginsBase
  <1>4. "read" \in Walking \ {"level"} /\ at[c] \in {"out"} \cup Walking /\ 0 \in Nat /\ 0 \in Nat
    BY <1>3, RegistryConstants DEF Walking
  <1>5. /\ \A d \in Callers \ {c} : Stays(d)
        /\ Comes(c, 0, "read") /\ (at'[c] = "read" => arg'[c] = 0)
        /\ mine[c] = Absent /\ mine'[c] = Absent
        /\ at' \in [Callers -> CallPlaces] /\ key' \in [Callers -> Names \cup {Absent}]
        /\ mine' \in [Callers -> Numbers] /\ raced' \in [Callers -> BOOLEAN]
        /\ arg' \in [Callers -> Nat] /\ CallInv'
    BY <1>1, <1>3, <1>4, WalkBase
  <1>6. RegistryTypeOK'
    BY <1>0, <1>1, <1>3, <1>4, <1>5, LevelNames DEF RegistryTypeOK, CallPlaces
  <1> QED
    BY <1>1, <1>3, <1>5, <1>6 DEF BaseInv

LEMMA SetExpiredBase ==
    ASSUME BaseInv, NEW c \in Callers, NEW minutes \in MinutesAsked, SetExpired(c, minutes)
    PROVE  /\ BaseInv' /\ Grows /\ at[c] = "out" /\ mine[c] = Absent /\ mine'[c] = Absent
           /\ \A d \in Callers \ {c} : Stays(d)
           /\ Comes(c, 0, "expired") /\ (at'[c] = "expired" => arg'[c] = minutes)
           /\ overlap'["expired"] <=> Others(c, Getting \cup Setting["expired"])
           /\ seen'["expired"] = Registered
           /\ \A s \in DOMAIN Setting \ {"expired"} :
                 overlap'[s] = overlap[s] /\ seen'[s] = seen[s]
           /\ wanted' = minutes /\ UNCHANGED <<m_log_map, m_log_level, loggers, given, reopened>>
  <1>0. RegistryTypeOK
    BY DEF BaseInv
  <1>1. /\ Begins(c, "expired") /\ Walk(c, 0, "expired", minutes)
        /\ wanted' = minutes
        /\ UNCHANGED <<m_log_map, m_log_level, loggers, format, died, given, reopened>>
    BY DEF SetExpired
  <1>2. "expired" \in DOMAIN Setting
    BY RegistryConstants
  <1>3. /\ at[c] = "out" /\ requests' \in 0..MaxRequests
        /\ overlap' \in [DOMAIN Setting -> BOOLEAN]
        /\ seen' \in [DOMAIN Setting -> SUBSET Numbers]
        /\ MapInv' /\ Grows
        /\ overlap'["expired"] <=> Others(c, Getting \cup Setting["expired"])
        /\ seen'["expired"] = Registered
        /\ \A s \in DOMAIN Setting \ {"expired"} :
              overlap'[s] = overlap[s] /\ seen'[s] = seen[s]
    BY <1>1, <1>2, BeginsBase
  <1>4. "expired" \in Walking \ {"level"} /\ at[c] \in {"out"} \cup Walking /\ minutes \in Nat /\ 0 \in Nat
    BY <1>3, RegistryConstants DEF Walking
  <1>5. /\ \A d \in Callers \ {c} : Stays(d)
        /\ Comes(c, 0, "expired") /\ (at'[c] = "expired" => arg'[c] = minutes)
        /\ mine[c] = Absent /\ mine'[c] = Absent
        /\ at' \in [Callers -> CallPlaces] /\ key' \in [Callers -> Names \cup {Absent}]
        /\ mine' \in [Callers -> Numbers] /\ raced' \in [Callers -> BOOLEAN]
        /\ arg' \in [Callers -> Nat] /\ CallInv'
    BY <1>1, <1>3, <1>4, WalkBase
  <1>6. RegistryTypeOK'
    BY <1>0, <1>1, <1>3, <1>4, <1>5, LevelNames DEF RegistryTypeOK, CallPlaces
  <1> QED
    BY <1>1, <1>3, <1>5, <1>6 DEF BaseInv

LEMMA SetLevelReadBase ==
    ASSUME BaseInv, NEW c \in Callers, SetLevelRead(c)
    PROVE  /\ BaseInv' /\ Grows /\ at[c] = "read" /\ at'[c] = "level" /\ arg'[c] = m_log_level
           /\ \A d \in Callers \ {c} : Stays(d)
           /\ UNCHANGED <<m_log_map, m_log_level, loggers, key, mine, raced, given, overlap,
                          seen, wanted, reopened>>
  <1>0. RegistryTypeOK /\ CallInv /\ Len(loggers) \in Nat
    BY RegistryTypes DEF BaseInv
  <1>1. /\ at[c] = "read" /\ at' = [at EXCEPT ![c] = "level"]
        /\ arg' = [arg EXCEPT ![c] = m_log_level]
        /\ UNCHANGED <<m_log_map, m_log_level, loggers, key, format, mine, died,
                       requests, given, raced, overlap, seen, wanted, reopened>>
    BY DEF SetLevelRead, pastVars
  <1>2. /\ at' \in [Callers -> CallPlaces] /\ at'[c] = "level"
        /\ arg' \in [Callers -> Nat] /\ arg'[c] = m_log_level
        /\ \A d \in Callers \ {c} : Stays(d)
    <2>1. "level" \in CallPlaces /\ m_log_level \in Nat
      BY <1>0, RegistryTypes DEF CallPlaces, Levels
    <2> QED
      BY <1>0, <1>1, <2>1, RegistryTypes DEF Stays
  <1>3. RegistryTypeOK'
    BY <1>0, <1>1, <1>2 DEF RegistryTypeOK, CallPlaces
  <1>4. MapInv' /\ Grows
    BY <1>0, <1>1, MapKept
  <1>5. RequestOK(c)'
    <2>1. RequestOK(c) /\ m_log_level \in Levels
      BY <1>0, RegistryTypes DEF CallInv
    <2> QED
      BY <1>1, <1>2, <2>1 DEF RequestOK, Walking, Making, Getting
  <1>6. CallInv'
    BY <1>2, <1>4, <1>5, RequestStays DEF CallInv
  <1> QED
    BY <1>1, <1>2, <1>3, <1>4, <1>6 DEF BaseInv

LEMMA SetLevelOfBase ==
    ASSUME BaseInv, NEW c \in Callers, SetLevelOf(c)
    PROVE  /\ BaseInv' /\ Grows /\ at[c] = "level" /\ key[c] \in Names
           /\ m_log_map[key[c]] \in 1..Len(loggers) /\ mine[c] = Absent /\ mine'[c] = Absent
           /\ \A d \in Callers \ {c} : Stays(d)
           /\ Comes(c, key[c], "read") /\ (at'[c] = "read" => arg'[c] = 0)
           /\ Len(loggers') = Len(loggers)
           /\ loggers'[m_log_map[key[c]]] = LevelSet(loggers[m_log_map[key[c]]], arg[c])
           /\ \A l \in 1..Len(loggers) : l # m_log_map[key[c]] => loggers'[l] = loggers[l]
           /\ UNCHANGED <<m_log_map, m_log_level, given, overlap, seen, wanted, reopened>>
  <1>0. RegistryTypeOK /\ CallInv /\ MapInv /\ Len(loggers) \in Nat /\ loggers \in Seq(Logger)
    BY RegistryTypes DEF BaseInv
  <1>1. /\ at[c] = "level"
        /\ loggers' = [loggers EXCEPT ![m_log_map[key[c]]] =
                          LevelSet(loggers[m_log_map[key[c]]], arg[c])]
        /\ Walk(c, key[c], "read", 0)
        /\ UNCHANGED <<m_log_map, m_log_level, format, died, requests, given, overlap,
                       seen, wanted, reopened>>
    BY DEF SetLevelOf
  <1>2. /\ key[c] \in Names /\ m_log_map[key[c]] \in 1..Len(loggers)
    <2>1. key[c] \in Names /\ m_log_map[key[c]] # Absent
      BY <1>0, <1>1 DEF CallInv, RequestOK, Walking
    <2>2. m_log_map[key[c]] \in 0..Len(loggers)
      BY <1>0, <2>1 DEF MapInv
    <2> QED
      BY <1>0, <2>1, <2>2 DEF Absent
  <1>3. PICK l \in 1..Len(loggers) : l = m_log_map[key[c]]
    BY <1>2
  <1>4. PICK g \in Logger : g = LevelSet(loggers[l], arg[c])
    <2>1. loggers[l] \in Logger
      BY <1>0
    <2>2. arg[c] \in Levels
      BY <1>0, <1>1 DEF CallInv, RequestOK
    <2> QED
      BY <2>1, <2>2 DEF LevelSet, Logger
  <1>5. loggers' = [loggers EXCEPT ![l] = g]
    BY <1>1, <1>3, <1>4
  <1>6. /\ loggers' \in Seq(Logger) /\ Len(loggers') = Len(loggers) /\ loggers'[l] = g
        /\ \A i \in 1..Len(loggers) : i # l => loggers'[i] = loggers[i]
    BY <1>0, <1>5
  <1>7. MapInv' /\ Grows
    BY <1>0, <1>1, <1>6, MapKept
  <1>8. PICK n \in Nat : n = key[c]
    BY <1>2, RegistryConstants
  <1>9. PICK v \in Nat : v = 0
    BY <1>0, RegistryTypes
  <1>10. Walk(c, n, "read", v)
    BY <1>1, <1>8, <1>9
  <1>11. "read" \in Walking \ {"level"} /\ at[c] \in {"out"} \cup Walking
    BY <1>1 DEF Walking
  <1>12. /\ \A d \in Callers \ {c} : Stays(d)
         /\ Comes(c, n, "read") /\ (at'[c] = "read" => arg'[c] = v)
         /\ mine[c] = Absent /\ mine'[c] = Absent
         /\ at' \in [Callers -> CallPlaces] /\ key' \in [Callers -> Names \cup {Absent}]
         /\ mine' \in [Callers -> Numbers] /\ raced' \in [Callers -> BOOLEAN]
         /\ arg' \in [Callers -> Nat] /\ CallInv'
    BY <1>1, <1>7, <1>10, <1>11, WalkBase
  <1>13. RegistryTypeOK'
    BY <1>0, <1>1, <1>6, <1>12 DEF RegistryTypeOK, CallPlaces, Logger
  <1> QED
    BY <1>1, <1>2, <1>3, <1>4, <1>6, <1>7, <1>8, <1>9, <1>12, <1>13 DEF BaseInv

LEMMA SetExpiredOfBase ==
    ASSUME BaseInv, NEW c \in Callers, SetExpiredOf(c)
    PROVE  /\ BaseInv' /\ Grows /\ at[c] = "expired" /\ key[c] \in Names
           /\ m_log_map[key[c]] \in 1..Len(loggers) /\ mine[c] = Absent /\ mine'[c] = Absent
           /\ \A d \in Callers \ {c} : Stays(d)
           /\ Comes(c, key[c], "expired") /\ (at'[c] = "expired" => arg'[c] = arg[c])
           /\ Len(loggers') = Len(loggers)
           /\ loggers'[m_log_map[key[c]]] = ExpiredSet(loggers[m_log_map[key[c]]], arg[c])
           /\ \A l \in 1..Len(loggers) : l # m_log_map[key[c]] => loggers'[l] = loggers[l]
           /\ UNCHANGED <<m_log_map, m_log_level, given, overlap, seen, wanted, reopened>>
  <1>0. RegistryTypeOK /\ CallInv /\ MapInv /\ Len(loggers) \in Nat /\ loggers \in Seq(Logger)
    BY RegistryTypes DEF BaseInv
  <1>1. /\ at[c] = "expired"
        /\ loggers' = [loggers EXCEPT ![m_log_map[key[c]]] =
                          ExpiredSet(loggers[m_log_map[key[c]]], arg[c])]
        /\ Walk(c, key[c], "expired", arg[c])
        /\ UNCHANGED <<m_log_map, m_log_level, format, died, requests, given, overlap,
                       seen, wanted, reopened>>
    BY DEF SetExpiredOf
  <1>2. /\ key[c] \in Names /\ m_log_map[key[c]] \in 1..Len(loggers)
    <2>1. key[c] \in Names /\ m_log_map[key[c]] # Absent
      BY <1>0, <1>1 DEF CallInv, RequestOK, Walking
    <2>2. m_log_map[key[c]] \in 0..Len(loggers)
      BY <1>0, <2>1 DEF MapInv
    <2> QED
      BY <1>0, <2>1, <2>2 DEF Absent
  <1>3. PICK l \in 1..Len(loggers) : l = m_log_map[key[c]]
    BY <1>2
  <1>4. PICK g \in Logger : g = ExpiredSet(loggers[l], arg[c])
    <2>1. loggers[l] \in Logger
      BY <1>0
    <2>2. arg[c] \in Nat
      BY <1>0, RegistryTypes
    <2> QED
      BY <2>1, <2>2 DEF ExpiredSet, Logger
  <1>5. loggers' = [loggers EXCEPT ![l] = g]
    BY <1>1, <1>3, <1>4
  <1>6. /\ loggers' \in Seq(Logger) /\ Len(loggers') = Len(loggers) /\ loggers'[l] = g
        /\ \A i \in 1..Len(loggers) : i # l => loggers'[i] = loggers[i]
    BY <1>0, <1>5
  <1>7. MapInv' /\ Grows
    BY <1>0, <1>1, <1>6, MapKept
  <1>8. PICK n \in Nat : n = key[c]
    BY <1>2, RegistryConstants
  <1>9. PICK v \in Nat : v = arg[c]
    BY <1>0, RegistryTypes
  <1>10. Walk(c, n, "expired", v)
    BY <1>1, <1>8, <1>9
  <1>11. "expired" \in Walking \ {"level"} /\ at[c] \in {"out"} \cup Walking
    BY <1>1 DEF Walking
  <1>12. /\ \A d \in Callers \ {c} : Stays(d)
         /\ Comes(c, n, "expired") /\ (at'[c] = "expired" => arg'[c] = v)
         /\ mine[c] = Absent /\ mine'[c] = Absent
         /\ at' \in [Callers -> CallPlaces] /\ key' \in [Callers -> Names \cup {Absent}]
         /\ mine' \in [Callers -> Numbers] /\ raced' \in [Callers -> BOOLEAN]
         /\ arg' \in [Callers -> Nat] /\ CallInv'
    BY <1>1, <1>7, <1>10, <1>11, WalkBase
  <1>13. RegistryTypeOK'
    BY <1>0, <1>1, <1>6, <1>12 DEF RegistryTypeOK, CallPlaces, Logger
  <1> QED
    BY <1>1, <1>2, <1>3, <1>4, <1>6, <1>7, <1>8, <1>9, <1>12, <1>13 DEF BaseInv

LEMMA RotateLoggerBase ==
    ASSUME BaseInv, NEW l \in 1..MaxLoggers, RotateLogger(l)
    PROVE  /\ BaseInv' /\ Grows /\ l \in 1..Len(loggers) /\ loggers[l].format = "File"
           /\ \A d \in Callers : Stays(d)
           /\ Len(loggers') = Len(loggers)
           /\ loggers'[l].format = loggers[l].format /\ loggers'[l].level = loggers[l].level
           /\ loggers'[l].expired = loggers[l].expired /\ loggers'[l].filter = Own
           /\ \A i \in 1..Len(loggers) : i # l => loggers'[i] = loggers[i]
           /\ reopened' = reopened \cup {l}
           /\ UNCHANGED <<m_log_map, m_log_level, at, key, mine, arg, raced, given, overlap,
                          seen, wanted>>
  <1>0. RegistryTypeOK /\ CallInv /\ MapInv /\ Len(loggers) \in Nat /\ loggers \in Seq(Logger)
    BY RegistryTypes DEF BaseInv
  <1>1. /\ l \in Registered /\ loggers[l].format = "File"
        /\ loggers' = [loggers EXCEPT ![l].filter = Own] /\ reopened' = reopened \cup {l}
        /\ UNCHANGED <<m_log_map, m_log_level, at, key, format, mine, arg, died, requests,
                       given, raced, overlap, seen, wanted>>
    BY DEF RotateLogger, callVars
  <1>2. l \in 1..Len(loggers)
    <2>1. PICK n \in Names : l = m_log_map[n]
      BY <1>1 DEF Registered
    <2>2. l \in 0..Len(loggers) /\ l # 0
      BY <1>0, <2>1, RegistryConstants DEF MapInv
    <2> QED
      BY <1>0, <2>2
  <1>3. PICK g \in Logger : g = [loggers[l] EXCEPT !.filter = Own]
    <2>1. loggers[l] \in Logger
      BY <1>0, <1>2
    <2> QED
      BY <2>1 DEF Logger
  <1>4. loggers' = [loggers EXCEPT ![l] = g]
    BY <1>1, <1>3
  <1>5. /\ loggers' \in Seq(Logger) /\ Len(loggers') = Len(loggers) /\ loggers'[l] = g
        /\ \A i \in 1..Len(loggers) : i # l => loggers'[i] = loggers[i]
    BY <1>0, <1>2, <1>4
  <1>6. /\ g.format = loggers[l].format /\ g.level = loggers[l].level
        /\ g.expired = loggers[l].expired /\ g.filter = Own
    <2>1. loggers[l] \in Logger
      BY <1>0, <1>2
    <2> QED
      BY <1>3, <2>1 DEF Logger
  <1>7. MapInv' /\ Grows
    BY <1>0, <1>1, <1>5, MapKept
  <1>8. \A d \in Callers : Stays(d)
    BY <1>1 DEF Stays
  <1>9. reopened' \subseteq Numbers
    <2>1. l \in Numbers
      BY RegistryConstants DEF Numbers
    <2> QED
      BY <1>0, <1>1, <2>1 DEF RegistryTypeOK
  <1>10. RegistryTypeOK'
    BY <1>0, <1>1, <1>5, <1>9 DEF RegistryTypeOK, Logger
  <1>11. CallInv'
    BY <1>7, <1>8, RequestStays DEF CallInv
  <1> QED
    BY <1>1, <1>2, <1>5, <1>6, <1>7, <1>8, <1>10, <1>11 DEF BaseInv

-----------------------------------------------------------------------------
(***************************************************************************)
(* Who has a name to itself.                                               *)
(***************************************************************************)
LEMMA RaceMoves ==
    ASSUME BaseInv, RaceInv, Grows, NEW c \in Callers, \A d \in Callers \ {c} : Stays(d),
           raced' \in [Callers -> BOOLEAN],
           at'[c] \in Getting => at[c] \in Getting /\ raced'[c] = raced[c],
           (at'[c] \in Making /\ ~raced'[c]) => m_log_map'[key'[c]] = Absent,
           \A d \in Callers \ {c} :
               (at[d] \in Making /\ ~raced[d]) => m_log_map'[key[d]] = m_log_map[key[d]],
           \A x \in given' :
               x \in given \/ (~x.raced => (x.logger # Absent /\ m_log_map'[x.name] = x.logger))
    PROVE  RaceInv'
  <1>1. ASSUME NEW d \in Callers, NEW e \in Callers, d # e, at'[d] \in Getting, at'[e] \in Getting
        PROVE  raced'[d]
    <2>1. at[d] \in Getting /\ at[e] \in Getting
      BY <1>1 DEF Stays
    <2>2. raced[d]
      BY <1>1, <2>1 DEF RaceInv
    <2> QED
      BY <1>1, <2>2 DEF Stays
  <1>2. ASSUME NEW d \in Callers, at'[d] \in Making, ~raced'[d]
        PROVE  m_log_map'[key'[d]] = Absent
    <2>1. CASE d = c
      BY <1>2, <2>1
    <2>2. CASE d # c
      <3>1. at[d] \in Making /\ ~raced[d] /\ key'[d] = key[d]
        BY <1>2, <2>2 DEF Stays
      <3>2. m_log_map[key[d]] = Absent
        BY <3>1 DEF RaceInv
      <3> QED
        BY <2>2, <3>1, <3>2
    <2> QED
      BY <2>1, <2>2
  <1>3. ASSUME NEW x \in given', ~x.raced
        PROVE  x.logger # Absent /\ m_log_map'[x.name] = x.logger
    <2>1. CASE x \in given
      <3>1. x.logger # Absent /\ m_log_map[x.name] = x.logger /\ x.name \in Names
        BY <1>3, <2>1, RegistryTypes DEF RaceInv, BaseInv
      <3> QED
        BY <3>1 DEF Grows
    <2>2. CASE x \notin given
      BY <1>3, <2>2
    <2> QED
      BY <2>1, <2>2
  <1> QED
    BY <1>1, <1>2, <1>3 DEF RaceInv

LEMMA GetCallRace ==
    ASSUME BaseInv, RaceInv, NEW c \in Callers, NEW n \in Names, NEW f \in Formats,
           GetCall(c, n, f)
    PROVE  RaceInv'
  <1>1. /\ Grows /\ at[c] = "out" /\ at'[c] = "find" /\ \A d \in Callers \ {c} : Stays(d)
        /\ UNCHANGED <<m_log_map, given>>
    BY GetCallBase DEF GetCall
  <1>2. \A d \in Callers :
           raced'[d] <=> (raced[d] \/ (d = c /\ Others(c, Getting)) \/ (d # c /\ at[d] \in Getting))
    <2>1. raced' = [d \in Callers |-> raced[d] \/ (d = c /\ Others(c, Getting))
                                               \/ (d # c /\ at[d] \in Getting)]
      BY DEF GetCall
    <2> QED
      BY <2>1
  <1>3. ASSUME NEW d \in Callers, NEW e \in Callers, d # e, at'[d] \in Getting, at'[e] \in Getting
        PROVE  raced'[d]
    <2>1. CASE d = c
      <3>1. at[e] \in Getting
        BY <1>1, <1>3, <2>1 DEF Stays
      <3> QED
        BY <1>2, <1>3, <2>1, <3>1 DEF Others
    <2>2. CASE d # c
      <3>1. at[d] \in Getting
        BY <1>1, <1>3, <2>2 DEF Stays
      <3> QED
        BY <1>2, <2>2, <3>1
    <2> QED
      BY <2>1, <2>2
  <1>4. ASSUME NEW d \in Callers, at'[d] \in Making, ~raced'[d]
        PROVE  m_log_map'[key'[d]] = Absent
    <2>1. d # c
      BY <1>1, <1>4 DEF Making
    <2>2. at[d] \in Making /\ key'[d] = key[d] /\ ~raced[d]
      BY <1>1, <1>2, <1>4, <2>1 DEF Stays
    <2> QED
      BY <1>1, <2>2 DEF RaceInv
  <1>5. \A x \in given' : ~x.raced => (x.logger # Absent /\ m_log_map'[x.name] = x.logger)
    BY <1>1 DEF RaceInv
  <1> QED
    BY <1>3, <1>4, <1>5 DEF RaceInv

LEMMA GetFindRace ==
    ASSUME BaseInv, RaceInv, NEW c \in Callers, GetFind(c)
    PROVE  RaceInv'
  <1>1. /\ RegistryTypeOK /\ BaseInv' /\ Grows /\ m_log_map' = m_log_map
        /\ at[c] = "find" /\ at'[c] \in {"out", "make"} /\ key[c] \in Names
        /\ \A d \in Callers \ {c} : Stays(d)
    BY GetFindBase DEF BaseInv
  <1>2. raced' \in [Callers -> BOOLEAN] /\ raced[c] \in BOOLEAN
    BY <1>1, RegistryTypes DEF BaseInv, RegistryTypeOK
  <1>3. CASE m_log_map[key[c]] # Absent /\ Give(c, m_log_map[key[c]]) /\ Returns(c)
    <2>1. at'[c] = "out"
      BY <1>1, <1>3, RegistryTypes DEF Returns
    <2>2. at'[c] \notin Getting /\ at'[c] \notin Making
      BY <2>1 DEF Getting, Making
    <2>3. \A x \in given' : x \in given \/ (x.logger # Absent /\ m_log_map'[x.name] = x.logger)
      BY <1>1, <1>3 DEF Give
    <2>4. \A x \in given' :
              x \in given \/ (~x.raced => (x.logger # Absent /\ m_log_map'[x.name] = x.logger))
      BY <2>3
    <2> QED
      BY <1>1, <1>2, <2>2, <2>4, RaceMoves
  <1>4. CASE /\ m_log_map[key[c]] = Absent \/ Inserting(c)
             /\ at' = [at EXCEPT ![c] = "make"]
             /\ UNCHANGED <<key, mine, raced, given>>
    <2>1. at[c] \in Getting
      BY <1>1 DEF Getting
    <2>2. Inserting(c) => raced[c]
      BY <2>1 DEF Inserting, Others, RaceInv, Getting
    <2>3. ~raced'[c] => m_log_map'[key'[c]] = Absent
      BY <1>1, <1>4, <2>2
    <2>4. at'[c] \in Getting => at[c] \in Getting /\ raced'[c] = raced[c]
      BY <1>4, <2>1
    <2>5. given' = given
      BY <1>4
    <2> QED
      BY <1>1, <1>2, <2>3, <2>4, <2>5, RaceMoves
  <1> QED
    BY <1>3, <1>4 DEF GetFind

LEMMA GetInsertedRace ==
    ASSUME BaseInv, RaceInv, NEW c \in Callers, GetInserted(c)
    PROVE  RaceInv'
  <1>1. /\ BaseInv' /\ Grows /\ at[c] = "inserting" /\ at'[c] = "out"
        /\ key[c] \in Names /\ mine[c] \in 1..Len(loggers)
        /\ \A d \in Callers \ {c} : Stays(d)
        /\ \/ /\ m_log_map'[key[c]] # Absent
              /\ m_log_map[key[c]] = Absent => m_log_map'[key[c]] = mine[c]
              /\ \A n \in Names \ {key[c]} : m_log_map'[n] = m_log_map[n]
           \/ Inserting(c) /\ m_log_map' = m_log_map
        /\ Give(c, mine[c])
    BY GetInsertedBase
  <1>2. RegistryTypeOK /\ CallInv /\ raced' \in [Callers -> BOOLEAN] /\ raced[c] \in BOOLEAN
    BY <1>1, RegistryTypes DEF BaseInv, RegistryTypeOK
  <1>3. at'[c] \notin Getting /\ at'[c] \notin Making /\ at[c] \in Getting /\ at[c] \in Making
    BY <1>1 DEF Getting, Making
  <1>4. ASSUME NEW d \in Callers \ {c}, at[d] \in Making, ~raced[d] PROVE FALSE
    <2>1. at[d] \in Getting
      BY <1>4 DEF Making, Getting
    <2> QED
      BY <1>3, <1>4, <2>1 DEF RaceInv
  <1>5. ~raced[c] => mine[c] # Absent /\ m_log_map'[key[c]] = mine[c]
    <2>1. mine[c] # Absent
      BY <1>1, <1>2 DEF CallInv, RequestOK
    <2>2. Inserting(c) => raced[c]
      BY <1>3 DEF Inserting, Others, RaceInv, Getting
    <2>3. ~raced[c] => m_log_map[key[c]] = Absent
      BY <1>3 DEF RaceInv
    <2> QED
      BY <1>1, <2>1, <2>2, <2>3
  <1>6. ASSUME NEW x \in given', x \notin given, ~x.raced
        PROVE  x.logger # Absent /\ m_log_map'[x.name] = x.logger
    <2>1. x.name = key[c] /\ x.logger = mine[c] /\ x.raced = raced[c]
      BY <1>1, <1>6 DEF Give
    <2> QED
      BY <1>5, <1>6, <2>1
  <1> QED
    BY <1>1, <1>2, <1>3, <1>4, <1>6, RaceMoves

\* A step that gives no logger away and does not begin to get one.
LEMMA RaceQuiet ==
    ASSUME BaseInv, BaseInv', RaceInv, Grows, NEW c \in Callers,
           \A d \in Callers \ {c} : Stays(d),
           at'[c] \in Getting => /\ at[c] \in Making /\ raced'[c] = raced[c]
                                 /\ key'[c] = key[c],
           UNCHANGED <<m_log_map, given>>
    PROVE  RaceInv'
  <1>1. raced' \in [Callers -> BOOLEAN] /\ raced[c] \in BOOLEAN
    BY RegistryTypes DEF BaseInv, RegistryTypeOK
  <1>2. at'[c] \in Making => at'[c] \in Getting
    BY DEF Making, Getting
  <1>3. at[c] \in Making => at[c] \in Getting
    BY DEF Making, Getting
  <1>4. (at'[c] \in Making /\ ~raced'[c]) => m_log_map'[key'[c]] = Absent
    BY <1>2 DEF RaceInv
  <1> QED
    BY <1>1, <1>3, <1>4, RaceMoves

LEMMA RegistryNextRace ==
    ASSUME BaseInv, BaseInv', RaceInv, RegistryNext
    PROVE  RaceInv'
  <1>1. ASSUME NEW c \in Callers, NEW n \in Names, NEW f \in Formats, GetCall(c, n, f)
        PROVE  RaceInv'
    BY <1>1, GetCallRace
  <1>2. ASSUME NEW c \in Callers, GetFind(c) PROVE RaceInv'
    BY <1>2, GetFindRace
  <1>3. ASSUME NEW c \in Callers, GetMake(c) PROVE RaceInv'
    <2>1. /\ Grows /\ at[c] = "make" /\ UNCHANGED <<m_log_map, given, key, raced>>
          /\ \A d \in Callers \ {c} : Stays(d)
      BY <1>3, GetMakeBase
    <2> QED
      BY <2>1, RaceQuiet DEF Making
  <1>4. ASSUME NEW c \in Callers, GetInsert(c) PROVE RaceInv'
    <2>1. /\ Grows /\ at[c] = "make" /\ UNCHANGED <<m_log_map, given, key, raced>>
          /\ \A d \in Callers \ {c} : Stays(d)
      BY <1>4, GetInsertBase
    <2> QED
      BY <2>1, RaceQuiet DEF Making
  <1>5. ASSUME NEW c \in Callers, GetInserted(c) PROVE RaceInv'
    BY <1>5, GetInsertedRace
  <1>6. ASSUME NEW c \in Callers, NEW word \in Words, SetLevel(c, word) PROVE RaceInv'
    <2>1. /\ Grows /\ Comes(c, 0, "read") /\ UNCHANGED <<m_log_map, given>>
          /\ \A d \in Callers \ {c} : Stays(d)
      BY <1>6, SetLevelBase
    <2>2. at'[c] \notin Getting
      BY <2>1 DEF Comes, Getting
    <2> QED
      BY <2>1, <2>2, RaceQuiet
  <1>7. ASSUME NEW c \in Callers, SetLevelRead(c) PROVE RaceInv'
    <2>1. /\ Grows /\ at'[c] = "level" /\ UNCHANGED <<m_log_map, given>>
          /\ \A d \in Callers \ {c} : Stays(d)
      BY <1>7, SetLevelReadBase
    <2>2. at'[c] \notin Getting
      BY <2>1 DEF Getting
    <2> QED
      BY <2>1, <2>2, RaceQuiet
  <1>8. ASSUME NEW c \in Callers, SetLevelOf(c) PROVE RaceInv'
    <2>1. /\ Grows /\ Comes(c, key[c], "read") /\ UNCHANGED <<m_log_map, given>>
          /\ \A d \in Callers \ {c} : Stays(d)
      BY <1>8, SetLevelOfBase
    <2>2. at'[c] \notin Getting
      BY <2>1 DEF Comes, Getting
    <2> QED
      BY <2>1, <2>2, RaceQuiet
  <1>9. ASSUME NEW c \in Callers, NEW minutes \in MinutesAsked, SetExpired(c, minutes)
        PROVE  RaceInv'
    <2>1. /\ Grows /\ Comes(c, 0, "expired") /\ UNCHANGED <<m_log_map, given>>
          /\ \A d \in Callers \ {c} : Stays(d)
      BY <1>9, SetExpiredBase
    <2>2. at'[c] \notin Getting
      BY <2>1 DEF Comes, Getting
    <2> QED
      BY <2>1, <2>2, RaceQuiet
  <1>10. ASSUME NEW c \in Callers, SetExpiredOf(c) PROVE RaceInv'
    <2>1. /\ Grows /\ Comes(c, key[c], "expired") /\ UNCHANGED <<m_log_map, given>>
          /\ \A d \in Callers \ {c} : Stays(d)
      BY <1>10, SetExpiredOfBase
    <2>2. at'[c] \notin Getting
      BY <2>1 DEF Comes, Getting
    <2> QED
      BY <2>1, <2>2, RaceQuiet
  <1>11. ASSUME NEW l \in 1..MaxLoggers, RotateLogger(l) PROVE RaceInv'
    <2>1. UNCHANGED <<m_log_map, at, key, raced, given>>
      BY <1>11, RotateLoggerBase
    <2> QED
      BY <2>1 DEF RaceInv
  <1>12. ASSUME ReadsTornMap PROVE RaceInv'
    BY <1>12 DEF ReadsTornMap, callVars, pastVars, RaceInv
  <1> QED
    BY <1>1, <1>2, <1>3, <1>4, <1>5, <1>6, <1>7, <1>8, <1>9, <1>10, <1>11, <1>12 DEF RegistryNext

LEMMA RegistryNextBase ==
    ASSUME BaseInv, [RegistryNext]_registryVars
    PROVE  BaseInv'
  <1>1. CASE UNCHANGED registryVars
    BY <1>1 DEF registryVars, callVars, pastVars, BaseInv, RegistryTypeOK, CallInv, RequestOK,
                MapInv
  <1>2. ASSUME ReadsTornMap PROVE BaseInv'
    BY <1>2 DEF ReadsTornMap, callVars, pastVars, BaseInv, RegistryTypeOK, CallInv, RequestOK,
                MapInv
  <1>3. CASE RegistryNext
    BY <1>2, <1>3, GetCallBase, GetFindBase, GetMakeBase, GetInsertBase, GetInsertedBase,
       SetLevelBase, SetLevelReadBase, SetLevelOfBase, SetExpiredBase, SetExpiredOfBase,
       RotateLoggerBase DEF RegistryNext
  <1> QED
    BY <1>1, <1>3

\* Every variable of the registry has its type.
THEOREM SpecRegistryTypeOK == RegistrySpec => []RegistryTypeOK
  <1>1. RegistryInit => BaseInv
    BY RegistryInitBase
  <1>2. BaseInv /\ [RegistryNext]_registryVars => BaseInv'
    BY RegistryNextBase
  <1>3. BaseInv => RegistryTypeOK
    BY DEF BaseInv
  <1> QED
    BY <1>1, <1>2, <1>3, PTL DEF RegistrySpec

\* Two callers of a name have the same logger, the one in the map, unless their
\* calls of get_logger() met others.
THEOREM SpecSharedUnlessRaced == RegistrySpec => []SharedUnlessRaced
  <1> DEFINE Inv == BaseInv /\ RaceInv
  <1>1. RegistryInit => Inv
    <2>1. RegistryInit => RaceInv
      BY DEF RegistryInit, RaceInv, Getting, Making
    <2> QED
      BY <2>1, RegistryInitBase
  <1>2. Inv /\ [RegistryNext]_registryVars => Inv'
    <2>1. (BaseInv /\ RaceInv /\ UNCHANGED registryVars) => RaceInv'
      BY DEF registryVars, callVars, pastVars, RaceInv
    <2> QED
      BY <2>1, RegistryNextBase, RegistryNextRace
  <1>3. Inv => SharedUnlessRaced
    <2> SUFFICES ASSUME RaceInv PROVE SharedUnlessRaced
      OBVIOUS
    <2>1. ASSUME NEW x \in given, NEW y \in given, x.name = y.name, x.logger # y.logger
          PROVE  x.raced \/ y.raced
      BY <2>1 DEF RaceInv
    <2>2. ASSUME NEW x \in given, m_log_map[x.name] # x.logger PROVE x.raced
      BY <2>2 DEF RaceInv
    <2> QED
      BY <2>1, <2>2 DEF SharedUnlessRaced
  <1> HIDE DEF Inv
  <1> QED
    BY <1>1, <1>2, <1>3, PTL DEF RegistrySpec

-----------------------------------------------------------------------------
(***************************************************************************)
(* Where the settings have got to.                                         *)
(***************************************************************************)
LEMMA RightKept ==
    ASSUME NEW s \in DOMAIN Setting, NEW l, Right(s, l), loggers'[l].format = loggers[l].format,
           s = "level" =>
               /\ loggers'[l].level = loggers[l].level
               /\ \/ loggers'[l].filter = loggers[l].filter
                  \/ loggers'[l].filter = Own /\ l \in reopened'
               /\ reopened \subseteq reopened' /\ m_log_level' = m_log_level,
           s = "expired" => loggers'[l].expired = loggers[l].expired /\ wanted' = wanted,
           (l \in seen'[s]) <=> (l \in seen[s])
    PROVE  Right(s, l)'
  <1>1. CASE s = "level"
    BY <1>1 DEF Right
  <1>2. CASE s = "expired"
    BY <1>2 DEF Right
  <1> QED
    BY <1>1, <1>2, RegistryConstants

\* d does not begin, and does not move, set_level() (or set_expired()).
Steady(s, d) ==
    /\ at'[d] \in Setting[s] <=> at[d] \in Setting[s]
    /\ at[d] \in Setting[s] => at'[d] = at[d] /\ key'[d] = key[d] /\ arg'[d] = arg[d]
    /\ at'[d] \in Getting => at[d] \in Getting
    /\ mine'[d] \in {mine[d], Absent}

LEMMA StaysSteady ==
    ASSUME NEW s, NEW d, Stays(d)
    PROVE  Steady(s, d)
  <1> QED
    BY DEF Stays, Steady

LEMMA ActualLogger ==
    ASSUME BaseInv
    PROVE  /\ \A n \in Names : m_log_map[n] # Absent => m_log_map[n] \in 1..Len(loggers)
           /\ \A c \in Callers : mine[c] # Absent => mine[c] \in 1..Len(loggers)
           /\ Registered \subseteq 1..Len(loggers)
  <1>1. Len(loggers) \in Nat /\ MapInv /\ CallInv
    BY RegistryTypes DEF BaseInv
  <1>2. \A n \in Names : m_log_map[n] # Absent => m_log_map[n] \in 1..Len(loggers)
    BY <1>1 DEF MapInv, Absent
  <1>3. \A c \in Callers : mine[c] # Absent => mine[c] \in 1..Len(loggers)
    BY <1>1 DEF CallInv, RequestOK, Absent
  <1>4. Registered \subseteq 1..Len(loggers)
    BY <1>2 DEF Registered
  <1> QED
    BY <1>2, <1>3, <1>4

LEMMA SettingKept ==
    ASSUME BaseInv, NEW s \in DOMAIN Setting, WalkInv(s), \A d \in Callers : Steady(s, d),
           seen'[s] = seen[s], HandedOn(s)' = HandedOn(s), m_log_map' = m_log_map,
           \A l \in 1..Len(loggers) : Right(s, l) => Right(s, l)'
    PROVE  WalkInv(s)'
  <1>1. Setting[s]' = Setting[s] /\ Registered' = Registered
    BY DEF Setting, Registered
  <1>2. ASSUME NEW c \in Callers, NEW d \in Callers, c # d, at'[c] \in Setting[s]
        PROVE  at'[d] \notin Setting[s] \cup Getting
    <2>1. at[c] \in Setting[s] /\ Steady(s, d)
      BY <1>2 DEF Steady
    <2>2. at[d] \notin Setting[s] /\ at[d] \notin Getting
      BY <1>2, <2>1 DEF WalkInv
    <2> QED
      BY <2>1, <2>2 DEF Steady
  <1>3. ASSUME NEW c \in Callers, at'[c] \in Setting[s]
        PROVE  seen'[s] = Registered /\ (at'[c] # "read" => arg'[c] = HandedOn(s)')
    <2>1. at[c] \in Setting[s] /\ at'[c] = at[c] /\ arg'[c] = arg[c]
      BY <1>3 DEF Steady
    <2> QED
      BY <2>1 DEF WalkInv
  <1>4. ASSUME NEW n \in Names, m_log_map[n] # Absent,
               \A c \in Callers : at'[c] \in Setting[s] => n < key'[c]
        PROVE  Right(s, m_log_map[n])'
    <2>1. \A c \in Callers : at[c] \in Setting[s] => n < key[c]
      BY <1>4 DEF Steady
    <2>2. Right(s, m_log_map[n])
      BY <1>4, <2>1 DEF WalkInv
    <2>3. PICK l \in 1..Len(loggers) : l = m_log_map[n]
      BY <1>4, ActualLogger
    <2> QED
      BY <2>2, <2>3
  <1>5. ASSUME NEW c \in Callers, mine'[c] # Absent
        PROVE  mine'[c] \notin seen'[s] /\ Right(s, mine[c])' /\ mine'[c] = mine[c]
    <2>1. mine'[c] = mine[c]
      BY <1>5 DEF Steady
    <2>2. mine[c] \notin seen[s] /\ Right(s, mine[c])
      BY <1>5, <2>1 DEF WalkInv
    <2>3. PICK l \in 1..Len(loggers) : l = mine[c]
      BY <1>5, <2>1, ActualLogger
    <2> QED
      BY <2>1, <2>2, <2>3
  <1> QED
    BY <1>1, <1>2, <1>3, <1>4, <1>5 DEF WalkInv

\* A thread that is not in get_logger() has no logger of its own.
LEMMA NoneOfItsOwn ==
    ASSUME BaseInv, NEW c \in Callers, at[c] \notin Getting PROVE mine[c] = Absent
  <1> QED
    BY DEF BaseInv, CallInv, RequestOK, Making, Getting

LEMMA WalkBegins ==
    ASSUME BaseInv, NEW s \in DOMAIN Setting, NEW c \in Callers, NEW to \in Setting[s],
           ~Others(c, Getting \cup Setting[s]), \A d \in Callers \ {c} : Stays(d),
           at[c] = "out", mine'[c] = Absent, Comes(c, 0, to),
           (at'[c] = to /\ to # "read") => arg'[c] = HandedOn(s)',
           seen'[s] = Registered, m_log_map' = m_log_map
    PROVE  WalkInv(s)'
  <1>1. Setting[s]' = Setting[s] /\ Registered' = Registered
    BY DEF Setting, Registered
  <1>2. \A d \in Callers \ {c} : at[d] \notin Getting /\ at[d] \notin Setting[s]
    BY DEF Others
  <1>3. \A d \in Callers : mine'[d] = Absent
    BY <1>2, NoneOfItsOwn DEF Stays
  <1>4. ~Inserting(c)
    BY <1>2 DEF Inserting, Others, Getting
  <1>5. ASSUME NEW d \in Callers, NEW e \in Callers, d # e, at'[d] \in Setting[s]
        PROVE  at'[e] \notin Setting[s] \cup Getting
    BY <1>2, <1>5 DEF Stays
  <1>6. ASSUME NEW d \in Callers, at'[d] \in Setting[s]
        PROVE  seen'[s] = Registered /\ (at'[d] # "read" => arg'[d] = HandedOn(s)')
    <2>1. d = c
      BY <1>2, <1>6 DEF Stays
    <2>2. at'[c] # "out"
      BY <1>6, <2>1, RegistryConstants DEF Walking
    <2> QED
      BY <2>1, <2>2 DEF Comes
  <1>7. ASSUME NEW n \in Names, m_log_map[n] # Absent,
               \A d \in Callers : at'[d] \in Setting[s] => n < key'[d]
        PROVE  FALSE
    <2>1. n \in Nat /\ n > 0
      BY RegistryConstants
    <2>2. at'[c] = to /\ key'[c] \in Names /\ key'[c] <= n
      BY <1>4, <1>7, <2>1 DEF Comes
    <2>3. n < key'[c] /\ key'[c] \in Nat
      BY <1>7, <2>2, RegistryConstants
    <2> QED
      BY <2>1, <2>2, <2>3
  <1> QED
    BY <1>1, <1>3, <1>5, <1>6, <1>7 DEF WalkInv

LEMMA WalkGoesOn ==
    ASSUME BaseInv, NEW s \in DOMAIN Setting, WalkInv(s), NEW c \in Callers, NEW to \in Setting[s],
           at[c] \in Setting[s], key[c] \in Names, \A d \in Callers \ {c} : Stays(d),
           mine'[c] = Absent, Comes(c, key[c], to),
           (at'[c] = to /\ to # "read") => arg'[c] = HandedOn(s)',
           seen'[s] = seen[s], HandedOn(s)' = HandedOn(s), m_log_map' = m_log_map,
           NEW l0, l0 = m_log_map[key[c]], Right(s, l0)',
           \A l \in 1..Len(loggers) : (l # l0 /\ Right(s, l)) => Right(s, l)'
    PROVE  WalkInv(s)'
  <1>1. Setting[s]' = Setting[s] /\ Registered' = Registered
    BY DEF Setting, Registered
  <1>2. \A d \in Callers \ {c} : at[d] \notin Getting /\ at[d] \notin Setting[s]
    BY DEF WalkInv
  <1>3. \A d \in Callers : mine'[d] = Absent
    BY <1>2, NoneOfItsOwn DEF Stays
  <1>4. ~Inserting(c)
    BY <1>2 DEF Inserting, Others, Getting
  <1>5. at'[c] \in Setting[s] <=> at'[c] = to
    BY RegistryConstants DEF Comes, Walking
  <1>6. ASSUME NEW d \in Callers, NEW e \in Callers, d # e, at'[d] \in Setting[s]
        PROVE  at'[e] \notin Setting[s] \cup Getting
    BY <1>2, <1>6 DEF Stays
  <1>7. ASSUME NEW d \in Callers, at'[d] \in Setting[s]
        PROVE  seen'[s] = Registered /\ (at'[d] # "read" => arg'[d] = HandedOn(s)')
    <2>1. d = c
      BY <1>2, <1>7 DEF Stays
    <2>2. seen[s] = Registered
      BY DEF WalkInv
    <2> QED
      BY <1>5, <1>7, <2>1, <2>2
  <1>8. ASSUME NEW n \in Names, m_log_map[n] # Absent,
               \A d \in Callers : at'[d] \in Setting[s] => n < key'[d]
        PROVE  Right(s, m_log_map[n])'
    <2>1. PICK l \in 1..Len(loggers) : l = m_log_map[n]
      BY <1>8, ActualLogger
    <2>2. CASE l = l0
      BY <2>1, <2>2
    <2>3. CASE l # l0
      <3>1. n \in Nat /\ key[c] \in Nat
        BY RegistryConstants
      <3>2. n # key[c]
        BY <2>1, <2>3
      <3>3. ~(n > key[c])
        <4>1. SUFFICES ASSUME n > key[c] PROVE FALSE
          OBVIOUS
        <4>2. at'[c] = to /\ key'[c] \in Names /\ key'[c] <= n
          BY <1>4, <1>8, <4>1 DEF Comes
        <4>3. n < key'[c] /\ key'[c] \in Nat
          BY <1>5, <1>8, <4>2, RegistryConstants
        <4> QED
          BY <3>1, <4>2, <4>3
      <3>4. n < key[c]
        BY <3>1, <3>2, <3>3
      <3>5. \A d \in Callers : at[d] \in Setting[s] => n < key[d]
        BY <1>2, <3>4
      <3>6. Right(s, l)
        BY <1>8, <2>1, <3>5 DEF WalkInv
      <3>7. Right(s, l)'
        BY <2>3, <3>6
      <3> QED
        BY <2>1, <3>7
    <2> QED
      BY <2>2, <2>3
  <1> QED
    BY <1>1, <1>3, <1>6, <1>7, <1>8 DEF WalkInv

-----------------------------------------------------------------------------
\* The steps that get a logger.
LEMMA SettingTypes ==
    ASSUME BaseInv
    PROVE  overlap \in [DOMAIN Setting -> BOOLEAN]
  <1> QED
    BY RegistryTypes DEF BaseInv

LEMMA GetCallSetting ==
    ASSUME BaseInv, SettingInv, NEW c \in Callers, NEW n \in Names, NEW f \in Formats,
           GetCall(c, n, f), NEW s \in DOMAIN Setting, ~overlap'[s]
    PROVE  WalkInv(s)'
  <1>1. /\ at[c] = "out" /\ at'[c] = "find" /\ mine'[c] = Absent
        /\ \A d \in Callers \ {c} : Stays(d)
        /\ UNCHANGED <<m_log_map, m_log_level, loggers, seen, wanted, reopened>>
    BY GetCallBase DEF GetCall
  <1>2. ~overlap[s] /\ ~Others(c, Setting[s])
    BY DEF GetCall
  <1>3. WalkInv(s)
    BY <1>2 DEF SettingInv
  <1>4. \A d \in Callers : at[d] \notin Setting[s] /\ at'[d] \notin Setting[s]
    <2>1. at[c] \notin Setting[s] /\ at'[c] \notin Setting[s]
      BY <1>1, RegistryConstants DEF Walking
    <2> QED
      BY <1>1, <1>2, <2>1 DEF Others, Stays
  <1>5. \A d \in Callers : mine'[d] = mine[d] \/ mine'[d] = Absent
    BY <1>1 DEF Stays
  <1>6. Setting[s]' = Setting[s] /\ Registered' = Registered
    BY <1>1 DEF Setting, Registered
  <1>7. \A l : Right(s, l) => Right(s, l)'
    BY <1>1 DEF Right
  <1>8. \A k \in Names : m_log_map[k] # Absent => Right(s, m_log_map[k])'
    <2>1. ASSUME NEW k \in Names, m_log_map[k] # Absent PROVE Right(s, m_log_map[k])'
      <3>1. PICK l \in 1..Len(loggers) : l = m_log_map[k]
        BY <2>1, ActualLogger
      <3>2. Right(s, l)
        BY <1>3, <1>4, <2>1, <3>1 DEF WalkInv
      <3>3. Right(s, l)'
        BY <1>7, <3>2
      <3> QED
        BY <1>1, <3>1, <3>3
    <2> QED
      BY <1>1, <2>1
  <1>9. ASSUME NEW d \in Callers, mine'[d] # Absent
        PROVE  mine'[d] \notin seen'[s] /\ Right(s, mine[d])'
    <2>1. PICK l \in 1..Len(loggers) : l = mine[d] /\ l = mine'[d]
      BY <1>5, <1>9, ActualLogger
    <2>2. l \notin seen[s] /\ Right(s, l)
      BY <1>3, <1>5, <1>9, <2>1 DEF WalkInv
    <2>3. Right(s, l)'
      BY <1>7, <2>2
    <2> QED
      BY <1>1, <2>1, <2>2, <2>3
  <1> QED
    BY <1>1, <1>4, <1>6, <1>8, <1>9 DEF WalkInv

\* While somebody gets a logger, nobody sets what the last call has set alone.
LEMMA NoneSets ==
    ASSUME NEW s \in DOMAIN Setting, WalkInv(s), NEW c \in Callers, at[c] \in Getting
    PROVE  \A d \in Callers : at[d] \notin Setting[s]
  <1>1. at[c] \notin Setting[s]
    BY RegistryConstants DEF Getting, Walking
  <1> QED
    BY <1>1 DEF WalkInv

LEMMA GetMakeSetting ==
    ASSUME BaseInv, SettingInv, NEW c \in Callers, GetMake(c),
           NEW s \in DOMAIN Setting, ~overlap'[s]
    PROVE  WalkInv(s)'
  <1>1. /\ at[c] = "make" /\ at'[c] = "make"
        /\ mine'[c] = Len(loggers) + 1 /\ Len(loggers') = Len(loggers) + 1
        /\ \A l \in 1..Len(loggers) : loggers'[l] = loggers[l]
        /\ \E f \in log_format : loggers'[Len(loggers) + 1] = NewLogger(f)
        /\ \A d \in Callers \ {c} : Stays(d)
        /\ reopened' = reopened \cup {Len(loggers) + 1}
        /\ UNCHANGED <<m_log_map, m_log_level, key, raced, given, overlap, seen, wanted>>
    BY GetMakeBase
  <1>2. WalkInv(s) /\ RegistryTypeOK /\ MapInv /\ Len(loggers) \in Nat
    BY <1>1, RegistryTypes DEF SettingInv, BaseInv
  <1>3. PICK m \in Nat : m = Len(loggers) + 1
    BY <1>2
  <1>4. \A d \in Callers : at[d] \notin Setting[s] /\ at'[d] \notin Setting[s]
    <2>1. at[c] \in Getting
      BY <1>1 DEF Getting
    <2> QED
      BY <1>1, <1>2, <2>1, NoneSets DEF Stays
  <1>5. Setting[s]' = Setting[s] /\ Registered' = Registered
    BY <1>1 DEF Setting, Registered
  <1>6. ASSUME NEW l \in 1..Len(loggers), Right(s, l) PROVE Right(s, l)'
    <2>1. loggers'[l] = loggers[l] /\ reopened \subseteq reopened'
      BY <1>1
    <2> QED
      BY <1>1, <1>6, <2>1, RightKept
  <1>7. m \notin seen'[s] /\ Right(s, m)'
    <2>1. m \notin seen'[s] /\ m \notin seen[s]
      BY <1>1, <1>2, <1>3 DEF MapInv
    <2>2. PICK f \in log_format : loggers'[m] = NewLogger(f)
      BY <1>1, <1>3
    <2>3. m \in reopened'
      BY <1>1, <1>3
    <2>4. /\ NewLogger(f).format = Made(f) /\ Made(f) \in {"File", "Sqlite", "CSV"}
          /\ NewLogger(f).expired = DefaultExpired(Made(f))
          /\ NewLogger(f).level = (IF Made(f) = "File" THEN m_log_level ELSE log_level["ALL"])
          /\ NewLogger(f).filter = (IF Made(f) = "File" THEN Own ELSE log_level["ALL"])
      BY <1>2, NewLoggerType
    <2>5. CASE s = "level"
      BY <1>1, <2>1, <2>2, <2>3, <2>4, <2>5 DEF Right
    <2>6. CASE s = "expired"
      BY <1>1, <2>1, <2>2, <2>4, <2>6 DEF Right
    <2> QED
      BY <2>1, <2>5, <2>6, RegistryConstants
  <1>8. ASSUME NEW k \in Names, m_log_map[k] # Absent PROVE Right(s, m_log_map[k])'
    <2>1. PICK l \in 1..Len(loggers) : l = m_log_map[k]
      BY <1>8, ActualLogger
    <2>2. Right(s, l)
      BY <1>2, <1>4, <1>8, <2>1 DEF WalkInv
    <2>3. Right(s, l)'
      BY <1>6, <2>2
    <2> QED
      BY <1>1, <2>1, <2>3
  <1>9. ASSUME NEW d \in Callers, mine'[d] # Absent
        PROVE  mine'[d] \notin seen'[s] /\ Right(s, mine[d])'
    <2>1. CASE d = c
      BY <1>1, <1>3, <1>7, <2>1
    <2>2. CASE d # c
      <3>1. PICK l \in 1..Len(loggers) : l = mine[d] /\ l = mine'[d]
        BY <1>1, <1>9, <2>2, ActualLogger DEF Stays
      <3>2. l \notin seen[s] /\ Right(s, l)
        BY <1>2, <1>9, <3>1 DEF WalkInv
      <3>3. Right(s, l)'
        BY <1>6, <3>2
      <3> QED
        BY <1>1, <3>1, <3>2, <3>3
    <2> QED
      BY <2>1, <2>2
  <1> QED
    BY <1>1, <1>4, <1>5, <1>8, <1>9 DEF WalkInv

LEMMA GetInsertedSetting ==
    ASSUME BaseInv, SettingInv, NEW c \in Callers, GetInserted(c),
           NEW s \in DOMAIN Setting, ~overlap'[s]
    PROVE  WalkInv(s)'
  <1>1. /\ at[c] = "inserting" /\ at'[c] = "out" /\ mine'[c] = Absent
        /\ key[c] \in Names /\ mine[c] \in 1..Len(loggers)
        /\ \A d \in Callers \ {c} : Stays(d)
        /\ \/ /\ m_log_map[key[c]] = Absent => m_log_map'[key[c]] = mine[c]
              /\ \A n \in Names \ {key[c]} : m_log_map'[n] = m_log_map[n]
           \/ m_log_map' = m_log_map
        /\ Grows
        /\ UNCHANGED <<m_log_level, loggers, overlap, seen, wanted, reopened>>
    BY GetInsertedBase
  <1>2. WalkInv(s)
    BY <1>1 DEF SettingInv
  <1>3. \A d \in Callers : at[d] \notin Setting[s] /\ at'[d] \notin Setting[s]
    <2>1. at[c] \in Getting
      BY <1>1 DEF Getting
    <2>2. at'[c] \notin Setting[s]
      BY <1>1, RegistryConstants DEF Walking
    <2> QED
      BY <1>1, <1>2, <2>1, <2>2, NoneSets DEF Stays
  <1>4. Setting[s]' = Setting[s]
    BY DEF Setting
  <1>5. \A l : Right(s, l) => Right(s, l)'
    BY <1>1 DEF Right
  <1>6. mine[c] # Absent
    BY <1>1 DEF BaseInv, CallInv, RequestOK
  <1>7. ASSUME NEW k \in Names, m_log_map'[k] # Absent PROVE Right(s, m_log_map[k])'
    <2>1. m_log_map'[k] = mine[c] \/ (m_log_map[k] # Absent /\ m_log_map'[k] = m_log_map[k])
      BY <1>1, <1>7 DEF Grows
    <2>2. PICK l \in 1..Len(loggers) : l = m_log_map'[k] /\ Right(s, l)
      <3>1. CASE m_log_map'[k] = mine[c]
        BY <1>1, <1>2, <1>6, <3>1 DEF WalkInv
      <3>2. CASE m_log_map[k] # Absent /\ m_log_map'[k] = m_log_map[k]
        BY <1>2, <1>3, <3>2, ActualLogger DEF WalkInv
      <3> QED
        BY <2>1, <3>1, <3>2
    <2>3. Right(s, l)'
      BY <1>5, <2>2
    <2> QED
      BY <2>2, <2>3
  <1>8. ASSUME NEW d \in Callers, mine'[d] # Absent
        PROVE  mine'[d] \notin seen'[s] /\ Right(s, mine[d])'
    <2>1. d # c /\ mine'[d] = mine[d]
      BY <1>1, <1>8 DEF Stays
    <2>2. PICK l \in 1..Len(loggers) : l = mine[d] /\ l = mine'[d]
      BY <1>8, <2>1, ActualLogger
    <2>3. l \notin seen[s] /\ Right(s, l)
      BY <1>2, <1>8, <2>2 DEF WalkInv
    <2>4. Right(s, l)'
      BY <1>5, <2>3
    <2> QED
      BY <1>1, <2>2, <2>3, <2>4
  <1> QED
    BY <1>3, <1>4, <1>7, <1>8 DEF WalkInv

-----------------------------------------------------------------------------
\* The steps that neither get a logger nor go on with this setting.
LEMMA SteadySetting ==
    ASSUME BaseInv, SettingInv, NEW s \in DOMAIN Setting, ~overlap[s], NEW c \in Callers,
           \A d \in Callers \ {c} : Stays(d), Steady(s, c),
           seen'[s] = seen[s], HandedOn(s)' = HandedOn(s), m_log_map' = m_log_map,
           \A l \in 1..Len(loggers) : Right(s, l) => Right(s, l)'
    PROVE  WalkInv(s)'
  <1>1. WalkInv(s)
    BY DEF SettingInv
  <1>2. \A d \in Callers : Steady(s, d)
    BY StaysSteady
  <1> QED
    BY <1>1, <1>2, SettingKept

LEMMA HandedOnSame ==
    ASSUME UNCHANGED <<m_log_level, wanted>>, NEW s PROVE HandedOn(s)' = HandedOn(s)
  <1> QED
    BY DEF HandedOn

LEMMA GetFindSetting ==
    ASSUME BaseInv, SettingInv, NEW c \in Callers, GetFind(c),
           NEW s \in DOMAIN Setting, ~overlap'[s]
    PROVE  WalkInv(s)'
  <1>1. /\ at[c] = "find" /\ at'[c] \in {"out", "make"} /\ mine'[c] = Absent
        /\ \A d \in Callers \ {c} : Stays(d)
        /\ UNCHANGED <<m_log_map, m_log_level, loggers, overlap, seen, wanted, reopened>>
    BY GetFindBase
  <1>2. Steady(s, c)
    BY <1>1, RegistryConstants DEF Steady, Walking, Getting
  <1>3. \A l : Right(s, l) => Right(s, l)'
    BY <1>1 DEF Right
  <1> QED
    BY <1>1, <1>2, <1>3, HandedOnSame, SteadySetting

LEMMA GetInsertSetting ==
    ASSUME BaseInv, SettingInv, NEW c \in Callers, GetInsert(c),
           NEW s \in DOMAIN Setting, ~overlap'[s]
    PROVE  WalkInv(s)'
  <1>1. /\ at[c] = "make" /\ at'[c] = "inserting"
        /\ \A d \in Callers \ {c} : Stays(d)
        /\ UNCHANGED <<m_log_map, m_log_level, loggers, mine, overlap, seen, wanted, reopened>>
    BY GetInsertBase
  <1>2. Steady(s, c)
    BY <1>1, RegistryConstants DEF Steady, Walking, Getting
  <1>3. \A l : Right(s, l) => Right(s, l)'
    BY <1>1 DEF Right
  <1> QED
    BY <1>1, <1>2, <1>3, HandedOnSame, SteadySetting

LEMMA SetLevelSetting ==
    ASSUME BaseInv, SettingInv, NEW c \in Callers, NEW word \in Words, SetLevel(c, word),
           NEW s \in DOMAIN Setting, ~overlap'[s]
    PROVE  WalkInv(s)'
  <1>1. /\ at[c] = "out" /\ mine[c] = Absent /\ mine'[c] = Absent
        /\ \A d \in Callers \ {c} : Stays(d)
        /\ Comes(c, 0, "read")
        /\ overlap'["level"] <=> Others(c, Getting \cup Setting["level"])
        /\ seen'["level"] = Registered
        /\ \A r \in DOMAIN Setting \ {"level"} :
              overlap'[r] = overlap[r] /\ seen'[r] = seen[r]
        /\ UNCHANGED <<m_log_map, loggers, given, wanted>>
    BY SetLevelBase
  <1>2. CASE s = "level"
    <2>1. "read" \in Setting[s]
      BY <1>2, RegistryConstants
    <2> QED
      BY <1>1, <1>2, <2>1, WalkBegins
  <1>3. CASE s = "expired"
    <2>1. ~overlap[s] /\ seen'[s] = seen[s]
      BY <1>1, <1>3
    <2>2. Steady(s, c)
      BY <1>1, <1>3, RegistryConstants DEF Steady, Comes, Getting
    <2>3. \A l : Right(s, l) => Right(s, l)'
      BY <1>1, <1>3, <2>1 DEF Right
    <2>4. HandedOn(s)' = HandedOn(s)
      BY <1>1, <1>3 DEF HandedOn
    <2> QED
      BY <1>1, <2>1, <2>2, <2>3, <2>4, SteadySetting
  <1> QED
    BY <1>2, <1>3, RegistryConstants

LEMMA SetExpiredSetting ==
    ASSUME BaseInv, SettingInv, NEW c \in Callers, NEW minutes \in MinutesAsked,
           SetExpired(c, minutes), NEW s \in DOMAIN Setting, ~overlap'[s]
    PROVE  WalkInv(s)'
  <1>1. /\ at[c] = "out" /\ mine[c] = Absent /\ mine'[c] = Absent
        /\ \A d \in Callers \ {c} : Stays(d)
        /\ Comes(c, 0, "expired") /\ (at'[c] = "expired" => arg'[c] = minutes)
        /\ overlap'["expired"] <=> Others(c, Getting \cup Setting["expired"])
        /\ seen'["expired"] = Registered
        /\ \A r \in DOMAIN Setting \ {"expired"} :
              overlap'[r] = overlap[r] /\ seen'[r] = seen[r]
        /\ wanted' = minutes /\ UNCHANGED <<m_log_map, m_log_level, loggers, given, reopened>>
    BY SetExpiredBase
  <1>2. CASE s = "expired"
    <2>1. "expired" \in Setting[s]
      BY <1>2, RegistryConstants
    <2>2. at'[c] = "expired" => arg'[c] = HandedOn(s)'
      BY <1>1, <1>2 DEF HandedOn
    <2> QED
      BY <1>1, <1>2, <2>1, <2>2, WalkBegins
  <1>3. CASE s = "level"
    <2>1. ~overlap[s] /\ seen'[s] = seen[s]
      BY <1>1, <1>3
    <2>2. Steady(s, c)
      BY <1>1, <1>3, RegistryConstants DEF Steady, Comes, Getting
    <2>3. \A l : Right(s, l) => Right(s, l)'
      BY <1>1, <1>3, <2>1 DEF Right
    <2>4. HandedOn(s)' = HandedOn(s)
      BY <1>1, <1>3 DEF HandedOn
    <2> QED
      BY <1>1, <2>1, <2>2, <2>3, <2>4, SteadySetting
  <1> QED
    BY <1>2, <1>3, RegistryConstants

LEMMA SetLevelReadSetting ==
    ASSUME BaseInv, SettingInv, NEW c \in Callers, SetLevelRead(c),
           NEW s \in DOMAIN Setting, ~overlap'[s]
    PROVE  WalkInv(s)'
  <1>1. /\ at[c] = "read" /\ at'[c] = "level" /\ arg'[c] = m_log_level
        /\ \A d \in Callers \ {c} : Stays(d)
        /\ UNCHANGED <<m_log_map, m_log_level, loggers, key, mine, overlap, seen, wanted, reopened>>
    BY SetLevelReadBase
  <1>2. WalkInv(s) /\ ~overlap[s]
    BY <1>1 DEF SettingInv
  <1>3. \A l : Right(s, l) => Right(s, l)'
    BY <1>1 DEF Right
  <1>4. CASE s = "level"
    <2>1. at[c] \in Setting[s] /\ at'[c] \in Setting[s] /\ Setting[s]' = Setting[s]
      BY <1>1, <1>4, RegistryConstants DEF Setting
    <2>2. \A d \in Callers \ {c} : at[d] \notin Setting[s] \cup Getting
      BY <1>2, <2>1 DEF WalkInv
    <2>3. Registered' = Registered /\ HandedOn(s)' = m_log_level
      BY <1>1, <1>4 DEF Registered, HandedOn
    <2>4. ASSUME NEW d \in Callers, NEW e \in Callers, d # e, at'[d] \in Setting[s]
          PROVE  at'[e] \notin Setting[s] \cup Getting
      BY <1>1, <2>2, <2>4 DEF Stays
    <2>5. ASSUME NEW d \in Callers, at'[d] \in Setting[s]
          PROVE  seen'[s] = Registered /\ (at'[d] # "read" => arg'[d] = HandedOn(s)')
      <3>1. d = c
        BY <1>1, <2>2, <2>5 DEF Stays
      <3>2. seen[s] = Registered
        BY <1>2, <2>1 DEF WalkInv
      <3> QED
        BY <1>1, <2>3, <3>1, <3>2
    <2>6. ASSUME NEW n \in Names, m_log_map[n] # Absent,
                 \A d \in Callers : at'[d] \in Setting[s] => n < key'[d]
          PROVE  Right(s, m_log_map[n])'
      <3>1. \A d \in Callers : at[d] \in Setting[s] => n < key[d]
        BY <1>1, <2>1, <2>2, <2>6
      <3>2. PICK l \in 1..Len(loggers) : l = m_log_map[n] /\ Right(s, l)
        BY <1>2, <2>6, <3>1, ActualLogger DEF WalkInv
      <3>3. Right(s, l)'
        BY <1>3, <3>2
      <3> QED
        BY <1>1, <3>2, <3>3
    <2>7. \A d \in Callers : mine'[d] = Absent
      <3>1. at[c] \notin Getting
        BY <1>1 DEF Getting
      <3> QED
        BY <1>1, <2>2, <3>1, NoneOfItsOwn DEF Stays
    <2> QED
      BY <1>1, <2>1, <2>3, <2>4, <2>5, <2>6, <2>7 DEF WalkInv
  <1>5. CASE s = "expired"
    <2>1. Steady(s, c)
      BY <1>1, <1>5, RegistryConstants DEF Steady, Getting
    <2> QED
      BY <1>1, <1>2, <1>3, <2>1, HandedOnSame, SteadySetting
  <1> QED
    BY <1>4, <1>5, RegistryConstants

LEMMA SetLevelOfSetting ==
    ASSUME BaseInv, SettingInv, LoggerInv, NEW c \in Callers, SetLevelOf(c),
           NEW s \in DOMAIN Setting, ~overlap'[s]
    PROVE  WalkInv(s)'
  <1>1. /\ at[c] = "level" /\ key[c] \in Names
        /\ m_log_map[key[c]] \in 1..Len(loggers) /\ mine[c] = Absent /\ mine'[c] = Absent
        /\ \A d \in Callers \ {c} : Stays(d)
        /\ Comes(c, key[c], "read")
        /\ loggers'[m_log_map[key[c]]] = LevelSet(loggers[m_log_map[key[c]]], arg[c])
        /\ \A l \in 1..Len(loggers) : l # m_log_map[key[c]] => loggers'[l] = loggers[l]
        /\ UNCHANGED <<m_log_map, m_log_level, given, overlap, seen, wanted, reopened>>
    BY SetLevelOfBase
  <1>2. PICK l0 \in 1..Len(loggers) : l0 = m_log_map[key[c]]
    BY <1>1
  <1>3. WalkInv(s) /\ ~overlap[s] /\ loggers \in Seq(Logger)
    BY <1>1, RegistryTypes DEF SettingInv, BaseInv
  <1>4. PICK g \in Logger : g = loggers[l0]
    BY <1>3
  <1>5. /\ loggers'[l0].format = g.format /\ loggers'[l0].expired = g.expired
        /\ g.format # "CSV" => loggers'[l0].level = arg[c] /\ loggers'[l0].filter = arg[c]
        /\ g.format = "CSV" => loggers'[l0].level = g.level /\ loggers'[l0].filter = g.filter
    <2>1. loggers'[l0] = LevelSet(g, arg[c])
      BY <1>1, <1>2, <1>4
    <2>2. CASE g.format = "CSV"
      BY <2>1, <2>2 DEF LevelSet
    <2>3. CASE g.format # "CSV"
      <3>1. loggers'[l0] = [g EXCEPT !.level = arg[c], !.filter = arg[c]]
        BY <2>1, <2>3 DEF LevelSet
      <3> QED
        BY <2>3, <3>1 DEF Logger
    <2> QED
      BY <2>2, <2>3
  <1>6. \A l \in 1..Len(loggers) : (l # l0 /\ Right(s, l)) => Right(s, l)'
    BY <1>1, <1>2 DEF Right
  <1>7. CASE s = "level"
    <2>1. "read" \in Setting[s] /\ at[c] \in Setting[s]
      BY <1>1, <1>7, RegistryConstants
    <2>2. arg[c] = m_log_level /\ seen[s] = Registered
      BY <1>1, <1>3, <1>7, <2>1 DEF WalkInv, HandedOn
    <2>3. l0 \in seen'["level"]
      <3>1. l0 \in Registered
        <4>1. m_log_map[key[c]] # Absent
          BY <1>1 DEF BaseInv, CallInv, RequestOK, Walking
        <4> QED
          BY <1>1, <1>2, <4>1 DEF Registered
      <3> QED
        BY <1>1, <1>7, <2>2, <3>1
    <2>4. /\ g.format \in {"File", "Sqlite", "CSV"}
          /\ g.format = "CSV" => g.level = log_level["ALL"] /\ g.filter = log_level["ALL"]
      BY <1>4 DEF LoggerInv
    <2>5. Right(s, l0)'
      BY <1>1, <1>5, <1>7, <2>2, <2>3, <2>4 DEF Right
    <2> QED
      BY <1>1, <1>2, <1>3, <1>6, <2>1, <2>5, HandedOnSame, WalkGoesOn
  <1>8. CASE s = "expired"
    <2>1. Steady(s, c)
      BY <1>1, <1>8, RegistryConstants DEF Steady, Comes, Getting
    <2>2. Right(s, l0) => Right(s, l0)'
      BY <1>1, <1>4, <1>5, <1>8 DEF Right
    <2>3. \A l \in 1..Len(loggers) : Right(s, l) => Right(s, l)'
      BY <1>6, <2>2
    <2> QED
      BY <1>1, <1>3, <2>1, <2>3, HandedOnSame, SteadySetting
  <1> QED
    BY <1>7, <1>8, RegistryConstants

LEMMA SetExpiredOfSetting ==
    ASSUME BaseInv, SettingInv, NEW c \in Callers, SetExpiredOf(c),
           NEW s \in DOMAIN Setting, ~overlap'[s]
    PROVE  WalkInv(s)'
  <1>1. /\ at[c] = "expired" /\ key[c] \in Names
        /\ m_log_map[key[c]] \in 1..Len(loggers) /\ mine[c] = Absent /\ mine'[c] = Absent
        /\ \A d \in Callers \ {c} : Stays(d)
        /\ Comes(c, key[c], "expired") /\ (at'[c] = "expired" => arg'[c] = arg[c])
        /\ loggers'[m_log_map[key[c]]] = ExpiredSet(loggers[m_log_map[key[c]]], arg[c])
        /\ \A l \in 1..Len(loggers) : l # m_log_map[key[c]] => loggers'[l] = loggers[l]
        /\ UNCHANGED <<m_log_map, m_log_level, given, overlap, seen, wanted, reopened>>
    BY SetExpiredOfBase
  <1>2. PICK l0 \in 1..Len(loggers) : l0 = m_log_map[key[c]]
    BY <1>1
  <1>3. WalkInv(s) /\ ~overlap[s] /\ loggers \in Seq(Logger)
    BY <1>1, RegistryTypes DEF SettingInv, BaseInv
  <1>4. PICK g \in Logger : g = loggers[l0]
    BY <1>3
  <1>5. /\ loggers'[l0].format = g.format /\ loggers'[l0].expired = arg[c]
        /\ loggers'[l0].level = g.level /\ loggers'[l0].filter = g.filter
    <2>1. loggers'[l0] = [g EXCEPT !.expired = arg[c]]
      BY <1>1, <1>2, <1>4 DEF ExpiredSet
    <2> QED
      BY <2>1 DEF Logger
  <1>6. \A l \in 1..Len(loggers) : (l # l0 /\ Right(s, l)) => Right(s, l)'
    BY <1>1, <1>2 DEF Right
  <1>7. CASE s = "expired"
    <2>1. "expired" \in Setting[s] /\ at[c] \in Setting[s]
      BY <1>1, <1>7, RegistryConstants
    <2>2. arg[c] = wanted /\ seen[s] = Registered
      BY <1>1, <1>3, <1>7, <2>1 DEF WalkInv, HandedOn
    <2>3. l0 \in seen'["expired"]
      <3>1. l0 \in Registered
        <4>1. m_log_map[key[c]] # Absent
          BY <1>1 DEF BaseInv, CallInv, RequestOK, Walking
        <4> QED
          BY <1>1, <1>2, <4>1 DEF Registered
      <3> QED
        BY <1>1, <1>7, <2>2, <3>1
    <2>4. Right(s, l0)'
      BY <1>1, <1>5, <1>7, <2>2, <2>3 DEF Right
    <2>5. (at'[c] = "expired") => arg'[c] = HandedOn(s)'
      BY <1>1, <1>7, <2>2 DEF HandedOn
    <2> QED
      BY <1>1, <1>2, <1>3, <1>6, <2>1, <2>4, <2>5, HandedOnSame, WalkGoesOn
  <1>8. CASE s = "level"
    <2>1. Steady(s, c)
      BY <1>1, <1>8, RegistryConstants DEF Steady, Comes, Getting
    <2>2. Right(s, l0) => Right(s, l0)'
      BY <1>1, <1>4, <1>5, <1>8 DEF Right
    <2>3. \A l \in 1..Len(loggers) : Right(s, l) => Right(s, l)'
      BY <1>6, <2>2
    <2> QED
      BY <1>1, <1>3, <2>1, <2>3, HandedOnSame, SteadySetting
  <1> QED
    BY <1>7, <1>8, RegistryConstants

LEMMA RotateLoggerSetting ==
    ASSUME BaseInv, SettingInv, NEW k \in 1..MaxLoggers, RotateLogger(k),
           NEW s \in DOMAIN Setting, ~overlap'[s]
    PROVE  WalkInv(s)'
  <1>1. /\ k \in 1..Len(loggers) /\ \A d \in Callers : Stays(d)
        /\ loggers'[k].format = loggers[k].format /\ loggers'[k].level = loggers[k].level
        /\ loggers'[k].expired = loggers[k].expired /\ loggers'[k].filter = Own
        /\ \A i \in 1..Len(loggers) : i # k => loggers'[i] = loggers[i]
        /\ reopened' = reopened \cup {k}
        /\ UNCHANGED <<m_log_map, m_log_level, overlap, seen, wanted>>
    BY RotateLoggerBase
  <1>2. WalkInv(s)
    BY <1>1 DEF SettingInv
  <1>3. ASSUME NEW l \in 1..Len(loggers), Right(s, l) PROVE Right(s, l)'
    <2>1. k \in reopened' /\ reopened \subseteq reopened'
      BY <1>1
    <2>2. CASE l = k
      BY <1>1, <1>3, <2>1, <2>2, RightKept
    <2>3. CASE l # k
      BY <1>1, <1>3, <2>1, <2>3, RightKept
    <2> QED
      BY <2>2, <2>3
  <1>4. \A d \in Callers : Steady(s, d)
    BY <1>1, StaysSteady
  <1> QED
    BY <1>1, <1>2, <1>3, <1>4, HandedOnSame, SettingKept

-----------------------------------------------------------------------------
\* What a logger is, whoever sets what of it.
LEMMA LevelSetFields ==
    ASSUME NEW g \in Logger, NEW v
    PROVE  /\ LevelSet(g, v).format = g.format
           /\ g.format = "CSV" => LevelSet(g, v) = g
  <1>1. CASE g.format = "CSV"
    BY <1>1 DEF LevelSet
  <1>2. CASE g.format # "CSV"
    <2>1. LevelSet(g, v) = [g EXCEPT !.level = v, !.filter = v]
      BY <1>2 DEF LevelSet
    <2> QED
      BY <1>2, <2>1 DEF Logger
  <1> QED
    BY <1>1, <1>2

LEMMA LoggersKept ==
    ASSUME BaseInv, LoggerInv, Len(loggers') = Len(loggers),
           \A l \in 1..Len(loggers) :
               /\ loggers'[l].format = loggers[l].format
               /\ loggers[l].format = "CSV" =>
                     loggers'[l].level = loggers[l].level /\ loggers'[l].filter = loggers[l].filter
    PROVE  LoggerInv'
  <1>1. (1..Len(loggers))' = 1..Len(loggers)
    OBVIOUS
  <1> SUFFICES ASSUME NEW l \in 1..Len(loggers)
               PROVE  /\ loggers'[l].format \in {"File", "Sqlite", "CSV"}
                      /\ loggers'[l].format = "CSV" =>
                            /\ loggers'[l].level = log_level["ALL"]
                            /\ loggers'[l].filter = log_level["ALL"]
    BY <1>1 DEF LoggerInv
  <1> QED
    BY DEF LoggerInv

LEMMA RegistryNextLogger ==
    ASSUME BaseInv, LoggerInv, [RegistryNext]_registryVars
    PROVE  LoggerInv'
  <1>0. Len(loggers) \in Nat /\ loggers \in Seq(Logger) /\ RegistryTypeOK
    BY RegistryTypes DEF BaseInv
  <1>1. ASSUME loggers' = loggers PROVE LoggerInv'
    BY <1>1 DEF LoggerInv
  <1>2. ASSUME NEW c \in Callers, GetMake(c) PROVE LoggerInv'
    <2>1. /\ Len(loggers') = Len(loggers) + 1
          /\ \A l \in 1..Len(loggers) : loggers'[l] = loggers[l]
          /\ \E f \in log_format : loggers'[Len(loggers) + 1] = NewLogger(f)
      BY <1>2, GetMakeBase
    <2>2. PICK f \in log_format : loggers'[Len(loggers) + 1] = NewLogger(f)
      BY <2>1
    <2>3. /\ NewLogger(f).format \in {"File", "Sqlite", "CSV"}
          /\ NewLogger(f).format # "File" =>
                NewLogger(f).level = log_level["ALL"] /\ NewLogger(f).filter = log_level["ALL"]
      BY <1>0, NewLoggerType
    <2> SUFFICES ASSUME NEW l \in 1..Len(loggers')
                 PROVE  /\ loggers'[l].format \in {"File", "Sqlite", "CSV"}
                        /\ loggers'[l].format = "CSV" =>
                              /\ loggers'[l].level = log_level["ALL"]
                              /\ loggers'[l].filter = log_level["ALL"]
      BY DEF LoggerInv
    <2>4. CASE l \in 1..Len(loggers)
      BY <2>1, <2>4 DEF LoggerInv
    <2>5. CASE l = Len(loggers) + 1
      BY <2>2, <2>3, <2>5
    <2> QED
      BY <1>0, <2>1, <2>4, <2>5
  <1>3. ASSUME NEW c \in Callers, SetLevelOf(c) PROVE LoggerInv'
    <2>1. /\ Len(loggers') = Len(loggers) /\ m_log_map[key[c]] \in 1..Len(loggers)
          /\ loggers'[m_log_map[key[c]]] = LevelSet(loggers[m_log_map[key[c]]], arg[c])
          /\ \A l \in 1..Len(loggers) : l # m_log_map[key[c]] => loggers'[l] = loggers[l]
      BY <1>3, SetLevelOfBase
    <2>2. PICK l0 \in 1..Len(loggers) : l0 = m_log_map[key[c]]
      BY <2>1
    <2>3. PICK g \in Logger : g = loggers[l0]
      BY <1>0
    <2>4. PICK v : v = arg[c]
      OBVIOUS
    <2>5. loggers'[l0].format = g.format /\ (g.format = "CSV" => loggers'[l0] = g)
      BY <2>1, <2>2, <2>3, <2>4, LevelSetFields
    <2> QED
      BY <2>1, <2>2, <2>3, <2>5, LoggersKept
  <1>4. ASSUME NEW c \in Callers, SetExpiredOf(c) PROVE LoggerInv'
    <2>1. /\ Len(loggers') = Len(loggers) /\ m_log_map[key[c]] \in 1..Len(loggers)
          /\ loggers'[m_log_map[key[c]]] = ExpiredSet(loggers[m_log_map[key[c]]], arg[c])
          /\ \A l \in 1..Len(loggers) : l # m_log_map[key[c]] => loggers'[l] = loggers[l]
      BY <1>4, SetExpiredOfBase
    <2>2. PICK l0 \in 1..Len(loggers) : l0 = m_log_map[key[c]]
      BY <2>1
    <2>3. PICK g \in Logger : g = loggers[l0]
      BY <1>0
    <2>4. loggers'[l0] = [g EXCEPT !.expired = arg[c]]
      BY <2>1, <2>2, <2>3 DEF ExpiredSet
    <2>5. /\ loggers'[l0].format = g.format /\ loggers'[l0].level = g.level
          /\ loggers'[l0].filter = g.filter
      BY <2>4 DEF Logger
    <2> QED
      BY <2>1, <2>2, <2>3, <2>5, LoggersKept
  <1>5. ASSUME NEW k \in 1..MaxLoggers, RotateLogger(k) PROVE LoggerInv'
    <2>1. /\ Len(loggers') = Len(loggers) /\ loggers[k].format = "File"
          /\ loggers'[k].format = loggers[k].format
          /\ \A i \in 1..Len(loggers) : i # k => loggers'[i] = loggers[i]
      BY <1>5, RotateLoggerBase
    <2> QED
      BY <2>1, LoggersKept
  <1>6. ASSUME NEW c \in Callers,
               \/ \E n \in Names, f \in Formats : GetCall(c, n, f)
               \/ GetFind(c) \/ GetInsert(c) \/ GetInserted(c) \/ SetLevelRead(c)
               \/ \E word \in Words : SetLevel(c, word)
               \/ \E minutes \in MinutesAsked : SetExpired(c, minutes)
        PROVE  LoggerInv'
    <2>1. loggers' = loggers
      BY <1>6 DEF GetCall, GetFind, GetInsert, GetInserted, SetLevelRead, SetLevel, SetExpired
    <2> QED
      BY <1>1, <2>1
  <1>7. ASSUME ReadsTornMap \/ UNCHANGED registryVars PROVE LoggerInv'
    BY <1>1, <1>7 DEF ReadsTornMap, registryVars
  <1> QED
    BY <1>2, <1>3, <1>4, <1>5, <1>6, <1>7 DEF RegistryNext

LEMMA SettingUnmoved ==
    ASSUME SettingInv,
           UNCHANGED <<m_log_map, m_log_level, loggers, at, key, mine, arg, overlap, seen,
                       wanted, reopened>>
    PROVE  SettingInv'
  <1> QED
    BY DEF SettingInv, WalkInv, Right, HandedOn, Registered, Setting, Getting, Names

LEMMA RegistryNextSetting ==
    ASSUME BaseInv, LoggerInv, SettingInv, [RegistryNext]_registryVars
    PROVE  SettingInv'
  <1>1. ASSUME ReadsTornMap \/ UNCHANGED registryVars PROVE SettingInv'
    <2>1. UNCHANGED <<m_log_map, m_log_level, loggers, at, key, mine, arg, overlap, seen,
                      wanted, reopened>>
      BY <1>1 DEF ReadsTornMap, registryVars, callVars, pastVars
    <2> QED
      BY <2>1, SettingUnmoved
  <1>2. ASSUME RegistryNext, ~ReadsTornMap PROVE SettingInv'
    <2>1. SettingInv' <=> \A s \in DOMAIN Setting : ~overlap'[s] => WalkInv(s)'
      BY DEF SettingInv, Setting
    <2>2. SUFFICES ASSUME NEW s \in DOMAIN Setting, ~overlap'[s] PROVE WalkInv(s)'
      BY <2>1
    <2>3. ASSUME NEW c \in Callers, NEW n \in Names, NEW f \in Formats, GetCall(c, n, f)
          PROVE  WalkInv(s)'
      BY <2>2, <2>3, GetCallSetting
    <2>4. ASSUME NEW c \in Callers, GetFind(c) PROVE WalkInv(s)'
      BY <2>2, <2>4, GetFindSetting
    <2>5. ASSUME NEW c \in Callers, GetMake(c) PROVE WalkInv(s)'
      BY <2>2, <2>5, GetMakeSetting
    <2>6. ASSUME NEW c \in Callers, GetInsert(c) PROVE WalkInv(s)'
      BY <2>2, <2>6, GetInsertSetting
    <2>7. ASSUME NEW c \in Callers, GetInserted(c) PROVE WalkInv(s)'
      BY <2>2, <2>7, GetInsertedSetting
    <2>8. ASSUME NEW c \in Callers, NEW word \in Words, SetLevel(c, word) PROVE WalkInv(s)'
      BY <2>2, <2>8, SetLevelSetting
    <2>9. ASSUME NEW c \in Callers, SetLevelRead(c) PROVE WalkInv(s)'
      BY <2>2, <2>9, SetLevelReadSetting
    <2>10. ASSUME NEW c \in Callers, SetLevelOf(c) PROVE WalkInv(s)'
      BY <2>2, <2>10, SetLevelOfSetting
    <2>11. ASSUME NEW c \in Callers, NEW minutes \in MinutesAsked, SetExpired(c, minutes)
           PROVE  WalkInv(s)'
      BY <2>2, <2>11, SetExpiredSetting
    <2>12. ASSUME NEW c \in Callers, SetExpiredOf(c) PROVE WalkInv(s)'
      BY <2>2, <2>12, SetExpiredOfSetting
    <2>13. ASSUME NEW l \in 1..MaxLoggers, RotateLogger(l) PROVE WalkInv(s)'
      BY <2>2, <2>13, RotateLoggerSetting
    <2> QED
      BY <1>2, <2>3, <2>4, <2>5, <2>6, <2>7, <2>8, <2>9, <2>10, <2>11, <2>12, <2>13
      DEF RegistryNext
  <1> QED
    BY <1>1, <1>2

LEMMA RegistryInitSetting == RegistryInit => LoggerInv /\ SettingInv
  <1> SUFFICES ASSUME RegistryInit PROVE LoggerInv /\ SettingInv
    OBVIOUS
  <1>1. /\ m_log_map = [n \in Names |-> Absent] /\ loggers = <<>>
        /\ at = [c \in Callers |-> "out"] /\ mine = [c \in Callers |-> Absent]
    BY DEF RegistryInit
  <1>2. LoggerInv
    BY <1>1 DEF LoggerInv
  <1>3. ASSUME NEW s \in DOMAIN Setting PROVE WalkInv(s)
    <2>1. \A c \in Callers : at[c] \notin Setting[s]
      BY <1>1, RegistryConstants DEF Walking
    <2> QED
      BY <1>1, <2>1 DEF WalkInv
  <1> QED
    BY <1>2, <1>3 DEF SettingInv

\* When all calls have returned, the settings are where SettingsReach says.
LEMMA RightReaches ==
    ASSUME BaseInv, SettingInv, \A c \in Callers : at[c] = "out"
    PROVE  SettingsReach
  <1>1. ASSUME NEW s \in DOMAIN Setting, NEW l \in Registered, ~overlap[s] PROVE Right(s, l)
    <2>1. PICK n \in Names : l = m_log_map[n]
      BY DEF Registered
    <2>2. m_log_map[n] # Absent
      BY <2>1 DEF Registered
    <2>3. \A c \in Callers : at[c] \notin Setting[s]
      BY RegistryConstants DEF Walking
    <2>4. WalkInv(s)
      BY <1>1 DEF SettingInv
    <2>5. \A c \in Callers : at[c] \in Setting[s] => n < key[c]
      BY <2>3
    <2> QED
      BY <2>1, <2>2, <2>4, <2>5 DEF WalkInv
  <1> SUFFICES ASSUME NEW l \in Registered
               PROVE  LET g == loggers[l] IN
                      /\ ~overlap.level =>
                           get_level(g) = (IF g.format = "File" \/ (g.format = "Sqlite" /\ l \in seen.level)
                                           THEN m_log_level ELSE log_level["ALL"])
                      /\ ~overlap.level =>
                           g.filter \in {get_level(g)} \cup {Own : k \in {l} \cap reopened}
                      /\ ~overlap.expired =>
                           get_expired(g) = (IF l \in seen.expired THEN wanted
                                             ELSE DefaultExpired(g.format))
    BY DEF SettingsReach
  <1>2. "level" \in DOMAIN Setting /\ "expired" \in DOMAIN Setting
    BY RegistryConstants
  <1>3. ASSUME ~overlap.level
        PROVE  /\ get_level(loggers[l]) =
                     (IF loggers[l].format = "File" \/ (loggers[l].format = "Sqlite" /\ l \in seen.level)
                      THEN m_log_level ELSE log_level["ALL"])
               /\ loggers[l].filter \in {get_level(loggers[l])} \cup {Own : k \in {l} \cap reopened}
    <2>1. Right("level", l)
      BY <1>1, <1>2, <1>3
    <2> QED
      BY <2>1 DEF Right, get_level
  <1>4. ASSUME ~overlap.expired
        PROVE  get_expired(loggers[l]) =
                   (IF l \in seen.expired THEN wanted ELSE DefaultExpired(loggers[l].format))
    <2>1. Right("expired", l)
      BY <1>1, <1>2, <1>4
    <2> QED
      BY <2>1 DEF Right, get_expired
  <1> QED
    BY <1>3, <1>4

\* The settings reach the loggers that SettingsReach says, unless a call of
\* get_logger() or another call of the same setter came in between.
THEOREM SpecSettingsReach == RegistrySpec => []SettingsReach
  <1> DEFINE Inv == BaseInv /\ LoggerInv /\ SettingInv
  <1>1. RegistryInit => Inv
    BY RegistryInitBase, RegistryInitSetting
  <1>2. Inv /\ [RegistryNext]_registryVars => Inv'
    BY RegistryNextBase, RegistryNextLogger, RegistryNextSetting
  <1>3. Inv => SettingsReach
    <2>1. (\A c \in Callers : at[c] = "out") \/ SettingsReach
      BY DEF SettingsReach
    <2> QED
      BY <2>1, RightReaches
  <1> HIDE DEF Inv
  <1> QED
    BY <1>1, <1>2, <1>3, PTL DEF RegistrySpec

-----------------------------------------------------------------------------
(***************************************************************************)
(* CsvRetention.  A file that is listed and was not written since, while   *)
(* the clock was not set back, has been idle since the time in its         *)
(* file_info, modulo Width, and time_now was read after that.              *)
(***************************************************************************)
AgeInv ==
    /\ phase = "out" => fileArray = {}
    /\ \A e \in Entries \ setBack : mtime[e] + idle[e] = clock
    /\ \A f \in fileArray :
          /\ IsListed(f.name, "log") /\ f.name \notin unread
          /\ f.name \in there \ fresh => f.time_write = U32(mtime[f.name])
          /\ phase = "removing" /\ f.name \in there \ (fresh \cup setBack) =>
                \E time \in mtime[f.name] .. clock : time_now = U32(time)

LEMMA CsvConstants ==
    /\ Width \in Nat \ {0} /\ SecPerMinute \in Nat /\ LogExpired \in Nat /\ Minutes \subseteq Nat
    /\ MaxSteps \in Nat
    /\ \A e \in Entries : Kind[e] \in {"file", "directory"}
  <1> QED
    BY CsvRetentionAssumption

\* What a uint32_t holds.
LEMMA Wraps ==
    \A n \in Int : /\ U32(n) \in 0 .. Width - 1
                   /\ \E k \in Int : n = Width * k + U32(n)
                   /\ n \in 0 .. Width - 1 => U32(n) = n
  <1> SUFFICES ASSUME NEW n \in Int
               PROVE  /\ U32(n) \in 0 .. Width - 1
                      /\ \E k \in Int : n = Width * k + U32(n)
                      /\ n \in 0 .. Width - 1 => U32(n) = n
    OBVIOUS
  <1>0. Width \in Nat /\ Width > 0
    BY CsvConstants
  <1>1. n % Width \in 0 .. Width - 1
    BY <1>0
  <1>2. n = Width * (n \div Width) + (n % Width) /\ (n \div Width) \in Int
    BY <1>0
  <1>3. n \in 0 .. Width - 1 => n % Width = n
    BY <1>0
  <1> QED
    BY <1>1, <1>2, <1>3 DEF U32

\* The difference of two times that wrap is never more than that of the times.
LEMMA AgeBound ==
    ASSUME NEW a \in Nat, NEW b \in Nat, b <= a
    PROVE  U32(U32(a) - U32(b)) <= a - b
  <1>0. Width \in Nat /\ Width > 0
    BY CsvConstants
  <1>1. PICK i \in Int : a = Width * i + U32(a)
    BY Wraps
  <1>2. PICK j \in Int : b = Width * j + U32(b)
    BY Wraps
  <1>3. U32(a) \in Int /\ U32(b) \in Int
    BY Wraps
  <1>4. PICK k \in Int : U32(a) - U32(b) = Width * k + U32(U32(a) - U32(b))
    BY <1>3, Wraps
  <1>5. U32(U32(a) - U32(b)) \in 0 .. Width - 1
    BY <1>3, Wraps
  <1> DEFINE x == U32(U32(a) - U32(b))
             q == i - j + k
  <1>6. q \in Int /\ x \in Int /\ 0 <= x /\ x < Width
    BY <1>0, <1>5
  <1>7. a - b = Width * q + x
    <2>1. a - b = Width * i - Width * j + (U32(a) - U32(b))
      BY <1>0, <1>1, <1>2, <1>3
    <2>2. a - b = Width * i - Width * j + Width * k + x
      BY <1>0, <1>3, <1>4, <1>6, <2>1
    <2>3. Width * q = Width * i - Width * j + Width * k
      BY <1>0
    <2> QED
      BY <1>0, <1>6, <2>2, <2>3
  <1> HIDE DEF x, q
  <1>8. q >= 0
    <2> SUFFICES ASSUME q <= -1 PROVE FALSE
      BY <1>6
    <2>1. Width * q <= -Width
      BY <1>0, <1>6
    <2> QED
      BY <1>0, <1>6, <1>7, <2>1
  <1>9. Width * q >= 0
    BY <1>0, <1>6, <1>8
  <1>10. Width * q \in Int
    BY <1>0, <1>6
  <1> QED
    BY <1>6, <1>7, <1>9, <1>10 DEF x

\* What was removed last, as RemovedWereIdle has it.
IdleInv ==
    \A r \in removed :
        /\ r.name \in Entries /\ IsListed(r.name, "log")
        /\ r.idle > r.limit \/ r.stale \/ r.limit >= Width

CsvInv == CsvRetentionTypeOK /\ AgeInv /\ IdleInv

LEMMA CsvInitInv == CsvRetentionInit => CsvInv
  <1> SUFFICES ASSUME CsvRetentionInit PROVE CsvInv
    OBVIOUS
  <1>0. 0 \in 0 .. Width - 1 /\ 0 \in 0..MaxSteps
    BY CsvConstants
  <1>1. CsvRetentionTypeOK
    BY <1>0, CsvConstants DEF CsvRetentionInit, CsvRetentionTypeOK
  <1>2. AgeInv /\ IdleInv
    BY DEF CsvRetentionInit, AgeInv, IdleInv
  <1> QED
    BY <1>1, <1>2 DEF CsvInv

LEMMA CsvNextType == CsvRetentionTypeOK /\ [CsvRetentionNext]_csvRetentionVars => CsvRetentionTypeOK'
  <1> SUFFICES ASSUME CsvRetentionTypeOK, [CsvRetentionNext]_csvRetentionVars
               PROVE  CsvRetentionTypeOK'
    OBVIOUS
  <1> USE DEF CsvRetentionTypeOK, csvClearVars, csvPastVars
  <1>0. MaxSteps \in Nat
    BY CsvConstants
  <1>1. ASSUME NEW minutes \in Minutes, CsvSetExpired(minutes)
        PROVE  CsvRetentionTypeOK'
    <2>1. U32(minutes) \in 0 .. Width - 1
      BY CsvConstants, Wraps
    <2>2. U32(minutes) \in Nat
      BY <2>1, CsvConstants
    <2> QED
      BY <1>1, <2>2 DEF CsvSetExpired
  <1>2. CASE ClockAdvances
    <2>1. moves + 1 \in 0..MaxSteps
      BY <1>0, <1>2 DEF ClockAdvances
    <2> QED
      BY <1>2, <2>1 DEF ClockAdvances
  <1>3. CASE ClockSetBack
    <2>1. moves + 1 \in 0..MaxSteps /\ clock - 1 \in Nat
      BY <1>0, <1>3 DEF ClockSetBack
    <2> QED
      BY <1>3, <2>1 DEF ClockSetBack
  <1>4. ASSUME NEW e \in Entries, WriteEntry(e)
        PROVE  CsvRetentionTypeOK'
    <2>1. mtime' \in [Entries -> Nat] /\ idle' \in [Entries -> Nat]
      BY <1>4 DEF WriteEntry
    <2>2. fresh' \subseteq Entries
      BY <1>4 DEF WriteEntry
    <2> QED
      BY <1>4, <2>1, <2>2 DEF WriteEntry
  <1>5. ASSUME NEW e \in Entries, RenameAway(e)
        PROVE  CsvRetentionTypeOK'
    BY <1>5 DEF RenameAway
  <1>6. CASE ListBegin
    BY <1>6 DEF ListBegin
  <1>7. ASSUME NEW e \in Entries, ListEntry(e)
        PROVE  CsvRetentionTypeOK'
    <2>1. fileArray' \subseteq FileInfo /\ fresh' \subseteq Entries
      <3>1. CASE IsListed(e, "log")
        <4>1. PICK time \in IF e \in there THEN {mtime[e]} ELSE 0 .. Width - 1 :
                  fileArray' = fileArray \cup {file_info(e, time)}
          BY <1>7, <3>1 DEF ListEntry
        <4>2. time \in Int
          BY <4>1
        <4>3. file_info(e, time) \in FileInfo
          BY <4>2, Wraps DEF file_info, FileInfo
        <4> QED
          BY <1>7, <3>1, <4>1, <4>3 DEF ListEntry
      <3>2. CASE ~IsListed(e, "log")
        BY <1>7, <3>2 DEF ListEntry
      <3> QED
        BY <3>1, <3>2
    <2> QED
      BY <1>7, <2>1 DEF ListEntry
  <1>8. CASE ListEnd
    <2>1. U32(clock) \in 0 .. Width - 1
      BY Wraps
    <2> QED
      BY <1>8, <2>1 DEF ListEnd
  <1>9. ASSUME NEW f \in fileArray, RemoveOld(f)
        PROVE  CsvRetentionTypeOK'
    <2>1. m_LogExpired * SecPerMinute \in Nat
      BY CsvConstants
    <2>2. PICK gone : /\ gone \subseteq there
                      /\ there' = there \ gone
                      /\ removed' = {[name  |-> e, idle |-> idle[e],
                                      limit |-> m_LogExpired * SecPerMinute,
                                      stale |-> e \in setBack \cup fresh] : e \in gone}
      BY <1>9 DEF RemoveOld
    <2>3. \A e \in gone : idle[e] \in Nat /\ e \in Entries
      BY <2>2
    <2>4. removed' \subseteq [name : Entries, idle : Nat, limit : Nat, stale : BOOLEAN]
      <3> SUFFICES ASSUME NEW e \in gone
                   PROVE  [name  |-> e, idle |-> idle[e],
                           limit |-> m_LogExpired * SecPerMinute,
                           stale |-> e \in setBack \cup fresh]
                              \in [name : Entries, idle : Nat, limit : Nat, stale : BOOLEAN]
        BY <2>2
      <3>1. (e \in setBack \cup fresh) \in BOOLEAN
        OBVIOUS
      <3> QED
        BY <2>1, <2>3, <3>1
    <2> QED
      BY <1>9, <2>2, <2>4 DEF RemoveOld
  <1>10. CASE RemoveEnd
    BY <1>10 DEF RemoveEnd
  <1>11. CASE UNCHANGED csvRetentionVars
    BY <1>11 DEF csvRetentionVars
  <1> QED
    BY <1>1, <1>2, <1>3, <1>4, <1>5, <1>6, <1>7, <1>8, <1>9, <1>10, <1>11
       DEF CsvRetentionNext

LEMMA CsvNextAge ==
    CsvRetentionTypeOK /\ AgeInv /\ [CsvRetentionNext]_csvRetentionVars => AgeInv'
  <1> SUFFICES ASSUME CsvRetentionTypeOK, AgeInv, [CsvRetentionNext]_csvRetentionVars
               PROVE  AgeInv'
    OBVIOUS
  <1>0. /\ clock \in Nat /\ mtime \in [Entries -> Nat] /\ idle \in [Entries -> Nat]
        /\ \A f \in fileArray : f.name \in Entries
        /\ there \subseteq Entries /\ fresh \subseteq Entries
    BY DEF CsvRetentionTypeOK, FileInfo
  <1>1. ASSUME NEW minutes \in Minutes, CsvSetExpired(minutes)
        PROVE  AgeInv'
    BY <1>1 DEF CsvSetExpired, AgeInv, csvClearVars, csvPastVars
  <1>2. CASE ClockAdvances
    <2>1. /\ clock' = clock + 1 /\ idle' = [e \in Entries |-> idle[e] + 1]
          /\ UNCHANGED <<phase, unread, fileArray, mtime, there, fresh, setBack, time_now>>
      BY <1>2 DEF ClockAdvances, csvClearVars
    <2>2. \A e \in Entries \ setBack : mtime[e] + idle'[e] = clock'
      BY <1>0, <2>1 DEF AgeInv
    <2>3. \A e \in Entries : mtime[e] .. clock \subseteq mtime[e] .. clock'
      BY <1>0, <2>1
    <2> QED
      BY <1>0, <2>1, <2>2, <2>3 DEF AgeInv
  <1>3. CASE ClockSetBack
    BY <1>0, <1>3 DEF ClockSetBack, AgeInv, csvClearVars
  <1>4. ASSUME NEW e \in Entries, WriteEntry(e)
        PROVE  AgeInv'
    <2>1. /\ there' = there \cup {e} /\ setBack' = setBack \ {e}
          /\ mtime' = [mtime EXCEPT ![e] = clock] /\ idle' = [idle EXCEPT ![e] = 0]
          /\ fresh' = IF phase = "out" THEN {} ELSE fresh \cup {e}
          /\ UNCHANGED <<clock, phase, unread, fileArray, time_now>>
      BY <1>4 DEF WriteEntry, csvClearVars
    <2>2. ASSUME NEW d \in Entries \ setBack'
          PROVE  mtime'[d] + idle'[d] = clock
      <3>1. CASE d = e
        BY <1>0, <2>1, <3>1
      <3>2. CASE d # e
        BY <1>0, <2>1, <3>2 DEF AgeInv
      <3> QED
        BY <3>1, <3>2
    <2>3. CASE phase = "out"
      BY <2>1, <2>2, <2>3 DEF AgeInv
    <2>4. CASE phase # "out"
      <3>1. \A d \in Entries : d \notin fresh' =>
                d \notin fresh /\ d # e /\ mtime'[d] = mtime[d]
        BY <1>0, <2>1, <2>4
      <3>2. \A d \in there' \ fresh' : d \in there
        BY <2>1, <2>4
      <3>3. \A d \in there' \ (fresh' \cup setBack') : d \notin setBack
        BY <2>1, <2>4
      <3> QED
        BY <1>0, <2>1, <2>2, <2>4, <3>1, <3>2, <3>3 DEF AgeInv
    <2> QED
      BY <2>3, <2>4
  <1>5. ASSUME NEW e \in Entries, RenameAway(e)
        PROVE  AgeInv'
    BY <1>0, <1>5 DEF RenameAway, AgeInv, csvClearVars, csvPastVars
  <1>6. CASE ListBegin
    BY <1>0, <1>6 DEF ListBegin, AgeInv, csvPastVars
  <1>7. ASSUME NEW e \in Entries, ListEntry(e)
        PROVE  AgeInv'
    <2>1. /\ phase = "listing" /\ e \in unread /\ unread' = unread \ {e}
          /\ UNCHANGED <<clock, phase, there, mtime, idle, setBack>>
      BY <1>7 DEF ListEntry
    <2>2. CASE IsListed(e, "log")
      <3>1. PICK time \in IF e \in there THEN {mtime[e]} ELSE 0 .. Width - 1 :
                fileArray' = fileArray \cup {file_info(e, time)}
        BY <1>7, <2>2 DEF ListEntry
      <3>2. /\ file_info(e, time).name = e
            /\ e \in there => file_info(e, time).time_write = U32(mtime[e])
        BY <3>1 DEF file_info
      <3>3. fresh' = fresh \ {e}
        BY <1>7, <2>2 DEF ListEntry
      <3> SUFFICES ASSUME NEW f \in fileArray'
                   PROVE  /\ IsListed(f.name, "log") /\ f.name \notin unread'
                          /\ f.name \in there \ fresh' => f.time_write = U32(mtime[f.name])
        BY <2>1 DEF AgeInv
      <3>4. CASE f = file_info(e, time)
        BY <2>1, <2>2, <3>2, <3>4
      <3>5. CASE f \in fileArray
        <4>1. f.name # e
          BY <2>1, <3>5 DEF AgeInv
        <4> QED
          BY <2>1, <3>3, <3>5, <4>1 DEF AgeInv
      <3> QED
        BY <3>1, <3>4, <3>5
    <2>3. CASE ~IsListed(e, "log")
      BY <1>7, <2>1, <2>3 DEF ListEntry, AgeInv
    <2> QED
      BY <2>2, <2>3
  <1>8. CASE ListEnd
    <2>1. /\ phase' = "removing" /\ time_now' = U32(clock)
          /\ UNCHANGED <<clock, unread, fileArray, there, mtime, idle, fresh, setBack>>
      BY <1>8 DEF ListEnd, csvPastVars
    <2>2. \A e \in Entries \ setBack : clock \in mtime[e] .. clock
      BY <1>0 DEF AgeInv
    <2> QED
      BY <1>0, <2>1, <2>2 DEF AgeInv
  <1>9. ASSUME NEW f \in fileArray, RemoveOld(f)
        PROVE  AgeInv'
    BY <1>0, <1>9 DEF RemoveOld, AgeInv, csvPastVars
  <1>10. CASE RemoveEnd
    BY <1>0, <1>10 DEF RemoveEnd, AgeInv, csvPastVars
  <1>11. CASE UNCHANGED csvRetentionVars
    BY <1>11 DEF csvRetentionVars, csvClearVars, csvPastVars, AgeInv
  <1> QED
    BY <1>1, <1>2, <1>3, <1>4, <1>5, <1>6, <1>7, <1>8, <1>9, <1>10, <1>11
       DEF CsvRetentionNext

LEMMA CsvNextIdle ==
    CsvInv /\ [CsvRetentionNext]_csvRetentionVars => IdleInv'
  <1> SUFFICES ASSUME CsvInv, [CsvRetentionNext]_csvRetentionVars PROVE IdleInv'
    OBVIOUS
  <1>1. CASE removed' \in {{}, removed}
    BY <1>1 DEF CsvInv, IdleInv
  <1>2. ASSUME NEW f \in fileArray, RemoveOld(f)
        PROVE  IdleInv'
    <2> DEFINE e == f.name
               limit == m_LogExpired * SecPerMinute
    <2>1. /\ phase = "removing"
          /\ removed' = {[name  |-> d, idle |-> idle[d], limit |-> limit,
                          stale |-> d \in setBack \cup fresh] :
                              d \in {e} \cap {d \in there : IsOld(f)}}
      BY <1>2 DEF RemoveOld
    <2>2. /\ e \in Entries /\ IsListed(e, "log")
          /\ clock \in Nat /\ mtime[e] \in Nat /\ idle[e] \in Nat /\ limit \in Nat
      BY CsvConstants DEF CsvInv, CsvRetentionTypeOK, FileInfo, AgeInv
    <2>3. ASSUME IsOld(f), e \in there, e \notin setBack \cup fresh, limit < Width
          PROVE  idle[e] > limit
      <3>1. f.time_write = U32(mtime[e]) /\ mtime[e] + idle[e] = clock
        BY <2>2, <2>3 DEF CsvInv, AgeInv
      <3>2. PICK time \in mtime[e] .. clock : time_now = U32(time)
        BY <2>1, <2>2, <2>3 DEF CsvInv, AgeInv
      <3>3. time \in Nat /\ mtime[e] <= time /\ time <= clock
        BY <2>2, <3>2
      <3>4. U32(limit) = limit
        BY <2>2, <2>3, CsvConstants, Wraps
      <3>5. U32(U32(time) - U32(mtime[e])) > limit
        BY <2>3, <3>1, <3>2, <3>4 DEF IsOld
      <3>6. U32(U32(time) - U32(mtime[e])) <= time - mtime[e]
        BY <2>2, <3>3, AgeBound
      <3>7. U32(time) \in Int /\ U32(mtime[e]) \in Int
        BY <2>2, <3>3, Wraps
      <3>8. U32(U32(time) - U32(mtime[e])) \in Int
        BY <3>7, Wraps
      <3> HIDE DEF limit, e
      <3> QED
        BY <2>2, <3>1, <3>3, <3>5, <3>6, <3>8
    <2> HIDE DEF limit, e
    <2> SUFFICES ASSUME NEW r \in removed'
                 PROVE  /\ r.name \in Entries /\ IsListed(r.name, "log")
                        /\ r.idle > r.limit \/ r.stale \/ r.limit >= Width
      BY DEF IdleInv
    <2>4. /\ IsOld(f) /\ e \in there
          /\ r.name = e /\ r.idle = idle[e] /\ r.limit = limit
          /\ r.stale <=> e \in setBack \cup fresh
      <3>1. /\ IsOld(f) /\ e \in there
            /\ r = [name |-> e, idle |-> idle[e], limit |-> limit,
                    stale |-> e \in setBack \cup fresh]
        BY <2>1
      <3> QED
        BY <3>1
    <2>5. limit < Width \/ limit >= Width
      BY <2>2, CsvConstants
    <2> QED
      BY <2>2, <2>3, <2>4, <2>5
  <1> QED
    BY <1>1, <1>2
       DEF CsvRetentionNext, CsvSetExpired, ClockAdvances, ClockSetBack, WriteEntry, RenameAway,
           ListBegin, ListEntry, ListEnd, RemoveEnd, csvRetentionVars, csvClearVars

LEMMA CsvSpecInv == CsvRetentionSpec => []CsvInv
  <1>1. CsvInv /\ [CsvRetentionNext]_csvRetentionVars => CsvInv'
    BY CsvNextType, CsvNextAge, CsvNextIdle DEF CsvInv
  <1> QED
    BY <1>1, CsvInitInv, PTL DEF CsvRetentionSpec

\* clear_expired_log() of csv_log removes no CSV file, and nothing that has not
\* been idle for its limit, unless the clock was set back since it was written,
\* the limit wraps, or it was written or made since its stat().
THEOREM SpecRemovedWereIdle == CsvRetentionSpec => []RemovedWereIdle
  <1>1. CsvInv => RemovedWereIdle
    <2> SUFFICES ASSUME CsvInv, NEW r \in removed
                 PROVE  /\ ExtensionOf(r.name) # "csv"
                        /\ r.name \in Typed => Kind[r.name] = "file"
                        /\ r.idle > r.limit \/ r.stale \/ r.limit >= Width
      BY DEF RemovedWereIdle
    <2> QED
      BY CsvConstants DEF CsvInv, IdleInv, IsListed
  <1> QED
    BY <1>1, CsvSpecInv, PTL

-----------------------------------------------------------------------------
(***************************************************************************)
(* CondSleep.  A call of sleep() has counted its milliseconds from         *)
(* msCondStart, the clock rounded down to one.                             *)
(***************************************************************************)
LEMMA CondSleepConstants ==
    /\ TicksPerMs \in Nat /\ TicksPerMs > 0 /\ LogInterval \in Nat
    /\ Spans \subseteq Nat /\ Intervals \subseteq Nat
    /\ MaxFunc \in Nat /\ MaxLate \in Nat /\ MaxSet \in Nat /\ MaxFuncCalls \in Nat
  <1> QED
    BY CondSleepAssumption

\* The whole milliseconds in so many ticks.
Ms(t) == t \div TicksPerMs

LEMMA MsFacts ==
    /\ \A t \in Nat : Ms(t) \in Nat /\ Ms(t) * TicksPerMs <= t
    /\ \A t \in Nat : t < TicksPerMs => Ms(t) = 0
    /\ \A t, d \in Nat : Ms(t) <= Ms(t + d)
    /\ \A t, n \in Nat : Ms(t + n * TicksPerMs) = Ms(t) + n
  <1>0. TicksPerMs \in Nat /\ TicksPerMs > 0
    BY CondSleepConstants
  <1>1. ASSUME NEW t \in Nat
        PROVE  /\ Ms(t) \in Nat /\ Ms(t) * TicksPerMs <= t
               /\ t < TicksPerMs * (Ms(t) + 1)
    BY <1>0 DEF Ms
  <1>2. ASSUME NEW t \in Nat, NEW q \in Nat, q * TicksPerMs <= t
        PROVE  q <= Ms(t)
    <2>1. q * TicksPerMs < TicksPerMs * (Ms(t) + 1) /\ Ms(t) \in Nat
      BY <1>0, <1>1, <1>2
    <2>2. q >= Ms(t) + 1 => q * TicksPerMs >= TicksPerMs * (Ms(t) + 1)
      BY <1>0, <2>1
    <2>3. q < Ms(t) + 1
      BY <1>0, <2>1, <2>2
    <2> QED
      BY <2>1, <2>3
  <1>3. ASSUME NEW t \in Nat, t < TicksPerMs
        PROVE  Ms(t) = 0
    <2>1. Ms(t) \in Nat /\ Ms(t) * TicksPerMs < TicksPerMs
      BY <1>0, <1>1, <1>3
    <2>2. Ms(t) >= 1 => Ms(t) * TicksPerMs >= TicksPerMs
      BY <1>0, <2>1
    <2> QED
      BY <1>0, <2>1, <2>2
  <1>4. ASSUME NEW t \in Nat, NEW d \in Nat
        PROVE  Ms(t) <= Ms(t + d)
    BY <1>0, <1>1, <1>2
  <1>5. ASSUME NEW t \in Nat, NEW n \in Nat
        PROVE  Ms(t + n * TicksPerMs) = Ms(t) + n
    <2> DEFINE u == t + n * TicksPerMs
    <2>0. n * TicksPerMs \in Nat /\ u = t + n * TicksPerMs /\ u \in Nat
      BY <1>0
    <2> HIDE DEF u
    <2>1. u \in Nat /\ Ms(t) \in Nat /\ Ms(u) \in Nat
      BY <1>1, <2>0
    <2>2. (Ms(t) + n) * TicksPerMs = Ms(t) * TicksPerMs + n * TicksPerMs
      BY <1>0, <2>1
    <2>3. Ms(t) + n <= Ms(u)
      BY <1>0, <1>1, <1>2, <2>0, <2>1, <2>2
    <2>4. Ms(u) * TicksPerMs < TicksPerMs * (Ms(t) + 1) + n * TicksPerMs
      <3>1. Ms(u) * TicksPerMs <= u /\ t < TicksPerMs * (Ms(t) + 1)
        BY <1>1, <2>0
      <3>2. Ms(u) * TicksPerMs \in Int /\ TicksPerMs * (Ms(t) + 1) \in Int
        BY <1>0, <2>1
      <3> QED
        BY <2>0, <3>1, <3>2
    <2>5. TicksPerMs * (Ms(t) + 1) + n * TicksPerMs = (Ms(t) + 1 + n) * TicksPerMs
      BY <1>0, <2>1
    <2>6. Ms(u) >= Ms(t) + 1 + n => Ms(u) * TicksPerMs >= (Ms(t) + 1 + n) * TicksPerMs
      BY <1>0, <2>1
    <2>7. Ms(u) < Ms(t) + 1 + n
      BY <1>0, <2>1, <2>4, <2>5, <2>6
    <2> QED
      BY <2>1, <2>3, <2>7 DEF u
  <1> QED
    BY <1>1, <1>3, <1>4, <1>5

LEMMA CeilingBound ==
    ASSUME NEW n \in Nat, NEW i \in Nat, i > 0, NEW k \in Nat, k * i < n
    PROVE  k + 1 <= Ceiling(n, i)
  <1> DEFINE c == Ceiling(n, i)
  <1>1. c \in Nat /\ n + i - 1 < i * c + i
    BY DEF Ceiling
  <1> HIDE DEF c
  <1>2. k * i < i * c
    BY <1>1
  <1>3. c <= k => i * c <= k * i
    BY <1>1
  <1> QED
    BY <1>1, <1>2, <1>3 DEF c

-----------------------------------------------------------------------------
\* bt was read in this millisecond, and the clock has been set since in the
\* direction that set tells, if at all.
ClockInv ==
    /\ set = "no" => offset = 0
    /\ set = "forward" => offset >= 0
    /\ place = "out" => set = "no"
    /\ place \in {"out", "flush", "paced"} => funcCalls = 0
    /\ place = "flush" => bt = 0 /\ Ms(ticks) = 0 /\ set # "backAsleep"
    /\ place \in {"func", "sleep"} /\ set # "forward" => Ms(ticks) + offset <= bt
    /\ place = "func" /\ set # "back" => Ms(ticks) + offset >= bt

\* No more is charged than has passed.
LeftInv ==
    /\ place \in {"func", "test", "sleep", "returned"} /\ set # "forward" =>
          n_sleep - ns <= Ms(ticks)
    /\ place = "returned" /\ b_continue => ns <= 0

CallBound == IF n_sleep = 0 THEN 1 ELSE Ceiling(n_sleep, n_interval)

\* Each sleep is charged for an interval at least.
CountInv ==
    n_interval > 0 /\ set # "back" =>
        /\ place = "func" =>
              ns <= n_sleep - funcCalls * n_interval /\ (funcCalls = 0 \/ ns > 0)
        /\ place \in {"test", "sleep"} =>
              funcCalls >= 1 /\ ns <= n_sleep - (funcCalls - 1) * n_interval
        /\ funcCalls <= CallBound

PaceInv ==
    place = "paced" =>
        /\ ns > 1 /\ set = "no" => (ticks + ns * TicksPerMs) \div TicksPerMs = n_interval
        /\ ns > 1 /\ set # "back" => ns <= n_interval

SleepInv == CondSleepTypeOK /\ ClockInv /\ LeftInv /\ CountInv /\ PaceInv

LEMMA Timestamp ==
    \A t \in Nat : util_gettimestamp(t) = Ms(t) + offset
  <1> QED
    BY DEF util_gettimestamp, Ms

LEMMA SleepInitInv == CondSleepInit => SleepInv
  <1> SUFFICES ASSUME CondSleepInit PROVE SleepInv
    OBVIOUS
  <1>1. CondSleepTypeOK
    BY CondSleepConstants DEF CondSleepInit, CondSleepTypeOK
  <1>2. ClockInv /\ LeftInv /\ CountInv /\ PaceInv
    BY DEF CondSleepInit, ClockInv, LeftInv, CountInv, PaceInv, CallBound
  <1> QED
    BY <1>1, <1>2 DEF SleepInv

LEMMA SleepNextType ==
    CondSleepTypeOK /\ [CondSleepNext]_condSleepVars => CondSleepTypeOK'
  <1> SUFFICES ASSUME CondSleepTypeOK, [CondSleepNext]_condSleepVars PROVE CondSleepTypeOK'
    OBVIOUS
  <1> USE DEF CondSleepTypeOK
  <1>0. \A t \in Nat : util_gettimestamp(t) \in Int
    BY Timestamp, MsFacts
  <1>1. ASSUME NEW n \in Spans, NEW i \in Intervals, NEW tick \in 0 .. TicksPerMs - 1,
               SleepCall(n, i, tick)
        PROVE  CondSleepTypeOK'
    <2>1. n \in Nat /\ i \in Nat /\ tick \in Nat
      BY CondSleepConstants
    <2> QED
      BY <1>0, <1>1, <2>1 DEF SleepCall
  <1>2. ASSUME NEW by \in -MaxSet .. MaxSet, ClockIsSet(by)
        PROVE  CondSleepTypeOK'
    <2>1. set' \in {"no", "forward", "back", "backAsleep"}
      BY <1>2 DEF ClockIsSet
    <2> QED
      BY <1>2, <2>1 DEF ClockIsSet
  <1>3. ASSUME NEW d \in 0..MaxFunc, NEW again \in BOOLEAN, FuncReturns(d, again)
        PROVE  CondSleepTypeOK'
    <2>1. d \in Nat /\ ticks' \in Nat /\ funcCalls' \in 0..MaxFuncCalls
      BY <1>3, CondSleepConstants DEF FuncReturns
    <2>2. ns' \in Int
      BY <1>0, <1>3, <2>1 DEF FuncReturns
    <2> QED
      BY <1>3, <2>1, <2>2 DEF FuncReturns
  <1>4. CASE LoopTest
    BY <1>0, <1>4 DEF LoopTest
  <1>5. ASSUME NEW d \in 0..MaxLate, SleepReturns(d)
        PROVE  CondSleepTypeOK'
    <2>1. n_interval * TicksPerMs \in Nat /\ d \in Nat
      BY CondSleepConstants
    <2>2. ticks' \in Nat
      BY <1>5, <2>1 DEF SleepReturns
    <2>3. ns' \in Int /\ bt' \in Int
      BY <1>0, <1>5, <2>2 DEF SleepReturns, Charge
    <2> QED
      BY <1>5, <2>2, <2>3 DEF SleepReturns
  <1>6. ASSUME NEW msecs \in Intervals, set_interval(msecs)
        PROVE  CondSleepTypeOK'
    BY <1>6, CondSleepConstants DEF set_interval
  <1>7. ASSUME NEW tick \in 0 .. TicksPerMs - 1, RoundBegin(tick)
        PROVE  CondSleepTypeOK'
    <2>1. tick \in Nat
      BY CondSleepConstants
    <2> QED
      BY <1>0, <1>7, <2>1 DEF RoundBegin
  <1>8. ASSUME NEW d \in 0..MaxFunc, RoundEnd(d)
        PROVE  CondSleepTypeOK'
    <2>1. d \in Nat /\ ticks' \in Nat
      BY <1>8, CondSleepConstants DEF RoundEnd
    <2>2. ns' \in Int
      BY <1>0, <1>8, <2>1 DEF RoundEnd
    <2> QED
      BY <1>8, <2>1, <2>2 DEF RoundEnd
  <1>9. CASE UNCHANGED condSleepVars
    BY <1>9 DEF condSleepVars
  <1> QED
    BY <1>1, <1>2, <1>3, <1>4, <1>5, <1>6, <1>7, <1>8, <1>9 DEF CondSleepNext

LEMMA KeepsSleepCall ==
    ASSUME SleepInv, NEW n \in Spans, NEW i \in Intervals, NEW tick \in 0 .. TicksPerMs - 1,
           SleepCall(n, i, tick)
    PROVE  (ClockInv /\ LeftInv /\ CountInv /\ PaceInv)'
  <1>1. n \in Nat /\ i \in Nat /\ tick \in Nat /\ tick < TicksPerMs
    BY CondSleepConstants
  <1>2. /\ place = "out" /\ place' = "func" /\ n_sleep' = n /\ n_interval' = i /\ ns' = n
        /\ ticks' = tick /\ bt' = Ms(tick) + offset
        /\ UNCHANGED <<offset, set, funcCalls>>
    BY <1>1, Timestamp DEF SleepCall
  <1>3. set = "no" /\ offset = 0 /\ funcCalls = 0
    BY <1>2 DEF SleepInv, ClockInv
  <1>4. Ms(tick) = 0
    BY <1>1, MsFacts
  <1>5. ClockInv' /\ LeftInv' /\ PaceInv'
    BY <1>1, <1>2, <1>3, <1>4 DEF ClockInv, LeftInv, PaceInv
  <1>6. CountInv'
    <2>1. i > 0 => Ceiling(n, i) \in Nat
      BY <1>1 DEF Ceiling
    <2> QED
      BY <1>1, <1>2, <1>3, <2>1 DEF CountInv, CallBound, Ceiling
  <1> QED
    BY <1>5, <1>6

LEMMA KeepsClockIsSet ==
    ASSUME SleepInv, NEW by \in -MaxSet .. MaxSet, ClockIsSet(by)
    PROVE  (ClockInv /\ LeftInv /\ CountInv /\ PaceInv)'
  <1>1. /\ by \in Int /\ by # 0 /\ place \in {"func", "sleep", "flush"} /\ set = "no"
        /\ offset' = by
        /\ by > 0 => set' = "forward"
        /\ by < 0 /\ place = "sleep" => set' = "backAsleep"
        /\ by < 0 /\ place # "sleep" => set' = "back"
        /\ UNCHANGED <<n_sleep, n_interval, place, ns, bt, b_continue, ticks, funcCalls>>
    BY CondSleepConstants DEF ClockIsSet
  <1>2. /\ offset = 0 /\ ticks \in Nat /\ Ms(ticks) \in Nat /\ bt \in Int
    BY <1>1, MsFacts DEF SleepInv, ClockInv, CondSleepTypeOK
  <1>3. by > 0 \/ by < 0
    BY <1>1
  <1>4. ClockInv'
    BY <1>1, <1>2, <1>3 DEF SleepInv, ClockInv
  <1>5. LeftInv' /\ PaceInv'
    BY <1>1, <1>3 DEF SleepInv, LeftInv, PaceInv
  <1>6. CountInv'
    BY <1>1, <1>3 DEF SleepInv, CountInv, CallBound
  <1> QED
    BY <1>4, <1>5, <1>6

LEMMA KeepsFuncReturns ==
    ASSUME SleepInv, NEW d \in 0..MaxFunc, NEW again \in BOOLEAN, FuncReturns(d, again)
    PROVE  (ClockInv /\ LeftInv /\ CountInv /\ PaceInv)'
  <1>0. /\ d \in Nat /\ ticks \in Nat /\ ticks + d \in Nat
        /\ n_sleep \in Nat /\ n_interval \in Nat /\ ns \in Int /\ bt \in Int /\ offset \in Int
        /\ funcCalls \in Nat
    BY CondSleepConstants DEF SleepInv, CondSleepTypeOK
  <1>1. /\ place = "func" /\ place' = "test" /\ funcCalls' = funcCalls + 1
        /\ ticks' = ticks + d /\ ns' = ns - ((Ms(ticks + d) + offset) - bt)
        /\ UNCHANGED <<n_sleep, n_interval, offset, set>>
    BY DEF FuncReturns, util_gettimestamp, Ms
  <1>b. Ms(ticks) \in Nat /\ Ms(ticks + d) \in Nat /\ Ms(ticks) <= Ms(ticks + d)
    BY <1>0, MsFacts
  <1>2. /\ Ms(ticks) \in Nat /\ Ms(ticks + d) \in Nat /\ Ms(ticks) <= Ms(ticks + d)
        /\ n_sleep \in Nat /\ n_interval \in Nat /\ ns \in Int /\ bt \in Int /\ offset \in Int
        /\ funcCalls \in Nat
    BY <1>0, <1>b
  <1>3. ClockInv'
    BY <1>1 DEF SleepInv, ClockInv
  <1>4. LeftInv'
    <2>1. set # "forward" => n_sleep - ns <= Ms(ticks) /\ Ms(ticks) + offset <= bt
      BY <1>1 DEF SleepInv, ClockInv, LeftInv
    <2>2. set # "forward" => n_sleep - ns' <= Ms(ticks + d)
      <3> SUFFICES ASSUME set # "forward" PROVE n_sleep - ns' <= Ms(ticks + d)
        OBVIOUS
      <3>1. n_sleep - ns <= Ms(ticks) /\ Ms(ticks) + offset <= bt
        BY <2>1
      <3> QED
        BY <1>1, <1>2, <3>1
    <2> QED
      BY <1>1, <2>2 DEF LeftInv
  <1>5. CountInv'
    <2> SUFFICES ASSUME n_interval > 0, set # "back"
                 PROVE  /\ funcCalls' >= 1 /\ ns' <= n_sleep - (funcCalls' - 1) * n_interval
                        /\ funcCalls' <= CallBound
      BY <1>1 DEF CountInv, CallBound
    <2>1. /\ ns <= n_sleep - funcCalls * n_interval /\ (funcCalls = 0 \/ ns > 0)
          /\ Ms(ticks) + offset >= bt
      BY <1>1 DEF SleepInv, ClockInv, CountInv
    <2>2. ns' <= ns
      BY <1>1, <1>2, <2>1
    <2>3. funcCalls * n_interval \in Nat /\ funcCalls' - 1 = funcCalls /\ ns' \in Int
      BY <1>1, <1>2
    <2>4. ns' <= n_sleep - funcCalls * n_interval
      BY <1>2, <2>1, <2>2, <2>3
    <2>5. funcCalls + 1 <= CallBound
      <3>1. CASE n_sleep = 0
        <4>1. funcCalls = 0
          BY <1>2, <2>1, <2>3, <3>1
        <4> QED
          BY <3>1, <4>1 DEF CallBound
      <3>2. CASE n_sleep > 0
        <4>1. funcCalls * n_interval < n_sleep
          BY <1>2, <2>1, <2>3, <3>2
        <4> QED
          BY <1>2, <3>2, <4>1, CeilingBound DEF CallBound
      <3> QED
        BY <1>2, <3>1, <3>2
    <2> QED
      BY <1>1, <1>2, <2>3, <2>4, <2>5
  <1>6. PaceInv'
    BY <1>1 DEF PaceInv
  <1> QED
    BY <1>3, <1>4, <1>5, <1>6

LEMMA KeepsLoopTest == SleepInv /\ LoopTest => (ClockInv /\ LeftInv /\ CountInv /\ PaceInv)'
  <1> SUFFICES ASSUME SleepInv, LoopTest PROVE (ClockInv /\ LeftInv /\ CountInv /\ PaceInv)'
    OBVIOUS
  <1>1. /\ place = "test" /\ place' = IF b_continue /\ ns >= 0 THEN "sleep" ELSE "returned"
        /\ bt' = Ms(ticks) + offset /\ ticks \in Nat /\ Ms(ticks) \in Nat
        /\ UNCHANGED <<n_sleep, n_interval, ns, b_continue, ticks, offset, set, funcCalls>>
    BY Timestamp, MsFacts DEF LoopTest, SleepInv, CondSleepTypeOK
  <1>2. ns \in Int /\ offset \in Int
    BY CondSleepConstants DEF SleepInv, CondSleepTypeOK
  <1>3. place' = "sleep" \/ (place' = "returned" /\ (b_continue => ns < 0))
    <2>1. ns >= 0 \/ ns < 0
      BY <1>2
    <2>2. place' = IF b_continue /\ ns >= 0 THEN "sleep" ELSE "returned"
      BY <1>1
    <2> QED
      BY <2>1, <2>2, Zenon
  <1>4. ClockInv'
    BY <1>1, <1>2, <1>3 DEF SleepInv, ClockInv
  <1>5. LeftInv'
    BY <1>1, <1>2, <1>3 DEF SleepInv, LeftInv
  <1>6. CountInv' /\ PaceInv'
    BY <1>1, <1>3 DEF SleepInv, CountInv, PaceInv, CallBound
  <1> QED
    BY <1>4, <1>5, <1>6

LEMMA KeepsSleepReturns ==
    ASSUME SleepInv, NEW d \in 0..MaxLate, SleepReturns(d)
    PROVE  (ClockInv /\ LeftInv /\ CountInv /\ PaceInv)'
  <1> DEFINE t    == ticks + n_interval * TicksPerMs + d
             cost == (Ms(t) + offset) - bt
  <1>0. /\ d \in Nat /\ ticks \in Nat /\ n_interval \in Nat /\ n_sleep \in Nat
        /\ ns \in Int /\ bt \in Int /\ offset \in Int /\ funcCalls \in Nat
        /\ n_interval * TicksPerMs \in Nat /\ t \in Nat
    BY CondSleepConstants DEF SleepInv, CondSleepTypeOK
  <1>1. /\ place = "sleep" /\ ticks' = t
        /\ ns' = ns - Charge(cost)
        /\ place' = IF ns' <= 0 THEN "returned" ELSE "func"
        /\ bt' = Ms(t) + offset
        /\ UNCHANGED <<n_sleep, n_interval, b_continue, offset, set, funcCalls>>
    BY DEF SleepReturns, util_gettimestamp, Ms
  <1>2. Ms(ticks) \in Nat /\ Ms(t) \in Nat /\ Ms(ticks) + n_interval <= Ms(t)
    <2>1. ticks + n_interval * TicksPerMs \in Nat
      BY <1>0
    <2>2. Ms(ticks + n_interval * TicksPerMs) <= Ms(t)
      BY <1>0, <2>1, MsFacts
    <2>3. Ms(ticks + n_interval * TicksPerMs) = Ms(ticks) + n_interval
      BY <1>0, MsFacts
    <2> QED
      BY <1>0, <2>2, <2>3, MsFacts
  <1> HIDE DEF t
  <1>3. /\ Charge(cost) \in Int /\ Charge(cost) >= n_interval
        /\ Charge(cost) \in {cost, n_interval}
    BY <1>0, <1>2 DEF Charge
  <1>4. /\ ns' \in Int /\ place' \in {"returned", "func"}
        /\ place' = "returned" => ns' <= 0
        /\ place' = "func" => ns' > 0
    BY <1>0, <1>1, <1>3
  <1>5. ClockInv'
    BY <1>0, <1>1, <1>2, <1>4 DEF SleepInv, ClockInv
  <1>6. LeftInv'
    <2>1. set # "forward" => n_sleep - ns <= Ms(ticks) /\ Ms(ticks) + offset <= bt
      BY <1>1 DEF SleepInv, ClockInv, LeftInv
    <2>2. ASSUME set # "forward"
          PROVE  n_sleep - ns' <= Ms(t)
      <3>1. n_sleep - ns <= Ms(ticks) /\ Ms(ticks) + offset <= bt
        BY <2>1, <2>2
      <3>2. Charge(cost) <= Ms(t) - Ms(ticks)
        BY <1>0, <1>2, <1>3, <3>1
      <3> QED
        BY <1>0, <1>1, <1>2, <1>3, <3>1, <3>2
    <2> QED
      BY <1>1, <1>4, <2>2 DEF LeftInv
  <1>7. CountInv'
    <2> SUFFICES ASSUME n_interval > 0, set # "back"
                 PROVE  ns' <= n_sleep - funcCalls * n_interval /\ funcCalls <= CallBound
      BY <1>1, <1>4 DEF CountInv, CallBound
    <2>1. /\ funcCalls >= 1 /\ ns <= n_sleep - (funcCalls - 1) * n_interval
          /\ funcCalls <= CallBound
      BY <1>1 DEF SleepInv, CountInv
    <2>2. /\ (funcCalls - 1) * n_interval = funcCalls * n_interval - n_interval
          /\ funcCalls * n_interval \in Nat
      BY <1>0
    <2> HIDE DEF cost
    <2> QED
      BY <1>0, <1>1, <1>3, <2>1, <2>2
  <1>8. PaceInv'
    BY <1>1, <1>4 DEF PaceInv
  <1> QED
    BY <1>5, <1>6, <1>7, <1>8

LEMMA KeepsRoundBegin ==
    ASSUME SleepInv, NEW tick \in 0 .. TicksPerMs - 1, RoundBegin(tick)
    PROVE  (ClockInv /\ LeftInv /\ CountInv /\ PaceInv)'
  <1>1. tick \in Nat /\ tick < TicksPerMs
    BY CondSleepConstants
  <1>2. /\ place = "out" /\ place' = "flush" /\ ticks' = tick /\ bt' = Ms(tick) + offset
        /\ n_interval' = m_log_interval
        /\ UNCHANGED <<n_sleep, offset, set, funcCalls>>
    BY <1>1, Timestamp DEF RoundBegin
  <1>3. set = "no" /\ offset = 0 /\ funcCalls = 0 /\ Ms(tick) = 0
    BY <1>1, <1>2, MsFacts DEF SleepInv, ClockInv
  <1>4. ClockInv' /\ LeftInv' /\ PaceInv'
    BY <1>1, <1>2, <1>3 DEF ClockInv, LeftInv, PaceInv
  <1>5. CountInv'
    <2>1. m_log_interval \in Nat /\ n_sleep \in Nat
      BY DEF SleepInv, CondSleepTypeOK
    <2>2. m_log_interval > 0 => Ceiling(n_sleep, m_log_interval) \in Nat
      BY <2>1 DEF Ceiling
    <2> QED
      BY <1>2, <1>3, <2>1, <2>2 DEF CountInv, CallBound, Ceiling
  <1> QED
    BY <1>4, <1>5

LEMMA KeepsRoundEnd ==
    ASSUME SleepInv, NEW d \in 0..MaxFunc, RoundEnd(d)
    PROVE  (ClockInv /\ LeftInv /\ CountInv /\ PaceInv)'
  <1> DEFINE et == n_interval - ((Ms(ticks + d) + offset) - bt)
  <1>0. /\ d \in Nat /\ ticks \in Nat /\ ticks + d \in Nat /\ n_interval \in Nat
        /\ offset \in Int
    BY CondSleepConstants DEF SleepInv, CondSleepTypeOK
  <1>a. Ms(ticks + d) \in Nat
    BY <1>0, MsFacts
  <1>1. /\ place = "flush" /\ place' = "paced" /\ ticks' = ticks + d
        /\ ns' = IF et <= 0 THEN 1 ELSE et
        /\ UNCHANGED <<n_sleep, n_interval, offset, set, funcCalls>>
    BY DEF RoundEnd, util_gettimestamp, Ms
  <1>2. bt = 0 /\ funcCalls = 0 /\ set # "backAsleep"
    BY <1>1 DEF SleepInv, ClockInv
  <1>3. ClockInv' /\ LeftInv' /\ CountInv'
    BY <1>1, <1>2 DEF SleepInv, ClockInv, LeftInv, CountInv, CallBound
  <1>4. PaceInv'
    <2>1. ns' > 1 => ns' = n_interval - (Ms(ticks + d) + offset) /\ ns' \in Nat
      BY <1>0, <1>1, <1>2, <1>a
    <2>2. ASSUME ns' > 1, set = "no"
          PROVE  (ticks + d + ns' * TicksPerMs) \div TicksPerMs = n_interval
      <3>1. offset = 0
        BY <2>2 DEF SleepInv, ClockInv
      <3>2. Ms(ticks + d + ns' * TicksPerMs) = Ms(ticks + d) + ns'
        BY <1>0, <2>1, <2>2, MsFacts
      <3>3. Ms(ticks + d) + ns' = n_interval
        BY <1>0, <1>a, <2>1, <2>2, <3>1
      <3> QED
        BY <3>2, <3>3 DEF Ms
    <2>3. ASSUME ns' > 1, set # "back"
          PROVE  ns' <= n_interval
      <3>1. set = "no" \/ set = "forward"
        BY <1>2, <2>3 DEF SleepInv, CondSleepTypeOK
      <3>2. offset >= 0
        BY <3>1 DEF SleepInv, ClockInv
      <3> QED
        BY <1>0, <1>a, <2>1, <2>3, <3>2
    <2> QED
      BY <1>1, <2>2, <2>3 DEF PaceInv
  <1> QED
    BY <1>3, <1>4

LEMMA SleepNextInv == SleepInv /\ [CondSleepNext]_condSleepVars => SleepInv'
  <1> SUFFICES ASSUME SleepInv, [CondSleepNext]_condSleepVars PROVE SleepInv'
    OBVIOUS
  <1>1. CondSleepTypeOK'
    BY SleepNextType DEF SleepInv
  <1>2. ASSUME NEW msecs \in Intervals, set_interval(msecs)
        PROVE  (ClockInv /\ LeftInv /\ CountInv /\ PaceInv)'
    <2>1. UNCHANGED <<n_sleep, n_interval, place, ns, bt, b_continue, ticks, offset, set, funcCalls>>
      BY <1>2 DEF set_interval
    <2> QED
      BY <2>1 DEF SleepInv, ClockInv, LeftInv, CountInv, PaceInv, CallBound
  <1>3. CASE UNCHANGED condSleepVars
    BY <1>3 DEF condSleepVars, SleepInv, ClockInv, LeftInv, CountInv, PaceInv, CallBound,
                CondSleepTypeOK
  <1>4. CASE CondSleepNext
    <2>1. (ClockInv /\ LeftInv /\ CountInv /\ PaceInv)'
      BY <1>2, <1>4, KeepsSleepCall, KeepsClockIsSet, KeepsFuncReturns, KeepsLoopTest,
         KeepsSleepReturns, KeepsRoundBegin, KeepsRoundEnd DEF CondSleepNext
    <2> QED
      BY <1>1, <2>1 DEF SleepInv
  <1> QED
    BY <1>3, <1>4

\* conditional_sleep() sleeps as long as it is told to and calls func() as often
\* as that takes, and do_logging() keeps to the interval, but for what setting
\* the clock does to them.
THEOREM SpecSleepKept == CondSleepSpec => []SleepKept
  <1>1. SleepInv => SleepKept
    <2> SUFFICES ASSUME SleepInv PROVE SleepKept
      OBVIOUS
    <2>0. /\ ticks \in Nat /\ n_sleep \in Nat /\ ns \in Int /\ TicksPerMs \in Nat
          /\ Ms(ticks) \in Nat /\ Ms(ticks) * TicksPerMs <= ticks
      BY CondSleepConstants, MsFacts DEF SleepInv, CondSleepTypeOK
    <2>1. ASSUME place = "returned", b_continue, set # "forward"
          PROVE  ticks >= n_sleep * TicksPerMs
      <3>1. ns <= 0 /\ n_sleep - ns <= Ms(ticks)
        BY <2>1 DEF SleepInv, LeftInv
      <3>2. n_sleep <= Ms(ticks)
        BY <2>0, <3>1
      <3>3. n_sleep * TicksPerMs <= Ms(ticks) * TicksPerMs
        BY <2>0, <3>2
      <3>4. n_sleep * TicksPerMs \in Nat /\ Ms(ticks) * TicksPerMs \in Nat
        BY <2>0
      <3> QED
        BY <2>0, <3>3, <3>4
    <2>2. n_interval > 0 /\ set # "back" =>
              funcCalls <= (IF n_sleep = 0 THEN 1 ELSE Ceiling(n_sleep, n_interval))
      BY DEF SleepInv, CountInv, CallBound
    <2> QED
      BY <2>1, <2>2 DEF SleepKept, SleepInv, PaceInv
  <1>2. SleepInv /\ [CondSleepNext]_condSleepVars => SleepInv'
    BY SleepNextInv
  <1> QED
    BY <1>1, <1>2, SleepInitInv, PTL DEF CondSleepSpec

-----------------------------------------------------------------------------
(***************************************************************************)
(* Conversions.  What a function returns depends on its argument alone,    *)
(* but for what is printed into a buffer: ReadBackIs.                      *)
(***************************************************************************)
LEMMA ConversionsConstants ==
    /\ Digit \in Nat /\ Digit > 1
    /\ Byte \in Nat /\ Byte > 1 /\ Byte2 \in Nat /\ Byte2 > 1 /\ Byte4 \in Nat /\ Byte4 > 1
    /\ Halves \subseteq 0 .. Byte4 - 1
    /\ MsPerS \in Nat /\ MsPerS > 0 /\ LongMax \in Nat
    /\ LongMax >= MsPerS /\ (LongMax + 1) % MsPerS # 0
    /\ Capital \in [Letters -> Letters]
    /\ \A c \in Letters : Capital[Capital[c]] = Capital[c]
    /\ MaxText \in Nat /\ NameMax \in Nat /\ BufLen \in Nat
    /\ Printers = {"util_gettimestampString", "util_gettimestampString2",
                   "util_gettimestampWithMSString"}
    /\ \A fn \in Printers : TextLength[fn] \in 0 .. BufLen - 1
  <1>1. /\ Digit \in Nat /\ Digit > 1 /\ Halves \subseteq 0 .. Byte4 - 1
        /\ MsPerS \in Nat /\ MsPerS > 0 /\ LongMax \in Nat
        /\ LongMax >= MsPerS /\ (LongMax + 1) % MsPerS # 0
        /\ Capital \in [Letters -> Letters]
        /\ \A c \in Letters : Capital[Capital[c]] = Capital[c]
        /\ MaxText \in Nat /\ NameMax \in Nat /\ BufLen \in Nat
    BY ConversionsAssumption
  <1>2. ASSUME NEW n \in Nat, n > 1 PROVE n * n \in Nat /\ n * n > 1
    BY <1>2
  <1>3. Byte \in Nat /\ Byte > 1
    BY <1>1, <1>2 DEF Byte
  <1>4. Byte2 \in Nat /\ Byte2 > 1
    BY <1>2, <1>3 DEF Byte2
  <1>5. Byte4 \in Nat /\ Byte4 > 1
    BY <1>2, <1>4 DEF Byte4
  <1>6. TextLength \in [{"util_gettimestampString", "util_gettimestampString2",
                         "util_gettimestampWithMSString"} -> 0 .. BufLen - 1]
    BY ConversionsAssumption
  <1>7. /\ Printers = {"util_gettimestampString", "util_gettimestampString2",
                       "util_gettimestampWithMSString"}
        /\ \A fn \in Printers : TextLength[fn] \in 0 .. BufLen - 1
    BY <1>6 DEF Printers
  <1> QED
    BY <1>1, <1>3, <1>4, <1>5, <1>7

LEMMA Division ==
    ASSUME NEW w \in Nat, w > 0, NEW v \in Int
    PROVE  /\ v = w * (v \div w) + (v % w) /\ (v \div w) \in Int /\ (v % w) \in 0 .. w - 1
  <1> QED
    OBVIOUS

\* A multiple of something positive is no smaller than that, or not positive.
LEMMA Multiple ==
    ASSUME NEW w \in Nat, NEW d \in Int
    PROVE  /\ w * d \in Int /\ (d >= 1 => w * d >= w) /\ (d <= -1 => w * d <= -w)
           /\ (d >= 0 => w * d >= 0)
  <1>1. w * d \in Int /\ w * d = w * (d - 1) + w /\ w * d = w * (d + 1) - w
    OBVIOUS
  <1>2. ASSUME NEW a \in Nat PROVE w * a >= 0
    OBVIOUS
  <1>3. d >= 1 => w * d >= w
    <2>1. d >= 1 => (d - 1) \in Nat
      OBVIOUS
    <2>2. d >= 1 => w * (d - 1) >= 0
      BY <1>2, <2>1
    <2> QED
      BY <1>1, <2>2
  <1>4. d <= -1 => w * d <= -w
    <2>1. d <= -1 => (-(d + 1)) \in Nat
      OBVIOUS
    <2>2. d <= -1 => w * (-(d + 1)) >= 0
      BY <1>2, <2>1
    <2>3. w * (-(d + 1)) = -(w * (d + 1))
      OBVIOUS
    <2> QED
      BY <1>1, <2>2, <2>3
  <1>5. d >= 0 => w * d >= 0
    BY <1>2
  <1> QED
    BY <1>1, <1>3, <1>4, <1>5

\* There is one way to divide.
LEMMA Divided ==
    ASSUME NEW w \in Nat, w > 0, NEW q \in Int, NEW r \in 0 .. w - 1
    PROVE  (q * w + r) \div w = q /\ (q * w + r) % w = r
  <1> DEFINE v == q * w + r
             d == v \div w
             m == v % w
  <1>1. v \in Int
    OBVIOUS
  <1>2. v = w * d + m /\ d \in Int /\ m \in 0 .. w - 1
    <2> HIDE DEF v
    <2> QED
      BY <1>1, Division
  <1>3. w * (d - q) = r - m
    <2>1. v = w * q + r
      OBVIOUS
    <2> HIDE DEF v, d, m
    <2>2. w * (d - q) = w * d - w * q
      BY <1>2
    <2> QED
      BY <1>1, <1>2, <2>1, <2>2
  <1> HIDE DEF d, m
  <1>4. (d - q) \in Int
    BY <1>2
  <1>5. (d - q >= 1 => w * (d - q) >= w) /\ (d - q <= -1 => w * (d - q) <= -w)
    BY <1>4, Multiple
  <1>6. d = q
    BY <1>2, <1>3, <1>5
  <1>7. m = r
    BY <1>2, <1>3, <1>6
  <1> QED
    BY <1>6, <1>7 DEF d, m

LEMMA HalvesOf ==
    ASSUME NEW w \in Nat, w > 0, NEW v \in 0 .. w * w - 1
    PROVE  (v \div w) \in 0 .. w - 1 /\ (v % w) \in 0 .. w - 1
  <1> DEFINE d == v \div w
             m == v % w
  <1>1. w * w \in Nat /\ v \in Int
    OBVIOUS
  <1>2. v = w * d + m /\ d \in Int /\ m \in 0 .. w - 1
    BY <1>1, Division
  <1> HIDE DEF d, m
  <1>3. d >= 0
    <2>1. d <= -1 => w * d <= -w
      BY <1>2, Multiple
    <2> QED
      BY <1>1, <1>2, <2>1
  <1>4. d < w
    <2>1. (d - w) \in Int /\ w * (d - w) = w * d - w * w
      BY <1>2
    <2>2. d - w >= 0 => w * (d - w) >= 0
      BY <2>1, Multiple
    <2> QED
      BY <1>1, <1>2, <2>1, <2>2
  <1> QED
    BY <1>2, <1>3, <1>4 DEF d, m

LEMMA HalvesJoined ==
    ASSUME NEW w \in Nat, w > 0, NEW y \in 0 .. w - 1, NEW x \in 0 .. w - 1
    PROVE  y * w + x \in 0 .. w * w - 1
  <1>1. y * w = w * y /\ y * w \in Int /\ w * w \in Int /\ w * (w - 1 - y) = w * w - w - y * w
    OBVIOUS
  <1>2. w - 1 - y \in Int /\ w - 1 - y >= 0 /\ y >= 0 /\ y \in Int
    OBVIOUS
  <1>3. w * (w - 1 - y) >= 0 /\ w * y >= 0
    BY <1>2, Multiple
  <1> QED
    BY <1>1, <1>3

LEMMA Flip16 ==
    ASSUME NEW v \in 0 .. Byte2 - 1
    PROVE  /\ flip16(v) \in 0 .. Byte2 - 1
           /\ flip16(v) % Byte = v \div Byte
           /\ flip16(v) \div Byte = Byte - 1
           /\ (v \div Byte) \in Int /\ (v % Byte) \in Int
  <1>0. Byte \in Nat /\ Byte > 1 /\ Byte2 \in Nat
    BY ConversionsConstants
  <1> DEFINE b == Byte
  <1>1. v \in 0 .. b * b - 1
    BY DEF Byte2
  <1>2. PICK x \in 0 .. b - 1 : x = v \div b
    BY <1>0, <1>1, HalvesOf
  <1>3. x % b = x
    <2>1. (0 * b + x) % b = x
      BY <1>0, Divided
    <2>2. 0 * b + x = x
      BY <1>0
    <2> QED
      BY <2>1, <2>2
  <1>4. flip16(v) = (b - 1) * b + x
    BY <1>2, <1>3 DEF flip16
  <1>5. ((b - 1) * b + x) \div b = b - 1 /\ ((b - 1) * b + x) % b = x
    BY <1>0, Divided
  <1>6. (b - 1) * b + x \in 0 .. b * b - 1
    <2>1. b - 1 \in 0 .. b - 1
      BY <1>0
    <2> QED
      BY <1>0, <2>1, HalvesJoined
  <1>7. (v % b) \in Int
    BY <1>0, <1>1, HalvesOf
  <1> QED
    BY <1>0, <1>2, <1>4, <1>5, <1>6, <1>7 DEF Byte2

LEMMA Flip32 ==
    ASSUME NEW v \in 0 .. Byte4 - 1
    PROVE  /\ flip32(v) \in 0 .. Byte4 - 1
           /\ flip32(v) % Byte2 = flip16(v \div Byte2)
           /\ flip32(v) \div Byte2 = flip16(v % Byte2)
           /\ (v \div Byte2) \in 0 .. Byte2 - 1 /\ (v % Byte2) \in 0 .. Byte2 - 1
  <1>0. Byte2 \in Nat /\ Byte2 > 1 /\ Byte4 \in Nat
    BY ConversionsConstants
  <1> DEFINE b == Byte2
  <1>1. v \in 0 .. b * b - 1
    BY DEF Byte4
  <1>2. (v \div b) \in 0 .. b - 1 /\ (v % b) \in 0 .. b - 1
    BY <1>0, <1>1, HalvesOf
  <1>3. PICK x \in 0 .. b - 1 : x = flip16(v \div b)
    BY <1>2, Flip16
  <1>4. PICK y \in 0 .. b - 1 : y = flip16(v % b)
    BY <1>2, Flip16
  <1>5. flip32(v) = y * b + x
    BY <1>0, <1>3, <1>4 DEF flip32
  <1>6. (y * b + x) \div b = y /\ (y * b + x) % b = x
    BY <1>0, Divided
  <1>7. y * b + x \in 0 .. b * b - 1
    BY <1>0, HalvesJoined
  <1> QED
    BY <1>2, <1>3, <1>4, <1>5, <1>6, <1>7 DEF Byte4

LEMMA Flip64 ==
    ASSUME NEW hi \in 0 .. Byte4 - 1, NEW lo \in 0 .. Byte4 - 1
    PROVE  LET v == hi * Byte4 + lo IN
           /\ flip64(v) % Byte4 = flip32(hi) /\ flip64(v) \div Byte4 = flip32(lo)
           /\ v % Byte4 = lo /\ v \div Byte4 = hi
  <1>0. Byte4 \in Nat /\ Byte4 > 1
    BY ConversionsConstants
  <1> DEFINE v == hi * Byte4 + lo
  <1>1. v % Byte4 = lo /\ v \div Byte4 = hi
    BY <1>0, Divided
  <1>2. PICK x \in 0 .. Byte4 - 1 : x = flip32(hi)
    BY Flip32
  <1>3. PICK y \in 0 .. Byte4 - 1 : y = flip32(lo)
    BY Flip32
  <1>4. flip64(v) = y * Byte4 + x
    <2>1. flip64(v) = flip32(v \div Byte4) + flip32(v % Byte4) * Byte4
      BY DEF flip64
    <2>2. flip64(v) = x + y * Byte4
      BY <1>1, <1>2, <1>3, <2>1
    <2> QED
      BY <1>0, <2>2
  <1>5. (y * Byte4 + x) \div Byte4 = y /\ (y * Byte4 + x) % Byte4 = x
    BY <1>0, Divided
  <1> QED
    BY <1>1, <1>2, <1>3, <1>4, <1>5

LEMMA FlippedBytes ==
    /\ \A v \in 0 .. Byte2 - 1 : Flipped(2, v, flip16(v))
    /\ \A v \in 0 .. Byte4 - 1 : Flipped(4, v, flip32(v))
    /\ \A hi, lo \in 0 .. Byte4 - 1 :
          Flipped(8, hi * Byte4 + lo, flip64(hi * Byte4 + lo))
  <1>1. \A v : \A i : /\ ByteOf(2, v, i) = Byte16(v, i) /\ ByteOf(4, v, i) = Byte32(v, i)
                      /\ ByteOf(8, v, i) = Byte64(v, i)
    BY DEF ByteOf
  <1>2. \A v : Byte16(v, 0) = v % Byte /\ Byte16(v, 1) = v \div Byte
    BY DEF Byte16
  <1>3. \A v : /\ Byte32(v, 0) = Byte16(v % Byte2, 0) /\ Byte32(v, 1) = Byte16(v % Byte2, 1)
               /\ Byte32(v, 2) = Byte16(v \div Byte2, 0) /\ Byte32(v, 3) = Byte16(v \div Byte2, 1)
    BY DEF Byte32
  <1>4. \A v : /\ Byte64(v, 0) = Byte32(v % Byte4, 0) /\ Byte64(v, 1) = Byte32(v % Byte4, 1)
               /\ Byte64(v, 2) = Byte32(v % Byte4, 2) /\ Byte64(v, 3) = Byte32(v % Byte4, 3)
               /\ Byte64(v, 4) = Byte32(v \div Byte4, 0) /\ Byte64(v, 5) = Byte32(v \div Byte4, 1)
               /\ Byte64(v, 6) = Byte32(v \div Byte4, 2) /\ Byte64(v, 7) = Byte32(v \div Byte4, 3)
    BY DEF Byte64
  <1>5. ASSUME NEW v \in 0 .. Byte2 - 1
        PROVE  Byte16(flip16(v), 0) = Byte16(v, 1) /\ Byte16(flip16(v), 1) = Byte - 1
    BY <1>2, Flip16
  <1>6. ASSUME NEW v \in 0 .. Byte4 - 1
        PROVE  /\ Byte32(flip32(v), 0) = Byte32(v, 3) /\ Byte32(flip32(v), 1) = Byte - 1
               /\ Byte32(flip32(v), 2) = Byte32(v, 1) /\ Byte32(flip32(v), 3) = Byte - 1
    <2>1. PICK hi \in 0 .. Byte2 - 1 : hi = v \div Byte2
      BY Flip32
    <2>2. PICK lo \in 0 .. Byte2 - 1 : lo = v % Byte2
      BY Flip32
    <2>3. flip32(v) % Byte2 = flip16(hi) /\ flip32(v) \div Byte2 = flip16(lo)
      BY <2>1, <2>2, Flip32
    <2> QED
      BY <1>3, <1>5, <2>1, <2>2, <2>3
  <1>7. ASSUME NEW v \in 0 .. Byte2 - 1 PROVE Flipped(2, v, flip16(v))
    BY <1>1, <1>5 DEF Flipped
  <1>8. ASSUME NEW v \in 0 .. Byte4 - 1 PROVE Flipped(4, v, flip32(v))
    <2> SUFFICES ASSUME NEW i \in 0..3
                 PROVE  ByteOf(4, flip32(v), i) =
                            IF i % 2 = 0 THEN ByteOf(4, v, 3 - i) ELSE Byte - 1
      BY DEF Flipped
    <2>1. i = 0 \/ i = 1 \/ i = 2 \/ i = 3
      OBVIOUS
    <2> QED
      BY <1>1, <1>6, <2>1
  <1>9. ASSUME NEW hi \in 0 .. Byte4 - 1, NEW lo \in 0 .. Byte4 - 1
        PROVE  Flipped(8, hi * Byte4 + lo, flip64(hi * Byte4 + lo))
    <2> DEFINE v == hi * Byte4 + lo
    <2>1. /\ flip64(v) % Byte4 = flip32(hi) /\ flip64(v) \div Byte4 = flip32(lo)
          /\ v % Byte4 = lo /\ v \div Byte4 = hi
      BY Flip64
    <2> HIDE DEF v
    <2>2. /\ Byte64(flip64(v), 0) = Byte64(v, 7) /\ Byte64(flip64(v), 1) = Byte - 1
          /\ Byte64(flip64(v), 2) = Byte64(v, 5) /\ Byte64(flip64(v), 3) = Byte - 1
          /\ Byte64(flip64(v), 4) = Byte64(v, 3) /\ Byte64(flip64(v), 5) = Byte - 1
          /\ Byte64(flip64(v), 6) = Byte64(v, 1) /\ Byte64(flip64(v), 7) = Byte - 1
      BY <1>4, <1>6, <2>1
    <2>3. ASSUME NEW i \in 0..7
          PROVE  ByteOf(8, flip64(v), i) = IF i % 2 = 0 THEN ByteOf(8, v, 7 - i) ELSE Byte - 1
      <3>1. i = 0 \/ i = 1 \/ i = 2 \/ i = 3 \/ i = 4 \/ i = 5 \/ i = 6 \/ i = 7
        OBVIOUS
      <3> QED
        BY <1>1, <2>2, <3>1
    <2>4. Flipped(8, v, flip64(v))
      BY <2>3 DEF Flipped
    <2> QED
      BY <2>4 DEF v
  <1> QED
    BY <1>7, <1>8, <1>9

\* Whole milliseconds, rounded up.
LEMMA RoundedUp ==
    ASSUME NEW sec \in 0 .. MAX_SECONDS_IN_MSEC_LONG + 1,
           NEW usec \in 0 .. MsPerS * MsPerS + 1
    PROVE  LET tv  == [sec |-> sec, usec |-> usec]
               out == tv_to_msec(tv)
               us  == sec * MsPerS * MsPerS + usec IN
           out # -1 => /\ out <= LongMax
                       /\ out * MsPerS >= us /\ (out - 1) * MsPerS < us
  <1>0. MsPerS \in Nat /\ MsPerS > 0 /\ LongMax \in Nat /\ LongMax >= MsPerS
    BY ConversionsConstants
  <1> DEFINE m == MsPerS
             tv == [sec |-> sec, usec |-> usec]
             c == (usec + m - 1) \div m
             r == (usec + m - 1) % m
             top == MAX_SECONDS_IN_MSEC_LONG
  <1>1. m * m \in Nat /\ sec \in Int /\ usec \in Int /\ usec + m - 1 \in Int
    BY <1>0
  <1>2. usec + m - 1 = m * c + r /\ c \in Int /\ r \in 0 .. m - 1
    BY <1>0, <1>1, Division
  <1>3. top \in Int /\ m * top <= LongMax - (m - 1)
    <2>1. LongMax - (m - 1) \in Int
      BY <1>0
    <2>2. PICK n \in Int : n = LongMax - (m - 1)
      BY <2>1
    <2>3. n = m * (n \div m) + (n % m) /\ (n \div m) \in Int /\ (n % m) \in 0 .. m - 1
      BY <1>0, Division
    <2> QED
      BY <1>0, <2>2, <2>3 DEF MAX_SECONDS_IN_MSEC_LONG
  <1>4. tv.sec = sec /\ tv.usec = usec
    OBVIOUS
  <1>5. SUFFICES ASSUME tv_to_msec(tv) # -1
                 PROVE  /\ tv_to_msec(tv) <= LongMax
                        /\ tv_to_msec(tv) * m >= sec * m * m + usec
                        /\ (tv_to_msec(tv) - 1) * m < sec * m * m + usec
    OBVIOUS
  <1>6. tv_to_msec(tv) = sec * m + c /\ usec <= m * m /\ sec <= top
    <2>1. ~(usec > m * m \/ sec > top)
      BY <1>4, <1>5 DEF tv_to_msec
    <2>2. tv_to_msec(tv) = sec * m + c
      BY <1>4, <2>1 DEF tv_to_msec
    <2> QED
      BY <1>1, <1>3, <2>1, <2>2
  <1> HIDE DEF tv, c, r, top
  <1>7. /\ sec * m \in Int /\ sec * m * m \in Int /\ m * c \in Int
        /\ (sec * m + c) * m = sec * m * m + m * c
        /\ (sec * m + c - 1) * m = sec * m * m + m * c - m
    BY <1>0, <1>1, <1>2
  <1>8. m * c >= usec /\ m * c - m < usec
    BY <1>0, <1>1, <1>2, <1>7
  <1>9. (sec * m + c) * m >= sec * m * m + usec /\ (sec * m + c - 1) * m < sec * m * m + usec
    BY <1>0, <1>1, <1>7, <1>8
  <1>10. c <= m
    <2>1. (c - m) \in Int /\ m * (c - m) = m * c - m * m
      BY <1>0, <1>2
    <2>2. c - m >= 1 => m * (c - m) >= m
      BY <1>0, <2>1, Multiple
    <2> QED
      BY <1>0, <1>1, <1>2, <1>6, <1>7, <1>8, <2>1, <2>2
  <1>11. sec * m <= LongMax - (m - 1)
    <2>1. (top - sec) \in Int /\ m * (top - sec) = m * top - sec * m
      BY <1>0, <1>1, <1>3
    <2>2. m * (top - sec) >= 0
      BY <1>0, <1>6, <2>1, <1>1, <1>3, Multiple
    <2>3. m * top \in Int
      BY <1>0, <1>3
    <2> QED
      BY <1>0, <1>1, <1>3, <1>7, <2>1, <2>2, <2>3
  <1>12. sec * m + c <= LongMax
    <2> SUFFICES ASSUME sec * m + c > LongMax PROVE FALSE
      BY <1>0, <1>2, <1>7
    <2>1. LongMax + 1 = sec * m + m
      BY <1>0, <1>2, <1>7, <1>10, <1>11
    <2>2. sec * m + m = (sec + 1) * m + 0 /\ sec + 1 \in Int /\ 0 \in 0 .. m - 1
      BY <1>0, <1>1
    <2>3. ((sec + 1) * m + 0) % m = 0
      BY <1>0, <2>2, Divided
    <2> QED
      BY <2>1, <2>2, <2>3, ConversionsConstants
  <1>13. tv_to_msec(tv) <= LongMax
    BY <1>6, <1>12
  <1>14. tv_to_msec(tv) * m >= sec * m * m + usec /\ (tv_to_msec(tv) - 1) * m < sec * m * m + usec
    <2>1. PICK o \in Int : o = tv_to_msec(tv)
      BY <1>2, <1>6, <1>7
    <2>2. o = sec * m + c
      BY <1>6, <2>1
    <2>3. o * m >= sec * m * m + usec /\ (o - 1) * m < sec * m * m + usec
      BY <1>0, <1>1, <1>7, <1>8, <2>2
    <2> QED
      BY <2>1, <2>3
  <1> QED
    BY <1>13, <1>14

LEMMA TextIsSeq ==
    ASSUME NEW text \in Texts
    PROVE  /\ text \in Seq(Letters) /\ Len(text) \in Nat
           /\ text \in [1..Len(text) -> Letters] /\ DOMAIN text = 1..Len(text)
  <1>1. PICK n \in 0..MaxText : text \in [1..n -> Letters]
    BY DEF Texts
  <1>2. n \in Nat
    BY ConversionsConstants
  <1>3. text \in Seq(Letters) /\ Len(text) = n
    BY <1>1, <1>2, FunctionIsSeq
  <1> QED
    BY <1>1, <1>2, <1>3

\* The digits give the bytes back.
LEMMA HexGivesBack ==
    ASSUME NEW n \in Nat, NEW input \in [1..n -> Bytes]
    PROVE  /\ Len(hex(input)) = 3 * Len(input)
           /\ \A i \in 1..Len(input) :
                 input[i] = hex(input)[3 * i - 2] * Digit + hex(input)[3 * i - 1]
  <1>1. Len(input) = n
    BY FunctionIsSeq
  <1> DEFINE three(i) == LET byte == input[((i - 1) \div 3) + 1] IN
                         <<byte \div Digit, byte % Digit, "blank">>
             S == {three(i)[((i - 1) % 3) + 1] : i \in 1 .. 3 * n}
  <1>2. hex(input) = [i \in 1 .. 3 * n |-> three(i)[((i - 1) % 3) + 1]]
    BY <1>1 DEF hex
  <1>3. hex(input) \in [1 .. 3 * n -> S]
    BY <1>2
  <1>4. Len(hex(input)) = 3 * n
    <2> HIDE DEF S
    <2> QED
      BY <1>3, FunctionIsSeq
  <1>5. ASSUME NEW i \in 1..n
        PROVE  input[i] = hex(input)[3 * i - 2] * Digit + hex(input)[3 * i - 1]
    <2>1. input[i] \in Nat /\ Digit \in Nat /\ Digit > 0
      BY ConversionsConstants DEF Bytes
    <2>2. 3 * i - 2 \in 1 .. 3 * n /\ 3 * i - 1 \in 1 .. 3 * n
      OBVIOUS
    <2>3. /\ ((3 * i - 2 - 1) \div 3) + 1 = i /\ ((3 * i - 2 - 1) % 3) + 1 = 1
          /\ ((3 * i - 1 - 1) \div 3) + 1 = i /\ ((3 * i - 1 - 1) % 3) + 1 = 2
      OBVIOUS
    <2>4. three(3 * i - 2)[((3 * i - 2 - 1) % 3) + 1] = input[i] \div Digit
      BY <2>3
    <2>5. three(3 * i - 1)[((3 * i - 1 - 1) % 3) + 1] = input[i] % Digit
      BY <2>3
    <2>6. hex(input)[3 * i - 2] = input[i] \div Digit
      <3> HIDE DEF three
      <3> QED
        BY <1>2, <2>2, <2>4
    <2>7. hex(input)[3 * i - 1] = input[i] % Digit
      <3> HIDE DEF three
      <3> QED
        BY <1>2, <2>2, <2>5
    <2>8. PICK b \in Nat : b = input[i]
      BY <2>1
    <2>9. b = Digit * (b \div Digit) + (b % Digit) /\ b \div Digit \in Int /\ b % Digit \in Int
      BY <2>1, <2>8, Division
    <2> QED
      BY <2>1, <2>6, <2>7, <2>8, <2>9
  <1> QED
    BY <1>1, <1>4, <1>5

\* What is printed replaces the string, whatever it was.
LEMMA SprintfGivesText ==
    ASSUME NEW destination \in Texts, NEW text \in Texts
    PROVE  sprintf(destination, text) = text
  <1>1. /\ Len(text) \in Nat /\ text \in [1..Len(text) -> Letters]
    BY TextIsSeq
  <1> DEFINE n == Len(text)
             room == Resized(destination, n + 1)
             data == [i \in DOMAIN room |-> IF i <= n THEN text[i] ELSE "NUL"]
  <1>2. DOMAIN room = 1 .. n + 1
    BY DEF Resized
  <1>3. data \in [1 .. n + 1 -> Letters \cup {"NUL"}]
    BY <1>1, <1>2
  <1>4. Len(data) = n + 1
    <2> HIDE DEF data
    <2> QED
      BY <1>1, <1>3, FunctionIsSeq
  <1>5. Resized(data, n) = [i \in 1..n |-> text[i]]
    <2>1. ASSUME NEW i \in 1..n PROVE i <= Len(data) /\ data[i] = text[i]
      BY <1>1, <1>2, <1>4
    <2> HIDE DEF data
    <2> QED
      BY <2>1 DEF Resized
  <1>6. sprintf(destination, text) = Resized(data, n)
    BY DEF sprintf
  <1> QED
    BY <1>1, <1>5, <1>6

-----------------------------------------------------------------------------
\* The first place, if there is one.
LEMMA FindSubstr ==
    ASSUME NEW str1, NEW str2, Len(str1) \in Nat, Len(str2) \in Nat
    PROVE  LET out == find_substr(str1, str2) IN
           /\ out \in Nat \cup {-1}
           /\ out # -1 => UpperEqual(str1, str2, out)
           /\ \A k \in 0 .. Len(str1) :
                 UpperEqual(str1, str2, k) =>
                     out \in 0..k \/ (Len(str1) = 0 /\ Len(str2) = 0)
  <1> DEFINE found == {k \in 0..Len(str1) : UpperEqual(str1, str2, k)}
             it    == IF found = {} THEN Len(str1) ELSE Min(found)
  <1>1. find_substr(str1, str2) = IF it # Len(str1) THEN it ELSE -1
    BY DEF find_substr
  <1>2. ASSUME found # {} PROVE Min(found) \in found /\ \A x \in found : Min(found) <= x
    <2>1. found \in SUBSET Nat
      OBVIOUS
    <2> HIDE DEF found
    <2> QED
      BY <1>2, <2>1, LeastOf
  <1>3. it \in Nat /\ it <= Len(str1)
    BY <1>2
  <1>4. it # Len(str1) => UpperEqual(str1, str2, it)
    BY <1>2
  <1>5. ASSUME NEW k \in 0 .. Len(str1), UpperEqual(str1, str2, k)
        PROVE  it <= k
    BY <1>2, <1>5
  <1>6. ASSUME NEW k \in 0 .. Len(str1), UpperEqual(str1, str2, k), it = Len(str1)
        PROVE  Len(str2) = 0 /\ it = k
    <2>1. it <= k /\ k <= Len(str1) /\ k \in Nat
      BY <1>5, <1>6
    <2>2. k + Len(str2) <= Len(str1)
      BY <1>6 DEF UpperEqual
    <2> HIDE DEF it
    <2> QED
      BY <1>3, <1>6, <2>1, <2>2
  <1>7. ASSUME it = Len(str1), Len(str2) = 0 PROVE Len(str1) = 0
    <2>1. UpperEqual(str1, str2, 0)
      BY <1>7 DEF UpperEqual
    <2> QED
      BY <1>5, <1>7, <2>1
  <1> HIDE DEF it
  <1> QED
    BY <1>1, <1>3, <1>4, <1>5, <1>6, <1>7

LEMMA ToUpperIsFound ==
    ASSUME NEW str \in Texts
    PROVE  find_substr(str, toupper(str)) = (IF str = <<>> THEN -1 ELSE 0)
  <1>1. Len(str) \in Nat /\ str \in [1..Len(str) -> Letters]
    BY TextIsSeq
  <1>2. toupper(str) \in [1..Len(str) -> Letters]
    BY <1>1, ConversionsConstants DEF toupper
  <1>3. Len(toupper(str)) = Len(str)
    BY <1>1, <1>2, FunctionIsSeq
  <1>4. UpperEqual(str, toupper(str), 0)
    <2>1. ASSUME NEW i \in 1..Len(str)
          PROVE  Capital[str[0 + i]] = Capital[toupper(str)[i]]
      <3>1. str[i] \in Letters /\ 0 + i = i
        BY <1>1
      <3>2. toupper(str)[i] = Capital[str[i]]
        BY DEF toupper
      <3> QED
        BY <3>1, <3>2, ConversionsConstants
    <2> QED
      BY <1>1, <1>3, <2>1 DEF UpperEqual
  <1> DEFINE found == {k \in 0..Len(str) : UpperEqual(str, toupper(str), k)}
             it    == IF found = {} THEN Len(str) ELSE Min(found)
  <1>5. find_substr(str, toupper(str)) = IF it # Len(str) THEN it ELSE -1
    BY DEF find_substr
  <1>6. 0 \in found /\ found \in SUBSET Nat
    BY <1>1, <1>4
  <1>7. it = 0
    <2> HIDE DEF found
    <2>1. Min(found) \in found /\ Min(found) <= 0
      BY <1>6, LeastOf
    <2>2. Min(found) = 0
      <3>1. PICK m : m = Min(found)
        OBVIOUS
      <3>2. m \in Nat
        BY <1>6, <2>1, <3>1
      <3>3. m <= 0
        BY <2>1, <3>1
      <3> QED
        BY <3>1, <3>2, <3>3
    <2>3. found # {}
      BY <1>6
    <2> QED
      BY <2>2, <2>3
  <1>8. str = <<>> <=> Len(str) = 0
    BY <1>1, TextIsSeq, EmptySeq
  <1> HIDE DEF it
  <1> QED
    BY <1>1, <1>5, <1>7, <1>8

LEMMA NameIsKept ==
    ASSUME NEW t_name \in Texts
    PROVE  LET out == pthread_setname_np(nm(t_name)) IN
           /\ IsPrefix(out, t_name)
           /\ Len(out) = Len(t_name) \/ Len(out) = NameMax
  <1>1. t_name \in Seq(Letters) /\ Len(t_name) \in Nat /\ NameMax \in Nat
    BY TextIsSeq, ConversionsConstants
  <1>2. CASE Len(t_name) <= NameMax
    <2>1. pthread_setname_np(nm(t_name)) = t_name
      BY <1>1, <1>2 DEF pthread_setname_np, nm
    <2>2. IsPrefix(t_name, t_name)
      BY <1>1 DEF IsPrefix
    <2> QED
      BY <2>1, <2>2
  <1>3. CASE Len(t_name) > NameMax
    <2>1. /\ SubSeq(t_name, 1, NameMax) \in Seq(Letters)
          /\ Len(SubSeq(t_name, 1, NameMax)) = NameMax
      BY <1>1, <1>3
    <2>2. pthread_setname_np(nm(t_name)) = SubSeq(t_name, 1, NameMax)
      BY <1>1, <1>3, <2>1 DEF pthread_setname_np, nm
    <2>3. IsPrefix(SubSeq(t_name, 1, NameMax), t_name)
      BY <1>1, <1>3, <2>1 DEF IsPrefix
    <2> QED
      BY <2>1, <2>2, <2>3
  <1> QED
    BY <1>1, <1>2, <1>3

\* The record of a call is of what was called, with what, and what it returned.
LEMMA CallIsExact ==
    ASSUME NEW fn, NEW in, NEW out, Exact(fn, in, out),
           last' = [fn |-> fn, in |-> in, out |-> out]
    PROVE  last'.fn = fn /\ Exact(last'.fn, last'.in, last'.out)
  <1>1. last'.fn = fn /\ last'.in = in /\ last'.out = out
    OBVIOUS
  <1> QED
    BY <1>1

\* The functions that do not print into a buffer, and the record of none.
Returning == {"flip16", "flip32", "flip64",
              "tv_to_msec", "hex", "sprintf", "toupper", "find", "name"}

LEMMA ReturnedIsExact ==
    ASSUME ConversionsNext
    PROVE  \/ \E fn \in Returning : \E in, out : Returned(fn, in, out) /\ Exact(fn, in, out)
           \/ \E fn \in Printers : Prints(fn)
           \/ ClearBuffer
  <1> DEFINE Exactly(fn, in, out) == Returned(fn, in, out) /\ Exact(fn, in, out)
             Some == \E fn \in Returning : \E in, out : Exactly(fn, in, out)
  <1>1. CASE util_flipbytes
    <2>1. ASSUME NEW value \in 0 .. Byte2 - 1 PROVE Exact("flip16", value, flip16(value))
      BY FlippedBytes DEF Exact
    <2>2. ASSUME NEW value \in Halves PROVE Exact("flip32", value, flip32(value))
      BY FlippedBytes, ConversionsConstants DEF Exact
    <2>3. ASSUME NEW hi \in Halves, NEW lo \in Halves
          PROVE  Exact("flip64", hi * Byte4 + lo, flip64(hi * Byte4 + lo))
      BY FlippedBytes, ConversionsConstants DEF Exact
    <2> QED
      BY <1>1, <2>1, <2>2, <2>3 DEF util_flipbytes, Returning
  <1>2. CASE util_tv_to_msec
    <2>1. PICK sec \in 0 .. MAX_SECONDS_IN_MSEC_LONG + 1,
               usec \in 0 .. MsPerS * MsPerS + 1 :
               LET tv == [sec |-> sec, usec |-> usec] IN
               Returned("tv_to_msec", tv, tv_to_msec(tv))
      BY <1>2 DEF util_tv_to_msec
    <2> DEFINE tv == [sec |-> sec, usec |-> usec]
    <2>2. tv.sec = sec /\ tv.usec = usec
      OBVIOUS
    <2>3. Exact("tv_to_msec", tv, tv_to_msec(tv))
      <3>1. LET us == tv.sec * MsPerS * MsPerS + tv.usec IN
            tv_to_msec(tv) # -1 =>
               /\ tv_to_msec(tv) <= LongMax
               /\ tv_to_msec(tv) * MsPerS >= us /\ (tv_to_msec(tv) - 1) * MsPerS < us
        BY <2>2, RoundedUp
      <3> HIDE DEF tv
      <3> QED
        BY <3>1 DEF Exact
    <2>4. Exactly("tv_to_msec", tv, tv_to_msec(tv))
      BY <2>1, <2>3
    <2> HIDE DEF tv, Exactly
    <2>5. Some
      BY <2>4 DEF Returning
    <2> QED
      BY <2>5 DEF Exactly
  <1>3. CASE bytes2hex_string
    <2>1. PICK n \in 0..2 : \E input \in [1..n -> Bytes] : Returned("hex", input, hex(input))
      BY <1>3 DEF bytes2hex_string
    <2>2. PICK input \in [1..n -> Bytes] : Returned("hex", input, hex(input))
      BY <2>1
    <2>3. Exact("hex", input, hex(input))
      BY HexGivesBack DEF Exact
    <2> QED
      BY <2>2, <2>3 DEF Returning
  <1>4. CASE sprintf_std_string
    <2>1. PICK destination \in Texts, text \in Texts :
             Returned("sprintf", <<destination, text>>, sprintf(destination, text))
      BY <1>4 DEF sprintf_std_string
    <2>2. Exact("sprintf", <<destination, text>>, sprintf(destination, text))
      BY SprintfGivesText DEF Exact
    <2> QED
      BY <2>1, <2>2 DEF Returning
  <1>5. CASE str_toupper
    <2>1. PICK str \in Texts : Returned("toupper", str, toupper(str))
      BY <1>5 DEF str_toupper
    <2>2. Exact("toupper", str, toupper(str))
      BY ToUpperIsFound DEF Exact
    <2> QED
      BY <2>1, <2>2 DEF Returning
  <1>6. CASE ci_find_substr
    <2>1. PICK str1 \in Texts, str2 \in Texts :
             Returned("find", <<str1, str2>>, find_substr(str1, str2))
      BY <1>6 DEF ci_find_substr
    <2>2. /\ str1 \in Seq(Letters) /\ Len(str1) \in Nat
          /\ str2 \in Seq(Letters) /\ Len(str2) \in Nat
      BY TextIsSeq
    <2>3. (Len(str1) = 0 => str1 = <<>>) /\ (Len(str2) = 0 => str2 = <<>>)
      BY <2>2, EmptySeq
    <2>4. <<str1, str2>>[1] = str1 /\ <<str1, str2>>[2] = str2
      OBVIOUS
    <2> DEFINE out == find_substr(str1, str2)
    <2>5. /\ out # -1 => UpperEqual(str1, str2, out)
          /\ \A k \in 0 .. Len(str1) :
                UpperEqual(str1, str2, k) => out \in 0..k \/ (Len(str1) = 0 /\ Len(str2) = 0)
      BY <2>2, FindSubstr
    <2>6. Exact("find", <<str1, str2>>, out)
      <3> HIDE DEF out
      <3> QED
        BY <2>3, <2>4, <2>5 DEF Exact
    <2> QED
      BY <2>1, <2>6 DEF Returning
  <1>7. CASE set_thread_name
    <2>1. PICK t_name \in Texts : Returned("name", t_name, pthread_setname_np(nm(t_name)))
      BY <1>7 DEF set_thread_name
    <2>2. Exact("name", t_name, pthread_setname_np(nm(t_name)))
      BY NameIsKept DEF Exact
    <2> QED
      BY <2>1, <2>2 DEF Returning
  <1>8. CASE \/ util_gettimestampString \/ util_gettimestampWithMSString
             \/ util_gettimestampString2
    BY <1>8, ConversionsConstants
       DEF util_gettimestampString, util_gettimestampWithMSString, util_gettimestampString2
  <1> QED
    BY <1>1, <1>2, <1>3, <1>4, <1>5, <1>6, <1>7, <1>8 DEF ConversionsNext

LEMMA MaxOfTwo ==
    ASSUME NEW a \in Nat, NEW b \in Nat
    PROVE  Max({a, b}) = IF a <= b THEN b ELSE a
  <1> DEFINE m == IF a <= b THEN b ELSE a
  <1>1. m \in {a, b} /\ \A y \in {a, b} : y <= m
    OBVIOUS
  <1>2. ASSUME NEW x \in {a, b}, \A y \in {a, b} : y <= x PROVE x = m
    BY <1>2
  <1> HIDE DEF m
  <1>3. Max({a, b}) = m
    BY <1>1, <1>2 DEF Max
  <1> QED
    BY <1>3 DEF m

\* What has been written is all before the first NUL.
BufferInv == \A i \in 1..BufLen : date_string[i] = "NUL" <=> i > written

\* A text reads back if it is as long as the longest since the buffer was cleared.
PrintedInv ==
    last.fn \in Printers =>
        (written = TextLength[last.fn] <=> last.in <= TextLength[last.fn])

ConversionsIInv ==
    /\ ConversionsTypeOK
    /\ Exact(last.fn, last.in, last.out)
    /\ BufferInv /\ PrintedInv

LEMMA ReadBackIsWritten ==
    ASSUME ConversionsTypeOK, BufferInv
    PROVE  ReadBack = written
  <1> DEFINE nuls == {i \in 1..BufLen : date_string[i] = "NUL"}
  <1>1. BufLen \in Nat /\ written \in 0..BufLen
    BY ConversionsConstants DEF ConversionsTypeOK
  <1>2. \A i \in Nat : i \in nuls <=> (i \in 1..BufLen /\ i > written)
    BY DEF BufferInv
  <1>3. nuls \in SUBSET Nat
    OBVIOUS
  <1>4. ReadBack = IF nuls = {} THEN BufLen ELSE Min(nuls) - 1
    BY DEF ReadBack
  <1> HIDE DEF nuls
  <1>5. CASE nuls = {}
    <2>1. ~(written + 1 \in 1..BufLen)
      BY <1>1, <1>2, <1>5
    <2> QED
      BY <1>1, <1>4, <1>5, <2>1
  <1>6. CASE nuls # {}
    <2>1. PICK m : m = Min(nuls)
      OBVIOUS
    <2>2. m \in nuls /\ \A x \in nuls : m <= x
      BY <1>3, <1>6, <2>1, LeastOf
    <2>3. m \in Nat /\ m > written /\ m <= BufLen
      BY <1>2, <1>3, <2>2
    <2>4. written + 1 \in nuls
      BY <1>1, <1>2, <2>3
    <2>5. m = written + 1
      BY <1>1, <2>2, <2>3, <2>4
    <2> QED
      BY <1>1, <1>4, <1>6, <2>1, <2>5
  <1> QED
    BY <1>5, <1>6

LEMMA ConversionsInitInv ==
    ASSUME ConversionsInit
    PROVE  ConversionsIInv
  <1>1. last.fn = "none" /\ written = BufLen /\ BufLen \in Nat
    BY ConversionsConstants DEF ConversionsInit
  <1>2. date_string \in [1..BufLen -> {"?"}]
    BY DEF ConversionsInit
  <1>3. ConversionsTypeOK
    BY <1>1, <1>2 DEF ConversionsTypeOK
  <1>4. Exact(last.fn, last.in, last.out)
    BY <1>1 DEF Exact
  <1>5. BufferInv
    BY <1>1, <1>2 DEF BufferInv
  <1>6. PrintedInv
    BY <1>1, ConversionsConstants DEF PrintedInv
  <1> QED
    BY <1>3, <1>4, <1>5, <1>6 DEF ConversionsIInv

LEMMA ConversionsNextInv ==
    ASSUME ConversionsIInv, [ConversionsNext]_conversionsVars
    PROVE  ConversionsIInv'
  <1>0. ConversionsTypeOK /\ Exact(last.fn, last.in, last.out) /\ BufferInv /\ PrintedInv
    BY DEF ConversionsIInv
  <1>1. CASE UNCHANGED conversionsVars
    BY <1>0, <1>1
       DEF ConversionsIInv, ConversionsTypeOK, BufferInv, PrintedInv, conversionsVars
  <1>2. ASSUME NEW fn \in Returning, NEW in, NEW out, Returned(fn, in, out), Exact(fn, in, out)
        PROVE  ConversionsIInv'
    <2>1. last'.fn = fn /\ Exact(last.fn, last.in, last.out)'
      BY <1>2, CallIsExact DEF Returned
    <2>2. UNCHANGED <<date_string, written>>
      BY <1>2 DEF Returned
    <2>3. ConversionsTypeOK'
      BY <1>0, <2>1, <2>2 DEF ConversionsTypeOK, Returning
    <2>4. BufferInv'
      BY <1>0, <2>2 DEF BufferInv
    <2>5. PrintedInv'
      BY <2>1, ConversionsConstants DEF PrintedInv, Returning
    <2> QED
      BY <2>1, <2>3, <2>4, <2>5 DEF ConversionsIInv
  <1>3. ASSUME NEW fn \in Printers, Prints(fn) PROVE ConversionsIInv'
    <2>1. /\ BufLen \in Nat /\ TextLength[fn] \in 0 .. BufLen - 1 /\ written \in 0..BufLen
          /\ fn # "NUL" /\ fn \notin Returning
      BY <1>0, ConversionsConstants DEF ConversionsTypeOK, Returning
    <2>2. PICK n \in Nat, w \in Nat : n = TextLength[fn] /\ w = written
      BY <2>1
    <2>3. written' = IF w <= n THEN n ELSE w
      BY <1>3, <2>2, MaxOfTwo DEF Prints
    <2>4. last'.fn = fn /\ last'.in = written
      BY <1>3 DEF Prints
    <2>5. date_string' = [i \in 1..BufLen |-> IF i <= n THEN fn ELSE date_string[i]]
      BY <1>3, <2>2 DEF Prints, Copied
    <2>6. ConversionsTypeOK'
      <3>1. date_string' \in [1..BufLen -> Printers \cup {"NUL", "?"}]
        BY <1>0, <2>5 DEF ConversionsTypeOK
      <3>2. written' \in 0..BufLen
        BY <2>1, <2>2, <2>3
      <3> QED
        BY <2>4, <3>1, <3>2 DEF ConversionsTypeOK, Printers
    <2>7. Exact(last.fn, last.in, last.out)'
      BY <2>1, <2>4 DEF Exact, Returning
    <2>8. BufferInv'
      <3> SUFFICES ASSUME NEW i \in 1..BufLen
                   PROVE  date_string'[i] = "NUL" <=> i > written'
        BY DEF BufferInv
      <3>1. date_string[i] = "NUL" <=> i > w
        BY <1>0, <2>2 DEF BufferInv
      <3>2. CASE i <= n
        <4>1. date_string'[i] # "NUL"
          BY <2>1, <2>5, <3>2
        <4>2. i <= written'
          BY <2>1, <2>2, <2>3, <3>2
        <4>3. ~(i > written')
          BY <2>1, <2>2, <2>3, <4>2
        <4> QED
          BY <4>1, <4>3
      <3>3. CASE i > n
        <4>1. date_string'[i] = date_string[i]
          BY <2>1, <2>2, <2>5, <3>3
        <4>2. i > w <=> i > written'
          BY <2>1, <2>2, <2>3, <3>3
        <4> QED
          BY <3>1, <4>1, <4>2
      <3> QED
        BY <2>1, <2>2, <3>2, <3>3
    <2>9. PrintedInv'
      <3>1. written' = n <=> w <= n
        BY <2>2, <2>3
      <3> QED
        BY <2>2, <2>4, <3>1 DEF PrintedInv
    <2> QED
      BY <2>6, <2>7, <2>8, <2>9 DEF ConversionsIInv
  <1>4. CASE ClearBuffer
    <2>1. last'.fn = "none" /\ written' = 0 /\ BufLen \in Nat
      BY <1>4, ConversionsConstants DEF ClearBuffer
    <2>2. date_string' \in [1..BufLen -> {"NUL"}]
      BY <1>4 DEF ClearBuffer
    <2>3. ConversionsTypeOK'
      BY <2>1, <2>2 DEF ConversionsTypeOK
    <2>4. Exact(last.fn, last.in, last.out)'
      BY <2>1 DEF Exact
    <2>5. BufferInv'
      BY <2>1, <2>2 DEF BufferInv
    <2>6. PrintedInv'
      BY <2>1, ConversionsConstants DEF PrintedInv
    <2> QED
      BY <2>3, <2>4, <2>5, <2>6 DEF ConversionsIInv
  <1> QED
    BY <1>1, <1>2, <1>3, <1>4, ReturnedIsExact

\* Every variable has its type, in every state.
THEOREM SpecConversionsTypeOK == ConversionsSpec => []ConversionsTypeOK
  <1>1. ConversionsInit => ConversionsIInv
    BY ConversionsInitInv
  <1>2. ConversionsIInv /\ [ConversionsNext]_conversionsVars => ConversionsIInv'
    BY ConversionsNextInv
  <1>3. ConversionsIInv => ConversionsTypeOK
    BY DEF ConversionsIInv
  <1> QED
    BY <1>1, <1>2, <1>3, PTL DEF ConversionsSpec

\* What util.cpp's conversions return is what they are for: a time is rounded up
\* and never overflows, hexadecimal digits give the bytes back, a search finds
\* the first place, and a text printed into a buffer reads back if no longer one
\* has been there since the buffer was cleared.
THEOREM SpecConversionsExact == ConversionsSpec => []ConversionsExact
  <1>1. ConversionsInit => ConversionsIInv
    BY ConversionsInitInv
  <1>2. ConversionsIInv /\ [ConversionsNext]_conversionsVars => ConversionsIInv'
    BY ConversionsNextInv
  <1>3. ConversionsIInv => ConversionsExact
    <2> SUFFICES ASSUME ConversionsIInv PROVE ConversionsExact
      OBVIOUS
    <2>1. ReadBack = written
      BY ReadBackIsWritten DEF ConversionsIInv
    <2> QED
      BY <2>1 DEF ConversionsIInv, PrintedInv, ConversionsExact
  <1> QED
    BY <1>1, <1>2, <1>3, PTL DEF ConversionsSpec

-----------------------------------------------------------------------------
(***************************************************************************)
(* The parts together, as they are checked.                                *)
(***************************************************************************)
\* A step of MCParts is one of each part, or leaves that part alone.
LEMMA PartsStep ==
    ASSUME [MCNext]_<<part, partVars>>
    PROVE  /\ [StampsNext]_stampsVars /\ [StartStopNext]_startStopVars
           /\ [RegistryNext]_registryVars /\ [CsvRetentionNext]_csvRetentionVars
           /\ [TimeTextNext]_timeTextVars /\ [CondSleepNext]_condSleepVars
           /\ [ConversionsNext]_conversionsVars /\ UNCHANGED part
  <1>1. CASE UNCHANGED <<part, partVars>>
    BY <1>1 DEF partVars
  <1>2. CASE MCNext
    BY <1>2 DEF MCNext
  <1> QED
    BY <1>1, <1>2

\* What the run of MCParts checks are behaviours of each of the parts: what holds
\* of one of them by itself holds there.
THEOREM SpecOfEachPart ==
    MCSpec => /\ StampsSpec /\ StartStopSpec /\ RegistrySpec /\ CsvRetentionSpec
              /\ TimeTextSpec /\ CondSleepSpec /\ ConversionsSpec
  <1>1. MCInit => /\ StampsInit /\ StartStopInit /\ RegistryInit /\ CsvRetentionInit
                  /\ TimeTextInit /\ CondSleepInit /\ ConversionsInit
    BY DEF MCInit
  <1>2. [MCNext]_<<part, partVars>> =>
           /\ [StampsNext]_stampsVars /\ [StartStopNext]_startStopVars
           /\ [RegistryNext]_registryVars /\ [CsvRetentionNext]_csvRetentionVars
           /\ [TimeTextNext]_timeTextVars /\ [CondSleepNext]_condSleepVars
           /\ [ConversionsNext]_conversionsVars
    BY PartsStep
  <1> QED
    BY <1>1, <1>2, PTL
       DEF MCSpec, StampsSpec, StartStopSpec, RegistrySpec, CsvRetentionSpec,
           TimeTextSpec, CondSleepSpec, ConversionsSpec

\* Every variable of the part that moves has its type.
THEOREM SpecPartsTypeOK == MCSpec => []PartsTypeOK
  <1> DEFINE Moves == part \in {"stamps", "start/stop", "registry", "csv", "text", "sleep", "util"}
  <1>1. MCInit => Moves
    BY DEF MCInit
  <1>2. Moves /\ [MCNext]_<<part, partVars>> => Moves'
    BY PartsStep
  <1>3. StampsInv => StampsTypeOK
    BY DEF StampsInv
  <1>4. CsvInv => CsvRetentionTypeOK
    BY DEF CsvInv
  <1>5. SleepInv => CondSleepTypeOK
    BY DEF SleepInv
  <1>7. CondSleepSpec => []SleepInv
    BY SleepInitInv, SleepNextInv, PTL DEF CondSleepSpec
  <1>8. /\ Moves /\ StampsTypeOK /\ StartStopTypeOK /\ RegistryTypeOK /\ CsvRetentionTypeOK
        /\ TimeTextTypeOK /\ CondSleepTypeOK /\ ConversionsTypeOK
        => PartsTypeOK
    BY DEF PartsTypeOK
  <1> QED
    BY <1>1, <1>2, <1>3, <1>4, <1>5, <1>7, <1>8, SpecOfEachPart, CsvSpecInv, StampsSpecInv,
       SpecStartStopTypeOK, SpecRegistryTypeOK, SpecTimeTextTypeOK, SpecConversionsTypeOK, PTL
       DEF MCSpec
=============================================================================
