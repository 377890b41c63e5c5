--------------------------- MODULE DownloadProofs ---------------------------
(***************************************************************************)
(* What downloads leave behind.  Of SourceDownload: three safety           *)
(* properties for every set of manifests, any number of lanes and inputs,  *)
(* and any bound on attempts and waits.  Of SchemaCatalog: ListedIsOnDisk  *)
(* for every set of schemas, every bound on requests and any number of     *)
(* runs over the same directory.                                           *)
(***************************************************************************)
EXTENDS SourceDownload, SchemaCatalog, FiniteSetTheorems, SequenceTheorems, TLAPS

-----------------------------------------------------------------------------
\* Remote sources and schemas (SourceDownload).

States == {"unborn", "ready", "asking", "sleeping", "failed", "done"}
Client == [state : States, url : Urls \cup {NoSource}, attempt : 0..MaxAttempts, wait : Nat]
Payload == [path : Locals \cup TempPaths, source : Sources]

\* A client with a download under way knows what it asked for and counts its attempts.
InDownload(c) == client[c].state \in {"asking", "sleeping"}
SetupAsks == InDownload(Setup) => /\ InHand /\ Source \in Urls /\ client[Setup].url = Source
                                  /\ ~Covered(Type) /\ fetched[Source] = NoPath
LaneAsks(l) == InDownload(l) => /\ next[l] <= Len(set.inputs[l])
                                /\ client[l].url = Current(l) /\ client[l].url \in Urls
AttemptsCounted == \A c \in Clients : InDownload(c) => client[c].attempt # 0

\* What was handed over is the input in its place, at a path nothing else is written to.
Delivered(l, i) ==
  /\ sent[l][i].source = set.inputs[l][i]
  /\ \/ sent[l][i].path = sent[l][i].source /\ sent[l][i].source \in Locals
     \/ /\ sent[l][i].path = InputPath(l, i) /\ InputPath(l, i) \in TempPaths
        /\ disk[InputPath(l, i)] = sent[l][i].source
AllDelivered ==
  \A l \in Lanes : next[l] = Len(sent[l]) + 1 /\ \A i \in DOMAIN sent[l] : Delivered(l, i)

\* No request counts as late before the flag is raised, and none after the next wait.
NoneLate ==
  \A c \in Clients :
    /\ ~shutdown => late[c] = 0
    /\ client[c].state = "sleeping" /\ client[c].wait = 0 => late[c] = 0

\* Who waits has an attempt left.
SleepersHaveOne == \A c \in Clients : client[c].state = "sleeping" => client[c].attempt < MaxAttempts

IInv == /\ TypeOK /\ SetupAsks /\ (\A l \in Lanes : LaneAsks(l)) /\ AttemptsCounted
        /\ SleepersHaveOne /\ AllDelivered /\ NoneLate /\ StopEndsRetries

-----------------------------------------------------------------------------
\* Facts about the constants.

\* Lanes are numbered from one, the set-up is client zero.
LEMMA LanesTyped == NumLanes \in Nat /\ Lanes \subseteq Nat \ {0} /\ Setup \notin Lanes
                    /\ Setup \in Clients /\ Lanes \subseteq Clients
BY DownloadAssumption DEF Lanes, Setup, Clients

\* The inputs of a lane are a sequence of sources.
LEMMA InputsTyped ==
  ASSUME TypeOK, NEW l \in Lanes
  PROVE  set.inputs[l] \in Seq(Sources)
BY DownloadAssumption DEF TypeOK

\* The set-up handles a type of a lane.
LEMMA HandTyped ==
  ASSUME TypeOK, InHand
  PROVE  /\ LaneOf(round) \in Lanes /\ item \in DOMAIN set.types[LaneOf(round)]
         /\ Type = set.types[LaneOf(round)][item] /\ Type \in Types /\ Source \in Sources
<1>1. LaneOf(round) \in Lanes /\ round \in Nat
  BY DownloadAssumption DEF TypeOK, InHand, LastRound, LaneOf, Global, Lanes
<1>2. set.types[LaneOf(round)] \in Seq(Types) /\ Source \in Sources \cup {NoSource}
  BY <1>1, DownloadAssumption DEF TypeOK, Source, SourceOf
<1>3. item \in DOMAIN set.types[LaneOf(round)]
  BY <1>2 DEF TypeOK, InHand, TypesOf
<1> QED
  BY <1>1, <1>2, <1>3 DEF InHand, Type, TypesOf

\* The file of a type is a temporary file.
LEMMA SchemaPathTyped ==
  ASSUME NEW t \in Types
  PROVE  SchemaPath(t) \in TempPaths
BY DEF TempPaths

\* The file of an input is a temporary file.
LEMMA InputPathTyped ==
  ASSUME TypeOK, NEW l \in Lanes, NEW i \in DOMAIN set.inputs[l]
  PROVE  InputPath(l, i) \in TempPaths
<1>1. i \in UNION {DOMAIN s.inputs[k] : s \in Settings, k \in Lanes}
  BY DEF TypeOK
<1> QED
  BY <1>1 DEF TempPaths

\* Paths of different owners differ.
LEMMA PathsApart ==
  /\ \A l \in Lanes : \A i, t : InputPath(l, i) # SchemaPath(t)
  /\ \A l, k, i, j : InputPath(l, i) = InputPath(k, j) => l = k /\ i = j
BY LanesTyped DEF InputPath, SchemaPath

\* A client without a download is a client.
LEMMA IdleTyped ==
  ASSUME NEW state \in States
  PROVE  /\ Idle(state) \in Client /\ Idle(state).state = state
         /\ Idle(state).wait = 0 /\ Idle(state).attempt = 0
BY DownloadAssumption DEF Idle, Client

\* There is a wait before every retry.
LEMMA DelayTyped ==
  ASSUME NEW attempt \in 1..MaxAttempts, NEW asked \in Asked
  PROVE  RetryDelay(attempt, asked) \in Nat \ {0}
BY BackoffAssumption, DownloadAssumption DEF RetryDelay

-----------------------------------------------------------------------------
\* What is under way is written to a path of its own.

Untouched == \A l \in Lanes : \A i \in DOMAIN sent[l] : disk'[InputPath(l, i)] = disk[InputPath(l, i)]
Contents == Urls \cup {NoFile, Torn}

\* A download goes to a temporary file that was not handed over.
LEMMA DestinationFresh ==
  ASSUME IInv, NEW c \in Clients, InDownload(c)
  PROVE  /\ Destination(c) \in TempPaths
         /\ \A l \in Lanes : \A i \in DOMAIN sent[l] : InputPath(l, i) # Destination(c)
<1>1. CASE c = Setup
  <2>1. Type \in Types /\ Destination(c) = SchemaPath(Type)
    BY <1>1, HandTyped DEF IInv, SetupAsks, Destination
  <2> QED
    BY <2>1, SchemaPathTyped, PathsApart
<1>2. CASE c # Setup
  <2>1. c \in Lanes /\ Destination(c) = InputPath(c, next[c])
    BY <1>2 DEF Clients, Destination
  <2>2. next[c] \in DOMAIN set.inputs[c]
    <3>1. set.inputs[c] \in Seq(Sources) /\ next[c] <= Len(set.inputs[c]) /\ next[c] \in Nat
      BY <2>1, InputsTyped DEF IInv, LaneAsks, TypeOK
    <3>2. next[c] >= 1
      BY <2>1 DEF IInv, AllDelivered, TypeOK
    <3> QED
      BY <3>1, <3>2
  <2>3. ASSUME NEW l \in Lanes, NEW i \in DOMAIN sent[l]
        PROVE  InputPath(l, i) # Destination(c)
    <3>1. sent[l] \in Seq(Payload) /\ next[l] = Len(sent[l]) + 1
      BY DEF IInv, TypeOK, AllDelivered, Payload
    <3>2. i # next[l]
      BY <2>3, <3>1
    <3> QED
      BY <2>1, <3>2, PathsApart
  <2> QED
    BY <2>1, <2>2, <2>3, InputPathTyped DEF IInv
<1> QED
  BY <1>1, <1>2

\* A write to such a path leaves everything that was handed over.
LEMMA WriteApart ==
  ASSUME IInv, NEW c \in Clients, InDownload(c), NEW v \in Contents,
         disk' = [disk EXCEPT ![Destination(c)] = v]
  PROVE  disk' \in [TempPaths -> Contents] /\ Untouched
<1>1. /\ Destination(c) \in TempPaths
      /\ \A l \in Lanes : \A i \in DOMAIN sent[l] : InputPath(l, i) # Destination(c)
  BY DestinationFresh
<1>2. disk \in [TempPaths -> Contents]
  BY DEF IInv, TypeOK, Contents
<1>3. disk' \in [TempPaths -> Contents]
  BY <1>1, <1>2
<1>4. \A p : p # Destination(c) => disk'[p] = disk[p]
  BY <1>1, <1>2
<1> QED
  BY <1>1, <1>3, <1>4 DEF Untouched

\* What was handed over stays so while its files stay.
LEMMA DeliveredKept ==
  ASSUME IInv, UNCHANGED <<set, next, sent>>, Untouched
  PROVE  AllDelivered'
BY DEF IInv, AllDelivered, Delivered, Untouched

\* What the set-up asks for stays while nothing moves on.
LEMMA SetupAsksKept ==
  ASSUME SetupAsks, UNCHANGED <<set, round, item, byType, fetched>>,
         InDownload(Setup)' => InDownload(Setup) /\ client'[Setup].url = client[Setup].url
  PROVE  SetupAsks'
BY DEF SetupAsks, InHand, Source, SourceOf, Type, TypesOf, LaneOf, Global, Covered

\* A client that ends, in failure or not, with all else as it was.
LEMMA ClientEnds ==
  ASSUME IInv, NEW c \in Clients, NEW state \in {"failed", "done"},
         client' = [client EXCEPT ![c] = Idle(state)],
         UNCHANGED <<set, round, item, byType, fetched, next, sent, shutdown, late>>,
         disk' \in [TempPaths -> Contents], Untouched
  PROVE  IInv'
<1>1. Idle(state) \in Client /\ Idle(state).state = state
  BY IdleTyped DEF States
<1>2. client \in [Clients -> Client]
  BY DEF IInv, TypeOK, Client, States
<1>3. client' \in [Clients -> Client] /\ client'[c].state = state /\ \A d \in Clients : d # c => client'[d] = client[d]
  BY <1>1, <1>2
<1>4. TypeOK'
  BY <1>3 DEF IInv, TypeOK, Client, States, Contents
<1>5. SetupAsks' /\ (\A l \in Lanes : LaneAsks(l))' /\ AttemptsCounted'
  <2>1. SetupAsks'
    BY <1>3, LanesTyped, SetupAsksKept DEF IInv, InDownload
  <2> QED
    BY <1>3, <2>1, LanesTyped DEF IInv, LaneAsks, AttemptsCounted, InDownload, Current
<1>6. NoneLate' /\ StopEndsRetries' /\ SleepersHaveOne'
  BY <1>3 DEF IInv, NoneLate, StopEndsRetries, SleepersHaveOne
<1> QED
  BY <1>4, <1>5, <1>6, DeliveredKept DEF IInv

\* The same disk leaves what was handed over.
LEMMA SameDisk ==
  ASSUME IInv, UNCHANGED disk
  PROVE  disk' \in [TempPaths -> Contents] /\ Untouched
BY DEF IInv, TypeOK, Contents, Untouched

-----------------------------------------------------------------------------
\* Every step keeps the invariant.

\* Nothing has been asked for or handed over at the start.
LEMMA InitIInv == Init => IInv
<1> SUFFICES ASSUME Init PROVE IInv
  OBVIOUS
<1>1. client \in [Clients -> Client] /\ \A c \in Clients : client[c].state \in {"ready", "unborn"}
  BY IdleTyped DEF Init, States
<1>2. TypeOK
  <2>1. set \in Settings /\ round \in 1..LastRound + 1 /\ item \in Nat \ {0}
    BY DownloadAssumption DEF Init, LastRound
  <2>2. /\ byType \in [Types -> Locals \cup TempPaths \cup {NoPath}]
        /\ fetched \in [Urls -> TempPaths \cup {NoPath}]
        /\ disk \in [TempPaths -> Urls \cup {NoFile, Torn}]
    BY DEF Init
  <2>3. next \in [Lanes -> Nat] /\ late \in [Clients -> Nat] /\ shutdown \in BOOLEAN
    BY DEF Init
  <2>4. sent \in [Lanes -> Seq(Payload)]
    BY DEF Init
  <2> QED
    BY <1>1, <2>1, <2>2, <2>3, <2>4 DEF TypeOK, Client, States, Payload
<1>3. AllDelivered
  BY DEF Init, AllDelivered
<1>4. SetupAsks /\ (\A l \in Lanes : LaneAsks(l)) /\ AttemptsCounted
  BY <1>1, LanesTyped DEF SetupAsks, LaneAsks, AttemptsCounted, InDownload
<1>5. NoneLate /\ StopEndsRetries /\ SleepersHaveOne
  BY <1>1 DEF Init, NoneLate, StopEndsRetries, SleepersHaveOne
<1> QED
  BY <1>2, <1>3, <1>4, <1>5 DEF IInv

\* The flag alone makes no request late.
LEMMA ShutdownStep ==
  ASSUME IInv, RaiseShutdown
  PROVE  IInv'
<1>1. AllDelivered'
  BY DeliveredKept, SameDisk DEF RaiseShutdown
<1>2. SetupAsks'
  BY SetupAsksKept DEF RaiseShutdown, IInv, InDownload
<1> QED
  BY <1>1, <1>2 DEF RaiseShutdown, IInv, TypeOK, LaneAsks, AttemptsCounted, InDownload,
              Current, NoneLate, StopEndsRetries, SleepersHaveOne

\* A download that fails, whatever it leaves on disk.
LEMMA FailStep ==
  ASSUME IInv, NEW c \in Clients, DownloadFails(c) \/ WriteFails(c) \/ SleepCutShort(c)
  PROVE  IInv'
<1>1. CASE DownloadFails(c) \/ SleepCutShort(c)
  BY <1>1, ClientEnds, SameDisk DEF DownloadFails, SleepCutShort
<1>2. CASE WriteFails(c)
  <2>1. InDownload(c)
    BY <1>2 DEF WriteFails, Asking, InDownload
  <2>2. PICK left \in {disk[Destination(c)], Torn} : disk' = [disk EXCEPT ![Destination(c)] = left]
    BY <1>2 DEF WriteFails
  <2>3. left \in Contents
    BY <2>1, <2>2, DestinationFresh DEF IInv, TypeOK, Contents
  <2>4. disk' \in [TempPaths -> Contents] /\ Untouched
    BY <2>1, <2>2, <2>3, WriteApart
  <2> QED
    BY <1>2, <2>4, ClientEnds DEF WriteFails
<1> QED
  BY <1>1, <1>2

\* A client that goes on with its download keeps what it asks for.
LEMMA ClientGoesOn ==
  ASSUME IInv, NEW c \in Clients, InDownload(c),
         NEW r \in Client, client' = [client EXCEPT ![c] = r],
         r.state \in {"asking", "sleeping"}, r.url = client[c].url, r.attempt # 0,
         r.state = "sleeping" => r.attempt < MaxAttempts,
         NEW n \in Nat, late' = [late EXCEPT ![c] = n], n <= 1, ~shutdown => n = 0,
         r.state = "sleeping" /\ r.wait = 0 => n = 0,
         UNCHANGED <<set, round, item, byType, fetched, next, sent, disk, shutdown>>
  PROVE  IInv'
<1>1. client \in [Clients -> Client] /\ late \in [Clients -> Nat]
  BY DEF IInv, TypeOK, Client, States
<1>2. client' \in [Clients -> Client] /\ client'[c] = r /\ \A d \in Clients : d # c => client'[d] = client[d]
  BY <1>1
<1>3. late' \in [Clients -> Nat] /\ late'[c] = n /\ \A d \in Clients : d # c => late'[d] = late[d]
  BY <1>1
<1>4. TypeOK'
  BY <1>2, <1>3 DEF IInv, TypeOK, Client, States
<1>5. SetupAsks'
  <2>1. client'[Setup].url = client[Setup].url /\ (InDownload(Setup)' => InDownload(Setup))
    BY <1>2, LanesTyped DEF InDownload
  <2> QED
    BY <2>1, SetupAsksKept DEF IInv
<1>6. ASSUME NEW l \in Lanes PROVE LaneAsks(l)'
  <2>1. client'[l].url = client[l].url /\ (InDownload(l)' => InDownload(l))
    BY <1>2, LanesTyped DEF InDownload
  <2> QED
    BY <2>1 DEF IInv, LaneAsks, Current
<1>7. AttemptsCounted' /\ SleepersHaveOne'
  BY <1>2 DEF IInv, AttemptsCounted, SleepersHaveOne, InDownload
<1>8. NoneLate' /\ StopEndsRetries'
  BY <1>2, <1>3 DEF IInv, NoneLate, StopEndsRetries
<1>9. AllDelivered'
  BY DeliveredKept, SameDisk
<1> QED
  BY <1>4, <1>5, <1>6, <1>7, <1>8, <1>9 DEF IInv

\* A client that waits, sleeps on or asks again.
LEMMA RetryStep ==
  ASSUME IInv, NEW c \in Clients, TransientAnswer(c) \/ SleepSlice(c) \/ AskAgain(c)
  PROVE  IInv'
<1> DEFINE old == client[c]
<1>1. old \in Client /\ late \in [Clients -> Nat] /\ late[c] <= 1 /\ (~shutdown => late[c] = 0)
  BY DEF IInv, TypeOK, Client, States, NoneLate, StopEndsRetries
<1>2. InDownload(c)
  BY DEF InDownload, TransientAnswer, SleepSlice, AskAgain, Asking
<1>3. old.attempt \in 1..MaxAttempts
  <2>1. old.attempt \in 0..MaxAttempts /\ old.attempt # 0
    BY <1>1, <1>2 DEF IInv, AttemptsCounted, Client
  <2> QED
    BY <2>1, DownloadAssumption
<1>4. CASE TransientAnswer(c)
  <2>1. PICK asked \in Asked :
          client' = [client EXCEPT ![c] =
            [@ EXCEPT !.state = "sleeping", !.wait = RetryDelay(client[c].attempt, asked)]]
    BY <1>4 DEF TransientAnswer
  <2> DEFINE r == [old EXCEPT !.state = "sleeping", !.wait = RetryDelay(old.attempt, asked)]
  <2>2. RetryDelay(old.attempt, asked) \in Nat \ {0}
    BY <1>3, DelayTyped
  <2>3. r \in Client /\ r.state = "sleeping" /\ r.wait # 0 /\ r.url = old.url /\ r.attempt = old.attempt
    BY <1>1, <2>2 DEF Client, States
  <2>4. late' = [late EXCEPT ![c] = late[c]] /\ old.attempt < MaxAttempts
    BY <1>1, <1>4 DEF TransientAnswer
  <2>5. client' = [client EXCEPT ![c] = r] /\ late[c] \in Nat
    BY <1>1, <2>1
  <2>6. UNCHANGED <<set, round, item, byType, fetched, next, sent, disk, shutdown>>
    BY <1>4 DEF TransientAnswer
  <2> HIDE DEF r
  <2>7. r.attempt # 0
    BY <1>3, <2>3
  <2> QED
    BY <1>1, <1>2, <2>3, <2>4, <2>5, <2>6, <2>7, ClientGoesOn
<1>5. CASE SleepSlice(c)
  <2> DEFINE r == [old EXCEPT !.wait = old.wait - 1]
  <2>1. old.state = "sleeping" /\ old.wait > 0 /\ ~shutdown /\ client' = [client EXCEPT ![c] = r]
    BY <1>5 DEF SleepSlice
  <2>2. r \in Client /\ r.state = "sleeping" /\ r.url = old.url /\ r.attempt = old.attempt
    BY <1>1, <2>1 DEF Client, States
  <2>3. old.attempt < MaxAttempts /\ late[c] = 0
    BY <1>1, <2>1 DEF IInv, SleepersHaveOne
  <2>4. /\ late' = [late EXCEPT ![c] = late[c]] /\ late[c] \in Nat
        /\ UNCHANGED <<set, round, item, byType, fetched, next, sent, disk, shutdown>>
    BY <1>1, <1>5 DEF SleepSlice
  <2> HIDE DEF r
  <2>5. r.attempt # 0
    BY <1>3, <2>2
  <2> QED
    BY <1>1, <1>2, <2>1, <2>2, <2>3, <2>4, <2>5, ClientGoesOn
<1>6. CASE AskAgain(c)
  <2> DEFINE r == [old EXCEPT !.state = "asking", !.attempt = old.attempt + 1]
             n == IF shutdown THEN late[c] + 1 ELSE 0
  <2>1. /\ old.state = "sleeping" /\ old.wait = 0
        /\ client' = [client EXCEPT ![c] = r] /\ late' = [late EXCEPT ![c] = n]
        /\ UNCHANGED <<set, round, item, byType, fetched, next, sent, disk, shutdown>>
    BY <1>6 DEF AskAgain
  <2>2. old.attempt < MaxAttempts /\ late[c] = 0
    BY <2>1 DEF IInv, SleepersHaveOne, NoneLate
  <2>3. r \in Client /\ r.state = "asking" /\ r.url = old.url /\ r.attempt = old.attempt + 1
    <3>1. old.attempt + 1 \in 0..MaxAttempts
      BY <1>3, <2>2, DownloadAssumption
    <3> QED
      BY <1>1, <3>1 DEF Client, States
  <2>4. n \in Nat /\ n <= 1 /\ (~shutdown => n = 0)
    BY <2>2
  <2> HIDE DEF r, n
  <2>5. r.attempt # 0
    BY <1>3, <2>3
  <2> QED
    BY <1>2, <2>1, <2>3, <2>4, <2>5, ClientGoesOn
<1> QED
  BY <1>4, <1>5, <1>6

-----------------------------------------------------------------------------
\* The set-up between two downloads.
LEMMA SetupRests ==
  ASSUME IInv, TypeOK', client[Setup].state = "ready",
         UNCHANGED <<set, next, sent, disk, client, shutdown, late>>
  PROVE  IInv'
<1>1. SetupAsks'
  BY DEF SetupAsks, InDownload
<1>2. (\A l \in Lanes : LaneAsks(l))' /\ AttemptsCounted'
  BY DEF IInv, LaneAsks, AttemptsCounted, InDownload, Current
<1>3. NoneLate' /\ StopEndsRetries' /\ SleepersHaveOne'
  BY DEF IInv, NoneLate, StopEndsRetries, SleepersHaveOne
<1>4. AllDelivered'
  BY DeliveredKept, SameDisk
<1> QED
  BY <1>1, <1>2, <1>3, <1>4 DEF IInv

\* A binding that needs no request.
LEMMA BindKnownStep ==
  ASSUME IInv, BindKnown
  PROVE  IInv'
<1>1. Type \in Types /\ InHand
  BY HandTyped DEF IInv, BindKnown, Binding
<1>2. byType' \in [Types -> Locals \cup TempPaths \cup {NoPath}]
  <2>1. byType \in [Types -> Locals \cup TempPaths \cup {NoPath}]
    BY DEF IInv, TypeOK
  <2>2. Source \in Urls => fetched[Source] \in TempPaths \cup {NoPath}
    BY DEF IInv, TypeOK
  <2> QED
    BY <1>1, <2>1, <2>2 DEF BindKnown
<1>3. UNCHANGED <<set, fetched, next, sent, disk, client, shutdown, late>>
  BY DEF BindKnown
<1>4. UNCHANGED round /\ item' \in Nat \ {0}
  BY DEF IInv, TypeOK, BindKnown, NextItem
<1>5. TypeOK'
  BY <1>2, <1>3, <1>4 DEF IInv, TypeOK, LastRound
<1> QED
  BY <1>3, <1>5, SetupRests DEF BindKnown, Binding

\* The set-up goes on to the next lane.
LEMMA NextRoundStep ==
  ASSUME IInv, NextRound
  PROVE  IInv'
<1>1. round' \in 1..LastRound + 1 /\ item' \in Nat \ {0}
  BY DownloadAssumption DEF IInv, TypeOK, NextRound, LastRound
<1>2. TypeOK'
  BY <1>1 DEF IInv, TypeOK, NextRound, LastRound
<1> QED
  BY <1>2, SetupRests DEF NextRound

\* The first request of a download.
LEMMA BeginStep ==
  ASSUME IInv, NEW c \in Clients, NEW url \in Urls, Begin(c, url),
         UNCHANGED <<set, round, item, byType, fetched, next, sent, disk, shutdown>>,
         c = Setup => InHand /\ Source = url /\ ~Covered(Type) /\ fetched[url] = NoPath,
         c \in Lanes => next[c] <= Len(set.inputs[c]) /\ url = Current(c)
  PROVE  IInv'
<1> DEFINE r == [state |-> "asking", url |-> url, attempt |-> 1, wait |-> 0]
           n == IF shutdown THEN 1 ELSE 0
<1>1. r \in Client /\ r.state = "asking" /\ r.url = url /\ r.attempt = 1
  BY DownloadAssumption DEF Client, States
<1>2. n \in Nat /\ n <= 1 /\ (~shutdown => n = 0)
  OBVIOUS
<1>3. client \in [Clients -> Client] /\ late \in [Clients -> Nat]
  BY DEF IInv, TypeOK, Client, States
<1>4. client' = [client EXCEPT ![c] = r] /\ late' = [late EXCEPT ![c] = n]
  BY DEF Begin
<1> HIDE DEF r, n
<1>5. client' \in [Clients -> Client] /\ client'[c] = r /\ \A d \in Clients : d # c => client'[d] = client[d]
  BY <1>1, <1>3, <1>4
<1>6. late' \in [Clients -> Nat] /\ late'[c] = n /\ \A d \in Clients : d # c => late'[d] = late[d]
  BY <1>2, <1>3, <1>4
<1>7. TypeOK'
  BY <1>5, <1>6 DEF IInv, TypeOK, Client, States
<1>8. SetupAsks'
  <2>1. CASE c = Setup
    <3>1. InHand' /\ Source' = Source /\ (~Covered(Type))'
      BY <2>1 DEF InHand, Source, SourceOf, Type, TypesOf, LaneOf, Global, Covered
    <3> QED
      BY <1>1, <1>5, <2>1, <3>1 DEF SetupAsks
  <2>2. CASE c # Setup
    BY <1>5, <2>2, LanesTyped, SetupAsksKept DEF IInv, InDownload
  <2> QED
    BY <2>1, <2>2
<1>9. ASSUME NEW l \in Lanes PROVE LaneAsks(l)'
  BY <1>1, <1>5, LanesTyped DEF IInv, LaneAsks, InDownload, Current
<1>10. AttemptsCounted' /\ SleepersHaveOne'
  BY <1>1, <1>5 DEF IInv, AttemptsCounted, SleepersHaveOne, InDownload
<1>11. NoneLate' /\ StopEndsRetries'
  BY <1>1, <1>2, <1>5, <1>6 DEF IInv, NoneLate, StopEndsRetries
<1>12. AllDelivered'
  BY DeliveredKept, SameDisk
<1> QED
  BY <1>7, <1>8, <1>9, <1>10, <1>11, <1>12 DEF IInv

\* The set-up asks for the source of the binding in hand.
LEMMA BindRemoteStep ==
  ASSUME IInv, BindRemote
  PROVE  IInv'
<1>1. /\ Source \in Urls /\ Begin(Setup, Source)
      /\ InHand /\ ~Covered(Type) /\ fetched[Source] = NoPath
  BY DEF BindRemote, Binding
<1>2. UNCHANGED <<set, round, item, byType, fetched, next, sent, disk, shutdown>>
  BY DEF BindRemote
<1> QED
  BY <1>1, <1>2, LanesTyped, BeginStep

\* A collector asks for its current input.
LEMMA CollectRemoteStep ==
  ASSUME IInv, NEW l \in Lanes, CollectRemote(l)
  PROVE  IInv'
<1>1. Current(l) \in Urls /\ Begin(l, Current(l)) /\ next[l] <= Len(set.inputs[l])
  BY DEF CollectRemote, Collecting
<1>2. UNCHANGED <<set, round, item, byType, fetched, next, sent, disk, shutdown>>
  BY DEF CollectRemote
<1> QED
  BY <1>1, <1>2, LanesTyped, BeginStep

\* Setup is the client of the schemas.
LEMMA SchemaArrivesStep ==
  ASSUME IInv, SchemaArrives
  PROVE  IInv'
<1>1. InDownload(Setup) /\ InHand /\ Source \in Urls
  BY DEF SchemaArrives, Asking, InDownload, IInv, SetupAsks
<1>2. UNCHANGED round /\ item' \in Nat \ {0}
  BY DEF IInv, TypeOK, SchemaArrives, NextItem
<1>3. SchemaPath(Type) \in TempPaths /\ Type \in Types
  BY <1>1, HandTyped, SchemaPathTyped DEF IInv
<1>4. disk' \in [TempPaths -> Contents] /\ Untouched
  BY <1>1, LanesTyped, WriteApart DEF SchemaArrives, Destination, Contents
<1>5. /\ byType' \in [Types -> Locals \cup TempPaths \cup {NoPath}]
      /\ fetched' \in [Urls -> TempPaths \cup {NoPath}]
  <2>1. /\ byType \in [Types -> Locals \cup TempPaths \cup {NoPath}]
        /\ fetched \in [Urls -> TempPaths \cup {NoPath}]
    BY DEF IInv, TypeOK
  <2>2. /\ byType' = [byType EXCEPT ![Type] = SchemaPath(Type)]
        /\ fetched' = [fetched EXCEPT ![Source] = SchemaPath(Type)]
    BY DEF SchemaArrives
  <2> QED
    BY <1>1, <1>3, <2>1, <2>2
<1>6. UNCHANGED <<set, next, sent, shutdown, late>> /\ client' = [client EXCEPT ![Setup] = Idle("ready")]
  BY DEF SchemaArrives
<1>7. Idle("ready") \in Client /\ Idle("ready").state = "ready"
  BY IdleTyped DEF States
<1>8. client \in [Clients -> Client]
  BY DEF IInv, TypeOK, Client, States
<1>9. /\ client' \in [Clients -> Client] /\ client'[Setup].state = "ready"
      /\ \A d \in Clients : d # Setup => client'[d] = client[d]
  BY <1>6, <1>7, <1>8, LanesTyped
<1>10. TypeOK'
  BY <1>2, <1>4, <1>5, <1>6, <1>9 DEF IInv, TypeOK, Client, States, Contents, LastRound
<1>11. SetupAsks' /\ (\A l \in Lanes : LaneAsks(l))' /\ AttemptsCounted'
  BY <1>6, <1>9, LanesTyped DEF IInv, SetupAsks, LaneAsks, AttemptsCounted, InDownload, Current
<1>12. NoneLate' /\ StopEndsRetries' /\ SleepersHaveOne'
  BY <1>6, <1>9 DEF IInv, NoneLate, StopEndsRetries, SleepersHaveOne
<1>13. AllDelivered'
  BY <1>4, <1>6, DeliveredKept
<1> QED
  BY <1>10, <1>11, <1>12, <1>13 DEF IInv

\* The collectors start without a download.
LEMMA StartLanesStep ==
  ASSUME IInv, StartLanes
  PROVE  IInv'
<1>1. client' = [c \in Clients |-> Idle(IF c = Setup THEN "done" ELSE "ready")]
      /\ UNCHANGED <<set, round, item, byType, fetched, next, sent, disk, shutdown, late>>
  BY DEF StartLanes
<1>2. client' \in [Clients -> Client] /\ \A c \in Clients : client'[c].state \in {"done", "ready"}
  BY <1>1, IdleTyped DEF States
<1>3. TypeOK'
  BY <1>1, <1>2 DEF IInv, TypeOK, Client, States
<1>4. SetupAsks' /\ (\A l \in Lanes : LaneAsks(l))' /\ AttemptsCounted'
  BY <1>2, LanesTyped DEF SetupAsks, LaneAsks, AttemptsCounted, InDownload
<1>5. NoneLate' /\ StopEndsRetries' /\ SleepersHaveOne'
  BY <1>1, <1>2 DEF IInv, NoneLate, StopEndsRetries, SleepersHaveOne
<1>6. AllDelivered'
  BY <1>1, DeliveredKept, SameDisk
<1> QED
  BY <1>3, <1>4, <1>5, <1>6 DEF IInv

\* Handing over one more input, once its file is there, keeps what was handed over.
LEMMA HandOverKeeps ==
  ASSUME IInv, NEW l \in Lanes, NEW path \in Locals \cup TempPaths, HandOver(l, path), UNCHANGED set,
         next[l] <= Len(set.inputs[l]), Untouched,
         \/ path = Current(l) /\ Current(l) \in Locals
         \/ path = InputPath(l, next[l]) /\ path \in TempPaths /\ disk'[path] = Current(l)
  PROVE  /\ AllDelivered' /\ next' \in [Lanes -> Nat] /\ sent' \in [Lanes -> Seq(Payload)]
         /\ \A k \in Lanes : k # l => next'[k] = next[k]
<1> DEFINE p == [path |-> path, source |-> Current(l)]
<1>1. set.inputs[l] \in Seq(Sources) /\ sent \in [Lanes -> Seq(Payload)] /\ next \in [Lanes -> Nat]
  BY InputsTyped DEF IInv, TypeOK, Payload
<1>2. next[l] = Len(sent[l]) + 1 /\ sent[l] \in Seq(Payload)
  BY <1>1 DEF IInv, AllDelivered
<1>3. Current(l) \in Sources
  BY <1>1, <1>2 DEF Current
<1>4. p \in Payload /\ p.source = Current(l) /\ p.path = path
  BY <1>3 DEF Payload
<1>5. sent' = [sent EXCEPT ![l] = Append(sent[l], p)] /\ next' = [next EXCEPT ![l] = next[l] + 1]
  BY DEF HandOver
<1> HIDE DEF p
<1>6. /\ Append(sent[l], p) \in Seq(Payload) /\ Len(Append(sent[l], p)) = Len(sent[l]) + 1
      /\ Append(sent[l], p)[Len(sent[l]) + 1] = p
      /\ \A i \in DOMAIN sent[l] : Append(sent[l], p)[i] = sent[l][i]
  BY <1>2, <1>4, AppendProperties
<1>7. /\ sent' \in [Lanes -> Seq(Payload)] /\ next' \in [Lanes -> Nat]
      /\ sent'[l] = Append(sent[l], p) /\ next'[l] = next[l] + 1
      /\ \A k \in Lanes : k # l => sent'[k] = sent[k] /\ next'[k] = next[k]
  BY <1>1, <1>5, <1>6
<1>8. ASSUME NEW k \in Lanes, k # l
      PROVE  next'[k] = Len(sent'[k]) + 1 /\ \A i \in DOMAIN sent'[k] : Delivered(k, i)'
  <2>1. sent'[k] = sent[k] /\ next'[k] = next[k]
    BY <1>7, <1>8
  <2>2. ASSUME NEW i \in DOMAIN sent[k] PROVE Delivered(k, i)'
    <3>1. Delivered(k, i) /\ disk'[InputPath(k, i)] = disk[InputPath(k, i)]
      BY DEF IInv, AllDelivered, Untouched
    <3> QED
      BY <2>1, <3>1 DEF Delivered
  <2> QED
    BY <2>1, <2>2 DEF IInv, AllDelivered
<1>9. ASSUME NEW i \in DOMAIN sent'[l]
      PROVE  Delivered(l, i)'
  <2>1. i \in 1..(Len(sent[l]) + 1)
    BY <1>6, <1>7
  <2>2. CASE i = Len(sent[l]) + 1
    <3>1. i = next[l] /\ sent'[l][i] = p
      BY <1>2, <1>6, <1>7, <2>2
    <3> QED
      BY <1>4, <3>1 DEF Delivered, Current
  <2>3. CASE i # Len(sent[l]) + 1
    <3>1. i \in DOMAIN sent[l]
      BY <1>2, <2>1, <2>3
    <3>2. sent'[l][i] = sent[l][i] /\ disk'[InputPath(l, i)] = disk[InputPath(l, i)] /\ Delivered(l, i)
      BY <1>6, <1>7, <3>1 DEF IInv, AllDelivered, Untouched
    <3> QED
      BY <3>2 DEF Delivered
  <2> QED
    BY <2>2, <2>3
<1>10. next'[l] = Len(sent'[l]) + 1
  BY <1>2, <1>6, <1>7
<1> QED
  BY <1>7, <1>8, <1>9, <1>10 DEF AllDelivered

\* A local input is handed over under its own name.
LEMMA CollectLocalStep ==
  ASSUME IInv, NEW l \in Lanes, CollectLocal(l)
  PROVE  IInv'
<1>1. /\ Current(l) \in Locals /\ next[l] <= Len(set.inputs[l]) /\ HandOver(l, Current(l))
      /\ client[l].state = "ready"
      /\ UNCHANGED <<set, round, item, byType, fetched, disk, client, shutdown, late>>
  BY DEF CollectLocal, Collecting
<1>2. /\ AllDelivered' /\ next' \in [Lanes -> Nat] /\ sent' \in [Lanes -> Seq(Payload)]
      /\ \A k \in Lanes : k # l => next'[k] = next[k]
  BY <1>1, SameDisk, HandOverKeeps
<1>3. TypeOK'
  BY <1>1, <1>2 DEF IInv, TypeOK, Payload
<1>4. SetupAsks' /\ AttemptsCounted' /\ SleepersHaveOne' /\ NoneLate' /\ StopEndsRetries'
  BY <1>1, SetupAsksKept DEF IInv, AttemptsCounted, SleepersHaveOne, NoneLate, StopEndsRetries, InDownload
<1>5. ASSUME NEW k \in Lanes PROVE LaneAsks(k)'
  BY <1>1, <1>2 DEF IInv, LaneAsks, InDownload, Current
<1> QED
  BY <1>2, <1>3, <1>4, <1>5 DEF IInv

\* A downloaded input is handed over at the path it was written to.
LEMMA InputArrivesStep ==
  ASSUME IInv, NEW l \in Lanes, InputArrives(l)
  PROVE  IInv'
<1>1. /\ HandOver(l, Destination(l)) /\ disk' = [disk EXCEPT ![Destination(l)] = client[l].url]
      /\ client' = [client EXCEPT ![l] = Idle("ready")]
      /\ UNCHANGED <<set, round, item, byType, fetched, shutdown, late>>
  BY DEF InputArrives
<1>2. InDownload(l) /\ l \in Clients /\ l # Setup
  BY LanesTyped DEF InputArrives, Asking, InDownload
<1>3. next[l] <= Len(set.inputs[l]) /\ client[l].url = Current(l) /\ client[l].url \in Contents
  BY <1>2 DEF IInv, LaneAsks, Contents
<1>4. disk' \in [TempPaths -> Contents] /\ Untouched /\ Destination(l) \in TempPaths
  BY <1>1, <1>2, <1>3, WriteApart, DestinationFresh
<1>5. Destination(l) = InputPath(l, next[l]) /\ disk'[Destination(l)] = Current(l)
  <2>1. disk \in [TempPaths -> Contents]
    BY DEF IInv, TypeOK, Contents
  <2>2. disk'[Destination(l)] = client[l].url
    BY <1>1, <1>4, <2>1
  <2> QED
    BY <1>2, <1>3, <2>2 DEF Destination
<1>6. /\ AllDelivered' /\ next' \in [Lanes -> Nat] /\ sent' \in [Lanes -> Seq(Payload)]
      /\ \A k \in Lanes : k # l => next'[k] = next[k]
  <2>1. HandOver(l, InputPath(l, next[l])) /\ UNCHANGED set /\ InputPath(l, next[l]) \in TempPaths
        /\ disk'[InputPath(l, next[l])] = Current(l)
    BY <1>1, <1>4, <1>5
  <2> QED
    BY <1>3, <1>4, <2>1, HandOverKeeps
<1>7. Idle("ready") \in Client /\ Idle("ready").state = "ready"
  BY IdleTyped DEF States
<1>8. client \in [Clients -> Client]
  BY DEF IInv, TypeOK, Client, States
<1>9. /\ client' \in [Clients -> Client] /\ client'[l].state = "ready"
      /\ \A d \in Clients : d # l => client'[d] = client[d]
  BY <1>1, <1>2, <1>7, <1>8
<1>10. TypeOK'
  BY <1>1, <1>4, <1>6, <1>9 DEF IInv, TypeOK, Client, States, Contents, Payload
<1>11. SetupAsks' /\ AttemptsCounted'
  BY <1>1, <1>2, <1>9, LanesTyped, SetupAsksKept DEF IInv, AttemptsCounted, InDownload
<1>12. ASSUME NEW k \in Lanes PROVE LaneAsks(k)'
  BY <1>1, <1>6, <1>9, LanesTyped DEF IInv, LaneAsks, InDownload, Current
<1>13. NoneLate' /\ StopEndsRetries' /\ SleepersHaveOne'
  BY <1>1, <1>9 DEF IInv, NoneLate, StopEndsRetries, SleepersHaveOne
<1> QED
  BY <1>6, <1>10, <1>11, <1>12, <1>13 DEF IInv

\* A payload nobody takes ends the collector.
LEMMA SendFailsStep ==
  ASSUME IInv, NEW l \in Lanes, SendFails(l)
  PROVE  IInv'
<1>1. disk' \in [TempPaths -> Contents] /\ Untouched
  <2>1. CASE UNCHANGED disk
    BY <2>1, SameDisk
  <2>2. CASE Asking(l) /\ disk' = [disk EXCEPT ![Destination(l)] = client[l].url]
    <3>1. InDownload(l) /\ l \in Clients
      BY <2>2, LanesTyped DEF Asking, InDownload
    <3>2. client[l].url \in Contents
      BY <3>1 DEF IInv, LaneAsks, Contents
    <3> QED
      BY <2>2, <3>1, <3>2, WriteApart
  <2> QED
    BY <2>1, <2>2 DEF SendFails
<1> QED
  BY <1>1, LanesTyped, ClientEnds DEF SendFails

\* A collector past its last input ends.
LEMMA CollectEndsStep ==
  ASSUME IInv, NEW l \in Lanes, CollectEnds(l)
  PROVE  IInv'
BY LanesTyped, SameDisk, ClientEnds DEF CollectEnds

-----------------------------------------------------------------------------
\* Every step of a download under way.
LEMMA DownloadingStep ==
  ASSUME IInv, NEW c \in Clients, Downloading(c)
  PROVE  IInv'
BY FailStep, RetryStep DEF Downloading

\* Every step of the specification.
LEMMA NextStep ==
  ASSUME IInv, [Next]_vars
  PROVE  IInv'
<1>1. CASE UNCHANGED vars
  <2>1. AllDelivered'
    BY <1>1, DeliveredKept, SameDisk DEF vars
  <2>2. SetupAsks'
    BY <1>1, SetupAsksKept DEF vars, IInv, InDownload
  <2> QED
    BY <1>1, <2>1, <2>2 DEF vars, IInv, TypeOK, LaneAsks, AttemptsCounted, InDownload,
                      Current, NoneLate, StopEndsRetries, SleepersHaveOne
<1>2. CASE RaiseShutdown
  BY <1>2, ShutdownStep
<1>3. CASE SetupStep
  BY <1>3, LanesTyped, BindKnownStep, BindRemoteStep, SchemaArrivesStep, NextRoundStep, StartLanesStep, DownloadingStep
     DEF SetupStep
<1>4. ASSUME NEW l \in Lanes, LaneStep(l) PROVE IInv'
  BY <1>4, LanesTyped, CollectLocalStep, CollectRemoteStep, InputArrivesStep, SendFailsStep,
     CollectEndsStep, DownloadingStep DEF LaneStep
<1> QED
  BY <1>1, <1>2, <1>3, <1>4 DEF Next, Rest

\* The invariant holds in every reachable state.
LEMMA Invariance == Spec => []IInv
<1>1. IInv /\ [Next]_vars => IInv'
  BY NextStep
<1> QED
  BY InitIInv, <1>1, PTL DEF Spec

-----------------------------------------------------------------------------
\* In every state, what each collector has handed over is the inputs of its
\* lane in order, and the file each payload names holds the whole content of
\* that input's source: neither a retry nor a later download of any client
\* writes over it (collect, download_to_file).
THEOREM HandedOverWhole == Spec => []HandedOverIsWhole
<1>1. ASSUME IInv PROVE HandedOverIsWhole
  <2>1. ASSUME NEW l \in Lanes, NEW i \in DOMAIN sent[l]
        PROVE  sent[l][i].source = set.inputs[l][i] /\ Content(sent[l][i].path) = sent[l][i].source
    <3>1. Delivered(l, i)
      BY <1>1 DEF IInv, AllDelivered
    <3> QED
      BY <3>1, DownloadAssumption DEF Delivered, Content
  <2> QED
    BY <1>1, <2>1 DEF IInv, AllDelivered, HandedOverIsWhole
<1> QED
  BY Invariance, <1>1, PTL

\* Once the shutdown flag is raised, no client sends more than one further
\* request for the download it is in (sleep_or_shutdown).
THEOREM StopEnds == Spec => []StopEndsRetries
<1>1. IInv => StopEndsRetries
  BY DEF IInv
<1> QED
  BY Invariance, <1>1, PTL

-----------------------------------------------------------------------------
\* The schemas that the set-up binds.

\* Where the schema of a source is read from.
PathOf(s) == IF s \in Locals THEN s ELSE fetched[s]

\* The set-up has handled mapping i of round r, and in it a mapping of lane l to type t.
Passed(r, i) == r < round \/ (r = round /\ i < item)
PassedIn(r, l, t) == \E i \in DOMAIN set.types[l] : set.types[l][i] = t /\ Passed(r, i)

\* The lanes whose own schema t has been given so far, and whether it was offered the global one.
OwnGiven(t) == {l \in LanesNaming(t) : PassedIn(l, l, t)}
GlobalGiven(t) == set.global # NoSource /\ \E l \in Lanes : PassedIn(l + NumLanes, l, t)

\* A type is bound to the schema of the last lane that gave it one, otherwise to the global one.
BoundToLast(t) ==
  /\ byType[t] = NoPath <=> OwnGiven(t) = {} /\ ~GlobalGiven(t)
  /\ OwnGiven(t) # {} =>
       \E l \in OwnGiven(t) : (\A k \in OwnGiven(t) : k <= l) /\ byType[t] = PathOf(set.schema[l])
  /\ OwnGiven(t) = {} /\ GlobalGiven(t) => byType[t] = PathOf(set.global)

\* A schema was fetched for a type it was given to, and its file is not written again.
Given(t, u) ==
  \/ \E l \in OwnGiven(t) : set.schema[l] = u
  \/ OwnGiven(t) = {} /\ GlobalGiven(t) /\ set.global = u
FetchedFor(u, t) ==
  fetched[u] = SchemaPath(t) /\ Given(t, u) /\ (Contested \/ disk[SchemaPath(t)] = u)
AllFetched == \A u \in Urls : fetched[u] # NoPath => \E t \in Types : FetchedFor(u, t)

\* The set-up is done only after its last round.
DoneAtEnd == client[Setup].state = "done" => round > LastRound

BindInv == (\A t \in Types : BoundToLast(t)) /\ AllFetched /\ DoneAtEnd

\* Who names a schema is a lane, and the schema a source.
LEMMA NamingTyped ==
  ASSUME TypeOK, NEW t \in Types
  PROVE  /\ OwnGiven(t) \subseteq LanesNaming(t) /\ LanesNaming(t) \subseteq Lanes
         /\ \A l \in LanesNaming(t) : set.schema[l] \in Sources
         /\ set.global \in Sources \cup {NoSource}
BY DownloadAssumption DEF TypeOK, OwnGiven, LanesNaming

\* The manifest alone says who names a schema and whether two lanes contest a type.
LEMMA SameManifest ==
  ASSUME UNCHANGED set
  PROVE  Contested' = Contested /\ \A t : LanesNaming(t)' = LanesNaming(t)
<1>1. \A t : LanesNaming(t)' = LanesNaming(t)
  BY DEF LanesNaming
<1> QED
  BY <1>1 DEF Contested

\* The lanes' own schemas are given in the order of the lanes and before the global one.
LEMMA GivenInOrder ==
  ASSUME TypeOK, NEW t \in Types
  PROVE  (\A l \in OwnGiven(t) : l <= round) /\ (GlobalGiven(t) => Global(round))
BY DownloadAssumption DEF TypeOK, OwnGiven, LanesNaming, GlobalGiven, PassedIn, Passed, Global, Lanes

\* Handling one mapping gives its type the schema in hand and changes nothing else.
LEMMA ItemGiven ==
  ASSUME TypeOK, InHand, NextItem, UNCHANGED set, NEW t \in Types
  PROVE  /\ OwnGiven(t)' = OwnGiven(t) \cup {l \in Lanes : l = round /\ t = Type}
         /\ GlobalGiven(t)' <=> GlobalGiven(t) \/ (Global(round) /\ t = Type)
<1>1. round \in Nat /\ item \in Nat /\ round' = round /\ item' = item + 1 /\ set' = set
  BY DEF TypeOK, NextItem
<1>2. ASSUME NEW r \in Nat, NEW l \in Lanes
      PROVE  PassedIn(r, l, t)' <=>
               PassedIn(r, l, t)
                 \/ (r = round /\ item \in DOMAIN set.types[l] /\ set.types[l][item] = t)
  <2>1. DOMAIN set.types[l] \subseteq Nat
    BY DownloadAssumption DEF TypeOK
  <2>2. \A i \in Nat : Passed(r, i)' <=> Passed(r, i) \/ (r = round /\ i = item)
    BY <1>1 DEF Passed
  <2> QED
    BY <1>1, <2>1, <2>2 DEF PassedIn
<1>3. /\ LaneOf(round) \in Lanes /\ item \in DOMAIN set.types[LaneOf(round)]
      /\ Type = set.types[LaneOf(round)][item] /\ Source # NoSource
  BY HandTyped DEF InHand
<1>4. OwnGiven(t)' = OwnGiven(t) \cup {l \in Lanes : l = round /\ t = Type}
  <2>1. OwnGiven(t)' = {l \in LanesNaming(t) : PassedIn(l, l, t)'}
    BY SameManifest, <1>1 DEF OwnGiven
  <2>2. LanesNaming(t) \subseteq Lanes /\ Lanes \subseteq Nat
    BY NamingTyped, LanesTyped
  <2>3. ASSUME round \in Lanes PROVE LaneOf(round) = round /\ Source = set.schema[round]
    BY <2>3, DownloadAssumption DEF Lanes, LaneOf, Global, Source, SourceOf
  <2>4. ASSUME round \in Lanes, t = Type PROVE round \in LanesNaming(t)
    BY <1>3, <2>3, <2>4 DEF LanesNaming
  <2>5. \A l \in LanesNaming(t) : PassedIn(l, l, t)' <=> PassedIn(l, l, t) \/ (l = round /\ t = Type)
    BY <1>2, <1>3, <2>2, <2>3
  <2> QED
    BY <2>1, <2>2, <2>4, <2>5 DEF OwnGiven
<1>5. GlobalGiven(t)' <=> GlobalGiven(t) \/ (Global(round) /\ t = Type)
  <2>1. \A l \in Lanes : l + NumLanes \in Nat /\ (l + NumLanes = round <=> Global(round) /\ l = LaneOf(round))
    BY <1>1, <1>3, DownloadAssumption DEF Lanes, LaneOf, Global
  <2>2. Global(round) => set.global # NoSource
    BY <1>3 DEF Source, SourceOf
  <2>3. \A l \in Lanes : PassedIn(l + NumLanes, l, t)' <=>
          PassedIn(l + NumLanes, l, t) \/ (Global(round) /\ l = LaneOf(round) /\ t = Type)
    BY <1>2, <1>3, <2>1
  <2> QED
    BY <1>1, <1>3, <2>2, <2>3 DEF GlobalGiven
<1> QED
  BY <1>4, <1>5

\* Given is given for good.
LEMMA GivenKept ==
  ASSUME TypeOK, InHand, NextItem, UNCHANGED set, NEW t \in Types, NEW u, Given(t, u)
  PROVE  Given(t, u)'
<1>1. /\ OwnGiven(t)' = OwnGiven(t) \cup {l \in Lanes : l = round /\ t = Type}
      /\ GlobalGiven(t)' <=> GlobalGiven(t) \/ (Global(round) /\ t = Type)
  BY ItemGiven
<1>2. CASE \E l \in OwnGiven(t) : set.schema[l] = u
  BY <1>1, <1>2 DEF Given
<1>3. CASE OwnGiven(t) = {} /\ GlobalGiven(t) /\ set.global = u
  <2>1. Global(round)
    BY <1>3, GivenInOrder
  <2>2. round \notin Lanes
    BY <2>1, DownloadAssumption DEF Global, Lanes
  <2> QED
    BY <1>1, <1>3, <2>2 DEF Given
<1> QED
  BY <1>2, <1>3 DEF Given

\* The source in hand is an own schema of the lane, or the global one.
LEMMA HandIsOwnOrGlobal ==
  ASSUME TypeOK, InHand
  PROVE  /\ Global(round) => Source = set.global /\ round \notin Lanes
         /\ ~Global(round) => Source = set.schema[round] /\ round \in LanesNaming(Type)
<1>1. LaneOf(round) \in Lanes /\ item \in DOMAIN set.types[LaneOf(round)]
      /\ Type = set.types[LaneOf(round)][item] /\ Source # NoSource
  BY HandTyped DEF InHand
<1>2. Global(round) => round \notin Lanes
  BY DownloadAssumption DEF Global, Lanes
<1> QED
  BY <1>1, <1>2 DEF LaneOf, Source, SourceOf, LanesNaming

\* A type that is not covered has in the global round been given nothing.
LEMMA UncoveredIsBare ==
  ASSUME TypeOK, BindInv, InHand, ~Covered(Type), Global(round)
  PROVE  OwnGiven(Type) = {} /\ ~GlobalGiven(Type)
BY HandTyped DEF BindInv, BoundToLast, Covered

\* What is bound is given.
LEMMA HandGiven ==
  ASSUME TypeOK, BindInv, InHand, NextItem, UNCHANGED set, ~Covered(Type),
         NEW t \in Types, t = Type, NEW u, u = Source
  PROVE  Given(t, u)'
<1>1. /\ OwnGiven(t)' = OwnGiven(t) \cup {l \in Lanes : l = round /\ t = Type}
      /\ GlobalGiven(t)' <=> GlobalGiven(t) \/ (Global(round) /\ t = Type)
  BY ItemGiven
<1>2. CASE Global(round)
  BY <1>1, <1>2, HandIsOwnOrGlobal, UncoveredIsBare DEF Given
<1>3. CASE ~Global(round)
  <2>1. round \in OwnGiven(t)' /\ set'.schema[round] = u
    BY <1>1, <1>3, HandIsOwnOrGlobal, NamingTyped
  <2> QED
    BY <2>1 DEF Given
<1> QED
  BY <1>2, <1>3

\* Without a contested type, a fetched schema is at the path of another type.
LEMMA PathIsFree ==
  ASSUME TypeOK, BindInv, InHand, ~Covered(Type), Source \in Urls, fetched[Source] = NoPath, ~Contested,
         NEW u \in Urls, fetched[u] # NoPath
  PROVE  fetched[u] # SchemaPath(Type)
<1> SUFFICES ASSUME fetched[u] = SchemaPath(Type) PROVE FALSE
  OBVIOUS
<1>1. Given(Type, u) /\ u # Source /\ Type \in Types
  <2>1. PICK t \in Types : FetchedFor(u, t)
    BY DEF BindInv, AllFetched
  <2>2. t = Type
    BY <2>1 DEF FetchedFor, SchemaPath
  <2> QED
    BY <2>1, <2>2 DEF FetchedFor
<1>2. ~Global(round)
  BY <1>1, UncoveredIsBare DEF Given
<1>3. PICK l \in OwnGiven(Type) : set.schema[l] = u
  BY <1>1, <1>2, GivenInOrder DEF Given
<1>4. l \in LanesNaming(Type) /\ round \in LanesNaming(Type) /\ set.schema[round] = Source
      /\ LanesNaming(Type) \subseteq Lanes
  BY <1>1, <1>2, NamingTyped, HandIsOwnOrGlobal
<1> QED
  BY <1>1, <1>3, <1>4 DEF Contested

\* Nothing moves on, and no file of a schema is written.
LEMMA BindingsKept ==
  ASSUME BindInv, UNCHANGED <<set, round, item, byType, fetched>>, DoneAtEnd',
         \A u \in Urls : ~Contested /\ fetched[u] # NoPath => disk'[fetched[u]] = disk[fetched[u]]
  PROVE  BindInv'
<1>1. Contested' = Contested /\ \A t : LanesNaming(t)' = LanesNaming(t)
  BY SameManifest
<1>2. \A t : OwnGiven(t)' = OwnGiven(t) /\ (GlobalGiven(t)' <=> GlobalGiven(t))
  BY <1>1 DEF OwnGiven, GlobalGiven, PassedIn, Passed
<1>3. \A s : PathOf(s)' = PathOf(s)
  BY DEF PathOf
<1>4. (\A t \in Types : BoundToLast(t))'
  BY <1>2, <1>3 DEF BindInv, BoundToLast
<1>5. \A t \in Types, u \in Urls : Given(t, u)' <=> Given(t, u)
  BY <1>2 DEF Given
<1>6. AllFetched'
  BY <1>1, <1>5 DEF BindInv, AllFetched, FetchedFor
<1> QED
  BY <1>4, <1>6 DEF BindInv

\* A path that is known stays.
LEMMA PathStays ==
  ASSUME \A u \in Urls : fetched[u] # NoPath => fetched'[u] = fetched[u],
         NEW s \in Sources, PathOf(s) # NoPath
  PROVE  PathOf(s)' = PathOf(s)
BY DEF PathOf, Sources

\* Binding the type in hand to the path of the source in hand.
LEMMA ItemBound ==
  ASSUME IInv, BindInv, InHand, NextItem, UNCHANGED set, ~Covered(Type), NEW p, p # NoPath,
         byType' = [byType EXCEPT ![Type] = p], NEW s, s = Source, PathOf(s)' = p,
         \A u \in Urls : fetched[u] # NoPath => fetched'[u] = fetched[u],
         NEW t \in Types
  PROVE  BoundToLast(t)'
<1>1. TypeOK /\ BoundToLast(t)
  BY DEF IInv, BindInv
<1>2. /\ OwnGiven(t)' = OwnGiven(t) \cup {l \in Lanes : l = round /\ t = Type}
      /\ GlobalGiven(t)' <=> GlobalGiven(t) \/ (Global(round) /\ t = Type)
  BY <1>1, ItemGiven
<1>3. byType \in [Types -> Locals \cup TempPaths \cup {NoPath}]
  BY <1>1 DEF TypeOK
<1>4. CASE t # Type
  <2>1. OwnGiven(t)' = OwnGiven(t) /\ (GlobalGiven(t)' <=> GlobalGiven(t)) /\ byType'[t] = byType[t]
    BY <1>2, <1>3, <1>4
  <2>2. ASSUME NEW q \in Sources, byType[t] # NoPath, byType[t] = PathOf(q) PROVE PathOf(q)' = PathOf(q)
    BY <2>2, PathStays
  <2>3. \A l \in OwnGiven(t) : set.schema[l] \in Sources
    BY <1>1, NamingTyped
  <2>4. GlobalGiven(t) => set.global \in Sources
    BY <1>1, NamingTyped DEF GlobalGiven
  <2>5. OwnGiven(t) # {} =>
          \E l \in OwnGiven(t) : (\A k \in OwnGiven(t) : k <= l) /\ byType[t] = PathOf(set.schema[l])'
    <3>1. SUFFICES ASSUME OwnGiven(t) # {}
                   PROVE  \E l \in OwnGiven(t) :
                            (\A k \in OwnGiven(t) : k <= l) /\ byType[t] = PathOf(set.schema[l])'
      OBVIOUS
    <3>2. PICK l \in OwnGiven(t) : (\A k \in OwnGiven(t) : k <= l) /\ byType[t] = PathOf(set.schema[l])
      BY <1>1, <3>1 DEF BoundToLast
    <3>3. byType[t] # NoPath
      BY <1>1, <3>1 DEF BoundToLast
    <3>4. PICK q : q = set.schema[l]
      OBVIOUS
    <3>5. PathOf(q)' = PathOf(q)
      BY <2>2, <2>3, <3>2, <3>3, <3>4
    <3>6. PathOf(set.schema[l])' = PathOf(q)'
      BY <3>4 DEF PathOf
    <3> QED
      BY <3>2, <3>4, <3>5, <3>6
  <2>6. OwnGiven(t) = {} /\ GlobalGiven(t) => byType[t] = PathOf(set.global)'
    <3>1. SUFFICES ASSUME OwnGiven(t) = {}, GlobalGiven(t) PROVE byType[t] = PathOf(set.global)'
      OBVIOUS
    <3>2. byType[t] = PathOf(set.global) /\ byType[t] # NoPath
      BY <1>1, <3>1 DEF BoundToLast
    <3>3. PICK q : q = set.global
      OBVIOUS
    <3>4. PathOf(q)' = PathOf(q)
      BY <2>2, <2>4, <3>1, <3>2, <3>3
    <3>5. PathOf(set.global)' = PathOf(q)'
      BY <3>3 DEF PathOf
    <3> QED
      BY <3>2, <3>3, <3>4, <3>5
  <2>7. byType[t] = NoPath <=> OwnGiven(t) = {} /\ ~GlobalGiven(t)
    BY <1>1 DEF BoundToLast
  <2> QED
    BY <2>1, <2>5, <2>6, <2>7 DEF BoundToLast
<1>5. CASE t = Type /\ ~Global(round)
  <2>1. /\ s = set.schema[round] /\ round \in Lanes
        /\ OwnGiven(t)' = OwnGiven(t) \cup {round} /\ byType'[t] = p
    BY <1>1, <1>2, <1>3, <1>5, HandIsOwnOrGlobal, NamingTyped
  <2>2. \A k \in OwnGiven(t)' : k <= round
    BY <1>1, <2>1, GivenInOrder, LanesTyped
  <2>3. PathOf(set.schema[round])' = p
    <3>1. UNCHANGED round
      BY DEF NextItem
    <3> QED
      BY <2>1, <3>1 DEF PathOf
  <2>4. (byType[t] = NoPath)' = FALSE /\ (OwnGiven(t) # {})'
    BY <2>1
  <2>5. UNCHANGED round
    BY DEF NextItem
  <2> QED
    BY <2>1, <2>2, <2>3, <2>4, <2>5 DEF BoundToLast
<1>6. CASE t = Type /\ Global(round)
  <2>1. OwnGiven(t) = {} /\ s = set.global /\ round \notin Lanes
    BY <1>1, <1>6, UncoveredIsBare, HandIsOwnOrGlobal
  <2>2. OwnGiven(t)' = {} /\ GlobalGiven(t)' /\ byType'[t] = p
    BY <1>2, <1>3, <1>6, <2>1
  <2>3. PathOf(set.global)' = p
    BY <2>1 DEF PathOf
  <2> QED
    BY <2>2, <2>3 DEF BoundToLast
<1> QED
  BY <1>4, <1>5, <1>6

\* Passing over a covered type.
LEMMA ItemCovered ==
  ASSUME IInv, BindInv, InHand, NextItem, UNCHANGED <<set, byType, fetched>>, Covered(Type),
         NEW t \in Types
  PROVE  BoundToLast(t)'
<1>1. TypeOK /\ BoundToLast(t) /\ Global(round) /\ round \notin Lanes
  BY HandIsOwnOrGlobal DEF IInv, BindInv, Covered
<1>2. OwnGiven(t)' = OwnGiven(t) /\ (GlobalGiven(t)' <=> GlobalGiven(t) \/ t = Type)
  BY <1>1, ItemGiven
<1>3. t = Type => byType[t] # NoPath
  BY DEF Covered
<1>4. PathOf(set.global)' = PathOf(set.global) /\ \A l : PathOf(set.schema[l])' = PathOf(set.schema[l])
  BY DEF PathOf
<1> QED
  BY <1>1, <1>2, <1>3, <1>4 DEF BoundToLast

-----------------------------------------------------------------------------
\* Every step keeps the bindings.

\* No type has been given anything at the start.
LEMMA InitBindInv == Init => BindInv
<1> SUFFICES ASSUME Init PROVE BindInv
  OBVIOUS
<1>1. TypeOK
  BY InitIInv DEF IInv
<1>2. ASSUME NEW t \in Types PROVE OwnGiven(t) = {} /\ ~GlobalGiven(t)
  <2>1. \A l \in Lanes : \A i \in DOMAIN set.types[l] : i \in Nat \ {0}
    BY <1>1, DownloadAssumption DEF TypeOK
  <2>2. \A r \in Nat \ {0}, l \in Lanes : ~PassedIn(r, l, t)
    BY <2>1 DEF Init, PassedIn, Passed
  <2>3. \A l \in Lanes : l \in Nat \ {0} /\ l + NumLanes \in Nat \ {0}
    BY LanesTyped
  <2> QED
    BY <1>1, <2>2, <2>3, NamingTyped DEF OwnGiven, GlobalGiven
<1>3. DoneAtEnd
  BY LanesTyped DEF Init, DoneAtEnd, Idle
<1>4. (\A t \in Types : BoundToLast(t)) /\ AllFetched
  BY <1>2 DEF Init, BoundToLast, AllFetched
<1> QED
  BY <1>3, <1>4 DEF BindInv

\* Fetched schemas stay given.
LEMMA FetchedStay ==
  ASSUME TypeOK, BindInv, InHand, NextItem, UNCHANGED <<set, fetched, disk>>
  PROVE  AllFetched'
<1> SUFFICES ASSUME NEW u \in Urls, fetched[u] # NoPath PROVE \E t \in Types : FetchedFor(u, t)'
  BY DEF AllFetched
<1>1. PICK t \in Types : FetchedFor(u, t)
  BY DEF BindInv, AllFetched
<1>2. Given(t, u)'
  BY <1>1, GivenKept DEF FetchedFor
<1> QED
  BY <1>1, <1>2, SameManifest DEF FetchedFor

\* A binding that needs no request.
LEMMA BindKnownBinds ==
  ASSUME IInv, BindInv, BindKnown
  PROVE  BindInv'
<1>1. /\ TypeOK /\ InHand /\ NextItem /\ client[Setup].state = "ready"
      /\ UNCHANGED <<set, fetched, next, sent, disk, client, shutdown, late>>
  BY DEF IInv, BindKnown, Binding
<1>2. AllFetched'
  BY <1>1, FetchedStay
<1>3. DoneAtEnd'
  BY <1>1 DEF DoneAtEnd
<1>4. ASSUME NEW t \in Types PROVE BoundToLast(t)'
  <2>1. CASE Covered(Type) /\ UNCHANGED byType
    BY <1>1, <2>1, ItemCovered
  <2>2. ASSUME ~Covered(Type), NEW p, p # NoPath, byType' = [byType EXCEPT ![Type] = p], PathOf(Source) = p
        PROVE  BoundToLast(t)'
    <3>1. PICK s : s = Source
      OBVIOUS
    <3>2. PathOf(s)' = p
      BY <1>1, <2>2, <3>1 DEF PathOf
    <3> QED
      BY <1>1, <2>2, <3>1, <3>2, ItemBound
  <2>3. CASE ~Covered(Type) /\ Source \in Locals /\ byType' = [byType EXCEPT ![Type] = Source]
    <3>1. Source # NoPath /\ PathOf(Source) = Source
      BY <2>3, DownloadAssumption DEF PathOf
    <3> QED
      BY <2>2, <2>3, <3>1
  <2>4. CASE /\ ~Covered(Type) /\ Source \in Urls /\ fetched[Source] # NoPath
             /\ byType' = [byType EXCEPT ![Type] = fetched[Source]]
    <3>1. PathOf(Source) = fetched[Source]
      BY <2>4, DownloadAssumption DEF PathOf
    <3> QED
      BY <2>2, <2>4, <3>1
  <2> QED
    BY <2>1, <2>3, <2>4 DEF BindKnown
<1> QED
  BY <1>2, <1>3, <1>4 DEF BindInv

\* A schema that arrives is at a path of its own and bound to its type.
LEMMA SchemaArrivesBinds ==
  ASSUME IInv, BindInv, SchemaArrives
  PROVE  BindInv'
<1>1. /\ TypeOK /\ InHand /\ NextItem /\ ~Covered(Type) /\ Source \in Urls /\ fetched[Source] = NoPath
      /\ UNCHANGED set /\ Type \in Types
  BY HandTyped DEF IInv, SetupAsks, InDownload, SchemaArrives, Asking
<1> DEFINE path == SchemaPath(Type)
<1>2. path \in TempPaths /\ path # NoPath
  BY <1>1, SchemaPathTyped, DownloadAssumption
<1>3. /\ disk' = [disk EXCEPT ![path] = Source] /\ byType' = [byType EXCEPT ![Type] = path]
      /\ fetched' = [fetched EXCEPT ![Source] = path]
  BY DEF SchemaArrives
<1>4. fetched \in [Urls -> TempPaths \cup {NoPath}] /\ disk \in [TempPaths -> Contents]
  BY <1>1 DEF TypeOK, Contents
<1>5. /\ fetched'[Source] = path /\ disk'[path] = Source
      /\ \A u \in Urls : u # Source => fetched'[u] = fetched[u]
      /\ \A q \in TempPaths : q # path => disk'[q] = disk[q]
  BY <1>1, <1>2, <1>3, <1>4
<1>6. DoneAtEnd'
  <2>1. client \in [Clients -> Client] /\ client' = [client EXCEPT ![Setup] = Idle("ready")]
    BY <1>1 DEF TypeOK, Client, States, SchemaArrives
  <2>2. client'[Setup].state = "ready"
    BY <2>1, LanesTyped, IdleTyped DEF States
  <2> QED
    BY <2>2 DEF DoneAtEnd
<1>7. PICK s : s = Source
  OBVIOUS
<1>8. PICK t0 \in Types : t0 = Type
  BY <1>1
<1>9. ASSUME NEW t \in Types PROVE BoundToLast(t)'
  <2>1. PathOf(s)' = path
    BY <1>1, <1>5, <1>7, DownloadAssumption DEF PathOf
  <2>2. \A u \in Urls : fetched[u] # NoPath => fetched'[u] = fetched[u]
    BY <1>1, <1>5
  <2> HIDE DEF path
  <2>3. PICK p : p = path
    OBVIOUS
  <2> QED
    BY <1>1, <1>2, <1>3, <1>7, <2>1, <2>2, <2>3, ItemBound
<1>10. AllFetched'
  <2> SUFFICES ASSUME NEW u \in Urls, fetched'[u] # NoPath PROVE \E t \in Types : FetchedFor(u, t)'
    BY DEF AllFetched
  <2>1. CASE u = s
    <3>1. Given(t0, u)'
      BY <1>1, <1>7, <1>8, <2>1, HandGiven
    <3>2. fetched'[u] = SchemaPath(t0) /\ disk'[SchemaPath(t0)] = u
      BY <1>5, <1>7, <1>8, <2>1
    <3> QED
      BY <3>1, <3>2 DEF FetchedFor, SchemaPath
  <2>2. CASE u # s
    <3>1. fetched'[u] = fetched[u] /\ fetched[u] # NoPath
      BY <1>5, <1>7, <2>2
    <3>2. PICK t \in Types : FetchedFor(u, t)
      BY <3>1 DEF BindInv, AllFetched
    <3>3. Given(t, u)'
      BY <1>1, <3>2, GivenKept DEF FetchedFor
    <3>4. ASSUME ~Contested PROVE disk'[SchemaPath(t)] = disk[SchemaPath(t)]
      <4>1. SchemaPath(t) # path /\ SchemaPath(t) \in TempPaths
        BY <1>1, <3>1, <3>2, <3>4, PathIsFree, SchemaPathTyped DEF FetchedFor
      <4> QED
        BY <1>5, <4>1
    <3>5. Contested' = Contested
      BY <1>1, SameManifest
    <3> QED
      BY <3>1, <3>2, <3>3, <3>4, <3>5 DEF FetchedFor, SchemaPath
  <2> QED
    BY <2>1, <2>2
<1> QED
  BY <1>6, <1>9, <1>10 DEF BindInv

\* Going on to the next lane gives nothing.
LEMMA NextRoundBinds ==
  ASSUME IInv, BindInv, NextRound
  PROVE  BindInv'
<1>1. /\ TypeOK /\ round \in Nat /\ item \in Nat /\ round <= LastRound /\ ~InHand
      /\ round' = round + 1 /\ item' = 1
      /\ UNCHANGED <<set, byType, fetched, next, sent, disk, client, shutdown, late>>
  <2>1. TypeOK
    BY DEF IInv
  <2>2. round \in Nat /\ item \in Nat
    BY <2>1, DownloadAssumption DEF TypeOK, LastRound
  <2> QED
    BY <2>1, <2>2 DEF NextRound
<1>2. Contested' = Contested /\ \A t : LanesNaming(t)' = LanesNaming(t)
  BY <1>1, SameManifest
<1>3. ASSUME NEW r \in Nat, NEW l \in Lanes, NEW t, LaneOf(r) = l, SourceOf(r) # NoSource
      PROVE  PassedIn(r, l, t)' <=> PassedIn(r, l, t)
  <2>1. set.types[l] \in Seq(Types)
    BY <1>1, DownloadAssumption DEF TypeOK
  <2>2. \A i \in DOMAIN set.types[l] : i \in Nat /\ i >= 1 /\ i <= Len(set.types[l])
    BY <2>1
  <2>3. r = round => item > Len(set.types[l])
    BY <1>1, <1>3, <2>1 DEF InHand, Source, TypesOf
  <2>4. \A i \in DOMAIN set.types[l] : Passed(r, i)' <=> Passed(r, i)
    BY <1>1, <2>1, <2>2, <2>3 DEF Passed
  <2> QED
    BY <1>1, <2>4 DEF PassedIn
<1>4. \A l \in Lanes : /\ l \in Nat /\ LaneOf(l) = l /\ SourceOf(l) = set.schema[l]
                       /\ l + NumLanes \in Nat /\ LaneOf(l + NumLanes) = l
                       /\ SourceOf(l + NumLanes) = set.global
  BY DownloadAssumption DEF Lanes, LaneOf, SourceOf, Global
<1>5. ASSUME NEW t \in Types PROVE OwnGiven(t)' = OwnGiven(t) /\ (GlobalGiven(t)' <=> GlobalGiven(t))
  <2>1. \A l \in LanesNaming(t) : PassedIn(l, l, t)' <=> PassedIn(l, l, t)
    <3>1. \A l \in LanesNaming(t) : l \in Lanes /\ set.schema[l] # NoSource
      BY DEF LanesNaming
    <3> QED
      BY <1>3, <1>4, <3>1
  <2>2. set.global # NoSource =>
          \A l \in Lanes : PassedIn(l + NumLanes, l, t)' <=> PassedIn(l + NumLanes, l, t)
    BY <1>3, <1>4
  <2> QED
    BY <1>1, <1>2, <2>1, <2>2 DEF OwnGiven, GlobalGiven
<1>6. (\A t \in Types : BoundToLast(t))'
  <2>1. PathOf(set.global)' = PathOf(set.global) /\ \A l : PathOf(set.schema[l])' = PathOf(set.schema[l])
    BY <1>1 DEF PathOf
  <2> QED
    BY <1>1, <1>5, <2>1 DEF BindInv, BoundToLast
<1>7. AllFetched'
  BY <1>1, <1>2, <1>5 DEF BindInv, AllFetched, FetchedFor, Given
<1>8. DoneAtEnd'
  BY <1>1 DEF DoneAtEnd, NextRound
<1> QED
  BY <1>6, <1>7, <1>8 DEF BindInv

\* A write to where a client is downloading spares the files of schemas.
LEMMA SchemasSpared ==
  ASSUME IInv, BindInv, NEW c \in Clients, InDownload(c), NEW v,
         disk' = [disk EXCEPT ![Destination(c)] = v], ~Contested, NEW u \in Urls, fetched[u] # NoPath
  PROVE  disk'[fetched[u]] = disk[fetched[u]]
<1>1. PICK t \in Types : fetched[u] = SchemaPath(t)
  BY DEF BindInv, AllFetched, FetchedFor
<1>2. fetched[u] # Destination(c)
  <2>1. CASE c = Setup
    BY <2>1, PathIsFree DEF IInv, SetupAsks, Destination
  <2>2. CASE c # Setup
    BY <1>1, <2>2, PathsApart DEF Clients, Destination
  <2> QED
    BY <2>1, <2>2
<1>3. disk \in [TempPaths -> Contents] /\ fetched[u] \in TempPaths
  BY <1>1, SchemaPathTyped DEF IInv, TypeOK, Contents
<1> QED
  BY <1>2, <1>3

\* A client other than the set-up, or the set-up in a download, moves on without being done.
LEMMA ClientMoves ==
  ASSUME IInv, BindInv, NEW c \in Clients, NEW r, client' = [client EXCEPT ![c] = r],
         c = Setup => r.state # "done", UNCHANGED <<set, round, item, byType, fetched>>,
         \/ UNCHANGED disk
         \/ InDownload(c) /\ \E v : disk' = [disk EXCEPT ![Destination(c)] = v]
  PROVE  BindInv'
<1>1. client \in [Clients -> Client]
  BY DEF IInv, TypeOK, Client, States
<1>2. client'[Setup].state = "done" => client[Setup].state = "done"
  BY <1>1, LanesTyped
<1>3. DoneAtEnd'
  BY <1>2 DEF BindInv, DoneAtEnd
<1>4. ASSUME NEW u \in Urls, ~Contested, fetched[u] # NoPath PROVE disk'[fetched[u]] = disk[fetched[u]]
  BY <1>4, SchemasSpared
<1> QED
  BY <1>3, <1>4, BindingsKept

\* Every step of a download under way.
LEMMA DownloadingBinds ==
  ASSUME IInv, BindInv, NEW c \in Clients, Downloading(c)
  PROVE  BindInv'
<1>1. UNCHANGED <<set, round, item, byType, fetched>>
  BY DEF Downloading, TransientAnswer, DownloadFails, WriteFails, SleepSlice, SleepCutShort, AskAgain
<1>2. \/ UNCHANGED disk
      \/ InDownload(c) /\ \E v : disk' = [disk EXCEPT ![Destination(c)] = v]
  BY DEF Downloading, TransientAnswer, DownloadFails, WriteFails, SleepSlice, SleepCutShort, AskAgain,
         Asking, InDownload
<1>3. client[c] \in Client
  BY DEF IInv, TypeOK, Client, States
<1>4. \E r : client' = [client EXCEPT ![c] = r] /\ r.state # "done"
  <2>1. CASE TransientAnswer(c)
    <3>1. PICK asked \in Asked :
            client' = [client EXCEPT ![c] =
              [@ EXCEPT !.state = "sleeping", !.wait = RetryDelay(client[c].attempt, asked)]]
      BY <2>1 DEF TransientAnswer
    <3> DEFINE r == [client[c] EXCEPT !.state = "sleeping", !.wait = RetryDelay(client[c].attempt, asked)]
    <3>2. r.state = "sleeping" /\ client' = [client EXCEPT ![c] = r]
      BY <1>3, <3>1 DEF Client, IInv, TypeOK
    <3> QED
      BY <3>2
  <2>2. CASE DownloadFails(c) \/ WriteFails(c) \/ SleepCutShort(c)
    BY <2>2, IdleTyped DEF DownloadFails, WriteFails, SleepCutShort, States
  <2>3. CASE SleepSlice(c)
    <3> DEFINE r == [client[c] EXCEPT !.wait = client[c].wait - 1]
    <3>1. r.state = "sleeping" /\ client' = [client EXCEPT ![c] = r]
      BY <1>3, <2>3 DEF SleepSlice, Client
    <3> QED
      BY <3>1
  <2>4. CASE AskAgain(c)
    <3> DEFINE r == [client[c] EXCEPT !.state = "asking", !.attempt = client[c].attempt + 1]
    <3>1. r.state = "asking" /\ client' = [client EXCEPT ![c] = r]
      BY <1>3, <2>4 DEF AskAgain, Client
    <3> QED
      BY <3>1
  <2> QED
    BY <2>1, <2>2, <2>3, <2>4 DEF Downloading
<1> QED
  BY <1>1, <1>2, <1>4, ClientMoves

\* The steps of the set-up.
LEMMA SetupBinds ==
  ASSUME IInv, BindInv, SetupStep
  PROVE  BindInv'
<1>1. CASE BindRemote
  BY <1>1, LanesTyped, ClientMoves DEF BindRemote, Begin
<1>2. CASE StartLanes
  <2>1. UNCHANGED <<set, round, item, byType, fetched, disk>> /\ DoneAtEnd'
    BY <1>2 DEF StartLanes, DoneAtEnd, LastRound
  <2> QED
    BY <2>1, BindingsKept
<1> QED
  BY <1>1, <1>2, LanesTyped, BindKnownBinds, SchemaArrivesBinds, NextRoundBinds, DownloadingBinds
     DEF SetupStep

\* The steps of a collector.
LEMMA LaneBinds ==
  ASSUME IInv, BindInv, NEW l \in Lanes, LaneStep(l)
  PROVE  BindInv'
<1>1. l \in Clients /\ l # Setup
  BY LanesTyped
<1>2. CASE CollectLocal(l)
  <2>1. UNCHANGED <<set, round, item, byType, fetched, disk, client>>
    BY <1>2 DEF CollectLocal
  <2> QED
    BY <2>1, BindingsKept DEF BindInv, DoneAtEnd
<1>3. CASE CollectRemote(l)
  BY <1>1, <1>3, ClientMoves DEF CollectRemote, Begin
<1>4. CASE InputArrives(l) \/ SendFails(l) \/ CollectEnds(l)
  <2>1. UNCHANGED <<set, round, item, byType, fetched>> /\ \E r : client' = [client EXCEPT ![l] = r]
    BY <1>4 DEF InputArrives, SendFails, CollectEnds
  <2>2. \/ UNCHANGED disk
        \/ InDownload(l) /\ \E v : disk' = [disk EXCEPT ![Destination(l)] = v]
    BY <1>4 DEF InputArrives, SendFails, CollectEnds, Asking, InDownload
  <2> QED
    BY <1>1, <2>1, <2>2, ClientMoves
<1> QED
  BY <1>1, <1>2, <1>3, <1>4, DownloadingBinds DEF LaneStep

\* Every step of the specification.
LEMMA NextBinds ==
  ASSUME IInv, BindInv, [Next]_vars
  PROVE  BindInv'
<1>1. CASE UNCHANGED vars \/ RaiseShutdown
  <2>1. UNCHANGED <<set, round, item, byType, fetched, disk, client>>
    BY <1>1 DEF vars, RaiseShutdown
  <2> QED
    BY <2>1, BindingsKept DEF BindInv, DoneAtEnd
<1> QED
  BY <1>1, SetupBinds, LaneBinds DEF Next, Rest

-----------------------------------------------------------------------------
\* Past the last round everything has been given.
LEMMA AllGiven ==
  ASSUME TypeOK, round > LastRound, NEW t \in Types
  PROVE  OwnGiven(t) = LanesNaming(t) /\ (GlobalGiven(t) <=> set.global # NoSource /\ Produced(t))
<1>1. \A l \in Lanes : \A i : Passed(l, i) /\ Passed(l + NumLanes, i)
  BY DownloadAssumption DEF TypeOK, Passed, LastRound, Lanes
<1> QED
  BY <1>1 DEF OwnGiven, GlobalGiven, LanesNaming, Produced, PassedIn

\* A given schema that is not contested is read as it is.
LEMMA ContentIsSource ==
  ASSUME TypeOK, BindInv, ~Contested, NEW s \in Sources, PathOf(s) # NoPath
  PROVE  Content(PathOf(s)) = s
<1>1. CASE s \in Locals
  BY <1>1 DEF PathOf, Content
<1>2. CASE s \notin Locals
  <2>1. s \in Urls /\ PathOf(s) = fetched[s]
    BY <1>2 DEF Sources, PathOf
  <2>2. PICK t \in Types : fetched[s] = SchemaPath(t) /\ disk[SchemaPath(t)] = s
    BY <2>1 DEF BindInv, AllFetched, FetchedFor
  <2>3. fetched[s] \notin Locals
    BY <2>2, SchemaPathTyped, DownloadAssumption
  <2> QED
    BY <2>1, <2>2, <2>3 DEF Content
<1> QED
  BY <1>1, <1>2

\* Once the set-up has bound the schemas, the file of every produced type
\* holds the schema that the manifest declares for it, its lane's or else the
\* global one, in every manifest in which no two lanes give a type different
\* remote schemas: no retry, failed write, repeated url or later download
\* puts another schema in its place (resolve_custom_schemas).
THEOREM SchemaIsDeclared == Spec => []UncontestedSchemaIsItsSource
<1>1. IInv /\ BindInv /\ [Next]_vars => IInv' /\ BindInv'
  BY NextStep, NextBinds
<1>2. ASSUME IInv, BindInv PROVE UncontestedSchemaIsItsSource
  <2> SUFFICES ASSUME ~Contested, Bound, NEW t \in Types PROVE ReadsItsSource(t)
    BY DEF UncontestedSchemaIsItsSource, SchemaIsItsSource
  <2>1. TypeOK /\ BoundToLast(t)
    BY <1>2 DEF IInv, BindInv
  <2>2. OwnGiven(t) = LanesNaming(t) /\ (GlobalGiven(t) <=> set.global # NoSource /\ Produced(t))
    BY <1>2, <2>1, AllGiven DEF BindInv, DoneAtEnd, Bound
  <2>3. CASE LanesNaming(t) # {}
    <3>1. PICK l \in LanesNaming(t) :
            (\A k \in LanesNaming(t) : k <= l) /\ byType[t] = PathOf(set.schema[l])
      BY <2>1, <2>2, <2>3 DEF BoundToLast
    <3>2. DeclaredSource(t) = set.schema[l]
      <4>1. \A m \in LanesNaming(t) : (\A k \in LanesNaming(t) : k <= m) => m = l
        <5>1. LanesNaming(t) \subseteq Nat
          BY <2>1, NamingTyped, LanesTyped
        <5>2. ASSUME NEW m \in LanesNaming(t), \A k \in LanesNaming(t) : k <= m PROVE m = l
          <6>1. l <= m /\ m <= l /\ l \in Nat /\ m \in Nat
            BY <3>1, <5>1, <5>2
          <6> QED
            BY <6>1
        <5> QED
          BY <5>2
      <4>2. l = CHOOSE m \in LanesNaming(t) : \A k \in LanesNaming(t) : k <= m
        BY <3>1, <4>1
      <4>3. DeclaredSource(t) =
              set.schema[CHOOSE m \in LanesNaming(t) : \A k \in LanesNaming(t) : k <= m]
        BY <2>3 DEF DeclaredSource
      <4> QED
        BY <4>2, <4>3, Zenon
    <3>3. set.schema[l] \in Sources /\ byType[t] # NoPath
      BY <2>1, <2>2, <3>1, NamingTyped DEF BoundToLast
    <3>4. Content(byType[t]) = set.schema[l]
      BY <1>2, <2>1, <3>1, <3>3, ContentIsSource
    <3>5. Produced(t) /\ set.schema[l] # NoSource
      BY <3>1 DEF LanesNaming, Produced
    <3> QED
      BY <3>2, <3>3, <3>4, <3>5 DEF ReadsItsSource
  <2>4. CASE LanesNaming(t) = {}
    <3>1. DeclaredSource(t) = set.global
      BY <2>4 DEF DeclaredSource
    <3>2. CASE GlobalGiven(t)
      <4>1. byType[t] = PathOf(set.global) /\ byType[t] # NoPath /\ set.global \in Sources
        BY <2>1, <2>2, <2>4, <3>2, NamingTyped DEF BoundToLast
      <4> QED
        BY <1>2, <2>1, <2>2, <3>1, <3>2, <4>1, ContentIsSource DEF ReadsItsSource
    <3>3. CASE ~GlobalGiven(t)
      BY <2>1, <2>2, <2>4, <3>1, <3>3 DEF BoundToLast, ReadsItsSource
    <3> QED
      BY <3>2, <3>3
  <2> QED
    BY <2>3, <2>4
<1> QED
  BY InitIInv, InitBindInv, <1>1, <1>2, PTL DEF Spec

-----------------------------------------------------------------------------
\* The catalogue of models (SchemaCatalog).

\* What the current run has stored is whole on disk.
StoredIsWhole == \A i \in stored : file[i] = run

\* Between its two writes the index lists what the run has stored.
ListedIsStored == pc = "contexts" => Readable /\ index.models = EntityModelIds

\* A listed model has a file, torn or whole.
ListedHasFile == Readable => \A m \in index.models : file[m] # Absent

\* After Ok the index is readable and every listed model is this run's.
OkIsListed ==
  result = "ok" =>
    /\ pc = "idle" /\ Readable
    /\ \A m \in index.models : file[m] = run /\ m \in index.contexts

\* A run in progress has a number and no result yet, between runs nothing is kept.
RunInProgress ==
  /\ pc # "idle" => run # 0 /\ result = "none"
  /\ pc \in {"idle", "planning"} => flying = {} /\ stored = {} /\ failed = {}

\* A schema that was not given up has a request left.
RequestsLeft == \A i \in Ids \ failed : tries[i] < Attempts

CatalogInv ==
  /\ CatalogTypeOK /\ IsFiniteSet(flying)
  /\ StoredIsWhole /\ ListedIsStored /\ ListedHasFile /\ OkIsListed /\ RunInProgress
  /\ RequestsLeft

-----------------------------------------------------------------------------
\* An empty catalogue satisfies the invariant.
LEMMA CatalogInitInv == CatalogInit => CatalogInv
<1> SUFFICES ASSUME CatalogInit PROVE CatalogInv
  OBVIOUS
<1>1. IsFiniteSet({}) /\ Cardinality({}) = 0
  BY FS_EmptySet
<1>2. CatalogTypeOK
  BY <1>1, CatalogAssumption DEF CatalogInit, CatalogTypeOK, IndexAs, Absent, TornFile
<1> QED
  BY <1>1, <1>2, CatalogAssumption DEF CatalogInit, CatalogInv, StoredIsWhole, ListedIsStored, ListedHasFile, OkIsListed,
                    RunInProgress, RequestsLeft, Readable, IndexAs

\* What a failed write leaves of the index is the index or a torn one.
LEMMA IndexLeft ==
  ASSUME IndexWriteFails
  PROVE  index' = index \/ index' = TornIndex
BY DEF IndexWriteFails

\* What a failed write leaves of a schema: every other file, and one that is not absent
\* unless it was.
LEMMA FileLeft ==
  ASSUME CatalogTypeOK, NEW i \in Ids, SchemaWriteFails(i)
  PROVE  /\ file' \in [Ids -> {Absent, TornFile} \cup 1..MaxRuns]
         /\ \A j \in Ids : j # i => file'[j] = file[j]
         /\ file[i] # Absent => file'[i] # Absent
<1>1. PICK left \in {file[i], TornFile} : file' = [file EXCEPT ![i] = left]
  BY DEF SchemaWriteFails
<1>2. left \in {Absent, TornFile} \cup 1..MaxRuns
  BY DEF CatalogTypeOK
<1>3. TornFile # Absent
  BY DEF TornFile, Absent
<1> QED
  BY <1>1, <1>2, <1>3 DEF CatalogTypeOK

-----------------------------------------------------------------------------
\* Starting a run.
LEMMA OpenStep == CatalogInv /\ (Open \/ OpenFails) => CatalogInv'
<1> SUFFICES ASSUME CatalogInv, Open \/ OpenFails PROVE CatalogInv'
  OBVIOUS
<1> USE DEF CatalogInv, CatalogTypeOK, StoredIsWhole, ListedIsStored, ListedHasFile, OkIsListed,
            RunInProgress, RequestsLeft, Readable, IndexAs, TornIndex, EntityModelIds
<1>1. run \in Nat /\ (run < MaxRuns => run + 1 \in 1..MaxRuns)
  BY CatalogAssumption
<1>2. CASE Open
  BY <1>1, <1>2, CatalogAssumption DEF Open
<1>3. CASE OpenFails
  BY <1>1, <1>3, IndexLeft, CatalogAssumption DEF OpenFails
<1> QED
  BY <1>2, <1>3

\* Returning keeps whatever the index and the files keep.
LEMMA ReturnKeeps ==
  ASSUME CatalogInv, NEW how \in {"ok", "err", "killed"}, Return(how), run' = run
  PROVE  /\ pc' = "idle" /\ result' = how
         /\ plan' = {} /\ flying' = {} /\ stored' = {} /\ failed' = {}
         /\ tries' \in [Ids -> 0..Attempts] /\ \A i \in Ids : tries'[i] < Attempts
         /\ IsFiniteSet(flying)' /\ Cardinality(flying)' = 0
BY FS_EmptySet, CatalogAssumption DEF Return

\* Ending a run with an error keeps what is listed.
LEMMA PlanStep == CatalogInv /\ (Plan \/ PlanFails) => CatalogInv'
<1> SUFFICES ASSUME CatalogInv, Plan \/ PlanFails PROVE CatalogInv'
  OBVIOUS
<1> USE DEF CatalogInv, CatalogTypeOK, StoredIsWhole, ListedIsStored, ListedHasFile, OkIsListed,
            RunInProgress, RequestsLeft, Readable, EntityModelIds
<1>1. CASE Plan
  BY <1>1, CatalogAssumption DEF Plan, Ids
<1>2. CASE PlanFails
  BY <1>2, ReturnKeeps, CatalogAssumption DEF PlanFails
<1> QED
  BY <1>1, <1>2

\* One request more or less in flight.
LEMMA FlightCounted ==
  ASSUME NEW S, NEW i, IsFiniteSet(S)
  PROVE  /\ IsFiniteSet(S \cup {i}) /\ IsFiniteSet(S \ {i})
         /\ Cardinality(S) \in Nat /\ Cardinality(S \ {i}) \in Nat
         /\ i \notin S => Cardinality(S \cup {i}) = Cardinality(S) + 1
         /\ Cardinality(S \ {i}) <= Cardinality(S)
<1>1. IsFiniteSet(S \cup {i}) /\ (i \notin S => Cardinality(S \cup {i}) = Cardinality(S) + 1)
  BY FS_AddElement
<1>2. /\ IsFiniteSet(S \ {i})
      /\ Cardinality(S \ {i}) = IF i \in S THEN Cardinality(S) - 1 ELSE Cardinality(S)
  BY FS_RemoveElement
<1>3. Cardinality(S) \in Nat /\ Cardinality(S \ {i}) \in Nat
  BY <1>2, FS_CardinalityType
<1> QED
  BY <1>1, <1>2, <1>3

\* Requests that are sent, fail, or bring a schema: what is stored is whole, and a
\* schema that could not be written is not stored.
LEMMA FetchStep == CatalogInv /\ Fetching => CatalogInv'
<1> SUFFICES ASSUME CatalogInv, NEW i \in Ids,
                    StartFetch(i) \/ FetchFails(i) \/ PutSchema(i) \/ PutSchemaFails(i)
             PROVE  CatalogInv'
  BY DEF Fetching
<1> USE DEF CatalogInv, CatalogTypeOK, StoredIsWhole, ListedIsStored, ListedHasFile, OkIsListed,
            RunInProgress, RequestsLeft, Readable, EntityModelIds
<1>1. /\ IsFiniteSet(flying \cup {i}) /\ IsFiniteSet(flying \ {i})
      /\ Cardinality(flying) \in Nat /\ Cardinality(flying \ {i}) \in Nat
      /\ i \notin flying => Cardinality(flying \cup {i}) = Cardinality(flying) + 1
      /\ Cardinality(flying \ {i}) <= Cardinality(flying)
  BY FlightCounted
<1>2. CASE StartFetch(i)
  BY <1>1, <1>2, CatalogAssumption DEF StartFetch
<1>3. CASE FetchFails(i)
  <2>1. i \in flying /\ i \notin failed /\ tries[i] \in 0..Attempts /\ tries[i] < Attempts
    BY <1>3 DEF FetchFails
  <2>2. /\ tries' \in [Ids -> 0..Attempts] /\ tries'[i] = tries[i] + 1
        /\ \A j \in Ids : j # i => tries'[j] = tries[j]
    BY <1>3, <2>1, CatalogAssumption DEF FetchFails
  <2>3. CASE tries'[i] = Attempts
    BY <1>1, <1>3, <2>1, <2>2, <2>3, CatalogAssumption DEF FetchFails
  <2>4. CASE tries'[i] # Attempts
    BY <1>3, <2>1, <2>2, <2>4, CatalogAssumption DEF FetchFails
  <2> QED
    BY <2>3, <2>4
<1>4. CASE PutSchema(i)
  BY <1>1, <1>4, CatalogAssumption DEF PutSchema, Absent
<1>5. CASE PutSchemaFails(i)
  <2>1. /\ file' \in [Ids -> {Absent, TornFile} \cup 1..MaxRuns]
        /\ \A j \in Ids : j # i => file'[j] = file[j]
        /\ file[i] # Absent => file'[i] # Absent
    BY <1>5, FileLeft DEF PutSchemaFails
  <2> QED
    BY <1>1, <1>5, <2>1, CatalogAssumption DEF PutSchemaFails, Ids
<1> QED
  BY <1>2, <1>3, <1>4, <1>5

\* Recording, whether it succeeds or not.
LEMMA RecordStep ==
  CatalogInv /\ (FetchedAll \/ RecordModels \/ RecordContextUrls \/ RecordFails) => CatalogInv'
<1> SUFFICES ASSUME CatalogInv, FetchedAll \/ RecordModels \/ RecordContextUrls \/ RecordFails
             PROVE  CatalogInv'
  OBVIOUS
<1> USE DEF CatalogInv, CatalogTypeOK, StoredIsWhole, ListedIsStored, ListedHasFile, OkIsListed,
            RunInProgress, RequestsLeft, Readable, EntityModelIds
<1>1. CASE FetchedAll
  BY <1>1 DEF FetchedAll
<1>2. CASE RecordModels
  BY <1>2, CatalogAssumption DEF RecordModels, SetModels, Ids, Absent
<1>3. CASE RecordContextUrls
  <2>1. RecordContextUrls /\ Return("ok") /\ run' = run
    BY <1>3 DEF RecordContextUrls
  <2>2. ContextUrls \subseteq Models \cup Extras /\ EntityModelIds \subseteq ContextUrls
    BY CatalogAssumption DEF ContextUrls, Ids
  <2> QED
    BY <2>1, <2>2, ReturnKeeps, CatalogAssumption DEF RecordContextUrls, ExtendContexts
<1>4. CASE RecordFails
  BY <1>4, ReturnKeeps, IndexLeft, CatalogAssumption DEF RecordFails, TornIndex, IndexAs
<1> QED
  BY <1>1, <1>2, <1>3, <1>4

\* A kill at any moment.
LEMMA CrashStep == CatalogInv /\ Crash => CatalogInv'
<1> SUFFICES ASSUME CatalogInv, Crash PROVE CatalogInv'
  OBVIOUS
<1>1. /\ pc # "idle" /\ Return("killed") /\ run' = run
      /\ \/ UNCHANGED <<index, file>>
         \/ UNCHANGED index /\ \E i \in flying : SchemaWriteFails(i)
         \/ IndexWriteFails /\ UNCHANGED file
  BY DEF Crash, CatalogInv, CatalogTypeOK
<1> USE <1>1, ReturnKeeps, CatalogAssumption
    DEF CatalogInv, CatalogTypeOK, StoredIsWhole, ListedIsStored, ListedHasFile, OkIsListed,
        RunInProgress, RequestsLeft, Readable, EntityModelIds
<1>2. CASE UNCHANGED <<index, file>>
  BY <1>2
<1>3. CASE UNCHANGED index /\ \E i \in flying : SchemaWriteFails(i)
  <2>1. PICK i \in flying : SchemaWriteFails(i)
    BY <1>3
  <2>2. i \in Ids
    BY <2>1
  <2>3. /\ file' \in [Ids -> {Absent, TornFile} \cup 1..MaxRuns]
        /\ \A j \in Ids : j # i => file'[j] = file[j]
        /\ file[i] # Absent => file'[i] # Absent
    BY <2>1, <2>2, FileLeft
  <2> QED
    BY <1>3, <2>3 DEF Ids
<1>4. CASE IndexWriteFails /\ UNCHANGED file
  BY <1>4, IndexLeft DEF TornIndex, IndexAs
<1> QED
  BY <1>1, <1>2, <1>3, <1>4

-----------------------------------------------------------------------------
\* What manifest.json lists is on disk (Downloader::run, record_models,
\* record_context_urls), however many downloads of however many schemas failed, were
\* killed or were repeated in the same directory.
THEOREM CatalogIsOnDisk == CatalogSpec => []ListedIsOnDisk
<1>1. CatalogInv /\ [CatalogNext]_catalogVars => CatalogInv'
  <2>1. CatalogInv /\ (CatalogRest \/ UNCHANGED catalogVars) => CatalogInv'
    BY DEF CatalogRest, catalogVars, CatalogInv, CatalogTypeOK, StoredIsWhole, ListedIsStored, ListedHasFile, OkIsListed,
           RunInProgress, RequestsLeft, Readable, EntityModelIds
  <2> QED
    BY <2>1, OpenStep, PlanStep, FetchStep, RecordStep, CrashStep DEF CatalogNext, Step
<1>2. CatalogInv => ListedIsOnDisk
  BY DEF CatalogInv, ListedIsOnDisk, ListedHasFile, OkIsListed
<1> QED
  BY CatalogInitInv, <1>1, <1>2, PTL DEF CatalogSpec
=============================================================================
