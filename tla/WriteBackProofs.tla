--------------------------- MODULE WriteBackProofs ---------------------------
(***************************************************************************)
(* Theorems on WriteBack, for any number of paths, clients, workers,       *)
(* writes and crashes: type correctness, and that the file of a session    *)
(* stays under its name (StagedUnderName).                                 *)
(*                                                                         *)
(* StagedUnderName is not inductive: a write goes through a handle, so the *)
(* handle's session must be the one in the manager (LiveHasSession), and   *)
(* the state must remember whether the descriptor of a session is still    *)
(* the file under the name (LinkedShowsFile, NamedUnlessUnlinked).         *)
(***************************************************************************)
EXTENDS WriteBack, StagingManagerProofs

BusyHasPath ==
  /\ \A c \in Clients : client[c].pc # "idle" => client[c].path \in Paths
  /\ \A w \in Workers : worker[w].pc # "idle" => worker[w].path \in Paths

LiveHasSession ==
  \A c \in Clients : client[c].live =>
    client[c].path \in Paths /\ session[client[c].path].open

NamedUnlessUnlinked ==
  \A p \in Paths : session[p].open /\ "unlink" \notin breach[p] => session[p].linked

IInv ==
  TypeOK /\ BusyHasPath /\ LiveHasSession /\ LinkedShowsFile /\ NamedUnlessUnlinked

LEMMA IInvStagedUnderName == IInv => StagedUnderName
BY DEF IInv, NamedUnlessUnlinked, LinkedShowsFile, StagedUnderName

-----------------------------------------------------------------------------
(* The processes.  A step keeps a process well-formed, and only a handle   *)
(* that was live, on the same path, is live after it.                      *)

ClientsKeep ==
  /\ client' \in [Clients -> Client]
  /\ \A c \in Clients :
       /\ client'[c].pc # "idle" => client'[c].path \in Paths
       /\ client'[c].live => client[c].live /\ client'[c].path = client[c].path

\* As above, and no handle on p is live: its session has left the manager.
ClientsLose(p) == ClientsKeep /\ \A c \in Clients : client'[c].live => client'[c].path # p

WorkersKeep ==
  /\ worker' \in [Workers -> Worker]
  /\ \A w \in Workers : worker'[w].pc # "idle" => worker'[w].path \in Paths

LEMMA IdleTypes == IdleClient \in Client /\ IdleWorker \in Worker
BY MaxWritesAssumption DEF IdleClient, IdleWorker, Client, Worker, Bytes, WriteIds

LEMMA ClientsUnchanged ==
  ASSUME TypeOK, BusyHasPath, UNCHANGED client
  PROVE  ClientsKeep
BY DEF TypeOK, BusyHasPath, ClientsKeep

LEMMA WorkersUnchanged ==
  ASSUME TypeOK, BusyHasPath, UNCHANGED worker
  PROVE  WorkersKeep
BY DEF TypeOK, BusyHasPath, WorkersKeep

LEMMA StepKeeps ==
  ASSUME TypeOK, BusyHasPath, NEW c \in Clients, client[c].pc # "idle",
         NEW pc \in OpenSteps \union RemoveSteps, Step(c, pc)
  PROVE  ClientsKeep
<1>1. client[c] \in Client
  BY DEF TypeOK
<1>2. [client[c] EXCEPT !.pc = pc] \in Client
  BY <1>1 DEF Client
<1> QED BY <1>1, <1>2 DEF Step, ClientsKeep, TypeOK, BusyHasPath, Client

LEMMA FinishKeeps ==
  ASSUME TypeOK, BusyHasPath, NEW c \in Clients, Finish(c)
  PROVE  ClientsKeep
BY IdleTypes DEF Finish, ClientsKeep, TypeOK, BusyHasPath, IdleClient

LEMMA StepWorkerKeeps ==
  ASSUME TypeOK, BusyHasPath, NEW w \in Workers, worker[w].pc # "idle",
         NEW pc \in DeleteSteps \union UploadSteps, StepWorker(w, pc)
  PROVE  WorkersKeep
<1>1. worker[w] \in Worker
  BY DEF TypeOK
<1>2. [worker[w] EXCEPT !.pc = pc] \in Worker
  BY <1>1 DEF Worker
<1> QED BY <1>1, <1>2 DEF StepWorker, WorkersKeep, TypeOK, BusyHasPath, Worker

LEMMA FinishWorkerKeeps ==
  ASSUME TypeOK, BusyHasPath, NEW w \in Workers, FinishWorker(w)
  PROVE  WorkersKeep
BY IdleTypes DEF FinishWorker, WorkersKeep, TypeOK, BusyHasPath, IdleWorker

LEMMA UnreadType ==
  ASSUME TypeOK, NEW p \in Paths
  PROVE  /\ Unread(p) \in [Workers -> Worker]
         /\ \A w \in Workers : Unread(p)[w].pc = worker[w].pc
                               /\ Unread(p)[w].path = worker[w].path
<1>1. \A w \in Workers : /\ [worker[w] EXCEPT !.reading = FALSE] \in Worker
                         /\ worker[w] \in Worker
  BY DEF TypeOK, Worker
<1> QED BY <1>1 DEF Unread, Worker

LEMMA OrphanWorkerType ==
  ASSUME TypeOK, NEW p \in Paths
  PROVE  /\ Orphan(Unread(p), p) \in [Workers -> Worker]
         /\ \A w \in Workers : Orphan(Unread(p), p)[w].pc = worker[w].pc
                               /\ Orphan(Unread(p), p)[w].path = worker[w].path
<1> DEFINE r == Unread(p)
<1>1. r \in [Workers -> Worker]
      /\ \A w \in Workers : r[w].pc = worker[w].pc /\ r[w].path = worker[w].path
  BY UnreadType
<1> HIDE DEF r
<1>2. \A w \in Workers : [r[w] EXCEPT !.live = FALSE] \in Worker /\ r[w] \in Worker
  BY <1>1 DEF Worker
<1>3. /\ Orphan(r, p) \in [Workers -> Worker]
      /\ \A w \in Workers : Orphan(r, p)[w].pc = r[w].pc /\ Orphan(r, p)[w].path = r[w].path
  BY <1>1, <1>2 DEF Orphan, Worker
<1> QED BY <1>1, <1>3 DEF r

LEMMA OrphanClientType ==
  ASSUME TypeOK, NEW p \in Paths
  PROVE  /\ Orphan(client, p) \in [Clients -> Client]
         /\ \A c \in Clients :
              /\ Orphan(client, p)[c].pc = client[c].pc
              /\ Orphan(client, p)[c].path = client[c].path
              /\ Orphan(client, p)[c].live => client[c].live /\ client[c].path # p
<1>1. client \in [Clients -> Client]
  BY DEF TypeOK
<1>2. \A c \in Clients : [client[c] EXCEPT !.live = FALSE] \in Client /\ client[c] \in Client
  BY <1>1 DEF Client
<1> QED BY <1>1, <1>2 DEF Orphan, Client

LEMMA OrphansKeep ==
  ASSUME TypeOK, BusyHasPath, NEW p \in Paths, client' = Orphan(client, p)
  PROVE  ClientsLose(p)
BY OrphanClientType DEF ClientsLose, ClientsKeep, BusyHasPath

LEMMA OrphansStep ==
  ASSUME TypeOK, BusyHasPath, NEW p \in Paths, NEW c \in Clients, client[c].pc # "idle",
         NEW pc \in OpenSteps \union RemoveSteps,
         client' = [Orphan(client, p) EXCEPT ![c].pc = pc]
  PROVE  ClientsLose(p)
<1> DEFINE o == Orphan(client, p)
<1>1. o \in [Clients -> Client] /\ \A d \in Clients :
        o[d].pc = client[d].pc /\ o[d].path = client[d].path
        /\ (o[d].live => client[d].live /\ client[d].path # p)
  BY OrphanClientType
<1> HIDE DEF o
<1> DEFINE n == [o[c] EXCEPT !.pc = pc]
<1>2. n \in Client /\ n.path = o[c].path /\ (n.live => o[c].live)
  BY <1>1 DEF Client
<1>3. client' = [o EXCEPT ![c] = n]
  BY <1>1 DEF o
<1> HIDE DEF n
<1>4. client' \in [Clients -> Client]
  BY <1>1, <1>2, <1>3
<1>5. \A d \in Clients : /\ client'[d].path = client[d].path
                         /\ client'[d].pc # "idle" => client[d].pc # "idle"
                         /\ client'[d].live => client[d].live /\ client[d].path # p
  BY <1>1, <1>2, <1>3
<1> QED BY <1>4, <1>5 DEF ClientsLose, ClientsKeep, BusyHasPath

LEMMA OrphansFinish ==
  ASSUME TypeOK, BusyHasPath, NEW p \in Paths, NEW c \in Clients,
         client' = [Orphan(client, p) EXCEPT ![c] = IdleClient]
  PROVE  ClientsLose(p)
BY OrphanClientType, IdleTypes DEF ClientsLose, ClientsKeep, BusyHasPath, IdleClient

LEMMA OrphanWorkersKeep ==
  ASSUME TypeOK, BusyHasPath, NEW p \in Paths,
         \/ worker' = Unread(p)
         \/ worker' = Orphan(Unread(p), p)
  PROVE  WorkersKeep
BY UnreadType, OrphanWorkerType DEF WorkersKeep, BusyHasPath

LEMMA OrphanWorkersStep ==
  ASSUME TypeOK, BusyHasPath, NEW p \in Paths, NEW w \in Workers, worker[w].pc # "idle",
         NEW pc \in DeleteSteps \union UploadSteps,
         worker' = [Orphan(Unread(p), p) EXCEPT ![w].pc = pc]
  PROVE  WorkersKeep
<1> DEFINE o == Orphan(Unread(p), p)
<1>1. o \in [Workers -> Worker] /\ \A v \in Workers :
        o[v].pc = worker[v].pc /\ o[v].path = worker[v].path
  BY OrphanWorkerType
<1> HIDE DEF o
<1>2. [o[w] EXCEPT !.pc = pc] \in Worker
  BY <1>1 DEF Worker
<1>3. worker' = [o EXCEPT ![w] = [o[w] EXCEPT !.pc = pc]]
  BY <1>1 DEF o
<1> QED BY <1>1, <1>2, <1>3 DEF WorkersKeep, BusyHasPath, Worker

-----------------------------------------------------------------------------
(* The parts of TypeOK, and how the parts of a step make up IInv'.         *)

StoreType == objects \subseteq Paths /\ cos \in [Paths -> Bytes]

CountType ==
  /\ writes \in 0..MaxWrites /\ opens \in 0..MaxOpens
  /\ removes \in 0..MaxRemoves /\ crashes \in 0..MaxCrashes

HistoryType == promised \in [Paths -> Bytes] /\ deleted \in [Paths -> Bytes]

BreachGrows ==
  breach' \in [Paths -> SUBSET Breaches] /\ \A p \in Paths : breach[p] \subseteq breach'[p]

LEMMA FlagGrows ==
  ASSUME TypeOK,
         \/ UNCHANGED breach
         \/ \E p \in Paths, kinds \in SUBSET Breaches : Flag(p, kinds)
  PROVE  BreachGrows
BY DEF TypeOK, Flag, BreachGrows

RestType == StoreType /\ CountType /\ HistoryType

\* A step that removes no session.
LEMMA KeepingStep ==
  ASSUME IInv, IndexTypeOK', ManagerTypeOK', LinkedShowsFile', RestType',
         KeepsSessions, BreachGrows, ClientsKeep, WorkersKeep
  PROVE  IInv'
<1>1. TypeOK' /\ BusyHasPath'
  BY DEF TypeOK, RestType, StoreType, CountType, HistoryType, BreachGrows,
         ClientsKeep, WorkersKeep, BusyHasPath
<1>2. LiveHasSession'
  BY DEF IInv, LiveHasSession, ClientsKeep, KeepsSessions
<1>3. NamedUnlessUnlinked'
  BY DEF IInv, NamedUnlessUnlinked, BreachGrows, KeepsSessions
<1> QED BY <1>1, <1>2, <1>3 DEF IInv

\* A step that may remove the session of p.
LEMMA RemovingStep ==
  ASSUME IInv, IndexTypeOK', ManagerTypeOK', LinkedShowsFile', RestType',
         NEW p \in Paths, RemovesOnly(p), BreachGrows, ClientsLose(p), WorkersKeep
  PROVE  IInv'
<1>1. TypeOK' /\ BusyHasPath'
  BY DEF TypeOK, RestType, StoreType, CountType, HistoryType, BreachGrows,
         ClientsLose, ClientsKeep, WorkersKeep, BusyHasPath
<1>2. LiveHasSession'
  BY DEF IInv, LiveHasSession, ClientsLose, ClientsKeep, RemovesOnly
<1>3. NamedUnlessUnlinked'
  BY DEF IInv, NamedUnlessUnlinked, BreachGrows, RemovesOnly
<1> QED BY <1>1, <1>2, <1>3 DEF IInv

\* A step that touches neither sessions nor staging files.
LEMMA SessionsUnchanged ==
  ASSUME IInv, UNCHANGED <<session, files, disk>>,
         sidecars' \subseteq Paths, tombstones' \subseteq Paths
  PROVE  ManagerTypeOK' /\ LinkedShowsFile' /\ KeepsSessions
BY DEF IInv, TypeOK, ManagerTypeOK, LinkedShowsFile, KeepsSessions

LEMMA ManagerUnchanged ==
  ASSUME IInv, UNCHANGED managerVars
  PROVE  ManagerTypeOK' /\ LinkedShowsFile' /\ KeepsSessions
BY SessionsUnchanged DEF IInv, TypeOK, ManagerTypeOK, managerVars

LEMMA IndexUnchanged ==
  ASSUME IInv, UNCHANGED indexVars
  PROVE  IndexTypeOK'
BY DEF IInv, TypeOK, IndexTypeOK, indexVars

LEMMA RestUnchanged ==
  /\ TypeOK /\ UNCHANGED storeVars => StoreType'
  /\ TypeOK /\ UNCHANGED countVars => CountType'
  /\ TypeOK /\ UNCHANGED <<promised, deleted>> => HistoryType'
BY DEF TypeOK, storeVars, countVars, StoreType, CountType, HistoryType

-----------------------------------------------------------------------------
(* Opens, writes and closes.                                               *)

LEMMA OpenFileStep ==
  ASSUME IInv, NEW c \in Clients, NEW p \in Paths, NEW mode \in Modes, OpenFile(c, p, mode)
  PROVE  IInv'
<1>1. TypeOK /\ BusyHasPath
  BY DEF IInv
<1>2. ClientsKeep
  <2>1. \A d \in Clients : client[d] \in Client /\ [client[d] EXCEPT !.loose = TRUE] \in Client
    BY <1>1 DEF TypeOK, Client
  <2> DEFINE opened(b, l) == [IdleClient EXCEPT !.pc = "get", !.path = p, !.mode = mode,
                                                !.pend = b, !.loose = l]
  <2>2. \A b, l \in BOOLEAN : /\ opened(b, l) \in Client
                              /\ opened(b, l).path = p /\ ~opened(b, l).live
    BY IdleTypes, ConstantsAssumption DEF Client, OpenSteps, IdleClient
  <2> DEFINE removing == \E d \in On(p) : client[d].pc \in RemoveSteps
  <2>3. client' = [d \in Clients |->
          IF d = c THEN opened(HasPendingDelete(p), removing)
          ELSE IF client[d].path = p /\ client[d].pc \in RemoveSteps
          THEN [client[d] EXCEPT !.loose = TRUE] ELSE client[d]]
    BY DEF OpenFile
  <2>4. HasPendingDelete(p) \in BOOLEAN /\ removing \in BOOLEAN
    BY DEF HasPendingDelete
  <2> HIDE DEF opened, removing
  <2> QED BY <1>1, <2>1, <2>2, <2>3, <2>4 DEF ClientsKeep, TypeOK, BusyHasPath, Client
<1>3. WorkersKeep
  BY <1>1, WorkersUnchanged DEF OpenFile
<1>4. RestType'
  <2>1. CountType'
    <3>1. opens < MaxOpens /\ opens' = opens + 1 /\ UNCHANGED <<writes, removes, crashes>>
      BY DEF OpenFile
    <3> QED BY <1>1, <3>1, ConstantsAssumption DEF TypeOK, CountType
  <2>2. HistoryType'
    BY <1>1 DEF OpenFile, TypeOK, HistoryType, Bytes
  <2> QED BY <1>1, <2>1, <2>2, RestUnchanged DEF OpenFile, RestType
<1>5. BreachGrows
  BY <1>1, FlagGrows DEF OpenFile
<1> QED BY <1>2, <1>3, <1>4, <1>5, KeepingStep, ManagerUnchanged, IndexUnchanged DEF OpenFile

\* The handle becomes live, on the session the path has now.
LEMMA GetSessionStep ==
  ASSUME IInv, NEW c \in Clients, GetSession(c)
  PROVE  IInv'
<1> DEFINE p == client[c].path
<1>1. TypeOK /\ BusyHasPath /\ p \in Paths
  BY DEF IInv, GetSession, BusyHasPath
<1>2. ManagerTypeOK' /\ LinkedShowsFile' /\ KeepsSessions /\ session'[p].open
  BY <1>1, GetOrCreateSessionKeeps DEF IInv, TypeOK, GetSession
<1>3. client' \in [Clients -> Client] /\ \A d \in Clients :
        /\ client'[d].path = client[d].path
        /\ client'[d].pc # "idle" => client[d].pc # "idle"
        /\ client'[d].live => client[d].live \/ d = c
  <2>1. client[c] \in Client /\ \A pc \in {"stat", "trunc", "open"} :
          [client[c] EXCEPT !.live = TRUE, !.pc = pc] \in Client
    BY <1>1 DEF TypeOK, Client, OpenSteps
  <2>2. PICK pc \in {"stat", "trunc", "open"} :
          client' = [client EXCEPT ![c] = [client[c] EXCEPT !.live = TRUE, !.pc = pc]]
    BY <1>1 DEF GetSession, TypeOK
  <2> QED BY <1>1, <2>1, <2>2 DEF GetSession, TypeOK, Client
<1>4. BreachGrows
  BY <1>1, FlagGrows DEF GetSession, Breaches
<1>5. TypeOK'
  BY <1>1, <1>2, <1>3, <1>4, IndexUnchanged, RestUnchanged
     DEF TypeOK, GetSession, StoreType, CountType, HistoryType, BreachGrows
<1>6. BusyHasPath' /\ LiveHasSession'
  BY <1>1, <1>2, <1>3
     DEF IInv, BusyHasPath, LiveHasSession, KeepsSessions, GetSession
<1>7. NamedUnlessUnlinked'
  BY <1>2, <1>4 DEF IInv, NamedUnlessUnlinked, BreachGrows, KeepsSessions
<1> QED BY <1>2, <1>5, <1>6, <1>7 DEF IInv

LEMMA StatObjectStep ==
  ASSUME IInv, NEW c \in Clients, StatObject(c)
  PROVE  IInv'
<1>1. TypeOK /\ BusyHasPath /\ client[c].path \in Paths
  BY DEF IInv, StatObject, BusyHasPath
<1>2. ClientsKeep
  BY <1>1, StepKeeps DEF StatObject, OpenSteps
<1>3. BreachGrows
  BY <1>1, FlagGrows DEF StatObject, Breaches
<1> QED BY <1>1, <1>2, <1>3, KeepingStep, ManagerUnchanged, IndexUnchanged,
           RestUnchanged, WorkersUnchanged DEF StatObject, RestType

LEMMA FetchStartStep ==
  ASSUME IInv, NEW c \in Clients, FetchStart(c)
  PROVE  IInv'
<1> DEFINE p == client[c].path
<1>1. TypeOK /\ BusyHasPath /\ p \in Paths
  BY DEF IInv, FetchStart, BusyHasPath
<1>2. IndexTypeOK' /\ RestType'
  BY <1>1, IndexUnchanged, RestUnchanged DEF FetchStart, RestType
<1>3. CASE /\ \E pc \in OpenSteps : Step(c, pc)
           /\ UNCHANGED <<managerVars, worker, breach>>
  BY <1>1, <1>2, <1>3, StepKeeps, KeepingStep, ManagerUnchanged, WorkersUnchanged,
     FlagGrows DEF FetchStart
<1>4. CASE /\ DownloadToFile(p, {}, client[c].live /\ UploadReading(p), FALSE)
           /\ worker' = Unread(p) \/ UNCHANGED worker
           /\ client' = [client EXCEPT ![c].pc = "fetching", ![c].got = cos[p]]
           /\ \E kinds \in SUBSET {"fetch", "reuse"} : Flag(p, kinds)
  <2>1. ManagerTypeOK' /\ LinkedShowsFile' /\ KeepsSessions
    <3>1. {} \in Bytes /\ (client[c].live /\ UploadReading(p)) \in BOOLEAN
      BY DEF Bytes
    <3> QED BY <1>1, <1>4, <3>1, DownloadToFileKeeps DEF IInv, TypeOK
  <2>2. ClientsKeep
    <3>1. client[c] \in Client /\ cos[p] \in Bytes
      BY <1>1 DEF TypeOK
    <3>2. [client[c] EXCEPT !.pc = "fetching", !.got = cos[p]] \in Client
      BY <3>1 DEF Client, OpenSteps
    <3>3. client' = [client EXCEPT ![c] = [client[c] EXCEPT !.pc = "fetching", !.got = cos[p]]]
      BY <1>1, <1>4 DEF TypeOK
    <3> QED BY <1>1, <3>1, <3>2, <3>3 DEF ClientsKeep, TypeOK, BusyHasPath, Client
  <2>3. WorkersKeep
    BY <1>1, <1>4, UnreadType, WorkersUnchanged DEF WorkersKeep, BusyHasPath
  <2>4. BreachGrows
    BY <1>1, <1>4, FlagGrows DEF Breaches
  <2> QED BY <1>2, <2>1, <2>2, <2>3, <2>4, KeepingStep
<1> QED BY <1>3, <1>4 DEF FetchStart, OpenSteps

LEMMA FetchEndStep ==
  ASSUME IInv, NEW c \in Clients, FetchEnd(c)
  PROVE  IInv'
<1> DEFINE p == client[c].path
<1>1. TypeOK /\ BusyHasPath /\ p \in Paths /\ client[c] \in Client
  BY DEF IInv, FetchEnd, BusyHasPath, TypeOK
<1>2. ManagerTypeOK' /\ LinkedShowsFile' /\ KeepsSessions
  <2>1. client[c].got \in Bytes /\ client[c].live \in BOOLEAN
    BY <1>1 DEF Client
  <2>2. CASE UNCHANGED managerVars
    BY <2>2, ManagerUnchanged
  <2>3. CASE DownloadToFile(p, client[c].got, FALSE, client[c].live)
    BY <1>1, <2>1, <2>3, DownloadToFileKeeps DEF IInv, TypeOK
  <2> QED BY <2>2, <2>3 DEF FetchEnd
<1>3. ClientsKeep
  <2>1. \A pc \in {"open", "discard"} : [client[c] EXCEPT !.pc = pc, !.got = {}] \in Client
    BY <1>1 DEF Client, OpenSteps, Bytes
  <2>2. PICK pc \in {"open", "discard"} :
          client' = [client EXCEPT ![c] = [client[c] EXCEPT !.pc = pc, !.got = {}]]
    BY <1>1 DEF FetchEnd, TypeOK
  <2> QED BY <1>1, <2>1, <2>2 DEF ClientsKeep, TypeOK, BusyHasPath, Client
<1> QED BY <1>1, <1>2, <1>3, KeepingStep, IndexUnchanged, RestUnchanged,
           WorkersUnchanged, FlagGrows DEF FetchEnd, RestType, ghostVars

LEMMA DiscardStep ==
  ASSUME IInv, NEW c \in Clients, Discard(c)
  PROVE  IInv'
<1> DEFINE p == client[c].path
<1>1. TypeOK /\ BusyHasPath /\ LinkedShowsFile /\ ManagerTypeOK /\ p \in Paths
      /\ client[c].pc # "idle"
  BY DEF IInv, Discard, BusyHasPath, TypeOK
<1>2. IndexTypeOK' /\ RestType' /\ BreachGrows
  BY <1>1, IndexUnchanged, RestUnchanged, FlagGrows DEF Discard, RestType, Breaches
<1>3. CASE DiscardsSession(p)
  <2>1. ManagerTypeOK' /\ LinkedShowsFile' /\ RemovesOnly(p)
    BY <1>1, <1>3, DiscardIfEmptyKeeps DEF Discard
  <2>2. ClientsLose(p) /\ WorkersKeep
    BY <1>1, <1>3, OrphansStep, OrphanWorkersKeep DEF Discard, OpenSteps
  <2> QED BY <1>1, <1>2, <2>1, <2>2, RemovingStep
<1>4. CASE ~DiscardsSession(p)
  <2>1. ManagerTypeOK' /\ LinkedShowsFile' /\ KeepsSessions
    BY <1>1, <1>4, ReleaseSessionKeeps DEF Discard, ReleaseSessionDiscardingIfEmpty
  <2>2. ClientsKeep /\ WorkersKeep
    BY <1>1, <1>4, FinishKeeps, WorkersUnchanged DEF Discard
  <2> QED BY <1>2, <2>1, <2>2, KeepingStep
<1> QED BY <1>3, <1>4

\* The one step that may take the file of a session from under it; it says so.
LEMMA UnlinkStep ==
  ASSUME IInv, NEW c \in Clients, Unlink(c)
  PROVE  IInv'
<1> DEFINE p == client[c].path
<1>1. TypeOK /\ BusyHasPath /\ LinkedShowsFile /\ ManagerTypeOK /\ p \in Paths
  BY DEF IInv, Unlink, BusyHasPath, TypeOK
<1>2. IndexTypeOK' /\ RestType' /\ BreachGrows
  BY <1>1, IndexUnchanged, RestUnchanged, FlagGrows DEF Unlink, RestType, Breaches
<1>3. ManagerTypeOK' /\ LinkedShowsFile' /\ session'[p].open = session[p].open
      /\ \A q \in Paths \ {p} : session'[q] = session[q]
  BY <1>1, RemoveStagingFilesKeeps DEF Unlink
<1>4. ClientsKeep /\ WorkersKeep
  BY <1>1, FinishKeeps, WorkersUnchanged DEF Unlink
<1>5. TypeOK' /\ BusyHasPath'
  BY <1>2, <1>3, <1>4
     DEF TypeOK, RestType, StoreType, CountType, HistoryType, BreachGrows,
         ClientsKeep, WorkersKeep, BusyHasPath
<1>6. LiveHasSession'
  BY <1>1, <1>3, <1>4 DEF IInv, LiveHasSession, ClientsKeep
<1>7. NamedUnlessUnlinked'
  <2>1. session[p].open => "unlink" \in breach'[p]
    BY <1>1 DEF Unlink, Flag, TypeOK
  <2> QED BY <1>2, <1>3, <2>1 DEF IInv, NamedUnlessUnlinked, BreachGrows
<1> QED BY <1>3, <1>5, <1>6, <1>7 DEF IInv

LEMMA WriteStep ==
  ASSUME IInv, NEW c \in Clients, Write(c)
  PROVE  IInv'
<1> DEFINE p == client[c].path
<1>1. TypeOK /\ BusyHasPath /\ LinkedShowsFile /\ ManagerTypeOK /\ p \in Paths
      /\ client[c] \in Client /\ (client[c].live => session[p].open)
  BY DEF IInv, Write, BusyHasPath, TypeOK, LiveHasSession
<1>2. writes + 1 \in WriteIds
  BY <1>1, MaxWritesAssumption DEF Write, TypeOK, WriteIds
<1>3. RestType'
  <2>1. writes < MaxWrites /\ writes' = writes + 1 /\ UNCHANGED <<opens, removes, crashes>>
    BY DEF Write
  <2>2. CountType'
    BY <1>1, <2>1, MaxWritesAssumption DEF TypeOK, CountType
  <2> QED BY <1>1, <2>2, RestUnchanged DEF Write, RestType, ghostVars
<1>4. IndexTypeOK' /\ BreachGrows
  BY <1>1, IndexUnchanged, FlagGrows DEF Write, ghostVars
<1>5. CASE client[c].live
  <2>1. ManagerTypeOK' /\ LinkedShowsFile' /\ KeepsSessions
    <3>1. session[p].bytes \union {writes + 1} \in Bytes /\ UploadReading(p) \in BOOLEAN
      BY <1>1, <1>2 DEF ManagerTypeOK, Session, Bytes, UploadReading
    <3> QED BY <1>1, <1>5, <3>1, SetBytesKeeps DEF Write
  <2>2. ClientsKeep
    <3>1. [client[c] EXCEPT !.pc = "mark", !.w = writes + 1] \in Client
      BY <1>1, <1>2 DEF Client, OpenSteps
    <3>2. client' = [client EXCEPT ![c] = [client[c] EXCEPT !.pc = "mark", !.w = writes + 1]]
      BY <1>1, <1>5 DEF Write, TypeOK
    <3> QED BY <1>1, <3>1, <3>2 DEF ClientsKeep, TypeOK, BusyHasPath, Client
  <2>3. WorkersKeep
    BY <1>1, <1>5, OrphanWorkersKeep DEF Write
  <2> QED BY <1>3, <1>4, <2>1, <2>2, <2>3, KeepingStep
<1>6. CASE ~client[c].live
  BY <1>1, <1>3, <1>4, <1>6, KeepingStep, ManagerUnchanged, ClientsUnchanged,
     WorkersUnchanged DEF Write
<1> QED BY <1>5, <1>6

LEMMA TruncateStep ==
  ASSUME IInv, NEW c \in Clients, Truncate(c)
  PROVE  IInv'
<1> DEFINE p == client[c].path
<1>1. TypeOK /\ BusyHasPath /\ LinkedShowsFile /\ ManagerTypeOK /\ p \in Paths
      /\ client[c].pc \in {"trunc", "open"} /\ (client[c].live => session[p].open)
  BY DEF IInv, Truncate, BusyHasPath, TypeOK, LiveHasSession
<1>2. RestType'
  <2>1. /\ UNCHANGED <<opens, removes, crashes>>
        /\ UNCHANGED writes \/ (writes < MaxWrites /\ writes' = writes + 1)
    BY <1>1 DEF Truncate
  <2>2. CountType'
    BY <1>1, <2>1, MaxWritesAssumption DEF TypeOK, CountType
  <2>3. HistoryType'
    BY <1>1 DEF Truncate, TypeOK, HistoryType, Bytes
  <2> QED BY <1>1, <2>2, <2>3, RestUnchanged DEF Truncate, RestType
<1>3. IndexTypeOK' /\ BreachGrows
  BY <1>1, IndexUnchanged, FlagGrows DEF Truncate
<1>4. CASE client[c].live
  <2>1. ManagerTypeOK' /\ LinkedShowsFile' /\ KeepsSessions
    <3>1. {} \in Bytes /\ UploadReading(p) \in BOOLEAN
      BY DEF Bytes, UploadReading
    <3> QED BY <1>1, <1>4, <3>1, SetBytesKeeps DEF Truncate
  <2>2. ClientsKeep
    <3> DEFINE t == [client[c] EXCEPT !.w = 0,
                       !.pc = IF @ = "trunc" THEN "marktrunc" ELSE "mark"]
    <3>1. \A d \in Clients : client[d] \in Client /\ [client[d] EXCEPT !.w = 0] \in Client
      BY <1>1, MaxWritesAssumption DEF TypeOK, Client, WriteIds
    <3>2. t \in Client /\ t.path = p /\ (t.live => client[c].live)
      BY <3>1, MaxWritesAssumption DEF Client, OpenSteps, WriteIds
    <3>3. client' = [d \in Clients |-> IF d = c THEN t ELSE
             IF client[d].path = p THEN [client[d] EXCEPT !.w = 0] ELSE client[d]]
      BY <1>4 DEF Truncate
    <3> HIDE DEF t
    <3>4. client' \in [Clients -> Client]
      BY <3>1, <3>2, <3>3
    <3>5. \A d \in Clients : /\ client'[d].path = client[d].path
                             /\ client'[d].pc # "idle" => client[d].pc # "idle"
                             /\ client'[d].live => client[d].live
      BY <1>1, <3>1, <3>2, <3>3 DEF Client
    <3> QED BY <1>1, <3>4, <3>5 DEF ClientsKeep, BusyHasPath
  <2>3. WorkersKeep
    BY <1>1, <1>4, OrphanWorkersKeep DEF Truncate
  <2> QED BY <1>2, <1>3, <2>1, <2>2, <2>3, KeepingStep
<1>5. CASE ~client[c].live
  <2>1. ClientsKeep
    BY <1>1, <1>5, FinishKeeps, ClientsUnchanged DEF Truncate
  <2> QED BY <1>1, <1>2, <1>3, <1>5, <2>1, KeepingStep, ManagerUnchanged,
             WorkersUnchanged DEF Truncate
<1> QED BY <1>4, <1>5

\* The handle goes back to "open" with nothing left to accept.
LEMMA MarkedKeeps ==
  ASSUME TypeOK, BusyHasPath, NEW c \in Clients, client[c].pc # "idle",
         client' = [client EXCEPT ![c].pc = "open", ![c].w = 0]
  PROVE  ClientsKeep
<1> DEFINE m == [client[c] EXCEPT !.pc = "open", !.w = 0]
<1>1. m \in Client /\ m.path = client[c].path /\ (m.live => client[c].live)
  <2>1. client[c] \in Client /\ 0 \in WriteIds
    BY MaxWritesAssumption DEF TypeOK, WriteIds
  <2> QED BY <2>1 DEF Client, OpenSteps
<1>2. client' = [client EXCEPT ![c] = m]
  BY DEF TypeOK
<1> HIDE DEF m
<1>3. client' \in [Clients -> Client]
  BY <1>1, <1>2 DEF TypeOK
<1> QED BY <1>1, <1>2, <1>3 DEF ClientsKeep, TypeOK, BusyHasPath

LEMMA MarkDirtyStep ==
  ASSUME IInv, NEW c \in Clients, MarkDirty(c)
  PROVE  IInv'
<1> DEFINE p == client[c].path
<1>1. TypeOK /\ BusyHasPath /\ p \in Paths /\ client[c] \in Client
      /\ client[c].pc # "idle"
  BY DEF IInv, MarkDirty, BusyHasPath, TypeOK
<1>2. IndexTypeOK'
  BY <1>1, IndexStepType DEF MarkDirty, TypeOK
<1>3. ManagerTypeOK' /\ LinkedShowsFile' /\ KeepsSessions
  BY <1>1, SessionsUnchanged DEF MarkDirty, TypeOK, ManagerTypeOK
<1>4. HistoryType'
  <2>1. client[c].w \in WriteIds
    BY <1>1 DEF Client
  <2> QED BY <1>1, <2>1 DEF MarkDirty, Accept, TypeOK, HistoryType, Bytes
<1> QED BY <1>1, <1>2, <1>3, <1>4, MarkedKeeps, KeepingStep, WorkersUnchanged, FlagGrows,
           RestUnchanged DEF MarkDirty, RestType

LEMMA MarkDirtyFailsStep ==
  ASSUME IInv, NEW c \in Clients, MarkDirtyFails(c)
  PROVE  IInv'
<1> DEFINE p == client[c].path
<1>1. TypeOK /\ BusyHasPath /\ p \in Paths /\ LinkedShowsFile /\ ManagerTypeOK
      /\ client[c].pc # "idle"
  BY DEF IInv, MarkDirtyFails, BusyHasPath, TypeOK
<1>2. IndexTypeOK' /\ RestType' /\ BreachGrows /\ WorkersKeep
  <2>1. IndexTypeOK'
    BY <1>1, IndexStepType DEF MarkDirtyFails, TypeOK
  <2>2. BreachGrows
    BY <1>1, FlagGrows DEF MarkDirtyFails, Breaches
  <2> QED BY <1>1, <2>1, <2>2, RestUnchanged, WorkersUnchanged DEF MarkDirtyFails, RestType
<1>3. CASE client[c].pc = "mark"
  BY <1>1, <1>2, <1>3, MarkedKeeps, KeepingStep, ManagerUnchanged DEF MarkDirtyFails
<1>4. CASE client[c].pc # "mark"
  BY <1>1, <1>2, <1>4, FinishKeeps, KeepingStep, ReleaseSessionKeeps DEF MarkDirtyFails
<1> QED BY <1>3, <1>4

LEMMA CloseStep ==
  ASSUME IInv, NEW c \in Clients, Close(c)
  PROVE  IInv'
<1>1. TypeOK /\ BusyHasPath /\ client[c].path \in Paths /\ LinkedShowsFile /\ ManagerTypeOK
  BY DEF IInv, Close, BusyHasPath, TypeOK
<1>2. BreachGrows
  BY <1>1, FlagGrows DEF Close, Breaches
<1> QED BY <1>1, <1>2, FinishKeeps, KeepingStep, ReleaseSessionKeeps, IndexUnchanged,
           WorkersUnchanged, RestUnchanged DEF Close, RestType

LEMMA ClientOpenStep ==
  ASSUME IInv, NEW c \in Clients, ClientOpen(c)
  PROVE  IInv'
BY OpenFileStep, GetSessionStep, StatObjectStep, FetchStartStep, FetchEndStep, DiscardStep,
   UnlinkStep, TruncateStep, WriteStep, MarkDirtyStep, MarkDirtyFailsStep, CloseStep
   DEF ClientOpen

-----------------------------------------------------------------------------
(* Removes.                                                                *)

LEMMA RemovedKeeps ==
  ASSUME TypeOK, BusyHasPath, NEW c \in Clients, client[c].path \in Paths, Removed(c)
  PROVE  ClientsKeep /\ deleted' \in [Paths -> Bytes]
<1>1. 0..writes \in Bytes
  BY MaxWritesAssumption DEF TypeOK, Bytes, WriteIds
<1> QED BY <1>1, FinishKeeps DEF Removed, TypeOK

LEMMA RemoveFileStep ==
  ASSUME IInv, NEW c \in Clients, NEW p \in Paths, RemoveFile(c, p)
  PROVE  IInv'
<1>1. TypeOK /\ BusyHasPath
  BY DEF IInv
<1>2. ClientsKeep
  <2> DEFINE opening == \E d \in On(p) : client[d].pc \in OpenSteps
             r == [IdleClient EXCEPT !.path = p, !.loose = opening,
                     !.pc = IF IsDirty(p) THEN "rmtomb" ELSE "rmstat",
                     !.mode = IF IsDirty(p) THEN "none" ELSE "keep"]
  <2>1. \A d \in Clients : client[d] \in Client /\ [client[d] EXCEPT !.loose = TRUE] \in Client
    BY <1>1 DEF TypeOK, Client
  <2>2. opening \in BOOLEAN
    OBVIOUS
  <2>3. client' = [d \in Clients |-> IF d = c THEN r
          ELSE IF client[d].path = p THEN [client[d] EXCEPT !.loose = TRUE] ELSE client[d]]
    BY DEF RemoveFile
  <2> HIDE DEF opening
  <2>4. r \in Client /\ r.path = p /\ ~r.live
    BY <2>2, IdleTypes DEF Client, IdleClient, RemoveSteps, OpenModes
  <2> HIDE DEF r
  <2> QED BY <1>1, <2>1, <2>3, <2>4 DEF ClientsKeep, TypeOK, BusyHasPath, Client
<1>3. RestType'
  <2>1. removes < MaxRemoves /\ removes' = removes + 1 /\ UNCHANGED <<writes, opens, crashes>>
    BY DEF RemoveFile
  <2>2. CountType'
    BY <1>1, <2>1, ConstantsAssumption DEF TypeOK, CountType
  <2>3. HistoryType'
    BY <1>1 DEF RemoveFile, TypeOK, HistoryType, Bytes
  <2> QED BY <1>1, <2>2, <2>3, RestUnchanged DEF RemoveFile, RestType
<1> QED BY <1>1, <1>2, <1>3, KeepingStep, ManagerUnchanged, IndexUnchanged, FlagGrows,
           WorkersUnchanged DEF RemoveFile

\* The steps of a remove that leave sessions and staging files alone.
LEMMA RemoveQuietStep ==
  ASSUME IInv, NEW c \in Clients,
         \/ RemoveStat(c) \/ RemoveObject(c) \/ AddTombstone(c) \/ RemoveLock(c)
         \/ RemoveUnlock(c) \/ RemoveDelete(c) \/ RemoveResolve(c) \/ RemoveCheck(c)
  PROVE  IInv'
<1> DEFINE p == client[c].path
           quiet == RemoveStat(c) \/ RemoveObject(c) \/ AddTombstone(c) \/ RemoveLock(c)
                    \/ RemoveUnlock(c) \/ RemoveDelete(c) \/ RemoveResolve(c) \/ RemoveCheck(c)
<1>0. quiet
  OBVIOUS
<1> HIDE DEF quiet
<1>1. TypeOK /\ BusyHasPath /\ p \in Paths /\ client[c].pc # "idle"
  <2>1. client[c].pc # "idle"
    BY <1>0 DEF quiet, RemoveStat, RemoveObject, AddTombstone, RemoveLock, RemoveUnlock,
                RemoveDelete, RemoveResolve, RemoveCheck
  <2> QED BY <2>1 DEF IInv, BusyHasPath
<1>2. IndexTypeOK'
  <2>1. UNCHANGED indexVars \/ LockFile(p) \/ UnlockFile(p)
    BY <1>0 DEF quiet, RemoveStat, RemoveObject, AddTombstone, RemoveLock, RemoveUnlock,
                RemoveDelete, RemoveResolve, RemoveCheck
  <2> QED BY <1>1, <2>1, IndexStepType DEF TypeOK
<1>3. ManagerTypeOK' /\ LinkedShowsFile' /\ KeepsSessions
  <2>1. UNCHANGED managerVars
        \/ /\ UNCHANGED <<session, files, disk, sidecars>>
           /\ tombstones' \in {tombstones, tombstones \union {p}, tombstones \ {p}}
    BY <1>0 DEF quiet, RemoveStat, RemoveObject, AddTombstone, RemoveLock, RemoveUnlock,
                RemoveDelete, RemoveResolve, RemoveCheck
  <2> QED BY <1>1, <2>1, ManagerUnchanged, SessionsUnchanged DEF TypeOK, ManagerTypeOK
<1>4. StoreType'
  <2>1. UNCHANGED storeVars \/ DeleteObject(p)
    BY <1>0 DEF quiet, RemoveStat, RemoveObject, AddTombstone, RemoveLock, RemoveUnlock,
                RemoveDelete, RemoveResolve, RemoveCheck
  <2> QED BY <1>1, <2>1, RestUnchanged DEF DeleteObject, TypeOK, StoreType, Bytes
<1>5. ClientsKeep /\ HistoryType'
  <2>1. /\ UNCHANGED promised
        /\ \/ Removed(c)
           \/ UNCHANGED deleted /\ (Finish(c) \/ \E pc \in RemoveSteps : Step(c, pc))
    BY <1>0 DEF quiet, RemoveStat, RemoveObject, AddTombstone, RemoveLock, RemoveUnlock,
                RemoveDelete, RemoveResolve, RemoveCheck, ghostVars, RemoveSteps
  <2> QED BY <1>1, <2>1, RemovedKeeps, FinishKeeps, StepKeeps DEF TypeOK, HistoryType
<1>6. CountType' /\ WorkersKeep
  <2>1. UNCHANGED countVars /\ UNCHANGED worker
    BY <1>0 DEF quiet, RemoveStat, RemoveObject, AddTombstone, RemoveLock, RemoveUnlock,
                RemoveDelete, RemoveResolve, RemoveCheck
  <2> QED BY <1>1, <2>1, RestUnchanged, WorkersUnchanged
<1>7. BreachGrows
  <2>1. UNCHANGED breach \/ Flag(p, {"claim"}) \/ Flag(p, {})
    BY <1>0 DEF quiet, RemoveStat, RemoveObject, AddTombstone, RemoveLock, RemoveUnlock,
                RemoveDelete, RemoveResolve, RemoveCheck, ghostVars
  <2> QED BY <1>1, <2>1, FlagGrows DEF Breaches
<1> QED BY <1>2, <1>3, <1>4, <1>5, <1>6, <1>7, KeepingStep DEF RestType

LEMMA RemoveDiscardStep ==
  ASSUME IInv, NEW c \in Clients, RemoveDiscard(c)
  PROVE  IInv'
<1> DEFINE p == client[c].path
<1>1. TypeOK /\ BusyHasPath /\ p \in Paths /\ client[c].pc # "idle"
      /\ ManagerTypeOK /\ LinkedShowsFile /\ IndexTypeOK
  BY DEF IInv, RemoveDiscard, BusyHasPath, TypeOK
<1>2. RestType' /\ BreachGrows
  BY <1>1, RestUnchanged, FlagGrows DEF RemoveDiscard, RestType, ghostVars
<1>3. CASE Step(c, "rmunlock") /\ UNCHANGED <<indexVars, managerVars, worker>>
  <2>1. ClientsKeep
    BY <1>1, <1>3, StepKeeps DEF RemoveSteps
  <2> QED BY <1>1, <1>2, <1>3, <2>1, KeepingStep, ManagerUnchanged, IndexUnchanged,
             WorkersUnchanged
<1>4. CASE /\ DiscardDeletedStaging(p)
           /\ client' = [Orphan(client, p) EXCEPT ![c].pc = "rmunlock"]
           /\ worker' = Orphan(Unread(p), p)
  <2>1. ClientsLose(p) /\ WorkersKeep
    BY <1>1, <1>4, OrphansStep, OrphanWorkersKeep DEF RemoveSteps
  <2> QED BY <1>1, <1>2, <1>4, <2>1, RemoveSessionKeeps, RemovingStep
<1> QED BY <1>3, <1>4 DEF RemoveDiscard

LEMMA RemoveCleanStep ==
  ASSUME IInv, NEW c \in Clients, RemoveClean(c)
  PROVE  IInv'
<1> DEFINE p == client[c].path
<1>1. TypeOK /\ BusyHasPath /\ p \in Paths /\ ManagerTypeOK /\ LinkedShowsFile /\ IndexTypeOK
  BY DEF IInv, RemoveClean, BusyHasPath, TypeOK
<1>2. RestType'
  <2>1. 0..writes \in Bytes
    BY <1>1, MaxWritesAssumption DEF TypeOK, Bytes, WriteIds
  <2>2. HistoryType'
    BY <1>1, <2>1 DEF RemoveClean, TypeOK, HistoryType
  <2> QED BY <1>1, <2>2, RestUnchanged DEF RemoveClean, RestType
<1>3. BreachGrows
  BY <1>1, FlagGrows DEF RemoveClean, Breaches
<1>4. ClientsLose(p) /\ WorkersKeep
  BY <1>1, OrphansFinish, OrphanWorkersKeep DEF RemoveClean
<1>5. ManagerTypeOK' /\ LinkedShowsFile' /\ IndexTypeOK' /\ RemovesOnly(p)
  BY <1>1, RemoveSessionKeeps DEF RemoveClean
<1> QED BY <1>1, <1>2, <1>3, <1>4, <1>5, RemovingStep

LEMMA ClientRemoveStep ==
  ASSUME IInv, NEW c \in Clients, ClientRemove(c)
  PROVE  IInv'
BY RemoveFileStep, RemoveQuietStep, RemoveDiscardStep, RemoveCleanStep DEF ClientRemove

-----------------------------------------------------------------------------
(* Sync workers.                                                           *)

\* A worker's record is replaced by a well-formed one.
LEMMA WorkerReplaced ==
  ASSUME TypeOK, BusyHasPath, NEW w \in Workers, NEW r \in Worker, r.path \in Paths,
         worker' = [worker EXCEPT ![w] = r]
  PROVE  WorkersKeep
BY DEF WorkersKeep, TypeOK, BusyHasPath

LEMMA SeeStep ==
  ASSUME IInv, NEW w \in Workers, NEW p \in Paths, SeeDelete(w, p) \/ SeeDirty(w, p)
  PROVE  IInv'
<1>1. TypeOK /\ BusyHasPath /\ worker[w] \in Worker
  BY DEF IInv, TypeOK
<1>2. \A pc \in {"dclaim", "uclaim"} :
        /\ [worker[w] EXCEPT !.pc = pc, !.path = p] \in Worker
        /\ [worker[w] EXCEPT !.pc = pc, !.path = p].path = p
  BY <1>1 DEF Worker, DeleteSteps, UploadSteps
<1>3. PICK pc \in {"dclaim", "uclaim"} :
        worker' = [worker EXCEPT ![w] = [worker[w] EXCEPT !.pc = pc, !.path = p]]
  BY <1>1 DEF SeeDelete, SeeDirty, TypeOK
<1>4. WorkersKeep
  BY <1>1, <1>2, <1>3, WorkerReplaced
<1>5. UNCHANGED <<indexVars, managerVars, storeVars, client, countVars, ghostVars>>
  BY DEF SeeDelete, SeeDirty
<1> QED BY <1>1, <1>4, <1>5, KeepingStep, ManagerUnchanged, IndexUnchanged, RestUnchanged,
           ClientsUnchanged, FlagGrows DEF RestType, ghostVars

LEMMA ClaimStep ==
  ASSUME IInv, NEW w \in Workers, Claim(w)
  PROVE  IInv'
<1> DEFINE p == worker[w].path
<1>1. TypeOK /\ BusyHasPath /\ p \in Paths /\ worker[w].pc # "idle"
  BY DEF IInv, Claim, BusyHasPath
<1>2. IndexTypeOK'
  BY <1>1, IndexStepType DEF Claim, TypeOK
<1>3. WorkersKeep
  BY <1>1, StepWorkerKeeps, FinishWorkerKeeps DEF Claim, DeleteSteps, UploadSteps
<1>4. BreachGrows
  BY <1>1, FlagGrows DEF Claim, Breaches
<1> QED BY <1>1, <1>2, <1>3, <1>4, KeepingStep, ManagerUnchanged, RestUnchanged,
           ClientsUnchanged DEF Claim, RestType

LEMMA DeleteDiscardStep ==
  ASSUME IInv, NEW w \in Workers, DeleteDiscard(w)
  PROVE  IInv'
<1> DEFINE p == worker[w].path
<1>1. TypeOK /\ BusyHasPath /\ p \in Paths /\ worker[w].pc # "idle"
      /\ ManagerTypeOK /\ LinkedShowsFile /\ IndexTypeOK
  BY DEF IInv, DeleteDiscard, BusyHasPath, TypeOK
<1>2. RestType' /\ BreachGrows
  BY <1>1, RestUnchanged, FlagGrows DEF DeleteDiscard, RestType, ghostVars
<1>3. CASE StepWorker(w, "dunlock") /\ UNCHANGED <<indexVars, managerVars, client>>
  <2>1. WorkersKeep
    BY <1>1, <1>3, StepWorkerKeeps DEF DeleteSteps
  <2> QED BY <1>1, <1>2, <1>3, <2>1, KeepingStep, ManagerUnchanged, IndexUnchanged,
             ClientsUnchanged
<1>4. CASE /\ DiscardDeletedStaging(p)
           /\ client' = Orphan(client, p)
           /\ worker' = [Orphan(Unread(p), p) EXCEPT ![w].pc = "ddelete"]
  <2>1. ClientsLose(p) /\ WorkersKeep
    BY <1>1, <1>4, OrphansKeep, OrphanWorkersStep DEF DeleteSteps
  <2> QED BY <1>1, <1>2, <1>4, <2>1, RemoveSessionKeeps, RemovingStep
<1> QED BY <1>3, <1>4 DEF DeleteDiscard

\* The rest of a pending delete, and the end of either kind of work.
LEMMA DeleteStep ==
  ASSUME IInv, NEW w \in Workers,
         DeleteFromStore(w) \/ DeleteFails(w) \/ DeleteResolve(w) \/ Unclaim(w)
  PROVE  IInv'
<1> DEFINE p == worker[w].path
<1>1. TypeOK /\ BusyHasPath /\ p \in Paths /\ worker[w].pc # "idle"
  BY DEF IInv, DeleteFromStore, DeleteFails, DeleteResolve, Unclaim, BusyHasPath
<1>2. IndexTypeOK'
  BY <1>1, IndexStepType
     DEF DeleteFromStore, DeleteFails, DeleteResolve, Unclaim, TypeOK
<1>3. ManagerTypeOK' /\ LinkedShowsFile' /\ KeepsSessions
  BY <1>1, ManagerUnchanged, SessionsUnchanged
     DEF DeleteFromStore, DeleteFails, DeleteResolve, Unclaim, TypeOK, ManagerTypeOK
<1>4. StoreType'
  <2>1. UNCHANGED storeVars \/ DeleteObject(p)
    BY DEF DeleteFromStore, DeleteFails, DeleteResolve, Unclaim
  <2> QED BY <1>1, <2>1, RestUnchanged DEF DeleteObject, TypeOK, StoreType, Bytes
<1>5. WorkersKeep
  BY <1>1, StepWorkerKeeps, FinishWorkerKeeps
     DEF DeleteFromStore, DeleteFails, DeleteResolve, Unclaim, DeleteSteps
<1>6. UNCHANGED <<client, countVars, ghostVars>>
  BY DEF DeleteFromStore, DeleteFails, DeleteResolve, Unclaim
<1> QED BY <1>1, <1>2, <1>3, <1>4, <1>5, <1>6, KeepingStep, RestUnchanged,
           ClientsUnchanged, FlagGrows DEF RestType, ghostVars

LEMMA UploadSessionStep ==
  ASSUME IInv, NEW w \in Workers, UploadSession(w)
  PROVE  IInv'
<1> DEFINE p == worker[w].path
           r == [worker[w] EXCEPT !.pc = "ugeneration", !.live = TRUE]
<1>1. TypeOK /\ BusyHasPath /\ p \in Paths /\ worker[w].pc # "idle"
      /\ ManagerTypeOK /\ LinkedShowsFile /\ worker[w] \in Worker
  BY DEF IInv, UploadSession, BusyHasPath, TypeOK
<1>2. WorkersKeep
  <2>1. r \in Worker /\ r.path = p
    BY <1>1 DEF Worker, UploadSteps
  <2>2. worker' = [worker EXCEPT ![w] = r] \/ StepWorker(w, "uforget")
    BY <1>1 DEF UploadSession, TypeOK
  <2> HIDE DEF r
  <2> QED BY <1>1, <2>1, <2>2, WorkerReplaced, StepWorkerKeeps DEF UploadSteps
<1>3. ManagerTypeOK' /\ LinkedShowsFile' /\ KeepsSessions
  <2>1. CASE UNCHANGED managerVars
    BY <2>1, ManagerUnchanged
  <2>2. CASE ~session[p].open /\ NewWriteSession(p, 0, TRUE) /\ UNCHANGED tombstones
    <3>1. tombstones' \subseteq Paths
      BY <1>1, <2>2 DEF ManagerTypeOK
    <3> QED BY <1>1, <2>2, <3>1, NewWriteSessionKeeps
  <2> QED BY <2>1, <2>2 DEF UploadSession, RecoverSessionFromStaging
<1> QED BY <1>1, <1>2, <1>3, KeepingStep, IndexUnchanged, RestUnchanged, ClientsUnchanged,
           FlagGrows DEF UploadSession, RestType, ghostVars

LEMMA UploadCheckStep ==
  ASSUME IInv, NEW w \in Workers, UploadCheck(w) \/ UploadLock(w)
  PROVE  IInv'
<1>1. TypeOK /\ BusyHasPath /\ worker[w].pc # "idle"
  BY DEF IInv, UploadCheck, UploadLock
<1>2. WorkersKeep
  BY <1>1, StepWorkerKeeps DEF UploadCheck, UploadLock, UploadSteps
<1>3. UNCHANGED <<indexVars, managerVars, storeVars, client, countVars, ghostVars>>
  BY DEF UploadCheck, UploadLock
<1> QED BY <1>1, <1>2, <1>3, KeepingStep, ManagerUnchanged, IndexUnchanged, RestUnchanged,
           ClientsUnchanged, FlagGrows DEF RestType, ghostVars

LEMMA ForgetDirtyStep ==
  ASSUME IInv, NEW w \in Workers, ForgetDirty(w)
  PROVE  IInv'
<1> DEFINE p == worker[w].path
<1>1. TypeOK /\ BusyHasPath /\ p \in Paths /\ worker[w].pc # "idle"
  BY DEF IInv, ForgetDirty, BusyHasPath
<1>2. IndexTypeOK'
  BY <1>1, IndexStepType DEF ForgetDirty, DropDirtyEntry, TypeOK
<1>3. ManagerTypeOK' /\ LinkedShowsFile' /\ KeepsSessions
  BY <1>1, SessionsUnchanged DEF ForgetDirty, DropDirtyEntry, TypeOK, ManagerTypeOK
<1>4. WorkersKeep
  BY <1>1, StepWorkerKeeps DEF ForgetDirty, UploadSteps
<1>5. BreachGrows
  BY <1>1, FlagGrows DEF ForgetDirty, Breaches
<1> QED BY <1>1, <1>2, <1>3, <1>4, <1>5, KeepingStep, RestUnchanged, ClientsUnchanged
           DEF ForgetDirty, RestType

LEMMA UploadReadStep ==
  ASSUME IInv, NEW w \in Workers, UploadGeneration(w) \/ UploadSnapshot(w)
  PROVE  IInv'
<1> DEFINE p == worker[w].path
           g == [worker[w] EXCEPT !.pc = "usnapshot", !.gen = dirty[p]]
           s == [worker[w] EXCEPT !.pc = "uput", !.snap = disk[p], !.reading = TRUE]
<1>1. TypeOK /\ BusyHasPath /\ p \in Paths /\ worker[w].pc # "idle"
  BY DEF IInv, UploadGeneration, UploadSnapshot, BusyHasPath
<1>2. g \in Worker /\ g.path = p /\ s \in Worker /\ s.path = p
  <2>1. dirty[p] \in Nat /\ disk[p] \in Bytes
    BY <1>1 DEF TypeOK, IndexTypeOK, ManagerTypeOK
  <2>2. worker[w] \in Worker
    BY <1>1 DEF TypeOK
  <2> QED BY <2>1, <2>2 DEF Worker, UploadSteps
<1>3. \/ worker' = [worker EXCEPT ![w] = g] \/ worker' = [worker EXCEPT ![w] = s]
      \/ StepWorker(w, "uunlock")
  BY <1>1 DEF UploadGeneration, UploadSnapshot, TypeOK
<1> HIDE DEF g, s
<1>4. WorkersKeep
  BY <1>1, <1>2, <1>3, WorkerReplaced, StepWorkerKeeps DEF UploadSteps
<1>5. UNCHANGED <<indexVars, managerVars, storeVars, client, countVars, ghostVars>>
  BY DEF UploadGeneration, UploadSnapshot
<1> QED BY <1>1, <1>4, <1>5, KeepingStep, ManagerUnchanged, IndexUnchanged, RestUnchanged,
           ClientsUnchanged, FlagGrows DEF RestType, ghostVars

LEMMA UploadPutStep ==
  ASSUME IInv, NEW w \in Workers, Upload(w) \/ UploadFails(w)
  PROVE  IInv'
<1> DEFINE p == worker[w].path
           u == [worker[w] EXCEPT !.pc = "uclean"]
           f == [worker[w] EXCEPT !.pc = "uunlock", !.reading = FALSE]
<1>1. TypeOK /\ BusyHasPath /\ p \in Paths /\ worker[w] \in Worker
  BY DEF IInv, Upload, UploadFails, BusyHasPath, TypeOK
<1>2. u \in Worker /\ u.path = p /\ f \in Worker /\ f.path = p
  BY <1>1 DEF Worker, UploadSteps
<1>3. worker' = [worker EXCEPT ![w] = u] \/ worker' = [worker EXCEPT ![w] = f]
  BY <1>1 DEF Upload, UploadFails, TypeOK
<1> HIDE DEF u, f
<1>4. WorkersKeep
  BY <1>1, <1>2, <1>3, WorkerReplaced
<1>5. StoreType'
  <2>1. UNCHANGED storeVars \/ PutObject(p, worker[w].snap)
    BY DEF Upload, UploadFails
  <2>2. worker[w].snap \in Bytes
    BY <1>1 DEF Worker
  <2> QED BY <1>1, <2>1, <2>2, RestUnchanged DEF PutObject, TypeOK, StoreType
<1>6. UNCHANGED <<indexVars, managerVars, client, countVars, ghostVars>>
  BY DEF Upload, UploadFails
<1> QED BY <1>1, <1>4, <1>5, <1>6, KeepingStep, ManagerUnchanged, IndexUnchanged,
           RestUnchanged, ClientsUnchanged, FlagGrows DEF RestType, ghostVars

LEMMA UploadCleanStep ==
  ASSUME IInv, NEW w \in Workers, UploadClean(w)
  PROVE  IInv'
<1> DEFINE p == worker[w].path
           f == [worker[w] EXCEPT !.pc = "uunlock", !.reading = FALSE]
<1>1. TypeOK /\ BusyHasPath /\ p \in Paths /\ worker[w] \in Worker /\ worker[w].pc # "idle"
  BY DEF IInv, UploadClean, BusyHasPath, TypeOK
<1>2. f \in Worker /\ f.path = p
  BY <1>1 DEF Worker, UploadSteps
<1>3. worker' = [worker EXCEPT ![w] = f] \/ StepWorker(w, "ucleanup")
  BY <1>1 DEF UploadClean, TypeOK
<1> HIDE DEF f
<1>4. WorkersKeep
  BY <1>1, <1>2, <1>3, WorkerReplaced, StepWorkerKeeps DEF UploadSteps
<1>5. IndexTypeOK'
  BY <1>1, IndexStepType DEF UploadClean, MarkCleanIfUnchanged, TypeOK
<1>6. ManagerTypeOK' /\ LinkedShowsFile' /\ KeepsSessions
  BY <1>1, SessionsUnchanged, ManagerUnchanged
     DEF UploadClean, MarkCleanIfUnchanged, TypeOK, ManagerTypeOK
<1> QED BY <1>1, <1>4, <1>5, <1>6, KeepingStep, RestUnchanged, ClientsUnchanged, FlagGrows
           DEF UploadClean, RestType, ghostVars

LEMMA UploadCleanupStep ==
  ASSUME IInv, NEW w \in Workers, UploadCleanup(w)
  PROVE  IInv'
<1> DEFINE p == worker[w].path
           f == [worker[w] EXCEPT !.pc = "uunlock", !.reading = FALSE]
<1>1. TypeOK /\ BusyHasPath /\ p \in Paths /\ worker[w] \in Worker /\ worker[w].pc # "idle"
      /\ ManagerTypeOK /\ LinkedShowsFile /\ IndexTypeOK
  BY DEF IInv, UploadCleanup, BusyHasPath, TypeOK
<1>2. RestType' /\ BreachGrows
  BY <1>1, RestUnchanged, FlagGrows DEF UploadCleanup, RestType, ghostVars
<1>3. CASE /\ CleanupSyncedSession(p)
           /\ client' = Orphan(client, p)
           /\ worker' = [Orphan(Unread(p), p) EXCEPT ![w].pc = "uunlock"]
  <2>1. ClientsLose(p) /\ WorkersKeep
    BY <1>1, <1>3, OrphansKeep, OrphanWorkersStep DEF UploadSteps
  <2>2. UNCHANGED indexVars
    BY DEF UploadCleanup
  <2> QED BY <1>1, <1>2, <1>3, <2>1, <2>2, RemoveSessionKeeps, RemovingStep
<1>4. CASE worker' = [worker EXCEPT ![w] = f] /\ UNCHANGED <<managerVars, client>>
  <2>1. f \in Worker /\ f.path = p
    BY <1>1 DEF Worker, UploadSteps
  <2> HIDE DEF f
  <2>2. WorkersKeep
    BY <1>1, <1>4, <2>1, WorkerReplaced
  <2> QED BY <1>1, <1>2, <1>4, <2>2, KeepingStep, ManagerUnchanged, IndexUnchanged,
             ClientsUnchanged DEF UploadCleanup
<1>5. \/ worker' = [worker EXCEPT ![w] = f] /\ UNCHANGED <<managerVars, client>>
      \/ /\ CleanupSyncedSession(p)
         /\ client' = Orphan(client, p)
         /\ worker' = [Orphan(Unread(p), p) EXCEPT ![w].pc = "uunlock"]
  BY <1>1 DEF UploadCleanup, TypeOK
<1> QED BY <1>3, <1>4, <1>5

LEMMA SyncStep ==
  ASSUME IInv, NEW w \in Workers, Sync(w)
  PROVE  IInv'
BY SeeStep, ClaimStep, DeleteDiscardStep, DeleteStep, UploadCheckStep, UploadSessionStep,
   ForgetDirtyStep, UploadReadStep, UploadPutStep, UploadCleanStep, UploadCleanupStep
   DEF Sync, Progress

-----------------------------------------------------------------------------
(* Crashes, and the theorems.                                              *)

LEMMA CrashStep ==
  ASSUME IInv, Crash
  PROVE  IInv'
<1>1. TypeOK /\ ManagerTypeOK
  BY DEF IInv, TypeOK
<1>2. /\ ManagerTypeOK' /\ LinkedShowsFile' /\ IndexTypeOK'
      /\ \A p \in Paths : session'[p].open => session'[p].linked
  BY <1>1, RecoverFromDiskKeeps DEF Crash
<1>3. /\ client' \in [Clients -> Client] /\ worker' \in [Workers -> Worker]
      /\ \A c \in Clients : client'[c].pc = "idle" /\ ~client'[c].live
      /\ \A w \in Workers : worker'[w].pc = "idle"
  BY IdleTypes DEF Crash, IdleClient, IdleWorker
<1>4. breach' \in [Paths -> SUBSET Breaches]
  BY <1>1 DEF Crash, TypeOK, Breaches
<1>5. CountType'
  <2>1. crashes < MaxCrashes /\ crashes' = crashes + 1 /\ UNCHANGED <<writes, opens, removes>>
    BY DEF Crash
  <2> QED BY <1>1, <2>1, ConstantsAssumption DEF TypeOK, CountType
<1>6. StoreType' /\ HistoryType'
  BY <1>1, RestUnchanged DEF Crash
<1>7. TypeOK'
  BY <1>2, <1>3, <1>4, <1>5, <1>6 DEF TypeOK, StoreType, CountType, HistoryType
<1> QED BY <1>2, <1>3, <1>7 DEF IInv, BusyHasPath, LiveHasSession, NamedUnlessUnlinked

LEMMA InitIInv == Init => IInv
<1> SUFFICES ASSUME Init PROVE IInv
  OBVIOUS
<1>1. IndexTypeOK
  BY DEF Init, IndexInit, IndexTypeOK, NoEntry
<1>2. ManagerTypeOK /\ LinkedShowsFile /\ \A p \in Paths : ~session[p].open
  BY NoSessionType DEF Init, ManagerInit, ManagerTypeOK, LinkedShowsFile, Bytes
<1>3. StoreType /\ HistoryType
  <2>1. {0} \in Bytes /\ {} \in Bytes
    BY MaxWritesAssumption DEF Bytes, WriteIds
  <2> QED BY <2>1 DEF Init, StoreType, HistoryType
<1>4. CountType
  BY MaxWritesAssumption, ConstantsAssumption DEF Init, CountType
<1>5. /\ client \in [Clients -> Client] /\ worker \in [Workers -> Worker]
      /\ \A c \in Clients : client[c].pc = "idle" /\ ~client[c].live
      /\ \A w \in Workers : worker[w].pc = "idle"
  BY IdleTypes DEF Init, IdleClient, IdleWorker
<1>6. breach \in [Paths -> SUBSET Breaches]
  BY DEF Init
<1>7. TypeOK
  BY <1>1, <1>2, <1>3, <1>4, <1>5, <1>6 DEF TypeOK, StoreType, CountType, HistoryType
<1> QED BY <1>2, <1>5, <1>7 DEF IInv, BusyHasPath, LiveHasSession, NamedUnlessUnlinked

LEMMA NextIInv == IInv /\ [Next]_vars => IInv'
<1> SUFFICES ASSUME IInv, [Next]_vars PROVE IInv'
  OBVIOUS
<1>1. CASE UNCHANGED vars
  <2>1. UNCHANGED <<indexVars, managerVars, storeVars, client, worker, countVars, ghostVars>>
    BY <1>1 DEF vars
  <2> QED BY <2>1, KeepingStep, ManagerUnchanged, IndexUnchanged, RestUnchanged,
             ClientsUnchanged, WorkersUnchanged, FlagGrows DEF IInv, RestType, ghostVars
<1>2. CASE Next
  BY <1>2, ClientOpenStep, ClientRemoveStep, SyncStep, CrashStep DEF Next
<1> QED BY <1>1, <1>2

\* The inductive invariant: handles are on sessions the manager has, and a
\* session's descriptor is the file under its name unless Unlink took that.
THEOREM Invariance == Spec => []IInv
BY InitIInv, NextIInv, PTL DEF Spec

\* Every variable keeps its type in every behaviour: no reference count below
\* zero (ReleaseSession), no process without the path it works on.
THEOREM TypeCorrect == Spec => []TypeOK
<1>1. IInv => TypeOK
  BY DEF IInv
<1> QED BY <1>1, Invariance, PTL

\* The file of a session stays under its name (detachFromUploadsLocked,
\* NewWriteSession, DownloadToFile), for any number of paths, clients, workers
\* and crashes: only the unlink of a refused open (ReleaseSessionDiscardingIfEmpty)
\* can take it away.
THEOREM SessionFileKeepsName == Spec => []StagedUnderName
BY IInvStagedUnderName, Invariance, PTL

=============================================================================
