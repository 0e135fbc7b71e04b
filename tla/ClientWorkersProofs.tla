-------------------------- MODULE ClientWorkersProofs --------------------------
(***************************************************************************)
(* Proofs about ClientWorkers for every finite set of connections, every   *)
(* max_clients and any number of interrupts.  What the registry does with  *)
(* its own tables is taken from RegistryProofs, instantiated.              *)
(***************************************************************************)
EXTENDS ClientWorkers, FiniteSetTheorems, TLAPS

RegThm == INSTANCE RegistryProofs WITH MaxSessions <- Cardinality(Conns)

-------------------------------------------------------------------------------
(* The part of the invariant about admission and shutdown.                 *)

Loop  == {"accepting", "admitting", "starting", "launching", "rejecting"}
Still == {"none", "unlisted", "gone"}

MainTypes ==
  /\ main \in MainStates /\ current \in Conns \cup {None}
  /\ slots \in 0..MaxClients
  /\ workers \subseteq Conns /\ joining \subseteq Conns
  /\ graceful \in BOOLEAN /\ logger \in {"open", "closed"}
  /\ interrupts \in 0..MaxInterrupts
  /\ link \in [Conns -> {"unopened", "up", "down"}]
  /\ pc \in [Conns -> WorkerStates]

\* The accept loop runs until the first interrupt; what it has in hand between
\* accept() and the start of the thread belongs to nobody else.
MainLocal ==
  /\ main \in Loop => ~graceful /\ interrupts = 0
  /\ graceful => interrupts >= 1
  /\ logger = "closed" => main = "stopped"
  /\ main \in {"admitting", "starting", "launching"} =>
       current \in Conns /\ link[current] # "unopened"
  /\ main = "admitting" => pc[current] = "none" /\ current \notin workers
  /\ main = "starting" => pc[current] = "none" /\ current \in workers

\* Threads are listed from before their start until they unlist themselves, as
\* long as no interrupt has undone a start under a running thread.
WorkersLocal ==
  /\ \A c \in Conns : link[c] = "unopened" => pc[c] = "none" /\ c \notin workers
  /\ \A c \in Conns : pc[c] \in {"unlisted", "gone"} => c \notin workers
  /\ ~graceful => Running \subseteq workers

\* The workers that the shutdown waits for, or would if it began now.
Waited == IF main \in Loop \cup {"stopping"} THEN workers
          ELSE IF main \in {"aborting", "joining"} THEN joining ELSE {}

Orderly == interrupts \in (IF graceful THEN 0..1 ELSE {0})

\* An orderly shutdown misses no running thread, but the one a Ctrl-C may have hit.
FewMissed == Orderly => Cardinality(Running \ Waited) <= interrupts

MainInv ==
  /\ MainTypes
  /\ MainLocal
  /\ WorkersLocal
  /\ SlotsAccounted
  /\ FewMissed

-------------------------------------------------------------------------------
(* The part about sessions, names and locks.                               *)

Named == {"idle", "locking", "busy"}

SessionTypes ==
  /\ inside \subseteq Conns \X (Usernames \X Files)
  /\ session \in [Conns -> 0..Cardinality(Conns)]
  /\ file \in [Conns -> Files \cup {None}]
  /\ pc \in [Conns -> WorkerStates]

\* A thread that got past its login has a name, and a file while it has a request.
SessionsLocal ==
  \A c \in Conns :
    /\ session[c] < nextSessionId
    /\ pc[c] \in Registered => session[c] # 0
    /\ pc[c] \in Named => sessions[session[c]].username # None
    /\ pc[c] \in {"locking", "busy"} => file[c] \in Files

\* A lock is held only by a busy thread, under the name the registry has for it now.
InsideIsBusy ==
  \A p \in inside : pc[p[1]] = "busy" /\ p[2] = LockKey(p[1])

SessionInv ==
  /\ RegThm!IInv
  /\ SessionTypes
  /\ SessionsLocal
  /\ RegistryMirrorsWorkers
  /\ InsideIsBusy

IInv == MainInv /\ SessionInv

-------------------------------------------------------------------------------
(* Counting connections.                                                   *)

\* Sets of connections are finite.
LEMMA ConnsFinite ==
  ASSUME NEW S, S \subseteq Conns
  PROVE  IsFiniteSet(S) /\ Cardinality(S) \in Nat
  BY WorkersAssumption, FS_Subset, FS_CardinalityType DEF WorkersAssumption

LEMMA Numbers == MaxClients \in Nat /\ MaxClients >= 1 /\ MaxInterrupts \in Nat
                 /\ Cardinality(Conns) \in Nat
  BY ConnsFinite, WorkersAssumption DEF WorkersAssumption

LEMMA OccupantsFinite == IsFiniteSet(Occupants) /\ Cardinality(Occupants) \in Nat
  <1>1. Occupants \subseteq Conns
    BY DEF Occupants
  <1> QED
    BY <1>1, ConnsFinite

LEMMA OccupantsFiniteNext == IsFiniteSet(Occupants') /\ Cardinality(Occupants') \in Nat
  <1>1. Occupants' \subseteq Conns
    BY DEF Occupants
  <1> QED
    BY <1>1, ConnsFinite

\* The slots stay accounted for when a slot and an occupant are exchanged, or neither
\* changes, or the server stops gracefully.
LEMMA SlotsKept ==
  ASSUME MainTypes, SlotsAccounted, slots' \in Nat, graceful => graceful',
         \/ graceful'
         \/ slots' = slots /\ Occupants' = Occupants
         \/ /\ slots' = slots - 1
            /\ \E c \in Conns \ Occupants : Occupants' = Occupants \cup {c}
         \/ /\ slots' = slots + 1
            /\ \E c \in Occupants : Occupants' = Occupants \ {c}
  PROVE  SlotsAccounted'
  <1>1. slots \in Nat /\ MaxClients \in Nat
    BY Numbers DEF MainTypes
  <1>2. CASE graceful'
    BY <1>2 DEF SlotsAccounted
  <1>3. CASE slots' = slots /\ Occupants' = Occupants
    BY <1>3 DEF SlotsAccounted
  <1>4. ASSUME slots' = slots - 1, NEW c \in Conns \ Occupants, Occupants' = Occupants \cup {c}
        PROVE  SlotsAccounted'
    <2>1. Cardinality(Occupants') = Cardinality(Occupants) + 1
      BY <1>4, OccupantsFinite, FS_AddElement
    <2> QED
      BY <1>1, <1>4, <2>1, OccupantsFinite DEF SlotsAccounted
  <1>5. ASSUME slots' = slots + 1, NEW c \in Occupants, Occupants' = Occupants \ {c}
        PROVE  SlotsAccounted'
    <2>1. Cardinality(Occupants') = Cardinality(Occupants) - 1
      BY <1>5, OccupantsFinite, FS_RemoveElement
    <2> QED
      BY <1>1, <1>5, <2>1, OccupantsFinite DEF SlotsAccounted
  <1> QED
    BY <1>2, <1>3, <1>4, <1>5

\* While the accounts are kept, an occupant means that a slot is taken.
LEMMA OccupantTakesSlot ==
  ASSUME MainTypes, SlotsAccounted, ~graceful, NEW c \in Occupants
  PROVE  slots < MaxClients
  <1>1. Cardinality(Occupants) # 0
    BY OccupantsFinite, FS_EmptySet
  <1> QED
    BY <1>1, OccupantsFinite, Numbers DEF MainTypes, SlotsAccounted

\* Nobody is missed who was not missed before.
LEMMA MissedKept ==
  ASSUME MainTypes, MainTypes', FewMissed, interrupts' = interrupts, graceful' = graceful,
         Running' \ Waited' \subseteq Running \ Waited
  PROVE  FewMissed'
  <1>1. Running \ Waited \subseteq Conns
    BY DEF Running
  <1>2. /\ Cardinality(Running' \ Waited') <= Cardinality(Running \ Waited)
        /\ Cardinality(Running \ Waited) \in Nat
        /\ Cardinality(Running' \ Waited') \in Nat
    BY <1>1, ConnsFinite, FS_Subset
  <1>3. interrupts \in Nat
    BY DEF MainTypes
  <1> QED
    BY <1>2, <1>3 DEF FewMissed, Orderly

-------------------------------------------------------------------------------
(* The initial state, and the steps of workers and peers.                  *)

LEMMA MainInit == Init => MainInv
  <1> SUFFICES ASSUME Init PROVE MainInv
    OBVIOUS
  <1>1. /\ main = "accepting" /\ current = None /\ slots = MaxClients
        /\ workers = {} /\ joining = {} /\ graceful = FALSE /\ logger = "open"
        /\ interrupts = 0 /\ link = [c \in Conns |-> "unopened"]
        /\ pc = [c \in Conns |-> "none"]
    BY DEF Init
  <1>2. MainTypes
    <2>1. slots \in 0..MaxClients /\ interrupts \in 0..MaxInterrupts
      BY <1>1, Numbers
    <2>2. "none" \in WorkerStates /\ "accepting" \in MainStates
      BY DEF MainStates, WorkerStates
    <2> QED
      BY <1>1, <2>1, <2>2 DEF MainTypes
  <1>3. Occupants = {} /\ Running = {}
    BY <1>1 DEF Occupants, Running
  <1>4. MainLocal /\ WorkersLocal
    BY <1>1, <1>3 DEF MainLocal, WorkersLocal
  <1>5. Cardinality(Occupants) = 0 /\ Cardinality(Running \ Waited) = 0
    <2>1. Running \ Waited = {}
      BY <1>3
    <2> QED
      BY <1>3, <2>1, FS_EmptySet
  <1>6. SlotsAccounted
    BY <1>1, <1>5, Numbers DEF SlotsAccounted
  <1>7. FewMissed
    BY <1>1, <1>5 DEF FewMissed
  <1> QED
    BY <1>2, <1>4, <1>6, <1>7 DEF MainInv

\* Threads that run and connections that are open matter to the main thread only by
\* that: where a thread is in its session, or whether the peer is still there, does not.
LEMMA WorkersMove ==
  ASSUME MainInv, UNCHANGED <<mainVars, slots, workers>>,
         pc' \in [Conns -> WorkerStates],
         link' \in [Conns -> {"unopened", "up", "down"}],
         \A c \in Conns : pc'[c] = pc[c] \/ (pc[c] \notin Still /\ pc'[c] \notin Still),
         \A c \in Conns : link'[c] = "unopened" => link[c] = "unopened"
  PROVE  MainInv'
  <1>1. MainTypes'
    BY DEF MainInv, MainTypes, mainVars
  <1>2. MainLocal'
    BY DEF MainInv, MainLocal, mainVars, Still
  <1>3. Running' = Running
    BY DEF Running, Still
  <1>4. Occupants' = Occupants
    BY DEF Occupants, mainVars, Still
  <1>5. WorkersLocal'
    BY <1>3 DEF MainInv, WorkersLocal, mainVars, Still
  <1>6. SlotsAccounted'
    BY <1>4 DEF MainInv, SlotsAccounted, mainVars
  <1>7. Waited' = Waited
    BY DEF Waited, mainVars
  <1>8. FewMissed'
    BY <1>1, <1>3, <1>7, MissedKept DEF MainInv, mainVars
  <1> QED
    BY <1>1, <1>2, <1>5, <1>6, <1>8 DEF MainInv

\* The moves of a thread inside its session, and the loss of a connection.
LEMMA SessionStepsKeepMain ==
  ASSUME MainInv, NEW c \in Conns,
         \/ RegisterWorker(c) \/ EnterBody(c) \/ EndSession(c) \/ CloseSession(c)
         \/ ReleaseIdentity(c) \/ PeerLeaves(c) \/ Handshake(c) \/ EndRequest(c)
         \/ (\E n \in Usernames : Login(c, n)) \/ (\E f \in Files : BeginRequest(c, f))
  PROVE  MainInv'
  <1>0. /\ pc \in [Conns -> WorkerStates]
        /\ link \in [Conns -> {"unopened", "up", "down"}]
    BY DEF MainInv, MainTypes
  <1>1. UNCHANGED <<mainVars, slots, workers>>
    BY DEF RegisterWorker, EnterBody, EndSession, CloseSession, ReleaseIdentity, PeerLeaves,
           Handshake, EndRequest, Login, BeginRequest
  <1>2. /\ link' = link \/ link' = [link EXCEPT ![c] = "down"]
        /\ \/ pc' = pc
           \/ /\ pc[c] \notin Still
              /\ \E x \in WorkerStates \ Still : pc' = [pc EXCEPT ![c] = x]
    <2>1. CASE RegisterWorker(c)
      BY <2>1 DEF RegisterWorker, Goto, Still, WorkerStates, Registered
    <2>2. CASE EnterBody(c)
      BY <2>2 DEF EnterBody, Goto, Still, WorkerStates, Registered
    <2>3. CASE EndSession(c)
      BY <2>3 DEF EndSession, Goto, Still, WorkerStates, Registered
    <2>4. CASE CloseSession(c)
      BY <2>4 DEF CloseSession, Goto, Still, WorkerStates, Registered
    <2>5. CASE ReleaseIdentity(c)
      BY <2>5 DEF ReleaseIdentity, Goto, Still, WorkerStates, Registered
    <2>6. CASE PeerLeaves(c)
      BY <2>6 DEF PeerLeaves
    <2>7. CASE Handshake(c)
      BY <2>7 DEF Handshake, Goto, Still, WorkerStates, Registered
    <2>8. CASE EndRequest(c)
      BY <2>8 DEF EndRequest, Goto, Still, WorkerStates, Registered
    <2>9. ASSUME NEW n \in Usernames, Login(c, n)
          PROVE  /\ link' = link /\ pc[c] = "authenticating"
                 /\ \E x \in {"idle", "authenticating"} : pc' = [pc EXCEPT ![c] = x]
      BY <2>9 DEF Login, Goto
    <2>10. ASSUME NEW f \in Files, BeginRequest(c, f)
           PROVE  /\ link' = link /\ pc[c] = "idle"
                  /\ pc' = [pc EXCEPT ![c] = "locking"]
      BY <2>10 DEF BeginRequest, Goto
    <2>11. /\ {"idle", "authenticating", "locking"} \subseteq WorkerStates \ Still
           /\ {"idle", "authenticating"} \cap Still = {}
      BY DEF Still, WorkerStates, Registered
    <2> QED
      BY <2>1, <2>2, <2>3, <2>4, <2>5, <2>6, <2>7, <2>8, <2>9, <2>10, <2>11
  <1>3. /\ link' \in [Conns -> {"unopened", "up", "down"}]
        /\ \A d \in Conns : link'[d] = "unopened" => link[d] = "unopened"
    BY <1>0, <1>2
  <1>4. /\ pc' \in [Conns -> WorkerStates]
        /\ \A d \in Conns : pc'[d] = pc[d] \/ (pc[d] \notin Still /\ pc'[d] \notin Still)
    BY <1>0, <1>2
  <1> QED
    BY <1>1, <1>3, <1>4, WorkersMove

\* A thread leaves the list: from now on it occupies its slot by itself.
LEMMA UnlistKeepsMain ==
  ASSUME MainInv, NEW c \in Conns, Unlist(c)
  PROVE  MainInv'
  <1>1. /\ pc[c] = "released" /\ pc' = [pc EXCEPT ![c] = "unlisted"]
        /\ workers' = workers \ {c} /\ UNCHANGED <<mainVars, slots, link>>
    BY DEF Unlist, Goto
  <1>2. MainTypes'
    BY <1>1 DEF MainInv, MainTypes, mainVars, WorkerStates
  <1>3. pc'[c] = "unlisted" /\ \A d \in Conns : d # c => pc'[d] = pc[d]
    BY <1>1 DEF MainInv, MainTypes
  <1>4. MainLocal'
    BY <1>1, <1>3 DEF MainInv, MainLocal, mainVars
  <1>5. c \in Running /\ Running' = Running \ {c}
    BY <1>1, <1>3 DEF Running
  <1>6. WorkersLocal'
    BY <1>1, <1>3, <1>5 DEF MainInv, WorkersLocal, mainVars
  <1>7. SlotsAccounted'
    <2>1. CASE graceful
      BY <1>1, <2>1 DEF SlotsAccounted, mainVars
    <2>2. CASE ~graceful
      <3>1. c \in workers
        BY <1>5, <2>2 DEF MainInv, WorkersLocal
      <3>2. Occupants' = Occupants
        BY <1>1, <1>3, <3>1 DEF Occupants, mainVars
      <3> QED
        BY <1>1, <3>2 DEF MainInv, SlotsAccounted, mainVars
    <2> QED
      BY <2>1, <2>2
  <1>8. Running' \ Waited' \subseteq Running \ Waited
    BY <1>1, <1>5 DEF Waited, mainVars
  <1>9. FewMissed'
    BY <1>1, <1>2, <1>8, MissedKept DEF MainInv, mainVars
  <1> QED
    BY <1>2, <1>4, <1>6, <1>7, <1>9 DEF MainInv

\* The last thing a thread does is to give its slot back.
LEMMA ReturnSlotKeepsMain ==
  ASSUME MainInv, NEW c \in Conns, ReturnSlot(c)
  PROVE  MainInv'
  <1>1. /\ pc[c] = "unlisted" /\ pc' = [pc EXCEPT ![c] = "gone"]
        /\ slots' = IF slots < MaxClients THEN slots + 1 ELSE slots
        /\ UNCHANGED <<mainVars, workers, link>>
    BY DEF ReturnSlot, Goto
  <1>2. MainTypes'
    <2>1. slots' \in 0..MaxClients
      BY <1>1, Numbers DEF MainInv, MainTypes
    <2> QED
      BY <1>1, <2>1 DEF MainInv, MainTypes, mainVars, WorkerStates
  <1>3. pc'[c] = "gone" /\ \A d \in Conns : d # c => pc'[d] = pc[d]
    BY <1>1 DEF MainInv, MainTypes
  <1>4. MainLocal'
    BY <1>1, <1>3 DEF MainInv, MainLocal, mainVars
  <1>5. Running' = Running
    BY <1>1, <1>3 DEF Running
  <1>6. WorkersLocal'
    BY <1>1, <1>3, <1>5 DEF MainInv, WorkersLocal, mainVars
  <1>7. SlotsAccounted'
    <2>1. CASE graceful
      BY <1>1, <2>1 DEF SlotsAccounted, mainVars
    <2>2. CASE ~graceful
      <3>1. c \in Occupants /\ c \notin workers
        BY <1>1 DEF Occupants, MainInv, WorkersLocal
      <3>2. c = current => main # "admitting"
        BY <1>1 DEF MainInv, MainLocal
      <3>3. Occupants' = Occupants \ {c}
        BY <1>1, <1>3, <3>1, <3>2 DEF Occupants, mainVars
      <3>4. slots' = slots + 1 /\ slots' \in Nat
        BY <1>1, <2>2, <3>1, OccupantTakesSlot DEF MainInv, MainTypes
      <3> QED
        BY <1>1, <3>1, <3>3, <3>4, SlotsKept DEF MainInv, mainVars
    <2> QED
      BY <2>1, <2>2
  <1>8. Waited' = Waited
    BY <1>1 DEF Waited, mainVars
  <1>9. FewMissed'
    BY <1>1, <1>2, <1>5, <1>8, MissedKept DEF MainInv, mainVars
  <1> QED
    BY <1>2, <1>4, <1>6, <1>7, <1>9 DEF MainInv

-------------------------------------------------------------------------------
(* The steps of the main thread.                                           *)

LEMMA AcceptKeepsMain ==
  ASSUME MainInv, NEW c \in Conns, Accept(c)
  PROVE  MainInv'
  <1>1. /\ main = "accepting" /\ link[c] = "unopened" /\ current' = c
        /\ link' = [link EXCEPT ![c] = "up"]
        /\ \/ slots > 0 /\ slots' = slots - 1 /\ main' = "admitting"
           \/ slots = 0 /\ slots' = slots /\ main' = "rejecting"
        /\ UNCHANGED <<joining, graceful, logger, interrupts, workers, pc>>
    BY DEF Accept
  <1>2. MainTypes'
    <2>1. slots' \in 0..MaxClients
      BY <1>1, Numbers DEF MainInv, MainTypes
    <2>2. main' \in MainStates
      BY <1>1 DEF MainStates
    <2> QED
      BY <1>1, <2>1, <2>2 DEF MainInv, MainTypes
  <1>3. link'[c] = "up" /\ pc[c] = "none" /\ c \notin workers
    BY <1>1 DEF MainInv, MainTypes, WorkersLocal
  <1>4. MainLocal'
    BY <1>1, <1>3 DEF MainInv, MainLocal, Loop
  <1>5. WorkersLocal'
    BY <1>1, <1>3 DEF MainInv, MainTypes, WorkersLocal, Running
  <1>6. SlotsAccounted'
    <2>1. c \in Conns \ Occupants
      BY <1>1, <1>3 DEF Occupants
    <2>2. CASE main' = "admitting"
      <3>1. Occupants' = Occupants \cup {c}
        BY <1>1, <2>2 DEF Occupants
      <3>2. slots' = slots - 1 /\ slots' \in Nat
        BY <1>1, <1>2, <2>2 DEF MainTypes
      <3> QED
        BY <1>1, <2>1, <3>1, <3>2, SlotsKept DEF MainInv
    <2>3. CASE main' = "rejecting"
      <3>1. Occupants' = Occupants /\ slots' = slots
        BY <1>1, <2>3 DEF Occupants
      <3> QED
        BY <1>1, <3>1 DEF MainInv, SlotsAccounted
    <2> QED
      BY <1>1, <2>2, <2>3
  <1>7. Running' = Running /\ Waited' = Waited
    BY <1>1 DEF Running, Waited, Loop
  <1>8. FewMissed'
    BY <1>1, <1>2, <1>7, MissedKept DEF MainInv
  <1> QED
    BY <1>2, <1>4, <1>5, <1>6, <1>8 DEF MainInv

LEMMA ListWorkerKeepsMain ==
  ASSUME MainInv, ListWorker
  PROVE  MainInv'
  <1>1. /\ main = "admitting" /\ main' = "starting" /\ workers' = workers \cup {current}
        /\ UNCHANGED <<current, joining, graceful, logger, interrupts, slots, link, pc>>
    BY DEF ListWorker, workerVars
  <1>2. /\ current \in Conns /\ link[current] # "unopened" /\ pc[current] = "none"
        /\ current \notin workers /\ ~graceful /\ interrupts = 0
    BY <1>1 DEF MainInv, MainLocal, Loop
  <1>3. MainTypes'
    BY <1>1, <1>2 DEF MainInv, MainTypes, MainStates
  <1>4. MainLocal'
    BY <1>1, <1>2 DEF MainInv, MainLocal
  <1>5. Running' = Running
    BY <1>1 DEF Running
  <1>6. WorkersLocal'
    BY <1>1, <1>2, <1>5 DEF MainInv, WorkersLocal
  <1>7. Occupants' = Occupants
    BY <1>1, <1>2 DEF Occupants
  <1>8. SlotsAccounted'
    BY <1>1, <1>7 DEF MainInv, SlotsAccounted
  <1>9. Running' \ Waited' \subseteq Running \ Waited
    BY <1>1, <1>5 DEF Waited, Loop
  <1>10. FewMissed'
    BY <1>1, <1>3, <1>9, MissedKept DEF MainInv
  <1> QED
    BY <1>3, <1>4, <1>6, <1>8, <1>10 DEF MainInv

LEMMA StartWorkerKeepsMain ==
  ASSUME MainInv, StartWorker
  PROVE  MainInv'
  <1>1. /\ main = "starting" /\ main' = "launching"
        /\ pc' = [pc EXCEPT ![current] = "started"]
        /\ UNCHANGED <<current, joining, graceful, logger, interrupts, slots, workers, link>>
    BY DEF StartWorker, Goto
  <1>2. /\ current \in Conns /\ link[current] # "unopened" /\ pc[current] = "none"
        /\ current \in workers /\ ~graceful /\ interrupts = 0
    BY <1>1 DEF MainInv, MainLocal, Loop
  <1>3. MainTypes'
    BY <1>1, <1>2 DEF MainInv, MainTypes, MainStates, WorkerStates
  <1>4. pc'[current] = "started" /\ \A d \in Conns : d # current => pc'[d] = pc[d]
    BY <1>1, <1>2 DEF MainInv, MainTypes
  <1>5. MainLocal'
    BY <1>1, <1>2 DEF MainInv, MainLocal, Loop
  <1>6. Running' = Running \cup {current}
    BY <1>2, <1>4 DEF Running
  <1>7. WorkersLocal'
    BY <1>1, <1>2, <1>4, <1>6 DEF MainInv, WorkersLocal
  <1>8. Occupants' = Occupants
    BY <1>1, <1>2, <1>4 DEF Occupants
  <1>9. SlotsAccounted'
    BY <1>1, <1>8 DEF MainInv, SlotsAccounted
  <1>10. Running' \ Waited' \subseteq Running \ Waited
    BY <1>1, <1>2, <1>6 DEF Waited, Loop
  <1>11. FewMissed'
    BY <1>1, <1>3, <1>10, MissedKept DEF MainInv
  <1> QED
    BY <1>3, <1>5, <1>7, <1>9, <1>11 DEF MainInv

\* A start that fails gives back the slot and forgets the worker, which never ran.
LEMMA StartFailsKeepsMain ==
  ASSUME MainInv, StartFails
  PROVE  MainInv'
  <1>1. /\ main = "starting" /\ main' = "stopping" /\ current' = None
        /\ workers' = workers \ {current} /\ slots' = slots + 1
        /\ link' = [link EXCEPT ![current] = "down"]
        /\ UNCHANGED <<joining, graceful, logger, interrupts, pc>>
    BY DEF StartFails, UndoStart
  <1>2. /\ current \in Conns /\ link[current] # "unopened" /\ pc[current] = "none"
        /\ current \in workers /\ ~graceful /\ interrupts = 0
    BY <1>1 DEF MainInv, MainLocal, Loop
  <1>3. current \in Occupants
    BY <1>2 DEF Occupants
  <1>4. slots' \in 0..MaxClients
    BY <1>1, <1>2, <1>3, OccupantTakesSlot, Numbers DEF MainInv, MainTypes
  <1>5. MainTypes'
    BY <1>1, <1>4 DEF MainInv, MainTypes, MainStates
  <1>6. MainLocal'
    BY <1>1, <1>2 DEF MainInv, MainLocal, Loop
  <1>7. Running' = Running /\ current \notin Running
    BY <1>1, <1>2 DEF Running
  <1>8. WorkersLocal'
    BY <1>1, <1>2, <1>7 DEF MainInv, MainTypes, WorkersLocal
  <1>9. Occupants' = Occupants \ {current}
    BY <1>1, <1>2 DEF Occupants
  <1>10. SlotsAccounted'
    <2>1. slots' \in Nat
      BY <1>4
    <2> QED
      BY <1>1, <1>3, <1>9, <2>1, SlotsKept DEF MainInv
  <1>11. Running' \ Waited' \subseteq Running \ Waited
    BY <1>1, <1>7 DEF Waited, Loop
  <1>12. FewMissed'
    BY <1>1, <1>5, <1>11, MissedKept DEF MainInv
  <1> QED
    BY <1>5, <1>6, <1>8, <1>10, <1>12 DEF MainInv

\* The loop goes on, or ends without an interrupt: a started worker is left to itself, a
\* rejected peer dropped, accept() fails.
LEMMA LoopStepsKeepMain ==
  ASSUME MainInv, StartReturns \/ RejectGone \/ RejectSilent \/ AcceptFails
  PROVE  MainInv'
  <1>1. /\ main \in Loop \ {"admitting"} /\ main' \in {"accepting", "stopping"}
        /\ current' \in {None, current}
        /\ link' = link \/ link' = [link EXCEPT ![current] = "down"]
        /\ UNCHANGED <<joining, graceful, logger, interrupts, slots, workers, pc>>
    BY DEF StartReturns, RejectGone, RejectSilent, RejectReturns, AcceptFails, workerVars, Loop
  <1>2. ~graceful /\ interrupts = 0
    BY <1>1 DEF MainInv, MainLocal
  <1>3. MainTypes'
    BY <1>1 DEF MainInv, MainTypes, MainStates
  <1>4. MainLocal'
    BY <1>1, <1>2 DEF MainInv, MainLocal, Loop
  <1>5. Running' = Running
    BY <1>1 DEF Running
  <1>6. WorkersLocal'
    BY <1>1, <1>5 DEF MainInv, MainTypes, WorkersLocal
  <1>7. Occupants' = Occupants
    BY <1>1 DEF Occupants
  <1>8. SlotsAccounted'
    BY <1>1, <1>7 DEF MainInv, SlotsAccounted
  <1>9. Running' \ Waited' \subseteq Running \ Waited
    BY <1>1, <1>5 DEF Waited, Loop
  <1>10. FewMissed'
    BY <1>1, <1>3, <1>9, MissedKept DEF MainInv
  <1> QED
    BY <1>3, <1>4, <1>6, <1>8, <1>10 DEF MainInv

\* The shutdown: the snapshot is the list, the joins wait for all of it, and then nobody
\* has to be waited for.
LEMMA ShutdownStepsKeepMain ==
  ASSUME MainInv, BeginClose \/ AbortOne \/ JoinAll \/ CloseLogger
  PROVE  MainInv'
  <1>1. /\ main \in MainStates \ Loop /\ main' \in MainStates \ Loop
        /\ link' = link \/ \E c \in joining : link[c] = "up" /\ link' = [link EXCEPT ![c] = "down"]
        /\ UNCHANGED <<current, graceful, interrupts, slots, workers, pc>>
    BY DEF BeginClose, AbortOne, JoinAll, CloseLogger, workerVars, Loop, MainStates
  <1>2. joining' = joining \/ (main = "stopping" /\ joining' = workers)
    BY DEF BeginClose, AbortOne, JoinAll, CloseLogger
  <1>3. logger' = logger \/ (logger' = "closed" /\ main' = "stopped")
    BY DEF BeginClose, AbortOne, JoinAll, CloseLogger
  <1>4. main # "stopped"
    BY DEF BeginClose, AbortOne, JoinAll, CloseLogger
  <1>5. MainTypes'
    BY <1>1, <1>2, <1>3 DEF MainInv, MainTypes
  <1>6. MainLocal'
    BY <1>1, <1>3, <1>4 DEF MainInv, MainTypes, MainLocal, Loop
  <1>7. Running' = Running
    BY <1>1 DEF Running
  <1>8. WorkersLocal'
    BY <1>1, <1>7 DEF MainInv, MainTypes, WorkersLocal
  <1>9. Occupants' = Occupants
    BY <1>1 DEF Occupants, Loop
  <1>10. SlotsAccounted'
    BY <1>1, <1>9 DEF MainInv, SlotsAccounted
  <1>11. Running' \ Waited' \subseteq Running \ Waited
    <2>1. CASE BeginClose
      BY <1>7, <2>1 DEF BeginClose, Waited, Loop
    <2>2. CASE AbortOne
      BY <1>7, <2>2 DEF AbortOne, Waited, Loop
    <2>3. CASE JoinAll
      <3>1. \A c \in joining : c \notin Running
        BY <2>3 DEF JoinAll, Running
      <3> QED
        BY <1>7, <2>3, <3>1 DEF JoinAll, Waited, Loop
    <2>4. CASE CloseLogger
      BY <1>7, <2>4 DEF CloseLogger, Waited, Loop
    <2> QED
      BY <2>1, <2>2, <2>3, <2>4
  <1>12. FewMissed'
    BY <1>1, <1>5, <1>11, MissedKept DEF MainInv
  <1> QED
    BY <1>5, <1>6, <1>8, <1>10, <1>12 DEF MainInv

\* Ctrl-C: the first one ends the loop and misses at most the worker whose start it
\* undoes; after one that came later nothing is promised.
LEMMA InterruptKeepsMain ==
  ASSUME MainInv, Interrupt
  PROVE  MainInv'
  <1>1. /\ interrupts < MaxInterrupts /\ interrupts' = interrupts + 1
        /\ InterruptLoop \/ InterruptShutdown
        /\ current' = None /\ UNCHANGED <<joining, pc>>
    BY DEF Interrupt
  <1>2. interrupts' \in 0..MaxInterrupts /\ interrupts \in Nat /\ interrupts' >= 1
    BY <1>1, Numbers DEF MainInv, MainTypes
  <1>3. Running' = Running
    BY <1>1 DEF Running
  <1>4. CASE InterruptShutdown
    <2>1. /\ main \in {"stopping", "aborting", "joining", "joined"}
          /\ \/ main' = "joined" /\ logger' = logger
             \/ main' = "stopped" /\ logger' \in {"open", "closed"}
          /\ UNCHANGED <<graceful, link, slots, workers>>
      BY <1>4 DEF InterruptShutdown
    <2>2. MainTypes'
      BY <1>1, <1>2, <2>1 DEF MainInv, MainTypes, MainStates
    <2>3. MainLocal'
      BY <1>1, <1>2, <2>1 DEF MainInv, MainLocal, Loop
    <2>4. Occupants' = Occupants
      BY <1>1, <2>1 DEF Occupants
    <2>5. SlotsAccounted' /\ WorkersLocal'
      BY <1>1, <1>3, <2>1, <2>4 DEF MainInv, SlotsAccounted, WorkersLocal
    <2>6. ~Orderly'
      <3>1. graceful => interrupts >= 1
        BY DEF MainInv, MainLocal
      <3> QED
        BY <1>1, <1>2, <2>1, <3>1 DEF Orderly
    <2> QED
      BY <2>2, <2>3, <2>5, <2>6 DEF MainInv, FewMissed
  <1>5. CASE InterruptLoop
    <2>1. main \in Loop /\ main' = "stopping" /\ logger' = logger
      BY <1>5 DEF InterruptLoop, Loop
    <2>2. ~graceful /\ interrupts = 0 /\ interrupts' = 1 /\ logger # "closed"
      BY <1>1, <2>1 DEF MainInv, MainLocal, Loop
    <2>3. /\ slots' \in 0..MaxClients
          /\ link' \in [Conns -> {"unopened", "up", "down"}]
          /\ \A c \in Conns : link'[c] = "unopened" => link[c] = "unopened"
          /\ \/ graceful' /\ (workers' = workers \/ workers' = workers \ {current})
             \/ ~graceful' /\ UNCHANGED <<workers, slots, link>> /\ main = "launching"
          /\ graceful' \in BOOLEAN
      <3>1. slots \in 0..MaxClients /\ link \in [Conns -> {"unopened", "up", "down"}]
        BY DEF MainInv, MainTypes
      <3>2. CASE /\ link' = [c \in Conns |-> IF c = current THEN "down" ELSE link[c]]
                 /\ UNCHANGED <<workers, slots>> /\ graceful' = TRUE
        BY <3>1, <3>2
      <3>3. CASE UNCHANGED <<workers, slots, link>> /\ graceful' = TRUE
        BY <3>1, <3>3
      <3>4. CASE slots < MaxClients /\ UndoStart /\ graceful' = TRUE
        <4>1. /\ workers' = workers \ {current} /\ slots' = slots + 1
              /\ link' = [link EXCEPT ![current] = "down"]
          BY <3>4 DEF UndoStart
        <4>2. slots' \in 0..MaxClients
          BY <3>1, <3>4, <4>1, Numbers
        <4>3. /\ link' \in [Conns -> {"unopened", "up", "down"}]
              /\ \A c \in Conns : link'[c] = "unopened" => link[c] = "unopened"
          BY <3>1, <4>1
        <4> QED
          BY <3>4, <4>1, <4>2, <4>3
      <3>5. CASE main = "launching" /\ UNCHANGED <<workers, slots, link, graceful>>
        <4>1. graceful = FALSE
          BY <2>2 DEF MainInv, MainTypes
        <4>2. graceful' = graceful
          BY <3>5
        <4>3. graceful' = FALSE
          BY <4>1, <4>2, Zenon
        <4> QED
          BY <3>1, <3>5, <4>3
      <3> QED
        BY <1>5, <3>2, <3>3, <3>4, <3>5 DEF InterruptLoop
    <2>4. MainTypes'
      BY <1>1, <1>2, <2>1, <2>3 DEF MainInv, MainTypes, MainStates
    <2>5. MainLocal'
      BY <1>1, <1>2, <2>1, <2>2 DEF MainInv, MainLocal, Loop
    <2>6. WorkersLocal'
      BY <1>1, <1>3, <2>2, <2>3 DEF MainInv, WorkersLocal
    <2>7. SlotsAccounted'
      <3>1. CASE graceful'
        BY <3>1 DEF SlotsAccounted
      <3>2. CASE ~graceful'
        <4>1. UNCHANGED <<workers, slots>> /\ main = "launching"
          BY <2>3, <3>2
        <4>2. Occupants' = Occupants
          BY <1>1, <2>1, <4>1 DEF Occupants
        <4> QED
          BY <2>2, <4>1, <4>2 DEF MainInv, SlotsAccounted
      <3> QED
        BY <3>1, <3>2
    <2>8. FewMissed'
      <3>1. CASE ~graceful'
        BY <2>2, <3>1 DEF FewMissed, Orderly
      <3>2. CASE graceful'
        <4>1. Waited' = workers'
          BY <2>1 DEF Waited
        <4>2. Running \subseteq workers
          BY <2>2 DEF MainInv, WorkersLocal
        <4>3. Running' \ Waited' \subseteq {current}
          BY <1>3, <2>3, <3>2, <4>1, <4>2
        <4>4. IsFiniteSet({current}) /\ Cardinality({current}) = 1
          BY FS_Singleton
        <4>5. Cardinality(Running' \ Waited') <= 1
          BY <4>3, <4>4, FS_Subset
        <4> QED
          BY <2>2, <4>5 DEF FewMissed
      <3> QED
        BY <3>1, <3>2
    <2> QED
      BY <2>4, <2>5, <2>6, <2>7, <2>8 DEF MainInv
  <1> QED
    BY <1>1, <1>4, <1>5

-------------------------------------------------------------------------------
(* The registry under the workers.                                         *)

\* What RegistryProofs assumes holds here.
LEMMA RegistrySetting ==
  /\ None \notin Usernames
  /\ MaxUserId \in 1..RegThm!MAX_USER_ID
  /\ Cardinality(Conns) \in Nat
  BY SharedAssumption, Numbers DEF SharedAssumption, Reg!MAX_USER_ID, RegThm!MAX_USER_ID

\* A registered session is numbered below the next one, and its record has a name or None.
LEMMA RegistryShape ==
  ASSUME RegThm!IInv
  PROVE  /\ nextSessionId \in Nat /\ nextSessionId >= 1
         /\ \A s \in DOMAIN sessions : s \in Nat /\ 1 <= s /\ s < nextSessionId
         /\ \A s \in DOMAIN sessions : sessions[s].username \in Usernames \cup {None}
         /\ \A s, t \in DOMAIN sessions :
              s # t /\ sessions[s].username = sessions[t].username => sessions[s].username = None
  <1>1. RegThm!TypeOK /\ RegThm!IdentitiesUnique
    BY DEF RegThm!IInv
  <1>2. /\ DOMAIN sessions \subseteq 1..nextSessionId - 1
        /\ sessions \in [DOMAIN sessions -> RegThm!Snapshot]
        /\ nextSessionId \in 1..Cardinality(Conns) + 1
    BY <1>1 DEF RegThm!TypeOK
  <1>3. nextSessionId \in Nat /\ nextSessionId >= 1
    BY <1>2, Numbers
  <1>4. \A s \in DOMAIN sessions : sessions[s].username \in Usernames \cup {None}
    BY <1>2 DEF RegThm!Snapshot
  <1> QED
    BY <1>1, <1>2, <1>3, <1>4 DEF RegThm!IdentitiesUnique

\* A new session takes the next number; the others stay as they are.
LEMMA SessionRegistered ==
  ASSUME RegThm!IInv, Reg!RegisterSession
  PROVE  /\ RegThm!IInv'
         /\ nextSessionId <= Cardinality(Conns) /\ nextSessionId' = nextSessionId + 1
         /\ DOMAIN sessions' = DOMAIN sessions \cup {nextSessionId}
         /\ \A s \in DOMAIN sessions : sessions'[s] = sessions[s]
  <1>1. RegThm!RegisterSession
    BY DEF Reg!RegisterSession, Reg!Put, Reg!Anonymous, Reg!Answer,
           RegThm!RegisterSession, RegThm!Put, RegThm!Anonymous, RegThm!Answer
  <1>2. RegThm!IInv'
    BY <1>1, RegistrySetting, RegThm!NextPreserves DEF RegThm!Next
  <1>3. nextSessionId \notin DOMAIN sessions
    BY RegistryShape
  <1> QED
    BY <1>2, <1>3 DEF Reg!RegisterSession, Reg!Put

\* A claim concerns its own session only, and names it exactly when it is granted.
LEMMA NameClaimed ==
  ASSUME RegThm!IInv, NEW s \in DOMAIN sessions, NEW n \in Usernames, Reg!ClaimUsername(s, n)
  PROVE  /\ RegThm!IInv'
         /\ nextSessionId' = nextSessionId /\ DOMAIN sessions' = DOMAIN sessions
         /\ \A t \in DOMAIN sessions \ {s} : sessions'[t] = sessions[t]
         /\ outcome'.result = "granted" => sessions'[s].username # None
  <1>1. RegThm!ClaimUsername(s, n)
    BY DEF Reg!ClaimUsername, Reg!ClaimGranted, Reg!ClaimAnswered, Reg!MayClaim, Reg!Put,
           Reg!Answer, Reg!AllocateUserId, Reg!IsHeapMin, Reg!FreeIds, Reg!CanAllocate,
           RegThm!ClaimUsername, RegThm!ClaimGranted, RegThm!ClaimAnswered, RegThm!MayClaim,
           RegThm!Put, RegThm!Answer, RegThm!AllocateUserId, RegThm!IsHeapMin,
           RegThm!FreeIds, RegThm!CanAllocate
  <1>2. s \in 1..nextSessionId - 1
    BY RegistryShape
  <1>3. RegThm!IInv'
    BY <1>1, <1>2, RegistrySetting, RegThm!NextPreserves DEF RegThm!Next
  <1>4. CASE Reg!ClaimGranted(s, n)
    <2>1. n # None
      BY SharedAssumption DEF SharedAssumption
    <2> QED
      BY <1>3, <1>4, <2>1 DEF Reg!ClaimGranted
  <1>5. CASE \E result \in {"unknown", "current", "already", "in_use", "capacity"} :
               Reg!ClaimAnswered(s, n, result)
    BY <1>3, <1>5 DEF Reg!ClaimAnswered, Reg!Answer
  <1> QED
    BY <1>4, <1>5 DEF Reg!ClaimUsername

\* A release removes its own session only.
LEMMA SessionReleased ==
  ASSUME RegThm!IInv, NEW s \in DOMAIN sessions, Reg!ReleaseSession(s)
  PROVE  /\ RegThm!IInv'
         /\ nextSessionId' = nextSessionId /\ DOMAIN sessions' = DOMAIN sessions \ {s}
         /\ \A t \in DOMAIN sessions \ {s} : sessions'[t] = sessions[t]
  <1>1. RegThm!ReleaseSession(s)
    BY DEF Reg!ReleaseSession, Reg!ReleaseActive, Reg!ReleaseAbsent, Reg!Drop, Reg!Answer,
           RegThm!ReleaseSession, RegThm!ReleaseActive, RegThm!ReleaseAbsent, RegThm!Drop,
           RegThm!Answer
  <1>2. s \in 1..nextSessionId - 1
    BY RegistryShape
  <1>3. RegThm!IInv'
    BY <1>1, <1>2, RegistrySetting, RegThm!NextPreserves DEF RegThm!Next
  <1> QED
    BY <1>3 DEF Reg!ReleaseSession, Reg!ReleaseActive, Reg!ReleaseAbsent, Reg!Drop

\* Nothing happens to the registry when nobody calls it.
LEMMA RegistryKept ==
  ASSUME RegThm!IInv, UNCHANGED registry
  PROVE  RegThm!IInv'
  BY RegistrySetting, RegThm!NextPreserves DEF registry, RegThm!registryVars

-------------------------------------------------------------------------------
(* Sessions, names and locks: the initial state, and each step.            *)

\* Mirroring, element by element.
LEMMA Mirror ==
  RegistryMirrorsWorkers <=>
    /\ \A c \in Conns : pc[c] \in Registered => session[c] \in DOMAIN sessions
    /\ \A s \in DOMAIN sessions : \E c \in Conns : pc[c] \in Registered /\ session[c] = s
    /\ \A c, d \in Conns : c # d /\ session[c] = session[d] => session[c] = 0
  BY DEF RegistryMirrorsWorkers

LEMMA MirrorNext ==
  ASSUME \A c \in Conns : pc'[c] \in Registered => session'[c] \in DOMAIN sessions',
         \A s \in DOMAIN sessions' : \E c \in Conns : pc'[c] \in Registered /\ session'[c] = s,
         \A c, d \in Conns : c # d /\ session'[c] = session'[d] => session'[c] = 0
  PROVE  RegistryMirrorsWorkers'
  BY DEF RegistryMirrorsWorkers

LEMMA SessionInit == Init => SessionInv
  <1> SUFFICES ASSUME Init PROVE SessionInv
    OBVIOUS
  <1>1. /\ inside = {} /\ pc = [c \in Conns |-> "none"]
        /\ session = [c \in Conns |-> 0] /\ file = [c \in Conns |-> None]
    BY DEF Init, Locks!Init
  <1>2. RegThm!IInv
    <2>1. RegThm!Init
      BY DEF Init, Reg!Init, Reg!Anonymous, RegThm!Init, RegThm!Anonymous
    <2> QED
      BY <2>1, RegistrySetting, RegThm!InitEstablishes
  <1>3. SessionTypes
    <2>1. 0 \in 0..Cardinality(Conns) /\ "none" \in WorkerStates
      BY Numbers DEF WorkerStates
    <2> QED
      BY <1>1, <2>1 DEF SessionTypes
  <1>4. nextSessionId = 1 /\ DOMAIN sessions = {}
    BY DEF Init, Reg!Init
  <1>5. \A c \in Conns : pc[c] = "none" /\ session[c] = 0
    BY <1>1
  <1>6. SessionsLocal
    BY <1>4, <1>5 DEF SessionsLocal, Named, Registered
  <1>7. RegistryMirrorsWorkers
    BY <1>4, <1>5, Mirror DEF Registered
  <1>8. InsideIsBusy
    BY <1>1 DEF InsideIsBusy
  <1> QED
    BY <1>2, <1>3, <1>6, <1>7, <1>8 DEF SessionInv

\* Threads that move without registering, logging in, locking or releasing.
LEMMA SessionsKept ==
  ASSUME SessionInv, UNCHANGED <<registry, inside, session, file>>,
         pc' \in [Conns -> WorkerStates],
         \A c \in Conns : \/ pc'[c] = pc[c]
                          \/ /\ pc'[c] \in Registered <=> pc[c] \in Registered
                             /\ pc'[c] \notin Named /\ pc[c] # "busy"
  PROVE  SessionInv'
  <1>1. /\ UNCHANGED <<sessions, nextSessionId, inside, session, file>>
        /\ UNCHANGED registry
    BY DEF registry
  <1>2. RegThm!IInv'
    BY <1>1, RegistryKept DEF SessionInv
  <1>3. SessionTypes'
    BY <1>1 DEF SessionInv, SessionTypes
  <1>4. SessionsLocal'
    BY <1>1 DEF SessionInv, SessionsLocal, Named
  <1>5. RegistryMirrorsWorkers'
    <2>1. \A c \in Conns : pc'[c] \in Registered <=> pc[c] \in Registered
      OBVIOUS
    <2> QED
      BY <1>1, <2>1, Mirror, MirrorNext DEF SessionInv
  <1>6. InsideIsBusy'
    <2>1. \A p \in inside : p[1] \in Conns
      BY DEF SessionInv, SessionTypes
    <2> QED
      BY <1>1, <2>1 DEF SessionInv, InsideIsBusy, LockKey
  <1> QED
    BY <1>2, <1>3, <1>4, <1>5, <1>6 DEF SessionInv

\* Everything the main thread does leaves sessions, names and locks alone.
LEMMA MainStepsKeepSessions ==
  ASSUME IInv,
         \/ MainStep \/ StartFails \/ AcceptFails \/ RejectSilent \/ Interrupt
         \/ \E c \in Conns : Accept(c) \/ PeerLeaves(c)
  PROVE  SessionInv'
  <1>0. pc \in [Conns -> WorkerStates] /\ SessionInv
    BY DEF IInv, SessionInv, SessionTypes
  <1>1. UNCHANGED <<registry, inside, session, file>>
    BY DEF MainStep, ListWorker, StartWorker, StartReturns, RejectGone, RejectSilent,
           RejectReturns, BeginClose, AbortOne, JoinAll, CloseLogger, StartFails,
           AcceptFails, Interrupt, Accept, PeerLeaves, workerVars
  <1>2. pc' = pc \/ (pc[current] = "none" /\ pc' = [pc EXCEPT ![current] = "started"])
    <2>1. CASE StartWorker
      BY <2>1 DEF StartWorker, Goto, IInv, MainInv, MainLocal
    <2>2. CASE ~StartWorker
      BY <2>2 DEF MainStep, ListWorker, StartReturns, RejectGone, RejectSilent,
           RejectReturns, BeginClose, AbortOne, JoinAll, CloseLogger, StartFails,
           AcceptFails, Interrupt, Accept, PeerLeaves, workerVars
    <2> QED
      BY <2>1, <2>2
  <1>3. /\ pc' \in [Conns -> WorkerStates]
        /\ \A c \in Conns : \/ pc'[c] = pc[c]
                            \/ /\ pc'[c] \in Registered <=> pc[c] \in Registered
                               /\ pc'[c] \notin Named /\ pc[c] # "busy"
    BY <1>0, <1>2 DEF WorkerStates, Registered, Named
  <1> QED
    BY <1>0, <1>1, <1>3, SessionsKept

\* The same holds of a thread between two steps that matter here.
LEMMA QuietStepsKeepSessions ==
  ASSUME SessionInv, NEW c \in Conns,
         Handshake(c) \/ CloseSession(c) \/ Unlist(c) \/ ReturnSlot(c)
  PROVE  SessionInv'
  <1>0. pc \in [Conns -> WorkerStates]
    BY DEF SessionInv, SessionTypes
  <1>1. UNCHANGED <<registry, inside, session, file>>
    BY DEF Handshake, CloseSession, Unlist, ReturnSlot
  <1>2. \/ pc[c] = "handshaking" /\ pc' = [pc EXCEPT ![c] = "authenticating"]
        \/ pc[c] = "ended" /\ pc' = [pc EXCEPT ![c] = "closed"]
        \/ pc[c] = "released" /\ pc' = [pc EXCEPT ![c] = "unlisted"]
        \/ pc[c] = "unlisted" /\ pc' = [pc EXCEPT ![c] = "gone"]
    BY DEF Handshake, CloseSession, Unlist, ReturnSlot, Goto
  <1>3. /\ pc' \in [Conns -> WorkerStates]
        /\ \A d \in Conns : \/ pc'[d] = pc[d]
                            \/ /\ pc'[d] \in Registered <=> pc[d] \in Registered
                               /\ pc'[d] \notin Named /\ pc[d] # "busy"
    BY <1>0, <1>2 DEF WorkerStates, Registered, Named
  <1> QED
    BY <1>1, <1>3, SessionsKept

\* What the invariant says about the worker that moves and about all the others.
LEMMA WorkerFacts ==
  ASSUME SessionInv
  PROVE  /\ pc \in [Conns -> WorkerStates] /\ file \in [Conns -> Files \cup {None}]
         /\ session \in [Conns -> 0..Cardinality(Conns)]
         /\ nextSessionId \in Nat /\ nextSessionId >= 1
         /\ \A d \in Conns : session[d] \in Nat /\ session[d] < nextSessionId
         /\ \A d \in Conns : pc[d] \in Registered =>
              session[d] # 0 /\ session[d] \in DOMAIN sessions
         /\ \A p \in inside : p = <<p[1], p[2]>> /\ p[1] \in Conns
                              /\ p[2] \in Usernames \X Files
  <1>1. RegThm!IInv /\ SessionTypes /\ SessionsLocal /\ RegistryMirrorsWorkers
    BY DEF SessionInv
  <1>2. \A d \in Conns : session[d] \in Nat
    BY <1>1, Numbers DEF SessionTypes
  <1>3. \A p \in inside : p = <<p[1], p[2]>> /\ p[1] \in Conns /\ p[2] \in Usernames \X Files
    BY <1>1 DEF SessionTypes
  <1> QED
    BY <1>1, <1>2, <1>3, RegistryShape, Mirror DEF SessionTypes, SessionsLocal

LEMMA RegisterKeepsSessions ==
  ASSUME SessionInv, NEW c \in Conns, RegisterWorker(c)
  PROVE  SessionInv'
  <1>1. /\ pc[c] = "started" /\ pc' = [pc EXCEPT ![c] = "handshaking"]
        /\ session' = [session EXCEPT ![c] = nextSessionId]
        /\ inside' = inside /\ file' = file
    BY DEF RegisterWorker, Goto
  <1>2. /\ RegThm!IInv'
        /\ nextSessionId <= Cardinality(Conns) /\ nextSessionId' = nextSessionId + 1
        /\ DOMAIN sessions' = DOMAIN sessions \cup {nextSessionId}
        /\ \A s \in DOMAIN sessions : sessions'[s] = sessions[s]
    BY SessionRegistered DEF RegisterWorker, SessionInv
  <1>3. /\ pc'[c] = "handshaking" /\ session'[c] = nextSessionId
        /\ \A d \in Conns : d # c => pc'[d] = pc[d] /\ session'[d] = session[d]
    BY <1>1, WorkerFacts
  <1>4. SessionTypes'
    <2>1. nextSessionId \in 0..Cardinality(Conns)
      BY <1>2, WorkerFacts, Numbers
    <2> QED
      BY <1>1, <2>1 DEF SessionInv, SessionTypes, WorkerStates, Registered
  <1>5. SessionsLocal'
    <2>1. \A d \in Conns : session'[d] < nextSessionId'
      BY <1>2, <1>3, WorkerFacts
    <2>2. session'[c] # 0
      BY <1>3, WorkerFacts
    <2> QED
      BY <1>1, <1>2, <1>3, <2>1, <2>2, WorkerFacts DEF SessionInv, SessionsLocal, Named, Registered
  <1>6. RegistryMirrorsWorkers'
    <2>1. \A d \in Conns : session[d] # nextSessionId
      BY WorkerFacts
    <2>2. \A d \in Conns : pc'[d] \in Registered => session'[d] \in DOMAIN sessions'
      BY <1>2, <1>3, WorkerFacts
    <2>3. \A s \in DOMAIN sessions' : \E d \in Conns : pc'[d] \in Registered /\ session'[d] = s
      <3>1. "handshaking" \in Registered /\ "started" \notin Registered
        BY DEF Registered
      <3> QED
        BY <1>1, <1>2, <1>3, <3>1, Mirror DEF SessionInv
    <2>4. \A d, e \in Conns : d # e /\ session'[d] = session'[e] => session'[d] = 0
      BY <1>3, <2>1, Mirror DEF SessionInv
    <2> QED
      BY <2>2, <2>3, <2>4, MirrorNext
  <1>7. InsideIsBusy'
    <2>1. \A p \in inside : /\ p[1] # c /\ p[1] \in Conns /\ pc[p[1]] = "busy"
                             /\ session[p[1]] \in DOMAIN sessions
      BY <1>1, WorkerFacts DEF SessionInv, InsideIsBusy, Registered
    <2> QED
      BY <1>1, <1>2, <1>3, <2>1 DEF SessionInv, InsideIsBusy, LockKey
  <1> QED
    BY <1>2, <1>4, <1>5, <1>6, <1>7 DEF SessionInv

\* A login names the session of its own worker, and lets it go on only when it is named.
LEMMA LoginKeepsSessions ==
  ASSUME SessionInv, NEW c \in Conns, NEW n \in Usernames, Login(c, n)
  PROVE  SessionInv'
  <1>1. /\ pc[c] = "authenticating"
        /\ pc' = [pc EXCEPT ![c] = IF outcome'.result = "granted" THEN "idle"
                                                                  ELSE "authenticating"]
        /\ session' = session /\ inside' = inside /\ file' = file
    BY DEF Login, Goto
  <1>2. session[c] \in DOMAIN sessions /\ session[c] # 0
    BY <1>1, WorkerFacts DEF Registered
  <1>3. /\ RegThm!IInv'
        /\ nextSessionId' = nextSessionId /\ DOMAIN sessions' = DOMAIN sessions
        /\ \A t \in DOMAIN sessions \ {session[c]} : sessions'[t] = sessions[t]
        /\ outcome'.result = "granted" => sessions'[session[c]].username # None
    BY <1>2, NameClaimed DEF Login, SessionInv
  <1>4. /\ pc'[c] \in {"idle", "authenticating"}
        /\ pc'[c] = "idle" => outcome'.result = "granted"
        /\ \A d \in Conns : d # c => pc'[d] = pc[d]
    BY <1>1, WorkerFacts
  <1>5. \A d \in Conns : d # c /\ pc[d] \in Registered =>
          sessions'[session[d]] = sessions[session[d]]
    BY <1>2, <1>3, WorkerFacts, Mirror DEF SessionInv
  <1>6. SessionTypes'
    BY <1>1 DEF SessionInv, SessionTypes, WorkerStates, Registered
  <1>7. SessionsLocal'
    BY <1>1, <1>2, <1>3, <1>4, <1>5 DEF SessionInv, SessionsLocal, Named, Registered
  <1>8. RegistryMirrorsWorkers'
    <2>1. \A d \in Conns : pc'[d] \in Registered <=> pc[d] \in Registered
      BY <1>1, <1>4 DEF Registered
    <2> QED
      BY <1>1, <1>3, <2>1, Mirror, MirrorNext DEF SessionInv
  <1>9. InsideIsBusy'
    <2>1. \A p \in inside : /\ p[1] # c /\ p[1] \in Conns /\ pc[p[1]] = "busy"
                             /\ pc[p[1]] \in Registered
      BY <1>1, WorkerFacts DEF SessionInv, InsideIsBusy, Registered
    <2> QED
      BY <1>1, <1>4, <1>5, <2>1 DEF SessionInv, InsideIsBusy, LockKey
  <1> QED
    BY <1>3, <1>6, <1>7, <1>8, <1>9 DEF SessionInv

\* A request begins, gets its lock, or ends: the registry does not take part.
LEMMA RequestStepsKeepSessions ==
  ASSUME SessionInv, NEW c \in Conns,
         (\E f \in Files : BeginRequest(c, f)) \/ EnterBody(c) \/ EndRequest(c) \/ EndSession(c)
  PROVE  SessionInv'
  <1>1. UNCHANGED registry /\ session' = session
    BY DEF BeginRequest, EnterBody, EndRequest, EndSession
  <1>2. UNCHANGED <<sessions, nextSessionId>>
    BY <1>1 DEF registry
  <1>3. RegThm!IInv'
    BY <1>1, RegistryKept DEF SessionInv
  <1>4. /\ pc[c] \in Registered
        /\ \E x \in Registered : pc' = [pc EXCEPT ![c] = x]
        /\ file' = file \/ \E f \in Files \cup {None} : file' = [file EXCEPT ![c] = f]
    <2>1. ASSUME NEW f \in Files, BeginRequest(c, f)
          PROVE  /\ pc[c] = "idle" /\ pc' = [pc EXCEPT ![c] = "locking"]
                 /\ file' = [file EXCEPT ![c] = f]
      BY <2>1 DEF BeginRequest, Goto
    <2>2. CASE EnterBody(c)
      BY <2>2 DEF EnterBody, Goto, Registered
    <2>3. CASE EndRequest(c)
      BY <2>3 DEF EndRequest, Goto, Registered
    <2>4. CASE EndSession(c)
      BY <2>4 DEF EndSession, Goto, Registered
    <2>5. {"idle", "locking"} \subseteq Registered
      BY DEF Registered
    <2> QED
      BY <2>1, <2>2, <2>3, <2>4, <2>5
  <1>5. /\ pc' \in [Conns -> WorkerStates] /\ file' \in [Conns -> Files \cup {None}]
        /\ \A d \in Conns : d # c => pc'[d] = pc[d] /\ file'[d] = file[d]
        /\ \A d \in Conns : pc'[d] \in Registered <=> pc[d] \in Registered
    <2>1. Registered \subseteq WorkerStates
      BY DEF WorkerStates
    <2> QED
      BY <1>4, <2>1, WorkerFacts
  <1>6. RegistryMirrorsWorkers'
    BY <1>1, <1>2, <1>5, Mirror, MirrorNext DEF SessionInv
  <1>7. /\ \A p \in inside' : p \in inside \/ (p = <<c, LockKey(c)>> /\ EnterBody(c))
        /\ \A p \in inside' : p[1] = c => pc'[c] = "busy"
    <2>1. \A p \in inside : p[1] = c => pc[c] = "busy"
      BY DEF SessionInv, InsideIsBusy
    <2>2. CASE \E f \in Files : BeginRequest(c, f)
      BY <2>1, <2>2 DEF BeginRequest
    <2>3. CASE EnterBody(c)
      BY <2>3, WorkerFacts DEF EnterBody, Goto, Locks!Enter
    <2>4. CASE EndRequest(c)
      <3>1. inside' = inside \ {<<c, LockKey(c)>>}
        BY <2>4 DEF EndRequest, Locks!Leave
      <3>2. \A p \in inside : p[1] = c => p = <<c, LockKey(c)>>
        BY WorkerFacts DEF SessionInv, InsideIsBusy
      <3> QED
        BY <3>1, <3>2
    <2>5. CASE EndSession(c)
      BY <2>5 DEF EndSession
    <2> QED
      BY <2>2, <2>3, <2>4, <2>5
  <1>8. /\ pc'[c] \in Named => sessions[session[c]].username # None
        /\ pc'[c] \in {"locking", "busy"} => file'[c] \in Files
        /\ pc'[c] = "busy" => EnterBody(c) /\ file' = file
    <2>0. /\ pc[c] \in Named => sessions[session[c]].username # None
          /\ pc[c] \in {"locking", "busy"} => file[c] \in Files
      BY DEF SessionInv, SessionsLocal
    <2>1. ASSUME NEW f \in Files, BeginRequest(c, f)
          PROVE  /\ pc[c] = "idle" /\ pc'[c] = "locking" /\ file'[c] = f
      BY <2>1, WorkerFacts DEF BeginRequest, Goto
    <2>2. CASE EnterBody(c)
      BY <2>0, <2>2, WorkerFacts DEF EnterBody, Goto, Named
    <2>3. CASE EndRequest(c)
      BY <2>0, <2>3, WorkerFacts DEF EndRequest, Goto, Named
    <2>4. CASE EndSession(c)
      BY <2>4, WorkerFacts DEF EndSession, Goto, Named
    <2> QED
      BY <2>0, <2>1, <2>2, <2>3, <2>4 DEF Named
  <1>9. SessionsLocal'
    BY <1>1, <1>2, <1>5, <1>8 DEF SessionInv, SessionsLocal, Named
  <1>10. EnterBody(c) => LockKey(c) \in Usernames \X Files
    <2> SUFFICES ASSUME EnterBody(c) PROVE LockKey(c) \in Usernames \X Files
      OBVIOUS
    <2>1. pc[c] = "locking"
      BY DEF EnterBody
    <2>2. file[c] \in Files /\ sessions[session[c]].username # None
      BY <2>1 DEF SessionInv, SessionsLocal, Named
    <2>3. session[c] \in DOMAIN sessions
      BY <2>1, WorkerFacts DEF Registered
    <2>4. sessions[session[c]].username \in Usernames
      BY <2>2, <2>3, RegistryShape DEF SessionInv
    <2> QED
      BY <2>2, <2>4 DEF LockKey
  <1>11. SessionTypes'
    <2>1. inside' \subseteq Conns \X (Usernames \X Files)
      BY <1>7, <1>10, WorkerFacts
    <2> QED
      BY <1>1, <1>5, <2>1, WorkerFacts DEF SessionTypes
  <1>12. InsideIsBusy'
    <2>1. ASSUME NEW p \in inside' PROVE pc'[p[1]] = "busy" /\ p[2] = LockKey(p[1])'
      <3>1. CASE p = <<c, LockKey(c)>> /\ EnterBody(c)
        BY <1>1, <1>2, <1>7, <1>8, <2>1, <3>1 DEF LockKey
      <3>2. CASE p \in inside
        <4>1. p[1] \in Conns /\ pc[p[1]] = "busy" /\ p[2] = LockKey(p[1])
          BY <3>2, WorkerFacts DEF SessionInv, InsideIsBusy
        <4>2. CASE p[1] # c
          BY <1>1, <1>2, <1>5, <4>1, <4>2 DEF LockKey
        <4>3. CASE p[1] = c
          BY <1>1, <1>2, <1>7, <1>8, <4>1, <4>3, <2>1 DEF LockKey
        <4> QED
          BY <4>2, <4>3
      <3> QED
        BY <1>7, <2>1, <3>1, <3>2
    <2> QED
      BY <2>1 DEF InsideIsBusy
  <1> QED
    BY <1>3, <1>6, <1>9, <1>11, <1>12 DEF SessionInv

\* By the time a name is released, its worker holds no lock any more.
LEMMA ReleaseKeepsSessions ==
  ASSUME SessionInv, NEW c \in Conns, ReleaseIdentity(c)
  PROVE  SessionInv'
  <1>1. /\ pc[c] = "closed" /\ pc' = [pc EXCEPT ![c] = "released"]
        /\ session' = session /\ inside' = inside /\ file' = file
    BY DEF ReleaseIdentity, Goto
  <1>2. session[c] \in DOMAIN sessions /\ session[c] # 0
    BY <1>1, WorkerFacts DEF Registered
  <1>3. /\ RegThm!IInv'
        /\ nextSessionId' = nextSessionId /\ DOMAIN sessions' = DOMAIN sessions \ {session[c]}
        /\ \A t \in DOMAIN sessions \ {session[c]} : sessions'[t] = sessions[t]
    BY <1>2, SessionReleased DEF ReleaseIdentity, SessionInv
  <1>4. pc'[c] = "released" /\ \A d \in Conns : d # c => pc'[d] = pc[d]
    BY <1>1, WorkerFacts
  <1>5. \A d \in Conns : d # c /\ pc[d] \in Registered => session[d] # session[c]
    BY <1>2, Mirror DEF SessionInv
  <1>6. \A d \in Conns : d # c /\ pc[d] \in Registered =>
          /\ session[d] \in DOMAIN sessions'
          /\ sessions'[session[d]] = sessions[session[d]]
    BY <1>3, <1>5, WorkerFacts
  <1>7. SessionTypes'
    BY <1>1 DEF SessionInv, SessionTypes, WorkerStates, Registered
  <1>8. SessionsLocal'
    BY <1>1, <1>3, <1>4, <1>6 DEF SessionInv, SessionsLocal, Named, Registered
  <1>9. "released" \notin Registered
    BY DEF Registered
  <1>10. RegistryMirrorsWorkers'
    <2>1. \A d \in Conns : pc'[d] \in Registered => session'[d] \in DOMAIN sessions'
      BY <1>1, <1>4, <1>6, <1>9
    <2>2. \A s \in DOMAIN sessions' : \E d \in Conns : pc'[d] \in Registered /\ session'[d] = s
      BY <1>1, <1>3, <1>4, Mirror DEF SessionInv
    <2> QED
      BY <1>1, <2>1, <2>2, Mirror, MirrorNext DEF SessionInv
  <1>11. InsideIsBusy'
    <2>1. \A p \in inside : /\ p[1] # c /\ p[1] \in Conns /\ pc[p[1]] = "busy"
                             /\ pc[p[1]] \in Registered
      BY <1>1, WorkerFacts DEF SessionInv, InsideIsBusy, Registered
    <2> QED
      BY <1>1, <1>4, <1>6, <2>1 DEF SessionInv, InsideIsBusy, LockKey
  <1> QED
    BY <1>3, <1>7, <1>8, <1>10, <1>11 DEF SessionInv

-------------------------------------------------------------------------------
(* The invariant, and what follows from it.                                *)

LEMMA InitEstablishes == Init => IInv
  BY MainInit, SessionInit DEF IInv

LEMMA NextPreserves == IInv /\ [Next]_vars => IInv'
  <1> SUFFICES ASSUME IInv, [Next]_vars PROVE IInv'
    OBVIOUS
  <1>0. MainInv /\ SessionInv
    BY DEF IInv
  <1>1. CASE MainStep \/ StartFails \/ AcceptFails \/ RejectSilent \/ Interrupt
    <2>1. MainInv'
      BY <1>0, <1>1, ListWorkerKeepsMain, StartWorkerKeepsMain, StartFailsKeepsMain,
         LoopStepsKeepMain, ShutdownStepsKeepMain, InterruptKeepsMain DEF MainStep
    <2>2. SessionInv'
      BY <1>1, MainStepsKeepSessions
    <2> QED
      BY <2>1, <2>2 DEF IInv
  <1>2. ASSUME NEW c \in Conns, WorkerStep(c) PROVE IInv'
    <2>1. MainInv'
      BY <1>0, <1>2, SessionStepsKeepMain, UnlistKeepsMain, ReturnSlotKeepsMain
         DEF WorkerStep, SessionNoticesLoss
    <2>2. SessionInv'
      BY <1>0, <1>2, RegisterKeepsSessions, RequestStepsKeepSessions,
         QuietStepsKeepSessions, ReleaseKeepsSessions DEF WorkerStep, SessionNoticesLoss
    <2> QED
      BY <2>1, <2>2 DEF IInv
  <1>3. ASSUME NEW c \in Conns, Environment(c) PROVE IInv'
    <2>1. MainInv'
      BY <1>0, <1>3, AcceptKeepsMain, SessionStepsKeepMain DEF Environment, SessionStops
    <2>2. SessionInv'
      BY <1>0, <1>3, MainStepsKeepSessions, LoginKeepsSessions, RequestStepsKeepSessions,
         QuietStepsKeepSessions DEF Environment, SessionStops
    <2> QED
      BY <2>1, <2>2 DEF IInv
  <1>4. CASE UNCHANGED vars
    <2>1. UNCHANGED <<registry, inside, session, file, pc, link, slots, workers>>
          /\ UNCHANGED mainVars
      BY <1>4 DEF vars, workerVars
    <2>2. /\ pc' \in [Conns -> WorkerStates]
          /\ link' \in [Conns -> {"unopened", "up", "down"}]
      BY <1>0, <2>1 DEF MainInv, MainTypes
    <2>3. MainInv'
      BY <1>0, <2>1, <2>2, WorkersMove
    <2>4. SessionInv'
      BY <1>0, <2>1, <2>2, SessionsKept
    <2> QED
      BY <2>3, <2>4 DEF IInv
  <1> QED
    BY <1>1, <1>2, <1>3, <1>4 DEF Next

LEMMA Inductive == Spec => []IInv
  BY InitEstablishes, NextPreserves, PTL DEF Spec

\* Every variable of the server stays in its type; in particular the semaphore never
\* holds more than max_clients places nor fewer than none.
THEOREM WorkersTypesAlways == Spec => []TypeOK
  <1>1. IInv => TypeOK
    <2> SUFFICES ASSUME IInv PROVE TypeOK
      OBVIOUS
    <2>1. RegThm!TypeOK
      BY DEF IInv, SessionInv, RegThm!IInv
    <2>2. Reg!TypeOK
      BY <2>1 DEF RegThm!TypeOK, RegThm!Snapshot, RegThm!Calls, RegThm!Results,
         Reg!TypeOK, Reg!Snapshot, Reg!Calls, Reg!Results
    <2> QED
      BY <2>2 DEF IInv, MainInv, MainTypes, SessionInv, SessionTypes, TypeOK
  <1> QED
    BY <1>1, Inductive, PTL

\* start, reject_busy and _run_client between them neither lose a place of the semaphore
\* nor give one back twice, for any max_clients and any number of connections.
THEOREM SlotsAlwaysAccounted == Spec => []SlotsAccounted
  <1>1. IInv => SlotsAccounted
    BY DEF IInv, MainInv
  <1> QED
    BY <1>1, Inductive, PTL

\* The registry holds the sessions of the running workers, each once, and no others.
THEOREM RegistryAlwaysMirrors == Spec => []RegistryMirrorsWorkers
  <1>1. IInv => RegistryMirrorsWorkers
    BY DEF IInv, SessionInv
  <1> QED
    BY <1>1, Inductive, PTL

\* A worker never waits for a filename lock: the namespace is its own while it is logged
\* in, because usernames are unique and locks go before names do.
THEOREM RequestsNeverWait == Spec => []RequestsNeverContend
  <1>1. IInv => RequestsNeverContend
    <2> SUFFICES ASSUME IInv, NEW c \in Conns, pc[c] = "locking", NEW p \in inside
                 PROVE  p[1] # c /\ p[2] # LockKey(c)
      BY DEF RequestsNeverContend
    <2>0. SessionInv
      BY DEF IInv
    <2>1. p[1] \in Conns /\ pc[p[1]] = "busy" /\ p[2] = LockKey(p[1])
      BY <2>0, WorkerFacts DEF SessionInv, InsideIsBusy
    <2>2. p[1] # c
      BY <2>1
    <2>3. \A d \in {c, p[1]} : /\ session[d] \in DOMAIN sessions /\ session[d] # 0
                               /\ sessions[session[d]].username # None
      BY <2>0, <2>1, WorkerFacts DEF SessionInv, SessionsLocal, Named, Registered
    <2>4. session[c] # session[p[1]]
      BY <2>0, <2>1, <2>2, <2>3, Mirror DEF SessionInv
    <2>5. sessions[session[c]].username # sessions[session[p[1]]].username
      BY <2>0, <2>3, <2>4, RegistryShape DEF SessionInv
    <2> QED
      BY <2>1, <2>2, <2>5 DEF LockKey
  <1> QED
    BY <1>1, Inductive, PTL

\* When serve_forever closes the logger, every worker has been joined, save the one whose
\* start a single Ctrl-C may have undone.
THEOREM ShutdownAlwaysJoins == Spec => []ShutdownJoins
  <1>1. IInv => ShutdownJoins
    <2> SUFFICES ASSUME IInv, logger = "closed", Orderly
                 PROVE  Cardinality(Running) <= interrupts
      BY DEF ShutdownJoins, Orderly
    <2>1. main = "stopped"
      BY DEF IInv, MainInv, MainLocal
    <2>2. Running \ Waited = Running
      BY <2>1 DEF Waited, Loop
    <2> QED
      BY <2>2 DEF IInv, MainInv, FewMissed
  <1> QED
    BY <1>1, Inductive, PTL

-------------------------------------------------------------------------------
(* The workers use their registry and their locks as these are specified.  *)

\* Every step of the server makes at most one call of the registry, and one the
\* registry's own specification has: what is proved about Registry holds in the server.
THEOREM WorkersObeyRegistry == Spec => RegThm!Spec
  <1>1. Init => RegThm!Init
    BY DEF Init, Reg!Init, Reg!Anonymous, RegThm!Init, RegThm!Anonymous
  <1>2. IInv /\ [Next]_vars => [RegThm!Next]_(RegThm!registryVars)
    <2> SUFFICES ASSUME IInv, [Next]_vars PROVE [RegThm!Next]_(RegThm!registryVars)
      OBVIOUS
    <2>0. SessionInv
      BY DEF IInv
    <2>1. ASSUME UNCHANGED registry PROVE UNCHANGED RegThm!registryVars
      BY <2>1 DEF registry, RegThm!registryVars
    <2>2. ASSUME NEW c \in Conns, RegisterWorker(c) PROVE RegThm!RegisterSession
      BY <2>2 DEF RegisterWorker, Reg!RegisterSession, Reg!Put, Reg!Anonymous, Reg!Answer,
           RegThm!RegisterSession, RegThm!Put, RegThm!Anonymous, RegThm!Answer
    <2>3. ASSUME NEW c \in Conns, NEW n \in Usernames, Login(c, n)
          PROVE  RegThm!ClaimUsername(session[c], n) /\ session[c] \in 1..nextSessionId - 1
      <3>1. session[c] \in 1..nextSessionId - 1
        BY <2>0, <2>3, WorkerFacts DEF Login, Registered
      <3> QED
        BY <2>3, <3>1 DEF Login,
           Reg!ClaimUsername, Reg!ClaimGranted, Reg!ClaimAnswered, Reg!MayClaim, Reg!Put,
           Reg!Answer, Reg!AllocateUserId, Reg!IsHeapMin, Reg!FreeIds, Reg!CanAllocate,
           RegThm!ClaimUsername, RegThm!ClaimGranted, RegThm!ClaimAnswered, RegThm!MayClaim,
           RegThm!Put, RegThm!Answer, RegThm!AllocateUserId, RegThm!IsHeapMin,
           RegThm!FreeIds, RegThm!CanAllocate
    <2>4. ASSUME NEW c \in Conns, ReleaseIdentity(c)
          PROVE  RegThm!ReleaseSession(session[c]) /\ session[c] \in 1..nextSessionId - 1
      <3>1. session[c] \in 1..nextSessionId - 1
        BY <2>0, <2>4, WorkerFacts DEF ReleaseIdentity, Registered
      <3> QED
        BY <2>4, <3>1 DEF ReleaseIdentity,
           Reg!ReleaseSession, Reg!ReleaseActive, Reg!ReleaseAbsent, Reg!Drop, Reg!Answer,
           RegThm!ReleaseSession, RegThm!ReleaseActive, RegThm!ReleaseAbsent, RegThm!Drop,
           RegThm!Answer
    <2>5. CASE \E c \in Conns : RegisterWorker(c)
      BY <2>2, <2>5 DEF RegThm!Next
    <2>6. CASE \E c \in Conns, n \in Usernames : Login(c, n)
      BY <2>3, <2>6 DEF RegThm!Next
    <2>7. CASE \E c \in Conns : ReleaseIdentity(c)
      BY <2>4, <2>7 DEF RegThm!Next
    <2>8. CASE MainStep \/ StartFails \/ AcceptFails \/ RejectSilent \/ Interrupt
      BY <2>1, <2>8 DEF MainStep, ListWorker, StartWorker, StartReturns, RejectGone,
         RejectSilent, RejectReturns, BeginClose, AbortOne, JoinAll, CloseLogger,
         StartFails, AcceptFails, Interrupt
    <2>9. ASSUME NEW c \in Conns,
                 \/ EnterBody(c) \/ EndSession(c) \/ CloseSession(c) \/ Unlist(c)
                 \/ ReturnSlot(c) \/ Accept(c) \/ PeerLeaves(c) \/ Handshake(c)
                 \/ EndRequest(c) \/ (\E f \in Files : BeginRequest(c, f))
          PROVE  UNCHANGED registry
      BY <2>9 DEF EnterBody, EndSession, CloseSession, Unlist, ReturnSlot, Accept,
         PeerLeaves, Handshake, EndRequest, BeginRequest
    <2>10. CASE UNCHANGED vars
      BY <2>1, <2>10 DEF vars
    <2> QED
      BY <2>1, <2>5, <2>6, <2>7, <2>8, <2>9, <2>10
         DEF Next, WorkerStep, Environment, SessionNoticesLoss, SessionStops
  <1> QED
    BY <1>1, <1>2, Inductive, PTL DEF Spec, RegThm!Spec

\* The workers enter and leave the bodies of their requests as mutual exclusion by
\* username and filename allows, whichever way a request ends.
THEOREM WorkersObeyLocks == Spec => Locks!Spec
  <1>1. Init => Locks!Init
    BY DEF Init
  <1>2. IInv /\ [Next]_vars => [Locks!Next]_inside
    <2> SUFFICES ASSUME IInv, [Next]_vars PROVE [Locks!Next]_inside
      OBVIOUS
    <2>0. SessionInv /\ SessionInv'
      BY NextPreserves DEF IInv
    <2>1. ASSUME NEW c \in Conns, EnterBody(c) PROVE Locks!Next
      <3>1. Locks!Enter(c, LockKey(c))
        BY <2>1 DEF EnterBody
      <3>2. <<c, LockKey(c)>> \in inside'
        BY <3>1 DEF Locks!Enter
      <3>3. LockKey(c) \in Usernames \X Files
        BY <2>0, <3>2 DEF SessionInv, SessionTypes
      <3> QED
        BY <3>1, <3>3 DEF Locks!Next
    <2>2. ASSUME NEW c \in Conns, NEW p \in inside, p[1] = c
          PROVE  p = <<c, LockKey(c)>> /\ LockKey(c) \in Usernames \X Files
      BY <2>0, <2>2, WorkerFacts DEF SessionInv, InsideIsBusy
    <2>3. ASSUME NEW c \in Conns, EndRequest(c) PROVE Locks!Next
      <3>1. Locks!Leave(c, LockKey(c))
        BY <2>3 DEF EndRequest
      <3>2. <<c, LockKey(c)>> \in inside /\ <<c, LockKey(c)>>[1] = c
        BY <3>1 DEF Locks!Leave
      <3>3. LockKey(c) \in Usernames \X Files
        BY <2>2, <3>2
      <3> QED
        BY <3>1, <3>3 DEF Locks!Next
    <2>4. ASSUME NEW c \in Conns, EndSession(c) PROVE Locks!Next \/ UNCHANGED inside
      <3>1. inside' = {p \in inside : p[1] # c}
        BY <2>4 DEF EndSession
      <3>2. CASE \A p \in inside : p[1] # c
        BY <3>1, <3>2
      <3>3. ASSUME NEW q \in inside, q[1] = c PROVE Locks!Next
        <4>1. q = <<c, LockKey(c)>> /\ LockKey(c) \in Usernames \X Files
          BY <2>2, <3>3
        <4>2. inside' = inside \ {<<c, LockKey(c)>>}
          BY <2>2, <3>1
        <4> QED
          BY <4>1, <4>2 DEF Locks!Leave, Locks!Next
      <3> QED
        BY <3>2, <3>3
    <2>5. CASE MainStep \/ StartFails \/ AcceptFails \/ RejectSilent \/ Interrupt
      BY <2>5 DEF MainStep, ListWorker, StartWorker, StartReturns, RejectGone,
         RejectSilent, RejectReturns, BeginClose, AbortOne, JoinAll, CloseLogger,
         StartFails, AcceptFails, Interrupt
    <2>6. ASSUME NEW c \in Conns,
                 \/ RegisterWorker(c) \/ CloseSession(c) \/ ReleaseIdentity(c) \/ Unlist(c)
                 \/ ReturnSlot(c) \/ Accept(c) \/ PeerLeaves(c) \/ Handshake(c)
                 \/ (\E n \in Usernames : Login(c, n)) \/ (\E f \in Files : BeginRequest(c, f))
          PROVE  UNCHANGED inside
      BY <2>6 DEF RegisterWorker, CloseSession, ReleaseIdentity, Unlist, ReturnSlot, Accept,
         PeerLeaves, Handshake, Login, BeginRequest
    <2>7. CASE UNCHANGED vars
      BY <2>7 DEF vars
    <2> QED
      BY <2>1, <2>3, <2>4, <2>5, <2>6, <2>7
         DEF Next, WorkerStep, Environment, SessionNoticesLoss, SessionStops
  <1> QED
    BY <1>1, <1>2, Inductive, PTL DEF Spec, Locks!Spec

===============================================================================
