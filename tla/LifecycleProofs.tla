---------------------------- MODULE LifecycleProofs ----------------------------
(***************************************************************************)
(* For any processes, commands and number of faults: daemons that do not   *)
(* start or stop side by side keep the socket's path to one of them.       *)
(***************************************************************************)
EXTENDS Lifecycle, FiniteSetTheorems, TLAPS

Busy(place) == place \in Starting \cup {"closing"}

\* While no two daemons start or stop at once: what listens is what the path leads
\* to, and nothing listens when a daemon is about to remove the file or to bind.
PathKept ==
    ~overlapped =>
        /\ \A d, e \in Daemons : Busy(daemon[d]) /\ Busy(daemon[e]) => d = e
        /\ \A d \in Daemons : Listens(d) => file = d
        /\ \A d \in Daemons : daemon[d] \in {"replacing", "binding"} =>
              \A e \in Daemons : ~Listens(e)

LEMMA PlacesListed ==
  /\ Places = {"off", "starting", "serving", "closing", "looking", "probing", "replacing", "binding"}
  /\ \A place : Busy(place) <=> place \in {"looking", "probing", "replacing", "binding", "closing"}
BY DEF Places, Starting, Busy

\* A move: of one daemon, and noticed when it makes two of them busy.
LEMMA MovesDoes ==
  ASSUME TypeOK, NEW d \in Daemons, NEW place \in Places, Moves(d, place)
  PROVE  /\ daemon' \in [Daemons -> Places] /\ overlapped' \in BOOLEAN
         /\ daemon'[d] = place /\ \A e \in Daemons : e # d => daemon'[e] = daemon[e]
         /\ ~overlapped' =>
               ~overlapped /\ \A a, b \in Daemons : Busy(daemon'[a]) /\ Busy(daemon'[b]) => a = b
<1>1. daemon' \in [Daemons -> Places] /\ daemon'[d] = place
      /\ \A e \in Daemons : e # d => daemon'[e] = daemon[e]
  BY DEF Moves, TypeOK
<1> DEFINE busy == {e \in Daemons : daemon'[e] \in Starting \cup {"closing"}}
<1>2. overlapped' = (overlapped \/ Cardinality(busy) > 1)
  BY DEF Moves
<1>3. overlapped' \in BOOLEAN
  BY <1>2 DEF TypeOK
<1>4. IsFiniteSet(busy)
  BY LifecycleAssumption, FS_Subset
<1>5. ASSUME ~overlapped', NEW a \in Daemons, NEW b \in Daemons, Busy(daemon'[a]), Busy(daemon'[b])
      PROVE  a = b
  <2>1. a \in busy /\ b \in busy
    BY <1>5 DEF Busy
  <2> HIDE DEF busy
  <2>2. Cardinality(busy) \in Nat /\ ~(Cardinality(busy) > 1) /\ busy # {}
    BY <1>2, <1>4, <1>5, <2>1, FS_CardinalityType
  <2>3. Cardinality(busy) # 0
    BY <1>4, <2>2, FS_EmptySet
  <2>4. Cardinality(busy) = 1
    BY <2>2, <2>3
  <2>5. PICK x : busy = {x}
    BY <1>4, <2>4, FS_Singleton
  <2>6. QED
    BY <2>1, <2>5
<1>6. QED
  BY <1>1, <1>2, <1>3, <1>5

LEMMA FaultsType == TypeOK /\ Faults => faults' \in 0..MaxFaults
BY LifecycleAssumption DEF TypeOK, Faults

\* Starting a daemon, if there is a process for it.
LEMMA SpawnDoes ==
  ASSUME TypeOK, Spawn
  PROVE  /\ daemon' \in [Daemons -> Places] /\ overlapped' \in BOOLEAN
         /\ \/ UNCHANGED <<daemon, overlapped>>
            \/ \E d \in Daemons : daemon[d] = "off" /\ Moves(d, "looking")
<1>1. CASE UNCHANGED <<daemon, overlapped>>
  BY <1>1 DEF TypeOK
<1>2. CASE \E d \in Daemons : daemon[d] = "off" /\ ~Held(d) /\ Moves(d, "looking")
  BY <1>2, MovesDoes, PlacesListed
<1>3. QED
  BY <1>1, <1>2 DEF Spawn

\* A daemon's own step, for its type.
LEMMA TypeMoves ==
  ASSUME TypeOK, NEW d \in Daemons, NEW place \in Places, Moves(d, place),
         file' \in Daemons \cup {None}, faults' \in 0..MaxFaults,
         UNCHANGED Clientele
  PROVE  TypeOK'
BY MovesDoes DEF TypeOK, Clientele

\* A command's step, for its type.
LEMMA TypeClient ==
  ASSUME TypeOK, NEW c \in Clients, NEW r, client' = [client EXCEPT ![c] = r],
         r \in [at : {"idle", "trying", "waiting", "ok", "failed"},
                to : Daemons \cup {None}, tries : 0..Tries],
         r.at = "waiting" <=> r.to # None,
         daemon' \in [Daemons -> Places], overlapped' \in BOOLEAN,
         UNCHANGED <<file, TheBar, faults>>
  PROVE  TypeOK'
<1>1. client'[c] = r /\ \A e \in Clients : e # c => client'[e] = client[e]
  BY DEF TypeOK
<1>2. \A e \in Clients : client'[e].at = "waiting" <=> client'[e].to # None
  BY <1>1 DEF TypeOK
<1>3. client' \in [Clients -> [at : {"idle", "trying", "waiting", "ok", "failed"},
                               to : Daemons \cup {None}, tries : 0..Tries]]
  BY DEF TypeOK
<1>4. QED
  BY <1>2, <1>3 DEF TypeOK, TheBar

\* Where a command goes next.
LEMMA CommandMoves ==
  ASSUME TypeOK, NEW c \in Clients,
         daemon' \in [Daemons -> Places], overlapped' \in BOOLEAN,
         UNCHANGED <<file, TheBar, faults>>,
         \/ \E place \in {"trying", "ok", "failed"} : Goes(c, place)
         \/ Reachable /\ Waits(c)
         \/ client[c].at = "trying" /\ client[c].tries # Tries
               /\ client' = [client EXCEPT ![c].tries = @ + 1]
  PROVE  TypeOK'
<1>1. client[c] \in [at : {"idle", "trying", "waiting", "ok", "failed"},
                     to : Daemons \cup {None}, tries : 0..Tries]
  BY DEF TypeOK
<1>2. ASSUME NEW place \in {"trying", "ok", "failed"}, Goes(c, place) PROVE TypeOK'
  <2> DEFINE r == [client[c] EXCEPT !.at = place, !.to = None]
  <2>1. client' = [client EXCEPT ![c] = r] /\ r.at = place /\ r.to = None
    BY <1>1, <1>2 DEF Goes
  <2>2. r \in [at : {"idle", "trying", "waiting", "ok", "failed"},
               to : Daemons \cup {None}, tries : 0..Tries]
    BY <1>1
  <2> HIDE DEF r
  <2>3. QED
    BY <2>1, <2>2, TypeClient
<1>3. CASE Reachable /\ Waits(c)
  <2> DEFINE r == [client[c] EXCEPT !.at = "waiting", !.to = file]
  <2>1. client' = [client EXCEPT ![c] = r] /\ r.at = "waiting" /\ r.to = file
    BY <1>1, <1>3 DEF Waits
  <2>2. file \in Daemons /\ file # None
    BY <1>3 DEF Reachable, TypeOK
  <2>3. r \in [at : {"idle", "trying", "waiting", "ok", "failed"},
               to : Daemons \cup {None}, tries : 0..Tries]
    BY <1>1, <2>2
  <2> HIDE DEF r
  <2>4. QED
    BY <2>1, <2>2, <2>3, TypeClient
<1>4. CASE client[c].at = "trying" /\ client[c].tries # Tries
             /\ client' = [client EXCEPT ![c].tries = @ + 1]
  <2> DEFINE r == [client[c] EXCEPT !.tries = @ + 1]
  <2>1. client' = [client EXCEPT ![c] = r] /\ r.at = "trying" /\ r.to = client[c].to
    BY <1>1, <1>4
  <2>2. r \in [at : {"idle", "trying", "waiting", "ok", "failed"},
               to : Daemons \cup {None}, tries : 0..Tries]
    BY <1>1, <1>4, LifecycleAssumption
  <2>3. r.to = None
    BY <1>4, <2>1 DEF TypeOK
  <2> HIDE DEF r
  <2>4. QED
    BY <2>1, <2>2, <2>3, TypeClient
<1>5. QED
  BY <1>2, <1>3, <1>4

\* Where the bar goes next.
LEMMA BarMoves ==
  ASSUME TypeOK, NEW place \in {"resting", "waiting"}, BarGoesTo(place)
  PROVE  /\ bar' \in [at : {"connecting", "reading", "resting", "waiting", "ended"},
                      to : Daemons \cup {None}]
         /\ bar'.at # "reading" /\ bar'.to = None /\ shown' = None
BY DEF BarGoesTo

LEMMA TypeStep == TypeOK /\ [Next]_vars => TypeOK'
<1> SUFFICES ASSUME TypeOK, [Next]_vars PROVE TypeOK'
  OBVIOUS
<1>1. file \in Daemons \cup {None} /\ faults \in 0..MaxFaults
  BY DEF TypeOK
<1>2. daemon' = daemon /\ overlapped' = overlapped =>
         daemon' \in [Daemons -> Places] /\ overlapped' \in BOOLEAN
  BY DEF TypeOK
<1>3. ASSUME NEW d \in Daemons, Look(d) PROVE TypeOK'
  BY <1>1, <1>3, TypeMoves, PlacesListed DEF Look, Clientele
<1>4. ASSUME NEW d \in Daemons, Probe(d) PROVE TypeOK'
  BY <1>1, <1>4, TypeMoves, PlacesListed DEF Probe, Clientele
<1>5. ASSUME NEW d \in Daemons, Replace(d) PROVE TypeOK'
  BY <1>1, <1>5, TypeMoves, PlacesListed DEF Replace, Clientele
<1>6. ASSUME NEW d \in Daemons, Bind(d) PROVE TypeOK'
  BY <1>1, <1>6, TypeMoves, PlacesListed DEF Bind, Clientele
<1>7. ASSUME NEW d \in Daemons, StartEngine(d) PROVE TypeOK'
  BY <1>1, <1>7, TypeMoves, FaultsType, PlacesListed DEF StartEngine, Clientele
<1>8. ASSUME NEW d \in Daemons, Exit(d) PROVE TypeOK'
  BY <1>1, <1>8, TypeMoves, PlacesListed DEF Exit, Clientele
<1>9. ASSUME NEW d \in Daemons, Interrupt(d) PROVE TypeOK'
  BY <1>1, <1>9, TypeMoves, FaultsType, PlacesListed DEF Interrupt, Clientele
<1>10. ASSUME NEW d \in Daemons, Crash(d) PROVE TypeOK'
  BY <1>1, <1>10, TypeMoves, FaultsType, PlacesListed DEF Crash, Clientele
<1>11. ASSUME NEW d \in Daemons, StartByHand(d) PROVE TypeOK'
  BY <1>1, <1>11, TypeMoves, FaultsType, PlacesListed DEF StartByHand, Clientele
<1>12. CASE Reload
  BY <1>12 DEF Reload, TypeOK
<1>13. CASE BarConnect
  <2>1. CASE Reachable /\ bar' = [at |-> "reading", to |-> file]
             /\ UNCHANGED <<shown, daemon, overlapped>>
    <3>1. file \in Daemons /\ file # None
      BY <2>1 DEF Reachable, TypeOK
    <3>2. QED
      BY <1>13, <2>1, <3>1 DEF BarConnect, TypeOK
  <2>2. CASE ~Reachable /\ Spawn /\ BarGoesTo("waiting")
    BY <1>13, <2>2, SpawnDoes, BarMoves DEF BarConnect, TypeOK
  <2>3. QED
    BY <1>13, <2>1, <2>2 DEF BarConnect
<1>14. CASE BarReads
  <2>1. CASE BarGoesTo("resting")
    BY <1>14, <2>1, BarMoves DEF BarReads, TypeOK
  <2>2. CASE bar' = bar /\ shown' = bar.to
    BY <1>14, <2>2 DEF BarReads, TypeOK
  <2>3. QED
    BY <1>14, <2>1, <2>2 DEF BarReads
<1>15. CASE BarHangsUp
  BY <1>15, BarMoves DEF BarHangsUp, TypeOK
<1>16. CASE BarComesBack
  <2>1. bar.to = None /\ bar' = [bar EXCEPT !.at = "connecting"]
    BY <1>16 DEF BarComesBack, TypeOK
  <2>2. QED
    BY <1>16, <2>1 DEF BarComesBack, TypeOK
<1>17. ASSUME NEW c \in Clients, ClientConnects(c) PROVE TypeOK'
  <2>1. daemon' \in [Daemons -> Places] /\ overlapped' \in BOOLEAN
    BY <1>2, <1>17, SpawnDoes DEF ClientConnects
  <2>2. QED
    BY <1>17, <2>1, CommandMoves DEF ClientConnects, TheBar
<1>18. ASSUME NEW c \in Clients, ClientTries(c) PROVE TypeOK'
  BY <1>2, <1>18, CommandMoves DEF ClientTries, TheBar
<1>19. ASSUME NEW c \in Clients, Answer(c) PROVE TypeOK'
  <2>1. client[c].to \in Daemons
    BY <1>19 DEF Answer, TypeOK
  <2>2. daemon' \in [Daemons -> Places] /\ overlapped' \in BOOLEAN
    BY <1>2, <1>19, <2>1, MovesDoes, PlacesListed DEF Answer
  <2>3. QED
    BY <1>19, <2>2, CommandMoves DEF Answer, TheBar
<1>20. ASSUME NEW c \in Clients, Refuse(c) \/ Deadline(c) \/ EndOfStream(c) PROVE TypeOK'
  BY <1>2, <1>20, CommandMoves DEF Refuse, Deadline, EndOfStream, TheBar
<1>21. CASE UNCHANGED vars
  BY <1>21 DEF vars, TypeOK
<1>22. QED
  BY <1>3, <1>4, <1>5, <1>6, <1>7, <1>8, <1>9, <1>10, <1>11, <1>12, <1>13, <1>14, <1>15,
     <1>16, <1>17, <1>18, <1>19, <1>20, <1>21
     DEF Next, DaemonNext, BarNext, ClientNext, World

\* All that a step can do to the daemons and to the path.
Moved ==
    \E d \in Daemons :
       \/ daemon[d] = "off" /\ Moves(d, "looking") /\ file' = file
       \/ daemon[d] = "looking" /\ file = None /\ Moves(d, "binding") /\ file' = file
       \/ daemon[d] = "looking" /\ Moves(d, "probing") /\ file' = file
       \/ daemon[d] = "probing" /\ ~Reachable /\ Moves(d, "replacing") /\ file' = file
       \/ daemon[d] = "replacing" /\ Moves(d, "binding") /\ file' = None
       \/ daemon[d] = "binding" /\ Moves(d, "starting") /\ file' = d
       \/ daemon[d] = "starting" /\ Moves(d, "serving") /\ file' = file
       \/ daemon[d] = "serving" /\ Moves(d, "closing") /\ file' = file
       \/ daemon[d] = "closing" /\ Moves(d, "off") /\ file' = None
       \/ Moves(d, "off") /\ file' = file

LEMMA StepMoves ==
  ASSUME TypeOK, [Next]_vars PROVE UNCHANGED <<daemon, file, overlapped>> \/ Moved
<1>1. ASSUME NEW d \in Daemons,
             Look(d) \/ Probe(d) \/ Replace(d) \/ Bind(d) \/ StartEngine(d) \/ Exit(d)
      PROVE  Moved
  <2>1. CASE Look(d)
    BY <2>1 DEF Look, Moved
  <2>2. CASE Probe(d)
    BY <2>2 DEF Probe, Moved
  <2>3. CASE Replace(d)
    BY <2>3 DEF Replace, Moved
  <2>4. CASE Bind(d)
    BY <2>4 DEF Bind, Moved
  <2>5. CASE StartEngine(d)
    BY <2>5 DEF StartEngine, Moved
  <2>6. CASE Exit(d)
    BY <2>6 DEF Exit, Moved
  <2>7. QED
    BY <1>1, <2>1, <2>2, <2>3, <2>4, <2>5, <2>6
<1>2. ASSUME NEW d \in Daemons, Interrupt(d) \/ Crash(d) \/ StartByHand(d) PROVE Moved
  BY <1>2 DEF Interrupt, Crash, StartByHand, Moved
<1>3. CASE Spawn /\ file' = file
  BY <1>3, SpawnDoes DEF Moved
<1>4. CASE BarNext \/ Reload
  BY <1>3, <1>4 DEF BarNext, BarConnect, BarReads, BarHangsUp, BarComesBack, Reload
<1>5. ASSUME NEW c \in Clients, Answer(c)
      PROVE  UNCHANGED <<daemon, file, overlapped>> \/ Moved
  <2>1. client[c].to \in Daemons
    BY <1>5 DEF Answer, TypeOK
  <2>2. QED
    BY <1>5, <2>1 DEF Answer, Moved
<1>6. ASSUME NEW c \in Clients,
             ClientConnects(c) \/ ClientTries(c) \/ Refuse(c) \/ EndOfStream(c) \/ Deadline(c)
      PROVE  UNCHANGED <<daemon, file, overlapped>> \/ Moved
  BY <1>3, <1>6 DEF ClientConnects, ClientTries, Refuse, EndOfStream, Deadline
<1>7. CASE UNCHANGED vars
  BY <1>7 DEF vars
<1>8. QED
  BY <1>1, <1>2, <1>4, <1>5, <1>6, <1>7 DEF Next, DaemonNext, ClientNext, World

LEMMA PathStep == TypeOK /\ PathKept /\ [Next]_vars => PathKept'
<1> SUFFICES ASSUME TypeOK, PathKept, [Next]_vars, ~overlapped'
             PROVE  /\ \A d, e \in Daemons : Busy(daemon'[d]) /\ Busy(daemon'[e]) => d = e
                    /\ \A d \in Daemons : Listens(d)' => file' = d
                    /\ \A d \in Daemons : daemon'[d] \in {"replacing", "binding"} =>
                          \A e \in Daemons : ~Listens(e)'
  BY DEF PathKept
<1> DEFINE Kept == /\ \A d, e \in Daemons : Busy(daemon'[d]) /\ Busy(daemon'[e]) => d = e
                   /\ \A d \in Daemons : Listens(d)' => file' = d
                   /\ \A d \in Daemons : daemon'[d] \in {"replacing", "binding"} =>
                         \A e \in Daemons : ~Listens(e)'
<1>1. CASE UNCHANGED <<daemon, file, overlapped>>
  BY <1>1 DEF PathKept, Listens
<1>2. CASE Moved
  <2>1. ASSUME NEW d \in Daemons, NEW place \in Places, Moves(d, place)
        PROVE  /\ ~overlapped /\ daemon'[d] = place
               /\ \A e \in Daemons : e # d => daemon'[e] = daemon[e]
               /\ \A a, b \in Daemons : Busy(daemon'[a]) /\ Busy(daemon'[b]) => a = b
    BY <2>1, MovesDoes
  <2>2. \A place \in {"off", "starting", "serving", "closing", "looking", "probing",
                      "replacing", "binding"} : place \in Places
    BY PlacesListed
  <2> USE DEF Listens
  <2>3. PICK d \in Daemons :
       \/ daemon[d] = "off" /\ Moves(d, "looking") /\ file' = file
       \/ daemon[d] = "looking" /\ file = None /\ Moves(d, "binding") /\ file' = file
       \/ daemon[d] = "looking" /\ Moves(d, "probing") /\ file' = file
       \/ daemon[d] = "probing" /\ ~Reachable /\ Moves(d, "replacing") /\ file' = file
       \/ daemon[d] = "replacing" /\ Moves(d, "binding") /\ file' = None
       \/ daemon[d] = "binding" /\ Moves(d, "starting") /\ file' = d
       \/ daemon[d] = "starting" /\ Moves(d, "serving") /\ file' = file
       \/ daemon[d] = "serving" /\ Moves(d, "closing") /\ file' = file
       \/ daemon[d] = "closing" /\ Moves(d, "off") /\ file' = None
       \/ Moves(d, "off") /\ file' = file
    BY <1>2 DEF Moved
  <2>4. ASSUME NEW place \in {"off", "looking", "probing", "serving", "closing"},
               Moves(d, place), file' = file,
               place \in {"serving", "closing"} => daemon[d] \in {"starting", "serving"}
        PROVE  Kept
    <3>1. \A e \in Daemons : Listens(e)' => Listens(e)
      BY <2>1, <2>2, <2>4
    <3>2. \A e \in Daemons : daemon'[e] \in {"replacing", "binding"} =>
             daemon[e] \in {"replacing", "binding"}
      BY <2>1, <2>2, <2>4
    <3> HIDE DEF Listens
    <3>3. QED
      BY <2>1, <2>2, <2>4, <3>1, <3>2 DEF PathKept
  <2>5. CASE daemon[d] = "looking" /\ file = None /\ Moves(d, "binding") /\ file' = file
    <3>1. ~overlapped /\ \A e \in Daemons : Listens(e)' => Listens(e) /\ file = e
      BY <2>1, <2>2, <2>5 DEF PathKept
    <3>2. \A e \in Daemons : ~Listens(e)'
      BY <2>5, <3>1, LifecycleAssumption
    <3> HIDE DEF Listens
    <3>3. QED
      BY <2>1, <2>2, <2>5, <3>2
  <2>6. CASE daemon[d] = "probing" /\ ~Reachable /\ Moves(d, "replacing") /\ file' = file
    <3>1. ~overlapped /\ \A e \in Daemons : Listens(e)' => Listens(e) /\ file = e
      BY <2>1, <2>2, <2>6 DEF PathKept
    <3>2. \A e \in Daemons : ~Listens(e)'
      BY <2>6, <3>1, LifecycleAssumption DEF Reachable
    <3> HIDE DEF Listens
    <3>3. QED
      BY <2>1, <2>2, <2>6, <3>2
  <2>7. CASE daemon[d] = "replacing" /\ Moves(d, "binding") /\ file' = None
    <3>1. \A e \in Daemons : ~Listens(e)'
      BY <2>1, <2>2, <2>7 DEF PathKept
    <3> HIDE DEF Listens
    <3>2. QED
      BY <2>1, <2>2, <2>7, <3>1
  <2>8. CASE daemon[d] = "binding" /\ Moves(d, "starting") /\ file' = d
    <3>1. \A e \in Daemons : Listens(e)' => e = d
      BY <2>1, <2>2, <2>8 DEF PathKept
    <3>2. \A e \in Daemons : daemon'[e] \notin {"replacing", "binding"}
      <4>1. ~overlapped /\ Busy(daemon[d]) /\ \A e \in Daemons : Busy(daemon[e]) => e = d
        BY <2>1, <2>2, <2>8, PlacesListed DEF PathKept
      <4>2. QED
        BY <2>1, <2>2, <2>8, <4>1, PlacesListed
    <3> HIDE DEF Listens
    <3>3. QED
      BY <2>1, <2>2, <2>8, <3>1, <3>2
  <2>9. CASE daemon[d] = "closing" /\ Moves(d, "off") /\ file' = None
    <3>1. \A e \in Daemons : Listens(e) => e = d
      BY <2>1, <2>2, <2>9 DEF PathKept
    <3>2. \A e \in Daemons : ~Listens(e)'
      BY <2>1, <2>2, <2>9, <3>1
    <3> HIDE DEF Listens
    <3>3. QED
      BY <2>1, <2>2, <2>9, <3>2
  <2>10. QED
    BY <2>3, <2>4, <2>5, <2>6, <2>7, <2>8, <2>9
<1>3. QED
  BY <1>1, <1>2, StepMoves

LEMMA InitType == Init => TypeOK
<1> SUFFICES ASSUME Init PROVE TypeOK
  OBVIOUS
<1>1. file \in Daemons \cup {None} /\ daemon \in [Daemons -> Places]
  BY DEF Init, Places
<1>2. /\ bar \in [at : {"connecting", "reading", "resting", "waiting", "ended"},
                  to : Daemons \cup {None}]
      /\ bar.at = "reading" <=> bar.to # None
  BY DEF Init
<1>3. shown \in Daemons \cup {None} /\ faults \in 0..MaxFaults
  BY LifecycleAssumption DEF Init
<1>4. pipe \in BOOLEAN /\ overlapped \in BOOLEAN
  BY DEF Init
<1>5. \A c \in Clients : client[c] = [at |-> "idle", to |-> None, tries |-> 0]
  BY DEF Init
<1>6. client \in [Clients -> [at : {"idle", "trying", "waiting", "ok", "failed"},
                              to : Daemons \cup {None}, tries : 0..Tries]]
  BY LifecycleAssumption DEF Init
<1>7. QED
  BY <1>1, <1>2, <1>3, <1>4, <1>5, <1>6 DEF TypeOK

\* Every variable of the daemons, the bar and the commands keeps its type.
THEOREM TypeAlways == Spec => []TypeOK
<1>1. QED
  BY InitType, TypeStep, PTL DEF Spec

\* However many daemons are started, crash and stop: while no two of them are in
\* `bind` or at the end of `run` at once, one listens at most, and the socket's path
\* leads to it.
THEOREM OneAtATimeAlways == Spec => []OneAtATime
<1>1. Init => TypeOK /\ PathKept
  <2>1. Init => PathKept
    BY DEF Init, PathKept, Listens, Busy, Starting
  <2>2. QED
    BY <2>1, InitType
<1>2. TypeOK /\ PathKept /\ [Next]_vars => (TypeOK /\ PathKept)'
  BY TypeStep, PathStep
<1>3. PathKept => OneAtATime
  <2> SUFFICES ASSUME PathKept, ~overlapped
               PROVE  Cardinality(Serving) <= 1 /\ \A d \in Serving : file = d
    BY DEF OneAtATime
  <2>1. \A d \in Serving : file = d
    BY DEF PathKept, Serving
  <2>2. CASE Serving = {}
    BY <2>1, <2>2, FS_EmptySet
  <2>3. CASE Serving # {}
    <3>1. Serving = {file}
      BY <2>1, <2>3
    <3>2. Cardinality(Serving) = 1
      BY <3>1, FS_Singleton
    <3>3. QED
      BY <2>1, <3>2
  <2>4. QED
    BY <2>2, <2>3
<1>4. QED
  BY <1>1, <1>2, <1>3, PTL DEF Spec
=============================================================================
