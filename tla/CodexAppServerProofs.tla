------------------------ MODULE CodexAppServerProofs ------------------------
(***************************************************************************)
(* The connection and the runtime, for any number of runs, callers,        *)
(* channels, turns and generations.                                        *)
(*                                                                         *)
(* First the connection alone: at most one app-server, closed for good,    *)
(* and a recovery that always belongs to the generation that failed.  Then *)
(* the runtime: it uses the connection only as that promises to be used,   *)
(* its failures are blamed on the generation that had them, and no answer  *)
(* is lost between a turn's start and its end.                             *)
(***************************************************************************)
EXTENDS CodexAppServerRuntime, WellFoundedInduction, SequenceTheorems, TLAPS

----------------------------------------------------------------------------
(* The connection.                                                         *)


\* The process of a generation belongs to somebody who will close it: the connection, the
\* recovery, or close(); or it was cut off when a close of it was cancelled.
Owned(g) ==
    \/ conn.client = g
    \/ recovery.at = "closing_old" /\ recovery.old = g
    \/ recovery.at \in {"starting", "closing_new"} /\ recovery.generation = g
    \/ closer.at \in {"recovery", "client"} /\ closer.client = g
    \/ conn.closed /\ server[g] = "cut"

InProgress == recovery.at \in {"closing_old", "starting", "closing_new"}

\* Where the recovery task is, in terms of the connection's fields.
RecoveryInv ==
    /\ InProgress => recovery.generation # 0
    /\ InProgress /\ ~conn.closed => recovery.generation = conn.generation
    /\ InProgress => recovery.generation <= conn.generation
    /\ recovery.at = "closing_old" =>
          /\ recovery.old # 0 /\ recovery.old < recovery.generation
          /\ server[recovery.generation] = "absent"
          /\ server[recovery.old] # "running"
    /\ recovery.at = "closing_new" => server[recovery.generation] # "running"
    /\ recovery.at = "created" /\ ~conn.closed => conn.generation < MaxGeneration
    /\ Recovering /\ recovery.cancelled => conn.closed
    /\ Recovering /\ conn.closed /\ recovery.at # "closing_new" => recovery.cancelled

\* Where close() is.
CloserInv ==
    /\ conn.closed <=> closer.at # "none"
    /\ conn.closed => conn.client = 0 /\ conn.stale
    /\ closer.at \in {"client", "done"} => ~Recovering
    /\ closer.at = "client" => closer.client # 0 /\ server[closer.client] # "running"
    /\ conn.closed => closer.client <= conn.generation
    /\ ~conn.closed => conn.generation <= MaxGeneration

\* The published client is the one of the current generation.
ClientInv ==
    /\ conn.client # 0 => conn.client = conn.generation /\ ~InProgress
    /\ conn.client # 0 => server[conn.client] \in {"running", "exited"}

\* Nobody is about to be given a client while another one is being made.
StarterInv ==
    InProgress /\ ~conn.closed =>
       \A s \in Starters : starter[s].at = "resumed" => starter[s].client = 0

\* The inductive invariant.
ConnectionInv ==
    /\ ConnectionTypeOK
    /\ RecoveryInv
    /\ CloserInv
    /\ ClientInv
    /\ StarterInv
    /\ \A g \in Generations : g > conn.generation => server[g] = "absent"
    /\ \A g \in Alive : Owned(g)
    /\ OneServer
    /\ ClientIsOpen

USE MaxGenerationAssumption

\* The record of a recovery that ended is well typed.
LEMMA EndedRecovery ==
  ASSUME NEW r \in Recovery, NEW e \in 0..(MaxGeneration + 1)
  PROVE  [r EXCEPT !.at = "done", !.error = e] \in Recovery
  BY DEF Recovery

\* The invariant holds initially.
LEMMA InitInv == ConnectionInit => ConnectionInv
  BY DEF ConnectionInit, ConnectionInv, NotStarting, RecoveryInv, CloserInv, ClientInv,
         StarterInv, InProgress, Recovering, Owned, Alive, OneServer, ClientIsOpen,
         ConnectionTypeOK, Connection, Recovery, Server, Starter, Closer, Generations

\* A caller that waits for the recovery preserves the invariant.
LEMMA StartWaitsStep ==
  ASSUME ConnectionInv, NEW s \in Starters, StartWaits(s)
  PROVE  ConnectionInv'
  <1> USE DEF ConnectionInv, StartWaits, NotStarting, Recovering
  <1>1. ConnectionTypeOK'
    <2>1. (conn \in Connection)'
      BY DEF RecoveryInv, CloserInv, ClientInv, InProgress, Recovering, ConnectionTypeOK,
             Connection, Recovery, Server, Starter, Closer, Generations
    <2>2. (recovery \in Recovery)'
      BY DEF RecoveryInv, CloserInv, ClientInv, InProgress, Recovering, ConnectionTypeOK,
             Connection, Recovery, Server, Starter, Closer, Generations
    <2>3. (server \in [Generations -> Server])'
      BY DEF RecoveryInv, CloserInv, ClientInv, InProgress, Recovering, ConnectionTypeOK,
             Connection, Recovery, Server, Starter, Closer, Generations
    <2>4. (starter \in [Starters -> Starter])'
      BY SMTT(30) DEF RecoveryInv, CloserInv, ClientInv, InProgress, Recovering, ConnectionTypeOK,
             Connection, Recovery, Server, Starter, Closer, Generations
    <2>5. (closer \in Closer)'
      BY DEF RecoveryInv, CloserInv, ClientInv, InProgress, Recovering, ConnectionTypeOK,
             Connection, Recovery, Server, Starter, Closer, Generations
    <2> QED
      BY <2>1, <2>2, <2>3, <2>4, <2>5 DEF ConnectionTypeOK, Generations
  <1>2. RecoveryInv'
    BY DEF RecoveryInv, CloserInv, ClientInv, InProgress, Recovering, ConnectionTypeOK,
           Connection, Recovery, Server, Starter, Closer, Generations
  <1>3. CloserInv'
    BY DEF RecoveryInv, CloserInv, ClientInv, InProgress, Recovering, ConnectionTypeOK,
           Connection, Recovery, Server, Starter, Closer, Generations
  <1>4. ClientInv'
    BY DEF RecoveryInv, CloserInv, ClientInv, InProgress, Recovering, ConnectionTypeOK,
           Connection, Recovery, Server, Starter, Closer, Generations
  <1>5. StarterInv'
    BY DEF StarterInv, RecoveryInv, CloserInv, InProgress, Recovering, ConnectionTypeOK,
           Connection, Recovery, Server, Starter, Closer, Generations
  <1>6. (\A g \in Generations : g > conn.generation => server[g] = "absent")'
    BY DEF RecoveryInv, CloserInv, ClientInv, InProgress, Recovering, ConnectionTypeOK,
           Connection, Recovery, Server, Starter, Closer, Generations
  <1>7. (\A g \in Alive : Owned(g))'
    BY DEF Owned, Alive, OneServer, RecoveryInv, CloserInv, ClientInv, InProgress,
           Recovering, ConnectionTypeOK, Connection, Recovery, Server, Starter, Closer,
           Generations
  <1>8. OneServer'
    BY DEF Owned, Alive, OneServer, RecoveryInv, CloserInv, ClientInv, InProgress,
           Recovering, ConnectionTypeOK, Connection, Recovery, Server, Starter, Closer,
           Generations
  <1>9. ClientIsOpen'
    BY DEF ClientIsOpen, StarterInv, RecoveryInv, CloserInv, ClientInv, InProgress,
           Recovering, ConnectionTypeOK, Connection, Recovery, Server, Starter, Closer,
           Generations
  <1> QED
    BY <1>1, <1>2, <1>3, <1>4, <1>5, <1>6, <1>7, <1>8, <1>9

\* A caller resumed with a client preserves the invariant.
LEMMA StartResumesStep ==
  ASSUME ConnectionInv, NEW s \in Starters, StartResumes(s)
  PROVE  ConnectionInv'
  <1> USE DEF ConnectionInv, StartResumes, NotStarting
  <1>1. ConnectionTypeOK'
    BY DEF ConnectionTypeOK, Connection, Recovery, Server, Starter, Closer, Generations
  <1>2. RecoveryInv'
    BY DEF RecoveryInv, CloserInv, ClientInv, InProgress, Recovering, ConnectionTypeOK,
           Connection, Recovery, Server, Starter, Closer, Generations
  <1>3. CloserInv'
    BY DEF RecoveryInv, CloserInv, ClientInv, InProgress, Recovering, ConnectionTypeOK,
           Connection, Recovery, Server, Starter, Closer, Generations
  <1>4. ClientInv'
    BY DEF RecoveryInv, CloserInv, ClientInv, InProgress, Recovering, ConnectionTypeOK,
           Connection, Recovery, Server, Starter, Closer, Generations
  <1>5. StarterInv'
    BY DEF StarterInv, RecoveryInv, CloserInv, InProgress, Recovering, ConnectionTypeOK,
           Connection, Recovery, Server, Starter, Closer, Generations
  <1>6. (\A g \in Generations : g > conn.generation => server[g] = "absent")'
    BY DEF RecoveryInv, CloserInv, ClientInv, InProgress, Recovering, ConnectionTypeOK,
           Connection, Recovery, Server, Starter, Closer, Generations
  <1>7. (\A g \in Alive : Owned(g))'
    BY DEF Owned, Alive, OneServer, RecoveryInv, CloserInv, ClientInv, InProgress,
           Recovering, ConnectionTypeOK, Connection, Recovery, Server, Starter, Closer,
           Generations
  <1>8. OneServer'
    BY DEF Owned, Alive, OneServer, RecoveryInv, CloserInv, ClientInv, InProgress,
           Recovering, ConnectionTypeOK, Connection, Recovery, Server, Starter, Closer,
           Generations
  <1>9. ClientIsOpen'
    BY DEF ClientIsOpen, StarterInv, RecoveryInv, CloserInv, ClientInv, InProgress,
           Recovering, ConnectionTypeOK, Connection, Recovery, Server, Starter, Closer,
           Generations
  <1> QED
    BY <1>1, <1>2, <1>3, <1>4, <1>5, <1>6, <1>7, <1>8, <1>9

\* A caller resumed with an error, and what it reports, preserve the invariant.
LEMMA StartRaisesStep ==
  ASSUME ConnectionInv, NEW s \in Starters, StartRaises(s)
  PROVE  ConnectionInv'
  <1> USE DEF ConnectionInv, StartRaises, NotStarting, Invalidated
  <1>0. \/ conn' = conn
        \/ conn' = [conn EXCEPT !.stale = TRUE, !.failure = starter[s].error]
    OBVIOUS
  <1>1. ConnectionTypeOK'
    <2>1. (conn \in Connection)'
      <3>1. CASE conn' = conn
        BY <1>0, <3>1 DEF RecoveryInv, CloserInv, ClientInv, InProgress, Recovering, ConnectionTypeOK,
               Connection, Recovery, Server, Starter, Closer, Generations
      <3>2. CASE conn' = [conn EXCEPT !.stale = TRUE, !.failure = starter[s].error]
        BY <1>0, <3>2 DEF RecoveryInv, CloserInv, ClientInv, InProgress, Recovering, ConnectionTypeOK,
               Connection, Recovery, Server, Starter, Closer, Generations
      <3> QED
        BY <1>0, <3>1, <3>2
    <2>2. (recovery \in Recovery)'
      BY <1>0 DEF RecoveryInv, CloserInv, ClientInv, InProgress, Recovering, ConnectionTypeOK,
             Connection, Recovery, Server, Starter, Closer, Generations
    <2>3. (server \in [Generations -> Server])'
      BY <1>0 DEF RecoveryInv, CloserInv, ClientInv, InProgress, Recovering, ConnectionTypeOK,
             Connection, Recovery, Server, Starter, Closer, Generations
    <2>4. (starter \in [Starters -> Starter])'
      BY <1>0 DEF RecoveryInv, CloserInv, ClientInv, InProgress, Recovering, ConnectionTypeOK,
             Connection, Recovery, Server, Starter, Closer, Generations
    <2>5. (closer \in Closer)'
      BY <1>0 DEF RecoveryInv, CloserInv, ClientInv, InProgress, Recovering, ConnectionTypeOK,
             Connection, Recovery, Server, Starter, Closer, Generations
    <2> QED
      BY <2>1, <2>2, <2>3, <2>4, <2>5 DEF ConnectionTypeOK, Generations
  <1>2. RecoveryInv'
    BY DEF RecoveryInv, CloserInv, ClientInv, InProgress, Recovering, ConnectionTypeOK,
           Connection, Recovery, Server, Starter, Closer, Generations
  <1>3. CloserInv'
    BY ZenonT(60) DEF RecoveryInv, CloserInv, ClientInv, InProgress, Recovering, ConnectionTypeOK,
           Connection, Recovery, Server, Starter, Closer, Generations
  <1>4. ClientInv'
    BY ZenonT(60) DEF RecoveryInv, CloserInv, ClientInv, InProgress, Recovering, ConnectionTypeOK,
           Connection, Recovery, Server, Starter, Closer, Generations
  <1>5. StarterInv'
    BY DEF StarterInv, RecoveryInv, CloserInv, InProgress, Recovering, ConnectionTypeOK,
           Connection, Recovery, Server, Starter, Closer, Generations
  <1>6. (\A g \in Generations : g > conn.generation => server[g] = "absent")'
    BY ZenonT(60) DEF RecoveryInv, CloserInv, ClientInv, InProgress, Recovering, ConnectionTypeOK,
           Connection, Recovery, Server, Starter, Closer, Generations
  <1>7. (\A g \in Alive : Owned(g))'
    <2>1. CASE conn' = conn
      BY <1>0, <2>1 DEF Owned, Alive, OneServer, RecoveryInv, CloserInv, ClientInv, InProgress,
             Recovering, ConnectionTypeOK, Connection, Recovery, Server, Starter, Closer,
             Generations
    <2>2. CASE conn' = [conn EXCEPT !.stale = TRUE, !.failure = starter[s].error]
      BY <1>0, <2>2 DEF Owned, Alive, OneServer, RecoveryInv, CloserInv, ClientInv, InProgress,
             Recovering, ConnectionTypeOK, Connection, Recovery, Server, Starter, Closer,
             Generations
    <2> QED
      BY <1>0, <2>1, <2>2
  <1>8. OneServer'
    BY DEF Owned, Alive, OneServer, RecoveryInv, CloserInv, ClientInv, InProgress,
           Recovering, ConnectionTypeOK, Connection, Recovery, Server, Starter, Closer,
           Generations
  <1>9. ClientIsOpen'
    <2>1. CASE conn' = conn
      BY <1>0, <2>1 DEF ClientIsOpen, StarterInv, RecoveryInv, CloserInv, ClientInv, InProgress,
             Recovering, ConnectionTypeOK, Connection, Recovery, Server, Starter, Closer,
             Generations
    <2>2. CASE conn' = [conn EXCEPT !.stale = TRUE, !.failure = starter[s].error]
      BY <1>0, <2>2 DEF ClientIsOpen, StarterInv, RecoveryInv, CloserInv, ClientInv, InProgress,
             Recovering, ConnectionTypeOK, Connection, Recovery, Server, Starter, Closer,
             Generations
    <2> QED
      BY <1>0, <2>1, <2>2
  <1> QED
    BY <1>1, <1>2, <1>3, <1>4, <1>5, <1>6, <1>7, <1>8, <1>9

\* A caller that is cancelled preserves the invariant.
LEMMA StartAbandonedStep ==
  ASSUME ConnectionInv, NEW s \in Starters, StartAbandoned(s)
  PROVE  ConnectionInv'
  <1> USE DEF ConnectionInv, StartAbandoned, NotStarting
  <1>1. ConnectionTypeOK'
    BY DEF ConnectionTypeOK, Connection, Recovery, Server, Starter, Closer, Generations
  <1>2. RecoveryInv'
    BY DEF RecoveryInv, CloserInv, ClientInv, InProgress, Recovering, ConnectionTypeOK,
           Connection, Recovery, Server, Starter, Closer, Generations
  <1>3. CloserInv'
    BY DEF RecoveryInv, CloserInv, ClientInv, InProgress, Recovering, ConnectionTypeOK,
           Connection, Recovery, Server, Starter, Closer, Generations
  <1>4. ClientInv'
    BY DEF RecoveryInv, CloserInv, ClientInv, InProgress, Recovering, ConnectionTypeOK,
           Connection, Recovery, Server, Starter, Closer, Generations
  <1>5. StarterInv'
    BY DEF StarterInv, RecoveryInv, CloserInv, InProgress, Recovering, ConnectionTypeOK,
           Connection, Recovery, Server, Starter, Closer, Generations
  <1>6. (\A g \in Generations : g > conn.generation => server[g] = "absent")'
    BY DEF RecoveryInv, CloserInv, ClientInv, InProgress, Recovering, ConnectionTypeOK,
           Connection, Recovery, Server, Starter, Closer, Generations
  <1>7. (\A g \in Alive : Owned(g))'
    BY DEF Owned, Alive, OneServer, RecoveryInv, CloserInv, ClientInv, InProgress,
           Recovering, ConnectionTypeOK, Connection, Recovery, Server, Starter, Closer,
           Generations
  <1>8. OneServer'
    BY DEF Owned, Alive, OneServer, RecoveryInv, CloserInv, ClientInv, InProgress,
           Recovering, ConnectionTypeOK, Connection, Recovery, Server, Starter, Closer,
           Generations
  <1>9. ClientIsOpen'
    BY DEF ClientIsOpen, StarterInv, RecoveryInv, CloserInv, ClientInv, InProgress,
           Recovering, ConnectionTypeOK, Connection, Recovery, Server, Starter, Closer,
           Generations
  <1> QED
    BY <1>1, <1>2, <1>3, <1>4, <1>5, <1>6, <1>7, <1>8, <1>9

\* An invalidation of any generation preserves the invariant.
LEMMA InvalidateStep ==
  ASSUME ConnectionInv, NEW n \in 0..(MaxGeneration + 1), NEW e \in 0..(MaxGeneration + 1),
         Invalidate(n, e)
  PROVE  ConnectionInv'
  <1> USE DEF ConnectionInv, Invalidate, Invalidated
  <1>1. ConnectionTypeOK'
    BY DEF ConnectionTypeOK, Connection, Recovery, Server, Starter, Closer, Generations
  <1>2. RecoveryInv'
    BY DEF RecoveryInv, CloserInv, ClientInv, InProgress, Recovering, ConnectionTypeOK,
           Connection, Recovery, Server, Starter, Closer, Generations
  <1>3. CloserInv'
    BY DEF RecoveryInv, CloserInv, ClientInv, InProgress, Recovering, ConnectionTypeOK,
           Connection, Recovery, Server, Starter, Closer, Generations
  <1>4. ClientInv'
    BY DEF RecoveryInv, CloserInv, ClientInv, InProgress, Recovering, ConnectionTypeOK,
           Connection, Recovery, Server, Starter, Closer, Generations
  <1>5. StarterInv'
    BY DEF StarterInv, RecoveryInv, CloserInv, InProgress, Recovering, ConnectionTypeOK,
           Connection, Recovery, Server, Starter, Closer, Generations
  <1>6. (\A g \in Generations : g > conn.generation => server[g] = "absent")'
    BY DEF RecoveryInv, CloserInv, ClientInv, InProgress, Recovering, ConnectionTypeOK,
           Connection, Recovery, Server, Starter, Closer, Generations
  <1>7. (\A g \in Alive : Owned(g))'
    BY DEF Owned, Alive, OneServer, RecoveryInv, CloserInv, ClientInv, InProgress,
           Recovering, ConnectionTypeOK, Connection, Recovery, Server, Starter, Closer,
           Generations
  <1>8. OneServer'
    BY DEF Owned, Alive, OneServer, RecoveryInv, CloserInv, ClientInv, InProgress,
           Recovering, ConnectionTypeOK, Connection, Recovery, Server, Starter, Closer,
           Generations
  <1>9. ClientIsOpen'
    BY DEF ClientIsOpen, StarterInv, RecoveryInv, CloserInv, ClientInv, InProgress,
           Recovering, ConnectionTypeOK, Connection, Recovery, Server, Starter, Closer,
           Generations
  <1> QED
    BY <1>1, <1>2, <1>3, <1>4, <1>5, <1>6, <1>7, <1>8, <1>9

\* The opening of a generation preserves the invariant.
LEMMA RecoverBeginsStep ==
  ASSUME ConnectionInv, RecoverBegins
  PROVE  ConnectionInv'
  <1> USE DEF ConnectionInv, RecoverBegins, Closing
  <1>0. /\ ~conn.closed /\ conn.generation \in Nat /\ conn.generation + 1 \in Generations
        /\ conn.generation + 1 > conn.generation
        /\ server[conn.generation + 1] = "absent"
        /\ conn.client \in {0, conn.generation}
    BY DEF RecoveryInv, CloserInv, ClientInv, Recovering, ConnectionTypeOK, Connection, Recovery,
           Generations
  <1>1. ConnectionTypeOK'
    <2>1. (conn \in Connection)'
      BY <1>0 DEF RecoveryInv, CloserInv, ClientInv, InProgress, Recovering, ConnectionTypeOK,
             Connection, Recovery, Server, Starter, Closer, Generations
    <2>2. (recovery \in Recovery)'
      <3>1. CASE conn.client # 0
        BY <1>0, <3>1 DEF RecoveryInv, CloserInv, ClientInv, InProgress, Recovering, ConnectionTypeOK,
               Connection, Recovery, Server, Starter, Closer, Generations
      <3>2. CASE conn.client = 0
        BY <1>0, <3>2 DEF RecoveryInv, CloserInv, ClientInv, InProgress, Recovering, ConnectionTypeOK,
               Connection, Recovery, Server, Starter, Closer, Generations
      <3> QED
        BY <1>0, <3>1, <3>2 DEF ConnectionTypeOK, Connection
    <2>3. (server \in [Generations -> Server])'
      <3>1. CASE conn.client # 0
        BY <1>0, <3>1 DEF RecoveryInv, CloserInv, ClientInv, InProgress, Recovering, ConnectionTypeOK,
               Connection, Recovery, Server, Starter, Closer, Generations
      <3>2. CASE conn.client = 0
        BY <1>0, <3>2 DEF RecoveryInv, CloserInv, ClientInv, InProgress, Recovering, ConnectionTypeOK,
               Connection, Recovery, Server, Starter, Closer, Generations
      <3> QED
        BY <1>0, <3>1, <3>2 DEF ConnectionTypeOK, Connection
    <2>4. (starter \in [Starters -> Starter])'
      BY <1>0 DEF RecoveryInv, CloserInv, ClientInv, InProgress, Recovering, ConnectionTypeOK,
             Connection, Recovery, Server, Starter, Closer, Generations
    <2>5. (closer \in Closer)'
      BY <1>0 DEF RecoveryInv, CloserInv, ClientInv, InProgress, Recovering, ConnectionTypeOK,
             Connection, Recovery, Server, Starter, Closer, Generations
    <2> QED
      BY <2>1, <2>2, <2>3, <2>4, <2>5 DEF ConnectionTypeOK, Generations
  <1>2. RecoveryInv'
    <2>1. CASE conn.client # 0
      <3>1. /\ server'[conn.client] # "running"
            /\ server'[conn.generation + 1] = "absent"
            /\ conn.client < conn.generation + 1
        BY <1>0, <2>1 DEF ConnectionTypeOK, Connection, Generations, ClientInv
      <3>2. /\ recovery'.at = "closing_old" /\ recovery'.old = conn.client
            /\ recovery'.generation = conn.generation + 1 /\ recovery'.cancelled = FALSE
            /\ conn'.generation = conn.generation + 1 /\ ~conn'.closed
        BY <1>0, <2>1
      <3> QED
        BY <1>0, <2>1, <3>1, <3>2 DEF RecoveryInv, InProgress, Recovering
    <2>2. CASE conn.client = 0
      BY <1>0, <2>2 DEF RecoveryInv, CloserInv, ClientInv, InProgress, Recovering, ConnectionTypeOK,
             Connection, Recovery, Server, Starter, Closer, Generations
    <2> QED
      BY <1>0, <2>1, <2>2 DEF ConnectionTypeOK, Connection
  <1>3. CloserInv'
    BY DEF RecoveryInv, CloserInv, ClientInv, InProgress, Recovering, ConnectionTypeOK,
           Connection, Recovery, Server, Starter, Closer, Generations
  <1>4. ClientInv'
    BY DEF RecoveryInv, CloserInv, ClientInv, InProgress, Recovering, ConnectionTypeOK,
           Connection, Recovery, Server, Starter, Closer, Generations
  <1>5. StarterInv'
    BY DEF StarterInv, RecoveryInv, CloserInv, InProgress, Recovering, ConnectionTypeOK,
           Connection, Recovery, Server, Starter, Closer, Generations
  <1>6. (\A g \in Generations : g > conn.generation => server[g] = "absent")'
    BY DEF RecoveryInv, CloserInv, ClientInv, InProgress, Recovering, ConnectionTypeOK,
           Connection, Recovery, Server, Starter, Closer, Generations
  <1>7. (\A g \in Alive : Owned(g))'
    <2>1. CASE conn.client # 0
      BY <1>0, <2>1 DEF Owned, Alive, OneServer, RecoveryInv, CloserInv, ClientInv, InProgress,
             Recovering, ConnectionTypeOK, Connection, Recovery, Server, Starter, Closer,
             Generations
    <2>2. CASE conn.client = 0
      BY <1>0, <2>2 DEF Owned, Alive, OneServer, RecoveryInv, CloserInv, ClientInv, InProgress,
             Recovering, ConnectionTypeOK, Connection, Recovery, Server, Starter, Closer,
             Generations
    <2> QED
      BY <1>0, <2>1, <2>2 DEF ConnectionTypeOK, Connection
  <1>8. OneServer'
    <2>1. CASE conn.client # 0
      BY <1>0, <2>1 DEF Owned, Alive, OneServer, RecoveryInv, CloserInv, ClientInv, InProgress,
             Recovering, ConnectionTypeOK, Connection, Recovery, Server, Starter, Closer,
             Generations
    <2>2. CASE conn.client = 0
      BY <1>0, <2>2 DEF Owned, Alive, OneServer, RecoveryInv, CloserInv, ClientInv, InProgress,
             Recovering, ConnectionTypeOK, Connection, Recovery, Server, Starter, Closer,
             Generations
    <2> QED
      BY <1>0, <2>1, <2>2 DEF ConnectionTypeOK, Connection
  <1>9. ClientIsOpen'
    BY DEF ClientIsOpen, StarterInv, RecoveryInv, CloserInv, ClientInv, InProgress,
           Recovering, ConnectionTypeOK, Connection, Recovery, Server, Starter, Closer,
           Generations
  <1> QED
    BY <1>1, <1>2, <1>3, <1>4, <1>5, <1>6, <1>7, <1>8, <1>9

\* The replacement of the old process by a new one preserves the invariant.
LEMMA OldClientClosedStep ==
  ASSUME ConnectionInv, OldClientClosed
  PROVE  ConnectionInv'
  <1> USE DEF ConnectionInv, OldClientClosed
  <1>1. ConnectionTypeOK'
    BY DEF ConnectionTypeOK, Connection, Recovery, Server, Starter, Closer, Generations
  <1>2. RecoveryInv'
    BY DEF RecoveryInv, CloserInv, ClientInv, InProgress, Recovering, ConnectionTypeOK,
           Connection, Recovery, Server, Starter, Closer, Generations
  <1>3. CloserInv'
    BY DEF RecoveryInv, CloserInv, ClientInv, InProgress, Recovering, ConnectionTypeOK,
           Connection, Recovery, Server, Starter, Closer, Generations
  <1>4. ClientInv'
    BY DEF RecoveryInv, CloserInv, ClientInv, InProgress, Recovering, ConnectionTypeOK,
           Connection, Recovery, Server, Starter, Closer, Generations
  <1>5. StarterInv'
    BY DEF StarterInv, RecoveryInv, CloserInv, InProgress, Recovering, ConnectionTypeOK,
           Connection, Recovery, Server, Starter, Closer, Generations
  <1>6. (\A g \in Generations : g > conn.generation => server[g] = "absent")'
    BY DEF RecoveryInv, CloserInv, ClientInv, InProgress, Recovering, ConnectionTypeOK,
           Connection, Recovery, Server, Starter, Closer, Generations
  <1>7. (\A g \in Alive : Owned(g))'
    BY DEF Owned, Alive, OneServer, RecoveryInv, CloserInv, ClientInv, InProgress,
           Recovering, ConnectionTypeOK, Connection, Recovery, Server, Starter, Closer,
           Generations
  <1>8. OneServer'
    <2>1. /\ ~conn.closed /\ conn.client = 0 /\ closer.at = "none"
          /\ recovery.generation \in Generations
      BY DEF RecoveryInv, CloserInv, ClientInv, InProgress, Recovering, ConnectionTypeOK,
             Connection, Recovery, Generations
    <2>2. \A g \in Alive : g = recovery.old
      BY <2>1 DEF Owned, Alive, Generations
    <2>3. \A g \in Alive' : g = recovery.generation
      BY <2>1, <2>2 DEF Alive, ConnectionTypeOK, Generations
    <2> QED
      BY <2>3 DEF OneServer
  <1>9. ClientIsOpen'
    BY DEF ClientIsOpen, StarterInv, RecoveryInv, CloserInv, ClientInv, InProgress,
           Recovering, ConnectionTypeOK, Connection, Recovery, Server, Starter, Closer,
           Generations
  <1> QED
    BY <1>1, <1>2, <1>3, <1>4, <1>5, <1>6, <1>7, <1>8, <1>9

\* The publication of a client, or its refusal, preserves the invariant.
LEMMA ClientStartedStep ==
  ASSUME ConnectionInv, ClientStarted
  PROVE  ConnectionInv'
  <1> USE DEF ConnectionInv, ClientStarted, Current, RecoveryDone, Closing
  <1>1. ConnectionTypeOK'
    <2>1. (conn \in Connection)'
      BY ZenonT(60) DEF RecoveryInv, CloserInv, ClientInv, InProgress, Recovering, ConnectionTypeOK,
             Connection, Recovery, Server, Starter, Closer, Generations
    <2>2. (recovery \in Recovery)'
      <3>1. CASE Current(recovery.generation)
        <4>1. recovery' = [recovery EXCEPT !.at = "done", !.error = 0]
          BY <3>1
        <4>2. recovery \in Recovery /\ 0 \in 0..(MaxGeneration + 1)
          BY DEF ConnectionTypeOK
        <4> QED
          BY <4>1, <4>2, EndedRecovery
      <3>2. CASE ~Current(recovery.generation)
        BY ZenonT(60), <3>2
        DEF RecoveryInv, CloserInv, ClientInv, InProgress, Recovering, ConnectionTypeOK,
               Connection, Recovery, Server, Starter, Closer, Generations
      <3> QED
        BY <3>1, <3>2
    <2>3. (server \in [Generations -> Server])'
      <3>1. CASE Current(recovery.generation)
        BY <3>1 DEF RecoveryInv, CloserInv, ClientInv, InProgress, Recovering, ConnectionTypeOK,
               Connection, Recovery, Server, Starter, Closer, Generations
      <3>2. CASE ~Current(recovery.generation)
        BY <3>2 DEF RecoveryInv, CloserInv, ClientInv, InProgress, Recovering, ConnectionTypeOK,
               Connection, Recovery, Server, Starter, Closer, Generations
      <3> QED
        BY <3>1, <3>2
    <2>4. (starter \in [Starters -> Starter])'
      BY DEF RecoveryInv, CloserInv, ClientInv, InProgress, Recovering, ConnectionTypeOK,
             Connection, Recovery, Server, Starter, Closer, Generations
    <2>5. (closer \in Closer)'
      BY DEF RecoveryInv, CloserInv, ClientInv, InProgress, Recovering, ConnectionTypeOK,
             Connection, Recovery, Server, Starter, Closer, Generations
    <2> QED
      BY <2>1, <2>2, <2>3, <2>4, <2>5 DEF ConnectionTypeOK, Generations
  <1>2. RecoveryInv'
    <2>1. CASE Current(recovery.generation)
      <3>1. recovery'.at = "done"
        BY <2>1 DEF ConnectionTypeOK, Recovery
      <3> QED
        BY <3>1 DEF RecoveryInv, InProgress, Recovering
    <2>2. CASE ~Current(recovery.generation)
      <3>1. /\ recovery'.at = "closing_new" /\ recovery'.generation = recovery.generation
            /\ recovery'.cancelled = recovery.cancelled /\ conn' = conn
        BY <2>2 DEF ConnectionTypeOK, Recovery
      <3>2. server'[recovery.generation] # "running"
        BY <2>2 DEF RecoveryInv, InProgress, ConnectionTypeOK, Recovery, Generations
      <3> QED
        BY <3>1, <3>2 DEF RecoveryInv, InProgress, Recovering
    <2> QED
      BY <2>1, <2>2
  <1>3. CloserInv'
    BY DEF RecoveryInv, CloserInv, ClientInv, InProgress, Recovering, ConnectionTypeOK,
           Connection, Recovery, Server, Starter, Closer, Generations
  <1>4. ClientInv'
    BY ZenonT(60) DEF RecoveryInv, CloserInv, ClientInv, InProgress, Recovering, ConnectionTypeOK,
           Connection, Recovery, Server, Starter, Closer, Generations
  <1>5. StarterInv'
    <2>1. CASE Current(recovery.generation)
      BY <2>1 DEF StarterInv, RecoveryInv, CloserInv, InProgress, Recovering, ConnectionTypeOK,
             Connection, Recovery, Server, Starter, Closer, Generations
    <2>2. CASE ~Current(recovery.generation)
      BY <2>2 DEF StarterInv, RecoveryInv, CloserInv, InProgress, Recovering, ConnectionTypeOK,
             Connection, Recovery, Server, Starter, Closer, Generations
    <2> QED
      BY <2>1, <2>2
  <1>6. (\A g \in Generations : g > conn.generation => server[g] = "absent")'
    BY DEF RecoveryInv, CloserInv, ClientInv, InProgress, Recovering, ConnectionTypeOK,
           Connection, Recovery, Server, Starter, Closer, Generations
  <1>7. (\A g \in Alive : Owned(g))'
    <2>1. CASE Current(recovery.generation)
      BY <2>1 DEF Owned, Alive, OneServer, RecoveryInv, CloserInv, ClientInv, InProgress,
             Recovering, ConnectionTypeOK, Connection, Recovery, Server, Starter, Closer,
             Generations
    <2>2. CASE ~Current(recovery.generation)
      BY ZenonT(60), <2>2 DEF Owned, Alive, OneServer, RecoveryInv, CloserInv, ClientInv, InProgress,
             Recovering, ConnectionTypeOK, Connection, Recovery, Server, Starter, Closer,
             Generations
    <2> QED
      BY <2>1, <2>2
  <1>8. OneServer'
    BY DEF Owned, Alive, OneServer, RecoveryInv, CloserInv, ClientInv, InProgress,
           Recovering, ConnectionTypeOK, Connection, Recovery, Server, Starter, Closer,
           Generations
  <1>9. ClientIsOpen'
    BY SMTT(30) DEF ClientIsOpen, StarterInv, RecoveryInv, CloserInv, ClientInv, InProgress,
           Recovering, ConnectionTypeOK, Connection, Recovery, Server, Starter, Closer,
           Generations
  <1> QED
    BY <1>1, <1>2, <1>3, <1>4, <1>5, <1>6, <1>7, <1>8, <1>9

\* A client that cannot start preserves the invariant.
LEMMA ClientStartFailsStep ==
  ASSUME ConnectionInv, ClientStartFails
  PROVE  ConnectionInv'
  <1> USE DEF ConnectionInv, ClientStartFails, Closing
  <1>1. ConnectionTypeOK'
    <2>1. (conn \in Connection)'
      BY DEF RecoveryInv, CloserInv, ClientInv, InProgress, Recovering, ConnectionTypeOK,
             Connection, Recovery, Server, Starter, Closer, Generations
    <2>2. (recovery \in Recovery)'
      BY DEF RecoveryInv, CloserInv, ClientInv, InProgress, Recovering, ConnectionTypeOK,
             Connection, Recovery, Server, Starter, Closer, Generations
    <2>3. (server \in [Generations -> Server])'
      BY DEF RecoveryInv, CloserInv, ClientInv, InProgress, Recovering, ConnectionTypeOK,
             Connection, Recovery, Server, Starter, Closer, Generations
    <2>4. (starter \in [Starters -> Starter])'
      BY DEF RecoveryInv, CloserInv, ClientInv, InProgress, Recovering, ConnectionTypeOK,
             Connection, Recovery, Server, Starter, Closer, Generations
    <2>5. (closer \in Closer)'
      BY DEF RecoveryInv, CloserInv, ClientInv, InProgress, Recovering, ConnectionTypeOK,
             Connection, Recovery, Server, Starter, Closer, Generations
    <2> QED
      BY <2>1, <2>2, <2>3, <2>4, <2>5 DEF ConnectionTypeOK, Generations
  <1>2. RecoveryInv'
    BY DEF RecoveryInv, CloserInv, ClientInv, InProgress, Recovering, ConnectionTypeOK,
           Connection, Recovery, Server, Starter, Closer, Generations
  <1>3. CloserInv'
    BY DEF RecoveryInv, CloserInv, ClientInv, InProgress, Recovering, ConnectionTypeOK,
           Connection, Recovery, Server, Starter, Closer, Generations
  <1>4. ClientInv'
    BY DEF RecoveryInv, CloserInv, ClientInv, InProgress, Recovering, ConnectionTypeOK,
           Connection, Recovery, Server, Starter, Closer, Generations
  <1>5. StarterInv'
    BY DEF StarterInv, RecoveryInv, CloserInv, InProgress, Recovering, ConnectionTypeOK,
           Connection, Recovery, Server, Starter, Closer, Generations
  <1>6. (\A g \in Generations : g > conn.generation => server[g] = "absent")'
    BY DEF RecoveryInv, CloserInv, ClientInv, InProgress, Recovering, ConnectionTypeOK,
           Connection, Recovery, Server, Starter, Closer, Generations
  <1>7. (\A g \in Alive : Owned(g))'
    BY DEF Owned, Alive, OneServer, RecoveryInv, CloserInv, ClientInv, InProgress,
           Recovering, ConnectionTypeOK, Connection, Recovery, Server, Starter, Closer,
           Generations
  <1>8. OneServer'
    BY DEF Owned, Alive, OneServer, RecoveryInv, CloserInv, ClientInv, InProgress,
           Recovering, ConnectionTypeOK, Connection, Recovery, Server, Starter, Closer,
           Generations
  <1>9. ClientIsOpen'
    BY DEF ClientIsOpen, StarterInv, RecoveryInv, CloserInv, ClientInv, InProgress,
           Recovering, ConnectionTypeOK, Connection, Recovery, Server, Starter, Closer,
           Generations
  <1> QED
    BY <1>1, <1>2, <1>3, <1>4, <1>5, <1>6, <1>7, <1>8, <1>9

\* The end of a recovery that failed preserves the invariant.
LEMMA NewClientClosedStep ==
  ASSUME ConnectionInv, NewClientClosed
  PROVE  ConnectionInv'
  <1> USE DEF ConnectionInv, NewClientClosed, Invalidated, RecoveryDone
  <1>1. ConnectionTypeOK'
    <2>1. (conn \in Connection)'
      BY DEF RecoveryInv, CloserInv, ClientInv, InProgress, Recovering, ConnectionTypeOK,
             Connection, Recovery, Server, Starter, Closer, Generations
    <2>2. (recovery \in Recovery)'
      BY DEF RecoveryInv, CloserInv, ClientInv, InProgress, Recovering, ConnectionTypeOK,
             Connection, Recovery, Server, Starter, Closer, Generations
    <2>3. (server \in [Generations -> Server])'
      BY DEF RecoveryInv, CloserInv, ClientInv, InProgress, Recovering, ConnectionTypeOK,
             Connection, Recovery, Server, Starter, Closer, Generations
    <2>4. (starter \in [Starters -> Starter])'
      BY DEF RecoveryInv, CloserInv, ClientInv, InProgress, Recovering, ConnectionTypeOK,
             Connection, Recovery, Server, Starter, Closer, Generations
    <2>5. (closer \in Closer)'
      BY DEF RecoveryInv, CloserInv, ClientInv, InProgress, Recovering, ConnectionTypeOK,
             Connection, Recovery, Server, Starter, Closer, Generations
    <2> QED
      BY <2>1, <2>2, <2>3, <2>4, <2>5 DEF ConnectionTypeOK, Generations
  <1>2. RecoveryInv'
    BY DEF RecoveryInv, CloserInv, ClientInv, InProgress, Recovering, ConnectionTypeOK,
           Connection, Recovery, Server, Starter, Closer, Generations
  <1>3. CloserInv'
    BY DEF RecoveryInv, CloserInv, ClientInv, InProgress, Recovering, ConnectionTypeOK,
           Connection, Recovery, Server, Starter, Closer, Generations
  <1>4. ClientInv'
    BY DEF RecoveryInv, CloserInv, ClientInv, InProgress, Recovering, ConnectionTypeOK,
           Connection, Recovery, Server, Starter, Closer, Generations
  <1>5. StarterInv'
    BY DEF StarterInv, RecoveryInv, CloserInv, InProgress, Recovering, ConnectionTypeOK,
           Connection, Recovery, Server, Starter, Closer, Generations
  <1>6. (\A g \in Generations : g > conn.generation => server[g] = "absent")'
    BY DEF RecoveryInv, CloserInv, ClientInv, InProgress, Recovering, ConnectionTypeOK,
           Connection, Recovery, Server, Starter, Closer, Generations
  <1>7. (\A g \in Alive : Owned(g))'
    BY DEF Owned, Alive, OneServer, RecoveryInv, CloserInv, ClientInv, InProgress,
           Recovering, ConnectionTypeOK, Connection, Recovery, Server, Starter, Closer,
           Generations
  <1>8. OneServer'
    BY DEF Owned, Alive, OneServer, RecoveryInv, CloserInv, ClientInv, InProgress,
           Recovering, ConnectionTypeOK, Connection, Recovery, Server, Starter, Closer,
           Generations
  <1>9. ClientIsOpen'
    BY DEF ClientIsOpen, StarterInv, RecoveryInv, CloserInv, ClientInv, InProgress,
           Recovering, ConnectionTypeOK, Connection, Recovery, Server, Starter, Closer,
           Generations
  <1> QED
    BY <1>1, <1>2, <1>3, <1>4, <1>5, <1>6, <1>7, <1>8, <1>9

\* The cancellation of the recovery preserves the invariant.
LEMMA RecoverCancelledStep ==
  ASSUME ConnectionInv, RecoverCancelled
  PROVE  ConnectionInv'
  <1> USE DEF ConnectionInv, RecoverCancelled, RecoveryDone, Closing, Cut, Recovering
  <1>1. ConnectionTypeOK'
    <2>1. (conn \in Connection)'
      BY DEF RecoveryInv, CloserInv, ClientInv, InProgress, Recovering, ConnectionTypeOK,
             Connection, Recovery, Server, Starter, Closer, Generations
    <2>2. (recovery \in Recovery)'
      BY ZenonT(60) DEF RecoveryInv, CloserInv, ClientInv, InProgress, Recovering, ConnectionTypeOK,
             Connection, Recovery, Server, Starter, Closer, Generations
    <2>3. (server \in [Generations -> Server])'
      BY DEF RecoveryInv, CloserInv, ClientInv, InProgress, Recovering, ConnectionTypeOK,
             Connection, Recovery, Server, Starter, Closer, Generations
    <2>4. (starter \in [Starters -> Starter])'
      BY DEF RecoveryInv, CloserInv, ClientInv, InProgress, Recovering, ConnectionTypeOK,
             Connection, Recovery, Server, Starter, Closer, Generations
    <2>5. (closer \in Closer)'
      BY DEF RecoveryInv, CloserInv, ClientInv, InProgress, Recovering, ConnectionTypeOK,
             Connection, Recovery, Server, Starter, Closer, Generations
    <2> QED
      BY <2>1, <2>2, <2>3, <2>4, <2>5 DEF ConnectionTypeOK, Generations
  <1>2. RecoveryInv'
    <2>1. CASE recovery.at # "starting"
      <3>1. recovery'.at = "done"
        BY <2>1 DEF ConnectionTypeOK, Recovery
      <3> QED
        BY <3>1 DEF RecoveryInv, InProgress, Recovering
    <2>2. CASE recovery.at = "starting"
      <3>1. /\ recovery'.at = "closing_new" /\ recovery'.generation = recovery.generation
            /\ recovery'.cancelled = FALSE /\ conn' = conn
        BY <2>2 DEF ConnectionTypeOK, Recovery
      <3>2. server'[recovery.generation] # "running"
        BY <2>2 DEF RecoveryInv, InProgress, ConnectionTypeOK, Recovery, Generations
      <3> QED
        BY <2>2, <3>1, <3>2 DEF RecoveryInv, InProgress, Recovering
    <2> QED
      BY <2>1, <2>2
  <1>3. CloserInv'
    BY DEF RecoveryInv, CloserInv, ClientInv, InProgress, Recovering, ConnectionTypeOK,
           Connection, Recovery, Server, Starter, Closer, Generations
  <1>4. ClientInv'
    BY DEF RecoveryInv, CloserInv, ClientInv, InProgress, Recovering, ConnectionTypeOK,
           Connection, Recovery, Server, Starter, Closer, Generations
  <1>5. StarterInv'
    BY DEF StarterInv, RecoveryInv, CloserInv, InProgress, Recovering, ConnectionTypeOK,
           Connection, Recovery, Server, Starter, Closer, Generations
  <1>6. (\A g \in Generations : g > conn.generation => server[g] = "absent")'
    BY DEF RecoveryInv, CloserInv, ClientInv, InProgress, Recovering, ConnectionTypeOK,
           Connection, Recovery, Server, Starter, Closer, Generations
  <1>7. (\A g \in Alive : Owned(g))'
    <2>1. CASE recovery.at = "created"
      BY <2>1 DEF Owned, Alive, OneServer, RecoveryInv, CloserInv, ClientInv, InProgress,
             Recovering, ConnectionTypeOK, Connection, Recovery, Server, Starter, Closer,
             Generations
    <2>2. CASE recovery.at = "closing_old"
      BY <2>2 DEF Owned, Alive, OneServer, RecoveryInv, CloserInv, ClientInv, InProgress,
             Recovering, ConnectionTypeOK, Connection, Recovery, Server, Starter, Closer,
             Generations
    <2>3. CASE recovery.at = "starting"
      <3>1. /\ recovery'.at = "closing_new" /\ recovery'.generation = recovery.generation
            /\ conn' = conn /\ closer' = closer
        BY <2>3 DEF ConnectionTypeOK, Recovery
      <3>2. \A g \in Generations : server'[g] = server[g] \/ g = recovery.generation
        BY <2>3 DEF ConnectionTypeOK
      <3> QED
        BY <2>3, <3>1, <3>2 DEF Owned, Alive
    <2>4. CASE recovery.at = "closing_new"
      BY <2>4 DEF Owned, Alive, OneServer, RecoveryInv, CloserInv, ClientInv, InProgress,
             Recovering, ConnectionTypeOK, Connection, Recovery, Server, Starter, Closer,
             Generations
    <2> QED
      BY <2>1, <2>2, <2>3, <2>4 DEF Recovering
  <1>8. OneServer'
    <2>1. CASE recovery.at = "created"
      BY <2>1 DEF Owned, Alive, OneServer, RecoveryInv, CloserInv, ClientInv, InProgress,
             Recovering, ConnectionTypeOK, Connection, Recovery, Server, Starter, Closer,
             Generations
    <2>2. CASE recovery.at = "closing_old"
      BY <2>2 DEF Owned, Alive, OneServer, RecoveryInv, CloserInv, ClientInv, InProgress,
             Recovering, ConnectionTypeOK, Connection, Recovery, Server, Starter, Closer,
             Generations
    <2>3. CASE recovery.at = "starting"
      BY <2>3 DEF Owned, Alive, OneServer, RecoveryInv, CloserInv, ClientInv, InProgress,
             Recovering, ConnectionTypeOK, Connection, Recovery, Server, Starter, Closer,
             Generations
    <2>4. CASE recovery.at = "closing_new"
      BY <2>4 DEF Owned, Alive, OneServer, RecoveryInv, CloserInv, ClientInv, InProgress,
             Recovering, ConnectionTypeOK, Connection, Recovery, Server, Starter, Closer,
             Generations
    <2> QED
      BY <2>1, <2>2, <2>3, <2>4 DEF Recovering
  <1>9. ClientIsOpen'
    BY DEF ClientIsOpen, StarterInv, RecoveryInv, CloserInv, ClientInv, InProgress,
           Recovering, ConnectionTypeOK, Connection, Recovery, Server, Starter, Closer,
           Generations
  <1> QED
    BY <1>1, <1>2, <1>3, <1>4, <1>5, <1>6, <1>7, <1>8, <1>9

\* The start of close() preserves the invariant.
LEMMA CloseStep ==
  ASSUME ConnectionInv, Close
  PROVE  ConnectionInv'
  <1> USE DEF ConnectionInv, Close, Closing, Recovering
  <1>0. conn.generation \in Nat /\ conn.generation + 1 <= MaxGeneration + 1
    BY DEF CloserInv, ConnectionTypeOK, Connection
  <1>1. ConnectionTypeOK'
    <2>1. (conn \in Connection)'
      BY <1>0 DEF RecoveryInv, CloserInv, ClientInv, InProgress, Recovering, ConnectionTypeOK,
             Connection, Recovery, Server, Starter, Closer, Generations
    <2>2. (recovery \in Recovery)'
      BY <1>0 DEF RecoveryInv, CloserInv, ClientInv, InProgress, Recovering, ConnectionTypeOK,
             Connection, Recovery, Server, Starter, Closer, Generations
    <2>3. (server \in [Generations -> Server])'
      BY <1>0 DEF RecoveryInv, CloserInv, ClientInv, InProgress, Recovering, ConnectionTypeOK,
             Connection, Recovery, Server, Starter, Closer, Generations
    <2>4. (starter \in [Starters -> Starter])'
      BY <1>0 DEF RecoveryInv, CloserInv, ClientInv, InProgress, Recovering, ConnectionTypeOK,
             Connection, Recovery, Server, Starter, Closer, Generations
    <2>5. (closer \in Closer)'
      BY <1>0 DEF RecoveryInv, CloserInv, ClientInv, InProgress, Recovering, ConnectionTypeOK,
             Connection, Recovery, Server, Starter, Closer, Generations
    <2> QED
      BY <2>1, <2>2, <2>3, <2>4, <2>5 DEF ConnectionTypeOK, Generations
  <1>2. RecoveryInv'
    <2>1. CASE Recovering
      BY <1>0, <2>1 DEF RecoveryInv, CloserInv, ClientInv, InProgress, Recovering, ConnectionTypeOK,
             Connection, Recovery, Server, Starter, Closer, Generations
    <2>2. CASE ~Recovering
      BY <1>0, <2>2 DEF RecoveryInv, CloserInv, ClientInv, InProgress, Recovering, ConnectionTypeOK,
             Connection, Recovery, Server, Starter, Closer, Generations
    <2> QED
      BY <1>0, <2>1, <2>2
  <1>3. CloserInv'
    BY DEF RecoveryInv, CloserInv, ClientInv, InProgress, Recovering, ConnectionTypeOK,
           Connection, Recovery, Server, Starter, Closer, Generations
  <1>4. ClientInv'
    BY DEF RecoveryInv, CloserInv, ClientInv, InProgress, Recovering, ConnectionTypeOK,
           Connection, Recovery, Server, Starter, Closer, Generations
  <1>5. StarterInv'
    BY DEF StarterInv, RecoveryInv, CloserInv, InProgress, Recovering, ConnectionTypeOK,
           Connection, Recovery, Server, Starter, Closer, Generations
  <1>6. (\A g \in Generations : g > conn.generation => server[g] = "absent")'
    BY DEF RecoveryInv, CloserInv, ClientInv, InProgress, Recovering, ConnectionTypeOK,
           Connection, Recovery, Server, Starter, Closer, Generations
  <1>7. (\A g \in Alive : Owned(g))'
    BY DEF Owned, Alive, OneServer, RecoveryInv, CloserInv, ClientInv, InProgress,
           Recovering, ConnectionTypeOK, Connection, Recovery, Server, Starter, Closer,
           Generations
  <1>8. OneServer'
    BY DEF Owned, Alive, OneServer, RecoveryInv, CloserInv, ClientInv, InProgress,
           Recovering, ConnectionTypeOK, Connection, Recovery, Server, Starter, Closer,
           Generations
  <1>9. ClientIsOpen'
    BY DEF ClientIsOpen, StarterInv, RecoveryInv, CloserInv, ClientInv, InProgress,
           Recovering, ConnectionTypeOK, Connection, Recovery, Server, Starter, Closer,
           Generations
  <1> QED
    BY <1>1, <1>2, <1>3, <1>4, <1>5, <1>6, <1>7, <1>8, <1>9

\* The end of close()'s wait for the recovery preserves the invariant.
LEMMA CloseGoesOnStep ==
  ASSUME ConnectionInv, CloseGoesOn
  PROVE  ConnectionInv'
  <1> USE DEF ConnectionInv, CloseGoesOn, Closing, Recovering
  <1>1. ConnectionTypeOK'
    BY DEF ConnectionTypeOK, Connection, Recovery, Server, Starter, Closer, Generations
  <1>2. RecoveryInv'
    BY DEF RecoveryInv, CloserInv, ClientInv, InProgress, Recovering, ConnectionTypeOK,
           Connection, Recovery, Server, Starter, Closer, Generations
  <1>3. CloserInv'
    BY DEF RecoveryInv, CloserInv, ClientInv, InProgress, Recovering, ConnectionTypeOK,
           Connection, Recovery, Server, Starter, Closer, Generations
  <1>4. ClientInv'
    BY DEF RecoveryInv, CloserInv, ClientInv, InProgress, Recovering, ConnectionTypeOK,
           Connection, Recovery, Server, Starter, Closer, Generations
  <1>5. StarterInv'
    BY DEF StarterInv, RecoveryInv, CloserInv, InProgress, Recovering, ConnectionTypeOK,
           Connection, Recovery, Server, Starter, Closer, Generations
  <1>6. (\A g \in Generations : g > conn.generation => server[g] = "absent")'
    BY DEF RecoveryInv, CloserInv, ClientInv, InProgress, Recovering, ConnectionTypeOK,
           Connection, Recovery, Server, Starter, Closer, Generations
  <1>7. (\A g \in Alive : Owned(g))'
    BY DEF Owned, Alive, OneServer, RecoveryInv, CloserInv, ClientInv, InProgress,
           Recovering, ConnectionTypeOK, Connection, Recovery, Server, Starter, Closer,
           Generations
  <1>8. OneServer'
    BY DEF Owned, Alive, OneServer, RecoveryInv, CloserInv, ClientInv, InProgress,
           Recovering, ConnectionTypeOK, Connection, Recovery, Server, Starter, Closer,
           Generations
  <1>9. ClientIsOpen'
    BY DEF ClientIsOpen, StarterInv, RecoveryInv, CloserInv, ClientInv, InProgress,
           Recovering, ConnectionTypeOK, Connection, Recovery, Server, Starter, Closer,
           Generations
  <1> QED
    BY <1>1, <1>2, <1>3, <1>4, <1>5, <1>6, <1>7, <1>8, <1>9

\* The end of close() preserves the invariant.
LEMMA CloseEndsStep ==
  ASSUME ConnectionInv, CloseEnds
  PROVE  ConnectionInv'
  <1> USE DEF ConnectionInv, CloseEnds
  <1>1. ConnectionTypeOK'
    BY DEF ConnectionTypeOK, Connection, Recovery, Server, Starter, Closer, Generations
  <1>2. RecoveryInv'
    BY DEF RecoveryInv, CloserInv, ClientInv, InProgress, Recovering, ConnectionTypeOK,
           Connection, Recovery, Server, Starter, Closer, Generations
  <1>3. CloserInv'
    BY DEF RecoveryInv, CloserInv, ClientInv, InProgress, Recovering, ConnectionTypeOK,
           Connection, Recovery, Server, Starter, Closer, Generations
  <1>4. ClientInv'
    BY DEF RecoveryInv, CloserInv, ClientInv, InProgress, Recovering, ConnectionTypeOK,
           Connection, Recovery, Server, Starter, Closer, Generations
  <1>5. StarterInv'
    BY DEF StarterInv, RecoveryInv, CloserInv, InProgress, Recovering, ConnectionTypeOK,
           Connection, Recovery, Server, Starter, Closer, Generations
  <1>6. (\A g \in Generations : g > conn.generation => server[g] = "absent")'
    BY DEF RecoveryInv, CloserInv, ClientInv, InProgress, Recovering, ConnectionTypeOK,
           Connection, Recovery, Server, Starter, Closer, Generations
  <1>7. (\A g \in Alive : Owned(g))'
    BY DEF Owned, Alive, OneServer, RecoveryInv, CloserInv, ClientInv, InProgress,
           Recovering, ConnectionTypeOK, Connection, Recovery, Server, Starter, Closer,
           Generations
  <1>8. OneServer'
    BY DEF Owned, Alive, OneServer, RecoveryInv, CloserInv, ClientInv, InProgress,
           Recovering, ConnectionTypeOK, Connection, Recovery, Server, Starter, Closer,
           Generations
  <1>9. ClientIsOpen'
    BY DEF ClientIsOpen, StarterInv, RecoveryInv, CloserInv, ClientInv, InProgress,
           Recovering, ConnectionTypeOK, Connection, Recovery, Server, Starter, Closer,
           Generations
  <1> QED
    BY <1>1, <1>2, <1>3, <1>4, <1>5, <1>6, <1>7, <1>8, <1>9

\* A process that exits preserves the invariant.
LEMMA ServerExitsStep ==
  ASSUME ConnectionInv, NEW h \in Generations, ServerExits(h)
  PROVE  ConnectionInv'
  <1> USE DEF ConnectionInv, ServerExits
  <1>1. ConnectionTypeOK'
    BY DEF ConnectionTypeOK, Connection, Recovery, Server, Starter, Closer, Generations
  <1>2. RecoveryInv'
    BY DEF RecoveryInv, CloserInv, ClientInv, InProgress, Recovering, ConnectionTypeOK,
           Connection, Recovery, Server, Starter, Closer, Generations
  <1>3. CloserInv'
    BY DEF RecoveryInv, CloserInv, ClientInv, InProgress, Recovering, ConnectionTypeOK,
           Connection, Recovery, Server, Starter, Closer, Generations
  <1>4. ClientInv'
    BY DEF RecoveryInv, CloserInv, ClientInv, InProgress, Recovering, ConnectionTypeOK,
           Connection, Recovery, Server, Starter, Closer, Generations
  <1>5. StarterInv'
    BY DEF StarterInv, RecoveryInv, CloserInv, InProgress, Recovering, ConnectionTypeOK,
           Connection, Recovery, Server, Starter, Closer, Generations
  <1>6. (\A g \in Generations : g > conn.generation => server[g] = "absent")'
    BY DEF RecoveryInv, CloserInv, ClientInv, InProgress, Recovering, ConnectionTypeOK,
           Connection, Recovery, Server, Starter, Closer, Generations
  <1>7. (\A g \in Alive : Owned(g))'
    BY DEF Owned, Alive, OneServer, RecoveryInv, CloserInv, ClientInv, InProgress,
           Recovering, ConnectionTypeOK, Connection, Recovery, Server, Starter, Closer,
           Generations
  <1>8. OneServer'
    BY DEF Owned, Alive, OneServer, RecoveryInv, CloserInv, ClientInv, InProgress,
           Recovering, ConnectionTypeOK, Connection, Recovery, Server, Starter, Closer,
           Generations
  <1>9. ClientIsOpen'
    BY DEF ClientIsOpen, StarterInv, RecoveryInv, CloserInv, ClientInv, InProgress,
           Recovering, ConnectionTypeOK, Connection, Recovery, Server, Starter, Closer,
           Generations
  <1> QED
    BY <1>1, <1>2, <1>3, <1>4, <1>5, <1>6, <1>7, <1>8, <1>9

\* Every step of the connection preserves the invariant.
LEMMA NextInv == ConnectionInv /\ [ConnectionNext]_connectionVars => ConnectionInv'
  <1> SUFFICES ASSUME ConnectionInv, [ConnectionNext]_connectionVars
               PROVE  ConnectionInv'
    OBVIOUS
  <1>1. CASE \E s \in Starters :
                StartWaits(s) \/ StartResumes(s) \/ StartRaises(s) \/ StartAbandoned(s)
    BY <1>1, StartWaitsStep, StartResumesStep, StartRaisesStep, StartAbandonedStep
  <1>2. CASE \E g \in 0..(MaxGeneration + 1), e \in 0..(MaxGeneration + 1) : Invalidate(g, e)
    BY <1>2, InvalidateStep
  <1>3. CASE RecoveryStep
    BY <1>3, RecoverBeginsStep, OldClientClosedStep, ClientStartedStep, ClientStartFailsStep,
       NewClientClosedStep, RecoverCancelledStep DEF RecoveryStep
  <1>4. CASE Close \/ CloseGoesOn \/ CloseEnds
    BY <1>4, CloseStep, CloseGoesOnStep, CloseEndsStep
  <1>5. CASE \E g \in Generations : ServerExits(g)
    BY <1>5, ServerExitsStep
  <1>6. CASE UNCHANGED connectionVars
    BY <1>6 DEF connectionVars, ConnectionInv, ConnectionTypeOK, RecoveryInv, CloserInv,
       ClientInv, StarterInv, InProgress, Recovering, Owned, Alive, OneServer, ClientIsOpen
  <1> QED
    BY <1>1, <1>2, <1>3, <1>4, <1>5, <1>6 DEF ConnectionNext

\* The invariant holds in every behaviour of the connection, however its callers invalidate
\* generations, cancel their calls and close it.
THEOREM ConnectionInvariant == ConnectionSpec => []ConnectionInv
  BY InitInv, NextInv, PTL DEF ConnectionSpec

\* There is one app-server process at a time: whatever fails, a recovery closes the old
\* client before it makes a new one.
THEOREM AlwaysOneServer == ConnectionSpec => []OneServer
  <1>1. ConnectionInv => OneServer
    BY DEF ConnectionInv
  <1> QED
    BY <1>1, ConnectionInvariant, PTL

\* A caller of start() that is handed a client is handed the current, unclosed one.
THEOREM ClientAlwaysOpen == ConnectionSpec => []ClientIsOpen
  <1>1. ConnectionInv => ClientIsOpen
    BY DEF ConnectionInv
  <1> QED
    BY <1>1, ConnectionInvariant, PTL

\* close() is final: afterwards no recovery, client or running process is left.
THEOREM CloseIsFinal == ConnectionSpec => []ClosedForGood
  <1>1. ConnectionInv => ClosedForGood
    <2> SUFFICES ASSUME ConnectionInv, closer.at = "done"
                 PROVE  /\ conn.closed /\ conn.client = 0 /\ ~Recovering
                        /\ \A g \in Generations : server[g] # "running"
      BY DEF ClosedForGood
    <2>1. conn.closed /\ conn.client = 0 /\ ~Recovering
      BY DEF ConnectionInv, CloserInv
    <2>2. \A g \in Generations : server[g] # "running"
      BY <2>1 DEF ConnectionInv, Alive, Owned, Recovering, Generations
    <2> QED
      BY <2>1, <2>2
  <1> QED
    BY <1>1, ConnectionInvariant, PTL


----------------------------------------------------------------------------
(* The inductive invariant of the runtime.                                 *)

\* A generation that is not stale has not failed, and a recovery that failed knows why.
Failures ==
  /\ ~conn.stale => conn.failure = 0
  /\ recovery.at = "closing_new" /\ ~conn.closed =>
       recovery.error = recovery.generation \/ conn.stale

\* close() has emptied the tables of the runtime.
Over == closer.at = "done"

\* The runs that were given a client, and have not ended.
Begun == {r \in Starters : run[r].at \notin {"idle", "starting"}}

\* A run has the client of its generation, which was published before any recovery that is
\* under way began.
Published ==
  /\ \A r \in Begun : run[r].client # 0
  /\ ~conn.closed => \A r \in Begun :
       /\ run[r].client = run[r].generation
       /\ run[r].client <= conn.generation
       /\ InProgress => run[r].client < recovery.generation

\* A run claims its channel until its end, and a turn is active for the run that claimed
\* the channel; notifications are only buffered while they will be replayed or dropped.
Claims ==
  /\ \A r \in Begun : run[r].channel \in Channels
  /\ IF Over
     THEN \A c \in Channels : active[c] = None /\ ~starting[c] /\ early[c] = <<>>
     ELSE /\ \A r \in Begun : ready[run[r].channel] = r
          /\ \A c \in Channels : active[c] # None =>
               active[c] \in Begun /\ run[active[c]].channel = c
          /\ \A c \in Channels : ~starting[c] => early[c] = <<>>
          /\ \A r \in Begun :
               /\ run[r].at = "turn_start" => starting[run[r].channel]
               /\ run[r].at \in {"replaying", "waiting"} => active[run[r].channel] = r
               /\ run[r].at = "replaying" => starting[run[r].channel]

\* The turn that the server accepted for a run is no other run's, and until close() the run
\* is sure to be given its notifications.
Accepted ==
  /\ \A r \in Starters : run[r].turn # 0 =>
       /\ r \in Begun /\ run[r].at # "loading"
       /\ run[r].turn \in DOMAIN turns
       /\ turns[run[r].turn].channel = run[r].channel
       /\ turns[run[r].turn].client = run[r].client
       /\ Over \/ starting[run[r].channel] \/ active[run[r].channel] = r
  /\ \A r, q \in Starters : run[r].turn # 0 /\ run[r].turn = run[q].turn => r = q

\* A notification is about a turn of the server that sends it.
Notes ==
  /\ \A g \in Generations : \A i \in DOMAIN queue[g] : queue[g][i] # Exited =>
       queue[g][i].turn \in DOMAIN turns /\ turns[queue[g][i].turn].client = g
  /\ \A c \in Channels : \A i \in DOMAIN early[c] : early[c][i].turn \in DOMAIN turns

\* The dispatcher of the client hands its notifications on.
Heard(g) == Current(g) /\ conn.client = g

Says(kind, t) == [kind |-> kind, turn |-> t]

\* The run has the answer of its turn, or it is in the buffer.
Knows(r) ==
  \/ run[r].answered
  \/ \E i \in DOMAIN early[run[r].channel] :
       early[run[r].channel][i] = Says("answer", run[r].turn)

\* Wherever the end of a turn is, the answer is further on.
Ordered(r) ==
  LET t == run[r].turn
      notes == early[run[r].channel]
      sent == queue[run[r].client]
  IN  /\ \A i \in DOMAIN notes : notes[i] = Says("completed", t) =>
           run[r].answered \/ \E j \in DOMAIN notes : j < i /\ notes[j] = Says("answer", t)
      /\ Heard(run[r].client) =>
           /\ \A i \in DOMAIN sent : sent[i] = Says("completed", t) =>
                Knows(r) \/ \E j \in DOMAIN sent : j < i /\ sent[j] = Says("answer", t)
           /\ turns[t].state = "answered" =>
                Knows(r) \/ \E j \in DOMAIN sent : sent[j] = Says("answer", t)

AnswersFirst == \A r \in Starters : run[r].turn # 0 /\ ~Over => Ordered(r)

\* A run is only decided by the notifications of a turn once the server accepted one, and
\* its own turn does not end it without the answer that the server sent.
Decided == \A r \in Starters :
  /\ run[r].at = "replaying" => run[r].turn # 0
  /\ run[r].done = "no_response" => run[r].turn # 0 /\ run[r].by # run[r].turn

TurnsInv == Published /\ Claims /\ Accepted /\ Notes /\ AnswersFirst /\ Decided

\* A call waits for the event of a channel.
CallsWait == \A u \in Callers : call[u].at = "ready" => call[u].channel \in Channels

\* Only a run that has no client yet is suspended in start().
Suspended == \A r \in Starters : starter[r].at # "none" => run[r].at = "starting"

RuntimeInv ==
  /\ RuntimeTypeOK /\ ConnectionInv /\ Failures /\ CallsWait /\ Suspended
  /\ TurnsInv

----------------------------------------------------------------------------
(* The operators of the model.                                             *)

\* A set of numbers has a least one.
LEMMA Least ==
  ASSUME NEW S \in SUBSET Nat, S # {}
  PROVE  \E i \in S : \A j \in S : i <= j
  <1> DEFINE R == {ss \in Nat \X Nat : ss[1] < ss[2]}
  <1>1. \A x, y \in Nat : x < y <=> <<x, y>> \in R
    OBVIOUS
  <1>2. IsWellFoundedOn(R, Nat)
    BY NatLessThanWellFounded DEF OpToRel
  <1> HIDE DEF R
  <1>3. PICK i \in S : \A j \in S : ~ (<<j, i>> \in R)
    BY <1>2, WFMin
  <1>4. \A j \in S : ~ (j < i)
    <2>1. S \subseteq Nat
      OBVIOUS
    <2> QED
      BY <1>1, <1>3, <2>1
  <1>5. \A j \in S : i <= j
    BY <1>4
  <1> QED
    BY <1>5

\* Where an index of a certain kind exists, CHOOSE finds the first.
LEMMA First ==
  ASSUME NEW n \in Nat, NEW S \in SUBSET (1..n), S # {}
  PROVE  LET k == CHOOSE i \in S : \A j \in S : i <= j
         IN  k \in S /\ \A j \in S : k <= j
  <1>1. S \in SUBSET Nat
    OBVIOUS
  <1> QED
    BY <1>1, Least

\* What process_notification() changes: the answer is remembered, and a run that gets no
\* response had a completed turn before any answer.
LEMMA HearFacts ==
  ASSUME NEW t \in Run, NEW notes \in Seq(Notification)
  PROVE  /\ Hear(t, notes) \in Run
         /\ Hear(t, notes).at = t.at /\ Hear(t, notes).channel = t.channel
         /\ Hear(t, notes).client = t.client /\ Hear(t, notes).generation = t.generation
         /\ Hear(t, notes).turn = t.turn
         /\ Hear(t, notes).answered =
              (t.answered \/ \E i \in DOMAIN notes : notes[i].kind = "answer")
         /\ Hear(t, notes).done = "no_response" =>
              \/ t.done = "no_response" /\ Hear(t, notes).by = t.by
              \/ \E k \in DOMAIN notes :
                   /\ notes[k] = Says("completed", Hear(t, notes).by)
                   /\ ~t.answered
                   /\ \A i \in DOMAIN notes : i <= k => notes[i].kind # "answer"
  <1> DEFINE ends == {i \in DOMAIN notes : Ends(notes[i])}
             end == CHOOSE i \in ends : \A j \in ends : i <= j
             answered(k) == t.answered \/ \E i \in DOMAIN notes : i <= k /\ notes[i].kind = "answer"
             outcome == IF notes[end].kind = "stopped" THEN "stopped"
                        ELSE IF answered(end) THEN "answer" ELSE "no_response"
             done == IF t.done = "pending" /\ ends # {} THEN outcome ELSE t.done
             by == IF t.done = "pending" /\ ends # {} THEN notes[end].turn ELSE t.by
             all == answered(Len(notes))
  <1>1. Hear(t, notes) = [t EXCEPT !.answered = all, !.done = done, !.by = by]
    BY DEF Hear, Run
  <1>2. Len(notes) \in Nat /\ DOMAIN notes = 1..Len(notes)
    OBVIOUS
  <1>3. ends # {} => end \in ends
    <2>1. ends \in SUBSET (1..Len(notes))
      BY <1>2
    <2> HIDE DEF ends
    <2> QED
      BY <1>2, <2>1, First
  <1>4. all = (t.answered \/ \E i \in DOMAIN notes : notes[i].kind = "answer")
    BY <1>2 DEF Run
  <1>5. ends # {} => notes[end] \in Notification /\ end \in DOMAIN notes /\ Ends(notes[end])
    BY <1>3
  <1> HIDE DEF ends, end
  <1>6. by \in 0..MaxTurns
    BY <1>5 DEF Run, Notification, Turns
  <1>7. done \in Outcome
    BY DEF Run, Outcome
  <1>8. all \in BOOLEAN
    BY DEF Run
  <1>9. done = "no_response" =>
          \/ t.done = "no_response" /\ by = t.by
          \/ \E k \in DOMAIN notes :
               /\ notes[k] = Says("completed", by) /\ ~t.answered
               /\ \A i \in DOMAIN notes : i <= k => notes[i].kind # "answer"
    <2> SUFFICES ASSUME done = "no_response", t.done # "no_response"
                 PROVE  \E k \in DOMAIN notes :
                          /\ notes[k] = Says("completed", by) /\ ~t.answered
                          /\ \A i \in DOMAIN notes : i <= k => notes[i].kind # "answer"
      OBVIOUS
    <2>1. ends # {} /\ by = notes[end].turn /\ notes[end].kind # "stopped" /\ ~answered(end)
      OBVIOUS
    <2>2. notes[end].kind = "completed"
      BY <1>5, <2>1 DEF Ends
    <2>3. notes[end] = Says("completed", by)
      BY <1>5, <2>1, <2>2 DEF Says, Notification
    <2> QED
      BY <1>5, <2>1, <2>3
  <1> HIDE DEF done, by, all
  <1> QED
    BY <1>1, <1>4, <1>6, <1>7, <1>8, <1>9 DEF Run

----------------------------------------------------------------------------
(* What a step of the connection means to the runs.                        *)

USE MaxGenerationAssumption

\* The state of the connection as a run sees it after a step: closed for good, no older
\* than before, recovering as before or in a new generation, and heard only from the client
\* that was heard before or that a recovery has made.
ConnectionMoved ==
  /\ conn.closed => conn'.closed
  /\ ~conn'.closed => conn.generation <= conn'.generation
  /\ ~conn'.closed /\ InProgress' =>
       \/ InProgress /\ recovery'.generation = recovery.generation
       \/ conn.generation < recovery'.generation
  /\ \A g \in Generations : Heard(g)' => Heard(g) \/ (InProgress /\ g = recovery.generation)
  /\ Over => Over'
  /\ Failures'

\* Every step of the connection moves it that way.
LEMMA ConnectionMoves ==
  ASSUME ConnectionInv, Failures, [ConnectionNext]_connectionVars
  PROVE  ConnectionMoved
  <1> DEFINE Goal == ConnectionMoved
  <1> USE DEF ConnectionMoved, InProgress, Heard, Current, Over, Failures
  <1>0. /\ conn.generation \in Nat /\ conn \in Connection /\ recovery \in Recovery
        /\ closer \in Closer /\ CloserInv /\ RecoveryInv /\ ClientInv
    BY DEF ConnectionInv, ConnectionTypeOK, Connection
  <1>1. ASSUME NEW s \in Starters, StartWaits(s)
        PROVE  Goal
    BY <1>0, <1>1 DEF StartWaits, Recovering, Connection, Recovery
  <1>2. ASSUME NEW s \in Starters, StartResumes(s) \/ StartAbandoned(s)
        PROVE  Goal
    BY <1>0, <1>2 DEF StartResumes, StartAbandoned
  <1>3. ASSUME NEW s \in Starters, StartRaises(s)
        PROVE  Goal
    <2>1. \/ conn' = conn
          \/ conn' = [conn EXCEPT !.stale = TRUE, !.failure = starter[s].error]
      BY <1>3 DEF StartRaises, Invalidated
    <2>2. /\ conn'.generation = conn.generation /\ conn'.closed = conn.closed
          /\ conn'.client = conn.client /\ (conn' = conn \/ conn'.stale)
      BY <1>0, <2>1 DEF Connection
    <2> QED
      BY <1>0, <1>3, <2>2 DEF StartRaises
  <1>4. ASSUME NEW g \in 0..(MaxGeneration + 1), NEW e \in 0..(MaxGeneration + 1), Invalidate(g, e)
        PROVE  Goal
    BY <1>0, <1>4 DEF Invalidate, Invalidated, Connection
  <1>5. CASE RecoverBegins
    BY <1>0, <1>5 DEF RecoverBegins, Connection, Recovery, Generations
  <1>6. CASE OldClientClosed
    BY <1>0, <1>6 DEF OldClientClosed, Recovery
  <1>7. CASE ClientStarted
    BY <1>0, <1>7 DEF ClientStarted, RecoveryDone, Connection, Recovery, Generations, RecoveryInv
  <1>8. CASE ClientStartFails
    BY <1>0, <1>8 DEF ClientStartFails, Recovery
  <1>9. CASE NewClientClosed
    BY <1>0, <1>9 DEF NewClientClosed, RecoveryDone, Invalidated, Connection, Recovery, RecoveryInv
  <1>10. CASE RecoverCancelled
    <2>1. conn.closed /\ conn' = conn
      BY <1>0, <1>10 DEF RecoverCancelled, RecoveryInv, Recovering
    <2> QED
      BY <1>0, <1>10, <2>1 DEF RecoverCancelled, RecoveryDone, Recovery
  <1>11. CASE Close
    BY <1>0, <1>11 DEF Close, CloserInv
  <1>12. CASE CloseGoesOn \/ CloseEnds
    BY <1>0, <1>12 DEF CloseGoesOn, CloseEnds
  <1>13. CASE UNCHANGED connectionVars \/ \E g \in Generations : ServerExits(g)
    BY <1>0, <1>13 DEF ServerExits, connectionVars
  <1> HIDE DEF Goal, ConnectionMoved
  <1>14. CASE \E s \in Starters :
                 StartWaits(s) \/ StartResumes(s) \/ StartRaises(s) \/ StartAbandoned(s)
    BY <1>1, <1>2, <1>3, <1>14 DEF Goal
  <1>15. CASE \E g \in 0..(MaxGeneration + 1), e \in 0..(MaxGeneration + 1) : Invalidate(g, e)
    BY <1>4, <1>15 DEF Goal
  <1>16. CASE RecoveryStep
    BY <1>5, <1>6, <1>7, <1>8, <1>9, <1>10, <1>16 DEF RecoveryStep, Goal
  <1> QED
    BY <1>11, <1>12, <1>13, <1>14, <1>15, <1>16 DEF Goal, ConnectionNext

Message == Notification \cup {Exited}

Turn == [channel : Channels, client : Generations,
         state : {"fresh", "working", "answered", "ended"}]

\* The client of a run is heard after a step only if it was heard before: no step publishes
\* the client of an older generation again.
LEMMA HeardBefore ==
  ASSUME ConnectionInv', Published, ConnectionMoved,
         NEW r \in Begun, NEW k \in Generations, k = run[r].client, Heard(k)'
  PROVE  Heard(k)
  <1>1. ~conn'.closed
    BY DEF Heard, ConnectionInv, CloserInv, Generations
  <1>2. Heard(k) \/ (InProgress /\ k = recovery.generation)
    BY DEF ConnectionMoved
  <1>3. ~conn.closed
    BY <1>1 DEF ConnectionMoved
  <1>4. InProgress => k < recovery.generation
    BY <1>3 DEF Published
  <1> QED
    BY <1>2, <1>4 DEF Generations

\* Runs keep their clients, and a new one is given the current client.
LEMMA PublishedStep ==
  ASSUME RuntimeTypeOK, RuntimeTypeOK', Published, ConnectionMoved,
         \A q \in Begun' :
           \/ /\ q \in Begun
              /\ run'[q].client = run[q].client /\ run'[q].generation = run[q].generation
           \/ /\ run'[q].client # 0
              /\ ~conn'.closed => /\ run'[q].client = run'[q].generation
                                  /\ run'[q].client <= conn'.generation /\ ~InProgress'
  PROVE  Published'
  <1>1. conn.generation \in Nat /\ conn'.generation \in Nat /\ recovery'.generation \in Nat
    BY DEF RuntimeTypeOK, ConnectionTypeOK, Connection, Recovery
  <1>2. \A q \in Begun : run[q].client \in Nat
    BY DEF RuntimeTypeOK, Begun, Run
  <1>3. \A q \in Begun' : run'[q].client # 0
    BY DEF Published
  <1>4. ASSUME ~conn'.closed, NEW q \in Begun'
        PROVE  /\ run'[q].client = run'[q].generation
               /\ run'[q].client <= conn'.generation
               /\ InProgress' => run'[q].client < recovery'.generation
    <2>1. CASE /\ q \in Begun
               /\ run'[q].client = run[q].client /\ run'[q].generation = run[q].generation
      <3>1. ~conn.closed /\ conn.generation <= conn'.generation
        BY <1>4 DEF ConnectionMoved
      <3>2. /\ run[q].client = run[q].generation /\ run[q].client <= conn.generation
            /\ InProgress => run[q].client < recovery.generation
        BY <2>1, <3>1 DEF Published
      <3>3. InProgress' => \/ InProgress /\ recovery'.generation = recovery.generation
                           \/ conn.generation < recovery'.generation
        BY <1>4 DEF ConnectionMoved
      <3> QED
        BY <1>1, <1>2, <2>1, <3>1, <3>2, <3>3
    <2>2. CASE /\ run'[q].client = run'[q].generation
               /\ run'[q].client <= conn'.generation /\ ~InProgress'
      BY <2>2
    <2> QED
      BY <1>4, <2>1, <2>2
  <1> QED
    BY <1>3, <1>4 DEF Published

\* The notifications of a run stay in order as long as its buffer does not change and the
\* server does not report the end of its turn.
LEMMA OrderedKept ==
  ASSUME NEW q \in Starters, NEW c, NEW k, NEW t, Ordered(q),
         run[q].channel = c, run[q].client = k, run[q].turn = t,
         run'[q].channel = c, run'[q].client = k, run'[q].turn = t,
         run[q].answered => run'[q].answered,
         early' [c] = early[c],
         turns'[t].state = "answered" => turns[t].state = "answered",
         queue[k] \in Seq(Message),
         Heard(k)' => /\ Heard(k)
                      /\ \/ queue'[k] = queue[k]
                         \/ \E n \in Message : /\ n # Says("completed", t)
                                               /\ queue'[k] = Append(queue[k], n)
  PROVE  Ordered(q)'
  <1>1. Knows(q) => Knows(q)'
    BY DEF Knows
  <1>2. ASSUME NEW i \in DOMAIN early'[c], early'[c][i] = Says("completed", t)
        PROVE  run'[q].answered \/ \E j \in DOMAIN early'[c] : j < i /\ early'[c][j] = Says("answer", t)
    BY <1>2 DEF Ordered
  <1>3. ASSUME Heard(k)'
        PROVE  /\ \A i \in DOMAIN queue'[k] : queue'[k][i] = Says("completed", t) =>
                    Knows(q)' \/ \E j \in DOMAIN queue'[k] : j < i /\ queue'[k][j] = Says("answer", t)
               /\ turns'[t].state = "answered" =>
                    Knows(q)' \/ \E j \in DOMAIN queue'[k] : queue'[k][j] = Says("answer", t)
    <2>1. /\ \A i \in DOMAIN queue[k] : queue[k][i] = Says("completed", t) =>
               Knows(q) \/ \E j \in DOMAIN queue[k] : j < i /\ queue[k][j] = Says("answer", t)
          /\ turns[t].state = "answered" =>
               Knows(q) \/ \E j \in DOMAIN queue[k] : queue[k][j] = Says("answer", t)
      BY <1>3 DEF Ordered
    <2>2. CASE queue'[k] = queue[k]
      BY <1>1, <2>1, <2>2
    <2>3. ASSUME NEW n \in Message, n # Says("completed", t), queue'[k] = Append(queue[k], n)
          PROVE  /\ \A i \in DOMAIN queue'[k] : queue'[k][i] = Says("completed", t) =>
                      Knows(q)' \/ \E j \in DOMAIN queue'[k] : j < i /\ queue'[k][j] = Says("answer", t)
                 /\ turns'[t].state = "answered" =>
                      Knows(q)' \/ \E j \in DOMAIN queue'[k] : queue'[k][j] = Says("answer", t)
      <3>1. /\ DOMAIN queue[k] = 1..Len(queue[k]) /\ Len(queue[k]) \in Nat
            /\ DOMAIN queue'[k] = 1..(Len(queue[k]) + 1)
            /\ \A i \in 1..Len(queue[k]) : queue'[k][i] = queue[k][i]
            /\ queue'[k][Len(queue[k]) + 1] = n
        BY <2>3, AppendProperties, LenProperties
      <3>2. \A i \in DOMAIN queue'[k] : i \in DOMAIN queue[k] \/ i = Len(queue[k]) + 1
        BY <3>1
      <3>3. DOMAIN queue[k] \subseteq DOMAIN queue'[k]
        BY <3>1
      <3> QED
        BY <1>1, <2>1, <2>3, <3>1, <3>2, <3>3
    <2> QED
      BY <1>3, <2>2, <2>3
  <1> QED
    BY <1>2, <1>3 DEF Ordered

----------------------------------------------------------------------------
(* Steps that change no claim and hand on no notification.                 *)

\* The run stays as it is, or before it has a client it waits or gives up, or it is
\* interrupted or disconnected.
Keeps(q) ==
  \/ run'[q] = run[q]
  \/ /\ q \notin Begun /\ run'[q].at \in {"idle", "starting"}
     /\ run'[q].turn = 0 /\ run'[q].done = "pending"
  \/ /\ q \in Begun
     /\ run'[q].at \in {run[q].at, "interrupting", "grace", "cancelling", "self_wait"}
     /\ run'[q].channel = run[q].channel /\ run'[q].client = run[q].client
     /\ run'[q].generation = run[q].generation /\ run'[q].turn = run[q].turn
     /\ run'[q].answered = run[q].answered
     /\ \/ run'[q].done # "no_response"
        \/ run'[q].done = run[q].done /\ run'[q].by = run[q].by

\* The notifications of a client stay, its process exits, or they are lost with the client.
KeepsQueue(g) ==
  \/ queue'[g] = queue[g]
  \/ queue'[g] = Append(queue[g], Exited)
  \/ queue[g] # <<>> /\ queue'[g] = Tail(queue[g]) /\ ~Heard(g)'
  \/ queue'[g] = <<>> /\ ~Heard(g)'

\* What is in a queue after such a step is about the turns of its client.
LEMMA KeptNotes ==
  ASSUME Notes, NEW g \in Generations, queue[g] \in Seq(Message),
         KeepsQueue(g) \/ queue'[g] = <<>>,
         NEW i \in DOMAIN queue'[g], queue'[g][i] # Exited
  PROVE  queue'[g][i].turn \in DOMAIN turns /\ turns[queue'[g][i].turn].client = g
  <1>1. \A j \in DOMAIN queue[g] : queue[g][j] # Exited =>
          queue[g][j].turn \in DOMAIN turns /\ turns[queue[g][j].turn].client = g
    BY DEF Notes
  <1>2. queue[g] \in Seq(Message) /\ Exited \in Message
    BY DEF Message
  <1>3. CASE queue'[g] = queue[g]
    BY <1>1, <1>3
  <1>4. CASE queue'[g] = Append(queue[g], Exited)
    BY <1>1, <1>2, <1>4, AppendProperties, LenProperties
  <1>5. CASE queue[g] # <<>> /\ queue'[g] = Tail(queue[g])
    <2>1. /\ Len(queue'[g]) = Len(queue[g]) - 1 /\ queue'[g] \in Seq(Message)
          /\ \A j \in 1..Len(queue'[g]) : queue'[g][j] = queue[g][j + 1]
      BY <1>2, <1>5, HeadTailProperties
    <2>2. /\ Len(queue'[g]) \in Nat /\ DOMAIN queue'[g] = 1..Len(queue'[g])
          /\ Len(queue[g]) \in Nat /\ DOMAIN queue[g] = 1..Len(queue[g])
      BY <1>2, <2>1
    <2>3. i \in 1..Len(queue'[g]) /\ i + 1 \in DOMAIN queue[g] /\ queue'[g][i] = queue[g][i + 1]
      BY <2>1, <2>2
    <2> QED
      BY <1>1, <2>3
  <1>6. CASE queue'[g] = <<>>
    BY <1>6
  <1> QED
    BY <1>3, <1>4, <1>5, <1>6 DEF KeepsQueue

\* Such a step keeps what relates the runs, the claims and the notifications.
LEMMA KeptStep ==
  ASSUME RuntimeInv, RuntimeTypeOK', ConnectionInv', ConnectionMoved, Over' => Over,
         UNCHANGED <<active, ready, starting, early, turns>>,
         \A q \in Starters : Keeps(q), \A g \in Generations : KeepsQueue(g)
  PROVE  TurnsInv'
  <1> USE DEF RuntimeInv, TurnsInv
  <1>1. \A q \in Starters :
           /\ q \in Begun <=> q \in Begun'
           /\ q \in Begun =>
                /\ run'[q].at \in {run[q].at, "interrupting", "grace", "cancelling", "self_wait"}
                /\ run'[q].channel = run[q].channel /\ run'[q].client = run[q].client
                /\ run'[q].generation = run[q].generation /\ run'[q].turn = run[q].turn
                /\ run'[q].answered = run[q].answered
           /\ q \notin Begun => run'[q].turn = 0
    BY DEF Keeps, Begun, Accepted
  <1>2. Over' = Over
    BY DEF ConnectionMoved, Over
  <1>3. Begun \subseteq Starters /\ Begun' = Begun
    BY <1>1 DEF Begun
  <1>4. Published'
    BY <1>1, <1>3, PublishedStep
  <1>5. Claims'
    <2>1. \A r \in Begun' : run'[r].channel \in Channels
      BY <1>1, <1>3 DEF Claims
    <2>2. CASE Over
      BY <1>2, <2>1, <2>2 DEF Claims
    <2>3. CASE ~Over
      <3>1. \A r \in Begun' : ready'[run'[r].channel] = r
        BY <1>1, <1>3, <2>3 DEF Claims
      <3>2. \A c \in Channels : active'[c] # None =>
              active'[c] \in Begun' /\ run'[active'[c]].channel = c
        BY <1>1, <1>3, <2>3 DEF Claims
      <3>3. \A c \in Channels : ~starting'[c] => early'[c] = <<>>
        BY <2>3 DEF Claims
      <3>4. \A r \in Begun' :
               /\ run'[r].at = "turn_start" => starting'[run'[r].channel]
               /\ run'[r].at \in {"replaying", "waiting"} => active'[run'[r].channel] = r
               /\ run'[r].at = "replaying" => starting'[run'[r].channel]
        BY <1>1, <1>3, <2>3 DEF Claims
      <3> QED
        BY <1>2, <2>1, <2>3, <3>1, <3>2, <3>3, <3>4 DEF Claims
    <2> QED
      BY <2>2, <2>3
  <1>6. Accepted'
    <2>1. \A r \in Starters : run'[r].turn # 0 => r \in Begun /\ run[r].turn = run'[r].turn
      BY <1>1
    <2>2. \A r \in Starters : run'[r].turn # 0 =>
            /\ r \in Begun' /\ run'[r].at # "loading"
            /\ run'[r].turn \in DOMAIN turns'
            /\ turns'[run'[r].turn].channel = run'[r].channel
            /\ turns'[run'[r].turn].client = run'[r].client
            /\ Over' \/ starting'[run'[r].channel] \/ active'[run'[r].channel] = r
      BY <1>1, <1>2, <1>3, <2>1 DEF Accepted
    <2>3. \A r, q \in Starters : run'[r].turn # 0 /\ run'[r].turn = run'[q].turn => r = q
      BY <1>1, <2>1 DEF Accepted
    <2> QED
      BY <2>2, <2>3 DEF Accepted
  <1>7. Notes'
    <2>1. ASSUME NEW g \in Generations, NEW i \in DOMAIN queue'[g], queue'[g][i] # Exited
          PROVE  queue'[g][i].turn \in DOMAIN turns /\ turns[queue'[g][i].turn].client = g
      BY <2>1, KeptNotes DEF RuntimeTypeOK, Message
    <2> QED
      BY <2>1 DEF Notes
  <1>8. AnswersFirst'
    <2> SUFFICES ASSUME NEW r \in Starters, run'[r].turn # 0, ~Over
                 PROVE  Ordered(r)'
      BY <1>2 DEF AnswersFirst
    <2>1. r \in Begun /\ run[r].turn # 0 /\ Ordered(r)
      BY <1>1 DEF AnswersFirst
    <2>2. run[r].client \in Generations
      BY <2>1 DEF RuntimeTypeOK, Run, Generations, Published, Begun
    <2>3. queue[run[r].client] \in Seq(Message) /\ Exited \in Message
      BY <2>2 DEF RuntimeTypeOK, Message
    <2>4. Exited # Says("completed", run[r].turn)
      BY DEF Exited, Says
    <2>5. \A k \in Generations : k = run[r].client /\ Heard(k)' =>
            Heard(k) /\ (queue'[k] = queue[k] \/ queue'[k] = Append(queue[k], Exited))
      BY <2>1, HeardBefore DEF KeepsQueue
    <2> QED
      BY <1>1, <2>1, <2>2, <2>3, <2>4, <2>5, OrderedKept
  <1>9. Decided'
    BY <1>1 DEF Decided, Keeps, Begun
  <1> QED
    BY <1>4, <1>5, <1>6, <1>7, <1>8, <1>9

----------------------------------------------------------------------------
(* The end of a run.                                                       *)

\* The finally clause of run() keeps what relates the other runs.
LEMMA FinishedStep ==
  ASSUME RuntimeInv, RuntimeTypeOK', ConnectionInv', ConnectionMoved, Over' => Over,
         NEW r \in Begun, Finished(r)
  PROVE  TurnsInv'
  <1> DEFINE c == run[r].channel
  <1> USE DEF RuntimeInv, TurnsInv
  <1>0. r \in Starters /\ c \in Channels /\ run \in [Starters -> Run] /\ Begun \subseteq Starters
    BY DEF Begun, Claims, RuntimeTypeOK
  <1>1. run'[r] = IdleRun /\ \A q \in Starters : q # r => run'[q] = run[q]
    BY <1>0 DEF Finished
  <1>2. Begun' = Begun \ {r}
    BY <1>0, <1>1 DEF Begun, IdleRun
  <1>3. /\ active'[c] = None /\ ready'[c] = None /\ starting'[c] = FALSE
        /\ \A d \in Channels : d # c =>
              /\ active'[d] = active[d] /\ ready'[d] = ready[d]
              /\ starting'[d] = starting[d] /\ early'[d] = early[d]
        /\ early'[c] = IF starting[c] THEN <<>> ELSE early[c]
        /\ queue' = queue /\ turns' = turns
    BY <1>0 DEF Finished, RuntimeTypeOK
  <1>4. Over' = Over
    BY DEF ConnectionMoved, Over
  <1>5. ~Over => \A q \in Begun : q # r => run[q].channel # c
    BY <1>0 DEF Claims
  <1> HIDE DEF c
  <1>6. Published'
    BY <1>0, <1>1, <1>2, PublishedStep
  <1>7. Claims'
    <2>1. \A q \in Begun' : run'[q].channel \in Channels
      BY <1>0, <1>1, <1>2 DEF Claims
    <2>2. CASE Over
      BY <1>0, <1>3, <1>4, <2>1, <2>2 DEF Claims
    <2>3. CASE ~Over
      <3>1. \A q \in Begun' : q \in Begun /\ q # r /\ run'[q] = run[q] /\ run[q].channel # c
        BY <1>0, <1>1, <1>2, <1>5, <2>3
      <3>2. \A q \in Begun' : ready'[run'[q].channel] = q
        BY <1>3, <2>3, <3>1 DEF Claims
      <3>3. \A d \in Channels : active'[d] # None =>
              active'[d] \in Begun' /\ run'[active'[d]].channel = d
        BY <1>0, <1>1, <1>2, <1>3, <2>3 DEF Claims, c
      <3>4. \A d \in Channels : ~starting'[d] => early'[d] = <<>>
        BY <1>3, <2>3 DEF Claims
      <3>5. \A q \in Begun' :
               /\ run'[q].at = "turn_start" => starting'[run'[q].channel]
               /\ run'[q].at \in {"replaying", "waiting"} => active'[run'[q].channel] = q
               /\ run'[q].at = "replaying" => starting'[run'[q].channel]
        BY <1>3, <2>3, <3>1 DEF Claims
      <3> QED
        BY <1>4, <2>1, <2>3, <3>2, <3>3, <3>4, <3>5 DEF Claims
    <2> QED
      BY <2>2, <2>3
  <1>8. ASSUME NEW q \in Starters, run'[q].turn # 0
        PROVE  /\ q \in Begun /\ q \in Begun' /\ q # r /\ run'[q] = run[q] /\ run[q].turn # 0
               /\ run[q].channel \in Channels
    BY <1>1, <1>2, <1>8 DEF Accepted, IdleRun, Claims
  <1>9. Accepted'
    <2>1. ASSUME NEW q \in Starters, run'[q].turn # 0
          PROVE  /\ q \in Begun' /\ run'[q].at # "loading"
                 /\ run'[q].turn \in DOMAIN turns'
                 /\ turns'[run'[q].turn].channel = run'[q].channel
                 /\ turns'[run'[q].turn].client = run'[q].client
                 /\ Over' \/ starting'[run'[q].channel] \/ active'[run'[q].channel] = q
      BY <1>3, <1>4, <1>5, <1>8, <2>1 DEF Accepted
    <2>2. \A q, s \in Starters : run'[q].turn # 0 /\ run'[q].turn = run'[s].turn => q = s
      BY <1>8 DEF Accepted
    <2> QED
      BY <2>1, <2>2 DEF Accepted
  <1>10. Notes'
    <2>1. \A d \in Channels : early'[d] = early[d] \/ early'[d] = <<>>
      BY <1>3
    <2> QED
      BY <1>3, <2>1 DEF Notes
  <1>11. AnswersFirst'
    <2> SUFFICES ASSUME NEW q \in Starters, run'[q].turn # 0, ~Over
                 PROVE  Ordered(q)'
      BY <1>4 DEF AnswersFirst
    <2>1. q \in Begun /\ run'[q] = run[q] /\ Ordered(q) /\ early'[run[q].channel] = early[run[q].channel]
      BY <1>3, <1>5, <1>8 DEF AnswersFirst
    <2>2. run[q].client \in Generations
      BY SMTT(30), <2>1 DEF RuntimeTypeOK, Run, Generations, Published, Begun
    <2>3. queue[run[q].client] \in Seq(Message)
      BY <2>2 DEF RuntimeTypeOK, Message
    <2>4. \A k \in Generations : k = run[q].client /\ Heard(k)' => Heard(k) /\ queue'[k] = queue[k]
      BY <1>3, <2>1, HeardBefore
    <2> QED
      BY <1>3, <2>1, <2>2, <2>3, <2>4, OrderedKept
  <1>12. Decided'
    BY <1>1 DEF Decided, IdleRun
  <1> QED
    BY <1>6, <1>7, <1>9, <1>10, <1>11, <1>12

----------------------------------------------------------------------------
(* The begin of a run.                                                     *)

\* The run takes an unclaimed channel, with the client that is published.
LEMMA EnteredStep ==
  ASSUME RuntimeInv, RuntimeTypeOK', ConnectionInv', ConnectionMoved, Over' => Over,
         NEW r \in Starters \ Begun, NEW c \in Channels, NEW v \in Run,
         active[c] = None, ready[c] = None, ready' = [ready EXCEPT ![c] = r],
         run' = [run EXCEPT ![r] = v],
         v.at = "loading", v.channel = c, v.client # 0, v.turn = 0, v.done = "pending",
         ~conn'.closed => /\ v.client = v.generation
                          /\ v.client <= conn'.generation /\ ~InProgress',
         UNCHANGED <<active, starting, early, queue, turns>>
  PROVE  TurnsInv'
  <1> USE DEF RuntimeInv, TurnsInv
  <1>0. run \in [Starters -> Run] /\ ready \in [Channels -> Starters \cup {None}] /\ Begun \subseteq Starters
    BY DEF Begun, RuntimeTypeOK
  <1>1. run'[r] = v /\ \A q \in Starters : q # r => run'[q] = run[q]
    BY <1>0
  <1>2. Begun' = Begun \cup {r}
    BY <1>0, <1>1 DEF Begun
  <1>3. ready'[c] = r /\ \A d \in Channels : d # c => ready'[d] = ready[d]
    BY <1>0
  <1>4. Over' = Over
    BY DEF ConnectionMoved, Over
  <1>5. ~Over => \A q \in Begun : run[q].channel # c
    BY <1>0, NoneAssumption DEF Claims
  <1>6. Published'
    BY <1>0, <1>1, <1>2, PublishedStep
  <1>7. Claims'
    <2>1. \A q \in Begun' : run'[q].channel \in Channels
      BY <1>0, <1>1, <1>2 DEF Claims
    <2>2. CASE Over
      BY <1>0, <1>4, <2>1, <2>2 DEF Claims
    <2>3. CASE ~Over
      <3>1. \A q \in Begun' : q = r \/ (q \in Begun /\ q # r /\ run'[q] = run[q] /\ run[q].channel # c)
        BY <1>0, <1>1, <1>2, <1>5, <2>3
      <3>2. \A q \in Begun' : ready'[run'[q].channel] = q
        BY <1>1, <1>3, <2>3, <3>1 DEF Claims
      <3>3. \A d \in Channels : active'[d] # None =>
              active'[d] \in Begun' /\ run'[active'[d]].channel = d
        BY <1>0, <1>1, <1>2, <2>3 DEF Claims
      <3>4. \A d \in Channels : ~starting'[d] => early'[d] = <<>>
        BY <2>3 DEF Claims
      <3>5. \A q \in Begun' :
               /\ run'[q].at = "turn_start" => starting'[run'[q].channel]
               /\ run'[q].at \in {"replaying", "waiting"} => active'[run'[q].channel] = q
               /\ run'[q].at = "replaying" => starting'[run'[q].channel]
        BY <1>1, <2>3, <3>1 DEF Claims
      <3> QED
        BY <1>4, <2>1, <2>3, <3>2, <3>3, <3>4, <3>5 DEF Claims
    <2> QED
      BY <2>2, <2>3
  <1>8. ASSUME NEW q \in Starters, run'[q].turn # 0
        PROVE  q \in Begun /\ q \in Begun' /\ q # r /\ run'[q] = run[q] /\ run[q].turn # 0
    BY <1>1, <1>2, <1>8 DEF Accepted
  <1>9. Accepted'
    <2>1. ASSUME NEW q \in Starters, run'[q].turn # 0
          PROVE  /\ q \in Begun' /\ run'[q].at # "loading"
                 /\ run'[q].turn \in DOMAIN turns'
                 /\ turns'[run'[q].turn].channel = run'[q].channel
                 /\ turns'[run'[q].turn].client = run'[q].client
                 /\ Over' \/ starting'[run'[q].channel] \/ active'[run'[q].channel] = q
      BY <1>4, <1>8, <2>1 DEF Accepted
    <2>2. \A q, s \in Starters : run'[q].turn # 0 /\ run'[q].turn = run'[s].turn => q = s
      BY <1>8 DEF Accepted
    <2> QED
      BY <2>1, <2>2 DEF Accepted
  <1>10. Notes'
    BY DEF Notes
  <1>11. AnswersFirst'
    <2> SUFFICES ASSUME NEW q \in Starters, run'[q].turn # 0, ~Over
                 PROVE  Ordered(q)'
      BY <1>4 DEF AnswersFirst
    <2>1. q \in Begun /\ run'[q] = run[q] /\ Ordered(q)
      BY <1>8 DEF AnswersFirst
    <2>2. run[q].client \in Generations
      BY <2>1 DEF RuntimeTypeOK, Run, Generations, Published, Begun
    <2>3. queue[run[q].client] \in Seq(Message)
      BY <2>2 DEF RuntimeTypeOK, Message
    <2>4. \A k \in Generations : k = run[q].client /\ Heard(k)' => Heard(k) /\ queue'[k] = queue[k]
      BY <2>1, HeardBefore
    <2> QED
      BY <2>1, <2>2, <2>3, <2>4, OrderedKept
  <1>12. Decided'
    BY <1>1 DEF Decided
  <1> QED
    BY <1>6, <1>7, <1>9, <1>10, <1>11, <1>12

\* The thread of a run is loaded: from now on its notifications are buffered.
LEMMA LoadedStep ==
  ASSUME RuntimeInv, RuntimeTypeOK', ConnectionInv', ConnectionMoved, Over' => Over, ~Over,
         NEW r \in Starters, run[r].at = "loading",
         starting' = [starting EXCEPT ![run[r].channel] = TRUE],
         run' = [run EXCEPT ![r].at = "turn_start"],
         UNCHANGED <<active, ready, early, queue, turns>>
  PROVE  TurnsInv'
  <1> DEFINE c == run[r].channel
  <1> USE DEF RuntimeInv, TurnsInv
  <1>0. /\ r \in Begun /\ c \in Channels /\ run \in [Starters -> Run] /\ Begun \subseteq Starters
        /\ starting \in [Channels -> BOOLEAN] /\ run[r].turn = 0 /\ run[r].done # "no_response"
    BY DEF Begun, Claims, RuntimeTypeOK, Accepted, Decided
  <1>1. /\ \A q \in Starters : q # r => run'[q] = run[q]
        /\ run'[r].at = "turn_start" /\ run'[r].channel = c /\ run'[r].client = run[r].client
        /\ run'[r].generation = run[r].generation /\ run'[r].turn = 0
        /\ run'[r].done = run[r].done
    BY <1>0 DEF Run
  <1>2. Begun' = Begun
    BY <1>0, <1>1 DEF Begun
  <1>3. starting'[c] = TRUE /\ \A d \in Channels : d # c => starting'[d] = starting[d]
    BY <1>0
  <1>5. \A q \in Begun : q # r => run[q].channel # c
    BY <1>0 DEF Claims
  <1>6. Published'
    BY <1>0, <1>1, <1>2, PublishedStep
  <1> HIDE DEF c
  <1>7. Claims'
    <2>1. \A q \in Begun' : run'[q].channel \in Channels
      BY <1>0, <1>1, <1>2 DEF Claims
    <2>2. \A q \in Begun' : ready'[run'[q].channel] = q
      BY <1>0, <1>1, <1>2 DEF Claims, c
    <2>3. \A d \in Channels : active'[d] # None =>
            active'[d] \in Begun' /\ run'[active'[d]].channel = d
      BY <1>0, <1>1, <1>2 DEF Claims, c
    <2>4. \A d \in Channels : ~starting'[d] => early'[d] = <<>>
      BY <1>3 DEF Claims
    <2>5. \A q \in Begun' :
             /\ run'[q].at = "turn_start" => starting'[run'[q].channel]
             /\ run'[q].at \in {"replaying", "waiting"} => active'[run'[q].channel] = q
             /\ run'[q].at = "replaying" => starting'[run'[q].channel]
      BY <1>0, <1>1, <1>2, <1>3, <1>5 DEF Claims
    <2> QED
      BY <2>1, <2>2, <2>3, <2>4, <2>5 DEF Claims
  <1>8. ASSUME NEW q \in Starters, run'[q].turn # 0
        PROVE  q \in Begun /\ q # r /\ run'[q] = run[q] /\ run[q].turn # 0 /\ run[q].channel # c
    BY <1>1, <1>5, <1>8 DEF Accepted
  <1>9. Accepted'
    <2>1. ASSUME NEW q \in Starters, run'[q].turn # 0
          PROVE  /\ q \in Begun' /\ run'[q].at # "loading"
                 /\ run'[q].turn \in DOMAIN turns'
                 /\ turns'[run'[q].turn].channel = run'[q].channel
                 /\ turns'[run'[q].turn].client = run'[q].client
                 /\ Over' \/ starting'[run'[q].channel] \/ active'[run'[q].channel] = q
      BY <1>2, <1>3, <1>8, <2>1 DEF Accepted, Claims
    <2>2. \A q, s \in Starters : run'[q].turn # 0 /\ run'[q].turn = run'[s].turn => q = s
      BY <1>8 DEF Accepted
    <2> QED
      BY <2>1, <2>2 DEF Accepted
  <1>10. Notes'
    BY DEF Notes
  <1>11. AnswersFirst'
    <2> SUFFICES ASSUME NEW q \in Starters, run'[q].turn # 0
                 PROVE  Ordered(q)'
      BY DEF AnswersFirst
    <2>1. q \in Begun /\ run'[q] = run[q] /\ Ordered(q)
      BY <1>8 DEF AnswersFirst
    <2>2. run[q].client \in Generations
      BY <2>1 DEF RuntimeTypeOK, Run, Generations, Published, Begun
    <2>3. queue[run[q].client] \in Seq(Message)
      BY <2>2 DEF RuntimeTypeOK, Message
    <2>4. \A k \in Generations : k = run[q].client /\ Heard(k)' => Heard(k) /\ queue'[k] = queue[k]
      BY <2>1, HeardBefore
    <2> QED
      BY <2>1, <2>2, <2>3, <2>4, OrderedKept
  <1>12. Decided'
    BY <1>0, <1>1 DEF Decided
  <1> QED
    BY <1>6, <1>7, <1>9, <1>10, <1>11, <1>12

----------------------------------------------------------------------------
(* The replay of early notifications.                                      *)

\* A pass over the early notifications splits them: the run hears the first part, the rest
\* stays, and nothing stays when the buffering stops.
LEMMA ReplaySplits ==
  ASSUME RuntimeTypeOK, NEW r \in Starters, NEW c \in Channels, Replayed(r, c)
  PROVE  \E k \in 0..Len(early[c]), more \in BOOLEAN :
           LET heard == SubSeq(early[c], 1, k)
               rest == SubSeq(early[c], k + 1, Len(early[c]))
           IN  /\ early' = [early EXCEPT ![c] = rest]
               /\ starting' = [starting EXCEPT ![c] = more]
               /\ run' = [run EXCEPT ![r] = [Hear(run[r], heard) EXCEPT
                                               !.at = IF more THEN "replaying" ELSE "waiting"]]
               /\ ~more => rest = <<>>
               /\ more => early[c] # <<>>
               /\ heard \in Seq(Notification) /\ Len(heard) = k
               /\ \A i \in 1..k : heard[i] = early[c][i]
               /\ rest \in Seq(Notification) /\ Len(rest) = Len(early[c]) - k
               /\ \A i \in 1..Len(rest) : rest[i] = early[c][k + i]
  <1> DEFINE sinks == {i \in DOMAIN early[c] : early[c][i].kind = "progress"}
             k == IF sinks = {} THEN Len(early[c])
                  ELSE CHOOSE i \in sinks : \A j \in sinks : i <= j
             more == sinks # {}
             heard == SubSeq(early[c], 1, k)
             rest == SubSeq(early[c], k + 1, Len(early[c]))
  <1>1. /\ early[c] \in Seq(Notification) /\ Len(early[c]) \in Nat
        /\ DOMAIN early[c] = 1..Len(early[c])
        /\ \A i \in 1..Len(early[c]) : early[c][i] \in Notification
    BY DEF RuntimeTypeOK
  <1>2. sinks \in SUBSET (1..Len(early[c]))
    BY <1>1
  <1>3. /\ early' = [early EXCEPT ![c] = rest]
        /\ starting' = [starting EXCEPT ![c] = more]
        /\ run' = [run EXCEPT ![r] = [Hear(run[r], heard) EXCEPT
                                        !.at = IF sinks = {} THEN "waiting" ELSE "replaying"]]
    BY DEF Replayed, RuntimeTypeOK
  <1> HIDE DEF sinks
  <1>4. k \in 0..Len(early[c]) /\ (sinks = {} => k = Len(early[c]))
    <2>1. CASE sinks = {}
      BY <1>1, <2>1
    <2>2. CASE sinks # {}
      <3>1. k \in sinks
        BY <1>1, <1>2, <2>2, First
      <3> HIDE DEF k
      <3>2. k \in 1..Len(early[c])
        BY <1>2, <3>1
      <3> QED
        BY <1>1, <2>2, <3>2
    <2> QED
      BY <2>1, <2>2
  <1>11. more => early[c] # <<>>
    <2> SUFFICES ASSUME NEW i \in sinks PROVE early[c] # <<>>
      OBVIOUS
    <2>1. i \in 1..Len(early[c])
      BY <1>2
    <2>2. Len(early[c]) # 0
      BY <1>1, <2>1
    <2> QED
      BY <2>2
  <1> HIDE DEF k
  <1>5. k \in Nat /\ k <= Len(early[c])
    BY <1>1, <1>4
  <1>6. /\ heard \in Seq(Notification) /\ Len(heard) = k
        /\ \A i \in 1..k : heard[i] = early[c][i]
    <2>1. \A i \in 1..k : early[c][i] \in Notification
      BY <1>1, <1>5
    <2> QED
      BY <1>1, <1>5, <2>1, SubSeqProperties
  <1>7. /\ rest \in Seq(Notification) /\ Len(rest) = Len(early[c]) - k
        /\ \A i \in 1..Len(rest) : rest[i] = early[c][k + i]
    <2>1. \A i \in (k + 1)..Len(early[c]) : early[c][i] \in Notification
      BY <1>1, <1>5
    <2>2. /\ rest \in Seq(Notification)
          /\ Len(rest) = IF k + 1 <= Len(early[c]) THEN Len(early[c]) - (k + 1) + 1 ELSE 0
          /\ \A i \in 1..(Len(early[c]) - (k + 1) + 1) : rest[i] = early[c][k + 1 + i - 1]
      BY <1>1, <1>5, <2>1, SubSeqProperties
    <2>3. Len(rest) = Len(early[c]) - k
      BY <1>1, <1>5, <2>2
    <2>4. \A i \in 1..Len(rest) : k + 1 + i - 1 = k + i /\ i \in 1..(Len(early[c]) - (k + 1) + 1)
      BY <1>1, <1>5, <2>3
    <2> QED
      BY <2>2, <2>3, <2>4
  <1>8. ~more => rest = <<>>
    BY <1>1, <1>4, <1>5, SubSeqEmpty
  <1>9. (IF sinks = {} THEN "waiting" ELSE "replaying") = IF more THEN "replaying" ELSE "waiting"
    OBVIOUS
  <1> HIDE DEF heard, rest
  <1>10. more \in BOOLEAN
    OBVIOUS
  <1> HIDE DEF more
  <1> QED
    BY <1>3, <1>4, <1>6, <1>7, <1>8, <1>9, <1>10, <1>11 DEF heard, rest

\* The replay keeps the order of the notifications, and loses none.
LEMMA ReplayedStep ==
  ASSUME RuntimeInv, RuntimeTypeOK', ConnectionInv', UNCHANGED connectionVars,
         NEW r \in Starters, run[r].at \in {"turn_start", "replaying"}, run[r].turn # 0,
         Replayed(r, run[r].channel),
         \/ ~Over /\ active' = [active EXCEPT ![run[r].channel] = r]
         \/ run[r].at = "replaying" /\ active' = active,
         UNCHANGED <<ready, queue, turns>>
  PROVE  TurnsInv'
  <1> DEFINE c == run[r].channel
  <1> USE DEF RuntimeInv, TurnsInv
  <1>0. /\ r \in Begun /\ c \in Channels /\ run \in [Starters -> Run] /\ Begun \subseteq Starters
        /\ starting \in [Channels -> BOOLEAN] /\ active \in [Channels -> Starters \cup {None}]
        /\ early \in [Channels -> Seq(Notification)]
        /\ Len(early[c]) \in Nat /\ DOMAIN early[c] = 1..Len(early[c])
    BY DEF Begun, Claims, RuntimeTypeOK
  <1>1. PICK k \in 0..Len(early[c]), more \in BOOLEAN :
           LET heard == SubSeq(early[c], 1, k)
               rest == SubSeq(early[c], k + 1, Len(early[c]))
           IN  /\ early' = [early EXCEPT ![c] = rest]
               /\ starting' = [starting EXCEPT ![c] = more]
               /\ run' = [run EXCEPT ![r] = [Hear(run[r], heard) EXCEPT
                                               !.at = IF more THEN "replaying" ELSE "waiting"]]
               /\ ~more => rest = <<>>
               /\ more => early[c] # <<>>
               /\ heard \in Seq(Notification) /\ Len(heard) = k
               /\ \A i \in 1..k : heard[i] = early[c][i]
               /\ rest \in Seq(Notification) /\ Len(rest) = Len(early[c]) - k
               /\ \A i \in 1..Len(rest) : rest[i] = early[c][k + i]
    BY <1>0, ReplaySplits
  <1> DEFINE heard == SubSeq(early[c], 1, k)
             rest == SubSeq(early[c], k + 1, Len(early[c]))
             h == Hear(run[r], heard)
  <1>2. /\ early' = [early EXCEPT ![c] = rest]
        /\ starting' = [starting EXCEPT ![c] = more]
        /\ run' = [run EXCEPT ![r] = [h EXCEPT !.at = IF more THEN "replaying" ELSE "waiting"]]
        /\ ~more => rest = <<>>
        /\ more => early[c] # <<>>
    BY <1>1
  <1>3. /\ heard \in Seq(Notification) /\ DOMAIN heard = 1..k /\ k \in Nat /\ k <= Len(early[c])
        /\ \A i \in 1..k : heard[i] = early[c][i]
    BY <1>0, <1>1
  <1>4. /\ rest \in Seq(Notification) /\ DOMAIN rest = 1..(Len(early[c]) - k)
        /\ \A i \in 1..(Len(early[c]) - k) : rest[i] = early[c][k + i]
    BY <1>0, <1>1
  <1> HIDE DEF heard, rest
  <1>5. /\ h \in Run /\ h.channel = c /\ h.client = run[r].client
        /\ h.generation = run[r].generation /\ h.turn = run[r].turn
        /\ h.answered = (run[r].answered \/ \E i \in DOMAIN heard : heard[i].kind = "answer")
    BY <1>0, <1>3, HearFacts
  <1>13. run[r] \in Run
    BY <1>0
  <1>6. h.done = "no_response" =>
          \/ run[r].done = "no_response" /\ h.by = run[r].by
          \/ \E i \in DOMAIN heard :
               /\ heard[i] = Says("completed", h.by) /\ ~run[r].answered
               /\ \A j \in DOMAIN heard : j <= i => heard[j].kind # "answer"
    BY <1>3, <1>13, HearFacts, Zenon
  <1> HIDE DEF h, c
  <1>7. /\ run'[r].at = (IF more THEN "replaying" ELSE "waiting")
        /\ run'[r].channel = c /\ run'[r].client = run[r].client
        /\ run'[r].generation = run[r].generation /\ run'[r].turn = run[r].turn
        /\ run'[r].answered = h.answered /\ run'[r].done = h.done /\ run'[r].by = h.by
        /\ \A q \in Starters : q # r => run'[q] = run[q]
    BY <1>0, <1>2, <1>5 DEF Run
  <1>8. Begun' = Begun
    BY <1>0, <1>7 DEF Begun
  <1>9. /\ starting'[c] = more /\ early'[c] = rest
        /\ \A d \in Channels : d # c => starting'[d] = starting[d] /\ early'[d] = early[d]
    BY <1>0, <1>2
  <1>10. ConnectionMoved /\ Over' = Over
    BY ConnectionMoves DEF ConnectionMoved, Over, connectionVars
  <1>11. ~Over => /\ \A q \in Begun : q # r => run[q].channel # c
                  /\ active'[c] = r /\ \A d \in Channels : d # c => active'[d] = active[d]
    BY <1>0 DEF Claims, c
  <1>12. Over => active' = active /\ early[c] = <<>> /\ k = 0 /\ ~more /\ rest = <<>>
    <2>1. Over => active' = active /\ early[c] = <<>>
      BY <1>0 DEF Claims, c
    <2>2. Over => Len(early[c]) = 0
      BY <2>1
    <2>3. Over => k = 0 /\ rest = <<>>
      BY <1>0, <1>3, <1>4, <2>2
    <2>4. Over => ~more
      BY <1>2, <2>1
    <2> QED
      BY <2>1, <2>3, <2>4
  <1>14. Published'
    BY <1>0, <1>7, <1>8, <1>10, PublishedStep DEF c
  <1>15. Claims'
    <2>1. \A q \in Begun' : run'[q].channel \in Channels
      BY <1>0, <1>7, <1>8 DEF Claims
    <2>2. CASE Over
      <3>1. \A d \in Channels : active'[d] = None /\ ~starting'[d] /\ early'[d] = <<>>
        BY <1>9, <1>12, <2>2 DEF Claims
      <3> QED
        BY <1>10, <2>1, <2>2, <3>1 DEF Claims
    <2>3. CASE ~Over
      <3>1. \A q \in Begun' : q \in Starters /\ q \in Begun
                             /\ (q = r \/ (q # r /\ run'[q] = run[q] /\ run[q].channel # c))
        BY <1>0, <1>7, <1>8, <1>11, <2>3
      <3>2. \A q \in Begun' : ready'[run'[q].channel] = q
        BY <1>7, <2>3, <3>1 DEF Claims, c
      <3>3. ASSUME NEW d \in Channels, active'[d] # None
            PROVE  active'[d] \in Begun' /\ run'[active'[d]].channel = d
        <4>1. CASE d = c
          BY <1>0, <1>7, <1>8, <1>11, <2>3, <4>1
        <4>2. CASE d # c
          BY <1>0, <1>7, <1>8, <1>11, <2>3, <3>3, <4>2 DEF Claims
        <4> QED
          BY <4>1, <4>2
      <3>4. \A d \in Channels : ~starting'[d] => early'[d] = <<>>
        BY <1>2, <1>9, <2>3 DEF Claims
      <3>5. ASSUME NEW q \in Begun'
            PROVE  /\ run'[q].at = "turn_start" => starting'[run'[q].channel]
                   /\ run'[q].at \in {"replaying", "waiting"} => active'[run'[q].channel] = q
                   /\ run'[q].at = "replaying" => starting'[run'[q].channel]
        <4>1. CASE q = r
          BY <1>7, <1>9, <1>11, <2>3, <4>1
        <4>2. CASE q # r
          <5>1. q \in Begun /\ run'[q] = run[q] /\ run[q].channel # c /\ run[q].channel \in Channels
            BY <3>1, <4>2 DEF Claims
          <5> QED
            BY <1>9, <1>11, <2>3, <5>1 DEF Claims
        <4> QED
          BY <4>1, <4>2
      <3> QED
        BY <1>10, <2>1, <2>3, <3>2, <3>3, <3>4, <3>5 DEF Claims
    <2> QED
      BY <2>2, <2>3
  <1>16. \A q \in Starters : run'[q].turn = run[q].turn /\ run'[q].channel = run[q].channel
                             /\ run'[q].client = run[q].client
    BY <1>7 DEF c
  <1>17. Accepted'
    <2>1. ASSUME NEW q \in Starters, run'[q].turn # 0
          PROVE  /\ q \in Begun' /\ run'[q].at # "loading"
                 /\ run'[q].turn \in DOMAIN turns'
                 /\ turns'[run'[q].turn].channel = run'[q].channel
                 /\ turns'[run'[q].turn].client = run'[q].client
                 /\ Over' \/ starting'[run'[q].channel] \/ active'[run'[q].channel] = q
      <3>1. /\ q \in Begun' /\ run'[q].turn \in DOMAIN turns'
            /\ turns'[run'[q].turn].channel = run'[q].channel
            /\ turns'[run'[q].turn].client = run'[q].client
        BY <1>8, <1>16, <2>1 DEF Accepted
      <3>2. run'[q].at # "loading"
        BY <1>7, <1>16, <2>1 DEF Accepted
      <3>3. Over' \/ starting'[run'[q].channel] \/ active'[run'[q].channel] = q
        <4>1. CASE Over
          BY <1>10, <4>1
        <4>2. CASE ~Over /\ q = r
          BY <1>7, <1>11, <4>2
        <4>3. CASE ~Over /\ q # r
          <5>1. q \in Begun /\ run[q].channel # c /\ run[q].channel \in Channels
            BY <1>8, <1>11, <3>1, <4>3 DEF Claims
          <5> QED
            BY <1>9, <1>11, <1>16, <2>1, <4>3, <5>1 DEF Accepted
        <4> QED
          BY <4>1, <4>2, <4>3
      <3> QED
        BY <3>1, <3>2, <3>3
    <2>2. \A q, s \in Starters : run'[q].turn # 0 /\ run'[q].turn = run'[s].turn => q = s
      BY <1>16 DEF Accepted
    <2> QED
      BY <2>1, <2>2 DEF Accepted
  <1>18. Notes'
    <2>1. \A d \in Channels : \A i \in DOMAIN early'[d] : early'[d][i].turn \in DOMAIN turns
      <3>1. ASSUME NEW i \in DOMAIN rest
            PROVE  rest[i].turn \in DOMAIN turns
        <4>1. k + i \in DOMAIN early[c] /\ rest[i] = early[c][k + i]
          BY <1>0, <1>3, <1>4
        <4> QED
          BY <1>0, <4>1 DEF Notes
      <3> QED
        BY <1>9, <3>1 DEF Notes
    <2> QED
      BY <2>1 DEF Notes
  <1>19. ~Over => Ordered(r)
    BY <1>0 DEF AnswersFirst
  <1>20. Decided'
    <2>1. ASSUME run'[r].done = "no_response"
          PROVE  run'[r].turn # 0 /\ run'[r].by # run'[r].turn
      <3>1. CASE run[r].done = "no_response" /\ h.by = run[r].by
        BY <1>7, <3>1 DEF Decided
      <3>2. ASSUME NEW i \in DOMAIN heard,
                   heard[i] = Says("completed", h.by), ~run[r].answered,
                   \A j \in DOMAIN heard : j <= i => heard[j].kind # "answer"
            PROVE  h.by # run[r].turn
        <4> SUFFICES ASSUME h.by = run[r].turn PROVE FALSE
          OBVIOUS
        <4>1. ~Over
          BY <1>3, <1>12, <3>2
        <4>2. i \in DOMAIN early[c] /\ early[c][i] = Says("completed", run[r].turn)
          BY <1>0, <1>3, <3>2
        <4>3. PICK j \in DOMAIN early[c] : j < i /\ early[c][j] = Says("answer", run[r].turn)
          BY <1>19, <3>2, <4>1, <4>2 DEF Ordered, c
        <4>4. j \in DOMAIN heard /\ heard[j] = Says("answer", run[r].turn) /\ j <= i
          BY <1>0, <1>3, <3>2, <4>3
        <4> QED
          BY <3>2, <4>4 DEF Says
      <3> QED
        BY <1>6, <1>7, <2>1, <3>1, <3>2
    <2> QED
      BY <1>7, <2>1 DEF Decided
  <1>21. AnswersFirst'
    <2> SUFFICES ASSUME NEW q \in Starters, run'[q].turn # 0, ~Over
                 PROVE  Ordered(q)'
      BY <1>10 DEF AnswersFirst
    <2>1. q \in Begun /\ run[q].turn # 0 /\ Ordered(q)
      BY <1>16 DEF AnswersFirst, Accepted
    <2>2. CASE q # r
      <3>1. run'[q] = run[q] /\ early'[run[q].channel] = early[run[q].channel]
        BY <1>7, <1>9, <1>11, <2>1, <2>2 DEF Claims
      <3>2. run[q].client \in Generations
        <4>1. run[q].client # 0 /\ run[q] \in Run
          BY <1>0, <2>1 DEF Published
        <4> QED
          BY <4>1 DEF Run, Generations
      <3>3. queue[run[q].client] \in Seq(Message)
        BY <3>2 DEF RuntimeTypeOK, Message
      <3>4. \A g \in Generations : g = run[q].client /\ Heard(g)' => Heard(g) /\ queue'[g] = queue[g]
        BY <1>10, <2>1, HeardBefore
      <3> QED
        BY <2>1, <3>1, <3>2, <3>3, <3>4, OrderedKept
    <2>3. CASE q = r
      <3> DEFINE t == run[r].turn
                 sent == queue[run[r].client]
      <3>1. Knows(r) => Knows(r)'
        <4>1. CASE run[r].answered
          BY <1>5, <1>7, <4>1 DEF Knows
        <4>2. ASSUME NEW i \in DOMAIN early[c], early[c][i] = Says("answer", t)
              PROVE  Knows(r)'
          <5>1. CASE i <= k
            <6>1. i \in DOMAIN heard /\ heard[i].kind = "answer"
              BY <1>0, <1>3, <4>2, <5>1 DEF Says
            <6> QED
              BY <1>5, <1>7, <6>1 DEF Knows
          <5>2. CASE i > k
            <6>1. i - k \in DOMAIN rest /\ rest[i - k] = Says("answer", t)
              BY <1>0, <1>3, <1>4, <4>2, <5>2
            <6> QED
              BY <1>7, <1>9, <6>1 DEF Knows
          <5> QED
            BY <1>0, <1>3, <5>1, <5>2
        <4> QED
          BY <4>1, <4>2 DEF Knows, c
      <3>2. ASSUME NEW i \in DOMAIN rest, rest[i] = Says("completed", t)
            PROVE  h.answered \/ \E j \in DOMAIN rest : j < i /\ rest[j] = Says("answer", t)
        <4>1. k + i \in DOMAIN early[c] /\ early[c][k + i] = Says("completed", t)
          BY <1>0, <1>3, <1>4, <3>2
        <4>2. run[r].answered \/ \E j \in DOMAIN early[c] : j < k + i /\ early[c][j] = Says("answer", t)
          BY <1>19, <4>1 DEF Ordered, c
        <4>3. CASE run[r].answered
          BY <1>5, <4>3
        <4>4. ASSUME NEW j \in DOMAIN early[c], j < k + i, early[c][j] = Says("answer", t)
              PROVE  h.answered \/ \E l \in DOMAIN rest : l < i /\ rest[l] = Says("answer", t)
          <5>1. CASE j <= k
            <6>1. j \in DOMAIN heard /\ heard[j].kind = "answer"
              BY <1>0, <1>3, <4>4, <5>1 DEF Says
            <6> QED
              BY <1>5, <6>1
          <5>2. CASE j > k
            <6>1. j - k \in DOMAIN rest /\ rest[j - k] = Says("answer", t) /\ j - k < i
              BY <1>0, <1>3, <1>4, <3>2, <4>4, <5>2
            <6> QED
              BY <6>1
          <5> QED
            BY <1>0, <1>3, <5>1, <5>2
        <4> QED
          BY <4>2, <4>3, <4>4
      <3>3. Heard(run[r].client)' = Heard(run[r].client)
        BY <1>16 DEF Heard, Current, connectionVars
      <3>4. ASSUME Heard(run[r].client)'
            PROVE  /\ \A i \in DOMAIN sent : sent[i] = Says("completed", t) =>
                        Knows(r)' \/ \E j \in DOMAIN sent : j < i /\ sent[j] = Says("answer", t)
                   /\ turns[t].state = "answered" =>
                        Knows(r)' \/ \E j \in DOMAIN sent : sent[j] = Says("answer", t)
        BY <1>19, <3>1, <3>3, <3>4 DEF Ordered
      <3> QED
        BY <1>7, <1>9, <2>3, <3>2, <3>3, <3>4 DEF Ordered
    <2> QED
      BY <2>2, <2>3
  <1> QED
    BY <1>14, <1>15, <1>17, <1>18, <1>20, <1>21

----------------------------------------------------------------------------
(* The server and the dispatcher.                                          *)

\* The server accepts the turn of a run that awaits the answer to turn/start.
LEMMA AcceptedStep ==
  ASSUME RuntimeInv, RuntimeTypeOK', ConnectionInv', NEW r \in Starters, TurnAccepted(r)
  PROVE  TurnsInv'
  <1> USE DEF RuntimeInv, TurnsInv
  <1> DEFINE n == Len(turns) + 1
             new == [channel |-> run[r].channel, client |-> run[r].client, state |-> "fresh"]
  <1>0. /\ r \in Begun /\ run \in [Starters -> Run] /\ Begun \subseteq Starters
        /\ run[r].at = "turn_start" /\ run[r].turn = 0 /\ turns \in Seq(Turn)
        /\ run[r].channel \in Channels /\ run[r].client \in Generations
    BY SMTT(30) DEF Begun, Claims, RuntimeTypeOK, TurnAccepted, Published, Run, Generations, Turn
  <1>1. /\ turns' = Append(turns, new) /\ run' = [run EXCEPT ![r].turn = Len(turns')]
        /\ UNCHANGED <<active, ready, starting, early, queue>> /\ UNCHANGED connectionVars
    BY DEF TurnAccepted
  <1>2. new \in Turn
    BY <1>0 DEF Turn
  <1>3. /\ DOMAIN turns = 1..Len(turns) /\ Len(turns) \in Nat
        /\ DOMAIN turns' = 1..n /\ Len(turns') = n
        /\ \A t \in 1..Len(turns) : turns'[t] = turns[t]
        /\ turns'[n] = new
    BY <1>0, <1>1, <1>2, AppendProperties, LenProperties
  <1>4. /\ n \notin DOMAIN turns /\ n \in DOMAIN turns' /\ DOMAIN turns \subseteq DOMAIN turns' /\ n # 0
    BY <1>3
  <1>5. /\ turns'[n].channel = run[r].channel /\ turns'[n].client = run[r].client
        /\ turns'[n].state = "fresh"
    BY <1>3
  <1> HIDE DEF new, n
  <1>6. /\ run'[r].at = "turn_start" /\ run'[r].turn = n /\ run'[r].channel = run[r].channel
        /\ run'[r].client = run[r].client /\ run'[r].generation = run[r].generation
        /\ run'[r].answered = run[r].answered /\ run'[r].done = run[r].done
        /\ \A q \in Starters : q # r => run'[q] = run[q]
    BY <1>0, <1>1, <1>3 DEF Run
  <1>7. Begun' = Begun
    BY <1>0, <1>6 DEF Begun
  <1>8. ConnectionMoved /\ Over' = Over
    BY <1>1, ConnectionMoves DEF ConnectionMoved, Over, connectionVars
  <1>9. Published'
    BY <1>0, <1>6, <1>7, <1>8, PublishedStep
  <1>10. \A q \in Starters : /\ run'[q].at = run[q].at /\ run'[q].channel = run[q].channel
                             /\ run'[q].client = run[q].client /\ run'[q].answered = run[q].answered
    BY <1>0, <1>6
  <1>11. Claims'
    <2>1. \A q \in Begun' : q \in Starters /\ q \in Begun
      BY <1>0, <1>7
    <2>2. \A q \in Begun' : run'[q].channel \in Channels
      BY <1>10, <2>1 DEF Claims
    <2>3. CASE Over
      BY <1>1, <1>8, <2>2, <2>3 DEF Claims
    <2>4. CASE ~Over
      <3>1. \A d \in Channels : active'[d] # None =>
              active'[d] \in Begun' /\ run'[active'[d]].channel = d
        BY <1>0, <1>1, <1>7, <1>10, <2>4 DEF Claims
      <3>2. \A q \in Begun' :
               /\ ready'[run'[q].channel] = q
               /\ run'[q].at = "turn_start" => starting'[run'[q].channel]
               /\ run'[q].at \in {"replaying", "waiting"} => active'[run'[q].channel] = q
               /\ run'[q].at = "replaying" => starting'[run'[q].channel]
        BY <1>1, <1>10, <2>1, <2>4 DEF Claims
      <3>3. \A d \in Channels : ~starting'[d] => early'[d] = <<>>
        BY <1>1, <2>4 DEF Claims
      <3> QED
        BY <1>8, <2>2, <2>4, <3>1, <3>2, <3>3 DEF Claims
    <2> QED
      BY <2>3, <2>4
  <1>12. Accepted'
    <2>1. ASSUME NEW q \in Starters, run'[q].turn # 0
          PROVE  /\ q \in Begun' /\ run'[q].at # "loading"
                 /\ run'[q].turn \in DOMAIN turns'
                 /\ turns'[run'[q].turn].channel = run'[q].channel
                 /\ turns'[run'[q].turn].client = run'[q].client
                 /\ Over' \/ starting'[run'[q].channel] \/ active'[run'[q].channel] = q
      <3>1. CASE q = r
        <4>1. Over' \/ starting'[run'[r].channel]
          BY <1>0, <1>1, <1>6, <1>8 DEF Claims
        <4> QED
          BY <1>0, <1>4, <1>5, <1>6, <1>7, <3>1, <4>1
      <3>2. CASE q # r
        <4>1. /\ q \in Begun /\ run[q].at # "loading" /\ run[q].turn \in DOMAIN turns
              /\ turns[run[q].turn].channel = run[q].channel
              /\ turns[run[q].turn].client = run[q].client
              /\ Over \/ starting[run[q].channel] \/ active[run[q].channel] = q
              /\ run'[q] = run[q]
          BY <1>6, <2>1, <3>2 DEF Accepted
        <4>2. run[q].turn \in DOMAIN turns' /\ turns'[run[q].turn] = turns[run[q].turn]
          BY <1>3, <1>4, <4>1
        <4> QED
          BY <1>1, <1>7, <1>8, <4>1, <4>2
      <3> QED
        BY <3>1, <3>2
    <2>2. \A q \in Starters : q # r => run'[q].turn = run[q].turn /\ run[q].turn # n
      BY <1>4, <1>6 DEF Accepted
    <2>3. \A q, s \in Starters : run'[q].turn # 0 /\ run'[q].turn = run'[s].turn => q = s
      BY <1>6, <2>2 DEF Accepted
    <2> QED
      BY <2>1, <2>3 DEF Accepted
  <1>13. Notes'
    BY <1>1, <1>3, <1>4 DEF Notes
  <1>14. AnswersFirst'
    <2> SUFFICES ASSUME NEW q \in Starters, run'[q].turn # 0, ~Over
                 PROVE  Ordered(q)'
      BY <1>8 DEF AnswersFirst
    <2>1. CASE q = r
      <3>1. \A i \in DOMAIN early[run[r].channel] : early[run[r].channel][i] # Says("completed", n)
        BY <1>0, <1>4 DEF Notes, Says
      <3>2. \A i \in DOMAIN queue[run[r].client] : queue[run[r].client][i] # Says("completed", n)
        BY <1>0, <1>4 DEF Notes, Says, Exited
      <3>3. \A i \in DOMAIN early'[run'[r].channel] :
              early'[run'[r].channel][i] # Says("completed", run'[r].turn)
        BY <1>1, <1>6, <3>1
      <3>4. \A i \in DOMAIN queue'[run'[r].client] :
              queue'[run'[r].client][i] # Says("completed", run'[r].turn)
        BY <1>1, <1>6, <3>2
      <3>5. turns'[run'[r].turn].state # "answered"
        BY <1>5, <1>6
      <3> QED
        BY <2>1, <3>3, <3>4, <3>5 DEF Ordered
    <2>2. CASE q # r
      <3>1. q \in Begun /\ run'[q] = run[q] /\ Ordered(q) /\ run[q].turn \in DOMAIN turns
        BY <1>6, <2>2 DEF AnswersFirst, Accepted
      <3>2. turns'[run[q].turn] = turns[run[q].turn]
        BY <1>3, <3>1
      <3>3. run[q].client \in Generations
        <4>1. run[q].client # 0 /\ run[q] \in Run
          BY <1>0, <3>1 DEF Published
        <4> QED
          BY <4>1 DEF Run, Generations
      <3>4. queue[run[q].client] \in Seq(Message)
        BY <3>3 DEF RuntimeTypeOK, Message
      <3>5. \A g \in Generations : g = run[q].client /\ Heard(g)' => Heard(g) /\ queue'[g] = queue[g]
        BY <1>1, <1>8, <3>1, HeardBefore
      <3> QED
        BY ZenonT(60), <1>1, <3>1, <3>2, <3>3, <3>4, <3>5, OrderedKept
    <2> QED
      BY <2>1, <2>2
  <1>15. Decided'
    BY <1>0, <1>6 DEF Decided
  <1> QED
    BY <1>9, <1>11, <1>12, <1>13, <1>14, <1>15

\* The server reports on a turn: it sends the answer before it completes the turn.
LEMMA ReportStep ==
  ASSUME RuntimeInv, RuntimeTypeOK', ConnectionInv', NEW t \in Turns, TurnReports(t)
  PROVE  TurnsInv'
  <1> USE DEF RuntimeInv, TurnsInv
  <1>1. PICK kind \in {"progress", "answer", "completed", "stopped"},
             state \in {"working", "answered", "ended"} :
          /\ Reports(t, kind, state)
          /\ kind = "completed" => turns[t].state = "answered"
          /\ state = "answered" <=> kind = "answer"
    BY DEF TurnReports
  <1>2. turns \in Seq(Turn) /\ t \in DOMAIN turns /\ DOMAIN turns = 1..Len(turns) /\ Len(turns) \in Nat
    BY DEF RuntimeTypeOK, TurnReports, Turn
  <1>3. PICK g \in Generations : g = turns[t].client
    <2>1. turns[t] \in Turn
      BY <1>2, ElementOfSeq
    <2> QED
      BY <2>1 DEF Turn
  <1>4. /\ turns' = [turns EXCEPT ![t].state = state]
        /\ queue' = [queue EXCEPT ![g] = Append(@, Says(kind, t))]
        /\ UNCHANGED connectionVars
        /\ UNCHANGED <<run, active, ready, starting, early, progressing, call>>
    BY <1>1, <1>3 DEF Reports, Says
  <1>5. /\ DOMAIN turns' = DOMAIN turns
        /\ \A s \in DOMAIN turns : /\ turns'[s].channel = turns[s].channel
                                   /\ turns'[s].client = turns[s].client
                                   /\ s # t => turns'[s] = turns[s]
        /\ turns'[t].state = state
    BY <1>2, <1>3, <1>4 DEF Turn
  <1>6. Says(kind, t) \in Notification /\ Says(kind, t) \in Message
    BY DEF Says, Notification, Message
  <1>7. /\ queue'[g] = Append(queue[g], Says(kind, t))
        /\ \A h \in Generations : h # g => queue'[h] = queue[h]
        /\ queue[g] \in Seq(Message)
    BY <1>3, <1>4 DEF RuntimeTypeOK, Message
  <1>8. /\ DOMAIN queue[g] = 1..Len(queue[g]) /\ Len(queue[g]) \in Nat
        /\ DOMAIN queue'[g] = 1..(Len(queue[g]) + 1)
        /\ \A i \in 1..Len(queue[g]) : queue'[g][i] = queue[g][i]
        /\ queue'[g][Len(queue[g]) + 1] = Says(kind, t)
    BY <1>6, <1>7, AppendProperties, LenProperties
  <1>9. \A i \in DOMAIN queue'[g] : i \in DOMAIN queue[g] \/ i = Len(queue[g]) + 1
    BY <1>8
  <1>10. ConnectionMoved /\ Over' = Over /\ Begun' = Begun
    BY <1>4, ConnectionMoves DEF ConnectionMoved, Over, connectionVars, Begun
  <1>11. Published'
    BY <1>4, <1>10, PublishedStep
  <1>12. Claims'
    BY <1>4, <1>10 DEF Claims
  <1>13. Accepted'
    BY <1>4, <1>5, <1>10 DEF Accepted
  <1>14. Notes'
    <2>1. ASSUME NEW h \in Generations, NEW i \in DOMAIN queue'[h], queue'[h][i] # Exited
          PROVE  queue'[h][i].turn \in DOMAIN turns' /\ turns'[queue'[h][i].turn].client = h
      <3>1. CASE h # g
        BY <1>5, <1>7, <2>1, <3>1 DEF Notes
      <3>2. CASE h = g /\ i \in DOMAIN queue[g]
        BY <1>5, <1>8, <2>1, <3>2 DEF Notes
      <3>3. CASE h = g /\ i = Len(queue[g]) + 1
        <4>1. queue'[h][i].turn = t
          BY <1>8, <3>3 DEF Says
        <4> QED
          BY <1>2, <1>3, <1>5, <3>3, <4>1
      <3> QED
        BY <1>9, <2>1, <3>1, <3>2, <3>3
    <2> QED
      BY <1>4, <1>5, <2>1 DEF Notes
  <1>15. AnswersFirst'
    <2> SUFFICES ASSUME NEW q \in Starters, run[q].turn # 0, ~Over
                 PROVE  Ordered(q)'
      BY <1>4, <1>10 DEF AnswersFirst
    <2>1. /\ q \in Begun /\ Ordered(q) /\ run[q].turn \in DOMAIN turns
          /\ turns[run[q].turn].client = run[q].client
      BY DEF AnswersFirst, Accepted
    <2>2. run[q].client \in Generations
      <3>1. run[q].client # 0 /\ run[q] \in Run
        BY <2>1 DEF Published, Begun, RuntimeTypeOK
      <3> QED
        BY <3>1 DEF Run, Generations
    <2>3. queue[run[q].client] \in Seq(Message)
      BY <2>2 DEF RuntimeTypeOK, Message
    <2>4. CASE run[q].turn # t
      <3>1. Says(kind, t) # Says("completed", run[q].turn)
        BY <2>4 DEF Says
      <3>2. \A h \in Generations : h = run[q].client /\ Heard(h)' =>
              /\ Heard(h)
              /\ \/ queue'[h] = queue[h]
                 \/ \E n \in Message : /\ n # Says("completed", run[q].turn)
                                       /\ queue'[h] = Append(queue[h], n)
        BY <1>6, <1>7, <1>10, <2>1, <3>1, HeardBefore
      <3>3. turns'[run[q].turn] = turns[run[q].turn]
        BY <1>5, <2>1, <2>4
      <3> QED
        BY <1>4, <2>1, <2>2, <2>3, <3>2, <3>3, OrderedKept
    <2>5. CASE run[q].turn = t
      <3>1. run[q].client = g
        BY <1>3, <2>1, <2>5
      <3>2. Knows(q)' = Knows(q)
        BY <1>4 DEF Knows
      <3>3. Heard(g)' => Heard(g)
        <4>1. conn' = conn
          BY <1>4 DEF connectionVars
        <4> QED
          BY <4>1 DEF Heard, Current
      <3>4. ASSUME Heard(g)'
            PROVE  /\ \A i \in DOMAIN queue[g] : queue[g][i] = Says("completed", t) =>
                        Knows(q) \/ \E j \in DOMAIN queue[g] : j < i /\ queue[g][j] = Says("answer", t)
                   /\ turns[t].state = "answered" =>
                        Knows(q) \/ \E j \in DOMAIN queue[g] : queue[g][j] = Says("answer", t)
        BY <2>1, <2>5, <3>1, <3>3, <3>4 DEF Ordered
      <3>5. ASSUME Heard(g)', NEW i \in DOMAIN queue'[g], queue'[g][i] = Says("completed", t)
            PROVE  Knows(q)' \/ \E j \in DOMAIN queue'[g] : j < i /\ queue'[g][j] = Says("answer", t)
        <4>1. CASE i \in DOMAIN queue[g]
          BY <1>8, <3>2, <3>4, <3>5, <4>1
        <4>2. CASE i = Len(queue[g]) + 1
          <5>1. kind = "completed"
            BY <1>8, <3>5, <4>2 DEF Says
          <5>2. Knows(q) \/ \E j \in DOMAIN queue[g] : queue[g][j] = Says("answer", t)
            BY <1>1, <3>4, <3>5, <5>1
          <5> QED
            BY <1>8, <3>2, <4>2, <5>2
        <4> QED
          BY <1>9, <3>5, <4>1, <4>2
      <3>6. turns'[t].state = "answered" => \E j \in DOMAIN queue'[g] : queue'[g][j] = Says("answer", t)
        <4>1. turns'[t].state = "answered" => kind = "answer"
          BY <1>1, <1>5
        <4> QED
          BY <1>8, <4>1
      <3>7. \A i \in DOMAIN early[run[q].channel] : early[run[q].channel][i] = Says("completed", t) =>
              run[q].answered \/ \E j \in DOMAIN early[run[q].channel] :
                                   j < i /\ early[run[q].channel][j] = Says("answer", t)
        BY <2>1, <2>5 DEF Ordered
      <3>8. /\ run'[q].turn = t /\ run'[q].client = g /\ run'[q] = run[q]
            /\ early'[run'[q].channel] = early[run[q].channel]
        BY <1>4, <2>5, <3>1
      <3>9. \A i \in DOMAIN early'[run'[q].channel] :
              early'[run'[q].channel][i] = Says("completed", t) =>
                run'[q].answered \/ \E j \in DOMAIN early'[run'[q].channel] :
                                     j < i /\ early'[run'[q].channel][j] = Says("answer", t)
        BY <3>7, <3>8
      <3> QED
        BY <3>5, <3>6, <3>8, <3>9 DEF Ordered
    <2> QED
      BY <2>4, <2>5
  <1>16. Decided'
    BY <1>4 DEF Decided
  <1> QED
    BY <1>11, <1>12, <1>13, <1>14, <1>15, <1>16

\* The dispatcher hands a notification on: it is buffered behind the earlier ones, or heard
\* by the run whose turn it is about when none are buffered.
LEMMA HandedStep ==
  ASSUME RuntimeInv, RuntimeTypeOK', ConnectionInv', NEW g \in Generations,
         Dispatch(g), Heard(g), Head(queue[g]) # Exited
  PROVE  TurnsInv'
  <1> USE DEF RuntimeInv, TurnsInv
  <1>1. PICK n \in Message : n = Head(queue[g])
    BY HeadTailProperties DEF RuntimeTypeOK, Message, Dispatch
  <1>2. n \in Notification
    BY <1>1 DEF Message
  <1>3. /\ queue[g] \in Seq(Message) /\ queue[g] # <<>> /\ queue' = [queue EXCEPT ![g] = Tail(@)]
        /\ queue \in [Generations -> Seq(Message)]
    BY DEF RuntimeTypeOK, Message, Dispatch
  <1>4. /\ DOMAIN queue[g] = 1..Len(queue[g]) /\ Len(queue[g]) \in Nat /\ 1 \in DOMAIN queue[g]
        /\ queue[g][1] = n
    BY <1>1, <1>3, LenProperties, EmptySeq
  <1>5. /\ queue'[g] \in Seq(Message) /\ Len(queue'[g]) = Len(queue[g]) - 1
        /\ \A i \in 1..Len(queue'[g]) : queue'[g][i] = queue[g][i + 1]
        /\ \A h \in Generations : h # g => queue'[h] = queue[h]
    BY <1>3, HeadTailProperties
  <1>6. \A i \in DOMAIN queue'[g] : /\ i \in Nat /\ i # 0 /\ i + 1 \in DOMAIN queue[g]
                                    /\ queue'[g][i] = queue[g][i + 1]
    BY <1>4, <1>5, LenProperties
  <1>7. \A j \in DOMAIN queue[g] : j \in Nat /\ (j = 1 \/ (j > 1 /\ j - 1 \in DOMAIN queue'[g]
                                                      /\ queue'[g][j - 1] = queue[g][j]))
    <2> SUFFICES ASSUME NEW j \in DOMAIN queue[g], j # 1
                 PROVE  j > 1 /\ j - 1 \in DOMAIN queue'[g] /\ queue'[g][j - 1] = queue[g][j]
      BY <1>4
    <2>1. j \in Nat /\ j > 1 /\ j - 1 \in 1..Len(queue'[g])
      BY <1>4, <1>5
    <2>2. DOMAIN queue'[g] = 1..Len(queue'[g]) /\ (j - 1) + 1 = j
      BY <1>5, <2>1, LenProperties
    <2> QED
      BY <1>5, <2>1, <2>2
  <1>8. ~conn.closed /\ ~Over
    BY DEF Heard, Over, ConnectionInv, CloserInv, Generations
  <1>9. n.turn \in DOMAIN turns /\ turns[n.turn].client = g
    BY <1>1, <1>4 DEF Notes
  <1>10. PICK thread \in Channels : thread = turns[n.turn].channel
    <2>1. turns \in Seq(Turn) /\ n.turn \in 1..Len(turns)
      BY <1>9 DEF RuntimeTypeOK, Turn
    <2>2. turns[n.turn] \in Turn
      BY <2>1, ElementOfSeq
    <2> QED
      BY <2>2 DEF Turn
  <1> DEFINE owner == active[thread]
             own == owner # None /\ run[owner].turn = n.turn
  <1>11. /\ UNCHANGED connectionVars /\ UNCHANGED <<active, ready, starting, turns>>
         /\ early' = IF starting[thread] THEN [early EXCEPT ![thread] = Append(@, n)] ELSE early
         /\ run' = IF ~starting[thread] /\ own
                   THEN [run EXCEPT ![owner] = Hear(@, <<n>>)] ELSE run
    BY <1>1, <1>10 DEF Dispatch, Heard
  <1>12. /\ run \in [Starters -> Run] /\ early \in [Channels -> Seq(Notification)]
         /\ starting \in [Channels -> BOOLEAN] /\ Begun \subseteq Starters
    BY DEF RuntimeTypeOK, Begun
  <1>13. owner # None => owner \in Begun /\ owner \in Starters /\ run[owner].channel = thread
    BY <1>8, <1>12 DEF Claims
  <1>14. \A d \in Channels : d # thread => early'[d] = early[d]
    BY <1>11, <1>12
  <1>15. ~starting[thread] => early[thread] = <<>> /\ early' = early
    BY <1>8, <1>11 DEF Claims
  <1>16. starting[thread] =>
           /\ run' = run
           /\ DOMAIN early[thread] = 1..Len(early[thread]) /\ Len(early[thread]) \in Nat
           /\ DOMAIN early'[thread] = 1..(Len(early[thread]) + 1)
           /\ \A i \in 1..Len(early[thread]) : early'[thread][i] = early[thread][i]
           /\ early'[thread][Len(early[thread]) + 1] = n
    BY <1>2, <1>11, <1>12, AppendProperties, LenProperties
  <1>17. <<n>> \in Seq(Notification) /\ DOMAIN <<n>> = {1} /\ <<n>>[1] = n
    BY <1>2
  <1>18. ASSUME ~starting[thread], own
         PROVE  /\ run'[owner].at = run[owner].at /\ run'[owner].channel = run[owner].channel
                /\ run'[owner].client = run[owner].client
                /\ run'[owner].generation = run[owner].generation
                /\ run'[owner].turn = run[owner].turn
                /\ run'[owner].answered = (run[owner].answered \/ n.kind = "answer")
                /\ run'[owner].done = "no_response" =>
                     \/ run[owner].done = "no_response" /\ run'[owner].by = run[owner].by
                     \/ n = Says("completed", run'[owner].by) /\ ~run[owner].answered
                /\ \A q \in Starters : q # owner => run'[q] = run[q]
    <2>1. owner \in Starters /\ run[owner] \in Run
      BY <1>12, <1>13, <1>18
    <2>2. run'[owner] = Hear(run[owner], <<n>>) /\ \A q \in Starters : q # owner => run'[q] = run[q]
      BY <1>11, <1>12, <1>18, <2>1
    <2> HIDE DEF owner
    <2> DEFINE h == Hear(run[owner], <<n>>)
    <2>3. /\ h.at = run[owner].at /\ h.channel = run[owner].channel
          /\ h.client = run[owner].client /\ h.generation = run[owner].generation
          /\ h.turn = run[owner].turn
          /\ h.answered = (run[owner].answered \/ \E i \in DOMAIN <<n>> : <<n>>[i].kind = "answer")
      BY <1>17, <2>1, HearFacts
    <2>4. h.done = "no_response" =>
            \/ run[owner].done = "no_response" /\ h.by = run[owner].by
            \/ \E k \in DOMAIN <<n>> : <<n>>[k] = Says("completed", h.by) /\ ~run[owner].answered
      BY <1>17, <2>1, HearFacts, Zenon
    <2> HIDE DEF h
    <2>5. h.answered = (run[owner].answered \/ n.kind = "answer")
      BY <1>17, <2>3
    <2>6. h.done = "no_response" =>
            \/ run[owner].done = "no_response" /\ h.by = run[owner].by
            \/ n = Says("completed", h.by) /\ ~run[owner].answered
      BY <1>17, <2>4
    <2>7. run'[owner] = h
      BY <2>2 DEF h
    <2> QED
      BY <2>2, <2>3, <2>5, <2>6, <2>7
  <1>19. \A q \in Starters : /\ run'[q].at = run[q].at /\ run'[q].channel = run[q].channel
                             /\ run'[q].client = run[q].client
                             /\ run'[q].generation = run[q].generation
                             /\ run'[q].turn = run[q].turn
                             /\ run[q].answered => run'[q].answered
    BY <1>11, <1>18
  <1> HIDE DEF owner, own
  <1>20. Begun' = Begun /\ conn' = conn /\ Over' = Over
    BY <1>11, <1>19 DEF Begun, connectionVars, Over
  <1>21. ConnectionMoved
    BY <1>11, ConnectionMoves
  <1>22. Published'
    BY <1>12, <1>19, <1>20, <1>21, PublishedStep
  <1>23. Claims'
    <2>1. \A q \in Begun' : q \in Starters /\ q \in Begun
      BY <1>12, <1>20
    <2>2. \A q \in Begun' : run'[q].channel \in Channels
      BY <1>19, <2>1 DEF Claims
    <2>3. ASSUME NEW d \in Channels, active'[d] # None
          PROVE  active'[d] \in Begun' /\ run'[active'[d]].channel = d
      <3>1. active'[d] \in Begun /\ run[active'[d]].channel = d
        BY <1>8, <1>11, <2>3 DEF Claims
      <3> QED
        BY <1>12, <1>19, <1>20, <3>1
    <2>4. \A q \in Begun' :
             /\ ready'[run'[q].channel] = q
             /\ run'[q].at = "turn_start" => starting'[run'[q].channel]
             /\ run'[q].at \in {"replaying", "waiting"} => active'[run'[q].channel] = q
             /\ run'[q].at = "replaying" => starting'[run'[q].channel]
      BY <1>8, <1>11, <1>19, <2>1 DEF Claims
    <2>5. \A d \in Channels : ~starting'[d] => early'[d] = <<>>
      BY <1>8, <1>11, <1>14, <1>15 DEF Claims
    <2> QED
      BY <1>8, <1>20, <2>2, <2>3, <2>4, <2>5 DEF Claims
  <1>24. Accepted'
    <2>1. \A q \in Starters : run'[q].turn # 0 =>
            /\ q \in Begun' /\ run'[q].at # "loading"
            /\ run'[q].turn \in DOMAIN turns'
            /\ turns'[run'[q].turn].channel = run'[q].channel
            /\ turns'[run'[q].turn].client = run'[q].client
            /\ Over' \/ starting'[run'[q].channel] \/ active'[run'[q].channel] = q
      BY <1>11, <1>19, <1>20 DEF Accepted
    <2>2. \A q, s \in Starters : run'[q].turn # 0 /\ run'[q].turn = run'[s].turn => q = s
      BY <1>19 DEF Accepted
    <2> QED
      BY <2>1, <2>2 DEF Accepted
  <1>25. Notes'
    <2>1. \A h \in Generations : \A i \in DOMAIN queue'[h] : queue'[h][i] # Exited =>
            queue'[h][i].turn \in DOMAIN turns /\ turns[queue'[h][i].turn].client = h
      <3>1. ASSUME NEW i \in DOMAIN queue'[g], queue'[g][i] # Exited
            PROVE  queue'[g][i].turn \in DOMAIN turns /\ turns[queue'[g][i].turn].client = g
        BY <1>6, <3>1 DEF Notes
      <3>2. ASSUME NEW h \in Generations, h # g
            PROVE  queue'[h] = queue[h]
        BY <1>5, <3>2
      <3> QED
        BY <3>1, <3>2 DEF Notes
    <2>2. \A d \in Channels : \A i \in DOMAIN early'[d] : early'[d][i].turn \in DOMAIN turns
      <3>1. CASE starting[thread]
        <4>1. \A i \in DOMAIN early'[thread] : i \in DOMAIN early[thread] \/ i = Len(early[thread]) + 1
          BY <1>16, <3>1
        <4>2. \A i \in DOMAIN early'[thread] : early'[thread][i].turn \in DOMAIN turns
          BY <1>9, <1>16, <3>1, <4>1 DEF Notes
        <4> QED
          BY <1>14, <4>2 DEF Notes
      <3>2. CASE ~starting[thread]
        BY <1>15, <3>2 DEF Notes
      <3> QED
        BY <3>1, <3>2
    <2> QED
      BY <1>11, <2>1, <2>2 DEF Notes
  \* The turn that the notification is about is that of the run that gets it.
  <1>26. ASSUME NEW q \in Starters, run[q].turn = n.turn, run[q].turn # 0
         PROVE  /\ q \in Begun /\ run[q].channel = thread /\ run[q].client = g /\ Ordered(q)
                /\ ~starting[thread] => own /\ owner = q
    <2>1. /\ q \in Begun /\ run[q].channel = thread /\ run[q].client = g /\ Ordered(q)
          /\ starting[thread] \/ active[thread] = q
      BY <1>8, <1>9, <1>10, <1>26 DEF Accepted, AnswersFirst
    <2>2. q # None
      BY NoneAssumption
    <2> QED
      BY <1>26, <2>1, <2>2 DEF own, owner
  \* Its end comes after its answer.
  <1>27. ASSUME NEW q \in Starters, run[q].turn # 0, n = Says("completed", run[q].turn)
         PROVE  Knows(q)
    <2>1. Ordered(q) /\ run[q].client = g
      BY <1>26, <1>27 DEF Says
    <2>2. Knows(q) \/ \E j \in DOMAIN queue[g] : j < 1
      BY <1>4, <1>27, <2>1 DEF Ordered
    <2> QED
      BY <1>7, <2>2
  <1>28. Decided'
    <2>1. ASSUME NEW q \in Starters, run'[q].done = "no_response"
          PROVE  run'[q].turn # 0 /\ run'[q].by # run'[q].turn
      <3>1. CASE run'[q].done = run[q].done /\ run'[q].by = run[q].by
        BY <1>19, <2>1, <3>1 DEF Decided
      <3>2. CASE /\ ~starting[thread] /\ own /\ q = owner
                 /\ n = Says("completed", run'[q].by) /\ ~run[q].answered
        <4>1. run[q].turn = n.turn /\ n.turn = run'[q].by
          BY <3>2 DEF Says, own
        <4>2. run[q].turn # 0
          BY <1>2, <4>1 DEF Notification, Turns
        <4>3. Knows(q)
          BY <1>27, <3>2, <4>1, <4>2
        <4>4. run[q].channel = thread
          BY <1>26, <4>1, <4>2
        <4>5. \E i \in DOMAIN early[thread] : TRUE
          BY <3>2, <4>3, <4>4 DEF Knows
        <4> QED
          BY <1>15, <3>2, <4>5
      <3> QED
        BY <1>11, <1>18, <2>1, <3>1, <3>2
    <2> QED
      BY <1>19, <2>1 DEF Decided
  <1>29. AnswersFirst'
    <2> SUFFICES ASSUME NEW q \in Starters, run'[q].turn # 0
                 PROVE  Ordered(q)'
      BY DEF AnswersFirst
    <2>1. PICK t, k, c : t = run[q].turn /\ k = run[q].client /\ c = run[q].channel
      OBVIOUS
    <2>2. /\ q \in Begun /\ Ordered(q) /\ t # 0 /\ t \in DOMAIN turns
          /\ c \in Channels /\ turns[t].client = k /\ turns[t].channel = c
          /\ run'[q].turn = t /\ run'[q].client = k /\ run'[q].channel = c
      BY <1>8, <1>19, <2>1 DEF AnswersFirst, Accepted, Claims
    <2>3. k \in Generations
      <3>1. run[q].client # 0 /\ run[q] \in Run
        BY <1>12, <2>2 DEF Published
      <3> QED
        BY <2>1, <3>1 DEF Run, Generations
    <2>4. /\ \A i \in DOMAIN early[c] : early[c][i] = Says("completed", t) =>
               run[q].answered \/ \E j \in DOMAIN early[c] : j < i /\ early[c][j] = Says("answer", t)
          /\ Heard(k) =>
               /\ \A i \in DOMAIN queue[k] : queue[k][i] = Says("completed", t) =>
                    Knows(q) \/ \E j \in DOMAIN queue[k] : j < i /\ queue[k][j] = Says("answer", t)
               /\ turns[t].state = "answered" =>
                    Knows(q) \/ \E j \in DOMAIN queue[k] : queue[k][j] = Says("answer", t)
      BY <2>1, <2>2 DEF Ordered
    \* The answer stays known, and it is when it is what was handed on.
    <2>5. Knows(q) => Knows(q)'
      <3>1. CASE run[q].answered
        BY <1>19, <3>1 DEF Knows
      <3>2. ASSUME NEW i \in DOMAIN early[c], early[c][i] = Says("answer", t)
            PROVE  \E j \in DOMAIN early'[c] : early'[c][j] = Says("answer", t)
        <4>1. CASE c = thread /\ starting[thread]
          BY <1>16, <3>2, <4>1
        <4>2. CASE c # thread \/ ~starting[thread]
          BY <1>14, <1>15, <2>2, <3>2, <4>2
        <4> QED
          BY <4>1, <4>2
      <3> QED
        BY <2>1, <2>2, <3>1, <3>2 DEF Knows
    <2>6. n = Says("answer", t) => Knows(q)'
      <3> SUFFICES ASSUME n = Says("answer", t) PROVE Knows(q)'
        OBVIOUS
      <3>1. c = thread /\ (~starting[thread] => own /\ owner = q) /\ n.kind = "answer"
        BY <1>26, <2>1, <2>2 DEF Says
      <3>2. CASE starting[thread]
        <4>1. \E i \in DOMAIN early'[c] : early'[c][i] = Says("answer", t)
          BY <1>16, <3>1, <3>2
        <4> QED
          BY <2>2, <4>1 DEF Knows
      <3>3. CASE ~starting[thread]
        BY <1>18, <3>1, <3>3 DEF Knows
      <3> QED
        BY <3>2, <3>3
    <2>7. ASSUME NEW i \in DOMAIN early'[c], early'[c][i] = Says("completed", t)
          PROVE  run'[q].answered \/ \E j \in DOMAIN early'[c] : j < i /\ early'[c][j] = Says("answer", t)
      <3>1. CASE early'[c] = early[c]
        BY <1>19, <2>4, <2>7, <3>1
      <3>2. CASE c = thread /\ starting[thread] /\ i \in DOMAIN early[c]
        BY SMTT(30), <1>16, <2>4, <2>7, <3>2
      <3>3. CASE c = thread /\ starting[thread] /\ i = Len(early[c]) + 1
        <4>1. n = Says("completed", t)
          BY <1>16, <2>7, <3>3
        <4>2. Knows(q)
          BY <1>27, <2>1, <2>2, <4>1
        <4>3. run[q].answered \/ \E j \in DOMAIN early[c] : early[c][j] = Says("answer", t)
          BY <2>1, <4>2 DEF Knows
        <4> QED
          BY <1>16, <3>3, <4>3
      <3>4. c = thread /\ starting[thread] => i \in DOMAIN early[c] \/ i = Len(early[c]) + 1
        BY <1>16, <2>7
      <3> QED
        BY <1>14, <1>15, <2>2, <3>1, <3>2, <3>3, <3>4
    <2>8. Heard(k)' => Heard(k) /\ k = g
      BY <1>20 DEF Heard, Current
    <2>9. ASSUME Heard(k)'
          PROVE  /\ \A i \in DOMAIN queue'[k] : queue'[k][i] = Says("completed", t) =>
                      Knows(q)' \/ \E j \in DOMAIN queue'[k] : j < i /\ queue'[k][j] = Says("answer", t)
                 /\ turns[t].state = "answered" =>
                      Knows(q)' \/ \E j \in DOMAIN queue'[k] : queue'[k][j] = Says("answer", t)
      <3>1. ASSUME NEW i \in DOMAIN queue'[g], queue'[g][i] = Says("completed", t)
            PROVE  Knows(q)' \/ \E j \in DOMAIN queue'[g] : j < i /\ queue'[g][j] = Says("answer", t)
        <4>1. i + 1 \in DOMAIN queue[g] /\ queue[g][i + 1] = Says("completed", t) /\ i \in Nat
          BY <1>6, <3>1
        <4>2. Knows(q) \/ \E j \in DOMAIN queue[g] : j < i + 1 /\ queue[g][j] = Says("answer", t)
          BY <2>4, <2>8, <2>9, <4>1
        <4>3. ASSUME NEW j \in DOMAIN queue[g], j < i + 1, queue[g][j] = Says("answer", t)
              PROVE  n = Says("answer", t) \/ \E l \in DOMAIN queue'[g] : l < i /\ queue'[g][l] = Says("answer", t)
          BY <1>4, <1>7, <4>1, <4>3
        <4> QED
          BY <2>5, <2>6, <4>2, <4>3
      <3>2. turns[t].state = "answered" =>
              Knows(q)' \/ \E j \in DOMAIN queue'[g] : queue'[g][j] = Says("answer", t)
        <4>1. ASSUME NEW j \in DOMAIN queue[g], queue[g][j] = Says("answer", t)
              PROVE  n = Says("answer", t) \/ \E l \in DOMAIN queue'[g] : queue'[g][l] = Says("answer", t)
          BY <1>4, <1>7, <4>1
        <4> QED
          BY <2>4, <2>5, <2>6, <2>8, <2>9, <4>1
      <3> QED
        BY <2>8, <2>9, <3>1, <3>2
    <2>10. turns' = turns
      BY <1>11
    <2> QED
      BY <2>2, <2>7, <2>9, <2>10 DEF Ordered
  <1> QED
    BY <1>22, <1>23, <1>24, <1>25, <1>28, <1>29

----------------------------------------------------------------------------
(* The end of close().                                                     *)

\* The tables are emptied, whatever runs were under way.
LEMMA EmptiedStep ==
  ASSUME RuntimeInv, RuntimeTypeOK', ConnectionInv', ConnectionMoved, Over', turns' = turns,
         \A c \in Channels : active'[c] = None /\ ~starting'[c] /\ early'[c] = <<>>,
         \A q \in Starters : Keeps(q), \A g \in Generations : KeepsQueue(g) \/ queue'[g] = <<>>
  PROVE  TurnsInv'
  <1> USE DEF RuntimeInv, TurnsInv
  <1>1. \A q \in Starters :
           /\ q \in Begun <=> q \in Begun'
           /\ q \in Begun =>
                /\ run'[q].at \in {run[q].at, "interrupting", "grace", "cancelling", "self_wait"}
                /\ run'[q].channel = run[q].channel /\ run'[q].client = run[q].client
                /\ run'[q].generation = run[q].generation /\ run'[q].turn = run[q].turn
           /\ q \notin Begun => run'[q].turn = 0
    BY DEF Keeps, Begun, Accepted
  <1>2. Begun \subseteq Starters /\ Begun' = Begun
    BY <1>1 DEF Begun
  <1>3. Published'
    BY <1>1, <1>2, PublishedStep
  <1>4. Claims'
    BY <1>1, <1>2 DEF Claims
  <1>5. Accepted'
    <2>1. \A r \in Starters : run'[r].turn # 0 => r \in Begun /\ run[r].turn = run'[r].turn
      BY <1>1
    <2>2. \A r \in Starters : run'[r].turn # 0 =>
            /\ r \in Begun' /\ run'[r].at # "loading"
            /\ run'[r].turn \in DOMAIN turns'
            /\ turns'[run'[r].turn].channel = run'[r].channel
            /\ turns'[run'[r].turn].client = run'[r].client
      BY <1>1, <1>2, <2>1 DEF Accepted
    <2>3. \A r, q \in Starters : run'[r].turn # 0 /\ run'[r].turn = run'[q].turn => r = q
      BY <1>1, <2>1 DEF Accepted
    <2> QED
      BY <2>2, <2>3 DEF Accepted
  <1>6. Notes'
    <2>1. ASSUME NEW g \in Generations, NEW i \in DOMAIN queue'[g], queue'[g][i] # Exited
          PROVE  queue'[g][i].turn \in DOMAIN turns /\ turns[queue'[g][i].turn].client = g
      BY <2>1, KeptNotes DEF RuntimeTypeOK, Message
    <2> QED
      BY <2>1 DEF Notes
  <1>7. AnswersFirst'
    BY DEF AnswersFirst
  <1>8. Decided'
    BY <1>1 DEF Decided, Keeps, Begun
  <1> QED
    BY <1>3, <1>4, <1>5, <1>6, <1>7, <1>8

----------------------------------------------------------------------------
(* The runtime and its connection.                                         *)

\* Whatever the runtime does, it uses the connection as the connection's own specification
\* allows its callers to.
LEMMA ConnectionUsed == RuntimeTypeOK /\ Next => [ConnectionNext]_connectionVars
  <1> SUFFICES ASSUME RuntimeTypeOK, Next
               PROVE  ConnectionNext \/ UNCHANGED connectionVars
    OBVIOUS
  <1> DEFINE Fine == ConnectionNext \/ UNCHANGED connectionVars
  <1>0. /\ conn.generation \in 0..(MaxGeneration + 1) /\ conn.failure \in 0..(MaxGeneration + 1)
        /\ \A r \in Starters : /\ run[r].generation \in 0..(MaxGeneration + 1)
                               /\ run[r].client \in 0..(MaxGeneration + 1)
        /\ \A u \in Callers : call[u].generation \in 0..(MaxGeneration + 1)
        /\ Generations \subseteq 0..(MaxGeneration + 1)
    BY DEF RuntimeTypeOK, ConnectionTypeOK, Connection, Run, Call, Generations
  <1>1. ASSUME NEW g \in 0..(MaxGeneration + 1), NEW e \in 0..(MaxGeneration + 1), Invalidate(g, e)
        PROVE  Fine
    BY <1>1 DEF ConnectionNext
  <1>2. ASSUME NEW g \in 0..(MaxGeneration + 1), NEW e \in 0..(MaxGeneration + 1), Fails(g, e)
        PROVE  Fine
    BY <1>1, <1>2 DEF Fails
  <1>3. ASSUME NEW s \in Starters,
               StartWaits(s) \/ StartResumes(s) \/ StartRaises(s) \/ StartAbandoned(s)
        PROVE  Fine
    BY <1>3 DEF ConnectionNext
  <1>4. ASSUME NEW s \in Starters, StartReturns(s)
        PROVE  Fine
    BY <1>4 DEF StartReturns
  <1>5. ASSUME RecoveryStep \/ Close \/ CloseGoesOn \/ CloseEnds
        PROVE  Fine
    BY <1>5 DEF ConnectionNext
  <1>6. ASSUME NEW g \in Generations, ServerExits(g)
        PROVE  Fine
    BY <1>6 DEF ConnectionNext
  <1>7. ASSUME UNCHANGED connectionVars
        PROVE  Fine
    BY <1>7
  <1> HIDE DEF Fine
  <1>8. ASSUME NEW r \in Starters, NEW c \in Channels \cup {None}, StartRun(r, c)
        PROVE  Fine
    BY <1>0, <1>1, <1>3, <1>4, <1>8 DEF StartRun
  <1>9. ASSUME NEW r \in Starters, GenerationGone(r)
        PROVE  Fine
    <2>1. (IF conn.failure # 0 THEN conn.failure ELSE run[r].generation) \in 0..(MaxGeneration + 1)
      BY <1>0
    <2> QED
      BY <1>0, <1>1, <1>9, <2>1 DEF GenerationGone
  <1>10. ASSUME NEW r \in Starters, RunStarts(r) \/ RunCannotStart(r)
         PROVE  Fine
    BY <1>3, <1>10 DEF RunStarts, RunCannotStart
  <1>11. ASSUME NEW r \in Starters, ThreadLoaded(r) \/ TurnStarted(r)
         PROVE  Fine
    BY <1>7, <1>9, <1>11 DEF ThreadLoaded, TurnStarted
  <1>12. ASSUME NEW r \in Starters, RequestFails(r)
         PROVE  Fine
    BY <1>0, <1>1, <1>2, <1>12 DEF RequestFails
  <1>13. ASSUME NEW r \in Starters,
                \/ Replay(r) \/ RunEnds(r) \/ TurnTimesOut(r) \/ Interrupted(r) \/ TurnAccepted(r)
         PROVE  Fine
    BY <1>7, <1>13 DEF Replay, RunEnds, TurnTimesOut, Interrupted, TurnAccepted
  <1>14. ASSUME NEW r \in Starters, Cancel(r)
         PROVE  Fine
    BY <1>3, <1>7, <1>14 DEF Cancel
  <1>15. ASSUME NEW u \in Callers, CallWaited(u) \/ CallEnds(u) \/ \E c \in Channels : CallBegins(u, c)
         PROVE  Fine
    BY <1>0, <1>2, <1>7, <1>15 DEF CallWaited, CallEnds, CallBegins
  <1>16. ASSUME NEW g \in Generations, Dispatch(g) \/ ProgressSent(g) \/ ServerFails(g)
         PROVE  Fine
    BY <1>0, <1>1, <1>6, <1>7, <1>16 DEF Dispatch, ProgressSent, ServerFails
  <1>17. ASSUME NEW t \in Turns, TurnReports(t)
         PROVE  Fine
    BY <1>7, <1>17 DEF TurnReports, Reports
  <1>18. ASSUME Recover \/ CloseRuntime
         PROVE  Fine
    BY <1>5, <1>18 DEF Recover, CloseRuntime
  <1>19. Fine
    BY <1>8, <1>10, <1>11, <1>12, <1>13, <1>14, <1>15, <1>16, <1>17, <1>18 DEF Next
  <1> QED
    BY <1>19 DEF Fine

----------------------------------------------------------------------------
(* Types.                                                                  *)

\* The records that the steps write are well typed.
LEMMA WrittenTypes ==
  ASSUME RuntimeTypeOK
  PROVE  /\ IdleRun \in Run /\ IdleCall \in Call
         /\ \A r \in Starters : Disconnect(run[r]) \in Run
         /\ \A S : Woken(S) \in [Callers -> Call]
         /\ \A r \in Starters, at \in {"idle", "starting", "loading", "turn_start", "replaying",
                   "waiting", "interrupting", "grace", "cancelling", "self_wait"} :
               /\ [run[r] EXCEPT !.at = at] \in Run
               /\ [Disconnect(run[r]) EXCEPT !.at = at] \in Run
  <1>1. \A r \in Starters : run[r] \in Run
    BY DEF RuntimeTypeOK
  <1>2. IdleRun \in Run /\ IdleCall \in Call
    BY MaxTurnsAssumption DEF IdleRun, IdleCall, Run, Call, Outcome
  <1>3. \A r \in Starters : Disconnect(run[r]) \in Run
    BY <1>1 DEF Disconnect, Run, Outcome
  <1>4. \A S : Woken(S) \in [Callers -> Call]
    BY DEF RuntimeTypeOK, Woken, Call
  <1>5. ASSUME NEW r \in Starters,
               NEW at \in {"idle", "starting", "loading", "turn_start", "replaying",
                   "waiting", "interrupting", "grace", "cancelling", "self_wait"}
        PROVE  [run[r] EXCEPT !.at = at] \in Run /\ [Disconnect(run[r]) EXCEPT !.at = at] \in Run
    BY <1>1, <1>3 DEF Run
  <1> QED
    BY <1>2, <1>3, <1>4, <1>5

RuntimeRest ==
  /\ run \in [Starters -> Run]
  /\ active \in [Channels -> Starters \cup {None}]
  /\ ready \in [Channels -> Starters \cup {None}]
  /\ starting \in [Channels -> BOOLEAN]
  /\ early \in [Channels -> Seq(Notification)]
  /\ queue \in [Generations -> Seq(Message)]
  /\ progressing \subseteq Generations
  /\ turns \in Seq(Turn)
  /\ call \in [Callers -> Call]

\* The end of a run is well typed.
LEMMA FinishedTypes ==
  ASSUME RuntimeTypeOK, NEW r \in Starters, Finished(r)
  PROVE  RuntimeRest'
  <1>1. run' \in [Starters -> Run]
    BY WrittenTypes DEF RuntimeTypeOK, Finished
  <1>2. early' \in [Channels -> Seq(Notification)]
    <2>1. <<>> \in Seq(Notification)
      OBVIOUS
    <2> QED
      BY <2>1 DEF RuntimeTypeOK, Finished
  <1>3. call' \in [Callers -> Call]
    BY WrittenTypes DEF Finished
  <1> QED
    BY <1>1, <1>2, <1>3 DEF RuntimeRest, RuntimeTypeOK, Finished, Message, Turn

\* The replay is well typed.
LEMMA ReplayedTypes ==
  ASSUME RuntimeTypeOK, NEW r \in Starters, NEW c \in Channels, Replayed(r, c)
  PROVE  /\ run' \in [Starters -> Run] /\ starting' \in [Channels -> BOOLEAN]
         /\ early' \in [Channels -> Seq(Notification)]
  <1>1. PICK k \in 0..Len(early[c]), more \in BOOLEAN :
           LET heard == SubSeq(early[c], 1, k)
               rest == SubSeq(early[c], k + 1, Len(early[c]))
           IN  /\ early' = [early EXCEPT ![c] = rest]
               /\ starting' = [starting EXCEPT ![c] = more]
               /\ run' = [run EXCEPT ![r] = [Hear(run[r], heard) EXCEPT
                                               !.at = IF more THEN "replaying" ELSE "waiting"]]
               /\ ~more => rest = <<>>
               /\ more => early[c] # <<>>
               /\ heard \in Seq(Notification) /\ Len(heard) = k
               /\ \A i \in 1..k : heard[i] = early[c][i]
               /\ rest \in Seq(Notification) /\ Len(rest) = Len(early[c]) - k
               /\ \A i \in 1..Len(rest) : rest[i] = early[c][k + i]
    BY ReplaySplits
  <1>2. run[r] \in Run
    BY DEF RuntimeTypeOK
  <1>3. Hear(run[r], SubSeq(early[c], 1, k)) \in Run
    BY <1>1, <1>2, HearFacts
  <1>4. [Hear(run[r], SubSeq(early[c], 1, k)) EXCEPT
           !.at = IF more THEN "replaying" ELSE "waiting"] \in Run
    BY <1>3 DEF Run
  <1> QED
    BY <1>1, <1>4 DEF RuntimeTypeOK

\* Every step is well typed.
LEMMA TypesStep ==
  ASSUME RuntimeTypeOK, CallsWait, Claims, Published, Notes, ConnectionTypeOK', Next
  PROVE  RuntimeTypeOK'
  <1> DEFINE Goal == RuntimeRest'
  <1>0. /\ RuntimeRest
        /\ conn.generation \in 0..(MaxGeneration + 1) /\ conn.client \in 0..MaxGeneration
    BY DEF RuntimeTypeOK, RuntimeRest, Message, Turn, ConnectionTypeOK, Connection
  <1>20. IdleRun \in Run /\ IdleCall \in Call
    BY WrittenTypes
  <1>1. ASSUME NEW r \in Starters, NEW c \in Channels \cup {None}, NEW k \in 0..MaxGeneration,
               Entered(r, c, k), enteredUnchanged' = enteredUnchanged
        PROVE  Goal
    <2>1. CASE c = None \/ active[c] # None \/ ready[c] # None
      BY <1>0, <1>1, <2>1, WrittenTypes DEF Entered, enteredUnchanged, RuntimeRest
    <2>2. CASE ~(c = None \/ active[c] # None \/ ready[c] # None)
      <3>1. [IdleRun EXCEPT !.at = "loading", !.channel = c, !.client = k,
                            !.generation = conn.generation] \in Run
        BY <1>0, <1>20 DEF Run
      <3>2. c \in Channels
        BY <2>2
      <3> QED
        BY <1>0, <1>1, <2>2, <3>1, <3>2 DEF Entered, enteredUnchanged, RuntimeRest
    <2> QED
      BY <2>1, <2>2
  <1>2. ASSUME NEW r \in Starters, NEW c \in Channels \cup {None}, StartRun(r, c)
        PROVE  Goal
    <2>1. CASE Entered(r, c, conn.client)
      BY <1>0, <1>1, <1>2, <2>1 DEF StartRun, enteredUnchanged
    <2>2. [IdleRun EXCEPT !.at = "starting", !.channel = c] \in Run
      BY <1>20 DEF Run
    <2>3. CASE /\ run' = [run EXCEPT ![r] = [IdleRun EXCEPT !.at = "starting", !.channel = c]]
               /\ UNCHANGED ready
      BY <1>0, <1>2, <2>2, <2>3 DEF StartRun, enteredUnchanged, RuntimeRest
    <2>4. CASE UNCHANGED <<run, ready>>
      BY <1>0, <1>2, <2>4 DEF StartRun, enteredUnchanged, RuntimeRest
    <2> QED
      BY <1>2, <2>1, <2>3, <2>4 DEF StartRun
  <1>3. ASSUME NEW r \in Starters, RunStarts(r)
        PROVE  Goal
    <2>1. run[r].channel \in Channels \cup {None} /\ starter[r].client \in 0..MaxGeneration
      BY DEF RuntimeTypeOK, Run, ConnectionTypeOK, Starter
    <2> QED
      BY <1>1, <1>3, <2>1 DEF RunStarts, enteredUnchanged
  <1>4. ASSUME NEW r \in Starters, RunCannotStart(r)
        PROVE  Goal
    BY <1>0, <1>4, WrittenTypes DEF RunCannotStart, enteredUnchanged, RuntimeRest
  <1>5. ASSUME NEW r \in Starters, Finished(r)
        PROVE  Goal
    BY <1>5, FinishedTypes
  <1>6. ASSUME NEW r \in Starters, ThreadLoaded(r)
        PROVE  Goal
    <2>1. CASE GenerationGone(r)
      BY <1>5, <2>1 DEF GenerationGone
    <2>2. CASE ~GenerationGone(r)
      BY <1>0, <1>6, <2>2, WrittenTypes DEF ThreadLoaded, RuntimeRest
    <2> QED
      BY <2>1, <2>2
  <1>7. ASSUME NEW r \in Starters, TurnStarted(r) \/ Replay(r)
        PROVE  Goal
    <2>1. CASE GenerationGone(r)
      BY <1>5, <2>1 DEF GenerationGone
    <2>2. CASE ~GenerationGone(r)
      <3>1. run[r].channel \in Channels
        BY <1>7 DEF TurnStarted, Replay, Claims, Begun
      <3>2. Replayed(r, run[r].channel)
        BY <1>7, <2>2 DEF TurnStarted, Replay
      <3>3. /\ run' \in [Starters -> Run] /\ starting' \in [Channels -> BOOLEAN]
            /\ early' \in [Channels -> Seq(Notification)]
        BY <3>1, <3>2, ReplayedTypes
      <3>4. active' \in [Channels -> Starters \cup {None}] /\ call' \in [Callers -> Call]
        <4>1. \/ /\ active' = [active EXCEPT ![run[r].channel] = r]
                 /\ call' = Woken({run[r].channel})
              \/ UNCHANGED <<active, call>>
          BY <1>7, <2>2 DEF TurnStarted, Replay
        <4>2. Woken({run[r].channel}) \in [Callers -> Call]
          BY WrittenTypes, Zenon
        <4> QED
          BY <1>0, <4>1, <4>2 DEF RuntimeRest
      <3>5. UNCHANGED <<ready, queue, progressing, turns>>
        BY <1>7, <2>2 DEF TurnStarted, Replay
      <3> QED
        BY <1>0, <3>3, <3>4, <3>5 DEF RuntimeRest
    <2> QED
      BY <2>1, <2>2
  <1>8. ASSUME NEW r \in Starters, RequestFails(r) \/ RunEnds(r)
        PROVE  Goal
    BY <1>5, <1>8 DEF RequestFails, RunEnds
  <1>9. ASSUME NEW r \in Starters,
               NEW at \in {"interrupting", "cancelling"}, NEW otherwise \in {"grace", "self_wait"},
               InterruptsOwn(r, at, otherwise),
               UNCHANGED <<active, ready, starting, early, queue, progressing, turns, call>>
        PROVE  Goal
    <2>1. run' \in [Starters -> Run]
      BY <1>0, <1>9, WrittenTypes DEF InterruptsOwn, RuntimeRest
    <2> QED
      BY <1>0, <1>9, <2>1 DEF RuntimeRest
  <1>10. ASSUME NEW r \in Starters, TurnTimesOut(r) \/ Cancel(r)
         PROVE  Goal
    <2>1. CASE InterruptsOwn(r, "interrupting", "grace") \/ InterruptsOwn(r, "cancelling", "self_wait")
      BY <1>9, <1>10, <2>1 DEF TurnTimesOut, Cancel
    <2>2. CASE run' = [run EXCEPT ![r] = IdleRun] \/ run' = [run EXCEPT ![r].at = "self_wait"]
      BY <1>0, <1>10, <2>2, WrittenTypes DEF TurnTimesOut, Cancel, RuntimeRest
    <2> QED
      BY <1>10, <2>1, <2>2 DEF TurnTimesOut, Cancel
  <1>11. ASSUME NEW r \in Starters, Interrupted(r)
         PROVE  Goal
    <2>1. CASE Finished(r)
      BY <1>5, <2>1
    <2>2. CASE ~Finished(r)
      BY <1>0, <1>11, <2>2, WrittenTypes DEF Interrupted, RuntimeRest
    <2> QED
      BY <2>1, <2>2
  <1>12. ASSUME NEW r \in Starters, TurnAccepted(r)
         PROVE  Goal
    <2> DEFINE new == [channel |-> run[r].channel, client |-> run[r].client, state |-> "fresh"]
    <2>1. new \in Turn
      <3>1. r \in Begun
        BY <1>12 DEF TurnAccepted, Begun
      <3>2. run[r].channel \in Channels /\ run[r].client # 0 /\ run[r] \in Run
        BY <1>0, <3>1 DEF Claims, Published, RuntimeRest
      <3> QED
        BY <3>2 DEF Run, Turn, Generations
    <2>2. turns' \in Seq(Turn) /\ Len(turns') = Len(turns) + 1
      BY <1>0, <1>12, <2>1, AppendProperties DEF TurnAccepted, RuntimeRest
    <2>3. Len(turns') \in 0..MaxTurns
      <3>1. Len(turns) \in Nat /\ Len(turns) < MaxTurns
        BY <1>0, <1>12 DEF TurnAccepted, RuntimeRest
      <3> QED
        BY <2>2, <3>1, MaxTurnsAssumption
    <2>4. [run[r] EXCEPT !.turn = Len(turns')] \in Run
      BY ZenonT(60), <1>0, <2>3 DEF Run, RuntimeRest
    <2>5. run' \in [Starters -> Run]
      BY <1>0, <1>12, <2>4 DEF TurnAccepted, RuntimeRest
    <2> QED
      BY <1>0, <1>12, <2>2, <2>5 DEF TurnAccepted, RuntimeRest
  <1>13. ASSUME NEW u \in Callers, NEW c \in Channels, active[c] # None, Addressed(u, c)
         PROVE  run' \in [Starters -> Run] /\ call' \in [Callers -> Call]
    <2>1. active[c] \in Starters
      BY <1>0, <1>13 DEF RuntimeRest
    <2>2. Disconnect(run[active[c]]) \in Run
      BY <2>1, WrittenTypes
    <2>3. [at |-> "rpc", channel |-> c, woken |-> FALSE,
           generation |-> run[active[c]].generation] \in Call
      BY <1>0, <2>1 DEF RuntimeRest, Run, Call
    <2> QED
      BY <1>0, <1>13, <1>20, <2>1, <2>2, <2>3 DEF Addressed, RuntimeRest
  <1>14. ASSUME NEW u \in Callers, CallWaited(u) \/ CallEnds(u) \/ \E c \in Channels : CallBegins(u, c)
         PROVE  Goal
    <2>1. call[u] \in Call
      BY <1>0 DEF RuntimeRest
    <2>2. run' \in [Starters -> Run] /\ call' \in [Callers -> Call]
      <3>1. CASE CallEnds(u)
        BY <1>0, <1>20, <3>1 DEF CallEnds, RuntimeRest
      <3>2. CASE CallWaited(u)
        <4>1. CASE call' = [call EXCEPT ![u] = IdleCall] /\ UNCHANGED run
          BY <1>0, <1>20, <4>1 DEF RuntimeRest
        <4>2. CASE active[call[u].channel] # None /\ Addressed(u, call[u].channel)
          <5>1. call[u].channel \in Channels
            BY <3>2 DEF CallWaited, CallsWait
          <5> QED
            BY <1>13, <4>2, <5>1
        <4> QED
          BY <3>2, <4>1, <4>2 DEF CallWaited
      <3>3. ASSUME NEW c \in Channels, CallBegins(u, c)
            PROVE  run' \in [Starters -> Run] /\ call' \in [Callers -> Call]
        <4>1. [IdleCall EXCEPT !.at = "ready", !.channel = c] \in Call
          BY <1>20 DEF Call
        <4>2. CASE active[c] # None /\ Addressed(u, c)
          BY <1>13, <4>2
        <4>3. CASE call' = [call EXCEPT ![u] = [IdleCall EXCEPT !.at = "ready", !.channel = c]]
                   /\ UNCHANGED run
          BY <1>0, <4>1, <4>3 DEF RuntimeRest
        <4> QED
          BY <3>3, <4>2, <4>3 DEF CallBegins
      <3> QED
        BY <1>14, <3>1, <3>2, <3>3
    <2>3. UNCHANGED <<active, ready, starting, early, queue, progressing, turns>>
      BY <1>14 DEF CallWaited, CallEnds, CallBegins
    <2> QED
      BY <1>0, <2>2, <2>3 DEF RuntimeRest
  <1>15. ASSUME NEW g \in Generations, NEW n \in Message, queue' = [queue EXCEPT ![g] = Append(@, n)]
         PROVE  queue' \in [Generations -> Seq(Message)]
    <2>1. Append(queue[g], n) \in Seq(Message)
      BY <1>0, <1>15, AppendProperties DEF RuntimeRest
    <2> QED
      BY <1>0, <1>15, <2>1 DEF RuntimeRest
  <1>16. ASSUME NEW g \in Generations, Dispatch(g)
         PROVE  Goal
    <2>1. Head(queue[g]) \in Message /\ Tail(queue[g]) \in Seq(Message)
      BY <1>0, <1>16, HeadTailProperties DEF Dispatch, RuntimeRest
    <2>2. queue' \in [Generations -> Seq(Message)]
      BY <1>0, <1>16, <2>1 DEF Dispatch, RuntimeRest
    <2>3. UNCHANGED <<active, ready, starting, turns, call>>
      BY <1>16 DEF Dispatch
    <2>4. CASE UNCHANGED <<run, early, progressing>>
      BY <1>0, <2>2, <2>3, <2>4 DEF RuntimeRest
    <2>5. CASE /\ run' = [r \in Starters |->
                    IF \E c \in Channels : active[c] = r THEN Disconnect(run[r]) ELSE run[r]]
               /\ UNCHANGED <<early, progressing>>
      <3>1. run' \in [Starters -> Run]
        BY <1>0, <2>5, WrittenTypes DEF RuntimeRest
      <3> QED
        BY <1>0, <2>2, <2>3, <2>5, <3>1 DEF RuntimeRest
    <2>6. ASSUME NEW n \in Notification, NEW thread,
                 early' = IF starting[thread] THEN [early EXCEPT ![thread] = Append(@, n)] ELSE early,
                 progressing' \in {progressing, progressing \cup {g}},
                 \/ run' = run
                 \/ /\ active[thread] # None /\ thread \in Channels
                    /\ run' = [run EXCEPT ![active[thread]] = Hear(@, <<n>>)]
          PROVE  Goal
      <3>1. early' \in [Channels -> Seq(Notification)]
        BY <1>0, <2>6, AppendProperties DEF RuntimeRest
      <3>2. run' \in [Starters -> Run]
        <4>1. CASE run' = run
          BY <1>0, <4>1 DEF RuntimeRest
        <4>2. CASE /\ active[thread] # None /\ thread \in Channels
                   /\ run' = [run EXCEPT ![active[thread]] = Hear(@, <<n>>)]
          <5>1. active[thread] \in Starters /\ run[active[thread]] \in Run /\ <<n>> \in Seq(Notification)
            BY <1>0, <4>2 DEF RuntimeRest
          <5>2. Hear(run[active[thread]], <<n>>) \in Run
            BY <5>1, HearFacts
          <5> QED
            BY <1>0, <4>2, <5>1, <5>2 DEF RuntimeRest
        <4> QED
          BY <2>6, <4>1, <4>2
      <3> QED
        BY <1>0, <2>2, <2>3, <2>6, <3>1, <3>2 DEF RuntimeRest
    <2>7. CASE Head(queue[g]) # Exited /\ ~(UNCHANGED <<run, early, progressing>>)
      <3> DEFINE n == Head(queue[g])
                 thread == turns[n.turn].channel
      <3>1. n \in Notification
        BY <2>1, <2>7 DEF Message
      <3>2. /\ early' = IF starting[thread] THEN [early EXCEPT ![thread] = Append(@, n)] ELSE early
            /\ progressing' \in {progressing, progressing \cup {g}}
            /\ \/ run' = run
               \/ /\ active[thread] # None
                  /\ run' = [run EXCEPT ![active[thread]] = Hear(@, <<n>>)]
        BY <1>16, <2>7 DEF Dispatch
      <3>3. thread \in Channels
        <4>4. 1 \in DOMAIN queue[g] /\ queue[g][1] = n
          <5>1. queue[g] \in Seq(Message) /\ queue[g] # <<>>
            BY <1>0, <1>16 DEF Dispatch, RuntimeRest
          <5>2. DOMAIN queue[g] = 1..Len(queue[g]) /\ Len(queue[g]) \in Nat \ {0}
            BY <5>1, LenProperties, EmptySeq
          <5> QED
            BY <5>1, <5>2
        <4>1. n.turn \in DOMAIN turns
          BY <2>7, <4>4 DEF Notes
        <4>2. turns \in Seq(Turn) /\ n.turn \in 1..Len(turns)
          BY <1>0, <4>1 DEF RuntimeRest
        <4>3. turns[n.turn] \in Turn
          BY <4>2, ElementOfSeq
        <4> QED
          BY <4>3 DEF Turn
      <3> HIDE DEF n, thread
      <3> QED
        BY <2>6, <3>1, <3>2, <3>3
    <2> QED
      BY <1>16, <2>4, <2>5, <2>7 DEF Dispatch
  <1>17. ASSUME NEW g \in Generations, ProgressSent(g) \/ ServerFails(g)
         PROVE  Goal
    <2>1. Exited \in Message
      BY DEF Message
    <2>2. CASE ProgressSent(g)
      BY <1>0, <2>2 DEF ProgressSent, RuntimeRest
    <2>3. CASE ServerFails(g)
      <3>1. queue' \in [Generations -> Seq(Message)]
        BY <1>15, <2>1, <2>3 DEF ServerFails
      <3> QED
        BY <1>0, <2>3, <3>1 DEF ServerFails, RuntimeRest
    <2> QED
      BY <1>17, <2>2, <2>3
  <1>18. ASSUME NEW t \in Turns, TurnReports(t)
         PROVE  Goal
    <2>1. PICK kind \in {"progress", "answer", "completed", "stopped"},
               state \in {"working", "answered", "ended"} : Reports(t, kind, state)
      BY <1>18 DEF TurnReports
    <2>2. turns \in Seq(Turn) /\ t \in 1..Len(turns)
      BY <1>0, <1>18 DEF TurnReports, RuntimeRest
    <2>3. turns[t] \in Turn
      BY <2>2, ElementOfSeq
    <2>4. [turns[t] EXCEPT !.state = state] \in Turn /\ turns[t].client \in Generations
      BY <2>3 DEF Turn
    <2>5. turns' = [turns EXCEPT ![t] = [turns[t] EXCEPT !.state = state]]
      BY <2>1 DEF Reports
    <2>6. turns' \in Seq(Turn)
      BY <2>2, <2>4, <2>5, ExceptSeq
    <2>7. [kind |-> kind, turn |-> t] \in Message
      BY DEF Message, Notification
    <2>8. queue' \in [Generations -> Seq(Message)]
      BY <1>15, <2>1, <2>4, <2>7 DEF Reports
    <2> QED
      BY <1>0, <2>1, <2>6, <2>8 DEF Reports, RuntimeRest
  <1>19. ASSUME Retired
         PROVE  queue' \in [Generations -> Seq(Message)] /\ progressing' \subseteq Generations
    <2>1. <<>> \in Seq(Message)
      OBVIOUS
    <2> QED
      BY <1>0, <1>19, <2>1 DEF Retired, RuntimeRest
  <1>21. ASSUME Recover
         PROVE  Goal
    BY <1>0, <1>19, <1>21 DEF Recover, RuntimeRest
  <1>22. ASSUME CloseRuntime
         PROVE  Goal
    <2>1. CASE closer'.at # "done"
      BY <1>0, <1>19, <1>22, <2>1 DEF CloseRuntime, RuntimeRest
    <2>2. CASE closer'.at = "done"
      <3>1. run' \in [Starters -> Run]
        <4>1. run' = [r \in Starters |->
                 IF \E c \in Channels : active[c] = r THEN Disconnect(run[r]) ELSE run[r]]
          BY <1>22, <2>2 DEF CloseRuntime
        <4> QED
          BY <1>0, <4>1, WrittenTypes DEF RuntimeRest
      <3>2. call' \in [Callers -> Call]
        BY <1>22, <2>2, WrittenTypes DEF CloseRuntime
      <3>3. <<>> \in Seq(Notification)
        OBVIOUS
      <3> QED
        BY <1>0, <1>19, <1>22, <2>2, <3>1, <3>2, <3>3 DEF CloseRuntime, RuntimeRest
    <2> QED
      BY <2>1, <2>2
  <1> HIDE DEF Goal
  <1>23. Goal
    BY <1>2, <1>3, <1>4, <1>6, <1>7, <1>8, <1>10, <1>11, <1>12, <1>14, <1>16, <1>17, <1>18,
       <1>21, <1>22 DEF Next
  <1> QED
    BY <1>23 DEF Goal, RuntimeRest, RuntimeTypeOK, Message, Turn

----------------------------------------------------------------------------
(* The invariant.                                                          *)

\* Only close() moves close() on.
LEMMA CloserKept == Next => CloseRuntime \/ closer' = closer
  <1> SUFFICES ASSUME Next, ~CloseRuntime
               PROVE  closer' = closer
    OBVIOUS
  <1> DEFINE Same == closer' = closer
  <1>1. ASSUME NEW g, NEW e, Invalidate(g, e) \/ Fails(g, e)
        PROVE  Same
    BY <1>1 DEF Invalidate, Fails, connectionVars
  <1>2. ASSUME NEW s \in Starters,
               \/ StartWaits(s) \/ StartResumes(s) \/ StartRaises(s) \/ StartAbandoned(s)
               \/ StartReturns(s)
        PROVE  Same
    BY <1>2 DEF StartWaits, StartResumes, StartRaises, StartAbandoned, StartReturns, connectionVars
  <1>3. ASSUME RecoveryStep
        PROVE  Same
    BY <1>3 DEF RecoveryStep, RecoverBegins, OldClientClosed, ClientStarted, ClientStartFails,
                NewClientClosed, RecoverCancelled
  <1>4. ASSUME UNCHANGED connectionVars
        PROVE  Same
    BY <1>4 DEF connectionVars
  <1> HIDE DEF Same
  <1>5. ASSUME NEW r \in Starters, NEW c \in Channels \cup {None}, StartRun(r, c)
        PROVE  Same
    BY <1>1, <1>2, <1>5 DEF StartRun
  <1>6. ASSUME NEW r \in Starters, GenerationGone(r)
        PROVE  Same
    BY <1>1, <1>6 DEF GenerationGone
  <1>7. ASSUME NEW r \in Starters,
               RunStarts(r) \/ RunCannotStart(r) \/ ThreadLoaded(r) \/ TurnStarted(r) \/ RequestFails(r)
        PROVE  Same
    BY <1>1, <1>2, <1>4, <1>6, <1>7
       DEF RunStarts, RunCannotStart, ThreadLoaded, TurnStarted, RequestFails
  <1>8. ASSUME NEW r \in Starters,
               \/ Replay(r) \/ RunEnds(r) \/ TurnTimesOut(r) \/ Cancel(r) \/ Interrupted(r)
               \/ TurnAccepted(r)
        PROVE  Same
    BY <1>2, <1>4, <1>8 DEF Replay, RunEnds, TurnTimesOut, Cancel, Interrupted, TurnAccepted
  <1>9. ASSUME NEW u \in Callers, CallWaited(u) \/ CallEnds(u) \/ \E c \in Channels : CallBegins(u, c)
        PROVE  Same
    BY <1>1, <1>4, <1>9 DEF CallWaited, CallEnds, CallBegins
  <1>10. ASSUME NEW g \in Generations, ProgressSent(g) \/ ServerFails(g)
         PROVE  Same
    BY <1>4, <1>10 DEF ProgressSent, ServerFails, ServerExits, Same
  <1>11. ASSUME NEW g \in Generations, Dispatch(g)
         PROVE  Same
    BY <1>1, <1>4, <1>11 DEF Dispatch
  <1>12. ASSUME NEW t \in Turns, TurnReports(t)
         PROVE  Same
    BY <1>4, <1>12 DEF TurnReports, Reports
  <1>13. Recover => Same
    BY <1>3 DEF Recover
  <1>14. Same
    BY <1>5, <1>7, <1>8, <1>9, <1>10, <1>11, <1>12, <1>13 DEF Next
  <1> QED
    BY <1>14 DEF Same

\* A call that waits for an event waits for the one of a channel.
LEMMA CallsStep ==
  ASSUME RuntimeTypeOK, CallsWait, Next
  PROVE  CallsWait'
  <1> DEFINE Waits(k) == k.at = "ready" => k.channel \in Channels
  <1>1. ASSUME \A u \in Callers : call'[u] = call[u] \/ Waits(call'[u])
        PROVE  CallsWait'
    BY <1>1 DEF CallsWait
  <1>2. call \in [Callers -> Call]
    BY DEF RuntimeTypeOK
  <1>3. \A S : \A u \in Callers : Woken(S)[u] = call[u] \/ Waits(Woken(S)[u])
    BY <1>2 DEF Woken, CallsWait, Call
  <1>4. Waits(IdleCall)
    BY DEF IdleCall
  <1>5. ASSUME NEW r, Finished(r)
        PROVE  CallsWait'
    BY <1>1, <1>3, <1>5 DEF Finished
  <1>6. ASSUME NEW u \in Callers, NEW c \in Channels, Addressed(u, c)
        PROVE  CallsWait'
    BY <1>1, <1>2, <1>4, <1>6 DEF Addressed
  <1>7. ASSUME UNCHANGED call
        PROVE  CallsWait'
    BY <1>1, <1>7
  <1>8. ASSUME NEW S, call' = Woken(S)
        PROVE  CallsWait'
    BY <1>1, <1>3, <1>8
  <1>9. ASSUME NEW u \in Callers, call' = [call EXCEPT ![u] = IdleCall]
        PROVE  CallsWait'
    BY <1>1, <1>2, <1>4, <1>9
  <1>10. ASSUME NEW u \in Callers, NEW c \in Channels,
                call' = [call EXCEPT ![u] = [IdleCall EXCEPT !.at = "ready", !.channel = c]]
         PROVE  CallsWait'
    <2>1. Waits([IdleCall EXCEPT !.at = "ready", !.channel = c])
      BY DEF IdleCall
    <2> QED
      BY <1>1, <1>2, <1>10, <2>1
  <1> HIDE DEF Waits
  <1>11. ASSUME NEW r \in Starters, NEW c \in Channels \cup {None}, StartRun(r, c)
         PROVE  CallsWait'
    BY <1>7, <1>11 DEF StartRun, enteredUnchanged
  <1>12. ASSUME NEW r \in Starters, RunStarts(r) \/ RunCannotStart(r)
         PROVE  CallsWait'
    BY <1>7, <1>12 DEF RunStarts, RunCannotStart, enteredUnchanged
  <1>13. ASSUME NEW r \in Starters, ThreadLoaded(r) \/ TurnStarted(r) \/ RequestFails(r)
         PROVE  CallsWait'
    BY <1>5, <1>7, <1>8, <1>13 DEF ThreadLoaded, TurnStarted, RequestFails, GenerationGone
  <1>14. ASSUME NEW r \in Starters,
                \/ Replay(r) \/ RunEnds(r) \/ TurnTimesOut(r) \/ Cancel(r) \/ Interrupted(r)
                \/ TurnAccepted(r)
         PROVE  CallsWait'
    BY <1>5, <1>7, <1>14 DEF Replay, RunEnds, TurnTimesOut, Cancel, Interrupted, TurnAccepted
  <1>15. ASSUME NEW u \in Callers, CallWaited(u) \/ CallEnds(u) \/ \E c \in Channels : CallBegins(u, c)
         PROVE  CallsWait'
    <2>1. CASE CallWaited(u)
      <3>1. call[u].channel \in Channels
        BY <2>1 DEF CallWaited, CallsWait
      <3> QED
        BY <1>6, <1>9, <2>1, <3>1 DEF CallWaited
    <2> QED
      BY <1>6, <1>9, <1>10, <1>15, <2>1 DEF CallEnds, CallBegins
  <1>16. ASSUME NEW g \in Generations, Dispatch(g) \/ ProgressSent(g) \/ ServerFails(g)
         PROVE  CallsWait'
    BY <1>7, <1>16 DEF Dispatch, ProgressSent, ServerFails
  <1>17. ASSUME NEW t \in Turns, TurnReports(t)
         PROVE  CallsWait'
    BY <1>7, <1>17 DEF TurnReports, Reports
  <1>18. Recover \/ CloseRuntime => CallsWait'
    BY <1>7, <1>8 DEF Recover, CloseRuntime
  <1> QED
    BY <1>11, <1>12, <1>13, <1>14, <1>15, <1>16, <1>17, <1>18 DEF Next

\* Nobody but a run without a client comes to wait in start().
LEMMA SuspendedStep ==
  ASSUME RuntimeTypeOK, Suspended, Next
  PROVE  Suspended'
  <1> DEFINE Goal == Suspended'
  <1>0. run \in [Starters -> Run] /\ starter \in [Starters -> Starter]
    BY DEF RuntimeTypeOK, ConnectionTypeOK
  \* The callers of start() that are left still wait, and a waiting run goes on waiting.
  <1>1. ASSUME \A q \in Starters : starter'[q].at # "none" =>
                 \/ run'[q].at = "starting"
                 \/ starter[q].at # "none" /\ run'[q].at = run[q].at
        PROVE  Goal
    BY <1>1 DEF Suspended
  <1>2. ASSUME UNCHANGED starter, NEW r \in Starters, run[r].at # "starting",
               \A q \in Starters : q # r => run'[q] = run[q]
        PROVE  Goal
    BY <1>2 DEF Suspended
  <1>3. ASSUME UNCHANGED starter, \A q \in Starters : run'[q].at = run[q].at
        PROVE  Goal
    BY <1>1, <1>3
  <1>4. ASSUME NEW r \in Starters, starter' = [starter EXCEPT ![r] = NotStarting],
               \A q \in Starters : q # r => run'[q] = run[q]
        PROVE  Goal
    BY <1>0, <1>1, <1>4 DEF NotStarting
  <1>5. \A q \in Starters : Disconnect(run[q]).at = run[q].at
    BY <1>0 DEF Disconnect, Run
  <1>6. \A g, e : Invalidate(g, e) \/ Fails(g, e) => UNCHANGED starter
    BY DEF Invalidate, Fails, connectionVars
  <1>7. UNCHANGED connectionVars => UNCHANGED starter
    BY DEF connectionVars
  <1>8. \A r \in Starters : Finished(r) => \A q \in Starters : q # r => run'[q] = run[q]
    BY <1>0 DEF Finished
  <1> HIDE DEF Goal
  <1>9. ASSUME NEW r \in Starters, NEW c \in Channels \cup {None}, StartRun(r, c)
        PROVE  Goal
    <2>1. CASE StartReturns(r) /\ Entered(r, c, conn.client)
      <3>1. UNCHANGED starter /\ \A q \in Starters : q # r => run'[q] = run[q]
        BY <1>0, <1>7, <2>1 DEF StartReturns, Entered
      <3> QED
        BY <1>2, <1>9, <3>1 DEF StartRun
    <2>2. CASE /\ StartWaits(r)
               /\ run' = [run EXCEPT ![r] = [IdleRun EXCEPT !.at = "starting", !.channel = c]]
      <3>1. run'[r].at = "starting" /\ \A q \in Starters : q # r => run'[q] = run[q]
        BY <1>0, <2>2 DEF IdleRun
      <3>2. \A q \in Starters : q # r => starter'[q] = starter[q]
        BY <1>0, <2>2 DEF StartWaits
      <3> QED
        BY <1>1, <3>1, <3>2
    <2>3. CASE Invalidate(conn.generation, conn.generation) /\ UNCHANGED <<run, ready>>
      BY <1>3, <1>6, <2>3
    <2> QED
      BY <1>9, <2>1, <2>2, <2>3 DEF StartRun
  <1>10. ASSUME NEW r \in Starters, RunStarts(r) \/ RunCannotStart(r)
         PROVE  Goal
    <2>1. starter' = [starter EXCEPT ![r] = NotStarting]
      BY <1>10 DEF RunStarts, RunCannotStart, StartResumes, StartRaises
    <2>2. \A q \in Starters : q # r => run'[q] = run[q]
      BY <1>0, <1>10 DEF RunStarts, RunCannotStart, Entered
    <2> QED
      BY <1>4, <2>1, <2>2
  <1>11. ASSUME NEW r \in Starters,
                \/ ThreadLoaded(r) \/ TurnStarted(r) \/ Replay(r) \/ RequestFails(r) \/ RunEnds(r)
                \/ TurnTimesOut(r) \/ Interrupted(r) \/ TurnAccepted(r)
         PROVE  Goal
    <2>1. run[r].at # "starting"
      BY <1>11 DEF ThreadLoaded, TurnStarted, Replay, RequestFails, RunEnds, TurnTimesOut,
                   Interrupted, TurnAccepted
    <2>2. UNCHANGED starter
      BY <1>6, <1>7, <1>11 DEF ThreadLoaded, TurnStarted, Replay, RequestFails, RunEnds,
                   TurnTimesOut, Interrupted, TurnAccepted, GenerationGone
    <2>3. \A q \in Starters : q # r => run'[q] = run[q]
      BY <1>0, <1>8, <1>11 DEF ThreadLoaded, TurnStarted, Replay, RequestFails, RunEnds,
                   TurnTimesOut, Interrupted, TurnAccepted, GenerationGone, Replayed, InterruptsOwn
    <2> QED
      BY <1>2, <2>1, <2>2, <2>3
  <1>12. ASSUME NEW r \in Starters, Cancel(r)
         PROVE  Goal
    <2>1. \A q \in Starters : q # r => run'[q] = run[q]
      BY <1>0, <1>12 DEF Cancel, InterruptsOwn
    <2>2. \/ starter' = [starter EXCEPT ![r] = NotStarting]
          \/ UNCHANGED starter /\ run[r].at # "starting"
      BY <1>7, <1>12 DEF Cancel, StartAbandoned
    <2> QED
      BY <1>2, <1>4, <2>1, <2>2
  <1>13. ASSUME NEW u \in Callers, NEW c, Addressed(u, c), UNCHANGED starter
         PROVE  Goal
    <2>1. \A q \in Starters : run'[q].at = run[q].at
      BY <1>0, <1>5, <1>13 DEF Addressed
    <2> QED
      BY <1>3, <1>13, <2>1
  <1>14. ASSUME NEW u \in Callers, CallWaited(u) \/ CallEnds(u) \/ \E c \in Channels : CallBegins(u, c)
         PROVE  Goal
    BY <1>3, <1>6, <1>7, <1>13, <1>14 DEF CallWaited, CallEnds, CallBegins
  <1>15. ASSUME NEW g \in Generations, Dispatch(g)
         PROVE  Goal
    <2>1. UNCHANGED starter
      BY <1>6, <1>7, <1>15 DEF Dispatch
    <2>2. \A q \in Starters : \A n : Hear(run[q], n).at = run[q].at
      BY <1>0 DEF Hear, Run
    <2>3. \A q \in Starters : run'[q].at = run[q].at
      <3>1. CASE run' = run
        BY <3>1
      <3>2. CASE \A q \in Starters : run'[q] = run[q] \/ run'[q] = Disconnect(run[q])
        BY <1>5, <3>2
      <3>3. ASSUME NEW owner \in Starters, NEW n, run' = [run EXCEPT ![owner] = Hear(@, <<n>>)]
            PROVE  \A q \in Starters : run'[q].at = run[q].at
        BY <1>0, <2>2, <3>3
      <3>4. \/ run' = run
            \/ \A q \in Starters : run'[q] = run[q] \/ run'[q] = Disconnect(run[q])
            \/ \E owner \in Starters, n \in {Head(queue[g])} :
                 run' = [run EXCEPT ![owner] = Hear(@, <<n>>)]
        <4>1. \A c \in Channels : active[c] \in Starters \cup {None}
          BY DEF RuntimeTypeOK
        <4> QED
          BY <1>0, <1>15, <4>1 DEF Dispatch, RuntimeTypeOK
      <3> QED
        BY <3>1, <3>2, <3>3, <3>4
    <2> QED
      BY <1>3, <2>1, <2>3
  <1>16. ASSUME NEW g \in Generations, ProgressSent(g) \/ ServerFails(g)
         PROVE  Goal
    BY <1>3, <1>7, <1>16 DEF ProgressSent, ServerFails, ServerExits
  <1>17. ASSUME NEW t \in Turns, TurnReports(t)
         PROVE  Goal
    BY <1>3, <1>7, <1>17 DEF TurnReports, Reports
  <1>18. ASSUME NEW k, NEW e, RecoveryDone(k, e), UNCHANGED run
         PROVE  Goal
    BY <1>0, <1>1, <1>18 DEF RecoveryDone
  <1>19. ASSUME Recover
         PROVE  Goal
    <2>1. UNCHANGED run
      BY <1>19 DEF Recover
    <2>2. UNCHANGED starter \/ \E k, e : RecoveryDone(k, e)
      BY <1>19 DEF Recover, RecoveryStep, RecoverBegins, OldClientClosed, ClientStarted,
                   ClientStartFails, NewClientClosed, RecoverCancelled
    <2> QED
      BY <1>3, <1>18, <2>1, <2>2
  <1>20. ASSUME CloseRuntime
         PROVE  Goal
    <2>1. UNCHANGED starter
      BY <1>20 DEF CloseRuntime, Close, CloseGoesOn, CloseEnds
    <2>2. \A q \in Starters : run'[q].at = run[q].at
      BY <1>5, <1>20 DEF CloseRuntime
    <2> QED
      BY <1>3, <2>1, <2>2
  <1>21. Goal
    BY <1>9, <1>10, <1>11, <1>12, <1>14, <1>15, <1>16, <1>17, <1>19, <1>20 DEF Next
  <1> QED
    BY <1>21 DEF Goal

\* The invariant holds initially.
LEMMA RuntimeInit == Init => RuntimeInv
  <1> SUFFICES ASSUME Init PROVE RuntimeInv
    OBVIOUS
  <1>1. ConnectionInv
    BY InitInv DEF Init
  <1>2. \A r \in Starters : run[r] = IdleRun
    BY DEF Init
  <1>3. Begun = {}
    BY <1>2 DEF Begun, IdleRun
  <1>4. RuntimeTypeOK
    <2>1. <<>> \in Seq(Notification) /\ <<>> \in Seq(Notification \cup {Exited})
          /\ <<>> \in Seq([channel : Channels, client : Generations,
                           state : {"fresh", "working", "answered", "ended"}])
      OBVIOUS
    <2>2. IdleRun \in Run
      BY MaxTurnsAssumption DEF IdleRun, Run, Outcome
    <2>3. IdleCall \in Call
      BY DEF IdleCall, Call
    <2>4. ConnectionTypeOK
      BY <1>1 DEF ConnectionInv
    <2> QED
      BY <2>1, <2>2, <2>3, <2>4 DEF Init, RuntimeTypeOK
  <1>5. Failures
    BY DEF Failures, Init, ConnectionInit
  <1>6. CallsWait
    BY DEF CallsWait, Init, IdleCall
  <1>11. Suspended
    BY <1>2 DEF Suspended, Init, ConnectionInit, NotStarting
  <1>7. ~Over
    BY DEF Over, Init, ConnectionInit
  <1>8. Published /\ Claims
    BY <1>3, <1>7 DEF Published, Claims, Init
  <1>9. Accepted /\ AnswersFirst /\ Decided
    BY <1>2 DEF Accepted, AnswersFirst, Decided, IdleRun
  <1>10. Notes
    BY DEF Notes, Init
  <1> QED
    BY <1>1, <1>4, <1>5, <1>6, <1>8, <1>9, <1>10, <1>11 DEF RuntimeInv, TurnsInv

\* What relates the runs, the claims and the notifications is kept by every step of a run.
LEMMA RunSteps ==
  ASSUME RuntimeInv, RuntimeTypeOK', ConnectionInv', ConnectionMoved, closer' = closer,
         NEW r \in Starters,
         \/ \E c \in Channels \cup {None} : StartRun(r, c)
         \/ RunStarts(r) \/ RunCannotStart(r) \/ ThreadLoaded(r) \/ TurnStarted(r)
         \/ Replay(r) \/ RequestFails(r) \/ RunEnds(r) \/ TurnTimesOut(r) \/ Cancel(r)
         \/ Interrupted(r) \/ TurnAccepted(r)
  PROVE  TurnsInv'
  <1> DEFINE Goal == TurnsInv'
  <1>0. /\ run \in [Starters -> Run] /\ Over' = Over
        /\ \A q \in Starters : q \in Begun <=> run[q].at \notin {"idle", "starting"}
    BY DEF RuntimeInv, RuntimeTypeOK, Over, Begun
  \* The steps that change one run and none of the claims.
  <1>1. ASSUME UNCHANGED <<active, ready, starting, early, queue, turns>>,
               \A q \in Starters : q # r => run'[q] = run[q], Keeps(r)
        PROVE  Goal
    <2>1. \A q \in Starters : Keeps(q)
      BY <1>1 DEF Keeps
    <2>2. \A g \in Generations : KeepsQueue(g)
      BY <1>1 DEF KeepsQueue
    <2> QED
      BY <1>0, <1>1, <2>1, <2>2, KeptStep
  <1>2. ASSUME UNCHANGED <<active, ready, starting, early, queue, turns>>, run' = run
        PROVE  Goal
    BY <1>1, <1>2 DEF Keeps
  <1>3. ASSUME UNCHANGED <<active, ready, starting, early, queue, turns>>, r \notin Begun,
               NEW v, run' = [run EXCEPT ![r] = v],
               v.at \in {"idle", "starting"}, v.turn = 0, v.done = "pending"
        PROVE  Goal
    BY <1>0, <1>1, <1>3 DEF Keeps
  <1>4. ASSUME UNCHANGED <<active, ready, starting, early, queue, turns>>, r \in Begun,
               NEW at \in {"interrupting", "grace", "cancelling", "self_wait"},
               \/ run' = [run EXCEPT ![r].at = at]
               \/ run' = [run EXCEPT ![r] = [Disconnect(run[r]) EXCEPT !.at = at]]
        PROVE  Goal
    <2>1. PICK d \in Run : /\ d = run[r] \/ d = Disconnect(run[r])
                           /\ run' = [run EXCEPT ![r] = [d EXCEPT !.at = at]]
      BY <1>0, <1>4, WrittenTypes DEF RuntimeInv
    <2>2. /\ d.channel = run[r].channel /\ d.client = run[r].client
          /\ d.generation = run[r].generation /\ d.turn = run[r].turn
          /\ d.answered = run[r].answered
          /\ d.done # "no_response" \/ (d.done = run[r].done /\ d.by = run[r].by)
      <3>1. run[r] \in Run
        BY <1>0
      <3> QED
        BY <2>1, <3>1 DEF Disconnect, Run
    <2>3. /\ run'[r].at = at /\ run'[r].channel = d.channel
          /\ run'[r].client = d.client /\ run'[r].generation = d.generation
          /\ run'[r].turn = d.turn /\ run'[r].answered = d.answered
          /\ run'[r].done = d.done /\ run'[r].by = d.by
      BY <1>0, <2>1 DEF Run
    <2> QED
      BY <1>0, <1>1, <1>4, <2>1, <2>2, <2>3 DEF Keeps
  <1>5. ASSUME r \in Begun, Finished(r)
        PROVE  Goal
    BY <1>0, <1>5, FinishedStep
  <1> HIDE DEF Goal
  <1>6. ASSUME NEW c \in Channels \cup {None}, NEW k, Entered(r, c, k), r \notin Begun,
               enteredUnchanged' = enteredUnchanged,
               k \in Generations, ~conn'.closed => k = conn'.generation /\ ~InProgress',
               conn' = conn
        PROVE  Goal
    <2>1. UNCHANGED <<active, starting, early, queue, turns>>
      BY <1>6 DEF enteredUnchanged
    <2>2. CASE c = None \/ active[c] # None \/ ready[c] # None
      <3>1. IdleRun.at = "idle" /\ IdleRun.turn = 0 /\ IdleRun.done = "pending"
        BY DEF IdleRun
      <3>2. run' = [run EXCEPT ![r] = IdleRun] /\ ready' = ready
        BY <1>6, <2>2 DEF Entered
      <3> QED
        BY <1>3, <1>6, <2>1, <3>1, <3>2
    <2>3. CASE ~(c = None \/ active[c] # None \/ ready[c] # None)
      <3> DEFINE v == [IdleRun EXCEPT !.at = "loading", !.channel = c, !.client = k,
                                      !.generation = conn.generation]
      <3>1. IdleRun \in Run /\ IdleRun.turn = 0 /\ IdleRun.done = "pending"
        BY WrittenTypes DEF IdleRun, RuntimeInv
      <3>2. c \in Channels /\ k \in 0..MaxGeneration /\ k # 0
            /\ conn.generation \in 0..(MaxGeneration + 1)
        BY <1>6, <2>3 DEF Generations, RuntimeInv, RuntimeTypeOK, ConnectionTypeOK, Connection
      <3>3. /\ v \in Run /\ v.at = "loading" /\ v.channel = c /\ v.client = k
            /\ v.generation = conn.generation /\ v.turn = 0 /\ v.done = "pending"
        BY <3>1, <3>2 DEF Run
      <3>4. active[c] = None /\ ready[c] = None /\ ready' = [ready EXCEPT ![c] = r]
            /\ run' = [run EXCEPT ![r] = v]
        BY <1>6, <2>3 DEF Entered
      <3>5. ~conn'.closed => /\ v.client = v.generation /\ v.client <= conn'.generation
                             /\ ~InProgress'
        BY <1>6, <3>2, <3>3
      <3> HIDE DEF v
      <3>6. Goal
        BY <1>0, <1>6, <2>1, <3>2, <3>3, <3>4, <3>5, EnteredStep DEF Goal
      <3> QED
        BY <3>6
    <2> QED
      BY <2>2, <2>3
  <1>7. ASSUME NEW c \in Channels \cup {None}, StartRun(r, c)
        PROVE  Goal
    <2>1. r \notin Begun /\ UNCHANGED <<active, starting, early, queue, turns>>
      BY <1>0, <1>7 DEF StartRun, enteredUnchanged
    <2>2. CASE StartReturns(r) /\ Entered(r, c, conn.client)
      <3>1. /\ conn' = conn /\ recovery' = recovery /\ ~conn.closed
            /\ conn.client \in Generations /\ conn.client = conn.generation /\ ~InProgress
        BY <2>2 DEF StartReturns, connectionVars, RuntimeInv, ConnectionInv, ConnectionTypeOK,
                    Connection, ClientInv, Generations
      <3> QED
        BY <1>6, <1>7, <2>1, <2>2, <3>1 DEF StartRun, InProgress
    <2>3. CASE /\ run' = [run EXCEPT ![r] = [IdleRun EXCEPT !.at = "starting", !.channel = c]]
               /\ UNCHANGED ready
      <3>1. /\ [IdleRun EXCEPT !.at = "starting", !.channel = c].at = "starting"
            /\ [IdleRun EXCEPT !.at = "starting", !.channel = c].turn = 0
            /\ [IdleRun EXCEPT !.at = "starting", !.channel = c].done = "pending"
        BY DEF IdleRun
      <3> QED
        BY <1>3, <2>1, <2>3, <3>1
    <2>4. CASE UNCHANGED <<run, ready>>
      BY <1>2, <2>1, <2>4
    <2> QED
      BY <1>7, <2>2, <2>3, <2>4 DEF StartRun
  <1>8. ASSUME RunStarts(r)
        PROVE  Goal
    <2>1. /\ starter[r].at = "resumed" /\ starter[r].client # 0 /\ UNCHANGED <<conn, recovery>>
          /\ enteredUnchanged' = enteredUnchanged
          /\ Entered(r, run[r].channel, starter[r].client)
      BY <1>8 DEF RunStarts, StartResumes
    <2>2. starter[r].client \in Generations /\ run[r].channel \in Channels \cup {None}
      BY SMTT(30), <2>1 DEF RuntimeInv, RuntimeTypeOK, ConnectionTypeOK, Starter, Run, Generations
    <2>3. ~conn.closed => starter[r].client = conn.generation /\ ~InProgress
      BY <2>1 DEF RuntimeInv, ConnectionInv, ClientIsOpen, StarterInv
    <2>4. r \notin Begun
      BY <1>0, <2>1 DEF RuntimeInv, Suspended
    <2> QED
      BY <1>6, <2>1, <2>2, <2>3, <2>4 DEF InProgress
  <1>9. client_for(run[r].generation) # 0 => ~Over
    BY DEF client_for, RuntimeInv, ConnectionInv, CloserInv, Over
  <1>10. ASSUME ThreadLoaded(r)
         PROVE  Goal
    <2>1. r \in Begun /\ run[r].at = "loading"
      BY <1>0, <1>10 DEF ThreadLoaded
    <2>2. CASE GenerationGone(r)
      BY <1>5, <2>1, <2>2 DEF GenerationGone
    <2>3. CASE /\ client_for(run[r].generation) # 0
               /\ starting' = [starting EXCEPT ![run[r].channel] = TRUE]
               /\ run' = [run EXCEPT ![r].at = "turn_start"]
               /\ UNCHANGED <<active, ready, early, queue, progressing, turns, call>>
      BY <1>0, <1>9, <2>1, <2>3, LoadedStep DEF Goal
    <2> QED
      BY <1>10, <2>2, <2>3 DEF ThreadLoaded
  <1>11. ASSUME TurnStarted(r)
         PROVE  Goal
    <2>1. r \in Begun /\ run[r].at = "turn_start" /\ run[r].turn # 0
      BY <1>0, <1>11 DEF TurnStarted
    <2>2. CASE GenerationGone(r)
      BY <1>5, <2>1, <2>2 DEF GenerationGone
    <2>3. CASE /\ client_for(run[r].generation) # 0
               /\ active' = [active EXCEPT ![run[r].channel] = r]
               /\ Replayed(r, run[r].channel)
               /\ UNCHANGED connectionVars
               /\ UNCHANGED <<ready, queue, progressing, turns>>
      BY <1>9, <2>1, <2>3, ReplayedStep DEF Goal
    <2> QED
      BY <1>11, <2>2, <2>3 DEF TurnStarted
  <1>12. ASSUME Replay(r)
         PROVE  Goal
    <2>1. run[r].at = "replaying" /\ run[r].turn # 0
      BY <1>12 DEF Replay, RuntimeInv, TurnsInv, Decided
    <2> QED
      BY <1>12, <2>1, ReplayedStep DEF Replay, Goal
  <1>13. ASSUME RequestFails(r) \/ RunEnds(r)
         PROVE  Goal
    BY <1>0, <1>5, <1>13 DEF RequestFails, RunEnds
  <1>14. ASSUME RunCannotStart(r)
         PROVE  Goal
    <2>1. run[r].at = "starting"
      BY <1>14 DEF RunCannotStart, StartRaises, RuntimeInv, Suspended
    <2>2. /\ run' = [run EXCEPT ![r] = IdleRun]
          /\ UNCHANGED <<active, ready, starting, early, queue, turns>>
      BY <1>14 DEF RunCannotStart, enteredUnchanged
    <2>3. IdleRun.at = "idle" /\ IdleRun.turn = 0 /\ IdleRun.done = "pending"
      BY DEF IdleRun
    <2> QED
      BY <1>0, <1>3, <2>1, <2>2, <2>3
  <1>15. ASSUME NEW request \in {"interrupting", "grace", "cancelling", "self_wait"},
                NEW otherwise \in {"interrupting", "grace", "cancelling", "self_wait"},
                InterruptsOwn(r, request, otherwise), r \in Begun,
                UNCHANGED <<active, ready, starting, early, queue, turns>>
         PROVE  Goal
    <2>1. PICK at \in {request, otherwise} :
             \/ run' = [run EXCEPT ![r].at = at]
             \/ run' = [run EXCEPT ![r] = [Disconnect(run[r]) EXCEPT !.at = at]]
      BY <1>15 DEF InterruptsOwn
    <2> QED
      BY <1>4, <1>15, <2>1
  <1>16. ASSUME TurnTimesOut(r)
         PROVE  Goal
    BY <1>0, <1>15, <1>16 DEF TurnTimesOut
  <1>17. ASSUME Cancel(r)
         PROVE  Goal
    <2>1. UNCHANGED <<active, ready, starting, early, queue, turns>>
      BY <1>17 DEF Cancel
    <2>2. CASE run[r].at = "starting" /\ run' = [run EXCEPT ![r] = IdleRun]
      <3>1. IdleRun.at = "idle" /\ IdleRun.turn = 0 /\ IdleRun.done = "pending"
        BY DEF IdleRun
      <3> QED
        BY <1>0, <1>3, <2>1, <2>2, <3>1
    <2>3. CASE /\ run[r].at \in {"loading", "turn_start"}
               /\ run' = [run EXCEPT ![r].at = "self_wait"]
      BY <1>0, <1>4, <2>1, <2>3
    <2>4. CASE /\ run[r].at \in {"replaying", "waiting"}
               /\ InterruptsOwn(r, "cancelling", "self_wait")
      BY <1>0, <1>15, <2>1, <2>4
    <2> QED
      BY <1>17, <2>2, <2>3, <2>4 DEF Cancel
  <1>18. ASSUME Interrupted(r)
         PROVE  Goal
    <2>1. r \in Begun
      BY <1>0, <1>18 DEF Interrupted
    <2>2. CASE /\ run' = [run EXCEPT ![r].at = "grace"]
               /\ UNCHANGED <<active, ready, starting, early, queue, progressing, turns, call>>
      BY <1>4, <2>1, <2>2
    <2> QED
      BY <1>5, <1>18, <2>1, <2>2 DEF Interrupted
  <1>19. ASSUME TurnAccepted(r)
         PROVE  Goal
    BY <1>19, AcceptedStep DEF Goal
  <1>20. Goal
    BY <1>7, <1>8, <1>10, <1>11, <1>12, <1>13, <1>14, <1>16, <1>17, <1>18, <1>19
  <1> QED
    BY <1>20 DEF Goal

\* A run that is disconnected keeps what relates it to the rest.
LEMMA DisconnectKeeps ==
  ASSUME RuntimeTypeOK
  PROVE  \A q \in Begun : run'[q] = Disconnect(run[q]) => Keeps(q)
  <1>1. ASSUME NEW q \in Begun, run'[q] = Disconnect(run[q])
        PROVE  Keeps(q)
    <2>1. PICK t \in Run : t = run[q]
      BY DEF RuntimeTypeOK, Begun
    <2>2. PICK d : d = Disconnect(t)
      OBVIOUS
    <2>3. /\ d.at = t.at /\ d.channel = t.channel /\ d.client = t.client
          /\ d.generation = t.generation /\ d.turn = t.turn /\ d.answered = t.answered
          /\ d.done # "no_response" \/ (d.done = t.done /\ d.by = t.by)
      BY <2>2 DEF Disconnect, Run
    <2>4. run'[q] = d
      BY <1>1, <2>1, <2>2
    <2> QED
      BY <2>1, <2>3, <2>4 DEF Keeps
  <1> QED
    BY <1>1

\* A client that is closed is not heard.
LEMMA RetiredKeeps ==
  ASSUME ConnectionInv', Retired
  PROVE  \A g \in Generations : KeepsQueue(g)
  <1>1. \A g \in Generations : server'[g] = "closed" => ~Heard(g)'
    BY DEF ConnectionInv, ClientInv, Heard, Generations
  <1> QED
    BY <1>1 DEF Retired, KeepsQueue

\* It is kept by the calls of steer() and interrupt(): all that they do to a run is to
\* disconnect it.
LEMMA CallSteps ==
  ASSUME RuntimeInv, RuntimeTypeOK', ConnectionInv', ConnectionMoved, closer' = closer,
         NEW u \in Callers,
         CallWaited(u) \/ CallEnds(u) \/ \E c \in Channels : CallBegins(u, c)
  PROVE  TurnsInv'
  <1>1. /\ UNCHANGED <<active, ready, starting, early, queue, turns>>
        /\ run \in [Starters -> Run] /\ Over' = Over
    BY DEF CallWaited, CallEnds, CallBegins, RuntimeInv, RuntimeTypeOK, Over
  <1>2. \A q \in Starters : Keeps(q)
    <2>1. CASE run' = run
      BY <2>1 DEF Keeps
    <2>2. ASSUME NEW c \in Channels, active[c] # None, Addressed(u, c)
          PROVE  \A q \in Starters : Keeps(q)
      <3>1. active[c] \in Begun
        BY <2>2 DEF RuntimeInv, TurnsInv, Claims
      <3>2. run' = run \/ run' = [run EXCEPT ![active[c]] = Disconnect(@)]
        BY <2>2 DEF Addressed
      <3> QED
        <4>1. \A q \in Begun : run'[q] = Disconnect(run[q]) => Keeps(q)
          BY DisconnectKeeps DEF RuntimeInv
        <4>2. \A q \in Starters : run'[q] = run[q] \/ (q \in Begun /\ run'[q] = Disconnect(run[q]))
          BY <1>1, <3>1, <3>2
        <4> QED
          BY <4>1, <4>2 DEF Keeps
    <2> QED
      BY <2>1, <2>2 DEF CallWaited, CallEnds, CallBegins, RuntimeInv, CallsWait
  <1>3. \A g \in Generations : KeepsQueue(g)
    BY <1>1 DEF KeepsQueue
  <1> QED
    BY <1>1, <1>2, <1>3, KeptStep

\* It is kept by the dispatcher: what it does not hand on is lost with the client.
LEMMA DispatchSteps ==
  ASSUME RuntimeInv, RuntimeTypeOK', ConnectionInv', ConnectionMoved, closer' = closer,
         NEW g \in Generations, Dispatch(g) \/ ProgressSent(g)
  PROVE  TurnsInv'
  <1> DEFINE Goal == TurnsInv'
  <1>1. /\ run \in [Starters -> Run] /\ Over' = Over /\ queue \in [Generations -> Seq(Message)]
    BY DEF RuntimeInv, RuntimeTypeOK, Over, Message
  <1>2. CASE ProgressSent(g)
    <2>1. /\ UNCHANGED <<active, ready, starting, early, queue, turns>>
          /\ \A q \in Starters : Keeps(q)
          /\ \A h \in Generations : KeepsQueue(h)
      BY <1>2 DEF ProgressSent, Keeps, KeepsQueue
    <2> QED
      BY <1>1, <2>1, KeptStep
  <1>3. ASSUME Dispatch(g), ~Heard(g)', \A q \in Starters : Keeps(q), UNCHANGED early
        PROVE  Goal
    <2>1. \A h \in Generations : KeepsQueue(h)
      BY <1>1, <1>3 DEF Dispatch, KeepsQueue
    <2>2. UNCHANGED <<active, ready, starting, early, turns>>
      BY <1>3 DEF Dispatch
    <2> QED
      BY <1>1, <1>3, <2>1, <2>2, KeptStep
  <1> HIDE DEF Goal
  <1>4. ASSUME Dispatch(g), ~Heard(g)
        PROVE  Goal
    <2>1. UNCHANGED connectionVars /\ UNCHANGED <<run, early>>
      BY <1>4 DEF Dispatch, Heard
    <2>2. ~Heard(g)'
      BY <1>4, <2>1 DEF Heard, Current, connectionVars
    <2>3. \A q \in Starters : Keeps(q)
      BY <2>1 DEF Keeps
    <2> QED
      BY <1>3, <1>4, <2>1, <2>2, <2>3
  <1>5. ASSUME Dispatch(g), Heard(g), Head(queue[g]) = Exited
        PROVE  Goal
    <2>1. /\ Invalidate(g, g) /\ UNCHANGED early
          /\ run' = [r \in Starters |->
                IF \E c \in Channels : active[c] = r THEN Disconnect(run[r]) ELSE run[r]]
      BY <1>5 DEF Dispatch, Heard
    <2>2. conn \in Connection
      BY DEF RuntimeInv, RuntimeTypeOK, ConnectionTypeOK
    <2>3. ~Heard(g)'
      BY <1>5, <2>1, <2>2 DEF Invalidate, Invalidated, Heard, Current, Connection
    <2>4. \A q \in Starters : Keeps(q)
      <3>1. \A c \in Channels : active[c] # None => active[c] \in Begun
        BY DEF RuntimeInv, TurnsInv, Claims
      <3> QED
        <4>1. \A q \in Begun : run'[q] = Disconnect(run[q]) => Keeps(q)
          BY DisconnectKeeps DEF RuntimeInv
        <4>2. \A q \in Starters : run'[q] = run[q] \/ (q \in Begun /\ run'[q] = Disconnect(run[q]))
          BY <2>1, <3>1, NoneAssumption
        <4> QED
          BY <4>1, <4>2 DEF Keeps
    <2> QED
      BY <1>3, <1>5, <2>1, <2>3, <2>4
  <1>6. ASSUME Dispatch(g), Heard(g), Head(queue[g]) # Exited
        PROVE  Goal
    BY <1>6, HandedStep DEF Goal
  <1>7. Goal
    BY <1>2, <1>4, <1>5, <1>6 DEF Goal
  <1> QED
    BY <1>7 DEF Goal

\* It is kept by the server's exit and by the recovery: only queues of clients that are
\* heard no more are emptied.
LEMMA ServerSteps ==
  ASSUME RuntimeInv, RuntimeTypeOK', ConnectionInv', ConnectionMoved, closer' = closer,
         Recover \/ \E g \in Generations : ServerFails(g)
  PROVE  TurnsInv'
  <1>1. /\ UNCHANGED <<run, active, ready, starting, early, turns>>
        /\ queue \in [Generations -> Seq(Message)] /\ Over' = Over
    BY DEF Recover, ServerFails, RuntimeInv, RuntimeTypeOK, Over, Message
  <1>2. \A q \in Starters : Keeps(q)
    BY <1>1 DEF Keeps
  <1>3. \A h \in Generations : KeepsQueue(h)
    <2>1. ASSUME NEW g \in Generations, ServerFails(g)
          PROVE  \A h \in Generations : KeepsQueue(h)
      BY <1>1, <2>1 DEF ServerFails, KeepsQueue
    <2>2. CASE Recover
      BY <2>2, RetiredKeeps DEF Recover
    <2> QED
      BY <2>1, <2>2
  <1> QED
    BY <1>1, <1>2, <1>3, KeptStep

\* It is kept by close(), which in the end disconnects the active turns and empties the
\* tables.
LEMMA CloseSteps ==
  ASSUME RuntimeInv, RuntimeTypeOK', ConnectionInv', ConnectionMoved, CloseRuntime
  PROVE  TurnsInv'
  <1>1. turns' = turns /\ \A g \in Generations : KeepsQueue(g)
    BY RetiredKeeps DEF CloseRuntime
  <1>2. ~Over
    BY DEF CloseRuntime, Close, CloseGoesOn, CloseEnds, Over, RuntimeInv, ConnectionInv, CloserInv
  <1>3. CASE closer'.at # "done"
    <2>1. UNCHANGED <<active, ready, starting, early, turns>> /\ run' = run
      BY <1>3 DEF CloseRuntime
    <2>2. \A q \in Starters : Keeps(q)
      BY <2>1 DEF Keeps
    <2>3. Over' => Over
      BY <1>3 DEF Over
    <2> QED
      BY <1>1, <2>1, <2>2, <2>3, KeptStep
  <1>4. CASE closer'.at = "done"
    <2>1. /\ run' = [r \in Starters |->
                IF \E c \in Channels : active[c] = r THEN Disconnect(run[r]) ELSE run[r]]
          /\ \A c \in Channels : active'[c] = None /\ ~starting'[c] /\ early'[c] = <<>>
      BY <1>4 DEF CloseRuntime
    <2>2. \A c \in Channels : active[c] # None => active[c] \in Begun
      BY DEF RuntimeInv, TurnsInv, Claims
    <2>3. \A q \in Starters : Keeps(q)
      <3>1. \A q \in Begun : run'[q] = Disconnect(run[q]) => Keeps(q)
        BY DisconnectKeeps DEF RuntimeInv
      <3>2. \A q \in Starters : run'[q] = run[q] \/ (q \in Begun /\ run'[q] = Disconnect(run[q]))
        BY <2>1, <2>2, NoneAssumption
      <3> QED
        BY <3>1, <3>2 DEF Keeps
    <2>4. Over'
      BY <1>4 DEF Over
    <2> QED
      BY <1>1, <2>1, <2>3, <2>4, EmptiedStep
  <1> QED
    BY <1>3, <1>4

----------------------------------------------------------------------------
(* The theorems.                                                           *)

\* Every step of the runtime, and the step that changes nothing, keeps the invariant.
LEMMA RuntimeNext == RuntimeInv /\ [Next]_vars => RuntimeInv'
  <1> SUFFICES ASSUME RuntimeInv, [Next]_vars
               PROVE  RuntimeInv'
    OBVIOUS
  <1>0. RuntimeTypeOK /\ ConnectionInv /\ Failures /\ CallsWait /\ Suspended /\ TurnsInv
    BY DEF RuntimeInv
  <1>1. CASE UNCHANGED vars
    <2>1. UNCHANGED connectionVars /\ UNCHANGED runtimeVars
      BY <1>1 DEF vars
    <2>2. ConnectionInv'
      BY <1>0, <2>1, NextInv
    <2>3. RuntimeTypeOK' /\ Failures' /\ CallsWait' /\ Suspended'
      BY <1>0, <2>1, <2>2 DEF RuntimeTypeOK, Failures, CallsWait, Suspended, ConnectionInv,
                              connectionVars, runtimeVars
    <2>4. ConnectionMoved
      BY <1>0, <2>1, ConnectionMoves
    <2>5. UNCHANGED <<run, active, ready, starting, early, queue, turns, closer>>
      BY <2>1 DEF runtimeVars, connectionVars
    <2>6. TurnsInv'
      <3>1. \A q \in Starters : Keeps(q)
        BY <2>5 DEF Keeps
      <3>2. \A g \in Generations : KeepsQueue(g)
        BY <2>5 DEF KeepsQueue
      <3>3. Over' => Over
        BY <2>5 DEF Over
      <3> QED
        BY <2>2, <2>3, <2>4, <2>5, <3>1, <3>2, <3>3, KeptStep
    <2> QED
      BY <2>2, <2>3, <2>6 DEF RuntimeInv
  <1>2. CASE Next
    <2>1. [ConnectionNext]_connectionVars
      BY <1>0, <1>2, ConnectionUsed
    <2>2. ConnectionInv' /\ ConnectionMoved
      BY <1>0, <2>1, NextInv, ConnectionMoves
    <2>3. ConnectionTypeOK' /\ Failures'
      BY <2>2 DEF ConnectionInv, ConnectionMoved
    <2>4. RuntimeTypeOK'
      BY <1>0, <1>2, <2>3, TypesStep DEF TurnsInv
    <2>5. CallsWait' /\ Suspended'
      BY <1>0, <1>2, CallsStep, SuspendedStep
    <2>6. CloseRuntime \/ closer' = closer
      BY <1>2, CloserKept
    <2>7. CASE CloseRuntime
      <3>1. TurnsInv'
        BY <2>2, <2>4, <2>7, CloseSteps
      <3> QED
        BY <2>2, <2>3, <2>4, <2>5, <3>1 DEF RuntimeInv
    <2>8. CASE ~CloseRuntime
      <3>1. closer' = closer
        BY <2>6, <2>8
      <3>2. ASSUME NEW r \in Starters,
                   \/ \E c \in Channels \cup {None} : StartRun(r, c)
                   \/ RunStarts(r) \/ RunCannotStart(r) \/ ThreadLoaded(r) \/ TurnStarted(r)
                   \/ Replay(r) \/ RequestFails(r) \/ RunEnds(r) \/ TurnTimesOut(r) \/ Cancel(r)
                   \/ Interrupted(r) \/ TurnAccepted(r)
            PROVE  TurnsInv'
        BY <2>2, <2>4, <3>1, <3>2, RunSteps
      <3>3. ASSUME NEW u \in Callers,
                   CallWaited(u) \/ CallEnds(u) \/ \E c \in Channels : CallBegins(u, c)
            PROVE  TurnsInv'
        BY <2>2, <2>4, <3>1, <3>3, CallSteps
      <3>4. ASSUME NEW g \in Generations, Dispatch(g) \/ ProgressSent(g)
            PROVE  TurnsInv'
        BY <2>2, <2>4, <3>1, <3>4, DispatchSteps
      <3>5. ASSUME Recover \/ \E g \in Generations : ServerFails(g)
            PROVE  TurnsInv'
        BY <2>2, <2>4, <3>1, <3>5, ServerSteps
      <3>6. ASSUME NEW t \in Turns, TurnReports(t)
            PROVE  TurnsInv'
        BY <2>2, <2>4, <3>6, ReportStep
      <3>7. TurnsInv'
        BY <1>2, <2>8, <3>2, <3>3, <3>4, <3>5, <3>6 DEF Next
      <3> QED
        BY <2>2, <2>3, <2>4, <2>5, <3>7 DEF RuntimeInv
    <2> QED
      BY <2>7, <2>8
  <1> QED
    BY <1>1, <1>2

\* The strengthened invariant always holds: what relates runs, claims, buffers and queues to
\* the connection they use.
THEOREM RuntimeInvariant == Spec => []RuntimeInv
  <1>1. Init => RuntimeInv
    BY RuntimeInit
  <1>2. RuntimeInv /\ [Next]_vars => RuntimeInv'
    BY RuntimeNext
  <1> QED
    BY <1>1, <1>2, PTL DEF Spec

\* The variables of the runtime keep their types.
THEOREM RuntimeTypes == Spec => []RuntimeTypeOK
  <1>1. RuntimeInv => RuntimeTypeOK
    BY DEF RuntimeInv
  <1> QED
    BY <1>1, RuntimeInvariant, PTL

\* A run whose own turn was answered before it completed is never taken for one without a
\* response (codex_app_server_turn_updates.py), whatever is buffered, replayed or lost.
THEOREM AnswersKept == Spec => []AnswerKept
  <1>1. RuntimeInv => AnswerKept
    BY DEF RuntimeInv, TurnsInv, Decided, AnswerKept
  <1> QED
    BY <1>1, RuntimeInvariant, PTL

\* Whatever the runtime does with its connection is what a user of the connection may do.
THEOREM RuntimeUsesConnection == Spec => ConnectionSpec
  <1>1. Init => ConnectionInit
    BY DEF Init
  <1>2. RuntimeInv /\ [Next]_vars => [ConnectionNext]_connectionVars
    <2>1. RuntimeInv /\ Next => [ConnectionNext]_connectionVars
      BY ConnectionUsed DEF RuntimeInv
    <2>2. UNCHANGED vars => UNCHANGED connectionVars
      BY DEF vars
    <2> QED
      BY <2>1, <2>2
  <1> QED
    BY <1>1, <1>2, RuntimeInvariant, PTL DEF Spec, ConnectionSpec

\* Under the runtime too, two app-server processes never run at the same time.
THEOREM RuntimeHasOneServer == Spec => []OneServer
  BY RuntimeUsesConnection, AlwaysOneServer, PTL

\* Under the runtime too, nothing of the connection survives its close().
THEOREM RuntimeClosesForGood == Spec => []ClosedForGood
  BY RuntimeUsesConnection, CloseIsFinal, PTL

\* A generation is only marked failed for an error of its own: the late failure of a request
\* or of a recovery of an old client does not invalidate its replacement.
THEOREM FailuresAreOwn == Spec => ReplacementNotBlamed
  <1> DEFINE Resumes(s) == starter[s].at = "resumed" /\ starter[s].client = 0 /\ starter'[s].at = "none"
             Own == conn'.stale /\ ~conn.stale /\ ~conn'.closed /\ conn'.failure # 0 =>
                      conn'.failure = conn.generation \/ \E s \in Starters : Resumes(s)
  <1>1. RuntimeInv /\ [Next]_vars => [Own]_vars
    <2> SUFFICES ASSUME RuntimeInv, Next, conn'.stale, ~conn.stale, ~conn'.closed, conn'.failure # 0
                 PROVE  conn'.failure = conn.generation \/ \E s \in Starters : Resumes(s)
      OBVIOUS
    <2> HIDE DEF Resumes
    <2>0. conn.failure = 0 /\ conn \in Connection
      BY DEF RuntimeInv, Failures, ConnectionInv, ConnectionTypeOK
    <2>1. ASSUME NEW g, NEW e, Invalidate(g, e), g = conn.generation => e = conn.generation
          PROVE  conn'.failure = conn.generation
      BY <2>0, <2>1 DEF Invalidate, Invalidated, Connection
    <2>2. ASSUME UNCHANGED connectionVars \/ \E g \in Generations : ServerExits(g)
          PROVE  FALSE
      BY <2>2 DEF connectionVars, ServerExits
    <2>3. ASSUME NEW r \in Starters, r \in Begun, run[r].generation = conn.generation
          PROVE  conn.closed \/ run[r].client = conn.generation
      BY <2>3 DEF RuntimeInv, TurnsInv, Published
    <2>4. ~conn.closed
      BY DEF RuntimeInv, ConnectionInv, CloserInv
    <2>5. ASSUME NEW r \in Starters,
                 \/ \E c \in Channels \cup {None} : StartRun(r, c)
                 \/ RunStarts(r) \/ Replay(r) \/ RunEnds(r) \/ TurnTimesOut(r) \/ Cancel(r)
                 \/ Interrupted(r) \/ TurnAccepted(r)
          PROVE  conn'.failure = conn.generation
      BY <2>1, <2>2, <2>4, <2>5 DEF StartRun, StartReturns, StartWaits, RunStarts, StartResumes,
         Replay, RunEnds, TurnTimesOut, Cancel, StartAbandoned, Interrupted, TurnAccepted
    <2>6. ASSUME NEW r \in Starters, GenerationGone(r)
          PROVE  conn'.failure = conn.generation
      BY <2>0, <2>1, <2>6 DEF GenerationGone
    <2>7. ASSUME NEW r \in Starters, ThreadLoaded(r) \/ TurnStarted(r)
          PROVE  conn'.failure = conn.generation
      BY <2>2, <2>6, <2>7 DEF ThreadLoaded, TurnStarted
    <2>8. ASSUME NEW r \in Starters, RequestFails(r)
          PROVE  conn'.failure = conn.generation
      <3>1. r \in Begun
        BY <2>8 DEF RequestFails, Begun
      <3> QED
        BY <2>1, <2>2, <2>3, <2>4, <2>8, <3>1 DEF RequestFails, Fails
    <2>9. ASSUME NEW r \in Starters, RunCannotStart(r)
          PROVE  Resumes(r)
      BY <2>9 DEF RunCannotStart, StartRaises, NotStarting, Resumes, RuntimeInv, RuntimeTypeOK,
                  ConnectionTypeOK
    <2>10. ASSUME NEW u \in Callers,
                  CallWaited(u) \/ CallEnds(u) \/ \E c \in Channels : CallBegins(u, c)
           PROVE  conn'.failure = conn.generation
      BY <2>1, <2>2, <2>10 DEF CallWaited, CallEnds, CallBegins, Fails
    <2>11. ASSUME NEW g \in Generations, Dispatch(g) \/ ProgressSent(g) \/ ServerFails(g)
           PROVE  conn'.failure = conn.generation
      BY <2>1, <2>2, <2>11 DEF Dispatch, ProgressSent, ServerFails
    <2>12. ASSUME NEW t \in Turns, TurnReports(t)
           PROVE  conn'.failure = conn.generation
      BY <2>2, <2>12 DEF TurnReports, Reports
    <2>13. CASE Recover
      <3>1. CASE NewClientClosed
        <4>1. recovery.generation = conn.generation
          BY <2>4, <3>1 DEF NewClientClosed, RuntimeInv, ConnectionInv, RecoveryInv, InProgress
        <4>2. recovery.error = recovery.generation
          BY <2>4, <3>1 DEF NewClientClosed, RuntimeInv, Failures
        <4> QED
          BY <2>0, <3>1, <4>1, <4>2 DEF NewClientClosed, Invalidated, Connection
      <3>2. CASE RecoverBegins
        BY <3>2 DEF RecoverBegins
      <3>3. CASE ClientStarted
        BY <2>0, <3>3 DEF ClientStarted, Connection
      <3>4. CASE OldClientClosed \/ ClientStartFails \/ RecoverCancelled
        BY <3>4 DEF OldClientClosed, ClientStartFails, RecoverCancelled
      <3> QED
        BY <2>13, <3>1, <3>2, <3>3, <3>4 DEF Recover, RecoveryStep
    <2>14. ASSUME CloseRuntime
           PROVE  FALSE
      BY <2>14 DEF CloseRuntime, Close, CloseGoesOn, CloseEnds
    <2> QED
      BY <2>5, <2>7, <2>8, <2>9, <2>10, <2>11, <2>12, <2>13, <2>14 DEF Next
  <1>2. RuntimeInv /\ [Next]_vars =>
          [conn'.stale /\ ~conn.stale /\ ~conn'.closed /\ conn'.failure # 0 =>
             \/ conn'.failure = conn.generation
             \/ \E s \in Starters : /\ starter[s].at = "resumed" /\ starter[s].client = 0
                                   /\ starter'[s].at = "none"]_vars
    BY <1>1
  <1> QED
    BY <1>2, RuntimeInvariant, PTL DEF Spec, ReplacementNotBlamed

=============================================================================
