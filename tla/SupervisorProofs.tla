-------------------------- MODULE SupervisorProofs --------------------------
(***************************************************************************)
(* The safety properties of SupervisorProps, for any number of classes and *)
(* label sets, any bound on the attempts and any faults.                   *)
(***************************************************************************)
EXTENDS SupervisorProps, TLAPS

Booting == {"group", "lookup", "reconcile", "open", "backoff"}

\* The classes are opened in order; the group runs only between Launch and
\* GroupWaits.
Position ==
  /\ proc = "down" => cur = 1 /\ opened = {}
  /\ proc \in Booting => cur \in Class /\ opened = 1 .. cur - 1
  /\ proc \in {"launch", "mark", "serve"} => opened = Class
  /\ proc \notin {"mark", "serve"} => listeners = {} /\ ~server
  /\ proc = "backoff" => attempt < MaxAttempts

\* A session is ours exactly while its set is to be closed.
OwnSessions ==
  \A c \in Class :
    session[c] = "ours" <=> c \in opened /\ (proc = "closing" => c >= cur)

\* A class has the labels of the configuration from reconcileScaleSet on.
Configured ==
  /\ proc \notin {"down", "closing"} => \A c \in opened : labels[c] = want[c]
  /\ proc \in {"open", "backoff"} => labels[cur] = want[cur]

\* GetRunnerScaleSet's answer is still true when it is used.
ScaleSets ==
  /\ \A c \in Class : copies[c] = IF labels[c] = Missing THEN 0 ELSE 1
  /\ proc = "reconcile" => found = labels[cur]

\* The parts of SupervisorTypeOK the two provers are good at.
FlagTypes ==
  /\ listen \in BOOLEAN /\ cancelled \in BOOLEAN
  /\ server \in BOOLEAN /\ healthy \in BOOLEAN /\ ready \in BOOLEAN

ValueTypes ==
  /\ copies \in [Class -> Nat]
  /\ labels \in [Class -> Labels \cup {Missing}]
  /\ session \in [Class -> {"none", "ours", "stale"}]
  /\ proc \in ProcLabel
  /\ cur \in 1 .. N + 1
  /\ want \in [Class -> Labels]
  /\ found \in Labels \cup {Missing}
  /\ attempt \in 1 .. MaxAttempts
  /\ opened \subseteq Class
  /\ cause \in {"none", "error", "canceled"}
  /\ listeners \subseteq Class /\ reapers \subseteq Class

SupervisorInv ==
  SupervisorTypeOK /\ Position /\ OwnSessions /\ Configured /\ ScaleSets

LEMMA SupervisorInvInit == SupervisorInit => SupervisorInv
<1> USE SupervisorAssumption DEF SupervisorInit, Class, Missing
<1> SUFFICES ASSUME SupervisorInit PROVE SupervisorInv
  OBVIOUS
<1>1. SupervisorTypeOK
  <2>1. FlagTypes
    BY Zenon DEF FlagTypes
  <2>2. ValueTypes
    BY DEF ValueTypes, ProcLabel
  <2> QED
    BY <2>1, <2>2 DEF SupervisorTypeOK, FlagTypes, ValueTypes
<1>2. Position
  BY DEF Position, Booting
<1>3. OwnSessions /\ Configured /\ ScaleSets
  BY DEF OwnSessions, Configured, ScaleSets
<1> QED
  BY <1>1, <1>2, <1>3 DEF SupervisorInv

\* An error during bootstrap, without a change at GitHub.
LEMMA FailKeepsInv ==
  ASSUME SupervisorInv, NEW e \in {"error", "canceled"},
         proc \in Booting, Fail(e), UNCHANGED hubVars
  PROVE  SupervisorInv'
<1> USE SupervisorAssumption
    DEF SupervisorInv, SupervisorTypeOK, ProcLabel, Position, Booting,
        OwnSessions, Configured, ScaleSets, Class, Missing, hubVars,
        configVars, bootVars, groupVars
<1> USE DEF Fail, Blame
<1> QED
  OBVIOUS

\* One step per action.
LEMMA SupervisorInvStep ==
  ASSUME SupervisorInv, [SupervisorNext]_supervisorVars
  PROVE  SupervisorInv'
<1> USE SupervisorAssumption
    DEF SupervisorInv, SupervisorTypeOK, ProcLabel, Position, Booting,
        OwnSessions, Configured, ScaleSets, Class, Missing, hubVars,
        configVars, bootVars, groupVars
<1>1. CASE GetRunnerGroup
  BY <1>1 DEF GetRunnerGroup, Advance
<1>2. CASE GetRunnerScaleSet
  BY <1>2 DEF GetRunnerScaleSet, Advance
<1>3. CASE ReconcileScaleSet
  BY <1>3 DEF ReconcileScaleSet, Advance, WriteScaleSet
<1>4. CASE OpenSession
  BY <1>4 DEF OpenSession, Advance, Adopt
<1>5. CASE SessionConflict
  <2>1. CASE attempt = MaxAttempts
    <3>1. proc \in Booting /\ Fail("error") /\ UNCHANGED hubVars
      BY <1>5, <2>1, Zenon DEF SessionConflict
    <3> QED
      BY <3>1, FailKeepsInv
  <2>2. CASE attempt # MaxAttempts
    <3>1. /\ proc = "open" /\ Advance("backoff")
          /\ UNCHANGED <<hubVars, bootVars>>
      BY <1>5, <2>2, Zenon DEF SessionConflict
    <3> QED
      BY <2>2, <3>1 DEF Advance
  <2> QED
    BY <2>1, <2>2
<1>6. CASE BackoffElapsed
  BY <1>6 DEF BackoffElapsed, Advance
<1>7. CASE BackoffCancelled
  <2>1. proc \in Booting /\ Fail("canceled") /\ UNCHANGED hubVars
    BY <1>7, Zenon DEF BackoffCancelled
  <2> QED
    BY <2>1, FailKeepsInv
<1>8. CASE CallFails
  <2>1. PICK e \in {"error", "canceled"} : Fail(e)
    BY <1>8, Zenon DEF CallFails
  <2>2. proc \in Booting /\ UNCHANGED hubVars
    BY <1>8, Zenon DEF CallFails
  <2> QED
    BY <2>1, <2>2, FailKeepsInv
<1>9. CASE ReconcileReplyLost
  BY <1>9 DEF ReconcileReplyLost, WriteScaleSet, Fail, Blame
<1>10. CASE OpenReplyLost
  BY <1>10 DEF OpenReplyLost, Fail, Blame
<1>11. CASE Start
  <2>1. SupervisorTypeOK'
    <3>1. FlagTypes'
      BY <1>11, Zenon DEF FlagTypes, Start
    <3>2. ValueTypes'
      BY <1>11 DEF ValueTypes, Start
    <3> QED
      BY <3>1, <3>2 DEF FlagTypes, ValueTypes
  <2>2. Position'
    BY <1>11 DEF Start
  <2>3. OwnSessions'
    BY <1>11 DEF Start
  <2>4. Configured'
    BY <1>11 DEF Start
  <2>5. ScaleSets'
    BY <1>11 DEF Start
  <2> QED
    BY <2>1, <2>2, <2>3, <2>4, <2>5
<1>12. CASE Launch
  BY <1>12 DEF Launch
<1>13. CASE MarkReady
  BY <1>13 DEF MarkReady
<1>14. CASE GroupWaits
  BY <1>14 DEF GroupWaits
<1>15. CASE ServerStops
  BY <1>15 DEF ServerStops
<1>16. CASE ServerFails
  BY <1>16 DEF ServerFails, Blame
<1>17. CASE CloseSession
  <2>1. /\ proc = "closing" /\ cur \in Class /\ cur' = cur + 1
        /\ UNCHANGED <<copies, labels, proc, configVars, found, attempt, opened,
                       cancelled, cause, groupVars>>
    BY <1>17 DEF CloseSession
  <2>2. PICK s \in {"none", "stale", session[cur]} :
          /\ session' = [session EXCEPT ![cur] = s]
          /\ s = "ours" => cur \notin opened
    BY <1>17 DEF CloseSession
  <2>3. SupervisorTypeOK'
    BY <2>1, <2>2
  <2>4. Position' /\ Configured' /\ ScaleSets'
    BY <2>1
  <2>5. OwnSessions'
    BY <2>1, <2>2
  <2> QED
    BY <2>3, <2>4, <2>5
<1>18. CASE Exit
  <2>1. SupervisorTypeOK'
    <3>1. FlagTypes'
      BY <1>18, Zenon DEF FlagTypes, Exit, Gone
    <3>2. ValueTypes'
      BY <1>18 DEF ValueTypes, Exit, Gone
    <3> QED
      BY <3>1, <3>2 DEF FlagTypes, ValueTypes
  <2>2. Position'
    BY <1>18 DEF Exit, Gone
  <2>3. OwnSessions'
    BY <1>18 DEF Exit, Gone
  <2>4. Configured'
    BY <1>18 DEF Exit, Gone
  <2>5. ScaleSets'
    BY <1>18 DEF Exit, Gone
  <2> QED
    BY <2>1, <2>2, <2>3, <2>4, <2>5
<1>19. CASE Signal
  BY <1>19 DEF Signal
<1>20. CASE Crash
  <2>1. SupervisorTypeOK'
    <3>1. FlagTypes'
      BY <1>20, Zenon DEF FlagTypes, Crash, Gone
    <3>2. ValueTypes'
      BY <1>20 DEF ValueTypes, Crash, Gone
    <3> QED
      BY <3>1, <3>2 DEF FlagTypes, ValueTypes
  <2>2. Position'
    BY <1>20 DEF Crash, Gone
  <2>3. OwnSessions'
    BY <1>20 DEF Crash, Gone
  <2>4. Configured'
    BY <1>20 DEF Crash, Gone
  <2>5. ScaleSets'
    BY <1>20 DEF Crash, Gone
  <2> QED
    BY <2>1, <2>2, <2>3, <2>4, <2>5
<1>21. ASSUME NEW c \in Class, ListenerReturns(c)
      PROVE  SupervisorInv'
  BY <1>21 DEF ListenerReturns, Blame
<1>22. ASSUME NEW c \in Class, ReaperReturns(c)
      PROVE  SupervisorInv'
  BY <1>22 DEF ReaperReturns, Blame
<1>23. ASSUME NEW c \in Class, SessionExpires(c)
      PROVE  SupervisorInv'
  BY <1>23 DEF SessionExpires
<1>24. CASE UNCHANGED supervisorVars
  BY <1>24 DEF supervisorVars
<1> QED
  BY <1>1, <1>2, <1>3, <1>4, <1>5, <1>6, <1>7, <1>8, <1>9, <1>10, <1>11, <1>12, <1>13, <1>14, <1>15, <1>16, <1>17, <1>18, <1>19, <1>20, <1>21, <1>22, <1>23, <1>24
  DEF SupervisorNext, BootstrapStep, GroupStep

----------------------------------------------------------------------------

\* The invariant of run(): how far bootstrap has come, which sessions the
\* deferred function has to close, and what GitHub holds for each class.
THEOREM SupervisorCorrect == SupervisorSpec => []SupervisorInv
<1>1. SupervisorInv /\ [SupervisorNext]_supervisorVars => SupervisorInv'
  BY SupervisorInvStep
<1> QED
  BY SupervisorInvInit, <1>1, PTL DEF SupervisorSpec

\* Every variable has its type; in particular openSessionWithRetry never makes
\* more than MaxAttempts attempts.
THEOREM SupervisorTypeCorrect == SupervisorSpec => []SupervisorTypeOK
<1>1. SupervisorInv => SupervisorTypeOK
  BY DEF SupervisorInv
<1> QED
  BY SupervisorCorrect, <1>1, PTL

\* reconcileScaleSet never creates a second scale set with a class's name,
\* whatever fails, crashes or is reconfigured in between.
THEOREM OneScaleSetCorrect == SupervisorSpec => []OneScaleSet
<1>1. SupervisorInv => OneScaleSet
  BY DEF SupervisorInv, ScaleSets, OneScaleSet
<1> QED
  BY SupervisorCorrect, <1>1, PTL

\* While the health server answers 200, every class has its session and its
\* labels: MarkHealthy comes after all of bootstrap, and the server ends
\* before the first session is closed.
THEOREM HealthyCorrect == SupervisorSpec => []HealthyIsBootstrapped
<1>1. ASSUME SupervisorInv, server
      PROVE  \A c \in Class : session[c] = "ours" /\ labels[c] = want[c]
  <2>1. proc \in {"mark", "serve"}
    BY <1>1, Zenon DEF SupervisorInv, Position
  <2>2. opened = Class
    BY <1>1, <2>1 DEF SupervisorInv, Position
  <2>3. proc \notin {"down", "closing"}
    BY <2>1
  <2> QED
    BY <1>1, <2>2, <2>3 DEF SupervisorInv, OwnSessions, Configured
<1>2. SupervisorInv => HealthyIsBootstrapped
  BY <1>1, Zenon DEF HealthyIsBootstrapped
<1> QED
  BY SupervisorCorrect, <1>2, PTL

\* The deferred function of run() closes a session only after its listener has
\* returned, and no listener starts without one.
THEOREM PollsOwnCorrect == SupervisorSpec => []PollsOwnSession
<1>1. ASSUME SupervisorInv, NEW c \in listeners
      PROVE  session[c] = "ours"
  <2>1. proc \in {"mark", "serve"}
    BY <1>1 DEF SupervisorInv, Position
  <2>2. c \in Class /\ opened = Class /\ proc # "closing"
    BY <1>1, <2>1 DEF SupervisorInv, Position, SupervisorTypeOK
  <2> QED
    BY <1>1, <2>2 DEF SupervisorInv, OwnSessions
<1>2. SupervisorInv => PollsOwnSession
  BY <1>1 DEF PollsOwnSession
<1> QED
  BY SupervisorCorrect, <1>2, PTL

\* A process that has ended holds no session it could still have closed:
\* the deferred function of run() has closed, or tried to close, every one of
\* them.
THEOREM SessionsReleasedCorrect == SupervisorSpec => []SessionsReleased
<1>1. SupervisorInv => SessionsReleased
  BY DEF SupervisorInv, Position, OwnSessions, SessionsReleased
<1> QED
  BY SupervisorCorrect, <1>1, PTL

NoStaleSession == \A c \in Class : session[c] # "stale"

\* openSessionWithRetry meets no session of a former process.
NoConflict == proc = "open" => session[cur] = "none"

\* The sessions a process leaves to the next one come from three faults only.
\* Without a lost reply, a failed Close and a crash no session becomes stale,
\* whether bootstrap fails half-way, a member of the group fails, a signal comes
\* or the configuration changes: openSessionWithRetry meets no 409, and the
\* attempts and waits of scaleset.go are there for those three.
THEOREM NoConflictCorrect ==
  ASSUME Faults \cap {"lostReply", "close", "crash"} = {}
  PROVE  SupervisorSpec => []NoConflict
<1> DEFINE I == SupervisorInv /\ NoStaleSession
<1>1. SupervisorInit => I
  BY SupervisorInvInit DEF SupervisorInit, NoStaleSession
<1>2. ASSUME I, [SupervisorNext]_supervisorVars
      PROVE  I'
  <2>1. SupervisorInv'
    BY <1>2, SupervisorInvStep
  <2> SUFFICES NoStaleSession'
    BY <2>1
  <2>2. CASE UNCHANGED session
    BY <1>2, <2>2 DEF NoStaleSession
  <2>3. CASE OpenSession
    BY <1>2, <2>3 DEF OpenSession, NoStaleSession, SupervisorInv, SupervisorTypeOK
  <2>4. CASE Start
    <3>1. \A c \in Class : session[c] = "none"
      BY <1>2, <2>4 DEF Start, SupervisorInv, SupervisorTypeOK, Position,
         OwnSessions, NoStaleSession
    <3> QED
      BY <2>4, <3>1 DEF Start, NoStaleSession
  <2>5. CASE CloseSession
    BY <1>2, <2>5 DEF CloseSession, NoStaleSession, SupervisorInv, SupervisorTypeOK
  <2>6. ASSUME NEW c \in Class, SessionExpires(c)
        PROVE  NoStaleSession'
    BY <1>2, <2>6 DEF SessionExpires, NoStaleSession
  <2>7. \/ UNCHANGED session \/ OpenSession \/ Start \/ CloseSession
        \/ \E c \in Class : SessionExpires(c)
    BY <1>2
    DEF SupervisorNext, BootstrapStep, GroupStep, supervisorVars, hubVars,
        GetRunnerGroup, GetRunnerScaleSet, ReconcileScaleSet, WriteScaleSet,
        SessionConflict, BackoffElapsed, BackoffCancelled, CallFails,
        ReconcileReplyLost, OpenReplyLost, Launch, MarkReady, GroupWaits,
        ServerStops, ServerFails, ListenerReturns, ReaperReturns, Exit, Signal,
        Crash
  <2> QED
    BY <2>1, <2>2, <2>3, <2>4, <2>5, <2>6, <2>7
<1>3. I => NoConflict
  BY DEF NoConflict, SupervisorInv, SupervisorTypeOK, Position, Booting, OwnSessions,
     NoStaleSession
<1>4. I /\ [SupervisorNext]_supervisorVars => I'
  BY <1>2
<1> HIDE DEF I
<1> QED
  BY <1>1, <1>3, <1>4, PTL DEF SupervisorSpec
=============================================================================
