------------------------- MODULE Deployment_proofs -------------------------
(***************************************************************************)
(* A container of the deployment runs only with what the modules of its    *)
(* components assume, whatever the environments, faults and restarts are;  *)
(* nobody is logged in on an adapter that has stopped; a database that is  *)
(* served is migrated as a whole; and the two ends of a connection stay in *)
(* step with their keys and nonces.                                        *)
(***************************************************************************)
EXTENDS Deployment, FiniteSetTheorems, WellFoundedInduction, SequenceTheorems, TLAPS

-----------------------------------------------------------------------------
(* What Load accepts fits the assumptions of the other modules.            *)

\* Every environment LoadFromEnv accepts (config.go:137-346) gives positive
\* batches, buffers and timeouts and a quality of service MQTT knows, also where
\* the value it was given does not fit in the byte it is kept in.
THEOREM AcceptedIngressIsFit ==
  ASSUME NEW e, IngressAccepts(e)
  PROVE  IngressFit(IngressLoad(e))
<1>1. ASSUME NEW s \in Durations \cup Counts PROVE IngressLoad(e)[s] \in Positive
  <2>1. s \in IngressSettings /\ s \notin Switches /\ s \notin DOMAIN Choices /\ s # "MQTT_QOS"
    BY <1>1 DEF IngressSettings, Durations, Counts, Switches, Choices
  <2>2. IngressValid(s, e[s])
    BY <2>1 DEF IngressAccepts
  <2>3. e[s] = Unset \/ e[s] \in Positive
    BY <2>1, <2>2 DEF IngressValid
  <2>4. CASE e[s] \in {Unset, Blank}
    <3>1. IngressLoad(e)[s] = IngressDefault(s)
      BY <2>1, <2>4 DEF IngressLoad
    <3>2. IngressDefault(s) \in Positive
      <4>1. DefaultNumber[s] \in Positive
        BY <1>1 DEF DefaultNumber, Positive
      <4> QED BY <4>1, <1>1 DEF IngressDefault, DefaultNumber
    <3> QED BY <3>1, <3>2
  <2>5. CASE e[s] \notin {Unset, Blank}
    BY <2>1, <2>3, <2>5 DEF IngressLoad
  <2> QED BY <2>4, <2>5
<1>2. IngressLoad(e)["MQTT_QOS"] \in 0..2
  <2> DEFINE raw == e["MQTT_QOS"]
  <2>1. "MQTT_QOS" \in IngressSettings
    BY DEF IngressSettings
  <2>2. IngressValid("MQTT_QOS", raw)
    BY <2>1 DEF IngressAccepts
  <2>3. raw = Unset \/ (raw \in Nat /\ Byte(raw) <= 2)
    BY <2>2 DEF IngressValid, Durations, Counts, Switches, Choices
  <2>4. CASE raw \in {Unset, Blank}
    BY <2>1, <2>4 DEF IngressLoad, IngressDefault, DefaultNumber, Durations, Counts
  <2>5. CASE raw \notin {Unset, Blank}
    <3>1. IngressLoad(e)["MQTT_QOS"] = Byte(raw)
      BY <2>1, <2>5 DEF IngressLoad
    <3>2. raw \in Nat /\ Byte(raw) <= 2
      BY <2>3, <2>5
    <3>3. Byte(raw) \in Nat
      BY <3>2 DEF Byte
    <3> QED BY <3>1, <3>2, <3>3
  <2> QED BY <2>4, <2>5
<1> QED BY <1>1, <1>2 DEF IngressFit

\* Whatever the environment says, the Core (app_config.go:395-482) runs with a
\* queue that holds a message, a login guard that counts, and pages whose default
\* size does not exceed their largest size.
THEOREM CoreIsFit ==
  ASSUME NEW e
  PROVE  CoreFit(CoreLoad(e))
<1>1. ASSUME NEW s \in CoreNumbers PROVE CoreValue(e, s) \in Positive
  <2>1. s \in CoreSettings /\ s # "AUTH_SESSION_COOKIE_MAX_AGE_SECONDS" /\ s # "DB_DRIVER"
    BY <1>1 DEF CoreSettings, CoreNumbers
  <2>2. CoreDefault(s) \in Positive
    <3>1. CoreDefaultNumber[s] \in Positive
      BY <1>1 DEF CoreDefaultNumber, Positive
    <3> QED BY <3>1, <1>1 DEF CoreDefault
  <2> QED BY <1>1, <2>1, <2>2 DEF CoreValue
<1>2. ASSUME NEW s \in DOMAIN LargestOf
      PROVE  /\ s \in CoreNumbers /\ LargestOf[s] \in CoreNumbers
             /\ LargestOf[s] \notin DOMAIN LargestOf
  BY <1>2 DEF LargestOf, CoreNumbers
<1>3. ASSUME NEW s \in CoreNumbers PROVE CoreLoad(e)[s] \in Positive
  <2>1. CASE s \in DOMAIN LargestOf
    <3>1. CoreValue(e, s) \in Positive /\ CoreValue(e, LargestOf[s]) \in Positive
      BY <1>1, <1>2, <2>1
    <3> QED BY <2>1, <3>1, <1>3 DEF CoreLoad, Bounded, CoreSettings
  <2>2. CASE s \notin DOMAIN LargestOf
    BY <2>2, <1>1, <1>3 DEF CoreLoad, CoreSettings
  <2> QED BY <2>1, <2>2
<1>4. ASSUME NEW s \in DOMAIN LargestOf
      PROVE  CoreLoad(e)[s] <= CoreLoad(e)[LargestOf[s]]
  <2>1. CoreLoad(e)[s] = Bounded(e, s)
    BY <1>2, <1>4 DEF CoreLoad, CoreSettings
  <2>2. CoreLoad(e)[LargestOf[s]] = CoreValue(e, LargestOf[s])
    BY <1>2, <1>4 DEF CoreLoad, CoreSettings
  <2>3. CoreValue(e, s) \in Nat /\ CoreValue(e, LargestOf[s]) \in Nat
    BY <1>1, <1>2, <1>4 DEF Positive
  <2> QED BY <2>1, <2>2, <2>3 DEF Bounded
<1> QED BY <1>3, <1>4 DEF CoreFit

-----------------------------------------------------------------------------
(* The two containers.                                                     *)

\* A process that runs was let in by Load, and the environment of a container
\* does not change: the strengthening that makes RunsWithinAssumptions inductive.
WasAccepted == process = "running" => IngressAccepts(env.ingress)

\* The ingress that has been started was accepted, and a step starts it only if
\* it is (main.go:20-24).
THEOREM StartedWasAccepted == Spec => []WasAccepted
<1>1. Init => WasAccepted
  BY DEF Init, WasAccepted
<1>2. WasAccepted /\ [Next]_vars => WasAccepted'
  <2> SUFFICES ASSUME WasAccepted, [Next]_vars
               PROVE  WasAccepted'
    OBVIOUS
  <2> USE DEF WasAccepted
  <2>1. CASE IngressStart
    BY <2>1 DEF IngressStart
  <2>2. CASE Exit
    BY <2>2 DEF Exit
  <2>3. CASE UNCHANGED <<env, process>>
    BY <2>3
  <2>4. CASE CoreRuns \/ CoreEnds
    BY <2>3, <2>4 DEF CoreRuns, CoreEnds, appVars
  <2>5. CASE CancelAll \/ StopSignal
    BY <2>3, <2>5 DEF CancelAll, StopSignal
  <2>6. ASSUME NEW p \in Component, Start(p) \/ Stop(p) \/ StartFails(p)
        PROVE  UNCHANGED <<env, process>>
    BY <2>6 DEF Start, Stop, StartFails
  <2>7. CASE AcceptLoop
    BY <2>3, <2>7 DEF AcceptLoop, AcceptEnds, Check, Track, LoopEnds, Accept, appVars
  <2>8. CASE Watcher
    BY <2>3, <2>8 DEF Watcher, WatcherFlags, WatcherCloses, CloseActive, appVars
  <2>9. CASE AcceptFails
    BY <2>3, <2>9 DEF AcceptFails
  <2>10. ASSUME NEW c \in Conn, Dial(c) \/ DeviceActs(c) \/ HandleFrame(c) \/ HangUp(c)
         PROVE  UNCHANGED <<env, process>>
    BY <2>10 DEF Dial, DeviceActs, HandleFrame, HangUp, appVars
  <2>11. CASE UNCHANGED vars
    BY <2>3, <2>11 DEF vars, appVars
  <2> QED
    BY <2>1, <2>2, <2>3, <2>4, <2>5, <2>6, <2>7, <2>8, <2>9, <2>10, <2>11 DEF Next, Process
<1> QED BY <1>1, <1>2, PTL DEF Spec

\* For all environments, databases and connections both programs run with
\* settings that meet the assumptions of the other modules' constants.
THEOREM RunsFit == Spec => []RunsWithinAssumptions
<1>1. WasAccepted => RunsWithinAssumptions
  BY AcceptedIngressIsFit, CoreIsFit DEF WasAccepted, RunsWithinAssumptions, Config
<1> QED BY <1>1, StartedWasAccepted, PTL

-----------------------------------------------------------------------------
\* A connection's record has the fields of a closed one.
IsLink(l) == l = [x \in DOMAIN Closed |-> l[x]]

\* Only a connection that is tracked is authenticated, and the goroutine that
\* closes them acts once the context is done, which stays so until the process
\* has ended: the strengthening that makes StoppedServesNobody inductive.
StopInv ==
  /\ link = [c \in Conn |-> link[c]] /\ stage = [c \in Conn |-> stage[c]]
  /\ \A c \in Conn : IsLink(link[c])
  /\ \A c \in Conn : link[c].authenticated => stage[c] = "tracked"
  /\ watcher # "none" => process = "running"
  /\ watcher \in {"flag", "close", "closed"} => ctxDone
  /\ StoppedServesNobody

\* A link that is not there is a link without a session.
LEMMA ClosedIsLink == IsLink(Closed) /\ ~Closed.authenticated
BY DEF IsLink, Closed

\* Opening and closing connections leaves links of the same form, and none of
\* them authenticated.
LEMMA OpenIsLink == IsLink([Closed EXCEPT !.open = TRUE]) /\ ~[Closed EXCEPT !.open = TRUE].authenticated
BY DEF IsLink, Closed

\* Nothing a device does authenticates its session.
LEMMA DeviceStep ==
  ASSUME NEW c \in Conn, Device(c), link = [d \in Conn |-> link[d]], IsLink(link[c])
  PROVE  /\ link' = [d \in Conn |-> link'[d]]
         /\ \A d \in Conn \ {c} : link'[d] = link[d]
         /\ IsLink(link'[c]) /\ link'[c].authenticated = link[c].authenticated
<1> USE DEF IsLink, Closed
<1>1. ASSUME NEW cmd, NEW isAck, Send(c, cmd, isAck)
      PROVE  /\ link' = [d \in Conn |-> link'[d]]
             /\ \A d \in Conn \ {c} : link'[d] = link[d]
             /\ IsLink(link'[c]) /\ link'[c].authenticated = link[c].authenticated
  BY <1>1 DEF Send
<1>2. CASE DeviceReads(c)
  BY <1>2 DEF DeviceReads
<1> QED
  BY <1>1, <1>2 DEF Device, Handshake, Verify, Report, Rekey, Confirm, ReportError

\* A frame authenticates a session only if the Core accepted its token.
LEMMA ServeStep ==
  ASSUME NEW c \in Conn, NEW accepted \in BOOLEAN, NEW command \in BOOLEAN,
         ServeFrame(c, accepted, command), link = [d \in Conn |-> link[d]], IsLink(link[c])
  PROVE  /\ link' = [d \in Conn |-> link'[d]]
         /\ \A d \in Conn \ {c} : link'[d] = link[d]
         /\ IsLink(link'[c])
         /\ link'[c].authenticated => link'[c].open /\ (link[c].authenticated \/ accepted)
<1>1. CASE Close(c)
  BY <1>1, ClosedIsLink DEF Close
<1>2. CASE ~Close(c)
  <2> DEFINE l == link[c]
             f == Head(l.up)
             pops == /\ command /\ (l.authenticated \/ (f.cmd = "AuthVerify" /\ accepted))
                     /\ ~(l.inflight /\ f.cmd # "ActionExec")
             answer == Answer(l, f)
             frames == answer \o (IF pops THEN <<Pack("ActionExec", FALSE, KeyAfter(l, f),
                                                     l.writeSeq + Len(answer) + 1, 0, FALSE)>>
                                          ELSE <<>>)
             up == Tail(l.up)
             key == KeyAfter(l, f)
             last == IF f.cmd \in Exchanges THEN l.lastKey + 1 ELSE l.lastKey
             seq == l.writeSeq + Len(frames)
             inflight == (l.inflight /\ f.cmd # "ActionExec") \/ pops
             down == l.down \o frames
             sent == l.sent \cup Used("server", frames,
                                      Cardinality({t \in l.sent : t.from = "server"}))
  <2>1. link' = [link EXCEPT ![c] =
            [link[c] EXCEPT !.up = up, !.serverKey = key, !.lastKey = last, !.writeSeq = seq,
                            !.authenticated = link[c].authenticated
                              \/ (Head(link[c].up).cmd = "AuthVerify" /\ accepted),
                            !.inflight = inflight, !.down = down, !.sent = sent]]
    BY <1>2 DEF ServeFrame
  <2> HIDE DEF up, key, last, seq, inflight, down, sent
  <2>2. link[c].open
    BY DEF ServeFrame
  <2>3. link'[c] =
          [link[c] EXCEPT !.up = up, !.serverKey = key, !.lastKey = last, !.writeSeq = seq,
                          !.authenticated = link[c].authenticated
                            \/ (Head(link[c].up).cmd = "AuthVerify" /\ accepted),
                          !.inflight = inflight, !.down = down, !.sent = sent]
    BY <2>1
  <2>4. DOMAIN link[c] = DOMAIN Closed
    BY DEF IsLink
  <2>5. DOMAIN Closed = {"open", "serverKey", "writeSeq", "authenticated", "inflight", "deviceKey",
                         "deviceSeq", "admitted", "owed", "asked", "lastKey", "up", "down", "sent"}
    BY DEF Closed
  <2>6. IsLink(link'[c]) /\ link'[c].open = link[c].open
        /\ (link'[c].authenticated => link[c].authenticated \/ accepted)
    BY <2>3, <2>4, <2>5 DEF IsLink
  <2> QED BY <2>1, <2>2, <2>6
<1> QED BY <1>1, <1>2

\* Steps that leave the connections and the watcher alone, and the context done
\* if it was, and the process running as long as it is watched.
LEMMA UntouchedStop ==
  ASSUME StopInv, UNCHANGED <<link, watcher>>,
         stage' = [c \in Conn |-> stage'[c]],
         \A c \in Conn : stage[c] = "tracked" => stage'[c] = "tracked",
         watcher # "none" => (ctxDone => ctxDone') /\ process' = process
  PROVE  StopInv'
BY DEF StopInv, StoppedServesNobody

\* Connections that are dropped are not authenticated.
LEMMA DroppedAreQuiet ==
  ASSUME StopInv, NEW set \in SUBSET Conn, Drop(set)
  PROVE  /\ link' = [c \in Conn |-> link'[c]] /\ stage' = [c \in Conn |-> stage'[c]]
         /\ \A c \in Conn : IsLink(link'[c])
         /\ \A c \in Conn : link'[c].authenticated => link[c].authenticated /\ c \notin set
         /\ \A c \in Conn : link'[c].authenticated => stage'[c] = "tracked"
<1>1. \A c \in Conn : link'[c] = IF c \in set THEN Closed ELSE link[c]
  BY DEF Drop
<1>2. \A c \in Conn : stage'[c] = IF c \in set THEN "none" ELSE stage[c]
  BY DEF Drop
<1>3. link' = [c \in Conn |-> link'[c]] /\ stage' = [c \in Conn |-> stage'[c]]
  BY DEF Drop
<1> QED BY <1>1, <1>2, <1>3, ClosedIsLink DEF StopInv

\* Whatever is accepted or tracked while the adapter stops, no session is
\* authenticated once the active connections are closed.
THEOREM StoppedLogsNobodyIn == Spec => []StoppedServesNobody
<1>1. Init => StopInv
  BY ClosedIsLink DEF Init, ChannelInit, StopInv, StoppedServesNobody
<1>2. StopInv /\ [Next]_vars => StopInv'
  <2> SUFFICES ASSUME StopInv, [Next]_vars
               PROVE  StopInv'
    OBVIOUS
  <2>0. link = [c \in Conn |-> link[c]] /\ stage = [c \in Conn |-> stage[c]]
    BY DEF StopInv
  <2>1. CASE CoreRuns \/ CoreEnds \/ UNCHANGED vars
    BY <2>0, <2>1, UntouchedStop
    DEF CoreRuns, CoreEnds, vars, appVars, adapterVars
  <2>2. CASE IngressStart
    BY <2>2 DEF IngressStart, StopInv, StoppedServesNobody, adapterVars
  <2>3. ASSUME NEW p \in Component, Start(p)
        PROVE  StopInv'
    BY <2>3 DEF Start, StopInv, StoppedServesNobody, adapterVars
  <2>4. ASSUME NEW p \in Component, StartFails(p) \/ Stop(p)
        PROVE  StopInv'
    BY <2>0, <2>4, UntouchedStop DEF StartFails, Stop, adapterVars
  <2>5. CASE StopSignal \/ CancelAll
    BY <2>0, <2>5, UntouchedStop DEF StopSignal, CancelAll, adapterVars
  <2>6. CASE Exit
    BY <2>6, ClosedIsLink DEF Exit, StopInv, StoppedServesNobody
  <2>7. ASSUME NEW c \in Conn, Dial(c)
        PROVE  StopInv'
    BY <2>7, OpenIsLink DEF Dial, Open, StopInv, StoppedServesNobody, appVars, adapterVars
  <2>8. ASSUME NEW c \in Conn, Accept(c)
        PROVE  StopInv'
    BY <2>8, UntouchedStop DEF Accept, StopInv, appVars
  <2>9. CASE AcceptEnds \/ LoopEnds \/ Track
    BY <2>0, <2>9, UntouchedStop DEF AcceptEnds, LoopEnds, Track, appVars
  <2>10. CASE AcceptFails
    <3>1. CASE ctxDone
      BY <2>0, <2>10, <3>1, UntouchedStop DEF AcceptFails
    <3>2. CASE ~ctxDone
      <4>1. Drop({c \in Conn : stage[c] = "backlog"}) /\ watcher' = "none"
        BY <2>10, <3>2 DEF AcceptFails
      <4> QED BY <4>1, DroppedAreQuiet DEF StopInv, StoppedServesNobody
    <3> QED BY <3>1, <3>2
  <2>11. CASE Check
    <3>1. CASE shutdown
      BY <2>11, <3>1, ClosedIsLink DEF Check, Close, StopInv, StoppedServesNobody, appVars
    <3>2. CASE ~shutdown
      BY <2>0, <2>11, <3>2, UntouchedStop DEF Check, appVars
    <3> QED BY <3>1, <3>2
  <2>12. CASE WatcherFlags
    BY <2>12 DEF WatcherFlags, StopInv, StoppedServesNobody, appVars
  <2>13. CASE WatcherCloses
    <3>1. Drop({c \in Conn : stage[c] = "backlog"}) /\ watcher' = "close" /\ watcher = "flag"
          /\ UNCHANGED <<process, ctxDone>>
      BY <2>13 DEF WatcherCloses, appVars
    <3> QED BY <3>1, DroppedAreQuiet DEF StopInv, StoppedServesNobody
  <2>14. CASE CloseActive
    <3>1. Drop({c \in Conn : stage[c] = "tracked"}) /\ watcher' = "closed" /\ watcher = "close"
          /\ UNCHANGED <<process, ctxDone>>
      BY <2>14 DEF CloseActive, appVars
    <3> DEFINE set == {c \in Conn : stage[c] = "tracked"}
    <3>2. /\ link' = [c \in Conn |-> link'[c]] /\ stage' = [c \in Conn |-> stage'[c]]
          /\ \A c \in Conn : IsLink(link'[c])
          /\ \A c \in Conn : link'[c].authenticated => link[c].authenticated /\ c \notin set
          /\ \A c \in Conn : link'[c].authenticated => stage'[c] = "tracked"
      <4>1. set \in SUBSET Conn /\ Drop(set)
        BY <3>1
      <4> HIDE DEF set
      <4> QED BY <4>1, DroppedAreQuiet
    <3>3. \A c \in Conn : ~link'[c].authenticated
      BY <3>2 DEF StopInv
    <3> QED BY <3>1, <3>2, <3>3 DEF StopInv, StoppedServesNobody
  <2>15. ASSUME NEW c \in Conn, DeviceActs(c)
         PROVE  StopInv'
    <3>1. Device(c) /\ UNCHANGED <<stage, process, ctxDone, watcher>>
      BY <2>15 DEF DeviceActs, appVars, adapterVars
    <3>2. /\ link' = [d \in Conn |-> link'[d]]
          /\ \A d \in Conn \ {c} : link'[d] = link[d]
          /\ IsLink(link'[c]) /\ link'[c].authenticated = link[c].authenticated
      BY <2>0, <3>1, DeviceStep DEF StopInv
    <3> QED BY <3>1, <3>2 DEF StopInv, StoppedServesNobody
  <2>16. ASSUME NEW c \in Conn, HandleFrame(c)
         PROVE  StopInv'
    <3>1. PICK accepted \in BOOLEAN, command \in BOOLEAN :
            ServeFrame(c, accepted, command) /\ (accepted => Reachable)
      BY <2>16 DEF HandleFrame
    <3>2. /\ link' = [d \in Conn |-> link'[d]]
          /\ \A d \in Conn \ {c} : link'[d] = link[d]
          /\ IsLink(link'[c])
          /\ link'[c].authenticated => link'[c].open /\ (link[c].authenticated \/ accepted)
      BY <2>0, <3>1, ServeStep DEF StopInv
    <3>3. /\ stage[c] = "tracked" /\ UNCHANGED <<process, ctxDone, watcher>>
          /\ stage' = [stage EXCEPT ![c] = IF link'[c].open THEN @ ELSE "none"]
      BY <2>16 DEF HandleFrame, appVars, adapterVars
    <3>4. \A d \in Conn : link'[d].authenticated => stage'[d] = "tracked"
      BY <2>0, <3>2, <3>3 DEF StopInv
    <3>5. StoppedServesNobody'
      BY <3>1, <3>2, <3>3 DEF Reachable, StopInv, StoppedServesNobody
    <3> QED BY <2>0, <3>2, <3>3, <3>4, <3>5 DEF StopInv
  <2>17. ASSUME NEW c \in Conn, HangUp(c)
         PROVE  StopInv'
    <3>1. Drop({c}) /\ UNCHANGED <<process, ctxDone, watcher>>
      BY <2>17 DEF HangUp, appVars, adapterVars
    <3> QED BY <3>1, DroppedAreQuiet DEF StopInv, StoppedServesNobody
  <2> QED
    BY <2>1, <2>2, <2>3, <2>4, <2>5, <2>6, <2>7, <2>8, <2>9, <2>10, <2>11, <2>12, <2>13, <2>14,
       <2>15, <2>16, <2>17
    DEF Next, Process, AcceptLoop, Watcher
<1>3. StopInv => StoppedServesNobody
  BY DEF StopInv
<1> QED BY <1>1, <1>2, <1>3, PTL DEF Spec
-----------------------------------------------------------------------------
(* Migrations that are killed and begun again.                             *)

\* A finite set of ids that is not empty has a largest one, ...
LEMMA LargestExists ==
  ASSUME NEW S \in SUBSET Nat, IsFiniteSet(S), S # {}
  PROVE  \E i \in S : \A j \in S : j <= i
<1> DEFINE Topless == {X \in SUBSET S : X # {} /\ ~ \E i \in X : \A j \in X : j <= i}
<1>1. SUFFICES ASSUME Topless # {}
               PROVE  FALSE
  <2>1. S \in SUBSET S
    OBVIOUS
  <2> QED BY <1>1, <2>1
<1>2. IsWellFoundedOn(StrictSubsetOrdering(S), SUBSET S)
  <2>1. FiniteSubsetsOf(S) = SUBSET S
    BY FS_FiniteSubsetsOfFinite
  <2> QED BY <2>1, FS_StrictSubsetOrderingWellFounded
<1>3. Topless \subseteq SUBSET S
  OBVIOUS
<1>4. PICK X \in Topless : \A Y \in Topless : <<Y, X>> \notin StrictSubsetOrdering(S)
  <2> HIDE DEF Topless
  <2> QED BY <1>1, <1>2, <1>3, WFMin
<1>5. PICK e \in X : TRUE
  OBVIOUS
<1>6. X \ {e} \notin Topless
  <2>1. <<X \ {e}, X>> \in StrictSubsetOrdering(S)
    BY <1>5 DEF StrictSubsetOrdering
  <2> QED BY <1>4, <2>1
<1>7. \A j \in X : j \in Nat
  OBVIOUS
<1>8. CASE X \ {e} = {}
  BY <1>5, <1>7, <1>8
<1>9. CASE X \ {e} # {}
  <2>1. PICK m \in X \ {e} : \A j \in X \ {e} : j <= m
    BY <1>6, <1>9
  <2>2. \E i \in X : \A j \in X : j <= i
    <3>1. CASE e <= m
      <4>1. \A j \in X : j <= m
        BY <2>1, <3>1
      <4> QED BY <2>1, <4>1
    <3>2. CASE ~(e <= m)
      <4>1. \A j \in X : j <= e
        BY <1>5, <1>7, <2>1, <3>2
      <4> QED BY <1>5, <4>1
    <3> QED BY <3>1, <3>2
  <2> QED BY <2>2
<1> QED BY <1>8, <1>9

\* ... so the id of the next row is larger than every id that is there.
LEMMA NextIsFresh ==
  ASSUME NEW S \in SUBSET OldId
  PROVE  Largest(S) + 1 \in Nat /\ \A id \in S : id < Largest(S) + 1
<1>1. S \in SUBSET Nat /\ IsFiniteSet(S)
  BY OldIdAssumption, FS_Subset
<1>2. CASE S = {}
  BY <1>2 DEF Largest
<1>3. CASE S # {}
  <2>1. \E i \in S : \A j \in S : j <= i
    BY <1>1, <1>3, LargestExists
  <2>2. Largest(S) \in S /\ \A j \in S : j <= Largest(S)
    BY <1>3, <2>1 DEF Largest
  <2>3. \A j \in S : j \in Nat
    BY <1>1
  <2> QED BY <2>2, <2>3
<1> QED BY <1>2, <1>3

-----------------------------------------------------------------------------
\* The databases there may be.
Schemas ==
  [recorded : SUBSET All(Files), tables : SUBSET {TableOf(f) : f \in All(Files)},
   columns : SUBSET All(Columns), old : SUBSET OldId, commands : SUBSET OldId,
   next : Nat, born : SUBSET OldId]

\* A committed database: what a recorded file creates is there, and the old
\* commands are in the table they came with or, once 0002 is recorded, all in
\* the new one, which gives larger ids from then on.
Consistent(db) ==
  /\ \A f \in db.recorded : TableOf(f) \in db.tables
  /\ Files[1] \in db.recorded => db.columns = All(Columns)
  /\ Files[2] \notin db.recorded => db.commands = {} /\ db.old = db.born
  /\ Files[2] \in db.recorded =>
       db.commands = db.born /\ db.old = {} /\ \A id \in db.commands : id < db.next

\* How far the statements of the open transaction have come.
Transaction ==
  LET f == Files[migrator.file]  n == migrator.statement IN
  /\ f \notin schema.recorded
  /\ image.recorded = schema.recorded /\ image.born = schema.born
  /\ schema.tables \subseteq image.tables
  /\ schema.columns = All(Columns) => image.columns = All(Columns)
  /\ n > 1 => TableOf(f) \in image.tables
  /\ migrator.file = 1 /\ n > 1 => image.columns = All(Columns)
  /\ migrator.file # 2 =>
       n <= 2 /\ image.old = schema.old /\ image.commands = schema.commands /\ image.next = schema.next
  /\ migrator.file = 2 =>
       /\ n <= 2 => image.commands = {}
       /\ n <= 3 => image.old = image.born
       /\ n >= 3 => image.commands = image.born
       /\ n >= 4 => image.old = {}
       /\ n = 5 \/ (driver = "sqlite" /\ n >= 3) => \A id \in image.commands : id < image.next
       /\ n = 5 => driver = "postgres"

\* Where the migrator may be.
Migrator ==
  [at : {"down", "columns", "files", "file", "columnsAgain", "post", "serving"},
   column : DOMAIN Columns, file : DOMAIN Files, statement : 1 .. 5]

\* The committed database is consistent, and so is the open transaction's image of
\* it: the strengthening that makes MigratedWhole inductive.
MigrationInv ==
  /\ driver \in {"sqlite", "postgres"}
  /\ schema \in Schemas /\ image \in Schemas /\ migrator \in Migrator
  /\ Consistent(schema)
  /\ ~At("file") => image = schema
  /\ At("file") => Transaction
  /\ At("columnsAgain") \/ At("post") \/ At("serving") => schema.recorded = All(Files)

\* The three files and the two columns.
LEMMA FilesAndColumns ==
  /\ DOMAIN Files = 1 .. 3 /\ DOMAIN Columns = 1 .. 2 /\ Len(Columns) = 2
  /\ All(Files) = {Files[1], Files[2], Files[3]}
  /\ All(Columns) = {Columns[1], Columns[2]}
  /\ Files[1] # Files[2] /\ Files[1] # Files[3] /\ Files[2] # Files[3]
  /\ Columns[1] # Columns[2]
<1>1. DOMAIN Files = 1 .. 3 /\ DOMAIN Columns = 1 .. 2 /\ Len(Columns) = 2
  BY DEF Files, Columns
<1>2. 1 .. 3 = {1, 2, 3} /\ 1 .. 2 = {1, 2}
  OBVIOUS
<1>3. All(Files) = {Files[1], Files[2], Files[3]}
  BY <1>1, <1>2 DEF All
<1>4. All(Columns) = {Columns[1], Columns[2]}
  BY <1>1, <1>2 DEF All
<1> QED BY <1>1, <1>3, <1>4 DEF Files, Columns

\* What the migrator's place becomes.
LEMMA MigratorFields ==
  ASSUME migrator \in Migrator, NEW at, NEW i
  PROVE  /\ [migrator EXCEPT !.column = i, !.at = at] =
              [at |-> at, column |-> i, file |-> migrator.file, statement |-> migrator.statement]
         /\ [migrator EXCEPT !.at = at, !.file = i, !.statement = 1] =
              [at |-> at, column |-> migrator.column, file |-> i, statement |-> 1]
<1> DEFINE a == migrator.at
           c == migrator.column
           f == migrator.file
           n == migrator.statement
<1>1. migrator = [at |-> a, column |-> c, file |-> f, statement |-> n]
  BY DEF Migrator
<1> HIDE DEF a, c, f, n
<1>2. [migrator EXCEPT !.column = i] = [at |-> a, column |-> i, file |-> f, statement |-> n]
  BY <1>1
<1>3. [[at |-> a, column |-> i, file |-> f, statement |-> n] EXCEPT !.at = at] =
        [at |-> at, column |-> i, file |-> f, statement |-> n]
  OBVIOUS
<1>4. [migrator EXCEPT !.at = at] = [at |-> at, column |-> c, file |-> f, statement |-> n]
  BY <1>1
<1>5. [[at |-> at, column |-> c, file |-> f, statement |-> n] EXCEPT !.file = i] =
        [at |-> at, column |-> c, file |-> i, statement |-> n]
  OBVIOUS
<1>6. [[at |-> at, column |-> c, file |-> i, statement |-> n] EXCEPT !.statement = 1] =
        [at |-> at, column |-> c, file |-> i, statement |-> 1]
  OBVIOUS
<1> USE DEF a, c, f, n
<1> QED BY <1>2, <1>3, <1>4, <1>5, <1>6, Zenon

\* The statements of 0002 on either database.
LEMMA Concatenated ==
  ASSUME NEW a, NEW b, NEW c, NEW d
  PROVE  <<a, b, c>> \o <<d>> = <<a, b, c, d>> /\ <<a, b, c>> \o <<>> = <<a, b, c>>
<1> DEFINE S == {a, b, c, d}
<1>1. <<a, b, c>> \in Seq(S) /\ <<d>> \in Seq(S) /\ <<>> \in Seq(S) /\ <<a, b, c, d>> \in Seq(S)
  OBVIOUS
<1>2. <<a, b, c>> \o <<d>> = <<a, b, c, d>>
  <2>1. <<a, b, c>> \o <<d>> \in Seq(S) /\ Len(<<a, b, c>> \o <<d>>) = 4
    BY <1>1
  <2>2. (<<a, b, c>> \o <<d>>)[4] = d
    BY <1>1
  <2>3. (<<a, b, c>> \o <<d>>)[1] = a /\ (<<a, b, c>> \o <<d>>)[2] = b
        /\ (<<a, b, c>> \o <<d>>)[3] = c
    BY <1>1
  <2>4. \A i \in 1 .. 4 : (<<a, b, c>> \o <<d>>)[i] = <<a, b, c, d>>[i]
    <3>1. \A i \in 1 .. 4 : i \in {1, 2, 3, 4}
      OBVIOUS
    <3> QED BY <2>2, <2>3, <3>1
  <2> QED BY <1>1, <2>1, <2>4, SeqEqual
<1>3. <<a, b, c>> \o <<>> = <<a, b, c>>
  BY <1>1
<1> QED BY <1>2, <1>3

\* Every database the Core may find is consistent.
LEMMA MigrationInit == Init => MigrationInv
<1> SUFFICES ASSUME Init
             PROVE  MigrationInv
  OBVIOUS
<1>1. driver \in {"sqlite", "postgres"}
  BY DriverAssumption DEF Init, CoreInit
<1>2. migrator \in Migrator /\ At("down") /\ ~At("file")
      /\ ~At("columnsAgain") /\ ~At("post") /\ ~At("serving")
  BY FilesAndColumns DEF Init, CoreInit, Down, Migrator, At
<1>3. "devices" = TableOf(Files[1])
  BY FilesAndColumns DEF TableOf
<1>4. PICK ids \in SUBSET OldId :
        \/ schema = Database({}, {}, {}, {})
        \/ schema = Database({}, {"devices"}, {}, ids)
        \/ schema = Database({Files[1]}, {"devices"}, All(Columns), ids)
  BY DEF Init, CoreInit, Databases
<1>5. ASSUME NEW recorded \in SUBSET {Files[1]}, NEW tables \in SUBSET {TableOf(Files[1])},
             NEW columns \in SUBSET All(Columns), NEW old \in SUBSET OldId,
             recorded # {} => tables = {TableOf(Files[1])} /\ columns = All(Columns),
             schema = Database(recorded, tables, columns, old)
      PROVE  schema \in Schemas /\ Consistent(schema)
  <2>1. /\ schema.recorded = recorded /\ schema.tables = tables /\ schema.columns = columns
        /\ schema.old = old /\ schema.commands = {} /\ schema.next = 1 /\ schema.born = old
    BY <1>5 DEF Database
  <2>2. Consistent(schema)
    BY <1>5, <2>1, FilesAndColumns DEF Consistent
  <2>3. recorded \in SUBSET All(Files) /\ tables \in SUBSET {TableOf(f) : f \in All(Files)}
    BY FilesAndColumns
  <2>4. schema \in Schemas
    BY <1>5, <2>3 DEF Database, Schemas
  <2> QED BY <2>2, <2>4
<1>7. schema \in Schemas /\ Consistent(schema)
  BY <1>3, <1>4, <1>5
<1>6. image = schema
  BY DEF Init, CoreInit
<1> QED BY <1>1, <1>2, <1>6, <1>7 DEF MigrationInv

\* The database is brought up to date by one committed step at a time.
LEMMA ColumnsStep == MigrationInv /\ (StartMigrate \/ AddColumn) => MigrationInv'
<1> SUFFICES ASSUME MigrationInv, StartMigrate \/ AddColumn
             PROVE  MigrationInv'
  OBVIOUS
<1> USE DEF MigrationInv
<1>1. CASE StartMigrate
  <2>1. UNCHANGED <<driver, schema, image>> /\ image = schema
    BY <1>1 DEF StartMigrate, At
  <2>2. migrator' \in Migrator /\ migrator'.at \in {"columns", "files"}
    BY <1>1, FilesAndColumns DEF StartMigrate, Down, Migrator
  <2> QED BY <2>1, <2>2 DEF At, Consistent
<1>2. CASE AddColumn
  <2>1. /\ schema' = [schema EXCEPT !.columns = @ \cup {Columns[migrator.column]}]
        /\ image' = schema' /\ driver' = driver
        /\ migrator.at \in {"columns", "columnsAgain"}
    BY <1>2 DEF AddColumn, At
  <2>2. Columns[migrator.column] \in All(Columns)
    BY DEF Migrator, All
  <2>3. schema' \in Schemas
    BY <2>1, <2>2 DEF Schemas
  <2>4. /\ schema'.recorded = schema.recorded /\ schema'.tables = schema.tables
        /\ schema'.old = schema.old /\ schema'.commands = schema.commands
        /\ schema'.next = schema.next /\ schema'.born = schema.born
        /\ schema'.columns = schema.columns \cup {Columns[migrator.column]}
    BY <2>1 DEF Schemas
  <2>5. Consistent(schema')
    BY <2>2, <2>4 DEF Consistent
  <2>6. /\ migrator' \in Migrator
        /\ migrator'.at \in {migrator.at, IF migrator.at = "columns" THEN "files" ELSE "post"}
    <3>1. migrator.column \in {1, 2}
      BY FilesAndColumns DEF Migrator
    <3>2. CASE migrator.column = 1
      <4>1. migrator' = [migrator EXCEPT !.column = @ + 1]
        BY <1>2, <3>2, FilesAndColumns DEF AddColumn
      <4> QED BY <3>2, <4>1, FilesAndColumns DEF Migrator
    <3>3. CASE migrator.column = 2
      <4>1. migrator' = [migrator EXCEPT !.column = 1,
                           !.at = IF migrator.at = "columns" THEN "files" ELSE "post"]
        BY <1>2, <3>3, FilesAndColumns DEF AddColumn, At
      <4> DEFINE at == IF migrator.at = "columns" THEN "files" ELSE "post"
      <4>2. migrator' = [at |-> at, column |-> 1, file |-> migrator.file,
                         statement |-> migrator.statement]
        <5> HIDE DEF at
        <5> QED BY <4>1, MigratorFields DEF at
      <4> QED BY <4>2, FilesAndColumns DEF Migrator
    <3> QED BY <3>1, <3>2, <3>3
  <2> QED BY <2>1, <2>3, <2>4, <2>5, <2>6 DEF At, Consistent
<1> QED BY <1>1, <1>2

\* A transaction begins with the database as it is.
LEMMA BeginStep == MigrationInv /\ BeginFile => MigrationInv'
<1> SUFFICES ASSUME MigrationInv, BeginFile
             PROVE  MigrationInv'
  OBVIOUS
<1> USE DEF MigrationInv
<1> DEFINE pending == {i \in DOMAIN Files : Files[i] \notin schema.recorded}
<1>1. UNCHANGED <<driver, schema, image>> /\ image = schema
  BY DEF BeginFile, At
<1>2. CASE pending = {}
  <2>1. migrator' \in Migrator /\ migrator'.at = "columnsAgain"
    BY <1>2 DEF BeginFile, Migrator
  <2>2. schema.recorded = All(Files)
    <3>1. schema.recorded \subseteq All(Files)
      BY DEF Schemas
    <3> QED BY <1>2, <3>1 DEF All
  <2> QED BY <1>1, <2>1, <2>2 DEF At, Consistent
<1>3. CASE pending # {}
  <2>1. First(pending) \in pending
    <3>1. pending \in SUBSET (1 .. 3)
      BY FilesAndColumns
    <3>2. \E i \in pending : \A j \in pending : i <= j
      <4> HIDE DEF pending
      <4>1. \A i \in pending : i \in {1, 2, 3}
        BY <3>1
      <4>2. CASE 1 \in pending
        BY <4>1, <4>2
      <4>3. CASE 1 \notin pending /\ 2 \in pending
        BY <4>1, <4>3
      <4>4. CASE 1 \notin pending /\ 2 \notin pending
        BY <1>3, <4>1, <4>4
      <4> QED BY <4>2, <4>3, <4>4
    <3> HIDE DEF pending
    <3> QED BY <3>2 DEF First
  <2>2. /\ migrator' = [migrator EXCEPT !.at = "file", !.file = First(pending), !.statement = 1]
    BY <1>3 DEF BeginFile
  <2>3. /\ migrator' \in Migrator /\ migrator'.at = "file" /\ migrator'.statement = 1
        /\ migrator'.file = First(pending)
    <3> HIDE DEF pending
    <3>1. First(pending) \in DOMAIN Files
      BY <2>1 DEF pending
    <3>2. PICK i \in DOMAIN Files : i = First(pending)
      BY <3>1
    <3>3. migrator' = [migrator EXCEPT !.at = "file", !.file = i, !.statement = 1]
      BY <2>2, <3>2
    <3>4. migrator' \in Migrator /\ migrator'.at = "file" /\ migrator'.statement = 1
          /\ migrator'.file = i
      <4>1. migrator' = [at |-> "file", column |-> migrator.column, file |-> i, statement |-> 1]
        BY <3>3, MigratorFields
      <4> QED BY <4>1 DEF Migrator
    <3> QED BY <3>2, <3>4
  <2>4. Files[migrator'.file] \notin schema.recorded /\ migrator'.file \in 1 .. 3
    BY <2>1, <2>3, FilesAndColumns
  <2>5. Transaction'
    BY <1>1, <2>3, <2>4 DEF Transaction, Consistent
  <2> QED BY <1>1, <2>3, <2>5 DEF At, Consistent
<1> QED BY <1>2, <1>3

\* One statement of a file.
LEMMA StatementStep == MigrationInv /\ RunStatement => MigrationInv'
<1> SUFFICES ASSUME MigrationInv, RunStatement
             PROVE  MigrationInv'
  OBVIOUS
<1> USE DEF MigrationInv
<1> DEFINE n == migrator.statement
<1>1. /\ At("file") /\ n \in DOMAIN Statements(image) /\ ~StatementFails(image)
      /\ image' = Statements(image)[n] /\ UNCHANGED <<driver, schema>>
      /\ migrator' = [migrator EXCEPT !.statement = @ + 1]
  BY DEF RunStatement
<1>2. /\ migrator.file \in {1, 2, 3} /\ n \in 1 .. 5 /\ Transaction
  BY <1>1, FilesAndColumns DEF Migrator
<1>3. /\ migrator'.at = "file" /\ migrator'.file = migrator.file /\ migrator'.statement = n + 1
      /\ n < 5 => migrator' \in Migrator
  BY <1>1, FilesAndColumns DEF Migrator, At
<1>4. TableOf(Files[migrator.file]) \in {TableOf(f) : f \in All(Files)}
  BY <1>2, FilesAndColumns
<1>5. SUFFICES image' \in Schemas /\ Transaction' /\ n < 5
  BY <1>1, <1>3 DEF At, Consistent
<1>6. CASE migrator.file = 1
  <2>1. Statements(image) =
          <<[image EXCEPT !.tables = @ \cup {TableOf(Files[1])}, !.columns = All(Columns)]>>
    BY <1>6 DEF Statements
  <2>2. n = 1 /\ image' = [image EXCEPT !.tables = @ \cup {TableOf(Files[1])}, !.columns = All(Columns)]
    BY <1>1, <2>1
  <2>3. image' \in Schemas
    BY <1>4, <1>6, <2>2 DEF Schemas
  <2>4. /\ image'.tables = image.tables \cup {TableOf(Files[1])} /\ image'.columns = All(Columns)
        /\ image'.recorded = image.recorded /\ image'.old = image.old
        /\ image'.commands = image.commands /\ image'.next = image.next /\ image'.born = image.born
    BY <2>2 DEF Schemas
  <2> QED BY <1>1, <1>2, <1>3, <1>6, <2>2, <2>3, <2>4 DEF Transaction
<1>7. CASE migrator.file = 3
  <2>1. Statements(image) = <<[image EXCEPT !.tables = @ \cup {TableOf(Files[3])}]>>
    BY <1>7 DEF Statements
  <2>2. n = 1 /\ image' = [image EXCEPT !.tables = @ \cup {TableOf(Files[3])}]
    BY <1>1, <2>1
  <2>3. image' \in Schemas
    BY <1>4, <1>7, <2>2 DEF Schemas
  <2>4. /\ image'.tables = image.tables \cup {TableOf(Files[3])} /\ image'.columns = image.columns
        /\ image'.recorded = image.recorded /\ image'.old = image.old
        /\ image'.commands = image.commands /\ image'.next = image.next /\ image'.born = image.born
    BY <2>2 DEF Schemas
  <2> QED BY <1>1, <1>2, <1>3, <1>7, <2>2, <2>3, <2>4 DEF Transaction
<1>8. CASE migrator.file = 2
  <2> DEFINE moved == [image EXCEPT !.commands = @ \cup image.old]
             first == [image EXCEPT !.tables = @ \cup {TableOf(Files[2])}]
             second == IF driver = "sqlite" THEN [moved EXCEPT !.next = Largest(moved.commands) + 1]
                       ELSE moved
             third == [image EXCEPT !.old = {}]
             fourth == [image EXCEPT !.next = Largest(image.commands) + 1]
  <2>1. Statements(image) = <<first, second, third>>
                            \o (IF driver = "postgres" THEN <<fourth>> ELSE <<>>)
    BY <1>8 DEF Statements
  <2>2. /\ image' = CASE n = 1 -> first [] n = 2 -> second [] n = 3 -> third [] n = 4 -> fourth
        /\ n \in 1 .. 4 /\ (n = 4 => driver = "postgres")
    <3> HIDE DEF first, second, third, fourth
    <3>1. CASE driver = "postgres"
      <4>1. Statements(image) = <<first, second, third, fourth>>
        BY <2>1, <3>1, Concatenated
      <4> QED BY <1>1, <1>2, <3>1, <4>1
    <3>2. CASE driver # "postgres"
      <4>1. Statements(image) = <<first, second, third>>
        BY <2>1, <3>2, Concatenated
      <4> QED BY <1>1, <1>2, <3>2, <4>1
    <3> QED BY <3>1, <3>2
  <2>3. image.old \cup image.commands = image.born /\ image.born \in SUBSET OldId
    BY <1>2, <1>8 DEF Transaction, Schemas
  <2>4. /\ moved \in Schemas /\ moved.commands = image.born
        /\ moved.tables = image.tables /\ moved.columns = image.columns
        /\ moved.recorded = image.recorded /\ moved.old = image.old
        /\ moved.next = image.next /\ moved.born = image.born
    BY <2>3 DEF Schemas
  <2>5. /\ Largest(image.born) + 1 \in Nat /\ \A id \in image.born : id < Largest(image.born) + 1
    BY <2>3, NextIsFresh
  <2>6. CASE n = 1
    <3>1. image' = first
      BY <2>2, <2>6
    <3>2. /\ image' \in Schemas
          /\ image'.tables = image.tables \cup {TableOf(Files[2])} /\ image'.columns = image.columns
          /\ image'.recorded = image.recorded /\ image'.old = image.old
          /\ image'.commands = image.commands /\ image'.next = image.next /\ image'.born = image.born
      BY <1>4, <1>8, <3>1 DEF Schemas
    <3> QED BY <1>1, <1>2, <1>3, <1>8, <2>6, <3>2 DEF Transaction
  <2>7. CASE n = 2
    <3>1. image' = second
      BY <2>2, <2>7
    <3>2. second = IF driver = "sqlite" THEN [moved EXCEPT !.next = Largest(image.born) + 1] ELSE moved
      <4>1. moved.commands = image.born
        BY <2>4
      <4> HIDE DEF moved
      <4> QED BY <4>1
    <3> HIDE DEF moved, second
    <3>3. /\ image' \in Schemas
          /\ image'.tables = image.tables /\ image'.columns = image.columns
          /\ image'.recorded = image.recorded /\ image'.old = image.old
          /\ image'.commands = image.born /\ image'.born = image.born
          /\ driver = "sqlite" => image'.next = Largest(image.born) + 1
      BY <2>4, <2>5, <3>1, <3>2 DEF Schemas
    <3> QED BY <1>1, <1>2, <1>3, <1>8, <2>5, <2>7, <3>3 DEF Transaction
  <2>8. CASE n = 3
    <3>1. image' = third
      BY <2>2, <2>8
    <3>2. /\ image' \in Schemas
          /\ image'.tables = image.tables /\ image'.columns = image.columns
          /\ image'.recorded = image.recorded /\ image'.old = {}
          /\ image'.commands = image.commands /\ image'.next = image.next /\ image'.born = image.born
      BY <3>1 DEF Schemas
    <3> QED BY <1>1, <1>2, <1>3, <1>8, <2>8, <3>2 DEF Transaction
  <2>9. CASE n = 4
    <3>1. image' = fourth /\ image.commands = image.born
      BY <1>2, <1>8, <2>2, <2>9 DEF Transaction
    <3>2. /\ image' \in Schemas
          /\ image'.tables = image.tables /\ image'.columns = image.columns
          /\ image'.recorded = image.recorded /\ image'.old = image.old
          /\ image'.commands = image.commands /\ image'.born = image.born
          /\ image'.next = Largest(image.born) + 1
      BY <2>5, <3>1 DEF Schemas
    <3> QED BY <1>1, <1>2, <1>3, <1>8, <2>2, <2>5, <2>9, <3>1, <3>2 DEF Transaction
  <2> HIDE DEF first, second, third, fourth, moved
  <2> QED BY <2>2, <2>6, <2>7, <2>8, <2>9
<1> QED BY <1>2, <1>6, <1>7, <1>8

\* The transaction is committed with the version, after its last statement.
LEMMA CommitStep == MigrationInv /\ CommitFile => MigrationInv'
<1> SUFFICES ASSUME MigrationInv, CommitFile
             PROVE  MigrationInv'
  OBVIOUS
<1> USE DEF MigrationInv
<1> DEFINE n == migrator.statement
           f == Files[migrator.file]
<1>1. /\ At("file") /\ n > Len(Statements(image)) /\ driver' = driver
      /\ schema' = [image EXCEPT !.recorded = @ \cup {f}] /\ image' = schema'
      /\ migrator' = [migrator EXCEPT !.at = "files"]
  BY DEF CommitFile
<1>2. migrator.file \in {1, 2, 3} /\ n \in 1 .. 5 /\ Transaction /\ f \in All(Files)
  BY <1>1, FilesAndColumns DEF Migrator
<1>3. migrator' \in Migrator /\ migrator'.at = "files"
  BY <1>1 DEF Migrator
<1>4. /\ schema' \in Schemas /\ schema'.recorded = schema.recorded \cup {f}
      /\ schema'.tables = image.tables /\ schema'.columns = image.columns
      /\ schema'.old = image.old /\ schema'.commands = image.commands
      /\ schema'.next = image.next /\ schema'.born = schema.born
  BY <1>1, <1>2 DEF Schemas, Transaction
<1>5. n > 1 /\ (migrator.file = 2 => n > 3 /\ (driver = "postgres" => n > 4))
  <2>1. CASE migrator.file \in {1, 3}
    <3>1. Len(Statements(image)) = 1
      BY <2>1 DEF Statements
    <3> QED BY <1>1, <2>1, <3>1
  <2>2. CASE migrator.file = 2
    <3>1. Len(Statements(image)) = IF driver = "postgres" THEN 4 ELSE 3
      BY <2>2 DEF Statements
    <3> QED BY <1>1, <1>2, <3>1
  <2> QED BY <1>2, <2>1, <2>2
<1>6. \A g \in schema'.recorded : TableOf(g) \in schema'.tables
  BY <1>2, <1>4, <1>5 DEF Consistent, Transaction
<1>7. Files[1] \in schema'.recorded => schema'.columns = All(Columns)
  BY <1>2, <1>4, <1>5, FilesAndColumns DEF Consistent, Transaction
<1>8. CASE migrator.file = 2
  <2>1. image.commands = image.born /\ image.old = {} /\ \A id \in image.commands : id < image.next
    BY <1>2, <1>5, <1>8 DEF Transaction
  <2>2. Files[2] \in schema'.recorded
    BY <1>4, <1>8
  <2> QED
    BY <1>1, <1>2, <1>3, <1>4, <1>6, <1>7, <2>1, <2>2 DEF Consistent, At, Transaction
<1>9. CASE migrator.file # 2
  <2>1. Files[2] \in schema'.recorded <=> Files[2] \in schema.recorded
    BY <1>2, <1>4, <1>9, FilesAndColumns
  <2>2. schema'.old = schema.old /\ schema'.commands = schema.commands /\ schema'.next = schema.next
    BY <1>2, <1>4, <1>9 DEF Transaction
  <2> QED
    BY <1>1, <1>3, <1>4, <1>6, <1>7, <2>1, <2>2 DEF Consistent, At
<1> QED BY <1>8, <1>9

\* Serving begins, or the process ends and its transaction with it.
LEMMA ServingStep == MigrationInv /\ (StartServing \/ Killed) => MigrationInv'
<1> SUFFICES ASSUME MigrationInv, StartServing \/ Killed
             PROVE  MigrationInv'
  OBVIOUS
<1> USE DEF MigrationInv
<1>1. UNCHANGED <<driver, schema>> /\ image' = schema
  BY DEF StartServing, Killed, At
<1>2. /\ migrator' \in Migrator /\ migrator'.at \in {"down", "serving"}
      /\ migrator'.at = "serving" => At("post")
  BY FilesAndColumns DEF StartServing, Killed, Down, Migrator
<1> QED BY <1>1, <1>2 DEF At, Consistent

\* Wherever the migrator is killed, and however often, what is recorded is
\* there, no old command is lost or in both tables, and the Core serves a
\* complete database that gives new commands ids of their own (migrate.go:137-160).
THEOREM MigrationsAreWhole == Spec => []MigratedWhole
<1>1. MigrationInv /\ [Next]_vars => MigrationInv'
  <2> SUFFICES ASSUME MigrationInv, [Next]_vars
               PROVE  MigrationInv'
    OBVIOUS
  <2>1. CASE CoreRuns
    BY <2>1, ColumnsStep, BeginStep, StatementStep, CommitStep, ServingStep DEF CoreRuns, Migrate
  <2>2. CASE CoreEnds
    BY <2>2, ServingStep DEF CoreEnds
  <2>3. CASE UNCHANGED coreVars
    BY <2>3 DEF coreVars, MigrationInv, Consistent, Transaction, At
  <2>4. ~CoreRuns /\ ~CoreEnds => UNCHANGED coreVars
    BY DEF Next, vars, Process, AcceptLoop, Watcher, IngressStart, CancelAll, Exit, Start, Stop,
           AcceptEnds, Check, Track, LoopEnds, Accept, WatcherFlags, WatcherCloses, CloseActive,
           StopSignal, AcceptFails, StartFails, Dial, DeviceActs, HandleFrame, HangUp
  <2> QED BY <2>1, <2>2, <2>3, <2>4
<1>2. MigrationInv => MigratedWhole
  <2> SUFFICES ASSUME MigrationInv
               PROVE  MigratedWhole
    OBVIOUS
  <2>1. Files[1] \in All(Files) /\ Files[2] \in All(Files)
    BY FilesAndColumns
  <2> QED BY <2>1 DEF MigrationInv, Consistent, MigratedWhole, Serving
<1> QED BY <1>1, <1>2, MigrationInit, PTL DEF Spec

-----------------------------------------------------------------------------
(* The keys and the nonces of a connection.                                *)

\* The commands of either end, and the frames they make.
DeviceCommands ==
  {"HandshakeInit", "AuthVerify", "MetricsReport", "KeyExchangeUplink", "ActionExec", "ErrorReport"}
ServerCommands == {"HandshakeResp", "AuthAck", "MetricsReport", "KeyExchangeDownlink", "ActionExec"}

Frame ==
  [cmd : DeviceCommands \cup ServerCommands, ack : BOOLEAN, key : Nat, seq : Nat, offer : Nat,
   crossing : BOOLEAN]

\* Frames that give no new key, and frames that ask for none.
NoOffer(frames) == \A i \in DOMAIN frames : frames[i].offer = 0
NoExchange(frames) == \A i \in DOMAIN frames : frames[i].cmd \notin Exchanges

\* Both ends hold the same key.
Agreed(up, down, deviceKey, serverKey, asked) ==
  /\ ~asked /\ deviceKey = serverKey
  /\ NoExchange(up) /\ NoOffer(down)
  /\ \A i \in DOMAIN up : up[i].crossing \/ Readable(up[i], serverKey)
  /\ \A i \in DOMAIN down : Readable(down[i], deviceKey)

\* The device's request for a new key is under way; what the device sent after it
\* is crossing.
Requested(up, down, deviceKey, serverKey, asked) ==
  /\ asked /\ deviceKey = serverKey
  /\ NoOffer(down)
  /\ \A i \in DOMAIN down : Readable(down[i], deviceKey)
  /\ \E k \in DOMAIN up :
       /\ up[k].cmd \in Exchanges
       /\ \A i \in DOMAIN up : i # k => up[i].cmd \notin Exchanges
       /\ \A i \in DOMAIN up : up[i].crossing \/ (i <= k /\ Readable(up[i], serverKey))

\* The server has changed its key and its answer is under way; what the server
\* sent after it is under the new key.
Answered(up, down, deviceKey, serverKey, asked) ==
  /\ asked /\ serverKey # 0
  /\ NoExchange(up) /\ \A i \in DOMAIN up : up[i].crossing
  /\ \E k \in DOMAIN down :
       /\ down[k].offer = serverKey
       /\ \A i \in DOMAIN down : i # k => down[i].offer = 0
       /\ \A i \in DOMAIN down : Readable(down[i], IF i <= k THEN deviceKey ELSE serverKey)

KeysInStep(up, down, deviceKey, serverKey, asked) ==
  \/ Agreed(up, down, deviceKey, serverKey, asked)
  \/ Requested(up, down, deviceKey, serverKey, asked)
  \/ Answered(up, down, deviceKey, serverKey, asked)

\* The nonces that one end has used are of its own half, and it counts its frames.
Counted(sent, who, dir, n) ==
  /\ \A s \in sent : s.from = who => s.dir = dir /\ s.seq \in 1 .. n
  /\ \A s, t \in sent : s.from = who /\ t.from = who /\ s.seq = t.seq => s = t

NoncesCounted(sent, deviceSeq, writeSeq) ==
  /\ \A s \in sent : s.from \in {"device", "server"}
  /\ Counted(sent, "device", 1, deviceSeq) /\ Counted(sent, "server", 2, writeSeq)

\* The two ends of a connection are in step.
LinkInv(l) ==
  /\ IsLink(l)
  /\ l.serverKey \in Nat /\ l.deviceKey \in Nat /\ l.lastKey = l.serverKey
  /\ l.writeSeq \in Nat /\ l.deviceSeq \in Nat /\ l.asked \in BOOLEAN
  /\ l.up \in Seq(Frame) /\ l.down \in Seq(Frame)
  /\ \A i \in DOMAIN l.up : l.up[i].cmd \in DeviceCommands
  /\ KeysInStep(l.up, l.down, l.deviceKey, l.serverKey, l.asked)
  /\ NoncesCounted(l.sent, l.deviceSeq, l.writeSeq)

\* Both ends of a new connection are in step.
LEMMA ClosedInv == LinkInv(Closed) /\ LinkInv([Closed EXCEPT !.open = TRUE])
<1>1. KeysInStep(<<>>, <<>>, 0, 0, FALSE) /\ NoncesCounted({}, 0, 0)
  BY DEF KeysInStep, Agreed, NoOffer, NoExchange, NoncesCounted, Counted
<1>2. <<>> \in Seq(Frame) /\ \A i \in DOMAIN <<>> : FALSE
  OBVIOUS
<1> QED BY <1>1, <1>2 DEF LinkInv, IsLink, Closed

\* The device puts a frame behind those that are under way.
LEMMA SentKeysInStep ==
  ASSUME NEW up \in Seq(Frame), NEW down \in Seq(Frame), NEW deviceKey \in Nat,
         NEW serverKey \in Nat, NEW asked \in BOOLEAN, NEW f \in Frame,
         KeysInStep(up, down, deviceKey, serverKey, asked),
         f.key = deviceKey, f.crossing = asked, f.cmd \in Exchanges => ~asked
  PROVE  KeysInStep(Append(up, f), down, deviceKey, serverKey, asked \/ f.cmd \in Exchanges)
<1> DEFINE new == Append(up, f)
           n == Len(up) + 1
<1>1. /\ DOMAIN new = DOMAIN up \cup {n} /\ n \notin DOMAIN up /\ new[n] = f
      /\ \A i \in DOMAIN up : new[i] = up[i] /\ i <= n
      /\ n \in Nat
  <2>1. Len(new) = n /\ DOMAIN new = 1 .. n /\ DOMAIN up = 1 .. Len(up) /\ Len(up) \in Nat
    OBVIOUS
  <2> QED BY <2>1
<1> HIDE DEF new, n
<1>2. CASE Agreed(up, down, deviceKey, serverKey, asked)
  <2>1. Readable(f, serverKey)
    BY <1>2 DEF Agreed, Readable
  <2>2. CASE f.cmd \in Exchanges
    BY <1>1, <1>2, <2>1, <2>2 DEF Agreed, Requested, KeysInStep, NoExchange, new
  <2>3. CASE f.cmd \notin Exchanges
    BY <1>1, <1>2, <2>1, <2>3 DEF Agreed, KeysInStep, NoExchange, new
  <2> QED BY <2>2, <2>3
<1>3. CASE Requested(up, down, deviceKey, serverKey, asked)
  <2>1. asked /\ f.cmd \notin Exchanges /\ f.crossing
    BY <1>3 DEF Requested
  <2>2. PICK k \in DOMAIN up :
          /\ up[k].cmd \in Exchanges
          /\ \A i \in DOMAIN up : i # k => up[i].cmd \notin Exchanges
          /\ \A i \in DOMAIN up : up[i].crossing \/ (i <= k /\ Readable(up[i], serverKey))
    BY <1>3 DEF Requested
  <2>3. Requested(new, down, deviceKey, serverKey, TRUE)
    BY <1>1, <1>3, <2>1, <2>2 DEF Requested
  <2> QED BY <2>1, <2>3 DEF KeysInStep, new
<1>4. CASE Answered(up, down, deviceKey, serverKey, asked)
  <2>1. asked /\ f.cmd \notin Exchanges /\ f.crossing
    BY <1>4 DEF Answered
  <2>2. Answered(new, down, deviceKey, serverKey, TRUE)
    BY <1>1, <1>4, <2>1 DEF Answered, NoExchange
  <2> QED BY <2>1, <2>2 DEF KeysInStep, new
<1> QED BY <1>2, <1>3, <1>4 DEF KeysInStep

\* The first element and the rest of a sequence.
LEMMA TailAt ==
  ASSUME NEW S, NEW s \in Seq(S), s # <<>>
  PROVE  /\ Head(s) = s[1] /\ 1 \in DOMAIN s /\ DOMAIN s \subseteq Nat
         /\ \A i \in DOMAIN Tail(s) :
              i + 1 \in DOMAIN s /\ Tail(s)[i] = s[i + 1] /\ i \in Nat \ {0}
         /\ \A i \in DOMAIN s : i # 1 => i - 1 \in DOMAIN Tail(s)
<1>1. /\ DOMAIN s = 1 .. Len(s) /\ Len(s) \in Nat /\ Len(s) # 0
      /\ DOMAIN Tail(s) = 1 .. (Len(s) - 1) /\ Head(s) = s[1]
  OBVIOUS
<1>2. \A i \in DOMAIN Tail(s) : Tail(s)[i] = s[i + 1]
  OBVIOUS
<1> QED BY <1>1, <1>2

\* The device takes the first frame of the server.
LEMMA ReadKeysInStep ==
  ASSUME NEW up \in Seq(Frame), NEW down \in Seq(Frame), NEW deviceKey \in Nat,
         NEW serverKey \in Nat, NEW asked \in BOOLEAN, down # <<>>,
         KeysInStep(up, down, deviceKey, serverKey, asked)
  PROVE  KeysInStep(up, Tail(down), IF Head(down).offer # 0 THEN Head(down).offer ELSE deviceKey,
                    serverKey, asked /\ Head(down).offer = 0)
<1> DEFINE new == Tail(down)
<1>1. /\ Head(down) = down[1] /\ 1 \in DOMAIN down /\ DOMAIN down \subseteq Nat
      /\ \A i \in DOMAIN new : i + 1 \in DOMAIN down /\ new[i] = down[i + 1] /\ i \in Nat \ {0}
      /\ \A i \in DOMAIN down : i # 1 => i - 1 \in DOMAIN new
  BY TailAt
<1> HIDE DEF new
<1>2. CASE Agreed(up, down, deviceKey, serverKey, asked)
  BY <1>1, <1>2 DEF Agreed, KeysInStep, NoOffer, new
<1>3. CASE Requested(up, down, deviceKey, serverKey, asked)
  <2>1. Requested(up, new, deviceKey, serverKey, asked)
    BY <1>1, <1>3 DEF Requested, NoOffer
  <2> QED BY <1>1, <1>3, <2>1 DEF KeysInStep, Requested, NoOffer, new
<1>4. CASE Answered(up, down, deviceKey, serverKey, asked)
  <2>1. PICK k \in DOMAIN down :
         /\ down[k].offer = serverKey
         /\ \A i \in DOMAIN down : i # k => down[i].offer = 0
         /\ \A i \in DOMAIN down : Readable(down[i], IF i <= k THEN deviceKey ELSE serverKey)
    BY <1>4 DEF Answered
  <2>2. CASE k = 1
    <3>1. Head(down).offer = serverKey /\ serverKey # 0
      BY <1>1, <1>4, <2>1, <2>2 DEF Answered
    <3>2. \A i \in DOMAIN new : new[i].offer = 0 /\ Readable(new[i], serverKey)
      BY <1>1, <2>1, <2>2
    <3>3. Agreed(up, new, serverKey, serverKey, FALSE)
      BY <1>4, <3>2 DEF Agreed, Answered, NoOffer
    <3> QED BY <3>1, <3>3 DEF KeysInStep, new
  <2>3. CASE k # 1
    <3>1. Head(down).offer = 0
      BY <1>1, <2>1, <2>3
    <3>2. /\ k - 1 \in DOMAIN new /\ new[k - 1].offer = serverKey
          /\ \A i \in DOMAIN new : i # k - 1 => new[i].offer = 0
          /\ \A i \in DOMAIN new : Readable(new[i], IF i <= k - 1 THEN deviceKey ELSE serverKey)
      <4>1. k \in Nat /\ k - 1 \in DOMAIN new /\ new[k - 1] = down[k]
        BY <1>1, <2>3
      <4>2. ASSUME NEW i \in DOMAIN new
            PROVE  /\ i # k - 1 => new[i].offer = 0
                   /\ Readable(new[i], IF i <= k - 1 THEN deviceKey ELSE serverKey)
        <5>1. i + 1 \in DOMAIN down /\ new[i] = down[i + 1] /\ i \in Nat
          BY <1>1
        <5>2. (i + 1 = k <=> i = k - 1) /\ (i + 1 <= k <=> i <= k - 1)
          BY <4>1, <5>1
        <5>3. Readable(down[i + 1], IF i + 1 <= k THEN deviceKey ELSE serverKey)
          BY <2>1, <5>1
        <5> QED BY <2>1, <5>1, <5>2, <5>3
      <4> QED BY <2>1, <4>1, <4>2
    <3>3. Answered(up, new, deviceKey, serverKey, asked)
      BY <1>4, <3>2 DEF Answered
    <3>4. asked
      BY <1>4 DEF Answered
    <3> QED BY <3>1, <3>3, <3>4 DEF KeysInStep, new
  <2> QED BY <2>2, <2>3
<1> QED BY <1>2, <1>3, <1>4 DEF KeysInStep

\* The answer and the command behind it.
LEMMA JoinedOne ==
  ASSUME NEW S, NEW a \in S
  PROVE  /\ <<>> \o <<a>> = <<a>> /\ <<a>> \o <<>> = <<a>>
         /\ <<a>> \in Seq(S) /\ Len(<<a>>) = 1 /\ DOMAIN <<a>> = {1}
<1>1. <<a>> \in Seq(S) /\ Len(<<a>>) = 1 /\ DOMAIN <<a>> = {1}
  OBVIOUS
<1> QED BY <1>1, ConcatEmptySeq

LEMMA JoinedTwo ==
  ASSUME NEW S, NEW a \in S, NEW b \in S
  PROVE  LET s == <<a>> \o <<b>> IN
         s \in Seq(S) /\ DOMAIN s = {1, 2} /\ s[1] = a /\ s[2] = b
<1>1. <<a>> \in Seq(S) /\ <<b>> \in Seq(S) /\ Len(<<a>>) = 1 /\ Len(<<b>>) = 1
  OBVIOUS
<1>2. /\ <<a>> \o <<b>> \in Seq(S) /\ Len(<<a>> \o <<b>>) = 2
      /\ (<<a>> \o <<b>>)[1] = a /\ (<<a>> \o <<b>>)[2] = b
  BY <1>1, ConcatProperties
<1>3. DOMAIN (<<a>> \o <<b>>) = {1, 2}
  BY <1>2
<1> QED BY <1>2, <1>3

\* What the server writes in one turn: the answer to a frame, and a command.
Turn(l, f, pops) ==
  Answer(l, f) \o
    (IF pops THEN <<Pack("ActionExec", FALSE, KeyAfter(l, f), l.writeSeq + Len(Answer(l, f)) + 1,
                         0, FALSE)>>
             ELSE <<>>)

\* The frames of a turn carry the next numbers in the server's half of the nonces,
\* and the answer to an exchange offers the key that the frames behind it use.
Numbered(frames, n, dir) ==
  \A i \in DOMAIN frames :
    frames[i].seq = n + i /\ nonceDirection(frames[i].cmd, frames[i].ack) = dir

Offering(l, f, frames) ==
  /\ KeyAfter(l, f) # 0
  /\ 1 \in DOMAIN frames
  /\ frames[1].offer = KeyAfter(l, f) /\ Readable(frames[1], l.serverKey)
  /\ \A i \in DOMAIN frames : i # 1 => frames[i].offer = 0 /\ Readable(frames[i], KeyAfter(l, f))

Plain(l, f, frames) ==
  /\ KeyAfter(l, f) = l.serverKey
  /\ \A i \in DOMAIN frames : frames[i].offer = 0 /\ Readable(frames[i], l.serverKey)

LEMMA TurnFrames ==
  ASSUME NEW l, NEW f \in Frame, NEW pops \in BOOLEAN, f.cmd \in DeviceCommands,
         l.serverKey \in Nat, l.lastKey = l.serverKey, l.writeSeq \in Nat
  PROVE  /\ Turn(l, f, pops) \in Seq(Frame) /\ KeyAfter(l, f) \in Nat
         /\ Numbered(Turn(l, f, pops), l.writeSeq, 2)
         /\ IF f.cmd \in Exchanges THEN Offering(l, f, Turn(l, f, pops))
                                   ELSE Plain(l, f, Turn(l, f, pops))
<1> DEFINE frames == Turn(l, f, pops)
           offer == IF f.cmd \in Exchanges THEN l.lastKey + 1 ELSE 0
           reply(cmd) == Pack(cmd, TRUE, AnswerKey(l, f), l.writeSeq + 1, offer, FALSE)
           order(n) == Pack("ActionExec", FALSE, KeyAfter(l, f), n, 0, FALSE)
<1>1. /\ KeyAfter(l, f) \in Nat /\ AnswerKey(l, f) \in {0, l.serverKey} /\ offer \in Nat
      /\ f.cmd \in Exchanges => KeyAfter(l, f) # 0 /\ offer = KeyAfter(l, f)
      /\ f.cmd \notin Exchanges => KeyAfter(l, f) = l.serverKey /\ offer = 0
  BY DEF KeyAfter, AnswerKey
<1>2. ASSUME NEW cmd \in ServerCommands
      PROVE  /\ reply(cmd) \in Frame /\ reply(cmd).seq = l.writeSeq + 1 /\ reply(cmd).offer = offer
             /\ Readable(reply(cmd), l.serverKey) /\ reply(cmd).cmd = cmd /\ reply(cmd).ack = TRUE
  <2>1. AnswerKey(l, f) \in Nat /\ l.writeSeq + 1 \in Nat
    BY <1>1
  <2> HIDE DEF offer
  <2> QED BY <1>1, <2>1 DEF Pack, Frame, Readable
<1>3. ASSUME NEW n \in Nat
      PROVE  /\ order(n) \in Frame /\ order(n).seq = n /\ order(n).offer = 0
             /\ Readable(order(n), KeyAfter(l, f)) /\ order(n).cmd = "ActionExec" /\ order(n).ack = FALSE
  BY <1>1 DEF Pack, Frame, Readable, ServerCommands
<1>4. \/ Answer(l, f) = <<>> /\ f.cmd \notin Exchanges
      \/ \E cmd \in ServerCommands \ {"ActionExec"} : Answer(l, f) = <<reply(cmd)>>
  <2>1. CASE f.cmd = "HandshakeInit"
    <3>1. Answer(l, f) = <<reply("HandshakeResp")>>
      BY <2>1 DEF Answer
    <3> QED BY <3>1 DEF ServerCommands
  <2>2. CASE f.cmd = "AuthVerify"
    <3>1. Answer(l, f) = <<reply("AuthAck")>>
      BY <2>2 DEF Answer
    <3> QED BY <3>1 DEF ServerCommands
  <2>3. CASE f.cmd = "MetricsReport"
    <3>1. Answer(l, f) = <<reply("MetricsReport")>>
      BY <2>3 DEF Answer
    <3> QED BY <3>1 DEF ServerCommands
  <2>4. CASE f.cmd = "KeyExchangeUplink"
    <3>1. Answer(l, f) = <<reply("KeyExchangeDownlink")>>
      BY <2>4 DEF Answer
    <3> QED BY <3>1 DEF ServerCommands
  <2>5. CASE f.cmd \in {"ActionExec", "ErrorReport"}
    BY <2>5 DEF Answer, Exchanges
  <2> QED BY <2>1, <2>2, <2>3, <2>4, <2>5 DEF DeviceCommands
<1>5. \A cmd \in ServerCommands \ {"ActionExec"} : nonceDirection(cmd, TRUE) = 2
  BY DEF nonceDirection, ServerCommands
<1>6. nonceDirection("ActionExec", FALSE) = 2
  BY DEF nonceDirection
<1> HIDE DEF frames, offer, reply, order
<1>7. CASE Answer(l, f) = <<>>
  <2>1. CASE pops
    <3>1. Len(<<>>) = 0 /\ l.writeSeq + 0 + 1 = l.writeSeq + 1 /\ l.writeSeq + 1 \in Nat
      OBVIOUS
    <3>2. frames = <<>> \o <<order(l.writeSeq + 1)>>
      BY <1>7, <2>1, <3>1 DEF order, frames, Turn
    <3>3. order(l.writeSeq + 1) \in Frame
      BY <1>3, <3>1
    <3>4. frames = <<order(l.writeSeq + 1)>> /\ frames \in Seq(Frame)
      BY <3>2, <3>3, JoinedOne
    <3>5. DOMAIN frames = {1} /\ frames[1] = order(l.writeSeq + 1)
      BY <3>4, JoinedOne
    <3>6. f.cmd \notin Exchanges
      BY <1>4, <1>7
    <3>7. KeyAfter(l, f) = l.serverKey
      BY <1>1, <3>6
    <3> DEFINE n == l.writeSeq + 1
    <3>10. /\ frames[1].seq = n /\ frames[1].offer = 0 /\ Readable(frames[1], KeyAfter(l, f))
           /\ frames[1].cmd = "ActionExec" /\ frames[1].ack = FALSE
      <4>1. n \in Nat
        BY <3>1
      <4> HIDE DEF n
      <4>2. frames[1] = order(n)
        BY <3>5 DEF n
      <4> QED BY <1>3, <4>1, <4>2
    <3>8. Numbered(frames, l.writeSeq, 2)
      BY <1>6, <3>5, <3>10 DEF Numbered
    <3>9. Plain(l, f, frames)
      BY <3>5, <3>7, <3>10 DEF Plain
    <3> QED BY <1>1, <3>4, <3>6, <3>8, <3>9 DEF frames
  <2>2. CASE ~pops
    <3>1. frames = <<>>
      <4>1. <<>> \o <<>> = <<>>
        BY ConcatEmptySeq
      <4> QED BY <1>7, <2>2, <4>1 DEF frames, Turn
    <3>2. frames \in Seq(Frame) /\ DOMAIN frames = {}
      BY <3>1
    <3>3. f.cmd \notin Exchanges
      BY <1>4, <1>7
    <3>4. Numbered(frames, l.writeSeq, 2) /\ Plain(l, f, frames)
      BY <1>1, <3>2, <3>3 DEF Numbered, Plain
    <3> QED BY <1>1, <3>2, <3>3, <3>4 DEF frames
  <2> QED BY <2>1, <2>2
<1>8. ASSUME NEW cmd \in ServerCommands \ {"ActionExec"}, Answer(l, f) = <<reply(cmd)>>
      PROVE  /\ frames \in Seq(Frame) /\ 1 \in DOMAIN frames /\ frames[1] = reply(cmd)
             /\ DOMAIN frames \subseteq {1, 2}
             /\ \A i \in DOMAIN frames : i = 1 \/ (i = 2 /\ frames[i] = order(l.writeSeq + 2))
  <2>1. Len(Answer(l, f)) = 1 /\ reply(cmd) \in Frame
    BY <1>2, <1>8
  <2>2. CASE pops
    <3>1. l.writeSeq + Len(Answer(l, f)) + 1 = l.writeSeq + 2 /\ l.writeSeq + 2 \in Nat
      BY <2>1
    <3>2. frames = <<reply(cmd)>> \o <<order(l.writeSeq + 2)>>
      BY <1>8, <2>2, <3>1 DEF order, frames, Turn
    <3>3. order(l.writeSeq + 2) \in Frame
      BY <1>3, <3>1
    <3> QED BY <2>1, <3>2, <3>3, JoinedTwo
  <2>3. CASE ~pops
    <3>1. frames = <<reply(cmd)>> \o <<>>
      BY <1>8, <2>3 DEF frames, Turn
    <3>2. frames = <<reply(cmd)>> /\ frames \in Seq(Frame)
      BY <2>1, <3>1, JoinedOne
    <3> QED BY <2>1, <3>2, JoinedOne
  <2> QED BY <2>2, <2>3
<1>9. ASSUME NEW cmd \in ServerCommands \ {"ActionExec"}, Answer(l, f) = <<reply(cmd)>>
      PROVE  /\ Numbered(frames, l.writeSeq, 2)
             /\ f.cmd \in Exchanges => Offering(l, f, frames)
             /\ f.cmd \notin Exchanges => Plain(l, f, frames)
  <2>1. /\ frames[1] = reply(cmd) /\ 1 \in DOMAIN frames
        /\ \A i \in DOMAIN frames : i = 1 \/ (i = 2 /\ frames[i] = order(l.writeSeq + 2))
    BY <1>8, <1>9
  <2>2. /\ frames[1].seq = l.writeSeq + 1 /\ frames[1].offer = offer
        /\ Readable(frames[1], l.serverKey) /\ frames[1].cmd = cmd /\ frames[1].ack = TRUE
    <3>1. cmd \in ServerCommands
      OBVIOUS
    <3> QED BY <1>2, <2>1, <3>1
  <2>3. ASSUME NEW i \in DOMAIN frames, i # 1
        PROVE  /\ frames[i].seq = l.writeSeq + i /\ frames[i].cmd = "ActionExec"
               /\ frames[i].ack = FALSE /\ frames[i].offer = 0
               /\ Readable(frames[i], KeyAfter(l, f))
    <3> DEFINE n == l.writeSeq + 2
    <3>1. i = 2 /\ frames[i] = order(n) /\ n \in Nat /\ n = l.writeSeq + i
      BY <2>1, <2>3
    <3> HIDE DEF n
    <3>2. /\ order(n).seq = n /\ order(n).cmd = "ActionExec" /\ order(n).ack = FALSE
          /\ order(n).offer = 0 /\ Readable(order(n), KeyAfter(l, f))
      BY <1>3, <3>1
    <3> QED BY <3>1, <3>2
  <2>4. Numbered(frames, l.writeSeq, 2)
    <3>1. nonceDirection(frames[1].cmd, frames[1].ack) = 2
      BY <1>5, <2>2
    <3>2. \A i \in DOMAIN frames : i # 1 => nonceDirection(frames[i].cmd, frames[i].ack) = 2
      BY <1>6, <2>3
    <3> QED BY <2>2, <2>3, <3>1, <3>2 DEF Numbered
  <2>5. CASE f.cmd \in Exchanges
    BY <1>1, <2>1, <2>2, <2>3, <2>4, <2>5 DEF Offering
  <2>6. CASE f.cmd \notin Exchanges
    <3>1. KeyAfter(l, f) = l.serverKey /\ offer = 0
      BY <1>1, <2>6
    <3>2. \A i \in DOMAIN frames : frames[i].offer = 0 /\ Readable(frames[i], l.serverKey)
      BY <2>2, <2>3, <3>1
    <3> QED BY <2>4, <2>6, <3>1, <3>2 DEF Plain
  <2> QED BY <2>4, <2>5, <2>6
<1>10. CASE Answer(l, f) # <<>>
  <2>1. PICK cmd \in ServerCommands \ {"ActionExec"} : Answer(l, f) = <<reply(cmd)>>
    BY <1>4, <1>10
  <2>2. frames \in Seq(Frame)
    BY <1>8, <2>1
  <2>3. /\ Numbered(frames, l.writeSeq, 2)
        /\ f.cmd \in Exchanges => Offering(l, f, frames)
        /\ f.cmd \notin Exchanges => Plain(l, f, frames)
    BY <1>9, <2>1
  <2> QED BY <1>1, <2>2, <2>3 DEF frames
<1> QED BY <1>7, <1>10

\* Where the elements of two joined sequences are.
LEMMA JoinedAt ==
  ASSUME NEW S, NEW s \in Seq(S), NEW t \in Seq(S)
  PROVE  /\ s \o t \in Seq(S) /\ Len(s) \in Nat /\ Len(s \o t) = Len(s) + Len(t)
         /\ \A i \in DOMAIN s : i \in DOMAIN (s \o t) /\ (s \o t)[i] = s[i] /\ i \in Nat /\ i <= Len(s)
         /\ \A i \in DOMAIN t : /\ Len(s) + i \in DOMAIN (s \o t) /\ (s \o t)[Len(s) + i] = t[i]
                                /\ i \in Nat \ {0}
         /\ \A i \in DOMAIN (s \o t) :
              \/ i \in DOMAIN s
              \/ i - Len(s) \in DOMAIN t /\ (s \o t)[i] = t[i - Len(s)] /\ i \in Nat /\ i > Len(s)
<1>1. /\ s \o t \in Seq(S) /\ Len(s \o t) = Len(s) + Len(t)
      /\ \A i \in 1 .. Len(s) + Len(t) :
           (s \o t)[i] = IF i <= Len(s) THEN s[i] ELSE t[i - Len(s)]
  BY ConcatProperties
<1>2. /\ Len(s) \in Nat /\ Len(t) \in Nat /\ DOMAIN s = 1 .. Len(s) /\ DOMAIN t = 1 .. Len(t)
      /\ DOMAIN (s \o t) = 1 .. Len(s) + Len(t)
  BY <1>1
<1>3. \A i \in DOMAIN s : i \in DOMAIN (s \o t) /\ (s \o t)[i] = s[i] /\ i \in Nat /\ i <= Len(s)
  BY <1>1, <1>2
<1>4. ASSUME NEW i \in DOMAIN t
      PROVE  /\ Len(s) + i \in DOMAIN (s \o t) /\ (s \o t)[Len(s) + i] = t[i]
             /\ i \in Nat \ {0}
  <2>1. Len(s) + i \in 1 .. Len(s) + Len(t) /\ i \in Nat \ {0} /\ (Len(s) + i) - Len(s) = i
        /\ ~(Len(s) + i <= Len(s))
    BY <1>2
  <2>2. (s \o t)[Len(s) + i] = t[(Len(s) + i) - Len(s)]
    BY <1>1, <2>1
  <2> QED BY <1>2, <2>1, <2>2
<1>5. ASSUME NEW i \in DOMAIN (s \o t)
      PROVE  \/ i \in DOMAIN s
             \/ i - Len(s) \in DOMAIN t /\ (s \o t)[i] = t[i - Len(s)] /\ i \in Nat /\ i > Len(s)
  <2>1. CASE i <= Len(s)
    BY <1>2, <2>1
  <2>2. CASE ~(i <= Len(s))
    <3>1. i \in Nat /\ i > Len(s) /\ i - Len(s) \in 1 .. Len(t)
      BY <1>2, <2>2
    <3> QED BY <1>1, <1>2, <2>2, <3>1
  <2> QED BY <2>1, <2>2
<1> QED BY <1>1, <1>2, <1>3, <1>4, <1>5

\* The server has taken the first frame, and put its own behind those under way.
LEMMA ServedKeysInStep ==
  ASSUME NEW l, NEW frames \in Seq(Frame), l.up \in Seq(Frame), l.down \in Seq(Frame),
         l.up # <<>>, l.serverKey \in Nat, l.deviceKey \in Nat, KeyAfter(l, Head(l.up)) \in Nat,
         l.asked \in BOOLEAN,
         KeysInStep(l.up, l.down, l.deviceKey, l.serverKey, l.asked),
         IF Head(l.up).cmd \in Exchanges THEN Offering(l, Head(l.up), frames)
                                         ELSE Plain(l, Head(l.up), frames)
  PROVE  KeysInStep(Tail(l.up), l.down \o frames, l.deviceKey, KeyAfter(l, Head(l.up)), l.asked)
<1> DEFINE f == Head(l.up)
           up == Tail(l.up)
           down == l.down \o frames
           key == KeyAfter(l, f)
           n == Len(l.down)
<1>1. /\ f = l.up[1] /\ 1 \in DOMAIN l.up /\ DOMAIN l.up \subseteq Nat
      /\ \A i \in DOMAIN up : i + 1 \in DOMAIN l.up /\ up[i] = l.up[i + 1] /\ i \in Nat \ {0}
      /\ \A i \in DOMAIN l.up : i # 1 => i - 1 \in DOMAIN up
  BY TailAt
<1>2. /\ n \in Nat
      /\ \A i \in DOMAIN l.down : i \in DOMAIN down /\ down[i] = l.down[i] /\ i \in Nat /\ i <= n
      /\ \A i \in DOMAIN frames : n + i \in DOMAIN down /\ down[n + i] = frames[i] /\ i \in Nat \ {0}
      /\ \A i \in DOMAIN down :
           \/ i \in DOMAIN l.down
           \/ i - n \in DOMAIN frames /\ down[i] = frames[i - n] /\ i \in Nat /\ i > n
  BY JoinedAt
<1> HIDE DEF f, up, down, key, n
<1>3. CASE Agreed(l.up, l.down, l.deviceKey, l.serverKey, l.asked)
  <2>1. f.cmd \notin Exchanges
    BY <1>1, <1>3 DEF Agreed, NoExchange
  <2>2. key = l.serverKey /\ \A i \in DOMAIN frames : frames[i].offer = 0 /\ Readable(frames[i], l.serverKey)
    BY <2>1 DEF Plain, f, key
  <2>3. Agreed(up, down, l.deviceKey, key, l.asked)
    BY <1>1, <1>2, <1>3, <2>2 DEF Agreed, NoExchange, NoOffer
  <2> QED BY <2>3 DEF KeysInStep, up, down, key, f
<1>4. CASE Requested(l.up, l.down, l.deviceKey, l.serverKey, l.asked)
  <2>1. PICK k \in DOMAIN l.up :
          /\ l.up[k].cmd \in Exchanges
          /\ \A i \in DOMAIN l.up : i # k => l.up[i].cmd \notin Exchanges
          /\ \A i \in DOMAIN l.up : l.up[i].crossing \/ (i <= k /\ Readable(l.up[i], l.serverKey))
    BY <1>4 DEF Requested
  <2>2. CASE k = 1
    <3>1. Offering(l, f, frames)
      BY <1>1, <2>1, <2>2 DEF f
    <3>2. /\ key # 0 /\ 1 \in DOMAIN frames /\ frames[1].offer = key
          /\ Readable(frames[1], l.serverKey)
          /\ \A i \in DOMAIN frames : i # 1 => frames[i].offer = 0 /\ Readable(frames[i], key)
      BY <3>1 DEF Offering, key
    <3>3. NoExchange(up) /\ \A i \in DOMAIN up : up[i].crossing
      <4>1. ASSUME NEW i \in DOMAIN up
            PROVE  up[i].cmd \notin Exchanges /\ up[i].crossing
        <5>1. i + 1 \in DOMAIN l.up /\ up[i] = l.up[i + 1] /\ i \in Nat \ {0}
          BY <1>1
        <5>2. i + 1 # 1 /\ ~(i + 1 <= 1)
          BY <5>1
        <5> QED BY <2>1, <2>2, <5>1, <5>2
      <4> QED BY <4>1 DEF NoExchange
    <3>4. n + 1 \in DOMAIN down /\ down[n + 1].offer = key
      BY <1>2, <3>2
    <3>5. ASSUME NEW i \in DOMAIN down
          PROVE  /\ i # n + 1 => down[i].offer = 0
                 /\ Readable(down[i], IF i <= n + 1 THEN l.deviceKey ELSE key)
      <4>1. CASE i \in DOMAIN l.down
        <5>1. down[i] = l.down[i] /\ i \in Nat /\ i <= n + 1 /\ i # n + 1
          BY <1>2, <4>1
        <5> QED BY <1>4, <4>1, <5>1 DEF Requested, NoOffer
      <4>2. CASE i \notin DOMAIN l.down
        <5>1. i - n \in DOMAIN frames /\ down[i] = frames[i - n] /\ i \in Nat /\ i > n
          BY <1>2, <4>2
        <5>2. (i - n = 1 <=> i = n + 1) /\ (i <= n + 1 <=> i = n + 1)
          BY <1>2, <5>1
        <5>3. CASE i = n + 1
          BY <1>4, <3>2, <5>1, <5>2, <5>3 DEF Requested
        <5>4. CASE i # n + 1
          BY <3>2, <5>1, <5>2, <5>4
        <5> QED BY <5>3, <5>4
      <4> QED BY <4>1, <4>2
    <3>6. Answered(up, down, l.deviceKey, key, l.asked)
      BY <1>4, <3>2, <3>3, <3>4, <3>5 DEF Answered, Requested
    <3> QED BY <3>6 DEF KeysInStep, up, down, key, f
  <2>3. CASE k # 1
    <3>1. f.cmd \notin Exchanges
      BY <1>1, <2>1, <2>3
    <3>2. key = l.serverKey /\ \A i \in DOMAIN frames : frames[i].offer = 0 /\ Readable(frames[i], l.serverKey)
      BY <3>1 DEF Plain, f, key
    <3>3. k \in Nat /\ k - 1 \in DOMAIN up /\ up[k - 1] = l.up[k]
      BY <1>1, <2>3
    <3>4. ASSUME NEW i \in DOMAIN up
          PROVE  /\ i # k - 1 => up[i].cmd \notin Exchanges
                 /\ up[i].crossing \/ (i <= k - 1 /\ Readable(up[i], l.serverKey))
      <4>1. i + 1 \in DOMAIN l.up /\ up[i] = l.up[i + 1] /\ i \in Nat
        BY <1>1
      <4>2. (i + 1 = k <=> i = k - 1) /\ (i + 1 <= k <=> i <= k - 1)
        BY <3>3, <4>1
      <4> QED BY <2>1, <4>1, <4>2
    <3>5. NoOffer(down) /\ \A i \in DOMAIN down : Readable(down[i], l.deviceKey)
      <4>1. ASSUME NEW i \in DOMAIN down
            PROVE  down[i].offer = 0 /\ Readable(down[i], l.deviceKey)
        <5>1. CASE i \in DOMAIN l.down
          BY <1>2, <1>4, <5>1 DEF Requested, NoOffer
        <5>2. CASE i \notin DOMAIN l.down
          <6>1. i - n \in DOMAIN frames /\ down[i] = frames[i - n]
            BY <1>2, <5>2
          <6> QED BY <1>4, <3>2, <6>1 DEF Requested
        <5> QED BY <5>1, <5>2
      <4> QED BY <4>1 DEF NoOffer
    <3>6. Requested(up, down, l.deviceKey, key, l.asked)
      BY <1>4, <2>1, <3>2, <3>3, <3>4, <3>5 DEF Requested
    <3> QED BY <3>6 DEF KeysInStep, up, down, key, f
  <2> QED BY <2>2, <2>3
<1>5. CASE Answered(l.up, l.down, l.deviceKey, l.serverKey, l.asked)
  <2>1. f.cmd \notin Exchanges
    BY <1>1, <1>5 DEF Answered, NoExchange
  <2>2. key = l.serverKey /\ \A i \in DOMAIN frames : frames[i].offer = 0 /\ Readable(frames[i], l.serverKey)
    BY <2>1 DEF Plain, f, key
  <2>3. PICK k \in DOMAIN l.down :
         /\ l.down[k].offer = l.serverKey
         /\ \A i \in DOMAIN l.down : i # k => l.down[i].offer = 0
         /\ \A i \in DOMAIN l.down : Readable(l.down[i], IF i <= k THEN l.deviceKey ELSE l.serverKey)
    BY <1>5 DEF Answered
  <2>4. k \in DOMAIN down /\ down[k].offer = l.serverKey /\ k \in Nat /\ k <= n
    BY <1>2, <2>3
  <2>5. ASSUME NEW i \in DOMAIN down
        PROVE  /\ i # k => down[i].offer = 0
               /\ Readable(down[i], IF i <= k THEN l.deviceKey ELSE l.serverKey)
    <3>1. CASE i \in DOMAIN l.down
      BY <1>2, <2>3, <3>1
    <3>2. CASE i \notin DOMAIN l.down
      <4>1. i - n \in DOMAIN frames /\ down[i] = frames[i - n] /\ i \in Nat /\ i > n
        BY <1>2, <3>2
      <4>2. ~(i <= k)
        BY <1>2, <2>4, <4>1
      <4> QED BY <2>2, <4>1, <4>2
    <3> QED BY <3>1, <3>2
  <2>6. NoExchange(up) /\ \A i \in DOMAIN up : up[i].crossing
    BY <1>1, <1>5 DEF Answered, NoExchange
  <2>7. Answered(up, down, l.deviceKey, key, l.asked)
    BY <1>5, <2>2, <2>4, <2>5, <2>6 DEF Answered
  <2> QED BY <2>7 DEF KeysInStep, up, down, key, f
<1> QED BY <1>3, <1>4, <1>5 DEF KeysInStep

\* The frames of one end take the nonces behind its last one.
LEMMA UsedCounted ==
  ASSUME NEW sent, NEW who, NEW dir, NEW n \in Nat, NEW frames \in Seq(Frame), NEW before,
         Counted(sent, who, dir, n),
         Numbered(frames, n, dir)
  PROVE  /\ Counted(sent \cup Used(who, frames, before), who, dir, n + Len(frames))
         /\ \A s \in Used(who, frames, before) : s.from = who
         /\ \A other, d, m : other # who /\ Counted(sent, other, d, m)
              => Counted(sent \cup Used(who, frames, before), other, d, m)
<1> DEFINE new == Used(who, frames, before)
<1> USE DEF Numbered
<1>1. DOMAIN frames = 1 .. Len(frames) /\ Len(frames) \in Nat
  OBVIOUS
<1>2. ASSUME NEW s \in new
      PROVE  \E i \in DOMAIN frames :
               s = [from |-> who, nth |-> before + i, key |-> frames[i].key, seq |-> n + i, dir |-> dir]
  BY DEF Used
<1> HIDE DEF new
<1>3. ASSUME NEW s \in new
      PROVE  s.from = who /\ s.dir = dir /\ s.seq \in Nat /\ n < s.seq /\ s.seq <= n + Len(frames)
  <2>1. PICK i \in DOMAIN frames :
          s = [from |-> who, nth |-> before + i, key |-> frames[i].key, seq |-> n + i, dir |-> dir]
    BY <1>2
  <2>2. s.from = who /\ s.dir = dir /\ s.seq = n + i
    BY <2>1
  <2> QED BY <1>1, <2>2
<1>4. ASSUME NEW s \in new, NEW t \in new, s.seq = t.seq
      PROVE  s = t
  <2>1. PICK i \in DOMAIN frames :
          s = [from |-> who, nth |-> before + i, key |-> frames[i].key, seq |-> n + i, dir |-> dir]
    BY <1>2
  <2>2. PICK j \in DOMAIN frames :
          t = [from |-> who, nth |-> before + j, key |-> frames[j].key, seq |-> n + j, dir |-> dir]
    BY <1>2
  <2>3. s.seq = n + i /\ t.seq = n + j
    BY <2>1, <2>2
  <2>4. i = j
    <3>1. i \in Nat /\ j \in Nat
      BY <1>1
    <3>2. n + i = n + j
      BY <1>4, <2>3
    <3> QED BY <3>1, <3>2
  <2> QED BY <2>1, <2>2, <2>4
<1>5. ASSUME NEW s \in sent, s.from = who
      PROVE  s.dir = dir /\ s.seq \in Nat /\ s.seq \in 1 .. n + Len(frames) /\ s.seq <= n
  <2>1. s.dir = dir /\ s.seq \in 1 .. n
    BY <1>5 DEF Counted
  <2> QED BY <1>1, <2>1
<1>6. Counted(sent \cup new, who, dir, n + Len(frames))
  <2>1. ASSUME NEW s \in sent \cup new, s.from = who
        PROVE  s.dir = dir /\ s.seq \in 1 .. n + Len(frames)
    <3>1. CASE s \in sent
      BY <1>5, <2>1, <3>1
    <3>2. CASE s \in new
      BY <1>1, <1>3, <3>2
    <3> QED BY <3>1, <3>2
  <2>2. ASSUME NEW s \in sent \cup new, NEW t \in sent \cup new, s.from = who, t.from = who,
               s.seq = t.seq
        PROVE  s = t
    <3>1. CASE s \in sent /\ t \in sent
      BY <2>2, <3>1 DEF Counted
    <3>2. CASE s \in new /\ t \in new
      BY <1>4, <2>2, <3>2
    <3>3. CASE s \in sent /\ t \in new
      BY <1>3, <1>5, <2>2, <3>3
    <3>4. CASE s \in new /\ t \in sent
      BY <1>3, <1>5, <2>2, <3>4
    <3> QED BY <3>1, <3>2, <3>3, <3>4
  <2> QED BY <2>1, <2>2 DEF Counted
<1>7. ASSUME NEW other, NEW d, NEW m, other # who, Counted(sent, other, d, m)
      PROVE  Counted(sent \cup new, other, d, m)
  <2>1. \A s \in sent \cup new : s.from = other => s \in sent
    BY <1>3, <1>7
  <2> QED BY <1>7, <2>1 DEF Counted
<1> QED BY <1>3, <1>6, <1>7 DEF new

\* A frame of the device.
LEMMA SendKeepsLink ==
  ASSUME NEW c \in Conn, NEW cmd \in DeviceCommands, NEW isAck \in BOOLEAN,
         link = [d \in Conn |-> link[d]], LinkInv(link[c]),
         nonceDirection(cmd, isAck) = 1, cmd \in Exchanges => ~link[c].asked,
         Send(c, cmd, isAck)
  PROVE  LinkInv(link'[c])
<1> DEFINE l == link[c]
           f == Pack(cmd, isAck, l.deviceKey, l.deviceSeq + 1, 0, l.asked)
           asked == l.asked \/ cmd \in Exchanges
           owed == l.owed /\ ~isAck
           up == Append(l.up, f)
           sent == l.sent \cup Used("device", <<f>>, l.deviceSeq)
           seq == l.deviceSeq + 1
<1>1. link' = [link EXCEPT ![c] =
        [link[c] EXCEPT !.deviceSeq = seq, !.asked = asked, !.owed = owed, !.up = up, !.sent = sent]]
  BY DEF Send
<1>2. /\ f \in Frame /\ f.seq = l.deviceSeq + 1 /\ f.key = l.deviceKey /\ f.crossing = l.asked
      /\ f.cmd = cmd /\ f.ack = isAck
  BY DEF Pack, Frame, LinkInv
<1>3. /\ up \in Seq(Frame) /\ \A i \in DOMAIN up : up[i].cmd \in DeviceCommands
      /\ asked \in BOOLEAN /\ seq \in Nat
  <2> HIDE DEF f
  <2>1. up \in Seq(Frame) /\ asked \in BOOLEAN /\ seq \in Nat
    BY <1>2 DEF LinkInv
  <2>2. \A i \in DOMAIN up : (i \in DOMAIN l.up /\ up[i] = l.up[i]) \/ up[i] = f
    BY <1>2 DEF LinkInv
  <2> QED BY <1>2, <2>1, <2>2 DEF LinkInv
<1>4. KeysInStep(up, l.down, l.deviceKey, l.serverKey, asked)
  <2> HIDE DEF f
  <2> QED BY <1>2, SentKeysInStep DEF LinkInv
<1>5. NoncesCounted(sent, seq, l.writeSeq)
  <2> HIDE DEF f
  <2>1. <<f>> \in Seq(Frame) /\ Len(<<f>>) = 1 /\ DOMAIN <<f>> = {1} /\ <<f>>[1] = f
    BY <1>2
  <2>2. \A i \in DOMAIN <<f>> :
          /\ <<f>>[i].seq = l.deviceSeq + i
          /\ nonceDirection(<<f>>[i].cmd, <<f>>[i].ack) = 1
    BY <1>2, <2>1
  <2>3. Counted(l.sent, "device", 1, l.deviceSeq) /\ Counted(l.sent, "server", 2, l.writeSeq)
        /\ l.deviceSeq \in Nat /\ \A s \in l.sent : s.from \in {"device", "server"}
    BY DEF LinkInv, NoncesCounted
  <2> DEFINE frames == <<f>>
             half == 1
             n == l.deviceSeq
             old == l.sent
             who == "device"
  <2>4. /\ Counted(old, who, half, n) /\ n \in Nat /\ frames \in Seq(Frame)
        /\ sent = old \cup Used(who, frames, n)
        /\ "server" # who
    BY <2>1, <2>3
  <2>7. seq = n + Len(frames)
    BY <2>1
  <2>8. Numbered(frames, n, half)
    BY <2>2 DEF Numbered
  <2> HIDE DEF frames, half, n, old, who, sent, seq
  <2>5. /\ Counted(old \cup Used(who, frames, n), who, half, n + Len(frames))
        /\ \A s \in Used(who, frames, n) : s.from = who
        /\ \A other, d, m : other # who /\ Counted(old, other, d, m)
             => Counted(old \cup Used(who, frames, n), other, d, m)
    BY <2>4, <2>8, UsedCounted
  <2>6. Counted(sent, who, half, seq) /\ Counted(sent, "server", 2, l.writeSeq)
        /\ \A s \in sent : s.from \in {"server", who}
    BY <2>3, <2>4, <2>5, <2>7 DEF old, who
  <2> QED BY <2>6 DEF NoncesCounted, half, who
<1> HIDE DEF seq, asked, owed, up, sent, f
<1>6. link'[c] =
        [link[c] EXCEPT !.deviceSeq = seq, !.asked = asked, !.owed = owed, !.up = up, !.sent = sent]
  BY <1>1
<1>7. DOMAIN link[c] = DOMAIN Closed
  BY DEF LinkInv, IsLink
<1>8. DOMAIN Closed = {"open", "serverKey", "writeSeq", "authenticated", "inflight", "deviceKey",
                       "deviceSeq", "admitted", "owed", "asked", "lastKey", "up", "down", "sent"}
  BY DEF Closed
<1>9. /\ IsLink(link'[c])
      /\ link'[c].deviceSeq = seq /\ link'[c].asked = asked /\ link'[c].up = up
      /\ link'[c].sent = sent /\ link'[c].down = l.down /\ link'[c].writeSeq = l.writeSeq
      /\ link'[c].deviceKey = l.deviceKey /\ link'[c].serverKey = l.serverKey
      /\ link'[c].lastKey = l.lastKey
  BY <1>6, <1>7, <1>8 DEF IsLink
<1> QED BY <1>3, <1>4, <1>5, <1>9 DEF LinkInv

\* The device takes a frame.
LEMMA ReadKeepsLink ==
  ASSUME NEW c \in Conn, link = [d \in Conn |-> link[d]], LinkInv(link[c]), DeviceReads(c)
  PROVE  LinkInv(link'[c])
<1> DEFINE l == link[c]
           f == Head(l.down)
           down == Tail(l.down)
           key == IF f.offer # 0 THEN f.offer ELSE l.deviceKey
           asked == l.asked /\ f.offer = 0
           admitted == l.admitted \/ f.cmd = "AuthAck"
           owed == l.owed \/ f.cmd = "ActionExec"
<1>1. /\ l.down # <<>>
      /\ link' = [link EXCEPT ![c] =
           [link[c] EXCEPT !.down = down, !.deviceKey = key, !.asked = asked, !.admitted = admitted,
                           !.owed = owed]]
  BY DEF DeviceReads
<1>2. f \in Frame /\ down \in Seq(Frame)
  BY <1>1 DEF LinkInv
<1>3. key \in Nat /\ asked \in BOOLEAN
  BY <1>2 DEF Frame, LinkInv
<1>4. KeysInStep(l.up, down, key, l.serverKey, asked)
  BY <1>1, ReadKeysInStep DEF LinkInv
<1> HIDE DEF down, key, asked, admitted, owed
<1>6. link'[c] =
        [link[c] EXCEPT !.down = down, !.deviceKey = key, !.asked = asked, !.admitted = admitted,
                        !.owed = owed]
  BY <1>1
<1>7. DOMAIN link[c] = DOMAIN Closed
  BY DEF LinkInv, IsLink
<1>8. DOMAIN Closed = {"open", "serverKey", "writeSeq", "authenticated", "inflight", "deviceKey",
                       "deviceSeq", "admitted", "owed", "asked", "lastKey", "up", "down", "sent"}
  BY DEF Closed
<1>9. /\ IsLink(link'[c])
      /\ link'[c].down = down /\ link'[c].deviceKey = key /\ link'[c].asked = asked
      /\ link'[c].sent = l.sent /\ link'[c].up = l.up /\ link'[c].writeSeq = l.writeSeq
      /\ link'[c].deviceSeq = l.deviceSeq /\ link'[c].serverKey = l.serverKey
      /\ link'[c].lastKey = l.lastKey
  BY <1>6, <1>7, <1>8 DEF IsLink
<1> QED BY <1>2, <1>3, <1>4, <1>9 DEF LinkInv

\* Every frame the device sends is of its half of the nonces, and it asks for a
\* new key only if it is not waiting for one.
LEMMA DeviceKeepsLink ==
  ASSUME NEW c \in Conn, link = [d \in Conn |-> link[d]], LinkInv(link[c]), Device(c)
  PROVE  LinkInv(link'[c])
<1>1. CASE Handshake(c)
  BY <1>1, SendKeepsLink DEF Handshake, DeviceCommands, nonceDirection, Exchanges
<1>2. CASE Verify(c)
  BY <1>2, SendKeepsLink DEF Verify, DeviceCommands, nonceDirection, Exchanges
<1>3. CASE Report(c)
  BY <1>3, SendKeepsLink DEF Report, DeviceCommands, nonceDirection, Exchanges
<1>4. CASE Rekey(c)
  BY <1>4, SendKeepsLink DEF Rekey, DeviceCommands, nonceDirection, Exchanges
<1>5. CASE Confirm(c)
  BY <1>5, SendKeepsLink DEF Confirm, DeviceCommands, nonceDirection, Exchanges
<1>6. CASE ReportError(c)
  BY <1>6, SendKeepsLink DEF ReportError, DeviceCommands, nonceDirection, Exchanges
<1>7. CASE DeviceReads(c)
  BY <1>7, ReadKeepsLink
<1> QED BY <1>1, <1>2, <1>3, <1>4, <1>5, <1>6, <1>7 DEF Device

\* The server takes a frame and puts its own behind those under way.
LEMMA ServeKeepsLink ==
  ASSUME NEW c \in Conn, NEW accepted \in BOOLEAN, NEW command \in BOOLEAN,
         link = [d \in Conn |-> link[d]], LinkInv(link[c]), ServeFrame(c, accepted, command)
  PROVE  LinkInv(link'[c])
<1>1. CASE Close(c)
  BY <1>1, ClosedInv DEF Close
<1>2. CASE ~Close(c)
  <2> DEFINE l == link[c]
             f == Head(l.up)
             pops == /\ command /\ (l.authenticated \/ (f.cmd = "AuthVerify" /\ accepted))
                     /\ ~(l.inflight /\ f.cmd # "ActionExec")
             frames == Turn(l, f, pops)
             before == Cardinality({t \in l.sent : t.from = "server"})
             up == Tail(l.up)
             key == KeyAfter(l, f)
             last == IF f.cmd \in Exchanges THEN l.lastKey + 1 ELSE l.lastKey
             seq == l.writeSeq + Len(frames)
             authenticated == l.authenticated \/ (f.cmd = "AuthVerify" /\ accepted)
             inflight == (l.inflight /\ f.cmd # "ActionExec") \/ pops
             down == l.down \o frames
             sent == l.sent \cup Used("server", frames, before)
  <2>1. /\ l.up # <<>>
        /\ link' = [link EXCEPT ![c] =
             [link[c] EXCEPT !.up = up, !.serverKey = key, !.lastKey = last, !.writeSeq = seq,
                             !.authenticated = authenticated, !.inflight = inflight,
                             !.down = down, !.sent = sent]]
    BY <1>2 DEF ServeFrame, Turn
  <2>2. /\ f \in Frame /\ f.cmd \in DeviceCommands /\ pops \in BOOLEAN
        /\ l.serverKey \in Nat /\ l.lastKey = l.serverKey /\ l.writeSeq \in Nat
        /\ l.up \in Seq(Frame) /\ l.down \in Seq(Frame) /\ l.deviceKey \in Nat
        /\ l.asked \in BOOLEAN
        /\ KeysInStep(l.up, l.down, l.deviceKey, l.serverKey, l.asked)
    <3>1. l.up \in Seq(Frame) /\ \A i \in DOMAIN l.up : l.up[i].cmd \in DeviceCommands
      BY DEF LinkInv
    <3>2. f \in Frame /\ f = l.up[1] /\ 1 \in DOMAIN l.up
      BY <2>1, <3>1
    <3>3. pops \in BOOLEAN
      OBVIOUS
    <3> QED BY <3>1, <3>2, <3>3 DEF LinkInv
  <2>3. /\ frames \in Seq(Frame) /\ key \in Nat /\ Numbered(frames, l.writeSeq, 2)
        /\ IF f.cmd \in Exchanges THEN Offering(l, f, frames) ELSE Plain(l, f, frames)
    <3> HIDE DEF f, pops
    <3> QED BY <2>2, TurnFrames
  <2>4. KeysInStep(up, down, l.deviceKey, key, l.asked)
    <3> HIDE DEF frames
    <3> QED BY <2>1, <2>2, <2>3, ServedKeysInStep
  <2>5. /\ up \in Seq(Frame) /\ \A i \in DOMAIN up : up[i].cmd \in DeviceCommands
        /\ down \in Seq(Frame) /\ last = key /\ seq \in Nat
    <3> HIDE DEF frames
    <3>1. up \in Seq(Frame)
      BY <2>1, <2>2
    <3>2. \A i \in DOMAIN up : i + 1 \in DOMAIN l.up /\ up[i] = l.up[i + 1]
      BY <2>1, <2>2
    <3>3. \A i \in DOMAIN up : up[i].cmd \in DeviceCommands
      BY <3>2 DEF LinkInv
    <3>4. down \in Seq(Frame) /\ seq \in Nat
      <4>1. Len(frames) \in Nat
        BY <2>3
      <4>2. down \in Seq(Frame)
        BY <2>2, <2>3, JoinedAt
      <4> QED BY <2>2, <4>1, <4>2
    <3>5. last = key
      BY <2>2 DEF KeyAfter
    <3> QED BY <3>1, <3>3, <3>4, <3>5
  <2>6. NoncesCounted(sent, l.deviceSeq, seq)
    <3> DEFINE half == 2
               n == l.writeSeq
               old == l.sent
               who == "server"
    <3>1. /\ Counted(old, who, half, n) /\ n \in Nat /\ frames \in Seq(Frame)
          /\ Numbered(frames, n, half) /\ sent = old \cup Used(who, frames, before)
          /\ Counted(old, "device", 1, l.deviceSeq) /\ "device" # who
          /\ \A s \in old : s.from \in {"device", who}
      BY <2>2, <2>3 DEF LinkInv, NoncesCounted
    <3> HIDE DEF frames, half, n, old, who, sent, before
    <3>2. /\ Counted(old \cup Used(who, frames, before), who, half, n + Len(frames))
          /\ \A s \in Used(who, frames, before) : s.from = who
          /\ \A other, d, m : other # who /\ Counted(old, other, d, m)
               => Counted(old \cup Used(who, frames, before), other, d, m)
      BY <3>1, UsedCounted
    <3>3. Counted(sent, who, half, n + Len(frames)) /\ Counted(sent, "device", 1, l.deviceSeq)
          /\ \A s \in sent : s.from \in {"device", who}
      BY <3>1, <3>2
    <3> QED BY <3>3 DEF NoncesCounted, half, who, n
  <2> HIDE DEF up, key, last, seq, authenticated, inflight, down, sent
  <2>7. link'[c] =
          [link[c] EXCEPT !.up = up, !.serverKey = key, !.lastKey = last, !.writeSeq = seq,
                          !.authenticated = authenticated, !.inflight = inflight,
                          !.down = down, !.sent = sent]
    BY <2>1
  <2>8. DOMAIN link[c] = DOMAIN Closed
    BY DEF LinkInv, IsLink
  <2>9. DOMAIN Closed = {"open", "serverKey", "writeSeq", "authenticated", "inflight", "deviceKey",
                         "deviceSeq", "admitted", "owed", "asked", "lastKey", "up", "down", "sent"}
    BY DEF Closed
  <2>10. /\ IsLink(link'[c])
         /\ link'[c].up = up /\ link'[c].serverKey = key /\ link'[c].lastKey = last
         /\ link'[c].writeSeq = seq /\ link'[c].down = down /\ link'[c].sent = sent
         /\ link'[c].deviceSeq = l.deviceSeq /\ link'[c].deviceKey = l.deviceKey
         /\ link'[c].asked = l.asked
    BY <2>7, <2>8, <2>9 DEF IsLink
  <2> QED BY <2>3, <2>4, <2>5, <2>6, <2>10 DEF LinkInv
<1> QED BY <1>1, <1>2

\* Both ends of every connection are in step: the strengthening that makes
\* FramesInStep inductive.
LinksInv == link = [c \in Conn |-> link[c]] /\ \A c \in Conn : LinkInv(link[c])

\* An end in step reads each frame with the key it will hold when its turn comes.
LEMMA InStepIsReadable ==
  ASSUME NEW l, LinkInv(l)
  PROVE  /\ \A i \in DOMAIN l.down : Readable(l.down[i], HeldAt(l, i))
         /\ \A i \in DOMAIN l.up : l.up[i].crossing \/ Readable(l.up[i], l.serverKey)
<1>1. KeysInStep(l.up, l.down, l.deviceKey, l.serverKey, l.asked)
  BY DEF LinkInv
<1>2. DOMAIN l.down = 1 .. Len(l.down) /\ Len(l.down) \in Nat
  BY DEF LinkInv
<1>3. ASSUME NEW i \in DOMAIN l.down
      PROVE  Readable(l.down[i], HeldAt(l, i))
  <2> DEFINE offers == {j \in 1 .. (i - 1) : l.down[j].offer # 0}
  <2>1. i \in Nat /\ \A j \in 1 .. (i - 1) : j \in DOMAIN l.down /\ j # i /\ j < i
    BY <1>2
  <2>2. HeldAt(l, i) = IF offers = {} THEN l.deviceKey
                       ELSE l.down[CHOOSE j \in offers : \A k \in offers : k <= j].offer
    BY DEF HeldAt
  <2>3. CASE NoOffer(l.down) /\ \A j \in DOMAIN l.down : Readable(l.down[j], l.deviceKey)
    <3>1. offers = {}
      BY <2>1, <2>3 DEF NoOffer
    <3> QED BY <2>2, <2>3, <3>1
  <2>4. CASE Answered(l.up, l.down, l.deviceKey, l.serverKey, l.asked)
    <3>1. PICK k \in DOMAIN l.down :
           /\ l.down[k].offer = l.serverKey
           /\ \A j \in DOMAIN l.down : j # k => l.down[j].offer = 0
           /\ \A j \in DOMAIN l.down : Readable(l.down[j], IF j <= k THEN l.deviceKey ELSE l.serverKey)
      BY <2>4 DEF Answered
    <3>2. k \in Nat /\ l.serverKey # 0
      BY <1>2, <2>4 DEF Answered
    <3>3. CASE i <= k
      <4>1. offers = {}
        BY <2>1, <3>1, <3>2, <3>3
      <4> QED BY <2>2, <3>1, <3>3, <4>1
    <3>4. CASE ~(i <= k)
      <4>1. k \in 1 .. (i - 1)
        BY <1>2, <2>1, <3>4
      <4>2. offers = {k}
        BY <2>1, <3>1, <3>2, <4>1
      <4>3. k <= k
        BY <3>2
      <4> HIDE DEF offers
      <4>4. (CHOOSE j \in offers : \A m \in offers : m <= j) = k
        BY <4>2, <4>3
      <4>5. HeldAt(l, i) = l.serverKey
        BY <2>2, <3>1, <4>2, <4>4
      <4> QED BY <3>1, <3>4, <4>5
    <3> QED BY <3>3, <3>4
  <2> QED BY <1>1, <2>3, <2>4 DEF KeysInStep, Agreed, Requested
<1>4. \A i \in DOMAIN l.up : l.up[i].crossing \/ Readable(l.up[i], l.serverKey)
  BY <1>1 DEF KeysInStep, Agreed, Requested, Answered
<1> QED BY <1>3, <1>4

\* Two frames have different nonces: of one end by their numbers, of two ends by
\* their halves.
LEMMA CountedAreUnique ==
  ASSUME NEW l, LinkInv(l)
  PROVE  \A s, t \in l.sent : s # t => <<s.key, s.dir, s.seq>> # <<t.key, t.dir, t.seq>>
<1> SUFFICES ASSUME NEW s \in l.sent, NEW t \in l.sent, s # t, s.dir = t.dir, s.seq = t.seq
             PROVE  FALSE
  OBVIOUS
<1>1. NoncesCounted(l.sent, l.deviceSeq, l.writeSeq)
  BY DEF LinkInv
<1> QED BY <1>1 DEF NoncesCounted, Counted

\* Whatever a device, its adapter and the network do, frames are read with the
\* key they were packed with, and no nonce is used twice under a key
\* (codec.go:73-99, adapter.go:313-325).
THEOREM FramesAreInStep == Spec => []FramesInStep
<1>1. Init => LinksInv
  BY ClosedInv DEF Init, ChannelInit, LinksInv
<1>2. LinksInv /\ [Next]_vars => LinksInv'
  <2> SUFFICES ASSUME LinksInv, [Next]_vars
               PROVE  LinksInv'
    OBVIOUS
  <2>0. link = [c \in Conn |-> link[c]]
    BY DEF LinksInv
  <2>1. CASE UNCHANGED link
    BY <2>1 DEF LinksInv
  <2>2. ASSUME NEW set, Drop(set)
        PROVE  LinksInv'
    <3>1. /\ link' = [c \in Conn |-> link'[c]]
          /\ \A c \in Conn : link'[c] = Closed \/ link'[c] = link[c]
      BY <2>2 DEF Drop
    <3> QED BY <3>1, ClosedInv DEF LinksInv
  <2>3. CASE CoreRuns \/ CoreEnds \/ UNCHANGED vars
    BY <2>1, <2>3 DEF CoreRuns, CoreEnds, vars
  <2>4. CASE IngressStart \/ CancelAll \/ StopSignal
    BY <2>1, <2>4 DEF IngressStart, CancelAll, StopSignal
  <2>5. ASSUME NEW p \in Component, Start(p) \/ Stop(p) \/ StartFails(p)
        PROVE  LinksInv'
    BY <2>1, <2>5 DEF Start, Stop, StartFails
  <2>6. CASE Exit
    BY <2>6, ClosedInv DEF Exit, LinksInv
  <2>7. CASE AcceptEnds \/ Track \/ LoopEnds \/ WatcherFlags
    BY <2>1, <2>7 DEF AcceptEnds, Track, LoopEnds, WatcherFlags
  <2>8. ASSUME NEW c \in Conn, Accept(c)
        PROVE  LinksInv'
    BY <2>1, <2>8 DEF Accept
  <2>9. CASE Check
    <3>1. CASE shutdown
      <4>1. link' = [link EXCEPT ![held] = Closed]
        BY <2>9, <3>1 DEF Check, Close
      <4>2. /\ link' = [c \in Conn |-> link'[c]]
            /\ \A c \in Conn : link'[c] = Closed \/ link'[c] = link[c]
        BY <2>0, <4>1
      <4> QED BY <4>2, ClosedInv DEF LinksInv
    <3>2. CASE ~shutdown
      BY <2>1, <2>9, <3>2 DEF Check
    <3> QED BY <3>1, <3>2
  <2>10. CASE AcceptFails
    BY <2>1, <2>2, <2>10 DEF AcceptFails
  <2>11. CASE WatcherCloses \/ CloseActive
    BY <2>2, <2>11 DEF WatcherCloses, CloseActive
  <2>12. ASSUME NEW c \in Conn, HangUp(c)
         PROVE  LinksInv'
    BY <2>2, <2>12 DEF HangUp
  <2>13. ASSUME NEW c \in Conn, Dial(c)
         PROVE  LinksInv'
    <3>1. link' = [link EXCEPT ![c] = [Closed EXCEPT !.open = TRUE]]
      BY <2>13 DEF Dial, Open
    <3>2. /\ link' = [d \in Conn |-> link'[d]]
          /\ \A d \in Conn : link'[d] = [Closed EXCEPT !.open = TRUE] \/ link'[d] = link[d]
      BY <2>0, <3>1
    <3> QED BY <3>2, ClosedInv DEF LinksInv
  <2>14. ASSUME NEW c \in Conn, DeviceActs(c)
         PROVE  LinksInv'
    <3>1. Device(c)
      BY <2>14 DEF DeviceActs
    <3>2. /\ link' = [d \in Conn |-> link'[d]]
          /\ \A d \in Conn \ {c} : link'[d] = link[d]
      BY <2>0, <3>1, DeviceStep DEF LinksInv, LinkInv
    <3>3. LinkInv(link'[c])
      BY <2>0, <3>1, DeviceKeepsLink DEF LinksInv
    <3> QED BY <3>2, <3>3 DEF LinksInv
  <2>15. ASSUME NEW c \in Conn, HandleFrame(c)
         PROVE  LinksInv'
    <3>1. PICK accepted \in BOOLEAN, command \in BOOLEAN : ServeFrame(c, accepted, command)
      BY <2>15 DEF HandleFrame
    <3>2. /\ link' = [d \in Conn |-> link'[d]]
          /\ \A d \in Conn \ {c} : link'[d] = link[d]
      BY <2>0, <3>1, ServeStep DEF LinksInv, LinkInv
    <3>3. LinkInv(link'[c])
      BY <2>0, <3>1, ServeKeepsLink DEF LinksInv
    <3> QED BY <3>2, <3>3 DEF LinksInv
  <2> QED
    BY <2>3, <2>4, <2>5, <2>6, <2>7, <2>8, <2>9, <2>10, <2>11, <2>12, <2>13, <2>14, <2>15
    DEF Next, Process, AcceptLoop, Watcher
<1>3. LinksInv => FramesInStep
  BY InStepIsReadable, CountedAreUnique DEF LinksInv, FramesInStep, ReadableInTurn, NoncesUnique
<1> QED BY <1>1, <1>2, <1>3, PTL DEF Spec
=============================================================================
