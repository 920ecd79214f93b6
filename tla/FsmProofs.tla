------------------------------ MODULE FsmProofs ------------------------------
(***************************************************************************)
(* The safety invariants of Fsm, that it implements FsmLayer, and what     *)
(* follows for two ends that talk to each other (Nego): all for every      *)
(* value of the constants.                                                 *)
(*                                                                         *)
(* The inductive invariant is Sound(fsm) together with the two facts that  *)
(* relate the state to the last administrative and lower-layer event.  The *)
(* first section says what each building block of FsmOps does to a struct, *)
(* the second that each handler keeps it Sound, the third draws the        *)
(* conclusions.  The refinement and the two ends follow, each with its own *)
(* introduction.                                                           *)
(***************************************************************************)
EXTENDS Fsm, Nego, SequenceTheorems, NaturalsInduction, WellFoundedInduction, TLAPS

\* Everything but the restart timer.  denied: the automaton failed itself as it opened
\* and did not come to rest since.
SoundUntimed(f, denied) ==
  /\ f \in Fsms
  /\ f.echo <=> f.state = "Opened" /\ EchoLimit # 0
  /\ f.up <=> f.state = "Opened"
  /\ f.configured => f.state \in Negotiating \cup {"Opened"}
  /\ ~denied => /\ f.state \in Negotiating \cup {"Opened"} => f.configured
                /\ f.state \in {"Starting", "Opened"} \cup Waiting => f.started
  /\ denied /\ f.state \notin AtRest => (f.started <=> Passive)
  /\ ~Passive /\ f.state \in AtRest => ~f.started
  /\ f.state \in {"AckRcvd", "Opened"} => f.restart = MaxConfig /\ f.config = MaxConfig
  /\ f.state \in Negotiating => f.restart < f.config + MaxConfig

SoundIn(f, denied) == SoundUntimed(f, denied) /\ (f.timer <=> f.state \in Waiting)

\* A refusal is forgotten where the automaton comes to rest.
Held(f, denied) == denied => f.state \notin AtRest

Dead == {"Initial", "Starting"}

SameLayers(f, g) ==
  (g.up <=> f.up) /\ (g.started <=> f.started) /\ (g.configured <=> f.configured)

SameCounters(f, g) ==
  g.restart = f.restart /\ g.failure = f.failure /\ g.config = f.config

SameTimers(f, g) == (g.timer <=> f.timer) /\ (g.echo <=> f.echo)

\* The handler leaves what the administrator wants and the carrier alone.
SameMode(f, g) ==
  /\ f.state \in OPEN_STATE <=> g.state \in OPEN_STATE
  /\ f.state \in Dead <=> g.state \in Dead

USE DEF Negotiating, Terminating, Waiting, States, AtRest, Held

----------------------------------------------------------------------------
(* What the building blocks do. *)

\* Identifiers stay in their range when they wrap.
LEMMA NextIdInIds == ASSUME NEW i \in Ids PROVE NextId(i) \in Ids
  BY FsmAssumption DEF NextId, Ids

\* A handler starts from the struct the last one left.
LEMMA BeginFields ==
  ASSUME NEW f \in Fsms
  PROVE  LET g == Begin(f) IN
         /\ g \in Fsms /\ g.state = f.state
         /\ SameLayers(f, g) /\ SameCounters(f, g) /\ SameTimers(f, g)
<1>1. << >> \in Seq(Packets)
  OBVIOUS
<1>2. Begin(f) \in Fsms
  BY <1>1 DEF Begin, Fsms
<1>3. Begin(f).state = f.state
  BY DEF Begin, Fsms
<1>4. SameLayers(f, Begin(f)) /\ SameCounters(f, Begin(f)) /\ SameTimers(f, Begin(f))
  BY DEF Begin, Fsms, SameLayers, SameCounters, SameTimers
<1>5. QED
  BY <1>2, <1>3, <1>4

\* FsmNewState() changes the state and the timers only.
LEMMA NewStateFields ==
  ASSUME NEW f \in Fsms, NEW s \in States
  PROVE  LET g == NewState(f, s) IN
         /\ g \in Fsms /\ g.state = s
         /\ SameLayers(f, g) /\ SameCounters(f, g)
         /\ s \in Waiting => (g.timer <=> f.timer)
         /\ s \notin Waiting => ~g.timer
         /\ s = "Opened" /\ EchoLimit # 0 => g.echo
         /\ (s # "Opened" \/ EchoLimit = 0) /\ f.state = "Opened" => ~g.echo
         /\ (s # "Opened" \/ EchoLimit = 0) /\ f.state # "Opened" => (g.echo <=> f.echo)
<1>1. NewState(f, s) \in Fsms
  <2>1. /\ (IF s \in Waiting THEN f.timer ELSE FALSE) \in BOOLEAN
        /\ (IF s = "Opened" /\ EchoLimit # 0 THEN TRUE
            ELSE IF f.state = "Opened" THEN FALSE ELSE f.echo) \in BOOLEAN
        /\ (IF s = "Opened" /\ EchoLimit # 0 THEN 0 ELSE f.quiet) \in Nat
    BY DEF Fsms
  <2> HIDE DEF States, Waiting
  <2>2. QED
    BY <2>1 DEF NewState, Fsms
<1>2. NewState(f, s).state = s
  BY DEF NewState, Fsms
<1>3. SameLayers(f, NewState(f, s)) /\ SameCounters(f, NewState(f, s))
  BY DEF NewState, Fsms, SameLayers, SameCounters
<1>4. /\ s \in Waiting => (NewState(f, s).timer <=> f.timer)
      /\ s \notin Waiting => ~NewState(f, s).timer
  BY DEF NewState, Fsms
<1>5. LET g == NewState(f, s) IN
      /\ s = "Opened" /\ EchoLimit # 0 => g.echo
      /\ (s # "Opened" \/ EchoLimit = 0) /\ f.state = "Opened" => ~g.echo
      /\ (s # "Opened" \/ EchoLimit = 0) /\ f.state # "Opened" => (g.echo <=> f.echo)
  BY DEF NewState, Fsms
<1>6. QED
  BY <1>1, <1>2, <1>3, <1>4, <1>5

\* The call of the layer's LayerUp method is recorded in one field.
LEMMA LayerUpFields ==
  ASSUME NEW f \in Fsms
  PROVE  LET g == LayerUp(f) IN
         /\ g \in Fsms /\ g.state = f.state
         /\ g.up /\ (g.started <=> f.started) /\ (g.configured <=> f.configured)
         /\ SameCounters(f, g) /\ SameTimers(f, g)
  BY DEF LayerUp, Fsms, SameCounters, SameTimers

\* The call of the layer's LayerDown method is recorded in one field.
LEMMA LayerDownFields ==
  ASSUME NEW f \in Fsms
  PROVE  LET g == LayerDown(f) IN
         /\ g \in Fsms /\ g.state = f.state
         /\ ~g.up /\ (g.started <=> f.started) /\ (g.configured <=> f.configured)
         /\ SameCounters(f, g) /\ SameTimers(f, g)
<1>1. f.downs + 1 \in Nat
  BY DEF Fsms
<1>2. QED
  BY <1>1 DEF LayerDown, Fsms, SameCounters, SameTimers

\* The call of the layer's LayerStart method is recorded in one field.
LEMMA LayerStartFields ==
  ASSUME NEW f \in Fsms
  PROVE  LET g == LayerStart(f) IN
         /\ g \in Fsms /\ g.state = f.state
         /\ g.started /\ (g.up <=> f.up) /\ (g.configured <=> f.configured)
         /\ SameCounters(f, g) /\ SameTimers(f, g)
  BY DEF LayerStart, Fsms, SameCounters, SameTimers

\* The call of the layer's LayerFinish method is recorded in one field.
LEMMA LayerFinishFields ==
  ASSUME NEW f \in Fsms
  PROVE  LET g == LayerFinish(f) IN
         /\ g \in Fsms /\ g.state = f.state
         /\ ~g.started /\ (g.up <=> f.up) /\ (g.configured <=> f.configured)
         /\ SameCounters(f, g) /\ SameTimers(f, g)
  BY DEF LayerFinish, Fsms, SameCounters, SameTimers

\* The call of the layer's Configure method is recorded in one field.
LEMMA ConfigureFields ==
  ASSUME NEW f \in Fsms
  PROVE  LET g == Configure(f) IN
         /\ g \in Fsms /\ g.state = f.state
         /\ g.configured /\ (g.up <=> f.up) /\ (g.started <=> f.started)
         /\ SameCounters(f, g) /\ SameTimers(f, g)
  BY DEF Configure, Fsms, SameCounters, SameTimers

\* The call of the layer's UnConfigure method is recorded in one field.
LEMMA UnConfigureFields ==
  ASSUME NEW f \in Fsms
  PROVE  LET g == UnConfigure(f) IN
         /\ g \in Fsms /\ g.state = f.state
         /\ ~g.configured /\ (g.up <=> f.up) /\ (g.started <=> f.started)
         /\ SameCounters(f, g) /\ SameTimers(f, g)
  BY DEF UnConfigure, Fsms, SameCounters, SameTimers

\* Sending only appends to what was sent.
LEMMA OutputFields ==
  ASSUME NEW f \in Fsms, NEW c \in Codes, NEW i \in Ids
  PROVE  LET g == Output(f, c, i) IN
         /\ g \in Fsms /\ g.state = f.state /\ g.reqid = f.reqid
         /\ SameLayers(f, g) /\ SameCounters(f, g) /\ SameTimers(f, g)
<1>1. [code |-> c, id |-> i] \in Packets
  BY DEF Packets
<1>2. Append(f.out, [code |-> c, id |-> i]) \in Seq(Packets)
  BY <1>1 DEF Fsms
<1>3. QED
  BY <1>2 DEF Output, Fsms, SameLayers, SameCounters, SameTimers

\* FsmSendConfigReq() arms the timer and uses up one retransmission.
LEMMA SendConfigReqFields ==
  ASSUME NEW f \in Fsms, f.restart > 0, f.config > -MaxConfig
  PROVE  LET g == SendConfigReq(f) IN
         /\ g \in Fsms /\ g.state = f.state /\ SameLayers(f, g)
         /\ g.timer /\ (g.echo <=> f.echo)
         /\ g.restart = f.restart - 1 /\ g.config = f.config - 1
         /\ g.failure = f.failure
<1> DEFINE h == Output(f, "ConfigReq", f.reqid)
<1>1. /\ h \in Fsms /\ h.state = f.state /\ h.reqid = f.reqid
      /\ SameLayers(f, h) /\ SameCounters(f, h) /\ SameTimers(f, h)
  <2>1. "ConfigReq" \in Codes /\ f.reqid \in Ids
    BY DEF Codes, Fsms
  <2>2. QED
    BY <2>1, OutputFields
<1>2. NextId(h.reqid) \in Ids
  BY <1>1, NextIdInIds DEF Fsms
<1>3. SendConfigReq(f) = [h EXCEPT !.reqid = NextId(h.reqid), !.timer = TRUE,
                                   !.restart = h.restart - 1, !.config = h.config - 1]
  BY DEF SendConfigReq
<1> HIDE DEF h
<1>4. /\ h.restart - 1 \in 0 .. (MaxConfig + MaxTerminate)
      /\ h.config - 1 \in (-MaxConfig) .. MaxConfig
  BY <1>1, FsmAssumption, SMTT(30) DEF SameCounters, Fsms
<1>5. SendConfigReq(f) \in Fsms
  BY <1>1, <1>2, <1>3, <1>4 DEF Fsms
<1>6. LET g == SendConfigReq(f) IN
      /\ g.state = h.state /\ SameLayers(h, g)
      /\ g.timer /\ (g.echo <=> h.echo)
      /\ g.restart = h.restart - 1 /\ g.config = h.config - 1 /\ g.failure = h.failure
  BY <1>1, <1>3 DEF Fsms, SameLayers
<1>7. QED
  BY <1>1, <1>5, <1>6 DEF SameLayers, SameCounters, SameTimers

\* FsmSendTerminateReq() does the same to the restart counter alone.
LEMMA SendTerminateReqFields ==
  ASSUME NEW f \in Fsms, f.restart > 0
  PROVE  LET g == SendTerminateReq(f) IN
         /\ g \in Fsms /\ g.state = f.state /\ SameLayers(f, g)
         /\ g.timer /\ (g.echo <=> f.echo)
         /\ g.restart = f.restart - 1 /\ g.config = f.config /\ g.failure = f.failure
<1> DEFINE h == Output(f, "TermReq", f.reqid)
<1>1. /\ h \in Fsms /\ h.state = f.state /\ h.reqid = f.reqid
      /\ SameLayers(f, h) /\ SameCounters(f, h) /\ SameTimers(f, h)
  <2>1. "TermReq" \in Codes /\ f.reqid \in Ids
    BY DEF Codes, Fsms
  <2>2. QED
    BY <2>1, OutputFields
<1>2. NextId(h.reqid) \in Ids
  BY <1>1, NextIdInIds DEF Fsms
<1>3. SendTerminateReq(f) = [h EXCEPT !.reqid = NextId(h.reqid), !.timer = TRUE,
                                      !.restart = h.restart - 1]
  BY DEF SendTerminateReq
<1> HIDE DEF h
<1>4. h.restart - 1 \in 0 .. (MaxConfig + MaxTerminate)
  BY <1>1, FsmAssumption, SMTT(30) DEF SameCounters, Fsms
<1>5. SendTerminateReq(f) \in Fsms
  BY <1>1, <1>2, <1>3, <1>4 DEF Fsms
<1>6. LET g == SendTerminateReq(f) IN
      /\ g.state = h.state /\ SameLayers(h, g)
      /\ g.timer /\ (g.echo <=> h.echo)
      /\ g.restart = h.restart - 1 /\ g.config = h.config /\ g.failure = h.failure
  BY <1>1, <1>3 DEF Fsms, SameLayers
<1>7. QED
  BY <1>1, <1>5, <1>6 DEF SameLayers, SameCounters, SameTimers

\* FsmSendTerminateAck() uses up an identifier and nothing else.
LEMMA SendTerminateAckFields ==
  ASSUME NEW f \in Fsms
  PROVE  LET g == SendTerminateAck(f) IN
         /\ g \in Fsms /\ g.state = f.state
         /\ SameLayers(f, g) /\ SameCounters(f, g) /\ SameTimers(f, g)
<1> DEFINE h == Output(f, "TermAck", f.reqid)
<1>1. /\ h \in Fsms /\ h.state = f.state /\ h.reqid = f.reqid
      /\ SameLayers(f, h) /\ SameCounters(f, h) /\ SameTimers(f, h)
  <2>1. "TermAck" \in Codes /\ f.reqid \in Ids
    BY DEF Codes, Fsms
  <2>2. QED
    BY <2>1, OutputFields
<1>2. NextId(h.reqid) \in Ids
  BY <1>1, NextIdInIds DEF Fsms
<1>3. SendTerminateAck(f) = [h EXCEPT !.reqid = NextId(h.reqid)]
  BY DEF SendTerminateAck
<1> HIDE DEF h
<1>4. QED
  BY <1>1, <1>2, <1>3, SMTT(30) DEF Fsms, SameLayers, SameCounters, SameTimers

\* FsmSendConfigNak() and FsmSendConfigRej() use up one refusal.
LEMMA SendConfigRefusalFields ==
  ASSUME NEW f \in Fsms, f.failure > 0, NEW v \in {"ConfigNak", "ConfigRej"}, NEW i \in Ids
  PROVE  LET g == SendConfigRefusal(f, v, i) IN
         /\ g \in Fsms /\ g.state = f.state
         /\ SameLayers(f, g) /\ SameTimers(f, g)
         /\ g.restart = f.restart /\ g.config = f.config
<1> DEFINE h == Output(f, v, i)
<1>1. /\ h \in Fsms /\ h.state = f.state
      /\ SameLayers(f, h) /\ SameCounters(f, h) /\ SameTimers(f, h)
  <2>1. v \in Codes
    BY DEF Codes
  <2>2. QED
    BY <2>1, OutputFields
<1>2. SendConfigRefusal(f, v, i) = [h EXCEPT !.failure = h.failure - 1]
  BY DEF SendConfigRefusal
<1> HIDE DEF h
<1>3. h.failure - 1 \in 0 .. MaxFailure
  <2>1. f.failure \in 0 .. MaxFailure /\ h.failure = f.failure
    BY <1>1 DEF SameCounters, Fsms
  <2>2. QED
    BY <2>1, FsmAssumption
<1>4. [h EXCEPT !.failure = h.failure - 1] \in Fsms
  BY <1>1, <1>3 DEF Fsms
<1>5. QED
  BY <1>1, <1>2, <1>4 DEF Fsms, SameLayers, SameCounters, SameTimers

\* The restart counter is set and the timer stopped.
LEMMA InitRestartCounterFields ==
  ASSUME NEW f \in Fsms, NEW n \in {0, MaxConfig, MaxTerminate}
  PROVE  LET g == InitRestartCounter(f, n) IN
         /\ g \in Fsms /\ g.state = f.state /\ SameLayers(f, g)
         /\ ~g.timer /\ (g.echo <=> f.echo)
         /\ g.restart = n /\ g.config = f.config /\ g.failure = f.failure
<1>1. n \in 0 .. (MaxConfig + MaxTerminate)
  BY FsmAssumption
<1>2. InitRestartCounter(f, n) \in Fsms
  BY <1>1 DEF InitRestartCounter, Fsms
<1>3. QED
  BY <1>2 DEF InitRestartCounter, Fsms, SameLayers

\* All the counters are set and the timer stopped.
LEMMA InitCountersFields ==
  ASSUME NEW f \in Fsms
  PROVE  LET g == InitCounters(f) IN
         /\ g \in Fsms /\ g.state = f.state /\ SameLayers(f, g)
         /\ ~g.timer /\ (g.echo <=> f.echo)
         /\ g.restart = MaxConfig /\ g.config = MaxConfig /\ g.failure = MaxFailure
<1>1. /\ MaxConfig \in 0 .. (MaxConfig + MaxTerminate)
      /\ MaxConfig \in (-MaxConfig) .. MaxConfig
      /\ MaxFailure \in 0 .. MaxFailure
  BY FsmAssumption
<1>2. InitCounters(f) \in Fsms
  BY <1>1 DEF InitCounters, Fsms
<1>3. QED
  BY <1>2 DEF InitCounters, Fsms, SameLayers

----------------------------------------------------------------------------
(* What the handlers preserve. *)

\* FsmFailure() is sound even where its caller has already left Opened in all but
\* name (FsmRecvConfigReq) or has already taken the timer down (FsmTimeout).
LEMMA FailureSound ==
  ASSUME NEW f, NEW denied \in BOOLEAN,
         \/ /\ f \in Fsms /\ f.state = "Opened"
            /\ ~denied => f.started
            /\ denied => (f.started <=> Passive)
         \/ SoundUntimed(f, denied) /\ (f.state \notin Waiting => ~f.timer)
  PROVE  SoundIn(FsmFailure(f), denied) /\ SameMode(f, FsmFailure(f))
<1> USE DEF SoundIn, SoundUntimed, SameMode, SameLayers, SameCounters, SameTimers,
            OPEN_STATE, Dead, FsmFailure
<1>0. f \in Fsms
  OBVIOUS
<1>1. CASE f.state = "Closing"
  BY <1>0, <1>1, NewStateFields, LayerFinishFields
<1>2. CASE f.state = "Closed"
  BY <1>0, <1>2, LayerFinishFields
<1>3. CASE f.state = "Stopping"
  BY <1>0, <1>3, NewStateFields, LayerFinishFields
<1>4. CASE f.state \in Negotiating
  BY <1>0, <1>4, NewStateFields, LayerFinishFields, UnConfigureFields
<1>5. CASE f.state = "Opened"
  BY <1>0, <1>5, NewStateFields, InitRestartCounterFields, SendTerminateReqFields,
     LayerDownFields, UnConfigureFields, FsmAssumption
<1>6. CASE f.state = "Stopped"
  BY <1>0, <1>6, LayerFinishFields
<1>7. CASE f.state \in {"Initial", "Starting"}
  BY <1>0, <1>7
<1>8. QED
  BY <1>0, <1>1, <1>2, <1>3, <1>4, <1>5, <1>6, <1>7 DEF Fsms

\* FsmOpen() ends in an open state over the same carrier.
LEMMA OpenSound ==
  ASSUME NEW f, NEW denied \in BOOLEAN, SoundIn(f, denied), Held(f, denied)
  PROVE  LET g == FsmOpen(f) IN
         SoundIn(g, denied) /\ g.state \in OPEN_STATE /\ (f.state \in Dead <=> g.state \in Dead)
<1> USE DEF SoundIn, SoundUntimed, SameLayers, SameCounters, SameTimers,
            OPEN_STATE, Dead, FsmOpen
<1>0. f \in Fsms
  OBVIOUS
<1>1. CASE f.state = "Initial"
  BY <1>0, <1>1, NewStateFields, LayerStartFields
<1>2. CASE f.state = "Closed"
  BY <1>0, <1>2, ConfigureFields, NewStateFields, LayerStartFields, InitCountersFields,
     SendConfigReqFields, FsmAssumption
<1>3. CASE f.state = "Closing"
  BY <1>0, <1>3, NewStateFields
<1>4. CASE f.state \notin {"Initial", "Closed", "Closing"}
  BY <1>0, <1>4 DEF Fsms
<1>5. QED
  BY <1>1, <1>2, <1>3, <1>4

\* FsmClose() ends in a state that is not open, over the same carrier.
LEMMA CloseSound ==
  ASSUME NEW f, NEW denied \in BOOLEAN, SoundIn(f, denied), Held(f, denied)
  PROVE  LET g == FsmClose(f) IN
         SoundIn(g, denied) /\ g.state \notin OPEN_STATE /\ (f.state \in Dead <=> g.state \in Dead)
<1> USE DEF SoundIn, SoundUntimed, SameLayers, SameCounters, SameTimers,
            OPEN_STATE, Dead, FsmClose
<1>0. f \in Fsms
  OBVIOUS
<1>1. CASE f.state = "Starting"
  BY <1>0, <1>1, NewStateFields, LayerFinishFields
<1>2. CASE f.state = "Stopped"
  BY <1>0, <1>2, NewStateFields
<1>3. CASE f.state = "Stopping"
  BY <1>0, <1>3, NewStateFields
<1>4. CASE f.state = "Opened"
  BY <1>0, <1>4, NewStateFields, InitRestartCounterFields, SendTerminateReqFields,
     LayerDownFields, UnConfigureFields, FsmAssumption
<1>5. CASE f.state \in Negotiating
  BY <1>0, <1>5, NewStateFields, InitRestartCounterFields, SendTerminateReqFields,
     UnConfigureFields, FsmAssumption
<1>6. CASE f.state \in {"Initial", "Closed", "Closing"}
  BY <1>0, <1>6
<1>7. QED
  BY <1>0, <1>1, <1>2, <1>3, <1>4, <1>5, <1>6 DEF Fsms

\* FsmUp() ends over a live carrier and keeps the administrator's wish.
LEMMA UpSound ==
  ASSUME NEW f, NEW denied \in BOOLEAN, SoundIn(f, denied), Held(f, denied)
  PROVE  LET g == FsmUp(f) IN
         SoundIn(g, denied) /\ g.state \notin Dead /\ (f.state \in OPEN_STATE <=> g.state \in OPEN_STATE)
<1> USE DEF SoundIn, SoundUntimed, SameLayers, SameCounters, SameTimers,
            OPEN_STATE, Dead, FsmUp
<1>0. f \in Fsms
  OBVIOUS
<1>1. CASE f.state = "Initial"
  BY <1>0, <1>1, NewStateFields
<1>2. CASE f.state = "Starting"
  BY <1>0, <1>2, ConfigureFields, NewStateFields, InitCountersFields,
     SendConfigReqFields, FsmAssumption
<1>3. CASE f.state \notin Dead
  BY <1>0, <1>3 DEF Fsms
<1>4. QED
  BY <1>1, <1>2, <1>3

\* FsmDown() ends over a dead carrier and keeps the administrator's wish.
LEMMA DownSound ==
  ASSUME NEW f, NEW denied \in BOOLEAN, SoundIn(f, denied), Held(f, denied)
  PROVE  LET g == FsmDown(f) IN
         SoundIn(g, denied) /\ g.state \in Dead /\ (f.state \in OPEN_STATE <=> g.state \in OPEN_STATE)
<1> USE DEF SoundIn, SoundUntimed, SameLayers, SameCounters, SameTimers,
            OPEN_STATE, Dead, FsmDown
<1>0. f \in Fsms
  OBVIOUS
<1>1. CASE f.state = "Closing"
  BY <1>0, <1>1, NewStateFields, LayerFinishFields
<1>2. CASE f.state = "Closed"
  BY <1>0, <1>2, NewStateFields
<1>3. CASE f.state = "Stopped"
  BY <1>0, <1>3, NewStateFields, LayerStartFields
<1>4. CASE f.state \in {"Stopping"} \cup Negotiating
  BY <1>0, <1>4, NewStateFields, UnConfigureFields, SMTT(30)
<1>5. CASE f.state = "Opened"
  BY <1>0, <1>5, NewStateFields, LayerDownFields, UnConfigureFields
<1>6. CASE f.state \in Dead
  BY <1>0, <1>6
<1>7. QED
  BY <1>0, <1>1, <1>2, <1>3, <1>4, <1>5, <1>6 DEF Fsms

\* FsmTimeout(), whose timer has just gone off.
LEMMA TimeoutSound ==
  ASSUME NEW f, NEW denied \in BOOLEAN, SoundIn(f, denied), Held(f, denied), f.timer
  PROVE  SoundIn(FsmTimeout(f), denied) /\ SameMode(f, FsmTimeout(f))
<1> DEFINE g == [f EXCEPT !.timer = FALSE]
<1>1. /\ g \in Fsms /\ g.state = f.state /\ ~g.timer /\ (g.echo <=> f.echo)
      /\ SameLayers(f, g) /\ SameCounters(f, g)
  BY DEF SoundIn, SoundUntimed, Fsms, SameLayers, SameCounters
<1>2. SoundUntimed(g, denied) /\ f.state \in Waiting
  BY <1>1 DEF SoundIn, SoundUntimed, SameLayers, SameCounters
<1> HIDE DEF g
<1>3. CASE g.restart > 0 /\ g.state \in Terminating
  <2>1. FsmTimeout(f) = SendTerminateReq(g)
    BY <1>3 DEF FsmTimeout, g
  <2>2. QED
    BY <1>1, <1>2, <1>3, <2>1, SendTerminateReqFields
       DEF SoundIn, SoundUntimed, SameMode, SameLayers, OPEN_STATE, Dead
<1>4. CASE g.restart > 0 /\ g.state \in {"ReqSent", "AckSent"}
  <2>1. FsmTimeout(f) = SendConfigReq(g)
    BY <1>4 DEF FsmTimeout, g
  <2>2. g.config > -MaxConfig /\ g.config \in Int /\ g.restart \in Int
    BY <1>2, <1>4, FsmAssumption DEF SoundUntimed, Fsms
  <2>3. QED
    BY <1>1, <1>2, <1>4, <2>1, <2>2, SendConfigReqFields, FsmAssumption
       DEF SoundIn, SoundUntimed, SameMode, SameLayers, OPEN_STATE, Dead
<1>5. CASE g.restart > 0 /\ g.state = "AckRcvd"
  <2>1. FsmTimeout(f) = SendConfigReq(NewState(g, "ReqSent"))
    BY <1>5 DEF FsmTimeout, g
  <2>2. QED
    BY <1>1, <1>2, <1>5, <2>1, NewStateFields, SendConfigReqFields, FsmAssumption
       DEF SoundIn, SoundUntimed, SameMode, SameLayers, SameCounters, OPEN_STATE, Dead
<1>6. CASE ~(g.restart > 0) /\ g.state = "Closing"
  <2>1. FsmTimeout(f) = LayerFinish(NewState(g, "Closed"))
    BY <1>6 DEF FsmTimeout, g
  <2>2. QED
    BY <1>1, <1>2, <1>6, <2>1, NewStateFields, LayerFinishFields
       DEF SoundIn, SoundUntimed, SameMode, SameLayers, SameCounters, SameTimers,
           OPEN_STATE, Dead
<1>7. CASE ~(g.restart > 0) /\ g.state = "Stopping"
  <2>1. FsmTimeout(f) = LayerFinish(NewState(g, "Stopped"))
    BY <1>7 DEF FsmTimeout, g
  <2>2. QED
    BY <1>1, <1>2, <1>7, <2>1, NewStateFields, LayerFinishFields
       DEF SoundIn, SoundUntimed, SameMode, SameLayers, SameCounters, SameTimers,
           OPEN_STATE, Dead
<1>8. CASE ~(g.restart > 0) /\ g.state \in Negotiating
  <2>1. FsmTimeout(f) = FsmFailure(g)
    BY <1>8 DEF FsmTimeout, g
  <2>2. QED
    BY <1>1, <1>2, <2>1, FailureSound DEF SameMode
<1>9. QED
  BY <1>1, <1>2, <1>3, <1>4, <1>5, <1>6, <1>7, <1>8

\* FsmEchoTimeout(), which runs in Opened only.
LEMMA EchoTimeoutSound ==
  ASSUME NEW f, NEW denied \in BOOLEAN, SoundIn(f, denied), Held(f, denied),
         f.echo, NEW traffic \in BOOLEAN
  PROVE  LET g == FsmEchoTimeout(f, traffic) IN SoundIn(g, denied) /\ SameMode(f, g)
<1> DEFINE g == [f EXCEPT !.quiet = IF traffic THEN 0 ELSE f.quiet + 1]
           h == [g EXCEPT !.echo = FALSE]
<1>1. f.state = "Opened" /\ f \in Fsms
  BY DEF SoundIn, SoundUntimed
<1>2. (IF traffic THEN 0 ELSE f.quiet + 1) \in Nat
  BY <1>1 DEF Fsms
<1>3. /\ g \in Fsms /\ g.state = f.state
      /\ SameLayers(f, g) /\ SameCounters(f, g) /\ SameTimers(f, g)
  BY <1>1, <1>2 DEF Fsms, SameLayers, SameCounters, SameTimers
<1>4. FsmEchoTimeout(f, traffic) = IF EchoOverdue(g.quiet) THEN FsmFailure(h) ELSE g
  BY DEF FsmEchoTimeout
<1> HIDE DEF g
<1>5. /\ h \in Fsms /\ h.state = "Opened"
      /\ ~denied => h.started
      /\ denied => (h.started <=> Passive)
  BY <1>1, <1>3 DEF Fsms, SameLayers, SoundIn, SoundUntimed
<1> HIDE DEF h
<1>6. SoundIn(FsmFailure(h), denied) /\ SameMode(f, FsmFailure(h))
  BY <1>1, <1>5, FailureSound DEF SameMode
<1>7. SoundIn(g, denied) /\ SameMode(f, g)
  BY <1>3 DEF SoundIn, SoundUntimed, SameMode, SameLayers, SameCounters, SameTimers
<1>8. QED
  BY <1>4, <1>6, <1>7

\* What the refused opening leaves: everything FsmFailure() took is gone, the state is
\* Opened.
LEMMA RefusedFields ==
  ASSUME NEW f \in Fsms, f.state \in Negotiating, f.started \/ ~Passive
  PROVE  LET g == NewStateOpened(f, FALSE) IN
         /\ g \in Fsms /\ g.state = "Opened" /\ SameCounters(f, g)
         /\ (g.up <=> f.up) /\ ~g.configured /\ (g.started <=> Passive)
         /\ ~g.timer
         /\ EchoLimit # 0 => g.echo
         /\ EchoLimit = 0 => (g.echo <=> f.echo)
<1> DEFINE s == NewState(f, "Stopped")
           l == IF Passive THEN s ELSE LayerFinish(s)
           u == UnConfigure(l)
<1>1. NewStateOpened(f, FALSE) = NewState(u, "Opened")
  BY DEF NewStateOpened, FsmFailure
<1>2. /\ s \in Fsms /\ s.state = "Stopped" /\ SameLayers(f, s) /\ SameCounters(f, s)
      /\ s.echo <=> f.echo
  BY NewStateFields
<1> HIDE DEF s
<1>3. /\ l \in Fsms /\ l.state = "Stopped" /\ SameCounters(f, l)
      /\ (l.echo <=> f.echo) /\ (l.up <=> f.up) /\ (l.started <=> Passive)
  BY <1>2, LayerFinishFields, FsmAssumption DEF SameLayers, SameCounters, SameTimers
<1> HIDE DEF l
<1>4. /\ u \in Fsms /\ u.state = "Stopped" /\ SameCounters(f, u)
      /\ (u.echo <=> f.echo) /\ (u.up <=> f.up) /\ (u.started <=> Passive) /\ ~u.configured
  BY <1>3, UnConfigureFields DEF SameCounters, SameTimers
<1> HIDE DEF u
<1> DEFINE n == NewState(u, "Opened")
<1>5. /\ n \in Fsms /\ n.state = "Opened" /\ SameLayers(u, n) /\ SameCounters(u, n)
      /\ ~n.timer
      /\ EchoLimit # 0 => n.echo
      /\ EchoLimit = 0 => (n.echo <=> u.echo)
  BY <1>4, NewStateFields
<1> HIDE DEF n
<1>6. NewStateOpened(f, FALSE) = n
  BY <1>1 DEF n
<1>7. /\ n.up <=> f.up
      /\ ~n.configured
      /\ n.started <=> Passive
      /\ EchoLimit = 0 => (n.echo <=> f.echo)
  BY <1>4, <1>5 DEF SameLayers
<1>8. SameCounters(f, n)
  BY <1>4, <1>5 DEF SameCounters
<1> QED
  BY <1>5, <1>6, <1>7, <1>8

\* The handler that answered turned an opening into a refused one.
Refusing(f, g, joins) == f.state \in Negotiating /\ g.state = "Opened" /\ ~joins

Answered(f, g, joins, denied) ==
  IF Refusing(f, g, joins) THEN SoundIn(g, TRUE) ELSE SoundIn(g, denied)

\* FsmRecvConfigReq(), through the struct in the middle of a reopened negotiation.
LEMMA ConfigReqSound ==
  ASSUME NEW f, NEW denied \in BOOLEAN, SoundIn(f, denied), Held(f, denied),
         NEW id \in Ids, NEW v \in Verdicts, NEW joins \in BOOLEAN
  PROVE  LET g == RecvConfigReq(f, id, v, joins) IN
         Answered(f, g, joins, denied) /\ SameMode(f, g)
<1> USE DEF Answered, Refusing
<1> DEFINE m == ReopenNegotiation(f)
<1>0. f \in Fsms
  BY DEF SoundIn, SoundUntimed
<1>1. CASE f.state \in {"Initial", "Starting"} \cup Terminating
  BY <1>1 DEF RecvConfigReq, SameMode
<1>2. CASE f.state = "Closed"
  BY <1>0, <1>2, SendTerminateAckFields
     DEF RecvConfigReq, SoundIn, SoundUntimed, SameMode, SameLayers, SameCounters, SameTimers
<1>3. ASSUME f.state \in {"Stopped", "Opened"} \cup Negotiating
      PROVE  LET g == AnswerConfigReq(m, id, v, joins) IN
             Answered(f, g, joins, denied) /\ SameMode(f, g)
  <2>1. /\ m \in Fsms /\ m.state = f.state /\ m.timer
        /\ m.state = "Stopped" => m.started
        /\ ~denied => m.started /\ m.configured
        /\ denied => (m.started <=> Passive)
        /\ ~m.echo \/ (m.state = "Opened" /\ EchoLimit # 0)
        /\ m.state = "Stopped" => m.failure = MaxFailure
        /\ m.state \in {"Stopped", "Opened"} =>
             ~m.up /\ m.restart = MaxConfig - 1 /\ m.config = MaxConfig - 1
        /\ m.state \in Negotiating => m = f
    <3>1. CASE f.state = "Opened"
      BY <1>0, <3>1, LayerDownFields, SendConfigReqFields, FsmAssumption
         DEF ReopenNegotiation, SoundIn, SoundUntimed, SameLayers, SameCounters, SameTimers
    <3>2. CASE f.state = "Stopped"
      BY <1>0, <3>2, ConfigureFields, LayerStartFields, InitCountersFields,
         SendConfigReqFields, FsmAssumption
         DEF ReopenNegotiation, SoundIn, SoundUntimed, SameLayers, SameCounters, SameTimers
    <3>3. CASE f.state \in Negotiating
      BY <1>0, <3>3 DEF ReopenNegotiation, SoundIn, SoundUntimed
    <3>4. QED
      BY <1>3, <3>1, <3>2, <3>3
  <2> HIDE DEF m
  <2>2. CASE v = "ConfigAck"
    <3> DEFINE a == SendConfigAck(m, id)
    <3>1. /\ a \in Fsms /\ a.state = m.state
          /\ SameLayers(m, a) /\ SameCounters(m, a) /\ SameTimers(m, a)
      <4>1. "ConfigAck" \in Codes
        BY DEF Codes
      <4>2. QED
        BY <2>1, <4>1, OutputFields DEF SendConfigAck
    <3>2. AnswerConfigReq(m, id, v, joins) = AfterConfigAckSent(a, joins)
      BY <2>2 DEF AnswerConfigReq
    <3> HIDE DEF a
    <3>3. CASE f.state \in {"Stopped", "Opened", "ReqSent"}
      <4>1. AnswerConfigReq(m, id, v, joins) = NewState(a, "AckSent")
        BY <2>1, <3>1, <3>2, <3>3 DEF AfterConfigAckSent
      <4>2. QED
        BY <2>1, <3>1, <3>3, <4>1, NewStateFields, FsmAssumption
           DEF SoundIn, SoundUntimed, SameMode, SameLayers, SameCounters, SameTimers,
               OPEN_STATE, Dead
    <3>4. CASE f.state = "AckRcvd"
      <4> DEFINE n == NewStateOpened(a, joins)
      <4>1. AnswerConfigReq(m, id, v, joins) = LayerUp(n)
        BY <2>1, <3>1, <3>2, <3>4 DEF AfterConfigAckSent
      <4>2. CASE joins
        <5>1. n = NewState(a, "Opened")
          BY <4>2 DEF NewStateOpened
        <5>2. /\ n \in Fsms /\ n.state = "Opened" /\ SameCounters(a, n) /\ SameLayers(a, n)
              /\ ~n.timer
              /\ EchoLimit # 0 => n.echo
              /\ EchoLimit = 0 => (n.echo <=> a.echo)
          BY <3>1, <3>4, <2>1, <5>1, NewStateFields
        <5> HIDE DEF n
        <5>3. LET g == LayerUp(n) IN SoundIn(g, denied) /\ g.state = "Opened"
          BY <2>1, <3>1, <3>4, <5>2, LayerUpFields
             DEF SoundIn, SoundUntimed, SameLayers, SameCounters, SameTimers
        <5>4. QED
          BY <1>0, <2>1, <3>4, <4>1, <4>2, <5>3 DEF SameMode, OPEN_STATE, Dead
      <4>3. CASE ~joins
        <5>1. joins = FALSE
          BY <4>3
        <5>2. a.state \in Negotiating /\ (a.started \/ ~Passive)
          BY <2>1, <3>1, <3>4 DEF SameLayers
        <5>3. /\ n \in Fsms /\ n.state = "Opened" /\ SameCounters(a, n)
              /\ ~n.configured /\ (n.started <=> Passive) /\ ~n.timer
              /\ EchoLimit # 0 => n.echo
              /\ EchoLimit = 0 => (n.echo <=> a.echo)
          BY <3>1, <5>1, <5>2, RefusedFields
        <5> HIDE DEF n
        <5>4. LET g == LayerUp(n) IN SoundIn(g, TRUE) /\ g.state = "Opened"
          BY <2>1, <3>1, <3>4, <5>3, LayerUpFields
             DEF SoundIn, SoundUntimed, SameCounters, SameTimers
        <5>5. QED
          BY <1>0, <2>1, <3>4, <4>1, <4>3, <5>4 DEF SameMode, OPEN_STATE, Dead
      <4>4. QED
        BY <4>2, <4>3
    <3>5. CASE f.state = "AckSent"
      BY <2>1, <3>1, <3>2, <3>5
         DEF AfterConfigAckSent, SoundIn, SoundUntimed, SameMode, SameLayers, SameCounters,
             SameTimers
    <3>6. QED
      BY <1>3, <3>3, <3>4, <3>5
  <2>3. CASE v # "ConfigAck" /\ m.failure <= 0
    <3>1. AnswerConfigReq(m, id, v, joins) = FsmFailure(m)
      BY <2>3 DEF AnswerConfigReq
    <3>2. m.state = "Opened" \/ m = f
      BY <1>3, <2>1, <2>3, FsmAssumption
    <3>3. SoundIn(FsmFailure(m), denied) /\ SameMode(m, FsmFailure(m))
      BY <2>1, <3>2, FailureSound DEF SoundIn
    <3>4. FsmFailure(m).state # "Opened"
      BY <2>1, NewStateFields, LayerFinishFields, UnConfigureFields, LayerDownFields,
         InitRestartCounterFields, SendTerminateReqFields, FsmAssumption DEF FsmFailure
    <3>5. QED
      BY <2>1, <3>1, <3>3, <3>4 DEF SameMode
  <2>4. CASE v # "ConfigAck" /\ m.failure > 0
    <3> DEFINE r == SendConfigRefusal(m, v, id)
    <3>1. /\ r \in Fsms /\ r.state = m.state /\ SameLayers(m, r) /\ SameTimers(m, r)
          /\ r.restart = m.restart /\ r.config = m.config
      BY <2>1, <2>4, SendConfigRefusalFields DEF Verdicts
    <3>2. AnswerConfigReq(m, id, v, joins) = AfterRefusalSent(r)
      BY <2>1, <2>4, FsmAssumption DEF AnswerConfigReq, Fsms
    <3> HIDE DEF r
    <3>3. CASE f.state \in {"Stopped", "Opened", "AckSent"}
      <4>1. AnswerConfigReq(m, id, v, joins) = NewState(r, "ReqSent")
        BY <2>1, <3>1, <3>2, <3>3 DEF AfterRefusalSent
      <4>2. QED
        BY <2>1, <3>1, <3>3, <4>1, NewStateFields, FsmAssumption
           DEF SoundIn, SoundUntimed, SameMode, SameLayers, SameCounters, SameTimers,
               OPEN_STATE, Dead
    <3>4. CASE f.state \in {"ReqSent", "AckRcvd"}
      BY <2>1, <3>1, <3>2, <3>4
         DEF AfterRefusalSent, SoundIn, SoundUntimed, SameMode, SameLayers, SameTimers
    <3>5. QED
      BY <1>3, <3>3, <3>4
  <2>5. m.failure <= 0 \/ m.failure > 0
    BY <2>1, FsmAssumption DEF Fsms
  <2> HIDE DEF Answered
  <2>6. QED
    BY <2>2, <2>3, <2>4, <2>5
<1>4. CASE f.state \in {"Stopped", "Opened"} \cup Negotiating
  BY <1>3, <1>4 DEF RecvConfigReq
<1>5. QED
  BY <1>0, <1>1, <1>2, <1>4 DEF Fsms

\* FsmRecvConfigAck().
LEMMA ConfigAckSound ==
  ASSUME NEW f, NEW denied \in BOOLEAN, SoundIn(f, denied), Held(f, denied),
         NEW id \in Ids, NEW joins \in BOOLEAN
  PROVE  LET g == RecvConfigAck(f, id, joins) IN Answered(f, g, joins, denied) /\ SameMode(f, g)
<1> USE DEF SoundIn, SoundUntimed, SameMode, SameLayers, SameCounters, SameTimers,
            OPEN_STATE, Dead, Answered, Refusing
<1>0. f \in Fsms
  OBVIOUS
<1>1. CASE ~Expected(f, id)
  BY <1>1 DEF RecvConfigAck
<1>2. CASE Expected(f, id) /\ f.state \in {"Closed", "Stopped"}
  BY <1>0, <1>2, SendTerminateAckFields DEF RecvConfigAck
<1>3. CASE Expected(f, id) /\ f.state = "ReqSent"
  <2> DEFINE g == InitCounters(NewState(f, "AckRcvd"))
  <2>1. /\ g \in Fsms /\ g.state = "AckRcvd" /\ SameLayers(f, g) /\ ~g.echo
        /\ g.restart = MaxConfig /\ g.config = MaxConfig
    BY <1>0, <1>3, NewStateFields, InitCountersFields
  <2>2. RecvConfigAck(f, id, joins) = [g EXCEPT !.timer = TRUE]
    BY <1>3 DEF RecvConfigAck
  <2> HIDE DEF g
  <2> DEFINE h == [g EXCEPT !.timer = TRUE]
  <2>3. /\ h \in Fsms /\ h.state = "AckRcvd" /\ SameLayers(g, h) /\ h.timer /\ ~h.echo
        /\ h.restart = MaxConfig /\ h.config = MaxConfig
    BY <2>1 DEF Fsms
  <2> HIDE DEF h
  <2>4. SoundIn(h, denied) /\ SameMode(f, h)
    BY <1>0, <1>3, <2>1, <2>3, FsmAssumption
  <2>5. QED
    BY <2>2, <2>4 DEF h
<1>4. CASE Expected(f, id) /\ f.state = "AckRcvd"
  <2>1. RecvConfigAck(f, id, joins) = SendConfigReq(NewState(f, "ReqSent"))
    BY <1>4 DEF RecvConfigAck
  <2>2. QED
    BY <1>0, <1>4, <2>1, NewStateFields, SendConfigReqFields, FsmAssumption
<1>5. CASE Expected(f, id) /\ f.state = "AckSent"
  <2> DEFINE n == NewStateOpened(f, joins)
  <2>1. RecvConfigAck(f, id, joins) = LayerUp(InitCounters(n))
    BY <1>5 DEF RecvConfigAck
  <2>2. CASE joins
    <3>1. n = NewState(f, "Opened")
      BY <2>2 DEF NewStateOpened
    <3>2. /\ n \in Fsms /\ n.state = "Opened" /\ SameLayers(f, n)
          /\ ~n.timer
          /\ n.echo <=> EchoLimit # 0
      BY <1>0, <1>5, <3>1, NewStateFields
    <3> HIDE DEF n
    <3>3. LET g == LayerUp(InitCounters(n)) IN SoundIn(g, denied) /\ g.state = "Opened"
      BY <1>0, <1>5, <3>2, InitCountersFields, LayerUpFields
    <3>4. QED
      BY <1>0, <1>5, <2>1, <2>2, <3>3
  <2>3. CASE ~joins
    <3>1. joins = FALSE
      BY <2>3
    <3>2. f.state \in Negotiating /\ (f.started \/ ~Passive)
      BY <1>5
    <3>3. /\ n \in Fsms /\ n.state = "Opened"
          /\ ~n.configured /\ (n.started <=> Passive) /\ ~n.timer
          /\ n.echo <=> EchoLimit # 0
      BY <1>0, <1>5, <3>1, <3>2, RefusedFields
    <3> HIDE DEF n
    <3>4. LET g == LayerUp(InitCounters(n)) IN SoundIn(g, TRUE) /\ g.state = "Opened"
      BY <3>3, InitCountersFields, LayerUpFields
    <3>5. QED
      BY <1>0, <1>5, <2>1, <2>3, <3>4
  <2>4. QED
    BY <2>2, <2>3
<1>6. CASE Expected(f, id) /\ f.state = "Opened"
  <2>1. RecvConfigAck(f, id, joins) = SendConfigReq(LayerDown(NewState(f, "ReqSent")))
    BY <1>6 DEF RecvConfigAck
  <2>2. QED
    BY <1>0, <1>6, <2>1, NewStateFields, LayerDownFields, SendConfigReqFields, FsmAssumption
<1>7. CASE Expected(f, id) /\ f.state \in {"Initial", "Starting"} \cup Terminating
  BY <1>0, <1>7 DEF RecvConfigAck
<1>8. QED
  BY <1>0, <1>1, <1>2, <1>3, <1>4, <1>5, <1>6, <1>7 DEF Fsms

\* FsmRecvConfigNak() and FsmRecvConfigRej().
LEMMA ConfigRefusalSound ==
  ASSUME NEW f, NEW denied \in BOOLEAN, SoundIn(f, denied), Held(f, denied),
         NEW id \in Ids
  PROVE  LET g == RecvConfigRefusal(f, id) IN SoundIn(g, denied) /\ SameMode(f, g)
<1> USE DEF SoundIn, SoundUntimed, SameMode, SameLayers, SameCounters, SameTimers,
            OPEN_STATE, Dead
<1>0. f \in Fsms /\ f.config \in Int
  BY DEF Fsms
<1>1. CASE ~Expected(f, id)
  BY <1>1 DEF RecvConfigRefusal
<1>2. CASE Expected(f, id) /\ f.state \in {"Closed", "Stopped"}
  BY <1>0, <1>2, SendTerminateAckFields DEF RecvConfigRefusal
<1>3. CASE Expected(f, id) /\ f.state \in Negotiating \cup {"Opened"} /\ f.config <= 0
  <2>1. RecvConfigRefusal(f, id) = FsmFailure(f)
    BY <1>0, <1>3 DEF RecvConfigRefusal
  <2>2. QED
    BY <2>1, FailureSound
<1>4. CASE Expected(f, id) /\ f.state \in {"ReqSent", "AckSent"} /\ f.config > 0
  <2>1. RecvConfigRefusal(f, id) = SendConfigReq(InitRestartCounter(f, MaxConfig))
    BY <1>0, <1>4 DEF RecvConfigRefusal
  <2>2. QED
    BY <1>0, <1>4, <2>1, InitRestartCounterFields, SendConfigReqFields, FsmAssumption
<1>5. CASE Expected(f, id) /\ f.state = "AckRcvd" /\ f.config > 0
  <2>1. RecvConfigRefusal(f, id) = SendConfigReq(NewState(f, "ReqSent"))
    BY <1>0, <1>5 DEF RecvConfigRefusal
  <2>2. QED
    BY <1>0, <1>5, <2>1, NewStateFields, SendConfigReqFields, FsmAssumption
<1>6. CASE Expected(f, id) /\ f.state = "Opened" /\ f.config > 0
  <2>1. RecvConfigRefusal(f, id) = SendConfigReq(NewState(LayerDown(f), "ReqSent"))
    BY <1>0, <1>6 DEF RecvConfigRefusal
  <2>2. QED
    BY <1>0, <1>6, <2>1, LayerDownFields, NewStateFields, SendConfigReqFields, FsmAssumption
<1>7. CASE Expected(f, id) /\ f.state \in {"Initial", "Starting"} \cup Terminating
  BY <1>0, <1>7 DEF RecvConfigRefusal
<1>8. QED
  <2>1. f.config <= 0 \/ f.config > 0
    BY ONLY <1>0
  <2>2. f.state \in {"Initial", "Starting", "Closed", "Stopped", "Opened", "ReqSent", "AckRcvd", "AckSent"}
                     \cup Terminating
    BY ONLY <1>0 DEF Fsms, States, Waiting, Negotiating
  <2>3. {"ReqSent", "AckRcvd", "AckSent"} = Negotiating
    BY DEF Negotiating
  <2> QED
    BY <1>1, <1>2, <1>3, <1>4, <1>5, <1>6, <1>7, <2>1, <2>2, <2>3

\* FsmRecvTermReq().
LEMMA TermReqSound ==
  ASSUME NEW f, NEW denied \in BOOLEAN, SoundIn(f, denied), Held(f, denied)
  PROVE  SoundIn(RecvTermReq(f), denied) /\ SameMode(f, RecvTermReq(f))
<1> USE DEF SoundIn, SoundUntimed, SameMode, SameLayers, SameCounters, SameTimers,
            OPEN_STATE, Dead
<1>0. f \in Fsms
  OBVIOUS
<1>1. CASE f.state \in {"Initial", "Starting"}
  BY <1>1 DEF RecvTermReq
<1>2. CASE f.state \in {"Closed", "Stopped", "ReqSent"} \cup Terminating
  BY <1>0, <1>2, SendTerminateAckFields DEF RecvTermReq
<1>3. CASE f.state \in {"AckRcvd", "AckSent"}
  <2>1. RecvTermReq(f) = SendTerminateAck(NewState(f, "ReqSent"))
    BY <1>3 DEF RecvTermReq
  <2>2. QED
    BY <1>0, <1>3, <2>1, NewStateFields, SendTerminateAckFields, FsmAssumption
<1>4. CASE f.state = "Opened"
  <2> DEFINE g == InitRestartCounter(
                    LayerDown(SendTerminateAck(NewState(f, "Stopping"))), 0)
             h == [g EXCEPT !.timer = TRUE]
  <2>1. RecvTermReq(f) = UnConfigure(h)
    BY <1>4 DEF RecvTermReq
  <2>2. /\ g \in Fsms /\ g.state = "Stopping" /\ ~g.up /\ (g.started <=> f.started) /\ ~g.echo
    BY <1>0, <1>4, NewStateFields, SendTerminateAckFields, LayerDownFields,
       InitRestartCounterFields
  <2> HIDE DEF g
  <2>3. /\ h \in Fsms /\ h.state = "Stopping" /\ ~h.up /\ (h.started <=> f.started) /\ ~h.echo /\ h.timer
    BY <2>2 DEF Fsms
  <2> HIDE DEF h
  <2>4. QED
    BY <1>0, <1>4, <2>1, <2>3, UnConfigureFields
<1>5. QED
  BY <1>0, <1>1, <1>2, <1>3, <1>4 DEF Fsms

\* FsmRecvTermAck().
LEMMA TermAckSound ==
  ASSUME NEW f, NEW denied \in BOOLEAN, SoundIn(f, denied), Held(f, denied)
  PROVE  SoundIn(RecvTermAck(f), denied) /\ SameMode(f, RecvTermAck(f))
<1> USE DEF SoundIn, SoundUntimed, SameMode, SameLayers, SameCounters, SameTimers,
            OPEN_STATE, Dead, RecvTermAck
<1>0. f \in Fsms
  OBVIOUS
<1>1. CASE f.state = "Closing"
  BY <1>0, <1>1, NewStateFields, LayerFinishFields
<1>2. CASE f.state = "Stopping"
  BY <1>0, <1>2, NewStateFields, LayerFinishFields
<1>3. CASE f.state = "AckRcvd"
  BY <1>0, <1>3, NewStateFields, FsmAssumption
<1>4. CASE f.state = "Opened"
  BY <1>0, <1>4, NewStateFields, LayerDownFields, SendConfigReqFields, FsmAssumption
<1>5. CASE f.state \notin {"Closing", "Stopping", "AckRcvd", "Opened"}
  BY <1>0, <1>5 DEF Fsms
<1>6. QED
  BY <1>1, <1>2, <1>3, <1>4, <1>5

\* FsmRecvRxjPlus().
LEMMA RxjPlusSound ==
  ASSUME NEW f, NEW denied \in BOOLEAN, SoundIn(f, denied), Held(f, denied)
  PROVE  SoundIn(RecvRxjPlus(f), denied) /\ SameMode(f, RecvRxjPlus(f))
  BY NewStateFields, FsmAssumption
     DEF RecvRxjPlus, SoundIn, SoundUntimed, SameMode, SameLayers, SameCounters,
         OPEN_STATE, Dead

----------------------------------------------------------------------------
(* The inductive invariant and its consequences. *)

IInv ==
  /\ SoundIn(fsm, refused) /\ Held(fsm, refused)
  /\ refused \in BOOLEAN
  /\ wanted \in BOOLEAN /\ carrier \in BOOLEAN
  /\ StateRemembersEvents

\* The struct FsmInit() leaves is sound.
LEMMA InitSound == SoundIn(FsmInit, FALSE)
<1>1. << >> \in Seq(Packets)
  OBVIOUS
<1>2. 1 \in Ids
  BY FsmAssumption DEF Ids
<1>3. 0 \in 0 .. (MaxConfig + MaxTerminate) /\ 0 \in 0 .. MaxFailure
      /\ 0 \in (-MaxConfig) .. MaxConfig
  BY FsmAssumption
<1>4. FsmInit \in Fsms
  BY <1>1, <1>2, <1>3 DEF FsmInit, Fsms
<1>5. QED
  BY <1>4 DEF FsmInit, SoundIn, SoundUntimed

\* Begin() keeps a struct sound: it only forgets what the last handler sent.
LEMMA BeginSound ==
  ASSUME NEW f, NEW denied \in BOOLEAN, SoundIn(f, denied), Held(f, denied)
  PROVE  /\ SoundIn(Begin(f), denied) /\ SameMode(f, Begin(f))
         /\ Begin(f).timer <=> f.timer
         /\ Begin(f).echo <=> f.echo
  BY BeginFields DEF SoundIn, SoundUntimed, SameMode, SameLayers, SameCounters, SameTimers

\* An automaton that was never refused, or came to rest since.
Sound(f) == SoundIn(f, FALSE)

\* What the handlers preserve, for an automaton that is never refused.
LEMMA PlainSound ==
  ASSUME NEW f, Sound(f)
  PROVE  /\ Sound(FsmOpen(f)) /\ Sound(FsmClose(f)) /\ Sound(FsmUp(f)) /\ Sound(FsmDown(f))
         /\ f.timer => Sound(FsmTimeout(f))
         /\ \A id \in Ids, v \in Verdicts : Sound(RecvConfigReq(f, id, v, TRUE))
         /\ \A id \in Ids : Sound(RecvConfigAck(f, id, TRUE)) /\ Sound(RecvConfigRefusal(f, id))
         /\ Sound(RecvTermReq(f)) /\ Sound(RecvTermAck(f))
<1>0. SoundIn(f, FALSE) /\ Held(f, FALSE)
  BY DEF Sound
<1>1. Sound(FsmOpen(f)) /\ Sound(FsmClose(f)) /\ Sound(FsmUp(f)) /\ Sound(FsmDown(f))
  BY <1>0, OpenSound, CloseSound, UpSound, DownSound DEF Sound
<1>2. f.timer => Sound(FsmTimeout(f))
  BY <1>0, TimeoutSound DEF Sound
<1>3. \A id \in Ids, v \in Verdicts : Sound(RecvConfigReq(f, id, v, TRUE))
  BY <1>0, ConfigReqSound DEF Sound, Answered, Refusing
<1>4. \A id \in Ids : Sound(RecvConfigAck(f, id, TRUE)) /\ Sound(RecvConfigRefusal(f, id))
  BY <1>0, ConfigAckSound, ConfigRefusalSound DEF Sound, Answered, Refusing
<1>5. Sound(RecvTermReq(f)) /\ Sound(RecvTermAck(f))
  BY <1>0, TermReqSound, TermAckSound DEF Sound
<1>6. QED
  BY <1>1, <1>2, <1>3, <1>4, <1>5

\* What Begin() leaves for the next handler.
LEMMA BeginAgain ==
  ASSUME NEW f, Sound(f)
  PROVE  /\ Sound(Begin(f)) /\ Begin(f) \in Fsms /\ Begin(f).out = << >>
         /\ Begin(f).up = f.up /\ Begin(f).configured = f.configured
<1>1. f \in Fsms
  BY DEF Sound, SoundIn, SoundUntimed
<1>2. Sound(Begin(f))
  BY BeginSound DEF Sound
<1>3. Begin(f).out = << >> /\ Begin(f).up = f.up /\ Begin(f).configured = f.configured
  BY <1>1 DEF Begin, Fsms
<1> QED
  BY <1>1, <1>2, <1>3, BeginFields

\* The invariant holds of every behaviour of the automaton, whatever the limits,
\* the identifier width and the passive option.
THEOREM Invariance == Spec => []IInv
<1>1. Init => IInv
  <2> SUFFICES ASSUME Init PROVE IInv
    OBVIOUS
  <2>1. fsm.state = "Initial" /\ wanted = FALSE /\ carrier = FALSE /\ refused = FALSE
    BY DEF Init, FsmInit
  <2>2. SoundIn(fsm, refused)
    BY <2>1, InitSound DEF Init
  <2>3. StateRemembersEvents
    BY <2>1 DEF StateRemembersEvents, OPEN_STATE
  <2>4. QED
    BY <2>1, <2>2, <2>3 DEF IInv
<1>2. IInv /\ [Next]_vars => IInv'
  <2> SUFFICES ASSUME IInv, [Next]_vars PROVE IInv'
    OBVIOUS
  <2> USE DEF IInv, StateRemembersEvents, Dead
  <2> DEFINE f == Begin(fsm)
  <2>0. /\ SoundIn(f, refused) /\ Held(f, refused) /\ SameMode(fsm, f)
        /\ f.state = fsm.state
        /\ f.timer <=> fsm.timer
        /\ f.echo <=> fsm.echo
    BY BeginSound, BeginFields DEF SoundIn, SoundUntimed
  <2> HIDE DEF f
  <2>b. ASSUME NEW g, Becomes(g), SoundIn(g, refused)
        PROVE  /\ SoundIn(fsm', refused') /\ Held(fsm', refused')
               /\ refused' \in BOOLEAN /\ fsm' = g
    <3>1. CASE g.state \in AtRest
      <4>1. refused' = FALSE
        BY <2>b, <3>1 DEF Becomes
      <4>2. SoundIn(g, FALSE)
        BY <2>b, <3>1 DEF SoundIn, SoundUntimed
      <4>3. QED
        BY <2>b, <4>1, <4>2 DEF Becomes
    <3>2. CASE g.state \notin AtRest
      <4>1. refused' = refused
        BY <2>b, <3>2 DEF Becomes
      <4>2. QED
        BY <2>b, <3>2, <4>1 DEF Becomes
    <3>3. QED
      BY <3>1, <3>2
  <2>a. ASSUME NEW g, Handle(g), SoundIn(g, refused), SameMode(f, g) PROVE IInv'
    BY <2>0, <2>a, <2>b DEF Handle, SameMode
  <2>c. ASSUME NEW g, NEW joins \in BOOLEAN, Answer(g, joins),
               Answered(f, g, joins, refused), SameMode(f, g)
        PROVE  IInv'
    <3>1. CASE Refusing(f, g, joins)
      <4>1. refused' = TRUE /\ fsm' = g /\ g.state \notin AtRest
        BY <2>0, <2>c, <3>1 DEF Answer, Refusing
      <4>2. SoundIn(g, TRUE)
        BY <2>c, <3>1 DEF Answered
      <4>3. QED
        BY <2>0, <2>c, <4>1, <4>2 DEF Answer, SameMode
    <3>2. CASE ~Refusing(f, g, joins)
      <4>1. Handle(g)
        BY <2>0, <2>c, <3>2 DEF Answer, Refusing, Handle, Becomes
      <4>2. SoundIn(g, refused)
        BY <2>c, <3>2 DEF Answered
      <4>3. QED
        BY <2>a, <2>c, <4>1, <4>2
    <3>3. QED
      BY <3>1, <3>2
  <2>1. CASE Open
    <3>1. /\ Becomes(FsmOpen(f)) /\ SoundIn(FsmOpen(f), refused)
      BY <2>0, <2>1, OpenSound DEF Open, f
    <3>2. /\ FsmOpen(f).state \in OPEN_STATE
          /\ f.state \in Dead <=> FsmOpen(f).state \in Dead
      BY <2>0, OpenSound
    <3>3. fsm' = FsmOpen(f)
      BY <3>1 DEF Becomes
    <3> HIDE DEF Dead
    <3>4. StateRemembersEvents'
      BY <2>0, <2>1, <3>2, <3>3 DEF Open, SameMode, Dead
    <3>5. QED
      BY <2>1, <2>b, <3>1, <3>4 DEF Open
  <2>2. CASE Close
    <3>1. /\ Becomes(FsmClose(f)) /\ SoundIn(FsmClose(f), refused)
      BY <2>0, <2>2, CloseSound DEF Close, f
    <3>2. /\ FsmClose(f).state \notin OPEN_STATE
          /\ f.state \in Dead <=> FsmClose(f).state \in Dead
      BY <2>0, CloseSound
    <3>3. fsm' = FsmClose(f)
      BY <3>1 DEF Becomes
    <3> HIDE DEF Dead
    <3>4. StateRemembersEvents'
      BY <2>0, <2>2, <3>2, <3>3 DEF Close, SameMode, Dead
    <3>5. QED
      BY <2>2, <2>b, <3>1, <3>4 DEF Close
  <2>3. CASE Up
    <3>1. /\ Becomes(FsmUp(f)) /\ SoundIn(FsmUp(f), refused)
      BY <2>0, <2>3, UpSound DEF Up, f
    <3>2. /\ FsmUp(f).state \notin Dead
          /\ f.state \in OPEN_STATE <=> FsmUp(f).state \in OPEN_STATE
      BY <2>0, UpSound
    <3>3. fsm' = FsmUp(f)
      BY <3>1 DEF Becomes
    <3>4. StateRemembersEvents'
      BY <2>0, <2>3, <3>2, <3>3 DEF Up, SameMode
    <3>5. QED
      BY <2>3, <2>b, <3>1, <3>4 DEF Up
  <2>4. CASE Down
    <3>1. /\ Becomes(FsmDown(f)) /\ SoundIn(FsmDown(f), refused)
      BY <2>0, <2>4, DownSound DEF Down, f
    <3>2. /\ FsmDown(f).state \in Dead
          /\ f.state \in OPEN_STATE <=> FsmDown(f).state \in OPEN_STATE
      BY <2>0, DownSound
    <3>3. fsm' = FsmDown(f)
      BY <3>1 DEF Becomes
    <3>4. StateRemembersEvents'
      BY <2>0, <2>4, <3>2, <3>3 DEF Down, SameMode
    <3>5. QED
      BY <2>4, <2>b, <3>1, <3>4 DEF Down
  <2>5. CASE Timeout
    BY <2>0, <2>a, <2>5, TimeoutSound DEF Timeout, f
  <2>6. CASE EchoTimeout
    <3>1. PICK traffic \in BOOLEAN :
            fsm.echo /\ Handle(FsmEchoTimeout(f, traffic))
      BY <2>6 DEF EchoTimeout, f
    <3>2. QED
      BY <2>0, <2>a, <3>1, EchoTimeoutSound
  <2>7. CASE Failure
    <3>1. SoundIn(FsmFailure(f), refused) /\ SameMode(f, FsmFailure(f))
      BY <2>0, FailureSound DEF SoundIn
    <3>2. QED
      BY <2>a, <2>7, <3>1 DEF Failure, f
  <2>8. CASE ConfigReq
    <3>1. PICK id \in Ids, v \in Verdicts, joins \in BOOLEAN :
            Answer(RecvConfigReq(f, id, v, joins), joins)
      BY <2>8 DEF ConfigReq, f
    <3>2. QED
      BY <2>0, <2>c, <3>1, ConfigReqSound
  <2>9. CASE ConfigAck
    <3>1. PICK id \in Ids, joins \in BOOLEAN : Answer(RecvConfigAck(f, id, joins), joins)
      BY <2>9 DEF ConfigAck, f
    <3>2. QED
      BY <2>0, <2>c, <3>1, ConfigAckSound
  <2>10. CASE ConfigNakOrRej
    <3>1. PICK id \in Ids : Handle(RecvConfigRefusal(f, id))
      BY <2>10 DEF ConfigNakOrRej, f
    <3>2. QED
      BY <2>0, <2>a, <3>1, ConfigRefusalSound
  <2>11. CASE TermReq
    BY <2>0, <2>a, <2>11, TermReqSound DEF TermReq, f
  <2>12. CASE TermAck
    BY <2>0, <2>a, <2>12, TermAckSound DEF TermAck, f
  <2>13. CASE RxjPlus
    BY <2>0, <2>a, <2>13, RxjPlusSound DEF RxjPlus, f
  <2>14. CASE UNCHANGED vars
    BY <2>14 DEF vars
  <2>15. QED
    BY <2>1, <2>2, <2>3, <2>4, <2>5, <2>6, <2>7, <2>8, <2>9, <2>10, <2>11, <2>12,
       <2>13, <2>14 DEF Next
<1>3. QED
  BY <1>1, <1>2, PTL DEF Spec

\* The struct always has its type.
THEOREM TypeCorrect == Spec => []TypeOK
<1>1. IInv => TypeOK
  BY DEF IInv, TypeOK, SoundIn, SoundUntimed
<1>2. QED
  BY <1>1, Invariance, PTL

\* No state of the automaton waits for the peer without a running restart timer, and
\* the keep-alive timer runs in Opened and nowhere else.
THEOREM TimersAlwaysMatch == Spec => []TimersMatchState
<1>1. IInv => TimersMatchState
  BY DEF IInv, TimersMatchState, SoundIn, SoundUntimed
<1>2. QED
  BY <1>1, Invariance, PTL

\* The layer above is up exactly in Opened, and the lower layer is held while it is
\* needed and released when it is not.
THEOREM LayersAlwaysAgree == Spec => []LayersAgree
<1>1. IInv => LayersAgree
  BY DEF IInv, LayersAgree, SoundIn, SoundUntimed
<1>2. QED
  BY <1>1, Invariance, PTL

\* OPEN_STATE() always tells what the administrator asked for last, and the
\* automaton knows whether the layer below is up.
THEOREM EventsAlwaysRemembered == Spec => []StateRemembersEvents
<1>1. IInv => StateRemembersEvents
  BY DEF IInv, StateRemembersEvents
<1>2. QED
  BY <1>1, Invariance, PTL

\* The retransmission counters stay within their budgets.
THEOREM CountersAlwaysBounded == Spec => []CountersBounded
<1>1. IInv => CountersBounded
  BY FsmAssumption DEF IInv, CountersBounded, SoundIn, SoundUntimed, Fsms
<1>2. QED
  BY <1>1, Invariance, PTL

----------------------------------------------------------------------------
(* Who is told how often that the layer is down.  Told(f, s, n) says that  *)
(* the state of f is s and that the handler called LayerDown n times.      *)

Told(f, s, n) == {"state", "downs"} \subseteq DOMAIN f /\ f.state = s /\ f.downs = n

\* LayerDown is called once where Opened is left, and nowhere else.
Tells(s, g) ==
  \E t \in States : Told(g, t, IF s = "Opened" /\ t # "Opened" THEN 1 ELSE 0)

\* What the building blocks add to the count.
LEMMA BlocksTold ==
  ASSUME NEW f, NEW s, NEW n \in Nat, Told(f, s, n)
  PROVE  /\ \A t : Told(NewState(f, t), t, n)
         /\ Told(LayerDown(f), s, n + 1)
         /\ Told(LayerUp(f), s, n)
         /\ Told(LayerStart(f), s, n)
         /\ Told(LayerFinish(f), s, n)
         /\ Told(Configure(f), s, n)
         /\ Told(UnConfigure(f), s, n)
         /\ Told(InitCounters(f), s, n)
         /\ \A i : Told(InitRestartCounter(f, i), s, n)
         /\ Told(SendConfigReq(f), s, n)
         /\ Told(SendTerminateReq(f), s, n)
         /\ Told(SendTerminateAck(f), s, n)
         /\ \A i : Told(SendConfigAck(f, i), s, n)
         /\ \A v, i : Told(SendConfigRefusal(f, v, i), s, n)
         /\ \A b : Told([f EXCEPT !.timer = b], s, n)
         /\ \A b : Told([f EXCEPT !.echo = b], s, n)
         /\ \A b : Told([f EXCEPT !.quiet = b], s, n)
<1>1. \A t : Told(NewState(f, t), t, n)
  BY DEF Told, NewState
<1>2. /\ Told(LayerDown(f), s, n + 1) /\ Told(LayerUp(f), s, n) /\ Told(LayerStart(f), s, n)
      /\ Told(LayerFinish(f), s, n) /\ Told(Configure(f), s, n) /\ Told(UnConfigure(f), s, n)
  BY DEF Told, LayerDown, LayerUp, LayerStart, LayerFinish, Configure, UnConfigure
<1>3. Told(InitCounters(f), s, n) /\ \A i : Told(InitRestartCounter(f, i), s, n)
  BY DEF Told, InitCounters, InitRestartCounter
<1>4. /\ Told(SendConfigReq(f), s, n) /\ Told(SendTerminateReq(f), s, n)
      /\ Told(SendTerminateAck(f), s, n)
  BY DEF Told, SendConfigReq, SendTerminateReq, SendTerminateAck, Output
<1>5. /\ \A i : Told(SendConfigAck(f, i), s, n)
      /\ \A v, i : Told(SendConfigRefusal(f, v, i), s, n)
  BY DEF Told, SendConfigAck, SendConfigRefusal, Output
<1>6. /\ \A b : Told([f EXCEPT !.timer = b], s, n)
      /\ \A b : Told([f EXCEPT !.echo = b], s, n)
      /\ \A b : Told([f EXCEPT !.quiet = b], s, n)
  BY DEF Told
<1>7. QED
  BY <1>1, <1>2, <1>3, <1>4, <1>5, <1>6

\* FsmFailure(), after n calls.
LEMMA FailureTold ==
  ASSUME NEW f, NEW s \in States, NEW n \in Nat, Told(f, s, n)
  PROVE  /\ s = "Opened" => Told(FsmFailure(f), "Stopping", n + 1)
         /\ s # "Opened" => \E t \in States \ {"Opened"} : Told(FsmFailure(f), t, n)
<1>0. f.state = s
  BY DEF Told
<1>1. CASE s = "Opened"
  <2> DEFINE a == NewState(f, "Stopping")
             b == InitRestartCounter(a, MaxTerminate)
             c == SendTerminateReq(b)
             d == LayerDown(c)
  <2>1. FsmFailure(f) = UnConfigure(d)
    BY <1>0, <1>1 DEF FsmFailure
  <2>2. Told(a, "Stopping", n)
    BY BlocksTold
  <2> HIDE DEF a
  <2>3. Told(b, "Stopping", n)
    BY <2>2, BlocksTold
  <2> HIDE DEF b
  <2>4. Told(c, "Stopping", n)
    BY <2>3, BlocksTold
  <2> HIDE DEF c
  <2>5. Told(d, "Stopping", n + 1)
    BY <2>4, BlocksTold
  <2> HIDE DEF d
  <2>6. QED
    BY <1>1, <2>1, <2>5, BlocksTold
<1>2. CASE s \in Terminating \cup Negotiating
  <2> DEFINE u == IF s = "Closing" THEN "Closed" ELSE "Stopped"
             a == NewState(f, u)
             b == LayerFinish(a)
  <2>1. \/ FsmFailure(f) = b
        \/ FsmFailure(f) = UnConfigure(IF Passive THEN a ELSE b)
    BY <1>0, <1>2 DEF FsmFailure
  <2>2. Told(a, u, n)
    BY BlocksTold
  <2> HIDE DEF a
  <2>3. Told(b, u, n)
    BY <2>2, BlocksTold
  <2> HIDE DEF b
  <2>4. Told(UnConfigure(a), u, n) /\ Told(UnConfigure(b), u, n)
    BY <2>2, <2>3, BlocksTold
  <2>5. u \in States \ {"Opened"}
    OBVIOUS
  <2> HIDE DEF u
  <2>6. Told(FsmFailure(f), u, n)
    BY <2>1, <2>2, <2>3, <2>4
  <2>7. QED
    BY <1>2, <2>5, <2>6
<1>3. CASE s \in {"Closed", "Stopped", "Initial", "Starting"}
  <2>1. FsmFailure(f) = f \/ FsmFailure(f) = LayerFinish(f)
    BY <1>0, <1>3 DEF FsmFailure
  <2>2. Told(FsmFailure(f), s, n)
    BY <2>1, BlocksTold
  <2>3. QED
    BY <1>3, <2>2
<1>4. QED
  BY <1>1, <1>2, <1>3

\* The events that are not packets, and the restart timer.
LEMMA EventsTold ==
  ASSUME NEW f, NEW s \in States, Told(f, s, 0)
  PROVE  /\ Tells(s, FsmOpen(f)) /\ Tells(s, FsmClose(f)) /\ Tells(s, FsmUp(f))
         /\ Tells(s, FsmDown(f)) /\ Tells(s, FsmFailure(f))
         /\ s # "Opened" => Tells(s, FsmTimeout(f))
<1>0. f.state = s
  BY DEF Told
<1>1. Tells(s, FsmOpen(f))
  <2>1. CASE s = "Initial"
    <3>1. Told(NewState(f, "Starting"), "Starting", 0)
      BY BlocksTold
    <3>2. Told(LayerStart(NewState(f, "Starting")), "Starting", 0)
      BY <3>1, BlocksTold
    <3>3. QED
      BY <1>0, <2>1, <3>2 DEF FsmOpen, Tells
  <2>2. CASE s = "Closed"
    <3> DEFINE a == NewState(Configure(f), "ReqSent")
               b == InitCounters(LayerStart(a))
    <3>1. Told(a, "ReqSent", 0)
      BY BlocksTold
    <3> HIDE DEF a
    <3>2. Told(b, "ReqSent", 0)
      BY <3>1, BlocksTold
    <3> HIDE DEF b
    <3>3. Told(SendConfigReq(b), "ReqSent", 0)
      BY <3>2, BlocksTold
    <3>4. FsmOpen(f) = SendConfigReq(b)
      BY <1>0, <2>2 DEF FsmOpen, a, b
    <3>5. QED
      BY <2>2, <3>3, <3>4 DEF Tells
  <2>3. CASE s = "Closing"
    <3>1. Told(NewState(f, "Stopping"), "Stopping", 0)
      BY BlocksTold
    <3>2. QED
      BY <1>0, <2>3, <3>1 DEF FsmOpen, Tells
  <2>4. CASE s \notin {"Initial", "Closed", "Closing"}
    BY <1>0, <2>4 DEF FsmOpen, Tells
  <2>5. QED
    BY <2>1, <2>2, <2>3, <2>4
<1>2. Tells(s, FsmClose(f))
  <2> DEFINE t == IF s = "Starting" THEN "Initial" ELSE IF s = "Stopped" THEN "Closed" ELSE "Closing"
             a == NewState(f, t)
             b == SendTerminateReq(InitRestartCounter(a, MaxTerminate))
  <2>1. Told(a, t, 0)
    BY BlocksTold
  <2>2. t \in States /\ t # "Opened"
    OBVIOUS
  <2>3. \/ FsmClose(f) = f /\ s # "Opened"
        \/ FsmClose(f) = a /\ s # "Opened"
        \/ FsmClose(f) = LayerFinish(a) /\ s # "Opened"
        \/ FsmClose(f) = UnConfigure(b) /\ s # "Opened"
        \/ FsmClose(f) = UnConfigure(LayerDown(b)) /\ s = "Opened"
    BY <1>0 DEF FsmClose
  <2> HIDE DEF a, t
  <2>4. Told(LayerFinish(a), t, 0) /\ Told(InitRestartCounter(a, MaxTerminate), t, 0)
    BY <2>1, BlocksTold
  <2>5. Told(b, t, 0)
    BY <2>4, BlocksTold
  <2> HIDE DEF b
  <2>6. Told(LayerDown(b), t, 1) /\ Told(UnConfigure(b), t, 0)
    BY <2>5, BlocksTold
  <2>7. Told(UnConfigure(LayerDown(b)), t, 1)
    BY <2>6, BlocksTold
  <2>8. QED
    BY <2>1, <2>2, <2>3, <2>4, <2>6, <2>7 DEF Tells
<1>3. Tells(s, FsmUp(f))
  <2>1. CASE s = "Initial"
    <3>1. Told(NewState(f, "Closed"), "Closed", 0)
      BY BlocksTold
    <3>2. QED
      BY <1>0, <2>1, <3>1 DEF FsmUp, Tells
  <2>2. CASE s = "Starting"
    <3> DEFINE a == NewState(Configure(f), "ReqSent")
               b == InitCounters(a)
    <3>1. Told(a, "ReqSent", 0)
      BY BlocksTold
    <3> HIDE DEF a
    <3>2. Told(b, "ReqSent", 0)
      BY <3>1, BlocksTold
    <3> HIDE DEF b
    <3>3. Told(SendConfigReq(b), "ReqSent", 0)
      BY <3>2, BlocksTold
    <3>4. FsmUp(f) = SendConfigReq(b)
      BY <1>0, <2>2 DEF FsmUp, a, b
    <3>5. QED
      BY <2>2, <3>3, <3>4 DEF Tells
  <2>3. CASE s \notin {"Initial", "Starting"}
    BY <1>0, <2>3 DEF FsmUp, Tells
  <2>4. QED
    BY <2>1, <2>2, <2>3
<1>4. Tells(s, FsmDown(f))
  <2>1. CASE s = "Opened"
    <3> DEFINE a == NewState(f, "Starting")
    <3>1. Told(a, "Starting", 0)
      BY BlocksTold
    <3> HIDE DEF a
    <3>2. Told(LayerDown(a), "Starting", 1)
      BY <3>1, BlocksTold
    <3>3. Told(UnConfigure(LayerDown(a)), "Starting", 1)
      BY <3>2, BlocksTold
    <3>4. FsmDown(f) = UnConfigure(LayerDown(a))
      BY <1>0, <2>1 DEF FsmDown, a
    <3>5. QED
      BY <2>1, <3>3, <3>4 DEF Tells
  <2>2. CASE s # "Opened"
    <3> DEFINE t == IF s \in {"Closing", "Closed"} THEN "Initial" ELSE "Starting"
               a == NewState(f, t)
               b == NewState(LayerFinish(f), t)
    <3>1. Told(a, t, 0)
      BY BlocksTold
    <3>2. Told(LayerFinish(f), s, 0)
      BY BlocksTold
    <3>3. Told(b, t, 0)
      BY <3>2, BlocksTold
    <3>4. FsmDown(f) \in {f, a, b, LayerStart(a), UnConfigure(a)}
      BY <1>0, <2>2 DEF FsmDown
    <3>5. t \in States /\ t # "Opened"
      OBVIOUS
    <3> HIDE DEF a, b, t
    <3>6. Told(LayerStart(a), t, 0) /\ Told(UnConfigure(a), t, 0)
      BY <3>1, BlocksTold
    <3>7. QED
      BY <2>2, <3>1, <3>3, <3>4, <3>5, <3>6 DEF Tells
  <2>3. QED
    BY <2>1, <2>2
<1>5. Tells(s, FsmFailure(f))
  BY FailureTold DEF Tells
<1>6. ASSUME s # "Opened" PROVE Tells(s, FsmTimeout(f))
  <2> DEFINE g == [f EXCEPT !.timer = FALSE]
             t == CASE s = "AckRcvd" /\ g.restart > 0 -> "ReqSent"
                    [] s = "Closing" /\ ~(g.restart > 0) -> "Closed"
                    [] s = "Stopping" /\ ~(g.restart > 0) -> "Stopped"
                    [] OTHER -> s
             a == NewState(g, t)
  <2>1. Told(g, s, 0)
    BY BlocksTold
  <2>2. g.state = s
    BY <2>1 DEF Told
  <2>3. FsmTimeout(f) = FsmFailure(g) \/
        FsmTimeout(f) \in {g, SendTerminateReq(g), SendConfigReq(g), SendConfigReq(a), LayerFinish(a)}
    <3> HIDE DEF g
    <3>1. CASE g.restart > 0
      BY <2>2, <3>1 DEF FsmTimeout, g
    <3>2. CASE ~(g.restart > 0)
      BY <2>2, <3>2 DEF FsmTimeout, g
    <3>3. QED
      BY <3>1, <3>2
  <2>4. t \in States /\ t # "Opened"
    BY <1>6
  <2> HIDE DEF g, t
  <2>5. Told(a, t, 0)
    BY <2>1, BlocksTold
  <2> HIDE DEF a
  <2>6. Told(SendConfigReq(a), t, 0) /\ Told(LayerFinish(a), t, 0)
    BY <2>5, BlocksTold
  <2>7. Told(SendTerminateReq(g), s, 0) /\ Told(SendConfigReq(g), s, 0)
    BY <2>1, BlocksTold
  <2>8. \E u \in States \ {"Opened"} : Told(FsmFailure(g), u, 0)
    BY <1>6, <2>1, FailureTold
  <2>9. QED
    BY <1>6, <2>1, <2>3, <2>4, <2>6, <2>7, <2>8 DEF Tells
<1>7. QED
  BY <1>1, <1>2, <1>3, <1>4, <1>5, <1>6

\* The keep-alive timer, and the packets but Configure-Request.
LEMMA RepliesTold ==
  ASSUME NEW f \in Fsms, NEW s \in States, Told(f, s, 0)
  PROVE  /\ \A traffic \in BOOLEAN : Tells(s, FsmEchoTimeout(f, traffic))
         /\ \A id \in Ids, joins \in BOOLEAN : Tells(s, RecvConfigAck(f, id, joins))
         /\ \A id \in Ids : Tells(s, RecvConfigRefusal(f, id))
         /\ Tells(s, RecvTermReq(f)) /\ Tells(s, RecvTermAck(f)) /\ Tells(s, RecvRxjPlus(f))
<1>0. f.state = s /\ f.config \in Int
  BY DEF Told, Fsms
<1> DEFINE a == NewState(f, "ReqSent")
<1>a. Told(a, "ReqSent", 0)
  BY BlocksTold
<1>b. Told(LayerDown(a), "ReqSent", 1)
  BY <1>a, BlocksTold
<1>c. Told(SendConfigReq(a), "ReqSent", 0) /\ Told(SendConfigReq(LayerDown(a)), "ReqSent", 1)
  BY <1>a, <1>b, BlocksTold
<1>d. Told(SendTerminateAck(f), s, 0)
  BY BlocksTold
<1>e. Tells(s, f) /\ Tells(s, SendTerminateAck(f))
  BY <1>d DEF Tells
<1>1. ASSUME NEW traffic \in BOOLEAN PROVE Tells(s, FsmEchoTimeout(f, traffic))
  <2> DEFINE g == [f EXCEPT !.quiet = IF traffic THEN 0 ELSE f.quiet + 1]
             h == [g EXCEPT !.echo = FALSE]
  <2>1. Told(g, s, 0)
    BY BlocksTold
  <2>2. FsmEchoTimeout(f, traffic) \in {g, FsmFailure(h)}
    BY DEF FsmEchoTimeout
  <2> HIDE DEF g
  <2>3. Told(h, s, 0)
    BY <2>1, BlocksTold
  <2> HIDE DEF h
  <2>4. Tells(s, FsmFailure(h))
    BY <2>3, EventsTold
  <2>5. QED
    BY <2>1, <2>2, <2>4 DEF Tells
<1>2. ASSUME NEW id \in Ids, NEW joins \in BOOLEAN PROVE Tells(s, RecvConfigAck(f, id, joins))
  <2> DEFINE r == InitCounters(NewState(f, "AckRcvd"))
             h == IF joins THEN f ELSE FsmFailure(f)
             n == NewState(h, "Opened")
             c == InitCounters(n)
  <2>1. \/ RecvConfigAck(f, id, joins) \in {f, SendTerminateAck(f)}
        \/ RecvConfigAck(f, id, joins) = [r EXCEPT !.timer = TRUE] /\ s = "ReqSent"
        \/ RecvConfigAck(f, id, joins) = SendConfigReq(a) /\ s = "AckRcvd"
        \/ RecvConfigAck(f, id, joins) = LayerUp(c) /\ s = "AckSent"
        \/ RecvConfigAck(f, id, joins) = SendConfigReq(LayerDown(a)) /\ s = "Opened"
    BY <1>0 DEF RecvConfigAck, NewStateOpened
  <2>2. s = "AckSent" => \E u \in States : Told(h, u, 0)
    BY FailureTold
  <2>3. Told(r, "AckRcvd", 0)
    <3>1. Told(NewState(f, "AckRcvd"), "AckRcvd", 0)
      BY BlocksTold
    <3>2. QED
      BY <3>1, BlocksTold
  <2> HIDE DEF a, r, h
  <2>4. Told([r EXCEPT !.timer = TRUE], "AckRcvd", 0)
    BY <2>3, BlocksTold
  <2>5. s = "AckSent" => Told(n, "Opened", 0)
    BY <2>2, BlocksTold
  <2> HIDE DEF n
  <2>6. s = "AckSent" => Told(c, "Opened", 0)
    BY <2>5, BlocksTold
  <2> HIDE DEF c
  <2>7. s = "AckSent" => Told(LayerUp(c), "Opened", 0)
    BY <2>6, BlocksTold
  <2>8. /\ Tells(s, [r EXCEPT !.timer = TRUE]) \/ s # "ReqSent"
        /\ Tells(s, SendConfigReq(a)) \/ s # "AckRcvd"
        /\ Tells(s, LayerUp(c)) \/ s # "AckSent"
        /\ Tells(s, SendConfigReq(LayerDown(a))) \/ s # "Opened"
    BY <1>c, <2>4, <2>7 DEF Tells
  <2>9. QED
    BY <1>e, <2>1, <2>8
<1>3. ASSUME NEW id \in Ids PROVE Tells(s, RecvConfigRefusal(f, id))
  <2> DEFINE c == InitRestartCounter(f, MaxConfig)
             d == NewState(LayerDown(f), "ReqSent")
  <2>1. \/ RecvConfigRefusal(f, id) \in {f, SendTerminateAck(f), FsmFailure(f)}
        \/ RecvConfigRefusal(f, id) = SendConfigReq(c) /\ s \in {"ReqSent", "AckSent"}
        \/ RecvConfigRefusal(f, id) = SendConfigReq(a) /\ s = "AckRcvd"
        \/ RecvConfigRefusal(f, id) = SendConfigReq(d) /\ s = "Opened"
    BY <1>0 DEF RecvConfigRefusal
  <2>2. Told(c, s, 0)
    BY BlocksTold
  <2>3. Told(d, "ReqSent", 1)
    <3>1. Told(LayerDown(f), s, 0 + 1) /\ 0 + 1 = 1
      BY BlocksTold
    <3>2. Told(LayerDown(f), s, 1) /\ 1 \in Nat
      BY <3>1
    <3>3. QED
      BY <3>2, BlocksTold
  <2> HIDE DEF a, c, d
  <2>4. Told(SendConfigReq(c), s, 0) /\ Told(SendConfigReq(d), "ReqSent", 1)
    BY <2>2, <2>3, BlocksTold
  <2>5. Tells(s, FsmFailure(f))
    BY EventsTold
  <2>6. QED
    BY <1>c, <1>e, <2>1, <2>4, <2>5 DEF Tells
<1>4. Tells(s, RecvTermReq(f))
  <2> DEFINE b == NewState(f, "Stopping")
             c == SendTerminateAck(b)
             d == LayerDown(c)
             g == InitRestartCounter(d, 0)
             h == [g EXCEPT !.timer = TRUE]
  <2>1. \/ RecvTermReq(f) \in {f, SendTerminateAck(f)}
        \/ RecvTermReq(f) = SendTerminateAck(a) /\ s # "Opened"
        \/ RecvTermReq(f) = UnConfigure(h) /\ s = "Opened"
    BY <1>0 DEF RecvTermReq
  <2>2. Told(b, "Stopping", 0)
    BY BlocksTold
  <2> HIDE DEF a, b
  <2>3. Told(SendTerminateAck(a), "ReqSent", 0) /\ Told(c, "Stopping", 0)
    BY <1>a, <2>2, BlocksTold
  <2> HIDE DEF c
  <2>4. Told(d, "Stopping", 1)
    BY <2>3, BlocksTold
  <2> HIDE DEF d
  <2>5. Told(g, "Stopping", 1)
    BY <2>4, BlocksTold
  <2> HIDE DEF g
  <2>6. Told(h, "Stopping", 1)
    BY <2>5, BlocksTold
  <2> HIDE DEF h
  <2>7. Told(UnConfigure(h), "Stopping", 1)
    BY <2>6, BlocksTold
  <2>8. QED
    BY <1>e, <2>1, <2>3, <2>7 DEF Tells
<1>5. Tells(s, RecvTermAck(f))
  <2> DEFINE t == IF s = "Closing" THEN "Closed" ELSE "Stopped"
             b == NewState(f, t)
  <2>1. \/ RecvTermAck(f) = f
        \/ RecvTermAck(f) = LayerFinish(b) /\ s # "Opened"
        \/ RecvTermAck(f) = a /\ s # "Opened"
        \/ RecvTermAck(f) = SendConfigReq(LayerDown(a)) /\ s = "Opened"
    BY <1>0 DEF RecvTermAck
  <2>2. Told(b, t, 0) /\ t \in States /\ t # "Opened"
    BY BlocksTold
  <2> HIDE DEF a, b, t
  <2>3. Told(LayerFinish(b), t, 0)
    BY <2>2, BlocksTold
  <2>4. QED
    BY <1>a, <1>c, <1>e, <2>1, <2>2, <2>3 DEF Tells
<1>6. Tells(s, RecvRxjPlus(f))
  BY <1>0, <1>a, <1>e DEF RecvRxjPlus, Tells
<1>7. QED
  BY <1>1, <1>2, <1>3, <1>4, <1>5, <1>6

\* FsmRecvConfigReq(), which may call LayerDown twice in Opened.
LEMMA RequestTold ==
  ASSUME NEW f \in Fsms, NEW s \in States, Told(f, s, 0), NEW id \in Ids,
         NEW v \in Verdicts, NEW joins \in BOOLEAN
  PROVE  LET g == RecvConfigReq(f, id, v, joins) IN
         Tells(s, g) \/ (s = "Opened" /\ f.failure = 0 /\ Told(g, "Stopping", 2))
<1> DEFINE m == ReopenNegotiation(f)
           n == IF s = "Opened" THEN 1 ELSE 0
<1>0. f.state = s
  BY DEF Told
<1>1. CASE s \in {"Initial", "Starting"} \cup Terminating
  BY <1>0, <1>1 DEF RecvConfigReq, Tells
<1>2. CASE s = "Closed"
  <2>1. Told(SendTerminateAck(f), s, 0)
    BY BlocksTold
  <2>2. QED
    BY <1>0, <1>2, <2>1 DEF RecvConfigReq, Tells
<1>3. CASE s \in {"Stopped", "Opened"} \cup Negotiating
  <2>1. RecvConfigReq(f, id, v, joins) = AnswerConfigReq(m, id, v, joins)
    BY <1>0, <1>3 DEF RecvConfigReq
  <2>2. Told(m, s, n) /\ (s = "Opened" => m.failure = f.failure)
    <3>1. CASE s = "Opened"
      <4>1. m = SendConfigReq(LayerDown(f))
        BY <1>0, <3>1 DEF ReopenNegotiation
      <4>2. Told(LayerDown(f), s, 0 + 1)
        BY BlocksTold
      <4>3. Told(SendConfigReq(LayerDown(f)), s, 1)
        BY <4>2, BlocksTold
      <4>4. SendConfigReq(LayerDown(f)).failure = f.failure
        BY DEF SendConfigReq, LayerDown, Output, Fsms
      <4>5. QED
        BY <3>1, <4>1, <4>3, <4>4
    <3>2. CASE s = "Stopped"
      <4> DEFINE b == LayerStart(Configure(f))
      <4>1. m = SendConfigReq(InitCounters(b))
        BY <1>0, <3>2 DEF ReopenNegotiation
      <4>2. Told(Configure(f), s, 0)
        BY BlocksTold
      <4>3. Told(b, s, 0)
        BY <4>2, BlocksTold
      <4> HIDE DEF b
      <4>4. Told(InitCounters(b), s, 0)
        BY <4>3, BlocksTold
      <4>5. Told(SendConfigReq(InitCounters(b)), s, 0)
        BY <4>4, BlocksTold
      <4>6. QED
        BY <3>2, <4>1, <4>5
    <3>3. CASE s \in Negotiating
      BY <1>0, <3>3 DEF ReopenNegotiation
    <3>4. QED
      BY <1>3, <3>1, <3>2, <3>3
  <2> HIDE DEF m
  <2>3. n \in Nat /\ m.state = s
    BY <2>2 DEF Told
  <2>4. CASE v = "ConfigAck"
    <3> DEFINE a == SendConfigAck(m, id)
               h == IF joins THEN a ELSE FsmFailure(a)
               o == NewState(h, "Opened")
               b == NewState(a, "AckSent")
    <3>1. Told(a, s, n)
      BY <2>2, <2>3, BlocksTold
    <3>2. AnswerConfigReq(m, id, v, joins) = AfterConfigAckSent(a, joins)
      BY <2>4 DEF AnswerConfigReq
    <3> HIDE DEF a
    <3>3. a.state = s
      BY <3>1 DEF Told
    <3>4. \/ AfterConfigAckSent(a, joins) = b
          \/ AfterConfigAckSent(a, joins) = LayerUp(o) /\ s = "AckRcvd"
          \/ AfterConfigAckSent(a, joins) = a /\ s # "Opened"
      BY <3>3 DEF AfterConfigAckSent, NewStateOpened
    <3>5. Told(b, "AckSent", n)
      BY <2>3, <3>1, BlocksTold
    <3>6. s = "AckRcvd" => \E u \in States : Told(h, u, 0)
      BY <3>1, FailureTold
    <3> HIDE DEF b, h
    <3>7. s = "AckRcvd" => Told(o, "Opened", 0)
      BY <3>6, BlocksTold
    <3> HIDE DEF o
    <3>8. s = "AckRcvd" => Told(LayerUp(o), "Opened", 0)
      BY <3>7, BlocksTold
    <3>9. QED
      BY <2>1, <3>1, <3>2, <3>4, <3>5, <3>8 DEF Tells
  <2>5. CASE v # "ConfigAck" /\ m.failure <= 0
    <3>1. AnswerConfigReq(m, id, v, joins) = FsmFailure(m)
      BY <2>5 DEF AnswerConfigReq
    <3>2. CASE s = "Opened"
      <4>1. Told(FsmFailure(m), "Stopping", 2)
        BY <2>2, <3>2, FailureTold
      <4>2. f.failure = 0
        BY <2>2, <2>5, <3>2, FsmAssumption DEF Fsms
      <4>3. QED
        BY <2>1, <3>1, <3>2, <4>1, <4>2
    <3>3. CASE s # "Opened"
      BY <2>1, <2>2, <3>1, <3>3, FailureTold DEF Tells
    <3>4. QED
      BY <3>2, <3>3
  <2>6. CASE v # "ConfigAck" /\ ~(m.failure <= 0)
    <3> DEFINE a == SendConfigRefusal(m, v, id)
               b == NewState(a, "ReqSent")
    <3>1. Told(a, s, n)
      BY <2>2, <2>3, BlocksTold
    <3>2. AnswerConfigReq(m, id, v, joins) = AfterRefusalSent(a)
      BY <2>6 DEF AnswerConfigReq
    <3> HIDE DEF a
    <3>3. a.state = s
      BY <3>1 DEF Told
    <3>4. AfterRefusalSent(a) = b \/ (AfterRefusalSent(a) = a /\ s # "Opened")
      BY <3>3 DEF AfterRefusalSent
    <3>5. Told(b, "ReqSent", n)
      BY <2>3, <3>1, BlocksTold
    <3> HIDE DEF b
    <3>6. QED
      BY <2>1, <3>1, <3>2, <3>4, <3>5 DEF Tells
  <2>7. QED
    BY <2>4, <2>5, <2>6
<1>4. QED
  BY <1>1, <1>2, <1>3

\* One handler calls LayerDown at most once, and only to leave Opened, except where
\* FsmRecvConfigReq() fails in Opened with max-failure spent: whatever the limits.
THEOREM LayerAlwaysDownOnce == Spec => LayerDownOnce
<1>1. IInv /\ IInv' /\ [Next]_vars =>
        [\/ fsm'.downs = (IF fsm.up /\ ~fsm'.up THEN 1 ELSE 0)
         \/ /\ fsm.state = "Opened" /\ fsm.failure = 0
            /\ fsm'.state = "Stopping" /\ fsm'.downs = 2]_vars
  <2> SUFFICES ASSUME IInv, IInv', Next
               PROVE  \/ fsm'.downs = (IF fsm.up /\ ~fsm'.up THEN 1 ELSE 0)
                      \/ /\ fsm.state = "Opened" /\ fsm.failure = 0
                         /\ fsm'.state = "Stopping" /\ fsm'.downs = 2
    OBVIOUS
  <2> DEFINE f == Begin(fsm)
             s == fsm.state
  <2>1. /\ fsm \in Fsms
        /\ fsm.up <=> s = "Opened"
        /\ fsm'.up <=> fsm'.state = "Opened"
        /\ fsm.timer => s # "Opened"
    BY DEF IInv, SoundIn, SoundUntimed
  <2>2. /\ f \in Fsms /\ s \in States /\ Told(f, s, 0) /\ f.failure = fsm.failure
    <3>1. f \in Fsms /\ f.state = s /\ f.failure = fsm.failure
      BY <2>1, BeginFields DEF SameCounters
    <3>2. f.downs = 0
      BY <2>1 DEF Begin, Fsms
    <3>3. {"state", "downs"} \subseteq DOMAIN f
      BY <3>1 DEF Fsms
    <3>4. s \in States
      BY <2>1 DEF Fsms
    <3>5. QED
      BY <3>1, <3>2, <3>3, <3>4 DEF Told
  <2> HIDE DEF f
  <2>3. SUFFICES \/ Tells(s, fsm')
                 \/ s = "Opened" /\ f.failure = 0 /\ Told(fsm', "Stopping", 2)
    BY <2>1, <2>2 DEF Tells, Told
  <2>4. CASE Open \/ Close \/ Up \/ Down \/ Failure \/ Timeout
    BY <2>1, <2>2, <2>4, EventsTold
       DEF Open, Close, Up, Down, Failure, Timeout, Handle, Becomes, f
  <2>5. CASE EchoTimeout \/ ConfigNakOrRej \/ TermReq \/ TermAck \/ RxjPlus
    BY <2>2, <2>5, RepliesTold
       DEF EchoTimeout, ConfigNakOrRej, TermReq, TermAck, RxjPlus, Handle, Becomes, f
  <2>6. CASE ConfigAck
    BY <2>2, <2>6, RepliesTold DEF ConfigAck, Answer, f
  <2>7. CASE ConfigReq
    <3>1. PICK id \in Ids, v \in Verdicts, joins \in BOOLEAN :
            fsm' = RecvConfigReq(f, id, v, joins)
      BY <2>7 DEF ConfigReq, Answer, f
    <3>2. QED
      BY <2>2, <3>1, RequestTold
  <2>8. QED
    BY <2>4, <2>5, <2>6, <2>7 DEF Next
<1>2. QED
  BY <1>1, Invariance, PTL DEF Spec, LayerDownOnce

\* The layers around agree with the state after every event, and the layer above is told
\* once that it goes down.
THEOREM LayersAlwaysFollow == Spec => LayersFollow
  BY LayersAlwaysAgree, LayerAlwaysDownOnce DEF LayersFollow

----------------------------------------------------------------------------
(* Fsm implements FsmLayer, for every value of the constants.              *)
(*                                                                         *)
(* A handler is followed by its effect on two fields only, the state and   *)
(* started: View(f, s, st) says that they are s and st.  First the view of *)
(* every building block, then a view of the handler's result turned into a *)
(* step of FsmLayer, then the handlers.                                    *)

Struct(f) == "state" \in DOMAIN f /\ "started" \in DOMAIN f

View(f, s, st) == Struct(f) /\ f.state = s /\ f.started = st

USE DEF Negotiating, Terminating, Waiting, States

----------------------------------------------------------------------------
(* The view of the building blocks. *)

\* FsmNewState() sets the state.
LEMMA NewStateView ==
  ASSUME NEW f, NEW s, Struct(f)
  PROVE  View(NewState(f, s), s, f.started)
  BY DEF NewState, View, Struct

\* LayerStart and LayerFinish set started.
LEMMA StartView ==
  ASSUME NEW f, Struct(f)
  PROVE  /\ View(LayerStart(f), f.state, TRUE)
         /\ View(LayerFinish(f), f.state, FALSE)
  BY DEF View, Struct, LayerStart, LayerFinish

\* The same, applied to a struct whose view is known.
LEMMA FinishedView ==
  ASSUME NEW f, NEW s, NEW st, View(f, s, st)
  PROVE  View(LayerFinish(f), s, FALSE)
  BY StartView DEF View

\* The same for LayerStart.
LEMMA StartedView ==
  ASSUME NEW f, NEW s, NEW st, View(f, s, st)
  PROVE  View(LayerStart(f), s, TRUE)
  BY StartView DEF View

\* Sending, counting, and the other methods of the layer touch neither field.
LEMMA OtherView ==
  ASSUME NEW f, Struct(f)
  PROVE  /\ View(LayerUp(f), f.state, f.started)
         /\ View(LayerDown(f), f.state, f.started)
         /\ View(Configure(f), f.state, f.started)
         /\ View(UnConfigure(f), f.state, f.started)
         /\ View(InitCounters(f), f.state, f.started)
         /\ \A n : View(InitRestartCounter(f, n), f.state, f.started)
         /\ View(SendConfigReq(f), f.state, f.started)
         /\ View(SendTerminateReq(f), f.state, f.started)
         /\ View(SendTerminateAck(f), f.state, f.started)
         /\ \A i : View(SendConfigAck(f, i), f.state, f.started)
         /\ \A v, i : View(SendConfigRefusal(f, v, i), f.state, f.started)
  BY DEF View, Struct, LayerUp, LayerDown, Configure, UnConfigure, InitCounters,
         InitRestartCounter, SendConfigReq, SendTerminateReq, SendTerminateAck,
         SendConfigAck, SendConfigRefusal, Output

\* Setting the restart timer touches neither field.
LEMMA TimerView ==
  ASSUME NEW f, Struct(f), NEW b
  PROVE  View([f EXCEPT !.timer = b], f.state, f.started)
  BY DEF View, Struct

\* A handler starts from the struct the last one left.
LEMMA BeginView ==
  ASSUME fsm \in Fsms
  PROVE  /\ Begin(fsm) \in Fsms
         /\ View(Begin(fsm), fsm.state, fsm.started)
<1>1. Struct(fsm)
  BY DEF Struct, Fsms
<1>2. View(Begin(fsm), fsm.state, fsm.started)
  BY <1>1 DEF Begin, View, Struct
<1>3. QED
  BY <1>2, BeginFields

\* FsmFailure() in each state: where it goes and what it releases.
LEMMA FailureView ==
  ASSUME NEW f, Struct(f), f.state \in States
  PROVE  LET g == FsmFailure(f) IN
         /\ f.state = "Closing"  => View(g, "Closed", FALSE)
         /\ f.state = "Closed"   => View(g, "Closed", FALSE)
         /\ f.state = "Stopping" => View(g, "Stopped", FALSE)
         /\ f.state \in Negotiating /\ Passive  => View(g, "Stopped", f.started)
         /\ f.state \in Negotiating /\ ~Passive => View(g, "Stopped", FALSE)
         /\ f.state = "Opened"   => View(g, "Stopping", f.started)
         /\ f.state = "Stopped" /\ Passive  => View(g, "Stopped", f.started)
         /\ f.state = "Stopped" /\ ~Passive => View(g, "Stopped", FALSE)
         /\ f.state \in Dead     => View(g, f.state, f.started)
<1>1. CASE f.state = "Closing"
  <2>1. FsmFailure(f) = LayerFinish(NewState(f, "Closed"))
    BY <1>1 DEF FsmFailure
  <2>2. View(LayerFinish(NewState(f, "Closed")), "Closed", FALSE)
    BY NewStateView, FinishedView
  <2>3. QED
    BY <1>1, <2>1, <2>2 DEF Dead
<1>2. CASE f.state = "Closed"
  BY <1>2, StartView, NewStateView DEF FsmFailure, View, Dead
<1>3. CASE f.state = "Stopping"
  <2>1. FsmFailure(f) = LayerFinish(NewState(f, "Stopped"))
    BY <1>3 DEF FsmFailure
  <2>2. View(LayerFinish(NewState(f, "Stopped")), "Stopped", FALSE)
    BY NewStateView, FinishedView
  <2>3. QED
    BY <1>3, <2>1, <2>2 DEF Dead
<1>4. CASE f.state \in Negotiating
  <2>1. FsmFailure(f) = UnConfigure(IF Passive THEN NewState(f, "Stopped")
                                    ELSE LayerFinish(NewState(f, "Stopped")))
    BY <1>4 DEF FsmFailure
  <2>2. CASE Passive
    BY <1>4, <2>1, <2>2, OtherView, NewStateView DEF View, Dead
  <2>3. CASE ~Passive
    <3>1. View(LayerFinish(NewState(f, "Stopped")), "Stopped", FALSE)
      BY NewStateView, FinishedView
    <3>2. View(FsmFailure(f), "Stopped", FALSE)
      BY <2>1, <2>3, <3>1, OtherView DEF View
    <3>3. QED
      BY <1>4, <2>3, <3>2 DEF Dead
  <2>4. QED
    BY <2>2, <2>3
<1>5. CASE f.state = "Opened"
  BY <1>5, OtherView, NewStateView DEF FsmFailure, View, Dead
<1>6. CASE f.state = "Stopped"
  BY <1>6, StartView DEF FsmFailure, View, Dead
<1>7. CASE f.state \in Dead
  BY <1>7 DEF FsmFailure, View, Dead
<1>8. QED
  BY <1>1, <1>2, <1>3, <1>4, <1>5, <1>6, <1>7 DEF Dead

\* A refused opening releases the layer below, unless the protocol is passive.
LEMMA OpenedView ==
  ASSUME NEW f, Struct(f), f.state \in Negotiating, NEW joins \in BOOLEAN
  PROVE  LET g == NewStateOpened(f, joins) IN
         View(g, "Opened", f.started) \/ (~Passive /\ View(g, "Opened", FALSE))
<1> DEFINE u == FsmFailure(f)
<1>1. CASE joins
  BY <1>1, NewStateView DEF NewStateOpened
<1>2. CASE ~joins /\ Passive
  <2>1. View(u, "Stopped", f.started)
    BY <1>2, FailureView
  <2> HIDE DEF u
  <2>2. View(NewState(u, "Opened"), "Opened", f.started)
    BY <2>1, NewStateView DEF View
  <2>3. QED
    BY <1>2, <2>2 DEF NewStateOpened, u
<1>3. CASE ~joins /\ ~Passive
  <2>1. View(u, "Stopped", FALSE)
    BY <1>3, FailureView
  <2> HIDE DEF u
  <2>2. View(NewState(u, "Opened"), "Opened", FALSE)
    BY <2>1, NewStateView DEF View
  <2>3. QED
    BY <1>3, <2>2 DEF NewStateOpened, u
<1>4. QED
  BY <1>1, <1>2, <1>3

----------------------------------------------------------------------------
(* From a view of the result to a step of FsmLayer. *)

\* What is one state for the layers around.
LEMMA CoarseValues ==
  /\ \A s \in Negotiating : Coarse(s) = "Negotiating"
  /\ \A s \in {"Initial", "Starting", "Closed", "Stopped", "Closing", "Stopping", "Opened"} :
       Coarse(s) = s
  BY DEF Coarse

\* started is left alone.
LEMMA GoStep ==
  ASSUME NEW g, NEW t, fsm' = g, View(g, t, fsm.started)
  PROVE  Layer!Go(Coarse(fsm.state), Coarse(t))
  BY DEF Layer!Go, View, Coarse

\* LayerStart is called.
LEMMA StartStep ==
  ASSUME NEW g, NEW t, fsm' = g, View(g, t, TRUE)
  PROVE  Layer!GoStart(Coarse(fsm.state), Coarse(t))
  BY DEF Layer!GoStart, View, Coarse

\* LayerFinish is called.
LEMMA FinishStep ==
  ASSUME NEW g, NEW t, fsm' = g, View(g, t, FALSE)
  PROVE  Layer!GoFinish(Coarse(fsm.state), Coarse(t))
  BY DEF Layer!GoFinish, View, Coarse

\* Nothing the layers around can see.
LEMMA Stutter ==
  ASSUME NEW g, NEW t, fsm' = g, View(g, t, fsm.started), Coarse(t) = Coarse(fsm.state)
  PROVE  UNCHANGED Layer!vars
  BY DEF Layer!vars, View, Coarse

LayerStep == [Layer!Next]_(Layer!vars)

\* The peer agrees; the layer's method NewState may not.
LEMMA OpeningStep ==
  ASSUME NEW g, fsm' = g, fsm.state \in Negotiating,
         View(g, "Opened", fsm.started) \/ (~Passive /\ View(g, "Opened", FALSE))
  PROVE  LayerStep
<1>1. CASE View(g, "Opened", fsm.started)
  <2>1. Layer!Go("Negotiating", "Opened")
    BY <1>1, GoStep, CoarseValues
  <2>2. QED
    BY <2>1 DEF LayerStep, Layer!Next, Layer!Establish
<1>2. CASE ~Passive /\ View(g, "Opened", FALSE)
  <2>1. Layer!GoFinish("Negotiating", "Opened")
    BY <1>2, FinishStep, CoarseValues
  <2>2. QED
    BY <1>2, <2>1 DEF LayerStep, Layer!Next, Layer!Refuse
<1>3. QED
  BY <1>1, <1>2

----------------------------------------------------------------------------
(* The handlers. *)

\* FsmFailure() in a struct that looks like fsm, whoever calls it.
LEMMA FailureLayered ==
  ASSUME NEW f, View(f, fsm.state, fsm.started), fsm.state \in States,
         fsm' = FsmFailure(f)
  PROVE  LayerStep
<1>0. Struct(f) /\ f.state = fsm.state /\ f.started = fsm.started
  BY DEF View
<1>1. CASE fsm.state = "Closing"
  <2>1. Layer!GoFinish("Closing", "Closed")
    BY <1>0, <1>1, FailureView, FinishStep, CoarseValues
  <2>2. QED
    BY <2>1 DEF LayerStep, Layer!Next, Layer!Finish
<1>2. CASE fsm.state = "Closed"
  <2>1. Layer!GoFinish("Closed", "Closed")
    BY <1>0, <1>2, FailureView, FinishStep, CoarseValues
  <2>2. QED
    BY <2>1 DEF LayerStep, Layer!Next, Layer!GiveUp
<1>3. CASE fsm.state = "Stopping"
  <2>1. Layer!GoFinish("Stopping", "Stopped")
    BY <1>0, <1>3, FailureView, FinishStep, CoarseValues
  <2>2. QED
    BY <2>1 DEF LayerStep, Layer!Next, Layer!Finish
<1>4. CASE fsm.state \in Negotiating /\ Passive
  <2>1. Layer!Go("Negotiating", "Stopped")
    BY <1>0, <1>4, FailureView, GoStep, CoarseValues
  <2>2. QED
    BY <1>4, <2>1 DEF LayerStep, Layer!Next, Layer!GiveUp
<1>5. CASE fsm.state \in Negotiating /\ ~Passive
  <2>1. Layer!GoFinish("Negotiating", "Stopped")
    BY <1>0, <1>5, FailureView, FinishStep, CoarseValues
  <2>2. QED
    BY <1>5, <2>1 DEF LayerStep, Layer!Next, Layer!GiveUp
<1>6. CASE fsm.state = "Opened"
  <2>1. Layer!Go("Opened", "Stopping")
    BY <1>0, <1>6, FailureView, GoStep, CoarseValues
  <2>2. QED
    BY <2>1 DEF LayerStep, Layer!Next, Layer!Terminate
<1>7. CASE fsm.state = "Stopped" /\ Passive
  <2>1. UNCHANGED Layer!vars
    BY <1>0, <1>7, FailureView, Stutter
  <2>2. QED
    BY <2>1 DEF LayerStep
<1>8. CASE fsm.state = "Stopped" /\ ~Passive
  <2>1. Layer!GoFinish("Stopped", "Stopped")
    BY <1>0, <1>8, FailureView, FinishStep, CoarseValues
  <2>2. QED
    BY <1>8, <2>1 DEF LayerStep, Layer!Next, Layer!GiveUp
<1>9. CASE fsm.state \in Dead
  <2>1. UNCHANGED Layer!vars
    BY <1>0, <1>9, FailureView, Stutter
  <2>2. QED
    BY <2>1 DEF LayerStep
<1>10. QED
  BY <1>1, <1>2, <1>3, <1>4, <1>5, <1>6, <1>7, <1>8, <1>9 DEF Dead

\* Each call of FsmOpen() is one step of FsmLayer, or none.
LEMMA OpenLayered ==
  ASSUME NEW f, View(f, fsm.state, fsm.started), fsm.state \in States,
         fsm' = FsmOpen(f)
  PROVE  LayerStep
<1>0. Struct(f) /\ f.state = fsm.state /\ f.started = fsm.started
  BY DEF View
<1>1. CASE fsm.state = "Initial"
  <2>1. View(FsmOpen(f), "Starting", TRUE)
    BY <1>0, <1>1, NewStateView, StartedView DEF FsmOpen
  <2>2. Layer!GoStart("Initial", "Starting")
    BY <1>1, <2>1, StartStep, CoarseValues
  <2>3. QED
    BY <2>2 DEF LayerStep, Layer!Next, Layer!Open
<1>2. CASE fsm.state = "Closed"
  <2>1. View(NewState(Configure(f), "ReqSent"), "ReqSent", fsm.started)
    BY <1>0, <1>2, NewStateView, OtherView DEF View
  <2>2. View(LayerStart(NewState(Configure(f), "ReqSent")), "ReqSent", TRUE)
    BY <2>1, StartedView DEF View
  <2>3. View(SendConfigReq(InitCounters(LayerStart(NewState(Configure(f), "ReqSent")))),
             "ReqSent", TRUE)
    BY <2>2, OtherView DEF View
  <2>4. View(FsmOpen(f), "ReqSent", TRUE)
    BY <1>0, <1>2, <2>3 DEF FsmOpen
  <2>5. Layer!GoStart("Closed", "Negotiating")
    BY <1>2, <2>4, StartStep, CoarseValues
  <2>6. QED
    BY <2>5 DEF LayerStep, Layer!Next, Layer!Open
<1>3. CASE fsm.state = "Closing"
  <2>1. View(FsmOpen(f), "Stopping", fsm.started)
    BY <1>0, <1>3, NewStateView DEF FsmOpen
  <2>2. Layer!Go("Closing", "Stopping")
    BY <1>3, <2>1, GoStep, CoarseValues
  <2>3. QED
    BY <2>2 DEF LayerStep, Layer!Next, Layer!Open
<1>4. CASE fsm.state \notin {"Initial", "Closed", "Closing"}
  <2>1. View(FsmOpen(f), fsm.state, fsm.started)
    BY <1>0, <1>4 DEF FsmOpen, View
  <2>2. UNCHANGED Layer!vars
    BY <1>4, <2>1, Stutter, CoarseValues
  <2>3. QED
    BY <2>2 DEF LayerStep
<1>5. QED
  BY <1>1, <1>2, <1>3, <1>4

\* Each call of FsmClose() is one step of FsmLayer, or none.
LEMMA CloseLayered ==
  ASSUME NEW f, View(f, fsm.state, fsm.started), fsm.state \in States,
         fsm' = FsmClose(f)
  PROVE  LayerStep
<1>0. Struct(f) /\ f.state = fsm.state /\ f.started = fsm.started
  BY DEF View
<1>1. CASE fsm.state = "Starting"
  <2>1. View(FsmClose(f), "Initial", FALSE)
    BY <1>0, <1>1, NewStateView, FinishedView DEF FsmClose
  <2>2. Layer!GoFinish("Starting", "Initial")
    BY <1>1, <2>1, FinishStep, CoarseValues
  <2>3. QED
    BY <2>2 DEF LayerStep, Layer!Next, Layer!Close
<1>2. CASE fsm.state = "Stopped"
  <2>1. View(FsmClose(f), "Closed", fsm.started)
    BY <1>0, <1>2, NewStateView DEF FsmClose
  <2>2. Layer!Go("Stopped", "Closed")
    BY <1>2, <2>1, GoStep, CoarseValues
  <2>3. QED
    BY <2>2 DEF LayerStep, Layer!Next, Layer!Close
<1>3. CASE fsm.state = "Stopping"
  <2>1. View(FsmClose(f), "Closing", fsm.started)
    BY <1>0, <1>3, NewStateView DEF FsmClose
  <2>2. Layer!Go("Stopping", "Closing")
    BY <1>3, <2>1, GoStep, CoarseValues
  <2>3. QED
    BY <2>2 DEF LayerStep, Layer!Next, Layer!Close
<1>4. CASE fsm.state \in Negotiating
  <2>1. View(FsmClose(f), "Closing", fsm.started)
    BY <1>0, <1>4, NewStateView, OtherView DEF FsmClose, View
  <2>2. Layer!Go("Negotiating", "Closing")
    BY <1>4, <2>1, GoStep, CoarseValues
  <2>3. QED
    BY <2>2 DEF LayerStep, Layer!Next, Layer!Close
<1>5. CASE fsm.state = "Opened"
  <2>1. View(FsmClose(f), "Closing", fsm.started)
    BY <1>0, <1>5, NewStateView, OtherView DEF FsmClose, View
  <2>2. Layer!Go("Opened", "Closing")
    BY <1>5, <2>1, GoStep, CoarseValues
  <2>3. QED
    BY <2>2 DEF LayerStep, Layer!Next, Layer!Close
<1>6. CASE fsm.state \in {"Initial", "Closed", "Closing"}
  <2>1. View(FsmClose(f), fsm.state, fsm.started)
    BY <1>0, <1>6 DEF FsmClose, View
  <2>2. UNCHANGED Layer!vars
    BY <1>6, <2>1, Stutter, CoarseValues
  <2>3. QED
    BY <2>2 DEF LayerStep
<1>7. QED
  BY <1>1, <1>2, <1>3, <1>4, <1>5, <1>6

\* Each call of FsmUp() is one step of FsmLayer, or none.
LEMMA UpLayered ==
  ASSUME NEW f, View(f, fsm.state, fsm.started), fsm.state \in States,
         fsm' = FsmUp(f)
  PROVE  LayerStep
<1>0. Struct(f) /\ f.state = fsm.state /\ f.started = fsm.started
  BY DEF View
<1>1. CASE fsm.state = "Initial"
  <2>1. View(FsmUp(f), "Closed", fsm.started)
    BY <1>0, <1>1, NewStateView DEF FsmUp
  <2>2. Layer!Go("Initial", "Closed")
    BY <1>1, <2>1, GoStep, CoarseValues
  <2>3. QED
    BY <2>2 DEF LayerStep, Layer!Next, Layer!Up
<1>2. CASE fsm.state = "Starting"
  <2>1. View(FsmUp(f), "ReqSent", fsm.started)
    BY <1>0, <1>2, NewStateView, OtherView DEF FsmUp, View
  <2>2. Layer!Go("Starting", "Negotiating")
    BY <1>2, <2>1, GoStep, CoarseValues
  <2>3. QED
    BY <2>2 DEF LayerStep, Layer!Next, Layer!Up
<1>3. CASE fsm.state \notin Dead
  <2>1. View(FsmUp(f), fsm.state, fsm.started)
    BY <1>0, <1>3 DEF FsmUp, View, Dead
  <2>2. UNCHANGED Layer!vars
    BY <1>3, <2>1, Stutter, CoarseValues
  <2>3. QED
    BY <2>2 DEF LayerStep
<1>4. QED
  BY <1>1, <1>2, <1>3 DEF Dead

\* Each call of FsmDown() is one step of FsmLayer, or none.
LEMMA DownLayered ==
  ASSUME NEW f, View(f, fsm.state, fsm.started), fsm.state \in States,
         fsm' = FsmDown(f)
  PROVE  LayerStep
<1>0. Struct(f) /\ f.state = fsm.state /\ f.started = fsm.started
  BY DEF View
<1>1. CASE fsm.state = "Closing"
  <2>1. View(LayerFinish(f), "Closing", FALSE)
    BY <1>0, <1>1, FinishedView DEF View
  <2>2. View(NewState(LayerFinish(f), "Initial"), "Initial", FALSE)
    BY <2>1, NewStateView DEF View
  <2>3. View(FsmDown(f), "Initial", FALSE)
    BY <1>0, <1>1, <2>2 DEF FsmDown
  <2>4. Layer!GoFinish("Closing", "Initial")
    BY <1>1, <2>3, FinishStep, CoarseValues
  <2>5. QED
    BY <2>4 DEF LayerStep, Layer!Next, Layer!Down
<1>2. CASE fsm.state = "Closed"
  <2>1. View(FsmDown(f), "Initial", fsm.started)
    BY <1>0, <1>2, NewStateView DEF FsmDown
  <2>2. Layer!Go("Closed", "Initial")
    BY <1>2, <2>1, GoStep, CoarseValues
  <2>3. QED
    BY <2>2 DEF LayerStep, Layer!Next, Layer!Down
<1>3. CASE fsm.state = "Stopped"
  <2>1. View(FsmDown(f), "Starting", TRUE)
    BY <1>0, <1>3, NewStateView, StartedView DEF FsmDown
  <2>2. Layer!GoStart("Stopped", "Starting")
    BY <1>3, <2>1, StartStep, CoarseValues
  <2>3. QED
    BY <2>2 DEF LayerStep, Layer!Next, Layer!Down
<1>4. CASE fsm.state = "Stopping"
  <2>1. View(FsmDown(f), "Starting", fsm.started)
    BY <1>0, <1>4, NewStateView, OtherView DEF FsmDown, View
  <2>2. Layer!Go("Stopping", "Starting")
    BY <1>4, <2>1, GoStep, CoarseValues
  <2>3. QED
    BY <2>2 DEF LayerStep, Layer!Next, Layer!Down
<1>5. CASE fsm.state \in Negotiating
  <2>1. View(FsmDown(f), "Starting", fsm.started)
    BY <1>0, <1>5, NewStateView, OtherView DEF FsmDown, View
  <2>2. Layer!Go("Negotiating", "Starting")
    BY <1>5, <2>1, GoStep, CoarseValues
  <2>3. QED
    BY <2>2 DEF LayerStep, Layer!Next, Layer!Down
<1>6. CASE fsm.state = "Opened"
  <2>1. View(FsmDown(f), "Starting", fsm.started)
    BY <1>0, <1>6, NewStateView, OtherView DEF FsmDown, View
  <2>2. Layer!Go("Opened", "Starting")
    BY <1>6, <2>1, GoStep, CoarseValues
  <2>3. QED
    BY <2>2 DEF LayerStep, Layer!Next, Layer!Down
<1>7. CASE fsm.state \in Dead
  <2>1. View(FsmDown(f), fsm.state, fsm.started)
    BY <1>0, <1>7 DEF FsmDown, View, Dead
  <2>2. UNCHANGED Layer!vars
    BY <1>7, <2>1, Stutter, CoarseValues
  <2>3. QED
    BY <2>2 DEF LayerStep
<1>8. QED
  BY <1>1, <1>2, <1>3, <1>4, <1>5, <1>6, <1>7 DEF Dead

\* Each call of FsmRecvConfigAck() is one step of FsmLayer, or none.
LEMMA ConfigAckLayered ==
  ASSUME NEW f, View(f, fsm.state, fsm.started), fsm.state \in States, NEW id,
         NEW joins \in BOOLEAN, fsm' = RecvConfigAck(f, id, joins)
  PROVE  LayerStep
<1>0. Struct(f) /\ f.state = fsm.state /\ f.started = fsm.started
  BY DEF View
<1>1. CASE ~Expected(f, id)
  <2>1. View(RecvConfigAck(f, id, joins), fsm.state, fsm.started)
    BY <1>0, <1>1 DEF RecvConfigAck, View
  <2>2. UNCHANGED Layer!vars
    BY <1>1, <2>1, Stutter, CoarseValues
  <2>3. QED
    BY <2>2 DEF LayerStep
<1>2. CASE Expected(f, id) /\ fsm.state \in {"Closed", "Stopped"}
  <2>1. View(RecvConfigAck(f, id, joins), fsm.state, fsm.started)
    BY <1>0, <1>2, OtherView DEF RecvConfigAck, View
  <2>2. UNCHANGED Layer!vars
    BY <1>2, <2>1, Stutter, CoarseValues
  <2>3. QED
    BY <2>2 DEF LayerStep
<1>3. CASE Expected(f, id) /\ fsm.state = "ReqSent"
  <2>1. View(InitCounters(NewState(f, "AckRcvd")), "AckRcvd", fsm.started)
    BY <1>0, <1>3, NewStateView, OtherView DEF View
  <2>2. View([InitCounters(NewState(f, "AckRcvd")) EXCEPT !.timer = TRUE], "AckRcvd", fsm.started)
    BY <2>1, TimerView DEF View
  <2>3. View(RecvConfigAck(f, id, joins), "AckRcvd", fsm.started)
    BY <1>0, <1>3, <2>2 DEF RecvConfigAck
  <2>4. UNCHANGED Layer!vars
    BY <1>3, <2>3, Stutter, CoarseValues
  <2>5. QED
    BY <2>4 DEF LayerStep
<1>4. CASE Expected(f, id) /\ fsm.state = "AckRcvd"
  <2>1. View(RecvConfigAck(f, id, joins), "ReqSent", fsm.started)
    BY <1>0, <1>4, NewStateView, OtherView DEF RecvConfigAck, View
  <2>2. UNCHANGED Layer!vars
    BY <1>4, <2>1, Stutter, CoarseValues
  <2>3. QED
    BY <2>2 DEF LayerStep
<1>5. CASE Expected(f, id) /\ fsm.state = "AckSent"
  <2> DEFINE n == NewStateOpened(f, joins)
             g == LayerUp(InitCounters(n))
  <2>1. RecvConfigAck(f, id, joins) = g
    BY <1>0, <1>5 DEF RecvConfigAck
  <2>2. View(n, "Opened", fsm.started) \/ (~Passive /\ View(n, "Opened", FALSE))
    BY <1>0, <1>5, OpenedView
  <2> HIDE DEF n
  <2>3. View(g, "Opened", n.started)
    BY <2>2, OtherView DEF View
  <2>4. View(g, "Opened", fsm.started) \/ (~Passive /\ View(g, "Opened", FALSE))
    BY <2>2, <2>3 DEF View
  <2> HIDE DEF g
  <2>5. QED
    BY <1>5, <2>1, <2>4, OpeningStep
<1>6. CASE Expected(f, id) /\ fsm.state = "Opened"
  <2>1. View(RecvConfigAck(f, id, joins), "ReqSent", fsm.started)
    BY <1>0, <1>6, NewStateView, OtherView DEF RecvConfigAck, View
  <2>2. Layer!Go("Opened", "Negotiating")
    BY <1>6, <2>1, GoStep, CoarseValues
  <2>3. QED
    BY <2>2 DEF LayerStep, Layer!Next, Layer!Renegotiate
<1>7. CASE Expected(f, id) /\ fsm.state \in {"Initial", "Starting"} \cup Terminating
  <2>1. View(RecvConfigAck(f, id, joins), fsm.state, fsm.started)
    BY <1>0, <1>7 DEF RecvConfigAck, View
  <2>2. UNCHANGED Layer!vars
    BY <1>7, <2>1, Stutter, CoarseValues
  <2>3. QED
    BY <2>2 DEF LayerStep
<1>8. QED
  BY <1>1, <1>2, <1>3, <1>4, <1>5, <1>6, <1>7

\* Each call of FsmRecvTermReq() is one step of FsmLayer, or none.
LEMMA TermReqLayered ==
  ASSUME NEW f, View(f, fsm.state, fsm.started), fsm.state \in States,
         fsm' = RecvTermReq(f)
  PROVE  LayerStep
<1>0. Struct(f) /\ f.state = fsm.state /\ f.started = fsm.started
  BY DEF View
<1>1. CASE fsm.state = "Opened"
  <2> DEFINE g == InitRestartCounter(LayerDown(SendTerminateAck(NewState(f, "Stopping"))), 0)
  <2>1. View(LayerDown(SendTerminateAck(NewState(f, "Stopping"))), "Stopping", fsm.started)
    BY <1>0, <1>1, NewStateView, OtherView DEF View
  <2>2. View(g, "Stopping", fsm.started)
    BY <2>1, OtherView DEF View
  <2>3. View([g EXCEPT !.timer = TRUE], "Stopping", fsm.started)
    BY <2>2, TimerView DEF View
  <2>4. View(UnConfigure([g EXCEPT !.timer = TRUE]), "Stopping", fsm.started)
    BY <2>3, OtherView DEF View
  <2>5. RecvTermReq(f) = UnConfigure([g EXCEPT !.timer = TRUE])
    BY <1>0, <1>1 DEF RecvTermReq
  <2> HIDE DEF g
  <2>6. Layer!Go("Opened", "Stopping")
    BY <1>1, <2>4, <2>5, GoStep, CoarseValues
  <2>7. QED
    BY <2>6 DEF LayerStep, Layer!Next, Layer!Terminate
<1>2. CASE fsm.state \in {"Initial", "Starting"}
  <2>1. View(RecvTermReq(f), fsm.state, fsm.started)
    BY <1>0, <1>2 DEF RecvTermReq, View
  <2>2. UNCHANGED Layer!vars
    BY <1>2, <2>1, Stutter, CoarseValues
  <2>3. QED
    BY <2>2 DEF LayerStep
<1>3. CASE fsm.state \in {"Closed", "Stopped", "ReqSent"} \cup Terminating
  <2>1. View(RecvTermReq(f), fsm.state, fsm.started)
    BY <1>0, <1>3, OtherView DEF RecvTermReq, View
  <2>2. UNCHANGED Layer!vars
    BY <1>3, <2>1, Stutter, CoarseValues
  <2>3. QED
    BY <2>2 DEF LayerStep
<1>4. CASE fsm.state \in {"AckRcvd", "AckSent"}
  <2>1. View(RecvTermReq(f), "ReqSent", fsm.started)
    BY <1>0, <1>4, NewStateView, OtherView DEF RecvTermReq, View
  <2>2. UNCHANGED Layer!vars
    BY <1>4, <2>1, Stutter, CoarseValues
  <2>3. QED
    BY <2>2 DEF LayerStep
<1>5. QED
  BY <1>1, <1>2, <1>3, <1>4

\* Each call of FsmRecvTermAck() is one step of FsmLayer, or none.
LEMMA TermAckLayered ==
  ASSUME NEW f, View(f, fsm.state, fsm.started), fsm.state \in States,
         fsm' = RecvTermAck(f)
  PROVE  LayerStep
<1>0. Struct(f) /\ f.state = fsm.state /\ f.started = fsm.started
  BY DEF View
<1>1. CASE fsm.state = "Closing"
  <2>1. View(RecvTermAck(f), "Closed", FALSE)
    BY <1>0, <1>1, NewStateView, FinishedView DEF RecvTermAck
  <2>2. Layer!GoFinish("Closing", "Closed")
    BY <1>1, <2>1, FinishStep, CoarseValues
  <2>3. QED
    BY <2>2 DEF LayerStep, Layer!Next, Layer!Finish
<1>2. CASE fsm.state = "Stopping"
  <2>1. View(RecvTermAck(f), "Stopped", FALSE)
    BY <1>0, <1>2, NewStateView, FinishedView DEF RecvTermAck
  <2>2. Layer!GoFinish("Stopping", "Stopped")
    BY <1>2, <2>1, FinishStep, CoarseValues
  <2>3. QED
    BY <2>2 DEF LayerStep, Layer!Next, Layer!Finish
<1>3. CASE fsm.state = "AckRcvd"
  <2>1. View(RecvTermAck(f), "ReqSent", fsm.started)
    BY <1>0, <1>3, NewStateView DEF RecvTermAck
  <2>2. UNCHANGED Layer!vars
    BY <1>3, <2>1, Stutter, CoarseValues
  <2>3. QED
    BY <2>2 DEF LayerStep
<1>4. CASE fsm.state = "Opened"
  <2>1. View(RecvTermAck(f), "ReqSent", fsm.started)
    BY <1>0, <1>4, NewStateView, OtherView DEF RecvTermAck, View
  <2>2. Layer!Go("Opened", "Negotiating")
    BY <1>4, <2>1, GoStep, CoarseValues
  <2>3. QED
    BY <2>2 DEF LayerStep, Layer!Next, Layer!Renegotiate
<1>5. CASE fsm.state \notin {"Closing", "Stopping", "AckRcvd", "Opened"}
  <2>1. View(RecvTermAck(f), fsm.state, fsm.started)
    BY <1>0, <1>5 DEF RecvTermAck, View
  <2>2. UNCHANGED Layer!vars
    BY <1>5, <2>1, Stutter, CoarseValues
  <2>3. QED
    BY <2>2 DEF LayerStep
<1>6. QED
  BY <1>1, <1>2, <1>3, <1>4, <1>5

\* A Code-Reject or Protocol-Reject that is not fatal is no step of FsmLayer.
LEMMA RxjPlusLayered ==
  ASSUME NEW f, View(f, fsm.state, fsm.started), fsm.state \in States,
         fsm' = RecvRxjPlus(f)
  PROVE  LayerStep
<1>0. Struct(f) /\ f.state = fsm.state /\ f.started = fsm.started
  BY DEF View
<1>1. CASE fsm.state = "AckRcvd"
  <2>1. View(RecvRxjPlus(f), "ReqSent", fsm.started)
    BY <1>0, <1>1, NewStateView DEF RecvRxjPlus
  <2>2. UNCHANGED Layer!vars
    BY <1>1, <2>1, Stutter, CoarseValues
  <2>3. QED
    BY <2>2 DEF LayerStep
<1>2. CASE fsm.state # "AckRcvd"
  <2>1. View(RecvRxjPlus(f), fsm.state, fsm.started)
    BY <1>0, <1>2 DEF RecvRxjPlus, View
  <2>2. UNCHANGED Layer!vars
    BY <1>2, <2>1, Stutter, CoarseValues
  <2>3. QED
    BY <2>2 DEF LayerStep
<1>3. QED
  BY <1>1, <1>2

\* FsmTimeout(): the timer's event is gone before the handler looks at the counter.
LEMMA TimeoutLayered ==
  ASSUME NEW f, View(f, fsm.state, fsm.started), fsm.state \in States,
         fsm' = FsmTimeout(f)
  PROVE  LayerStep
<1> DEFINE g == [f EXCEPT !.timer = FALSE]
<1>0. View(g, fsm.state, fsm.started)
  BY TimerView DEF View
<1>1. fsm' = IF g.restart > 0
             THEN CASE g.state \in Terminating -> SendTerminateReq(g)
                    [] g.state \in {"ReqSent", "AckSent"} -> SendConfigReq(g)
                    [] g.state = "AckRcvd" -> SendConfigReq(NewState(g, "ReqSent"))
                    [] OTHER -> g
             ELSE CASE g.state = "Closing"  -> LayerFinish(NewState(g, "Closed"))
                    [] g.state = "Stopping" -> LayerFinish(NewState(g, "Stopped"))
                    [] g.state \in Negotiating -> FsmFailure(g)
                    [] OTHER -> g
  BY DEF FsmTimeout
<1> HIDE DEF g
<1>2. Struct(g) /\ g.state = fsm.state /\ g.started = fsm.started
  BY <1>0 DEF View
<1>3. CASE g.restart > 0 /\ fsm.state # "AckRcvd"
  <2>1. View(fsm', fsm.state, fsm.started)
    BY <1>0, <1>1, <1>2, <1>3, OtherView
  <2>2. QED
    BY <2>1, Stutter DEF LayerStep
<1>4. CASE g.restart > 0 /\ fsm.state = "AckRcvd"
  <2>1. View(SendConfigReq(NewState(g, "ReqSent")), "ReqSent", fsm.started)
    BY <1>2, NewStateView, OtherView DEF View
  <2>2. fsm' = SendConfigReq(NewState(g, "ReqSent"))
    BY <1>1, <1>2, <1>4
  <2>3. QED
    BY <1>4, <2>1, <2>2, Stutter, CoarseValues DEF LayerStep
<1>5. CASE ~(g.restart > 0) /\ fsm.state = "Closing"
  <2>1. View(LayerFinish(NewState(g, "Closed")), "Closed", FALSE)
    BY <1>2, NewStateView, FinishedView
  <2>2. Layer!GoFinish("Closing", "Closed")
    BY <1>1, <1>2, <1>5, <2>1, FinishStep, CoarseValues
  <2>3. QED
    BY <2>2 DEF LayerStep, Layer!Next, Layer!Finish
<1>6. CASE ~(g.restart > 0) /\ fsm.state = "Stopping"
  <2>1. View(LayerFinish(NewState(g, "Stopped")), "Stopped", FALSE)
    BY <1>2, NewStateView, FinishedView
  <2>2. Layer!GoFinish("Stopping", "Stopped")
    BY <1>1, <1>2, <1>6, <2>1, FinishStep, CoarseValues
  <2>3. QED
    BY <2>2 DEF LayerStep, Layer!Next, Layer!Finish
<1>7. CASE ~(g.restart > 0) /\ fsm.state \in Negotiating
  BY <1>0, <1>1, <1>2, <1>7, FailureLayered
<1>8. CASE ~(g.restart > 0) /\ fsm.state \notin Waiting
  <2>1. fsm' = g
    BY <1>1, <1>2, <1>8
  <2>2. QED
    BY <1>0, <2>1, Stutter DEF LayerStep
<1>9. QED
  BY <1>3, <1>4, <1>5, <1>6, <1>7, <1>8

\* FsmEchoTimeout(): nothing, or a failure.
LEMMA EchoTimeoutLayered ==
  ASSUME NEW f, View(f, fsm.state, fsm.started), fsm.state \in States, NEW traffic,
         fsm' = FsmEchoTimeout(f, traffic)
  PROVE  LayerStep
<1> DEFINE g == [f EXCEPT !.quiet = IF traffic THEN 0 ELSE @ + 1]
           h == [g EXCEPT !.echo = FALSE]
<1>1. View(g, fsm.state, fsm.started)
  BY DEF View, Struct
<1>2. View(h, fsm.state, fsm.started)
  BY <1>1 DEF View, Struct
<1>3. fsm' = IF EchoOverdue(g.quiet) THEN FsmFailure(h) ELSE g
  BY DEF FsmEchoTimeout
<1> HIDE DEF g, h
<1>4. CASE EchoOverdue(g.quiet)
  BY <1>2, <1>3, <1>4, FailureLayered
<1>5. CASE ~EchoOverdue(g.quiet)
  BY <1>1, <1>3, <1>5, Stutter DEF LayerStep
<1>6. QED
  BY <1>4, <1>5

\* Each call of FsmRecvConfigNak() or FsmRecvConfigRej() is one step of FsmLayer, or none.
LEMMA ConfigRefusalLayered ==
  ASSUME NEW f \in Fsms, View(f, fsm.state, fsm.started), fsm.state \in States, NEW id,
         fsm' = RecvConfigRefusal(f, id)
  PROVE  LayerStep
<1>0. Struct(f) /\ f.state = fsm.state /\ f.started = fsm.started /\ f.config \in Int
  BY DEF View, Fsms
<1>1. CASE \/ ~Expected(f, id)
           \/ fsm.state \in {"Initial", "Starting"} \cup Terminating
  <2>1. RecvConfigRefusal(f, id) = f
    BY <1>0, <1>1 DEF RecvConfigRefusal
  <2>2. QED
    BY <2>1, Stutter DEF LayerStep
<1>2. CASE Expected(f, id) /\ fsm.state \in {"Closed", "Stopped"}
  <2>1. View(RecvConfigRefusal(f, id), fsm.state, fsm.started)
    BY <1>0, <1>2, OtherView DEF RecvConfigRefusal
  <2>2. QED
    BY <2>1, Stutter DEF LayerStep
<1>3. CASE Expected(f, id) /\ fsm.state \in Negotiating \cup {"Opened"} /\ f.config <= 0
  <2>1. RecvConfigRefusal(f, id) = FsmFailure(f)
    BY <1>0, <1>3 DEF RecvConfigRefusal
  <2>2. QED
    BY <2>1, FailureLayered
<1>4. CASE Expected(f, id) /\ fsm.state \in {"ReqSent", "AckSent"} /\ f.config > 0
  <2>1. RecvConfigRefusal(f, id) = SendConfigReq(InitRestartCounter(f, MaxConfig))
    BY <1>0, <1>4 DEF RecvConfigRefusal
  <2>2. View(SendConfigReq(InitRestartCounter(f, MaxConfig)), fsm.state, fsm.started)
    BY <1>0, OtherView DEF View
  <2>3. QED
    BY <2>1, <2>2, Stutter DEF LayerStep
<1>5. CASE Expected(f, id) /\ fsm.state = "AckRcvd" /\ f.config > 0
  <2>1. RecvConfigRefusal(f, id) = SendConfigReq(NewState(f, "ReqSent"))
    BY <1>0, <1>5 DEF RecvConfigRefusal
  <2>2. View(SendConfigReq(NewState(f, "ReqSent")), "ReqSent", fsm.started)
    BY <1>0, NewStateView, OtherView DEF View
  <2>3. QED
    BY <1>5, <2>1, <2>2, Stutter, CoarseValues DEF LayerStep
<1>6. CASE Expected(f, id) /\ fsm.state = "Opened" /\ f.config > 0
  <2>1. RecvConfigRefusal(f, id) = SendConfigReq(NewState(LayerDown(f), "ReqSent"))
    BY <1>0, <1>6 DEF RecvConfigRefusal
  <2>2. View(SendConfigReq(NewState(LayerDown(f), "ReqSent")), "ReqSent", fsm.started)
    BY <1>0, NewStateView, OtherView DEF View
  <2>3. Layer!Go("Opened", "Negotiating")
    BY <1>6, <2>1, <2>2, GoStep, CoarseValues
  <2>4. QED
    BY <2>3 DEF LayerStep, Layer!Next, Layer!Renegotiate
<1>7. QED
  BY <1>0, <1>1, <1>2, <1>3, <1>4, <1>5, <1>6

\* A request in Stopped or Opened is answered as one in a negotiation: Stopped has
\* a new budget of refusals, so the answer is not a failure there.
LEMMA ReopenView ==
  ASSUME NEW f \in Fsms, f.state \in {"Stopped", "Opened"} \cup Negotiating
  PROVE  LET m == ReopenNegotiation(f) IN
         /\ f.state = "Stopped" => View(m, "Stopped", TRUE) /\ m.failure = MaxFailure
         /\ f.state = "Opened"  => View(m, "Opened", f.started)
         /\ f.state \in Negotiating => m = f
<1>0. Struct(f)
  BY DEF Struct, Fsms
<1>1. CASE f.state = "Stopped"
  <2> DEFINE h == LayerStart(Configure(f))
  <2>1. h \in Fsms
    BY ConfigureFields, LayerStartFields
  <2>2. View(h, "Stopped", TRUE)
    <3>1. View(Configure(f), "Stopped", f.started)
      BY <1>0, <1>1, OtherView DEF View
    <3>2. QED
      BY <3>1, StartedView
  <2>3. ReopenNegotiation(f) = SendConfigReq(InitCounters(h))
    BY <1>1 DEF ReopenNegotiation
  <2> HIDE DEF h
  <2>4. View(SendConfigReq(InitCounters(h)), "Stopped", TRUE)
    BY <2>2, OtherView DEF View
  <2>5. SendConfigReq(InitCounters(h)).failure = MaxFailure
    BY <2>1, InitCountersFields, SendConfigReqFields, FsmAssumption
  <2>6. QED
    BY <1>1, <2>3, <2>4, <2>5, FsmAssumption
<1>2. CASE f.state = "Opened"
  BY <1>0, <1>2, OtherView DEF ReopenNegotiation, View
<1>3. CASE f.state \in Negotiating
  BY <1>3 DEF ReopenNegotiation
<1>4. QED
  BY <1>1, <1>2, <1>3

\* FsmRecvConfigReq(): a new round, the end of this one, or a failure.
LEMMA ConfigReqLayered ==
  ASSUME NEW f \in Fsms, View(f, fsm.state, fsm.started), fsm.state \in States,
         NEW id, NEW v, NEW joins \in BOOLEAN, fsm' = RecvConfigReq(f, id, v, joins)
  PROVE  LayerStep
<1> DEFINE m == ReopenNegotiation(f)
<1>0. Struct(f) /\ f.state = fsm.state /\ f.started = fsm.started
  BY DEF View
<1>1. CASE fsm.state \in {"Initial", "Starting"} \cup Terminating
  <2>1. RecvConfigReq(f, id, v, joins) = f
    BY <1>0, <1>1 DEF RecvConfigReq
  <2>2. QED
    BY <2>1, Stutter DEF LayerStep
<1>2. CASE fsm.state = "Closed"
  <2>1. RecvConfigReq(f, id, v, joins) = SendTerminateAck(f)
    BY <1>0, <1>2 DEF RecvConfigReq
  <2>2. QED
    BY <1>0, <2>1, OtherView, Stutter DEF LayerStep
<1>3. ASSUME fsm.state \in {"Stopped", "Opened"} \cup Negotiating
      PROVE  LayerStep
  <2>1. /\ fsm.state = "Stopped" => View(m, "Stopped", TRUE) /\ m.failure = MaxFailure
        /\ fsm.state = "Opened"  => View(m, "Opened", fsm.started)
        /\ fsm.state \in Negotiating => m = f
    BY <1>0, <1>3, ReopenView
  <2>2. fsm' = AnswerConfigReq(m, id, v, joins)
    BY <1>0, <1>3 DEF RecvConfigReq
  <2> HIDE DEF m
  <2>3. /\ Struct(m) /\ m.state = fsm.state
        /\ fsm.state = "Stopped" => m.started = TRUE
        /\ fsm.state # "Stopped" => m.started = fsm.started
    BY <1>0, <1>3, <2>1 DEF View
  <2>4. ~(m.failure <= 0) \/ fsm.state # "Stopped"
    <3>1. CASE fsm.state = "Stopped"
      <4>1. m.failure = MaxFailure
        BY <2>1, <3>1
      <4>2. QED
        BY <4>1, FsmAssumption
    <3>2. QED
      BY <3>1
  <2>5. CASE v # "ConfigAck" /\ m.failure <= 0
    <3>1. fsm' = FsmFailure(m) /\ View(m, fsm.state, fsm.started)
      BY <2>2, <2>3, <2>4, <2>5 DEF AnswerConfigReq, View
    <3>2. QED
      BY <3>1, FailureLayered
  <2>6. CASE v = "ConfigAck"
    <3> DEFINE a == SendConfigAck(m, id)
    <3>1. fsm' = AfterConfigAckSent(a, joins)
      BY <2>2, <2>6 DEF AnswerConfigReq
    <3>2. View(a, fsm.state, m.started)
      BY <2>3, OtherView DEF View
    <3> HIDE DEF a
    <3>3. Struct(a) /\ a.state = fsm.state /\ a.started = m.started
      BY <3>2 DEF View
    <3>4. CASE fsm.state = "Stopped"
      <4>1. fsm' = NewState(a, "AckSent")
        BY <3>1, <3>3, <3>4 DEF AfterConfigAckSent
      <4>2. View(NewState(a, "AckSent"), "AckSent", TRUE)
        BY <2>3, <3>3, <3>4, NewStateView DEF View
      <4>3. Layer!GoStart("Stopped", "Negotiating")
        BY <3>4, <4>1, <4>2, StartStep, CoarseValues
      <4>4. QED
        BY <4>3 DEF LayerStep, Layer!Next, Layer!Renegotiate
    <3>5. CASE fsm.state \in {"Opened", "ReqSent"}
      <4>1. fsm' = NewState(a, "AckSent")
        BY <3>1, <3>3, <3>5 DEF AfterConfigAckSent
      <4>2. View(NewState(a, "AckSent"), "AckSent", fsm.started)
        BY <2>3, <3>3, <3>5, NewStateView DEF View
      <4>3. Layer!Go(Coarse(fsm.state), "Negotiating")
        BY <4>1, <4>2, GoStep, CoarseValues
      <4>4. CASE fsm.state = "Opened"
        BY <4>3, <4>4, CoarseValues DEF LayerStep, Layer!Next, Layer!Renegotiate
      <4>5. CASE fsm.state = "ReqSent"
        BY <4>1, <4>2, <4>5, Stutter, CoarseValues DEF LayerStep
      <4>6. QED
        BY <3>5, <4>4, <4>5
    <3>6. CASE fsm.state = "AckRcvd"
      <4> DEFINE n == NewStateOpened(a, joins)
      <4>1. fsm' = LayerUp(n)
        BY <3>1, <3>3, <3>6 DEF AfterConfigAckSent
      <4>2. View(n, "Opened", fsm.started) \/ (~Passive /\ View(n, "Opened", FALSE))
        BY <2>3, <3>3, <3>6, OpenedView
      <4> HIDE DEF n
      <4>3. View(LayerUp(n), "Opened", n.started)
        BY <4>2, OtherView DEF View
      <4>4. \/ View(LayerUp(n), "Opened", fsm.started)
            \/ ~Passive /\ View(LayerUp(n), "Opened", FALSE)
        BY <4>2, <4>3 DEF View
      <4>5. QED
        BY <3>6, <4>1, <4>4, OpeningStep
    <3>7. CASE fsm.state = "AckSent"
      <4>1. fsm' = a
        BY <3>1, <3>3, <3>7 DEF AfterConfigAckSent
      <4>2. QED
        BY <2>3, <3>2, <3>7, <4>1, Stutter DEF LayerStep
    <3>8. QED
      BY <1>3, <3>4, <3>5, <3>6, <3>7
  <2>7. CASE v # "ConfigAck" /\ ~(m.failure <= 0)
    <3> DEFINE a == SendConfigRefusal(m, v, id)
    <3>1. fsm' = AfterRefusalSent(a)
      BY <2>2, <2>7 DEF AnswerConfigReq
    <3>2. View(a, fsm.state, m.started)
      BY <2>3, OtherView DEF View
    <3> HIDE DEF a
    <3>3. Struct(a) /\ a.state = fsm.state /\ a.started = m.started
      BY <3>2 DEF View
    <3>4. CASE fsm.state = "Stopped"
      <4>1. fsm' = NewState(a, "ReqSent")
        BY <3>1, <3>3, <3>4 DEF AfterRefusalSent
      <4>2. View(NewState(a, "ReqSent"), "ReqSent", TRUE)
        BY <2>3, <3>3, <3>4, NewStateView DEF View
      <4>3. Layer!GoStart("Stopped", "Negotiating")
        BY <3>4, <4>1, <4>2, StartStep, CoarseValues
      <4>4. QED
        BY <4>3 DEF LayerStep, Layer!Next, Layer!Renegotiate
    <3>5. CASE fsm.state \in {"Opened", "AckSent"}
      <4>1. fsm' = NewState(a, "ReqSent")
        BY <3>1, <3>3, <3>5 DEF AfterRefusalSent
      <4>2. View(NewState(a, "ReqSent"), "ReqSent", fsm.started)
        BY <2>3, <3>3, <3>5, NewStateView DEF View
      <4>3. Layer!Go(Coarse(fsm.state), "Negotiating")
        BY <4>1, <4>2, GoStep, CoarseValues
      <4>4. CASE fsm.state = "Opened"
        BY <4>3, <4>4, CoarseValues DEF LayerStep, Layer!Next, Layer!Renegotiate
      <4>5. CASE fsm.state = "AckSent"
        BY <4>1, <4>2, <4>5, Stutter, CoarseValues DEF LayerStep
      <4>6. QED
        BY <3>5, <4>4, <4>5
    <3>6. CASE fsm.state \in {"ReqSent", "AckRcvd"}
      <4>1. fsm' = a
        BY <3>1, <3>3, <3>6 DEF AfterRefusalSent
      <4>2. QED
        BY <2>3, <3>2, <3>6, <4>1, Stutter DEF LayerStep
    <3>7. QED
      BY <1>3, <3>4, <3>5, <3>6
  <2>8. QED
    BY <2>5, <2>6, <2>7
<1>4. QED
  BY <1>1, <1>2, <1>3

----------------------------------------------------------------------------
(* The theorem. *)

\* Every step of the automaton is a step of FsmLayer or changes nothing the layers
\* around can see.
LEMMA StepLayered == ASSUME fsm \in Fsms, [Next]_vars PROVE LayerStep
<1> DEFINE f == Begin(fsm)
<1>0. f \in Fsms /\ View(f, fsm.state, fsm.started) /\ fsm.state \in States
  BY BeginView DEF Fsms
<1> HIDE DEF f
<1>1. CASE Open
  BY <1>0, <1>1, OpenLayered DEF Open, Becomes, f
<1>2. CASE Close
  BY <1>0, <1>2, CloseLayered DEF Close, Becomes, f
<1>3. CASE Up
  BY <1>0, <1>3, UpLayered DEF Up, Becomes, f
<1>4. CASE Down
  BY <1>0, <1>4, DownLayered DEF Down, Becomes, f
<1>5. CASE Timeout
  BY <1>0, <1>5, TimeoutLayered DEF Timeout, Handle, Becomes, f
<1>6. CASE EchoTimeout
  <2>1. PICK traffic \in BOOLEAN : fsm' = FsmEchoTimeout(f, traffic)
    BY <1>6 DEF EchoTimeout, Handle, Becomes, f
  <2>2. QED
    BY <1>0, <2>1, EchoTimeoutLayered
<1>7. CASE Failure
  BY <1>0, <1>7, FailureLayered DEF Failure, Handle, Becomes, f
<1>8. CASE ConfigReq
  <2>1. PICK id \in Ids, v \in Verdicts, joins \in BOOLEAN :
          fsm' = RecvConfigReq(f, id, v, joins)
    BY <1>8 DEF ConfigReq, Answer, f
  <2>2. QED
    BY <1>0, <2>1, ConfigReqLayered
<1>9. CASE ConfigAck
  <2>1. PICK id \in Ids, joins \in BOOLEAN : fsm' = RecvConfigAck(f, id, joins)
    BY <1>9 DEF ConfigAck, Answer, f
  <2>2. QED
    BY <1>0, <2>1, ConfigAckLayered
<1>10. CASE ConfigNakOrRej
  <2>1. PICK id \in Ids : fsm' = RecvConfigRefusal(f, id)
    BY <1>10 DEF ConfigNakOrRej, Handle, Becomes, f
  <2>2. QED
    BY <1>0, <2>1, ConfigRefusalLayered
<1>11. CASE TermReq
  BY <1>0, <1>11, TermReqLayered DEF TermReq, Handle, Becomes, f
<1>12. CASE TermAck
  BY <1>0, <1>12, TermAckLayered DEF TermAck, Handle, Becomes, f
<1>13. CASE RxjPlus
  BY <1>0, <1>13, RxjPlusLayered DEF RxjPlus, Handle, Becomes, f
<1>14. CASE UNCHANGED vars
  <2>1. UNCHANGED Layer!vars
    BY <1>14 DEF vars, Layer!vars, Coarse
  <2>2. QED
    BY <2>1 DEF LayerStep
<1>15. QED
  BY <1>1, <1>2, <1>3, <1>4, <1>5, <1>6, <1>7, <1>8, <1>9, <1>10, <1>11, <1>12,
     <1>13, <1>14 DEF Next

\* Whatever the peer and the layers around do, and for every limit and identifier
\* width, the automaton of fsm.c behaves towards its neighbours like FsmLayer.
THEOREM RefinesLayer == Spec => ImplementsLayer
<1>1. Init => Layer!Init
  BY DEF Init, FsmInit, Layer!Init, Coarse
<1>2. TypeOK /\ [Next]_vars => [Layer!Next]_(Layer!vars)
  BY StepLayered DEF TypeOK, LayerStep
<1>3. QED
  BY <1>1, <1>2, TypeCorrect, PTL DEF Spec, Layer!Spec, ImplementsLayer

----------------------------------------------------------------------------
(* Two ends (Nego): types, and what a session took comes back.             *)
(*                                                                         *)
(* Every end keeps a struct that is Sound, whatever it exchanges with the  *)
(* other.  To that NegoInv adds what ties the options to it: a leased      *)
(* address is the only one its holder grants, so that no request changes   *)
(* it, and a node was made for the type that is still chosen, so that      *)
(* LayerDown() finds it.                                                   *)

\* A pool's first free address is one of them.
LEMMA LeastAddress ==
  ASSUME NEW S, S \subseteq Nat, S # {}
  PROVE  Min(S) \in S
<1>1. PICK x \in S : \A y \in S : ~ (<< y, x >> \in OpToRel(<, Nat))
  BY NatLessThanWellFounded, WFMin
<1>2. ASSUME NEW y \in S PROVE x <= y
  <2>1. SUFFICES ASSUME y < x PROVE FALSE
    BY x \in Nat, y \in Nat
  <2>2. << y, x >> \in Nat \X Nat
    OBVIOUS
  <2>3. << y, x >> \in OpToRel(<, Nat)
    BY <2>1, <2>2, Zenon DEF OpToRel
  <2>4. QED
    BY <1>1, <2>3
<1>3. QED
  BY <1>2 DEF Min

\* The packets of a queue.
OnWay(q) ==
  \E S : q \in Seq(S) /\ \A m \in S : [code |-> m.code, id |-> m.id] \in Packets

IpcpFine(c, o) ==
  /\ {"peer", "his", "used", "free"} \subseteq DOMAIN o
  /\ o.used \in BOOLEAN
  /\ o.used  => o.his \notin o.free /\ o.free \cup {o.his} = c.pool /\ o.peer.all = {o.his}
  /\ ~o.used => o.free = c.pool

CcpFine(o) == {"xmit", "nodes"} \subseteq DOMAIN o

\* The layer leases and does not pretend.
Leases(p) == deal.protocol = "ipcp" /\ ~Conf(p).pretend

OptFine(p, o) ==
  /\ Leases(p) => IpcpFine(Conf(p), o)
  /\ deal.protocol = "ccp" => CcpFine(o)

EndFine(p) ==
  /\ OptFine(p, opt[p])
  /\ Leases(p) /\ opt[p].used => ends[p].configured
  /\ deal.protocol = "ccp" /\ "comp" \in opt[p].nodes => ends[p].up /\ opt[p].xmit # NoType

NegoInv ==
  /\ deal \in Deals /\ faults \in 0 .. deal.faults
  /\ ends \in [Peers -> Fsms] /\ DOMAIN opt = Peers /\ DOMAIN net = Peers
  /\ \A p \in Peers : /\ Sound(ends[p]) /\ ends[p].out = << >>
                      /\ OnWay(net[p])
                      /\ EndFine(p)

----------------------------------------------------------------------------
(* The methods of IPCP and CCP. *)

\* IpcpConfigure() takes the lease, and grants nothing else.
LEMMA IpcpConfigureFine ==
  ASSUME NEW c, NEW o, c.pool \subseteq Nat, IpcpFine(c, o), ~o.used
  PROVE  IpcpFine(c, IpcpConfigure(c, o))
<1>1. o.free # {} => Min(o.free) \in o.free
  BY LeastAddress DEF IpcpFine
<1>2. QED
  BY <1>1 DEF IpcpFine, IpcpConfigure, Addresses

\* IpcpUnConfigure() gives it back.
LEMMA IpcpUnConfigureFine ==
  ASSUME NEW c, NEW o, IpcpFine(c, o)
  PROVE  IpcpFine(c, IpcpUnConfigure(c, o)) /\ ~IpcpUnConfigure(c, o).used
BY DEF IpcpFine, IpcpUnConfigure

\* Decoding a request leaves it alone: the leased address is the only one granted.
LEMMA IpcpDecodeReqFine ==
  ASSUME NEW c, NEW o, NEW req, IpcpFine(c, o), ~c.pretend
  PROVE  LET d == IpcpDecodeReq(c, o, req).opt
         IN  IpcpFine(c, d) /\ d.used = o.used
BY DEF IpcpFine, IpcpDecodeReq

\* So do the other methods.
LEMMA IpcpOthersFine ==
  ASSUME NEW c, NEW o, IpcpFine(c, o)
  PROVE  /\ IpcpFine(c, IpcpLayerUp(o)) /\ IpcpLayerUp(o).used = o.used
         /\ \A nak : /\ IpcpFine(c, IpcpDecodeNak(c, o, nak))
                     /\ IpcpDecodeNak(c, o, nak).used = o.used
         /\ \A rej : /\ IpcpFine(c, IpcpDecodeRej(o, rej))
                     /\ IpcpDecodeRej(o, rej).used = o.used
<1>1. IpcpFine(c, IpcpLayerUp(o)) /\ IpcpLayerUp(o).used = o.used
  BY DEF IpcpFine, IpcpLayerUp
<1>2. ASSUME NEW nak
      PROVE  IpcpFine(c, IpcpDecodeNak(c, o, nak)) /\ IpcpDecodeNak(c, o, nak).used = o.used
  BY DEF IpcpFine, IpcpDecodeNak
<1>3. ASSUME NEW rej
      PROVE  IpcpFine(c, IpcpDecodeRej(o, rej)) /\ IpcpDecodeRej(o, rej).used = o.used
  BY DEF IpcpFine, IpcpDecodeRej
<1>4. QED
  BY <1>1, <1>2, <1>3

\* What is decoded neither changes the type of CCP's compressor nor the nodes.
LEMMA CcpDecodeFine ==
  ASSUME NEW o, CcpFine(o)
  PROVE  /\ \A c, req : LET d == CcpDecodeReq(c, o, req).opt
                        IN  CcpFine(d) /\ d.nodes = o.nodes /\ d.xmit = o.xmit
         /\ \A nak : LET d == CcpDecodeNak(o, nak)
                     IN  CcpFine(d) /\ d.nodes = o.nodes /\ d.xmit = o.xmit
         /\ \A rej : LET d == CcpDecodeRej(o, rej)
                     IN  CcpFine(d) /\ d.nodes = o.nodes /\ d.xmit = o.xmit
<1>1. ASSUME NEW c, NEW req
      PROVE  LET d == CcpDecodeReq(c, o, req).opt
             IN  CcpFine(d) /\ d.nodes = o.nodes /\ d.xmit = o.xmit
  <2>1. \E r, s, t : CcpDecodeReq(c, o, req).opt
                       = [o EXCEPT !.recv = r, !.selfRej = s, !.rbits = t]
    BY DEF CcpDecodeReq
  <2>2. QED
    BY <2>1 DEF CcpFine
<1>2. ASSUME NEW nak
      PROVE  LET d == CcpDecodeNak(o, nak)
             IN  CcpFine(d) /\ d.nodes = o.nodes /\ d.xmit = o.xmit
  BY DEF CcpFine, CcpDecodeNak
<1>3. ASSUME NEW rej
      PROVE  LET d == CcpDecodeRej(o, rej)
             IN  CcpFine(d) /\ d.nodes = o.nodes /\ d.xmit = o.xmit
  BY DEF CcpFine, CcpDecodeRej
<1>4. QED
  BY <1>1, <1>2, <1>3

\* Configuring and asking change the type, not the nodes.
LEMMA CcpBuildFine ==
  ASSUME NEW c, NEW o, CcpFine(o)
  PROVE  /\ CcpFine(CcpConfigure(c, o)) /\ CcpConfigure(c, o).nodes = o.nodes
         /\ CcpFine(CcpUnConfigure(o)) /\ CcpUnConfigure(o).nodes = o.nodes
         /\ CcpFine(CcpBuild(c, o).opt) /\ CcpBuild(c, o).opt.nodes = o.nodes
BY DEF CcpFine, CcpConfigure, CcpUnConfigure, CcpBuild, CcpZero

\* LayerUp() makes the node of a type that is chosen, LayerDown() removes it.
LEMMA CcpLayerFine ==
  ASSUME NEW o, CcpFine(o)
  PROVE  /\ CcpFine(CcpLayerUp(o).opt) /\ CcpLayerUp(o).opt.xmit = o.xmit
         /\ "comp" \in CcpLayerUp(o).opt.nodes /\ "comp" \notin o.nodes => o.xmit # NoType
         /\ CcpFine(CcpLayerDown(o))
         /\ "comp" \in CcpLayerDown(o).nodes => "comp" \in o.nodes /\ o.xmit = NoType
BY DEF CcpFine, CcpLayerUp, CcpLayerDown
----------------------------------------------------------------------------
(* What the handlers of packets do in two states. *)

\* Where an answer to a request leads from Stopped, and that Opened is left.
LEMMA RequestLeaves ==
  ASSUME NEW f, Sound(f), NEW id \in Ids, NEW v \in Verdicts
  PROVE  LET g == RecvConfigReq(f, id, v, TRUE) IN
         /\ f.state = "Stopped" => g.configured
         /\ f.state = "Opened"  => g.state # "Opened"
<1> DEFINE m == ReopenNegotiation(f)
<1>0. f \in Fsms
  BY DEF Sound, SoundIn, SoundUntimed
<1>1. SUFFICES ASSUME f.state \in {"Stopped", "Opened"}
               PROVE  RecvConfigReq(f, id, v, TRUE).state \in
                        IF f.state = "Stopped" THEN {"AckSent", "ReqSent"}
                        ELSE {"AckSent", "ReqSent", "Stopping"}
  BY PlainSound DEF Sound, SoundIn, SoundUntimed
<1>2. /\ Struct(m) /\ m.state = f.state
      /\ f.state = "Stopped" => m.failure = MaxFailure
  BY <1>0, <1>1, ReopenView DEF View
<1> HIDE DEF m
<1>3. RecvConfigReq(f, id, v, TRUE) = AnswerConfigReq(m, id, v, TRUE)
  BY <1>1 DEF RecvConfigReq, m
<1>4. CASE v = "ConfigAck"
  <2> DEFINE a == SendConfigAck(m, id)
  <2>1. Struct(a) /\ a.state = m.state
    BY <1>2, OtherView DEF View
  <2>a. AnswerConfigReq(m, id, v, TRUE) = AfterConfigAckSent(a, TRUE)
    BY <1>4 DEF AnswerConfigReq
  <2> HIDE DEF a
  <2>2. AnswerConfigReq(m, id, v, TRUE) = NewState(a, "AckSent")
    BY <1>1, <1>2, <2>a, <2>1 DEF AfterConfigAckSent
  <2>3. NewState(a, "AckSent").state = "AckSent"
    BY <2>1, NewStateView DEF View
  <2>4. QED
    BY <1>3, <2>2, <2>3
<1>5. CASE v # "ConfigAck" /\ m.failure <= 0
  <2>1. m.state = "Opened"
    BY <1>1, <1>2, <1>5, FsmAssumption
  <2>2. FsmFailure(m).state = "Stopping"
    BY <1>2, <2>1, FailureView DEF View
  <2>3. QED
    BY <1>2, <1>3, <1>5, <2>1, <2>2 DEF AnswerConfigReq
<1>6. CASE v # "ConfigAck" /\ ~(m.failure <= 0)
  <2> DEFINE r == SendConfigRefusal(m, v, id)
  <2>1. Struct(r) /\ r.state = m.state
    BY <1>2, OtherView DEF View
  <2>a. AnswerConfigReq(m, id, v, TRUE) = AfterRefusalSent(r)
    BY <1>6 DEF AnswerConfigReq
  <2> HIDE DEF r
  <2>2. AnswerConfigReq(m, id, v, TRUE) = NewState(r, "ReqSent")
    BY <1>1, <1>2, <2>a, <2>1 DEF AfterRefusalSent
  <2>3. NewState(r, "ReqSent").state = "ReqSent"
    BY <2>1, NewStateView DEF View
  <2>4. QED
    BY <1>3, <2>2, <2>3
<1>7. QED
  BY <1>4, <1>5, <1>6

\* Other packets leave Opened, or do nothing.
LEMMA RepliesLeave ==
  ASSUME NEW f, Sound(f), f.state = "Opened", NEW id
  PROVE  /\ RecvConfigAck(f, id, TRUE) = f \/ RecvConfigAck(f, id, TRUE).state # "Opened"
         /\ RecvConfigRefusal(f, id) = f \/ RecvConfigRefusal(f, id).state # "Opened"
         /\ RecvTermReq(f).state # "Opened" /\ RecvTermAck(f).state # "Opened"
<1>0. Struct(f) /\ f.config \in Int
  BY DEF Sound, SoundIn, SoundUntimed, Fsms, Struct
<1>1. RecvConfigAck(f, id, TRUE) = f \/ RecvConfigAck(f, id, TRUE).state # "Opened"
  <2>1. SendConfigReq(LayerDown(NewState(f, "ReqSent"))).state = "ReqSent"
    BY <1>0, NewStateView, OtherView DEF View
  <2>2. QED
    BY <2>1 DEF RecvConfigAck
<1>2. RecvConfigRefusal(f, id) = f \/ RecvConfigRefusal(f, id).state # "Opened"
  <2>1. SendConfigReq(NewState(LayerDown(f), "ReqSent")).state = "ReqSent"
    BY <1>0, NewStateView, OtherView DEF View
  <2>2. FsmFailure(f).state = "Stopping"
    BY <1>0, FailureView DEF View
  <2>3. QED
    BY <2>1, <2>2 DEF RecvConfigRefusal
<1>3. RecvTermReq(f).state # "Opened"
  <2> DEFINE g == InitRestartCounter(LayerDown(SendTerminateAck(NewState(f, "Stopping"))), 0)
  <2>1. View(LayerDown(SendTerminateAck(NewState(f, "Stopping"))), "Stopping", f.started)
    BY <1>0, NewStateView, OtherView DEF View
  <2>2. View(g, "Stopping", f.started)
    BY <2>1, OtherView DEF View
  <2>3. View([g EXCEPT !.timer = TRUE], "Stopping", f.started)
    BY <2>2, TimerView DEF View
  <2>4. View(UnConfigure([g EXCEPT !.timer = TRUE]), "Stopping", f.started)
    BY <2>3, OtherView DEF View
  <2>5. RecvTermReq(f) = UnConfigure([g EXCEPT !.timer = TRUE])
    BY <1>0 DEF RecvTermReq
  <2>6. QED
    BY <2>4, <2>5 DEF View
<1>4. RecvTermAck(f).state # "Opened"
  <2>1. SendConfigReq(LayerDown(NewState(f, "ReqSent"))).state = "ReqSent"
    BY <1>0, NewStateView, OtherView DEF View
  <2>2. QED
    BY <2>1 DEF RecvTermAck
<1>5. QED
  BY <1>1, <1>2, <1>3, <1>4
----------------------------------------------------------------------------
(* The packets on their way. *)

\* A queue takes what the automaton sends, up to its capacity.
LEMMA QueueGrows ==
  ASSUME NEW q, OnWay(q), NEW out \in Seq(Packets), NEW s,
         s = [i \in DOMAIN out |-> s[i]],
         \A i \in DOMAIN out : s[i].code = out[i].code /\ s[i].id = out[i].id,
         NEW n \in Nat
  PROVE  OnWay(SubSeq(q \o s, 1, IF Len(q \o s) < n THEN Len(q \o s) ELSE n))
<1>1. PICK S : q \in Seq(S) /\ \A m \in S : [code |-> m.code, id |-> m.id] \in Packets
  BY DEF OnWay
<1> DEFINE T == {s[i] : i \in DOMAIN out}
           U == S \cup T
           qs == q \o s
<1>2. s \in Seq(T)
  <2>1. DOMAIN out = 1 .. Len(out) /\ Len(out) \in Nat
    OBVIOUS
  <2>2. s \in [1 .. Len(out) -> T]
    BY <2>1
  <2>3. QED
    BY <2>1, <2>2
<1>3. ASSUME NEW m \in U PROVE [code |-> m.code, id |-> m.id] \in Packets
  <2>1. CASE m \in S
    BY <1>1, <2>1
  <2>2. CASE m \in T
    <3>1. PICK i \in DOMAIN out : m = s[i]
      BY <2>2
    <3>2. out[i] \in Packets
      OBVIOUS
    <3>3. QED
      BY <3>1, <3>2 DEF Packets
  <2>3. QED
    BY <2>1, <2>2
<1>4. q \in Seq(U) /\ s \in Seq(U)
  BY <1>1, <1>2
<1> HIDE DEF U
<1>5. qs \in Seq(U) /\ Len(qs) \in Nat
  BY <1>4, ConcatProperties
<1> HIDE DEF qs
<1>6. ASSUME NEW k \in Nat, k <= Len(qs) PROVE SubSeq(qs, 1, k) \in Seq(U)
  <2>1. \A i \in 1 .. k : qs[i] \in U
    BY <1>5, <1>6
  <2>2. QED
    BY <1>5, <1>6, <2>1, SubSeqProperties
<1>7. SubSeq(qs, 1, IF Len(qs) < n THEN Len(qs) ELSE n) \in Seq(U)
  BY <1>5, <1>6
<1>8. QED
  BY <1>3, <1>7 DEF OnWay, qs

\* The oldest packet is one of those that were sent.
LEMMA QueueShrinks ==
  ASSUME NEW q, OnWay(q), q # << >>
  PROVE  OnWay(Tail(q)) /\ Head(q).code \in Codes /\ Head(q).id \in Ids
<1>1. PICK S : q \in Seq(S) /\ \A m \in S : [code |-> m.code, id |-> m.id] \in Packets
  BY DEF OnWay
<1>2. Head(q) \in S /\ Tail(q) \in Seq(S)
  BY <1>1, HeadTailProperties
<1>3. QED
  BY <1>1, <1>2 DEF OnWay, Packets

\* A link that was cut carries nothing.
LEMMA EmptyQueue == OnWay(<< >>)
<1> DEFINE S == {}
<1>1. << >> \in Seq(S) /\ \A m \in S : [code |-> m.code, id |-> m.id] \in Packets
  OBVIOUS
<1> HIDE DEF S
<1>2. QED
  BY <1>1 DEF OnWay

----------------------------------------------------------------------------
(* A step of one end. *)

\* Whatever the handler did, the options are as the invariant wants them when the layer's
\* methods have been called in the order of Step.
LEMMA StepKeeps ==
  ASSUME NegoInv, NEW p \in Peers, NEW goal, NEW o, NEW answer, NEW early, NEW in,
         Step(p, goal, o, answer, early, in), faults' \in 0 .. deal.faults,
         Sound(goal),
         goal.state = "Opened" /\ ends[p].state = "Opened" => goal.out = << >>,
         OptFine(p, o),
         Leases(p) /\ o.used => goal.configured \/ ends[p].configured,
         deal.protocol = "ccp" =>
           o.nodes = opt[p].nodes /\ (ends[p].up => o.xmit = opt[p].xmit),
         DOMAIN in = Peers, \A q \in Peers : OnWay(in[q])
  PROVE  NegoInv'
<1> DEFINE f     == ends[p]
           down  == IF f.up /\ ~goal.up THEN WentDown(o, early) ELSE o
           built == IF Sends(goal, "ConfigReq") THEN Built(p, down, f.reqid)
                    ELSE [opt |-> down, req |-> asked[p]]
           up    == IF ~f.up /\ goal.up THEN WentUp(built.opt)
                    ELSE [opt |-> built.opt, ok |-> TRUE]
           g     == IF up.ok THEN goal ELSE FsmFailure(goal)
           left  == IF up.ok THEN up.opt ELSE WentDown(up.opt, FALSE)
           final == IF f.configured /\ ~g.configured THEN Unconfigured(p, left) ELSE left
           sent  == [i \in DOMAIN g.out |->
                       [code |-> g.out[i].code, id |-> g.out[i].id,
                        body |-> CASE g.out[i].code = "ConfigReq" -> built.req
                                   [] g.out[i].code \in {"ConfigNak", "ConfigRej"} -> answer
                                   [] OTHER -> << >>]]
           queue == in[Other(p)] \o sent
<1>1. /\ ends' = [ends EXCEPT ![p] = Begin(g)]
      /\ opt' = [opt EXCEPT ![p] = final]
      /\ net' = [in EXCEPT ![Other(p)] =
                   SubSeq(queue, 1, IF Len(queue) < Capacity THEN Len(queue) ELSE Capacity)]
      /\ deal' = deal
  BY DEF Step
<1>2. Sound(f)
  BY DEF NegoInv
<1>3. Sound(g)
  <2>1. Sound(FsmFailure(goal))
    BY FailureSound DEF Sound, SoundIn
  <2>2. QED
    BY <2>1
<1>4. /\ Sound(Begin(g)) /\ Begin(g).out = << >> /\ Begin(g) \in Fsms
      /\ Begin(g).up = g.up /\ Begin(g).configured = g.configured
  <2> HIDE DEF g
  <2> QED
    BY ONLY <1>3, BeginAgain
<1>5. ends' \in [Peers -> Fsms]
  BY <1>1, <1>4 DEF NegoInv
<1>6. ASSUME NEW q \in Peers PROVE OnWay(net'[q])
  <2>1. g.out \in Seq(Packets)
    BY <1>3 DEF Sound, SoundIn, SoundUntimed, Fsms
  <2>2. ASSUME q = Other(p) PROVE OnWay(net'[q])
    <3>1. /\ sent = [i \in DOMAIN g.out |-> sent[i]]
          /\ \A i \in DOMAIN g.out : sent[i].code = g.out[i].code /\ sent[i].id = g.out[i].id
      OBVIOUS
    <3> HIDE DEF sent, g
    <3>2. Capacity \in Nat
      BY NegoAssumption
    <3>3. OnWay(SubSeq(queue, 1, IF Len(queue) < Capacity THEN Len(queue) ELSE Capacity))
      BY <2>1, <2>2, <3>1, <3>2, QueueGrows
    <3> HIDE DEF queue
    <3>4. QED
      BY <1>1, <2>2, <3>3
  <2> HIDE DEF queue
  <2>3. QED
    BY <1>1, <2>2
<1> HIDE DEF sent, queue
<1>7. ASSUME Leases(p)
      PROVE  IpcpFine(Conf(p), final) /\ (final.used => g.configured)
  <2>1. deal.protocol = "ipcp" /\ IpcpFine(Conf(p), o)
    BY <1>7 DEF Leases, OptFine
  <2>2. down = o /\ built.opt = o
    BY <2>1 DEF WentDown, Built
  <2> HIDE DEF built
  <2>3. up.ok /\ (up.opt = o \/ up.opt = IpcpLayerUp(o))
    BY <2>1, <2>2 DEF WentUp
  <2>4. left = up.opt /\ g = goal
    BY <2>3
  <2> HIDE DEF up, left, g
  <2>5. IpcpFine(Conf(p), left) /\ left.used = o.used
    BY <2>1, <2>3, <2>4, IpcpOthersFine
  <2>6. CASE f.configured /\ ~g.configured
    <3>1. final = IpcpUnConfigure(Conf(p), left)
      BY <2>1, <2>6 DEF Unconfigured
    <3>2. QED
      BY <2>5, <3>1, IpcpUnConfigureFine
  <2>7. CASE ~(f.configured /\ ~g.configured)
    BY <1>7, <2>4, <2>5, <2>7
  <2>8. QED
    BY <2>6, <2>7
<1>8. ASSUME deal.protocol = "ccp"
      PROVE  /\ CcpFine(final)
             /\ "comp" \in final.nodes => g.up /\ final.xmit # NoType
  <2>1. CcpFine(o) /\ ("comp" \in o.nodes => f.up /\ o.xmit # NoType)
    BY <1>8 DEF OptFine, NegoInv, EndFine
  <2>2. /\ CcpFine(down)
        /\ "comp" \in down.nodes => goal.up /\ f.up /\ down.xmit # NoType
    BY <1>8, <2>1, CcpLayerFine DEF WentDown
  <2> HIDE DEF down
  <2>3. /\ CcpFine(built.opt)
        /\ "comp" \in built.opt.nodes => goal.up /\ f.up /\ built.opt.xmit # NoType
    <3>1. CASE Sends(goal, "ConfigReq")
      <4>1. ~(goal.up /\ f.up)
        <5>1. goal.out # << >>
          BY <3>1 DEF Sends
        <5>2. QED
          BY <5>1, <1>2 DEF Sound, SoundIn, SoundUntimed
      <4>2. built.opt = CcpBuild(Conf(p), down).opt
        BY <1>8, <3>1 DEF Built
      <4>3. QED
        BY <2>2, <4>1, <4>2, CcpBuildFine
    <3>2. CASE ~Sends(goal, "ConfigReq")
      BY <2>2, <3>2
    <3>3. QED
      BY <3>1, <3>2
  <2> HIDE DEF built
  <2>4. /\ CcpFine(up.opt)
        /\ "comp" \in up.opt.nodes => goal.up /\ up.opt.xmit # NoType
    BY <1>8, <2>3, CcpLayerFine DEF WentUp
  <2>5. ~up.ok => ~f.up /\ goal.up
    OBVIOUS
  <2> HIDE DEF up
  <2>6. /\ CcpFine(left)
        /\ "comp" \in left.nodes => g.up /\ left.xmit # NoType
    BY <1>8, <2>4, CcpLayerFine DEF WentDown
  <2> HIDE DEF left
  <2>7. CASE f.configured /\ ~g.configured
    <3>1. final = CcpUnConfigure(left)
      BY <1>8, <2>7 DEF Unconfigured
    <3>2. ~g.up
      BY <1>3, <2>7 DEF Sound, SoundIn, SoundUntimed
    <3>3. QED
      BY <2>6, <3>1, <3>2, CcpBuildFine
  <2>8. CASE ~(f.configured /\ ~g.configured)
    BY <2>6, <2>8
  <2>9. QED
    BY <2>7, <2>8
<1> HIDE DEF g, final
<1>9. ASSUME NEW q \in Peers PROVE EndFine(q)'
  <2>1. CASE q = p
    BY <1>1, <1>4, <1>7, <1>8, <2>1 DEF NegoInv, EndFine, OptFine, Leases, Conf
  <2>2. CASE q # p
    BY <1>1, <2>2 DEF NegoInv, EndFine, OptFine, Leases, Conf
  <2>3. QED
    BY <2>1, <2>2
<1>10. ASSUME NEW q \in Peers PROVE Sound(ends'[q]) /\ ends'[q].out = << >>
  BY <1>1, <1>4 DEF NegoInv
<1>11. DOMAIN opt' = Peers /\ DOMAIN net' = Peers
  BY <1>1 DEF NegoInv
<1>12. deal' \in Deals /\ faults' \in 0 .. deal'.faults
  BY <1>1 DEF NegoInv
<1>13. QED
  BY <1>5, <1>6, <1>9, <1>10, <1>11, <1>12 DEF NegoInv

----------------------------------------------------------------------------
(* The invariant. *)

\* Both ends start with nothing taken.
LEMMA NegoStarts == NegoInit => NegoInv
<1> SUFFICES ASSUME NegoInit PROVE NegoInv
  OBVIOUS
<1>1. deal \in Deals /\ deal.faults \in Nat /\ faults = deal.faults
  BY NegoAssumption DEF NegoInit
<1>2. Sound(FsmInit) /\ FsmInit \in Fsms /\ FsmInit.out = << >>
  BY InitSound DEF Sound, SoundIn, SoundUntimed, FsmInit
<1>3. ends \in [Peers -> Fsms] /\ DOMAIN opt = Peers /\ DOMAIN net = Peers
  BY <1>2 DEF NegoInit
<1>4. ASSUME NEW p \in Peers
      PROVE  Sound(ends[p]) /\ ends[p].out = << >> /\ OnWay(net[p]) /\ EndFine(p)
  <2>1. Sound(ends[p]) /\ ends[p].out = << >> /\ OnWay(net[p])
    BY <1>2, EmptyQueue DEF NegoInit
  <2>2. ASSUME Leases(p) PROVE IpcpFine(Conf(p), opt[p]) /\ ~opt[p].used
    <3>1. opt[p] = IpcpZero(Conf(p))
      BY <2>2 DEF NegoInit, Leases, Conf, Zero
    <3>2. QED
      BY <3>1 DEF IpcpZero, IpcpFine
  <2>3. ASSUME deal.protocol = "ccp" PROVE CcpFine(opt[p]) /\ "comp" \notin opt[p].nodes
    <3>1. opt[p] = CcpZero
      BY <2>3 DEF NegoInit, Zero
    <3>2. QED
      BY <3>1 DEF CcpZero, CcpFine
  <2>4. QED
    BY <2>1, <2>2, <2>3 DEF EndFine, OptFine
<1>5. QED
  BY <1>1, <1>3, <1>4 DEF NegoInv

\* What Configure makes of the options of an end that has none in force.
LEMMA ConfiguredFine ==
  ASSUME NegoInv, NEW p \in Peers, ~ends[p].configured
  PROVE  /\ OptFine(p, Configured(p))
         /\ deal.protocol = "ccp" => Configured(p).nodes = opt[p].nodes
<1>1. EndFine(p) /\ deal \in Deals
  BY DEF NegoInv
<1>2. ASSUME Leases(p) PROVE IpcpFine(Conf(p), Configured(p))
  <2>1. Conf(p).pool \subseteq Nat
    BY <1>1, <1>2, NegoAssumption DEF Leases, Conf
  <2>2. IpcpFine(Conf(p), opt[p]) /\ ~opt[p].used
    BY <1>1, <1>2 DEF EndFine, OptFine
  <2>3. Configured(p) = IpcpConfigure(Conf(p), opt[p])
    BY <1>2 DEF Leases, Configured
  <2>4. QED
    BY <2>1, <2>2, <2>3, IpcpConfigureFine
<1>3. ASSUME deal.protocol = "ccp"
      PROVE  CcpFine(Configured(p)) /\ Configured(p).nodes = opt[p].nodes
  <2>1. CcpFine(opt[p])
    BY <1>1, <1>3 DEF EndFine, OptFine
  <2>2. Configured(p) = CcpConfigure(Conf(p), opt[p])
    BY <1>3 DEF Configured
  <2>3. QED
    BY <2>1, <2>2, CcpBuildFine
<1>4. QED
  BY <1>2, <1>3 DEF OptFine

\* A step that decodes nothing and keeps the configuration.
LEMMA PlainStepKeeps ==
  ASSUME NegoInv, NEW p \in Peers, NEW goal, NEW early, NEW in,
         Step(p, goal, opt[p], << >>, early, in), faults' \in 0 .. deal.faults,
         Sound(goal),
         goal.state = "Opened" /\ ends[p].state = "Opened" => goal.out = << >>,
         DOMAIN in = Peers, \A q \in Peers : OnWay(in[q])
  PROVE  NegoInv'
<1>1. EndFine(p)
  BY DEF NegoInv
<1>2. OptFine(p, opt[p]) /\ (Leases(p) /\ opt[p].used => ends[p].configured)
  BY <1>1 DEF EndFine
<1>3. QED
  BY <1>2, StepKeeps

\* A step that configures the layer first.
LEMMA ConfiguringStepKeeps ==
  ASSUME NegoInv, NEW p \in Peers, NEW goal, NEW in,
         Step(p, goal, Configured(p), << >>, FALSE, in), faults' \in 0 .. deal.faults,
         Sound(goal), ~ends[p].configured, goal.configured, ~ends[p].up,
         DOMAIN in = Peers, \A q \in Peers : OnWay(in[q])
  PROVE  NegoInv'
<1>1. Sound(ends[p])
  BY DEF NegoInv
<1>2. ends[p].state # "Opened"
  BY <1>1 DEF Sound, SoundIn, SoundUntimed
<1>3. QED
  BY <1>2, ConfiguredFine, StepKeeps

\* Administrator, carrier and timer.
LEMMA EventsKeep ==
  ASSUME NegoInv, NEW p \in Peers,
         EndOpen(p) \/ EndClose(p) \/ EndUp(p) \/ EndDown(p) \/ EndTimeout(p) \/ Lose(p)
  PROVE  NegoInv'
<1> DEFINE f == ends[p]
<1>1. /\ Sound(f) /\ EndFine(p) /\ DOMAIN net = Peers /\ \A q \in Peers : OnWay(net[q])
      /\ faults \in 0 .. deal.faults /\ deal \in Deals /\ deal.faults \in Nat
  BY NegoAssumption DEF NegoInv
<1> HIDE DEF f
<1>2. /\ f.up <=> f.state = "Opened"
      /\ f.configured <=> f.state \in Negotiating \cup {"Opened"}
      /\ f.state \in States
  BY <1>1 DEF Sound, SoundIn, SoundUntimed, Fsms
<1> DEFINE dropped == [net EXCEPT ![p] = << >>]
<1>3. DOMAIN dropped = Peers /\ \A q \in Peers : OnWay(dropped[q])
  BY <1>1, EmptyQueue
<1>4. Spend => faults' \in 0 .. deal.faults
  BY <1>1 DEF Spend
<1> HIDE DEF dropped
<1>5. CASE EndOpen(p)
  <2>1. Sound(FsmOpen(f)) /\ FsmOpen(f).state \in OPEN_STATE
    BY <1>1, PlainSound, OpenSound DEF Sound
  <2>2. f.state # "Opened" /\ faults' \in 0 .. deal.faults
    BY <1>1, <1>5 DEF EndOpen, OPEN_STATE, f
  <2>3. CASE f.state = "Closed"
    <3>1. Step(p, FsmOpen(f), Configured(p), << >>, FALSE, net)
      BY <1>5, <2>3 DEF EndOpen, f
    <3>2. FsmOpen(f).configured
      <4>1. View(FsmOpen(f), "ReqSent", TRUE)
        <5>0. Struct(f)
          BY <1>1 DEF Struct, Sound, SoundIn, SoundUntimed, Fsms
        <5>1. Struct(Configure(f))
          BY <5>0, OtherView DEF View
        <5>2. View(LayerStart(NewState(Configure(f), "ReqSent")), "ReqSent", TRUE)
          <6>1. \E st : View(NewState(Configure(f), "ReqSent"), "ReqSent", st)
            BY <5>1, NewStateView
          <6>2. QED
            BY <6>1, StartedView
        <5>3. View(InitCounters(LayerStart(NewState(Configure(f), "ReqSent"))), "ReqSent", TRUE)
          BY <5>2, OtherView DEF View
        <5>4. View(SendConfigReq(InitCounters(LayerStart(NewState(Configure(f), "ReqSent")))),
                   "ReqSent", TRUE)
          BY <5>3, OtherView DEF View
        <5>5. QED
          BY <2>3, <5>4 DEF FsmOpen
      <4>2. QED
        BY <2>1, <4>1 DEF View, Sound, SoundIn, SoundUntimed
    <3>3. ~f.configured /\ ~f.up
      BY <1>2, <2>3
    <3>4. QED
      BY <1>1, <2>1, <2>2, <3>1, <3>2, <3>3, ConfiguringStepKeeps DEF f
  <2>4. CASE f.state # "Closed"
    <3>1. Step(p, FsmOpen(f), opt[p], << >>, FALSE, net)
      BY <1>5, <2>4 DEF EndOpen, f
    <3>2. QED
      BY <1>1, <2>1, <2>2, <3>1, PlainStepKeeps DEF f
  <2>5. QED
    BY <2>3, <2>4
<1>6. CASE EndClose(p)
  <2>1. Sound(FsmClose(f)) /\ FsmClose(f).state # "Opened"
    BY <1>1, PlainSound, CloseSound DEF Sound, OPEN_STATE
  <2>2. Step(p, FsmClose(f), opt[p], << >>, FALSE, net) /\ faults' \in 0 .. deal.faults
    BY <1>4, <1>6 DEF EndClose, f
  <2>3. QED
    BY <1>1, <2>1, <2>2, PlainStepKeeps
<1>7. CASE EndUp(p)
  <2>1. Sound(FsmUp(f)) /\ FsmUp(f).state \notin Dead
    BY <1>1, PlainSound, UpSound DEF Sound
  <2>2. f.state \in Dead /\ faults' \in 0 .. deal.faults
    BY <1>1, <1>7 DEF EndUp, Dead, f
  <2>3. CASE f.state = "Starting"
    <3>1. Step(p, FsmUp(f), Configured(p), << >>, FALSE, dropped)
      BY <1>7, <2>3 DEF EndUp, f, dropped
    <3>2. FsmUp(f).configured
      <4>1. View(FsmUp(f), "ReqSent", f.started)
        <5>0. Struct(f)
          BY <1>1 DEF Struct, Sound, SoundIn, SoundUntimed, Fsms
        <5>1. View(Configure(f), f.state, f.started)
          BY <5>0, OtherView
        <5>2. View(NewState(Configure(f), "ReqSent"), "ReqSent", f.started)
          BY <5>1, NewStateView DEF View
        <5>3. View(InitCounters(NewState(Configure(f), "ReqSent")), "ReqSent", f.started)
          BY <5>2, OtherView DEF View
        <5>4. View(SendConfigReq(InitCounters(NewState(Configure(f), "ReqSent"))),
                   "ReqSent", f.started)
          BY <5>3, OtherView DEF View
        <5>5. QED
          BY <2>3, <5>4 DEF FsmUp
      <4>2. QED
        BY <2>1, <4>1 DEF View, Sound, SoundIn, SoundUntimed
    <3>3. ~f.configured /\ ~f.up
      BY <1>2, <2>3
    <3>4. QED
      BY <1>3, <2>1, <2>2, <3>1, <3>2, <3>3, ConfiguringStepKeeps DEF f
  <2>4. CASE f.state # "Starting"
    <3>1. Step(p, FsmUp(f), opt[p], << >>, FALSE, dropped)
      BY <1>7, <2>4 DEF EndUp, f, dropped
    <3>2. f.state # "Opened"
      BY <2>2 DEF Dead
    <3>3. QED
      BY <1>3, <2>1, <2>2, <3>1, <3>2, PlainStepKeeps DEF f
  <2>5. QED
    BY <2>3, <2>4
<1>8. CASE EndDown(p)
  <2>1. Sound(FsmDown(f)) /\ FsmDown(f).state # "Opened"
    BY <1>1, PlainSound, DownSound DEF Sound, Dead
  <2>2. Step(p, FsmDown(f), opt[p], << >>, FALSE, dropped) /\ faults' \in 0 .. deal.faults
    BY <1>4, <1>8 DEF EndDown, f, dropped
  <2>3. QED
    BY <1>3, <2>1, <2>2, PlainStepKeeps
<1>9. CASE EndTimeout(p)
  <2>1. f.timer /\ Step(p, FsmTimeout(f), opt[p], << >>, FALSE, net)
    BY <1>9 DEF EndTimeout, f
  <2>2. faults' \in 0 .. deal.faults
    BY <1>1, <1>4, <1>9 DEF EndTimeout
  <2>3. Sound(FsmTimeout(f)) /\ f.state # "Opened"
    BY <1>1, <2>1, PlainSound DEF Sound, SoundIn
  <2>4. QED
    BY <1>1, <2>1, <2>2, <2>3, PlainStepKeeps DEF f
<1>10. CASE Lose(p)
  <2>1. OnWay(Tail(net[p]))
    BY <1>1, <1>10, QueueShrinks DEF Lose
  <2>2. /\ net' = [net EXCEPT ![p] = Tail(@)]
        /\ UNCHANGED << deal, ends, opt, asked >> /\ faults' \in 0 .. deal.faults
    BY <1>4, <1>10 DEF Lose
  <2>3. \A q \in Peers : OnWay(net'[q])
    BY <1>1, <2>1, <2>2
  <2>4. DOMAIN net' = Peers
    BY <1>1, <2>2
  <2>5. \A q \in Peers : EndFine(q)' <=> EndFine(q)
    BY <2>2 DEF EndFine, OptFine, Leases, Conf
  <2>6. QED
    BY <2>2, <2>3, <2>4, <2>5 DEF NegoInv
<1>11. QED
  BY <1>5, <1>6, <1>7, <1>8, <1>9, <1>10

----------------------------------------------------------------------------
(* Packets. *)

\* The decoded options of a request, of o that are as the invariant wants them.
LEMMA DecodedReqFine ==
  ASSUME NEW p \in Peers, NEW o, NEW req, OptFine(p, o)
  PROVE  LET d == DecodedReq(p, o, req).opt IN
         /\ OptFine(p, d)
         /\ Leases(p) => d.used = o.used
         /\ deal.protocol = "ccp" => d.nodes = o.nodes /\ d.xmit = o.xmit
<1>1. ASSUME Leases(p)
      PROVE  LET d == DecodedReq(p, o, req).opt IN IpcpFine(Conf(p), d) /\ d.used = o.used
  <2>1. DecodedReq(p, o, req) = IpcpDecodeReq(Conf(p), o, req)
    BY <1>1 DEF Leases, DecodedReq
  <2>2. IpcpFine(Conf(p), o) /\ ~Conf(p).pretend
    BY <1>1 DEF Leases, OptFine
  <2>3. QED
    BY <2>1, <2>2, IpcpDecodeReqFine
<1>2. ASSUME deal.protocol = "ccp"
      PROVE  LET d == DecodedReq(p, o, req).opt
             IN  CcpFine(d) /\ d.nodes = o.nodes /\ d.xmit = o.xmit
  <2>1. DecodedReq(p, o, req) = CcpDecodeReq(Conf(p), o, req)
    BY <1>2 DEF DecodedReq
  <2>2. CcpFine(o)
    BY <1>2 DEF OptFine
  <2>3. QED
    BY <2>1, <2>2, CcpDecodeFine
<1>3. QED
  BY <1>1, <1>2 DEF OptFine

\* The decoded options of a refusal.
LEMMA DecodedRefusalFine ==
  ASSUME NEW p \in Peers, NEW body, OptFine(p, opt[p]),
         NEW d, d = DecodedNak(p, body) \/ d = DecodedRej(p, body)
  PROVE  /\ OptFine(p, d)
         /\ Leases(p) => d.used = opt[p].used
         /\ deal.protocol = "ccp" => d.nodes = opt[p].nodes /\ d.xmit = opt[p].xmit
<1>1. ASSUME Leases(p) PROVE IpcpFine(Conf(p), d) /\ d.used = opt[p].used
  <2>1. \/ d = IpcpDecodeNak(Conf(p), opt[p], body)
        \/ d = IpcpDecodeRej(opt[p], body)
    BY <1>1 DEF Leases, DecodedNak, DecodedRej
  <2>2. IpcpFine(Conf(p), opt[p])
    BY <1>1 DEF OptFine
  <2>3. CASE d = IpcpDecodeNak(Conf(p), opt[p], body)
    <3>1. /\ IpcpFine(Conf(p), IpcpDecodeNak(Conf(p), opt[p], body))
          /\ IpcpDecodeNak(Conf(p), opt[p], body).used = opt[p].used
      <4>1. ASSUME NEW c, NEW q, IpcpFine(c, q), NEW nak
            PROVE  IpcpFine(c, IpcpDecodeNak(c, q, nak)) /\ IpcpDecodeNak(c, q, nak).used = q.used
        BY <4>1, IpcpOthersFine
      <4>2. QED
        BY <2>2, <4>1
    <3>2. QED
      BY <2>3, <3>1
  <2>4. CASE d = IpcpDecodeRej(opt[p], body)
    <3>1. /\ IpcpFine(Conf(p), IpcpDecodeRej(opt[p], body))
          /\ IpcpDecodeRej(opt[p], body).used = opt[p].used
      BY <2>2, IpcpOthersFine
    <3>2. QED
      BY <2>4, <3>1
  <2>5. QED
    BY <2>1, <2>3, <2>4
<1>2. ASSUME deal.protocol = "ccp"
      PROVE  CcpFine(d) /\ d.nodes = opt[p].nodes /\ d.xmit = opt[p].xmit
  <2>1. d = CcpDecodeNak(opt[p], body) \/ d = CcpDecodeRej(opt[p], body)
    BY <1>2 DEF DecodedNak, DecodedRej
  <2>2. CcpFine(opt[p])
    BY <1>2 DEF OptFine
  <2>3. QED
    BY <2>1, <2>2, CcpDecodeFine
<1>3. QED
  BY <1>1, <1>2 DEF OptFine

\* Every packet.
LEMMA PacketsKeep ==
  ASSUME NegoInv, NEW p \in Peers, Receive(p)
  PROVE  NegoInv'
<1> DEFINE f == ends[p]
           id == Packet(p).id
<1>1. /\ Sound(f) /\ EndFine(p) /\ DOMAIN net = Peers /\ \A q \in Peers : OnWay(net[q])
      /\ faults \in 0 .. deal.faults
  BY DEF NegoInv
<1> HIDE DEF f
<1>2. /\ f.up <=> f.state = "Opened"
      /\ f.configured <=> f.state \in Negotiating \cup {"Opened"}
      /\ f.state \in States
  BY <1>1 DEF Sound, SoundIn, SoundUntimed, Fsms
<1>3. net[p] # << >> /\ faults' \in 0 .. deal.faults
  BY <1>1 DEF Receive, RecvReq, RecvRefusal, RecvOther
<1>4. id \in Ids
  BY <1>1, <1>3, QueueShrinks DEF Packet
<1>5. DOMAIN Rest(p) = Peers /\ \A q \in Peers : OnWay(Rest(p)[q])
  BY <1>1, <1>3, QueueShrinks DEF Rest
<1> HIDE DEF id
<1>6. CASE RecvReq(p)
  <2> DEFINE o == IF f.state = "Stopped" THEN Configured(p) ELSE opt[p]
             d == DecodedReq(p, o, Packet(p).body)
  <2>1. CASE f.state \in Negotiating \cup {"Opened", "Stopped"}
    <3>0. \E v \in Verdicts : \E answer :
            Step(p, RecvConfigReq(f, id, v, TRUE), d.opt, answer, f.state = "Opened", Rest(p))
      BY <1>6, <2>1 DEF RecvReq, Verdicts, f, id
    <3> PICK v \in Verdicts : \E answer :
            Step(p, RecvConfigReq(f, id, v, TRUE), d.opt, answer, f.state = "Opened", Rest(p))
      BY <3>0
    <3>1. PICK answer :
            Step(p, RecvConfigReq(f, id, v, TRUE), d.opt, answer, f.state = "Opened", Rest(p))
      OBVIOUS
    <3> DEFINE goal == RecvConfigReq(f, id, v, TRUE)
    <3>2. /\ Sound(goal)
          /\ f.state = "Stopped" => goal.configured
          /\ f.state = "Opened"  => goal.state # "Opened"
      BY <1>1, <1>4, PlainSound, RequestLeaves
    <3>3. /\ OptFine(p, o)
          /\ f.state # "Stopped" => o = opt[p]
          /\ deal.protocol = "ccp" => o.nodes = opt[p].nodes
      <4>1. CASE f.state = "Stopped"
        BY <1>2, <4>1, ConfiguredFine DEF f
      <4>2. CASE f.state # "Stopped"
        BY <1>1, <4>2 DEF EndFine
      <4>3. QED
        BY <4>1, <4>2
    <3> HIDE DEF o, goal
    <3>4. /\ OptFine(p, d.opt)
          /\ deal.protocol = "ccp" =>
               d.opt.nodes = opt[p].nodes /\ (f.up => d.opt.xmit = opt[p].xmit)
      BY <1>2, <3>3, DecodedReqFine
    <3>5. goal.configured \/ f.configured
      BY <1>2, <2>1, <3>2
    <3> HIDE DEF d
    <3>6. QED
      BY <1>3, <1>5, <3>1, <3>2, <3>4, <3>5, StepKeeps DEF f, goal
  <2>2. CASE f.state \notin Negotiating \cup {"Opened", "Stopped"}
    <3>1. Step(p, RecvConfigReq(f, id, "ConfigAck", TRUE), opt[p], << >>, FALSE, Rest(p))
      BY <1>6, <2>2 DEF RecvReq, f, id
    <3>2. Sound(RecvConfigReq(f, id, "ConfigAck", TRUE))
      BY <1>1, <1>4, PlainSound DEF Verdicts
    <3>3. f.state # "Opened"
      BY <2>2
    <3>4. QED
      BY <1>3, <1>5, <3>1, <3>2, <3>3, PlainStepKeeps DEF f
  <2>3. QED
    BY <2>1, <2>2
<1>7. ASSUME NEW goal,
             goal \in {RecvConfigAck(f, id, TRUE), RecvConfigRefusal(f, id), RecvTermReq(f), RecvTermAck(f)}
      PROVE  /\ Sound(goal)
             /\ goal.state = "Opened" /\ f.state = "Opened" => goal.out = << >>
  <2>1. Sound(goal)
    BY <1>1, <1>4, <1>7, PlainSound
  <2>2. f.out = << >>
    BY DEF NegoInv, f
  <2>3. f.state = "Opened" => goal = f \/ goal.state # "Opened"
    BY <1>1, <1>7, RepliesLeave
  <2>4. QED
    BY <2>1, <2>2, <2>3
<1>8. CASE RecvRefusal(p)
  <2> DEFINE o == IF Expected(f, id) /\ f.state \in Negotiating \cup {"Opened"}
                  THEN IF Packet(p).code = "ConfigNak" THEN DecodedNak(p, Packet(p).body)
                       ELSE DecodedRej(p, Packet(p).body)
                  ELSE opt[p]
             goal == RecvConfigRefusal(f, id)
  <2>1. Step(p, goal, o, << >>, Packet(p).code = "ConfigNak", Rest(p))
    BY <1>8 DEF RecvRefusal, f, id
  <2>2. /\ OptFine(p, o)
        /\ Leases(p) /\ o.used => f.configured
        /\ deal.protocol = "ccp" => o.nodes = opt[p].nodes /\ o.xmit = opt[p].xmit
    <3>1. OptFine(p, opt[p]) /\ (Leases(p) /\ opt[p].used => f.configured)
      BY <1>1 DEF EndFine, f
    <3>2. QED
      BY <3>1, DecodedRefusalFine
  <2>3. /\ Sound(goal)
        /\ goal.state = "Opened" /\ f.state = "Opened" => goal.out = << >>
    BY <1>7
  <2> HIDE DEF o, goal
  <2>4. QED
    BY <1>3, <1>5, <2>1, <2>2, <2>3, StepKeeps DEF f
<1>9. CASE RecvOther(p)
  <2>1. PICK goal \in {RecvConfigAck(f, id, TRUE), RecvTermReq(f), RecvTermAck(f)} :
          Step(p, goal, opt[p], << >>, FALSE, Rest(p))
    BY <1>9 DEF RecvOther, f, id
  <2>2. /\ Sound(goal)
        /\ goal.state = "Opened" /\ f.state = "Opened" => goal.out = << >>
    BY <1>7
  <2>3. QED
    BY <1>3, <1>5, <2>1, <2>2, PlainStepKeeps DEF f
<1>10. QED
  BY <1>6, <1>8, <1>9 DEF Receive

----------------------------------------------------------------------------
(* The theorems about two ends. *)

\* Whatever the two ends say to each other and whatever is lost on the way, each keeps a
\* sound struct, and the options of its layer fit it.
THEOREM NegoInvariance == NegoSpec => []NegoInv
<1>1. NegoInit => NegoInv
  BY NegoStarts
<1>2. NegoInv /\ [NegoNext]_negoVars => NegoInv'
  <2> SUFFICES ASSUME NegoInv, [NegoNext]_negoVars
               PROVE  NegoInv'
    OBVIOUS
  <2>1. CASE NegoNext
    BY <2>1, EventsKeep, PacketsKeep DEF NegoNext
  <2>2. CASE UNCHANGED negoVars
    <3>1. \A p \in Peers : EndFine(p)' <=> EndFine(p)
      BY <2>2 DEF negoVars, EndFine, OptFine, Leases, Conf
    <3>2. QED
      BY <2>2, <3>1 DEF negoVars, NegoInv
  <2>3. QED
    BY <2>1, <2>2
<1>3. QED
  BY <1>1, <1>2, PTL DEF NegoSpec

\* Both structs stay in the ranges of fsm.h, and every packet on the way has a code and an
\* identifier that fsm.c knows.
THEOREM NegoTypeCorrect == NegoSpec => []NegoTypeOK
<1>1. NegoInv => NegoTypeOK
  <2> SUFFICES ASSUME NegoInv PROVE NegoTypeOK
    OBVIOUS
  <2>1. ASSUME NEW p \in Peers, NEW i \in DOMAIN net[p]
        PROVE  [code |-> net[p][i].code, id |-> net[p][i].id] \in Packets
    <3>1. OnWay(net[p])
      BY DEF NegoInv
    <3>2. PICK S : net[p] \in Seq(S) /\ \A m \in S : [code |-> m.code, id |-> m.id] \in Packets
      BY <3>1 DEF OnWay
    <3>3. net[p][i] \in S
      BY <3>2
    <3>4. QED
      BY <3>2, <3>3
  <2>2. QED
    BY <2>1 DEF NegoInv, NegoTypeOK
<1>2. QED
  BY <1>1, NegoInvariance, PTL

\* An address that IpcpConfigure() leased is out of the pool exactly as long as the protocol
\* is configured, and a node that CcpLayerUp() made is there only while the layer is up.
THEOREM ResourcesAlwaysReturn == NegoSpec => []ResourcesReturn
<1>1. NegoInv => ResourcesReturn
  BY DEF NegoInv, EndFine, OptFine, Leases, IpcpFine, ResourcesReturn
<1>2. QED
  BY <1>1, NegoInvariance, PTL
=============================================================================
