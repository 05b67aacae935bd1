---------------------------- MODULE ControlProofs ----------------------------
(***************************************************************************)
(* Proofs about ControlPlane, for any number of operators and liquidations    *)
(* and whatever subset of AllEvents happens.                                 *)
(***************************************************************************)
EXTENDS ControlPlane, TLAPS

USE LoopAssumption, EventAssumption

\* The two margins concern a trader only through its order and its session.
LEMMA InitInv == Init => IndInv
<1> SUFFICES ASSUME Init PROVE IndInv
  OBVIOUS
<1>1. TypeOK
  BY DEF Init, TypeOK, Stages, NoRequest, Requests, Asleep, Sessions, NoOrder,
         Proposals
<1>2. OnlyLoopBuys
  BY DEF Init, OnlyLoopBuys, NoOrder, Asleep, Traders
<1>3. OrderHasPass /\ HaltMargin /\ StageMargin
  BY DEF Init, OrderHasPass, HaltMargin, StageMargin, PastHalt, PastStage, NoOrder, Traders
<1> QED
  BY <1>1, <1>2, <1>3 DEF IndInv

\* A request moving on keeps its record well formed.
LEMMA MovesType ==
    ASSUME request \in [Operators -> Requests], NEW c \in Operators,
           NEW pc \in {"none", "haltCommit", "haltPause", "resumeCommit",
                       "resumeJob", "startCommit", "switchGate", "switchCommit"},
           Moves(c, pc)
    PROVE  request' \in [Operators -> Requests]
<1> DEFINE to == [request[c] EXCEPT !.pc = pc]
<1>1. to \in Requests
  BY DEF Requests
<1>2. request' = [request EXCEPT ![c] = to]
  BY DEF Moves
<1> HIDE DEF to
<1> QED
  BY <1>1, <1>2

-----------------------------------------------------------------------------
(* Requests: they touch no order, so only the history and the flags move. *)

LEMMA OperateInv ==
    ASSUME IndInv, NEW c \in Operators, Operate(c)
    PROVE  IndInv'
<1> USE DEF IndInv
<1>1. UNCHANGED <<session, order, gateOpen>>
  BY DEF Operate, HaltRequest, HaltCommit, HaltPause, ResumeRequest, ResumeCommit,
     ResumeJob, StartRequest, StartCommit, Stop, PutTradingEnabled, PutSchedule,
     SwitchRequest, SwitchGate, SwitchCommit, trading
<1>2. OnlyLoopBuys' /\ OrderHasPass'
  BY <1>1 DEF OnlyLoopBuys, OrderHasPass
<1>3. CASE HaltCommit(c)
  <2>1. request' \in [Operators -> Requests]
    BY <1>3, MovesType DEF HaltCommit, TypeOK
  <2>2. TypeOK'
    BY <1>1, <1>3, <2>1 DEF HaltCommit, TypeOK
  <2>3. HaltMargin'
    BY <1>1, <1>3 DEF HaltCommit, HaltMargin, PastHalt
  <2>4. StageMargin'
    BY <1>1, <1>3 DEF HaltCommit, StageMargin, PastStage
  <2> QED
    BY <1>2, <2>2, <2>3, <2>4
<1>4. CASE ResumeCommit(c)
  <2>1. request' \in [Operators -> Requests]
    BY <1>4, MovesType DEF ResumeCommit, TypeOK
  <2>2. TypeOK'
    BY <1>1, <1>4, <2>1 DEF ResumeCommit, TypeOK
  <2>3. HaltMargin' /\ StageMargin'
    BY <1>1, <1>4 DEF ResumeCommit, HaltMargin, StageMargin, PastStage
  <2> QED
    BY <1>2, <2>2, <2>3
<1>5. CASE SwitchCommit(c)
  <2>1. request' \in [Operators -> Requests]
    BY <1>5, MovesType DEF SwitchCommit, TypeOK
  <2>2. current_stage' \in Stages
    BY <1>5 DEF SwitchCommit, TypeOK, Requests
  <2>3. TypeOK'
    BY <1>1, <1>5, <2>1, <2>2 DEF SwitchCommit, TypeOK
  <2>4. HaltMargin'
    BY <1>1, <1>5 DEF SwitchCommit, HaltMargin, PastHalt
  <2>5. StageMargin'
    BY <1>1, <1>5 DEF SwitchCommit, StageMargin
  <2> QED
    BY <1>2, <2>3, <2>4, <2>5
<1>6. CASE ~HaltCommit(c) /\ ~ResumeCommit(c) /\ ~SwitchCommit(c)
  <2>1. request' \in [Operators -> Requests]
    <3>1. ASSUME NEW target \in Stages, SwitchRequest(c, target)
          PROVE  request' \in [Operators -> Requests]
      BY <3>1 DEF SwitchRequest, TypeOK, Requests
    <3>2. ASSUME ~ \E target \in Stages : SwitchRequest(c, target)
          PROVE  request' = request \/ \E pc \in {"none", "haltCommit", "haltPause",
                    "resumeCommit", "resumeJob", "startCommit", "switchGate",
                    "switchCommit"} : Moves(c, pc)
      BY <1>6, <3>2 DEF Operate, HaltRequest, HaltPause, ResumeRequest,
         ResumeJob, StartRequest, StartCommit, Stop, PutTradingEnabled,
         PutSchedule, SwitchGate, Arrives
    <3> QED
      BY <3>1, <3>2, MovesType DEF TypeOK
  <2>2. UNCHANGED <<halted, current_stage, slipped, strayed>>
    BY <1>6 DEF Operate, HaltRequest, HaltPause, ResumeRequest, ResumeJob,
       StartRequest, StartCommit, Stop, PutTradingEnabled, PutSchedule,
       SwitchRequest, SwitchGate, config, history
  <2>3. trading_enabled' \in BOOLEAN /\ paused' \in BOOLEAN
    BY <1>6 DEF Operate, HaltRequest, HaltPause, ResumeRequest, ResumeJob,
       StartRequest, StartCommit, Stop, PutTradingEnabled, PutSchedule,
       SwitchRequest, SwitchGate, config, TypeOK
  <2>4. TypeOK'
    BY <1>1, <2>1, <2>2, <2>3 DEF TypeOK
  <2>5. HaltMargin' /\ StageMargin'
    BY <1>1, <2>2 DEF HaltMargin, StageMargin, PastHalt, PastStage
  <2> QED
    BY <1>2, <2>4, <2>5
<1> QED
  BY <1>3, <1>4, <1>5, <1>6

-----------------------------------------------------------------------------
(* The pass: a step of trader t changes its session or its order, not both,   *)
(* except for a restart, which clears both.                                  *)

\* A session that holds no order may go anywhere its trader may go.
LEMMA SessionMoves ==
    ASSUME IndInv, NEW t \in Traders, NEW to \in Sessions,
           session' = [session EXCEPT ![t] = to],
           t # Loop => to.pc \in {"idle", "selling"},
           order[t].pc = "none",
           UNCHANGED <<halted, trading_enabled, current_stage, gateOpen, paused,
                       request, order, slipped, strayed>>
    PROVE  IndInv'
<1> USE DEF IndInv
<1>1. session' \in [Traders -> Sessions]
  BY DEF TypeOK
<1>2. \A u \in Traders : session'[u] = IF u = t THEN to ELSE session[u]
  BY DEF TypeOK
<1>3. TypeOK'
  BY <1>1 DEF TypeOK
<1>4. OnlyLoopBuys' /\ OrderHasPass'
  BY <1>2 DEF OnlyLoopBuys, OrderHasPass, Traders
<1>5. HaltMargin'
  BY DEF HaltMargin, PastHalt
<1>6. StageMargin'
  BY <1>2 DEF StageMargin, PastStage, TypeOK
<1> QED
  BY <1>3, <1>4, <1>5, <1>6

\* An order may take a step short of leaving when it gets past the halt only
\* with no halt in force, and past the stage only in the stage it is for.
LEMMA OrderMoves ==
    ASSUME IndInv, NEW t \in Traders, NEW to \in Proposals,
           order' = [order EXCEPT ![t] = to],
           t # Loop => to.side = "sell",
           to.pc = "none" \/ session[t].pc \in {"exits", "entries", "selling"},
           (to.side = "buy" /\ to.pc \in {"stage2", "cleared"})
              => ~halted \/ PastHalt(t),
           to.pc = "cleared" => session[t].stage = current_stage,
           UNCHANGED <<halted, trading_enabled, current_stage, gateOpen, paused,
                       request, session, slipped, strayed>>
    PROVE  IndInv'
<1> USE DEF IndInv
<1>1. order' \in [Traders -> Proposals]
  BY DEF TypeOK
<1>2. \A u \in Traders : order'[u] = IF u = t THEN to ELSE order[u]
  BY DEF TypeOK
<1>3. TypeOK'
  BY <1>1 DEF TypeOK
<1>4. OnlyLoopBuys' /\ OrderHasPass'
  BY <1>2 DEF OnlyLoopBuys, OrderHasPass, Traders
<1>5. HaltMargin'
  BY <1>2 DEF HaltMargin, PastHalt, TypeOK, Traders
<1>6. StageMargin'
  BY <1>2 DEF StageMargin, PastStage, TypeOK
<1> QED
  BY <1>3, <1>4, <1>5, <1>6

LEMMA AskInv == IndInv /\ (LoopFires \/ Ask) => IndInv'
<1> SUFFICES ASSUME IndInv, LoopFires \/ Ask
             PROVE  IndInv'
  OBVIOUS
<1> USE DEF IndInv
<1>1. Loop \in Traders /\ session[Loop] \in Sessions
  BY DEF Traders, TypeOK
<1>2. order[Loop].pc = "none"
  BY <1>1 DEF LoopFires, Ask, AskHalted, AskStage, AskEnabled, OrderHasPass
<1>3. UNCHANGED <<halted, trading_enabled, current_stage, gateOpen, paused,
                  request, order, slipped, strayed>>
  BY DEF LoopFires, Ask, AskHalted, AskStage, AskEnabled, config, history
<1>4. PICK to \in Sessions : session' = [session EXCEPT ![Loop] = to]
  <2> DEFINE at(pc) == [session[Loop] EXCEPT !.pc = pc]
  <2>1. /\ at("idle") \in Sessions /\ at("askHalted") \in Sessions
        /\ at("askStage") \in Sessions /\ at("exits") \in Sessions
    BY <1>1 DEF Sessions
  <2>2. ASSUME NEW pc, Goes(Loop, pc)
        PROVE  session' = [session EXCEPT ![Loop] = at(pc)]
    BY <2>2 DEF Goes
  <2> HIDE DEF at
  <2>3. CASE AskStage
    <3>1. [pc |-> "askEnabled", stage |-> current_stage] \in Sessions
          /\ Asleep \in Sessions
      BY DEF Sessions, Asleep, Stages, TypeOK
    <3> QED
      BY <2>3, <3>1 DEF AskStage
  <2>4. CASE LoopFires \/ AskHalted \/ AskEnabled
    BY <2>1, <2>2, <2>4 DEF LoopFires, AskHalted, AskEnabled
  <2> QED
    BY <2>3, <2>4 DEF Ask
<1> QED
  BY <1>1, <1>2, <1>3, <1>4, SessionMoves

LEMMA LiquidateInv ==
    ASSUME IndInv, NEW t \in Liquidators, Liquidate(t)
    PROVE  IndInv'
<1> DEFINE to == [pc |-> "selling", stage |-> current_stage]
<1>1. t \in Traders /\ order[t].pc = "none"
  BY DEF IndInv, OrderHasPass, Traders, Liquidate
<1>2. to \in Sessions /\ to.pc = "selling"
  BY DEF IndInv, TypeOK, Sessions
<1>3. session' = [session EXCEPT ![t] = to]
  BY DEF Liquidate
<1>4. UNCHANGED <<halted, trading_enabled, current_stage, gateOpen, paused,
                  request, order, slipped, strayed>>
  BY DEF Liquidate, config, history
<1> HIDE DEF to
<1> QED
  BY <1>1, <1>2, <1>3, <1>4, SessionMoves

LEMMA MovesOnInv ==
    ASSUME IndInv, NEW t \in Traders, MovesOn(t)
    PROVE  IndInv'
<1>1. PICK pc \in {"entries", "idle"} :
        Goes(t, pc) /\ (pc = "entries" => session[t].pc = "exits")
  BY DEF MovesOn
<1> DEFINE to == [session[t] EXCEPT !.pc = pc]
<1>2. session[t] \in Sessions
  BY DEF IndInv, TypeOK
<1>3. to \in Sessions /\ to.pc = pc
  BY <1>2 DEF Sessions
<1>4. t # Loop => pc = "idle"
  BY <1>1 DEF IndInv, OnlyLoopBuys, Traders
<1>5. session' = [session EXCEPT ![t] = to]
  BY <1>1 DEF Goes
<1>6. UNCHANGED <<halted, trading_enabled, current_stage, gateOpen, paused,
                  request, order, slipped, strayed>>
  BY DEF MovesOn, config, history
<1> HIDE DEF to
<1> QED
  BY <1>3, <1>4, <1>5, <1>6, SessionMoves DEF MovesOn

LEMMA ProposeInv ==
    ASSUME IndInv, NEW t \in Traders, Propose(t)
    PROVE  IndInv'
<1> DEFINE to == [pc |-> "halt1",
                  side |-> IF session[t].pc = "entries" THEN "buy" ELSE "sell"]
<1>1. to \in Proposals /\ to.pc = "halt1"
  BY DEF Proposals
<1>2. t # Loop => to.side = "sell"
  BY DEF IndInv, OnlyLoopBuys, Traders
<1>3. order' = [order EXCEPT ![t] = to]
  BY DEF Propose
<1>4. UNCHANGED <<halted, trading_enabled, current_stage, gateOpen, paused,
                  request, session, slipped, strayed>>
  BY DEF Propose, config, history
<1> HIDE DEF to
<1> QED
  BY <1>1, <1>2, <1>3, <1>4, OrderMoves DEF Propose

LEMMA ChecksHaltInv ==
    ASSUME IndInv, NEW t \in Traders, ChecksHalt(t)
    PROVE  IndInv'
<1> DEFINE on == [pc |-> IF order[t].pc = "halt1" THEN "stage1" ELSE "stage2",
                  side |-> order[t].side]
           to == IF halted /\ order[t].side = "buy" THEN NoOrder ELSE on
<1>1. order[t] \in Proposals /\ NoOrder \in Proposals
  BY DEF IndInv, TypeOK, Proposals, NoOrder
<1>2. on \in Proposals /\ on.side = order[t].side /\ on.pc \in {"stage1", "stage2"}
  BY <1>1 DEF Proposals
<1>3. order' = [order EXCEPT ![t] = to]
  BY DEF ChecksHalt
<1> HIDE DEF on
<1>4. /\ to \in Proposals
      /\ to = NoOrder \/ (~(halted /\ order[t].side = "buy") /\ to = on)
  BY <1>1, <1>2
<1> HIDE DEF to
<1>5. t # Loop => to.side = "sell"
  BY <1>2, <1>4 DEF IndInv, OnlyLoopBuys, Traders, NoOrder
<1>6. session[t].pc \in {"exits", "entries", "selling"}
  BY DEF IndInv, OrderHasPass, ChecksHalt
<1>7. /\ to.pc # "cleared"
      /\ to.side = "buy" => ~halted
  BY <1>2, <1>4 DEF NoOrder
<1>8. UNCHANGED <<halted, trading_enabled, current_stage, gateOpen, paused,
                  request, session, slipped, strayed>>
  BY DEF ChecksHalt, config, history
<1> QED
  BY <1>3, <1>4, <1>5, <1>6, <1>7, <1>8, OrderMoves

LEMMA ChecksStageInv ==
    ASSUME IndInv, NEW t \in Traders, ChecksStage(t)
    PROVE  IndInv'
<1> DEFINE on == [pc |-> IF order[t].pc = "stage1" THEN "assess" ELSE "cleared",
                  side |-> order[t].side]
           to == IF ~Permitted(t) THEN NoOrder ELSE on
<1>1. order[t] \in Proposals /\ NoOrder \in Proposals
  BY DEF IndInv, TypeOK, Proposals, NoOrder
<1>2. /\ on \in Proposals /\ on.side = order[t].side
      /\ on.pc = "assess" \/ (order[t].pc = "stage2" /\ on.pc = "cleared")
  BY <1>1 DEF Proposals, ChecksStage
<1>3. order' = [order EXCEPT ![t] = to]
  BY DEF ChecksStage
<1> HIDE DEF on
<1>4. /\ to \in Proposals
      /\ to = NoOrder \/ (Permitted(t) /\ to = on)
  BY <1>1, <1>2
<1> HIDE DEF to
<1>5. t # Loop => to.side = "sell"
  BY <1>2, <1>4 DEF IndInv, OnlyLoopBuys, Traders, NoOrder
<1>6. session[t].pc \in {"exits", "entries", "selling"}
  BY DEF IndInv, OrderHasPass, ChecksStage
<1>7. /\ to.pc = "cleared" => session[t].stage = current_stage
      /\ to.side = "buy" /\ to.pc \in {"stage2", "cleared"} => PastHalt(t)
  BY <1>2, <1>4 DEF NoOrder, Permitted, PastHalt
<1>8. UNCHANGED <<halted, trading_enabled, current_stage, gateOpen, paused,
                  request, session, slipped, strayed>>
  BY DEF ChecksStage, config, history
<1> QED
  BY <1>3, <1>4, <1>5, <1>6, <1>7, <1>8, OrderMoves

LEMMA AssessedInv ==
    ASSUME IndInv, NEW t \in Traders, Approved(t) \/ Dropped(t)
    PROVE  IndInv'
<1> DEFINE on == [order[t] EXCEPT !.pc = "halt2"]
<1>1. order[t] \in Proposals /\ NoOrder \in Proposals
  BY DEF IndInv, TypeOK, Proposals, NoOrder
<1>2. on \in Proposals /\ on.side = order[t].side /\ on.pc = "halt2"
  BY <1>1 DEF Proposals
<1>3. PICK to \in {on, NoOrder} : order' = [order EXCEPT ![t] = to]
  BY DEF Approved, Dropped
<1> HIDE DEF on
<1>4. to \in Proposals /\ to.pc \in {"none", "halt2"}
  BY <1>1, <1>2 DEF NoOrder
<1>5. t # Loop => to.side = "sell"
  BY <1>2 DEF IndInv, OnlyLoopBuys, Traders, NoOrder
<1>6. session[t].pc \in {"exits", "entries", "selling"}
  BY DEF IndInv, OrderHasPass, Approved, Dropped
<1>7. UNCHANGED <<halted, trading_enabled, current_stage, gateOpen, paused,
                  request, session, slipped, strayed>>
  BY DEF Approved, Dropped, config, history
<1> QED
  BY <1>3, <1>4, <1>5, <1>6, <1>7, OrderMoves

\* The step the margins are for: an order that leaves too late uses its one up.
LEMMA SendInv ==
    ASSUME IndInv, NEW t \in Traders, Send(t)
    PROVE  IndInv'
<1> USE DEF IndInv
<1>1. UNCHANGED <<halted, trading_enabled, current_stage, gateOpen, paused,
                  request, session>>
  BY DEF Send, config
<1>2. NoOrder \in Proposals /\ NoOrder.pc = "none" /\ NoOrder.side = "sell"
  BY DEF NoOrder, Proposals
<1>3. \A u \in Traders : order'[u] = IF u = t THEN NoOrder ELSE order[u]
  BY DEF Send, TypeOK
<1>4. \A u \in Traders : strayed'[u] =
        IF u = t /\ session[t].stage # current_stage THEN strayed[u] + 1
                                                     ELSE strayed[u]
  BY DEF Send, TypeOK
<1>5. TypeOK'
  <2>1. order' \in [Traders -> Proposals]
    BY <1>2 DEF Send, TypeOK
  <2>2. strayed[t] \in Nat
    BY DEF TypeOK
  <2>3. strayed' \in [Traders -> Nat]
    BY <2>2 DEF Send, TypeOK
  <2>4. slipped' \in Nat
    BY DEF Send, TypeOK
  <2> QED
    BY <1>1, <2>1, <2>3, <2>4 DEF TypeOK
<1>6. OnlyLoopBuys' /\ OrderHasPass'
  BY <1>1, <1>2, <1>3 DEF OnlyLoopBuys, OrderHasPass, Traders
<1>7. HaltMargin'
  <2>1. CASE t = Loop
    BY <1>1, <1>2, <1>3, <2>1 DEF Send, HaltMargin, PastHalt, TypeOK
  <2>2. CASE t # Loop
    <3>1. order[t].side = "sell"
      BY <2>2 DEF OnlyLoopBuys, Traders
    <3>2. slipped' = slipped /\ order'[Loop] = order[Loop]
      BY <1>3, <2>2, <3>1 DEF Send, Traders
    <3> QED
      BY <1>1, <3>2 DEF HaltMargin, PastHalt
  <2> QED
    BY <2>1, <2>2
<1>8. StageMargin'
  BY <1>1, <1>2, <1>3, <1>4 DEF Send, StageMargin, PastStage, TypeOK
<1> QED
  BY <1>5, <1>6, <1>7, <1>8

LEMMA TradeInv ==
    ASSUME IndInv, NEW t \in Traders, Trade(t)
    PROVE  IndInv'
BY MovesOnInv, ProposeInv, ChecksHaltInv, ChecksStageInv, AssessedInv, SendInv
   DEF Trade

-----------------------------------------------------------------------------
(* The world outside, and the theorems *)

LEMMA RecordChangesInv == IndInv /\ RecordChanges => IndInv'
<1> SUFFICES ASSUME IndInv, RecordChanges PROVE IndInv'
  OBVIOUS
<1>1. UNCHANGED <<halted, trading_enabled, current_stage, paused, request,
                  session, order, slipped, strayed>>
  BY DEF RecordChanges, config, trading, history
<1>2. gateOpen' \in BOOLEAN
  BY DEF RecordChanges
<1> QED
  BY <1>1, <1>2 DEF IndInv, TypeOK, OnlyLoopBuys, OrderHasPass, HaltMargin,
                    StageMargin, PastHalt, PastStage

LEMMA RestartInv == IndInv /\ Restart => IndInv'
<1> SUFFICES ASSUME IndInv, Restart PROVE IndInv'
  OBVIOUS
<1> USE DEF IndInv
<1>1. UNCHANGED <<halted, trading_enabled, current_stage, gateOpen, slipped,
                  strayed>>
  BY DEF Restart, config, history
<1>2. \A u \in Traders : order'[u] = NoOrder /\ session'[u] = Asleep
  BY DEF Restart
<1>3. NoOrder.pc = "none" /\ NoOrder.side = "sell" /\ Asleep.pc = "idle"
  BY DEF NoOrder, Asleep
<1>4. TypeOK'
  BY <1>1 DEF Restart, TypeOK, NoOrder, Proposals, Asleep, Sessions, NoRequest,
              Requests, Stages
<1>5. OnlyLoopBuys' /\ OrderHasPass'
  BY <1>2, <1>3 DEF OnlyLoopBuys, OrderHasPass, Traders
<1>6. HaltMargin' /\ StageMargin'
  BY <1>1, <1>2, <1>3 DEF HaltMargin, StageMargin, PastHalt, PastStage, TypeOK,
                          Traders
<1> QED
  BY <1>4, <1>5, <1>6

LEMMA Inductive == IndInv /\ [Next]_vars => IndInv'
<1> SUFFICES ASSUME IndInv, [Next]_vars PROVE IndInv'
  OBVIOUS
<1>1. CASE UNCHANGED vars
  BY <1>1 DEF vars, config, trading, history, IndInv, TypeOK, OnlyLoopBuys,
              OrderHasPass, HaltMargin, StageMargin, PastHalt, PastStage
<1>2. CASE Next
  BY <1>2, OperateInv, AskInv, LiquidateInv, TradeInv, RecordChangesInv,
     RestartInv DEF Next
<1> QED
  BY <1>1, <1>2

\* In every behaviour the types hold, only the loop buys, and what a halt or a
\* switch has let through plus what it may still let through is at most one.
THEOREM InvariantHolds == Spec => []IndInv
BY InitInv, Inductive, PTL DEF Spec

\* Requests, sessions, orders and config rows stay within their types.
THEOREM TypeCorrect == Spec => []TypeOK
<1>1. IndInv => TypeOK
  BY DEF IndInv
<1> QED
  BY <1>1, InvariantHolds, PTL

\* The second look at the halt flag (assert_stage_permitted in _submit_order)
\* leaves room for one buy at most under each halt.
THEOREM AHaltLetsOneSlip == Spec => []AtMostOneSlips
<1>1. IndInv => AtMostOneSlips
  BY DEF IndInv, TypeOK, HaltMargin, AtMostOneSlips
<1> QED
  BY <1>1, InvariantHolds, PTL

\* The same look at the stage leaves each session one order that goes astray.
THEOREM ASwitchLetsOneStray == Spec => []AtMostOneStrays
<1>1. IndInv => AtMostOneStrays
  BY DEF IndInv, TypeOK, StageMargin, AtMostOneStrays
<1> QED
  BY <1>1, InvariantHolds, PTL

-----------------------------------------------------------------------------
(* Requests one at a time: the control rows and the job agree with the halt.  *)

\* Requests do not overlap.
Alone == \A c, d \in Operators : c = d

\* What a request under way knows of the halt it read or wrote earlier.
Coherent ==
    \A c \in Operators :
        /\ request[c].pc \in {"startCommit", "switchGate", "switchCommit"} => ~halted
        /\ request[c].pc = "haltPause" => halted
        /\ request[c].pc = "resumeJob" => ~halted

\* The job is out of step only between the commit and the job's own call.
Settled == {"none", "haltCommit", "resumeCommit", "startCommit", "switchGate",
            "switchCommit"}
JobInStep ==
    (\A c \in Operators : request[c].pc \in Settled) => (paused <=> halted)

LEMMA CoherentStep == Alone /\ TypeOK /\ Coherent /\ [Next]_vars => Coherent'
<1> SUFFICES ASSUME Alone, TypeOK, Coherent, [Next]_vars
             PROVE  Coherent'
  OBVIOUS
<1>1. CASE UNCHANGED <<halted, request>>
  BY <1>1 DEF Coherent
<1>2. CASE Restart
  BY <1>2 DEF Restart, Coherent, NoRequest
<1>3. ASSUME NEW c \in Operators, Operate(c)
      PROVE  Coherent'
  <2>1. \A d \in Operators : d = c
    BY DEF Alone
  <2>2. request \in [Operators -> Requests]
    BY DEF TypeOK
  <2>3. ASSUME NEW pc, Moves(c, pc)
        PROVE  request'[c].pc = pc
    BY <2>2, <2>3 DEF Moves, Requests
  <2>4. CASE HaltRequest(c) \/ HaltCommit(c) \/ HaltPause(c)
    BY <2>1, <2>3, <2>4 DEF HaltRequest, HaltCommit, HaltPause, Arrives, Coherent
  <2>5. CASE ResumeRequest(c) \/ ResumeCommit(c) \/ ResumeJob(c)
    BY <2>1, <2>3, <2>5 DEF ResumeRequest, ResumeCommit, ResumeJob, Arrives,
                            Coherent
  <2>6. CASE StartRequest(c) \/ StartCommit(c)
    BY <2>1, <2>3, <2>6 DEF StartRequest, StartCommit, Arrives, Coherent, config
  <2>7. CASE Stop(c) \/ PutTradingEnabled(c) \/ PutSchedule(c)
    BY <2>7 DEF Stop, PutTradingEnabled, PutSchedule, Coherent, config
  <2>8. ASSUME NEW target \in Stages, SwitchRequest(c, target)
        PROVE  Coherent'
    <3>1. request'[c].pc = "switchGate" /\ ~halted'
      BY <2>2, <2>8 DEF SwitchRequest, config
    <3> QED
      BY <2>1, <3>1 DEF Coherent
  <2>9. CASE SwitchGate(c) \/ SwitchCommit(c)
    BY <2>1, <2>3, <2>9 DEF SwitchGate, SwitchCommit, Coherent, config
  <2> QED
    BY <1>3, <2>4, <2>5, <2>6, <2>7, <2>8, <2>9 DEF Operate
<1>4. CASE \/ LoopFires \/ Ask \/ RecordChanges
           \/ \E t \in Liquidators : Liquidate(t)
           \/ \E t \in Traders : Trade(t)
  BY <1>1, <1>4 DEF LoopFires, Ask, AskHalted, AskStage, AskEnabled, RecordChanges,
     Liquidate, Trade, MovesOn, Propose, ChecksHalt, ChecksStage, Approved, Dropped,
     Send, config
<1> QED
  BY <1>1, <1>2, <1>3, <1>4 DEF Next, vars, config

LEMMA InitCoherent == Init => Coherent /\ HaltStopsTrading /\ JobInStep
BY DEF Init, Coherent, NoRequest, HaltStopsTrading, JobInStep

LEMMA HaltStopsStep ==
    Coherent /\ HaltStopsTrading /\ "enable" \notin Events /\ [Next]_vars
        => HaltStopsTrading'
<1> SUFFICES ASSUME Coherent, HaltStopsTrading, "enable" \notin Events, [Next]_vars
             PROVE  HaltStopsTrading'
  OBVIOUS
<1>1. CASE UNCHANGED <<halted, trading_enabled>>
  BY <1>1 DEF HaltStopsTrading
<1>2. ASSUME NEW c \in Operators, Operate(c)
      PROVE  HaltStopsTrading'
  <2>1. ASSUME StartCommit(c) PROVE ~halted'
    BY <2>1 DEF StartCommit, Coherent
  <2> QED
    BY <1>1, <1>2, <2>1 DEF Operate, HaltRequest, HaltCommit, HaltPause,
       ResumeRequest, ResumeCommit, ResumeJob, StartRequest, Stop,
       PutTradingEnabled, PutSchedule, SwitchRequest, SwitchGate, SwitchCommit,
       config, HaltStopsTrading
<1>3. CASE \/ LoopFires \/ Ask \/ RecordChanges \/ Restart
           \/ \E t \in Liquidators : Liquidate(t)
           \/ \E t \in Traders : Trade(t)
  BY <1>1, <1>3 DEF LoopFires, Ask, AskHalted, AskStage, AskEnabled, RecordChanges,
     Restart, Liquidate, Trade, MovesOn, Propose, ChecksHalt, ChecksStage, Approved,
     Dropped, Send, config
<1> QED
  BY <1>1, <1>2, <1>3 DEF Next, vars, config

LEMMA JobStep ==
    /\ Alone /\ Events \cap {"schedule", "restart"} = {}
    /\ TypeOK /\ Coherent /\ JobInStep /\ [Next]_vars
    => JobInStep'
<1> SUFFICES ASSUME Alone, "schedule" \notin Events, "restart" \notin Events,
                    TypeOK, Coherent, JobInStep, [Next]_vars
             PROVE  JobInStep'
  OBVIOUS
<1>1. CASE UNCHANGED <<halted, paused, request>>
  BY <1>1 DEF JobInStep
<1>2. ASSUME NEW c \in Operators, Operate(c)
      PROVE  JobInStep'
  <2>1. \A d \in Operators : d = c
    BY DEF Alone
  <2>2. JobInStep <=> (request[c].pc \in Settled => (paused <=> halted))
    BY <2>1 DEF JobInStep
  <2>3. JobInStep' <=> (request'[c].pc \in Settled => (paused' <=> halted'))
    BY <2>1 DEF JobInStep
  <2>4. ASSUME NEW pc, Moves(c, pc)
        PROVE  request'[c].pc = pc
    BY <2>4 DEF Moves, TypeOK, Requests
  <2>5. CASE HaltCommit(c) \/ ResumeCommit(c)
    BY <2>3, <2>4, <2>5 DEF HaltCommit, ResumeCommit, Settled
  <2>6. CASE HaltPause(c) \/ ResumeJob(c)
    BY <2>3, <2>6 DEF HaltPause, ResumeJob, Coherent, config
  <2>7. ASSUME ~HaltCommit(c), ~ResumeCommit(c), ~HaltPause(c), ~ResumeJob(c)
        PROVE  request[c].pc \in Settled /\ UNCHANGED <<halted, paused>>
    BY <1>2, <2>7 DEF Operate, HaltRequest, ResumeRequest, StartRequest,
       StartCommit, Stop, PutTradingEnabled, PutSchedule, SwitchRequest,
       SwitchGate, SwitchCommit, Arrives, Settled, config
  <2> QED
    BY <2>2, <2>3, <2>5, <2>6, <2>7
<1>3. CASE \/ LoopFires \/ Ask \/ RecordChanges
           \/ \E t \in Liquidators : Liquidate(t)
           \/ \E t \in Traders : Trade(t)
  BY <1>1, <1>3 DEF LoopFires, Ask, AskHalted, AskStage, AskEnabled, RecordChanges,
     Liquidate, Trade, MovesOn, Propose, ChecksHalt, ChecksStage, Approved, Dropped,
     Send, config
<1> QED
  BY <1>1, <1>2, <1>3 DEF Next, vars, config, Restart

LEMMA FreezeStep == Coherent /\ [Next]_vars => [halted => current_stage' = current_stage]_vars
<1> SUFFICES ASSUME Coherent, [Next]_vars, halted
             PROVE  current_stage' = current_stage
  OBVIOUS
<1>1. ASSUME NEW c \in Operators, Operate(c)
      PROVE  current_stage' = current_stage
  <2>1. ~SwitchCommit(c)
    BY DEF SwitchCommit, Coherent
  <2> QED
    BY <1>1, <2>1 DEF Operate, HaltRequest, HaltCommit, HaltPause, ResumeRequest,
       ResumeCommit, ResumeJob, StartRequest, StartCommit, Stop, PutTradingEnabled,
       PutSchedule, SwitchRequest, SwitchGate, config
<1>2. CASE \/ LoopFires \/ Ask \/ RecordChanges \/ Restart
           \/ \E t \in Liquidators : Liquidate(t)
           \/ \E t \in Traders : Trade(t)
  BY <1>2 DEF LoopFires, Ask, AskHalted, AskStage, AskEnabled, RecordChanges,
     Restart, Liquidate, Trade, MovesOn, Propose, ChecksHalt, ChecksStage, Approved,
     Dropped, Send, config
<1> QED
  BY <1>1, <1>2 DEF Next, vars, config

\* Requests that do not overlap see the halt as it is when they commit.
LEMMA AloneIsCoherent == ASSUME Alone PROVE Spec => []Coherent
<1>1. TypeOK /\ Coherent /\ [Next]_vars => Coherent'
  BY CoherentStep
<1> QED
  BY <1>1, InitCoherent, TypeCorrect, PTL DEF Spec

\* With requests one at a time and trading_enabled left to start_trading, the
\* look at the halt before start_trading's commit is enough: nothing trades
\* under a halt.
THEOREM AloneHaltStops ==
    ASSUME Alone, "enable" \notin Events PROVE Spec => []HaltStopsTrading
<1>1. Coherent /\ HaltStopsTrading /\ [Next]_vars => HaltStopsTrading'
  BY HaltStopsStep
<1> QED
  BY <1>1, InitCoherent, AloneIsCoherent, PTL DEF Spec

\* With requests one at a time no stage is switched under a halt, restarts
\* included: switch_stage's look at the halt holds until its commit.
THEOREM AloneHaltFreezes == ASSUME Alone PROVE Spec => HaltFreezesStage
<1>1. Coherent /\ [Next]_vars => [halted => current_stage' = current_stage]_vars
  BY FreezeStep
<1> QED
  BY <1>1, AloneIsCoherent, PTL DEF Spec, HaltFreezesStage

\* With requests one at a time, no interval edited and no restart, the job is
\* paused exactly under a halt whenever no request is under way.
THEOREM AloneJobFollows ==
    ASSUME Alone, Events \cap {"schedule", "restart"} = {}
    PROVE  Spec => []JobFollowsHalt
<1>1. TypeOK /\ Coherent /\ JobInStep /\ [Next]_vars => JobInStep'
  BY JobStep
<1>2. JobInStep => JobFollowsHalt
  BY DEF JobInStep, JobFollowsHalt, Settled
<1> QED
  BY <1>1, <1>2, InitCoherent, TypeCorrect, AloneIsCoherent, PTL DEF Spec

=============================================================================
