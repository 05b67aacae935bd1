---------------------------- MODULE ControlPlane ----------------------------
(***************************************************************************)
(* Who may trade when: the dashboard's requests (emergency stop, resume,     *)
(* start, stop, stage switch, config edits), the trade loop's passes and     *)
(* liquidations, all running at once. Every await lets the others in; what   *)
(* they share are three rows of the config table, each read when needed and  *)
(* written at a commit, and the scheduler's trade-loop job.                  *)
(*                                                                          *)
(* An order is followed from its proposal through the two calls of           *)
(* assert_stage_permitted to the moment it leaves for the exchange; what     *)
(* becomes of it there is OrderLifecycle. PINs, read before anything else,    *)
(* are taken as correct; the scheduler is running (had it failed to start,    *)
(* there would be no trade loop).                                            *)
(***************************************************************************)
EXTENDS Integers, FiniteSets

CONSTANTS
    Operators,    \* sessions of requests that change the control state
    Loop,         \* the trade loop's session: max_instances = 1
    Liquidators,  \* sessions of POST /system/liquidate
    Events        \* which of AllEvents happen

AllEvents == {"halt", "resume", "start", "stop", "switch",
              "enable",     \* PUT /config/trading_enabled
              "schedule",   \* PUT /config of an interval
              "restart"}    \* the process dies and comes back

ASSUME LoopAssumption  == Loop \notin Liquidators
ASSUME EventAssumption == Events \subseteq AllEvents

VARIABLES
    halted, trading_enabled, current_stage,  \* config rows
    gateOpen,   \* evaluate_gate().passed on the present trading record
    paused,     \* the trade_loop job has no next run
    request,    \* operator -> what it has left to do
    session,    \* trader -> what it is doing, and for which stage
    order,      \* trader -> the order it is about to send
    slipped,    \* history: buys sent since the halt in force was committed
    strayed     \* history: trader -> orders sent to an inactive stage since
                \* the last stage switch

config   == <<halted, trading_enabled, current_stage>>
trading  == <<session, order>>
history  == <<slipped, strayed>>
vars     == <<config, gateOpen, paused, request, trading, history>>

Stages  == {"setup", "paper", "live"}
Traders == Liquidators \cup {Loop}

NoRequest == [pc |-> "none", target |-> "setup"]
NoOrder   == [pc |-> "none", side |-> "sell"]
Asleep    == [pc |-> "idle", stage |-> "setup"]

Init ==
    /\ halted = FALSE
    /\ trading_enabled = FALSE
    /\ current_stage \in Stages
    /\ gateOpen \in BOOLEAN
    /\ paused = FALSE
    /\ request = [c \in Operators |-> NoRequest]
    /\ session = [t \in Traders |-> Asleep]
    /\ order = [t \in Traders |-> NoOrder]
    /\ slipped = 0
    /\ strayed = [t \in Traders |-> 0]

\* An operator's request moves on to pc; Arrives also takes a free session.
Moves(c, pc)   == request' = [request EXCEPT ![c].pc = pc]
Arrives(c, kind, pc) == /\ kind \in Events
                        /\ request[c].pc = "none"
                        /\ Moves(c, pc)

-----------------------------------------------------------------------------
(* engage_halt: flags and commit, then the job, then the open orders *)

HaltRequest(c) ==
    /\ Arrives(c, "halt", "haltCommit")
    /\ UNCHANGED <<config, gateOpen, paused, trading, history>>

HaltCommit(c) ==
    /\ request[c].pc = "haltCommit"
    /\ halted' = TRUE
    /\ trading_enabled' = FALSE
    /\ slipped' = IF halted THEN slipped ELSE 0
    /\ Moves(c, "haltPause")
    /\ UNCHANGED <<current_stage, gateOpen, paused, trading, strayed>>

\* pause_trade_loop. The cancellations that follow are OrderLifecycle's.
HaltPause(c) ==
    /\ request[c].pc = "haltPause"
    /\ paused' = TRUE
    /\ Moves(c, "none")
    /\ UNCHANGED <<config, gateOpen, trading, history>>

(* resume: only a halt in force is released *)

ResumeRequest(c) ==
    /\ halted
    /\ Arrives(c, "resume", "resumeCommit")
    /\ UNCHANGED <<config, gateOpen, paused, trading, history>>

ResumeCommit(c) ==
    /\ request[c].pc = "resumeCommit"
    /\ halted' = FALSE
    /\ trading_enabled' = FALSE
    /\ slipped' = 0
    /\ Moves(c, "resumeJob")
    /\ UNCHANGED <<current_stage, gateOpen, paused, trading, strayed>>

\* release_halt without its resume_trade_loop
ResumeJobForgotten(c) ==
    /\ request[c].pc = "resumeJob"
    /\ Moves(c, "none")
    /\ UNCHANGED <<config, gateOpen, paused, trading, history>>

ResumeJob(c) ==
    /\ request[c].pc = "resumeJob"
    /\ paused' = FALSE
    /\ Moves(c, "none")
    /\ UNCHANGED <<config, gateOpen, trading, history>>

\* start_trading without its look at the halt
StartRequestUnchecked(c) ==
    /\ Arrives(c, "start", "startCommit")
    /\ UNCHANGED <<config, gateOpen, paused, trading, history>>

(* start_trading: refused while halted; reconciliation is awaited in between *)

StartRequest(c) ==
    /\ ~halted
    /\ Arrives(c, "start", "startCommit")
    /\ UNCHANGED <<config, gateOpen, paused, trading, history>>

StartCommit(c) ==
    /\ request[c].pc = "startCommit"
    /\ trading_enabled' = TRUE
    /\ Moves(c, "none")
    /\ UNCHANGED <<halted, current_stage, gateOpen, paused, trading, history>>

(* stop_trading, and PUT /config of keys that are not protected *)

Stop(c) ==
    /\ "stop" \in Events
    /\ request[c].pc = "none"
    /\ trading_enabled' = FALSE
    /\ UNCHANGED <<halted, current_stage, gateOpen, paused, request, trading,
                   history>>

PutTradingEnabled(c) ==
    /\ "enable" \in Events
    /\ request[c].pc = "none"
    /\ trading_enabled' = TRUE
    /\ UNCHANGED <<halted, current_stage, gateOpen, paused, request, trading,
                   history>>

\* reschedule_jobs gives the job a new trigger and with it a next run.
PutSchedule(c) ==
    /\ "schedule" \in Events
    /\ request[c].pc = "none"
    /\ paused' = FALSE
    /\ UNCHANGED <<config, gateOpen, request, trading, history>>

\* switch_stage without its look at the halt
SwitchRequestUnchecked(c, target) ==
    /\ "switch" \in Events
    /\ request[c].pc = "none"
    /\ request' = [request EXCEPT ![c] = [pc |-> "switchGate", target |-> target]]
    /\ UNCHANGED <<config, gateOpen, paused, trading, history>>

(* switch_stage: refused while halted, live only through the gate *)

SwitchRequest(c, target) ==
    /\ ~halted
    /\ "switch" \in Events
    /\ request[c].pc = "none"
    /\ request' = [request EXCEPT ![c] = [pc |-> "switchGate", target |-> target]]
    /\ UNCHANGED <<config, gateOpen, paused, trading, history>>

SwitchGate(c) ==
    /\ request[c].pc = "switchGate"
    /\ Moves(c, IF request[c].target = "live" /\ ~gateOpen THEN "none"
                                                           ELSE "switchCommit")
    /\ UNCHANGED <<config, gateOpen, paused, trading, history>>

SwitchCommit(c) ==
    /\ request[c].pc = "switchCommit"
    /\ current_stage' = request[c].target
    /\ trading_enabled' = FALSE
    /\ strayed' = [t \in Traders |-> 0]
    /\ Moves(c, "none")
    /\ UNCHANGED <<halted, gateOpen, paused, trading, slipped>>

-----------------------------------------------------------------------------
(* trade_loop_job: trading_allowed is three reads, then exits, then entries *)

Goes(t, pc) == session' = [session EXCEPT ![t].pc = pc]

LoopFires ==
    /\ ~paused
    /\ session[Loop].pc = "idle"
    /\ Goes(Loop, "askHalted")
    /\ UNCHANGED <<config, gateOpen, paused, request, order, history>>

AskHalted ==
    /\ session[Loop].pc = "askHalted"
    /\ Goes(Loop, IF halted THEN "idle" ELSE "askStage")
    /\ UNCHANGED <<config, gateOpen, paused, request, order, history>>

AskStage ==
    /\ session[Loop].pc = "askStage"
    /\ session' = [session EXCEPT ![Loop] =
                     IF current_stage = "setup" THEN Asleep
                     ELSE [pc |-> "askEnabled", stage |-> current_stage]]
    /\ UNCHANGED <<config, gateOpen, paused, request, order, history>>

AskEnabled ==
    /\ session[Loop].pc = "askEnabled"
    /\ Goes(Loop, IF trading_enabled THEN "exits" ELSE "idle")
    /\ UNCHANGED <<config, gateOpen, paused, request, order, history>>

\* liquidate: permitted while halted
Liquidate(t) ==
    /\ session[t].pc = "idle"
    /\ session' = [session EXCEPT ![t] = [pc |-> "selling",
                                          stage |-> current_stage]]
    /\ UNCHANGED <<config, gateOpen, paused, request, order, history>>

\* The exits are done, the entries are done, the holdings are sold; or
\* something outside the per-symbol try raised.
MovesOn(t) ==
    /\ order[t].pc = "none"
    /\ \/ session[t].pc = "exits" /\ Goes(t, "entries")
       \/ session[t].pc \in {"exits", "entries", "selling"} /\ Goes(t, "idle")
    /\ UNCHANGED <<config, gateOpen, paused, request, order, history>>

(* place_order and _submit_order, up to the exchange *)

Propose(t) ==
    /\ order[t].pc = "none"
    /\ session[t].pc \in {"exits", "entries", "selling"}
    /\ order' = [order EXCEPT ![t] =
          [pc |-> "halt1",
           side |-> IF session[t].pc = "entries" THEN "buy" ELSE "sell"]]
    /\ UNCHANGED <<config, gateOpen, paused, request, session, history>>

\* the halt left to trading_allowed, which the loop has asked
ChecksHaltNever(t) ==
    /\ order[t].pc \in {"halt1", "halt2"}
    /\ order' = [order EXCEPT ![t].pc = IF @ = "halt1" THEN "stage1" ELSE "stage2"]
    /\ UNCHANGED <<config, gateOpen, paused, request, session, history>>

\* assert_stage_permitted, called by place_order and again by _submit_order:
\* first the halt, from which sells are exempt,
ChecksHalt(t) ==
    /\ order[t].pc \in {"halt1", "halt2"}
    /\ order' = [order EXCEPT ![t] =
          IF halted /\ @.side = "buy" THEN NoOrder
          ELSE [pc |-> IF @.pc = "halt1" THEN "stage1" ELSE "stage2",
                side |-> @.side]]
    /\ UNCHANGED <<config, gateOpen, paused, request, session, history>>

\* the gate asked, the stage not
PermittedAnyStage(t) ==
    current_stage = "live" /\ order[t].side = "buy" => gateOpen

ChecksStageAnyStage(t) ==
    /\ order[t].pc \in {"stage1", "stage2"}
    /\ order' = [order EXCEPT ![t] =
          IF ~PermittedAnyStage(t) THEN NoOrder
          ELSE [pc |-> IF @.pc = "stage1" THEN "assess" ELSE "cleared",
                side |-> @.side]]
    /\ UNCHANGED <<config, gateOpen, paused, request, session, history>>

\* then the stage, and for live entries the gate.
Permitted(t) == /\ session[t].stage = current_stage
                /\ current_stage = "live" /\ order[t].side = "buy" => gateOpen

ChecksStage(t) ==
    /\ order[t].pc \in {"stage1", "stage2"}
    /\ order' = [order EXCEPT ![t] =
          IF ~Permitted(t) THEN NoOrder
          ELSE [pc |-> IF @.pc = "stage1" THEN "assess" ELSE "cleared",
                side |-> @.side]]
    /\ UNCHANGED <<config, gateOpen, paused, request, session, history>>

\* The account is readable and the risk engine approves.
Approved(t) ==
    /\ order[t].pc = "assess"
    /\ order' = [order EXCEPT ![t].pc = "halt2"]
    /\ UNCHANGED <<config, gateOpen, paused, request, session, history>>

\* Unreadable account, rejection, quantity rounded to zero, failed commit.
Dropped(t) ==
    /\ order[t].pc \in {"assess", "cleared"}
    /\ order' = [order EXCEPT ![t] = NoOrder]
    /\ UNCHANGED <<config, gateOpen, paused, request, session, history>>

\* create_order: lot step read and row committed, the order leaves.
Send(t) ==
    /\ order[t].pc = "cleared"
    /\ slipped' = IF halted /\ order[t].side = "buy" THEN slipped + 1 ELSE slipped
    /\ strayed' = [strayed EXCEPT ![t] =
                     IF session[t].stage # current_stage THEN @ + 1 ELSE @]
    /\ order' = [order EXCEPT ![t] = NoOrder]
    /\ UNCHANGED <<config, gateOpen, paused, request, session>>

-----------------------------------------------------------------------------
(* The trading record, and the process *)

RecordChanges ==
    /\ gateOpen' = ~gateOpen
    /\ UNCHANGED <<config, paused, request, trading, history>>

\* start_scheduler adds the trade-loop job anew; the config rows remain.
Restart ==
    /\ "restart" \in Events
    /\ paused' = FALSE
    /\ request' = [c \in Operators |-> NoRequest]
    /\ session' = [t \in Traders |-> Asleep]
    /\ order' = [t \in Traders |-> NoOrder]
    /\ UNCHANGED <<config, gateOpen, history>>

Operate(c) == \/ HaltRequest(c) \/ HaltCommit(c) \/ HaltPause(c)
              \/ ResumeRequest(c) \/ ResumeCommit(c) \/ ResumeJob(c)
              \/ StartRequest(c) \/ StartCommit(c)
              \/ Stop(c) \/ PutTradingEnabled(c) \/ PutSchedule(c)
              \/ \E target \in Stages : SwitchRequest(c, target)
              \/ SwitchGate(c) \/ SwitchCommit(c)

Ask == AskHalted \/ AskStage \/ AskEnabled

Trade(t) == \/ MovesOn(t) \/ Propose(t) \/ ChecksHalt(t) \/ ChecksStage(t)
            \/ Approved(t) \/ Dropped(t) \/ Send(t)

Next == \/ \E c \in Operators : Operate(c)
        \/ LoopFires \/ Ask
        \/ \E t \in Liquidators : Liquidate(t)
        \/ \E t \in Traders : Trade(t)
        \/ RecordChanges \/ Restart

Spec == Init /\ [][Next]_vars

\* Requests are carried through, the job fires, its reads return, and a pass
\* has finitely many lots and symbols to go through.
Finishes(c) == \/ HaltCommit(c) \/ HaltPause(c) \/ ResumeCommit(c)
               \/ ResumeJob(c) \/ StartCommit(c) \/ SwitchGate(c)
               \/ SwitchCommit(c)

Fairness == /\ \A c \in Operators : WF_vars(Finishes(c))
            /\ WF_vars(LoopFires)
            /\ WF_vars(Ask)
            /\ WF_vars(ChecksHalt(Loop) \/ ChecksStage(Loop) \/ Approved(Loop)
                       \/ Dropped(Loop) \/ Send(Loop))
            /\ SF_vars(MovesOn(Loop))

FairSpec == Spec /\ Fairness

-----------------------------------------------------------------------------
(* Properties *)

Requests == [pc: {"none", "haltCommit", "haltPause", "resumeCommit", "resumeJob",
                  "startCommit", "switchGate", "switchCommit"},
             target: Stages]
Sessions == [pc: {"idle", "askHalted", "askStage", "askEnabled", "exits",
                  "entries", "selling"}, stage: Stages]
Proposals == [pc: {"none", "halt1", "stage1", "assess", "halt2", "stage2",
                   "cleared"}, side: {"buy", "sell"}]

TypeOK ==
    /\ halted \in BOOLEAN
    /\ trading_enabled \in BOOLEAN
    /\ current_stage \in Stages
    /\ gateOpen \in BOOLEAN
    /\ paused \in BOOLEAN
    /\ request \in [Operators -> Requests]
    /\ session \in [Traders -> Sessions]
    /\ order \in [Traders -> Proposals]
    /\ slipped \in Nat
    /\ strayed \in [Traders -> Nat]

\* Only the trade loop buys.
OnlyLoopBuys == \A t \in Liquidators : order[t].side = "sell"
                                        /\ session[t].pc \in {"idle", "selling"}

\* An order past the last look at the halt flag, or at the stage.
PastHalt(t)  == order[t].side = "buy" /\ order[t].pc \in {"stage2", "cleared"}
PastStage(t) == order[t].pc = "cleared"

\* What a halt, or a switch, finds under way is all that can still get through.
HaltMargin == halted => slipped + (IF PastHalt(Loop) THEN 1 ELSE 0) <= 1
StageMargin ==
    \A t \in Traders :
        strayed[t] + (IF PastStage(t) /\ session[t].stage # current_stage
                      THEN 1 ELSE 0) <= 1

\* An order belongs to a pass that is trading, not to one still asking.
OrderHasPass ==
    \A t \in Traders :
        order[t].pc = "none" \/ session[t].pc \in {"exits", "entries", "selling"}

IndInv == TypeOK /\ OnlyLoopBuys /\ OrderHasPass /\ HaltMargin /\ StageMargin

\* However long a halt lasts and whatever is started, switched, scheduled or
\* restarted meanwhile, at most one buy reaches the exchange under it.
AtMostOneSlips == halted => slipped <= 1

\* After a stage switch each session sends at most one more order to the
\* exchange of a stage that is no longer active.
AtMostOneStrays == \A t \in Traders : strayed[t] <= 1

\* Once the halt is committed nothing new is placed.
HaltIsImmediate == halted => slipped = 0

\* No request leaves trading enabled under a halt.
HaltStopsTrading == halted => ~trading_enabled

\* A stage is not switched under a halt.
HaltFreezesStage == [][halted => current_stage' = current_stage]_vars

\* When no request is under way the job is paused exactly under a halt.
JobFollowsHalt ==
    (\A c \in Operators : request[c].pc = "none") => (paused <=> halted)

\* No entry gets past the halt check while trading is stopped.
EntriesNeedStart ==
    [][\A t \in Traders :
          order[t].pc = "halt2" /\ order[t].side = "buy"
             /\ order'[t].pc = "stage2" => trading_enabled]_vars

\* Started, in a trading stage and not halted for good, the loop keeps passing.
StartedLoopRuns ==
    <>[](trading_enabled /\ ~halted /\ current_stage # "setup")
        => []<>(session[Loop].pc = "exits")
=============================================================================
