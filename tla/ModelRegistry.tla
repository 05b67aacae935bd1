---------------------------- MODULE ModelRegistry ----------------------------
(***************************************************************************)
(* services/model_registry.py for the models of one symbol: training adds    *)
(* candidates, the retrain job and the dashboard promote and archive. A       *)
(* promotion reads the candidates, reads the active model to compare with,   *)
(* and reads it again to archive it, all in one READ COMMITTED transaction    *)
(* whose updates lock their rows and show at its commit.                     *)
(***************************************************************************)
EXTENDS Integers, FiniteSets

CONSTANTS
    Models, NoModel,
    Sessions,        \* database sessions: retrain jobs, API requests
    NoSession,
    Score,           \* model -> score_model of its holdout metrics
    Disqualified,    \* models score_model disqualifies, whose score is 0
    Losing,          \* a realized score below every holdout score but 0
    Requests         \* which of AllRequests arrive

AllRequests == {"train", "best", "promote", "archive", "trade"}

ASSUME ModelAssumption   == NoModel \notin Models /\ NoSession \notin Sessions
ASSUME ScoreAssumption   == /\ Score \in [Models -> Nat] /\ Losing \in Nat
                            /\ Disqualified \subseteq Models
                            /\ \A m \in Disqualified : Score[m] = 0
ASSUME RequestAssumption == Requests \subseteq AllRequests

VARIABLES
    status,     \* models.status, as committed
    losing,     \* active models whose closed positions lost, often enough
    locks,      \* model -> the session whose transaction updated its row
    session     \* session -> its promotion or archival under way

vars == <<status, losing, locks, session>>

Idle == [pc |-> "idle", asked |-> "nothing", target |-> NoModel, old |-> NoModel]

Active == {m \in Models : status[m] = "active"}

\* get_active_model: scalars().first(), in no particular order
FirstActive == IF Active = {} THEN {NoModel} ELSE Active

Init ==
    /\ status = [m \in Models |-> "none"]
    /\ losing = {}
    /\ locks = [m \in Models |-> NoSession]
    /\ session = [s \in Sessions |-> Idle]

Goes(s, next) == session' = [session EXCEPT ![s] = next]
Released(s)   == [m \in Models |-> IF locks[m] = s THEN NoSession ELSE locks[m]]

-----------------------------------------------------------------------------
\* train_symbol and its commit; retrain_job goes on to promote.
Train(s, m, next) ==
    /\ "train" \in Requests
    /\ session[s].pc = "idle"
    /\ status[m] = "none"
    /\ status' = [status EXCEPT ![m] = "candidate"]
    /\ Goes(s, [Idle EXCEPT !.pc = next])
    /\ UNCHANGED <<losing, locks>>

\* score_candidates: candidates have no realized results to be scored by.
Eligible == {m \in Models : status[m] = "candidate"} \ Disqualified
ScoreCandidates(s) ==
    /\ \/ session[s].pc = "idle" /\ "best" \in Requests
       \/ session[s].pc = "trained"
    /\ IF Eligible = {} THEN Goes(s, Idle)
       ELSE \E best \in Eligible :
              /\ \A m \in Eligible : Score[m] <= Score[best]
              /\ Goes(s, [Idle EXCEPT !.pc = "comparing", !.asked = "best",
                                      !.target = best])
    /\ UNCHANGED <<status, losing, locks>>

\* promote_best_candidate's refusal. (NoWorse: of a worse candidate only.)
NoWorse(best, current) == current = NoModel \/ Score[best] >= Score[current]
Better(best, current)  == current = NoModel \/ Score[best] > Score[current]
Compare(s) ==
    /\ session[s].pc = "comparing"
    /\ \E current \in FirstActive :
         IF Better(session[s].target, current)
           THEN Goes(s, [session[s] EXCEPT !.pc = "loading"])
           ELSE Goes(s, Idle)
    /\ UNCHANGED <<status, losing, locks>>

PromoteRequest(s, m, force) ==
    /\ "promote" \in Requests
    /\ session[s].pc = "idle"
    /\ status[m] # "none" /\ (force \/ m \notin Disqualified)
    /\ Goes(s, [Idle EXCEPT !.pc = "loading", !.asked = "model", !.target = m])
    /\ UNCHANGED <<status, losing, locks>>

\* promote_model: the row is read; the active one needs no promotion.
Load(s) ==
    /\ session[s].pc = "loading"
    /\ IF status[session[s].target] = "active"
         THEN Goes(s, Idle)
         ELSE Goes(s, [session[s] EXCEPT !.pc = "finding"])
    /\ UNCHANGED <<status, losing, locks>>

\* _archive_current_active: its SELECT, then its UPDATE.
Find(s) ==
    /\ session[s].pc = "finding"
    /\ \E current \in FirstActive :
         Goes(s, [session[s] EXCEPT !.pc = "archiving", !.old = current])
    /\ UNCHANGED <<status, losing, locks>>

\* (ArchiveCommitted: the archival committed on its own.)
ArchiveCommitted(s) ==
    /\ session[s].pc = "archiving"
    /\ session[s].old # NoModel => locks[session[s].old] = NoSession
    /\ Goes(s, [session[s] EXCEPT !.pc = "activating"])
    /\ status' = [m \in Models |-> IF m = session[s].old THEN "archived"
                                                         ELSE status[m]]
    /\ UNCHANGED <<losing, locks>>
Archive(s) ==
    /\ session[s].pc = "archiving"
    /\ session[s].old # NoModel => locks[session[s].old] = NoSession
    /\ locks' = [m \in Models |-> IF m = session[s].old THEN s ELSE locks[m]]
    /\ Goes(s, [session[s] EXCEPT !.pc = "activating"])
    /\ UNCHANGED <<status, losing>>

Activate(s) ==
    /\ session[s].pc = "activating"
    /\ locks[session[s].target] \in {NoSession, s}
    /\ locks' = [locks EXCEPT ![session[s].target] = s]
    /\ Goes(s, [session[s] EXCEPT !.pc = "committing"])
    /\ UNCHANGED <<status, losing>>

\* (PromotedOnly: the previous active model forgotten.)
PromotedOnly(old, target) == [status EXCEPT ![target] = "active"]
Promoted(old, target) ==
    [m \in Models |-> IF m = target THEN "active"
                      ELSE IF m = old THEN "archived" ELSE status[m]]
Commit(s) ==
    /\ session[s].pc = "committing"
    /\ status' = Promoted(session[s].old, session[s].target)
    /\ locks' = Released(s)
    /\ Goes(s, Idle)
    /\ UNCHANGED losing

\* An exception, a deadlock between row locks among them: rolled back.
Fail(s) ==
    /\ session[s].pc \in {"archiving", "activating", "committing"}
    /\ locks' = Released(s)
    /\ Goes(s, Idle)
    /\ UNCHANGED <<status, losing>>

\* archive_model: the row is read, and updated unless it was archived then.
ArchiveRequest(s, m) ==
    /\ "archive" \in Requests
    /\ session[s].pc = "idle"
    /\ status[m] \notin {"none", "archived"}
    /\ Goes(s, [Idle EXCEPT !.pc = "demoting", !.target = m])
    /\ UNCHANGED <<status, losing, locks>>

Demote(s) ==
    /\ session[s].pc = "demoting"
    /\ locks[session[s].target] = NoSession
    /\ status' = [status EXCEPT ![session[s].target] = "archived"]
    /\ Goes(s, Idle)
    /\ UNCHANGED <<losing, locks>>

\* The trade loop trades the active model, at a loss, min_trades times.
Loses(m) ==
    /\ "trade" \in Requests
    /\ m \in Active \ losing
    /\ losing' = losing \cup {m}
    /\ UNCHANGED <<status, locks, session>>

Promote(s) == \/ ScoreCandidates(s) \/ Compare(s)
              \/ \E m \in Models, force \in BOOLEAN : PromoteRequest(s, m, force)
              \/ Load(s) \/ Find(s) \/ Archive(s) \/ Activate(s) \/ Commit(s)
              \/ Fail(s)

Next == \/ \E s \in Sessions :
             \/ \E m \in Models, next \in {"idle", "trained"} : Train(s, m, next)
             \/ Promote(s)
             \/ \E m \in Models : ArchiveRequest(s, m)
             \/ Demote(s)
        \/ \E m \in Models : Loses(m)

Spec == Init /\ [][Next]_vars

-----------------------------------------------------------------------------
(* Properties *)

SessionStates ==
    [pc: {"idle", "trained", "comparing", "loading", "finding", "archiving",
          "activating", "committing", "demoting"},
     asked: {"nothing", "best", "model"}, target: Models \cup {NoModel},
     old: Models \cup {NoModel}]

TypeOK ==
    /\ status \in [Models -> {"none", "candidate", "active", "archived"}]
    /\ losing \subseteq Models
    /\ locks \in [Models -> Sessions \cup {NoSession}]
    /\ session \in [Sessions -> SessionStates]
    /\ \A s \in Sessions :
         session[s].pc \notin {"idle", "trained"} => session[s].target \in Models

\* A symbol trades one model at a time.
AtMostOneActive == \A m, n \in Active : m = n

\* Why, with one session at a time: the model a promotion found active is
\* still the only one when its update commits.
FoundIsCurrent ==
    \A s \in Sessions :
        session[s].pc \in {"archiving", "activating", "committing"}
            => Active \subseteq {session[s].old}
\* And the candidate it compared still beats that model.
BeatsActive ==
    \A s \in Sessions :
        /\ session[s].asked = "best"
        /\ session[s].pc \in {"loading", "finding", "archiving", "activating",
                              "committing"}
        => \A m \in Active \ {session[s].target} :
              Score[m] < Score[session[s].target]
IndInv == TypeOK /\ AtMostOneActive /\ FoundIsCurrent /\ BeatsActive

\* Once the trade loop has a model, only a request to archive one leaves it
\* without: no promotion, refused, failed or committed, whoever else promotes.
StaysServed ==
    [][Active # {} /\ Active' = {}
         => \E s \in Sessions : session[s].pc = "demoting" /\ session'[s] = Idle]_vars

\* promote-best never replaces a model that scores as well.
BestReplacesWorse ==
    [][\A s \in Sessions :
          session[s].asked = "best" /\ status' # status /\ session'[s] # session[s]
            => \A m \in Active : \/ m = session[s].target
                                 \/ Score[m] < Score[session[s].target]]_vars

\* What a model earned outweighs its holdout metrics: a candidate is not
\* refused in favour of a model that has lost.
Standing(m) == IF m \in losing THEN Losing ELSE Score[m]
RefusalsWeighResults ==
    [][\A s \in Sessions :
          session[s].pc = "comparing" /\ session'[s].pc = "idle"
            => \E m \in Active : Score[session[s].target] <= Standing(m)]_vars
=============================================================================
