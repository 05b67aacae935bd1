----------------------------- MODULE ModelProofs -----------------------------
(***************************************************************************)
(* What ModelRegistry keeps for every set of models, scores and requests:    *)
(* by itself, and when no two sessions promote at the same time.             *)
(***************************************************************************)
EXTENDS ModelRegistry, TLAPS

USE ModelAssumption, ScoreAssumption

Sole == \A s, t \in Sessions : s = t

LEMMA InitInv == Init => IndInv
  BY DEF Init, IndInv, TypeOK, AtMostOneActive, FoundIsCurrent, BeatsActive,
         Active, Idle, SessionStates

-----------------------------------------------------------------------------
(* The types *)

LEMMA GoesType ==
    ASSUME TypeOK, NEW s \in Sessions, NEW next \in SessionStates,
           next.pc \notin {"idle", "trained"} => next.target \in Models,
           Goes(s, next)
    PROVE  /\ session' \in [Sessions -> SessionStates]
           /\ \A t \in Sessions : session'[t].pc \notin {"idle", "trained"}
                                     => session'[t].target \in Models
  BY DEF TypeOK, Goes

LEMMA ReleasedType ==
    ASSUME TypeOK, NEW s \in Sessions
    PROVE  Released(s) \in [Models -> Sessions \cup {NoSession}]
  BY DEF TypeOK, Released

LEMMA IdleType == Idle \in SessionStates /\ Idle.pc = "idle" /\ Idle.asked = "nothing"
  BY DEF Idle, SessionStates

\* A session that goes on keeps its request and its target.
GoesOn(s, pc) == [session[s] EXCEPT !.pc = pc]
LEMMA GoesOnType ==
    ASSUME TypeOK, NEW s \in Sessions, session[s].pc \notin {"idle", "trained"},
           NEW pc \in {"loading", "finding", "archiving", "activating", "committing"}
    PROVE  /\ GoesOn(s, pc) \in SessionStates /\ GoesOn(s, pc).pc = pc
           /\ GoesOn(s, pc).target = session[s].target /\ session[s].target \in Models
           /\ GoesOn(s, pc).asked = session[s].asked /\ GoesOn(s, pc).old = session[s].old
<1>1. session[s] \in SessionStates /\ session[s].target \in Models
  BY DEF TypeOK
<1> QED
  BY <1>1 DEF GoesOn, SessionStates

LEMMA TrainType ==
    ASSUME TypeOK, NEW s \in Sessions, NEW m \in Models,
           NEW next \in {"idle", "trained"}, Train(s, m, next)
    PROVE  TypeOK'
<1>1. [Idle EXCEPT !.pc = next] \in SessionStates /\ [Idle EXCEPT !.pc = next].pc = next
  BY DEF Idle, SessionStates
<1> QED
  BY <1>1, GoesType DEF TypeOK, Train

LEMMA ScoreCandidatesType ==
    ASSUME TypeOK, NEW s \in Sessions, ScoreCandidates(s)
    PROVE  TypeOK'
<1>1. CASE Eligible = {}
  BY <1>1, IdleType, GoesType DEF TypeOK, ScoreCandidates
<1>2. CASE Eligible # {}
  <2>1. PICK best \in Models :
           Goes(s, [Idle EXCEPT !.pc = "comparing", !.asked = "best", !.target = best])
    BY <1>2 DEF ScoreCandidates, Eligible
  <2> DEFINE next == [Idle EXCEPT !.pc = "comparing", !.asked = "best", !.target = best]
  <2>2. next \in SessionStates /\ next.target \in Models
    BY DEF Idle, SessionStates
  <2> QED
    BY <2>1, <2>2, GoesType DEF TypeOK, ScoreCandidates
<1> QED
  BY <1>1, <1>2

LEMMA RequestType ==
    ASSUME TypeOK, NEW s \in Sessions, NEW m \in Models,
           (\E force \in BOOLEAN : PromoteRequest(s, m, force)) \/ ArchiveRequest(s, m)
    PROVE  TypeOK'
<1>1. CASE \E force \in BOOLEAN : PromoteRequest(s, m, force)
  <2> DEFINE next == [Idle EXCEPT !.pc = "loading", !.asked = "model", !.target = m]
  <2>1. next \in SessionStates /\ next.target \in Models
    BY DEF Idle, SessionStates
  <2> QED
    BY <1>1, <2>1, GoesType DEF TypeOK, PromoteRequest
<1>2. CASE ArchiveRequest(s, m)
  <2> DEFINE next == [Idle EXCEPT !.pc = "demoting", !.target = m]
  <2>1. next \in SessionStates /\ next.target \in Models
    BY DEF Idle, SessionStates
  <2> QED
    BY <1>2, <2>1, GoesType DEF TypeOK, ArchiveRequest
<1> QED
  BY <1>1, <1>2

LEMMA OnwardType ==
    ASSUME TypeOK, NEW s \in Sessions,
           Compare(s) \/ Load(s) \/ Find(s) \/ Archive(s) \/ Activate(s)
    PROVE  TypeOK'
<1>1. CASE Compare(s)
  <2>1. Goes(s, GoesOn(s, "loading")) \/ Goes(s, Idle)
    BY <1>1 DEF Compare, GoesOn
  <2> QED
    BY <1>1, <2>1, IdleType, GoesOnType, GoesType DEF TypeOK, Compare
<1>2. CASE Load(s)
  <2>1. Goes(s, GoesOn(s, "finding")) \/ Goes(s, Idle)
    BY <1>2 DEF Load, GoesOn
  <2> QED
    BY <1>2, <2>1, IdleType, GoesOnType, GoesType DEF TypeOK, Load
<1>3. CASE Find(s)
  <2>1. PICK current \in Models \cup {NoModel} :
           Goes(s, [session[s] EXCEPT !.pc = "archiving", !.old = current])
    BY <1>3 DEF Find, FirstActive, Active
  <2>2. session[s] \in SessionStates /\ session[s].target \in Models
    BY <1>3 DEF TypeOK, Find
  <2>3. /\ [session[s] EXCEPT !.pc = "archiving", !.old = current] \in SessionStates
        /\ [session[s] EXCEPT !.pc = "archiving", !.old = current].target \in Models
    BY <2>2 DEF SessionStates
  <2> QED
    BY <1>3, <2>1, <2>3, GoesType DEF TypeOK, Find
<1>4. CASE Archive(s)
  <2>1. Goes(s, GoesOn(s, "activating"))
    BY <1>4 DEF Archive, GoesOn
  <2> QED
    BY <1>4, <2>1, GoesOnType, GoesType DEF TypeOK, Archive
<1>5. CASE Activate(s)
  <2>1. Goes(s, GoesOn(s, "committing"))
    BY <1>5 DEF Activate, GoesOn
  <2> QED
    BY <1>5, <2>1, GoesOnType, GoesType DEF TypeOK, Activate
<1> QED
  BY <1>1, <1>2, <1>3, <1>4, <1>5

LEMMA EndType ==
    ASSUME TypeOK, NEW s \in Sessions, Commit(s) \/ Fail(s) \/ Demote(s)
    PROVE  TypeOK'
<1>1. session[s].pc \in {"committing", "demoting"} => session[s].target \in Models
  BY DEF TypeOK
<1>2. Goes(s, Idle) /\ losing' = losing
  BY DEF Commit, Fail, Demote
<1>3. status' \in [Models -> {"none", "candidate", "active", "archived"}]
  BY <1>1 DEF TypeOK, Commit, Fail, Demote, Promoted
<1>4. locks' \in [Models -> Sessions \cup {NoSession}]
  BY ReleasedType DEF TypeOK, Commit, Fail, Demote
<1> QED
  BY <1>2, <1>3, <1>4, IdleType, GoesType DEF TypeOK

LEMMA TypeStep == TypeOK /\ [Next]_vars => TypeOK'
<1> SUFFICES ASSUME TypeOK, [Next]_vars PROVE TypeOK'
  OBVIOUS
<1>1. ASSUME NEW s \in Sessions, NEW m \in Models, NEW next \in {"idle", "trained"},
             Train(s, m, next)
      PROVE  TypeOK'
  BY <1>1, TrainType
<1>2. ASSUME NEW s \in Sessions, Promote(s) PROVE TypeOK'
  BY <1>2, ScoreCandidatesType, RequestType, OnwardType, EndType DEF Promote
<1>3. ASSUME NEW s \in Sessions, NEW m \in Models, ArchiveRequest(s, m) PROVE TypeOK'
  BY <1>3, RequestType
<1>4. ASSUME NEW s \in Sessions, Demote(s) PROVE TypeOK'
  BY <1>4, EndType
<1>5. ASSUME NEW m \in Models, Loses(m) PROVE TypeOK'
  BY <1>5 DEF TypeOK, Loses, Active
<1>6. CASE UNCHANGED vars
  BY <1>6 DEF TypeOK, vars
<1> QED
  BY <1>1, <1>2, <1>3, <1>4, <1>5, <1>6 DEF Next

\* Every row, lock and session keeps its type.
THEOREM TypeCorrect == Spec => []TypeOK
<1>1. Init => TypeOK
  BY InitInv DEF IndInv
<1> QED
  BY <1>1, TypeStep, PTL DEF Spec

-----------------------------------------------------------------------------
(* Whoever promotes at the same time *)

\* A commit leaves its target active.
LEMMA CommitServes ==
    ASSUME TypeOK, NEW s \in Sessions, Commit(s)
    PROVE  session[s].target \in Active'
  BY DEF TypeOK, Commit, Promoted, Active

LEMMA ServedStep ==
    ASSUME TypeOK, [Next]_vars, Active # {}, Active' = {}
    PROVE  \E s \in Sessions : session[s].pc = "demoting" /\ session'[s] = Idle
<1>1. PICK a \in Active : TRUE
  OBVIOUS
<1>2. status'[a] # "active" /\ status[a] = "active" /\ a \in Models
  BY <1>1 DEF Active
<1>3. ASSUME NEW s \in Sessions, NEW m \in Models, NEW next \in {"idle", "trained"}
      PROVE  ~Train(s, m, next)
  BY <1>2 DEF Train, TypeOK
<1>4. ASSUME NEW s \in Sessions PROVE ~Promote(s)
  <2>1. ~Commit(s)
    BY CommitServes
  <2> QED
    BY <1>2, <2>1 DEF Promote, ScoreCandidates, Compare, PromoteRequest, Load, Find,
                      Archive, Activate, Fail
<1>5. ASSUME NEW s \in Sessions, NEW m \in Models PROVE ~ArchiveRequest(s, m)
  BY <1>2 DEF ArchiveRequest
<1>6. ASSUME NEW m \in Models PROVE ~Loses(m)
  BY <1>2 DEF Loses
<1>7. status' # status
  BY <1>2
<1>8. PICK s \in Sessions : Demote(s)
  BY <1>3, <1>4, <1>5, <1>6, <1>7 DEF Next, vars
<1> QED
  BY <1>8 DEF Demote, Goes, TypeOK

\* No promotion, refused, failed or committed, leaves a traded symbol without
\* an active model, however many sessions promote at once: only archive_model.
THEOREM PromotionsServe == Spec => StaysServed
<1>1. TypeOK /\ [Next]_vars
        => [Active # {} /\ Active' = {}
              => \E s \in Sessions : session[s].pc = "demoting" /\ session'[s] = Idle]_vars
  BY ServedStep
<1> QED
  BY <1>1, TypeCorrect, PTL DEF Spec, StaysServed

-----------------------------------------------------------------------------
(* One session at a time *)

LEMMA SoleStep ==
    ASSUME Sole, IndInv, [Next]_vars, TypeOK'
    PROVE  IndInv'
<1> SUFFICES (AtMostOneActive /\ FoundIsCurrent /\ BeatsActive)'
  BY DEF IndInv
<1>0. /\ TypeOK /\ AtMostOneActive /\ FoundIsCurrent /\ BeatsActive
      /\ \A s \in Sessions : session[s] \in SessionStates
  BY DEF IndInv, TypeOK
\* the only session is elsewhere: nothing is claimed of it
<1> DEFINE Elsewhere(x) == x.pc \in {"idle", "trained", "comparing", "demoting"}
           Onward(x)    == x.pc \in {"loading", "finding", "archiving", "activating",
                                     "committing"}
<1>1. ASSUME NEW s \in Sessions, Active' \subseteq Active, Elsewhere(session'[s])
      PROVE  (AtMostOneActive /\ FoundIsCurrent /\ BeatsActive)'
  BY <1>0, <1>1 DEF Sole, AtMostOneActive, FoundIsCurrent, BeatsActive
<1>2. ASSUME NEW s \in Sessions, Active' = Active, Onward(session[s]),
             Onward(session'[s]), session'[s].asked = session[s].asked,
             session'[s].target = session[s].target,
             session'[s].pc \in {"archiving", "activating", "committing"}
                => Active \subseteq {session'[s].old}
      PROVE  (AtMostOneActive /\ FoundIsCurrent /\ BeatsActive)'
  BY <1>0, <1>2 DEF Sole, AtMostOneActive, FoundIsCurrent, BeatsActive
<1>3. ASSUME NEW s \in Sessions, NEW m \in Models, NEW next \in {"idle", "trained"},
             Train(s, m, next)
      PROVE  (AtMostOneActive /\ FoundIsCurrent /\ BeatsActive)'
  <2>1. Active' \subseteq Active
    BY <1>0, <1>3 DEF Train, Active, TypeOK
  <2>2. session'[s].pc = next
    BY <1>0, <1>3 DEF Train, Goes, TypeOK, Idle
  <2> QED
    BY <1>1, <2>1, <2>2
<1>4. ASSUME NEW s \in Sessions, ScoreCandidates(s)
      PROVE  (AtMostOneActive /\ FoundIsCurrent /\ BeatsActive)'
  <2>1. Active' = Active
    BY <1>4 DEF ScoreCandidates, Active
  <2>2. session'[s].pc \in {"idle", "comparing"}
    <3>1. \/ Goes(s, Idle)
          \/ \E best \in Models :
                Goes(s, [Idle EXCEPT !.pc = "comparing", !.asked = "best",
                                     !.target = best])
      BY <1>4 DEF ScoreCandidates, Eligible
    <3>2. PICK next : Goes(s, next) /\ next.pc \in {"idle", "comparing"}
      <4>1. \A best : [Idle EXCEPT !.pc = "comparing", !.asked = "best",
                                   !.target = best].pc = "comparing"
        BY DEF Idle
      <4> QED
        BY <3>1, <4>1, IdleType
    <3> QED
      BY <1>0, <3>2 DEF Goes, TypeOK
  <2> QED
    BY <1>1, <2>1, <2>2
<1>5. ASSUME NEW s \in Sessions, Compare(s)
      PROVE  (AtMostOneActive /\ FoundIsCurrent /\ BeatsActive)'
  <2>0. Active' = Active
    BY <1>5 DEF Compare, Active
  <2>1. PICK current \in FirstActive :
           IF Better(session[s].target, current)
             THEN Goes(s, GoesOn(s, "loading")) ELSE Goes(s, Idle)
    BY <1>5 DEF Compare, GoesOn
  <2>2. CASE ~Better(session[s].target, current)
    <3>1. session'[s].pc = "idle"
      BY <1>0, <2>1, <2>2 DEF Goes, TypeOK, Idle
    <3> QED
      BY <1>1, <2>0, <3>1
  <2>3. CASE Better(session[s].target, current)
    <3>1. /\ session'[s].pc = "loading" /\ session'[s].asked = session[s].asked
          /\ session'[s].target = session[s].target
      BY <1>0, <1>5, <2>1, <2>3 DEF Goes, TypeOK, GoesOn, SessionStates
    <3>2. \A m \in Active : Score[m] < Score[session[s].target]
      <4> SUFFICES ASSUME NEW m \in Active PROVE Score[m] < Score[session[s].target]
        OBVIOUS
      <4>1. current \in Active /\ m = current
        BY <1>0 DEF FirstActive, AtMostOneActive
      <4>2. current # NoModel
        BY <4>1 DEF Active
      <4>3. Score[current] \in Nat /\ Score[session[s].target] \in Nat
        BY <1>0, <1>5, <4>1 DEF Compare, TypeOK, Active
      <4> QED
        BY <2>3, <4>1, <4>2, <4>3 DEF Better
    <3> QED
      BY <1>0, <2>0, <3>1, <3>2 DEF Sole, AtMostOneActive, FoundIsCurrent, BeatsActive
  <2> QED
    BY <2>2, <2>3
<1>6. ASSUME NEW s \in Sessions, NEW m \in Models, NEW force \in BOOLEAN,
             PromoteRequest(s, m, force)
      PROVE  (AtMostOneActive /\ FoundIsCurrent /\ BeatsActive)'
  <2>1. Active' = Active
    BY <1>6 DEF PromoteRequest, Active
  <2>2. session'[s].pc = "loading" /\ session'[s].asked = "model"
    BY <1>0, <1>6 DEF PromoteRequest, Goes, TypeOK, Idle
  <2> QED
    BY <1>0, <2>1, <2>2 DEF Sole, AtMostOneActive, FoundIsCurrent, BeatsActive
<1>7. ASSUME NEW s \in Sessions, Load(s)
      PROVE  (AtMostOneActive /\ FoundIsCurrent /\ BeatsActive)'
  <2>1. Active' = Active
    BY <1>7 DEF Load, Active
  <2>2. CASE Goes(s, Idle)
    <3>1. session'[s].pc = "idle"
      BY <1>0, <2>2 DEF Goes, TypeOK, Idle
    <3> QED
      BY <1>1, <2>1, <3>1
  <2>3. CASE Goes(s, GoesOn(s, "finding"))
    <3>1. /\ session'[s].pc = "finding" /\ session'[s].asked = session[s].asked
          /\ session'[s].target = session[s].target
      BY <1>0, <2>3 DEF Goes, TypeOK, GoesOn, SessionStates
    <3> QED
      BY <1>2, <1>7, <2>1, <3>1 DEF Load
  <2> QED
    BY <1>7, <2>2, <2>3 DEF Load, GoesOn
<1>8. ASSUME NEW s \in Sessions, Find(s)
      PROVE  (AtMostOneActive /\ FoundIsCurrent /\ BeatsActive)'
  <2>1. Active' = Active
    BY <1>8 DEF Find, Active
  <2>2. PICK current \in FirstActive :
           Goes(s, [session[s] EXCEPT !.pc = "archiving", !.old = current])
    BY <1>8 DEF Find
  <2>3. /\ session'[s].pc = "archiving" /\ session'[s].old = current
        /\ session'[s].asked = session[s].asked
        /\ session'[s].target = session[s].target
    BY <1>0, <2>2 DEF Goes, TypeOK, SessionStates
  <2>4. Active \subseteq {current}
    BY <1>0 DEF FirstActive, AtMostOneActive
  <2> QED
    BY <1>2, <1>8, <2>1, <2>3, <2>4 DEF Find
<1>9. ASSUME NEW s \in Sessions, NEW pc \in {"activating", "committing"},
             session[s].pc \in {"archiving", "activating"},
             Goes(s, GoesOn(s, pc)), status' = status
      PROVE  (AtMostOneActive /\ FoundIsCurrent /\ BeatsActive)'
  <2>1. Active' = Active
    BY <1>9 DEF Active
  <2>2. /\ session'[s].pc = pc /\ session'[s].old = session[s].old
        /\ session'[s].asked = session[s].asked
        /\ session'[s].target = session[s].target
    BY <1>0, <1>9 DEF Goes, TypeOK, GoesOn, SessionStates
  <2>3. Active \subseteq {session[s].old}
    BY <1>0, <1>9 DEF FoundIsCurrent
  <2> QED
    BY <1>2, <1>9, <2>1, <2>2, <2>3
<1>10. ASSUME NEW s \in Sessions, Commit(s)
       PROVE  (AtMostOneActive /\ FoundIsCurrent /\ BeatsActive)'
  <2>1. Active \subseteq {session[s].old}
    BY <1>0, <1>10 DEF FoundIsCurrent, Commit
  <2>2. Active' \subseteq {session[s].target}
    BY <2>1, <1>10 DEF Commit, Promoted, Active
  <2>3. session'[s].pc = "idle"
    BY <1>0, <1>10 DEF Commit, Goes, TypeOK, Idle
  <2> QED
    BY <2>2, <2>3 DEF Sole, AtMostOneActive, FoundIsCurrent, BeatsActive
<1>11. ASSUME NEW s \in Sessions, Fail(s) \/ Demote(s)
       PROVE  (AtMostOneActive /\ FoundIsCurrent /\ BeatsActive)'
  <2>1. Active' \subseteq Active
    BY <1>0, <1>11 DEF Fail, Demote, Active, TypeOK
  <2>2. session'[s].pc = "idle"
    BY <1>0, <1>11 DEF Fail, Demote, Goes, TypeOK, Idle
  <2> QED
    BY <1>1, <2>1, <2>2
<1>12. ASSUME NEW s \in Sessions, NEW m \in Models, ArchiveRequest(s, m)
       PROVE  (AtMostOneActive /\ FoundIsCurrent /\ BeatsActive)'
  <2>1. Active' = Active
    BY <1>12 DEF ArchiveRequest, Active
  <2>2. session'[s].pc = "demoting"
    BY <1>0, <1>12 DEF ArchiveRequest, Goes, TypeOK, Idle
  <2> QED
    BY <1>1, <2>1, <2>2
<1>13. CASE status' = status /\ session' = session
  BY <1>0, <1>13 DEF AtMostOneActive, FoundIsCurrent, BeatsActive, Active
<1>14. ASSUME NEW s \in Sessions, Archive(s) \/ Activate(s)
       PROVE  (AtMostOneActive /\ FoundIsCurrent /\ BeatsActive)'
  BY <1>9, <1>14 DEF Archive, Activate, GoesOn
<1>15. ASSUME NEW s \in Sessions, Promote(s)
       PROVE  (AtMostOneActive /\ FoundIsCurrent /\ BeatsActive)'
  BY <1>4, <1>5, <1>6, <1>7, <1>8, <1>10, <1>11, <1>14, <1>15 DEF Promote
<1>16. (\E m \in Models : Loses(m)) \/ UNCHANGED vars
          => status' = status /\ session' = session
  BY DEF Loses, vars
<1> QED
  BY <1>3, <1>11, <1>12, <1>13, <1>15, <1>16 DEF Next

\* Without concurrent promotions the invariant holds in every state.
THEOREM SoleInvariant == ASSUME Sole PROVE Spec => []IndInv
<1>1. IndInv /\ [Next]_vars => IndInv'
  <2>1. IndInv /\ [Next]_vars => TypeOK'
    BY TypeStep DEF IndInv
  <2> QED
    BY <2>1, SoleStep
<1> QED
  BY <1>1, InitInv, PTL DEF Spec

\* promote_model archives the model before: while no two promotions overlap, a
\* symbol never has two active models.
THEOREM OneModelTrades == ASSUME Sole PROVE Spec => []AtMostOneActive
<1>1. IndInv => AtMostOneActive
  BY DEF IndInv
<1> QED
  BY <1>1, SoleInvariant, PTL

-----------------------------------------------------------------------------
(* promote_best_candidate *)

\* Who has asked for the best is on the way to promote it.
AskedBest(x) == x.asked = "best" => x.pc \notin {"idle", "trained", "demoting"}
BestAsks == \A s \in Sessions : AskedBest(session[s])

LEMMA BestAsksStep ==
    ASSUME TypeOK, BestAsks, [Next]_vars
    PROVE  BestAsks'
<1>1. session \in [Sessions -> SessionStates]
  BY DEF TypeOK
<1>2. ASSUME NEW s \in Sessions, NEW next, AskedBest(next), Goes(s, next)
      PROVE  BestAsks'
  BY <1>1, <1>2 DEF BestAsks, Goes
<1>3. /\ AskedBest(Idle)
      /\ \A pc \in {"idle", "trained"} : AskedBest([Idle EXCEPT !.pc = pc])
      /\ \A m \in Models :
           /\ AskedBest([Idle EXCEPT !.pc = "demoting", !.target = m])
           /\ AskedBest([Idle EXCEPT !.pc = "loading", !.asked = "model", !.target = m])
           /\ AskedBest([Idle EXCEPT !.pc = "comparing", !.asked = "best", !.target = m])
  BY DEF AskedBest, Idle
<1>4. ASSUME NEW s \in Sessions,
             NEW pc \in {"loading", "finding", "archiving", "activating", "committing"}
      PROVE  /\ AskedBest(GoesOn(s, pc))
             /\ \A m \in Models \cup {NoModel} :
                  AskedBest([session[s] EXCEPT !.pc = pc, !.old = m])
  BY <1>1 DEF AskedBest, GoesOn, SessionStates
<1>5. ASSUME NEW s \in Sessions, NEW m \in Models, NEW pc \in {"idle", "trained"},
             Train(s, m, pc)
      PROVE  BestAsks'
  BY <1>2, <1>3, <1>5 DEF Train
<1>6. ASSUME NEW s \in Sessions, ScoreCandidates(s)
      PROVE  BestAsks'
  BY <1>2, <1>3, <1>6 DEF ScoreCandidates, Eligible
<1>7. ASSUME NEW s \in Sessions, Compare(s) \/ Load(s) \/ Activate(s) \/ Archive(s)
      PROVE  BestAsks'
  BY <1>2, <1>3, <1>4, <1>7 DEF Compare, Load, Activate, Archive, GoesOn
<1>8. ASSUME NEW s \in Sessions, Find(s)
      PROVE  BestAsks'
  <2>1. PICK current \in Models \cup {NoModel} :
           Goes(s, [session[s] EXCEPT !.pc = "archiving", !.old = current])
    BY <1>8 DEF Find, FirstActive, Active
  <2> QED
    BY <1>2, <1>4, <2>1
<1>9. ASSUME NEW s \in Sessions, NEW m \in Models,
             ArchiveRequest(s, m) \/ \E force \in BOOLEAN : PromoteRequest(s, m, force)
      PROVE  BestAsks'
  BY <1>2, <1>3, <1>9 DEF ArchiveRequest, PromoteRequest
<1>10. ASSUME NEW s \in Sessions, Commit(s) \/ Fail(s) \/ Demote(s)
       PROVE  BestAsks'
  BY <1>2, <1>3, <1>10 DEF Commit, Fail, Demote
<1>11. CASE UNCHANGED session
  BY <1>11 DEF BestAsks
<1> QED
  BY <1>5, <1>6, <1>7, <1>8, <1>9, <1>10, <1>11 DEF Next, Promote, Loses, vars

\* Nobody who asked for the best changes a status but by committing it.
LEMMA BestCommits ==
    ASSUME Sole, TypeOK, BestAsks, Next, NEW s \in Sessions,
           session[s].asked = "best", status' # status
    PROVE  session[s].pc = "committing"
<1>1. \A t \in Sessions : t = s
  BY DEF Sole
<1>2. session[s].pc \notin {"idle", "trained", "demoting"}
  BY DEF BestAsks, AskedBest
<1>3. ~\E m \in Models, pc \in {"idle", "trained"} : Train(s, m, pc)
  BY <1>2 DEF Train
<1>4. ~Demote(s)
  BY <1>2 DEF Demote
<1>5. Commit(s)
  BY <1>1, <1>3, <1>4 DEF Next, Promote, ScoreCandidates, Compare, PromoteRequest, Load,
     Find, Archive, Activate, Fail, ArchiveRequest, Loses
<1> QED
  BY <1>5 DEF Commit

\* promote_best_candidate "refuses to promote a candidate that scores no better":
\* while no two sessions overlap, what it archives scores less than what it
\* makes active, though it reads the active model twice.
THEOREM BestAlwaysReplacesWorse == ASSUME Sole PROVE Spec => BestReplacesWorse
<1> DEFINE Replaces ==
             \A s \in Sessions :
               session[s].asked = "best" /\ status' # status /\ session'[s] # session[s]
                 => \A m \in Active : \/ m = session[s].target
                                      \/ Score[m] < Score[session[s].target]
<1>1. Init => BestAsks
  BY DEF Init, BestAsks, AskedBest, Idle
<1>2. IndInv /\ BestAsks /\ [Next]_vars => BestAsks'
  BY BestAsksStep DEF IndInv
<1>3. IndInv /\ BestAsks /\ [Next]_vars => [Replaces]_vars
  <2> SUFFICES ASSUME IndInv, BestAsks, Next, NEW s \in Sessions,
                      session[s].asked = "best", status' # status,
                      NEW m \in Active, m # session[s].target
               PROVE  Score[m] < Score[session[s].target]
    BY DEF vars
  <2>1. session[s].pc = "committing"
    BY BestCommits DEF IndInv
  <2> QED
    BY <2>1 DEF IndInv, BeatsActive
<1> QED
  BY <1>1, <1>2, <1>3, SoleInvariant, PTL DEF Spec, BestReplacesWorse
=============================================================================
