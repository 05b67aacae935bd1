----------------------------- MODULE OrderProofs -----------------------------
(***************************************************************************)
(* Proofs about OrderLifecycle, for any orders, sessions, quantities and     *)
(* bounds: first whatever subset of AllFaults the environment produces, then *)
(* without one, when the rows are right and not only cautious and implement  *)
(* OrderLedger: with crashes, lost requests, failed lookups, unreadable       *)
(* accounts and failed commits all the same.                                 *)
(***************************************************************************)
EXTENDS OrderRefinement, TLAPS

USE OrderAssumption, SessionAssumption, NumberAssumption, FaultAssumption

\* The maps and the write rules return values of the column they write.
LEMMA StatusMapType ==
    ASSUME NEW st \in ExStates
    PROVE  /\ StatusMap(st) \in Statuses
           /\ StatusMap(st) = "filled" <=> st = "FILLED"
           /\ StatusMap(st) = "partial" <=> st = "PARTIALLY_FILLED"
BY DEF ExStates, OpenStates, Statuses, Unresolved, StatusMap

LEMMA IdleTypes == IdleSub \in SubStates /\ IdleRec \in RecStates
<1>1. NoReply \in Replies /\ NoImage \in Images
  BY DEF NoReply, Replies, ReplyStates, NoImage, Images
<1>2. IdleSub \in SubStates
  BY <1>1 DEF IdleSub, SubStates
<1>3. IdleRec \in RecStates
  BY <1>1 DEF IdleRec, RecStates
<1> QED
  BY <1>2, <1>3

LEMMA InitInv == Init => IndInv
<1> SUFFICES ASSUME Init PROVE IndInv
  OBVIOUS
<1>1. TypeOK
  <2>1. FreshNotes \in Notes
    BY DEF FreshNotes, Notes
  <2>2. alert \in BOOLEAN /\ walletStale \in BOOLEAN
    BY Zenon DEF Init
  <2>3. failures \in 0..MaxFailures /\ quantity \in [Orders -> 0..Qty]
        /\ executed \in [Orders -> 0..Qty]
    BY DEF Init
  <2> QED
    BY <2>1, <2>2, <2>3, IdleTypes DEF Init, TypeOK
<1>2. WriteAhead /\ ExchangeInv /\ RowInv
  BY DEF Init, WriteAhead, ExchangeInv, RowInv, Backed, FreshNotes
<1>3. SubmitInv
  BY DEF Init, SubmitInv, IdleSub, Busy
<1>4. PassInv
  BY DEF Init, PassInv, IdleRec, NoImage, NoReply, Truthful, ExStates, OpenStates
<1> QED
  BY <1>1, <1>2, <1>3, <1>4 DEF IndInv

-----------------------------------------------------------------------------
(* Frames: what a step may do to the part of the state it does not own. *)

\* The exchange only executes more, and a filled order stays filled.
Advances == /\ \A o \in Orders : executed'[o] >= executed[o]
            /\ \A o \in Orders : exStatus[o] = "FILLED" => exStatus'[o] = "FILLED"

LEMMA StandStill ==
    ASSUME TypeOK, UNCHANGED <<executed, exStatus>>
    PROVE  Advances
BY DEF Advances, TypeOK

\* Passes do not notice a step that moves the exchange forward and takes no
\* price away.
LEMMA PassFrame ==
    ASSUME IndInv, Advances, executed' \in [Orders -> 0..Qty], UNCHANGED rec,
           \A o \in Orders : priced[o] => priced'[o]
    PROVE  PassInv'
<1> SUFFICES ASSUME NEW r \in Reconcilers, NEW o \in Orders
             PROVE  /\ o \in rec[r].todo => rec[r].seen[o].status # "none"
                    /\ rec[r].reply[o].state # "unasked" =>
                         rec[r].seen[o].status # "none"
                    /\ Truthful(rec[r].reply[o], exStatus'[o], executed'[o])
                    /\ rec[r].seen[o].status # "none" =>
                         /\ rec[r].seen[o].priced => priced'[o]
                         /\ ~rec[r].seen[o].priced => rec[r].seen[o].quantity = Qty
                         /\ rec[r].seen[o].attempts < MaxAttempts
  BY DEF PassInv
<1>1. rec[r].reply[o] \in Replies
  BY DEF IndInv, TypeOK, RecStates
<1>2. Truthful(rec[r].reply[o], exStatus'[o], executed'[o])
  BY <1>1 DEF IndInv, PassInv, Truthful, Advances, TypeOK, Replies
<1> QED
  BY <1>2 DEF IndInv, PassInv

\* Nor do submissions, if no row disappears and no request that is still to be
\* sent is touched.
LEMMA SubmitFrame ==
    ASSUME IndInv, Advances, executed' \in [Orders -> 0..Qty], UNCHANGED sub,
           \A o \in Orders : status[o] # "none" => status'[o] # "none",
           \A o \in Orders : request[o] = "idle" => request'[o] = "idle"
    PROVE  SubmitInv'
<1> SUFFICES ASSUME NEW s \in Submitters
             PROVE  /\ Busy(s) => /\ sub[s].order \in Orders
                                  /\ status'[sub[s].order] # "none"
                    /\ sub[s].pc = "committed" => request'[sub[s].order] = "idle"
                    /\ sub[s].pc = "answered" =>
                         /\ sub[s].reply.state \in ExStates
                         /\ Truthful(sub[s].reply, exStatus'[sub[s].order],
                                     executed'[sub[s].order])
  BY DEF SubmitInv, Busy, IndInv
<1>1. Busy(s) => sub[s].order \in Orders /\ status'[sub[s].order] # "none"
  BY DEF IndInv, SubmitInv
<1>2. sub[s].pc = "committed" => request'[sub[s].order] = "idle"
  BY DEF IndInv, SubmitInv, Busy
<1>3. sub[s].reply \in Replies
  BY DEF IndInv, TypeOK, SubStates
<1>4. sub[s].pc = "answered" => /\ sub[s].reply.state \in ExStates
                                /\ Truthful(sub[s].reply, exStatus'[sub[s].order],
                                     executed'[sub[s].order])
  BY <1>1, <1>3 DEF IndInv, SubmitInv, Busy, Truthful, Advances, TypeOK, Replies
<1> QED
  BY <1>1, <1>2, <1>4

\* A session takes its next step: the others keep what they had, and what it
\* now holds is as SubmitInv wants it.
LEMMA SubmitterMoves ==
    ASSUME IndInv, Advances, executed' \in [Orders -> 0..Qty],
           NEW s \in Submitters, NEW to \in SubStates,
           sub' = [sub EXCEPT ![s] = to],
           \A o \in Orders : status[o] # "none" => status'[o] # "none",
           \A t \in Submitters : t # s /\ sub[t].pc = "committed" =>
                request'[sub[t].order] = request[sub[t].order],
           to.pc \in {"committed", "waiting", "answered", "raised"} =>
                /\ to.order \in Orders
                /\ status'[to.order] # "none"
                /\ \A t \in Submitters : t # s /\ Busy(t) => sub[t].order # to.order,
           to.pc = "committed" => request'[to.order] = "idle",
           to.pc = "answered" => /\ to.reply.state \in ExStates
                                 /\ Truthful(to.reply, exStatus'[to.order], executed'[to.order])
    PROVE  SubmitInv' /\ sub' \in [Submitters -> SubStates]
<1>1. sub' \in [Submitters -> SubStates]
  BY DEF IndInv, TypeOK
<1>2. sub'[s] = to
  BY DEF IndInv, TypeOK
<1>3. \A t \in Submitters : t # s => sub'[t] = sub[t]
  BY DEF IndInv, TypeOK
<1>4. Busy(s)' <=> to.pc \in {"committed", "waiting", "answered", "raised"}
  BY <1>2 DEF Busy
<1>5. \A t \in Submitters : t # s => (Busy(t)' <=> Busy(t))
  BY <1>3 DEF Busy
<1>6. ASSUME NEW t \in Submitters
      PROVE  /\ Busy(t)' => /\ sub'[t].order \in Orders
                            /\ status'[sub'[t].order] # "none"
             /\ sub'[t].pc = "committed" => request'[sub'[t].order] = "idle"
             /\ sub'[t].pc = "answered" =>
                  /\ sub'[t].reply.state \in ExStates
                  /\ Truthful(sub'[t].reply, exStatus'[sub'[t].order],
                              executed'[sub'[t].order])
  <2>1. CASE t = s
    BY <1>2, <1>4, <2>1
  <2>2. CASE t # s
    <3>1. Busy(t) => sub[t].order \in Orders /\ status'[sub[t].order] # "none"
      BY DEF IndInv, SubmitInv
    <3>2. sub[t].pc = "committed" => request'[sub[t].order] = "idle"
      BY <2>2 DEF IndInv, SubmitInv
    <3>3. sub[t].reply \in Replies
      BY DEF IndInv, TypeOK, SubStates
    <3>4. sub[t].pc = "answered" => /\ sub[t].reply.state \in ExStates
                                    /\ Truthful(sub[t].reply, exStatus'[sub[t].order],
                                             executed'[sub[t].order])
      BY <3>1, <3>3 DEF IndInv, SubmitInv, Busy, Truthful, Advances, TypeOK, Replies
    <3> QED
      BY <1>3, <1>5, <2>2, <3>1, <3>2, <3>4
  <2> QED
    BY <2>1, <2>2
<1>7. ASSUME NEW t \in Submitters, NEW u \in Submitters, Busy(t)', Busy(u)',
             sub'[t].order = sub'[u].order
      PROVE  t = u
  <2>1. CASE t = s \/ u = s
    BY <1>2, <1>3, <1>4, <1>5, <1>7, <2>1
  <2>2. CASE t # s /\ u # s
    BY <1>3, <1>5, <1>7, <2>2 DEF IndInv, SubmitInv
  <2> QED
    BY <2>1, <2>2
<1> QED
  BY <1>1, <1>6, <1>7 DEF SubmitInv

\* In particular it may go idle, or on to its snapshot.
LEMMA SubmitterLeaves ==
    ASSUME IndInv, UNCHANGED <<executed, exStatus, request>>,
           NEW s \in Submitters, NEW to \in SubStates,
           to.pc \in {"idle", "snapshot"},
           sub' = [sub EXCEPT ![s] = to],
           \A o \in Orders : status[o] # "none" => status'[o] # "none"
    PROVE  SubmitInv' /\ sub' \in [Submitters -> SubStates]
<1>1. Advances /\ executed' \in [Orders -> 0..Qty]
  BY StandStill DEF IndInv, TypeOK
<1> QED
  BY <1>1, SubmitterMoves

\* The same for a pass: what it has read and been told must be as PassInv
\* wants it, and prices stay.
LEMMA PassMoves ==
    ASSUME IndInv, UNCHANGED <<executed, exStatus>>,
           NEW r \in Reconcilers, NEW to \in RecStates,
           rec' = [rec EXCEPT ![r] = to],
           \A o \in Orders : priced[o] => priced'[o],
           \A o \in Orders :
              /\ o \in to.todo => to.seen[o].status # "none"
              /\ to.reply[o].state # "unasked" => to.seen[o].status # "none"
              /\ Truthful(to.reply[o], exStatus[o], executed[o])
              /\ to.seen[o].status # "none" =>
                   /\ to.seen[o].priced => priced'[o]
                   /\ ~to.seen[o].priced => to.seen[o].quantity = Qty
                   /\ to.seen[o].attempts < MaxAttempts
    PROVE  PassInv' /\ rec' \in [Reconcilers -> RecStates]
<1>1. rec' \in [Reconcilers -> RecStates]
  BY DEF IndInv, TypeOK
<1>2. rec'[r] = to
  BY DEF IndInv, TypeOK
<1>3. \A q \in Reconcilers : q # r => rec'[q] = rec[q]
  BY DEF IndInv, TypeOK
<1>4. ASSUME NEW q \in Reconcilers, NEW o \in Orders
      PROVE  /\ o \in rec'[q].todo => rec'[q].seen[o].status # "none"
             /\ rec'[q].reply[o].state # "unasked" =>
                  rec'[q].seen[o].status # "none"
             /\ Truthful(rec'[q].reply[o], exStatus'[o], executed'[o])
             /\ rec'[q].seen[o].status # "none" =>
                  /\ rec'[q].seen[o].priced => priced'[o]
                  /\ ~rec'[q].seen[o].priced => rec'[q].seen[o].quantity = Qty
                  /\ rec'[q].seen[o].attempts < MaxAttempts
  <2>1. CASE q = r
    BY <1>2, <2>1 DEF Truthful
  <2>2. CASE q # r
    BY <1>3, <2>2 DEF IndInv, PassInv, Truthful
  <2> QED
    BY <2>1, <2>2
<1> QED
  BY <1>1, <1>4 DEF PassInv

\* An idle pass holds nothing.
LEMMA IdlePass ==
    \A o \in Orders : /\ o \notin IdleRec.todo
                      /\ IdleRec.reply[o].state = "unasked"
                      /\ IdleRec.reply[o].qty = 0
                      /\ IdleRec.seen[o].status = "none"
BY DEF IdleRec, NoReply, NoImage

-----------------------------------------------------------------------------
(* Submission steps *)

LEMMA SubIntendInv ==
    ASSUME IndInv, NEW s \in Submitters, NEW o \in Orders, SubIntend(s, o)
    PROVE  IndInv'
<1> DEFINE to == [sub[s] EXCEPT !.pc = "committed", !.order = o]
<1> USE DEF SubIntend
<1>1. Advances
  BY StandStill DEF IndInv, market
<1>2. to \in SubStates /\ to.pc = "committed" /\ to.order = o
  BY DEF IndInv, TypeOK, SubStates
<1>3. sub' = [sub EXCEPT ![s] = to] /\ executed' = executed /\ request' = request
  BY DEF market
<1>4. request[o] = "idle"
  BY DEF IndInv, WriteAhead
<1>5. \A p \in Orders : /\ status[p] # "none" => status'[p] # "none"
                        /\ status'[o] # "none"
  BY DEF IndInv, TypeOK
<1>6. \A t \in Submitters : t # s /\ Busy(t) => sub[t].order # o
  BY DEF IndInv, SubmitInv
<1>7. SubmitInv' /\ sub' \in [Submitters -> SubStates]
  <2> HIDE DEF to, SubIntend
  <2>1. executed' \in [Orders -> 0..Qty]
    BY <1>3 DEF IndInv, TypeOK
  <2> QED
    BY <1>1, <1>2, <1>3, <1>4, <1>5, <1>6, <2>1, SubmitterMoves
<1>8. TypeOK'
  BY <1>7 DEF IndInv, TypeOK, market, Statuses, Unresolved
<1>9. WriteAhead' /\ ExchangeInv' /\ RowInv'
  BY DEF IndInv, TypeOK, WriteAhead, ExchangeInv, RowInv, Backed, market
<1>10. PassInv'
  BY <1>1, PassFrame DEF IndInv, TypeOK, market
<1> QED
  BY <1>7, <1>8, <1>9, <1>10 DEF IndInv

LEMMA SubSendInv ==
    ASSUME IndInv, NEW s \in Submitters, SubSend(s)
    PROVE  IndInv'
<1> DEFINE o == sub[s].order
<1> DEFINE to == [sub[s] EXCEPT !.pc = "waiting"]
<1> USE DEF SubSend
<1>0. o \in Orders /\ status[o] # "none" /\ request[o] = "idle" /\ Busy(s)
  BY DEF IndInv, SubmitInv, Busy
<1>1. Advances
  BY StandStill DEF IndInv
<1>2. to \in SubStates /\ to.pc = "waiting" /\ to.order = o
  BY DEF IndInv, TypeOK, SubStates
<1>3. sub' = [sub EXCEPT ![s] = to] /\ executed' = executed /\ status' = status
  BY DEF rows
<1>4. \A t \in Submitters : t # s /\ Busy(t) =>
         sub[t].order # o /\ sub[t].order \in Orders
  BY <1>0 DEF IndInv, SubmitInv
<1>5. \A p \in Orders : p # o => request'[p] = request[p]
  BY DEF IndInv, TypeOK
<1>6. \A t \in Submitters : t # s /\ sub[t].pc = "committed" =>
         request'[sub[t].order] = request[sub[t].order]
  BY <1>4, <1>5 DEF Busy
<1>7. SubmitInv' /\ sub' \in [Submitters -> SubStates]
  <2> HIDE DEF to, o, SubSend
  <2>1. executed' \in [Orders -> 0..Qty]
    BY <1>3 DEF IndInv, TypeOK
  <2> QED
    BY <1>0, <1>1, <1>2, <1>3, <1>4, <1>6, <2>1, SubmitterMoves
<1>8. TypeOK'
  BY <1>7 DEF IndInv, TypeOK, rows
<1>9. WriteAhead' /\ ExchangeInv' /\ RowInv'
  BY <1>0 DEF IndInv, TypeOK, WriteAhead, ExchangeInv, RowInv, Backed, rows
<1>10. PassInv'
  BY <1>1, PassFrame DEF IndInv, TypeOK, rows
<1> QED
  BY <1>7, <1>8, <1>9, <1>10 DEF IndInv

LEMMA SubAnswerInv ==
    ASSUME IndInv, NEW s \in Submitters, SubAnswer(s)
    PROVE  IndInv'
<1> DEFINE o == sub[s].order
<1> DEFINE to == [sub[s] EXCEPT !.pc = "answered", !.reply = View(o)]
<1> USE DEF SubAnswer
<1>0. o \in Orders /\ status[o] # "none" /\ Busy(s) /\ exStatus[o] \in ExStates
  BY DEF IndInv, SubmitInv, Busy, ExchangeInv, TypeOK
<1>1. Advances
  BY StandStill DEF IndInv, market
<1>2. View(o) \in Replies /\ View(o).state \in ExStates /\ Truthful(View(o), exStatus[o], executed[o])
  BY <1>0 DEF IndInv, TypeOK, View, Replies, ReplyStates, Truthful, ExchangeInv,
              ExStates, OpenStates
<1>3. to \in SubStates /\ to.pc = "answered" /\ to.order = o /\ to.reply = View(o)
  <2>1. sub[s] \in SubStates
    BY DEF IndInv, TypeOK
  <2> QED
    BY <1>2, <2>1 DEF SubStates
<1>4. sub' = [sub EXCEPT ![s] = to] /\ UNCHANGED <<executed, exStatus, request, status>>
  BY DEF rows, market
<1>5. \A t \in Submitters : t # s /\ Busy(t) => sub[t].order # o
  BY <1>0 DEF IndInv, SubmitInv
<1>6. Truthful(to.reply, exStatus'[to.order], executed'[to.order])
  BY <1>2, <1>3, <1>4 DEF Truthful, View
<1> HIDE DEF to, o
<1>7. SubmitInv' /\ sub' \in [Submitters -> SubStates]
  BY <1>0, <1>1, <1>2, <1>3, <1>4, <1>5, <1>6, SubmitterMoves, ZenonT(40)
     DEF IndInv, TypeOK
<1>8. TypeOK'
  BY <1>7 DEF IndInv, TypeOK, rows, market
<1>9. WriteAhead' /\ ExchangeInv' /\ RowInv'
  BY DEF IndInv, WriteAhead, ExchangeInv, RowInv, rows, market
<1>10. PassInv'
  BY <1>1, PassFrame DEF IndInv, TypeOK, rows, market
<1> QED
  BY <1>7, <1>8, <1>9, <1>10 DEF IndInv

LEMMA SubRaiseInv ==
    ASSUME IndInv, NEW s \in Submitters, SubRaise(s)
    PROVE  IndInv'
<1> DEFINE to == [sub[s] EXCEPT !.pc = "raised"]
<1> USE DEF SubRaise
<1>1. Advances
  BY StandStill DEF IndInv, market
<1>2. to \in SubStates /\ to.pc = "raised" /\ to.order = sub[s].order /\ Busy(s)
  BY DEF IndInv, TypeOK, SubStates, Busy
<1>3. sub' = [sub EXCEPT ![s] = to] /\ UNCHANGED <<executed, request, status>>
  BY DEF rows, market
<1>4. /\ to.order \in Orders /\ status[to.order] # "none"
      /\ \A t \in Submitters : t # s /\ Busy(t) => sub[t].order # to.order
  BY <1>2 DEF IndInv, SubmitInv
<1> HIDE DEF to
<1>5. SubmitInv' /\ sub' \in [Submitters -> SubStates]
  BY <1>1, <1>2, <1>3, <1>4, SubmitterMoves, ZenonT(40) DEF IndInv, TypeOK
<1>6. TypeOK'
  BY <1>5 DEF IndInv, TypeOK, rows, market
<1>7. WriteAhead' /\ ExchangeInv' /\ RowInv'
  BY DEF IndInv, WriteAhead, ExchangeInv, RowInv, rows, market
<1>8. PassInv'
  BY <1>1, PassFrame DEF IndInv, TypeOK, rows, market
<1> QED
  BY <1>5, <1>6, <1>7, <1>8 DEF IndInv

\* What a session writes of a row it asked the exchange about keeps the row
\* backed, provided the copy it loaded was honest about the price.
LEMMA WriteKeepsBacked ==
    ASSUME NEW seen \in Images, NEW reply \in Replies, reply.state \in ExStates,
           NEW st \in Statuses \cup {"none"}, NEW recorded \in 0..Qty,
           NEW hasPrice \in BOOLEAN, NEW state, NEW qty \in 0..Qty,
           NEW rewrite \in BOOLEAN,
           Backed(st, recorded, hasPrice, state, qty),
           Truthful(reply, state, qty),
           seen.priced => hasPrice,
           ~seen.priced => seen.quantity = Qty
    PROVE  /\ Backed(StatusWritten(seen, reply, st),
                     QuantityWritten(seen, reply, recorded, rewrite),
                     hasPrice \/ reply.qty > 0, state, qty)
           /\ StatusWritten(seen, reply, st) \in Statuses \cup {"none"}
           /\ QuantityWritten(seen, reply, recorded, rewrite) \in 0..Qty
<1> DEFINE st2 == StatusWritten(seen, reply, st)
<1> DEFINE recorded2 == QuantityWritten(seen, reply, recorded, rewrite)
<1>1. reply.qty \in 0..Qty /\ seen.quantity \in 0..Qty
  BY DEF Replies, Images
<1>2. recorded2 \in 0..Qty /\ recorded2 > 0
  BY <1>1 DEF QuantityWritten, Backed
<1>3. reply.qty > 0 => recorded2 <= qty
  BY <1>1 DEF QuantityWritten, Backed, Truthful
<1>4. ~(reply.qty > 0) => recorded2 = recorded
  BY DEF QuantityWritten
<1>5. /\ st2 \in Statuses \cup {"none"}
      /\ st2 = "filled" => st = "filled" \/ reply.state = "FILLED"
      /\ st2 = "partial" => st = "partial" \/ reply.state = "PARTIALLY_FILLED"
  BY StatusMapType DEF StatusWritten
<1>6. st2 \in {"filled", "partial"} => hasPrice \/ reply.qty > 0
  BY <1>1, <1>5 DEF Truthful, Backed
<1>7. st2 = "filled" => state = "FILLED"
  BY <1>5 DEF Truthful, Backed
<1> HIDE DEF st2, recorded2
<1>8. (hasPrice \/ reply.qty > 0) => recorded2 <= qty
  BY <1>3, <1>4 DEF Backed
<1>9. ~(hasPrice \/ reply.qty > 0) => recorded2 = Qty
  BY <1>4 DEF Backed
<1>10. Backed(st2, recorded2, hasPrice \/ reply.qty > 0, state, qty)
  BY <1>2, <1>6, <1>7, <1>8, <1>9 DEF Backed
<1> QED
  BY <1>2, <1>5, <1>10 DEF st2, recorded2

LEMMA SubRecordInv ==
    ASSUME IndInv, NEW s \in Submitters, SubRecord(s)
    PROVE  IndInv'
<1> DEFINE o == sub[s].order
<1> DEFINE reply == sub[s].reply
<1> DEFINE built == [NoImage EXCEPT !.status = "submitted", !.quantity = Qty]
<1> DEFINE to == IF reply.qty > 0 THEN [IdleSub EXCEPT !.pc = "snapshot"] ELSE IdleSub
<1>0. /\ o \in Orders /\ status[o] # "none" /\ reply \in Replies
      /\ reply.state \in ExStates /\ Truthful(reply, exStatus[o], executed[o])
  BY DEF SubRecord, IndInv, SubmitInv, Busy, TypeOK, SubStates
<1>1. built \in Images /\ ~built.priced /\ built.quantity = Qty
  <2>1. NoImage \in Images /\ NoImage.priced = FALSE
    BY DEF NoImage, Images
  <2>2. "submitted" \in Statuses /\ Qty \in 0..Qty
    BY DEF Statuses, Unresolved
  <2> QED
    BY <2>1, <2>2 DEF Images
<1>2. /\ status' = [status EXCEPT ![o] = StatusWritten(built, reply, status[o])]
      /\ quantity' = [quantity EXCEPT
                        ![o] = QuantityWritten(built, reply, quantity[o], FALSE)]
      /\ priced' = [priced EXCEPT ![o] = priced[o] \/ reply.qty > 0]
      /\ fee' = [fee EXCEPT ![o] = fee[o] \/ reply.qty > 0]
      /\ sub' = [sub EXCEPT ![s] = to]
      /\ UNCHANGED <<stage, notes, market, phase, current_stage, rec, alert,
                     walletStale, failures>>
  BY DEF SubRecord
<1>3. /\ Backed(status[o], quantity[o], priced[o], exStatus[o], executed[o])
      /\ status[o] \in Statuses \cup {"none"} /\ quantity[o] \in 0..Qty
      /\ priced[o] \in BOOLEAN /\ executed[o] \in 0..Qty
  BY <1>0 DEF IndInv, RowInv, TypeOK
<1>4. to \in SubStates /\ to.pc \in {"idle", "snapshot"}
  BY IdleTypes DEF IdleSub, SubStates
<1> HIDE DEF o, reply, built, to
<1>5. /\ Backed(StatusWritten(built, reply, status[o]),
                QuantityWritten(built, reply, quantity[o], FALSE),
                priced[o] \/ reply.qty > 0, exStatus[o], executed[o])
      /\ StatusWritten(built, reply, status[o]) \in Statuses \cup {"none"}
      /\ QuantityWritten(built, reply, quantity[o], FALSE) \in 0..Qty
  BY <1>0, <1>1, <1>3, WriteKeepsBacked, ZenonT(40)
<1>6. StatusWritten(built, reply, status[o]) # "none"
  BY <1>0, StatusMapType DEF StatusWritten, Statuses, Unresolved
<1>7. SubmitInv' /\ sub' \in [Submitters -> SubStates]
  <2>1. \A p \in Orders : status[p] # "none" => status'[p] # "none"
    BY <1>2, <1>6 DEF IndInv, TypeOK
  <2>2. UNCHANGED <<executed, exStatus, request>>
    BY <1>2 DEF market
  <2> QED
    BY <1>2, <1>4, <2>1, <2>2, SubmitterLeaves
<1>8. TypeOK'
  <2>1. /\ status' \in [Orders -> Statuses \cup {"none"}]
        /\ quantity' \in [Orders -> 0..Qty]
    BY <1>0, <1>2, <1>5 DEF IndInv, TypeOK
  <2>2. priced' \in [Orders -> BOOLEAN] /\ fee' \in [Orders -> BOOLEAN]
    BY <1>0, <1>2 DEF IndInv, TypeOK
  <2> QED
    BY <1>2, <1>7, <2>1, <2>2 DEF IndInv, TypeOK, market
<1>9. WriteAhead' /\ ExchangeInv'
  BY <1>2, <1>6 DEF IndInv, TypeOK, WriteAhead, ExchangeInv, market
<1>10. RowInv'
  <2> SUFFICES ASSUME NEW p \in Orders
               PROVE  Backed(status'[p], quantity'[p], priced'[p], exStatus'[p],
                             executed'[p])
    BY <1>2 DEF IndInv, RowInv
  <2>1. CASE p = o
    BY <1>0, <1>2, <1>5, <2>1 DEF IndInv, TypeOK, market
  <2>2. CASE p # o
    BY <1>2, <2>2 DEF IndInv, TypeOK, RowInv, market
  <2> QED
    BY <2>1, <2>2
<1>11. PassInv'
  <2>1. Advances
    BY <1>2, StandStill DEF IndInv, market
  <2>2. \A p \in Orders : priced[p] => priced'[p]
    BY <1>0, <1>2 DEF IndInv, TypeOK
  <2> QED
    BY <1>2, <2>1, <2>2, PassFrame DEF IndInv, TypeOK, market
<1> QED
  BY <1>7, <1>8, <1>9, <1>10, <1>11 DEF IndInv

LEMMA SubSnapshotInv ==
    ASSUME IndInv, NEW s \in Submitters, SubSnapshot(s)
    PROVE  IndInv'
<1>1. UNCHANGED <<status, stage, quantity, priced, fee, notes, request, exStatus,
                  executed, phase, current_stage, rec, alert, failures>>
  BY DEF SubSnapshot, rows, market
<1>2. SubmitInv' /\ sub' \in [Submitters -> SubStates]
  BY <1>1, IdleTypes, SubmitterLeaves DEF SubSnapshot, IdleSub
<1>3. walletStale' \in BOOLEAN
  BY Zenon DEF SubSnapshot, IndInv, TypeOK
<1>4. TypeOK'
  BY <1>1, <1>2, <1>3 DEF IndInv, TypeOK
<1>5. WriteAhead' /\ ExchangeInv' /\ RowInv'
  BY <1>1 DEF IndInv, WriteAhead, ExchangeInv, RowInv
<1>6. PassInv'
  BY <1>1, StandStill, PassFrame DEF IndInv, TypeOK
<1> QED
  BY <1>2, <1>4, <1>5, <1>6 DEF IndInv

LEMMA SubFailInv ==
    ASSUME IndInv, NEW s \in Submitters, SubFail(s)
    PROVE  IndInv'
<1> DEFINE o == sub[s].order
<1>0. o \in Orders
  BY DEF SubFail, IndInv, SubmitInv, Busy
<1>1. /\ status' = [status EXCEPT ![o] = "failed"]
      /\ notes' = [notes EXCEPT ![o] = FreshNotes]
      /\ sub' = [sub EXCEPT ![s] = IdleSub]
      /\ UNCHANGED <<stage, quantity, priced, fee, request, exStatus, executed,
                     phase, current_stage, rec, alert, walletStale, failures>>
  BY DEF SubFail, market
<1> HIDE DEF o
<1>2. \A p \in Orders : status'[p] = status[p] \/ status'[p] = "failed"
  BY <1>0, <1>1 DEF IndInv, TypeOK
<1>3. SubmitInv' /\ sub' \in [Submitters -> SubStates]
  BY <1>1, <1>2, IdleTypes, SubmitterLeaves DEF IdleSub
<1>4. TypeOK'
  <2>1. FreshNotes \in Notes
    BY DEF FreshNotes, Notes
  <2>2. notes' \in [Orders -> Notes] /\ status' \in [Orders -> Statuses \cup {"none"}]
    BY <1>0, <1>1, <2>1 DEF IndInv, TypeOK, Statuses
  <2> QED
    BY <1>1, <1>3, <2>2 DEF IndInv, TypeOK
<1>5. WriteAhead' /\ ExchangeInv'
  BY <1>1, <1>2 DEF IndInv, WriteAhead, ExchangeInv
<1>6. RowInv'
  <2>1. \A p \in Orders : notes'[p].attention <=> notes'[p].attempts = MaxAttempts
    BY <1>0, <1>1 DEF IndInv, RowInv, TypeOK, FreshNotes
  <2> QED
    BY <1>1, <1>2, <2>1 DEF IndInv, RowInv, Backed
<1>7. PassInv'
  BY <1>1, StandStill, PassFrame DEF IndInv, TypeOK
<1> QED
  BY <1>3, <1>4, <1>5, <1>6, <1>7 DEF IndInv

LEMMA SubAbortInv ==
    ASSUME IndInv, NEW s \in Submitters, SubAbort(s)
    PROVE  IndInv'
<1>1. UNCHANGED <<status, stage, quantity, priced, fee, notes, request, exStatus,
                  executed, phase, current_stage, rec, alert, walletStale>>
  BY DEF SubAbort, rows, market
<1>2. SubmitInv' /\ sub' \in [Submitters -> SubStates]
  BY <1>1, IdleTypes, SubmitterLeaves DEF SubAbort, IdleSub
<1>3. failures' \in 0..MaxFailures
  BY DEF SubAbort, IndInv, TypeOK
<1>4. TypeOK'
  BY <1>1, <1>2, <1>3 DEF IndInv, TypeOK
<1>5. WriteAhead' /\ ExchangeInv' /\ RowInv'
  BY <1>1 DEF IndInv, WriteAhead, ExchangeInv, RowInv
<1>6. PassInv'
  BY <1>1, StandStill, PassFrame DEF IndInv, TypeOK
<1> QED
  BY <1>2, <1>4, <1>5, <1>6 DEF IndInv

-----------------------------------------------------------------------------
(* Reconciliation steps *)

LEMMA RecNothingDueInv ==
    ASSUME IndInv, NEW r \in Reconcilers, RecNothingDue(r)
    PROVE  IndInv'
<1>1. UNCHANGED <<status, stage, quantity, priced, fee, notes, request, exStatus,
                  executed, current_stage, sub, rec, walletStale, failures>>
  BY DEF RecNothingDue, rows, market
<1>2. alert' \in BOOLEAN /\ phase' \in {"starting", "running"}
  BY Zenon DEF RecNothingDue
<1>3. TypeOK'
  BY <1>1, <1>2 DEF IndInv, TypeOK
<1>4. WriteAhead' /\ ExchangeInv' /\ RowInv'
  BY <1>1 DEF IndInv, WriteAhead, ExchangeInv, RowInv
<1>5. SubmitInv' /\ PassInv'
  BY <1>1, StandStill, PassFrame, SubmitFrame DEF IndInv, TypeOK
<1> QED
  BY <1>3, <1>4, <1>5 DEF IndInv

LEMMA RecStartInv ==
    ASSUME IndInv, NEW r \in Reconcilers, RecStart(r)
    PROVE  IndInv'
<1> DEFINE due == Due(current_stage)
<1> DEFINE seen == [o \in Orders |-> IF o \in due THEN Image(o) ELSE NoImage]
<1> DEFINE to == [IdleRec EXCEPT !.pc = "looking", !.stage = current_stage,
                                 !.todo = due, !.seen = seen]
<1>1. UNCHANGED <<status, stage, quantity, priced, fee, notes, request, exStatus,
                  executed, phase, current_stage, sub, alert, walletStale, failures>>
  BY DEF RecStart, rows, market
<1>2. rec' = [rec EXCEPT ![r] = to]
  BY DEF RecStart
<1>3. \A o \in due : /\ o \in Orders /\ status[o] # "none"
                     /\ Image(o) \in Images
                     /\ Image(o).status = status[o]
                     /\ Image(o).priced = priced[o]
                     /\ Image(o).quantity = quantity[o]
                     /\ Image(o).attempts < MaxAttempts
  <2> SUFFICES ASSUME NEW o \in due
               PROVE  /\ o \in Orders /\ status[o] # "none"
                      /\ Image(o) \in Images
                      /\ Image(o).attempts < MaxAttempts
    BY DEF Image
  <2>1. o \in Orders /\ status[o] # "none"
    BY DEF Due, Unresolved
  <2>2. notes[o].attempts \in 0..MaxAttempts
    BY <2>1 DEF IndInv, TypeOK, Notes
  <2>3. Image(o) \in Images
    BY <2>1, <2>2 DEF Image, Images, IndInv, TypeOK
  <2>4. Image(o).attempts < MaxAttempts
    BY <2>1, <2>2 DEF Image, Due, IndInv, RowInv
  <2> QED
    BY <2>1, <2>3, <2>4
<1>4. NoImage \in Images /\ NoImage.status = "none"
  BY DEF NoImage, Images
<1>5. /\ due \subseteq Orders /\ seen \in [Orders -> Images]
      /\ current_stage \in Stages
  <2>1. due \subseteq Orders
    BY <1>3
  <2>2. seen \in [Orders -> Images]
    BY <1>3, <1>4
  <2> QED
    BY <2>1, <2>2 DEF IndInv, TypeOK
<1>6. /\ to \in RecStates /\ to.todo = due /\ to.seen = seen
      /\ to.reply = IdleRec.reply
  <2> HIDE DEF due, seen
  <2> QED
    BY <1>5, IdleTypes DEF IdleRec, RecStates
<1>7. ASSUME NEW o \in Orders
      PROVE  /\ o \in due => seen[o].status # "none"
             /\ seen[o].status # "none" => /\ seen[o].priced => priced[o]
                                           /\ ~seen[o].priced => seen[o].quantity = Qty
                                           /\ seen[o].attempts < MaxAttempts
  <2>1. CASE o \in due
    BY <1>3, <2>1 DEF IndInv, RowInv, Backed
  <2>2. CASE o \notin due
    BY <1>4, <2>2
  <2> QED
    BY <2>1, <2>2
<1>8. \A o \in Orders : /\ to.reply[o].state = "unasked"
                        /\ Truthful(to.reply[o], exStatus[o], executed[o])
  BY <1>6, IdlePass DEF IndInv, TypeOK, Truthful, ExStates, OpenStates
<1>9. PassInv' /\ rec' \in [Reconcilers -> RecStates]
  <2> HIDE DEF due, seen, to
  <2> QED
    BY <1>1, <1>2, <1>6, <1>7, <1>8, PassMoves
<1> HIDE DEF to
<1>10. TypeOK'
  BY <1>1, <1>9 DEF IndInv, TypeOK
<1>11. WriteAhead' /\ ExchangeInv' /\ RowInv'
  BY <1>1 DEF IndInv, WriteAhead, ExchangeInv, RowInv
<1>12. SubmitInv'
  BY <1>1, StandStill, SubmitFrame DEF IndInv, TypeOK
<1> QED
  BY <1>9, <1>10, <1>11, <1>12 DEF IndInv

LEMMA AskedType ==
    ASSUME NEW pass \in RecStates, NEW o \in Orders, NEW reply \in Replies
    PROVE  /\ Asked(pass, o, reply) \in RecStates
           /\ Asked(pass, o, reply).todo \subseteq pass.todo
           /\ Asked(pass, o, reply).seen = pass.seen
           /\ Asked(pass, o, reply).reply = [pass.reply EXCEPT ![o] = reply]
           /\ pass.reply \in [Orders -> Replies]
<1> DEFINE heard == [pass.reply EXCEPT ![o] = reply]
<1>1. pass.reply \in [Orders -> Replies] /\ heard \in [Orders -> Replies]
  BY DEF RecStates
<1>2. Asked(pass, o, reply) = [pass EXCEPT !.todo = pass.todo \ {o}, !.reply = heard]
  BY DEF Asked
<1> HIDE DEF heard
<1>3. /\ Asked(pass, o, reply) \in RecStates
      /\ Asked(pass, o, reply).todo \subseteq pass.todo
      /\ Asked(pass, o, reply).seen = pass.seen
      /\ Asked(pass, o, reply).reply = heard
  BY <1>1, <1>2 DEF RecStates
<1> QED
  BY <1>1, <1>3 DEF heard

LEMMA RecLookupInv ==
    ASSUME IndInv, NEW r \in Reconcilers, NEW o \in Orders, RecLookup(r, o)
    PROVE  IndInv'
<1>1. UNCHANGED <<status, stage, quantity, priced, fee, notes, request, exStatus,
                  executed, phase, current_stage, sub, alert, walletStale, failures>>
  BY DEF RecLookup, rows, market
<1>2. PICK reply \in Answers(o, rec[r].stage) :
         rec' = [rec EXCEPT ![r] = Asked(rec[r], o, reply)]
  BY DEF RecLookup
<1> DEFINE to == Asked(rec[r], o, reply)
<1>3. reply \in Replies /\ Truthful(reply, exStatus[o], executed[o])
  <2>1. CASE reply \in {Unknown, LookupError}
    BY <2>1 DEF Unknown, LookupError, Replies, ReplyStates, Truthful, ExStates,
                OpenStates, IndInv, TypeOK
  <2>2. CASE reply = View(o) /\ exStatus[o] # "unknown"
    BY <2>2 DEF View, Replies, ReplyStates, Truthful, ExStates, OpenStates, IndInv,
                TypeOK, ExchangeInv
  <2> QED
    BY <2>1, <2>2 DEF Answers
<1>4. o \in rec[r].todo /\ rec[r].seen[o].status # "none"
  BY DEF RecLookup, IndInv, PassInv
<1>5. /\ to \in RecStates /\ to.todo \subseteq rec[r].todo /\ to.seen = rec[r].seen
      /\ to.reply = [rec[r].reply EXCEPT ![o] = reply]
      /\ rec[r].reply \in [Orders -> Replies]
  <2>1. rec[r] \in RecStates
    BY DEF IndInv, TypeOK
  <2> QED
    BY <1>3, <2>1, AskedType
<1>6. rec' = [rec EXCEPT ![r] = to]
  BY <1>2
<1> HIDE DEF to
<1>7. \A p \in Orders :
         /\ p \in to.todo => to.seen[p].status # "none"
         /\ to.reply[p].state # "unasked" => to.seen[p].status # "none"
         /\ Truthful(to.reply[p], exStatus[p], executed[p])
         /\ to.seen[p].status # "none" =>
              /\ to.seen[p].priced => priced[p]
              /\ ~to.seen[p].priced => to.seen[p].quantity = Qty
              /\ to.seen[p].attempts < MaxAttempts
  BY <1>3, <1>4, <1>5 DEF IndInv, PassInv
<1>8. PassInv' /\ rec' \in [Reconcilers -> RecStates]
  BY <1>1, <1>5, <1>6, <1>7, PassMoves
<1>9. TypeOK'
  BY <1>1, <1>8 DEF IndInv, TypeOK
<1>10. WriteAhead' /\ ExchangeInv' /\ RowInv'
  BY <1>1 DEF IndInv, WriteAhead, ExchangeInv, RowInv
<1>11. SubmitInv'
  BY <1>1, StandStill, SubmitFrame DEF IndInv, TypeOK
<1> QED
  BY <1>8, <1>9, <1>10, <1>11 DEF IndInv

LEMMA RecCommitInv ==
    ASSUME IndInv, NEW r \in Reconcilers, RecCommit(r)
    PROVE  IndInv'
<1> DEFINE seen == rec[r].seen
<1> DEFINE reply == rec[r].reply
<1> DEFINE asked == {o \in Orders : reply[o].state # "unasked"}
<1> DEFINE to == [IdleRec EXCEPT !.pc = "alerting", !.stage = rec[r].stage,
                                 !.settled = \E o \in asked : Settles(reply[o])]
<1>1. /\ status' = [o \in Orders |->
             IF o \in asked THEN VerdictOn(seen[o], reply[o], status[o])
                            ELSE status[o]]
      /\ priced' = [o \in Orders |-> priced[o] \/ reply[o].qty > 0]
      /\ fee' = [o \in Orders |-> fee[o] /\ ~(Known(reply[o]) /\ seen[o].fee)]
      /\ notes' = [o \in Orders |->
             IF o \in asked THEN NotesWritten(seen[o], reply[o], notes[o])
                            ELSE notes[o]]
      /\ rec' = [rec EXCEPT ![r] = to]
      /\ UNCHANGED <<stage, request, exStatus, executed, phase, current_stage, sub,
                     alert, walletStale, failures>>
  BY DEF RecCommit, market
<1>2. PICK rewrite \in BOOLEAN :
         quantity' = [o \in Orders |->
                        QuantityWritten(seen[o], reply[o], quantity[o], rewrite)]
  BY DEF RecCommit
<1>3. ASSUME NEW o \in Orders
      PROVE  /\ seen[o] \in Images /\ reply[o] \in Replies
             /\ Truthful(reply[o], exStatus[o], executed[o])
             /\ o \in asked => /\ seen[o].priced => priced[o]
                               /\ ~seen[o].priced => seen[o].quantity = Qty
                               /\ seen[o].attempts < MaxAttempts
             /\ Backed(status[o], quantity[o], priced[o], exStatus[o], executed[o])
             /\ status[o] \in Statuses \cup {"none"} /\ quantity[o] \in 0..Qty
             /\ priced[o] \in BOOLEAN /\ executed[o] \in 0..Qty
             /\ notes[o] \in Notes
             /\ notes[o].attention <=> notes[o].attempts = MaxAttempts
  BY DEF IndInv, TypeOK, RecStates, PassInv, RowInv
<1>4. to \in RecStates /\ to.todo = {} /\ to.seen = IdleRec.seen
      /\ to.reply = IdleRec.reply
  <2>1. rec[r].stage \in Stages \cup {"none"}
    BY DEF IndInv, TypeOK, RecStates
  <2>2. (\E o \in asked : Settles(reply[o])) \in BOOLEAN
    OBVIOUS
  <2> HIDE DEF asked, reply
  <2> QED
    BY <2>1, <2>2, IdleTypes DEF IdleRec, RecStates
<1> HIDE DEF seen, reply, to
<1>5. ASSUME NEW o \in Orders
      PROVE  /\ Backed(status'[o], quantity'[o], priced'[o], exStatus'[o], executed'[o])
             /\ status'[o] \in Statuses \cup {"none"}
             /\ quantity'[o] \in 0..Qty
             /\ status[o] # "none" => status'[o] # "none"
  <2>1. CASE reply[o].state \in ExStates
    <3>1. o \in asked
      BY <2>1 DEF ExStates, OpenStates
    <3>2. status'[o] = StatusWritten(seen[o], reply[o], status[o])
      BY <1>1, <2>1, <3>1 DEF VerdictOn, Known
    <3>3. /\ quantity'[o] = QuantityWritten(seen[o], reply[o], quantity[o], rewrite)
          /\ priced'[o] = (priced[o] \/ reply[o].qty > 0)
          /\ exStatus'[o] = exStatus[o] /\ executed'[o] = executed[o]
      BY <1>1, <1>2
    <3>4. /\ Backed(StatusWritten(seen[o], reply[o], status[o]),
                    QuantityWritten(seen[o], reply[o], quantity[o], rewrite),
                    priced[o] \/ reply[o].qty > 0, exStatus[o], executed[o])
          /\ StatusWritten(seen[o], reply[o], status[o]) \in Statuses \cup {"none"}
          /\ QuantityWritten(seen[o], reply[o], quantity[o], rewrite) \in 0..Qty
      BY <1>3, <2>1, <3>1, WriteKeepsBacked
    <3>5. status[o] # "none" => status'[o] # "none"
      BY <2>1, <3>2, StatusMapType DEF StatusWritten, Statuses, Unresolved
    <3> QED
      BY <3>2, <3>3, <3>4, <3>5
  <2>2. CASE reply[o].state \notin ExStates
    <3>1. reply[o].qty = 0
      BY <1>3, <2>2 DEF Truthful
    <3>2. quantity'[o] = quantity[o] /\ priced'[o] = priced[o]
          /\ exStatus'[o] = exStatus[o] /\ executed'[o] = executed[o]
      BY <1>1, <1>2, <1>3, <3>1 DEF QuantityWritten
    <3>3. status'[o] \in {status[o], "failed"}
      BY <1>1, <2>2 DEF VerdictOn, Known
    <3> QED
      BY <1>3, <3>2, <3>3 DEF Backed, Statuses
  <2> QED
    BY <2>1, <2>2
<1>6. ASSUME NEW o \in Orders
      PROVE  /\ notes'[o] \in Notes
             /\ notes'[o].attention <=> notes'[o].attempts = MaxAttempts
  <2>1. CASE o \in asked
    <3>1. seen[o].attempts \in 0..MaxAttempts /\ seen[o].attempts < MaxAttempts
      BY <1>3, <2>1 DEF Images
    <3>2. notes'[o] = NotesWritten(seen[o], reply[o], notes[o])
      BY <1>1, <2>1
    <3>3. notes'[o] \in {AfterError(seen[o].attempts),
                         [FreshNotes EXCEPT !.attempts = seen[o].attempts],
                         FreshNotes, notes[o]}
      BY <3>2 DEF NotesWritten
    <3>4. /\ AfterError(seen[o].attempts) \in Notes
          /\ AfterError(seen[o].attempts).attention <=>
               AfterError(seen[o].attempts).attempts = MaxAttempts
      <4> DEFINE n == seen[o].attempts + 1
      <4> DEFINE late == n >= MaxAttempts
      <4>1. n \in 0..MaxAttempts /\ late \in BOOLEAN /\ (late <=> n = MaxAttempts)
        BY <3>1
      <4>2. AfterError(seen[o].attempts) =
              [attempts |-> n, attention |-> late, waiting |-> TRUE]
        BY DEF AfterError
      <4> HIDE DEF n, late
      <4>3. [attempts |-> n, attention |-> late, waiting |-> TRUE] \in Notes
        BY <4>1 DEF Notes
      <4> QED
        BY <4>1, <4>2, <4>3
    <3>5. /\ FreshNotes \in Notes
          /\ FreshNotes.attention = FALSE /\ FreshNotes.attempts = 0
      BY DEF FreshNotes, Notes
    <3> DEFINE kept == [FreshNotes EXCEPT !.attempts = seen[o].attempts]
    <3>6. kept \in Notes /\ kept.attention = FALSE /\ kept.attempts = seen[o].attempts
      BY <3>1, <3>5 DEF Notes
    <3> HIDE DEF kept
    <3>7. notes'[o] \in {AfterError(seen[o].attempts), kept, FreshNotes, notes[o]}
      BY <3>3 DEF kept
    <3> QED
      BY <1>3, <3>1, <3>4, <3>5, <3>6, <3>7
  <2>2. CASE o \notin asked
    BY <1>1, <1>3, <2>2
  <2> QED
    BY <2>1, <2>2
<1>7. PassInv' /\ rec' \in [Reconcilers -> RecStates]
  <2>1. \A o \in Orders : /\ o \notin to.todo
                          /\ to.reply[o].state = "unasked"
                          /\ Truthful(to.reply[o], exStatus[o], executed[o])
                          /\ to.seen[o].status = "none"
    BY <1>3, <1>4, IdlePass DEF Truthful, ExStates, OpenStates
  <2>2. \A o \in Orders : priced[o] => priced'[o]
    BY <1>1
  <2> QED
    BY <1>1, <1>4, <2>1, <2>2, PassMoves
<1>8. TypeOK'
  <2>1. /\ status' \in [Orders -> Statuses \cup {"none"}]
        /\ quantity' \in [Orders -> 0..Qty] /\ notes' \in [Orders -> Notes]
    BY <1>1, <1>2, <1>5, <1>6
  <2>2. priced' \in [Orders -> BOOLEAN] /\ fee' \in [Orders -> BOOLEAN]
    BY <1>1
  <2> QED
    BY <1>1, <1>7, <2>1, <2>2 DEF IndInv, TypeOK
<1>9. WriteAhead' /\ ExchangeInv' /\ RowInv'
  BY <1>1, <1>5, <1>6 DEF IndInv, WriteAhead, ExchangeInv, RowInv
<1>10. SubmitInv'
  BY <1>1, <1>5, StandStill, SubmitFrame DEF IndInv, TypeOK
<1> QED
  BY <1>7, <1>8, <1>9, <1>10 DEF IndInv

\* A pass that goes idle holds nothing.
LEMMA PassLeaves ==
    ASSUME IndInv, UNCHANGED <<executed, exStatus, priced>>,
           NEW r \in Reconcilers, rec' = [rec EXCEPT ![r] = IdleRec]
    PROVE  PassInv' /\ rec' \in [Reconcilers -> RecStates]
<1>1. \A o \in Orders : Truthful(IdleRec.reply[o], exStatus[o], executed[o])
  BY IdlePass DEF IndInv, TypeOK, Truthful, ExStates, OpenStates
<1> QED
  BY <1>1, IdleTypes, IdlePass, PassMoves

LEMMA RecAlertInv ==
    ASSUME IndInv, NEW r \in Reconcilers, RecAlert(r)
    PROVE  IndInv'
<1> DEFINE on == [rec[r] EXCEPT !.pc = "snapshot"]
<1>1. UNCHANGED <<status, stage, quantity, priced, fee, notes, request, exStatus,
                  executed, current_stage, sub, walletStale, failures>>
  BY DEF RecAlert, rows, market
<1>2. alert' \in BOOLEAN
  BY Zenon DEF RecAlert
<1>3. phase' \in {"starting", "running"}
  BY DEF RecAlert, IndInv, TypeOK
<1>4. rec' = [rec EXCEPT ![r] = on] \/ rec' = [rec EXCEPT ![r] = IdleRec]
  BY DEF RecAlert
<1>5. /\ on \in RecStates /\ on.todo = rec[r].todo /\ on.seen = rec[r].seen
      /\ on.reply = rec[r].reply
  <2>1. rec[r] \in RecStates
    BY DEF IndInv, TypeOK
  <2> QED
    BY <2>1 DEF RecStates
<1> HIDE DEF on
<1>6. PassInv' /\ rec' \in [Reconcilers -> RecStates]
  <2>1. CASE rec' = [rec EXCEPT ![r] = on]
    <3>1. \A o \in Orders :
             /\ o \in on.todo => on.seen[o].status # "none"
             /\ on.reply[o].state # "unasked" => on.seen[o].status # "none"
             /\ Truthful(on.reply[o], exStatus[o], executed[o])
             /\ on.seen[o].status # "none" =>
                  /\ on.seen[o].priced => priced[o]
                  /\ ~on.seen[o].priced => on.seen[o].quantity = Qty
                  /\ on.seen[o].attempts < MaxAttempts
      BY <1>5 DEF IndInv, PassInv
    <3> QED
      BY <1>1, <1>5, <2>1, <3>1, PassMoves
  <2>2. CASE rec' = [rec EXCEPT ![r] = IdleRec]
    BY <1>1, <2>2, PassLeaves
  <2> QED
    BY <1>4, <2>1, <2>2
<1>7. TypeOK'
  BY <1>1, <1>2, <1>3, <1>6 DEF IndInv, TypeOK
<1>8. WriteAhead' /\ ExchangeInv' /\ RowInv'
  BY <1>1 DEF IndInv, WriteAhead, ExchangeInv, RowInv
<1>9. SubmitInv'
  BY <1>1, StandStill, SubmitFrame DEF IndInv, TypeOK
<1> QED
  BY <1>6, <1>7, <1>8, <1>9 DEF IndInv

LEMMA RecSnapshotInv ==
    ASSUME IndInv, NEW r \in Reconcilers, RecSnapshot(r)
    PROVE  IndInv'
<1>1. UNCHANGED <<status, stage, quantity, priced, fee, notes, request, exStatus,
                  executed, current_stage, sub, alert, failures>>
  BY DEF RecSnapshot, rows, market
<1>2. walletStale' \in BOOLEAN
  BY Zenon DEF RecSnapshot, IndInv, TypeOK
<1>3. PassInv' /\ rec' \in [Reconcilers -> RecStates]
  BY <1>1, PassLeaves DEF RecSnapshot
<1>4. phase' \in {"starting", "running"}
  BY DEF RecSnapshot
<1>5. TypeOK'
  BY <1>1, <1>2, <1>3, <1>4 DEF IndInv, TypeOK
<1>6. WriteAhead' /\ ExchangeInv' /\ RowInv'
  BY <1>1 DEF IndInv, WriteAhead, ExchangeInv, RowInv
<1>7. SubmitInv'
  BY <1>1, StandStill, SubmitFrame DEF IndInv, TypeOK
<1> QED
  BY <1>3, <1>5, <1>6, <1>7 DEF IndInv

LEMMA RecAbortInv ==
    ASSUME IndInv, NEW r \in Reconcilers, RecAbort(r)
    PROVE  IndInv'
<1>1. UNCHANGED <<status, stage, quantity, priced, fee, notes, request, exStatus,
                  executed, current_stage, sub, alert, walletStale>>
  BY DEF RecAbort, rows, market
<1>2. failures' \in 0..MaxFailures /\ phase' \in {"starting", "running"}
  BY DEF RecAbort, IndInv, TypeOK
<1>3. PassInv' /\ rec' \in [Reconcilers -> RecStates]
  BY <1>1, PassLeaves DEF RecAbort
<1>4. TypeOK'
  BY <1>1, <1>2, <1>3 DEF IndInv, TypeOK
<1>5. WriteAhead' /\ ExchangeInv' /\ RowInv'
  BY <1>1 DEF IndInv, WriteAhead, ExchangeInv, RowInv
<1>6. SubmitInv'
  BY <1>1, StandStill, SubmitFrame DEF IndInv, TypeOK
<1> QED
  BY <1>3, <1>4, <1>5, <1>6 DEF IndInv

LEMMA ElapseInv ==
    ASSUME IndInv, NEW o \in Orders, Elapse(o)
    PROVE  IndInv'
<1> DEFINE ready == [notes[o] EXCEPT !.waiting = FALSE]
<1>1. /\ notes' = [notes EXCEPT ![o] = ready]
      /\ UNCHANGED <<status, stage, quantity, priced, fee, request, exStatus,
                     executed, phase, current_stage, sub, rec, alert, walletStale,
                     failures>>
  BY DEF Elapse, market, process
<1>2. /\ ready \in Notes /\ ready.attention = notes[o].attention
      /\ ready.attempts = notes[o].attempts
  <2>1. notes[o] \in Notes
    BY DEF IndInv, TypeOK
  <2> QED
    BY <2>1 DEF Notes
<1> HIDE DEF ready
<1>3. /\ notes' \in [Orders -> Notes]
      /\ \A p \in Orders : /\ notes'[p].attention = notes[p].attention
                           /\ notes'[p].attempts = notes[p].attempts
  BY <1>1, <1>2 DEF IndInv, TypeOK
<1>4. TypeOK'
  BY <1>1, <1>3 DEF IndInv, TypeOK
<1>5. WriteAhead' /\ ExchangeInv' /\ RowInv'
  BY <1>1, <1>3 DEF IndInv, WriteAhead, ExchangeInv, RowInv
<1>6. SubmitInv' /\ PassInv'
  BY <1>1, StandStill, SubmitFrame, PassFrame DEF IndInv, TypeOK
<1> QED
  BY <1>4, <1>5, <1>6 DEF IndInv

-----------------------------------------------------------------------------
(* Steps of the exchange, the operator and the machine *)

\* Whatever the exchange does to an order, it only moves it forward.
LEMMA ExchangeMoves ==
    ASSUME IndInv, Advances, ExchangeInv',
           request' \in [Orders -> {"idle", "inflight", "received", "dropped"}],
           exStatus' \in [Orders -> ExStates \cup {"unknown"}],
           executed' \in [Orders -> 0..Qty],
           walletStale' \in BOOLEAN,
           \A o \in Orders : request[o] = "idle" <=> request'[o] = "idle",
           UNCHANGED <<rows, process, failures>>
    PROVE  IndInv'
<1>1. UNCHANGED <<status, stage, quantity, priced, fee, notes, phase,
                  current_stage, sub, rec, alert, failures>>
  BY DEF rows, process
<1>2. TypeOK'
  BY <1>1 DEF IndInv, TypeOK
<1>3. WriteAhead'
  BY <1>1 DEF IndInv, WriteAhead
<1>4. RowInv'
  <2> SUFFICES ASSUME NEW o \in Orders
               PROVE  Backed(status[o], quantity[o], priced[o], exStatus'[o],
                             executed'[o])
    BY <1>1 DEF IndInv, RowInv
  <2> QED
    BY DEF IndInv, RowInv, Backed, Advances, TypeOK
<1>5. SubmitInv' /\ PassInv'
  BY <1>1, SubmitFrame, PassFrame
<1> QED
  BY <1>2, <1>3, <1>4, <1>5 DEF IndInv

LEMMA MarketInv ==
    ASSUME IndInv, NEW o \in Orders, Market(o)
    PROVE  IndInv'
<1>1. CASE Elapse(o)
  BY <1>1, ElapseInv
<1>2. CASE ExReceive(o)
  <2>1. Advances /\ ExchangeInv'
    BY <1>2 DEF ExReceive, IndInv, TypeOK, Advances, ExchangeInv
  <2>2. /\ request' \in [Orders -> {"idle", "inflight", "received", "dropped"}]
        /\ exStatus' \in [Orders -> ExStates \cup {"unknown"}]
        /\ executed' \in [Orders -> 0..Qty] /\ walletStale' = walletStale
        /\ \A p \in Orders : request[p] = "idle" <=> request'[p] = "idle"
        /\ UNCHANGED <<rows, process, failures>>
    BY <1>2 DEF ExReceive, IndInv, TypeOK, ExStates, OpenStates
  <2>3. walletStale' \in BOOLEAN
    BY <2>2, Zenon DEF IndInv, TypeOK
  <2> QED
    BY <2>1, <2>2, <2>3, ExchangeMoves
<1>3. CASE ExDrop(o)
  <2>1. Advances /\ ExchangeInv'
    BY <1>3 DEF ExDrop, IndInv, TypeOK, Advances, ExchangeInv
  <2>2. /\ request' \in [Orders -> {"idle", "inflight", "received", "dropped"}]
        /\ exStatus' \in [Orders -> ExStates \cup {"unknown"}]
        /\ executed' \in [Orders -> 0..Qty] /\ walletStale' = walletStale
        /\ \A p \in Orders : request[p] = "idle" <=> request'[p] = "idle"
        /\ UNCHANGED <<rows, process, failures>>
    BY <1>3 DEF ExDrop, IndInv, TypeOK
  <2>3. walletStale' \in BOOLEAN
    BY <2>2, Zenon DEF IndInv, TypeOK
  <2> QED
    BY <2>1, <2>2, <2>3, ExchangeMoves
<1>4. CASE ExFill(o)
  <2>1. PICK q \in (executed[o] + 1)..Qty :
           /\ executed' = [executed EXCEPT ![o] = q]
           /\ exStatus' = [exStatus EXCEPT
                             ![o] = IF q = Qty THEN "FILLED" ELSE "PARTIALLY_FILLED"]
    BY <1>4 DEF ExFill
  <2>2. executed[o] \in 0..Qty /\ q \in 0..Qty /\ q > executed[o]
    BY DEF IndInv, TypeOK
  <2>3. /\ exStatus[o] \in OpenStates /\ request' = request
        /\ UNCHANGED <<rows, process, failures>>
    BY <1>4 DEF ExFill
  <2>4. Advances /\ ExchangeInv'
    BY <2>1, <2>2, <2>3 DEF IndInv, TypeOK, Advances, ExchangeInv, OpenStates
  <2>5. /\ exStatus' \in [Orders -> ExStates \cup {"unknown"}]
        /\ executed' \in [Orders -> 0..Qty]
    BY <2>1, <2>2 DEF IndInv, TypeOK, ExStates, OpenStates
  <2>6. walletStale' \in BOOLEAN
    BY <1>4 DEF ExFill
  <2> QED
    BY <2>3, <2>4, <2>5, <2>6, ExchangeMoves DEF IndInv, TypeOK
<1>5. CASE ExExpire(o) \/ CancelOpenOrder(o)
  <2>1. PICK end \in {"EXPIRED", "CANCELED"} : exStatus' = [exStatus EXCEPT ![o] = end]
    BY <1>5 DEF ExExpire, CancelOpenOrder
  <2>2. /\ exStatus[o] \in OpenStates
        /\ UNCHANGED <<rows, request, executed, process, walletStale, failures>>
    BY <1>5 DEF ExExpire, CancelOpenOrder
  <2>3. Advances /\ ExchangeInv'
    BY <2>1, <2>2 DEF IndInv, TypeOK, Advances, ExchangeInv, OpenStates
  <2>4. exStatus' \in [Orders -> ExStates \cup {"unknown"}]
    BY <2>1 DEF IndInv, TypeOK, ExStates
  <2>5. walletStale' \in BOOLEAN
    BY <2>2, Zenon DEF IndInv, TypeOK
  <2> QED
    BY <2>2, <2>3, <2>4, <2>5, ExchangeMoves DEF IndInv, TypeOK
<1> QED
  BY <1>1, <1>2, <1>3, <1>4, <1>5 DEF Market

LEMMA SwitchStageInv ==
    ASSUME IndInv, NEW t \in Stages, SwitchStage(t)
    PROVE  IndInv'
<1>1. UNCHANGED <<status, stage, quantity, priced, fee, notes, request, exStatus,
                  executed, phase, sub, rec, alert, walletStale, failures>>
  BY DEF SwitchStage, rows, market
<1>2. TypeOK'
  BY <1>1 DEF SwitchStage, IndInv, TypeOK
<1>3. WriteAhead' /\ ExchangeInv' /\ RowInv'
  BY <1>1 DEF IndInv, WriteAhead, ExchangeInv, RowInv
<1>4. SubmitInv' /\ PassInv'
  BY <1>1, StandStill, SubmitFrame, PassFrame DEF IndInv, TypeOK
<1> QED
  BY <1>2, <1>3, <1>4 DEF IndInv

LEMMA CrashInv ==
    ASSUME IndInv, Crash
    PROVE  IndInv'
<1>1. /\ sub' = [s \in Submitters |-> IdleSub]
      /\ rec' = [r \in Reconcilers |-> IdleRec]
      /\ UNCHANGED <<status, stage, quantity, priced, fee, notes, request, exStatus,
                     executed, current_stage, alert, walletStale>>
  BY DEF Crash, rows, market
<1>2. failures' \in 0..MaxFailures /\ phase' \in {"starting", "running"}
  BY DEF Crash, IndInv, TypeOK
<1>3. TypeOK'
  BY <1>1, <1>2, IdleTypes DEF IndInv, TypeOK
<1>4. WriteAhead' /\ ExchangeInv' /\ RowInv'
  BY <1>1 DEF IndInv, WriteAhead, ExchangeInv, RowInv
<1>5. SubmitInv'
  BY <1>1 DEF SubmitInv, Busy, IdleSub
<1>6. PassInv'
  <2>1. \A o \in Orders : Truthful(IdleRec.reply[o], exStatus'[o], executed'[o])
    BY <1>1, IdlePass DEF IndInv, TypeOK, Truthful, ExStates, OpenStates
  <2> QED
    BY <1>1, <2>1, IdlePass DEF PassInv
<1> QED
  BY <1>3, <1>4, <1>5, <1>6 DEF IndInv

-----------------------------------------------------------------------------
(* The invariant, and what follows from it *)

LEMMA Inductive == IndInv /\ [Next]_vars => IndInv'
<1> SUFFICES ASSUME IndInv, [Next]_vars PROVE IndInv'
  OBVIOUS
<1>1. ASSUME NEW s \in Submitters, Submit(s) PROVE IndInv'
  BY <1>1, SubIntendInv, SubSendInv, SubAnswerInv, SubRaiseInv, SubRecordInv,
     SubSnapshotInv, SubFailInv, SubAbortInv DEF Submit
<1>2. ASSUME NEW r \in Reconcilers, Reconcile(r) PROVE IndInv'
  BY <1>2, RecNothingDueInv, RecStartInv, RecLookupInv, RecCommitInv,
     RecAlertInv, RecSnapshotInv, RecAbortInv DEF Reconcile
<1>3. CASE UNCHANGED vars
  <2>1. UNCHANGED <<status, stage, quantity, priced, fee, notes, request, exStatus,
                    executed, phase, current_stage, sub, rec, alert, walletStale,
                    failures>>
    BY <1>3 DEF vars, rows, market, process
  <2>2. TypeOK' /\ WriteAhead' /\ ExchangeInv' /\ RowInv'
    BY <2>1 DEF IndInv, TypeOK, WriteAhead, ExchangeInv, RowInv
  <2>3. SubmitInv' /\ PassInv'
    BY <2>1, StandStill, SubmitFrame, PassFrame DEF IndInv, TypeOK
  <2> QED
    BY <2>2, <2>3 DEF IndInv
<1> QED
  BY <1>1, <1>2, <1>3, MarketInv, SwitchStageInv, CrashInv DEF Next

\* Rows, answers on their way and loaded copies never contradict the exchange.
THEOREM InvariantHolds == Spec => []IndInv
BY InitInv, Inductive, PTL DEF Spec

\* Type correctness.
THEOREM TypeCorrect == Spec => []TypeOK
<1>1. IndInv => TypeOK
  BY DEF IndInv
<1> QED
  BY <1>1, InvariantHolds, PTL

\* No order is on the wire or at the exchange without a committed row.
THEOREM OrdersAreWrittenAhead == Spec => []WriteAhead
<1>1. IndInv => WriteAhead
  BY DEF IndInv
<1> QED
  BY <1>1, InvariantHolds, PTL

\* The ledger positions are computed from counts only what really executed.
THEOREM PositionsAreReal == Spec => []NoInventedPosition
<1>1. IndInv => NoInventedPosition
  <2> SUFFICES ASSUME IndInv, NEW o \in Orders, InLedger(o)
               PROVE  quantity[o] \in 1..executed[o]
    BY DEF NoInventedPosition
  <2> QED
    BY DEF IndInv, RowInv, Backed, TypeOK, InLedger
<1> QED
  BY <1>1, InvariantHolds, PTL

\* A row says filled only of an order the exchange completed.
THEOREM FilledRowsAreFilled == Spec => []FilledIsFilled
<1>1. IndInv => FilledIsFilled
  BY DEF IndInv, RowInv, Backed, FilledIsFilled
<1> QED
  BY <1>1, InvariantHolds, PTL

\* An unresolved row is escalated exactly when its attempts are used up.
THEOREM EscalationIsExact == Spec => []EscalatedAtLimit
<1>1. IndInv => EscalatedAtLimit
  BY DEF IndInv, RowInv, EscalatedAtLimit
<1> QED
  BY <1>1, InvariantHolds, PTL

-----------------------------------------------------------------------------
(* Without the faults of AllFaults *)

Benign == Faults = {}

LEMMA InitBenign == Init => BenignInv
<1> SUFFICES ASSUME Init PROVE BenignInv
  OBVIOUS
<1>1. TakeTurns /\ CopiesHold
  BY DEF Init, TakeTurns, CopiesHold, IdleSub, IdleRec
<1>2. OwnRow
  BY DEF Init, OwnRow, Busy, IdleSub
<1>3. RowsHold /\ \A o \in Orders : AllOrNothing(exStatus[o], executed[o])
  BY DEF Init, RowsHold, AllOrNothing
<1> QED
  BY <1>1, <1>2, <1>3 DEF BenignInv

-----------------------------------------------------------------------------
(* Frames *)

\* The session whose turn it is stays the only one, whatever it does next.
LEMMA SubmitterKeepsTurn ==
    ASSUME IndInv, TakeTurns, NEW s \in Submitters, NEW to,
           sub[s].pc # "idle" \/ Quiet, sub' = [sub EXCEPT ![s] = to], rec' = rec
    PROVE  TakeTurns'
BY DEF IndInv, TypeOK, TakeTurns, Quiet

LEMMA PassKeepsTurn ==
    ASSUME IndInv, TakeTurns, NEW r \in Reconcilers, NEW to,
           rec[r].pc # "idle" \/ Quiet, rec' = [rec EXCEPT ![r] = to], sub' = sub
    PROVE  TakeTurns'
BY DEF IndInv, TypeOK, TakeTurns, Quiet

\* While a submission is on its turn no pass has copies.
LEMMA NoCopies ==
    ASSUME TakeTurns, TakeTurns', NEW s \in Submitters,
           sub[s].pc # "idle" \/ sub'[s].pc # "idle", rec' = rec
    PROVE  CopiesHold'
BY DEF TakeTurns, CopiesHold

\* And while a pass is, no submission has a row.
NoSubmission ==
    \A s \in Submitters : sub[s].pc = "idle" /\ sub[s].order = NoOrder

LEMMA NoRows == ASSUME NoSubmission, sub' = sub PROVE OwnRow'
BY DEF OwnRow, NoSubmission, Busy

\* What the ledger does not see.
LEMMA LedgerStutters ==
    ASSUME UNCHANGED <<status, quantity, priced, executed>>,
           \A o \in Orders : Dead(o)' <=> Dead(o)
    PROVE  UNCHANGED Ledger!vars
<1>1. \A o \in Orders : InLedger(o)' <=> InLedger(o)
  BY DEF InLedger
<1>2. [o \in Orders |-> Dead(o)'] = [o \in Orders |-> Dead(o)]
  BY DEF Dead
<1>3. [o \in Orders |-> IF InLedger(o)' THEN quantity'[o] ELSE 0]
        = [o \in Orders |-> IF InLedger(o) THEN quantity[o] ELSE 0]
  BY <1>1
<1> QED
  BY <1>2, <1>3 DEF Ledger!vars

\* One row's share of a commit, in the words of the rows: it stands as it was,
\* it records no less than it did, or it gets its verdict.
Position(st, hasPrice, qty) == IF st \in {"filled", "partial"} /\ hasPrice THEN qty ELSE 0

Shared(o) ==
    \/ /\ status'[o] = status[o]
       /\ quantity'[o] = quantity[o] /\ priced'[o] = priced[o]
    \/ /\ status[o] \in Unresolved /\ status'[o] \in Unresolved
       /\ Position(status'[o], priced'[o], quantity'[o])
            \in Position(status[o], priced[o], quantity[o])..executed[o]
    \/ /\ status[o] \in Unresolved /\ status'[o] \in Statuses \ Unresolved
       /\ Dead(o)
       /\ Position(status'[o], priced'[o], quantity'[o]) = executed[o]

LEMMA LedgerBooks ==
    ASSUME TypeOK, TypeOK', executed' = executed,
           \A o \in Orders : Dead(o)' <=> Dead(o),
           \A o \in Orders : Shared(o)
    PROVE  Ledger!Book
<1> DEFINE settled == [o \in Orders |-> status[o] \in Statuses \ Unresolved]
<1> DEFINE position == [o \in Orders |-> IF InLedger(o) THEN quantity[o] ELSE 0]
<1> DEFINE intended == [o \in Orders |-> status[o] # "none"]
<1>1. "none" \notin Statuses /\ Unresolved \subseteq Statuses
  BY DEF Statuses, Unresolved
<1>2. settled' \in [Orders -> BOOLEAN] /\ position' \in [Orders -> 0..Qty]
  <2>1. settled' \in [Orders -> BOOLEAN]
    OBVIOUS
  <2>2. quantity' \in [Orders -> 0..Qty]
    BY Zenon DEF TypeOK
  <2>3. position' = [o \in Orders |-> IF InLedger(o)' THEN quantity'[o] ELSE 0]
    OBVIOUS
  <2>4. position' \in [Orders -> 0..Qty]
    BY <2>2, <2>3
  <2> QED
    BY <2>1, <2>4
<1>3. intended' = intended
  BY <1>1 DEF Shared
<1>4. [o \in Orders |-> Dead(o)'] = [o \in Orders |-> Dead(o)]
  BY DEF Dead
<1>5. \A o \in Orders :
         /\ position[o] = Position(status[o], priced[o], quantity[o])
         /\ position'[o] = Position(status'[o], priced'[o], quantity'[o])
         /\ settled[o] = (status[o] \in Statuses \ Unresolved)
         /\ settled'[o] = (status'[o] \in Statuses \ Unresolved)
         /\ intended[o] = (status[o] # "none")
  BY DEF Position, InLedger
<1> HIDE DEF settled, position, intended
<1>6. ASSUME NEW o \in Orders
      PROVE  \/ settled'[o] = settled[o] /\ position'[o] = position[o]
             \/ /\ intended[o] /\ ~settled[o] /\ ~settled'[o]
                /\ position'[o] \in position[o]..executed[o]
             \/ /\ intended[o] /\ Dead(o) /\ ~settled[o] /\ settled'[o]
                /\ position'[o] = executed[o]
  <2>1. CASE status'[o] = status[o] /\ quantity'[o] = quantity[o] /\ priced'[o] = priced[o]
    BY <1>5, <2>1
  <2>2. CASE /\ status[o] \in Unresolved /\ status'[o] \in Unresolved
             /\ Position(status'[o], priced'[o], quantity'[o])
                  \in Position(status[o], priced[o], quantity[o])..executed[o]
    BY <1>1, <1>5, <2>2
  <2>3. CASE /\ status[o] \in Unresolved /\ status'[o] \in Statuses \ Unresolved
             /\ Dead(o)
             /\ Position(status'[o], priced'[o], quantity'[o]) = executed[o]
    BY <1>1, <1>5, <2>3
  <2> QED
    BY <2>1, <2>2, <2>3 DEF Shared
<1> QED
  BY <1>2, <1>3, <1>4, <1>6 DEF Ledger!Book, Ledger!Booked, settled, position, intended

-----------------------------------------------------------------------------
(* Submission steps *)

LEMMA SubIntendBooks ==
    ASSUME Benign, IndInv, BenignInv, NEW s \in Submitters, NEW o \in Orders, SubIntend(s, o)
    PROVE  BenignInv' /\ Ledger!Intend(o)
<1> DEFINE to == [sub[s] EXCEPT !.pc = "committed", !.order = o]
<1>1. /\ Quiet /\ status[o] = "none" /\ sub' = [sub EXCEPT ![s] = to]
      /\ status' = [status EXCEPT ![o] = "submitted"]
      /\ UNCHANGED <<quantity, priced, request, exStatus, executed, rec>>
  BY DEF SubIntend, Benign, market
<1>2. sub'[s].pc = "committed" /\ sub'[s].order = o
  BY <1>1 DEF IndInv, TypeOK, SubStates
<1>3. \A t \in Submitters : t # s => sub'[t] = sub[t]
  BY <1>1 DEF IndInv, TypeOK
<1>4. \A t \in Submitters : sub[t].order = NoOrder /\ ~Busy(t)
  BY <1>1 DEF Quiet, BenignInv, OwnRow, Busy
<1>5. /\ request[o] = "idle" /\ exStatus[o] = "unknown" /\ ~priced[o]
      /\ status'[o] = "submitted"
      /\ \A p \in Orders : p # o => status'[p] = status[p]
  BY <1>1 DEF IndInv, TypeOK, WriteAhead, ExchangeInv, BenignInv, RowsHold
<1> HIDE DEF to
<1>6. TakeTurns'
  BY <1>1, SubmitterKeepsTurn DEF BenignInv
<1>7. CopiesHold'
  BY <1>1, <1>2, <1>6, NoCopies DEF BenignInv
<1>8. OwnRow'
  BY <1>1, <1>2, <1>3, <1>4, <1>5 DEF OwnRow, Busy
<1>9. RowsHold'
  BY <1>1, <1>5 DEF BenignInv, RowsHold
<1>10. BenignInv'
  BY <1>1, <1>6, <1>7, <1>8, <1>9 DEF BenignInv
<1>11. ASSUME NEW p \in Orders PROVE Dead(p)' <=> Dead(p)
  <2>1. CASE p = o
    BY <1>1, <1>2, <1>5, <2>1 DEF Dead
  <2>2. CASE p # o
    <3>1. \A t \in Submitters : sub[t].order # p /\ sub'[t].order # p
      BY <1>2, <1>3, <1>4, <2>2
    <3> QED
      BY <1>1, <1>5, <2>2, <3>1 DEF Dead
  <2> QED
    BY <2>1, <2>2
<1>12. \A p \in Orders : InLedger(p)' <=> InLedger(p)
  BY <1>1, <1>5 DEF InLedger
<1>13. Ledger!Intend(o)
  <2> DEFINE intended == [p \in Orders |-> status[p] # "none"]
  <2>1. ~intended[o] /\ intended' = [intended EXCEPT ![o] = TRUE]
    BY <1>1, <1>5
  <2>2. [p \in Orders |-> Dead(p)'] = [p \in Orders |-> Dead(p)]
    BY <1>11 DEF Dead
  <2>3. [p \in Orders |-> status'[p] \in Statuses \ Unresolved]
          = [p \in Orders |-> status[p] \in Statuses \ Unresolved]
    BY <1>1, <1>5 DEF Statuses, Unresolved
  <2>4. [p \in Orders |-> IF InLedger(p)' THEN quantity'[p] ELSE 0]
          = [p \in Orders |-> IF InLedger(p) THEN quantity[p] ELSE 0]
    BY <1>1, <1>12
  <2> QED
    BY <1>1, <2>1, <2>2, <2>3, <2>4 DEF Ledger!Intend
<1> QED
  BY <1>10, <1>13

LEMMA SubSendBooks ==
    ASSUME IndInv, BenignInv, NEW s \in Submitters, SubSend(s)
    PROVE  BenignInv' /\ UNCHANGED Ledger!vars
<1> DEFINE o == sub[s].order
<1> DEFINE to == [sub[s] EXCEPT !.pc = "waiting"]
<1>1. /\ sub[s].pc = "committed" /\ sub' = [sub EXCEPT ![s] = to]
      /\ request' = [request EXCEPT ![o] = "inflight"]
      /\ UNCHANGED <<status, quantity, priced, exStatus, executed, rec>>
  BY DEF SubSend, rows
<1>2. sub'[s].pc = "waiting" /\ sub'[s].order = o
  BY <1>1 DEF IndInv, TypeOK, SubStates
<1>3. \A t \in Submitters : t # s => sub'[t] = sub[t] /\ sub[t].pc = "idle"
  BY <1>1 DEF IndInv, TypeOK, BenignInv, TakeTurns
<1>4. /\ o \in Orders /\ request[o] = "idle" /\ exStatus[o] = "unknown"
      /\ status[o] = "submitted" /\ ~priced[o]
  BY <1>1 DEF IndInv, SubmitInv, ExchangeInv, BenignInv, OwnRow, Busy
<1>5. request'[o] = "inflight" /\ \A p \in Orders : p # o => request'[p] = request[p]
  BY <1>1, <1>4 DEF IndInv, TypeOK
<1> HIDE DEF to, o
<1>6. TakeTurns'
  BY <1>1, SubmitterKeepsTurn DEF BenignInv
<1>7. CopiesHold'
  BY <1>1, <1>6, NoCopies DEF BenignInv
<1>8. OwnRow'
  BY <1>1, <1>2, <1>3, <1>4, <1>5 DEF OwnRow, Busy, BenignInv
<1>9. RowsHold'
  BY <1>1, <1>4, <1>5 DEF BenignInv, RowsHold
<1>10. BenignInv'
  BY <1>1, <1>6, <1>7, <1>8, <1>9 DEF BenignInv
<1>11. \A p \in Orders : Dead(p)' <=> Dead(p)
  BY <1>1, <1>2, <1>3, <1>4, <1>5 DEF Dead, o
<1> QED
  BY <1>1, <1>10, <1>11, LedgerStutters

\* A submission goes on, on its turn.
LEMMA OnTurn ==
    ASSUME IndInv, BenignInv, NEW s \in Submitters, NEW to, sub[s].pc # "idle",
           sub' = [sub EXCEPT ![s] = to], rec' = rec
    PROVE  /\ TakeTurns' /\ CopiesHold' /\ sub'[s] = to
           /\ \A t \in Submitters : t # s =>
                sub'[t] = sub[t] /\ sub[t].pc = "idle" /\ sub[t].order = NoOrder
<1>1. TakeTurns'
  BY SubmitterKeepsTurn DEF BenignInv
<1>2. CopiesHold'
  BY <1>1, NoCopies DEF BenignInv
<1>3. sub'[s] = to /\ \A t \in Submitters : t # s => sub'[t] = sub[t]
  BY DEF IndInv, TypeOK
<1>4. \A t \in Submitters : t # s => sub[t].pc = "idle" /\ sub[t].order = NoOrder
  BY DEF BenignInv, TakeTurns, OwnRow, Busy
<1> QED
  BY <1>1, <1>2, <1>3, <1>4

\* Giving up an order whose request has been sent does not close it.
LEMMA DeadStands ==
    ASSUME UNCHANGED <<request, exStatus>>, NEW s \in Submitters,
           \A p \in Orders : status'[p] = "none" <=> status[p] = "none",
           \A t \in Submitters : t # s => sub'[t] = sub[t],
           \/ sub'[s].order = sub[s].order
           \/ sub'[s].order = NoOrder /\ request[sub[s].order] # "idle"
    PROVE  \A p \in Orders : Dead(p)' <=> Dead(p)
<1> SUFFICES ASSUME NEW p \in Orders PROVE Dead(p)' <=> Dead(p)
  OBVIOUS
<1>1. CASE request[p] # "idle"
  BY <1>1 DEF Dead
<1>2. CASE request[p] = "idle"
  <2>1. sub'[s].order = p <=> sub[s].order = p
    BY <1>2
  <2>2. (\A t \in Submitters : sub'[t].order # p) <=> (\A t \in Submitters : sub[t].order # p)
    BY <2>1
  <2> QED
    BY <2>2 DEF Dead
<1> QED
  BY <1>1, <1>2

LEMMA SubAnswerBooks ==
    ASSUME IndInv, BenignInv, NEW s \in Submitters, SubAnswer(s)
    PROVE  BenignInv' /\ UNCHANGED Ledger!vars
<1> DEFINE o == sub[s].order
<1> DEFINE to == [sub[s] EXCEPT !.pc = "answered", !.reply = View(o)]
<1>1. /\ sub[s].pc = "waiting" /\ request[o] = "received" /\ sub' = [sub EXCEPT ![s] = to]
      /\ UNCHANGED <<status, quantity, priced, request, exStatus, executed, rec>>
  BY DEF SubAnswer, rows, market
<1>2. sub[s] \in SubStates
  BY DEF IndInv, TypeOK
<1>3. to.pc = "answered" /\ to.order = o /\ to.reply = View(o)
  BY <1>2 DEF SubStates
<1>4. o \in Orders /\ status[o] = "submitted" /\ ~priced[o]
  BY <1>1 DEF IndInv, SubmitInv, BenignInv, OwnRow, Busy
<1> HIDE DEF to, o
<1>5. /\ TakeTurns' /\ CopiesHold' /\ sub'[s] = to
      /\ \A t \in Submitters : t # s =>
           sub'[t] = sub[t] /\ sub[t].pc = "idle" /\ sub[t].order = NoOrder
  BY <1>1, OnTurn
<1>6. View(o).state = exStatus[o] /\ View(o).qty = executed[o]
  BY DEF View
<1>7. AllOrNothing(View(o).state, View(o).qty)
  BY <1>4, <1>6 DEF BenignInv
<1>8. OwnRow'
  BY <1>1, <1>3, <1>4, <1>5, <1>6, <1>7 DEF OwnRow, Busy
<1>9. RowsHold' /\ (\A p \in Orders : AllOrNothing(exStatus[p], executed[p]))'
  BY <1>1 DEF BenignInv, RowsHold, AllOrNothing
<1>10. \A p \in Orders : Dead(p)' <=> Dead(p)
  BY <1>1, <1>3, <1>5, DeadStands DEF o
<1> QED
  BY <1>1, <1>5, <1>8, <1>9, <1>10, LedgerStutters DEF BenignInv

LEMMA SubRaiseBooks ==
    ASSUME Benign, IndInv, BenignInv, NEW s \in Submitters, SubRaise(s)
    PROVE  BenignInv' /\ UNCHANGED Ledger!vars
<1> DEFINE o == sub[s].order
<1> DEFINE to == [sub[s] EXCEPT !.pc = "raised"]
<1>1. /\ sub[s].pc = "waiting" /\ request[o] = "dropped" /\ sub' = [sub EXCEPT ![s] = to]
      /\ UNCHANGED <<status, quantity, priced, request, exStatus, executed, rec>>
  BY DEF SubRaise, Benign, rows, market
<1>2. sub[s] \in SubStates
  BY DEF IndInv, TypeOK
<1>3. to.pc = "raised" /\ to.order = o
  BY <1>2 DEF SubStates
<1>4. o \in Orders /\ status[o] = "submitted" /\ ~priced[o]
  BY <1>1 DEF IndInv, SubmitInv, BenignInv, OwnRow, Busy
<1> HIDE DEF to, o
<1>5. /\ TakeTurns' /\ CopiesHold' /\ sub'[s] = to
      /\ \A t \in Submitters : t # s =>
           sub'[t] = sub[t] /\ sub[t].pc = "idle" /\ sub[t].order = NoOrder
  BY <1>1, OnTurn
<1>6. OwnRow'
  BY <1>1, <1>3, <1>4, <1>5 DEF OwnRow, Busy
<1>7. RowsHold' /\ (\A p \in Orders : AllOrNothing(exStatus[p], executed[p]))'
  BY <1>1 DEF BenignInv, RowsHold, AllOrNothing
<1>8. \A p \in Orders : Dead(p)' <=> Dead(p)
  BY <1>1, <1>3, <1>5, DeadStands DEF o
<1> QED
  BY <1>1, <1>5, <1>6, <1>7, <1>8, LedgerStutters DEF BenignInv

\* A submission that ends its turn holds no row any more.
LEMMA HoldsNothing ==
    ASSUME NEW s \in Submitters, sub'[s].order = NoOrder, sub'[s].pc \in {"idle", "snapshot"},
           \A t \in Submitters : t # s =>
               sub'[t] = sub[t] /\ sub[t].pc = "idle" /\ sub[t].order = NoOrder
    PROVE  OwnRow'
  BY DEF OwnRow, Busy

\* What a commit makes of a row whose copy still held: the position recorded
\* grows towards what executed, or the verdict is given and they are equal.
Progress(st, hasPrice, recorded, st2, hasPrice2, recorded2, state, qty) ==
    \/ /\ st2 \in Unresolved
       /\ Position(st2, hasPrice2, recorded2) \in Position(st, hasPrice, recorded)..qty
    \/ /\ st2 \in Statuses \ Unresolved /\ state \in Ended
       /\ Position(st2, hasPrice2, recorded2) = qty
       /\ st2 = "filled" => recorded2 = Qty
       /\ st2 \in {"failed", "cancelled"} => qty = 0

LEMMA WriteProgresses ==
    ASSUME NEW seen \in Images, NEW reply \in Replies, reply.state \in ExStates,
           NEW recorded \in 0..Qty, NEW hasPrice \in BOOLEAN,
           NEW state, NEW qty \in 0..Qty, NEW rewrite \in BOOLEAN,
           seen.status \in Unresolved, seen.quantity = recorded,
           Backed(seen.status, recorded, hasPrice, state, qty),
           Truthful(reply, state, qty),
           AllOrNothing(reply.state, reply.qty), AllOrNothing(state, qty),
           state = "FILLED" => qty = Qty,
           reply.state \in Ended => state = reply.state,
           hasPrice => reply.qty >= recorded
    PROVE  Progress(seen.status, hasPrice, recorded,
                    StatusWritten(seen, reply, seen.status), hasPrice \/ reply.qty > 0,
                    QuantityWritten(seen, reply, recorded, rewrite), state, qty)
<1> DEFINE st2 == StatusWritten(seen, reply, seen.status)
<1> DEFINE p2 == hasPrice \/ reply.qty > 0
<1> DEFINE q2 == QuantityWritten(seen, reply, recorded, rewrite)
<1> SUFFICES Progress(seen.status, hasPrice, recorded, st2, p2, q2, state, qty)
  OBVIOUS
<1>1. st2 = StatusMap(reply.state)
  BY DEF StatusWritten
<1>2. reply.qty \in 0..Qty /\ reply.qty <= qty
  BY DEF Replies, Truthful
<1>3. reply.qty > 0 => q2 = reply.qty
  BY DEF QuantityWritten
<1>4. hasPrice => recorded > 0
  BY DEF Backed
<1> HIDE DEF st2, q2
<1>5. CASE reply.state = "NEW"
  <2>1. reply.qty = 0 /\ ~hasPrice
    BY <1>2, <1>4, <1>5 DEF AllOrNothing
  <2>2. st2 = "submitted" /\ ~p2
    BY <1>1, <1>5, <2>1 DEF StatusMap
  <2> QED
    BY <2>1, <2>2 DEF Progress, Position, Unresolved
<1>6. CASE reply.state = "PARTIALLY_FILLED"
  <2>1. reply.qty > 0 /\ st2 = "partial" /\ p2
    BY <1>1, <1>6 DEF Truthful, StatusMap
  <2>2. Position(st2, p2, q2) = reply.qty
    BY <1>3, <2>1 DEF Position
  <2>3. /\ Position(seen.status, hasPrice, recorded) \in 0..Qty
        /\ Position(seen.status, hasPrice, recorded) <= reply.qty
    BY <1>2 DEF Position
  <2> QED
    BY <1>2, <2>1, <2>2, <2>3 DEF Progress, Unresolved
<1>7. CASE reply.state = "FILLED"
  <2>1. reply.qty = Qty /\ reply.qty > 0 /\ state = "FILLED" /\ qty = Qty
    BY <1>7 DEF Truthful
  <2>2. st2 = "filled"
    BY <1>1, <1>7 DEF StatusMap
  <2>3. q2 = Qty /\ p2
    BY <1>3, <2>1
  <2> QED
    BY <2>1, <2>2, <2>3 DEF Progress, Position, Statuses, Unresolved, Ended
<1>8. CASE reply.state \in {"CANCELED", "EXPIRED"}
  <2>1. state = reply.state /\ reply.qty = 0 /\ qty = 0
    BY <1>8 DEF AllOrNothing, Ended
  <2>2. st2 \in {"failed", "cancelled"}
    BY <1>1, <1>8 DEF StatusMap
  <2>3. Position(st2, p2, q2) = 0
    BY <2>2 DEF Position
  <2> QED
    BY <1>8, <2>1, <2>2, <2>3 DEF Progress, Statuses, Unresolved, Ended
<1> QED
  BY <1>5, <1>6, <1>7, <1>8 DEF ExStates, OpenStates

LEMMA SubRecordBooks ==
    ASSUME IndInv, IndInv', BenignInv, NEW s \in Submitters, SubRecord(s)
    PROVE  BenignInv' /\ Ledger!Book
<1> DEFINE o == sub[s].order
<1> DEFINE reply == sub[s].reply
<1> DEFINE built == [NoImage EXCEPT !.status = "submitted", !.quantity = Qty]
<1> DEFINE to == IF reply.qty > 0 THEN [IdleSub EXCEPT !.pc = "snapshot"] ELSE IdleSub
<1>1. /\ sub[s].pc = "answered"
      /\ status' = [status EXCEPT ![o] = StatusWritten(built, reply, status[o])]
      /\ quantity' = [quantity EXCEPT
                        ![o] = QuantityWritten(built, reply, quantity[o], FALSE)]
      /\ priced' = [priced EXCEPT ![o] = priced[o] \/ reply.qty > 0]
      /\ sub' = [sub EXCEPT ![s] = to]
      /\ UNCHANGED <<request, exStatus, executed, rec>>
  BY DEF SubRecord, market
<1>2. /\ o \in Orders /\ status[o] = "submitted" /\ ~priced[o]
      /\ reply \in Replies /\ reply.state \in ExStates
      /\ Truthful(reply, exStatus[o], executed[o])
      /\ request[o] = "received" /\ AllOrNothing(reply.state, reply.qty)
      /\ reply.state \in Ended => exStatus[o] = reply.state
  BY <1>1 DEF IndInv, SubmitInv, TypeOK, SubStates, BenignInv, OwnRow, Busy
<1>3. /\ Backed(status[o], quantity[o], priced[o], exStatus[o], executed[o])
      /\ quantity[o] = Qty /\ executed[o] \in 0..Qty /\ priced[o] \in BOOLEAN
      /\ AllOrNothing(exStatus[o], executed[o])
      /\ exStatus[o] = "FILLED" => executed[o] = Qty
  BY <1>2 DEF IndInv, RowInv, Backed, TypeOK, ExchangeInv, BenignInv
<1>4. built \in Images /\ built.status = status[o] /\ built.quantity = quantity[o]
  <2>1. NoImage \in Images
    BY DEF NoImage, Images
  <2>2. "submitted" \in Statuses /\ Qty \in 0..Qty
    BY DEF Statuses, Unresolved
  <2> QED
    BY <1>2, <1>3, <2>1, <2>2 DEF Images
<1>5. to.pc \in {"idle", "snapshot"} /\ to.order = NoOrder
  BY DEF IdleSub
<1> HIDE DEF o, reply, built, to
<1>6. /\ status'[o] = StatusWritten(built, reply, built.status)
      /\ quantity'[o] = QuantityWritten(built, reply, quantity[o], FALSE)
      /\ priced'[o] = (priced[o] \/ reply.qty > 0)
      /\ \A p \in Orders : p # o => /\ status'[p] = status[p]
                                    /\ quantity'[p] = quantity[p]
                                    /\ priced'[p] = priced[p]
  BY <1>1, <1>2, <1>4 DEF IndInv, TypeOK
<1>7. Progress(built.status, priced[o], quantity[o], status'[o], priced'[o],
               quantity'[o], exStatus[o], executed[o])
  <2>1. built.status \in Unresolved
    BY <1>2, <1>4 DEF Unresolved
  <2>2. quantity[o] \in 0..Qty /\ FALSE \in BOOLEAN
    BY <1>3
  <2>3. Backed(built.status, quantity[o], priced[o], exStatus[o], executed[o])
    BY <1>3, <1>4
  <2>4. /\ exStatus[o] = "FILLED" => executed[o] = Qty
        /\ priced[o] => reply.qty >= quantity[o]
        /\ priced[o] \in BOOLEAN /\ executed[o] \in 0..Qty
        /\ AllOrNothing(exStatus[o], executed[o])
    BY <1>2, <1>3
  <2>5. Progress(built.status, priced[o], quantity[o],
                 StatusWritten(built, reply, built.status), priced[o] \/ reply.qty > 0,
                 QuantityWritten(built, reply, quantity[o], FALSE), exStatus[o], executed[o])
    BY <1>2, <1>4, <2>1, <2>2, <2>3, <2>4, WriteProgresses, ZenonT(60)
  <2> QED
    BY <1>6, <2>5
<1>8. /\ TakeTurns' /\ CopiesHold' /\ sub'[s] = to
      /\ \A t \in Submitters : t # s =>
           sub'[t] = sub[t] /\ sub[t].pc = "idle" /\ sub[t].order = NoOrder
  BY <1>1, OnTurn
<1>9. OwnRow'
  BY <1>5, <1>8, HoldsNothing
<1>10. RowsHold'
  BY <1>1, <1>2, <1>6, <1>7 DEF Progress, BenignInv, RowsHold, Unresolved, Statuses
<1>11. BenignInv'
  BY <1>1, <1>8, <1>9, <1>10 DEF BenignInv, AllOrNothing
<1>12. \A p \in Orders : status'[p] = "none" <=> status[p] = "none"
  BY <1>2, <1>6, <1>7 DEF Progress, Unresolved, Statuses
<1>13. \A p \in Orders : Dead(p)' <=> Dead(p)
  <2>1. sub'[s].order = NoOrder /\ request[sub[s].order] # "idle"
    BY <1>2, <1>5, <1>8 DEF o
  <2> QED
    BY <1>1, <1>8, <1>12, <2>1, DeadStands
<1>14. ASSUME NEW p \in Orders PROVE Shared(p)
  <2>1. CASE p = o
    BY <1>2, <1>4, <1>7, <2>1 DEF Progress, Shared, Dead, Ended, Unresolved
  <2>2. CASE p # o
    BY <1>6, <2>2 DEF Shared
  <2> QED
    BY <2>1, <2>2
<1> QED
  BY <1>1, <1>11, <1>13, <1>14, LedgerBooks DEF IndInv

LEMMA SubEndsBooks ==
    ASSUME IndInv, BenignInv, NEW s \in Submitters, SubSnapshot(s) \/ SubAbort(s)
    PROVE  BenignInv' /\ UNCHANGED Ledger!vars
<1>1. /\ sub[s].pc # "idle" /\ sub' = [sub EXCEPT ![s] = IdleSub]
      /\ UNCHANGED <<status, quantity, priced, request, exStatus, executed, rec>>
  BY DEF SubSnapshot, SubAbort, rows, market
<1>2. IdleSub.pc = "idle" /\ IdleSub.order = NoOrder
  BY DEF IdleSub
<1>3. \/ sub[s].order = NoOrder
      \/ request[sub[s].order] # "idle"
  BY DEF SubSnapshot, SubAbort, BenignInv, OwnRow, Busy
<1>4. /\ TakeTurns' /\ CopiesHold' /\ sub'[s] = IdleSub
      /\ \A t \in Submitters : t # s =>
           sub'[t] = sub[t] /\ sub[t].pc = "idle" /\ sub[t].order = NoOrder
  BY <1>1, OnTurn
<1>5. OwnRow'
  BY <1>2, <1>4, HoldsNothing
<1>6. RowsHold' /\ (\A p \in Orders : AllOrNothing(exStatus[p], executed[p]))'
  BY <1>1 DEF BenignInv, RowsHold, AllOrNothing
<1>7. \A p \in Orders : Dead(p)' <=> Dead(p)
  BY <1>1, <1>2, <1>3, <1>4, DeadStands
<1> QED
  BY <1>1, <1>4, <1>5, <1>6, <1>7, LedgerStutters DEF BenignInv

LEMMA SubFailBooks ==
    ASSUME IndInv, IndInv', BenignInv, NEW s \in Submitters, SubFail(s)
    PROVE  BenignInv' /\ Ledger!Book
<1> DEFINE o == sub[s].order
<1>1. /\ sub[s].pc = "raised" /\ sub' = [sub EXCEPT ![s] = IdleSub]
      /\ status' = [status EXCEPT ![o] = "failed"]
      /\ UNCHANGED <<quantity, priced, request, exStatus, executed, rec>>
  BY DEF SubFail, market
<1>2. /\ o \in Orders /\ status[o] = "submitted" /\ request[o] = "dropped"
      /\ executed[o] = 0
  <2>1. /\ o \in Orders /\ status[o] = "submitted" /\ request[o] = "dropped"
    BY <1>1 DEF IndInv, SubmitInv, BenignInv, OwnRow, Busy
  <2> QED
    BY <2>1 DEF IndInv, ExchangeInv, BenignInv, AllOrNothing
<1> HIDE DEF o
<1>3. status'[o] = "failed" /\ \A p \in Orders : p # o => status'[p] = status[p]
  BY <1>1, <1>2 DEF IndInv, TypeOK
<1>4. IdleSub.pc = "idle" /\ IdleSub.order = NoOrder
  BY DEF IdleSub
<1>5. /\ TakeTurns' /\ CopiesHold' /\ sub'[s] = IdleSub
      /\ \A t \in Submitters : t # s =>
           sub'[t] = sub[t] /\ sub[t].pc = "idle" /\ sub[t].order = NoOrder
  BY <1>1, OnTurn
<1>6. OwnRow'
  BY <1>4, <1>5, HoldsNothing
<1>7. RowsHold' /\ (\A p \in Orders : AllOrNothing(exStatus[p], executed[p]))'
  BY <1>1, <1>2, <1>3 DEF BenignInv, RowsHold, AllOrNothing
<1>8. \A p \in Orders : status'[p] = "none" <=> status[p] = "none"
  BY <1>2, <1>3
<1>9. \A p \in Orders : Dead(p)' <=> Dead(p)
  BY <1>1, <1>2, <1>4, <1>5, <1>8, DeadStands DEF o
<1>10. ASSUME NEW p \in Orders PROVE Shared(p)
  <2>1. CASE p = o
    BY <1>2, <1>3, <2>1 DEF Shared, Dead, Position, Unresolved, Statuses
  <2>2. CASE p # o
    BY <1>1, <1>3, <2>2 DEF Shared
  <2> QED
    BY <2>1, <2>2
<1> QED
  BY <1>1, <1>5, <1>6, <1>7, <1>9, <1>10, LedgerBooks DEF IndInv, BenignInv

-----------------------------------------------------------------------------
(* Reconciliation steps *)

\* A pass goes on, on its turn.
LEMMA OnPass ==
    ASSUME IndInv, BenignInv, NEW r \in Reconcilers, NEW to, rec[r].pc # "idle" \/ Quiet,
           rec' = [rec EXCEPT ![r] = to], sub' = sub
    PROVE  /\ TakeTurns' /\ NoSubmission /\ rec'[r] = to
           /\ \A q \in Reconcilers : q # r => rec'[q] = rec[q] /\ rec[q].pc = "idle"
<1>1. TakeTurns'
  BY PassKeepsTurn DEF BenignInv
<1>2. rec'[r] = to /\ \A q \in Reconcilers : q # r => rec'[q] = rec[q]
  BY DEF IndInv, TypeOK
<1>3. \A q \in Reconcilers : q # r => rec[q].pc = "idle"
  BY DEF BenignInv, TakeTurns, Quiet
<1>4. NoSubmission
  BY DEF BenignInv, TakeTurns, OwnRow, Busy, Quiet, NoSubmission
<1> QED
  BY <1>1, <1>2, <1>3, <1>4

\* Steps that neither the rows nor the exchange nor the sessions notice.
LEMMA SilentBooks ==
    ASSUME BenignInv,
           UNCHANGED <<status, stage, quantity, priced, request, exStatus, executed, sub, rec>>
    PROVE  BenignInv' /\ UNCHANGED Ledger!vars
<1>1. TakeTurns' /\ OwnRow' /\ RowsHold'
  BY DEF BenignInv, TakeTurns, OwnRow, RowsHold, Busy
<1>2. CopiesHold' /\ (\A p \in Orders : AllOrNothing(exStatus[p], executed[p]))'
  BY DEF BenignInv, CopiesHold, CopyHolds, AllOrNothing
<1>3. \A p \in Orders : Dead(p)' <=> Dead(p)
  BY DEF Dead
<1> QED
  BY <1>1, <1>2, <1>3, LedgerStutters DEF BenignInv

LEMMA RecEndsBooks ==
    ASSUME IndInv, BenignInv, NEW r \in Reconcilers,
           RecAlert(r) \/ RecSnapshot(r) \/ RecAbort(r)
    PROVE  BenignInv' /\ UNCHANGED Ledger!vars
<1>1. /\ rec[r].pc # "idle"
      /\ UNCHANGED <<status, quantity, priced, request, exStatus, executed, sub>>
  BY DEF RecAlert, RecSnapshot, RecAbort, rows, market
<1>2. PICK to : rec' = [rec EXCEPT ![r] = to] /\ to.pc # "looking"
  <2>1. rec[r] \in RecStates
    BY DEF IndInv, TypeOK
  <2>2. [rec[r] EXCEPT !.pc = "snapshot"].pc = "snapshot" /\ IdleRec.pc = "idle"
    BY <2>1 DEF RecStates, IdleRec
  <2>3. \/ rec' = [rec EXCEPT ![r] = [rec[r] EXCEPT !.pc = "snapshot"]]
        \/ rec' = [rec EXCEPT ![r] = IdleRec]
    BY DEF RecAlert, RecSnapshot, RecAbort
  <2> QED
    BY <2>2, <2>3
<1>3. /\ TakeTurns' /\ NoSubmission /\ rec'[r] = to
      /\ \A q \in Reconcilers : q # r => rec'[q] = rec[q] /\ rec[q].pc = "idle"
  BY <1>1, <1>2, OnPass
<1>4. OwnRow'
  BY <1>1, <1>3, NoRows
<1>5. CopiesHold'
  BY <1>2, <1>3 DEF CopiesHold
<1>6. RowsHold' /\ (\A p \in Orders : AllOrNothing(exStatus[p], executed[p]))'
  BY <1>1 DEF BenignInv, RowsHold, AllOrNothing
<1>7. \A p \in Orders : Dead(p)' <=> Dead(p)
  BY <1>1 DEF Dead
<1> QED
  BY <1>1, <1>3, <1>4, <1>5, <1>6, <1>7, LedgerStutters DEF BenignInv

LEMMA RecStartBooks ==
    ASSUME Benign, IndInv, BenignInv, NEW r \in Reconcilers, RecStart(r)
    PROVE  BenignInv' /\ UNCHANGED Ledger!vars
<1> DEFINE due == Due(current_stage)
<1> DEFINE seen == [o \in Orders |-> IF o \in due THEN Image(o) ELSE NoImage]
<1> DEFINE to == [IdleRec EXCEPT !.pc = "looking", !.stage = current_stage,
                                 !.todo = due, !.seen = seen]
<1>1. /\ Quiet /\ rec' = [rec EXCEPT ![r] = to]
      /\ UNCHANGED <<status, stage, quantity, priced, request, exStatus, executed, sub>>
  BY DEF RecStart, Benign, rows, market
<1>2. /\ to.stage = current_stage /\ to.seen = seen /\ to.reply = IdleRec.reply
  <2> HIDE DEF due, seen
  <2> QED
    BY DEF IdleRec
<1>3. ASSUME NEW o \in Orders, seen[o].status # "none"
      PROVE  /\ status[o] \in Unresolved /\ stage[o] = current_stage
             /\ seen[o].status = status[o] /\ seen[o].quantity = quantity[o]
  <2>1. o \in due
    BY <1>3 DEF NoImage
  <2> QED
    BY <2>1 DEF Due, Image
<1> HIDE DEF due, seen, to
<1>4. /\ TakeTurns' /\ NoSubmission /\ rec'[r] = to
      /\ \A q \in Reconcilers : q # r => rec'[q] = rec[q] /\ rec[q].pc = "idle"
  BY <1>1, OnPass
<1>5. OwnRow'
  BY <1>1, <1>4, NoRows
<1>6. CopiesHold'
  <2> SUFFICES ASSUME NEW o \in Orders, rec'[r].seen[o].status # "none"
               PROVE  CopyHolds(r, o)'
    BY <1>4 DEF CopiesHold
  <2>1. rec'[r].reply[o].state = "unasked" /\ rec'[r].reply[o].qty = 0
    BY <1>2, <1>4, IdlePass
  <2> QED
    BY <1>1, <1>2, <1>3, <1>4, <2>1
       DEF CopyHolds, AllOrNothing, Ended, ExStates, OpenStates
<1>7. RowsHold' /\ (\A p \in Orders : AllOrNothing(exStatus[p], executed[p]))'
  BY <1>1 DEF BenignInv, RowsHold, AllOrNothing
<1>8. \A p \in Orders : Dead(p)' <=> Dead(p)
  BY <1>1 DEF Dead
<1> QED
  BY <1>1, <1>4, <1>5, <1>6, <1>7, <1>8, LedgerStutters DEF BenignInv

LEMMA RecLookupBooks ==
    ASSUME Benign, IndInv, BenignInv, NEW r \in Reconcilers, NEW o \in Orders,
           RecLookup(r, o)
    PROVE  BenignInv' /\ UNCHANGED Ledger!vars
<1>1. /\ rec[r].pc = "looking" /\ o \in rec[r].todo /\ request[o] # "inflight"
      /\ UNCHANGED <<status, stage, quantity, priced, request, exStatus, executed, sub>>
  BY DEF RecLookup, Benign, rows, market
<1>2. PICK reply \in Answers(o, rec[r].stage) :
         rec' = [rec EXCEPT ![r] = Asked(rec[r], o, reply)]
  BY DEF RecLookup
<1>3. CopyHolds(r, o)
  BY <1>1 DEF IndInv, PassInv, BenignInv, CopiesHold
<1>4. \/ reply = Unknown /\ exStatus[o] = "unknown" /\ request[o] \in {"idle", "dropped"}
      \/ reply = LookupError
      \/ reply = View(o)
  <2>1. stage[o] = rec[r].stage
    BY <1>3 DEF CopyHolds
  <2>2. exStatus[o] = "unknown" => request[o] \in {"idle", "dropped"}
    BY <1>1 DEF IndInv, ExchangeInv, TypeOK
  <2> QED
    BY <2>1, <2>2 DEF Answers
<1>5. priced[o] => executed[o] >= quantity[o]
  BY DEF IndInv, RowInv, Backed, TypeOK
<1> DEFINE to == Asked(rec[r], o, reply)
<1>6. /\ to.stage = rec[r].stage /\ to.seen = rec[r].seen
      /\ to.reply[o] = reply
      /\ \A p \in Orders : p # o => to.reply[p] = rec[r].reply[p]
  <2>1. rec[r] \in RecStates
    BY DEF IndInv, TypeOK
  <2>2. rec[r].reply \in [Orders -> Replies]
    BY <2>1 DEF RecStates
  <2> QED
    BY <2>1, <2>2 DEF Asked, RecStates
<1>7. rec' = [rec EXCEPT ![r] = to]
  BY <1>2
<1> HIDE DEF to
<1>8. /\ TakeTurns' /\ NoSubmission /\ rec'[r] = to
      /\ \A q \in Reconcilers : q # r => rec'[q] = rec[q] /\ rec[q].pc = "idle"
  BY <1>1, <1>7, OnPass
<1>9. OwnRow'
  BY <1>1, <1>8, NoRows
<1>10. CopiesHold'
  <2> SUFFICES ASSUME NEW p \in Orders, rec'[r].seen[p].status # "none"
               PROVE  CopyHolds(r, p)'
    BY <1>8 DEF CopiesHold
  <2>1. CopyHolds(r, p)
    BY <1>1, <1>6, <1>8 DEF BenignInv, CopiesHold
  <2>2. CASE p # o
    <3>1. /\ rec'[r].seen[p] = rec[r].seen[p] /\ rec'[r].reply[p] = rec[r].reply[p]
          /\ rec'[r].stage = rec[r].stage
      BY <1>6, <1>8, <2>2
    <3> QED
      BY <1>1, <2>1, <3>1 DEF CopyHolds, AllOrNothing
  <2>3. CASE p = o /\ reply = Unknown /\ request[o] \in {"idle", "dropped"}
    BY <1>1, <1>6, <1>8, <2>1, <2>3
       DEF CopyHolds, AllOrNothing, Unknown, Ended, ExStates, OpenStates
  <2>4. CASE p = o /\ reply = LookupError
    BY <1>1, <1>6, <1>8, <2>1, <2>4
       DEF CopyHolds, AllOrNothing, LookupError, Ended, ExStates, OpenStates
  <2>5. CASE p = o /\ reply = View(o)
    <3>1. reply.state = exStatus[o] /\ reply.qty = executed[o] /\ AllOrNothing(exStatus[o], executed[o])
      BY <2>5 DEF View, BenignInv
    <3>2. reply.state = "unknown" => request[o] \in {"idle", "dropped"}
      BY <1>1, <3>1 DEF IndInv, ExchangeInv, TypeOK
    <3> QED
      BY <1>1, <1>5, <1>6, <1>8, <2>1, <2>5, <3>1, <3>2 DEF CopyHolds
  <2> QED
    BY <1>4, <2>2, <2>3, <2>4, <2>5
<1>11. RowsHold' /\ (\A p \in Orders : AllOrNothing(exStatus[p], executed[p]))'
  BY <1>1 DEF BenignInv, RowsHold, AllOrNothing
<1>12. \A p \in Orders : Dead(p)' <=> Dead(p)
  BY <1>1 DEF Dead
<1> QED
  BY <1>1, <1>8, <1>9, <1>10, <1>11, <1>12, LedgerStutters DEF BenignInv

\* What a pass commits of one row: nothing new, progress, or its verdict.
LEMMA CommitProgresses ==
    ASSUME IndInv, BenignInv, NEW r \in Reconcilers, rec[r].pc = "looking",
           NEW o \in Orders, NEW rewrite \in BOOLEAN,
           rec[r].reply[o].state \in ExStates
    PROVE  Progress(status[o], priced[o], quantity[o],
                    VerdictOn(rec[r].seen[o], rec[r].reply[o], status[o]),
                    priced[o] \/ rec[r].reply[o].qty > 0,
                    QuantityWritten(rec[r].seen[o], rec[r].reply[o], quantity[o], rewrite),
                    exStatus[o], executed[o])
<1> DEFINE seen == rec[r].seen[o]
<1> DEFINE reply == rec[r].reply[o]
<1>1. /\ seen \in Images /\ reply \in Replies /\ quantity[o] \in 0..Qty
      /\ priced[o] \in BOOLEAN /\ executed[o] \in 0..Qty
  BY DEF IndInv, TypeOK, RecStates
<1>2. CopyHolds(r, o) /\ Truthful(reply, exStatus[o], executed[o])
  BY DEF IndInv, PassInv, BenignInv, CopiesHold, ExStates, OpenStates
<1>3. /\ seen.status = status[o] /\ seen.status \in Unresolved
      /\ seen.quantity = quantity[o] /\ AllOrNothing(reply.state, reply.qty)
      /\ reply.state \in Ended => exStatus[o] = reply.state
      /\ priced[o] => reply.qty >= quantity[o]
  BY <1>2 DEF CopyHolds
<1>4. /\ Backed(seen.status, quantity[o], priced[o], exStatus[o], executed[o])
      /\ AllOrNothing(exStatus[o], executed[o])
      /\ exStatus[o] = "FILLED" => executed[o] = Qty
  BY <1>3 DEF IndInv, RowInv, ExchangeInv, BenignInv
<1>5. VerdictOn(seen, reply, status[o]) = StatusWritten(seen, reply, seen.status)
  BY <1>3 DEF VerdictOn, Known
<1> HIDE DEF seen, reply
<1>6. reply.state \in ExStates
  BY DEF reply
<1>7. Progress(seen.status, priced[o], quantity[o],
               StatusWritten(seen, reply, seen.status), priced[o] \/ reply.qty > 0,
               QuantityWritten(seen, reply, quantity[o], rewrite), exStatus[o], executed[o])
  BY <1>1, <1>2, <1>3, <1>4, <1>6, WriteProgresses, ZenonT(60)
<1> QED
  BY <1>3, <1>5, <1>7 DEF seen, reply

LEMMA RecCommitBooks ==
    ASSUME IndInv, IndInv', BenignInv, NEW r \in Reconcilers, RecCommit(r)
    PROVE  BenignInv' /\ Ledger!Book
<1> DEFINE seen == rec[r].seen
<1> DEFINE reply == rec[r].reply
<1> DEFINE asked == {o \in Orders : reply[o].state # "unasked"}
<1> DEFINE to == [IdleRec EXCEPT !.pc = "alerting", !.stage = rec[r].stage,
                                 !.settled = \E o \in asked : Settles(reply[o])]
<1>1. /\ rec[r].pc = "looking"
      /\ status' = [o \in Orders |->
             IF o \in asked THEN VerdictOn(seen[o], reply[o], status[o])
                            ELSE status[o]]
      /\ priced' = [o \in Orders |-> priced[o] \/ reply[o].qty > 0]
      /\ rec' = [rec EXCEPT ![r] = to]
      /\ UNCHANGED <<request, exStatus, executed, sub>>
  BY DEF RecCommit, market
<1>2. PICK rewrite \in BOOLEAN :
         quantity' = [o \in Orders |->
                        QuantityWritten(seen[o], reply[o], quantity[o], rewrite)]
  BY DEF RecCommit
<1>3. to.pc = "alerting"
  BY DEF IdleRec
<1> HIDE DEF to
<1>4. /\ TakeTurns' /\ NoSubmission /\ rec'[r] = to
      /\ \A q \in Reconcilers : q # r => rec'[q] = rec[q] /\ rec[q].pc = "idle"
  BY <1>1, OnPass
<1>5. OwnRow' /\ CopiesHold'
  BY <1>1, <1>3, <1>4, NoRows DEF CopiesHold
<1>6. ASSUME NEW o \in Orders
      PROVE  /\ Shared(o) /\ (status'[o] = "none" <=> status[o] = "none")
             /\ status'[o] = "none" => ~priced'[o]
             /\ status'[o] = "filled" => quantity'[o] = Qty
             /\ status'[o] \in {"failed", "cancelled"} =>
                  /\ executed[o] = 0
                  /\ exStatus[o] \in Ended \/ request[o] \in {"idle", "dropped"}
  <2>1. CASE reply[o].state \in ExStates
    <3>1. /\ status'[o] = VerdictOn(seen[o], reply[o], status[o])
          /\ priced'[o] = (priced[o] \/ reply[o].qty > 0)
          /\ quantity'[o] = QuantityWritten(seen[o], reply[o], quantity[o], rewrite)
      BY <1>1, <1>2, <2>1 DEF ExStates, OpenStates
    <3>2. Progress(status[o], priced[o], quantity[o], status'[o], priced'[o],
                   quantity'[o], exStatus[o], executed[o])
      BY <1>1, <2>1, <3>1, CommitProgresses
    <3>3. status[o] \in Unresolved
      BY <1>1, <2>1 DEF IndInv, PassInv, BenignInv, CopiesHold, CopyHolds, ExStates, OpenStates
    <3> QED
      BY <3>2, <3>3 DEF Progress, Shared, Dead, Ended, Unresolved, Statuses
  <2>2. CASE reply[o].state \notin ExStates
    <3>1. reply[o].qty = 0
      BY <2>2 DEF IndInv, PassInv, Truthful
    <3>2. priced'[o] = priced[o] /\ quantity'[o] = quantity[o]
      BY <1>1, <1>2, <3>1 DEF IndInv, TypeOK, QuantityWritten
    <3>3. CASE reply[o].state = "unknown"
      <4>1. CopyHolds(r, o)
        BY <1>1, <3>3 DEF IndInv, PassInv, BenignInv, CopiesHold
      <4>2. status[o] \in Unresolved /\ request[o] \in {"idle", "dropped"}
        BY <3>3, <4>1 DEF CopyHolds
      <4>3. status'[o] = "failed"
        BY <1>1, <2>2, <3>3 DEF VerdictOn, Known
      <4>4. executed[o] = 0
        BY <4>2 DEF IndInv, ExchangeInv, BenignInv, AllOrNothing
      <4>5. Dead(o)
        BY <1>4, <4>2 DEF Dead, NoSubmission, Unresolved
      <4> QED
        BY <4>2, <4>3, <4>4, <4>5 DEF Shared, Position, Unresolved, Statuses
    <3>4. CASE reply[o].state # "unknown"
      <4>1. status'[o] = status[o]
        BY <1>1, <2>2, <3>4 DEF VerdictOn, Known
      <4> QED
        BY <3>2, <4>1 DEF Shared, BenignInv, RowsHold
    <3> QED
      BY <3>3, <3>4
  <2> QED
    BY <2>1, <2>2
<1>7. RowsHold' /\ (\A p \in Orders : AllOrNothing(exStatus[p], executed[p]))'
  BY <1>1, <1>6 DEF BenignInv, RowsHold, AllOrNothing
<1>8. \A p \in Orders : Dead(p)' <=> Dead(p)
  BY <1>1, <1>6 DEF Dead
<1> QED
  BY <1>1, <1>4, <1>5, <1>6, <1>7, <1>8, LedgerBooks DEF IndInv, BenignInv

-----------------------------------------------------------------------------
(* Steps of the exchange, the operator and the machine *)

\* The exchange does something to an order that has not ended.
LEMMA MarketKeeps ==
    ASSUME IndInv, BenignInv, NEW o \in Orders,
           UNCHANGED <<rows, sub, rec>>,
           \A p \in Orders : p # o => /\ request'[p] = request[p]
                                     /\ exStatus'[p] = exStatus[p]
                                     /\ executed'[p] = executed[p],
           request[o] \notin {"idle", "dropped"}, request'[o] # "idle",
           request[o] = "received" => request'[o] = "received",
           exStatus[o] \notin Ended,
           AllOrNothing(exStatus'[o], executed'[o])
    PROVE  BenignInv'
<1>1. UNCHANGED <<status, stage, quantity, priced, sub, rec>>
  BY DEF rows
<1>2. TakeTurns'
  BY <1>1 DEF BenignInv, TakeTurns
<1>3. OwnRow'
  <2> SUFFICES ASSUME NEW s \in Submitters
               PROVE  /\ sub[s].pc = "waiting" => request'[sub[s].order] # "idle"
                      /\ sub[s].pc = "raised" => request'[sub[s].order] = "dropped"
                      /\ sub[s].pc = "answered" =>
                           /\ request'[sub[s].order] = "received"
                           /\ sub[s].reply.state \in Ended =>
                                exStatus'[sub[s].order] = sub[s].reply.state
    BY <1>1 DEF BenignInv, OwnRow, Busy, AllOrNothing
  <2>1. Busy(s) => sub[s].order \in Orders
    BY DEF IndInv, SubmitInv
  <2> QED
    BY <2>1 DEF BenignInv, OwnRow, Busy
<1>4. CopiesHold'
  <2> SUFFICES ASSUME NEW r \in Reconcilers, NEW p \in Orders, CopyHolds(r, p)
               PROVE  CopyHolds(r, p)'
    BY <1>1 DEF BenignInv, CopiesHold
  <2>1. CASE p # o
    BY <1>1, <2>1 DEF CopyHolds, AllOrNothing
  <2>2. CASE p = o
    BY <1>1, <2>2 DEF CopyHolds, AllOrNothing
  <2> QED
    BY <2>1, <2>2
<1>5. RowsHold'
  <2>1. status[o] \notin {"failed", "cancelled"}
    BY DEF BenignInv, RowsHold
  <2> QED
    BY <1>1, <2>1 DEF BenignInv, RowsHold
<1>6. (\A p \in Orders : AllOrNothing(exStatus[p], executed[p]))'
  BY DEF BenignInv, AllOrNothing
<1> QED
  BY <1>2, <1>3, <1>4, <1>5, <1>6 DEF BenignInv

\* And the ledger sees it close, or not.
LEMMA LedgerCloses ==
    ASSUME IndInv, NEW o \in Orders, UNCHANGED <<rows, sub, executed>>,
           request[o] # "idle", ~Dead(o), Dead(o)',
           \A p \in Orders : p # o => (Dead(p)' <=> Dead(p))
    PROVE  Ledger!Close({o})
<1>1. UNCHANGED <<status, quantity, priced>>
  BY DEF rows
<1>2. status[o] # "none"
  BY DEF IndInv, WriteAhead
<1>3. [p \in Orders |-> Dead(p)'] = [p \in Orders |-> Dead(p) \/ p \in {o}]
  BY DEF Dead
<1>4. [p \in Orders |-> IF InLedger(p)' THEN quantity'[p] ELSE 0]
        = [p \in Orders |-> IF InLedger(p) THEN quantity[p] ELSE 0]
  BY <1>1 DEF InLedger
<1> QED
  BY <1>1, <1>2, <1>3, <1>4 DEF Ledger!Close

LEMMA ExReceiveBooks ==
    ASSUME IndInv, BenignInv, NEW o \in Orders, ExReceive(o)
    PROVE  BenignInv' /\ UNCHANGED Ledger!vars
<1>1. /\ request[o] = "inflight" /\ exStatus[o] = "unknown" /\ executed[o] = 0
      /\ request'[o] = "received" /\ exStatus'[o] = "NEW"
      /\ \A p \in Orders : p # o => request'[p] = request[p] /\ exStatus'[p] = exStatus[p]
      /\ UNCHANGED <<rows, executed, sub, rec>>
  BY DEF ExReceive, IndInv, TypeOK, ExchangeInv, BenignInv, AllOrNothing, process
<1>2. BenignInv'
  BY <1>1, MarketKeeps DEF Ended, AllOrNothing
<1>3. UNCHANGED <<status, quantity, priced, executed, sub>>
  BY <1>1 DEF rows
<1>4. \A p \in Orders : Dead(p)' <=> Dead(p)
  BY <1>1, <1>3 DEF Dead
<1> QED
  BY <1>2, <1>3, <1>4, LedgerStutters

LEMMA ExDropBooks ==
    ASSUME IndInv, BenignInv, NEW o \in Orders, ExDrop(o)
    PROVE  BenignInv' /\ Ledger!Close({o})
<1>1. /\ request[o] = "inflight" /\ exStatus[o] = "unknown" /\ executed[o] = 0
      /\ request'[o] = "dropped"
      /\ \A p \in Orders : p # o => request'[p] = request[p]
      /\ UNCHANGED <<rows, exStatus, executed, sub, rec>>
  BY DEF ExDrop, IndInv, TypeOK, ExchangeInv, BenignInv, AllOrNothing, process
<1>2. BenignInv'
  BY <1>1, MarketKeeps DEF Ended, AllOrNothing
<1>3. /\ ~Dead(o) /\ Dead(o)'
      /\ \A p \in Orders : p # o => (Dead(p)' <=> Dead(p))
  BY <1>1 DEF Dead, rows
<1> QED
  BY <1>1, <1>2, <1>3, LedgerCloses

LEMMA ExEndsBooks ==
    ASSUME Benign, IndInv, BenignInv, NEW o \in Orders, ExExpire(o) \/ CancelOpenOrder(o)
    PROVE  BenignInv' /\ Ledger!Close({o})
<1>1. /\ exStatus[o] \in OpenStates /\ executed[o] = 0 /\ request[o] = "received"
      /\ exStatus'[o] \in {"EXPIRED", "CANCELED"}
      /\ \A p \in Orders : p # o => exStatus'[p] = exStatus[p]
      /\ UNCHANGED <<rows, request, executed, sub, rec>>
  BY DEF ExExpire, CancelOpenOrder, Benign, IndInv, TypeOK, ExchangeInv, process, OpenStates
<1>2. BenignInv'
  BY <1>1, MarketKeeps DEF Ended, AllOrNothing, OpenStates
<1>3. /\ ~Dead(o) /\ Dead(o)'
      /\ \A p \in Orders : p # o => (Dead(p)' <=> Dead(p))
  BY <1>1 DEF Dead, rows, OpenStates
<1> QED
  BY <1>1, <1>2, <1>3, LedgerCloses

LEMMA ExFillBooks ==
    ASSUME IndInv, BenignInv, NEW o \in Orders, ExFill(o)
    PROVE  BenignInv' /\ Ledger!Execute(o)
<1>1. /\ exStatus[o] \in OpenStates /\ request[o] = "received"
      /\ UNCHANGED <<rows, request, sub, rec>>
  BY DEF ExFill, IndInv, TypeOK, ExchangeInv, process, OpenStates
<1>2. PICK q \in (executed[o] + 1)..Qty :
         /\ executed' = [executed EXCEPT ![o] = q]
         /\ exStatus' = [exStatus EXCEPT
                           ![o] = IF q = Qty THEN "FILLED" ELSE "PARTIALLY_FILLED"]
  BY DEF ExFill
<1>3. /\ executed'[o] = q
      /\ exStatus'[o] = IF q = Qty THEN "FILLED" ELSE "PARTIALLY_FILLED"
      /\ \A p \in Orders : p # o => executed'[p] = executed[p] /\ exStatus'[p] = exStatus[p]
  BY <1>2 DEF IndInv, TypeOK
<1>4. BenignInv'
  BY <1>1, <1>3, MarketKeeps DEF Ended, AllOrNothing, OpenStates
<1>5. UNCHANGED <<status, quantity, priced, sub>>
  BY <1>1 DEF rows
<1>6. /\ status[o] # "none" /\ ~Dead(o)
      /\ Dead(o)' <=> q = Qty
      /\ \A p \in Orders : p # o => (Dead(p)' <=> Dead(p))
  <2>1. status[o] # "none"
    BY <1>1 DEF IndInv, WriteAhead
  <2> QED
    BY <1>1, <1>3, <1>5, <2>1 DEF Dead, OpenStates
<1>7. [p \in Orders |-> Dead(p)'] = [[p \in Orders |-> Dead(p)] EXCEPT ![o] = (q = Qty)]
  <2>1. \A p \in Orders : Dead(p)' = (IF p = o THEN q = Qty ELSE Dead(p))
    BY <1>6, Zenon DEF Dead
  <2>2. [p \in Orders |-> Dead(p)'] = [p \in Orders |-> IF p = o THEN q = Qty ELSE Dead(p)]
    BY <2>1, Zenon
  <2> QED
    BY <2>2
<1>8. [p \in Orders |-> IF InLedger(p)' THEN quantity'[p] ELSE 0]
        = [p \in Orders |-> IF InLedger(p) THEN quantity[p] ELSE 0]
  BY <1>5 DEF InLedger
<1>9. Ledger!Execute(o)
  BY <1>2, <1>5, <1>6, <1>7, <1>8 DEF Ledger!Execute
<1> QED
  BY <1>4, <1>9

\* A crash closes the orders that were about to be sent, and no other.
LEMMA CrashBooks ==
    ASSUME IndInv, BenignInv, Crash
    PROVE  BenignInv' /\ \E S \in SUBSET Orders : Ledger!Close(S)
<1>1. /\ sub' = [s \in Submitters |-> IdleSub] /\ rec' = [r \in Reconcilers |-> IdleRec]
      /\ UNCHANGED <<status, quantity, priced, request, exStatus, executed>>
  BY DEF Crash, rows, market
<1>2. /\ \A s \in Submitters : sub'[s].pc = "idle" /\ sub'[s].order = NoOrder
      /\ \A r \in Reconcilers : rec'[r].pc = "idle"
  BY <1>1 DEF IdleSub, IdleRec
<1>3. TakeTurns' /\ OwnRow' /\ CopiesHold'
  BY <1>2 DEF TakeTurns, OwnRow, CopiesHold, Busy
<1>4. RowsHold' /\ (\A p \in Orders : AllOrNothing(exStatus[p], executed[p]))'
  BY <1>1 DEF BenignInv, RowsHold, AllOrNothing
<1>5. BenignInv'
  BY <1>3, <1>4 DEF BenignInv
<1> DEFINE S == {o \in Orders : status[o] # "none" /\ ~Dead(o) /\ request[o] = "idle"}
<1>6. ASSUME NEW o \in Orders PROVE Dead(o)' <=> Dead(o) \/ o \in S
  BY <1>1, <1>2 DEF Dead
<1>7. [o \in Orders |-> Dead(o)'] = [o \in Orders |-> Dead(o) \/ o \in S]
  <2> HIDE DEF S
  <2> QED
    BY <1>6 DEF Dead
<1>8. [o \in Orders |-> IF InLedger(o)' THEN quantity'[o] ELSE 0]
        = [o \in Orders |-> IF InLedger(o) THEN quantity[o] ELSE 0]
  BY <1>1 DEF InLedger
<1>9. \A o \in S : status[o] # "none" /\ ~Dead(o) /\ o \in Orders
  OBVIOUS
<1>10. S \in SUBSET Orders
  OBVIOUS
<1>11. Ledger!Close(S)
  <2> HIDE DEF S
  <2> QED
    BY <1>1, <1>7, <1>8, <1>9 DEF Ledger!Close
<1> QED
  BY <1>5, <1>10, <1>11

-----------------------------------------------------------------------------
(* The refinement, and what it says of the rows *)

LEMMA LedgerInit == Init => Ledger!Init
<1> SUFFICES ASSUME Init PROVE Ledger!Init
  OBVIOUS
<1>1. \A o \in Orders : /\ status[o] = "none" /\ ~Dead(o) /\ ~InLedger(o)
                        /\ status[o] \notin Statuses \ Unresolved
  BY DEF Init, Dead, InLedger, Statuses, Unresolved
<1>2. [o \in Orders |-> Dead(o)] = [o \in Orders |-> FALSE]
  BY <1>1 DEF Dead
<1>3. [o \in Orders |-> status[o] # "none"] = [o \in Orders |-> FALSE]
  BY <1>1
<1>4. [o \in Orders |-> status[o] \in Statuses \ Unresolved] = [o \in Orders |-> FALSE]
  <2>1. \A o \in Orders : (status[o] \in Statuses \ Unresolved) = FALSE
    BY <1>1
  <2> QED
    BY <2>1, Zenon
<1>5. [o \in Orders |-> IF InLedger(o) THEN quantity[o] ELSE 0] = [o \in Orders |-> 0]
  BY <1>1
<1>6. executed = [o \in Orders |-> 0]
  BY DEF Init
<1> QED
  BY <1>2, <1>3, <1>4, <1>5, <1>6 DEF Ledger!Init

\* Every step keeps the invariant and is a step of the ledger, or none.
LEMMA BenignStep ==
    ASSUME Benign, IndInv, IndInv', BenignInv, [Next]_vars
    PROVE  BenignInv' /\ [Ledger!Next]_(Ledger!vars)
<1>1. ASSUME NEW s \in Submitters, Submit(s)
      PROVE  BenignInv' /\ [Ledger!Next]_(Ledger!vars)
  <2>1. ASSUME NEW o \in Orders, SubIntend(s, o)
        PROVE  BenignInv' /\ [Ledger!Next]_(Ledger!vars)
    BY <2>1, SubIntendBooks DEF Ledger!Next
  <2>2. CASE SubSend(s)
    BY <2>2, SubSendBooks
  <2>3. CASE SubAnswer(s)
    BY <2>3, SubAnswerBooks
  <2>4. CASE SubRaise(s)
    BY <2>4, SubRaiseBooks
  <2>5. CASE SubRecord(s)
    BY <2>5, SubRecordBooks DEF Ledger!Next
  <2>6. CASE SubSnapshot(s) \/ SubAbort(s)
    BY <2>6, SubEndsBooks
  <2>7. CASE SubFail(s)
    BY <2>7, SubFailBooks DEF Ledger!Next
  <2> QED
    BY <1>1, <2>1, <2>2, <2>3, <2>4, <2>5, <2>6, <2>7 DEF Submit
<1>2. ASSUME NEW r \in Reconcilers, Reconcile(r)
      PROVE  BenignInv' /\ [Ledger!Next]_(Ledger!vars)
  <2>1. CASE RecNothingDue(r)
    <3>1. UNCHANGED <<status, stage, quantity, priced, request, exStatus, executed, sub, rec>>
      BY <2>1 DEF RecNothingDue, rows, market
    <3> QED
      BY <3>1, SilentBooks
  <2>2. CASE RecStart(r)
    BY <2>2, RecStartBooks
  <2>3. ASSUME NEW o \in Orders, RecLookup(r, o)
        PROVE  BenignInv' /\ [Ledger!Next]_(Ledger!vars)
    BY <2>3, RecLookupBooks
  <2>4. CASE RecCommit(r)
    BY <2>4, RecCommitBooks DEF Ledger!Next
  <2>5. CASE RecAlert(r) \/ RecSnapshot(r) \/ RecAbort(r)
    BY <2>5, RecEndsBooks
  <2> QED
    BY <1>2, <2>1, <2>2, <2>3, <2>4, <2>5 DEF Reconcile
<1>3. ASSUME NEW o \in Orders, Market(o)
      PROVE  BenignInv' /\ [Ledger!Next]_(Ledger!vars)
  <2>1. CASE Elapse(o)
    <3>1. UNCHANGED <<status, stage, quantity, priced, request, exStatus, executed, sub, rec>>
      BY <2>1 DEF Elapse, market, process
    <3> QED
      BY <3>1, SilentBooks
  <2>2. CASE ExReceive(o)
    BY <2>2, ExReceiveBooks
  <2>3. CASE ExFill(o)
    BY <2>3, ExFillBooks DEF Ledger!Next
  <2>4. CASE ExDrop(o) \/ ExExpire(o) \/ CancelOpenOrder(o)
    <3>1. BenignInv' /\ Ledger!Close({o})
      BY <2>4, ExDropBooks, ExEndsBooks
    <3>2. {o} \in SUBSET Orders
      OBVIOUS
    <3> QED
      BY <3>1, <3>2 DEF Ledger!Next
  <2> QED
    BY <1>3, <2>1, <2>2, <2>3, <2>4 DEF Market
<1>4. ASSUME NEW t \in Stages, SwitchStage(t)
      PROVE  BenignInv' /\ [Ledger!Next]_(Ledger!vars)
  <2>1. UNCHANGED <<status, stage, quantity, priced, request, exStatus, executed, sub, rec>>
    BY <1>4 DEF SwitchStage, rows, market
  <2> QED
    BY <2>1, SilentBooks
<1>5. CASE Crash
  BY <1>5, CrashBooks DEF Ledger!Next
<1>6. CASE UNCHANGED vars
  <2>1. UNCHANGED <<status, stage, quantity, priced, request, exStatus, executed, sub, rec>>
    BY <1>6 DEF vars, rows, market, process
  <2> QED
    BY <2>1, SilentBooks
<1> QED
  BY <1>1, <1>2, <1>3, <1>4, <1>5, <1>6 DEF Next

\* Without the faults, sessions take turns, and what one of them read of a row
\* or heard of an order is still so when it commits.
THEOREM CopiesStayTrue == ASSUME Benign PROVE Spec => []BenignInv
<1>1. IndInv /\ IndInv' /\ BenignInv /\ [Next]_vars => BenignInv'
  BY BenignStep
<1> QED
  BY <1>1, InitBenign, InvariantHolds, PTL DEF Spec

\* Then the order rows keep the promise of the ledger: every position is
\* recorded on the strength of what executed, and every order is settled once,
\* when it can execute no further, at exactly what executed.
THEOREM RowsImplementLedger == ASSUME Benign PROVE Spec => ImplementsLedger
<1>1. IndInv /\ IndInv' /\ BenignInv /\ [Next]_vars => [Ledger!Next]_(Ledger!vars)
  BY BenignStep
<1> QED
  BY <1>1, LedgerInit, InvariantHolds, CopiesStayTrue, PTL
     DEF Spec, ImplementsLedger, Ledger!Spec

\* A filled row records the whole executed quantity.
THEOREM FilledRowsAreWhole == ASSUME Benign PROVE Spec => []FilledInFull
<1>1. IndInv /\ BenignInv => FilledInFull
  <2> SUFFICES ASSUME IndInv, BenignInv, NEW o \in Orders, status[o] = "filled"
               PROVE  quantity[o] = executed[o]
    BY DEF FilledInFull
  <2>1. quantity[o] = Qty
    BY DEF BenignInv, RowsHold
  <2>2. executed[o] = Qty
    BY DEF IndInv, RowInv, Backed, ExchangeInv
  <2> QED
    BY <2>1, <2>2
<1> QED
  BY <1>1, InvariantHolds, CopiesStayTrue, PTL

\* A row that failed or was cancelled took no position, now or later.
THEOREM FailedRowsTookNothing == ASSUME Benign PROVE Spec => []FailedTookNoPosition
<1>1. BenignInv => FailedTookNoPosition
  BY DEF BenignInv, RowsHold, FailedTookNoPosition
<1> QED
  BY <1>1, CopiesStayTrue, PTL
=============================================================================
