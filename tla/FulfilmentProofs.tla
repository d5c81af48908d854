-------------------------- MODULE FulfilmentProofs --------------------------
(***************************************************************************)
(* Theorems about Fulfilment, for any orders, events, handlers, clerks,    *)
(* poll runs and faults.                                                   *)
(***************************************************************************)
EXTENDS Fulfilment, TLAPS

Busy(w) == hook[w].step # "idle"

(* A handler that got past the unique constraint is alone with its event.  *)
HandlersOwnEvents ==
    /\ \A w \in Handlers : Busy(w) => EventOf(w) \in Events /\ recorded[EventOf(w)] = "PROCESSING"
    /\ \A v, w \in Handlers : Busy(v) /\ Busy(w) /\ EventOf(v) = EventOf(w) => v = w

(* It has emitted nothing before it saves the order.                       *)
EmissionsFollowHandlers ==
    /\ \A e \in Events : recorded[e] = None => emitted[e] = 0
    /\ \A w \in Handlers : hook[w].step \in {"read", "save"} => emitted[EventOf(w)] = 0

(* A handler that had nothing to update found the outcome committed.       *)
UnwrittenIsSettled ==
    \A w \in Handlers :
        /\ hook[w].step # "commit" => hook[w].rows = {}
        /\ hook[w].step = "commit" =>
             /\ hook[w].rows \subseteq {OrderAt(w)}
             /\ hook[w].rows = {} => status[OrderAt(w)] # "PENDING_PAYMENT"

PaymentInv ==
    /\ FulfilmentTypeOK
    /\ HandlersOwnEvents
    /\ EmissionsFollowHandlers
    /\ EmittedAtMostOnce
    /\ UnwrittenIsSettled
    /\ StatusMatchesEvents

USE FulfilmentAssumption, NoneAssumption

-----------------------------------------------------------------------------
(* Types                                                                   *)

LEMMA TypeInit == Init => FulfilmentTypeOK
BY DEF Init, FulfilmentTypeOK, OrderStatuses, ShipmentStatuses, Hooks, NoHook, ClerkTasks, NoTask

LEMMA HookAt ==
  ASSUME NEW h \in Hooks, NEW s \in {"idle", "read", "save", "commit"}, NEW R \in SUBSET Orders
  PROVE  [h EXCEPT !.step = s, !.rows = R] \in Hooks
BY DEF Hooks

LEMMA TypeStep == FulfilmentTypeOK /\ HandlersOwnEvents /\ [Next]_vars => FulfilmentTypeOK'
<1> SUFFICES ASSUME FulfilmentTypeOK, HandlersOwnEvents, [Next]_vars PROVE FulfilmentTypeOK'
  OBVIOUS
<1> USE DEF FulfilmentTypeOK, paymentVars, listenerVars, shipmentVars, noteVars
<1>1. ASSUME NEW w \in Handlers, NEW e \in Events, Receive(w, e) PROVE FulfilmentTypeOK'
  <2>1. [NoHook EXCEPT !.step = "read", !.event = e] \in Hooks
    BY DEF Hooks, NoHook
  <2>2. hook' \in [Handlers -> Hooks]
    BY <1>1, <2>1 DEF Receive
  <2> QED
    BY <1>1, <2>2 DEF Receive
<1>2. ASSUME NEW w \in Handlers, ReadOrder(w) PROVE FulfilmentTypeOK'
  <2>1. NoHook \in Hooks /\ [hook[w] EXCEPT !.step = "save"] \in Hooks
    BY DEF Hooks, NoHook
  <2>2. hook' \in [Handlers -> Hooks]
    BY <1>2, <2>1 DEF ReadOrder
  <2> QED
    BY <1>2, <2>2 DEF ReadOrder
<1>3. ASSUME NEW w \in Handlers, SaveOrder(w) PROVE FulfilmentTypeOK'
  <2> DEFINE rows == {o \in {OrderAt(w)} : status[o] # Outcome(EventOf(w))}
  <2>a. hook' = [hook EXCEPT ![w] = [@ EXCEPT !.step = "commit", !.rows = rows]]
    BY <1>3 DEF SaveOrder, OrderAt, EventOf
  <2>b. rows \in SUBSET Orders
    BY <1>3 DEF SaveOrder, HandlersOwnEvents, Busy, EventOf, OrderAt
  <2> HIDE DEF rows
  <2>c. [hook[w] EXCEPT !.step = "commit", !.rows = rows] \in Hooks
    BY <2>b, HookAt
  <2>1. hook' \in [Handlers -> Hooks]
    BY <2>a, <2>c
  <2>2. emitted' \in [Events -> Nat]
    <3>1. EventOf(w) \in Events
      BY <1>3 DEF SaveOrder, HandlersOwnEvents, Busy
    <3>2. emitted[EventOf(w)] \in Nat
      BY <3>1
    <3>3. (IF Announces(EventOf(w)) THEN emitted[EventOf(w)] + 1 ELSE emitted[EventOf(w)]) \in Nat
      BY <3>2
    <3> QED
      BY <1>3, <3>3 DEF SaveOrder
  <2>3. shipping' \in SUBSET Events /\ confirming' \in SUBSET Events
    BY <1>3 DEF SaveOrder, Announced, HandlersOwnEvents, Busy, EventOf
  <2> QED
    BY <1>3, <2>1, <2>2, <2>3 DEF SaveOrder
<1>4. ASSUME NEW w \in Handlers, CommitPayment(w) PROVE FulfilmentTypeOK'
  <2>1. hook' \in [Handlers -> Hooks]
    BY <1>4 DEF CommitPayment, Hooks, NoHook
  <2>2. status' \in [Orders -> OrderStatuses]
    BY <1>4 DEF CommitPayment, Outcome, OrderStatuses
  <2>3. recorded' \in [Events -> {None, "PROCESSING", "PROCESSED"}]
    BY <1>4 DEF CommitPayment
  <2> QED
    BY <1>4, <2>1, <2>2, <2>3 DEF CommitPayment
<1>5. ASSUME NEW w \in Handlers, HookFails(w) PROVE FulfilmentTypeOK'
  BY <1>5 DEF HookFails, Hooks, NoHook
<1>6. ASSUME NEW e \in Events, CreateShipment(e) PROVE FulfilmentTypeOK'
  <2>1. shipment' \in [Orders -> ShipmentStatuses \cup {None}]
    BY <1>6 DEF CreateShipment, HasShipment, ShipmentStatuses
  <2>2. log' \in [Orders -> [ShipmentStatuses -> Nat]]
    BY <1>6 DEF CreateShipment, HasShipment, ShipmentStatuses
  <2> QED
    BY <1>6, <2>1, <2>2 DEF CreateShipment
<1>7. ASSUME NEW e \in Events, QueueConfirmation(e) PROVE FulfilmentTypeOK'
  BY <1>7 DEF QueueConfirmation
<1>8. ASSUME NEW e \in Events, ListenerFails(e) PROVE FulfilmentTypeOK'
  BY <1>8 DEF ListenerFails
<1>9. ASSUME NEW a \in Clerks, NEW op \in {"dispatch", "deliver"}, NEW o \in Orders,
             ReadShipment(a, op, o)
      PROVE  FulfilmentTypeOK'
  BY <1>9 DEF ReadShipment, ClerkTasks
<1>10. ASSUME NEW a \in Clerks, SaveShipment(a) PROVE FulfilmentTypeOK'
  <2>1. shipment' \in [Orders -> ShipmentStatuses \cup {None}]
    BY <1>10 DEF SaveShipment, ShipmentStatuses, Gives
  <2>2. log' \in [Orders -> [ShipmentStatuses -> Nat]]
    <3> DEFINE to == Gives(clerk[a].op)
    <3>1. log' = [log EXCEPT ![clerk[a].order][to] = @ + 1]
      BY <1>10 DEF SaveShipment
    <3>2. to \in ShipmentStatuses
      BY DEF Gives, ShipmentStatuses
    <3> HIDE DEF to
    <3>3. \A o \in Orders : [log[o] EXCEPT ![to] = @ + 1] \in [ShipmentStatuses -> Nat]
      BY <3>2
    <3> QED
      BY <3>1, <3>3
  <2>3. clerk' \in [Clerks -> ClerkTasks]
    BY <1>10 DEF SaveShipment, ClerkTasks, NoTask
  <2> QED
    BY <1>10, <2>1, <2>2, <2>3 DEF SaveShipment
<1>11. ASSUME NEW a \in Clerks, ClerkFails(a) PROVE FulfilmentTypeOK'
  BY <1>11 DEF ClerkFails, ClerkTasks, NoTask
<1>12. ASSUME NEW p \in Polls, StartPoll(p) PROVE FulfilmentTypeOK'
  <2>1. PICK B \in SUBSET {e \in Events : Due(e)} : batch' = [batch EXCEPT ![p] = B]
    BY <1>12 DEF StartPoll
  <2> QED
    BY <1>12, <2>1 DEF StartPoll
<1>13. ASSUME NEW p \in Polls, SendNext(p) PROVE FulfilmentTypeOK'
  BY <1>13 DEF SendNext, SendRow
<1>14. ASSUME NEW p \in Polls, PollFails(p) PROVE FulfilmentTypeOK'
  BY <1>14 DEF PollFails
<1>15. CASE UNCHANGED vars
  BY <1>15 DEF vars
<1> QED
  BY <1>1, <1>2, <1>3, <1>4, <1>5, <1>6, <1>7, <1>8, <1>9, <1>10, <1>11, <1>12, <1>13, <1>14,
     <1>15 DEF Next

-----------------------------------------------------------------------------
(* Payments                                                                *)

(* The events and orders of a handler at work, by their types.             *)
LEMMA BusyFacts ==
  ASSUME FulfilmentTypeOK, HandlersOwnEvents, NEW w \in Handlers, Busy(w)
  PROVE  /\ EventOf(w) \in Events /\ OrderAt(w) \in Orders
         /\ recorded[EventOf(w)] = "PROCESSING"
         /\ OrderAt(w) = OrderOf[EventOf(w)]
         /\ Outcome(EventOf(w)) \in {"PAID", "PAYMENT_FAILED"}
BY DEF FulfilmentTypeOK, HandlersOwnEvents, Busy, EventOf, OrderAt, Outcome

LEMMA PaymentInit == Init => PaymentInv
<1> SUFFICES ASSUME Init PROVE PaymentInv
  OBVIOUS
<1>1. FulfilmentTypeOK
  BY TypeInit
<1> QED
  BY <1>1 DEF Init, PaymentInv, HandlersOwnEvents, EmissionsFollowHandlers, EmittedAtMostOnce,
              UnwrittenIsSettled, StatusMatchesEvents, Processed, Busy, NoHook, None

(* A new handler works on an event that was not recorded, so on one that   *)
(* no other handler has and that has not been announced.                   *)
LEMMA ReceivePayment ==
  ASSUME PaymentInv, NEW w \in Handlers, NEW e \in Events, Receive(w, e)
  PROVE  HandlersOwnEvents' /\ EmissionsFollowHandlers' /\ EmittedAtMostOnce'
         /\ UnwrittenIsSettled' /\ StatusMatchesEvents'
<1>0. /\ FulfilmentTypeOK /\ HandlersOwnEvents /\ EmissionsFollowHandlers
      /\ EmittedAtMostOnce /\ UnwrittenIsSettled /\ StatusMatchesEvents
  BY DEF PaymentInv
<1>1. /\ hook[w].step = "idle"
      /\ recorded[e] = None
      /\ recorded' = [recorded EXCEPT ![e] = "PROCESSING"]
      /\ UNCHANGED <<status, emitted>>
  BY DEF Receive, IsDuplicate
<1>2. /\ hook'[w].step = "read" /\ hook'[w].event = e /\ hook'[w].rows = {}
      /\ \A v \in Handlers : v # w => hook'[v] = hook[v]
  BY <1>0 DEF Receive, FulfilmentTypeOK, NoHook
<1>3. \A v \in Handlers : Busy(v) => EventOf(v) # e
  BY <1>0, <1>1 DEF HandlersOwnEvents, None
<1>4. /\ recorded'[e] = "PROCESSING"
      /\ \A d \in Events : d # e => recorded'[d] = recorded[d]
  BY <1>0, <1>1 DEF FulfilmentTypeOK
<1>5. HandlersOwnEvents'
  BY <1>0, <1>2, <1>3, <1>4 DEF HandlersOwnEvents, Busy, EventOf
<1>6. EmissionsFollowHandlers'
  <2>1. emitted[e] = 0
    BY <1>0, <1>1 DEF EmissionsFollowHandlers
  <2> QED
    BY <1>0, <1>1, <1>2, <1>4, <2>1 DEF EmissionsFollowHandlers, EventOf, None
<1>7. EmittedAtMostOnce'
  BY <1>0, <1>1 DEF EmittedAtMostOnce
<1>8. UnwrittenIsSettled'
  BY <1>0, <1>1, <1>2 DEF UnwrittenIsSettled, OrderAt
<1>9. StatusMatchesEvents'
  <2>1. \A d \in Events : recorded'[d] = "PROCESSED" <=> recorded[d] = "PROCESSED"
    BY <1>1, <1>4 DEF None
  <2>2. \A o \in Orders : Processed(o)' = Processed(o)
    BY <2>1 DEF Processed
  <2>3. \A d \in Events : Outcome(d)' = Outcome(d)
    BY DEF Outcome
  <2> QED
    BY <1>0, <1>1, <2>2, <2>3 DEF StatusMatchesEvents, Processed
<1> QED
  BY <1>5, <1>6, <1>7, <1>8, <1>9

(* A handler that only reads, or gives up, changes no table.               *)
LEMMA QuietPayment ==
  ASSUME PaymentInv, NEW w \in Handlers, ReadOrder(w) \/ HookFails(w)
  PROVE  HandlersOwnEvents' /\ EmissionsFollowHandlers' /\ EmittedAtMostOnce'
         /\ UnwrittenIsSettled' /\ StatusMatchesEvents'
<1>0. /\ FulfilmentTypeOK /\ HandlersOwnEvents /\ EmissionsFollowHandlers
      /\ EmittedAtMostOnce /\ UnwrittenIsSettled /\ StatusMatchesEvents
  BY DEF PaymentInv
<1>1. /\ \/ hook'[w] = NoHook
         \/ /\ hook[w].step = "read" /\ hook'[w].step = "save"
            /\ hook'[w].event = hook[w].event /\ hook'[w].rows = hook[w].rows
      /\ \A v \in Handlers : v # w => hook'[v] = hook[v]
      /\ UNCHANGED <<status, recorded, emitted>>
  <2>1. CASE ReadOrder(w)
    BY <1>0, <2>1 DEF ReadOrder, FulfilmentTypeOK, Hooks
  <2>2. CASE HookFails(w)
    BY <1>0, <2>2 DEF HookFails, FulfilmentTypeOK
  <2> QED
    BY <2>1, <2>2
<1>2. NoHook.step = "idle" /\ NoHook.rows = {}
  BY DEF NoHook
<1>3. HandlersOwnEvents'
  BY <1>0, <1>1, <1>2 DEF HandlersOwnEvents, Busy, EventOf
<1>4. EmissionsFollowHandlers'
  BY <1>0, <1>1, <1>2 DEF EmissionsFollowHandlers, EventOf
<1>5. EmittedAtMostOnce'
  BY <1>0, <1>1 DEF EmittedAtMostOnce
<1>6. UnwrittenIsSettled'
  BY <1>0, <1>1, <1>2 DEF UnwrittenIsSettled, OrderAt
<1>7. StatusMatchesEvents'
  BY <1>0, <1>1 DEF StatusMatchesEvents, Processed, Outcome
<1> QED
  BY <1>3, <1>4, <1>5, <1>6, <1>7

(* Saving the order announces the event for the first time.                *)
LEMMA SavePayment ==
  ASSUME PaymentInv, NEW w \in Handlers, SaveOrder(w)
  PROVE  HandlersOwnEvents' /\ EmissionsFollowHandlers' /\ EmittedAtMostOnce'
         /\ UnwrittenIsSettled' /\ StatusMatchesEvents'
<1> DEFINE e == EventOf(w)
           rows == {o \in {OrderOf[e]} : status[o] # Outcome(e)}
<1>0. /\ FulfilmentTypeOK /\ HandlersOwnEvents /\ EmissionsFollowHandlers
      /\ EmittedAtMostOnce /\ UnwrittenIsSettled /\ StatusMatchesEvents
  BY DEF PaymentInv
<1>1. /\ hook[w].step = "save"
      /\ hook' = [hook EXCEPT ![w] = [@ EXCEPT !.step = "commit", !.rows = rows]]
      /\ emitted' = [emitted EXCEPT ![e] = IF Announces(e) THEN @ + 1 ELSE @]
      /\ UNCHANGED <<status, recorded>>
  BY DEF SaveOrder
<1>2. Busy(w)
  BY <1>1 DEF Busy
<1>3. /\ e \in Events /\ OrderAt(w) \in Orders /\ OrderAt(w) = OrderOf[e]
      /\ recorded[e] = "PROCESSING"
      /\ Outcome(e) \in {"PAID", "PAYMENT_FAILED"}
  BY <1>0, <1>2, BusyFacts
<1> HIDE DEF rows
<1>4. /\ hook'[w].step = "commit" /\ hook'[w].event = hook[w].event /\ hook'[w].rows = rows
      /\ \A v \in Handlers : v # w => hook'[v] = hook[v]
  BY <1>0, <1>1 DEF FulfilmentTypeOK, Hooks
<1>5. HandlersOwnEvents'
  BY <1>0, <1>1, <1>2, <1>4 DEF HandlersOwnEvents, Busy, EventOf
<1>6. emitted[e] = 0
  BY <1>0, <1>1 DEF EmissionsFollowHandlers
<1>7. /\ emitted'[e] \in {0, 1}
      /\ \A d \in Events : d # e => emitted'[d] = emitted[d]
  <2>1. (IF Announces(e) THEN emitted[e] + 1 ELSE emitted[e]) \in {0, 1}
    BY <1>6
  <2> QED
    BY <1>0, <1>1, <1>3, <2>1 DEF FulfilmentTypeOK
<1>8. EmittedAtMostOnce'
  BY <1>0, <1>7 DEF EmittedAtMostOnce
<1>9. EmissionsFollowHandlers'
  <2>1. \A v \in Handlers : v # w /\ Busy(v) => EventOf(v) # e
    BY <1>0, <1>2 DEF HandlersOwnEvents
  <2>2. \A v \in Handlers : Busy(v) => EventOf(v) \in Events
    BY <1>0 DEF HandlersOwnEvents
  <2>3. ASSUME NEW v \in Handlers, hook'[v].step \in {"read", "save"}
        PROVE  emitted'[hook'[v].event] = 0
    <3>1. v # w /\ hook'[v] = hook[v]
      BY <1>4, <2>3
    <3>2. Busy(v) /\ hook[v].step \in {"read", "save"}
      BY <2>3, <3>1 DEF Busy
    <3>3. hook[v].event \in Events /\ hook[v].event # e
      BY <2>1, <2>2, <3>1, <3>2 DEF EventOf
    <3>4. emitted[hook[v].event] = 0
      BY <1>0, <3>2 DEF EmissionsFollowHandlers, EventOf
    <3> QED
      BY <1>7, <3>1, <3>3, <3>4
  <2>4. ASSUME NEW d \in Events, recorded'[d] = None PROVE emitted'[d] = 0
    BY <1>0, <1>1, <1>3, <1>7, <2>4 DEF EmissionsFollowHandlers, None
  <2> QED
    BY <2>3, <2>4 DEF EmissionsFollowHandlers, EventOf
<1>10. UnwrittenIsSettled'
  <2>1. /\ rows \subseteq {OrderAt(w)}
        /\ rows = {} => status[OrderAt(w)] = Outcome(e)
    BY <1>3 DEF rows
  <2>2. OrderAt(w)' = OrderAt(w)
    BY <1>4 DEF OrderAt
  <2> QED
    BY <1>0, <1>1, <1>3, <1>4, <2>1, <2>2 DEF UnwrittenIsSettled, OrderAt
<1>11. StatusMatchesEvents'
  BY <1>0, <1>1 DEF StatusMatchesEvents, Processed, Outcome
<1> QED
  BY <1>5, <1>8, <1>9, <1>10, <1>11

(* A commit marks the event and leaves its order with the event's outcome, *)
(* or with the outcome of an earlier one.                                  *)
LEMMA CommittedPayment ==
  ASSUME PaymentInv, NEW w \in Handlers, CommitPayment(w)
  PROVE  HandlersOwnEvents' /\ EmissionsFollowHandlers' /\ EmittedAtMostOnce'
         /\ UnwrittenIsSettled' /\ StatusMatchesEvents'
<1> DEFINE e == EventOf(w)
<1>0. /\ FulfilmentTypeOK /\ HandlersOwnEvents /\ EmissionsFollowHandlers
      /\ EmittedAtMostOnce /\ UnwrittenIsSettled /\ StatusMatchesEvents
  BY DEF PaymentInv
<1>1. /\ hook[w].step = "commit"
      /\ recorded' = [recorded EXCEPT ![e] = "PROCESSED"]
      /\ hook' = [hook EXCEPT ![w] = NoHook]
      /\ \A o \in Orders : status'[o] = IF o \in hook[w].rows THEN Outcome(e) ELSE status[o]
      /\ UNCHANGED emitted
  BY DEF CommitPayment
<1>2. Busy(w)
  BY <1>1 DEF Busy
<1>3. /\ e \in Events /\ OrderAt(w) \in Orders /\ OrderAt(w) = OrderOf[e]
      /\ Outcome(e) \in {"PAID", "PAYMENT_FAILED"}
  BY <1>0, <1>2, BusyFacts
<1>4. /\ hook'[w].step = "idle" /\ hook'[w].rows = {}
      /\ \A v \in Handlers : v # w => hook'[v] = hook[v]
  BY <1>0, <1>1 DEF FulfilmentTypeOK, NoHook
<1>5. /\ recorded'[e] = "PROCESSED"
      /\ \A d \in Events : d # e => recorded'[d] = recorded[d]
  BY <1>0, <1>1, <1>3 DEF FulfilmentTypeOK
<1>6. \A v \in Handlers : v # w /\ Busy(v) => EventOf(v) # e
  BY <1>0, <1>2 DEF HandlersOwnEvents
<1>7. HandlersOwnEvents'
  BY <1>0, <1>4, <1>5, <1>6 DEF HandlersOwnEvents, Busy, EventOf
<1>8. EmissionsFollowHandlers' /\ EmittedAtMostOnce'
  BY <1>0, <1>1, <1>4, <1>5 DEF EmissionsFollowHandlers, EmittedAtMostOnce, EventOf, None
<1>9. hook[w].rows \subseteq {OrderAt(w)}
      /\ (hook[w].rows = {} => status[OrderAt(w)] # "PENDING_PAYMENT")
  BY <1>0, <1>1 DEF UnwrittenIsSettled
<1>10. \A o \in Orders : status[o] # "PENDING_PAYMENT" => status'[o] # "PENDING_PAYMENT"
  BY <1>1, <1>3
<1>11. UnwrittenIsSettled'
  <2>1. ASSUME NEW v \in Handlers, v # w, hook[v].step = "commit" PROVE OrderAt(v) \in Orders
    BY <1>0, <2>1, BusyFacts DEF Busy
  <2> QED
    BY <1>0, <1>4, <1>10, <2>1 DEF UnwrittenIsSettled, OrderAt
<1>12. StatusMatchesEvents'
  <2>1. \A d \in Events : Outcome(d)' = Outcome(d)
    BY DEF Outcome
  <2>2. ASSUME NEW o \in Orders, o # OrderAt(w)
        PROVE  status'[o] = status[o] /\ Processed(o)' = Processed(o)
    <3>1. \A d \in Events : OrderOf[d] = o => d # e
      BY <1>3, <2>2
    <3> QED
      BY <1>1, <1>5, <1>9, <2>2, <3>1 DEF Processed
  <2>3. ASSUME NEW o \in Orders, o = OrderAt(w)
        PROVE  /\ status'[o] # "PENDING_PAYMENT"
               /\ e \in Processed(o)'
               /\ Processed(o) \subseteq Processed(o)'
               /\ status'[o] = Outcome(e) \/ status'[o] = status[o]
               /\ status[o] = "PENDING_PAYMENT" => status'[o] = Outcome(e)
    <3>1. e \in Processed(o)' /\ Processed(o) \subseteq Processed(o)'
      BY <1>3, <1>5, <2>3 DEF Processed
    <3> QED
      BY <1>1, <1>3, <1>9, <2>3, <3>1
  <2>4. ASSUME NEW o \in Orders, status'[o] # "PENDING_PAYMENT"
        PROVE  \E d \in Processed(o)' : status'[o] = Outcome(d)
    <3>1. CASE o # OrderAt(w)
      BY <1>0, <2>2, <2>4, <3>1 DEF StatusMatchesEvents
    <3>2. CASE o = OrderAt(w) /\ status'[o] = Outcome(e)
      BY <2>3, <3>2
    <3>3. CASE o = OrderAt(w) /\ status'[o] # Outcome(e)
      <4>1. status[o] # "PENDING_PAYMENT" /\ status'[o] = status[o]
        BY <2>3, <3>3
      <4>2. PICK d \in Processed(o) : status[o] = Outcome(d)
        BY <1>0, <4>1 DEF StatusMatchesEvents
      <4> QED
        BY <2>3, <3>3, <4>1, <4>2
    <3> QED
      BY <3>1, <3>2, <3>3
  <2>5. ASSUME NEW o \in Orders, status'[o] = "PENDING_PAYMENT" PROVE Processed(o)' = {}
    BY <1>0, <2>2, <2>3, <2>5 DEF StatusMatchesEvents
  <2>6. \A o \in Orders : Processed(o)' \subseteq Events
    BY DEF Processed
  <2> QED
    BY <2>1, <2>4, <2>5, <2>6 DEF StatusMatchesEvents
<1> QED
  BY <1>7, <1>8, <1>11, <1>12

(* Listeners, clerks and polls do not touch orders and payment events.     *)
Elsewhere ==
    \/ \E e \in Events : CreateShipment(e) \/ QueueConfirmation(e) \/ ListenerFails(e)
    \/ \E a \in Clerks : \/ \E op \in {"dispatch", "deliver"}, o \in Orders : ReadShipment(a, op, o)
                         \/ SaveShipment(a)
                         \/ ClerkFails(a)
    \/ \E p \in Polls : StartPoll(p) \/ SendNext(p) \/ PollFails(p)
    \/ UNCHANGED vars

LEMMA ElsewhereKeepsPayments == Elsewhere => UNCHANGED paymentVars
BY DEF Elsewhere, CreateShipment, QueueConfirmation, ListenerFails, ReadShipment, SaveShipment,
       ClerkFails, StartPoll, SendNext, SendRow, PollFails, vars

LEMMA PaymentStep == PaymentInv /\ [Next]_vars => PaymentInv'
<1> SUFFICES ASSUME PaymentInv, [Next]_vars PROVE PaymentInv'
  OBVIOUS
<1>0. FulfilmentTypeOK'
  BY TypeStep DEF PaymentInv
<1>1. ASSUME NEW w \in Handlers, NEW e \in Events, Receive(w, e) PROVE PaymentInv'
  BY <1>0, <1>1, ReceivePayment DEF PaymentInv
<1>2. ASSUME NEW w \in Handlers, ReadOrder(w) \/ HookFails(w) PROVE PaymentInv'
  BY <1>0, <1>2, QuietPayment DEF PaymentInv
<1>3. ASSUME NEW w \in Handlers, SaveOrder(w) PROVE PaymentInv'
  BY <1>0, <1>3, SavePayment DEF PaymentInv
<1>4. ASSUME NEW w \in Handlers, CommitPayment(w) PROVE PaymentInv'
  BY <1>0, <1>4, CommittedPayment DEF PaymentInv
<1>5. CASE Elsewhere
  <2>1. UNCHANGED <<status, recorded, hook, emitted>>
    BY <1>5, ElsewhereKeepsPayments DEF paymentVars
  <2> QED
    BY <1>0, <2>1 DEF PaymentInv, HandlersOwnEvents, EmissionsFollowHandlers, EmittedAtMostOnce,
                      UnwrittenIsSettled, StatusMatchesEvents, Processed, Outcome, Busy,
                      EventOf, OrderAt
<1> QED
  BY <1>1, <1>2, <1>3, <1>4, <1>5 DEF Next, Elsewhere

LEMMA PaymentInvariance == Spec => []PaymentInv
BY PaymentInit, PaymentStep, PTL DEF Spec

(* The tables and the tasks in progress always have their types.           *)
THEOREM FulfilmentTypeCorrect == Spec => []FulfilmentTypeOK
<1>1. PaymentInv => FulfilmentTypeOK
  BY DEF PaymentInv
<1> QED
  BY <1>1, PaymentInvariance, PTL

(* handleWebhook emits order.paid at most once for an event, however many  *)
(* deliveries of it overlap and wherever handlers break off.               *)
THEOREM SideEffectsOnce == Spec => []EmittedAtMostOnce
<1>1. PaymentInv => EmittedAtMostOnce
  BY DEF PaymentInv
<1> QED
  BY <1>1, PaymentInvariance, PTL

(* The status that handleWebhook leaves an order with is the outcome of an *)
(* event marked PROCESSED, and an order without such an event is unpaid.   *)
THEOREM StatusIsExplained == Spec => []StatusMatchesEvents
<1>1. PaymentInv => StatusMatchesEvents
  BY DEF PaymentInv
<1> QED
  BY <1>1, PaymentInvariance, PTL

-----------------------------------------------------------------------------
(* Shipments                                                               *)

(* A clerk at work has seen the shipment of an order.                      *)
ClerksFollow ==
    \A a \in Clerks : clerk[a].op # "idle" =>
        clerk[a].order \in Orders /\ shipment[clerk[a].order] # None

ShipmentInv == FulfilmentTypeOK /\ ClerksFollow

LEMMA OnlyTheseShip ==
  ASSUME [Next]_vars
  PROVE  \/ \E e \in Events : CreateShipment(e)
         \/ \E a \in Clerks : \/ \E op \in {"dispatch", "deliver"}, o \in Orders : ReadShipment(a, op, o)
                              \/ SaveShipment(a)
                              \/ ClerkFails(a)
         \/ UNCHANGED shipmentVars
<1>1. ASSUME NEW w \in Handlers,
             \/ \E d \in Events : Receive(w, d)
             \/ ReadOrder(w) \/ SaveOrder(w) \/ CommitPayment(w) \/ HookFails(w)
      PROVE  UNCHANGED shipmentVars
  BY <1>1 DEF Receive, ReadOrder, SaveOrder, CommitPayment, HookFails
<1>2. ASSUME NEW d \in Events, QueueConfirmation(d) \/ ListenerFails(d)
      PROVE  UNCHANGED shipmentVars
  BY <1>2 DEF QueueConfirmation, ListenerFails
<1>3. ASSUME NEW p \in Polls, StartPoll(p) \/ SendNext(p) \/ PollFails(p)
      PROVE  UNCHANGED shipmentVars
  BY <1>3 DEF StartPoll, SendNext, SendRow, PollFails
<1>4. CASE UNCHANGED vars
  BY <1>4 DEF vars
<1> QED
  BY <1>1, <1>2, <1>3, <1>4 DEF Next

(* What order.paid does to the shipment of its order: it creates it, or it *)
(* finds one and changes nothing.                                          *)
LEMMA CreateOnce ==
  ASSUME FulfilmentTypeOK, NEW e \in Events, CreateShipment(e)
  PROVE  /\ clerk' = clerk
         /\ \/ /\ shipment[OrderOf[e]] = None
               /\ shipment' = [shipment EXCEPT ![OrderOf[e]] = "PENDING"]
               /\ log' = [log EXCEPT ![OrderOf[e]]["PENDING"] = @ + 1]
            \/ shipment[OrderOf[e]] # None /\ shipment' = shipment /\ log' = log
<1> DEFINE o == OrderOf[e]
<1>1. o \in Orders
  OBVIOUS
<1>2. CASE shipment[o] = None
  BY <1>2 DEF CreateShipment, HasShipment
<1>3. CASE shipment[o] # None
  BY <1>1, <1>3 DEF CreateShipment, HasShipment, FulfilmentTypeOK, ShipmentStatuses
<1> QED
  BY <1>2, <1>3 DEF CreateShipment

LEMMA ShipmentStep ==
  ASSUME ShipmentInv, [Next]_vars
  PROVE  ClerksFollow'
<1>0. FulfilmentTypeOK /\ ClerksFollow
  BY DEF ShipmentInv
<1>1. ASSUME NEW e \in Events, CreateShipment(e) PROVE ClerksFollow'
  BY <1>0, <1>1, CreateOnce DEF ClerksFollow, FulfilmentTypeOK, None
<1>2. ASSUME NEW a \in Clerks, NEW op \in {"dispatch", "deliver"}, NEW o \in Orders,
             ReadShipment(a, op, o)
      PROVE  ClerksFollow'
  BY <1>0, <1>2 DEF ReadShipment, Requires, ClerksFollow, FulfilmentTypeOK, None
<1>3. ASSUME NEW a \in Clerks, SaveShipment(a) PROVE ClerksFollow'
  <2>1. Gives(clerk[a].op) # None
    BY DEF Gives, None
  <2> QED
    BY <1>0, <1>3, <2>1 DEF SaveShipment, ClerksFollow, NoTask, FulfilmentTypeOK
<1>4. ASSUME NEW a \in Clerks, ClerkFails(a) PROVE ClerksFollow'
  BY <1>0, <1>4 DEF ClerkFails, ClerksFollow, NoTask, FulfilmentTypeOK
<1>5. CASE UNCHANGED shipmentVars
  BY <1>0, <1>5 DEF shipmentVars, ClerksFollow
<1> QED
  BY <1>1, <1>2, <1>3, <1>4, <1>5, OnlyTheseShip

LEMMA ShipmentInvariance == Spec => []ShipmentInv
<1>1. Init => ShipmentInv
  BY TypeInit DEF ShipmentInv, Init, ClerksFollow, NoTask
<1>2. ShipmentInv /\ FulfilmentTypeOK' /\ [Next]_vars => ShipmentInv'
  BY ShipmentStep DEF ShipmentInv
<1> QED
  BY <1>1, <1>2, FulfilmentTypeCorrect, PTL DEF Spec

(* No two administrators work at the same shipment at the same time.       *)
OneClerkEach ==
    \A a, b \in Clerks :
        clerk[a].op # "idle" /\ clerk[b].op # "idle" /\ clerk[a].order = clerk[b].order => a = b

(* Then what a clerk has read is still true when it saves.                 *)
ClerksAreCurrent ==
    \A a \in Clerks : clerk[a].op # "idle" => shipment[clerk[a].order] = Requires(clerk[a].op)

LEMMA AdvanceStep ==
  ASSUME ShipmentInv, ClerksAreCurrent, OneClerkEach, [Next]_vars
  PROVE  /\ ClerksAreCurrent'
         /\ \A o \in Orders : shipment'[o] # shipment[o] =>
                <<shipment[o], shipment'[o]>> \in
                    {<<None, "PENDING">>, <<"PENDING", "SHIPPED">>, <<"SHIPPED", "DELIVERED">>}
<1> DEFINE Advances ==
             \A o \in Orders : shipment'[o] # shipment[o] =>
                <<shipment[o], shipment'[o]>> \in
                    {<<None, "PENDING">>, <<"PENDING", "SHIPPED">>, <<"SHIPPED", "DELIVERED">>}
<1>0. FulfilmentTypeOK /\ ClerksFollow
  BY DEF ShipmentInv
<1>1. ASSUME NEW e \in Events, CreateShipment(e) PROVE ClerksAreCurrent' /\ Advances
  <2>1. OrderOf[e] \in Orders
    OBVIOUS
  <2>2. \A o \in Orders : shipment'[o] = shipment[o] \/ (shipment[o] = None /\ shipment'[o] = "PENDING")
    BY <1>0, <1>1, <2>1, CreateOnce DEF FulfilmentTypeOK
  <2>3. clerk' = clerk
    BY <1>0, <1>1, CreateOnce
  <2> QED
    BY <1>0, <2>2, <2>3 DEF ClerksAreCurrent, ClerksFollow
<1>2. ASSUME NEW a \in Clerks, NEW op \in {"dispatch", "deliver"}, NEW o \in Orders,
             ReadShipment(a, op, o)
      PROVE  ClerksAreCurrent' /\ Advances
  BY <1>0, <1>2 DEF ReadShipment, ClerksAreCurrent, FulfilmentTypeOK
<1>3. ASSUME NEW a \in Clerks, SaveShipment(a) PROVE ClerksAreCurrent' /\ Advances
  <2>1. /\ clerk[a].op # "idle" /\ clerk[a].order \in Orders
        /\ shipment' = [shipment EXCEPT ![clerk[a].order] = Gives(clerk[a].op)]
        /\ clerk' = [clerk EXCEPT ![a] = NoTask]
    BY <1>0, <1>3 DEF SaveShipment, ClerksFollow
  <2>2. shipment[clerk[a].order] = Requires(clerk[a].op)
    BY <2>1 DEF ClerksAreCurrent
  <2>3. <<Requires(clerk[a].op), Gives(clerk[a].op)>> \in {<<"PENDING", "SHIPPED">>, <<"SHIPPED", "DELIVERED">>}
    BY DEF Requires, Gives
  <2>4. Advances
    BY <1>0, <2>1, <2>2, <2>3 DEF FulfilmentTypeOK
  <2>5. ClerksAreCurrent'
    BY <1>0, <2>1 DEF ClerksAreCurrent, OneClerkEach, NoTask, FulfilmentTypeOK
  <2> QED
    BY <2>4, <2>5
<1>4. ASSUME NEW a \in Clerks, ClerkFails(a) PROVE ClerksAreCurrent' /\ Advances
  BY <1>0, <1>4 DEF ClerkFails, ClerksAreCurrent, NoTask, FulfilmentTypeOK
<1>5. CASE UNCHANGED shipmentVars
  BY <1>5 DEF shipmentVars, ClerksAreCurrent
<1> QED
  BY <1>1, <1>2, <1>3, <1>4, <1>5, OnlyTheseShip

LEMMA HistoryStep ==
  ASSUME ShipmentInv, ClerksAreCurrent, ShipmentHistory, [Next]_vars
  PROVE  ShipmentHistory'
<1>0. FulfilmentTypeOK /\ ClerksFollow
  BY DEF ShipmentInv
<1>1. ASSUME NEW e \in Events, CreateShipment(e) PROVE ShipmentHistory'
  <2>1. OrderOf[e] \in Orders
    OBVIOUS
  <2>2. CASE shipment' = shipment /\ log' = log
    BY <2>2 DEF ShipmentHistory
  <2>3. CASE /\ shipment[OrderOf[e]] = None
             /\ shipment' = [shipment EXCEPT ![OrderOf[e]] = "PENDING"]
             /\ log' = [log EXCEPT ![OrderOf[e]]["PENDING"] = @ + 1]
    <3>1. log[OrderOf[e]]["PENDING"] = 0
      BY <2>1, <2>3 DEF ShipmentHistory, PassedThrough, ShipmentStatuses, None
    <3> QED
      BY <1>0, <2>1, <2>3, <3>1
      DEF ShipmentHistory, PassedThrough, FulfilmentTypeOK, ShipmentStatuses, None
  <2> QED
    BY <1>0, <1>1, <2>2, <2>3, CreateOnce
<1>2. ASSUME NEW a \in Clerks, NEW op \in {"dispatch", "deliver"}, NEW o \in Orders,
             ReadShipment(a, op, o)
      PROVE  ShipmentHistory'
  BY <1>2 DEF ReadShipment, ShipmentHistory
<1>3. ASSUME NEW a \in Clerks, SaveShipment(a) PROVE ShipmentHistory'
  <2> DEFINE o == clerk[a].order
             to == Gives(clerk[a].op)
  <2>1. /\ o \in Orders
        /\ shipment' = [shipment EXCEPT ![o] = to]
        /\ log' = [log EXCEPT ![o][to] = @ + 1]
    BY <1>0, <1>3 DEF SaveShipment, ClerksFollow
  <2>2. \/ shipment[o] = "PENDING" /\ to = "SHIPPED"
        \/ shipment[o] = "SHIPPED" /\ to = "DELIVERED"
    BY <1>3 DEF SaveShipment, ClerksAreCurrent, Requires, Gives
  <2> HIDE DEF o, to
  <2>3. log[o][to] = 0
    BY <2>1, <2>2 DEF ShipmentHistory, PassedThrough, ShipmentStatuses, None
  <2> QED
    BY <1>0, <2>1, <2>2, <2>3
    DEF ShipmentHistory, PassedThrough, FulfilmentTypeOK, ShipmentStatuses, None
<1>4. ASSUME NEW a \in Clerks, ClerkFails(a) PROVE ShipmentHistory'
  BY <1>4 DEF ClerkFails, ShipmentHistory
<1>5. CASE UNCHANGED shipmentVars
  BY <1>5 DEF shipmentVars, ShipmentHistory
<1> QED
  BY <1>1, <1>2, <1>3, <1>4, <1>5, OnlyTheseShip

(* In every behaviour in which no two requests work at the same shipment,  *)
(* however many work at different ones and whatever else overlaps or       *)
(* fails, a shipment goes from PENDING over SHIPPED to DELIVERED and never *)
(* back.  dispatchShipment and markDelivered read without a lock: when two *)
(* requests for one shipment do overlap, it may go back.                   *)
THEOREM ShipmentsAdvance == Spec /\ []OneClerkEach => ShipmentLifeCycle
<1>1. Init => ClerksAreCurrent
  BY DEF Init, ClerksAreCurrent, NoTask
<1>2. ShipmentInv /\ ClerksAreCurrent /\ OneClerkEach /\ [Next]_vars => ClerksAreCurrent'
  BY AdvanceStep
<1>3. ShipmentInv /\ ClerksAreCurrent /\ OneClerkEach /\ [Next]_vars =>
        [\A o \in Orders : shipment'[o] # shipment[o] =>
            <<shipment[o], shipment'[o]>> \in
               {<<None, "PENDING">>, <<"PENDING", "SHIPPED">>, <<"SHIPPED", "DELIVERED">>}]_vars
  BY AdvanceStep
<1> QED
  BY <1>1, <1>2, <1>3, ShipmentInvariance, PTL DEF Spec, ShipmentLifeCycle

(* In the same behaviours the event rows of a shipment are the states it   *)
(* went through, each once, although order.paid may be emitted for its     *)
(* order again.                                                            *)
THEOREM HistoriesAreComplete == Spec /\ []OneClerkEach => []ShipmentHistory
<1>1. Init => ClerksAreCurrent /\ ShipmentHistory
  BY DEF Init, ClerksAreCurrent, ShipmentHistory, PassedThrough, NoTask, ShipmentStatuses, None
<1>2. ShipmentInv /\ ClerksAreCurrent /\ OneClerkEach /\ [Next]_vars => ClerksAreCurrent'
  BY AdvanceStep
<1>3. ShipmentInv /\ ClerksAreCurrent /\ ShipmentHistory /\ [Next]_vars => ShipmentHistory'
  BY HistoryStep
<1> QED
  BY <1>1, <1>2, <1>3, ShipmentInvariance, PTL DEF Spec

-----------------------------------------------------------------------------
(* Effects of order.paid                                                   *)

(* A run of the poll holds rows of the table only.                         *)
BatchesAreQueued == \A p \in Polls : \A e \in batch[p] : note[e] # None

(* order.paid was emitted for a succeeded payment.                         *)
News(e) == Announces(e) /\ emitted[e] > 0

EffectsFromNews ==
    /\ \A e \in Events : HasEffects(e) => News(e)
    /\ \A o \in Orders : shipment[o] # None => \E e \in Events : OrderOf[e] = o /\ News(e)

Backed == BatchesAreQueued /\ EffectsFromNews

LEMMA BackedInit == Init => Backed
BY DEF Init, Backed, BatchesAreQueued, EffectsFromNews, HasEffects, None

LEMMA BatchesStep ==
  ASSUME FulfilmentTypeOK, BatchesAreQueued, [Next]_vars
  PROVE  BatchesAreQueued'
<1>1. ASSUME NEW e \in Events, QueueConfirmation(e) PROVE BatchesAreQueued'
  BY <1>1 DEF QueueConfirmation, BatchesAreQueued, FulfilmentTypeOK, None
<1>2. ASSUME NEW p \in Polls, StartPoll(p) PROVE BatchesAreQueued'
  <2>1. PICK B \in SUBSET {e \in Events : Due(e)} : batch' = [batch EXCEPT ![p] = B]
    BY <1>2 DEF StartPoll
  <2> QED
    BY <1>2, <2>1 DEF StartPoll, Due, BatchesAreQueued, FulfilmentTypeOK, None
<1>3. ASSUME NEW p \in Polls, SendNext(p) PROVE BatchesAreQueued'
  <2>1. PICK e \in Events, result \in {"DELIVERED", "FAILED"} :
          /\ note' = [note EXCEPT ![e] = result]
          /\ batch' = [batch EXCEPT ![p] = @ \ {e}]
    BY <1>3 DEF SendNext, SendRow
  <2> QED
    BY <2>1 DEF BatchesAreQueued, FulfilmentTypeOK, None
<1>4. ASSUME NEW p \in Polls, PollFails(p) PROVE BatchesAreQueued'
  BY <1>4 DEF PollFails, BatchesAreQueued, FulfilmentTypeOK
<1>5. ASSUME UNCHANGED noteVars PROVE BatchesAreQueued'
  BY <1>5 DEF noteVars, BatchesAreQueued
<1>6. ASSUME NEW w \in Handlers,
             \/ \E d \in Events : Receive(w, d)
             \/ ReadOrder(w) \/ SaveOrder(w) \/ CommitPayment(w) \/ HookFails(w)
      PROVE  UNCHANGED noteVars
  BY <1>6 DEF Receive, ReadOrder, SaveOrder, CommitPayment, HookFails
<1>7. ASSUME NEW d \in Events, CreateShipment(d) \/ ListenerFails(d)
      PROVE  UNCHANGED noteVars
  BY <1>7 DEF CreateShipment, ListenerFails
<1>8. ASSUME NEW a \in Clerks,
             \/ \E op \in {"dispatch", "deliver"}, o \in Orders : ReadShipment(a, op, o)
             \/ SaveShipment(a) \/ ClerkFails(a)
      PROVE  UNCHANGED noteVars
  BY <1>8 DEF ReadShipment, SaveShipment, ClerkFails
<1>9. CASE UNCHANGED vars
  BY <1>5, <1>9 DEF vars
<1> QED
  BY <1>1, <1>2, <1>3, <1>4, <1>5, <1>6, <1>7, <1>8, <1>9 DEF Next

(* What was emitted stays emitted.                                         *)
LEMMA NewsStays ==
  ASSUME PaymentInv, [Next]_vars, NEW e \in Events, News(e)
  PROVE  News(e)'
<1>0. FulfilmentTypeOK
  BY DEF PaymentInv
<1>1. ASSUME NEW w \in Handlers, SaveOrder(w) PROVE emitted'[e] \in {emitted[e], emitted[e] + 1}
  <2>1. emitted' = [emitted EXCEPT ![EventOf(w)] =
                       IF Announces(EventOf(w)) THEN emitted[EventOf(w)] + 1 ELSE emitted[EventOf(w)]]
    BY <1>1 DEF SaveOrder
  <2> QED
    BY <1>0, <2>1 DEF FulfilmentTypeOK
<1>2. ASSUME NEW w \in Handlers,
             \/ \E d \in Events : Receive(w, d)
             \/ ReadOrder(w) \/ CommitPayment(w) \/ HookFails(w)
      PROVE  emitted' = emitted
  BY <1>2 DEF Receive, ReadOrder, CommitPayment, HookFails
<1>3. ASSUME Elsewhere PROVE emitted' = emitted
  BY <1>3, ElsewhereKeepsPayments DEF paymentVars
<1>4. emitted[e] \in Nat /\ emitted[e] > 0
  BY <1>0 DEF News, FulfilmentTypeOK
<1>5. emitted'[e] > 0
  <2>1. ASSUME emitted' = emitted PROVE emitted'[e] > 0
    BY <1>4, <2>1
  <2>2. ASSUME NEW w \in Handlers, SaveOrder(w) PROVE emitted'[e] > 0
    BY <1>1, <1>4, <2>2
  <2> QED
    BY <1>2, <1>3, <2>1, <2>2 DEF Next, Elsewhere
<1> QED
  BY <1>5 DEF News, Announces

(* Listeners start when an order is saved, and rows come from listeners.   *)
LEMMA NewsFromPayments ==
  ASSUME FulfilmentTypeOK, BatchesAreQueued, [Next]_vars, NEW e \in Events,
         HasEffects(e)'
  PROVE  HasEffects(e) \/ News(e)'
<1> USE DEF HasEffects
<1>1. ASSUME NEW w \in Handlers, SaveOrder(w) PROVE HasEffects(e) \/ News(e)'
  <2>1. CASE EventOf(w) = e /\ Announces(e)
    <3>1. emitted'[e] = emitted[e] + 1
      BY <1>1, <2>1 DEF SaveOrder, FulfilmentTypeOK
    <3> QED
      BY <2>1, <3>1 DEF News, Announces, FulfilmentTypeOK
  <2>2. CASE ~(EventOf(w) = e /\ Announces(e))
    BY <1>1, <2>2 DEF SaveOrder, Announced, noteVars
  <2> QED
    BY <2>1, <2>2
<1>2. ASSUME NEW w \in Handlers,
             \/ \E d \in Events : Receive(w, d)
             \/ ReadOrder(w) \/ CommitPayment(w) \/ HookFails(w)
      PROVE  HasEffects(e)
  BY <1>2 DEF Receive, ReadOrder, CommitPayment, HookFails, listenerVars, noteVars
<1>3. ASSUME NEW d \in Events, CreateShipment(d) \/ QueueConfirmation(d) \/ ListenerFails(d)
      PROVE  HasEffects(e)
  BY <1>3 DEF CreateShipment, QueueConfirmation, ListenerFails, noteVars, FulfilmentTypeOK
<1>4. ASSUME NEW a \in Clerks,
             \/ \E op \in {"dispatch", "deliver"}, o \in Orders : ReadShipment(a, op, o)
             \/ SaveShipment(a) \/ ClerkFails(a)
      PROVE  HasEffects(e)
  BY <1>4 DEF ReadShipment, SaveShipment, ClerkFails, listenerVars, noteVars
<1>5. ASSUME NEW p \in Polls, StartPoll(p) \/ PollFails(p)
      PROVE  HasEffects(e)
  BY <1>5 DEF StartPoll, PollFails, listenerVars
<1>6. ASSUME NEW p \in Polls, SendNext(p)
      PROVE  HasEffects(e)
  <2>1. PICK d \in Events, result \in {"DELIVERED", "FAILED"} :
          /\ d \in batch[p]
          /\ note' = [note EXCEPT ![d] = result]
          /\ UNCHANGED listenerVars
    BY <1>6 DEF SendNext, SendRow
  <2>2. CASE d = e
    BY <2>1, <2>2 DEF BatchesAreQueued
  <2>3. CASE d # e
    BY <2>1, <2>3 DEF listenerVars, FulfilmentTypeOK
  <2> QED
    BY <2>2, <2>3
<1>7. CASE UNCHANGED vars
  BY <1>7 DEF vars, listenerVars, noteVars
<1> QED
  BY <1>1, <1>2, <1>3, <1>4, <1>5, <1>6, <1>7 DEF Next

(* A shipment is created for an order.paid that is being handled.          *)
LEMMA ShipmentsFromNews ==
  ASSUME FulfilmentTypeOK, ClerksFollow, [Next]_vars, NEW o \in Orders, shipment'[o] # None
  PROVE  shipment[o] # None \/ \E e \in shipping : OrderOf[e] = o
<1>1. ASSUME NEW e \in Events, CreateShipment(e)
      PROVE  shipment[o] # None \/ \E d \in shipping : OrderOf[d] = o
  BY <1>1, CreateOnce DEF CreateShipment, FulfilmentTypeOK
<1>2. ASSUME NEW a \in Clerks, SaveShipment(a) PROVE shipment[o] # None
  BY <1>2 DEF SaveShipment, ClerksFollow, FulfilmentTypeOK
<1>3. ASSUME \/ \E a \in Clerks : \/ \E op \in {"dispatch", "deliver"}, d \in Orders : ReadShipment(a, op, d)
                                  \/ ClerkFails(a)
             \/ UNCHANGED shipmentVars
      PROVE  shipment[o] # None
  BY <1>3 DEF ReadShipment, ClerkFails, shipmentVars
<1> QED
  BY <1>1, <1>2, <1>3, OnlyTheseShip

LEMMA BackedStep ==
  ASSUME PaymentInv, ShipmentInv, Backed, [Next]_vars
  PROVE  Backed'
<1>0. FulfilmentTypeOK /\ ClerksFollow /\ BatchesAreQueued /\ EffectsFromNews
  BY DEF ShipmentInv, Backed
<1>1. ASSUME NEW e \in Events, HasEffects(e)' PROVE News(e)'
  <2>1. CASE News(e)'
    BY <2>1
  <2>2. CASE HasEffects(e)
    BY <1>0, <2>2, NewsStays DEF EffectsFromNews
  <2> QED
    BY <1>0, <1>1, <2>1, <2>2, NewsFromPayments
<1>2. ASSUME NEW o \in Orders, shipment'[o] # None
      PROVE  \E e \in Events : OrderOf[e] = o /\ News(e)'
  <2>1. \E e \in Events : OrderOf[e] = o /\ News(e)
    <3>1. CASE shipment[o] # None
      BY <1>0, <3>1 DEF EffectsFromNews
    <3>2. CASE \E e \in shipping : OrderOf[e] = o
      BY <1>0, <3>2 DEF EffectsFromNews, HasEffects, FulfilmentTypeOK
    <3> QED
      BY <1>0, <1>2, <3>1, <3>2, ShipmentsFromNews
  <2> QED
    BY <2>1, NewsStays
<1>3. EffectsFromNews'
  BY <1>1, <1>2 DEF EffectsFromNews
<1> QED
  BY <1>0, <1>3, BatchesStep DEF Backed

(* An event whose order.paid was emitted is processed, about to be         *)
(* committed, or rolled back and left by its handler.                      *)
LEMMA NewsIsExplained ==
  ASSUME PaymentInv, NEW e \in Events, News(e)
  PROVE  Explained(e)
<1>0. /\ FulfilmentTypeOK /\ HandlersOwnEvents /\ EmissionsFollowHandlers /\ EmittedAtMostOnce
  BY DEF PaymentInv
<1>1. TypeOf[e] = "payment.succeeded" /\ emitted[e] = 1
  BY <1>0 DEF News, Announces, EmittedAtMostOnce, FulfilmentTypeOK
<1>2. recorded[e] \in {"PROCESSING", "PROCESSED"}
  BY <1>0, <1>1 DEF EmissionsFollowHandlers, FulfilmentTypeOK, None
<1>3. CASE recorded[e] = "PROCESSED"
  BY <1>1, <1>3 DEF Explained, PaidFor
<1>4. CASE recorded[e] = "PROCESSING" /\ \A w \in Handlers : hook[w].step # "idle" => EventOf(w) # e
  BY <1>1, <1>4 DEF Explained, RolledBack
<1>5. ASSUME NEW w \in Handlers, hook[w].step # "idle", EventOf(w) = e
      PROVE  Explained(e)
  <2>1. hook[w].step \notin {"read", "save"}
    BY <1>0, <1>1, <1>5 DEF EmissionsFollowHandlers
  <2>2. hook[w].step = "commit"
    BY <1>0, <1>5, <2>1 DEF FulfilmentTypeOK, Hooks
  <2> QED
    BY <1>1, <1>5, <2>2 DEF Explained, PaidFor, Committing
<1> QED
  BY <1>2, <1>3, <1>4, <1>5

(* Whatever overlaps or fails, everything that order.paid brought about    *)
(* has behind it a successful payment that handleWebhook has committed, is *)
(* committing, or had rolled back under it after the emit.                 *)
THEOREM EffectsComeFromPayments == Spec => []EffectsAreExplained
<1>1. Init => Backed
  BY BackedInit
<1>2. PaymentInv /\ ShipmentInv /\ Backed /\ [Next]_vars => Backed'
  BY BackedStep
<1>3. PaymentInv /\ Backed => EffectsAreExplained
  BY NewsIsExplained DEF Backed, EffectsFromNews, EffectsAreExplained
<1> QED
  BY <1>1, <1>2, <1>3, PaymentInvariance, ShipmentInvariance, PTL DEF Spec
=============================================================================
