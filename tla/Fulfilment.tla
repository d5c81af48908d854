----------------------------- MODULE Fulfilment -----------------------------
(***************************************************************************)
(* What happens to an order after checkout: PaymentsService.handleWebhook, *)
(* the two listeners of `order.paid' (ShippingService and                  *)
(* NotificationsService), the administrators' shipping requests, and the   *)
(* poll that sends notifications (src/payments, src/shipping,              *)
(* src/notifications).                                                     *)
(*                                                                         *)
(* A step ends where the code awaits something that others can see or      *)
(* change meanwhile.  Tables are variables with their committed contents;  *)
(* what a handler has in memory, or in an open transaction, is in its      *)
(* record, and is lost when the handler breaks off.                        *)
(*                                                                         *)
(* An order has at most one shipment (the one-to-one column order_id of    *)
(* shipments), so a shipment is named by its order.  One order.paid makes  *)
(* one notification row, which is named by the payment event behind it.    *)
(***************************************************************************)
EXTENDS Naturals, FiniteSets

CONSTANTS
    Orders,      \* orders that checkout has created
    Events,      \* the payment provider's event ids
    OrderOf,     \* payload.data.order_id of an event
    TypeOf,      \* payload.type of an event
    Handlers,    \* webhook requests in progress
    Clerks,      \* administrators' shipping requests in progress
    Polls,       \* runs of the notification cron job in progress
    BatchSize,   \* rows that a run takes (50 in the code)
    Faults       \* where a handler may break off, see Fails

EventTypes == {"payment.succeeded", "payment.failed", "other"}
FaultPlaces == {"read", "save", "commit", "listener", "clerk", "poll"}

ASSUME FulfilmentAssumption ==
    /\ OrderOf \in [Events -> Orders]
    /\ TypeOf \in [Events -> EventTypes]
    /\ BatchSize \in Nat \ {0}
    /\ Faults \subseteq FaultPlaces

VARIABLES
    status,      \* orders.status
    recorded,    \* payment_events: internal_status by provider_event_id
    hook,        \* handleWebhook in progress
    emitted,     \* how often order.paid was emitted for an event
    shipping,    \* events whose order.paid ShippingService is handling
    confirming,  \* events whose order.paid NotificationsService is handling
    shipment,    \* shipments.status
    log,         \* shipment_events: rows by order and status
    clerk,       \* dispatchShipment and markDelivered in progress
    note,        \* notifications.status
    batch        \* rows a run of the poll has still to send

paymentVars == <<status, recorded, hook, emitted>>
listenerVars == <<shipping, confirming>>
shipmentVars == <<shipment, log, clerk>>
noteVars == <<note, batch>>
vars == <<paymentVars, listenerVars, shipmentVars, noteVars>>

NoEvent == "no event"
NoOrder == "no order"
ASSUME NoneAssumption == NoEvent \notin Events /\ NoOrder \notin Orders

None == "none"       \* there is no such row

OrderStatuses == {"PENDING_PAYMENT", "PAID", "PAYMENT_FAILED"}
ShipmentStatuses == {"PENDING", "SHIPPED", "DELIVERED"}

(* rows: the orders that the open transaction has updated, and so locks.    *)
Hooks == [step  : {"idle", "read", "save", "commit"},
          event : Events \cup {NoEvent},
          rows  : SUBSET Orders]
NoHook == [step |-> "idle", event |-> NoEvent, rows |-> {}]

ClerkTasks == [op : {"idle", "dispatch", "deliver"}, order : Orders \cup {NoOrder}]
NoTask == [op |-> "idle", order |-> NoOrder]

FulfilmentTypeOK ==
    /\ status \in [Orders -> OrderStatuses]
    /\ recorded \in [Events -> {None, "PROCESSING", "PROCESSED"}]
    /\ hook \in [Handlers -> Hooks]
    /\ emitted \in [Events -> Nat]
    /\ shipping \in SUBSET Events
    /\ confirming \in SUBSET Events
    /\ shipment \in [Orders -> ShipmentStatuses \cup {None}]
    /\ log \in [Orders -> [ShipmentStatuses -> Nat]]
    /\ clerk \in [Clerks -> ClerkTasks]
    /\ note \in [Events -> {None, "PENDING", "DELIVERED", "FAILED"}]
    /\ batch \in [Polls -> SUBSET Events]

Init ==
    /\ status = [o \in Orders |-> "PENDING_PAYMENT"]
    /\ recorded = [e \in Events |-> None]
    /\ hook = [w \in Handlers |-> NoHook]
    /\ emitted = [e \in Events |-> 0]
    /\ shipping = {}
    /\ confirming = {}
    /\ shipment = [o \in Orders |-> None]
    /\ log = [o \in Orders |-> [s \in ShipmentStatuses |-> 0]]
    /\ clerk = [a \in Clerks |-> NoTask]
    /\ note = [e \in Events |-> None]
    /\ batch = [p \in Polls |-> {}]

-----------------------------------------------------------------------------
(* PaymentsService.handleWebhook                                           *)

EventOf(w) == hook[w].event
OrderAt(w) == OrderOf[hook[w].event]

NeverDuplicate(e) == FALSE       \* mutant: no unique provider_event_id
(* The insert of the event row violates its unique constraint.             *)
IsDuplicate(e) == recorded[e] # None

(* The provider delivers an event: for the first time, again because it    *)
(* saw no answer, or again for no reason.  A duplicate is answered 200 and *)
(* changes nothing.                                                        *)
Receive(w, e) ==
    /\ hook[w].step = "idle"
    /\ ~IsDuplicate(e)
    /\ recorded' = [recorded EXCEPT ![e] = "PROCESSING"]
    /\ hook' = [hook EXCEPT ![w] = [NoHook EXCEPT !.step = "read", !.event = e]]
    /\ UNCHANGED <<status, emitted, listenerVars, shipmentVars, noteVars>>

ProviderStatus(e) == TypeOf[e]   \* mutant: the provider's word stored as it is
Outcome(e) == IF TypeOf[e] = "payment.succeeded" THEN "PAID" ELSE "PAYMENT_FAILED"

(* What the transaction does nothing about.                                *)
Ignored(e) ==
    \/ TypeOf[e] = "other"
    \/ TypeOf[e] = "payment.succeeded" /\ status[OrderOf[e]] # "PENDING_PAYMENT"

(* findOne(order), without a lock.                                         *)
ReadOrder(w) ==
    /\ hook[w].step = "read"
    /\ hook' = [hook EXCEPT ![w] = IF Ignored(EventOf(w)) THEN NoHook
                                   ELSE [@ EXCEPT !.step = "save"]]
    /\ UNCHANGED <<status, recorded, emitted, listenerVars, shipmentVars, noteVars>>

RowLocked(o) == \E w \in Handlers : o \in hook[w].rows

AnnouncesAny(e) == TRUE          \* mutant: order.paid for a failed payment too
Announces(e) == TypeOf[e] = "payment.succeeded"

Announced(e, listeners) == IF Announces(e) THEN listeners \cup {e} ELSE listeners

(* save(order), save(event) and the emit, all before the commit.  save()   *)
(* compares with the committed row: it updates, and so locks, only a row   *)
(* that differs.  emit() starts both listeners.                            *)
SaveOrder(w) ==
    LET e == EventOf(w)
        rows == {o \in {OrderOf[e]} : status[o] # Outcome(e)}
    IN
    /\ hook[w].step = "save"
    /\ \A o \in rows : ~RowLocked(o)
    /\ hook' = [hook EXCEPT ![w] = [@ EXCEPT !.step = "commit", !.rows = rows]]
    /\ emitted' = [emitted EXCEPT ![e] = IF Announces(e) THEN @ + 1 ELSE @]
    /\ shipping' = Announced(e, shipping)
    /\ confirming' = Announced(e, confirming)
    /\ UNCHANGED <<status, recorded, shipmentVars, noteVars>>

CommitEventOnly(w) ==            \* mutant: the order is saved in no transaction
    /\ hook[w].step = "commit"
    /\ recorded' = [recorded EXCEPT ![EventOf(w)] = "PROCESSED"]
    /\ hook' = [hook EXCEPT ![w] = NoHook]
    /\ UNCHANGED <<status, emitted, listenerVars, shipmentVars, noteVars>>

CommitPayment(w) ==
    /\ hook[w].step = "commit"
    /\ status' = [o \in Orders |-> IF o \in hook[w].rows THEN Outcome(EventOf(w)) ELSE status[o]]
    /\ recorded' = [recorded EXCEPT ![EventOf(w)] = "PROCESSED"]
    /\ hook' = [hook EXCEPT ![w] = NoHook]
    /\ UNCHANGED <<emitted, listenerVars, shipmentVars, noteVars>>

(* A statement, the commit or the process fails: the transaction is rolled *)
(* back, but not the event row, which was inserted before it.              *)
HookFails(w) ==
    /\ hook[w].step \in Faults
    /\ hook' = [hook EXCEPT ![w] = NoHook]
    /\ UNCHANGED <<status, recorded, emitted, listenerVars, shipmentVars, noteVars>>

-----------------------------------------------------------------------------
(* ShippingService                                                         *)

NeverShipped(o) == FALSE         \* mutant: order_id of shipments is not unique
HasShipment(o) == shipment[o] # None

(* handleOrderPaidEvent: shipment and event row in one transaction, which  *)
(* does not look for a shipment of the order.  If there is one, the insert *)
(* violates the unique order_id, and the emitter logs what is thrown.      *)
CreateShipment(e) ==
    LET o == OrderOf[e]
        new == ~HasShipment(o)
    IN
    /\ e \in shipping
    /\ shipping' = shipping \ {e}
    /\ shipment' = [shipment EXCEPT ![o] = IF new THEN "PENDING" ELSE @]
    /\ log' = [log EXCEPT ![o]["PENDING"] = IF new THEN @ + 1 ELSE @]
    /\ UNCHANGED <<paymentVars, confirming, clerk, noteVars>>

Gives(op) == IF op = "dispatch" THEN "SHIPPED" ELSE "DELIVERED"

RequiresPending(op) == "PENDING"  \* mutant: the guard of dispatch copied
Requires(op) == IF op = "dispatch" THEN "PENDING" ELSE "SHIPPED"

(* dispatchShipment and markDelivered read the shipment without a lock and *)
(* answer 400 unless it has the right status.                              *)
ReadShipment(a, op, o) ==
    /\ clerk[a].op = "idle"
    /\ shipment[o] = Requires(op)
    /\ clerk' = [clerk EXCEPT ![a] = [op |-> op, order |-> o]]
    /\ UNCHANGED <<paymentVars, listenerVars, shipment, log, noteVars>>

(* Then they save the row and an event row and commit.                     *)
SaveShipment(a) ==
    LET to == Gives(clerk[a].op) IN
    /\ clerk[a].op # "idle"
    /\ shipment' = [shipment EXCEPT ![clerk[a].order] = to]
    /\ log' = [log EXCEPT ![clerk[a].order][to] = @ + 1]
    /\ clerk' = [clerk EXCEPT ![a] = NoTask]
    /\ UNCHANGED <<paymentVars, listenerVars, noteVars>>

ClerkFails(a) ==
    /\ "clerk" \in Faults
    /\ clerk[a].op # "idle"
    /\ clerk' = [clerk EXCEPT ![a] = NoTask]
    /\ UNCHANGED <<paymentVars, listenerVars, shipment, log, noteVars>>

-----------------------------------------------------------------------------
(* NotificationsService                                                    *)

(* handleOrderPaid                                                         *)
QueueConfirmation(e) ==
    /\ e \in confirming
    /\ confirming' = confirming \ {e}
    /\ note' = [note EXCEPT ![e] = "PENDING"]
    /\ UNCHANGED <<paymentVars, shipping, shipmentVars, batch>>

(* A listener lives in memory only.                                        *)
ListenerFails(e) ==
    /\ "listener" \in Faults
    /\ \/ e \in shipping /\ shipping' = shipping \ {e} /\ UNCHANGED confirming
       \/ e \in confirming /\ confirming' = confirming \ {e} /\ UNCHANGED shipping
    /\ UNCHANGED <<paymentVars, shipmentVars, noteVars>>

DueAnyway(e) == note[e] # None   \* mutant: the query does not filter by status
Due(e) == note[e] = "PENDING"

(* find({ where: PENDING, take: 50 }), in no particular order.  The job    *)
(* starts every ten seconds, also while an earlier run is still sending.   *)
StartPoll(p) ==
    LET due == {e \in Events : Due(e)} IN
    /\ batch[p] = {}
    /\ due # {}
    /\ \E B \in SUBSET due :
         /\ Cardinality(B) = BatchSize \/ (B = due /\ Cardinality(due) <= BatchSize)
         /\ batch' = [batch EXCEPT ![p] = B]
    /\ UNCHANGED <<paymentVars, listenerVars, shipmentVars, note>>

(* One iteration: DELIVERED, or FAILED when the sending or the save threw. *)
SendRow(p, e) ==
    /\ e \in batch[p]
    /\ \E result \in {"DELIVERED", "FAILED"} : note' = [note EXCEPT ![e] = result]
    /\ batch' = [batch EXCEPT ![p] = @ \ {e}]
    /\ UNCHANGED <<paymentVars, listenerVars, shipmentVars>>

SendNext(p) == \E e \in Events : SendRow(p, e)

(* The save in the catch block throws, or the process dies.                *)
PollFails(p) ==
    /\ "poll" \in Faults
    /\ batch[p] # {}
    /\ batch' = [batch EXCEPT ![p] = {}]
    /\ UNCHANGED <<paymentVars, listenerVars, shipmentVars, note>>

-----------------------------------------------------------------------------

Next ==
    \/ \E w \in Handlers : \/ \E e \in Events : Receive(w, e)
                           \/ ReadOrder(w)
                           \/ SaveOrder(w)
                           \/ CommitPayment(w)
                           \/ HookFails(w)
    \/ \E e \in Events : CreateShipment(e) \/ QueueConfirmation(e) \/ ListenerFails(e)
    \/ \E a \in Clerks : \/ \E op \in {"dispatch", "deliver"}, o \in Orders : ReadShipment(a, op, o)
                         \/ SaveShipment(a)
                         \/ ClerkFails(a)
    \/ \E p \in Polls : StartPoll(p) \/ SendNext(p) \/ PollFails(p)

Spec == Init /\ [][Next]_vars

(* The cron job starts for ever, and no run of it dies every time before   *)
(* it has saved its first row.  Nobody has to ship parcels, and no webhook *)
(* has to arrive.                                                          *)
Fairness == \A p \in Polls : WF_vars(StartPoll(p)) /\ SF_vars(SendNext(p))

FairSpec == Spec /\ Fairness

-----------------------------------------------------------------------------
(* What can go wrong                                                       *)

(* A payment event triggers side effects at most once, however often and   *)
(* however closely together the provider delivers it ("Webhook             *)
(* Idempotency", invariants.md): the event row is inserted first, and its  *)
(* unique constraint lets one delivery through.                            *)
EmittedAtMostOnce == \A e \in Events : emitted[e] <= 1

(* An order's status and the events marked PROCESSED tell the same story,  *)
(* also when transactions that read the order without a lock overlap, and  *)
(* whatever fails: an unpaid order has no processed event, any other has   *)
(* one with that outcome.                                                  *)
Processed(o) == {e \in Events : OrderOf[e] = o /\ recorded[e] = "PROCESSED"}

StatusMatchesEvents ==
    \A o \in Orders :
        IF status[o] = "PENDING_PAYMENT" THEN Processed(o) = {}
        ELSE \E e \in Processed(o) : status[o] = Outcome(e)

(* order.paid is emitted before the commit, so a shipment or confirmation  *)
(* may be early, and it remains when the commit fails.  But each has a     *)
(* successful payment behind it: committed, about to be, or rolled back    *)
(* after the emit, in which case its event row stays at PROCESSING and its *)
(* handler is gone.                                                        *)
Committing(e) == \E w \in Handlers : hook[w].step = "commit" /\ EventOf(w) = e
RolledBack(e) ==
    /\ emitted[e] = 1 /\ recorded[e] = "PROCESSING"
    /\ \A w \in Handlers : hook[w].step # "idle" => EventOf(w) # e

PaidFor(e) ==
    TypeOf[e] = "payment.succeeded" /\ (recorded[e] = "PROCESSED" \/ Committing(e))
Explained(e) == PaidFor(e) \/ (TypeOf[e] = "payment.succeeded" /\ RolledBack(e))

HasEffects(e) == e \in shipping \cup confirming \/ note[e] # None

EffectsAreExplained ==
    /\ \A e \in Events : HasEffects(e) => Explained(e)
    /\ \A o \in Orders : shipment[o] # None => \E e \in Events : OrderOf[e] = o /\ Explained(e)

(* A shipment goes through its states one by one and never back, however   *)
(* the administrators' requests interleave ("Entities cannot skip or       *)
(* reverse critical states", invariants.md).                               *)
ShipmentLifeCycle ==
    [][\A o \in Orders : shipment'[o] # shipment[o] =>
           <<shipment[o], shipment'[o]>> \in
               {<<None, "PENDING">>, <<"PENDING", "SHIPPED">>, <<"SHIPPED", "DELIVERED">>}]_vars

(* The event rows of a shipment are the states it went through, once each, *)
(* also when order.paid is emitted again for its order.                    *)
PassedThrough(s) ==
    CASE s = None        -> {}
      [] s = "PENDING"   -> {"PENDING"}
      [] s = "SHIPPED"   -> {"PENDING", "SHIPPED"}
      [] s = "DELIVERED" -> ShipmentStatuses

ShipmentHistory ==
    \A o \in Orders, s \in ShipmentStatuses :
        log[o][s] = IF s \in PassedThrough(shipment[o]) THEN 1 ELSE 0

(* A confirmation that is in the table is sent, or marked FAILED, in the   *)
(* end, although runs of the job overlap, die half-way, and take only a    *)
(* batch each ("If the server crashes, the Cron job will simply pick up    *)
(* the PENDING notifications upon restart", notifications.md).             *)
EveryNotificationIsTried ==
    \A e \in {d \in Events : Announces(d)} :
        (note[e] = "PENDING") ~> (note[e] \in {"DELIVERED", "FAILED"})

(* "The application layer must reject any transition not explicitly        *)
(* modeled here" (state-machines.md): none leads from PAID back to         *)
(* PENDING_PAYMENT or to PAYMENT_FAILED.                                   *)
PaidStaysPaid == [][\A o \in Orders : status[o] = "PAID" => status'[o] = "PAID"]_vars
=============================================================================
